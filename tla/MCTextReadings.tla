--------------------------- MODULE MCTextReadings ---------------------------
EXTENDS TextReadings

Escapes == {"'", "dq", "\\", "a", "sp"}
Comments == {"'", "--", "nl", "/*", "*/", "a", "semi"}
Mixed == {"'", "dq", "--", "nl", "semi"}
Dollars == {"$", "'", "semi", "a"}
Tags == {"$", "a", "1", "--", "nl"}
Names == {"dq", "bt", "'", "a", "1", "u8"}
Numbers == {"0", "1", "x", "e", ".", "a", "sp"}
Lists == {"(", ")", "1", "comma", "sp"}
Directives == {"one", "all", "'", "--", "nl", "#", "\\", "$"}
Quotes == {"'", "dq", "bt", "\\", "1"}
Backticks == {"bt", "'", "--", "sp", "a", "semi"}

MCAlphabets ==
    {Escapes, Comments, Mixed, Dollars, Tags, Names, Numbers, Lists, Directives, Quotes, Backticks}
MCMaxLen == [A \in MCAlphabets |->
    CASE A \in {Dollars, Quotes} -> 7
      [] A \in {Escapes, Mixed, Tags, Lists} -> 6
      [] OTHER -> 5]

\* Comments within comments, and what may follow them.
MCNesting == {{"/*", "*/", "'", "semi", "a"}}
MCNestingLen == [A \in MCNesting |-> 7]
=============================================================================
