---------------------------- MODULE TextReadings ----------------------------
(***************************************************************************)
(* Redaction and Suppression against the databases that read the text.     *)
(* A text is written one character at a time; each database reads along,   *)
(* as a small automaton that knows after each character what that          *)
(* character belonged to.  The code reads the whole text, with scanners    *)
(* that have to do for every database, and must be right about all.        *)
(***************************************************************************)
EXTENDS Redaction, Suppression

CONSTANTS
    Alphabets,  \* sets of characters; a text is over one of them
    MaxLen      \* the longest text over an alphabet

VARIABLES
    alphabet,
    text,    \* what is written
    mode,    \* mode[R]: what the database R is in the middle of
    kinds,   \* kinds[R][i]: what text[i] belongs to for the database R
    nested   \* history: the databases that met a comment within a comment

vars == <<alphabet, text, mode, kinds, nested>>

\* How a database reads: in which quotes a backslash escapes, which quotes are
\* of strings and which of names, whether comments nest, and what else it knows.
Databases ==
    [postgres    |-> [escapes |-> {}, strings |-> {"'"}, names |-> {"dq"}, nests |-> TRUE,
                      dollar |-> TRUE, hash |-> FALSE, looseDash |-> TRUE],
     postgresE   |-> [escapes |-> {"'"}, strings |-> {"'"}, names |-> {"dq"}, nests |-> TRUE,
                      dollar |-> TRUE, hash |-> FALSE, looseDash |-> TRUE],
     mysql       |-> [escapes |-> Quote, strings |-> Quote, names |-> {"bt"}, nests |-> FALSE,
                      dollar |-> FALSE, hash |-> TRUE, looseDash |-> FALSE],
     mysqlPlain  |-> [escapes |-> {}, strings |-> Quote, names |-> {"bt"}, nests |-> FALSE,
                      dollar |-> FALSE, hash |-> TRUE, looseDash |-> FALSE],
     sqlite      |-> [escapes |-> {}, strings |-> {"'"}, names |-> {"dq", "bt"}, nests |-> FALSE,
                      dollar |-> FALSE, hash |-> FALSE, looseDash |-> TRUE]]

Reader == DOMAIN Databases

\* What a database is in the middle of; of a dollar-quoted string it knows the
\* tag, and how much of a closing delimiter it has matched, and of a comment
\* the openings of those nested in it that are open.
Mode(in, quote, tag, match) == [in |-> in, quote |-> quote, tag |-> tag, match |-> match]
InRun(what, q) == Mode(what, q, << >>, << >>)
In(what) == InRun(what, "none")
InTag(what, tag, match) == Mode(what, "none", tag, match)
Plain == In("plain")

\* What c begins outside everything; prev is the character before it.
Begins(R, c, prev) ==
    LET db == Databases[R]
    IN  CASE c \in db.strings -> InRun("string", c)
          [] c \in db.names -> InRun("name", c)
          [] c = "$" /\ db.dollar /\ prev \notin isIdentByte \cup Directive -> In("tag")
          [] c = "--" -> In(IF db.looseDash THEN "comment" ELSE "dash")
          [] c = "#" /\ db.hash -> In("comment")
          [] c = "/*" -> In("block")
          [] OTHER -> Plain

\* A comment begins within one.
Nests(R, m, c) == m.in = "block" /\ c = "/*" /\ Databases[R].nests

\* What the database R is in the middle of after c.
Reads(R, m, c, prev) ==
    CASE m.in \in {"string", "name"} ->
           IF c = "\\" /\ m.quote \in Databases[R].escapes THEN InRun("escape", m.quote)
           ELSE IF c = m.quote THEN Mode("closed", c, <<m.in>>, << >>)
           ELSE m
      [] m.in = "escape" -> InRun("string", m.quote)
      [] m.in = "closed" ->
           IF c = m.quote THEN InRun(m.tag[1], c) ELSE Begins(R, c, prev)
      [] m.in = "tag" ->
           IF c \in isIdentByte /\ (m.tag = << >> => c \notin isDigit)
           THEN InTag("tag", Append(m.tag, c), << >>)
           ELSE IF c = "$" THEN InTag("dollar", m.tag, << >>)
           ELSE Begins(R, c, prev)
      [] m.in = "dollar" ->
           LET delimiter == <<"$">> \o m.tag
           IN  IF c = "$" /\ m.match = delimiter THEN Plain
               ELSE IF IsPrefix(Append(m.match, c), delimiter)
               THEN InTag("dollar", m.tag, Append(m.match, c))
               ELSE InTag("dollar", m.tag, IF c = "$" THEN <<"$">> ELSE << >>)
      [] m.in = "dash" ->
           IF c = "sp" THEN In("comment") ELSE IF c = "nl" THEN Plain ELSE Begins(R, c, prev)
      [] m.in = "comment" -> IF c = "nl" THEN Plain ELSE m
      [] m.in = "block" ->
           IF Nests(R, m, c) THEN InTag("block", Append(m.tag, c), << >>)
           ELSE IF c # "*/" THEN m
           ELSE IF m.tag = << >> THEN Plain
           ELSE InTag("block", Tail(m.tag), << >>)
      [] m.in = "plain" -> Begins(R, c, prev)

\* What the character belongs to that took the database from m to next.
Kind(m, next) ==
    IF m.in = "block" THEN "comment"
    ELSE CASE next.in \in {"string", "escape"} ->
                IF next.quote = "'" THEN "literal" ELSE "double-quoted"
           [] next.in = "name"   -> IF next.quote = "bt" THEN "backticked" ELSE "name"
           [] next.in = "dollar" -> "literal"
           [] next.in = "block"  -> "comment"
           [] next.in = "closed" -> "plain"
           [] OTHER -> next.in

Init ==
    /\ alphabet \in Alphabets
    /\ text = << >>
    /\ mode = [R \in Reader |-> Plain]
    /\ kinds = [R \in Reader |-> << >>]
    /\ nested = {}

Type(c) ==
    LET prev == IF text = << >> THEN "start" ELSE Last(text)
        next == [R \in Reader |-> Reads(R, mode[R], c, prev)]
    IN  /\ Len(text) < MaxLen[alphabet]
        /\ text' = Append(text, c)
        /\ mode' = next
        /\ kinds' = [R \in Reader |-> Append(kinds[R], Kind(mode[R], next[R]))]
        /\ nested' = nested \cup {R \in Reader : Nests(R, mode[R], c)}
        /\ UNCHANGED alphabet

Next == \E c \in alphabet : Type(c)

Spec == Init /\ [][Next]_vars
-----------------------------------------------------------------------------
ReadersOf == [unknown  |-> Reader,
              postgres |-> {"postgres", "postgresE"},
              mysql    |-> {"mysql", "mysqlPlain"}]
Dialect == DOMAIN ReadersOf

\* Only some databases know backticks.
KnowsQuotes(R) == "bt" \in ToSet(text) => "bt" \in Databases[R].names

\* No name in backticks holds what the scanners that do not know them take for
\* the beginning of something else.
PlainNames(R) ==
    \A i \in DOMAIN text : kinds[R][i] = "backticked" => text[i] \notin Quote \cup {"$", "--", "/*"}

\* The text is one of R's: where $ opens no string it is part of a name.  And R
\* found no comment in a comment: for the scanners the first "*/" ends both.
Fits(R) ==
    /\ R \notin nested
    /\ KnowsQuotes(R)
    /\ PlainNames(R)
    /\ ~Databases[R].dollar =>
         \A i \in DOMAIN text : text[i] = "$" /\ kinds[R][i] = "plain" =>
                               i > 1 /\ text[i - 1] \in isIdentByte

Payload == {i \in DOMAIN text : text[i] \in Letter \cup isDigit}
String(R, i) == kinds[R][i] \in {"literal", "double-quoted"}
Survivors(s) == {s[i].at : i \in DOMAIN s}

\* Every database finds the same comments in the text: there is no #, and each
\* "--" is followed by a blank.
SameComments ==
    /\ "#" \notin ToSet(text)
    /\ \A i \in DOMAIN text : text[i] = "--" /\ i < Len(text) => text[i + 1] \in Blank

\* The scanners are those of the unknown dialect unless there is a double quote.
Distinct(d) == d = "unknown" \/ "dq" \in ToSet(text)

Directed == Directive \cap ToSet(text) # {}

\* Between double quotes and shaped like a name: without a dialect it is taken
\* for one (redact.go: doubleQuotedIsIdent).
NameShaped(i) ==
    \E lo \in 1 .. i - 1, hi \in i + 1 .. Len(text) :
      /\ text[lo] = "dq" /\ text[hi] = "dq"
      /\ text[lo + 1] \in Letter \cup {"low"}
      /\ \A j \in lo + 1 .. hi - 1 : text[j] \in (isIdentByte \ {"u8"}) \cup {"$"}

WordByte == isIdentByte \cup {"$", "@", "."}

\* What follows the sign at i is the exponent of a number.
ExponentSign(i) ==
    text[i] \in {"+", "-"} /\ text[i - 1] = "e" /\ text[i - 2] \in isDigit \cup {"."}

\* The text from lo to hi is a number, and a word of its own.
Number(lo, hi) ==
    LET All(i, j, set) == i <= j /\ \A k \in i .. j : text[k] \in set
        decimal(i, j) == All(i, j, isDigit \cup {"."}) /\ text[i] # "."
    IN  /\ lo > 1 => text[lo - 1] \notin WordByte
        /\ ~(lo > 3 /\ ExponentSign(lo - 1))
        /\ hi < Len(text) => text[hi + 1] \notin WordByte
        /\ \/ decimal(lo, hi)
           \/ text[lo] = "0" /\ lo < hi /\ text[lo + 1] = "x" /\ All(lo + 2, hi, isDigit \cup {"a", "e"})
           \/ \E m \in lo + 1 .. hi - 1 :
                /\ decimal(lo, m - 1) /\ text[m] = "e"
                /\ \/ All(m + 1, hi, isDigit)
                   \/ text[m + 1] \in {"+", "-"} /\ All(m + 2, hi, isDigit)

InNumber(R, i) ==
    \E lo \in 1 .. i, hi \in i .. Len(text) :
      Number(lo, hi) /\ \A j \in lo .. hi : kinds[R][j] = "plain"

\* The text holds no escape for the database R.
Unescaped(R) == "\\" \in ToSet(text) => Databases[R].escapes = {}

\* R escapes between "'" only and the text has both kinds of quotes: the scanners
\* of the unknown dialect escape in both or in none, and read as R in neither.
EscapesApart(R) == {"\\", "dq"} \subseteq ToSet(text) /\ Databases[R].escapes = {"'"}

\* Names are found without escapes, so one may be found where R has a number.
NamesApart(R) == ~Unescaped(R) /\ {"dq", "bt"} \cap ToSet(text) # {}

\* stripComments takes out what is a comment for R.  It knows no escapes, and may
\* find a quote, and so a comment, where a database that does finds none.
CommentsFound(R) ==
    LET kept == Survivors(stripComments(Bytes(text)))
    IN  \A i \in DOMAIN text : i \in kept <=> kinds[R][i] \notin {"comment", "dash"}

\* No letter or digit of a string or a number is in what Redact returns,
\* whichever database of the dialect reads the text, but for those that found
\* a comment in a comment (Fits) or read escapes as no scanner of the dialect
\* does (redact.go: redactSpans, stripComments; SECURITY.md).
LiteralsRedacted ==
    SameComments /\ ~Directed =>
      LET reads == {R \in Reader : Fits(R) /\ (Unescaped(R) \/ CommentsFound(R))}
      IN  \A d \in {d \in Dialect : Distinct(d)} :
            LET left == Survivors(redact(Bytes(text), d)) \cap Payload
            IN  \A R \in ReadersOf[d] \cap reads, i \in left :
                  /\ String(R, i) =>
                       /\ d = "unknown"
                       /\ EscapesApart(R) \/ (kinds[R][i] = "double-quoted" /\ NameShaped(i))
                  /\ InNumber(R, i) => NamesApart(R)

\* The word of i is a number, or begins like one.
DigitWord(i) ==
    \E lo \in 1 .. i : /\ text[lo] \in isDigit
                       /\ \A j \in lo .. i : text[j] \in WordByte \cup {"+", "-"}

\* Every database of the dialect takes the text, and finds i in what is of kind.
AllFind(d, i, kind) == \A R \in ReadersOf[d] : Fits(R) /\ kinds[R][i] \in kind

\* The text without a byte of a literal; the byte is not next to a "\" or "$".
Variants(d) ==
    LET Neighbour(i) == i \in DOMAIN text /\ text[i] \in {"\\", "$"}
    IN  {RemoveAt(text, i) : i \in {i \in Payload : /\ AllFind(d, i, {"literal"})
                                                  /\ ~Neighbour(i - 1)
                                                  /\ ~Neighbour(i + 1)}}

\* The words of the text that are neither literals nor numbers.
Structural(d) ==
    LET kind == IF "dq" \in ToSet(text) THEN {"plain"} ELSE {"plain", "backticked"}
    IN  {i \in DOMAIN text : text[i] \in Letter /\ ~DigitWord(i) /\ AllFind(d, i, kind)}

\* What print has to stand for to be the text's fingerprint.
Identifies(print, d) ==
    LET again == IF Distinct(d) /\ {"\\", "$"} \cap ToSet(text) = {} THEN {print} ELSE {}
    IN  \A same \in Variants(d) \cup again : Fingerprint(same, d) = print

\* A fingerprint stands for all texts that differ in the contents of a literal,
\* loses none of their structure, and is its own fingerprint, if all databases
\* of the dialect take the text (redact.go: Fingerprint, foldRedacted).
FingerprintIdentifies ==
    SameComments /\ ~Directed =>
      \A d \in Dialect :
        /\ Identifies(Fingerprint(text, d), d)
        /\ Structural(d) \subseteq Survivors(redact(Bytes(text), d))

\* No "$" of the text can hide a comment from a database that does not know it.
CommentsApart == "$" \notin ToSet(text) \/ {"--", "/*"} \cap ToSet(text) = {}

\* For the database R a statement follows another.
Separated(R) ==
    \E i, j \in DOMAIN text :
      /\ i < j
      /\ text[i] = "semi" /\ kinds[R][i] = "plain"
      /\ text[j] \notin Blank /\ kinds[R][j] \notin {"comment", "dash"}

\* A separator is seen that one of the databases sees, if it found no comment in a
\* comment, and without a "$" no other (redact.go: IsMultiStatement runs both
\* readings of "$", since each is blind to a separator the other shows).
SeparatorSeen ==
    SameComments /\ ~Directed =>
      LET sees == {R \in Reader :
                     /\ R \notin nested
                     /\ KnowsQuotes(R) /\ PlainNames(R) /\ Unescaped(R) /\ Separated(R)
                     /\ Databases[R].dollar \/ CommentsApart}
      IN  /\ sees # {} => IsMultiStatement(text)
          /\ {"$", "\\", "bt"} \cap ToSet(text) = {} /\ sees = {} => ~IsMultiStatement(text)

\* A separator that any of the databases sees is seen, behind whatever comments
\* (redact.go:115, "IsMultiStatement must never miss a statement separator").
SeparatorNeverMissed == (\E R \in Reader : Separated(R)) => IsMultiStatement(text)

HeardWhereVisible(off) ==
    LET commented(D) == \E i \in DOMAIN text :
                          text[i] \in D /\ \A R \in Reader : kinds[R][i] = "comment"
        heard(R, D) == \E i \in DOMAIN text :
                         text[i] \in D /\ kinds[R][i] \in {"plain", "comment"}
        readers == {R \in Reader \ nested : KnowsQuotes(R) /\ ~EscapesApart(R)}
    IN  /\ off.all => \A R \in readers : heard(R, {"all"})
        /\ off.rules # {} => \A R \in readers : heard(R, Directive)
        /\ SameComments /\ {"\\", "$"} \cap ToSet(text) = {} =>
             /\ commented({"all"}) => off.all
             /\ commented({"one"}) => off.all \/ off.rules # {}

\* A rule is off only by a directive that is outside every literal for every
\* database whose escapes are those of a scanner and which found no comment in a
\* comment; and, in a text without a "\" or a "$" whose comments are the same for
\* all, by each directive in a comment (suppress.go: parseIgnoreDirective,
\* intersectDirectives).
DirectiveOutsideLiterals == Directed => HeardWhereVisible(parseIgnoreDirective(text))

\* The words the fallback parser looks for are those of the statement: none is
\* inside a literal, a name or a comment, and none is lost to one, for each
\* database the text fits (fallback.go: blankStringLiterals after stripComments).
KeywordsSeen ==
    SameComments /\ ~Directed =>
      LET seen == Survivors(blankStringLiterals(stripComments(Bytes(text))))
      IN  \A R \in {R \in Reader : Fits(R) /\ Unescaped(R)}, i \in DOMAIN text :
            text[i] \in Letter /\ kinds[R][i] # "tag" /\ mode[R].in # "name"
            => (i \in seen <=> kinds[R][i] = "plain")
=============================================================================
