------------------------------ MODULE SqlText ------------------------------
(***************************************************************************)
(* The lexical scanners of package analyzer that Redaction and Suppression *)
(* share (redact.go, fallback.go, suppress.go).                            *)
(*                                                                         *)
(* A text is a sequence of characters; only those the scanners tell apart  *)
(* are named: the letters are "a", "e" and "x", the digits "0" and "1",    *)
(* "u8" is a byte of a non-ASCII letter, "low" an underscore, "sp" a blank,*)
(* "nl" a newline, "bt" a backtick, "dq" a double quote, "semi" and "comma"*)
(* what they say; "all" and "one" are a sqlguard:ignore directive without  *)
(* and with a rule.  The comment markers "--", "/*" and "*/" are one       *)
(* character each.                                                         *)
(*                                                                         *)
(* What a scanner returns is a sequence of bytes, each with the position   *)
(* it was copied from, or 0 for one the code writes itself.                *)
(***************************************************************************)
EXTENDS Naturals, Sequences, FiniteSets, FiniteSetsExt, SequencesExt

Letter == {"a", "e", "x"}
isDigit == {"0", "1"}
isIdentByte == Letter \cup isDigit \cup {"low", "u8"}
Directive == {"all", "one"}
Quote == {"'", "dq"}
Blank == {"sp", "nl"}

Bytes(text) == [i \in DOMAIN text |-> [char |-> text[i], at |-> i]]
Write(char) == <<[char |-> char, at |-> 0]>>
Chars(s) == [i \in DOMAIN s |-> s[i].char]

\* The first place at or after i that Test finds, or just past the end.
FirstFrom(s, i, Test(_)) ==
    LET found == {j \in i .. Len(s) : Test(j)}
    IN  IF found = {} THEN Len(s) + 1 ELSE Min(found)

\* The piece of a text from lo up to hi, hi excluded.
Piece(kind, lo, hi) == [kind |-> kind, lo |-> lo, hi |-> hi]
Byte(i) == Piece("byte", i, i + 1)

\* The loop of every scanner: it takes the piece at i and goes on where that ends.
Pieces(s, pieceAt) ==
    LET from[i \in 1 .. Len(s) + 1] ==
            IF i > Len(s) THEN << >> ELSE <<pieceAt[i]>> \o from[pieceAt[i].hi]
    IN  from[1]

\* What the scanner writes for its pieces, one after the other.
Written(pieces, Write1(_)) == FlattenSeq([k \in DOMAIN pieces |-> Write1(pieces[k])])

Copy(s, p) == SubSeq(s, p.lo, p.hi - 1)

Spans(pieces, kind) == {p \in ToSet(pieces) : p.kind = kind}
Inside(spans, i) == {p \in spans : p.lo <= i /\ i < p.hi}
-----------------------------------------------------------------------------
\* The end of the quoted run that opens at i, and whether its quote closed it:
\* a doubled quote does not, nor one after a backslash where those escape.
\* copyStringLiteral and blankQuotedRun find the end of a run the same way.
scanQuotedRunClosed(s, i, backslash) ==
    LET q == s[i].char
        from[j \in i + 1 .. Len(s) + 2] ==
            IF j > Len(s) THEN [hi |-> Len(s) + 1, closed |-> FALSE]
            ELSE IF backslash /\ s[j].char = "\\" THEN from[j + 2]
            ELSE IF s[j].char # q THEN from[j + 1]
            ELSE IF j < Len(s) /\ s[j + 1].char = q THEN from[j + 2]
            ELSE [hi |-> j + 1, closed |-> TRUE]
    IN  from[i + 1]

scanQuotedRun(s, i, backslash) == scanQuotedRunClosed(s, i, backslash).hi

BugScanDollarQuoted(s, i) ==
    LET end == FirstFrom(s, i + 1, LAMBDA j : s[j].char \notin isIdentByte)
        tagLen == end + 1 - i
        closing == FirstFrom(s, end + 1, LAMBDA j :
                       /\ j + tagLen - 1 <= Len(s)
                       /\ \A k \in 0 .. tagLen - 1 : s[j + k].char = s[i + k].char)
    IN  [ok  |-> /\ end <= Len(s) /\ s[end].char = "$"
                 /\ s[i + 1].char \notin isDigit
                 /\ closing <= Len(s),
         tag |-> tagLen,
         hi  |-> closing + tagLen]

\* The dollar-quoted string that opens at i, if one does: not after a byte of an
\* identifier, nor as $1.  One that nothing closes runs to the end.
scanDollarQuoted(s, i) ==
    LET end == FirstFrom(s, i + 1, LAMBDA j : s[j].char \notin isIdentByte)
        tagLen == end + 1 - i
        closing == FirstFrom(s, end + 1, LAMBDA j :
                       /\ j + tagLen - 1 <= Len(s)
                       /\ \A k \in 0 .. tagLen - 1 : s[j + k].char = s[i + k].char)
    IN  [ok  |-> /\ ~(i > 1 /\ s[i - 1].char \in isIdentByte \cup Directive)
                 /\ end <= Len(s) /\ s[end].char = "$"
                 /\ s[i + 1].char \notin isDigit,
         tag |-> tagLen,
         hi  |-> IF closing > Len(s) THEN closing ELSE closing + tagLen]

\* What a scanner takes at a "$".
DollarPiece(kind, i, quoted) == IF quoted.ok THEN Piece(kind, i, quoted.hi) ELSE Byte(i)

skipLineComment(s, i) == FirstFrom(s, i, LAMBDA j : s[j].char = "nl")

skipBlockComment(s, i) ==
    LET end == FirstFrom(s, i + 1, LAMBDA j : s[j].char = "*/")
    IN  IF end > Len(s) THEN end ELSE end + 1
-----------------------------------------------------------------------------
\* What stripComments takes at i: quoted runs and dollar-quoted strings are
\* opaque, backticks and # are not its business.
StripPiece(s, i) ==
    CASE s[i].char \in Quote -> Piece("copy", i, scanQuotedRun(s, i, FALSE))
      [] s[i].char = "$"  -> DollarPiece("copy", i, scanDollarQuoted(s, i))
      [] s[i].char = "--" -> Piece("comment", i, skipLineComment(s, i))
      [] s[i].char = "/*" -> Piece("comment", i, skipBlockComment(s, i))
      [] OTHER            -> Byte(i)

\* A comment becomes a space.
stripComments(s) ==
    Written(Pieces(s, [i \in DOMAIN s |-> StripPiece(s, i)]),
            LAMBDA p : IF p.kind = "comment" THEN Write("sp") ELSE Copy(s, p))

BlankPiece(s, i, dollarQuotes, backticks) ==
    CASE dollarQuotes /\ s[i].char = "$" -> DollarPiece("dollar", i, scanDollarQuoted(s, i))
      [] \/ s[i].char \in Quote
         \/ backticks /\ s[i].char = "bt" /\ \E j \in i + 1 .. Len(s) : s[j].char = "bt" ->
             Piece("quoted", i, scanQuotedRun(s, i, FALSE))
      [] OTHER -> Byte(i)

BugBlankQuoted(s, dollarQuotes, backticks) ==
    Written(Pieces(s, [i \in DOMAIN s |-> BlankPiece(s, i, FALSE, backticks)]),
            LAMBDA p :
              CASE p.kind = "byte"   -> Copy(s, p)
                [] p.kind = "quoted" -> Write(s[p.lo].char) \o Write(s[p.lo].char))

\* blankQuoted: literals lose their contents, a backtick run keeps an x.
blankQuoted(s, dollarQuotes, backticks) ==
    Written(Pieces(s, [i \in DOMAIN s |-> BlankPiece(s, i, dollarQuotes, backticks)]),
            LAMBDA p :
              CASE p.kind = "byte"   -> Copy(s, p)
                [] p.kind = "dollar" ->
                     LET tag == SubSeq(s, p.lo, p.lo + scanDollarQuoted(s, p.lo).tag - 1)
                     IN  tag \o tag
                [] p.kind = "quoted" ->
                     Write(s[p.lo].char)
                       \o (IF s[p.lo].char = "bt" THEN Write("x") ELSE << >>)
                       \o Write(s[p.lo].char))

blankStringLiterals(s) == blankQuoted(s, TRUE, TRUE)
blankLiterals(s, dollarQuotes) == blankQuoted(s, dollarQuotes, FALSE)
=============================================================================
