----------------------------- MODULE Redaction -----------------------------
(***************************************************************************)
(* Redact, Fingerprint and IsMultiStatement (analyzer/redact.go) over the  *)
(* texts of SqlText.  d is a dialect: "unknown", "postgres" or "mysql".    *)
(***************************************************************************)
EXTENDS SqlText

\* Whether the double-quoted run with this body is a name and no string.
doubleQuotedIsIdent(body, d) ==
    \/ d = "postgres"
    \/ /\ d = "unknown"
       /\ body # << >>
       /\ body[1].char \in Letter \cup {"low"}
       /\ \A i \in DOMAIN body : body[i].char \in (isIdentByte \ {"u8"}) \cup {"$"}

\* A name in double quotes has no backslash escapes in Postgres.
DoubleQuoted(s, i, backslash, d) == scanQuotedRunClosed(s, i, backslash /\ d # "postgres")

LiteralPiece(s, i, backslash, d) ==
    CASE s[i].char = "'" -> Piece("redact", i, scanQuotedRun(s, i, backslash))
      [] s[i].char = "dq" ->
             LET run == DoubleQuoted(s, i, backslash, d)
                 name == run.closed /\ doubleQuotedIsIdent(SubSeq(s, i + 1, run.hi - 2), d)
             IN  Piece(IF name THEN "keep" ELSE "redact", i, run.hi)
      [] s[i].char = "bt" -> Piece("keep", i, scanQuotedRun(s, i, FALSE))
      [] s[i].char = "$" -> DollarPiece("redact", i, scanDollarQuoted(s, i))
      [] OTHER -> Byte(i)

literalSpans(s, backslash, d) == Pieces(s, [i \in DOMAIN s |-> LiteralPiece(s, i, backslash, d)])

\* unionSpans: overlapping and touching spans become one.
unionSpans(a, b) ==
    LET covered == UNION {p.lo .. p.hi - 1 : p \in a \cup b}
        end(lo) == Min({i \in lo .. Max(covered) + 1 : i \notin covered})
    IN  IF a = {} \/ b = {} THEN a \cup b
        ELSE {Piece("redact", lo, end(lo)) : lo \in {i \in covered : i - 1 \notin covered}}

BugRedactSpans(s, d) ==
    LET strict == literalSpans(s, TRUE, d)
    IN  [redact |-> Spans(strict, "redact"), keep |-> Spans(strict, "keep")]

\* The dialects disagree whether a backslash escapes a quote: what is a literal
\* in either reading is redacted.
redactSpans(s, d) ==
    LET loose == literalSpans(s, FALSE, d)
        strict == literalSpans(s, TRUE, d)
    IN  [redact |-> IF "\\" \in ToSet(Chars(s))
                    THEN unionSpans(Spans(loose, "redact"), Spans(strict, "redact"))
                    ELSE Spans(loose, "redact"),
         keep   |-> Spans(loose, "keep")]

EndOf(s, i, set) == FirstFrom(s, i, LAMBDA j : s[j].char \notin set)

scanRadixNumber(s, i) ==
    LET end == EndOf(s, i + 2, isDigit \cup {"a", "e"})
    IN  [ok |-> s[i].char = "0" /\ i < Len(s) /\ s[i + 1].char = "x" /\ end > i + 2,
         hi |-> end]

\* A radix form, or digits and points with an exponent.
scanNumber(s, i) ==
    LET mantissa == EndOf(s, i, isDigit \cup {"."})
        CharAt(j) == IF j <= Len(s) THEN s[j].char ELSE "end"
        digits == IF CharAt(mantissa + 1) \in {"+", "-"} THEN mantissa + 2 ELSE mantissa + 1
    IN  IF scanRadixNumber(s, i).ok THEN scanRadixNumber(s, i).hi
        ELSE IF CharAt(mantissa) = "e" /\ CharAt(digits) \in isDigit
             THEN EndOf(s, digits, isDigit)
             ELSE mantissa

\* A digit after one of these belongs to an identifier or a placeholder.
suppressesNumber == Letter \cup isDigit \cup {"low", "$", "@"} \cup Directive

\* One "?" for each span and each number of a text.
Redacted(text, spans) ==
    LET from[i \in 1 .. Len(text) + 1] ==
            [prev \in ToSet(Chars(text)) \cup {"?", "start"} |->
               IF i > Len(text) THEN << >>
               ELSE IF Inside(spans.redact, i) # {}
               THEN Write("?") \o from[(CHOOSE p \in Inside(spans.redact, i) : TRUE).hi]["?"]
               ELSE IF /\ text[i].char \in isDigit
                       /\ Inside(spans.keep, i) = {}
                       /\ prev \notin suppressesNumber
               THEN Write("?") \o from[scanNumber(text, i)]["?"]
               ELSE <<text[i]>> \o from[i + 1][text[i].char]]
    IN  from[1]["start"]

\* Redact: the comments go, then the literals.
redact(s, d) ==
    LET text == stripComments(s) IN Redacted(text, redactSpans(text, d))
-----------------------------------------------------------------------------
\* Fields joined by single spaces.
Collapsed(chars) ==
    LET visible == {i \in DOMAIN chars : chars[i] \notin Blank}
        kept == {i \in DOMAIN chars :
                   \/ i \in visible
                   \/ /\ i - 1 \in visible
                      /\ \E j \in visible : j > i}
        At(i) == IF i \in visible THEN chars[i] ELSE "sp"
        indices == SelectSeq([i \in DOMAIN chars |-> i], LAMBDA i : i \in kept)
    IN  [k \in DOMAIN indices |-> At(indices[k])]

\* A list of two placeholders or more, each after "," or ", ", is written (?).
FoldLists(chars) ==
    LET n == Len(chars)
        At(i) == IF i <= n THEN chars[i] ELSE "end"
        item(i) == IF At(i) # "comma" THEN 0
                   ELSE IF At(i + 1) = "?" THEN i + 2
                   ELSE IF At(i + 1) = "sp" /\ At(i + 2) = "?" THEN i + 3
                   ELSE 0
        end[i \in 1 .. n + 3] == IF item(i) = 0 THEN i ELSE end[item(i)]
        list(i) == /\ At(i) = "(" /\ At(i + 1) = "?"
                   /\ item(i + 2) # 0
                   /\ At(end[i + 2]) = ")"
        from[i \in 1 .. n + 1] ==
            IF i > n THEN << >>
            ELSE IF list(i) THEN <<"(", "?", ")">> \o from[end[i + 2] + 1]
            ELSE <<chars[i]>> \o from[i + 1]
    IN  from[1]

TrimRight(chars, set) ==
    LET kept == {i \in DOMAIN chars : chars[i] \notin set}
    IN  SubSeq(chars, 1, IF kept = {} THEN 0 ELSE Max(kept))

foldRedacted(chars) == TrimRight(FoldLists(Collapsed(chars)), {"semi", "sp"})

\* Fingerprint, of the package for d = "unknown", else of an Analyzer.
Fingerprint(text, d) == foldRedacted(Chars(redact(Bytes(text), d)))
-----------------------------------------------------------------------------
hasStatementSeparator(s) ==
    \E i \in DOMAIN s : /\ s[i].char = "semi"
                        /\ \E j \in i + 1 .. Len(s) : s[j].char \notin Blank

BugIsMultiStatement(text) ==
    hasStatementSeparator(blankLiterals(stripComments(Bytes(text)), TRUE))

\* Either reading of $ may show a separator the other hides.
IsMultiStatement(text) ==
    LET s == stripComments(Bytes(text))
    IN  \/ hasStatementSeparator(blankLiterals(s, TRUE))
        \/ hasStatementSeparator(blankLiterals(s, FALSE))
=============================================================================
