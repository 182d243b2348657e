---------------------------- MODULE Suppression ----------------------------
(***************************************************************************)
(* Which rules a sqlguard:ignore directive in a comment of the SQL turns   *)
(* off (analyzer/suppress.go), over the texts of SqlText: "all" is a bare  *)
(* directive, "one" names the rule "r".                                    *)
(***************************************************************************)
EXTENDS SqlText

\* What a directive turns off: every rule, or those it names.
Off(all, rules) == [all |-> all, rules |-> rules]
Nothing == Off(FALSE, {})

isLineComment(s, i, hash, looseDash) ==
    \/ s[i].char = "#" /\ hash
    \/ /\ s[i].char = "--"
       /\ looseDash \/ i = Len(s) \/ s[i + 1].char \in Blank

LexPiece(s, i, backslash, dollar, hash, looseDash) ==
    CASE s[i].char \in Quote \cup {"bt"} ->
             Piece("literal", i, scanQuotedRun(s, i, backslash /\ s[i].char # "bt"))
      [] s[i].char = "$" /\ dollar -> DollarPiece("literal", i, scanDollarQuoted(s, i))
      [] isLineComment(s, i, hash, looseDash) -> Piece("comment", i, skipLineComment(s, i))
      [] s[i].char = "/*" -> Piece("comment", i, skipBlockComment(s, i))
      [] OTHER -> Byte(i)

\* lexSQL: the comments, or the literals, of one reading.
lexSQL(s, backslash, dollar, hash, looseDash, kind) ==
    Spans(Pieces(s, [i \in DOMAIN s |-> LexPiece(s, i, backslash, dollar, hash, looseDash)]), kind)

BugCommentDirective(s, backslash, dollar) ==
    LET comments == lexSQL(s, backslash, dollar, TRUE, TRUE, "comment")
        literals == lexSQL(s, backslash, dollar, TRUE, TRUE, "literal")
        heard == {i \in DOMAIN s : /\ s[i].char \in Directive
                                   /\ Inside(comments, i) # {}
                                   /\ Inside(literals, i) = {}}
    IN  IF \E i \in heard : s[i].char = "all" THEN Off(TRUE, {})
        ELSE Off(FALSE, {"r" : i \in heard})

\* The directives in comments, the markers of every dialect counted, that no
\* reading of those markers puts into a literal.
commentDirective(s, backslash, dollar) ==
    LET comments == lexSQL(s, backslash, dollar, TRUE, TRUE, "comment")
        literals == UNION {lexSQL(s, backslash, dollar, hash, looseDash, "literal") :
                             hash, looseDash \in BOOLEAN}
        heard == {i \in DOMAIN s : /\ s[i].char \in Directive
                                   /\ Inside(comments, i) # {}
                                   /\ Inside(literals, i) = {}}
    IN  IF \E i \in heard : s[i].char = "all" THEN Off(TRUE, {})
        ELSE Off(FALSE, {"r" : i \in heard})

intersectDirectives(a, b) ==
    CASE a.all /\ b.all   -> Off(TRUE, {})
      [] a.all /\ ~b.all  -> b
      [] ~a.all /\ b.all  -> a
      [] ~a.all /\ ~b.all -> Off(FALSE, a.rules \cap b.rules)

\* What each reading of backslashes and dollars turns off; a reading without the
\* character it is about is not tried.
directiveReadings(text) ==
    LET backslashes == {b \in BOOLEAN : b => "\\" \in ToSet(text)}
        dollars == {d \in BOOLEAN : d \/ "$" \in ToSet(text)}
    IN  {commentDirective(Bytes(text), b, d) : b \in backslashes, d \in dollars}

\* What all of them turn off.
parseIgnoreDirective(text) ==
    IF Directive \cap ToSet(text) = {} THEN Nothing
    ELSE FoldSet(intersectDirectives, Off(TRUE, {}), directiveReadings(text))
=============================================================================
