------------------------------ MODULE Analysis ------------------------------
(***************************************************************************)
(* What analyzing a query promises its caller, with no cache in sight: a   *)
(* goroutine asks about a query and eventually gets exactly the findings   *)
(* the analyzer has for it.  AnalysisCache implements it.                  *)
(***************************************************************************)
CONSTANTS
    Thread,    \* goroutines executing queries
    Query,     \* query strings
    Findings,  \* Findings[q]: what analyzer.Analyze returns for q
    Nothing    \* no answer has been given yet

VARIABLES stage, asked, answer

Init ==
    /\ stage = [t \in Thread |-> "idle"]
    /\ asked \in [Thread -> Query]
    /\ answer = [t \in Thread |-> Nothing]

Ask(t) ==
    /\ stage[t] = "idle"
    /\ stage' = [stage EXCEPT ![t] = "asked"]
    /\ \E q \in Query : asked' = [asked EXCEPT ![t] = q]
    /\ UNCHANGED answer

Answer(t) ==
    /\ stage[t] = "asked"
    /\ stage' = [stage EXCEPT ![t] = "answered"]
    /\ answer' = [answer EXCEPT ![t] = Findings[asked[t]]]
    /\ UNCHANGED asked

Take(t) ==
    /\ stage[t] = "answered"
    /\ stage' = [stage EXCEPT ![t] = "idle"]
    /\ answer' = [answer EXCEPT ![t] = Nothing]
    /\ UNCHANGED asked

Next == \E t \in Thread : Ask(t) \/ Answer(t) \/ Take(t)

vars == <<stage, asked, answer>>

Spec == Init /\ [][Next]_vars

\* Every question is answered.
FairSpec == Spec /\ \A t \in Thread : WF_vars(Answer(t))
=============================================================================
