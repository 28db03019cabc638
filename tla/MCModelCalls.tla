---------------------------- MODULE MCModelCalls ----------------------------
(***************************************************************************)
(* Small instances of the two ends of a call to the model: the breaker     *)
(* that picks who is called, and the streamed turn the call becomes.  They *)
(* share no state: a behaviour is one of one of them, and the other stays  *)
(* as it begins.                                                           *)
(***************************************************************************)
EXTENDS Breaker, StreamTurn

VARIABLE side

callVars == <<side, breakerVars, turnVars>>

Init == /\ side \in {"breaker", "turn"} /\ BreakerInit /\ TurnInit
        /\ side = "breaker" => ~signal /\ config = [escalate |-> 0, plain |-> FALSE]
        /\ side = "turn" => breaker.original = NoModel

OfBreaker(A) == side = "breaker" /\ A /\ UNCHANGED <<side, turnVars>>
OfTurn(A)    == side = "turn" /\ A /\ UNCHANGED <<side, breakerVars>>

Next == OfBreaker(BreakerNext) \/ OfTurn(TurnNext)

\* The fairness of FairBreakerSpec and of FairTurnSpec, on the side that is looked at.
FairSpec ==
  /\ Init /\ [][Next]_callVars
  /\ WF_callVars(OfBreaker(Cooldown)) /\ WF_callVars(OfBreaker(Ask))
  /\ WF_callVars(OfBreaker(Served \/ NotServed))
  /\ WF_callVars(OfTurn(Reacts \/ Open))
=============================================================================
