------------------------------ MODULE Approval ------------------------------
(***************************************************************************)
(* The parked-ask channel of src/ask.rs.  Calls park (park_hook_ask), each *)
(* with a completion slot in the shared map and a message in a bounded     *)
(* queue; the approver takes messages, answers by id, and may be dropped.  *)
(* The calls and the approver run on threads of their own: they meet at    *)
(* the lock of the map and in the queue.  A poisoned lock is left out.     *)
(***************************************************************************)
EXTENDS Integers, Sequences

CONSTANTS Ask,         \* the asks; an id is minted for each
          QueueSize,   \* capacity of the channel
          AskTimeout   \* whether the host set a deadline for asks

ASSUME ApprovalAssumption == QueueSize \in Nat \ {0} /\ AskTimeout \in BOOLEAN

VARIABLES
  park,      \* where the future of each ask is
  verdict,   \* what its call was told
  awaiting,  \* the asks with a slot in the map
  answer,    \* what was sent through an ask's one-shot channel
  outgoing,  \* the queue
  approver,  \* of the approver: in use, past the drain of its drop, or gone
  seen,      \* the asks it took from the queue
  accepted,  \* the answers for which it was told that they got there
  raised,    \* the cancel signal
  late       \* asks that parked after the drain

approvalVars == <<park, verdict, awaiting, answer, outgoing, approver, seen, accepted, raised, late>>

Resolution == {"Approve", "Deny"}
Verdict    == {"None", "Approved", "Denied", "Expired", "Cancelled"}

Parked == {i \in Ask : park[i] \in {"delivers", "waits"}}

\* resolve(): the slot is there before the ask is on its way.
Park(i) ==
  /\ park[i] = "idle" /\ park' = [park EXCEPT ![i] = "delivers"]
  /\ awaiting' = awaiting \cup {i}
  /\ late' = IF approver = "here" THEN late ELSE late \cup {i}
  /\ UNCHANGED <<verdict, answer, outgoing, approver, seen, accepted, raised>>

\* outgoing.send(): waits while the queue is full.
Deliver(i) ==
  /\ park[i] = "delivers" /\ approver # "gone" /\ Len(outgoing) < QueueSize
  /\ outgoing' = Append(outgoing, i) /\ park' = [park EXCEPT ![i] = "waits"]
  /\ UNCHANGED <<verdict, awaiting, answer, approver, seen, accepted, raised, late>>

\* The end of resolve(): AwaitSlot removes what is left of the slot.
Slotless_not(i) == awaiting   \* mutant: the guard of the slot is forgotten
Slotless(i) == awaiting \ {i}
Ends(i, v) == /\ park' = [park EXCEPT ![i] = "over"] /\ verdict' = [verdict EXCEPT ![i] = v]
              /\ awaiting' = Slotless(i)

Undeliverable(i) ==
  /\ park[i] = "delivers" /\ approver = "gone" /\ Ends(i, "Denied")
  /\ UNCHANGED <<answer, outgoing, approver, seen, accepted, raised, late>>

\* A sender that is gone without a word denies.
HearsAnswer(i) ==
  /\ park[i] = "waits" /\ i \notin awaiting
  /\ Ends(i, IF answer[i] = "Approve" THEN "Approved" ELSE "Denied")
  /\ UNCHANGED <<answer, outgoing, approver, seen, accepted, raised, late>>

\* The select around resolve(): the signal is asked first, then the answer,
\* then the deadline.  Until the future is dropped its receiver still accepts.
Lapses(i, v) == /\ park' = [park EXCEPT ![i] = "lapsed"]
                /\ verdict' = [verdict EXCEPT ![i] = v]
                /\ UNCHANGED <<awaiting, answer, outgoing, approver, seen, accepted, raised, late>>
Expire(i)    == /\ AskTimeout /\ Lapses(i, "Expired")
                /\ park[i] = "delivers" \/ (park[i] = "waits" /\ i \in awaiting)
CancelAsk(i) == raised /\ i \in Parked /\ Lapses(i, "Cancelled")

\* The future is dropped: its receiver first, then its slot.
DropReceiver(i) ==
  /\ park[i] = "lapsed" /\ park' = [park EXCEPT ![i] = "closed"]
  /\ UNCHANGED <<verdict, awaiting, answer, outgoing, approver, seen, accepted, raised, late>>
DropSlot(i) ==
  /\ park[i] = "closed" /\ Ends(i, verdict[i])
  /\ UNCHANGED <<answer, outgoing, approver, seen, accepted, raised, late>>

-----------------------------------------------------------------------------

Listening(i) == park[i] \notin {"closed", "over"}   \* the receiver is alive

NextPending ==
  /\ approver = "here" /\ outgoing # <<>>
  /\ seen' = seen \cup {Head(outgoing)} /\ outgoing' = Tail(outgoing)
  /\ UNCHANGED <<park, verdict, awaiting, answer, approver, accepted, raised, late>>

\* Approver::resolve, for any ask it has heard of, as often as it likes.
Unslotted_not(i) == awaiting   \* mutant: the slot is read and not removed
Unslotted(i) == awaiting \ {i}
Resolve(i, r) ==
  /\ approver = "here" /\ i \in seen
  /\ i \in awaiting /\ awaiting' = Unslotted(i)
  /\ IF Listening(i)
     THEN answer' = [answer EXCEPT ![i] = r] /\ accepted' = [accepted EXCEPT ![i] = Append(@, r)]
     ELSE UNCHANGED <<answer, accepted>>
  /\ UNCHANGED <<park, verdict, outgoing, approver, seen, raised, late>>

\* Dropping the approver: its slots are denied first, its queue closes later.
Drained_not == {}   \* mutant: a dropped approver leaves the slots as they are
Drained == awaiting
Drain ==
  /\ approver = "here" /\ approver' = "drained" /\ awaiting' = awaiting \ Drained
  /\ answer' = [i \in Ask |-> IF i \in Drained /\ Listening(i) THEN "Deny" ELSE answer[i]]
  /\ UNCHANGED <<park, verdict, outgoing, seen, accepted, raised, late>>
Close ==
  /\ approver = "drained" /\ approver' = "gone" /\ outgoing' = <<>>
  /\ UNCHANGED <<park, verdict, awaiting, answer, seen, accepted, raised, late>>

RaiseCancel == /\ ~raised /\ raised' = TRUE
               /\ UNCHANGED <<park, verdict, awaiting, answer, outgoing, approver, seen, accepted, late>>

ApprovalInit ==
  /\ park = [i \in Ask |-> "idle"] /\ verdict = [i \in Ask |-> "None"]
  /\ awaiting = {} /\ answer = [i \in Ask |-> "None"] /\ outgoing = <<>>
  /\ approver = "here" /\ seen = {} /\ accepted = [i \in Ask |-> <<>>]
  /\ raised = FALSE /\ late = {}

ApprovalNext ==
  \/ \E i \in Ask : \/ Park(i) \/ Deliver(i) \/ Undeliverable(i) \/ HearsAnswer(i)
                    \/ Expire(i) \/ CancelAsk(i) \/ DropReceiver(i) \/ DropSlot(i)
                    \/ \E r \in Resolution : Resolve(i, r)
  \/ NextPending \/ Drain \/ Close \/ RaiseCancel

ApprovalSpec == ApprovalInit /\ [][ApprovalNext]_approvalVars

-----------------------------------------------------------------------------

ApprovalTypeOK ==
  /\ park \in [Ask -> {"idle", "delivers", "waits", "lapsed", "closed", "over"}]
  /\ verdict \in [Ask -> Verdict] /\ awaiting \subseteq Ask
  /\ answer \in [Ask -> Resolution \cup {"None"}] /\ outgoing \in Seq(Ask)
  /\ approver \in {"here", "drained", "gone"} /\ seen \subseteq Ask
  /\ accepted \in [Ask -> Seq(Resolution)] /\ raised \in BOOLEAN /\ late \subseteq Ask

\* What the map of slots is for.  No slot outlives its wait; a wait without a
\* slot has its answer; an ask accepts one answer, and a call is approved only
\* by the answer its approver was told had got there; and a wait that began
\* before its approver was dropped is answered.
AsksAreAnsweredOnce ==
  /\ \A i \in awaiting : park[i] \notin {"idle", "over"}
  /\ \A i \in Parked \ awaiting : answer[i] # "None"
  /\ \A i \in Ask : /\ Len(accepted[i]) <= 1
                    /\ verdict[i] = "Approved" => accepted[i] = <<"Approve">>
                    /\ verdict[i] = "Denied" => accepted[i] # <<"Approve">>
  /\ approver # "here" => awaiting \cap Parked \subseteq late

\* "No run parks forever on an answerer that is gone": what nobody can answer
\* any more is not waited for.
NoneParksOnTheGone == approver = "gone" => \A i \in awaiting : park[i] # "waits"
=============================================================================
