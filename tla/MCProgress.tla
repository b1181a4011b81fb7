------------------------------ MODULE MCProgress ------------------------------
(***************************************************************************)
(* What must happen in the end, for TLC: a change reaches the page that    *)
(* watches (LiveUpdates, the record of one operation and the register of   *)
(* all), a farewell is followed by the transfer (LiveHandoff), a message   *)
(* is settled (MessageOutbox) and expired evidence is erased               *)
(* (EvidenceRetention, recordings and text).  These modules share no state *)
(* here: in a behaviour one of them moves, under its own fairness, and the *)
(* others stay as they began.                                              *)
(***************************************************************************)
EXTENDS LiveUpdates

CONSTANTS o1, o2, p1, p2, c1, c2, r1, r2, None

VARIABLES
  moving,
  chosen,  \* the transaction whose showing is awaited
  cases, directory, outcome, controls, coord, tool, openai, refer, past, handoffFaults, edits,
  operation, outbox, previews, sender, lock, sent, mishaps,
  calls, order, text, inserts, spoken, recs, audio, callbacks, worker, disposalFaults

live == vars
handoff == <<cases, directory, outcome, controls, coord, tool, openai, refer, past, handoffFaults, edits>>
delivery == <<operation, outbox, previews, sender, lock, sent, mishaps>>
disposal == <<calls, order, text, inserts, spoken, recs, audio, callbacks, worker, disposalFaults>>
everything == <<live, handoff, delivery, disposal, moving, chosen>>

Register == INSTANCE LiveUpdates WITH
  Scope <- "register", Ops <- {o1}, MaxDrops <- 0, MaxFaults <- 0

\* One recipient, whom nobody edits.
Handoff == INSTANCE LiveHandoff WITH
  Recipients <- 1, MaxCases <- 2, MaxResponses <- 3, MaxEdits <- 0, MaxFaults <- 1,
  agent <- controls, faults <- handoffFaults

\* One message, two workers, three attempts.
Delivery == INSTANCE MessageOutbox WITH
  Channel <- "sms", Mode <- "live", MaxBookings <- 0, RetryLimit <- 3, Batch <- 1, MaxMishaps <- 2,
  Errors <- {0, 400, 429, 550}, Process <- {p1, p2}, op <- operation, proc <- sender

Notice == [kind |-> "cancellation", booking |-> 0, to |-> "client"]

\* A recording each, one of which Twilio will not delete.
OwnEach == [r \in {r1, r2} |-> IF r = r1 THEN c1 ELSE c2]
Audio == INSTANCE EvidenceRetention WITH
  Calls <- {c1, c2}, Recordings <- {r1, r2}, Processes <- {p1}, Owner <- OwnEach, Stuck <- {r1},
  Batch <- 1, MaxSegments <- 0, MaxFaults <- 0, proc <- worker, faults <- disposalFaults
\* Segments only, two workers.
NoOwner == [r \in {} |-> c1]
Text == INSTANCE EvidenceRetention WITH
  Calls <- {c1, c2}, Recordings <- {}, Processes <- {p1}, Owner <- NoOwner, Stuck <- {},
  Batch <- 2, MaxSegments <- 1, MaxFaults <- 1, proc <- worker, faults <- disposalFaults

ASSUME /\ Register!LiveAssumption /\ LiveAssumption /\ Handoff!HandoffAssumption
       /\ Audio!RetentionAssumption /\ Text!RetentionAssumption

Start ==
  /\ moving \in {"record", "register", "handoff", "delivery", "audio", "text"}
  /\ chosen \in IF moving \in {"record", "register"} THEN Tx ELSE {1}
  /\ IF moving = "register" THEN Register!Init ELSE Init
  /\ Handoff!Init /\ Delivery!Init
  /\ IF moving = "text" THEN Text!Init
     ELSE Audio!Init /\ (moving # "audio" => order[c1] = 1)

Step ==
  \/ moving = "record" /\ Next /\ UNCHANGED <<handoff, delivery, disposal, moving, chosen>>
  \/ moving = "register" /\ Register!Next /\ UNCHANGED <<handoff, delivery, disposal, moving, chosen>>
  \/ moving = "handoff" /\ Handoff!Next /\ UNCHANGED <<live, delivery, disposal, moving, chosen>>
  \/ moving = "delivery" /\ Delivery!Next /\ UNCHANGED <<live, handoff, disposal, moving, chosen>>
  \/ moving = "audio" /\ Audio!Next /\ UNCHANGED <<live, handoff, delivery, moving, chosen>>
  \/ moving = "text" /\ Text!Next /\ UNCHANGED <<live, handoff, delivery, moving, chosen>>

\* The fairness each module states, for the one that moves.
LiveProgress ==
  /\ WF_live(moving = "record" /\ Connect) /\ WF_live(moving = "record" /\ Ready)
  /\ WF_live(moving = "record" /\ StartPoll) /\ WF_live(moving = "record" /\ FinishPoll)
  /\ \A p \in {"row", "event", "call"} : WF_live(moving = "record" /\ ReadPart(p))
  /\ WF_live(moving = "record" /\ Changed) /\ WF_live(moving = "record" /\ RereadPage)
RegisterProgress ==
  /\ WF_live(moving = "register" /\ Register!Connect) /\ WF_live(moving = "register" /\ Register!Ready)
  /\ WF_live(moving = "register" /\ Register!StartPoll) /\ WF_live(moving = "register" /\ Register!FinishPoll)
  /\ \A p \in {"row", "event", "action"} : WF_live(moving = "register" /\ Register!ReadPart(p))
  /\ WF_live(moving = "register" /\ Register!Changed) /\ WF_live(moving = "register" /\ Register!RereadPage)
HandoffProgress ==
  /\ WF_handoff(moving = "handoff" /\ Handoff!Tools) /\ WF_handoff(moving = "handoff" /\ Handoff!Handlers)
  /\ WF_handoff(moving = "handoff" /\ Handoff!UpdateArrives)
  /\ WF_handoff(moving = "handoff" /\ Handoff!FarewellStarts)
  /\ WF_handoff(moving = "handoff" /\ Handoff!AudioStops)
DeliveryProgress ==
  /\ \A p \in {p1, p2} :
       /\ WF_delivery(moving = "delivery" /\ Delivery!Poll(p))
       /\ WF_delivery(moving = "delivery" /\ Delivery!Deliver(p))
       /\ SF_delivery(moving = "delivery" /\ Delivery!Record(p))
  /\ WF_delivery(moving = "delivery" /\ Delivery!ExpireLease(Notice))
  /\ WF_delivery(moving = "delivery" /\ Delivery!PauseEnds(Notice))
DisposalProgress ==
  /\ WF_disposal(moving = "audio" /\ Audio!Worker(p1)) /\ WF_disposal(moving = "text" /\ Text!Worker(p1))
  /\ \A c \in {c1, c2} :
       /\ WF_disposal(moving = "audio" /\ Audio!LeaseExpires(c))
       /\ WF_disposal(moving = "text" /\ Text!LeaseExpires(c))

SideBySide ==
  /\ Start /\ [][Step]_everything
  /\ LiveProgress /\ RegisterProgress /\ HandoffProgress /\ DeliveryProgress /\ DisposalProgress

-----------------------------------------------------------------------------
\* On the pages of one operation and of all of them, a change is shown in the end.
ChangesAreShown ==
  \/ moving = "record" /\ Unnoticed(chosen)
  \/ moving = "register" /\ Register!Unnoticed(chosen)
  ~> ShownOrLost(chosen)

\* A farewell the call follows ends in a transfer, a queued message is delivered or
\* given up, and expired evidence is erased, its recordings and its text.
WorkIsDone ==
  \/ moving = "handoff" /\ Handoff!FarewellFollowed
  \/ moving = "delivery" /\ Delivery!Queued(Notice)
  \/ moving = "audio" /\ Audio!AudioDue(r2)
  \/ moving = "text" /\ Text!TextDue(c1)
  ~>
  CASE moving = "handoff" -> Handoff!FarewellEnded
    [] moving = "delivery" -> Delivery!Settled(Notice)
    [] moving = "audio" -> Audio!AudioGone(r2)
    [] moving = "text" -> Text!TextGone(c1)
    [] OTHER -> TRUE
=============================================================================
