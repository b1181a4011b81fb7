---------------------------- MODULE SourcingRound ----------------------------
(***************************************************************************)
(* The life of a sourcing round: opened by a confirmed mandate or by a     *)
(* provider cancelling a booking, withdrawn when the operation leaves the  *)
(* mandate it was opened for, closed by a selection or by exhaustion.      *)
(* Each action is one SQL transaction.  Prices are abstracted to the       *)
(* verdict of a request's latest quote; the judge's review is abstracted   *)
(* to the moment Select happens.                                           *)
(***************************************************************************)
EXTENDS SourcingState

------------------------------------------------------------------------------
\* The client's commands

\* An operative field of a mandated operation changes: the mandate needs a new
\* confirmation, and the trigger on operations withdraws the active round.
UpdateOperation ==
  /\ op.status # "cancelled" /\ ~op.confirm
  /\ op' = [op EXCEPT !.confirm = TRUE]
  /\ round' = RoundsSuperseded
  /\ req' = RequestsMoved(ActiveRequests, OpenRequest, "cancelled")
  /\ job' = JobsRetired(ActiveAttempts)
  /\ UNCHANGED call

\* confirm_mandate inserts the mandate, whose trigger supersedes what is active
\* and opens a round with up to two active providers, and moves the operation
\* to it.  The inherited pickup window may already be past.
ConfirmRound(r, Q, past) ==
  /\ op.status # "cancelled" /\ op.confirm /\ NextRound(r)
  /\ op' = [op EXCEPT !.status = "sourcing", !.mandate = @ + 1,
                      !.confirm = FALSE, !.pickupPast = past]
  /\ OpenRound(r, "renegotiation", op.mandate + 1, Q, RoundsSuperseded,
               RequestsMoved(ActiveRequests, OpenRequest, "cancelled"),
               JobsRetired(ActiveAttempts))
  /\ UNCHANGED call

ConfirmMandate ==
  \E r \in Round : \E Q \in SUBSET (RequestsOf(r) \ op.inactive) : \E past \in BOOLEAN :
    ConfirmRound(r, Q, past)

CancelOperation ==
  /\ op.status # "cancelled"
  /\ op' = [op EXCEPT !.status = "cancelled", !.booking = None, !.confirm = FALSE]
  /\ round' = RoundsSuperseded
  /\ req' = [q \in Request |->
              IF \/ q \in ActiveRequests /\ req[q].status \in OpenRequest
                 \/ req[q].status \in {"queued", "contacted"}
                THEN [req[q] EXCEPT !.status = "cancelled"] ELSE req[q]]
  /\ job' = [k \in Attempt |->
              IF \/ k \in ActiveAttempts /\ Queued(k)
                 \/ job[k].status = "pending"
                THEN Retired(job[k]) ELSE job[k]]
  /\ UNCHANGED call

------------------------------------------------------------------------------
\* The provider who holds the booking cancels it

\* The replacement round asks a losing bidder and a fresh provider, nobody when
\* the mandate must be reconfirmed or its first window has started.
Withdrawn == {q \in Request : RoundsSuperseded[RoundOf[q]].status = "superseded"}

RequestsAfterCancelling ==
  [RequestsMoved(Withdrawn, OpenRequest, "cancelled")
     EXCEPT ![op.booking].status = "cancelled"]

NobodyToAsk(r) ==
  /\ round' = [RoundsSuperseded EXCEPT ![r] =
                 [status |-> "exhausted", kind |-> "replacement", mandate |-> op.mandate,
                  dispatched |-> FALSE, late |-> FALSE]]
  /\ req' = RequestsAfterCancelling
  /\ job' = JobsRetired(Attempt)

ReplaceBooking(r, Q) ==
  /\ op.booking # None /\ NextRound(r)
  /\ (op.confirm \/ op.pickupPast) => Q = {}
  /\ op' = [op EXCEPT !.booking = None,
              !.status = IF Q = {} THEN "needs_follow_up" ELSE "sourcing"]
  /\ IF Q = {} THEN NobodyToAsk(r)
     ELSE OpenRound(r, "replacement", op.mandate, Q, RoundsSuperseded,
                    RequestsAfterCancelling, JobsRetired(Attempt))
  /\ UNCHANGED call

CancelBooking ==
  \E r \in Round : \E Q \in SUBSET (RequestsOf(r) \ op.inactive) : ReplaceBooking(r, Q)

------------------------------------------------------------------------------
\* Comparing and selecting

\* Somebody asked in round r has not answered or is still bargaining.
StillOpen(r) ==
  \E q \in RequestsOf(r) : req[q].status \in OpenRequest
                           /\ req[q].quote \in {"none", "counter"}

Comparing(r) == round[r].dispatched /\ StillOpen(r) /\ ~round[r].late

Winners(r) ==
  {q \in RequestsOf(r) : req[q].status = "responded" /\ req[q].quote = "eligible"
                         /\ ~op.pickupPast /\ q \notin op.inactive}

Ready(r) ==
  /\ RoundInScope(r) /\ round[r].dispatched
  /\ ~(StillOpen(r) /\ ~round[r].late) /\ Winners(r) # {}

\* finalize_operation_sourcing: the winner becomes the operation's booking, the
\* other requests are withdrawn, the remaining jobs are skipped.
SelectWinner(r, w) ==
  /\ Ready(r)
  /\ op' = [op EXCEPT !.status = "booking_confirmed", !.booking = w]
  /\ round' = [round EXCEPT ![r].status = "selected"]
  /\ req' = RequestsMoved(RequestsOf(r) \ {w}, OpenRequest, "cancelled")
  /\ job' = [k \in Attempt |->
              IF k \in AttemptsOf(r) /\ Queued(k)
                THEN [job[k] EXCEPT !.status = "processed"] ELSE job[k]]
  /\ UNCHANGED call

Select == \E r \in Round : \E w \in Winners(r) : SelectWinner(r, w)

------------------------------------------------------------------------------
\* advance_sourcing_round: run by every worker after its job and by every poll

\* Mutant: only calls already known to be ambiguous count.
UnknownCalls(r) ==
  {k \in AttemptsOf(r) : call[k].state = "unknown" /\ call[k].sid = 0 /\ call[k].aged}

\* Two minutes after dispatch began there is neither a SID nor a callback.
AmbiguousCalls(r) ==
  {k \in AttemptsOf(r) : call[k].state \in {"dispatching", "unknown"}
                         /\ call[k].sid = 0 /\ call[k].aged}

\* Nobody repeats the POST: the round goes to human review as a whole.
GiveUp(r) ==
  /\ call' = [k \in Attempt |->
       IF k \in AmbiguousCalls(r)
         THEN [call[k] EXCEPT !.state = "unknown",
                 !.outcome = IF @ = "active" THEN "failed" ELSE @]
         ELSE call[k]]
  /\ job' = [k \in Attempt |->
       IF k \in AttemptsOf(r) /\ Queued(k)
         THEN [job[k] EXCEPT !.status = "failed", !.lease = "none"] ELSE job[k]]
  /\ round' = [round EXCEPT ![r].status = "exhausted"]
  /\ op' = [op EXCEPT !.status = "needs_follow_up"]
  /\ UNCHANGED req

\* Jobs of requests that can no longer be contacted, unless a call went out.
Unavailable(r) ==
  {k \in AttemptsOf(r) : /\ \/ req[k[1]].status \in {"cancelled", "expired", "responded"}
                            \/ k[1] \in op.inactive
                         /\ call[k].state \notin Dispatched}

WorkLeft(r, jobs) ==
  \/ \E k \in AttemptsOf(r) : Live(k) \/ jobs[k].status \in {"pending", "processing"}
  \/ Ready(r) \/ Comparing(r)

\* No call, no job and no quote to wait for: the unanswered requests expire, and
\* a replacement round, which has no booking to fall back on, is exhausted.
Settle(r) ==
  LET jobs == JobsRetired(Unavailable(r)) IN
  /\ job' = jobs
  /\ UNCHANGED call
  /\ IF WorkLeft(r, jobs)
       THEN UNCHANGED <<op, round, req>>
       ELSE /\ req' = RequestsMoved(RequestsOf(r), {"queued", "contacted"}, "expired")
            /\ IF round[r].kind = "replacement"
                 THEN /\ round' = [round EXCEPT ![r].status = "exhausted"]
                      /\ op' = [op EXCEPT !.status = "needs_follow_up"]
                 ELSE UNCHANGED <<op, round>>

\* The operation left the round's scope and the trigger did not close it.
DropStaleRound(r) ==
  /\ round' = [round EXCEPT ![r].status = "superseded"]
  /\ job' = JobsRetired(AttemptsOf(r))
  /\ UNCHANGED <<op, req, call>>

AdvanceActive(r) ==
  IF ~RoundInScope(r) THEN DropStaleRound(r)
  ELSE IF AmbiguousCalls(r) # {} THEN GiveUp(r)
  ELSE Settle(r)

Advance ==
  IF ActiveRounds = {} THEN UNCHANGED tables
  ELSE \E r \in ActiveRounds : AdvanceActive(r)
==============================================================================
