---------------------------- MODULE MessageOutbox ----------------------------
(***************************************************************************)
(* The notification outbox of one operation: jobs queued by the            *)
(* transactions that confirm or cancel a booking, claimed in batches under *)
(* a two-minute lease by the polling worker of each server process, handed *)
(* to a gateway one by one, and recorded as processed or failed.  Channel  *)
(* chooses between the SMS worker and the email worker, which differ in    *)
(* the gateway's errors and in the preview the email worker saves.         *)
(*                                                                         *)
(* Every SQL function is one step, except the one that completes a job: it *)
(* updates its row, then locks the operation, then looks at the rows other *)
(* transactions have committed, and those three are interleaved here.      *)
(***************************************************************************)
EXTENDS Integers, FiniteSets, FiniteSetsExt

CONSTANTS
  Channel,      \* "sms" or "email"
  Mode,         \* "live" hands messages to Twilio or SMTP, "preview" does not
  MaxBookings,  \* bound on the bookings of the operation
  RetryLimit,   \* attempts after which a failure is final: 5 in the code
  Batch,        \* jobs per claim: 10 in the code
  MaxMishaps,   \* bound on lost answers, lost records, crashes and early expiries
  Errors,       \* what the gateway may report, see Retryable
  Process,      \* server processes
  None

ASSUME OutboxAssumption ==
  /\ Channel \in {"sms", "email"} /\ Mode \in {"live", "preview"}
  /\ MaxBookings \in Nat /\ RetryLimit \in Nat \ {0} /\ Batch \in Nat \ {0}
  /\ MaxMishaps \in Nat /\ Errors \subseteq Nat /\ None \notin Process

VARIABLES
  op,        \* operations row: status and current booking, 0 for none
  outbox,    \* outbox rows of the channel
  previews,  \* email_previews: messages with a stored preview
  proc,      \* per process: step, claimed jobs still to do, the one in hand
  lock,      \* the process whose transaction holds the operation's row
  sent,      \* how often each message reached its recipient's carrier
  mishaps    \* what happened to each job that the code cannot prevent

vars == <<op, outbox, previews, proc, lock, sent, mishaps>>

Booking == 1 .. MaxBookings
Recipient == {"client", "provider"}

\* Deterministic idempotency keys: two confirmations per booking, one notice of
\* cancellation per booking to the provider, one per operation to the client.
Message == [kind : {"confirmation"}, booking : Booking, to : Recipient]
             \cup [kind : {"cancellation"}, booking : Booking, to : {"provider"}]
             \cup [kind : {"cancellation"}, booking : {0}, to : {"client"}]

Confirmations(b) == [kind : {"confirmation"}, booking : {b}, to : Recipient]

OutboxRow == [status : {"none", "pending", "processing", "processed", "failed"},
              attempts : Nat, lease : {"none", "held", "expired"}, due : BOOLEAN]

\* A claim's token is random: the number of the claim stands for it.
Claims == [msg : Message, token : Nat]
NoClaim == [msg |-> None, token |-> 0]

InTransaction == {"marked", "locked", "checked"}
ProcessRow == [pc : {"idle", "next", "preview", "complete", "fail"} \cup InTransaction,
               todo : SUBSET Claims, at : Claims \cup {NoClaim},
               retry : BOOLEAN, all : BOOLEAN]
IdleProcess == [pc |-> "idle", todo |-> {}, at |-> NoClaim,
                retry |-> FALSE, all |-> FALSE]

OpStatus == {"sourcing", "booking_confirmed", "notifications_sent", "cancelled"}

TypeOK ==
  /\ op \in [status : OpStatus, booking : 0 .. MaxBookings, last : 0 .. MaxBookings]
  /\ outbox \in [Message -> OutboxRow]
  /\ previews \subseteq Message
  /\ proc \in [Process -> ProcessRow]
  /\ lock \in Process \cup {None}
  /\ sent \in [Message -> Nat] /\ mishaps \in [Message -> Nat]

NoRow == [status |-> "none", attempts |-> 0, lease |-> "none", due |-> FALSE]

Init ==
  /\ op = [status |-> "sourcing", booking |-> 0, last |-> 0]
  /\ outbox = [m \in Message |-> NoRow]
  /\ previews = {}
  /\ proc = [p \in Process |-> IdleProcess]
  /\ lock = None
  /\ sent = [m \in Message |-> 0] /\ mishaps = [m \in Message |-> 0]

------------------------------------------------------------------------------
\* The transactions that queue messages

\* ON CONFLICT (idempotency_key) DO NOTHING: a queued message is not queued again.
Enqueued(M) ==
  [m \in Message |-> IF m \in M /\ outbox[m].status = "none"
                       THEN [NoRow EXCEPT !.status = "pending", !.due = TRUE]
                       ELSE outbox[m]]

\* The selection makes b the current booking; its trigger queues both notices, by
\* SMS: it took the place of the trigger that queued them by email.
ConfirmBooking(b) ==
  /\ lock = None /\ op.status = "sourcing" /\ b = op.last + 1
  /\ op' = [status |-> "booking_confirmed", booking |-> b, last |-> b]
  /\ outbox' = IF Channel = "sms" THEN Enqueued(Confirmations(b)) ELSE outbox
  /\ UNCHANGED <<previews, proc, lock, sent, mishaps>>

\* The email notices are left to whoever calls the function the schema keeps for
\* them, as often as it likes, while the booking is the current one.
QueueEmails ==
  /\ Channel = "email" /\ lock = None /\ op.booking # 0
  /\ outbox' = Enqueued(Confirmations(op.booking))
  /\ UNCHANGED <<op, previews, proc, lock, sent, mishaps>>

\* The provider gives the booking back; nobody is notified by message.
ProviderCancels ==
  /\ lock = None /\ op.booking # 0
  /\ op' = [op EXCEPT !.status = "sourcing", !.booking = 0]
  /\ UNCHANGED <<outbox, previews, proc, lock, sent, mishaps>>

\* cancel_operation always writes to the client, to the provider of a booking too.
CancellationNotices ==
  {[kind |-> "cancellation", booking |-> 0, to |-> "client"]} \cup
    IF op.booking = 0 THEN {}
    ELSE {[kind |-> "cancellation", booking |-> op.booking, to |-> "provider"]}

ClientCancels ==
  /\ lock = None /\ op.status # "cancelled"
  /\ op' = [op EXCEPT !.status = "cancelled", !.booking = 0]
  /\ outbox' = IF Channel = "sms" THEN Enqueued(CancellationNotices) ELSE outbox
  /\ UNCHANGED <<previews, proc, lock, sent, mishaps>>

------------------------------------------------------------------------------
\* One poll of a process: claim a batch, deliver its jobs one after the other

\* A row another transaction has updated and not committed is skipped.
RowLocked(m) == \E p \in Process : proc[p].pc \in InTransaction /\ proc[p].at.msg = m

\* Mutant: only what nobody has claimed yet is looked at.
ClaimableIfPending ==
  {m \in Message : ~RowLocked(m) /\ outbox[m].status = "pending" /\ outbox[m].due}

\* Mutant: a claim is not respected by the next poll.
ClaimableWhileHeld ==
  {m \in Message : ~RowLocked(m) /\ outbox[m].status \in {"pending", "processing"}}

Claimable ==
  {m \in Message : /\ ~RowLocked(m)
                   /\ \/ outbox[m].status = "pending" /\ outbox[m].due
                      \/ outbox[m].status = "processing" /\ outbox[m].lease = "expired"}

ClaimedRow(m) == [outbox[m] EXCEPT !.status = "processing", !.lease = "held",
                                   !.attempts = @ + 1]

\* The guard running: a process that still has a batch does not poll.
Claim(p, M) ==
  /\ proc[p].pc = "idle"
  /\ M # {} /\ M \subseteq Claimable
  /\ \/ Cardinality(M) = Batch
     \/ M = Claimable /\ Cardinality(M) < Batch
  /\ outbox' = [m \in Message |-> IF m \in M THEN ClaimedRow(m) ELSE outbox[m]]
  /\ proc' = [proc EXCEPT ![p].pc = "next",
                ![p].todo = {[msg |-> m, token |-> outbox'[m].attempts] : m \in M}]
  /\ UNCHANGED <<op, previews, lock, sent, mishaps>>

Take(p, c, step, again) ==
  proc' = [proc EXCEPT ![p].pc = step, ![p].at = c, ![p].todo = @ \ {c},
                       ![p].retry = again]

\* The next job of the batch, or the end of it.
Proceed(p) ==
  proc' = [proc EXCEPT ![p] = IF proc[p].todo = {} THEN IdleProcess
                              ELSE [IdleProcess EXCEPT !.pc = "next", !.todo = proc[p].todo]]

\* TwilioSmsGateway: no HTTP status, 408, 429 and 5xx may be tried again.
SmsRetryable(status) == status \in {0, 408, 429} \/ status >= 500

\* SmtpEmailGateway: replies 4xx, and errors without a reply code.
SmtpRetryable(code) == code = 0 \/ code \in 400 .. 499

Retryable(error) == IF Channel = "sms" THEN SmsRetryable(error) ELSE SmtpRetryable(error)

AfterDelivery == IF Channel = "email" /\ Mode = "preview" THEN "preview" ELSE "complete"

\* The bound on what may go wrong, over all messages.
Spared == MapThenSumSet(LAMBDA m : mishaps[m], Message) < MaxMishaps

Mishap(m) == Spared /\ mishaps' = [mishaps EXCEPT ![m] = @ + 1]

\* The gateway accepted the message and its answer arrived.
Delivered(p, c) ==
  /\ proc[p].pc = "next" /\ c \in proc[p].todo
  /\ Take(p, c, AfterDelivery, FALSE)
  /\ sent' = IF Mode = "live" THEN [sent EXCEPT ![c.msg] = @ + 1] ELSE sent
  /\ UNCHANGED <<op, outbox, previews, lock, mishaps>>

\* It was sent, but the answer is lost or carries no identifier.
AnswerLost(p, c) ==
  /\ Mode = "live" /\ proc[p].pc = "next" /\ c \in proc[p].todo
  /\ Take(p, c, "fail", TRUE)
  /\ sent' = [sent EXCEPT ![c.msg] = @ + 1]
  /\ Mishap(c.msg)
  /\ UNCHANGED <<op, outbox, previews, lock>>

\* It was refused: a known landline or an empty body before anything is sent, or
\* an error the gateway classifies.
Refused(p, c) ==
  /\ Mode = "live" /\ proc[p].pc = "next" /\ c \in proc[p].todo
  /\ \/ \E e \in Errors : Take(p, c, "fail", Retryable(e))
     \/ Channel = "sms" /\ Take(p, c, "fail", FALSE)
  /\ UNCHANGED <<op, outbox, previews, lock, sent, mishaps>>

------------------------------------------------------------------------------
\* Recording what happened

\* Mutant: the claim is not compared before a failure is written.
HoldsAnything(c) == outbox[c.msg].status # "none"

Holds(c) == outbox[c.msg].status = "processing" /\ outbox[c.msg].attempts = c.token

\* Any error while recording a delivery is caught with the delivery's own errors
\* and reported as a failure that may be tried again.
GoTo(p, step, again) == proc' = [proc EXCEPT ![p].pc = step, ![p].retry = again]

SavePreview(p) ==
  /\ proc[p].pc = "preview"
  /\ IF Holds(proc[p].at)
       THEN previews' = previews \cup {proc[p].at.msg} /\ GoTo(p, "complete", FALSE)
       ELSE UNCHANGED previews /\ GoTo(p, "fail", TRUE)
  /\ UNCHANGED <<op, outbox, lock, sent, mishaps>>

\* complete_*_outbox, its UPDATE: not yet visible to others, refused when the claim
\* is not this process's any more.
MarkProcessed(p) ==
  /\ proc[p].pc = "complete"
  /\ IF Holds(proc[p].at) THEN GoTo(p, "marked", FALSE) ELSE GoTo(p, "fail", TRUE)
  /\ UNCHANGED <<op, outbox, previews, lock, sent, mishaps>>

\* Mutant: the rows are compared without waiting for the other completion.
LockNothing(p) ==
  /\ proc[p].pc = "marked"
  /\ GoTo(p, "locked", FALSE)
  /\ UNCHANGED <<op, outbox, previews, lock, sent, mishaps>>

\* Its row lock on the operation, which serialises the last step of two completions.
LockOperation(p) ==
  /\ proc[p].pc = "marked" /\ lock = None
  /\ lock' = p
  /\ GoTo(p, "locked", FALSE)
  /\ UNCHANGED <<op, outbox, previews, sent, mishaps>>

\* The confirmations of the same booking are processed, as far as is committed.
\* Cancellations have keys of their own and the email function skips them; for the
\* SMS function a cancellation looks at the confirmations of its booking, if any.
SameBooking(m) == IF m.booking = 0 THEN {} ELSE Confirmations(m.booking)

LookAtOthers(p) ==
  LET m == proc[p].at.msg IN
  /\ proc[p].pc = "locked"
  /\ proc' = [proc EXCEPT ![p].pc = "checked",
       ![p].all = \A n \in SameBooking(m) : n = m \/ outbox[n].status \in {"none", "processed"}]
  /\ UNCHANGED <<op, outbox, previews, lock, sent, mishaps>>

Processed(m) == [outbox EXCEPT ![m].status = "processed", ![m].lease = "none"]

Notified(all) ==
  IF all /\ op.status = "booking_confirmed" THEN [op EXCEPT !.status = "notifications_sent"]
  ELSE op

\* The transaction commits; its reply may still be lost, which the worker takes for
\* a failure to record.
CommitCompletion(p, replied) ==
  LET m == proc[p].at.msg IN
  /\ proc[p].pc = "checked"
  /\ outbox' = Processed(m) /\ op' = Notified(proc[p].all)
  /\ lock' = IF lock = p THEN None ELSE lock
  /\ IF replied THEN Proceed(p) /\ UNCHANGED mishaps
     ELSE GoTo(p, "fail", TRUE) /\ Mishap(m)
  /\ UNCHANGED <<previews, sent>>

\* The function could not be called, or its transaction was rolled back.
CompletionLost(p) ==
  /\ proc[p].pc \in {"preview", "complete", "marked"}
  /\ GoTo(p, "fail", TRUE) /\ Mishap(proc[p].at.msg)
  /\ UNCHANGED <<op, outbox, previews, lock, sent>>

\* Mutant: a state the enumeration does not have.
RowToRetry(m, again) ==
  [outbox[m] EXCEPT !.status = IF again THEN "retrying" ELSE "failed", !.lease = "none"]

\* fail_*_outbox: another attempt after a pause, up to the limit.
FailedRow(m, again) ==
  IF again /\ outbox[m].attempts < RetryLimit
    THEN [outbox[m] EXCEPT !.status = "pending", !.lease = "none", !.due = FALSE]
    ELSE [outbox[m] EXCEPT !.status = "failed", !.lease = "none"]

\* Not the holder any more: the error is logged and the job left as it is.
RecordFailure(p) ==
  LET c == proc[p].at IN
  /\ proc[p].pc = "fail"
  /\ outbox' = IF Holds(c) THEN [outbox EXCEPT ![c.msg] = FailedRow(c.msg, proc[p].retry)]
               ELSE outbox
  /\ Proceed(p)
  /\ UNCHANGED <<op, previews, lock, sent, mishaps>>

\* The failure cannot be recorded: the job stays claimed until its lease expires.
FailureLost(p) ==
  /\ proc[p].pc = "fail"
  /\ Proceed(p)
  /\ Mishap(proc[p].at.msg)
  /\ UNCHANGED <<op, outbox, previews, lock, sent>>

------------------------------------------------------------------------------
\* Crashes and time

Unfinished(p) ==
  {c.msg : c \in proc[p].todo} \cup IF proc[p].at = NoClaim THEN {} ELSE {proc[p].at.msg}

Crash(p) ==
  /\ proc[p].pc # "idle"
  /\ Spared
  /\ mishaps' = [m \in Message |-> mishaps[m] + IF m \in Unfinished(p) THEN 1 ELSE 0]
  /\ proc' = [proc EXCEPT ![p] = IdleProcess]
  /\ lock' = IF lock = p THEN None ELSE lock
  /\ UNCHANGED <<op, outbox, previews, sent>>

\* The lease covers the whole batch, so it may run out before a job's turn comes.
Held(m) == \E p \in Process : \E c \in proc[p].todo \cup {proc[p].at} : c.msg = m /\ Holds(c)

ExpireLease(m) ==
  /\ outbox[m].status = "processing" /\ outbox[m].lease = "held"
  /\ outbox' = [outbox EXCEPT ![m].lease = "expired"]
  /\ IF Held(m) THEN Mishap(m) ELSE UNCHANGED mishaps
  /\ UNCHANGED <<op, previews, proc, lock, sent>>

PauseEnds(m) ==
  /\ outbox[m].status = "pending" /\ ~outbox[m].due
  /\ outbox' = [outbox EXCEPT ![m].due = TRUE]
  /\ UNCHANGED <<op, previews, proc, lock, sent, mishaps>>

------------------------------------------------------------------------------
Deliver(p) ==
  \E c \in proc[p].todo : Delivered(p, c) \/ AnswerLost(p, c) \/ Refused(p, c)

Record(p) ==
  \/ SavePreview(p) \/ MarkProcessed(p) \/ LockOperation(p) \/ LookAtOthers(p)
  \/ \E replied \in BOOLEAN : CommitCompletion(p, replied)
  \/ CompletionLost(p) \/ RecordFailure(p) \/ FailureLost(p)

Poll(p) == \E M \in SUBSET Claimable : Claim(p, M)

Next ==
  \/ \E b \in Booking : ConfirmBooking(b)
  \/ ProviderCancels \/ ClientCancels \/ QueueEmails
  \/ \E p \in Process : Poll(p) \/ Deliver(p) \/ Record(p) \/ Crash(p)
  \/ \E m \in Message : ExpireLease(m) \/ PauseEnds(m)

Spec == Init /\ [][Next]_vars

\* The interval timer polls for ever, every awaited call of a batch returns or
\* throws, a lock is granted in the end, and time passes.  Nothing else is owed.
Fairness ==
  /\ \A p \in Process : WF_vars(Poll(p)) /\ WF_vars(Deliver(p)) /\ SF_vars(Record(p))
  /\ \A m \in Message : WF_vars(ExpireLease(m)) /\ WF_vars(PauseEnds(m))

FairSpec == Spec /\ Fairness

------------------------------------------------------------------------------
\* Safety

\* A message reaches its recipient twice only when an attempt at it was not
\* recorded: an answer, a record or a process was lost, or the lease ran out under
\* a process that still had the job in its batch (contracts/events.md: retries of
\* the booking tool or the trigger cannot create a second notification).
DuplicateNeedsMishap == \A m \in Message : sent[m] <= 1 + mishaps[m]

\* What is recorded as processed was handed to the carrier (or, in preview mode
\* of the email worker, has its preview), also when another process took the job.
ProcessedWasDelivered ==
  \A m \in Message : outbox[m].status = "processed" =>
    /\ Mode = "live" => sent[m] > 0
    /\ Mode = "preview" /\ Channel = "email" => m \in previews

\* Two processes that complete the two confirmations at the same time do not both
\* overlook the other: when no transaction is under way, an operation whose current
\* booking has both confirmations processed has left booking_confirmed.
NobodyOverlooked ==
  (op.status = "booking_confirmed" /\ \A p \in Process : proc[p].pc \notin InTransaction)
    => \E m \in Confirmations(op.booking) : outbox[m].status # "processed"

\* Whatever becomes of answers, leases and processes, the outbox accounts for what
\* its recipients got.
NoticesAreTrue == DuplicateNeedsMishap /\ ProcessedWasDelivered

\* A recorded end of a job is final, and a job in hand changes only by a poll that
\* takes it over or by its present holder: a process that lost its lease and goes
\* on delivering cannot put back, fail or complete what another one is doing.
ClaimIsExclusive ==
  [][\A m \in Message :
       /\ outbox[m].status \in {"processed", "failed"} => outbox'[m] = outbox[m]
       /\ outbox[m].status = "processing" /\ outbox'[m].status # "processing" =>
            \E p \in Process : proc[p].at = [msg |-> m, token |-> outbox[m].attempts]
                               /\ proc'[p] # proc[p]]_vars

------------------------------------------------------------------------------
\* Liveness

\* What must end: a message that was queued is processed or fails for good.
Queued(m) == outbox[m].status = "pending"
Settled(m) == outbox[m].status \in {"processed", "failed"}
==============================================================================
