--------------------------- MODULE ProviderContact ---------------------------
(***************************************************************************)
(* Dispatching provider calls: the dispatch loops of one or more server    *)
(* processes (ProviderContactWorker), the SQL functions that own claims,   *)
(* permission to dial and results, Twilio's asynchronous status callbacks, *)
(* and the conversation that answers a request, composed with the life of  *)
(* the sourcing rounds.                                                    *)
(*                                                                         *)
(* Time is coarse.  Leases (2 minutes), the ambiguity limit (2 minutes),   *)
(* the comparison deadline (5 minutes), a job's available_at and the 1     *)
(* second between calls are flags raised by actions of their own.          *)
(***************************************************************************)
EXTENDS SourcingRound

CONSTANTS
  MaxLive,     \* live calls per operation: 2 in the code
  Scripts,     \* what Twilio may report of a placed call, in its own order
  MaxCrashes   \* bound on process crashes

ASSUME ScriptsAssumption == Scripts \subseteq Seq(CallStatus)
ASSUME BoundsAssumption == MaxLive \in Nat \ {0} /\ MaxCrashes \in Nat

VARIABLES
  worker,   \* per process: where runOnce is, its attempt, the SID it was given
  posts,    \* POSTs to Twilio per attempt; the n-th returns SID n
  script,   \* per attempt, the statuses of the call Twilio placed, if any
  recent,   \* some call started within the last second
  crashes   \* crashes so far

env == <<worker, posts, script, recent, crashes>>
vars == <<op, round, req, job, call, worker, posts, script, recent, crashes>>

WorkerRow == [pc : {"idle", "claimed", "dialing", "posted", "retrying",
                    "failed", "advance"},
              at : Attempt \cup {None}, sid : Nat]

TypeOK ==
  /\ TablesTypeOK
  /\ worker \in [Worker -> WorkerRow]
  /\ posts \in [Attempt -> Nat]
  /\ script \in [Attempt -> Seq(CallStatus)]
  /\ recent \in BOOLEAN
  /\ crashes \in 0 .. MaxCrashes

Idle == [pc |-> "idle", at |-> None, sid |-> 0]

Init ==
  /\ TablesInit
  /\ worker = [w \in Worker |-> Idle]
  /\ posts = [k \in Attempt |-> 0]
  /\ script = [k \in Attempt |-> <<>>]
  /\ recent = FALSE
  /\ crashes = 0

\* Mutant: one call too many.
DialSlotFreeOffByOne == Cardinality(LiveCalls) <= MaxLive /\ ~recent

DialSlotFree == Cardinality(LiveCalls) < MaxLive /\ ~recent

Goto(w, pc) == worker' = [worker EXCEPT ![w].pc = pc]

------------------------------------------------------------------------------
\* One iteration of the worker

\* Mutant: an expired lease is not taken over.
ClaimableIfPending(k) ==
  /\ job[k].due /\ job[k].status = "pending"
  /\ ~AnsweredRequest(k[1])
  /\ call[k].state \in {"none", "prepared"}
  /\ MayContact(k[1])

Claimable(k) ==
  /\ job[k].due
  /\ job[k].status = "pending" \/ (job[k].status = "processing" /\ job[k].lease = "expired")
  /\ ~AnsweredRequest(k[1])
  /\ call[k].state \in {"none", "prepared"}
  /\ MayContact(k[1])

\* The token of a claim is the process that made it: a process has one claim at
\* a time and forgets it when it crashes.
Claim(w, k) ==
  /\ worker[w].pc = "idle" /\ Claimable(k) /\ DialSlotFree
  /\ job' = [job EXCEPT ![k] = [@ EXCEPT !.status = "processing",
                                         !.holder = w, !.lease = "held"]]
  /\ call' = [call EXCEPT ![k] = IF @.state = "none"
                                   THEN [@ EXCEPT !.state = "prepared"] ELSE @]
  /\ worker' = [worker EXCEPT ![w] = [pc |-> "claimed", at |-> k, sid |-> 0]]
  /\ UNCHANGED <<op, round, req, posts, script, recent, crashes>>

\* begin_provider_contact checks everything again.
MayDial(w, k) ==
  /\ job[k].holder = w /\ job[k].status = "processing"
  /\ job[k].lease = "held" /\ job[k].due
  /\ call[k].state = "prepared" /\ call[k].outcome = "active"
  /\ ~AnsweredRequest(k[1])
  /\ MayContact(k[1])

\* Mutant: permission to dial is given but not recorded.
BeginDialUnrecorded(w) ==
  /\ worker[w].pc = "claimed" /\ MayDial(w, worker[w].at) /\ DialSlotFree
  /\ recent' = TRUE
  /\ Goto(w, "dialing")
  /\ UNCHANGED <<tables, posts, script, crashes>>

BeginDial(w) ==
  LET k == worker[w].at IN
  /\ worker[w].pc = "claimed" /\ MayDial(w, k) /\ DialSlotFree
  /\ call' = [call EXCEPT ![k].state = "dispatching"]
  /\ recent' = TRUE
  /\ Goto(w, "dialing")
  /\ UNCHANGED <<op, round, req, job, posts, script, crashes>>

\* No slot or too soon: the job goes back to the queue for a second.
BeginDefer(w) ==
  LET k == worker[w].at IN
  /\ worker[w].pc = "claimed" /\ MayDial(w, k) /\ ~DialSlotFree
  /\ job' = [job EXCEPT ![k] = [@ EXCEPT !.status = "pending",
                                         !.lease = "none", !.due = FALSE]]
  /\ Goto(w, "advance")
  /\ UNCHANGED <<op, round, req, call, posts, script, recent, crashes>>

BeginRefused(w) ==
  /\ worker[w].pc = "claimed" /\ ~MayDial(w, worker[w].at)
  /\ Goto(w, "advance")
  /\ UNCHANGED <<tables, posts, script, recent, crashes>>

\* The POST places a call; the worker may still see an error (a timeout).
Post(w, s, replied) ==
  LET k == worker[w].at IN
  /\ worker[w].pc = "dialing"
  /\ posts' = [posts EXCEPT ![k] = @ + 1]
  /\ script' = [script EXCEPT ![k] = s]
  /\ worker' = [worker EXCEPT ![w] = IF replied
       THEN [@ EXCEPT !.pc = "posted", !.sid = posts[k] + 1]
       ELSE [@ EXCEPT !.pc = "failed"]]
  /\ UNCHANGED <<tables, recent, crashes>>

\* No call is placed: Twilio refuses, or the provider lookup before it fails.
PostRejected(w) ==
  /\ worker[w].pc = "dialing"
  /\ posts' = [posts EXCEPT ![worker[w].at] = @ + 1]
  /\ Goto(w, "failed")
  /\ UNCHANGED <<tables, script, recent, crashes>>

FinishAuthorised(w, k) ==
  job[k].holder = w /\ call[k].state \notin {"none", "prepared"}

\* A call given up with its round stays given up.
AfterSid(c, sid, roundActive) ==
  [c EXCEPT !.sid = sid,
            !.state = IF c.state \in {"unknown", "failed"} /\ ~roundActive
                        THEN c.state ELSE "accepted"]

\* The SID is persisted.  If the reply is lost the worker tries once more.
FinishSid(w, replied) ==
  LET k == worker[w].at IN
  /\ worker[w].pc \in {"posted", "retrying"}
  /\ FinishAuthorised(w, k) /\ call[k].sid \in {0, worker[w].sid}
  /\ call' = [call EXCEPT ![k] =
       AfterSid(call[k], worker[w].sid, round[RoundOf[k[1]]].status = "active")]
  /\ round' = [round EXCEPT ![RoundOf[k[1]]].dispatched = TRUE]
  /\ req' = RequestsMoved({k[1]}, {"queued"}, "contacted")
  /\ job' = [job EXCEPT ![k] = Retired(@)]
  /\ Goto(w, IF replied \/ worker[w].pc = "retrying" THEN "advance" ELSE "retrying")
  /\ UNCHANGED <<op, posts, script, recent, crashes>>

\* Mutant: an error is taken as proof that no call was placed.
FinishErrorDefinite(w) ==
  LET k == worker[w].at IN
  /\ worker[w].pc = "failed" /\ FinishAuthorised(w, k)
  /\ call' = [call EXCEPT ![k].state = "failed", ![k].outcome = "failed"]
  /\ job' = [job EXCEPT ![k] = Retired(@)]
  /\ Goto(w, "advance")
  /\ UNCHANGED <<op, round, req, posts, script, recent, crashes>>

\* The worker reports every error as ambiguous; a callback is stronger evidence.
AfterError(c) ==
  IF c.sid # 0 \/ c.raw # "none" \/ c.state = "failed" THEN c
  ELSE [c EXCEPT !.state = "unknown"]

FinishError(w) ==
  LET k == worker[w].at IN
  /\ worker[w].pc = "failed" /\ FinishAuthorised(w, k)
  /\ call' = [call EXCEPT ![k] = AfterError(call[k])]
  /\ job' = [job EXCEPT ![k] = Retired(@)]
  /\ Goto(w, "advance")
  /\ UNCHANGED <<op, round, req, posts, script, recent, crashes>>

\* The transaction of a finish fails; the SID, once refused twice, is dropped.
FinishLost(w) ==
  /\ worker[w].pc \in {"posted", "retrying", "failed"}
  /\ Goto(w, IF worker[w].pc = "posted" THEN "retrying" ELSE "advance")
  /\ UNCHANGED <<tables, posts, script, recent, crashes>>

WorkerAdvance(w) ==
  /\ worker[w].pc = "advance"
  /\ Advance
  /\ worker' = [worker EXCEPT ![w] = Idle]
  /\ UNCHANGED <<posts, script, recent, crashes>>

\* Every poll advances every sourcing operation, whatever the worker did.
PollAdvance ==
  /\ op.status \in Sourcing
  /\ Advance
  /\ UNCHANGED env

\* A deploy or a crash loses the iteration; the lease is left to expire.
Crash(w) ==
  /\ worker[w].pc # "idle" /\ crashes < MaxCrashes
  /\ worker' = [worker EXCEPT ![w] = Idle]
  /\ crashes' = crashes + 1
  /\ UNCHANGED <<tables, posts, script, recent>>

------------------------------------------------------------------------------
\* The conversation: create_quote and decline_quote_request

\* The verdicts a quote may get after the latest one: one counteroffer, then a
\* price outside the terms; an offer inside them, or accepted above the budget,
\* ends the bargaining.
NextQuote(verdict) ==
  CASE verdict = "none" -> {"counter", "eligible"}
    [] verdict = "counter" -> {"outside", "eligible"}
    [] verdict = "outside" -> {"eligible"}
    [] OTHER -> {}

\* Somebody picked up the call of attempt k and the session is bound to it.
InConversation(k) ==
  /\ \E i \in DOMAIN script[k] : script[k][i] \in AnswerStatus
  /\ call[k].state \in Dispatched /\ call[k].outcome = "active"
  /\ RoundInScope(RoundOf[k[1]])
  /\ req[k[1]].status \in OpenRequest /\ k[1] \notin op.inactive

CreateQuote(k, verdict) ==
  /\ InConversation(k) /\ ~op.pickupPast
  /\ verdict \in NextQuote(req[k[1]].quote)
  /\ req' = [req EXCEPT ![k[1]] = [status |-> "responded", quote |-> verdict]]
  /\ op' = IF verdict = "eligible" THEN [op EXCEPT !.status = "quotes_received"] ELSE op
  /\ UNCHANGED <<round, job, call, env>>

DeclineQuote(k) ==
  /\ InConversation(k) /\ req[k[1]].quote # "eligible"
  /\ req' = [req EXCEPT ![k[1]].status = "cancelled"]
  /\ UNCHANGED <<op, round, job, call, env>>

------------------------------------------------------------------------------
\* Twilio's status callbacks: any of the call's reports, in any order, any
\* number of times.  Report i carries sequence number i.

Delivered(k, i) ==
  i \in DOMAIN script[k] /\ call[k].state # "none" /\ call[k].sid \in {0, posts[k]}

\* The jobs a positive answer makes pointless: later attempts not yet dialled.
RetriesOf(k) ==
  {j \in Attempt : j[1] = k[1] /\ j[2] > k[2] /\ call[j].state \notin Dispatched}

\* An old or repeated report changes nothing, except that it may be the first
\* evidence that somebody answered.
StaleCallback(k, i) ==
  /\ Delivered(k, i) /\ i <= call[k].seq
  /\ script[k][i] \in AnswerStatus /\ ~call[k].answered
  /\ call' = [call EXCEPT ![k].answered = TRUE]
  /\ job' = JobsRetired(RetriesOf(k))
  /\ UNCHANGED <<op, round, req, env>>

\* A newer report that can no longer change the outcome of the call.
OutOfPlace(k, i) ==
  \/ call[k].raw \in Terminal
  \/ call[k].state = "unknown" /\ round[RoundOf[k[1]]].status # "active"
  \/ call[k].answered /\ script[k][i] = "no-answer"

\* Mutant: the latest report says whether somebody answered.
AnswerOfLatest(c, sid, i, status) ==
  [c EXCEPT !.sid = sid, !.seq = i, !.answered = status \in AnswerStatus]

AfterLate(c, sid, i, status) ==
  [c EXCEPT !.sid = sid, !.seq = i,
            !.answered = IF status \in AnswerStatus THEN TRUE ELSE c.answered,
            !.raw = IF c.state = "unknown" /\ c.raw \notin Terminal THEN status ELSE c.raw]

LateCallback(k, i) ==
  /\ Delivered(k, i) /\ i > call[k].seq /\ OutOfPlace(k, i)
  /\ call' = [call EXCEPT ![k] = AfterLate(call[k], posts[k], i, script[k][i])]
  /\ job' = IF script[k][i] \in AnswerStatus THEN JobsRetired(RetriesOf(k)) ELSE job
  /\ UNCHANGED <<op, round, req, env>>

NextAttempt(k) == <<k[1], k[2] + 1>>

\* Mutants: any report schedules another call, or every failed call does.
RetryAlways(k, i) ==
  /\ k[2] < MaxAttempts /\ ~call[k].answered /\ MayContact(k[1])
  /\ job[NextAttempt(k)].status = "none" /\ call[NextAttempt(k)].state = "none"
RetryAfterFailure(k, i) ==
  /\ script[k][i] \in {"no-answer", "busy"} /\ RetryAlways(k, i)

\* Another call is due a minute later only after a no-answer without any sign
\* that this call was answered, and at most once.
Retry(k, i) ==
  /\ script[k][i] = "no-answer" /\ k[2] < MaxAttempts
  /\ ~call[k].answered
  /\ MayContact(k[1])
  /\ job[NextAttempt(k)].status = "none" /\ call[NextAttempt(k)].state = "none"

\* Mutant: the telephone status is stored as the commercial outcome.
OutcomeRaw(status) == status

Outcome(status) == IF status = "completed" THEN "completed" ELSE "failed"

AfterFresh(c, sid, i, status) ==
  [c EXCEPT !.sid = sid, !.raw = status, !.seq = i,
            !.answered = IF status \in AnswerStatus THEN TRUE ELSE c.answered,
            !.state = IF c.state \in {"prepared", "dispatching", "unknown"}
                        THEN "accepted" ELSE c.state,
            !.outcome = IF c.outcome = "active" /\ status \in Terminal
                          THEN Outcome(status) ELSE c.outcome]

FreshCallback(k, i) ==
  LET jobs == IF job[k].status = "processing"
                THEN [job EXCEPT ![k] = Retired(@)] ELSE job IN
  /\ Delivered(k, i) /\ i > call[k].seq /\ ~OutOfPlace(k, i)
  /\ call' = [call EXCEPT ![k] = AfterFresh(call[k], posts[k], i, script[k][i])]
  /\ round' = [round EXCEPT ![RoundOf[k[1]]].dispatched = TRUE]
  /\ job' = IF Retry(k, i)
              THEN [jobs EXCEPT ![NextAttempt(k)] =
                     [status |-> "pending", holder |-> None,
                      lease |-> "none", due |-> FALSE]]
              ELSE jobs
  /\ UNCHANGED <<op, req, env>>

------------------------------------------------------------------------------
\* The clock

Mature(k) ==
  /\ job[k].status = "pending" /\ ~job[k].due
  /\ job' = [job EXCEPT ![k].due = TRUE]
  /\ UNCHANGED <<op, round, req, call, env>>

ExpireLease(k) ==
  /\ job[k].status = "processing" /\ job[k].lease = "held"
  /\ job' = [job EXCEPT ![k].lease = "expired"]
  /\ UNCHANGED <<op, round, req, call, env>>

\* The lease was taken before dispatch began, so it runs out first.
Age(k) ==
  /\ call[k].state \in {"dispatching", "unknown"} /\ call[k].sid = 0 /\ ~call[k].aged
  /\ job[k].status = "processing" => job[k].lease = "expired"
  /\ call' = [call EXCEPT ![k].aged = TRUE]
  /\ UNCHANGED <<op, round, req, job, env>>

ComparisonDeadline(r) ==
  /\ round[r].status = "active" /\ round[r].dispatched /\ ~round[r].late
  /\ round' = [round EXCEPT ![r].late = TRUE]
  /\ UNCHANGED <<op, req, job, call, env>>

SecondPasses ==
  /\ recent
  /\ recent' = FALSE
  /\ UNCHANGED <<tables, worker, posts, script, crashes>>

PickupPasses ==
  /\ ~op.pickupPast
  /\ op' = [op EXCEPT !.pickupPast = TRUE]
  /\ UNCHANGED <<round, req, job, call, env>>

\* Operators deactivate a provider in the directory, or activate it again.
ProviderSwitched ==
  /\ \E q \in Switchable :
       op' = [op EXCEPT !.inactive = IF q \in @ THEN @ \ {q} ELSE @ \cup {q}]
  /\ UNCHANGED <<round, req, job, call, env>>

------------------------------------------------------------------------------
WorkerStep(w) ==
  \/ \E k \in Attempt : Claim(w, k)
  \/ BeginDial(w) \/ BeginDefer(w) \/ BeginRefused(w)
  \/ \E s \in Scripts, replied \in BOOLEAN : Post(w, s, replied)
  \/ PostRejected(w)
  \/ \E replied \in BOOLEAN : FinishSid(w, replied)
  \/ FinishError(w) \/ FinishLost(w)
  \/ WorkerAdvance(w)

Callback(k) ==
  \E i \in DOMAIN script[k] :
    StaleCallback(k, i) \/ LateCallback(k, i) \/ FreshCallback(k, i)

Clock(k) == Mature(k) \/ ExpireLease(k) \/ Age(k)

Client == (UpdateOperation \/ ConfirmMandate \/ CancelOperation) /\ UNCHANGED env

Selection == Select /\ UNCHANGED env

BookingCancelled == CancelBooking /\ UNCHANGED env

Next ==
  \/ \E w \in Worker : WorkerStep(w) \/ Crash(w)
  \/ PollAdvance
  \/ \E k \in Attempt :
       \/ Callback(k) \/ Clock(k) \/ DeclineQuote(k)
       \/ \E verdict \in Verdict : CreateQuote(k, verdict)
  \/ \E r \in Round : ComparisonDeadline(r)
  \/ SecondPasses \/ PickupPasses \/ ProviderSwitched
  \/ Client \/ Selection \/ BookingCancelled

Spec == Init /\ [][Next]_vars

\* The loop polls for ever and never gives up on an error; a process that keeps
\* claiming gets to dial before its two-minute lease expires at least once in a
\* while; time passes; every report Twilio makes is delivered at least once; the
\* judge answers.
Fairness ==
  /\ \A w \in Worker : WF_vars(WorkerStep(w)) /\ SF_vars(BeginDial(w))
  /\ WF_vars(PollAdvance)
  /\ \A k \in Attempt : WF_vars(Mature(k)) /\ WF_vars(ExpireLease(k)) /\ WF_vars(Age(k))
  /\ \A k \in Attempt : WF_vars(Callback(k))
  /\ \A r \in Round : WF_vars(ComparisonDeadline(r))
  /\ WF_vars(SecondPasses) /\ WF_vars(Selection)

\* Operators do not switch a provider off and on for ever.
DirectorySettles == <>[][~ProviderSwitched]_vars

FairSpec == Spec /\ Fairness /\ DirectorySettles

------------------------------------------------------------------------------
\* Safety

\* A process that was given permission to dial and has not yet reported back.
PastBegin(w) == worker[w].pc \in {"dialing", "posted", "retrying", "failed"}

\* However processes crash, leases expire and jobs are claimed again, one call
\* row leads to at most one POST (docs/outbound-worker.md: the POST is never
\* repeated), and no two processes are dialling the same attempt.
AtMostOnePost ==
  /\ \A k \in Attempt : posts[k] <= 1
  /\ \A v, w \in Worker :
       PastBegin(v) /\ PastBegin(w) /\ worker[v].at = worker[w].at => v = w

\* The provider's lines the operation may be occupying: a POST was made and no
\* terminal status has been recorded.
Lines == {k \in Attempt : posts[k] > 0 /\ call[k].raw \notin Terminal}

\* Never more than MaxLive of them, over all rounds of the operation, although
\* permission and POST are different steps of different processes.
LineLimit == Cardinality(Lines) <= MaxLive

\* A second or third call to a provider exists only after the one before it
\* ended as a no-answer, so a provider is never on two calls for one request.
RetryOnlyAfterNoAnswer ==
  \A q \in Request : \A n \in 1 .. MaxAttempts - 1 :
    job[<<q, n + 1>>].status # "none" \/ call[<<q, n + 1>>].state # "none"
      => call[<<q, n>>].raw = "no-answer"

\* There is at most one active round, and it belongs to an operation that is
\* sourcing under the very mandate the round was opened for.
ActiveRoundInScope ==
  /\ \A r, s \in ActiveRounds : r = s
  /\ \A r \in ActiveRounds : RoundInScope(r)

\* Whatever closes a round, no late callback, finish or retry leaves a job of it
\* waiting to be dialled.
ClosedRoundIsQuiet ==
  \A k \in Attempt : Queued(k) => round[RoundOf[k[1]]].status = "active"

\* The operation's booking was selected by a round, and nothing but the
\* provider's or the client's cancellation unmakes its request.
BookingHasWinner ==
  op.booking # None => /\ round[RoundOf[op.booking]].status = "selected"
                       /\ req[op.booking] = [status |-> "responded", quote |-> "eligible"]

\* The part of the inductive invariant that ties the outside world to the rows:
\* a POST, a process past begin and a callback all presuppose a committed begin,
\* a process still to dial has not dialled, and a job's holder is real.
Begun(k) == call[k].state \in Dispatched

WorkersPlaced == \A w \in Worker : worker[w].pc # "idle" => worker[w].at \in Attempt

DispatchHistory ==
  /\ WorkersPlaced
  /\ \A k \in Attempt :
       /\ call[k].state # "failed"
       /\ posts[k] > 0 => Begun(k)
       /\ script[k] # <<>> => posts[k] > 0
       /\ call[k].state # "none" => job[k].status # "none"
  /\ \A w \in Worker :
       /\ PastBegin(w) => Begun(worker[w].at)
       /\ worker[w].pc = "dialing" => posts[worker[w].at] = 0

\* What a callback established is never taken back by a later transaction: a
\* recorded terminal status stays, and evidence of an answer is never erased.
EvidenceIsMonotone ==
  [][\A k \in Attempt :
       /\ call[k].raw \in Terminal => call'[k].raw = call[k].raw
       /\ call[k].answered => call'[k].answered
       /\ call[k].sid # 0 => call'[k].sid = call[k].sid]_vars

\* A closed round is never reopened or closed again for another reason.
ClosedRoundIsFinal ==
  [][\A r \in Round : round[r].status \notin {"none", "active"}
                        => round'[r].status = round[r].status]_vars

\* As the comment in record_provider_call_status says, positive answer evidence
\* permits no retry: no undialled attempt waits behind an answered one.
NoRetryBehindAnswer ==
  \A k \in Attempt : Queued(k) /\ AnsweredRequest(k[1]) => call[k].state \in Dispatched

------------------------------------------------------------------------------
\* Refinement

\* How far an attempt has come, as the provider sees it.
Phase(c) ==
  IF c.state \in {"none", "prepared"} THEN "idle"
  ELSE IF c.raw = "no-answer" THEN "missed"
  ELSE IF c.raw \in Terminal THEN "over" ELSE "dialled"

Promise == INSTANCE ContactPromise WITH
  phase <- [k \in Attempt |-> Phase(call[k])],
  heard <- [k \in Attempt |-> call[k].answered]

\* The whole machinery of jobs, leases, processes and callbacks keeps the
\* promise made to providers (docs/outbound-worker.md: up to three calls, only
\* upon a no-answer without evidence of an answer).
KeepsPromise == Promise!Spec

------------------------------------------------------------------------------
\* Liveness

\* A replacement round, whose operation has lost its booking, comes to an end:
\* it selects, is withdrawn, or hands the operation to a human.
ReplacementSettles ==
  \A r \in Round :
    (round[r].status = "active" /\ round[r].kind = "replacement")
      ~> round[r].status # "active"

\* A call whose dispatch began is resolved: Twilio's final report is recorded,
\* or its round is closed.
DispatchResolved ==
  \A k \in Attempt :
    call[k].state = "dispatching"
      ~> (call[k].raw \in Terminal \/ round[RoundOf[k[1]]].status # "active")

\* A queued job is dialled or dropped: no operation stays with work it cannot do.
QueuedJobServed ==
  \A k \in Attempt : (Queued(k) /\ call[k].state \notin Dispatched)
                       ~> (call[k].state \in Dispatched \/ ~Queued(k))
==============================================================================
