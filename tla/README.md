# ctrl-alt-ship: TLA+ models, checks and proofs

The program ("Tango") arranges freight transport by telephone.  A client
describes an operation in a call and confirms a mandate; the server then calls
carriers ("providers") through Twilio, a realtime voice agent bargains with
each of them, and the best valid quote is booked.  Nearly all of the state, and
nearly all of the rules that protect it, are PL/pgSQL functions and triggers
under `src/supabase/migrations`; the TypeScript processes under `src/backend`
call them, place and receive the telephone calls and forward Twilio's reports;
a Next.js dashboard under `src/frontend` shows and corrects what is recorded.
Migrations redefine functions several times: the models follow the **last**
definition.

The hard part of the system is that small sets of rows are changed by parties
who do not wait for each other: the dispatch loops of one or more server
processes, Twilio's callbacks in any order, conversations in progress, clients
who change or withdraw a mandate, carriers who cancel, a judge that takes
seconds, outbox workers whose leases run out, operators in several browsers.
The second hard part is memory outside the database: what an agent was shown,
what a process remembers across an `await`, what a page read a moment ago.

## Inventory

| component | state | operations | what is hard, what must hold | module |
|---|---|---|---|---|
| Provider contact dispatch (`20260830225000_provider_no_answer_retries.sql`, `provider-contact-worker.ts`, `outbound-sourcing-loop.ts`, `provider-call-status-handler.ts`) | `outbox` jobs with lease and token; `calls` with dispatch state, SID, status, time of an answer | claim, begin, POST, finish, status callback, poll | crash between any two steps, lost replies, callbacks before, after and instead of the reply; one POST per call row, two lines per operation, a retry only after a no-answer | `ProviderContact` |
| Sourcing rounds (`20260830224000_provider_sourcing_rounds.sql`) | `sourcing_rounds`, `quote_requests` | opened, withdrawn by a trigger, selected, superseded, exhausted | the trigger runs under the feet of a dispatch; one active round in scope, closed rounds final and quiet | `SourcingRound` |
| Quotes and adjudication, sourcing judge (`20260830233000_accept_above_budget_quotes.sql`, `sourcing-review-service.ts`) | `quotes`, the stored review, the booking | `create_quote`, decline, prepare, judge, finalize | a quote arrives while the others are compared; two processes finalize; the review matches what is committed | `Adjudication`, `QuoteTools` |
| Quote evidence | transcripts, staged evidence | pick, stage, bind | transcripts come late, calls are repeated | `QuoteTools` |
| Client commands (`20260830120001_minimal_operation_intake.sql`, `20260830232300_client_cancellation_sms_outbox.sql`) | `operations`, `mandates`, receipts | create, update, confirm, cancel | consent to a summary that another call has changed; repeats and late requests | `CallTools` |
| Bookings and their changes (`20260830235000_offer_booking_windows_before_escalation.sql`) | booking, `change_requests` | select, reschedule, decline, cancel, award | carrier, client and sourcing change one booking | `CallTools` |
| Inbound isolation, outbound binding (`call-routing.ts`, `inbound-routing.ts`, `outbound-routing.ts`) | the call's row and its SIP leg | identify, link, persist, accept | redelivered webhooks, restarts, edited telephones, two legs of one attempt | `IncomingCalls`, `CallTools` |
| Realtime session (`agents-call-session.ts`) | tools, agent, updates on their way | execute, refresh, update, compare | the SDK leaves an empty list out of an update; the model calls before an update arrives | `SessionConfiguration` |
| Escalation and handoff (`escalation-handoff-coordinator.ts`, `handoff-refer-handler.ts`) | `escalations`, the farewell in memory | create, confirm, cancel, refer, Twilio's two callbacks | a REFER that times out and is carried out, repeated audio events, the directory edited meanwhile | `LiveHandoff` |
| SMS and email outboxes | `outbox` jobs with attempts and lease | queue, claim, deliver, complete, fail | delivered but not recorded, a slow batch, two completions at once | `MessageOutbox` |
| Call evidence retention (`20260830230000_safe_call_evidence_retention.sql`, its worker) | transcripts, recordings, aggregate | expire, claim, purge, delete, record | deleted but not recorded, late callbacks and segments | `EvidenceRetention` |
| Dashboard and frontend | reads of all of it, forms, streams, cookies | correct, resolve, edit, follow, page, sign in | stale forms, separate requests, pages read while rows come in, streams that miss, redirects | `OperatorConsole`, `LiveUpdates`, `DashboardViews`, `DashboardAccess` |
| Seed | all the above | one run of the script | stops anywhere, runs again | `DemoSeed` |
| Agent instructions, observability and configuration | none that the rules depend on | | | not modelled |

How they interact: processes share nothing but the database, and every SQL
function locks the **operation row first**, so each of them is one atomic step
of the models (where a function looks at rows other transactions commit, in
`MessageOutbox`, it is several).  What happens between two functions of one
process is not atomic, and is where the models interleave: every `await` whose
outcome matters ends a step.  `PROJECT.json` lists for each definition the lines
it models, and for each hazard the line where it bites.

## Modules

```
SourcingState        tables, status columns, shared predicates and updates
  SourcingRound      client commands, selection, cancellation of a booking, advance
    ProviderContact  workers, POST, callbacks, conversation, clock, directory
      ProviderContactProofs   types; one POST, evidence, retries, lines; the promise;
                              rounds, their jobs, the booking
      MCProviderContact       constants for TLC
ContactPromise       abstract: what is promised to a provider

IncomingCalls ........ IncomingCallsProofs        \
SessionConfiguration . SessionConfigurationProofs  } MCConversations
LiveHandoff .......... LiveHandoffProofs          /
Adjudication ......... AdjudicationProofs         \
CallTools ............ CallToolsProofs             } MCCommands
QuoteTools ........... QuoteToolsProofs            |
OperatorConsole ...... QuoteToolsProofs (Console) /
MessageOutbox ........ MessageOutboxProofs        \
EvidenceRetention .... MessageOutboxProofs         } MCRecords
                       (Disposal)                  |
DashboardAccess ...... QuoteToolsProofs (Access)   |
DemoSeed ............. AdjudicationProofs (Seed)   |
DashboardViews                                    /
LiveUpdates (with LiveHandoff, MessageOutbox,
             EvidenceRetention)                     MCProgress
```

**SourcingState** has one variable per table, for one operation: `op`
(`operations`), `round` (`sourcing_rounds`), `req` (`quote_requests` with the
verdict of the latest quote), `job` (`outbox`, kind `provider_contact`) and
`call` (`calls`).  Request and attempt identities are given: `RoundOf` says
which round a request will belong to, and attempt `<<q, n>>` has one job row and
one call row that start as `none`, i.e. not inserted.  `TablesInit` is the
state after the first mandate; `FirstKinds` lets a behaviour start from a
replacement round as well, which is the state `enqueue_replacement_sourcing`
leaves after a booking of an earlier round.

**SourcingRound** has one action per transaction that opens or closes a round.
The triggers are part of the statement that fires them: `UpdateOperation`
contains `close_stale_sourcing_rounds`, `ConfirmRound` contains
`enqueue_mandate_sourcing`, `ReplaceBooking` contains
`enqueue_replacement_sourcing`.  `Advance` is `advance_sourcing_round` with all
its branches.  (Its first branch, a round whose scope changed, is never reached:
`ActiveRoundInScope` is an invariant and the proofs say so for every size.)

**ProviderContact** adds the processes and the outside world:

| code | action |
|---|---|
| `claim_next_provider_contact_v2` | `Claim` |
| `begin_provider_contact`: granted, deferred, refused | `BeginDial`, `BeginDefer`, `BeginRefused` |
| `createTwilioOutboundCall` and its failure | `Post`, `PostRejected` |
| `finish_provider_contact_v2`: with a SID, with an error; the call of it fails | `FinishSid`, `FinishError`, `FinishLost` |
| `ProviderContactWorker.advance`, the sweep of every poll | `WorkerAdvance`, `PollAdvance` |
| a deploy or a crash | `Crash` |
| `record_provider_call_status`: repeated or old, too late to matter, new | `StaleCallback`, `LateCallback`, `FreshCallback` |
| `execute_provider_quote_tool` | `CreateQuote`, `DeclineQuote` |
| an operator deactivates or activates a provider of `Switchable` | `ProviderSwitched` |
| lease, ambiguity and comparison times, `available_at`, one second between calls, first pickup window | `ExpireLease`, `Age`, `ComparisonDeadline`, `Mature`, `SecondPasses`, `PickupPasses` |

`Post` chooses what Twilio will report of the call (`script`), in Twilio's own
order; report *i* carries sequence number *i*.  A callback delivers any of them,
in any order, any number of times; the three callback actions are the three
ways the function ends.

**ContactPromise** is the abstract specification: a provider is dialled once
per attempt, the next attempt starts only behind a missed call nobody was heard
on, what was heard stays heard, and calls only move forward.  It knows no jobs,
leases, processes, rounds or reports.  `ProviderContact` implements it under the
mapping `Phase` (property `KeepsPromise`).

**Adjudication** opens up the atomic `Select` of `SourcingRound`: quotes with
prices and the order of their reception (`CreateQuote`, `EndRequest`), the
context the database prepares (`Context`, `Prepare`), the judge (`Ratified`,
`JudgeFails`), the record under the operation's lock (`Record`) and the booking
if the context of that moment has been reviewed (`FinalizeReviewed`,
`Finalize`), by any number of processes, each of which may `Restart`.

**QuoteTools** is the bargaining inside one call: `Speak` and `Note` (the
transcript, which may come after the tool call it proves), `Ask`, `Repeat`,
`Stage`, `GiveUp`, `Refresh` of the session, and `Serve` for the transaction
(`CreateQuote`, `Decline`, `RecordOffer`, `Replay`, `Refuse`).

**CallTools** has the tool session of each client and carrier call (`Ask`,
`Repeat`, `GiveUp`, `Refresh`, `List`, `Hangup`) and one action per transaction
that serves its requests, late, twice or never: `Create`, `Update`, `Confirm`,
`Cancel`, `Select`, `Reschedule`, `Decline`, `CancelBooking`, `Refuse`.  `Award`
stands for sourcing, `Begin` for a pickup window that begins.

**IncomingCalls** follows the handler of `realtime.call.incoming` in `server.ts` await
by await: `Identity`,
`RouteIncomingCall`, `ReadAttempt`, `ReadContext`, `Link`, `SelectExisting`,
`InsertCall`, `InsertRoutedEvent`, `RefreshTools`, `Accept`, `Connect`, with
deliveries repeated (`Deliver`), a restart (`Crash`), failed queries
(`QueryFails`) and operators who edit telephones (`SavePhone`, `CommitPhone`).

**SessionConfiguration** has the tools of the session, the configuration on its
way to OpenAI and its echo: `AcceptCall`, `Connect`, `CallTool`, `Execute`,
`UpdateAgent`, `Apply`, `Observe`.

**LiveHandoff** has the tool in execution step by step (`Escalate`, `CreateCase`,
`ConfirmEscalation`, `CancelEscalation`, `PersistCancel`, `ToolEnds`), the
handlers of the sideband (`HandleCreated`, `HandleStopped`), the REFER
(`ReferPassedOn`, `ReferAccepted`, `ReferFailed`), Twilio (`HandoffRefer`,
`HandoffFinished`) and the dashboard (`ResolveEscalation`, `Edit`).

**MessageOutbox** is one machine for both channels: the triggers that queue
(`ConfirmBooking`, `ProviderCancels`, `ClientCancels`), which are those of the SMS
channel, since `20260830232100_booking_confirmation_sms_outbox.sql:158-189`
replaced the one that queued confirmations by email; `QueueEmails` for the
function that queues these, which is still in the schema and granted to the
service though nothing calls it; `Claim`, `Delivered`, `AnswerLost`, `Refused`, the three steps of a completion
(`MarkProcessed`, `LockOperation`, `LookAtOthers` with `CommitCompletion`),
`RecordFailure`, `ExpireLease`, `PauseEnds`, `Crash`.

**EvidenceRetention** has `Expire`, segments whose transaction spans the expiry
(`BeginSegment`, `CommitSegment`), recordings at Twilio and their callbacks
(`RecordStatus`), and the worker: `Claim`, `Purge`, `DeleteRecording`,
`CompleteDeletion`, `JobDone`.

**OperatorConsole** splits each request of the dashboard into its statements
(`CorrectRead`, `CorrectWrite`, `CorrectEvent`, `CorrectAudit` and the like for
resolutions and the directory).  **LiveUpdates** has the transactions that move
a revision (`Begin`, `Commit`), the stream (`Connect`, `StartPoll`, `ReadPart`,
`FinishPoll`) and the page (`Changed`, `RereadPage`).  **DashboardViews** has the
paged reads (`Query`, `ReadCalls`, `ReadRows`, `ReadRecord`) and what is made of
them (`Trace`, `DecisionLedger`, `Nearer`).  **DashboardAccess** has `Proxy`,
`DashboardPage`, `LoginPage`, `LoginMounted`, `SignIn`, `SignOut` and the tokens.
**DemoSeed** has one action per statement of the script and the people who work
meanwhile.

### Abstractions, and what in the code justifies them

Dispatch and rounds:

- Prices are the verdict of a request's latest quote: `none`, `counter` (one
  counteroffer pending), `outside`, `eligible`.  `negotiation_limit` is 2 by
  default: a first bad price gets the counteroffer, the second does not.
- The judge is the moment at which `Select` happens and its choice of a winner
  among the eligible quotes; `Adjudication` has the rest.
- A lease's token is the process that made the claim: a process has one claim
  at a time and forgets it when it crashes.  In `MessageOutbox` it is the number
  of the claim, which `attempts` counts.
- Requests are created with expiry `infinity`, so the expiry clauses are vacuous.
- The worker classifies every dispatch error as ambiguous
  (`provider-contact-worker.ts`), so the state `failed` of a dispatch, which the
  SQL allows, never arises; `DispatchHistory` says so and is checked.
- `notifications_sent` is folded into `booking_confirmed`, and the call outcome
  `transferred` is left out: for sourcing it is like any other outcome.
- Clock readings are flags.  The only relation between them that is kept is
  that a lease, taken before dispatch began, expires before the call is old
  enough to be ambiguous (both last two minutes).
- Ignored callbacks (unknown call, SID of another call, repeated report without
  new evidence) change nothing and are not actions.

Elsewhere:

- `Adjudication`: `Window`, `Pause` and `Pickup` count minutes; contexts are
  compared as a whole, as their hash would be; equipment, term, currency and
  window of a quote are the round's; quotes are numbered in the order of the
  operation's lock.  The judge ratifies or fails: it is not given a choice.
- `QuoteTools`: a price is its maximum; request, round and mandate are one flag;
  the SDK may run any tool call again at any time (`Repeat`; `again` remembers
  which), under the target of the present state, as `provider-quote-service.ts:57`
  takes it, and with the evidence of the first run.  The agent is assumed to follow
  its prompt in one thing (`provider-quote-instructions.ts:6`: never replay old
  answers): `Ask` does not report as a quote an answer that the
  state the agent was shown already has as one, unless it is now the carrier's
  final approval (`~Answered`).  Nothing in the code enforces this (an agent that
  breaks it has one answer counted as two attempts), and `QuotesAreSafe` and
  `ExceptionIsEarned` rest on it.
- `CallTools`: operative details are a number, commercial terms the set of
  windows, `updated_at` a counter; prices are left out, an award is within price.
  A change remembers the booking and the mandate its agent had been shown
  (`heard`), for `ChangeIsInformed`, which compares them with the booking it is of
  and the mandate it was decided under.
- `IncomingCalls`: a telephone is written with or without the mobile marker
  (+54, +549); one dispatched attempt with one flag for its request, round and
  mandate; every leg has its own SID; `QueryFails` covers every read.
- `SessionConfiguration`: tool calls are executed one after the other.  That is an
  idealisation: the session asks OpenAI for it (`parallelToolCalls: false`,
  `agents-call-session.ts:115`), but `execute` does not enforce it, and what two
  executions might do to the session between each other's awaits is not covered by
  `NoStaleTools` and `TransferStaysProtected`.  Instructions are numbered by the tool call they follow;
  `silent` is turn detection switched off.
- `LiveHandoff`: the agent's other tools are one step; briefing, signatures and
  formats are left out.
- `MessageOutbox`: message text is left out.  `EvidenceRetention`: text is the
  number of segments with content, `retention_checked_at` each call's place.
- `OperatorConsole`: a version stands for `updated_at`; a live refresh may or may
  not move inputs nobody touched; saved views are left out.
- `LiveUpdates`: transactions are numbered when they begin, a page is the set of
  committed transactions it was read from, in two parts.  The row's part of the
  register's revision is left out of `Overtaken`, since closing and reopening
  can restore it.
- `DashboardViews`: ticks, `Grain` of them a millisecond and `Unit` a second;
  Twilio's `ended_at` is in whole seconds; a late row is at most a tick late.
- `DashboardAccess`: a token is its session and number of refreshes; Supabase
  Auth verifies unexpired tokens, refreshes expired ones of open sessions,
  refuses others and may not answer; hops are counted up to `MaxHops`.
- `DemoSeed`: fixtures are numbered, the names a fixture had are one; `active`
  stands for authorized and active; one person runs the script at a time.

## Runs

Bounds are named in the cfg or, for components checked side by side, where the
MC module instantiates them.  `CHECK_DEADLOCK FALSE` throughout, because
operations, calls and conversations can be over.

**Side by side.**  `MCConversations`, `MCCommands`, `MCRecords` and `MCProgress`
check components that share no state.  `moving` is chosen at the start: that
component (or that instance of it: several bounds of one component are several
values of `moving`) takes the steps and the others stay as they began, so a
behaviour of the run is a behaviour of one instance, and a property of the run
speaks of the instance that moves.

| run | instance | question |
|---|---|---|
| `retries` | 1 request, 3 attempts, contradicting reports | Is there a second or third call only behind a no-answer? Does the machinery implement `ContactPromise`? Is evidence ever taken back? Types of every row. |
| `workers` | 1 request, 2 attempts, 2 processes (symmetric), 1 crash | Can two processes, or one after a crash, POST the same call row? Is everything past begin backed by a committed begin? |
| `rounds` | 2 requests in 2 rounds, 1 line, one provider switched off and on | Does a closed round stay closed and quiet, is the active one in scope, does the booking keep its winner, with calls of the first round still going? |
| `lines` | 2 requests in 1 round, 2 processes, 1 line | Can two processes pass the limit at once? |
| `settling` | replacement round, 2 attempts, 1 crash, fairness | Does a replacement round end, is a begun dispatch resolved? |
| `late` (violation) | 1 request, 3 attempts, contradicting reports | Does a late answer of an earlier attempt rule out every later retry? |
| `slots` (violation) | 2 requests in 2 rounds, 1 line, fairness | Is every queued job dialled or dropped? |
| `replays` (violation) | 1 answer, 2 tool calls, 1 given up and run again | Does a tool call that is run again make a second quote of one answer? |
| `conversations` | `caller`: one telephone, two deliveries, two edits; `attempt`: two legs of one attempt, one fault; `configuration`: two tools, three calls, one fault; `handoff`: two recipients, two reviews, one edit, one fault | Does a session run on its own call's row, is an attempt linked once, has the model the tools it should have, is there one transfer, to the confirmed person? |
| `commands` | `award` (2 carriers, 2 quotes each, 1 round, pickup at 3) and `awards` (2 processes, 2 rounds); `clients` (2 calls of the client), `carrier` (1 of the carrier, 3 commands, a window that begins), `carriers` (2 calls of the carrier) and `parties` (1 of each), both with 3 commands a call and 4 in all, 2 windows and an award, `newcomer` (2 operations); `bargain` (3 answers, transcripts late), `statements`; `corrections`, `retried`, `entry`, `people`, `closing` (2 browsers or 1 and a fault) | Is a round awarded once and fairly, also by a quote that came late; is consent current; is a change one, of the booking and under the mandate its agent was shown; is an exception earned, nothing overwritten unseen, a cancelled operation final? |
| `records` | `notices` and `mail` (2 processes, 1 booking, 1 mishap); `disposal` (2 recordings, 2 workers, 1 fault); `pages`, `matches`, `trace`; `one tab`, `two tabs`; `seeding` (2 runs, 1 fault, 1 edit) | Is every message accounted for, is deleted audio gone, are pages complete, have redirects a cause, does a second seed change nothing? |
| `progress` | `record`, `register` (2 transactions); `handoff`; `delivery` (1 message, 2 workers, 3 attempts); `audio` (a stuck recording in front of another), `text` | Is every change shown, every followed farewell a transfer, every message settled, all expired evidence erased? |

In `progress` the variable `chosen` never changes: it names the transaction
whose showing is awaited, so that one temporal formula serves all of them.

Why the bounds are enough.  A retry rule relates an attempt to the one before
and, in the last case, to the one before that, so three attempts show all its
cases; a claim is contended by two processes, and a third would see the same
rows; one line shows the race that two lines show with one more call; two rounds
show a round closed while its calls go on.  One crash or fault is enough to lose
any step, because a process that restarts holds nothing.  Two calls, browsers
or legs show every race for one row; a review that is cancelled and a second one
show what the first leaves behind; two pages show what shifts between them.
Processes, calls of the client and browsers are symmetric sets where no
property tells them apart; liveness is checked without symmetry.  For the
properties proved below the bounds do not matter.

Two cases of `commands` need room.  The deadline of quotes is one tick after the
dispatch (`Window = 1`), so with `Pickup = 3` and a clock up to 3 there is a tick
at which the deadline has passed, a quote may still arrive and a pickup is still
possible: `clock > Deadline(r) /\ Ready(r)` holds with a late quote and with an
early one, and a late quote wins where no early one is eligible.  A change takes
two commands, a selection and the change itself; with three for each call and
four in all another call's commands come before, between and after them.  In
`carriers` two calls have one booking in hand: both have a change open, a pending
change is replaced or escalated, one declines or gives the booking back while the
other's change is on its way, and sourcing awards it again.  In `parties` the client updates
the details, confirms another mandate or cancels between the carrier's selection
and its change.

`carriers` and `parties` are reduced so that these bounds can be explored.  Their
calls ask nothing a second time, none of their refreshes fails, and they hang up
only with a request on its way; in `parties` the client opens no operation, which
`MaxOps` would not admit, reads no list, and changes the details to the other
complete ones only.  No row is lost by this: a command that has its receipt is
answered from the receipt, and a call that hangs up with nothing on its way is
like one that asks no more.  `carrier`, `clients` and `newcomer` have the
repeats, failed refreshes and lists, and `newcomer` the opening of operations.
The run has four permutations for all instances: what is
alike within one is named by one of two pairs of model values, the calls,
browsers or carriers of a round by the first, windows and processes by the second.

### Fairness

`ProviderContact!Fairness` is what `outbound-sourcing-loop.ts` and `server.ts`
provide: a process keeps iterating, catches errors and polls for ever (`WF` of
its steps and of the sweep); time passes (`WF` of the clock, except the optional
passing of the pickup window); every report Twilio makes is recorded at least
once (`WF` of callbacks: Twilio retries, but nothing in the code recovers a
report that is never delivered); the judge answers (`WF` of `Selection`).
`BeginDial` has strong fairness: it is disabled and enabled again by the expiry
of a two-minute lease while the process is on its way to it at once.  Clients
and providers owe nothing.  `FairSpec` adds `DirectorySettles`: operators stop
switching a provider off and on at some point.

`settling` uses reports that do not contradict each other (no answer, or
answered and completed).  With contradicting ones a round need not settle; that
is the finding of `late`.

`MCProgress` assumes, for the component that moves: the server's stream opens,
polls and finishes its reads, and the browser rereads (`WF` of each step of
`LiveUpdates`); a claimed message is handed over and recorded (`WF` of `Poll` and
`Deliver`, `SF` of `Record`, since a lease may expire and be taken again), leases
and pauses end; the tool in execution, the handlers of OpenAI's events and the
audio go on; the retention worker's timer fires and leases end.  Transactions,
callers, operators, faults and crashes owe nothing.

## Findings

- **A late answer does not stop a later retry** (`late`).  The retry rule
  (`20260830225000_provider_no_answer_retries.sql:294`) looks at the reported
  call only.  Attempt 1 ends as a no-answer, attempt 2 is dialled, then a late
  `in-progress` of attempt 1 arrives, then attempt 2 ends as a no-answer: job 3 is
  inserted.  The comment at line 248 says that arrival order must not erase
  positive answer evidence or permit a retry.  `claim` refuses the job for ever
  (it checks prior answers), so no third call is made, but the job stays pending
  and with it the round's remaining work.
- **A refused POST keeps its line** (`slots`).  A call whose POST Twilio refused
  ends as dispatch state `unknown` with no SID and no status, and `claim` (line
  90) and `begin` (line 161) count it as live for ever, also after its round was
  closed and a new one opened.  `docs/outbound-call-flows.md:22-23` says that
  `queued`, `ringing` and `in-progress` occupy a line.  With two of them the
  operation never dials again.

- **A replay can duplicate a quote** (`replays`).  The command target of a tool
  call is the one of the present state (`provider-quote-service.ts:57`), also when
  the call is run again, while its evidence is kept from the first run.  Tool call
  1 is given up before the database served it, the agent reports the same answer
  as tool call 2, whose command becomes a quote; when tool call 1 is then run
  again, it has no receipt, its target is current, and the answer becomes a second
  quote and a second attempt.  `docs/quote-immutability-fix.md:22` says that
  replays do not duplicate quotes; with a receipt they do not.  Nothing in the
  repository runs a tool call again by itself; it is the SDK and the model that
  may, and line 56 of the service provides for it.  `AnswerCountedOnce` and
  `ExceptionIsEarned` therefore speak of tool calls that were run once: among
  those, requests given up and served late never count an answer twice.

### Other disagreements met while modelling

These are not runs; the models do what the code does.

- *Messages.*  Completing a confirmation moves any operation that is
  `booking_confirmed` to `notifications_sent`, also when the job's booking was
  cancelled and another one is current whose messages are still queued
  (`contracts/events.md:305-307`).  The worker sends what the job says and never
  reads the operation again (`docs/client-cancellation.md:66-67` asks future
  workers to revalidate it immediately before contacting).
- *Handoff.*  A cancellation that was committed and whose reply was lost is told
  as failed with its review closed (`docs/escalation-return.md:27-28`: the review
  stays open).  The first response after the confirmation is taken for the
  farewell, also one that voice activity had started before: its end sends the
  REFER early (lines 16-17), and if speech cuts it off the end of the real
  farewell is ignored and no REFER is sent (lines 18-19).  The record of the
  accepted REFER, when it comes late, overwrites a failed dial
  (`docs/runtime-logs.md:72-73`: failures leave `transfer_failed`).
- *Console.*  The event and the audit row of a correction are requests of their
  own after the committed update (`dashboard-console.ts:360`): a failure in
  between loses them, and the retry is refused as stale or finds nothing to do,
  although `20260830120000_dashboard_operator_console.sql:7-8` promises an audit
  row for every change.  A correction without changes is answered like one that
  was recorded (`dashboard-console.ts:336`, `operation-correction-form.tsx:41`).
  The form sends the `updatedAt` of the latest refresh, not of what was reviewed
  (`operation-correction-form.tsx:38`).
- *Live updates.*  A transaction that began earlier and commits later does not
  move a revision made of newest times (`dashboard.ts:715`); the first revision
  is read after the page was rendered (`routes/dashboard.ts:477`); the strip may
  stay at "reconnecting" (`operation-live-updates.tsx:103`).  `ChangesAreShown`
  therefore speaks of changes that move the revision while the stream is open.
- *Views.*  The trace compares times of different precision as text
  (`dashboard.ts:457`); transcripts may be recorded after the tool call that uses
  the latest one (`agents-call-session.ts:216`).
- *Callers.*  The lookup treats +54 and +549 as one telephone and the unique
  columns do not (`src/README.md:94-96`); an inactive caller is refused otherwise
  than `README.md:112-113` says.
- *Seed.*  On a fresh database the isolation trigger refuses the seed's call
  (`README.md:100-104`); an edited row may be overwritten or seeded again
  (`seed.ts:257`, `seed.ts:282`).
- *Judge.*  A process remembers one failed context per operation, so a context
  that becomes current again after another one failed too is judged before its
  pause is over (`docs/bidding-minimal.md:75-76`: retryable failures wait 60
  seconds in the process).

## Proofs

Every theorem holds for every value of the constants that satisfies the named
assumption of its module, and no set needs to be finite unless the assumption
says so.  `SourcingState` and `ProviderContact` assume at least one round, one
attempt and one line, `RoundOf` into the rounds, `Scripts` of Twilio statuses and
`None` no request and no process; `IncomingAssumption`, `AdjudicationNumbers`,
`OutboxAssumption`, `HandoffAssumption`, `SessionAssumption` and `QuoteAssumption`
give prices and bounds their types and keep markers apart from data; `CallAssumption` says that complete
details exist, which the first operation has; `RetentionAssumption` that the calls
are finitely many, because a claim orders them, and each recording is of one call;
`ConsoleAssumption` that rows have names of their own and a directory has
telephones; `AccessBounds` that bounds are natural numbers; `SeedAssumption` that
some fixture has a quote (`seed.ts:105,126`) and only those with a request have,
without which a completed run would leave the operation in sourcing.  TLC
evaluates each of them.

Four components have their proofs in the module of a neighbour, through an
instance under a name: `Disposal!` is `EvidenceRetention`, the other worker of a
server process beside the outbox, `Console!` is `OperatorConsole`, the dashboard's
writes beside those of the calls, `Access!` is `DashboardAccess`, the way to
these, and `Seed!` is `DemoSeed`, the script that fills the tables.

| module | theorems | inductive invariant, and why it is needed |
|---|---|---|
| `ProviderContactProofs` | `TypeCorrect` | a POST, a finish or a refused begin updates the row of the attempt the process is at, so a process that is not idle must be at one (`WorkersPlaced`) |
| | `NoCallTwice`, `NothingWithoutBegin` | `DispatchInv`: a process about to dial has not dialled and is alone at its call, because begin requires a call that is only prepared while every process past begin is at a dispatched one |
| | `EvidenceStays` | from the lemma on what one step may do to a call row (`NextCalls`) |
| | `RetriesJustified` | `RetryInv`: a job appears with its request, as the first attempt, or by a no-answer of the attempt before; a call row needs a job; a terminal status is not taken back |
| | `LinesLimited` | `LinesCounted` bounds the calls the database counts as live; only begin adds one and it checks the bound |
| | `PromiseKept` | the refinement: begin maps to `Dial`, a callback to `Report`, every other step is invisible.  `Dial`'s guard needs `RetryInv`, `ReportedIsBegun` and the count of lines |
| | `OneRoundInScope`, `NoWorkAfterClosing`, `BookingKept`, `ClosedForGood` | `RoundInv`, the three states together: withdrawals touch the active round only, and a new round starts quiet because what was queued belonged to the one it supersedes |
| `IncomingCallsProofs` | `RoutingIsSafe`, `TypeCorrect`, `ScopeCorrect`, `AcceptanceRecorded`, `LinkedOnce` | `RoutingInv`: what a handler remembers across its awaits agrees with the row it found or inserted, and a row with its `call.routed` event |
| `AdjudicationProofs` | `TypeCorrect`, `AwardedOnce`, `FairAward` | `AwardInv`: the active round is the last (`ActiveIsLast`), quotes are numbered in their order, bookings lie in rounds.  The winner is first in the order `Before`, which is total because no two quotes have one turn |
| `MessageOutboxProofs` | `TypeCorrect`, `ExclusiveClaim` | `ClaimInv`: a job in hand is held by its claim's number, and an open completion has the rows it marked |
| | `NoneOverlooked` | `OverlookInv`: a completion that has looked saw every message of its booking that was processed before it had the lock (`LookedRight`) |
| | `OutboxIsTrue` | `DeliveryInv` and the counting `CountInv`: messages sent and processes about to send exceed the mishaps by one at most |
| `MessageOutboxProofs`, instance `Disposal` | `DisposalAgrees`, `DisposalTypes`, `DisposalStaysTrue` | `DisposalInv`: what a worker has in hand are completed recordings of its job's call, and it takes a deletion for confirmed only when it was carried out (`JobsHeld`); a callback is about a recording of its own call (`CallbacksOwned`), so the aggregate it computes again is of the right rows |
| `LiveHandoffProofs` | `HandoffAgrees`, `TypeCorrect`, `OneTransfer` | `HandoffInv`: agent, coordinator and row agree on the case and telephone in hand (`ReviewInHand`), a tool that changes the review is not running once it is confirmed (`ToolInHand`), nothing sends a REFER but a confirmation and the target has not moved since (`ReferMade`) |
| `SessionConfigurationProofs` | `SessionAgrees`, `TypeCorrect`, `ToolsAreCurrent`, `FarewellProtected` | `SessionInv`: updates on their way are a history, so it speaks of the last: it leaves nothing out (`UpdatesAreWhole`), states what is meant now (`LatestIsMeant`), and behind a silent configuration there are silent ones only (`SilenceLasts`) |
| `CallToolsProofs` | `ToolsAgree`, `TypeCorrect`, `ConsentStaysCurrent` | `Remembered`: a revision in a session or on the wire that is still the row's stands for its details, mandate and terms, because every update of a row raises its revision (`OpsForward`) and a call that has an operation keeps it; that only clients confirm follows from `ToolsAreOwn` and `InHand` |
| | `ChangesStaySafe` | `OneIsOpen` with the replacement of the pending change and the refusal after an escalated one (`NoneIsOpen`); `BookingFitsMandate` needs that what is booked has a mandate (`BookedHasMandate`) and that pointers are to rows that are there (`Pointers`); `ChangeIsInformed` needs `Remembered` for the carrier's calls too, and that booking, call and operation point to each other (`Links`) |
| | `CancelledStaysFinal` | each transaction that writes an operation has checked its status in the same transaction, through `OneRow`, the frame lemma of all of them |
| `QuoteToolsProofs` | `QuotesAlwaysAgree`, `TypeCorrect`, `QuotesStaySafe` | `QuotesAgree`: a view, in the session or on the wire, shows quotes there are (`ViewsAreOfThen`), and what a tool call that was run once reports is not among them (`AnswersAreFresh`).  A command is served only if its target shows all quotes, so its answer is new.  A quote has its receipt (`QuotesHaveReceipts`), and a segment once picked stays (`SegmentsArePicked`) |
| | `ExceptionStaysEarned` | the code counts versions, the property answers: `AttemptsAreAnswers` maps the one set one to one to the other, because no answer is counted twice |
| `QuoteToolsProofs`, instance `Console` | `ConsoleAgrees`, `ConsoleTypes`, `ConsoleStaysTrue` | `ConsoleInv`: a row that was read is not newer than the table's and is the same at the same version (`ReadEarlier`), so a write whose version still fits replaces what was shown.  A request that has written has its write in the history with the values it will report (`CorrectHolds`, `UpdateHolds`), and the history only grows (`Forward`) |
| `QuoteToolsProofs`, instance `Access` | `AccessAgrees`, `AccessTypes`, `RedirectsStayCaused` | `AccessInv`: the bound on the redirects a navigation has had is not inductive, because proxy, page and form look at cookies one of them may just have refreshed.  `Need` counts those it may still meet if nothing more happens, from what Auth makes of the token it carries, of the proxy's and of the jar (`Good`); a redirect uses up one of them, and what happens to the session gives at least two (`Room`) |
| `AdjudicationProofs`, instance `Seed` | `SeedAgrees`, `SeedTypes`, `SeedStaysSafe` | `SeedInv`: where the keys of the table differ from those a run has read, the run wrote them (`KeysRead`), so the row it takes for a fixture is the only one with that key and a second never appears.  What it has passed is there (`RequestsHeld`), as it wrote it if nobody disturbs (`Undisturbed`), and after a completed run every lookup of the next one finds its row (`AsCompleted`) |

By-products: the first branch of `advance_sourcing_round` (`round_scope_changed`)
is unreachable, which `AdvanceRound` uses.  `ToolsAreCurrent` needs every update
to state its tools: with the payload of the SDK, which omits an empty list, the
invariant is not inductive, and that is the defect `buildSessionPayload` repairs.

Where the property is defined in the component's own module the theorem is
listed with it in `PROJECT.json`; where the run states it through an MC module
(`TransferIsSafe`, `NoStaleTools`, `TransferStaysProtected`, `ConsentIsCurrent`,
`ChangesAreSafe`, `CancelledIsFinal`, `QuotesAreSafe`, `ExceptionIsEarned`,
`DisposalIsTrue`, `ConsoleIsTrue`, `RedirectsHaveCause`, `SeedIsSafe`), the theorem
names the component's formula of the same name.

Only model-checked:

- liveness (`ReplacementSettles`, `DispatchResolved`, `ChangesAreShown`,
  `WorkIsDone`) and the three findings: fairness and `ENABLED` are out of the proof
  system's reach, and a counterexample is TLC's;
- the safety of `DashboardViews` (`ViewsAreTrue`, and its part of `TypesOK`): it
  sorts, which is induction over data.

## Not modelled

Agent instructions (prompts without state), observability and configuration;
saved views, the search box, the figures of the overview, formatting; the
harnesses, which are manual clients.  Several operations at once are not
modelled: they meet only in the one-call-per-second rule (kept, as `recent`,
within one operation) and in the window of the first twenty due jobs, where
twenty jobs that cannot be claimed would starve a later one.

## Plan

A module for the twenty-job window of several operations.
