---------------------------- MODULE SourcingState ----------------------------
(***************************************************************************)
(* The rows of the sourcing tables that belong to one operation, and the   *)
(* vocabulary the transactions on them share.  Every transaction takes the *)
(* operation's row lock first, so operations do not interfere and each     *)
(* transaction is one atomic step of the modules that extend this one.     *)
(*                                                                         *)
(* A quote request is identified with the provider it asks.  An attempt is *)
(* a pair <<request, n>>: it has at most one outbox job (the idempotency   *)
(* key is request and attempt number) and at most one call row (a unique   *)
(* index), so both tables are functions of the attempt.  The job's payload *)
(* is bound to the call exactly when the call row exists.                  *)
(***************************************************************************)
EXTENDS Integers, Sequences, FiniteSets

CONSTANTS
  Request,      \* quote requests the operation may ever open
  MaxRounds,    \* bound on the sourcing rounds of the operation
  RoundOf,      \* the round a request belongs to (quote_requests.round_id)
  MaxAttempts,  \* calls per request: 3 in the code
  FirstKinds,   \* what kind of round the modelled history may start with
  Worker,       \* processes that may run the dispatch loop at the same time
  Switchable,   \* requests whose provider operators may deactivate and activate
  None          \* a NULL reference

ASSUME RoundsAssumption ==
  MaxRounds \in Nat \ {0} /\ RoundOf \in [Request -> 1 .. MaxRounds]
ASSUME AttemptsAssumption == MaxAttempts \in Nat \ {0}
ASSUME KindsAssumption ==
  FirstKinds \subseteq {"initial", "renegotiation", "replacement"}
ASSUME SwitchableAssumption == Switchable \subseteq Request
ASSUME NoneAssumption == None \notin Request /\ None \notin Worker

VARIABLES
  op,      \* operations row, with two facts its transactions read: the pickup
           \* window began, and who was deactivated in the directory
  round,   \* sourcing_rounds rows
  req,     \* quote_requests rows, with the verdict of their latest quote
  job,     \* outbox rows with job_type = 'contact_provider'
  call     \* calls rows with a quote request

tables == <<op, round, req, job, call>>

Round == 1 .. MaxRounds
Attempt == Request \X (1 .. MaxAttempts)

\* Twilio statuses.  "ringing" stands for queued, initiated and ringing;
\* "busy" for busy, failed and canceled: the code treats each group alike.
Terminal == {"completed", "busy", "no-answer"}
AnswerStatus == {"in-progress", "completed"}
CallStatus == {"ringing", "in-progress"} \cup Terminal

Sourcing == {"sourcing", "quotes_received"}
OpStatus == Sourcing \cup {"booking_confirmed", "needs_follow_up", "cancelled"}
Kind == {"initial", "renegotiation", "replacement"}

\* Request states a commercial command or a withdrawal may still touch.
OpenRequest == {"queued", "contacted", "responded"}

\* Dispatch states of a call that may have reached Twilio.
Dispatched == {"dispatching", "accepted", "unknown"}

OpRow == [status : OpStatus, mandate : Nat, confirm : BOOLEAN,
          booking : Request \cup {None}, pickupPast : BOOLEAN,
          inactive : SUBSET Request]
RoundRow == [status : {"none", "active", "selected", "exhausted", "superseded"},
             kind : Kind, mandate : Nat, dispatched : BOOLEAN, late : BOOLEAN]
\* A counteroffer was asked for, the price is outside the terms, or the quote may
\* win: inside the terms, or accepted above the budget.
Verdict == {"counter", "outside", "eligible"}
RequestRow == [status : {"none", "cancelled", "expired"} \cup OpenRequest,
               quote : {"none"} \cup Verdict]
JobRow == [status : {"none", "pending", "processing", "processed", "failed"},
           holder : Worker \cup {None}, lease : {"none", "held", "expired"},
           due : BOOLEAN]
CallRow == [state : {"none", "prepared", "failed"} \cup Dispatched,
            outcome : {"active", "completed", "failed"},
            raw : {"none"} \cup CallStatus, seq : Nat, answered : BOOLEAN,
            sid : Nat, aged : BOOLEAN]

TablesTypeOK ==
  /\ op \in OpRow
  /\ round \in [Round -> RoundRow]
  /\ req \in [Request -> RequestRow]
  /\ job \in [Attempt -> JobRow]
  /\ call \in [Attempt -> CallRow]

NoRound == [status |-> "none", kind |-> "initial", mandate |-> 0,
            dispatched |-> FALSE, late |-> FALSE]
NoRequest == [status |-> "none", quote |-> "none"]
NoJob == [status |-> "none", holder |-> None, lease |-> "none", due |-> FALSE]
NoCall == [state |-> "none", outcome |-> "active", raw |-> "none", seq |-> 0,
           answered |-> FALSE, sid |-> 0, aged |-> FALSE]

------------------------------------------------------------------------------
\* Predicates the transactions share

RequestsOf(r) == {q \in Request : RoundOf[q] = r}
AttemptsOf(r) == {k \in Attempt : RoundOf[k[1]] = r}

Queued(k) == job[k].status \in {"pending", "processing"}

\* A call counts as live until a terminal callback is recorded.
Live(k) == call[k].state \in Dispatched /\ call[k].raw \notin Terminal
LiveCalls == {k \in Attempt : Live(k)}

AnsweredRequest(q) == \E n \in 1 .. MaxAttempts : call[<<q, n>>].answered

OperationSourcing == op.status \in Sourcing /\ ~op.confirm

RoundInScope(r) ==
  round[r].status = "active" /\ OperationSourcing /\ round[r].mandate = op.mandate

\* What claim, begin and the retry rule require of a request.
MayContact(q) ==
  /\ RoundInScope(RoundOf[q]) /\ req[q].status \in {"queued", "contacted"}
  /\ q \notin op.inactive

------------------------------------------------------------------------------
\* Row updates the transactions share

Retired(j) == [j EXCEPT !.status = "processed", !.lease = "none"]

\* Mutant: nothing retires the jobs of what was withdrawn.
JobsKept(K) == job

\* The jobs table with every queued job among K marked processed.
JobsRetired(K) ==
  [k \in Attempt |-> IF k \in K /\ Queued(k) THEN Retired(job[k]) ELSE job[k]]

\* The requests table with every open request among Q moved to status s.
RequestsMoved(Q, from, s) ==
  [q \in Request |-> IF q \in Q /\ req[q].status \in from
                       THEN [req[q] EXCEPT !.status = s] ELSE req[q]]

\* The active round and what hangs on it, and the rounds with it superseded.
ActiveRounds == {r \in Round : round[r].status = "active"}

\* Mutant: a withdrawal that does not look at the round of a request.
EveryRequest == Request

ActiveRequests == {q \in Request : RoundOf[q] \in ActiveRounds}
ActiveAttempts == {k \in Attempt : RoundOf[k[1]] \in ActiveRounds}

\* Mutants: a withdrawal that misses the round, one that hits every round.
RoundsKept == round
EveryRoundSuperseded ==
  [r \in Round |-> IF round[r].status # "none"
                     THEN [round[r] EXCEPT !.status = "superseded"] ELSE round[r]]

RoundsSuperseded ==
  [r \in Round |-> IF r \in ActiveRounds
                     THEN [round[r] EXCEPT !.status = "superseded"] ELSE round[r]]

\* Rounds are numbered in the order they are opened.
NextRound(r) ==
  round[r].status = "none" /\ \A s \in Round : s < r => round[s].status # "none"

\* Opening round r with the requests Q over given rounds, requests and jobs:
\* each request is queued and its first job is due at once.
OpenRound(r, kind, mandate, Q, rounds, requests, jobs) ==
  /\ round' = [rounds EXCEPT ![r] = [status |-> "active", kind |-> kind,
                 mandate |-> mandate, dispatched |-> FALSE, late |-> FALSE]]
  /\ req' = [q \in Request |->
               IF q \in Q THEN [status |-> "queued", quote |-> "none"] ELSE requests[q]]
  /\ job' = [k \in Attempt |->
               IF k[1] \in Q /\ k[2] = 1
                 THEN [status |-> "pending", holder |-> None,
                       lease |-> "none", due |-> TRUE]
                 ELSE jobs[k]]

\* A round was just opened and nothing of it is dispatched yet; earlier rounds,
\* if any, are closed and their calls are over.
TablesInit ==
  \E Q \in SUBSET RequestsOf(1) : \E kind \in FirstKinds :
    /\ op = [status |-> "sourcing", mandate |-> 1, confirm |-> FALSE,
             booking |-> None, pickupPast |-> FALSE, inactive |-> {}]
    /\ round = [r \in Round |-> IF r = 1
                  THEN [NoRound EXCEPT !.status = "active", !.kind = kind, !.mandate = 1]
                  ELSE NoRound]
    /\ req = [q \in Request |-> IF q \in Q
                THEN [NoRequest EXCEPT !.status = "queued"] ELSE NoRequest]
    /\ job = [k \in Attempt |-> IF k[1] \in Q /\ k[2] = 1
                THEN [NoJob EXCEPT !.status = "pending", !.due = TRUE] ELSE NoJob]
    /\ call = [k \in Attempt |-> NoCall]
==============================================================================
