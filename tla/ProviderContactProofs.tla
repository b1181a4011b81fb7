------------------------ MODULE ProviderContactProofs ------------------------
(***************************************************************************)
(* The dispatch of provider calls, for any number of requests, processes,  *)
(* attempts, lines and crashes and whatever Twilio reports: types, one     *)
(* POST per call, evidence, retries and lines, that the dispatcher         *)
(* implements the promise made to the provider, and the safety of the      *)
(* sourcing rounds.                                                        *)
(***************************************************************************)
EXTENDS ProviderContact, FiniteSetTheorems, TLAPS

LEMMA InitTypeOK == Init => TypeOK
<1> SUFFICES ASSUME Init PROVE TypeOK
  OBVIOUS
<1>1. op \in OpRow
  BY DEF Init, TablesInit, OpRow, OpStatus, Sourcing
<1>2. round \in [Round -> RoundRow]
  <2>1. PICK kind \in FirstKinds : round = [r \in Round |-> IF r = 1
                  THEN [NoRound EXCEPT !.status = "active", !.kind = kind, !.mandate = 1]
                  ELSE NoRound]
    BY DEF Init, TablesInit
  <2>2. kind \in Kind
    BY KindsAssumption DEF Kind
  <2> QED
    BY <2>1, <2>2 DEF RoundRow, NoRound, Kind
<1>3. req \in [Request -> RequestRow]
  BY DEF Init, TablesInit, RequestRow, NoRequest, OpenRequest
<1>4. job \in [Attempt -> JobRow]
  <2>1. NoJob \in JobRow /\ [NoJob EXCEPT !.status = "pending", !.due = TRUE] \in JobRow
    BY DEF NoJob, JobRow
  <2>2. PICK Q : job = [k \in Attempt |-> IF k[1] \in Q /\ k[2] = 1
                THEN [NoJob EXCEPT !.status = "pending", !.due = TRUE] ELSE NoJob]
    BY DEF Init, TablesInit
  <2> QED
    BY <2>1, <2>2
<1>5. call \in [Attempt -> CallRow]
  <2>1. NoCall \in CallRow
    BY DEF NoCall, CallRow
  <2> QED
    BY <2>1 DEF Init, TablesInit
<1>6. worker \in [Worker -> WorkerRow]
  BY DEF Init, WorkerRow, Idle
<1>7. script \in [Attempt -> Seq(CallStatus)]
  <2>1. <<>> \in Seq(CallStatus)
    OBVIOUS
  <2> QED
    BY <2>1 DEF Init
<1>8. posts \in [Attempt -> Nat] /\ crashes \in 0 .. MaxCrashes
  BY BoundsAssumption DEF Init
<1>9. recent \in BOOLEAN
  BY Zenon DEF Init
<1> QED
  BY <1>1, <1>2, <1>3, <1>4, <1>5, <1>6, <1>7, <1>8, <1>9 DEF TypeOK, TablesTypeOK

------------------------------------------------------------------------------
(* The row updates the transactions share keep the tables well typed. *)

LEMMA JobsRetiredType ==
  ASSUME TypeOK, NEW K
  PROVE  JobsRetired(K) \in [Attempt -> JobRow]
<1>1. ASSUME NEW k \in Attempt PROVE job[k] \in JobRow /\ Retired(job[k]) \in JobRow
  BY DEF TypeOK, TablesTypeOK, JobRow, Retired
<1> QED
  BY <1>1 DEF JobsRetired

LEMMA RequestsMovedType ==
  ASSUME TypeOK, NEW Q, NEW from, NEW s \in {"cancelled", "expired", "contacted"}
  PROVE  RequestsMoved(Q, from, s) \in [Request -> RequestRow]
<1>1. ASSUME NEW q \in Request
      PROVE  req[q] \in RequestRow /\ [req[q] EXCEPT !.status = s] \in RequestRow
  BY DEF TypeOK, TablesTypeOK, RequestRow, OpenRequest
<1> QED
  BY <1>1 DEF RequestsMoved

LEMMA RoundsSupersededType ==
  ASSUME TypeOK
  PROVE  RoundsSuperseded \in [Round -> RoundRow]
<1>1. ASSUME NEW r \in Round
      PROVE  round[r] \in RoundRow /\ [round[r] EXCEPT !.status = "superseded"] \in RoundRow
  BY DEF TypeOK, TablesTypeOK, RoundRow
<1> QED
  BY <1>1 DEF RoundsSuperseded

LEMMA OpenRoundType ==
  ASSUME NEW r \in Round, NEW kind \in Kind, NEW mandate \in Nat, NEW Q,
         NEW rounds \in [Round -> RoundRow], NEW requests \in [Request -> RequestRow],
         NEW jobs \in [Attempt -> JobRow],
         OpenRound(r, kind, mandate, Q, rounds, requests, jobs)
  PROVE  /\ round' \in [Round -> RoundRow]
         /\ req' \in [Request -> RequestRow]
         /\ job' \in [Attempt -> JobRow]
<1>1. [status |-> "active", kind |-> kind, mandate |-> mandate,
       dispatched |-> FALSE, late |-> FALSE] \in RoundRow
  BY DEF RoundRow
<1>2. [status |-> "queued", quote |-> "none"] \in RequestRow
  BY DEF RequestRow, OpenRequest
<1>3. [status |-> "pending", holder |-> None, lease |-> "none", due |-> TRUE] \in JobRow
  BY DEF JobRow
<1> QED
  BY <1>1, <1>2, <1>3 DEF OpenRound

\* A table stays well typed when one row of it is given a well-typed value.
LEMMA RowUpdates ==
  ASSUME TypeOK
  PROVE  /\ \A r, x : x \in RoundRow => [round EXCEPT ![r] = x] \in [Round -> RoundRow]
         /\ \A k, x : x \in JobRow => [job EXCEPT ![k] = x] \in [Attempt -> JobRow]
         /\ \A k, x : x \in CallRow => [call EXCEPT ![k] = x] \in [Attempt -> CallRow]
BY DEF TypeOK, TablesTypeOK

LEMMA RoundRowUpdates ==
  ASSUME NEW x \in RoundRow
  PROVE  /\ [x EXCEPT !.dispatched = TRUE] \in RoundRow
         /\ [x EXCEPT !.late = TRUE] \in RoundRow
         /\ [x EXCEPT !.status = "selected"] \in RoundRow
         /\ [x EXCEPT !.status = "exhausted"] \in RoundRow
BY DEF RoundRow

LEMMA RowTypes ==
  ASSUME TypeOK
  PROVE  /\ \A r \in Round : round[r] \in RoundRow
         /\ \A k \in Attempt : job[k] \in JobRow /\ Retired(job[k]) \in JobRow
         /\ \A k \in Attempt : call[k] \in CallRow /\ RoundOf[k[1]] \in Round
<1>1. /\ \A r \in Round : round[r] \in RoundRow
      /\ \A k \in Attempt : job[k] \in JobRow /\ call[k] \in CallRow
  BY DEF TypeOK, TablesTypeOK
<1>2. \A j \in JobRow : Retired(j) \in JobRow
  BY DEF Retired, JobRow
<1>3. \A k \in Attempt : RoundOf[k[1]] \in Round
  BY RoundsAssumption DEF Attempt, Round
<1> QED
  BY <1>1, <1>2, <1>3

------------------------------------------------------------------------------
(* The transactions on rounds keep the tables well typed. *)

LEMMA UpdateOperationType ==
  ASSUME TypeOK, UpdateOperation PROVE TablesTypeOK'
<1>1. op' \in OpRow
  BY DEF TypeOK, TablesTypeOK, UpdateOperation, OpRow
<1>2. round' \in [Round -> RoundRow]
  BY RoundsSupersededType DEF UpdateOperation
<1>3. req' \in [Request -> RequestRow]
  BY RequestsMovedType DEF UpdateOperation
<1>4. job' \in [Attempt -> JobRow]
  BY JobsRetiredType DEF UpdateOperation
<1> QED
  BY <1>1, <1>2, <1>3, <1>4 DEF TypeOK, TablesTypeOK, UpdateOperation

LEMMA ConfirmMandateType ==
  ASSUME TypeOK, ConfirmMandate PROVE TablesTypeOK'
<1>1. PICK r \in Round, Q \in SUBSET Request, past \in BOOLEAN : ConfirmRound(r, Q, past)
  BY DEF ConfirmMandate, RequestsOf
<1>2. op' \in OpRow /\ op.mandate + 1 \in Nat
  <2>1. op \in OpRow /\ op.mandate + 1 \in Nat
    BY DEF TypeOK, TablesTypeOK, OpRow
  <2>2. op' = [op EXCEPT !.status = "sourcing", !.mandate = op.mandate + 1,
                         !.confirm = FALSE, !.pickupPast = past]
    BY <1>1 DEF ConfirmRound
  <2>3. CASE past = TRUE
    BY <2>1, <2>2, <2>3 DEF OpRow, OpStatus, Sourcing
  <2>4. CASE past = FALSE
    BY <2>1, <2>2, <2>4 DEF OpRow, OpStatus, Sourcing
  <2> QED
    BY <2>3, <2>4
<1>3. /\ round' \in [Round -> RoundRow]
      /\ req' \in [Request -> RequestRow]
      /\ job' \in [Attempt -> JobRow]
  <2>1. "renegotiation" \in Kind
    BY DEF Kind
  <2>2. RequestsMoved(ActiveRequests, OpenRequest, "cancelled") \in [Request -> RequestRow]
    BY RequestsMovedType
  <2> QED
    BY <1>1, <1>2, <2>1, <2>2, RoundsSupersededType, JobsRetiredType, OpenRoundType DEF ConfirmRound
<1> QED
  BY <1>1, <1>2, <1>3 DEF ConfirmRound, TypeOK, TablesTypeOK

LEMMA CancelOperationType ==
  ASSUME TypeOK, CancelOperation PROVE TablesTypeOK'
<1>1. op' \in OpRow
  BY DEF TypeOK, TablesTypeOK, CancelOperation, OpRow, OpStatus
<1>2. round' \in [Round -> RoundRow]
  BY RoundsSupersededType DEF CancelOperation
<1>3. req' \in [Request -> RequestRow]
  <2>1. ASSUME NEW q \in Request
        PROVE  req[q] \in RequestRow /\ [req[q] EXCEPT !.status = "cancelled"] \in RequestRow
    BY DEF TypeOK, TablesTypeOK, RequestRow
  <2> QED
    BY <2>1 DEF CancelOperation
<1>4. job' \in [Attempt -> JobRow]
  <2>1. ASSUME NEW k \in Attempt PROVE job[k] \in JobRow /\ Retired(job[k]) \in JobRow
    BY DEF TypeOK, TablesTypeOK, JobRow, Retired
  <2> QED
    BY <2>1 DEF CancelOperation
<1> QED
  BY <1>1, <1>2, <1>3, <1>4 DEF TypeOK, TablesTypeOK, CancelOperation

LEMMA RequestsAfterCancellingType ==
  ASSUME TypeOK, op.booking # None
  PROVE  RequestsAfterCancelling \in [Request -> RequestRow]
<1>1. RequestsMoved(Withdrawn, OpenRequest, "cancelled") \in [Request -> RequestRow]
  BY RequestsMovedType
<1> QED
  BY <1>1 DEF RequestsAfterCancelling, RequestRow

LEMMA CancelBookingType ==
  ASSUME TypeOK, CancelBooking PROVE TablesTypeOK'
<1>1. PICK r \in Round, Q \in SUBSET Request : ReplaceBooking(r, Q)
  BY DEF CancelBooking, RequestsOf
<1>2. op' \in OpRow /\ op.mandate \in Nat
  BY <1>1 DEF ReplaceBooking, TypeOK, TablesTypeOK, OpRow, OpStatus, Sourcing
<1>3. RequestsAfterCancelling \in [Request -> RequestRow]
  BY <1>1, RequestsAfterCancellingType DEF ReplaceBooking
<1>4. /\ round' \in [Round -> RoundRow]
      /\ req' \in [Request -> RequestRow]
      /\ job' \in [Attempt -> JobRow]
  <2>1. CASE Q = {}
    <3>1. [status |-> "exhausted", kind |-> "replacement", mandate |-> op.mandate,
           dispatched |-> FALSE, late |-> FALSE] \in RoundRow
      BY <1>2 DEF RoundRow, Kind
    <3> QED
      BY <1>1, <1>3, <2>1, <3>1, RoundsSupersededType, JobsRetiredType
      DEF ReplaceBooking, NobodyToAsk
  <2>2. CASE Q # {}
    BY <1>1, <1>2, <1>3, <2>2, RoundsSupersededType, JobsRetiredType, OpenRoundType
    DEF ReplaceBooking, Kind
  <2> QED
    BY <2>1, <2>2
<1> QED
  BY <1>1, <1>2, <1>4 DEF ReplaceBooking, TypeOK, TablesTypeOK

LEMMA SelectType ==
  ASSUME TypeOK, Select PROVE TablesTypeOK'
<1>1. PICK r \in Round, w \in Request : SelectWinner(r, w)
  BY DEF Select, Winners, RequestsOf
<1>2. op' \in OpRow
  BY <1>1 DEF SelectWinner, TypeOK, TablesTypeOK, OpRow, OpStatus
<1>3. round' \in [Round -> RoundRow]
  BY <1>1, RowTypes, RoundRowUpdates, RowUpdates DEF SelectWinner
<1>4. req' \in [Request -> RequestRow]
  BY <1>1, RequestsMovedType DEF SelectWinner
<1>5. job' \in [Attempt -> JobRow]
  <2>1. ASSUME NEW k \in Attempt
        PROVE  job[k] \in JobRow /\ [job[k] EXCEPT !.status = "processed"] \in JobRow
    BY DEF TypeOK, TablesTypeOK, JobRow
  <2> QED
    BY <1>1, <2>1 DEF SelectWinner
<1> QED
  BY <1>1, <1>2, <1>3, <1>4, <1>5 DEF SelectWinner, TypeOK, TablesTypeOK

LEMMA GiveUpType ==
  ASSUME TypeOK, NEW r \in Round, GiveUp(r) PROVE TablesTypeOK'
<1>1. op' \in OpRow
  BY DEF GiveUp, TypeOK, TablesTypeOK, OpRow, OpStatus
<1>2. round' \in [Round -> RoundRow]
  BY DEF GiveUp, TypeOK, TablesTypeOK, RoundRow
<1>3. job' \in [Attempt -> JobRow]
  <2>1. ASSUME NEW k \in Attempt
        PROVE  /\ job[k] \in JobRow
               /\ [job[k] EXCEPT !.status = "failed", !.lease = "none"] \in JobRow
    BY DEF TypeOK, TablesTypeOK, JobRow
  <2> QED
    BY <2>1 DEF GiveUp
<1>4. call' \in [Attempt -> CallRow]
  <2>1. ASSUME NEW k \in Attempt
        PROVE  /\ call[k] \in CallRow
               /\ [call[k] EXCEPT !.state = "unknown",
                     !.outcome = IF @ = "active" THEN "failed" ELSE @] \in CallRow
    <3>1. call[k] \in CallRow
      BY RowTypes
    <3> QED
      BY <3>1 DEF CallRow, Dispatched
  <2> QED
    BY <2>1 DEF GiveUp
<1> QED
  BY <1>1, <1>2, <1>3, <1>4 DEF GiveUp, TypeOK, TablesTypeOK

LEMMA SettleType ==
  ASSUME TypeOK, NEW r \in Round, Settle(r) PROVE TablesTypeOK'
<1>1. job' \in [Attempt -> JobRow]
  BY JobsRetiredType DEF Settle
<1>2. req' \in [Request -> RequestRow]
  BY RequestsMovedType DEF Settle, TypeOK, TablesTypeOK
<1>3. op' \in OpRow
  BY DEF Settle, TypeOK, TablesTypeOK, OpRow, OpStatus
<1>4. round' \in [Round -> RoundRow]
  <2>1. \/ round' = round
        \/ round' = [round EXCEPT ![r] = [round[r] EXCEPT !.status = "exhausted"]]
    BY DEF Settle
  <2>2. [round[r] EXCEPT !.status = "exhausted"] \in RoundRow
    BY RowTypes, RoundRowUpdates
  <2> QED
    BY <2>1, <2>2, RowUpdates DEF TypeOK, TablesTypeOK
<1> QED
  BY <1>1, <1>2, <1>3, <1>4 DEF Settle, TypeOK, TablesTypeOK

LEMMA AdvanceType ==
  ASSUME TypeOK, Advance PROVE TablesTypeOK'
<1>1. CASE ActiveRounds = {}
  BY <1>1 DEF Advance, tables, TypeOK, TablesTypeOK
<1>2. CASE ActiveRounds # {}
  <2>1. PICK r \in Round : AdvanceActive(r)
    BY <1>2 DEF Advance, ActiveRounds
  <2>2. CASE DropStaleRound(r)
    <3>1. round' \in [Round -> RoundRow]
      BY <2>2 DEF DropStaleRound, TypeOK, TablesTypeOK, RoundRow
    <3> QED
      BY <2>2, <3>1, JobsRetiredType DEF DropStaleRound, TypeOK, TablesTypeOK
  <2> QED
    BY <2>1, <2>2, GiveUpType, SettleType DEF AdvanceActive
<1> QED
  BY <1>1, <1>2

------------------------------------------------------------------------------
(* The worker's steps. *)

LEMMA GotoType ==
  ASSUME TypeOK, NEW w \in Worker,
         NEW pc \in {"idle", "claimed", "dialing", "posted", "retrying", "failed", "advance"},
         Goto(w, pc)
  PROVE  worker' \in [Worker -> WorkerRow]
BY DEF TypeOK, Goto, WorkerRow

LEMMA ClaimType ==
  ASSUME TypeOK, NEW w \in Worker, NEW k \in Attempt, Claim(w, k) PROVE TypeOK'
<1>1. job' \in [Attempt -> JobRow]
  <2>1. job[k] \in JobRow
    BY RowTypes
  <2>2. [job[k] EXCEPT !.status = "processing", !.holder = w, !.lease = "held"] \in JobRow
    BY <2>1 DEF JobRow
  <2> QED
    BY <2>2, RowUpdates DEF Claim
<1>2. call' \in [Attempt -> CallRow]
  <2>1. call[k] \in CallRow
    BY RowTypes
  <2>2. [call[k] EXCEPT !.state = "prepared"] \in CallRow
    BY <2>1 DEF CallRow
  <2> QED
    BY <2>1, <2>2, RowUpdates DEF Claim
<1>3. worker' \in [Worker -> WorkerRow]
  BY DEF Claim, TypeOK, WorkerRow
<1> QED
  BY <1>1, <1>2, <1>3 DEF Claim, TypeOK, TablesTypeOK

LEMMA BeginDialType ==
  ASSUME TypeOK, NEW w \in Worker, worker[w].at \in Attempt, BeginDial(w) PROVE TypeOK'
<1>1. call' \in [Attempt -> CallRow]
  <2>1. call[worker[w].at] \in CallRow
    BY RowTypes
  <2>2. [call[worker[w].at] EXCEPT !.state = "dispatching"] \in CallRow
    BY <2>1 DEF CallRow, Dispatched
  <2> QED
    BY <2>2, RowUpdates DEF BeginDial
<1>2. worker' \in [Worker -> WorkerRow]
  BY GotoType DEF BeginDial
<1>3. recent' \in BOOLEAN
  BY Zenon DEF BeginDial
<1> QED
  BY <1>1, <1>2, <1>3 DEF BeginDial, TypeOK, TablesTypeOK

LEMMA BeginDeferType ==
  ASSUME TypeOK, NEW w \in Worker, worker[w].at \in Attempt, BeginDefer(w) PROVE TypeOK'
<1>1. job' \in [Attempt -> JobRow]
  <2>1. job[worker[w].at] \in JobRow
    BY RowTypes
  <2>2. [job[worker[w].at] EXCEPT !.status = "pending", !.lease = "none", !.due = FALSE] \in JobRow
    BY <2>1 DEF JobRow
  <2> QED
    BY <2>2, RowUpdates DEF BeginDefer
<1>2. worker' \in [Worker -> WorkerRow]
  BY GotoType DEF BeginDefer
<1> QED
  BY <1>1, <1>2 DEF BeginDefer, TypeOK, TablesTypeOK

LEMMA BeginRefusedType ==
  ASSUME TypeOK, NEW w \in Worker, BeginRefused(w) PROVE TypeOK'
<1>1. worker' \in [Worker -> WorkerRow]
  BY GotoType DEF BeginRefused
<1> QED
  BY <1>1 DEF BeginRefused, tables, TypeOK, TablesTypeOK

\* A worker that is past its claim is at an attempt.
LEMMA PostType ==
  ASSUME TypeOK, NEW w \in Worker, NEW s \in Scripts, NEW replied \in BOOLEAN,
         worker[w].at \in Attempt, Post(w, s, replied)
  PROVE  TypeOK'
<1>1. posts' \in [Attempt -> Nat]
  BY DEF Post, TypeOK
<1>2. script' \in [Attempt -> Seq(CallStatus)]
  BY ScriptsAssumption DEF Post, TypeOK
<1>3. worker' \in [Worker -> WorkerRow]
  <2>1. worker[w] \in WorkerRow /\ posts[worker[w].at] + 1 \in Nat
    BY DEF TypeOK
  <2>2. /\ [worker[w] EXCEPT !.pc = "posted", !.sid = posts[worker[w].at] + 1] \in WorkerRow
        /\ [worker[w] EXCEPT !.pc = "failed"] \in WorkerRow
    BY <2>1 DEF WorkerRow
  <2> QED
    BY <2>2 DEF Post, TypeOK
<1> QED
  BY <1>1, <1>2, <1>3 DEF Post, tables, TypeOK, TablesTypeOK

LEMMA PostRejectedType ==
  ASSUME TypeOK, NEW w \in Worker, worker[w].at \in Attempt, PostRejected(w) PROVE TypeOK'
<1>1. worker' \in [Worker -> WorkerRow]
  BY GotoType DEF PostRejected
<1>2. posts' \in [Attempt -> Nat]
  BY DEF PostRejected, TypeOK
<1> QED
  BY <1>1, <1>2 DEF PostRejected, tables, TypeOK, TablesTypeOK

LEMMA FinishSidType ==
  ASSUME TypeOK, NEW w \in Worker, NEW replied \in BOOLEAN,
         worker[w].at \in Attempt, FinishSid(w, replied)
  PROVE  TypeOK'
<1> DEFINE k == worker[w].at
<1>1. call' \in [Attempt -> CallRow]
  <2>1. call[k] \in CallRow /\ worker[w].sid \in Nat
    BY DEF TypeOK, TablesTypeOK, WorkerRow
  <2>2. AfterSid(call[k], worker[w].sid, round[RoundOf[k[1]]].status = "active") \in CallRow
    BY <2>1 DEF AfterSid, CallRow, Dispatched
  <2> QED
    BY <2>2, RowUpdates DEF FinishSid
<1>2. round' \in [Round -> RoundRow]
  <2>1. [round[RoundOf[k[1]]] EXCEPT !.dispatched = TRUE] \in RoundRow
    BY RowTypes, RoundRowUpdates
  <2> QED
    BY <2>1, RowUpdates DEF FinishSid
<1>3. req' \in [Request -> RequestRow]
  BY RequestsMovedType DEF FinishSid
<1>4. job' \in [Attempt -> JobRow]
  BY RowTypes, RowUpdates DEF FinishSid
<1>5. worker' \in [Worker -> WorkerRow]
  BY GotoType DEF FinishSid
<1> QED
  BY <1>1, <1>2, <1>3, <1>4, <1>5 DEF FinishSid, TypeOK, TablesTypeOK

LEMMA FinishErrorType ==
  ASSUME TypeOK, NEW w \in Worker, worker[w].at \in Attempt, FinishError(w) PROVE TypeOK'
<1>1. call' \in [Attempt -> CallRow]
  <2>1. call[worker[w].at] \in CallRow
    BY DEF TypeOK, TablesTypeOK
  <2>2. AfterError(call[worker[w].at]) \in CallRow
    BY <2>1 DEF AfterError, CallRow, Dispatched
  <2> QED
    BY <2>2 DEF FinishError, TypeOK, TablesTypeOK
<1>2. job' \in [Attempt -> JobRow]
  BY RowTypes, RowUpdates DEF FinishError
<1>3. worker' \in [Worker -> WorkerRow]
  BY GotoType DEF FinishError
<1> QED
  BY <1>1, <1>2, <1>3 DEF FinishError, TypeOK, TablesTypeOK

LEMMA FinishLostType ==
  ASSUME TypeOK, NEW w \in Worker, FinishLost(w) PROVE TypeOK'
<1>1. worker' \in [Worker -> WorkerRow]
  BY GotoType DEF FinishLost
<1> QED
  BY <1>1 DEF FinishLost, tables, TypeOK, TablesTypeOK

LEMMA IdleType == Idle \in WorkerRow
BY DEF Idle, WorkerRow

LEMMA WorkerAdvanceType ==
  ASSUME TypeOK, NEW w \in Worker, WorkerAdvance(w) PROVE TypeOK'
BY AdvanceType, IdleType DEF WorkerAdvance, TypeOK

LEMMA CrashType ==
  ASSUME TypeOK, NEW w \in Worker, Crash(w) PROVE TypeOK'
<1>1. crashes' \in 0 .. MaxCrashes
  BY BoundsAssumption DEF Crash, TypeOK
<1> QED
  BY <1>1, IdleType DEF Crash, tables, TypeOK, TablesTypeOK

------------------------------------------------------------------------------
(* The conversation and the callbacks. *)

LEMMA CreateQuoteType ==
  ASSUME TypeOK, NEW k \in Attempt, NEW verdict \in Verdict, CreateQuote(k, verdict)
  PROVE  TypeOK'
<1>1. op' \in OpRow
  BY DEF CreateQuote, TypeOK, TablesTypeOK, OpRow, OpStatus, Sourcing
<1>2. req' \in [Request -> RequestRow]
  BY DEF CreateQuote, TypeOK, TablesTypeOK, RequestRow, OpenRequest
<1> QED
  BY <1>1, <1>2 DEF CreateQuote, env, TypeOK, TablesTypeOK

LEMMA DeclineQuoteType ==
  ASSUME TypeOK, NEW k \in Attempt, DeclineQuote(k) PROVE TypeOK'
<1>1. req' \in [Request -> RequestRow]
  BY DEF DeclineQuote, TypeOK, TablesTypeOK, RequestRow
<1> QED
  BY <1>1 DEF DeclineQuote, env, TypeOK, TablesTypeOK

LEMMA StaleCallbackType ==
  ASSUME TypeOK, NEW k \in Attempt, NEW i \in DOMAIN script[k], StaleCallback(k, i)
  PROVE  TypeOK'
<1>1. call' \in [Attempt -> CallRow]
  <2>1. call[k] \in CallRow
    BY RowTypes
  <2>2. [call[k] EXCEPT !.answered = TRUE] \in CallRow
    BY <2>1 DEF CallRow
  <2> QED
    BY <2>2, RowUpdates DEF StaleCallback
<1> QED
  BY <1>1, JobsRetiredType DEF StaleCallback, env, TypeOK, TablesTypeOK

\* The i-th report of a call is a status, and i and the SID are numbers.
LEMMA ReportType ==
  ASSUME TypeOK, NEW k \in Attempt, NEW i \in DOMAIN script[k]
  PROVE  i \in Nat /\ script[k][i] \in CallStatus /\ posts[k] \in Nat
BY DEF TypeOK

LEMMA LateCallbackType ==
  ASSUME TypeOK, NEW k \in Attempt, NEW i \in DOMAIN script[k], LateCallback(k, i)
  PROVE  TypeOK'
<1>1. call[k] \in CallRow
  BY DEF TypeOK, TablesTypeOK
<1>2. AfterLate(call[k], posts[k], i, script[k][i]) \in CallRow
  BY <1>1, ReportType DEF AfterLate, CallRow
<1>3. call' \in [Attempt -> CallRow]
  BY <1>2 DEF LateCallback, TypeOK, TablesTypeOK
<1>4. job' \in [Attempt -> JobRow]
  BY JobsRetiredType DEF LateCallback, TypeOK, TablesTypeOK
<1> QED
  BY <1>3, <1>4 DEF LateCallback, env, TypeOK, TablesTypeOK

LEMMA FreshCallbackType ==
  ASSUME TypeOK, NEW k \in Attempt, NEW i \in DOMAIN script[k], FreshCallback(k, i)
  PROVE  TypeOK'
<1>1. call[k] \in CallRow
  BY DEF TypeOK, TablesTypeOK
<1>2. AfterFresh(call[k], posts[k], i, script[k][i]) \in CallRow
  <2> DEFINE c == call[k]
             state == IF c.state \in {"prepared", "dispatching", "unknown"}
                        THEN "accepted" ELSE c.state
             answered == IF script[k][i] \in AnswerStatus THEN TRUE ELSE c.answered
             outcome == IF c.outcome = "active" /\ script[k][i] \in Terminal
                          THEN Outcome(script[k][i]) ELSE c.outcome
  <2>1. AfterFresh(c, posts[k], i, script[k][i]) =
          [c EXCEPT !.sid = posts[k], !.raw = script[k][i], !.seq = i,
                    !.answered = answered, !.state = state, !.outcome = outcome]
    BY DEF AfterFresh
  <2>2. state \in {"none", "prepared", "failed"} \cup Dispatched
    BY <1>1 DEF CallRow, Dispatched
  <2>3. answered \in BOOLEAN
    BY <1>1 DEF CallRow
  <2>4. outcome \in {"active", "completed", "failed"}
    BY <1>1 DEF CallRow, Outcome
  <2> HIDE DEF state, answered, outcome
  <2>5. [c EXCEPT !.answered = answered, !.state = state, !.outcome = outcome] \in CallRow
    BY <1>1, <2>2, <2>3, <2>4 DEF CallRow
  <2>6. ASSUME NEW x \in CallRow
        PROVE  [x EXCEPT !.sid = posts[k], !.raw = script[k][i], !.seq = i] \in CallRow
    BY ReportType DEF CallRow
  <2>7. AfterFresh(c, posts[k], i, script[k][i]) =
          [[c EXCEPT !.answered = answered, !.state = state, !.outcome = outcome]
             EXCEPT !.sid = posts[k], !.raw = script[k][i], !.seq = i]
    BY <1>1, <2>1 DEF CallRow
  <2> QED
    BY <2>5, <2>6, <2>7
<1>3. call' \in [Attempt -> CallRow]
  BY <1>2, RowUpdates DEF FreshCallback
<1>4. round' \in [Round -> RoundRow]
  <2>1. [round[RoundOf[k[1]]] EXCEPT !.dispatched = TRUE] \in RoundRow
    BY RowTypes, RoundRowUpdates
  <2> QED
    BY <2>1, RowUpdates DEF FreshCallback
<1>5. job' \in [Attempt -> JobRow]
  <2> DEFINE jobs == IF job[k].status = "processing"
                       THEN [job EXCEPT ![k] = Retired(@)] ELSE job
             fresh == [status |-> "pending", holder |-> None, lease |-> "none", due |-> FALSE]
  <2>1. job \in [Attempt -> JobRow] /\ Retired(job[k]) \in JobRow
    BY DEF TypeOK, TablesTypeOK, Retired, JobRow
  <2>2. jobs \in [Attempt -> JobRow]
    BY <2>1
  <2>3. fresh \in JobRow
    BY DEF JobRow
  <2>4. job' = IF Retry(k, i) THEN [jobs EXCEPT ![NextAttempt(k)] = fresh] ELSE jobs
    BY DEF FreshCallback
  <2> HIDE DEF jobs, fresh
  <2> QED
    BY <2>2, <2>3, <2>4
<1> QED
  BY <1>3, <1>4, <1>5 DEF FreshCallback, env, TypeOK, TablesTypeOK

------------------------------------------------------------------------------
(* The clock. *)

LEMMA MatureType ==
  ASSUME TypeOK, NEW k \in Attempt, Mature(k) PROVE TypeOK'
<1>1. job' \in [Attempt -> JobRow]
  <2>1. job[k] \in JobRow
    BY RowTypes
  <2>2. [job[k] EXCEPT !.due = TRUE] \in JobRow
    BY <2>1 DEF JobRow
  <2> QED
    BY <2>2, RowUpdates DEF Mature
<1> QED
  BY <1>1 DEF Mature, env, TypeOK, TablesTypeOK

LEMMA ExpireLeaseType ==
  ASSUME TypeOK, NEW k \in Attempt, ExpireLease(k) PROVE TypeOK'
<1>1. job' \in [Attempt -> JobRow]
  <2>1. job[k] \in JobRow
    BY RowTypes
  <2>2. [job[k] EXCEPT !.lease = "expired"] \in JobRow
    BY <2>1 DEF JobRow
  <2> QED
    BY <2>2, RowUpdates DEF ExpireLease
<1> QED
  BY <1>1 DEF ExpireLease, env, TypeOK, TablesTypeOK

LEMMA AgeType ==
  ASSUME TypeOK, NEW k \in Attempt, Age(k) PROVE TypeOK'
<1>1. call' \in [Attempt -> CallRow]
  <2>1. call[k] \in CallRow
    BY RowTypes
  <2>2. [call[k] EXCEPT !.aged = TRUE] \in CallRow
    BY <2>1 DEF CallRow
  <2> QED
    BY <2>2, RowUpdates DEF Age
<1> QED
  BY <1>1 DEF Age, env, TypeOK, TablesTypeOK

LEMMA ComparisonDeadlineType ==
  ASSUME TypeOK, NEW r \in Round, ComparisonDeadline(r) PROVE TypeOK'
<1>1. round' \in [Round -> RoundRow]
  BY RowTypes, RoundRowUpdates, RowUpdates DEF ComparisonDeadline
<1> QED
  BY <1>1 DEF ComparisonDeadline, env, TypeOK, TablesTypeOK

LEMMA SecondPassesType ==
  ASSUME TypeOK, SecondPasses PROVE TypeOK'
<1>1. recent' \in BOOLEAN
  BY Zenon DEF SecondPasses
<1> QED
  BY <1>1 DEF SecondPasses, tables, TypeOK, TablesTypeOK

LEMMA ProviderSwitchedType ==
  ASSUME TypeOK, ProviderSwitched PROVE TypeOK'
<1>1. PICK q \in Request :
        op' = [op EXCEPT !.inactive = IF q \in @ THEN @ \ {q} ELSE @ \cup {q}]
  BY SwitchableAssumption DEF ProviderSwitched
<1>2. op \in OpRow /\ op.inactive \subseteq Request
  BY DEF TypeOK, TablesTypeOK, OpRow
<1>3. \A S \in SUBSET Request : [op EXCEPT !.inactive = S] \in OpRow
  BY <1>2 DEF OpRow
<1>4. op' \in OpRow
  BY <1>1, <1>2, <1>3
<1> QED
  BY <1>4 DEF ProviderSwitched, env, TypeOK, TablesTypeOK

LEMMA PickupPassesType ==
  ASSUME TypeOK, PickupPasses PROVE TypeOK'
<1>1. op' \in OpRow
  BY DEF PickupPasses, TypeOK, TablesTypeOK, OpRow
<1> QED
  BY <1>1 DEF PickupPasses, env, TypeOK, TablesTypeOK

------------------------------------------------------------------------------
(* Type correctness.  TypeOK alone is not inductive: a POST, a finish or a   *)
(* refused begin updates the row of the attempt the process is at, so a      *)
(* process that is not idle must be at one (WorkersPlaced).                  *)

LEMMA WorkerStepType ==
  ASSUME TypeOK, WorkersPlaced, NEW w \in Worker, WorkerStep(w) PROVE TypeOK'
<1>1. worker[w].pc # "idle" => worker[w].at \in Attempt
  BY DEF WorkersPlaced
<1>2. ASSUME NEW k \in Attempt, Claim(w, k) PROVE TypeOK'
  BY <1>2, ClaimType
<1>3. ASSUME NEW s \in Scripts, NEW replied \in BOOLEAN, Post(w, s, replied) PROVE TypeOK'
  BY <1>1, <1>3, PostType DEF Post
<1>4. CASE PostRejected(w)
  BY <1>1, <1>4, PostRejectedType DEF PostRejected
<1>5. ASSUME NEW replied \in BOOLEAN, FinishSid(w, replied) PROVE TypeOK'
  BY <1>1, <1>5, FinishSidType DEF FinishSid
<1>6. CASE FinishError(w)
  BY <1>1, <1>6, FinishErrorType DEF FinishError
<1>7. CASE BeginDial(w) \/ BeginDefer(w)
  BY <1>1, <1>7, BeginDialType, BeginDeferType DEF BeginDial, BeginDefer
<1> QED
  BY <1>2, <1>3, <1>4, <1>5, <1>6, <1>7, BeginRefusedType, FinishLostType, WorkerAdvanceType
  DEF WorkerStep

LEMMA RoundStepType ==
  ASSUME TypeOK, Client \/ Selection \/ BookingCancelled \/ PollAdvance PROVE TypeOK'
<1>1. TablesTypeOK' /\ UNCHANGED env
  BY UpdateOperationType, ConfirmMandateType, CancelOperationType, SelectType,
     CancelBookingType, AdvanceType
  DEF Client, Selection, BookingCancelled, PollAdvance
<1> QED
  BY <1>1 DEF env, TypeOK

LEMMA StutterType ==
  ASSUME TypeOK, UNCHANGED vars PROVE TypeOK'
BY DEF vars, TypeOK, TablesTypeOK

LEMMA NextType ==
  ASSUME TypeOK, WorkersPlaced, [Next]_vars PROVE TypeOK'
<1>1. ASSUME NEW k \in Attempt, Callback(k) PROVE TypeOK'
  BY <1>1, StaleCallbackType, LateCallbackType, FreshCallbackType DEF Callback
<1>2. ASSUME NEW k \in Attempt, Clock(k) PROVE TypeOK'
  BY <1>2, MatureType, ExpireLeaseType, AgeType DEF Clock
<1> QED
  BY <1>1, <1>2, WorkerStepType, CrashType, RoundStepType, CreateQuoteType, DeclineQuoteType,
     ComparisonDeadlineType, SecondPassesType, PickupPassesType,
     ProviderSwitchedType, StutterType
  DEF Next

\* Nothing but its own steps and a crash changes where a process is.
LEMMA ProcessesApart ==
  ASSUME [Next]_vars, \A w \in Worker : ~WorkerStep(w) /\ ~Crash(w) PROVE UNCHANGED worker
<1>1. ASSUME NEW k \in Attempt,
             \/ Callback(k) \/ Clock(k) \/ DeclineQuote(k)
             \/ \E verdict \in Verdict : CreateQuote(k, verdict)
      PROVE  UNCHANGED worker
  BY <1>1 DEF Callback, StaleCallback, LateCallback, FreshCallback, Clock, Mature,
     ExpireLease, Age, DeclineQuote, CreateQuote, env
<1>2. ASSUME \/ PollAdvance \/ SecondPasses \/ PickupPasses \/ ProviderSwitched
             \/ Client \/ Selection \/ BookingCancelled
             \/ \E r \in Round : ComparisonDeadline(r)
      PROVE  UNCHANGED worker
  BY <1>2 DEF PollAdvance, SecondPasses, PickupPasses, ProviderSwitched, Client, Selection,
     BookingCancelled, ComparisonDeadline, env
<1> QED
  BY <1>1, <1>2 DEF Next, vars

\* Only a claim changes where a process is, and it puts it at an attempt.
LEMMA NextPlaced ==
  ASSUME TypeOK, WorkersPlaced, [Next]_vars PROVE WorkersPlaced'
<1> SUFFICES ASSUME NEW v \in Worker, worker'[v].pc # "idle" PROVE worker'[v].at \in Attempt
  BY DEF WorkersPlaced
<1>1. CASE worker' = worker
  BY <1>1 DEF WorkersPlaced
<1>2. ASSUME NEW w \in Worker, NEW k \in Attempt, Claim(w, k) PROVE worker'[v].at \in Attempt
  BY <1>2 DEF Claim, WorkersPlaced, TypeOK
<1>3. ASSUME NEW w \in Worker, Crash(w) \/ WorkerAdvance(w) PROVE worker'[v].at \in Attempt
  BY <1>3 DEF Crash, WorkerAdvance, Idle, WorkersPlaced, TypeOK
<1>4. ASSUME NEW w \in Worker, WorkerStep(w), \A k \in Attempt : ~Claim(w, k), ~WorkerAdvance(w)
      PROVE  worker[v].pc # "idle" /\ worker'[v].at = worker[v].at
  <2>1. worker[w] \in WorkerRow /\ worker \in [Worker -> WorkerRow]
    BY DEF TypeOK
  <2>2. worker[w].pc # "idle"
    BY <1>4 DEF WorkerStep, BeginDial, BeginDefer, BeginRefused, Post, PostRejected,
       FinishSid, FinishError, FinishLost
  <2>3. ASSUME NEW pc, Goto(w, pc) PROVE worker'[v].at = worker[v].at
    BY <2>1, <2>3 DEF Goto, WorkerRow
  <2>4. ASSUME NEW s \in Scripts, NEW replied \in BOOLEAN, Post(w, s, replied)
        PROVE  worker'[v].at = worker[v].at
    BY <2>1, <2>4 DEF Post, WorkerRow
  <2>5. worker'[v].at = worker[v].at
    BY <1>4, <2>3, <2>4 DEF WorkerStep, BeginDial, BeginDefer, BeginRefused, PostRejected,
       FinishSid, FinishError, FinishLost
  <2>6. CASE v = w
    BY <2>2, <2>5, <2>6
  <2>7. CASE v # w
    <3>1. worker'[v] = worker[v]
      BY <1>4, <2>1, <2>7
      DEF WorkerStep, BeginDial, BeginDefer, BeginRefused, Post, PostRejected,
          FinishSid, FinishError, FinishLost, Goto
    <3> QED
      BY <2>5, <3>1
  <2> QED
    BY <2>6, <2>7
<1>5. ASSUME NEW w \in Worker, WorkerStep(w) \/ Crash(w) PROVE worker'[v].at \in Attempt
  BY <1>2, <1>3, <1>4, <1>5 DEF WorkersPlaced
<1> QED
  BY <1>1, <1>5, ProcessesApart

\* Every reachable state is well typed, whatever the requests, processes, bounds
\* and reports: no transaction writes a status or a reference its table rejects.
THEOREM TypeCorrect == Spec => []TypeOK
<1>1. Init => TypeOK /\ WorkersPlaced
  BY InitTypeOK DEF Init, WorkersPlaced, Idle
<1>2. TypeOK /\ WorkersPlaced /\ [Next]_vars => (TypeOK /\ WorkersPlaced)'
  BY NextType, NextPlaced
<1> QED
  BY <1>1, <1>2, PTL DEF Spec

------------------------------------------------------------------------------
(* What one step may do to a call row and to a job row.                     *)

\* Known of every call in every state: a call row has a job, only a dispatched
\* call is reported, and nothing is dispatched as a failure.
CallsKnown ==
  \A k \in Attempt :
    /\ call[k].state # "failed"
    /\ script[k] # <<>> => Begun(k)
    /\ call[k].state # "none" => job[k].status # "none"

\* A dispatched call stays dispatched, a row is never removed, and what was
\* reported of a call stays known.
CallAdvances(k) ==
  /\ call'[k].state # "failed"
  /\ Begun(k) => Begun(k)'
  /\ call[k].raw \in Terminal => call'[k].raw = call[k].raw
  /\ call[k].answered => call'[k].answered
  /\ call[k].sid # 0 => call'[k].sid = call[k].sid

\* Advancing a round may give up a dispatched call; nothing else changes calls.
LEMMA AdvanceCalls ==
  ASSUME TypeOK, CallsKnown, Advance, NEW k \in Attempt
  PROVE  /\ CallAdvances(k)
         /\ Begun(k)' => Begun(k)
         /\ call'[k].state # "none" => call[k].state # "none"
         /\ call'[k].raw = call[k].raw /\ call'[k].answered = call[k].answered
<1>1. call[k] \in CallRow /\ call[k].state # "failed"
  BY DEF TypeOK, TablesTypeOK, CallsKnown
<1>2. CASE call'[k] = call[k]
  BY <1>1, <1>2 DEF CallAdvances, Begun
<1>3. ASSUME NEW r \in Round, GiveUp(r), k \in AmbiguousCalls(r)
      PROVE  /\ CallAdvances(k) /\ Begun(k) /\ call[k].state # "none"
             /\ call'[k].raw = call[k].raw /\ call'[k].answered = call[k].answered
  <2>1. call'[k] = [call[k] EXCEPT !.state = "unknown",
                      !.outcome = IF call[k].outcome = "active" THEN "failed" ELSE call[k].outcome]
    BY <1>3 DEF GiveUp
  <2>2. call[k].state \in {"dispatching", "unknown"}
    BY <1>3 DEF AmbiguousCalls
  <2> QED
    BY <1>1, <2>1, <2>2 DEF CallAdvances, Begun, Dispatched, CallRow
<1>4. ASSUME NEW r \in Round, GiveUp(r), k \notin AmbiguousCalls(r) PROVE call'[k] = call[k]
  BY <1>4 DEF GiveUp
<1>5. \/ call'[k] = call[k]
      \/ \E r \in Round : GiveUp(r)
  BY DEF Advance, AdvanceActive, DropStaleRound, Settle, ActiveRounds, tables
<1> QED
  BY <1>2, <1>3, <1>4, <1>5

\* No transaction on rounds touches a call, and none removes a job.
LEMMA JobsStay ==
  ASSUME TypeOK, NEW k \in Attempt, job[k].status # "none",
         \/ UpdateOperation \/ ConfirmMandate \/ CancelOperation
         \/ CancelBooking \/ Select \/ Advance
  PROVE  job'[k].status # "none"
<1>1. job[k] \in JobRow
  BY DEF TypeOK, TablesTypeOK
<1>2. Retired(job[k]).status = "processed"
  BY <1>1 DEF Retired, JobRow
<1>3. ASSUME NEW K PROVE JobsRetired(K)[k].status # "none"
  BY <1>2 DEF JobsRetired
<1>4. CASE UpdateOperation
  BY <1>3, <1>4 DEF UpdateOperation
<1>5. CASE ConfirmMandate
  <2>1. PICK r \in Round, Q \in SUBSET Request, past \in BOOLEAN : ConfirmRound(r, Q, past)
    BY <1>5 DEF ConfirmMandate, RequestsOf
  <2> QED
    BY <1>3, <2>1 DEF ConfirmRound, OpenRound
<1>6. CASE CancelOperation
  BY <1>2, <1>6 DEF CancelOperation
<1>7. CASE CancelBooking
  <2>1. PICK r \in Round, Q \in SUBSET Request : ReplaceBooking(r, Q)
    BY <1>7 DEF CancelBooking, RequestsOf
  <2> QED
    BY <1>3, <2>1 DEF ReplaceBooking, NobodyToAsk, OpenRound
<1>8. CASE Select
  <2>1. PICK r \in Round, w \in Request : SelectWinner(r, w)
    BY <1>8 DEF Select, Winners, RequestsOf
  <2> QED
    BY <1>1, <2>1 DEF SelectWinner, JobRow
<1>9. CASE Advance
  <2>1. CASE UNCHANGED tables
    BY <2>1 DEF tables
  <2>2. ASSUME NEW r \in Round, AdvanceActive(r) PROVE job'[k].status # "none"
    <3>1. CASE DropStaleRound(r)
      BY <1>3, <3>1 DEF DropStaleRound
    <3>2. CASE GiveUp(r)
      BY <1>1, <3>2 DEF GiveUp, JobRow
    <3>3. CASE Settle(r)
      BY <1>3, <3>3 DEF Settle
    <3> QED
      BY <2>2, <3>1, <3>2, <3>3 DEF AdvanceActive
  <2> QED
    BY <1>9, <2>1, <2>2 DEF Advance, ActiveRounds
<1> QED
  BY <1>4, <1>5, <1>6, <1>7, <1>8, <1>9

\* Only a process that passed begin reports back.
PlacedAfterBegin == \A w \in Worker : PastBegin(w) => Begun(worker[w].at)

\* A step dispatches call k only by giving permission to dial, and creates its
\* row only by a claim.
CallStep(k) ==
  /\ CallAdvances(k)
  /\ Begun(k)' => Begun(k) \/ \E w \in Worker : BeginDial(w) /\ worker[w].at = k
  /\ call'[k].state # "none" =>
       call[k].state # "none" \/ \E w \in Worker : Claim(w, k)

LEMMA FinishCalls ==
  ASSUME TypeOK, WorkersPlaced, CallsKnown, PlacedAfterBegin, NEW w \in Worker,
         FinishError(w) \/ \E replied \in BOOLEAN : FinishSid(w, replied),
         NEW k \in Attempt
  PROVE  CallStep(k)
<1>1. call[k] \in CallRow /\ call[k].state # "failed" /\ worker[w].sid \in Nat
  BY DEF TypeOK, TablesTypeOK, CallsKnown, WorkerRow
<1>2. PastBegin(w) /\ worker[w].at \in Attempt
  BY DEF WorkersPlaced, PastBegin, FinishError, FinishSid
<1>3. CASE worker[w].at # k
  <2>1. call'[k] = call[k]
    BY <1>3 DEF FinishError, FinishSid, TypeOK, TablesTypeOK
  <2> QED
    BY <1>1, <2>1 DEF CallStep, CallAdvances, Begun
<1>4. CASE worker[w].at = k
  <2>1. Begun(k)
    BY <1>2, <1>4 DEF PlacedAfterBegin
  <2>2. CASE FinishError(w)
    <3>1. call'[k] = AfterError(call[k])
      BY <1>4, <2>2 DEF FinishError, TypeOK, TablesTypeOK
    <3> QED
      BY <1>1, <2>1, <3>1 DEF CallStep, CallAdvances, AfterError, Begun, Dispatched, CallRow
  <2>3. ASSUME NEW replied \in BOOLEAN, FinishSid(w, replied) PROVE CallStep(k)
    <3>1. call'[k] = AfterSid(call[k], worker[w].sid, round[RoundOf[k[1]]].status = "active")
      BY <1>4, <2>3 DEF FinishSid, TypeOK, TablesTypeOK
    <3>2. call[k].sid \in {0, worker[w].sid}
      BY <1>4, <2>3 DEF FinishSid
    <3> QED
      BY <1>1, <2>1, <3>1, <3>2 DEF CallStep, CallAdvances, AfterSid, Begun, Dispatched, CallRow
  <2> QED
    BY <2>2, <2>3
<1> QED
  BY <1>3, <1>4

LEMMA CallbackCalls ==
  ASSUME TypeOK, CallsKnown, NEW j \in Attempt, Callback(j), NEW k \in Attempt
  PROVE  CallStep(k)
<1>1. call[k] \in CallRow /\ call[k].state # "failed"
  BY DEF TypeOK, TablesTypeOK, CallsKnown
<1>2. CASE j # k
  <2>1. call'[k] = call[k]
    BY <1>2 DEF Callback, StaleCallback, LateCallback, FreshCallback, TypeOK, TablesTypeOK
  <2> QED
    BY <1>1, <2>1 DEF CallStep, CallAdvances, Begun
<1>3. CASE j = k
  <2>1. PICK i \in DOMAIN script[k] :
          StaleCallback(k, i) \/ LateCallback(k, i) \/ FreshCallback(k, i)
    BY <1>3 DEF Callback
  <2>2. script[k] # <<>> /\ call[k].sid \in {0, posts[k]}
    BY <2>1 DEF StaleCallback, LateCallback, FreshCallback, Delivered
  <2>3. Begun(k)
    BY <2>2 DEF CallsKnown
  <2>4. CASE StaleCallback(k, i)
    <3>1. call'[k] = [call[k] EXCEPT !.answered = TRUE]
      BY <2>4 DEF StaleCallback, TypeOK, TablesTypeOK
    <3> QED
      BY <1>1, <2>3, <3>1 DEF CallStep, CallAdvances, Begun, CallRow
  <2>5. CASE LateCallback(k, i)
    <3>1. call'[k] = AfterLate(call[k], posts[k], i, script[k][i])
      BY <2>5 DEF LateCallback, TypeOK, TablesTypeOK
    <3> QED
      BY <1>1, <2>2, <2>3, <3>1 DEF CallStep, CallAdvances, AfterLate, Begun, CallRow
  <2>6. CASE FreshCallback(k, i)
    <3>1. call'[k] = AfterFresh(call[k], posts[k], i, script[k][i])
      BY <2>6 DEF FreshCallback, TypeOK, TablesTypeOK
    <3>2. call[k].raw \notin Terminal
      BY <2>6 DEF FreshCallback, OutOfPlace
    <3> QED
      BY <1>1, <2>2, <2>3, <3>1, <3>2
      DEF CallStep, CallAdvances, AfterFresh, Begun, Dispatched, CallRow
  <2> QED
    BY <2>1, <2>4, <2>5, <2>6
<1> QED
  BY <1>2, <1>3

LEMMA NextCalls ==
  ASSUME TypeOK, WorkersPlaced, CallsKnown, PlacedAfterBegin, [Next]_vars, NEW k \in Attempt
  PROVE  CallStep(k)
<1>1. call[k] \in CallRow /\ call[k].state # "failed"
  BY DEF TypeOK, TablesTypeOK, CallsKnown
<1>2. CASE call'[k] = call[k]
  BY <1>1, <1>2 DEF CallStep, CallAdvances, Begun
<1>3. CASE Advance
  BY <1>3, AdvanceCalls DEF CallStep
<1>4. ASSUME NEW w \in Worker, NEW j \in Attempt, Claim(w, j) PROVE CallStep(k)
  <2>1. \/ call'[k] = call[k]
        \/ j = k /\ call[k].state = "none" /\ call'[k] = [call[k] EXCEPT !.state = "prepared"]
    BY <1>4 DEF Claim, TypeOK, TablesTypeOK
  <2> QED
    BY <1>1, <1>2, <1>4, <2>1 DEF CallStep, CallAdvances, Begun, Dispatched, CallRow
<1>5. ASSUME NEW w \in Worker, BeginDial(w) PROVE CallStep(k)
  <2>1. \/ call'[k] = call[k]
        \/ worker[w].at = k /\ call[k].state = "prepared"
             /\ call'[k] = [call[k] EXCEPT !.state = "dispatching"]
    BY <1>5 DEF BeginDial, MayDial, TypeOK, TablesTypeOK
  <2> QED
    BY <1>1, <1>2, <1>5, <2>1 DEF CallStep, CallAdvances, Begun, Dispatched, CallRow
<1>6. ASSUME NEW j \in Attempt, Age(j) PROVE CallStep(k)
  <2>1. call'[k] = call[k] \/ call'[k] = [call[k] EXCEPT !.aged = TRUE]
    BY <1>6 DEF Age, TypeOK, TablesTypeOK
  <2> QED
    BY <1>1, <2>1 DEF CallStep, CallAdvances, Begun, CallRow
<1>7. ASSUME NEW w \in Worker, WorkerStep(w) PROVE CallStep(k)
  BY <1>2, <1>3, <1>4, <1>5, <1>7, FinishCalls
  DEF WorkerStep, BeginDefer, BeginRefused, Post, PostRejected, FinishLost, WorkerAdvance, tables
<1>8. CASE Client \/ Selection \/ BookingCancelled
  <2>1. UNCHANGED call
    BY <1>8 DEF Client, UpdateOperation, ConfirmMandate, ConfirmRound, CancelOperation,
       Selection, Select, SelectWinner, BookingCancelled, CancelBooking, ReplaceBooking
  <2> QED
    BY <1>2, <2>1
<1> QED
  BY <1>2, <1>3, <1>6, <1>7, <1>8, CallbackCalls
  DEF Next, vars, tables, Crash, PollAdvance, CreateQuote, DeclineQuote, Clock, Mature,
      ExpireLease, ComparisonDeadline, SecondPasses, PickupPasses, ProviderSwitched

\* A job row is never removed, and it is created with its request, as the first
\* attempt, or by a no-answer of the attempt before.
JobStep(k) ==
  /\ job[k].status # "none" => job'[k].status # "none"
  /\ job[k].status = "none" /\ job'[k].status # "none" =>
       \/ k[2] = 1
       \/ \E j \in Attempt : k = NextAttempt(j) /\ call'[j].raw = "no-answer"

LEMMA RoundJobs ==
  ASSUME TypeOK, NEW k \in Attempt,
         \/ UpdateOperation \/ ConfirmMandate \/ CancelOperation
         \/ CancelBooking \/ Select \/ Advance
  PROVE  JobStep(k)
<1> SUFFICES ASSUME job[k].status = "none", k[2] # 1 PROVE job'[k].status = "none"
  BY JobsStay DEF JobStep
<1>1. ASSUME NEW K PROVE JobsRetired(K)[k] = job[k]
  BY DEF JobsRetired, Queued
<1>2. CASE UpdateOperation
  BY <1>1, <1>2 DEF UpdateOperation
<1>3. CASE ConfirmMandate
  <2>1. PICK r \in Round, Q \in SUBSET Request, past \in BOOLEAN : ConfirmRound(r, Q, past)
    BY <1>3 DEF ConfirmMandate, RequestsOf
  <2> QED
    BY <1>1, <2>1 DEF ConfirmRound, OpenRound
<1>4. CASE CancelOperation
  BY <1>4 DEF CancelOperation, Queued
<1>5. CASE CancelBooking
  <2>1. PICK r \in Round, Q \in SUBSET Request : ReplaceBooking(r, Q)
    BY <1>5 DEF CancelBooking, RequestsOf
  <2> QED
    BY <1>1, <2>1 DEF ReplaceBooking, NobodyToAsk, OpenRound
<1>6. CASE Select
  <2>1. PICK r \in Round, w \in Request : SelectWinner(r, w)
    BY <1>6 DEF Select, Winners, RequestsOf
  <2> QED
    BY <2>1 DEF SelectWinner, Queued
<1>7. CASE Advance
  <2>1. ASSUME NEW r \in Round, AdvanceActive(r) PROVE job'[k].status = "none"
    <3>1. CASE DropStaleRound(r)
      BY <1>1, <3>1 DEF DropStaleRound
    <3>2. CASE GiveUp(r)
      BY <3>2 DEF GiveUp, Queued
    <3>3. CASE Settle(r)
      BY <1>1, <3>3 DEF Settle
    <3> QED
      BY <2>1, <3>1, <3>2, <3>3 DEF AdvanceActive
  <2> QED
    BY <1>7, <2>1 DEF Advance, ActiveRounds, tables
<1> QED
  BY <1>2, <1>3, <1>4, <1>5, <1>6, <1>7

LEMMA FinishJobs ==
  ASSUME TypeOK, WorkersPlaced, CallsKnown, NEW w \in Worker,
         FinishError(w) \/ \E replied \in BOOLEAN : FinishSid(w, replied),
         NEW k \in Attempt
  PROVE  JobStep(k)
<1>1. job[k] \in JobRow /\ worker[w].at \in Attempt
  BY DEF TypeOK, TablesTypeOK, WorkersPlaced, FinishError, FinishSid
<1>2. job[worker[w].at].status # "none"
  BY <1>1 DEF FinishError, FinishSid, FinishAuthorised, CallsKnown
<1>3. job'[k] = job[k] \/ (worker[w].at = k /\ job'[k] = Retired(job[k]))
  BY <1>1 DEF FinishError, FinishSid, TypeOK, TablesTypeOK
<1> QED
  BY <1>1, <1>2, <1>3 DEF JobStep, Retired, JobRow

LEMMA CallbackJobs ==
  ASSUME TypeOK, NEW j \in Attempt, Callback(j), NEW k \in Attempt
  PROVE  JobStep(k)
<1>1. job[k] \in JobRow /\ Retired(job[k]).status = "processed"
  BY DEF TypeOK, TablesTypeOK, JobRow, Retired
<1>2. ASSUME NEW K PROVE /\ job[k].status = "none" => JobsRetired(K)[k] = job[k]
                         /\ job[k].status # "none" => JobsRetired(K)[k].status # "none"
  BY <1>1 DEF JobsRetired, Queued
<1>3. PICK i \in DOMAIN script[j] :
        StaleCallback(j, i) \/ LateCallback(j, i) \/ FreshCallback(j, i)
  BY DEF Callback
<1>4. CASE StaleCallback(j, i)
  BY <1>2, <1>4 DEF StaleCallback, JobStep
<1>5. CASE LateCallback(j, i)
  BY <1>2, <1>5 DEF LateCallback, JobStep
<1>6. CASE FreshCallback(j, i)
  <2> DEFINE jobs == IF job[j].status = "processing"
                       THEN [job EXCEPT ![j] = Retired(@)] ELSE job
             fresh == [status |-> "pending", holder |-> None, lease |-> "none", due |-> FALSE]
  <2>1. jobs[k] = job[k] \/ (jobs[k] = Retired(job[k]) /\ job[k].status # "none")
    BY <1>1 DEF TypeOK, TablesTypeOK
  <2>2. DOMAIN jobs = Attempt
    BY DEF TypeOK, TablesTypeOK
  <2>3. job' = IF Retry(j, i) THEN [jobs EXCEPT ![NextAttempt(j)] = fresh] ELSE jobs
    BY <1>6 DEF FreshCallback
  <2>4. fresh.status = "pending"
    OBVIOUS
  <2>5. job'[k] = jobs[k] \/ (k = NextAttempt(j) /\ Retry(j, i) /\ job'[k] = fresh)
    <3> HIDE DEF jobs, fresh
    <3> QED
      BY <2>2, <2>3
  <2>6. Retry(j, i) => call'[j].raw = "no-answer"
    <3>1. call'[j] = AfterFresh(call[j], posts[j], i, script[j][i])
      BY <1>6 DEF FreshCallback, TypeOK, TablesTypeOK
    <3>2. call[j] \in CallRow
      BY DEF TypeOK, TablesTypeOK
    <3>3. call'[j].raw = script[j][i]
      BY <3>1, <3>2 DEF AfterFresh, CallRow
    <3> QED
      BY <3>3 DEF Retry
  <2> HIDE DEF jobs, fresh
  <2> QED
    BY <1>1, <2>1, <2>4, <2>5, <2>6 DEF JobStep
<1> QED
  BY <1>3, <1>4, <1>5, <1>6

LEMMA NextJobs ==
  ASSUME TypeOK, WorkersPlaced, CallsKnown, [Next]_vars, NEW k \in Attempt
  PROVE  JobStep(k)
<1>1. job[k] \in JobRow
  BY DEF TypeOK, TablesTypeOK
<1>2. CASE job'[k].status = job[k].status
  BY <1>2 DEF JobStep
<1>3. ASSUME job[k].status # "none", job'[k].status # "none" PROVE JobStep(k)
  BY <1>3 DEF JobStep
<1>4. ASSUME NEW w \in Worker, NEW j \in Attempt, Claim(w, j) PROVE JobStep(k)
  <2>1. job'[k] = job[k] \/ (k = j /\ job'[k].status = "processing")
    BY <1>4 DEF Claim, TypeOK, TablesTypeOK, JobRow
  <2>2. k = j => job[k].status # "none"
    BY <1>4 DEF Claim, Claimable
  <2> QED
    BY <1>2, <1>3, <2>1, <2>2
<1>5. ASSUME NEW w \in Worker, BeginDefer(w) PROVE JobStep(k)
  <2>1. job'[k] = job[k] \/ (k = worker[w].at /\ job'[k].status = "pending")
    BY <1>5 DEF BeginDefer, TypeOK, TablesTypeOK, JobRow
  <2>2. k = worker[w].at => job[k].status # "none"
    BY <1>5 DEF BeginDefer, MayDial
  <2> QED
    BY <1>2, <1>3, <2>1, <2>2
<1>6. ASSUME NEW w \in Worker, WorkerStep(w) PROVE JobStep(k)
  BY <1>2, <1>4, <1>5, <1>6, FinishJobs, RoundJobs
  DEF WorkerStep, BeginDial, BeginRefused, Post, PostRejected, FinishLost, WorkerAdvance, tables
<1>7. ASSUME NEW j \in Attempt, Mature(j) \/ ExpireLease(j) PROVE JobStep(k)
  <2>1. \/ job'[k] = job[k]
        \/ job'[k] = [job[k] EXCEPT !.due = TRUE]
        \/ job'[k] = [job[k] EXCEPT !.lease = "expired"]
    BY <1>7 DEF Mature, ExpireLease, TypeOK, TablesTypeOK
  <2>2. job'[k].status = job[k].status
    BY <1>1, <2>1 DEF JobRow
  <2> QED
    BY <1>2, <2>2
<1> QED
  BY <1>2, <1>6, <1>7, RoundJobs, CallbackJobs
  DEF Next, vars, tables, Crash, PollAdvance, CreateQuote, DeclineQuote, Clock, Age,
      ComparisonDeadline, SecondPasses, PickupPasses, ProviderSwitched, Client, Selection, BookingCancelled

------------------------------------------------------------------------------
(* At most one POST per call row.  The invariant ties the three parties      *)
(* together: a POST presupposes a committed begin, begin presupposes a call  *)
(* that is only prepared, and a process that has begun is alone at its call. *)

DispatchInv == TypeOK /\ DispatchHistory /\ AtMostOnePost

LEMMA DispatchInvFacts ==
  ASSUME DispatchInv PROVE TypeOK /\ WorkersPlaced /\ CallsKnown /\ PlacedAfterBegin
BY DEF DispatchInv, DispatchHistory, CallsKnown, PlacedAfterBegin, Begun

\* A process gets past begin only by begin, and keeps its attempt meanwhile.
ProcessStep(v) ==
  /\ PastBegin(v)' => /\ BeginDial(v) \/ PastBegin(v)
                      /\ worker'[v].at = worker[v].at
  /\ worker'[v].pc = "dialing" => BeginDial(v) \/ worker'[v] = worker[v]

\* A call is placed only by a process about to dial, which then is not any more.
PostStep(k) ==
  \/ posts'[k] = posts[k] /\ (script'[k] = script[k] \/ posts[k] > 0)
  \/ \E w \in Worker : /\ worker[w].pc = "dialing" /\ worker[w].at = k
                       /\ worker'[w].pc # "dialing"
                       /\ posts'[k] = posts[k] + 1

\* Only a process places calls.
LEMMA CallsApart ==
  ASSUME [Next]_vars, \A w \in Worker : ~WorkerStep(w) /\ ~Crash(w)
  PROVE  UNCHANGED <<posts, script>>
<1>1. ASSUME NEW k \in Attempt,
             \/ Callback(k) \/ Clock(k) \/ DeclineQuote(k)
             \/ \E verdict \in Verdict : CreateQuote(k, verdict)
      PROVE  UNCHANGED <<posts, script>>
  BY <1>1 DEF Callback, StaleCallback, LateCallback, FreshCallback, Clock, Mature,
     ExpireLease, Age, DeclineQuote, CreateQuote, env
<1>2. ASSUME \/ PollAdvance \/ SecondPasses \/ PickupPasses \/ ProviderSwitched
             \/ Client \/ Selection \/ BookingCancelled
             \/ \E r \in Round : ComparisonDeadline(r)
      PROVE  UNCHANGED <<posts, script>>
  BY <1>2 DEF PollAdvance, SecondPasses, PickupPasses, ProviderSwitched, Client, Selection,
     BookingCancelled, ComparisonDeadline, env
<1> QED
  BY <1>1, <1>2 DEF Next, vars

LEMMA NextProcess ==
  ASSUME TypeOK, [Next]_vars, NEW v \in Worker PROVE ProcessStep(v)
<1>1. worker \in [Worker -> WorkerRow]
  BY DEF TypeOK
<1>2. CASE worker'[v] = worker[v]
  BY <1>2 DEF ProcessStep, PastBegin
<1>3. CASE worker'[v].pc \in {"idle", "claimed", "advance"}
  BY <1>3 DEF ProcessStep, PastBegin
<1>4. ASSUME NEW w \in Worker, NEW pc, Goto(w, pc)
      PROVE  /\ w # v => worker'[v] = worker[v]
             /\ w = v => worker'[v].pc = pc /\ worker'[v].at = worker[v].at
  BY <1>1, <1>4 DEF Goto, WorkerRow
<1>5. ASSUME NEW w \in Worker, NEW k \in Attempt, Claim(w, k) PROVE ProcessStep(v)
  BY <1>1, <1>2, <1>3, <1>5 DEF Claim
<1>6. ASSUME NEW w \in Worker, BeginDial(w) PROVE ProcessStep(v)
  BY <1>2, <1>4, <1>6 DEF BeginDial, ProcessStep
<1>7. ASSUME NEW w \in Worker, BeginDefer(w) \/ BeginRefused(w) \/ FinishError(w)
      PROVE  ProcessStep(v)
  BY <1>2, <1>3, <1>4, <1>7 DEF BeginDefer, BeginRefused, FinishError
<1>8. ASSUME NEW w \in Worker, NEW s \in Scripts, NEW replied \in BOOLEAN, Post(w, s, replied)
      PROVE  ProcessStep(v)
  <2>1. CASE w = v
    <3>1. worker'[v].pc \in {"posted", "failed"} /\ worker'[v].at = worker[v].at
      BY <1>1, <1>8, <2>1 DEF Post, WorkerRow
    <3> QED
      BY <1>8, <2>1, <3>1 DEF Post, ProcessStep, PastBegin
  <2> QED
    BY <1>1, <1>2, <1>8, <2>1 DEF Post
<1>9. ASSUME NEW w \in Worker, PostRejected(w) PROVE ProcessStep(v)
  BY <1>2, <1>4, <1>9 DEF PostRejected, ProcessStep, PastBegin
<1>10. ASSUME NEW w \in Worker, NEW replied \in BOOLEAN, FinishSid(w, replied)
       PROVE  ProcessStep(v)
  <2>1. \E pc : Goto(w, pc) /\ pc \in {"advance", "retrying"} /\ PastBegin(w)
    BY <1>10 DEF FinishSid, PastBegin
  <2> QED
    BY <1>2, <1>4, <2>1 DEF ProcessStep, PastBegin
<1>11. ASSUME NEW w \in Worker, FinishLost(w) PROVE ProcessStep(v)
  <2>1. \E pc : Goto(w, pc) /\ pc \in {"advance", "retrying"} /\ PastBegin(w)
    BY <1>11 DEF FinishLost, PastBegin
  <2> QED
    BY <1>2, <1>4, <2>1 DEF ProcessStep, PastBegin
<1>12. ASSUME NEW w \in Worker, WorkerAdvance(w) \/ Crash(w) PROVE ProcessStep(v)
  BY <1>1, <1>2, <1>3, <1>12 DEF WorkerAdvance, Crash, Idle
<1>13. ASSUME NEW w \in Worker, WorkerStep(w) PROVE ProcessStep(v)
  BY <1>5, <1>6, <1>7, <1>8, <1>9, <1>10, <1>11, <1>12, <1>13 DEF WorkerStep
<1> QED
  BY <1>2, <1>12, <1>13, ProcessesApart

LEMMA NextPosts ==
  ASSUME TypeOK, WorkersPlaced, [Next]_vars, NEW k \in Attempt PROVE PostStep(k)
<1>1. worker \in [Worker -> WorkerRow]
  BY DEF TypeOK
<1>2. CASE UNCHANGED <<posts, script>>
  BY <1>2 DEF PostStep
<1>3. ASSUME NEW w \in Worker, NEW s \in Scripts, NEW replied \in BOOLEAN, Post(w, s, replied)
      PROVE  PostStep(k)
  <2>1. worker[w].at \in Attempt
    BY <1>3 DEF Post, WorkersPlaced
  <2>2. worker'[w].pc # "dialing"
    BY <1>1, <1>3 DEF Post, WorkerRow
  <2> QED
    BY <1>3, <2>1, <2>2 DEF Post, PostStep, TypeOK
<1>4. ASSUME NEW w \in Worker, PostRejected(w) PROVE PostStep(k)
  <2>1. worker[w].at \in Attempt
    BY <1>4 DEF PostRejected, WorkersPlaced
  <2>2. worker'[w].pc # "dialing"
    BY <1>1, <1>4 DEF PostRejected, Goto, WorkerRow
  <2> QED
    BY <1>4, <2>1, <2>2 DEF PostRejected, PostStep, TypeOK
<1>5. ASSUME NEW w \in Worker, WorkerStep(w) PROVE PostStep(k)
  BY <1>2, <1>3, <1>4, <1>5
  DEF WorkerStep, Claim, BeginDial, BeginDefer, BeginRefused, FinishSid, FinishError,
      FinishLost, WorkerAdvance
<1>6. ASSUME NEW w \in Worker, Crash(w) PROVE PostStep(k)
  BY <1>2, <1>6 DEF Crash
<1>7. CASE \A w \in Worker : ~WorkerStep(w) /\ ~Crash(w)
  BY <1>2, <1>7, CallsApart
<1> QED
  BY <1>5, <1>6, <1>7

LEMMA DispatchNext ==
  ASSUME DispatchInv, [Next]_vars PROVE DispatchInv'
<1>1. TypeOK /\ WorkersPlaced /\ CallsKnown /\ PlacedAfterBegin
  BY DispatchInvFacts
<1>2. TypeOK' /\ WorkersPlaced'
  BY <1>1, NextType, NextPlaced
<1>3. /\ \A k \in Attempt : CallStep(k) /\ JobStep(k) /\ PostStep(k) /\ posts[k] \in Nat
      /\ \A w \in Worker : ProcessStep(w)
  BY <1>1, NextCalls, NextJobs, NextPosts, NextProcess DEF TypeOK
\* A process that is given permission to dial finds a call that is not dispatched.
<1>4. ASSUME NEW w \in Worker, BeginDial(w)
      PROVE  /\ worker[w].at \in Attempt /\ ~Begun(worker[w].at)
             /\ Begun(worker[w].at)' /\ UNCHANGED <<posts, script>>
             /\ \A v \in Worker : v # w => worker'[v] = worker[v]
  <2>1. worker[w].at \in Attempt /\ call[worker[w].at] \in CallRow
    BY <1>1, <1>4 DEF BeginDial, WorkersPlaced, TypeOK, TablesTypeOK
  <2>2. call'[worker[w].at].state = "dispatching"
    BY <1>1, <1>4, <2>1 DEF BeginDial, TypeOK, TablesTypeOK, CallRow
  <2> QED
    BY <1>1, <1>4, <2>1, <2>2 DEF BeginDial, MayDial, Begun, Dispatched, Goto, TypeOK
<1>5. ASSUME NEW w \in Worker, PastBegin(w)'
      PROVE  worker'[w].at = worker[w].at /\ worker'[w].at \in Attempt /\ Begun(worker[w].at)'
  <2>1. worker'[w].at = worker[w].at /\ worker'[w].at \in Attempt
    BY <1>2, <1>3, <1>5 DEF ProcessStep, WorkersPlaced, PastBegin
  <2>2. CASE BeginDial(w)
    BY <1>4, <2>1, <2>2 DEF Begun
  <2>3. CASE PastBegin(w)
    <3>1. Begun(worker[w].at)
      BY <1>1, <2>3 DEF PlacedAfterBegin
    <3> QED
      BY <1>3, <2>1, <3>1 DEF CallStep, CallAdvances, Begun
  <2> QED
    BY <1>3, <1>5, <2>1, <2>2, <2>3 DEF ProcessStep
<1>6. ASSUME NEW v \in Worker, NEW w \in Worker, PastBegin(v)', PastBegin(w)',
             worker'[v].at = worker'[w].at
      PROVE  v = w
  <2>1. worker[v].at = worker[w].at
    BY <1>5, <1>6
  <2>2. CASE PastBegin(v) /\ PastBegin(w)
    BY <2>1, <2>2 DEF DispatchInv, AtMostOnePost
  <2>3. ASSUME NEW x \in Worker, NEW y \in Worker, BeginDial(x), PastBegin(y),
               worker[x].at = worker[y].at
        PROVE  FALSE
    BY <1>1, <1>4, <2>3 DEF PlacedAfterBegin
  <2>4. CASE BeginDial(v) /\ BeginDial(w) /\ v # w
    <3>1. worker'[v] = worker[v] /\ worker[v].pc = "claimed"
      BY <1>4, <2>4 DEF BeginDial
    <3> QED
      BY <1>6, <3>1 DEF PastBegin
  <2> QED
    BY <1>3, <1>6, <2>1, <2>2, <2>3, <2>4 DEF ProcessStep
\* A process about to dial has not placed its call yet.
<1>7. ASSUME NEW w \in Worker, worker'[w].pc = "dialing"
      PROVE  posts'[worker'[w].at] = 0
  <2>1. worker'[w].at = worker[w].at /\ worker'[w].at \in Attempt
    BY <1>5, <1>7 DEF PastBegin
  <2>2. CASE BeginDial(w)
    BY <1>3, <1>4, <2>1, <2>2 DEF DispatchInv, DispatchHistory, Begun
  <2>3. CASE worker'[w] = worker[w]
    <3>1. worker[w].pc = "dialing" /\ posts[worker[w].at] = 0
      BY <1>7, <2>3 DEF DispatchInv, DispatchHistory
    <3>2. ASSUME NEW v \in Worker, worker[v].pc = "dialing", worker[v].at = worker[w].at
          PROVE  v = w
      BY <3>1, <3>2 DEF DispatchInv, AtMostOnePost, PastBegin
    <3> QED
      BY <1>3, <1>7, <2>1, <3>1, <3>2 DEF PostStep
  <2> QED
    BY <1>3, <1>7, <2>2, <2>3 DEF ProcessStep
<1>8. ASSUME NEW k \in Attempt
      PROVE  /\ posts'[k] <= 1
             /\ posts'[k] > 0 => Begun(k)'
             /\ script'[k] # <<>> => posts'[k] > 0
             /\ call'[k].state # "failed"
             /\ call'[k].state # "none" => job'[k].status # "none"
  <2>1. /\ posts[k] <= 1 /\ posts[k] \in Nat
        /\ posts[k] > 0 => Begun(k)
        /\ script[k] # <<>> => posts[k] > 0
        /\ call[k].state # "none" => job[k].status # "none"
    BY <1>3 DEF DispatchInv, DispatchHistory, AtMostOnePost
  <2>2. Begun(k) => Begun(k)'
    BY <1>3 DEF CallStep, CallAdvances
  <2>3. call'[k].state # "failed"
    BY <1>3 DEF CallStep, CallAdvances
  <2>4. ASSUME NEW w \in Worker, worker[w].pc = "dialing", worker[w].at = k
        PROVE  posts[k] = 0 /\ Begun(k)
    BY <1>1, <2>4 DEF DispatchInv, DispatchHistory, PlacedAfterBegin, PastBegin
  <2>5. ASSUME NEW w \in Worker, Claim(w, k) PROVE job[k].status # "none"
    BY <2>5 DEF Claim, Claimable
  <2>6. posts'[k] <= 1 /\ (posts'[k] > 0 => Begun(k)') /\ (script'[k] # <<>> => posts'[k] > 0)
    BY <1>3, <2>1, <2>2, <2>4 DEF PostStep
  <2>7. call'[k].state # "none" => job'[k].status # "none"
    BY <1>3, <2>1, <2>5 DEF CallStep, JobStep
  <2> QED
    BY <2>3, <2>6, <2>7
<1> QED
  BY <1>2, <1>5, <1>6, <1>7, <1>8 DEF DispatchInv, DispatchHistory, AtMostOnePost

LEMMA DispatchInit == Init => DispatchInv
<1> SUFFICES ASSUME Init PROVE DispatchInv
  OBVIOUS
<1>1. \A w \in Worker : worker[w].pc = "idle"
  BY DEF Init, Idle
<1>2. \A k \in Attempt : call[k].state = "none" /\ posts[k] = 0 /\ script[k] = <<>>
  BY DEF Init, TablesInit, NoCall
<1> QED
  BY <1>1, <1>2, InitTypeOK DEF DispatchInv, DispatchHistory, WorkersPlaced, AtMostOnePost, PastBegin

LEMMA DispatchAlways == Spec => []DispatchInv
BY DispatchInit, DispatchNext, PTL DEF Spec

\* One call row leads to at most one POST, however many processes claim its job
\* again after crashes and expired leases, and no two dial the same attempt.
THEOREM NoCallTwice == Spec => []AtMostOnePost
<1>1. DispatchInv => AtMostOnePost
  BY DEF DispatchInv
<1> QED
  BY <1>1, DispatchAlways, PTL

\* Whatever Twilio or a process knows of a call goes back to a committed begin.
THEOREM NothingWithoutBegin == Spec => []DispatchHistory
<1>1. DispatchInv => DispatchHistory
  BY DEF DispatchInv
<1> QED
  BY <1>1, DispatchAlways, PTL

\* No transaction takes back a terminal status, the evidence of an answer or a
\* SID that was recorded, in whatever order and number the reports arrive.
THEOREM EvidenceStays == Spec => EvidenceIsMonotone
<1>1. DispatchInv /\ [Next]_vars =>
        [\A k \in Attempt :
           /\ call[k].raw \in Terminal => call'[k].raw = call[k].raw
           /\ call[k].answered => call'[k].answered
           /\ call[k].sid # 0 => call'[k].sid = call[k].sid]_vars
  BY DispatchInvFacts, NextCalls DEF CallStep, CallAdvances
<1> QED
  BY <1>1, DispatchAlways, PTL DEF Spec, EvidenceIsMonotone

------------------------------------------------------------------------------
(* Retries.  A job behind attempt n is created by a no-answer of attempt n    *)
(* only, and a recorded no-answer is not taken back.                          *)

RetryInv == DispatchInv /\ RetryOnlyAfterNoAnswer

LEMMA RetryNext ==
  ASSUME RetryInv, [Next]_vars PROVE RetryInv'
<1>1. DispatchInv /\ DispatchInv' /\ TypeOK /\ WorkersPlaced /\ CallsKnown /\ PlacedAfterBegin
  BY DispatchNext, DispatchInvFacts DEF RetryInv
<1> SUFFICES ASSUME NEW q \in Request, NEW n \in 1 .. MaxAttempts - 1,
                    job'[<<q, n + 1>>].status # "none" \/ call'[<<q, n + 1>>].state # "none"
             PROVE  call'[<<q, n>>].raw = "no-answer"
  BY <1>1 DEF RetryInv, RetryOnlyAfterNoAnswer
<1> DEFINE k == <<q, n + 1>>  p == <<q, n>>
<1>2. k \in Attempt /\ p \in Attempt /\ k[1] = q /\ k[2] = n + 1 /\ n \in Nat \ {0}
  BY AttemptsAssumption DEF Attempt
<1>3. job'[k].status # "none"
  BY <1>1, <1>2 DEF DispatchInv, DispatchHistory
<1>4. CASE job[k].status # "none"
  <2>1. call[p].raw = "no-answer"
    BY <1>4 DEF RetryInv, RetryOnlyAfterNoAnswer
  <2> QED
    BY <1>1, <1>2, <2>1, NextCalls DEF CallStep, CallAdvances, Terminal
<1>5. CASE job[k].status = "none"
  <2>1. PICK j \in Attempt : k = NextAttempt(j) /\ call'[j].raw = "no-answer"
    <3>1. JobStep(k)
      BY <1>1, <1>2, NextJobs
    <3> QED
      BY <1>2, <1>3, <1>5, <3>1 DEF JobStep
  <2>2. j = p
    BY <1>2, <2>1 DEF NextAttempt, Attempt
  <2> QED
    BY <2>1, <2>2
<1> QED
  BY <1>4, <1>5

LEMMA RetryInit == Init => RetryInv
<1> SUFFICES ASSUME Init PROVE RetryOnlyAfterNoAnswer
  BY DispatchInit DEF RetryInv
<1>1. ASSUME NEW q \in Request, NEW n \in 1 .. MaxAttempts - 1
      PROVE  /\ job[<<q, n + 1>>].status = "none"
             /\ call[<<q, n + 1>>].state = "none"
  <2>1. <<q, n + 1>> \in Attempt /\ n + 1 # 1
    BY AttemptsAssumption DEF Attempt
  <2> QED
    BY <2>1 DEF Init, TablesInit, NoJob, NoCall
<1> QED
  BY <1>1 DEF RetryOnlyAfterNoAnswer

\* A second or third call to a provider exists only behind a recorded no-answer
\* of the one before, whatever the reports and the limit of attempts.
THEOREM RetriesJustified == Spec => []RetryOnlyAfterNoAnswer
<1>1. Init => RetryInv
  BY RetryInit
<1>2. RetryInv /\ [Next]_vars => RetryInv'
  BY RetryNext
<1>3. RetryInv => RetryOnlyAfterNoAnswer
  BY DEF RetryInv
<1> QED
  BY <1>1, <1>2, <1>3, PTL DEF Spec

------------------------------------------------------------------------------
(* Lines.  Permission to dial and the POST are different steps; the limit    *)
(* holds because begin counts the call before the POST is made.              *)

LinesCounted == IsFiniteSet(LiveCalls) /\ Cardinality(LiveCalls) <= MaxLive

LEMMA LinesCountedNext ==
  ASSUME DispatchInv, LinesCounted, [Next]_vars PROVE LinesCounted'
<1>1. \A k \in Attempt : CallStep(k)
  BY DispatchInvFacts, NextCalls
<1>2. Cardinality(LiveCalls) \in Nat /\ MaxLive \in Nat
  BY BoundsAssumption, FS_CardinalityType DEF LinesCounted
<1>3. ASSUME NEW w \in Worker, BeginDial(w) PROVE LinesCounted'
  <2>1. Cardinality(LiveCalls) < MaxLive
    BY <1>3 DEF BeginDial, DialSlotFree
  <2>2. LiveCalls' \subseteq LiveCalls \cup {worker[w].at}
    <3>1. ASSUME NEW k \in Attempt, k # worker[w].at PROVE call'[k] = call[k]
      BY <1>3, <3>1, DispatchInvFacts DEF BeginDial, TypeOK, TablesTypeOK
    <3> QED
      BY <3>1 DEF LiveCalls, Live
  <2>3. /\ IsFiniteSet(LiveCalls \cup {worker[w].at})
        /\ Cardinality(LiveCalls \cup {worker[w].at}) <= MaxLive
    BY <1>2, <2>1, FS_AddElement DEF LinesCounted
  <2>4. IsFiniteSet(LiveCalls') /\ Cardinality(LiveCalls') <= Cardinality(LiveCalls \cup {worker[w].at})
    BY <2>2, <2>3, FS_Subset
  <2>5. /\ Cardinality(LiveCalls') \in Nat
        /\ Cardinality(LiveCalls \cup {worker[w].at}) \in Nat
    BY <2>3, <2>4, FS_CardinalityType
  <2> QED
    BY <1>2, <2>3, <2>4, <2>5 DEF LinesCounted
<1>4. CASE \A w \in Worker : ~BeginDial(w)
  <2>1. LiveCalls' \subseteq LiveCalls
    BY <1>1, <1>4 DEF CallStep, CallAdvances, LiveCalls, Live, Begun
  <2>2. IsFiniteSet(LiveCalls') /\ Cardinality(LiveCalls') <= Cardinality(LiveCalls)
    BY <2>1, FS_Subset DEF LinesCounted
  <2>3. Cardinality(LiveCalls') \in Nat
    BY <2>2, FS_CardinalityType
  <2> QED
    BY <1>2, <2>2, <2>3 DEF LinesCounted
<1> QED
  BY <1>3, <1>4

LEMMA LinesInit == Init => LinesCounted
<1> SUFFICES ASSUME Init PROVE LinesCounted
  OBVIOUS
<1>1. LiveCalls = {}
  BY DEF Init, TablesInit, NoCall, LiveCalls, Live, Dispatched
<1> QED
  BY <1>1, FS_EmptySet, BoundsAssumption DEF LinesCounted

\* An operation never occupies more than MaxLive lines at a time, however many
\* processes pass the limit check before either call exists at Twilio.
THEOREM LinesLimited == Spec => []LineLimit
<1>1. Init => LinesCounted
  BY LinesInit
<1>2. DispatchInv /\ LinesCounted /\ [Next]_vars => LinesCounted'
  BY LinesCountedNext
<1>3. DispatchInv /\ LinesCounted => LineLimit
  <2> SUFFICES ASSUME DispatchInv, LinesCounted PROVE LineLimit
    OBVIOUS
  <2>1. Lines \subseteq LiveCalls
    BY DEF DispatchInv, DispatchHistory, Lines, LiveCalls, Live, Begun
  <2>2. IsFiniteSet(Lines) /\ Cardinality(Lines) <= Cardinality(LiveCalls)
    BY <2>1, FS_Subset DEF LinesCounted
  <2>3. Cardinality(Lines) \in Nat /\ Cardinality(LiveCalls) \in Nat /\ MaxLive \in Nat
    BY <2>2, FS_CardinalityType, BoundsAssumption DEF LinesCounted
  <2> QED
    BY <2>2, <2>3 DEF LinesCounted, LineLimit
<1> QED
  BY <1>1, <1>2, <1>3, DispatchAlways, PTL DEF Spec

------------------------------------------------------------------------------
\* ProviderContact implements ContactPromise: of all its steps only begin dials, only
\* callbacks report, and everything else (claims, results, crashes, rounds, clocks)
\* is invisible to the provider.

\* Only a dispatched call has a status: without this the provider might be told
\* to have missed a call that was never placed.
ReportedIsBegun == \A k \in Attempt : call[k].raw # "none" => Begun(k)

PromiseInv == RetryInv /\ LinesCounted /\ ReportedIsBegun

\* The provider sees nothing of a step.
Invisible(k) ==
  /\ call'[k].raw = call[k].raw /\ call'[k].answered = call[k].answered
  /\ Begun(k)' <=> Begun(k)

LEMMA PhaseType ==
  ASSUME TypeOK, CallsKnown, NEW k \in Attempt
  PROVE  /\ Phase(call[k]) # "idle" <=> Begun(k)
         /\ Phase(call[k]) = "dialled" <=> Live(k)
         /\ Phase(call[k]) \in {"idle", "dialled", "missed", "over"}
<1>1. call[k] \in CallRow /\ call[k].state # "failed"
  BY RowTypes DEF CallsKnown
<1> QED
  BY <1>1 DEF Phase, Begun, Live, CallRow, Dispatched, Terminal

LEMMA InvisibleMaps ==
  ASSUME TypeOK, CallsKnown, TypeOK', CallsKnown', \A k \in Attempt : Invisible(k)
  PROVE  UNCHANGED Promise!vars
<1>1. ASSUME NEW k \in Attempt PROVE Phase(call'[k]) = Phase(call[k])
  <2>1. call[k] \in CallRow /\ call[k].state # "failed"
    BY RowTypes DEF CallsKnown
  <2>2. call'[k] \in CallRow /\ call'[k].state # "failed"
    BY DEF TypeOK, TablesTypeOK, CallsKnown
  <2>3. /\ call[k].state \in {"none", "prepared"} <=> ~Begun(k)
        /\ call'[k].state \in {"none", "prepared"} <=> ~Begun(k)'
    BY <2>1, <2>2 DEF Begun, CallRow, Dispatched
  <2> QED
    BY <2>3 DEF Invisible, Phase
<1> QED
  BY <1>1 DEF Invisible, Promise!vars

LEMMA FinishInvisible ==
  ASSUME TypeOK, WorkersPlaced, CallsKnown, PlacedAfterBegin, NEW w \in Worker,
         FinishError(w) \/ \E replied \in BOOLEAN : FinishSid(w, replied),
         NEW k \in Attempt
  PROVE  Invisible(k)
<1>1. call[k] \in CallRow /\ CallAdvances(k)
  BY RowTypes, FinishCalls DEF CallStep
<1>2. PastBegin(w) /\ worker[w].at \in Attempt
  BY DEF WorkersPlaced, PastBegin, FinishError, FinishSid
<1>3. CASE worker[w].at # k
  BY <1>3 DEF FinishError, FinishSid, TypeOK, TablesTypeOK, Invisible, Begun
<1>4. CASE worker[w].at = k
  <2>1. Begun(k) /\ Begun(k)'
    BY <1>1, <1>2, <1>4 DEF PlacedAfterBegin, CallAdvances
  <2>2. CASE FinishError(w)
    <3>1. call'[k] = AfterError(call[k])
      BY <1>4, <2>2 DEF FinishError, TypeOK, TablesTypeOK
    <3> QED
      BY <1>1, <2>1, <3>1 DEF Invisible, AfterError, CallRow
  <2>3. ASSUME NEW replied \in BOOLEAN, FinishSid(w, replied) PROVE Invisible(k)
    <3>1. call'[k] = AfterSid(call[k], worker[w].sid, round[RoundOf[k[1]]].status = "active")
      BY <1>4, <2>3 DEF FinishSid, TypeOK, TablesTypeOK
    <3> QED
      BY <1>1, <2>1, <3>1 DEF Invisible, AfterSid, CallRow
  <2> QED
    BY <2>2, <2>3
<1> QED
  BY <1>3, <1>4

\* Every step but begin and the callbacks.
LEMMA NextInvisible ==
  ASSUME TypeOK, WorkersPlaced, CallsKnown, PlacedAfterBegin, [Next]_vars,
         \A w \in Worker : ~BeginDial(w), \A k \in Attempt : ~Callback(k),
         NEW k \in Attempt
  PROVE  Invisible(k)
<1>1. call[k] \in CallRow
  BY RowTypes
<1>2. CASE call'[k] = call[k]
  BY <1>2 DEF Invisible, Begun
<1>3. CASE Advance
  BY <1>3, AdvanceCalls DEF Invisible, CallAdvances
<1>4. ASSUME NEW w \in Worker, NEW j \in Attempt, Claim(w, j) PROVE Invisible(k)
  <2>1. \/ call'[k] = call[k]
        \/ call[k].state = "none" /\ call'[k] = [call[k] EXCEPT !.state = "prepared"]
    BY <1>4 DEF Claim, TypeOK, TablesTypeOK
  <2> QED
    BY <1>1, <1>2, <2>1 DEF Invisible, Begun, Dispatched, CallRow
<1>5. ASSUME NEW j \in Attempt, Age(j) PROVE Invisible(k)
  <2>1. call'[k] = call[k] \/ call'[k] = [call[k] EXCEPT !.aged = TRUE]
    BY <1>5 DEF Age, TypeOK, TablesTypeOK
  <2> QED
    BY <1>1, <1>2, <2>1 DEF Invisible, Begun, CallRow
<1>6. ASSUME NEW w \in Worker, WorkerStep(w) PROVE Invisible(k)
  BY <1>2, <1>3, <1>4, <1>6, FinishInvisible
  DEF WorkerStep, BeginDefer, BeginRefused, Post, PostRejected, FinishLost, WorkerAdvance, tables
<1>7. CASE Client \/ Selection \/ BookingCancelled
  <2>1. UNCHANGED call
    BY <1>7 DEF Client, UpdateOperation, ConfirmMandate, ConfirmRound, CancelOperation,
       Selection, Select, SelectWinner, BookingCancelled, CancelBooking, ReplaceBooking
  <2> QED
    BY <1>2, <2>1
<1> QED
  BY <1>2, <1>3, <1>5, <1>6, <1>7
  DEF Next, vars, tables, Crash, PollAdvance, CreateQuote, DeclineQuote, Clock, Mature,
      ExpireLease, ComparisonDeadline, SecondPasses, PickupPasses, ProviderSwitched

\* A callback touches one call, and that one has been dialled.
LEMMA CallbackAlone ==
  ASSUME TypeOK, CallsKnown, NEW j \in Attempt, Callback(j)
  PROVE  Begun(j) /\ \A k \in Attempt : k # j => call'[k] = call[k]
<1>1. PICK i \in DOMAIN script[j] :
        StaleCallback(j, i) \/ LateCallback(j, i) \/ FreshCallback(j, i)
  BY DEF Callback
<1>2. script[j] # <<>>
  BY <1>1
<1> QED
  BY <1>1, <1>2 DEF CallsKnown, StaleCallback, LateCallback, FreshCallback, TypeOK, TablesTypeOK

LEMMA ReportedNext ==
  ASSUME DispatchInv, ReportedIsBegun, [Next]_vars PROVE ReportedIsBegun'
<1>1. TypeOK /\ WorkersPlaced /\ CallsKnown /\ PlacedAfterBegin
  BY DispatchInvFacts
<1> SUFFICES ASSUME NEW k \in Attempt, call'[k].raw # "none" PROVE Begun(k)'
  BY DEF ReportedIsBegun
<1>2. Begun(k) => Begun(k)'
  BY <1>1, NextCalls DEF CallStep, CallAdvances
<1>3. ASSUME NEW w \in Worker, BeginDial(w) PROVE Begun(k) \/ Begun(k)'
  <2>1. call[k] \in CallRow
    BY <1>1, RowTypes
  <2>2. call'[k] = call[k] \/ call'[k] = [call[k] EXCEPT !.state = "dispatching"]
    BY <1>1, <1>3 DEF BeginDial, TypeOK, TablesTypeOK
  <2> QED
    BY <2>1, <2>2 DEF ReportedIsBegun, Begun, Dispatched, CallRow
<1>4. ASSUME NEW j \in Attempt, Callback(j) PROVE Begun(k)
  BY <1>1, <1>4, CallbackAlone DEF ReportedIsBegun
<1>5. Invisible(k) => Begun(k)
  BY DEF Invisible, ReportedIsBegun
<1> QED
  BY <1>1, <1>2, <1>3, <1>4, <1>5, NextInvisible

\* The abstract specification counts as this one does.
LEMMA SameCount == ASSUME NEW S PROVE Promise!Cardinality(S) = Cardinality(S)
BY DEF Promise!Cardinality, Cardinality

\* Begin dials an attempt in order, behind a missed call and with a line free.
LEMMA DialMaps ==
  ASSUME PromiseInv, NEW w \in Worker, BeginDial(w) PROVE Promise!Next
<1> DEFINE k == worker[w].at
<1>1. TypeOK /\ WorkersPlaced /\ CallsKnown
  BY DispatchInvFacts DEF PromiseInv, RetryInv
<1>2. k \in Attempt /\ MayDial(w, k) /\ DialSlotFree
  BY <1>1 DEF BeginDial, WorkersPlaced
<1>3. Phase(call[k]) = "idle"
  BY <1>2 DEF MayDial, Phase
<1>4. k[2] > 1 => Phase(call[<<k[1], k[2] - 1>>]) = "missed"
  <2> SUFFICES ASSUME k[2] > 1 PROVE Phase(call[<<k[1], k[2] - 1>>]) = "missed"
    OBVIOUS
  <2> DEFINE p == <<k[1], k[2] - 1>>
  <2>1. /\ p \in Attempt /\ k[1] \in Request /\ k[2] - 1 \in 1 .. MaxAttempts - 1
        /\ k = <<k[1], (k[2] - 1) + 1>>
    BY <1>2, AttemptsAssumption DEF Attempt
  <2>2. call[k].state # "none"
    BY <1>2 DEF MayDial
  <2>3. call[p].raw = "no-answer"
    BY <2>1, <2>2 DEF PromiseInv, RetryInv, RetryOnlyAfterNoAnswer
  <2>4. Begun(p)
    BY <2>1, <2>3 DEF PromiseInv, ReportedIsBegun
  <2> QED
    BY <2>3, <2>4 DEF Phase, Begun, Dispatched
<1>5. \A n \in 1 .. MaxAttempts : ~call[<<k[1], n>>].answered
  BY <1>2 DEF MayDial, AnsweredRequest
<1>6. Promise!Cardinality(Promise!UnderWay) < MaxLive
  <2>1. Promise!UnderWay = LiveCalls
    BY <1>1, PhaseType DEF Promise!UnderWay, Promise!Attempt, Attempt, LiveCalls
  <2> QED
    BY <1>2, <2>1, SameCount DEF DialSlotFree
<1>7. \A n \in 1 .. MaxAttempts : <<k[1], n>> \in Attempt
  BY <1>2 DEF Attempt
<1>8. /\ \A j \in Attempt : j # k => call'[j] = call[j]
      /\ call'[k] = [call[k] EXCEPT !.state = "dispatching"]
  BY <1>1, <1>2 DEF BeginDial, TypeOK, TablesTypeOK
<1>9. Phase(call'[k]) = "dialled" /\ call'[k].answered = call[k].answered
  <2>1. call[k] \in CallRow /\ ~Begun(k)
    BY <1>1, <1>2, RowTypes DEF MayDial, Begun, Dispatched
  <2>2. call[k].raw = "none"
    BY <1>2, <2>1 DEF PromiseInv, ReportedIsBegun
  <2> QED
    BY <1>8, <2>1, <2>2 DEF Phase, CallRow, Terminal
<1> HIDE DEF k
<1>10. Promise!Dial(k)
  <2>1. [j \in Attempt |-> Phase(call[j])]' =
          [[j \in Attempt |-> Phase(call[j])] EXCEPT ![k] = "dialled"]
    BY <1>2, <1>8, <1>9
  <2>2. [j \in Attempt |-> call[j].answered]' = [j \in Attempt |-> call[j].answered]
    BY <1>2, <1>8, <1>9
  <2>3. k[2] > 1 => <<k[1], k[2] - 1>> \in Attempt
    BY <1>2, AttemptsAssumption DEF Attempt
  <2>4. /\ [j \in Attempt |-> Phase(call[j])][k] = "idle"
        /\ k[2] > 1 => [j \in Attempt |-> Phase(call[j])][<<k[1], k[2] - 1>>] = "missed"
        /\ \A n \in 1 .. MaxAttempts : ~[j \in Attempt |-> call[j].answered][<<k[1], n>>]
    BY <1>2, <1>3, <1>4, <1>5, <1>7, <2>3
  <2> QED
    BY <1>6, <2>1, <2>2, <2>4 DEF Promise!Dial
<1> QED
  BY <1>2, <1>10 DEF Promise!Next, Promise!Attempt, Attempt

\* A callback reports on one call; what is known of it is not taken back.
LEMMA ReportMaps ==
  ASSUME PromiseInv, PromiseInv', [Next]_vars, NEW k \in Attempt, Callback(k)
  PROVE  Promise!Next
<1>1. TypeOK /\ WorkersPlaced /\ CallsKnown /\ PlacedAfterBegin
  BY DispatchInvFacts DEF PromiseInv, RetryInv
<1>2. TypeOK' /\ CallsKnown'
  <2>1. DispatchInv'
    BY DEF PromiseInv, RetryInv
  <2> QED
    BY <2>1 DEF DispatchInv, DispatchHistory, CallsKnown, Begun
<1>3. CallAdvances(k) /\ Begun(k) /\ \A j \in Attempt : j # k => call'[j] = call[j]
  BY <1>1, NextCalls, CallbackAlone DEF CallStep
<1>4. call[k] \in CallRow /\ call'[k] \in CallRow
  BY <1>1, <1>2 DEF TypeOK, TablesTypeOK
<1>5. call[k].state \notin {"none", "prepared"} /\ call'[k].state \notin {"none", "prepared"}
  BY <1>3 DEF CallAdvances, Begun, Dispatched
<1>6. /\ Phase(call[k]) # "idle"
      /\ Phase(call'[k]) \in {"dialled", "missed", "over"}
      /\ Phase(call[k]) # "dialled" => Phase(call'[k]) = Phase(call[k])
  BY <1>3, <1>5 DEF Phase, CallAdvances, Terminal
<1>7. /\ call'[k].answered \in BOOLEAN /\ call[k].answered \in BOOLEAN
      /\ call[k].answered => call'[k].answered
  BY <1>3, <1>4 DEF CallAdvances, CallRow
<1>8. call'[k].answered = (call[k].answered \/ call'[k].answered)
  BY <1>7
<1>9. Promise!Report(k)
  BY <1>3, <1>6, <1>7, <1>8 DEF Promise!Report, Promise!Attempt, Attempt
<1> QED
  BY <1>9 DEF Promise!Next, Promise!Attempt, Attempt

LEMMA PromiseNext ==
  ASSUME PromiseInv, [Next]_vars PROVE PromiseInv'
BY RetryNext, LinesCountedNext, ReportedNext DEF PromiseInv, RetryInv

\* The machinery of jobs, leases, processes, rounds and callbacks keeps, step by
\* step, the promise made to providers: one call at a time and in order, up to
\* the limit of attempts, the next one only behind an unanswered one.
THEOREM PromiseKept == Spec => KeepsPromise
<1>1. Init => PromiseInv /\ Promise!Init
  <2> SUFFICES ASSUME Init PROVE PromiseInv /\ Promise!Init
    OBVIOUS
  <2>1. \A k \in Attempt : call[k] = NoCall
    BY DEF Init, TablesInit
  <2>2. ReportedIsBegun
    BY <2>1 DEF ReportedIsBegun, NoCall
  <2>3. \A k \in Attempt : Phase(call[k]) = "idle" /\ call[k].answered = FALSE
    BY <2>1 DEF NoCall, Phase
  <2>4. Promise!Attempt = Attempt
    BY DEF Promise!Attempt, Attempt
  <2>5. Promise!Init
    BY <2>3, <2>4, Zenon DEF Promise!Init
  <2> QED
    BY <2>2, <2>5, RetryInit, LinesInit DEF PromiseInv
<1>2. PromiseInv /\ [Next]_vars => PromiseInv'
  BY PromiseNext
<1>3. PromiseInv /\ PromiseInv' /\ [Next]_vars => [Promise!Next]_(Promise!vars)
  <2> SUFFICES ASSUME PromiseInv, PromiseInv', [Next]_vars PROVE [Promise!Next]_(Promise!vars)
    OBVIOUS
  <2>1. TypeOK /\ WorkersPlaced /\ CallsKnown /\ PlacedAfterBegin
    BY DispatchInvFacts DEF PromiseInv, RetryInv
  <2>2. TypeOK' /\ CallsKnown'
    <3>1. DispatchInv'
      BY DEF PromiseInv, RetryInv
    <3> QED
      BY <3>1 DEF DispatchInv, DispatchHistory, CallsKnown, Begun
  <2>3. CASE (\A w \in Worker : ~BeginDial(w)) /\ \A k \in Attempt : ~Callback(k)
    BY <2>1, <2>2, <2>3, NextInvisible, InvisibleMaps
  <2> QED
    BY <2>3, DialMaps, ReportMaps
<1> QED
  BY <1>1, <1>2, <1>3, PTL DEF Spec, KeepsPromise, Promise!Spec

------------------------------------------------------------------------------
(* The safety of the sourcing rounds, for any number of rounds, requests and *)
(* processes: one active round and only in the operation's scope, closed     *)
(* rounds closed for good and without jobs, the booking with its winner.     *)

\* The three conjuncts need each other: a booking keeps its winner because what
\* is withdrawn belongs to the active round, and a new round starts quiet because
\* whatever was queued belonged to the one it supersedes.
RoundInv == TypeOK /\ ActiveRoundInScope /\ ClosedRoundIsQuiet /\ BookingHasWinner

------------------------------------------------------------------------------
(* Steps that do not open or close a round.                                  *)

\* They leave the rounds' status, the mandate and the booking alone, answer only
\* requests of the active round, and queue jobs only for it.
OutsideStep ==
  /\ \A r \in Round : /\ round'[r].status = round[r].status
                      /\ round'[r].mandate = round[r].mandate
  /\ op'.mandate = op.mandate /\ op'.confirm = op.confirm /\ op'.booking = op.booking
  /\ op'.status = op.status \/ (op.status \in Sourcing /\ op'.status \in Sourcing)
  /\ \A q \in Request :
       req'[q] = req[q] \/ req[q].status = "queued" \/ RoundInScope(RoundOf[q])
  /\ \A k \in Attempt : Queued(k)' => Queued(k) \/ RoundInScope(RoundOf[k[1]])

LEMMA RoundOfType ==
  /\ \A q \in Request : RoundOf[q] \in Round
  /\ \A k \in Attempt : k[1] \in Request /\ RoundOf[k[1]] \in Round
BY RoundsAssumption DEF Round, Attempt

LEMMA OutsideSafe ==
  ASSUME RoundInv, TypeOK', OutsideStep PROVE RoundInv'
<1>1. ActiveRounds' = ActiveRounds
  BY DEF OutsideStep, ActiveRounds
<1>2. \A r \in Round : RoundInScope(r)' <=> RoundInScope(r)
  BY DEF OutsideStep, RoundInScope, OperationSourcing
<1>3. ActiveRoundInScope'
  BY <1>1, <1>2 DEF RoundInv, ActiveRoundInScope, ActiveRounds
<1>4. ClosedRoundIsQuiet'
  BY RoundOfType DEF RoundInv, ClosedRoundIsQuiet, OutsideStep, RoundInScope
<1>5. BookingHasWinner'
  <2> SUFFICES ASSUME op.booking # None
               PROVE  /\ round'[RoundOf[op.booking]].status = "selected"
                      /\ req'[op.booking] = [status |-> "responded", quote |-> "eligible"]
    BY DEF OutsideStep, BookingHasWinner
  <2>1. op.booking \in Request
    BY DEF RoundInv, TypeOK, TablesTypeOK, OpRow
  <2>2. /\ round[RoundOf[op.booking]].status = "selected"
        /\ req[op.booking] = [status |-> "responded", quote |-> "eligible"]
    BY DEF RoundInv, BookingHasWinner
  <2> QED
    BY <2>1, <2>2, RoundOfType DEF OutsideStep, RoundInScope
<1> QED
  BY <1>3, <1>4, <1>5 DEF RoundInv

LEMMA StutterOutside == ASSUME UNCHANGED <<op, round, req, job>> PROVE OutsideStep
BY DEF OutsideStep, Queued

LEMMA WorkerOutside ==
  ASSUME TypeOK, WorkersPlaced, NEW w \in Worker, WorkerStep(w), ~WorkerAdvance(w)
  PROVE  OutsideStep
<1>1. /\ job \in [Attempt -> JobRow]
      /\ worker[w].pc # "idle" => worker[w].at \in Attempt
  BY DEF TypeOK, TablesTypeOK, WorkersPlaced
<1>2. ASSUME NEW k \in Attempt, Claim(w, k) PROVE OutsideStep
  <2>1. ASSUME NEW j \in Attempt PROVE Queued(j)' => Queued(j) \/ RoundInScope(RoundOf[j[1]])
    <3>1. CASE j = k
      BY <1>2, <3>1 DEF Claim, Claimable, MayContact
    <3>2. CASE j # k
      BY <1>2, <3>2 DEF Claim, TypeOK, TablesTypeOK, Queued
    <3> QED
      BY <3>1, <3>2
  <2> QED
    BY <1>2, <2>1 DEF Claim, OutsideStep
<1>3. CASE BeginDefer(w)
  <2>1. ASSUME NEW j \in Attempt PROVE Queued(j)' => Queued(j) \/ RoundInScope(RoundOf[j[1]])
    <3>1. CASE j = worker[w].at
      BY <1>3, <3>1 DEF BeginDefer, MayDial, MayContact
    <3>2. CASE j # worker[w].at
      BY <1>3, <3>2 DEF BeginDefer, TypeOK, TablesTypeOK, Queued
    <3> QED
      BY <3>1, <3>2
  <2> QED
    BY <1>3, <2>1 DEF BeginDefer, OutsideStep
<1>4. ASSUME NEW k \in Attempt, job' = [job EXCEPT ![k] = Retired(@)], NEW j \in Attempt, Queued(j)'
      PROVE  Queued(j)
  <2>1. j # k => job'[j] = job[j]
    BY <1>1, <1>4
  <2>2. j = k => job'[j].status = "processed"
    BY <1>1, <1>4 DEF Retired, JobRow
  <2> QED
    BY <1>4, <2>1, <2>2 DEF Queued
<1>5. CASE FinishError(w)
  <2>1. worker[w].at \in Attempt
    BY <1>1, <1>5 DEF FinishError
  <2> QED
    BY <1>4, <1>5, <2>1 DEF FinishError, OutsideStep
<1>6. ASSUME NEW replied \in BOOLEAN, FinishSid(w, replied) PROVE OutsideStep
  <2>1. worker[w].at \in Attempt
    BY <1>1, <1>6 DEF FinishSid
  <2>2. \A r \in Round : round'[r].status = round[r].status /\ round'[r].mandate = round[r].mandate
    <3>1. ASSUME NEW r \in Round
          PROVE  round'[r] = round[r] \/ round'[r] = [round[r] EXCEPT !.dispatched = TRUE]
      BY <1>6 DEF FinishSid, TypeOK, TablesTypeOK
    <3> QED
      BY <3>1, RowTypes DEF RoundRow
  <2>3. \A q \in Request : req'[q] = req[q] \/ req[q].status = "queued"
    BY <1>6 DEF FinishSid, RequestsMoved
  <2> QED
    BY <1>4, <1>6, <2>1, <2>2, <2>3 DEF FinishSid, OutsideStep
<1> QED
  BY <1>2, <1>3, <1>5, <1>6, StutterOutside
  DEF WorkerStep, BeginDial, BeginRefused, Post, PostRejected, FinishLost, tables

\* Retiring jobs queues none.
LEMMA RetiredQuiet ==
  ASSUME TypeOK, NEW K, NEW k \in Attempt
  PROVE  /\ JobsRetired(K)[k].status \in {"pending", "processing"} => Queued(k) /\ k \notin K
         /\ Retired(job[k]).status = "processed"
BY RowTypes DEF JobsRetired, Queued, Retired, JobRow

LEMMA CallbackOutside ==
  ASSUME TypeOK, NEW k \in Attempt, Callback(k) PROVE OutsideStep
<1>1. PICK i \in DOMAIN script[k] :
        StaleCallback(k, i) \/ LateCallback(k, i) \/ FreshCallback(k, i)
  BY DEF Callback
<1>2. CASE StaleCallback(k, i)
  BY <1>2, RetiredQuiet DEF StaleCallback, OutsideStep, Queued
<1>3. CASE LateCallback(k, i)
  BY <1>3, RetiredQuiet DEF LateCallback, OutsideStep, Queued
<1>4. CASE FreshCallback(k, i)
  <2>1. \A r \in Round : round'[r].status = round[r].status /\ round'[r].mandate = round[r].mandate
    <3>1. ASSUME NEW r \in Round
          PROVE  round'[r] = round[r] \/ round'[r] = [round[r] EXCEPT !.dispatched = TRUE]
      BY <1>4 DEF FreshCallback, TypeOK, TablesTypeOK
    <3> QED
      BY <3>1, RowTypes DEF RoundRow
  <2>2. ASSUME NEW j \in Attempt, Queued(j)' PROVE Queued(j) \/ RoundInScope(RoundOf[j[1]])
    <3> DEFINE jobs == IF job[k].status = "processing"
                         THEN [job EXCEPT ![k] = Retired(@)] ELSE job
               fresh == [status |-> "pending", holder |-> None, lease |-> "none", due |-> FALSE]
    <3>1. jobs[j] = job[j] \/ jobs[j].status = "processed"
      BY RetiredQuiet DEF TypeOK, TablesTypeOK
    <3>2. DOMAIN jobs = Attempt
      BY DEF TypeOK, TablesTypeOK
    <3>3. job' = IF Retry(k, i) THEN [jobs EXCEPT ![NextAttempt(k)] = fresh] ELSE jobs
      BY <1>4 DEF FreshCallback
    <3>4. job'[j] = jobs[j] \/ (j = NextAttempt(k) /\ Retry(k, i))
      <4> HIDE DEF jobs, fresh
      <4> QED
        BY <3>2, <3>3
    <3>5. j = NextAttempt(k) /\ Retry(k, i) => RoundInScope(RoundOf[j[1]])
      BY DEF NextAttempt, Retry, MayContact
    <3> HIDE DEF jobs, fresh
    <3> QED
      BY <2>2, <3>1, <3>4, <3>5 DEF Queued
  <2> QED
    BY <1>4, <2>1, <2>2 DEF FreshCallback, OutsideStep
<1> QED
  BY <1>1, <1>2, <1>3, <1>4

LEMMA ConversationOutside ==
  ASSUME TypeOK, NEW k \in Attempt,
         DeclineQuote(k) \/ \E verdict \in Verdict : CreateQuote(k, verdict)
  PROVE  OutsideStep
<1>1. RoundInScope(RoundOf[k[1]]) /\ op.status \in Sourcing
  BY DEF DeclineQuote, CreateQuote, InConversation, RoundInScope, OperationSourcing
<1>2. \A q \in Request : req'[q] = req[q] \/ q = k[1]
  BY DEF DeclineQuote, CreateQuote, TypeOK, TablesTypeOK
<1>3. /\ op'.mandate = op.mandate /\ op'.confirm = op.confirm /\ op'.booking = op.booking
      /\ op'.status \in Sourcing
  <2>1. op' = op \/ op' = [op EXCEPT !.status = "quotes_received"]
    BY DEF DeclineQuote, CreateQuote
  <2> QED
    BY <1>1, <2>1 DEF TypeOK, TablesTypeOK, OpRow, Sourcing
<1> QED
  BY <1>1, <1>2, <1>3 DEF DeclineQuote, CreateQuote, OutsideStep, Queued

LEMMA ClockOutside ==
  ASSUME TypeOK,
         \/ \E k \in Attempt : Clock(k)
         \/ \E r \in Round : ComparisonDeadline(r)
         \/ SecondPasses \/ PickupPasses \/ ProviderSwitched
  PROVE  OutsideStep
<1>1. ASSUME NEW k \in Attempt, Clock(k) PROVE OutsideStep
  <2>1. ASSUME NEW j \in Attempt PROVE job'[j].status = job[j].status
    <3>1. \/ job'[j] = job[j]
          \/ job'[j] = [job[j] EXCEPT !.due = TRUE]
          \/ job'[j] = [job[j] EXCEPT !.lease = "expired"]
      BY <1>1 DEF Clock, Mature, ExpireLease, Age, TypeOK, TablesTypeOK
    <3> QED
      BY <3>1, RowTypes DEF JobRow
  <2> QED
    BY <1>1, <2>1 DEF Clock, Mature, ExpireLease, Age, OutsideStep, Queued
<1>2. ASSUME NEW s \in Round, ComparisonDeadline(s) PROVE OutsideStep
  <2>1. ASSUME NEW r \in Round
        PROVE  round'[r].status = round[r].status /\ round'[r].mandate = round[r].mandate
    <3>1. round'[r] = round[r] \/ round'[r] = [round[r] EXCEPT !.late = TRUE]
      BY <1>2 DEF ComparisonDeadline, TypeOK, TablesTypeOK
    <3> QED
      BY <3>1, RowTypes DEF RoundRow
  <2> QED
    BY <1>2, <2>1 DEF ComparisonDeadline, OutsideStep, Queued
<1>3. CASE SecondPasses
  BY <1>3, StutterOutside DEF SecondPasses, tables
<1>4. CASE PickupPasses
  <2>1. op \in OpRow /\ op' = [op EXCEPT !.pickupPast = TRUE]
    BY <1>4 DEF PickupPasses, TypeOK, TablesTypeOK
  <2>2. /\ op'.mandate = op.mandate /\ op'.confirm = op.confirm /\ op'.booking = op.booking
        /\ op'.status = op.status
    BY <2>1 DEF OpRow
  <2> QED
    BY <1>4, <2>2 DEF PickupPasses, OutsideStep, Queued
<1>5. CASE ProviderSwitched
  <2>1. PICK S : op \in OpRow /\ op' = [op EXCEPT !.inactive = S]
    BY <1>5 DEF ProviderSwitched, TypeOK, TablesTypeOK
  <2>2. /\ op'.mandate = op.mandate /\ op'.confirm = op.confirm /\ op'.booking = op.booking
        /\ op'.status = op.status
    BY <2>1 DEF OpRow
  <2> QED
    BY <1>5, <2>2 DEF ProviderSwitched, OutsideStep, Queued
<1> QED
  BY <1>1, <1>2, <1>3, <1>4, <1>5

------------------------------------------------------------------------------
(* The transactions that open and close rounds.                              *)

\* Superseding leaves no active round and nothing else changed.
LEMMA Superseding ==
  ASSUME TypeOK, NEW r \in Round
  PROVE  /\ RoundsSuperseded[r].status # "active"
         /\ round[r].status # "active" => RoundsSuperseded[r] = round[r]
BY RowTypes DEF RoundsSuperseded, ActiveRounds, RoundRow

\* Retiring the active round's jobs leaves no job queued at all.
LEMMA NothingQueued ==
  ASSUME RoundInv, NEW k \in Attempt, NEW K, ActiveAttempts \subseteq K
  PROVE  JobsRetired(K)[k].status \notin {"pending", "processing"}
BY RetiredQuiet, RoundOfType DEF RoundInv, ClosedRoundIsQuiet, ActiveAttempts, ActiveRounds

\* The booking's request hangs on a selected round, so withdrawing the active
\* one passes it by.
LEMMA WinnerKept ==
  ASSUME RoundInv, op.booking # None
  PROVE  /\ op.booking \in Request
         /\ round[RoundOf[op.booking]].status = "selected"
         /\ RoundsSuperseded[RoundOf[op.booking]].status = "selected"
         /\ req[op.booking] = [status |-> "responded", quote |-> "eligible"]
         /\ RequestsMoved(ActiveRequests, OpenRequest, "cancelled")[op.booking] = req[op.booking]
<1>1. /\ op.booking \in Request
      /\ round[RoundOf[op.booking]].status = "selected"
      /\ req[op.booking] = [status |-> "responded", quote |-> "eligible"]
  BY DEF RoundInv, TypeOK, TablesTypeOK, OpRow, BookingHasWinner
<1>2. RoundsSuperseded[RoundOf[op.booking]].status = "selected"
  BY <1>1, RoundOfType, Superseding DEF RoundInv
<1>3. RequestsMoved(ActiveRequests, OpenRequest, "cancelled")[op.booking] = req[op.booking]
  BY <1>1 DEF RequestsMoved, ActiveRequests, ActiveRounds
<1> QED
  BY <1>1, <1>2, <1>3

LEMMA UpdateOperationRound ==
  ASSUME RoundInv, TypeOK', UpdateOperation PROVE RoundInv'
<1>1. ActiveRoundInScope'
  BY Superseding DEF UpdateOperation, RoundInv, ActiveRoundInScope, ActiveRounds
<1>2. ClosedRoundIsQuiet'
  BY NothingQueued DEF UpdateOperation, ClosedRoundIsQuiet, Queued
<1>3. BookingHasWinner'
  <2>1. op'.booking = op.booking
    BY DEF UpdateOperation, RoundInv, TypeOK, TablesTypeOK, OpRow
  <2> QED
    BY <2>1, WinnerKept DEF UpdateOperation, BookingHasWinner
<1> QED
  BY <1>1, <1>2, <1>3 DEF RoundInv

LEMMA CancelOperationRound ==
  ASSUME RoundInv, TypeOK', CancelOperation PROVE RoundInv'
<1>1. ActiveRoundInScope'
  BY Superseding DEF CancelOperation, RoundInv, ActiveRoundInScope, ActiveRounds
<1>2. ClosedRoundIsQuiet'
  <2>1. ASSUME NEW k \in Attempt PROVE ~Queued(k)'
    <3>1. Queued(k) => k \in ActiveAttempts
      BY RoundOfType DEF RoundInv, ClosedRoundIsQuiet, ActiveAttempts, ActiveRounds
    <3>2. Retired(job[k]).status = "processed"
      BY RetiredQuiet DEF RoundInv
    <3> QED
      BY <3>1, <3>2 DEF CancelOperation, Queued
  <2> QED
    BY <2>1 DEF ClosedRoundIsQuiet
<1>3. BookingHasWinner'
  <2>1. op'.booking = None
    BY DEF CancelOperation, RoundInv, TypeOK, TablesTypeOK, OpRow
  <2> QED
    BY <2>1 DEF BookingHasWinner
<1> QED
  BY <1>1, <1>2, <1>3 DEF RoundInv

\* A round opened over superseded rounds and retired jobs is the only active one,
\* in scope if the operation is sourcing under its mandate, and owns every job.
LEMMA OpenedInScope ==
  ASSUME RoundInv, NEW r \in Round, NEW kind \in Kind, NEW mandate \in Nat,
         NEW Q \in SUBSET Request, Q \subseteq RequestsOf(r), NEW requests, NEW K,
         ActiveAttempts \subseteq K,
         OpenRound(r, kind, mandate, Q, RoundsSuperseded, requests, JobsRetired(K)),
         op'.status \in Sourcing, ~op'.confirm, op'.mandate = mandate
  PROVE  ActiveRoundInScope' /\ ClosedRoundIsQuiet'
<1>1. /\ round'[r].status = "active" /\ round'[r].mandate = mandate
      /\ \A s \in Round : s # r => round'[s] = RoundsSuperseded[s]
  BY DEF OpenRound, RoundsSuperseded
<1>2. \A s \in Round : round'[s].status = "active" => s = r
  BY <1>1, Superseding DEF RoundInv
<1>3. ActiveRoundInScope'
  BY <1>1, <1>2 DEF ActiveRoundInScope, ActiveRounds, RoundInScope, OperationSourcing
<1>4. ASSUME NEW k \in Attempt, Queued(k)' PROVE RoundOf[k[1]] = r
  BY <1>4, NothingQueued DEF OpenRound, Queued, RequestsOf
<1> QED
  BY <1>1, <1>3, <1>4 DEF ClosedRoundIsQuiet

LEMMA ConfirmMandateRound ==
  ASSUME RoundInv, TypeOK', ConfirmMandate PROVE RoundInv'
<1>1. PICK r \in Round, Q \in SUBSET Request, past \in BOOLEAN :
        ConfirmRound(r, Q, past) /\ Q \subseteq RequestsOf(r)
  BY DEF ConfirmMandate, RequestsOf
<1>2. /\ op'.status = "sourcing" /\ ~op'.confirm /\ op'.mandate = op.mandate + 1
      /\ op'.booking = op.booking /\ op.mandate + 1 \in Nat
  BY <1>1 DEF ConfirmRound, RoundInv, TypeOK, TablesTypeOK, OpRow
<1>3. ActiveRoundInScope' /\ ClosedRoundIsQuiet'
  <2>1. "renegotiation" \in Kind /\ "sourcing" \in Sourcing
    BY DEF Kind, Sourcing
  <2> QED
    BY <1>1, <1>2, <2>1, OpenedInScope DEF ConfirmRound
<1>4. BookingHasWinner'
  <2> SUFFICES ASSUME op.booking # None
               PROVE  /\ round'[RoundOf[op.booking]].status = "selected"
                      /\ req'[op.booking] = [status |-> "responded", quote |-> "eligible"]
    BY <1>2 DEF BookingHasWinner
  <2>1. RoundOf[op.booking] # r /\ op.booking \notin Q
    BY <1>1, WinnerKept DEF ConfirmRound, NextRound, RequestsOf
  <2> QED
    BY <1>1, <2>1, WinnerKept, RoundOfType DEF ConfirmRound, OpenRound, RoundsSuperseded
<1> QED
  BY <1>3, <1>4 DEF RoundInv

LEMMA CancelBookingRound ==
  ASSUME RoundInv, TypeOK', CancelBooking PROVE RoundInv'
<1>1. PICK r \in Round, Q \in SUBSET Request : ReplaceBooking(r, Q) /\ Q \subseteq RequestsOf(r)
  BY DEF CancelBooking, RequestsOf
<1>2. /\ op'.booking = None /\ op'.confirm = op.confirm /\ op'.mandate = op.mandate
      /\ op.mandate \in Nat
      /\ Q # {} => op'.status = "sourcing"
  BY <1>1 DEF ReplaceBooking, RoundInv, TypeOK, TablesTypeOK, OpRow
<1>3. BookingHasWinner'
  BY <1>2 DEF BookingHasWinner
<1>4. ActiveAttempts \subseteq Attempt
  BY DEF ActiveAttempts
<1>5. CASE Q = {}
  <2>1. \A s \in Round : round'[s].status # "active"
    <3>1. /\ round'[r].status = "exhausted"
          /\ \A s \in Round : s # r => round'[s] = RoundsSuperseded[s]
      <4>1. NobodyToAsk(r)
        BY <1>1, <1>5 DEF ReplaceBooking
      <4> QED
        BY <4>1 DEF NobodyToAsk, RoundsSuperseded
    <3> QED
      BY <3>1, Superseding DEF RoundInv
  <2>2. \A k \in Attempt : ~Queued(k)'
    <3>1. job' = JobsRetired(Attempt)
      BY <1>1, <1>5 DEF ReplaceBooking, NobodyToAsk
    <3> QED
      BY <1>4, <3>1, NothingQueued DEF Queued
  <2> QED
    BY <1>3, <2>1, <2>2 DEF RoundInv, ActiveRoundInScope, ActiveRounds, ClosedRoundIsQuiet
<1>6. CASE Q # {}
  <2>1. "replacement" \in Kind /\ "sourcing" \in Sourcing
    BY DEF Kind, Sourcing
  <2>2. ~op.confirm
    BY <1>1, <1>6 DEF ReplaceBooking
  <2>3. ActiveRoundInScope' /\ ClosedRoundIsQuiet'
    BY <1>1, <1>2, <1>4, <1>6, <2>1, <2>2, OpenedInScope DEF ReplaceBooking
  <2> QED
    BY <1>3, <2>3 DEF RoundInv
<1> QED
  BY <1>5, <1>6

LEMMA SelectRound ==
  ASSUME RoundInv, TypeOK', Select PROVE RoundInv'
<1>1. PICK r \in Round, w \in Request :
        SelectWinner(r, w) /\ w \in Winners(r) /\ RoundOf[w] = r
  BY DEF Select, Winners, RequestsOf
<1>2. round[r].status = "active"
  BY <1>1 DEF SelectWinner, Ready, RoundInScope
<1>3. /\ round'[r].status = "selected"
      /\ \A s \in Round : s # r => round'[s] = round[s]
  BY <1>1 DEF SelectWinner, RoundInv, TypeOK, TablesTypeOK, RoundRow
<1>4. \A s \in Round : round[s].status = "active" => s = r
  BY <1>2 DEF RoundInv, ActiveRoundInScope, ActiveRounds
<1>5. ActiveRoundInScope'
  BY <1>3, <1>4 DEF ActiveRoundInScope, ActiveRounds
<1>6. ClosedRoundIsQuiet'
  <2>1. ASSUME NEW k \in Attempt PROVE ~Queued(k)'
    <3>1. Queued(k) => k \in AttemptsOf(r)
      BY <1>4, RoundOfType DEF RoundInv, ClosedRoundIsQuiet, AttemptsOf
    <3>2. [job[k] EXCEPT !.status = "processed"].status = "processed"
      BY RowTypes DEF RoundInv, JobRow
    <3> QED
      BY <1>1, <3>1, <3>2 DEF SelectWinner, Queued
  <2> QED
    BY <2>1 DEF ClosedRoundIsQuiet
<1>7. BookingHasWinner'
  <2>1. op'.booking = w
    BY <1>1 DEF SelectWinner, RoundInv, TypeOK, TablesTypeOK, OpRow
  <2>2. req'[w] = req[w]
    BY <1>1 DEF SelectWinner, RequestsMoved
  <2>3. req[w] = [status |-> "responded", quote |-> "eligible"]
    BY <1>1 DEF Winners, RoundInv, TypeOK, TablesTypeOK, RequestRow
  <2> QED
    BY <1>1, <1>3, <2>1, <2>2, <2>3 DEF BookingHasWinner
<1> QED
  BY <1>5, <1>6, <1>7 DEF RoundInv

\* Exhausting the active round r leaves none, no job and the booking alone.
LEMMA ExhaustedRound ==
  ASSUME RoundInv, TypeOK', NEW r \in Round, round[r].status = "active",
         round' = [round EXCEPT ![r].status = "exhausted"],
         op' = [op EXCEPT !.status = "needs_follow_up"],
         \A k \in AttemptsOf(r) : ~Queued(k)',
         \A k \in Attempt : Queued(k)' => Queued(k),
         \A q \in Request : q \notin RequestsOf(r) => req'[q] = req[q]
  PROVE  RoundInv'
<1>1. /\ round'[r].status = "exhausted"
      /\ \A s \in Round : s # r => round'[s] = round[s]
  BY DEF RoundInv, TypeOK, TablesTypeOK, RoundRow
<1>2. \A s \in Round : round[s].status = "active" => s = r
  BY DEF RoundInv, ActiveRoundInScope, ActiveRounds
<1>3. ActiveRoundInScope'
  BY <1>1, <1>2 DEF ActiveRoundInScope, ActiveRounds
<1>4. ClosedRoundIsQuiet'
  <2>1. ASSUME NEW k \in Attempt PROVE ~Queued(k)'
    BY <1>2, RoundOfType DEF RoundInv, ClosedRoundIsQuiet, AttemptsOf
  <2> QED
    BY <2>1 DEF ClosedRoundIsQuiet
<1>5. BookingHasWinner'
  <2>1. op'.booking = op.booking
    BY DEF RoundInv, TypeOK, TablesTypeOK, OpRow
  <2>2. op.booking # None => RoundOf[op.booking] # r
    BY WinnerKept
  <2> QED
    BY <1>1, <2>1, <2>2, WinnerKept, RoundOfType DEF BookingHasWinner, RequestsOf
<1> QED
  BY <1>3, <1>4, <1>5 DEF RoundInv

LEMMA GiveUpRound ==
  ASSUME RoundInv, TypeOK', NEW r \in Round, round[r].status = "active", GiveUp(r)
  PROVE  RoundInv'
<1>1. ASSUME NEW k \in Attempt
      PROVE  /\ Queued(k)' => Queued(k)
             /\ k \in AttemptsOf(r) => ~Queued(k)'
  <2>1. [job[k] EXCEPT !.status = "failed", !.lease = "none"].status = "failed"
    BY RowTypes DEF RoundInv, JobRow
  <2> QED
    BY <2>1 DEF GiveUp, Queued
<1>2. \A k \in AttemptsOf(r) : k \in Attempt
  BY DEF AttemptsOf
<1> QED
  BY <1>1, <1>2, ExhaustedRound DEF GiveUp

LEMMA SettleRound ==
  ASSUME RoundInv, TypeOK', NEW r \in Round, round[r].status = "active", Settle(r)
  PROVE  RoundInv'
<1>1. ASSUME NEW k \in Attempt PROVE Queued(k)' => Queued(k)
  BY RetiredQuiet DEF Settle, RoundInv, Queued
<1>2. CASE UNCHANGED <<op, round>>
  <2>1. \A q \in Request : req'[q] = req[q] \/ q \in RequestsOf(r)
    BY DEF Settle, RequestsMoved, TypeOK, TablesTypeOK, RoundInv
  <2>2. ActiveRoundInScope' /\ ClosedRoundIsQuiet'
    BY <1>1, <1>2 DEF RoundInv, ActiveRoundInScope, ActiveRounds, RoundInScope,
       OperationSourcing, ClosedRoundIsQuiet
  <2>3. BookingHasWinner'
    BY <1>2, <2>1, WinnerKept DEF BookingHasWinner, RequestsOf
  <2> QED
    BY <2>2, <2>3 DEF RoundInv
<1>3. CASE ~UNCHANGED <<op, round>>
  <2>1. /\ ~WorkLeft(r, job')
        /\ round' = [round EXCEPT ![r].status = "exhausted"]
        /\ op' = [op EXCEPT !.status = "needs_follow_up"]
        /\ req' = RequestsMoved(RequestsOf(r), {"queued", "contacted"}, "expired")
    BY <1>3 DEF Settle
  <2>2. \A k \in AttemptsOf(r) : ~Queued(k)'
    BY <2>1 DEF WorkLeft, Queued
  <2>3. \A q \in Request : q \notin RequestsOf(r) => req'[q] = req[q]
    BY <2>1 DEF RequestsMoved
  <2> QED
    BY <1>1, <2>1, <2>2, <2>3, ExhaustedRound
<1> QED
  BY <1>2, <1>3

LEMMA AdvanceRound ==
  ASSUME RoundInv, TypeOK', Advance PROVE RoundInv'
<1>1. CASE ActiveRounds = {}
  <2>1. OutsideStep
    BY <1>1, StutterOutside DEF Advance, tables
  <2> QED
    BY <2>1, OutsideSafe
<1>2. CASE ActiveRounds # {}
  <2>1. PICK r \in Round : round[r].status = "active" /\ AdvanceActive(r)
    BY <1>2 DEF Advance, ActiveRounds
  <2>2. RoundInScope(r)
    BY <2>1 DEF RoundInv, ActiveRoundInScope, ActiveRounds
  <2> QED
    BY <2>1, <2>2, GiveUpRound, SettleRound DEF AdvanceActive
<1> QED
  BY <1>1, <1>2

------------------------------------------------------------------------------
(* The theorems.                                                             *)

LEMMA RoundNext ==
  ASSUME DispatchInv, RoundInv, [Next]_vars PROVE RoundInv'
<1>1. TypeOK /\ WorkersPlaced /\ TypeOK'
  BY DispatchInvFacts, NextType
<1>2. ASSUME NEW w \in Worker, WorkerStep(w) PROVE RoundInv'
  BY <1>1, <1>2, WorkerOutside, OutsideSafe, AdvanceRound DEF WorkerAdvance
<1>3. ASSUME NEW w \in Worker, Crash(w) PROVE RoundInv'
  BY <1>1, <1>3, StutterOutside, OutsideSafe DEF Crash, tables
<1>4. ASSUME NEW k \in Attempt,
             \/ Callback(k) \/ Clock(k) \/ DeclineQuote(k)
             \/ \E verdict \in Verdict : CreateQuote(k, verdict)
      PROVE  RoundInv'
  BY <1>1, <1>4, CallbackOutside, ClockOutside, ConversationOutside, OutsideSafe
<1>5. CASE SecondPasses \/ PickupPasses \/ ProviderSwitched \/ \E r \in Round : ComparisonDeadline(r)
  BY <1>1, <1>5, ClockOutside, OutsideSafe
<1>6. CASE PollAdvance \/ Client \/ Selection \/ BookingCancelled
  BY <1>1, <1>6, AdvanceRound, UpdateOperationRound, ConfirmMandateRound,
     CancelOperationRound, SelectRound, CancelBookingRound
  DEF PollAdvance, Client, Selection, BookingCancelled
<1>7. CASE UNCHANGED vars
  BY <1>1, <1>7, StutterOutside, OutsideSafe DEF vars
<1> QED
  BY <1>2, <1>3, <1>4, <1>5, <1>6, <1>7 DEF Next

LEMMA RoundInit == Init => RoundInv
<1> SUFFICES ASSUME Init PROVE RoundInv
  OBVIOUS
<1>1. PICK Q \in SUBSET Request :
        /\ Q \subseteq RequestsOf(1)
        /\ job = [k \in Attempt |-> IF k[1] \in Q /\ k[2] = 1
                THEN [NoJob EXCEPT !.status = "pending", !.due = TRUE] ELSE NoJob]
  BY DEF Init, TablesInit, RequestsOf
<1>2. /\ op.status = "sourcing" /\ ~op.confirm /\ op.mandate = 1 /\ op.booking = None
      /\ round[1].status = "active" /\ round[1].mandate = 1
      /\ \A r \in Round : r # 1 => round[r].status = "none"
  BY RoundsAssumption DEF Init, TablesInit, NoRound, Round
<1>3. ActiveRoundInScope
  BY <1>2 DEF ActiveRoundInScope, ActiveRounds, RoundInScope, OperationSourcing, Sourcing
<1>4. \A k \in Attempt : Queued(k) => k[1] \in Q
  BY <1>1 DEF NoJob, Queued
<1> QED
  BY <1>1, <1>2, <1>3, <1>4, InitTypeOK
  DEF RoundInv, ClosedRoundIsQuiet, BookingHasWinner, RequestsOf

LEMMA RoundAlways == Spec => []RoundInv
BY RoundInit, RoundNext, DispatchAlways, PTL DEF Spec

\* The trigger, selections, cancellations and sweeps leave one active round at
\* most, and only while the operation is sourcing under its mandate.
THEOREM OneRoundInScope == Spec => []ActiveRoundInScope
<1>1. RoundInv => ActiveRoundInScope
  BY DEF RoundInv
<1> QED
  BY <1>1, RoundAlways, PTL

\* No retry, deferral or late report queues a call of a round that was closed.
THEOREM NoWorkAfterClosing == Spec => []ClosedRoundIsQuiet
<1>1. RoundInv => ClosedRoundIsQuiet
  BY DEF RoundInv
<1> QED
  BY <1>1, RoundAlways, PTL

\* What the operation has booked stays the request its round selected.
THEOREM BookingKept == Spec => []BookingHasWinner
<1>1. RoundInv => BookingHasWinner
  BY DEF RoundInv
<1> QED
  BY <1>1, RoundAlways, PTL

LEMMA RoundFinalNext ==
  ASSUME DispatchInv, RoundInv, [Next]_vars, NEW s \in Round,
         round[s].status \notin {"none", "active"}
  PROVE  round'[s].status = round[s].status
<1>1. TypeOK /\ WorkersPlaced /\ round \in [Round -> RoundRow]
  BY DispatchInvFacts DEF TypeOK, TablesTypeOK
<1>2. RoundsSuperseded[s] = round[s]
  BY <1>1, Superseding
<1>3. CASE OutsideStep
  BY <1>3 DEF OutsideStep
<1>4. CASE UpdateOperation \/ CancelOperation
  BY <1>2, <1>4 DEF UpdateOperation, CancelOperation
<1>5. CASE ConfirmMandate
  <2>1. PICK r \in Round, Q \in SUBSET Request, past \in BOOLEAN : ConfirmRound(r, Q, past)
    BY <1>5 DEF ConfirmMandate, RequestsOf
  <2>2. s # r
    BY <2>1 DEF ConfirmRound, NextRound
  <2> QED
    BY <1>2, <2>1, <2>2 DEF ConfirmRound, OpenRound, RoundsSuperseded
<1>6. CASE CancelBooking
  <2>1. PICK r \in Round, Q \in SUBSET Request : ReplaceBooking(r, Q)
    BY <1>6 DEF CancelBooking, RequestsOf
  <2>2. s # r
    BY <2>1 DEF ReplaceBooking, NextRound
  <2>3. NobodyToAsk(r) => round'[s] = round[s]
    BY <1>2, <2>2 DEF NobodyToAsk, RoundsSuperseded
  <2>4. ASSUME NEW kind, NEW mandate, NEW requests, NEW jobs,
               OpenRound(r, kind, mandate, Q, RoundsSuperseded, requests, jobs)
        PROVE  round'[s] = round[s]
    BY <1>2, <2>2, <2>4 DEF OpenRound, RoundsSuperseded
  <2> QED
    BY <2>1, <2>3, <2>4 DEF ReplaceBooking
<1>7. CASE Select
  <2>1. PICK r \in Round, w \in Request : SelectWinner(r, w)
    BY <1>7 DEF Select, Winners, RequestsOf
  <2>2. s # r
    BY <2>1 DEF SelectWinner, Ready, RoundInScope
  <2> QED
    BY <1>1, <2>1, <2>2 DEF SelectWinner
<1>8. CASE Advance
  <2>1. ASSUME NEW r \in Round, round[r].status = "active", AdvanceActive(r)
        PROVE  round'[s] = round[s]
    BY <1>1, <2>1 DEF AdvanceActive, DropStaleRound, GiveUp, Settle
  <2> QED
    BY <1>8, <2>1 DEF Advance, ActiveRounds, tables
<1>9. ASSUME NEW w \in Worker, WorkerStep(w) \/ Crash(w)
      PROVE  round'[s].status = round[s].status
  BY <1>1, <1>3, <1>8, <1>9, WorkerOutside DEF WorkerAdvance, Crash, tables
<1>10. ASSUME NEW k \in Attempt,
              \/ Callback(k) \/ Clock(k) \/ DeclineQuote(k)
              \/ \E verdict \in Verdict : CreateQuote(k, verdict)
       PROVE  round'[s].status = round[s].status
  BY <1>1, <1>3, <1>10, CallbackOutside, ClockOutside, ConversationOutside
<1>11. CASE SecondPasses \/ PickupPasses \/ ProviderSwitched \/ \E r \in Round : ComparisonDeadline(r)
  BY <1>1, <1>3, <1>11, ClockOutside
<1> QED
  BY <1>4, <1>5, <1>6, <1>7, <1>8, <1>9, <1>10, <1>11
  DEF Next, vars, PollAdvance, Client, Selection, BookingCancelled

\* A round that was selected, exhausted or superseded stays so: no later mandate,
\* replacement or sweep closes it again for another reason or reopens it.
THEOREM ClosedForGood == Spec => ClosedRoundIsFinal
<1>1. DispatchInv /\ RoundInv /\ [Next]_vars =>
        [\A r \in Round : round[r].status \notin {"none", "active"}
                            => round'[r].status = round[r].status]_vars
  BY RoundFinalNext
<1> QED
  BY <1>1, DispatchAlways, RoundAlways, PTL DEF Spec, ClosedRoundIsFinal
==============================================================================
