------------------------- MODULE MessageOutboxProofs -------------------------
(***************************************************************************)
(* The notification outbox, for any number of processes, messages and      *)
(* attempts: what is recorded of a message is what happened to it, and     *)
(* nobody but the holder of a claim changes the row that was claimed. At   *)
(* the end, the other worker of a server process: the disposal of evidence *)
(* (module EvidenceRetention, the instance Disposal).                      *)
(***************************************************************************)
EXTENDS MessageOutbox, Sequences, FiniteSetTheorems, TLAPS

Waits == {"idle", "next"}

\* A process has a job in hand exactly while it works on one.
InHand ==
  \A p \in Process : /\ proc[p].pc = "idle" => proc[p].todo = {}
                     /\ proc[p].pc \in Waits => proc[p].at = NoClaim
                     /\ proc[p].pc \notin Waits => proc[p].at \in Claims /\ proc[p].at.token > 0

Mine(p) == {c \in proc[p].todo \cup {proc[p].at} : c.token > 0}

\* A claim was given once: it is in one batch of one process, and no younger one
\* has been given than the row counts.
ClaimsAreOnes ==
  /\ \A p \in Process : \A c \in Mine(p) : c.token <= outbox[c.msg].attempts
  /\ \A p \in Process : /\ proc[p].at \notin proc[p].todo
                        /\ \A c \in proc[p].todo : c.token > 0
                        /\ \A c, d \in proc[p].todo : c.msg = d.msg => c = d
  /\ \A p, q \in Process : p # q => Mine(p) \cap Mine(q) = {}
  /\ \A m \in Message : outbox[m].status = "none" => outbox[m].attempts = 0

\* From its UPDATE to its commit a transaction has the row it claimed, and from
\* its row lock on the operation to its commit that one too.
TransactionHolds ==
  \A p \in Process : /\ proc[p].pc \in InTransaction => Holds(proc[p].at)
                     /\ proc[p].pc \in {"locked", "checked"} <=> lock = p

ClaimInv == TypeOK /\ InHand /\ ClaimsAreOnes /\ TransactionHolds

\* Whoever found a confirmation of the booking unprocessed will still find it so
\* when it commits.
LookedRight ==
  \A p \in Process : proc[p].pc = "checked" /\ ~ proc[p].all =>
    \E n \in SameBooking(proc[p].at.msg) :
      n # proc[p].at.msg /\ outbox[n].status \notin {"none", "processed"}

OverlookInv ==
  /\ op.booking \in {0, op.last} /\ (op.status = "booking_confirmed" => op.booking # 0)
  /\ \A m \in Message : m.booking > op.last => outbox[m].status = "none"
  /\ LookedRight
  /\ op.status = "booking_confirmed" =>
       \E m \in Confirmations(op.booking) : outbox[m].status # "processed"

\* A job whose delivery is being recorded was delivered.
Busy == {"preview", "complete"} \cup InTransaction

DeliveryInv ==
  /\ ProcessedWasDelivered
  /\ \A p \in Process : proc[p].pc \in Busy =>
       LET m == proc[p].at.msg IN
       /\ Mode = "live" => sent[m] > 0
       /\ Mode = "preview" /\ Channel = "email" /\ proc[p].pc # "preview" => m \in previews

\* Who may still send a message, and whether the present attempt at it may be the
\* one that needs no mishap.
Senders(m) == {p \in Process : \E c \in proc[p].todo : c.msg = m}
Current(m) == [msg |-> m, token |-> outbox[m].attempts]
Granted(m) ==
  \/ outbox[m].status \in {"processed", "failed"}
  \/ /\ outbox[m].status = "processing" /\ outbox[m].lease = "held"
     /\ \E p \in Process : \/ Current(m) \in proc[p].todo
                           \/ Current(m) = proc[p].at /\ proc[p].pc \in Busy
Grant(m) == IF Granted(m) THEN 1 ELSE 0

CountInv ==
  \A m \in Message : /\ IsFiniteSet(Senders(m))
                     /\ sent[m] + Cardinality(Senders(m)) <= mishaps[m] + Grant(m)

------------------------------------------------------------------------------
(* What a step does to the process that makes it                             *)

LEMMA Rows ==
  ASSUME TypeOK, NEW p \in Process
  PROVE  /\ proc[p] \in ProcessRow /\ proc[p].todo \subseteq Claims /\ proc[p].at \in Claims \cup {NoClaim}
         /\ proc[p].retry \in BOOLEAN /\ proc[p].all \in BOOLEAN
         /\ proc \in [Process -> ProcessRow] /\ IdleProcess \in ProcessRow
BY DEF TypeOK, ProcessRow, IdleProcess

Others(p) == \A q \in Process : q # p => proc'[q] = proc[q]

Steps == {"idle", "next", "preview", "complete", "fail"} \cup InTransaction

\* One field of a process's row is set.
LEMMA SetPc ==
  ASSUME NEW r \in ProcessRow, NEW x \in Steps
  PROVE  LET e == [r EXCEPT !.pc = x] IN
         e \in ProcessRow /\ e.pc = x /\ e.todo = r.todo /\ e.at = r.at /\ e.retry = r.retry /\ e.all = r.all
<1> DEFINE e == [r EXCEPT !.pc = x]
<1>1. e \in ProcessRow
  BY DEF ProcessRow, Steps
<1>2. e.pc = x
  BY DEF ProcessRow
<1>3. e.todo = r.todo
  BY DEF ProcessRow
<1>4. e.at = r.at
  BY DEF ProcessRow
<1>5. e.retry = r.retry
  BY DEF ProcessRow
<1>6. e.all = r.all
  BY DEF ProcessRow
<1> QED
  BY <1>1, <1>2, <1>3, <1>4, <1>5, <1>6

LEMMA SetTodo ==
  ASSUME NEW r \in ProcessRow, NEW x \in SUBSET Claims
  PROVE  LET e == [r EXCEPT !.todo = x] IN
         e \in ProcessRow /\ e.pc = r.pc /\ e.todo = x /\ e.at = r.at /\ e.retry = r.retry /\ e.all = r.all
<1> DEFINE e == [r EXCEPT !.todo = x]
<1>1. e \in ProcessRow
  BY DEF ProcessRow
<1>2. e.pc = r.pc
  BY DEF ProcessRow
<1>3. e.todo = x
  BY DEF ProcessRow
<1>4. e.at = r.at
  BY DEF ProcessRow
<1>5. e.retry = r.retry
  BY DEF ProcessRow
<1>6. e.all = r.all
  BY DEF ProcessRow
<1> QED
  BY <1>1, <1>2, <1>3, <1>4, <1>5, <1>6

LEMMA SetAt ==
  ASSUME NEW r \in ProcessRow, NEW x \in Claims
  PROVE  LET e == [r EXCEPT !.at = x] IN
         e \in ProcessRow /\ e.pc = r.pc /\ e.todo = r.todo /\ e.at = x /\ e.retry = r.retry /\ e.all = r.all
<1> DEFINE e == [r EXCEPT !.at = x]
<1>1. e \in ProcessRow
  BY DEF ProcessRow
<1>2. e.pc = r.pc
  BY DEF ProcessRow
<1>3. e.todo = r.todo
  BY DEF ProcessRow
<1>4. e.at = x
  BY DEF ProcessRow
<1>5. e.retry = r.retry
  BY DEF ProcessRow
<1>6. e.all = r.all
  BY DEF ProcessRow
<1> QED
  BY <1>1, <1>2, <1>3, <1>4, <1>5, <1>6

LEMMA SetRetry ==
  ASSUME NEW r \in ProcessRow, NEW x \in BOOLEAN
  PROVE  LET e == [r EXCEPT !.retry = x] IN
         e \in ProcessRow /\ e.pc = r.pc /\ e.todo = r.todo /\ e.at = r.at /\ e.retry = x /\ e.all = r.all
<1> DEFINE e == [r EXCEPT !.retry = x]
<1>1. e \in ProcessRow
  BY DEF ProcessRow
<1>2. e.pc = r.pc
  BY DEF ProcessRow
<1>3. e.todo = r.todo
  BY DEF ProcessRow
<1>4. e.at = r.at
  BY DEF ProcessRow
<1>5. e.retry = x
  BY DEF ProcessRow
<1>6. e.all = r.all
  BY DEF ProcessRow
<1> QED
  BY <1>1, <1>2, <1>3, <1>4, <1>5, <1>6

LEMMA SetAll ==
  ASSUME NEW r \in ProcessRow, NEW x \in BOOLEAN
  PROVE  LET e == [r EXCEPT !.all = x] IN
         e \in ProcessRow /\ e.pc = r.pc /\ e.todo = r.todo /\ e.at = r.at /\ e.retry = r.retry /\ e.all = x
<1> DEFINE e == [r EXCEPT !.all = x]
<1>1. e \in ProcessRow
  BY DEF ProcessRow
<1>2. e.pc = r.pc
  BY DEF ProcessRow
<1>3. e.todo = r.todo
  BY DEF ProcessRow
<1>4. e.at = r.at
  BY DEF ProcessRow
<1>5. e.retry = r.retry
  BY DEF ProcessRow
<1>6. e.all = x
  BY DEF ProcessRow
<1> QED
  BY <1>1, <1>2, <1>3, <1>4, <1>5, <1>6

LEMMA TakeFields ==
  ASSUME TypeOK, NEW p \in Process, NEW c \in Claims, NEW again \in BOOLEAN,
         NEW step \in {"preview", "complete", "fail"}, Take(p, c, step, again)
  PROVE  /\ proc' \in [Process -> ProcessRow] /\ Others(p)
         /\ proc'[p].pc = step /\ proc'[p].at = c /\ proc'[p].todo = proc[p].todo \ {c}
         /\ proc'[p].retry = again /\ proc'[p].all = proc[p].all
<1>0. /\ proc[p] \in ProcessRow /\ proc[p].todo \subseteq Claims /\ proc \in [Process -> ProcessRow]
      /\ step \in Steps
  BY Rows DEF Steps
<1>1. PICK r1 : r1 = [proc[p] EXCEPT !.pc = step]
  OBVIOUS
<1>2. r1 \in ProcessRow /\ r1.pc = step /\ r1.todo = proc[p].todo /\ r1.all = proc[p].all
  BY <1>0, <1>1, SetPc
<1>3. PICK r2 : r2 = [r1 EXCEPT !.at = c]
  OBVIOUS
<1>4. r2 \in ProcessRow /\ r2.pc = step /\ r2.todo = proc[p].todo /\ r2.at = c /\ r2.all = proc[p].all
  BY <1>2, <1>3, SetAt
<1>5. PICK r3 : r3 = [r2 EXCEPT !.todo = proc[p].todo \ {c}]
  OBVIOUS
<1>6. /\ r3 \in ProcessRow /\ r3.pc = step /\ r3.todo = proc[p].todo \ {c} /\ r3.at = c
      /\ r3.all = proc[p].all
  <2>1. proc[p].todo \ {c} \in SUBSET Claims
    BY <1>0
  <2> QED
    BY <1>4, <1>5, <2>1, SetTodo
<1>7. PICK r4 : r4 = [r3 EXCEPT !.retry = again]
  OBVIOUS
<1>8. /\ r4 \in ProcessRow /\ r4.pc = step /\ r4.todo = proc[p].todo \ {c} /\ r4.at = c
      /\ r4.retry = again /\ r4.all = proc[p].all
  BY <1>6, <1>7, SetRetry
<1>9. proc' = [proc EXCEPT ![p] = r4]
  BY <1>0, <1>1, <1>3, <1>5, <1>7 DEF Take
<1> QED
  BY <1>0, <1>8, <1>9 DEF Others

LEMMA GoToFields ==
  ASSUME TypeOK, NEW p \in Process, NEW again \in BOOLEAN,
         NEW step \in {"complete", "fail", "marked", "locked"}, GoTo(p, step, again)
  PROVE  /\ proc' \in [Process -> ProcessRow] /\ Others(p)
         /\ proc'[p].pc = step /\ proc'[p].at = proc[p].at /\ proc'[p].todo = proc[p].todo
         /\ proc'[p].retry = again /\ proc'[p].all = proc[p].all
<1>0. proc[p] \in ProcessRow /\ proc \in [Process -> ProcessRow] /\ step \in Steps
  BY Rows DEF Steps, InTransaction
<1>1. PICK r1 : r1 = [proc[p] EXCEPT !.pc = step]
  OBVIOUS
<1>2. r1 \in ProcessRow /\ r1.pc = step /\ r1.todo = proc[p].todo /\ r1.at = proc[p].at /\ r1.all = proc[p].all
  BY <1>0, <1>1, SetPc
<1>3. PICK r2 : r2 = [r1 EXCEPT !.retry = again]
  OBVIOUS
<1>4. /\ r2 \in ProcessRow /\ r2.pc = step /\ r2.todo = proc[p].todo /\ r2.at = proc[p].at
      /\ r2.retry = again /\ r2.all = proc[p].all
  BY <1>2, <1>3, SetRetry
<1>5. proc' = [proc EXCEPT ![p] = r2]
  BY <1>0, <1>1, <1>3 DEF GoTo
<1> QED
  BY <1>0, <1>4, <1>5 DEF Others

LEMMA LookFields ==
  ASSUME TypeOK, NEW p \in Process, LookAtOthers(p)
  PROVE  LET m == proc[p].at.msg IN
         /\ proc' \in [Process -> ProcessRow] /\ Others(p)
         /\ proc'[p].pc = "checked" /\ proc'[p].at = proc[p].at /\ proc'[p].todo = proc[p].todo
         /\ proc'[p].all = (\A n \in SameBooking(m) : n = m \/ outbox[n].status \in {"none", "processed"})
<1> DEFINE m == proc[p].at.msg
           seen == \A n \in SameBooking(m) : n = m \/ outbox[n].status \in {"none", "processed"}
<1>1. /\ proc[p] \in ProcessRow /\ proc \in [Process -> ProcessRow]
  BY Rows
<1>2. seen \in BOOLEAN /\ proc' = [proc EXCEPT ![p].pc = "checked", ![p].all = seen]
  BY DEF LookAtOthers
<1> HIDE DEF seen
<1>3. PICK v \in BOOLEAN : v = seen
  BY <1>2
<1>4. PICK r1 : r1 = [proc[p] EXCEPT !.pc = "checked"]
  OBVIOUS
<1>5. r1 \in ProcessRow /\ r1.pc = "checked" /\ r1.todo = proc[p].todo /\ r1.at = proc[p].at
  BY <1>1, <1>4, SetPc DEF Steps, InTransaction
<1>6. PICK r2 : r2 = [r1 EXCEPT !.all = v]
  OBVIOUS
<1>7. r2 \in ProcessRow /\ r2.pc = "checked" /\ r2.todo = proc[p].todo /\ r2.at = proc[p].at /\ r2.all = v
  BY <1>5, <1>6, SetAll
<1>8. proc' = [proc EXCEPT ![p] = r2]
  BY <1>1, <1>2, <1>3, <1>4, <1>6
<1>9. /\ proc' \in [Process -> ProcessRow] /\ Others(p) /\ proc'[p] = r2
  BY <1>1, <1>7, <1>8 DEF Others
<1>10. proc'[p].all = seen
  BY <1>3, <1>7, <1>9
<1> QED
  BY <1>7, <1>9, <1>10 DEF seen

LEMMA ProceedFields ==
  ASSUME TypeOK, NEW p \in Process, Proceed(p)
  PROVE  /\ proc' \in [Process -> ProcessRow] /\ Others(p)
         /\ proc'[p].pc \in Waits /\ proc'[p].at = NoClaim /\ proc'[p].todo = proc[p].todo
         /\ (proc'[p].pc = "idle" => proc'[p].todo = {})
<1>1. /\ proc[p] \in ProcessRow /\ proc[p].todo \subseteq Claims
      /\ proc \in [Process -> ProcessRow] /\ IdleProcess \in ProcessRow
  BY Rows
<1>2. CASE proc[p].todo = {}
  <2>1. proc' = [proc EXCEPT ![p] = IdleProcess]
    BY <1>2 DEF Proceed
  <2> QED
    BY <1>1, <1>2, <2>1 DEF Others, Waits, IdleProcess
<1>3. CASE proc[p].todo # {}
  <2>1. PICK r1 : r1 = [IdleProcess EXCEPT !.pc = "next"]
    OBVIOUS
  <2>2. r1 \in ProcessRow /\ r1.pc = "next" /\ r1.at = IdleProcess.at
    BY <1>1, <2>1, SetPc DEF Steps
  <2>3. PICK r2 : r2 = [r1 EXCEPT !.todo = proc[p].todo]
    OBVIOUS
  <2>4. r2 \in ProcessRow /\ r2.pc = "next" /\ r2.at = IdleProcess.at /\ r2.todo = proc[p].todo
    BY <1>1, <2>2, <2>3, SetTodo
  <2>5. proc' = [proc EXCEPT ![p] = r2]
    BY <1>3, <2>1, <2>3 DEF Proceed
  <2>6. IdleProcess.at = NoClaim
    BY DEF IdleProcess
  <2> QED
    BY <1>1, <2>4, <2>5, <2>6 DEF Others, Waits
<1> QED
  BY <1>2, <1>3

LEMMA CrashFields ==
  ASSUME TypeOK, NEW p \in Process, Crash(p)
  PROVE  proc' \in [Process -> ProcessRow] /\ Others(p) /\ proc'[p] = IdleProcess
BY Rows DEF Crash, Others

LEMMA ClaimFields ==
  ASSUME TypeOK, NEW p \in Process, NEW M, Claim(p, M)
  PROVE  /\ M \subseteq Message /\ M \subseteq Claimable
         /\ outbox' \in [Message -> OutboxRow]
         /\ \A m \in Message : m \notin M => outbox'[m] = outbox[m]
         /\ \A m \in M : /\ outbox'[m].status = "processing" /\ outbox'[m].lease = "held"
                         /\ outbox'[m].attempts = outbox[m].attempts + 1
                         /\ outbox[m].attempts \in Nat
         /\ proc' \in [Process -> ProcessRow] /\ Others(p)
         /\ proc'[p].pc = "next" /\ proc'[p].at = proc[p].at
         /\ proc'[p].todo = {[msg |-> m, token |-> outbox[m].attempts + 1] : m \in M}
<1>1. /\ M \subseteq Message /\ M \subseteq Claimable /\ proc[p] \in ProcessRow
      /\ proc \in [Process -> ProcessRow] /\ outbox \in [Message -> OutboxRow]
  BY Rows DEF Claim, Claimable, TypeOK
<1>2. \A m \in Message : outbox[m] \in OutboxRow /\ outbox[m].attempts \in Nat
  BY <1>1 DEF OutboxRow
<1>3. ASSUME NEW m \in Message
      PROVE  /\ ClaimedRow(m) \in OutboxRow /\ ClaimedRow(m).status = "processing"
             /\ ClaimedRow(m).lease = "held" /\ ClaimedRow(m).attempts = outbox[m].attempts + 1
  <2> DEFINE e == ClaimedRow(m)
  <2>0. outbox[m] \in OutboxRow /\ outbox[m].attempts + 1 \in Nat
    BY <1>2
  <2>1. e \in OutboxRow
    BY <2>0 DEF ClaimedRow, OutboxRow
  <2>2. e.status = "processing"
    BY <2>0 DEF ClaimedRow, OutboxRow
  <2>3. e.lease = "held"
    BY <2>0 DEF ClaimedRow, OutboxRow
  <2>4. e.attempts = outbox[m].attempts + 1
    BY <2>0 DEF ClaimedRow, OutboxRow
  <2> QED
    BY <2>1, <2>2, <2>3, <2>4
<1>4. outbox' = [m \in Message |-> IF m \in M THEN ClaimedRow(m) ELSE outbox[m]]
  BY DEF Claim
<1>5. /\ outbox' \in [Message -> OutboxRow]
      /\ \A m \in Message : m \notin M => outbox'[m] = outbox[m]
      /\ \A m \in M : /\ outbox'[m].status = "processing" /\ outbox'[m].lease = "held"
                      /\ outbox'[m].attempts = outbox[m].attempts + 1
  BY <1>1, <1>2, <1>3, <1>4
<1> DEFINE batch == {[msg |-> m, token |-> outbox[m].attempts + 1] : m \in M}
<1>6. batch \subseteq Claims
  BY <1>1, <1>2 DEF Claims
<1>7. {[msg |-> m, token |-> outbox'[m].attempts] : m \in M} = batch
  BY <1>5
<1>8. proc' = [proc EXCEPT ![p].pc = "next", ![p].todo = batch]
  BY <1>7 DEF Claim
<1> HIDE DEF batch
<1>9. PICK r1 : r1 = [proc[p] EXCEPT !.pc = "next"]
  OBVIOUS
<1>10. r1 \in ProcessRow /\ r1.pc = "next" /\ r1.at = proc[p].at
  BY <1>1, <1>9, SetPc DEF Steps
<1>11. PICK r2 : r2 = [r1 EXCEPT !.todo = batch]
  OBVIOUS
<1>12. r2 \in ProcessRow /\ r2.pc = "next" /\ r2.at = proc[p].at /\ r2.todo = batch
  BY <1>6, <1>10, <1>11, SetTodo
<1>13. proc' = [proc EXCEPT ![p] = r2]
  BY <1>1, <1>8, <1>9, <1>11
<1>14. proc' \in [Process -> ProcessRow] /\ Others(p) /\ proc'[p] = r2
  BY <1>1, <1>12, <1>13 DEF Others
<1> QED
  BY <1>1, <1>2, <1>5, <1>12, <1>14 DEF batch

------------------------------------------------------------------------------
(* What a step does to the rows                                              *)

LEMMA MessageRows ==
  ASSUME TypeOK, NEW m \in Message
  PROVE  /\ outbox[m] \in OutboxRow /\ outbox \in [Message -> OutboxRow]
         /\ outbox[m].status \in {"none", "pending", "processing", "processed", "failed"}
         /\ outbox[m].lease \in {"none", "held", "expired"} /\ outbox[m].attempts \in Nat
         /\ sent[m] \in Nat /\ mishaps[m] \in Nat
BY DEF TypeOK, OutboxRow

\* A row is written over, with its attempts kept; the others stay.
LEMMA RowSet ==
  ASSUME TypeOK, NEW m \in Message, NEW e \in OutboxRow, outbox' = [outbox EXCEPT ![m] = e]
  PROVE  /\ outbox' \in [Message -> OutboxRow] /\ outbox'[m] = e
         /\ \A n \in Message : n # m => outbox'[n] = outbox[n]
BY DEF TypeOK

LEMMA Ended ==
  ASSUME TypeOK, NEW m \in Message, NEW x \in {"pending", "processed", "failed"}
  PROVE  LET e == [[outbox[m] EXCEPT !.status = x] EXCEPT !.lease = "none"] IN
         e \in OutboxRow /\ e.status = x /\ e.lease = "none" /\ e.attempts = outbox[m].attempts
<1> DEFINE d == [outbox[m] EXCEPT !.status = x]
           e == [d EXCEPT !.lease = "none"]
<1>0. outbox[m] \in OutboxRow
  BY MessageRows
<1>1. d \in OutboxRow
  BY <1>0 DEF OutboxRow
<1>2. d.status = x
  BY <1>0 DEF OutboxRow
<1>3. d.attempts = outbox[m].attempts
  BY <1>0 DEF OutboxRow
<1> HIDE DEF d
<1>4. e \in OutboxRow
  BY <1>1 DEF OutboxRow
<1>5. e.status = x
  BY <1>1, <1>2 DEF OutboxRow
<1>6. e.attempts = outbox[m].attempts
  BY <1>1, <1>3 DEF OutboxRow
<1>7. e.lease = "none"
  BY <1>1 DEF OutboxRow
<1> QED
  BY <1>4, <1>5, <1>6, <1>7 DEF d

LEMMA FailedFields ==
  ASSUME TypeOK, NEW m \in Message, NEW again \in BOOLEAN
  PROVE  /\ FailedRow(m, again) \in OutboxRow /\ FailedRow(m, again).attempts = outbox[m].attempts
         /\ FailedRow(m, again).status \in {"pending", "failed"}
<1>1. CASE again /\ outbox[m].attempts < RetryLimit
  <2> DEFINE d == [[outbox[m] EXCEPT !.status = "pending"] EXCEPT !.lease = "none"]
             e == [d EXCEPT !.due = FALSE]
  <2>1. d \in OutboxRow /\ d.status = "pending" /\ d.attempts = outbox[m].attempts
    BY Ended
  <2>2. FailedRow(m, again) = e
    BY <1>1 DEF FailedRow
  <2> HIDE DEF d
  <2>3. e \in OutboxRow
    BY <2>1 DEF OutboxRow
  <2>4. e.status = "pending"
    BY <2>1 DEF OutboxRow
  <2>5. e.attempts = outbox[m].attempts
    BY <2>1 DEF OutboxRow
  <2> HIDE DEF e
  <2> QED
    BY <2>2, <2>3, <2>4, <2>5
<1>2. CASE ~ (again /\ outbox[m].attempts < RetryLimit)
  <2>1. FailedRow(m, again) = [[outbox[m] EXCEPT !.status = "failed"] EXCEPT !.lease = "none"]
    BY <1>2 DEF FailedRow
  <2> QED
    BY <2>1, Ended
<1> QED
  BY <1>1, <1>2

LEMMA QueuedRows ==
  ASSUME TypeOK, NEW M, outbox' = Enqueued(M)
  PROVE  /\ outbox' \in [Message -> OutboxRow]
         /\ \A m \in Message :
              \/ outbox'[m] = outbox[m] /\ (m \notin M \/ outbox[m].status # "none")
              \/ /\ m \in M /\ outbox[m].status = "none"
                 /\ outbox'[m].status = "pending" /\ outbox'[m].attempts = 0
<1> DEFINE d == [NoRow EXCEPT !.status = "pending"]
           e == [d EXCEPT !.due = TRUE]
<1>0. NoRow \in OutboxRow /\ NoRow.attempts = 0
  BY DEF NoRow, OutboxRow
<1>1. d \in OutboxRow
  BY <1>0 DEF OutboxRow
<1>2. d.status = "pending"
  BY <1>0 DEF OutboxRow
<1>9. d.attempts = 0
  BY <1>0 DEF OutboxRow
<1> HIDE DEF d
<1>6. e \in OutboxRow
  BY <1>1 DEF OutboxRow
<1>7. e.status = "pending"
  BY <1>1, <1>2 DEF OutboxRow
<1>8. e.attempts = 0
  BY <1>1, <1>9 DEF OutboxRow
<1>3. e \in OutboxRow /\ e.status = "pending" /\ e.attempts = 0
  BY <1>6, <1>7, <1>8
<1> USE DEF d
<1>4. outbox' = [m \in Message |-> IF m \in M /\ outbox[m].status = "none" THEN e ELSE outbox[m]]
  BY DEF Enqueued
<1> HIDE DEF d, e
<1>5. \A m \in Message : outbox[m] \in OutboxRow
  BY DEF TypeOK
<1> QED
  BY <1>3, <1>4, <1>5

\* A lease runs out, or a pause ends.
LEMMA TimeRows ==
  ASSUME TypeOK, NEW m \in Message, ExpireLease(m) \/ PauseEnds(m)
  PROVE  /\ outbox' \in [Message -> OutboxRow] /\ outbox'[m].status = outbox[m].status
         /\ outbox'[m].attempts = outbox[m].attempts
         /\ \A n \in Message : n # m => outbox'[n] = outbox[n]
         /\ ExpireLease(m) => outbox'[m].lease = "expired"
<1>0. outbox[m] \in OutboxRow
  BY MessageRows
<1>1. CASE ExpireLease(m)
  <2> DEFINE e == [outbox[m] EXCEPT !.lease = "expired"]
  <2>1. e \in OutboxRow
    BY <1>0 DEF OutboxRow
  <2>2. e.status = outbox[m].status
    BY <1>0 DEF OutboxRow
  <2>3. e.attempts = outbox[m].attempts
    BY <1>0 DEF OutboxRow
  <2>4. e.lease = "expired"
    BY <1>0 DEF OutboxRow
  <2>5. outbox' = [outbox EXCEPT ![m] = e]
    BY <1>1 DEF ExpireLease
  <2> HIDE DEF e
  <2> QED
    BY <2>1, <2>2, <2>3, <2>4, <2>5, RowSet
<1>2. CASE PauseEnds(m)
  <2> DEFINE e == [outbox[m] EXCEPT !.due = TRUE]
  <2>1. e \in OutboxRow
    BY <1>0 DEF OutboxRow
  <2>2. e.status = outbox[m].status
    BY <1>0 DEF OutboxRow
  <2>3. e.attempts = outbox[m].attempts
    BY <1>0 DEF OutboxRow
  <2>4. outbox' = [outbox EXCEPT ![m] = e]
    BY <1>2 DEF PauseEnds
  <2>5. ~ ExpireLease(m)
    BY <1>2 DEF PauseEnds, ExpireLease
  <2> HIDE DEF e
  <2> QED
    BY <2>1, <2>2, <2>3, <2>4, <2>5, RowSet
<1> QED
  BY <1>1, <1>2

------------------------------------------------------------------------------
(* Every state is well-typed                                                 *)

LEMMA AtHand ==
  ASSUME TypeOK, InHand, NEW p \in Process, proc[p].pc \notin Waits
  PROVE  /\ proc[p].at \in Claims /\ proc[p].at.msg \in Message /\ proc[p].at.token \in Nat
         /\ proc[p].at.token > 0
BY DEF InHand, Claims

LEMMA MishapType ==
  ASSUME TypeOK, NEW m \in Message, Mishap(m)
  PROVE  /\ mishaps' \in [Message -> Nat] /\ mishaps'[m] = mishaps[m] + 1
         /\ \A n \in Message : n # m => mishaps'[n] = mishaps[n]
BY DEF TypeOK, Mishap

OpRows == [status : OpStatus, booking : 0 .. MaxBookings, last : 0 .. MaxBookings]

LEMMA OpSet ==
  ASSUME TypeOK, NEW x \in OpStatus
  PROVE  /\ LET e == [op EXCEPT !.status = x] IN
              e \in OpRows /\ e.status = x /\ e.booking = op.booking /\ e.last = op.last
         /\ LET e == [[op EXCEPT !.status = x] EXCEPT !.booking = 0] IN
              e \in OpRows /\ e.status = x /\ e.booking = 0 /\ e.last = op.last
<1> DEFINE d == [op EXCEPT !.status = x]
           e == [d EXCEPT !.booking = 0]
<1>0. op \in OpRows /\ 0 \in 0 .. MaxBookings
  BY OutboxAssumption DEF TypeOK, OpRows
<1>1. d \in OpRows
  BY <1>0 DEF OpRows
<1>2. d.status = x
  BY <1>0 DEF OpRows
<1>3. d.booking = op.booking
  BY <1>0 DEF OpRows
<1>4. d.last = op.last
  BY <1>0 DEF OpRows
<1> HIDE DEF d
<1>5. e \in OpRows
  BY <1>0, <1>1 DEF OpRows
<1>6. e.status = x
  BY <1>1, <1>2 DEF OpRows
<1>7. e.booking = 0
  BY <1>1 DEF OpRows
<1>8. e.last = op.last
  BY <1>1, <1>4 DEF OpRows
<1> QED
  BY <1>1, <1>2, <1>3, <1>4, <1>5, <1>6, <1>7, <1>8 DEF d

\* The transactions that queue messages touch the operation and the rows only.
LEMMA QueueType ==
  ASSUME TypeOK,
         (\E b \in Booking : ConfirmBooking(b)) \/ ProviderCancels \/ ClientCancels
           \/ QueueEmails
  PROVE  op' \in OpRows /\ outbox' \in [Message -> OutboxRow] /\ lock = None
         /\ UNCHANGED <<previews, proc, lock, sent, mishaps>>
<1>1. ASSUME NEW b \in Booking, ConfirmBooking(b) PROVE op' \in OpRows /\ outbox' \in [Message -> OutboxRow]
  <2>1. /\ op' = [status |-> "booking_confirmed", booking |-> b, last |-> b]
        /\ (outbox' = Enqueued(Confirmations(b)) \/ outbox' = outbox)
    BY <1>1 DEF ConfirmBooking
  <2>2. b \in 0 .. MaxBookings
    BY OutboxAssumption DEF Booking
  <2> QED
    BY <2>1, <2>2, QueuedRows DEF TypeOK, OpRows, OpStatus
<1>2. ASSUME ProviderCancels PROVE op' \in OpRows /\ outbox' \in [Message -> OutboxRow]
  <2>1. op' = [[op EXCEPT !.status = "sourcing"] EXCEPT !.booking = 0] /\ outbox' = outbox
    BY <1>2 DEF ProviderCancels
  <2> QED
    BY <2>1, OpSet DEF TypeOK, OpStatus
<1>3. ASSUME ClientCancels PROVE op' \in OpRows /\ outbox' \in [Message -> OutboxRow]
  <2>1. op' = [[op EXCEPT !.status = "cancelled"] EXCEPT !.booking = 0]
    BY <1>3 DEF ClientCancels
  <2>2. outbox' = Enqueued(CancellationNotices) \/ outbox' = outbox
    BY <1>3 DEF ClientCancels
  <2> QED
    BY <2>1, <2>2, OpSet, QueuedRows DEF TypeOK, OpStatus
<1>4. ASSUME QueueEmails PROVE op' \in OpRows /\ outbox' \in [Message -> OutboxRow]
  <2>1. op' = op /\ outbox' = Enqueued(Confirmations(op.booking))
    BY <1>4 DEF QueueEmails
  <2> QED
    BY <2>1, QueuedRows DEF TypeOK, OpRows
<1> QED
  BY <1>1, <1>2, <1>3, <1>4 DEF ConfirmBooking, ProviderCancels, ClientCancels, QueueEmails

\* A process takes a job of its batch and hands it to the gateway, or drops it.
LEMMA DeliverType ==
  ASSUME TypeOK, NEW p \in Process, NEW c \in proc[p].todo, Delivered(p, c) \/ AnswerLost(p, c) \/ Refused(p, c)
  PROVE  /\ c \in Claims /\ c.msg \in Message /\ proc[p].pc = "next"
         /\ proc' \in [Process -> ProcessRow] /\ Others(p)
         /\ proc'[p].at = c /\ proc'[p].todo = proc[p].todo \ {c}
         /\ proc'[p].pc \in {"preview", "complete", "fail"}
         /\ UNCHANGED <<op, outbox, previews, lock>>
         /\ sent' \in [Message -> Nat] /\ mishaps' \in [Message -> Nat]
         /\ \A n \in Message : n # c.msg => sent'[n] = sent[n] /\ mishaps'[n] = mishaps[n]
         /\ \/ /\ proc'[p].pc = AfterDelivery /\ mishaps' = mishaps
               /\ IF Mode = "live" THEN sent'[c.msg] = sent[c.msg] + 1 ELSE sent' = sent
            \/ proc'[p].pc = "fail" /\ sent'[c.msg] = sent[c.msg] + 1 /\ mishaps'[c.msg] = mishaps[c.msg] + 1
            \/ proc'[p].pc = "fail" /\ sent' = sent /\ mishaps' = mishaps
<1>0. c \in Claims /\ c.msg \in Message /\ sent \in [Message -> Nat] /\ mishaps \in [Message -> Nat]
  BY Rows DEF Claims, TypeOK
<1>1. CASE Delivered(p, c)
  <2>1. AfterDelivery \in {"preview", "complete"}
    BY DEF AfterDelivery
  <2>2. /\ proc' \in [Process -> ProcessRow] /\ Others(p) /\ proc'[p].pc = AfterDelivery
        /\ proc'[p].at = c /\ proc'[p].todo = proc[p].todo \ {c}
    <3>1. CASE AfterDelivery = "preview"
      <4>1. Take(p, c, "preview", FALSE)
        BY <1>1, <3>1 DEF Delivered
      <4> QED
        BY <1>0, <3>1, <4>1, TakeFields
    <3>2. CASE AfterDelivery = "complete"
      <4>1. Take(p, c, "complete", FALSE)
        BY <1>1, <3>2 DEF Delivered
      <4> QED
        BY <1>0, <3>2, <4>1, TakeFields
    <3> QED
      BY <2>1, <3>1, <3>2
  <2>3. /\ sent' = IF Mode = "live" THEN [sent EXCEPT ![c.msg] = @ + 1] ELSE sent
        /\ UNCHANGED <<op, outbox, previews, lock, mishaps>> /\ proc[p].pc = "next"
    BY <1>1 DEF Delivered
  <2> QED
    BY <1>0, <2>1, <2>2, <2>3
<1>2. CASE AnswerLost(p, c)
  <2>1. Take(p, c, "fail", TRUE) /\ Mishap(c.msg) /\ sent' = [sent EXCEPT ![c.msg] = @ + 1]
    BY <1>2 DEF AnswerLost
  <2>2. /\ proc' \in [Process -> ProcessRow] /\ Others(p) /\ proc'[p].pc = "fail"
        /\ proc'[p].at = c /\ proc'[p].todo = proc[p].todo \ {c}
    BY <1>0, <2>1, TakeFields
  <2>3. UNCHANGED <<op, outbox, previews, lock>> /\ proc[p].pc = "next"
    BY <1>2 DEF AnswerLost
  <2> QED
    BY <1>0, <2>1, <2>2, <2>3, MishapType
<1>3. CASE Refused(p, c)
  <2>1. PICK again \in BOOLEAN : Take(p, c, "fail", again)
    <3>1. \A x \in Errors : Retryable(x) \in BOOLEAN
      BY DEF Retryable, SmsRetryable, SmtpRetryable
    <3> QED
      BY <1>3, <3>1 DEF Refused
  <2>2. /\ proc' \in [Process -> ProcessRow] /\ Others(p) /\ proc'[p].pc = "fail"
        /\ proc'[p].at = c /\ proc'[p].todo = proc[p].todo \ {c}
    BY <1>0, <2>1, TakeFields
  <2>3. UNCHANGED <<op, outbox, previews, lock, sent, mishaps>> /\ proc[p].pc = "next"
    BY <1>3 DEF Refused
  <2> QED
    BY <1>0, <2>2, <2>3
<1> QED
  BY <1>1, <1>2, <1>3

\* What a process records changes its own step, and at its end the row.
LEMMA MoveType ==
  ASSUME TypeOK, InHand, NEW p \in Process,
         SavePreview(p) \/ MarkProcessed(p) \/ LockOperation(p) \/ LookAtOthers(p) \/ CompletionLost(p)
  PROVE  /\ proc[p].pc \notin Waits /\ proc' \in [Process -> ProcessRow] /\ Others(p)
         /\ proc'[p].at = proc[p].at /\ proc'[p].todo = proc[p].todo
         /\ UNCHANGED <<op, outbox, sent>> /\ mishaps' \in [Message -> Nat]
         /\ \/ proc'[p].pc = "fail" /\ UNCHANGED previews /\ proc[p].pc \notin {"locked", "checked"}
               /\ ((mishaps' = mishaps /\ ~ Holds(proc[p].at)) \/ Mishap(proc[p].at.msg))
            \/ /\ proc[p].pc = "preview" /\ proc'[p].pc = "complete" /\ mishaps' = mishaps
               /\ previews' = previews \cup {proc[p].at.msg}
            \/ /\ proc[p].pc = "complete" /\ proc'[p].pc = "marked" /\ UNCHANGED <<previews, mishaps>>
               /\ Holds(proc[p].at)
            \/ LockOperation(p) /\ proc'[p].pc = "locked" /\ UNCHANGED <<previews, mishaps>>
            \/ LookAtOthers(p) /\ proc'[p].pc = "checked" /\ UNCHANGED <<previews, mishaps>>
         /\ lock' = IF LockOperation(p) THEN p ELSE lock
<1>0. mishaps \in [Message -> Nat]
  BY DEF TypeOK
<1>1. CASE SavePreview(p)
  <2>1. CASE Holds(proc[p].at)
    <3>1. GoTo(p, "complete", FALSE) /\ previews' = previews \cup {proc[p].at.msg} /\ proc[p].pc = "preview"
          /\ UNCHANGED <<op, outbox, lock, sent, mishaps>>
      BY <1>1, <2>1 DEF SavePreview
    <3>2. ~ LockOperation(p)
      BY <3>1 DEF LockOperation
    <3> QED
      BY <1>0, <3>1, <3>2, GoToFields DEF Waits
  <2>2. CASE ~ Holds(proc[p].at)
    <3>1. GoTo(p, "fail", TRUE) /\ proc[p].pc = "preview"
          /\ UNCHANGED <<op, outbox, previews, lock, sent, mishaps>>
      BY <1>1, <2>2 DEF SavePreview
    <3>2. ~ LockOperation(p)
      BY <3>1 DEF LockOperation
    <3> QED
      BY <1>0, <2>2, <3>1, <3>2, GoToFields DEF Waits
  <2> QED
    BY <2>1, <2>2
<1>2. CASE MarkProcessed(p)
  <2>0. proc[p].pc = "complete" /\ UNCHANGED <<op, outbox, previews, lock, sent, mishaps>> /\ ~ LockOperation(p)
    BY <1>2 DEF MarkProcessed, LockOperation
  <2>1. CASE Holds(proc[p].at)
    <3>1. GoTo(p, "marked", FALSE)
      BY <1>2, <2>1 DEF MarkProcessed
    <3> QED
      BY <1>0, <2>0, <2>1, <3>1, GoToFields DEF Waits
  <2>2. CASE ~ Holds(proc[p].at)
    <3>1. GoTo(p, "fail", TRUE)
      BY <1>2, <2>2 DEF MarkProcessed
    <3> QED
      BY <1>0, <2>0, <2>2, <3>1, GoToFields DEF Waits
  <2> QED
    BY <2>1, <2>2
<1>3. CASE LockOperation(p)
  <2>1. proc[p].pc = "marked" /\ lock' = p /\ GoTo(p, "locked", FALSE)
        /\ UNCHANGED <<op, outbox, previews, sent, mishaps>>
    BY <1>3 DEF LockOperation
  <2> QED
    BY <1>0, <1>3, <2>1, GoToFields DEF Waits
<1>4. CASE LookAtOthers(p)
  <2>1. proc[p].pc = "locked" /\ UNCHANGED <<op, outbox, previews, lock, sent, mishaps>>
    BY <1>4 DEF LookAtOthers
  <2>2. ~ LockOperation(p)
    BY <2>1 DEF LockOperation
  <2> QED
    BY <1>0, <1>4, <2>1, <2>2, LookFields DEF Waits
<1>5. CASE CompletionLost(p)
  <2>1. proc[p].pc \in {"preview", "complete", "marked"} /\ UNCHANGED <<op, outbox, previews, lock, sent>>
        /\ GoTo(p, "fail", TRUE) /\ Mishap(proc[p].at.msg)
    BY <1>5 DEF CompletionLost
  <2>2. ~ LockOperation(p)
    BY <2>1, GoToFields DEF LockOperation, GoTo
  <2>3. proc[p].at.msg \in Message
    BY <2>1, AtHand DEF Waits
  <2> QED
    BY <2>1, <2>2, <2>3, GoToFields, MishapType DEF Waits
<1> QED
  BY <1>1, <1>2, <1>3, <1>4, <1>5
\* The end of a job: its completion commits, its failure is recorded, or is not.
LEMMA EndType ==
  ASSUME TypeOK, InHand, NEW p \in Process,
         (\E replied \in BOOLEAN : CommitCompletion(p, replied)) \/ RecordFailure(p) \/ FailureLost(p)
  PROVE  LET m == proc[p].at.msg IN
         /\ m \in Message /\ proc[p].pc \in {"checked", "fail"}
         /\ proc' \in [Process -> ProcessRow] /\ Others(p) /\ proc'[p].todo = proc[p].todo
         /\ outbox' \in [Message -> OutboxRow] /\ outbox'[m].attempts = outbox[m].attempts
         /\ \A n \in Message : n # m => outbox'[n] = outbox[n]
         /\ UNCHANGED <<previews, sent>> /\ op' \in OpRows /\ mishaps' \in [Message -> Nat]
         /\ \/ /\ proc'[p].pc \in Waits /\ proc'[p].at = NoClaim
               /\ (proc'[p].pc = "idle" => proc'[p].todo = {})
            \/ /\ proc'[p].pc = "fail" /\ proc'[p].at = proc[p].at /\ proc[p].pc = "checked"
         /\ mishaps' = mishaps \/ Mishap(m)
         /\ \/ /\ proc[p].pc = "checked" /\ outbox'[m].status = "processed" /\ op' = Notified(proc[p].all)
               /\ lock' = IF lock = p THEN None ELSE lock
            \/ /\ proc[p].pc = "fail" /\ UNCHANGED <<op, lock>> /\ Holds(proc[p].at)
               /\ outbox'[m].status \in {"pending", "failed"}
            \/ /\ proc[p].pc = "fail" /\ UNCHANGED <<op, lock, outbox>>
<1> DEFINE m == proc[p].at.msg
<1>0. /\ mishaps \in [Message -> Nat] /\ op \in OpRows /\ outbox \in [Message -> OutboxRow]
  BY DEF TypeOK, OpRows
<1>1. ASSUME NEW replied \in BOOLEAN, CommitCompletion(p, replied) PROVE
         /\ m \in Message /\ proc[p].pc = "checked"
         /\ proc' \in [Process -> ProcessRow] /\ Others(p) /\ proc'[p].todo = proc[p].todo
         /\ outbox' \in [Message -> OutboxRow] /\ outbox'[m].attempts = outbox[m].attempts
         /\ \A n \in Message : n # m => outbox'[n] = outbox[n]
         /\ UNCHANGED <<previews, sent>> /\ op' \in OpRows /\ mishaps' \in [Message -> Nat]
         /\ \/ /\ proc'[p].pc \in Waits /\ proc'[p].at = NoClaim
               /\ (proc'[p].pc = "idle" => proc'[p].todo = {})
            \/ /\ proc'[p].pc = "fail" /\ proc'[p].at = proc[p].at
         /\ mishaps' = mishaps \/ Mishap(m)
         /\ outbox'[m].status = "processed" /\ op' = Notified(proc[p].all)
         /\ lock' = IF lock = p THEN None ELSE lock
  <2>1. proc[p].pc = "checked" /\ outbox' = Processed(m) /\ op' = Notified(proc[p].all)
        /\ lock' = (IF lock = p THEN None ELSE lock) /\ UNCHANGED <<previews, sent>>
    BY <1>1 DEF CommitCompletion
  <2>2. m \in Message
    BY <2>1, AtHand DEF Waits
  <2>3. /\ outbox' \in [Message -> OutboxRow] /\ outbox'[m].attempts = outbox[m].attempts
        /\ outbox'[m].status = "processed" /\ \A n \in Message : n # m => outbox'[n] = outbox[n]
    <3> DEFINE e == [[outbox[m] EXCEPT !.status = "processed"] EXCEPT !.lease = "none"]
    <3>1. e \in OutboxRow /\ e.status = "processed" /\ e.attempts = outbox[m].attempts
      BY <2>2, Ended
    <3>2. outbox' = [outbox EXCEPT ![m] = e]
      BY <1>0, <2>1, <2>2 DEF Processed
    <3> HIDE DEF e
    <3> QED
      BY <2>2, <3>1, <3>2, RowSet
  <2>4. op' \in OpRows
    BY <1>0, <2>1, OpSet DEF Notified, OpStatus
  <2>5. CASE replied
    <3>1. Proceed(p) /\ mishaps' = mishaps
      BY <1>1, <2>5 DEF CommitCompletion
    <3> QED
      BY <1>0, <2>1, <2>2, <2>3, <2>4, <3>1, ProceedFields
  <2>6. CASE ~ replied
    <3>1. GoTo(p, "fail", TRUE) /\ Mishap(m)
      BY <1>1, <2>6 DEF CommitCompletion
    <3>2. /\ proc' \in [Process -> ProcessRow] /\ Others(p) /\ proc'[p].todo = proc[p].todo
          /\ proc'[p].pc = "fail" /\ proc'[p].at = proc[p].at
      BY <3>1, GoToFields
    <3>3. mishaps' \in [Message -> Nat]
      BY <2>2, <3>1, MishapType
    <3> QED
      BY <2>1, <2>2, <2>3, <2>4, <3>1, <3>2, <3>3
  <2> QED
    BY <2>5, <2>6
<1>2. CASE RecordFailure(p)
  <2>1. /\ proc[p].pc = "fail" /\ Proceed(p) /\ UNCHANGED <<op, previews, lock, sent, mishaps>>
    BY <1>2 DEF RecordFailure
  <2>2. m \in Message
    BY <2>1, AtHand DEF Waits
  <2>3. CASE Holds(proc[p].at)
    <3>1. outbox' = [outbox EXCEPT ![m] = FailedRow(m, proc[p].retry)] /\ proc[p].retry \in BOOLEAN
      BY <1>2, <2>3, Rows DEF RecordFailure
    <3>2. /\ outbox' \in [Message -> OutboxRow] /\ outbox'[m].attempts = outbox[m].attempts
          /\ outbox'[m].status \in {"pending", "failed"} /\ \A n \in Message : n # m => outbox'[n] = outbox[n]
      BY <2>2, <3>1, FailedFields, RowSet
    <3> QED
      BY <1>0, <2>1, <2>2, <2>3, <3>2, ProceedFields
  <2>4. CASE ~ Holds(proc[p].at)
    <3>1. outbox' = outbox
      BY <1>2, <2>4 DEF RecordFailure
    <3> QED
      BY <1>0, <2>1, <2>2, <3>1, ProceedFields
  <2> QED
    BY <2>3, <2>4
<1>3. CASE FailureLost(p)
  <2>1. proc[p].pc = "fail" /\ Proceed(p) /\ UNCHANGED <<op, outbox, previews, lock, sent>> /\ Mishap(m)
    BY <1>3 DEF FailureLost
  <2>2. m \in Message
    BY <2>1, AtHand DEF Waits
  <2> QED
    BY <1>0, <2>1, <2>2, ProceedFields, MishapType
<1> QED
  BY <1>1, <1>2, <1>3

LEMMA CrashType ==
  ASSUME TypeOK, NEW p \in Process, Crash(p)
  PROVE  /\ proc' \in [Process -> ProcessRow] /\ Others(p) /\ proc'[p] = IdleProcess
         /\ UNCHANGED <<op, outbox, previews, sent>> /\ lock' = IF lock = p THEN None ELSE lock
         /\ mishaps' \in [Message -> Nat]
         /\ \A m \in Message : mishaps'[m] = IF m \in Unfinished(p) THEN mishaps[m] + 1 ELSE mishaps[m]
<1>0. mishaps \in [Message -> Nat]
  BY DEF TypeOK
<1>1. mishaps' = [m \in Message |-> mishaps[m] + IF m \in Unfinished(p) THEN 1 ELSE 0]
      /\ UNCHANGED <<op, outbox, previews, sent>> /\ lock' = IF lock = p THEN None ELSE lock
  BY DEF Crash
<1> QED
  BY <1>0, <1>1, CrashFields

LEMMA TimeType ==
  ASSUME TypeOK, NEW m \in Message, ExpireLease(m) \/ PauseEnds(m)
  PROVE  /\ UNCHANGED <<op, previews, proc, lock, sent>> /\ mishaps' \in [Message -> Nat]
         /\ \A n \in Message : n # m => mishaps'[n] = mishaps[n]
         /\ PauseEnds(m) => mishaps' = mishaps
         /\ ExpireLease(m) => mishaps'[m] = mishaps[m] + 1 \/ (~ Held(m) /\ mishaps' = mishaps)
<1>0. mishaps \in [Message -> Nat]
  BY DEF TypeOK
<1>1. ~ (ExpireLease(m) /\ PauseEnds(m))
  BY DEF ExpireLease, PauseEnds
<1>2. CASE ExpireLease(m)
  <2>1. UNCHANGED <<op, previews, proc, lock, sent>> /\ (Mishap(m) \/ (~ Held(m) /\ mishaps' = mishaps))
    BY <1>2 DEF ExpireLease
  <2> QED
    BY <1>0, <1>1, <1>2, <2>1, MishapType
<1>3. CASE PauseEnds(m)
  BY <1>0, <1>1, <1>3 DEF PauseEnds
<1> QED
  BY <1>2, <1>3

LEMMA PollType ==
  ASSUME TypeOK, NEW p \in Process, Poll(p)
  PROVE  \E M \in SUBSET Claimable : Claim(p, M) /\ UNCHANGED <<op, previews, lock, sent, mishaps>>
                                     /\ proc[p].pc = "idle"
BY DEF Poll, Claim

LEMMA TypeNext == ASSUME TypeOK, InHand, Next PROVE TypeOK'
<1> DEFINE Typed == /\ op' \in OpRows /\ outbox' \in [Message -> OutboxRow] /\ previews' \subseteq Message
                    /\ proc' \in [Process -> ProcessRow] /\ lock' \in Process \cup {None}
                    /\ sent' \in [Message -> Nat] /\ mishaps' \in [Message -> Nat]
<1>0. /\ op \in OpRows /\ outbox \in [Message -> OutboxRow] /\ previews \subseteq Message
      /\ proc \in [Process -> ProcessRow] /\ lock \in Process \cup {None}
      /\ sent \in [Message -> Nat] /\ mishaps \in [Message -> Nat]
  BY DEF TypeOK, OpRows
<1>1. ASSUME (\E b \in Booking : ConfirmBooking(b)) \/ ProviderCancels \/ ClientCancels
               \/ QueueEmails
      PROVE  Typed
  BY <1>0, <1>1, QueueType
<1>2. ASSUME NEW p \in Process, Poll(p) PROVE Typed
  BY <1>0, <1>2, PollType, ClaimFields
<1>3. ASSUME NEW p \in Process, Deliver(p) PROVE Typed
  BY <1>0, <1>3, DeliverType DEF Deliver
<1>4. ASSUME NEW p \in Process,
             SavePreview(p) \/ MarkProcessed(p) \/ LockOperation(p) \/ LookAtOthers(p) \/ CompletionLost(p)
      PROVE  Typed
  <2>1. /\ proc' \in [Process -> ProcessRow] /\ UNCHANGED <<op, outbox, sent>> /\ mishaps' \in [Message -> Nat]
        /\ (UNCHANGED previews \/ previews' = previews \cup {proc[p].at.msg})
        /\ lock' \in {p, lock} /\ proc[p].pc \notin Waits
    BY <1>4, MoveType
  <2>2. proc[p].at.msg \in Message
    BY <2>1, AtHand
  <2> QED
    BY <1>0, <2>1, <2>2
<1>5. ASSUME NEW p \in Process,
             (\E replied \in BOOLEAN : CommitCompletion(p, replied)) \/ RecordFailure(p) \/ FailureLost(p)
      PROVE  Typed
  BY <1>0, <1>5, EndType
<1>6. ASSUME NEW p \in Process, Crash(p) PROVE Typed
  BY <1>0, <1>6, CrashType
<1>7. ASSUME NEW m \in Message, ExpireLease(m) \/ PauseEnds(m) PROVE Typed
  BY <1>0, <1>7, TimeType, TimeRows
<1>8. Typed
  <2> HIDE DEF Typed
  <2> QED
    BY <1>1, <1>2, <1>3, <1>4, <1>5, <1>6, <1>7 DEF Next, Record
<1> QED
  BY <1>8 DEF TypeOK, OpRows
------------------------------------------------------------------------------
(* A claim is given once, and its holder is the only one                     *)

Queues == (\E b \in Booking : ConfirmBooking(b)) \/ ProviderCancels \/ ClientCancels
            \/ QueueEmails
Moves(p) == SavePreview(p) \/ MarkProcessed(p) \/ LockOperation(p) \/ LookAtOthers(p) \/ CompletionLost(p)
Ends(p) == (\E replied \in BOOLEAN : CommitCompletion(p, replied)) \/ RecordFailure(p) \/ FailureLost(p)
Times(m) == ExpireLease(m) \/ PauseEnds(m)

LEMMA Kinds ==
  ASSUME Next
  PROVE  \/ Queues \/ \E p \in Process : Poll(p) \/ Deliver(p) \/ Moves(p) \/ Ends(p) \/ Crash(p)
         \/ \E m \in Message : Times(m)
BY DEF Next, Record, Queues, Moves, Ends, Times

\* Two processes at the same claim are one.
LEMMA SameClaim ==
  ASSUME ClaimInv, NEW p \in Process, NEW q \in Process, proc[p].at.msg = proc[q].at.msg,
         proc[p].pc \notin Waits, proc[q].pc \notin Waits, Holds(proc[p].at), Holds(proc[q].at)
  PROVE  p = q
<1>1. TypeOK /\ InHand /\ ClaimsAreOnes
  BY DEF ClaimInv
<1>2. proc[p].at \in Claims /\ proc[q].at \in Claims /\ proc[p].at.token > 0
  BY <1>1, AtHand
<1>3. proc[p].at.token = proc[q].at.token
  BY DEF Holds
<1>4. proc[p].at = proc[q].at
  BY <1>2, <1>3 DEF Claims
<1>5. proc[p].at \in Mine(p) \cap Mine(q)
  BY <1>2, <1>4 DEF Mine
<1> QED
  BY <1>1, <1>5 DEF ClaimsAreOnes

LEMMA InHandNext == ASSUME ClaimInv, Next PROVE InHand'
<1>0. TypeOK /\ InHand /\ ClaimsAreOnes /\ \A q \in Process : \A c \in proc[q].todo : c.token > 0
  BY DEF ClaimInv, ClaimsAreOnes
<1> DEFINE Fine(q) == /\ proc'[q].pc = "idle" => proc'[q].todo = {}
                      /\ proc'[q].pc \in Waits => proc'[q].at = NoClaim
                      /\ proc'[q].pc \notin Waits => proc'[q].at \in Claims /\ proc'[q].at.token > 0
<1>1. ASSUME UNCHANGED proc PROVE \A q \in Process : Fine(q)
  BY <1>0, <1>1 DEF InHand
<1>2. ASSUME NEW p \in Process, Others(p), Fine(p) PROVE \A q \in Process : Fine(q)
  <2>1. ASSUME NEW q \in Process, q # p PROVE Fine(q)
    BY <1>0, <1>2, <2>1 DEF InHand, Others
  <2> QED
    BY <1>2, <2>1
<1>3. ASSUME NEW p \in Process, Poll(p) PROVE Fine(p) /\ Others(p)
  <2>1. proc[p].pc = "idle"
    BY <1>3, PollType, <1>0
  <2>2. Others(p) /\ proc'[p].pc = "next" /\ proc'[p].at = proc[p].at
    BY <1>0, <1>3, PollType, ClaimFields
  <2> QED
    BY <1>0, <2>1, <2>2 DEF InHand, Waits
<1>4. ASSUME NEW p \in Process, Deliver(p) PROVE Fine(p) /\ Others(p)
  <2>1. PICK c \in proc[p].todo : Delivered(p, c) \/ AnswerLost(p, c) \/ Refused(p, c)
    BY <1>4 DEF Deliver
  <2> QED
    BY <1>0, <2>1, DeliverType DEF Waits
<1>5. ASSUME NEW p \in Process, Moves(p) PROVE Fine(p) /\ Others(p)
  <2>1. /\ proc[p].pc \notin Waits /\ Others(p) /\ proc'[p].at = proc[p].at
        /\ proc'[p].pc \in {"fail", "complete", "marked", "locked", "checked"}
    BY <1>0, <1>5, MoveType DEF Moves
  <2> QED
    BY <1>0, <2>1 DEF InHand, Waits
<1>6. ASSUME NEW p \in Process, Ends(p) PROVE Fine(p) /\ Others(p)
  <2>1. /\ Others(p) /\ proc[p].pc \notin Waits
        /\ \/ proc'[p].pc \in Waits /\ proc'[p].at = NoClaim /\ (proc'[p].pc = "idle" => proc'[p].todo = {})
           \/ proc'[p].pc = "fail" /\ proc'[p].at = proc[p].at
    BY <1>0, <1>6, EndType DEF Ends, Waits
  <2> QED
    BY <1>0, <2>1 DEF InHand, Waits
<1>7. ASSUME NEW p \in Process, Crash(p) PROVE Fine(p) /\ Others(p)
  BY <1>0, <1>7, CrashType DEF IdleProcess, Waits
<1>8. ASSUME Queues \/ \E m \in Message : Times(m) PROVE UNCHANGED proc
  BY <1>0, <1>8, QueueType, TimeType DEF Queues, Times
<1>9. \A q \in Process : Fine(q)
  <2> HIDE DEF Fine
  <2> QED
    BY <1>1, <1>2, <1>3, <1>4, <1>5, <1>6, <1>7, <1>8, Kinds
<1> QED
  BY <1>9 DEF InHand

\* No claim is given: the batches shrink and the rows count no less.
LEMMA NoneGiven ==
  ASSUME TypeOK, ClaimsAreOnes,
         \A q \in Process :
           \/ proc'[q] = proc[q]
           \/ /\ proc'[q].todo \subseteq proc[q].todo /\ proc'[q].at \notin proc'[q].todo
              /\ proc'[q].at \in proc[q].todo \cup {proc[q].at, NoClaim},
         \A m \in Message : /\ outbox'[m].attempts \in Nat /\ outbox'[m].attempts >= outbox[m].attempts
                            /\ outbox'[m].status = "none" => outbox'[m] = outbox[m]
  PROVE  ClaimsAreOnes'
<1>1. ASSUME NEW q \in Process PROVE Mine(q)' \subseteq Mine(q)
  BY DEF Mine, NoClaim
<1>2. ASSUME NEW q \in Process, NEW c \in Mine(q) PROVE c.msg \in Message /\ c.token \in Nat
  BY Rows DEF Mine, Claims, NoClaim
<1>3. ASSUME NEW q \in Process, NEW c \in Mine(q)' PROVE c.token <= outbox'[c.msg].attempts
  <2>1. /\ c.token <= outbox[c.msg].attempts /\ c.msg \in Message /\ c.token \in Nat
    BY <1>1, <1>2, <1>3 DEF ClaimsAreOnes
  <2> QED
    BY <2>1, MessageRows
<1>4. ASSUME NEW q \in Process
      PROVE  /\ proc'[q].at \notin proc'[q].todo /\ \A c \in proc'[q].todo : c.token > 0
             /\ \A c, d \in proc'[q].todo : c.msg = d.msg => c = d
  BY DEF ClaimsAreOnes
<1>5. ASSUME NEW p \in Process, NEW q \in Process, p # q PROVE Mine(p)' \cap Mine(q)' = {}
  BY <1>1, <1>5 DEF ClaimsAreOnes
<1>6. \A m \in Message : outbox'[m].status = "none" => outbox'[m].attempts = 0
  BY DEF ClaimsAreOnes
<1> QED
  BY <1>3, <1>4, <1>5, <1>6 DEF ClaimsAreOnes

\* A poll gives claims younger than any that were given on those rows.
LEMMA NewOnes ==
  ASSUME ClaimInv, NEW p \in Process, Poll(p)
  PROVE  ClaimsAreOnes'
<1>0. TypeOK /\ InHand /\ ClaimsAreOnes
  BY DEF ClaimInv
<1>1. PICK M \in SUBSET Claimable : Claim(p, M) /\ proc[p].pc = "idle"
  BY <1>0, PollType
<1>2. /\ M \subseteq Message /\ outbox' \in [Message -> OutboxRow]
      /\ \A m \in Message : m \notin M => outbox'[m] = outbox[m]
      /\ \A m \in M : outbox'[m].status = "processing" /\ outbox'[m].attempts = outbox[m].attempts + 1
      /\ Others(p) /\ proc'[p].pc = "next" /\ proc'[p].at = proc[p].at
      /\ proc'[p].todo = {[msg |-> m, token |-> outbox[m].attempts + 1] : m \in M}
  BY <1>0, <1>1, ClaimFields
<1>3. proc'[p].at = NoClaim /\ Mine(p) = {}
  BY <1>0, <1>1, <1>2 DEF InHand, Waits, Mine, NoClaim
<1>4. \A m \in Message : outbox[m].attempts \in Nat
  BY <1>0, MessageRows
<1>5. ASSUME NEW c \in Mine(p)'
      PROVE  \E m \in M : c = [msg |-> m, token |-> outbox[m].attempts + 1]
  BY <1>2, <1>3 DEF Mine, NoClaim
<1>6. ASSUME NEW q \in Process, q # p PROVE Mine(q)' = Mine(q) /\ proc'[q] = proc[q]
  BY <1>2, <1>6 DEF Mine, Others
<1>7. ASSUME NEW q \in Process, NEW c \in Mine(q)
      PROVE  c.msg \in Message /\ c.token \in Nat /\ c.token <= outbox[c.msg].attempts
  BY <1>0, Rows DEF Mine, Claims, NoClaim, ClaimsAreOnes
<1>8. ASSUME NEW q \in Process, NEW c \in Mine(q)' PROVE c.token <= outbox'[c.msg].attempts
  <2>1. CASE q = p
    BY <1>2, <1>4, <1>5, <1>8, <2>1
  <2>2. CASE q # p
    BY <1>2, <1>4, <1>6, <1>7, <1>8, <2>2
  <2> QED
    BY <2>1, <2>2
<1>9. ASSUME NEW q \in Process
      PROVE  /\ proc'[q].at \notin proc'[q].todo /\ \A c \in proc'[q].todo : c.token > 0
             /\ \A c, d \in proc'[q].todo : c.msg = d.msg => c = d
  <2>1. CASE q = p
    BY <1>2, <1>3, <1>4, <2>1 DEF NoClaim
  <2>2. CASE q # p
    BY <1>0, <1>6, <2>2 DEF ClaimsAreOnes
  <2> QED
    BY <2>1, <2>2
<1>10. ASSUME NEW q \in Process, q # p PROVE Mine(p)' \cap Mine(q)' = {}
  BY <1>2, <1>4, <1>5, <1>6, <1>7, <1>10
<1>11. ASSUME NEW q \in Process, NEW s \in Process, q # s PROVE Mine(q)' \cap Mine(s)' = {}
  <2>1. CASE q # p /\ s # p
    BY <1>0, <1>6, <1>11, <2>1 DEF ClaimsAreOnes
  <2> QED
    BY <1>10, <1>11, <2>1
<1>12. \A m \in Message : outbox'[m].status = "none" => outbox'[m].attempts = 0
  BY <1>0, <1>2 DEF ClaimsAreOnes
<1> QED
  BY <1>8, <1>9, <1>11, <1>12 DEF ClaimsAreOnes

\* What a transaction that queues messages does to a row.
LEMMA QueueRows ==
  ASSUME TypeOK, Queues, NEW m \in Message
  PROVE  \/ outbox'[m] = outbox[m]
         \/ outbox[m].status = "none" /\ outbox'[m].status = "pending" /\ outbox'[m].attempts = 0
<1>1. (\E M : outbox' = Enqueued(M)) \/ outbox' = outbox
  BY DEF Queues, ConfirmBooking, ProviderCancels, ClientCancels, QueueEmails
<1> QED
  BY <1>1, QueuedRows

LEMMA OnesNext == ASSUME ClaimInv, Next PROVE ClaimsAreOnes'
<1>0. TypeOK /\ InHand /\ ClaimsAreOnes
  BY DEF ClaimInv
<1> DEFINE Shrinks(q) ==
             \/ proc'[q] = proc[q]
             \/ /\ proc'[q].todo \subseteq proc[q].todo /\ proc'[q].at \notin proc'[q].todo
                /\ proc'[q].at \in proc[q].todo \cup {proc[q].at, NoClaim}
           Counts(m) == /\ outbox'[m].attempts \in Nat /\ outbox'[m].attempts >= outbox[m].attempts
                        /\ outbox'[m].status = "none" => outbox'[m] = outbox[m]
<1>1. ASSUME UNCHANGED outbox PROVE \A m \in Message : Counts(m)
  BY <1>0, <1>1, MessageRows
<1>2. ASSUME NEW p \in Process, Others(p), Shrinks(p) PROVE \A q \in Process : Shrinks(q)
  BY <1>2 DEF Others
<1>3. ASSUME NEW q \in Process PROVE NoClaim \notin proc[q].todo /\ proc[q].at \notin proc[q].todo
  BY <1>0 DEF ClaimsAreOnes, NoClaim
<1>4. ASSUME Queues PROVE (\A q \in Process : Shrinks(q)) /\ (\A m \in Message : Counts(m))
  <2>1. UNCHANGED proc
    BY <1>0, <1>4, QueueType DEF Queues
  <2>2. ASSUME NEW m \in Message PROVE Counts(m)
    <3>1. outbox[m].attempts \in Nat /\ (outbox[m].status = "none" => outbox[m].attempts = 0)
      BY <1>0, MessageRows DEF ClaimsAreOnes
    <3> QED
      BY <1>0, <1>4, <3>1, QueueRows
  <2> QED
    BY <2>1, <2>2
<1>5. ASSUME NEW p \in Process, Deliver(p) PROVE Others(p) /\ Shrinks(p) /\ UNCHANGED outbox
  <2>1. PICK c \in proc[p].todo : Delivered(p, c) \/ AnswerLost(p, c) \/ Refused(p, c)
    BY <1>5 DEF Deliver
  <2>2. /\ Others(p) /\ proc'[p].at = c /\ proc'[p].todo = proc[p].todo \ {c} /\ UNCHANGED outbox
    BY <1>0, <2>1, DeliverType
  <2> QED
    BY <2>2
<1>6. ASSUME NEW p \in Process, Moves(p) PROVE Others(p) /\ Shrinks(p) /\ UNCHANGED outbox
  <2>1. Others(p) /\ proc'[p].at = proc[p].at /\ proc'[p].todo = proc[p].todo /\ UNCHANGED outbox
    BY <1>0, <1>6, MoveType DEF Moves
  <2> QED
    BY <1>3, <2>1
<1>7. ASSUME NEW p \in Process, Ends(p) PROVE Others(p) /\ Shrinks(p) /\ (\A m \in Message : Counts(m))
  <2>1. LET m == proc[p].at.msg IN
        /\ m \in Message /\ Others(p) /\ proc'[p].todo = proc[p].todo /\ proc'[p].at \in {NoClaim, proc[p].at}
        /\ outbox'[m].attempts = outbox[m].attempts /\ \A n \in Message : n # m => outbox'[n] = outbox[n]
        /\ outbox'[m].status # "none" \/ outbox' = outbox
    BY <1>0, <1>7, EndType DEF Ends
  <2>2. \A m \in Message : Counts(m)
    BY <1>0, <2>1, MessageRows
  <2> QED
    BY <1>3, <2>1, <2>2
<1>8. ASSUME NEW p \in Process, Crash(p) PROVE Others(p) /\ Shrinks(p) /\ UNCHANGED outbox
  BY <1>0, <1>8, CrashType DEF IdleProcess
<1>9. ASSUME NEW m \in Message, Times(m)
      PROVE  (\A q \in Process : Shrinks(q)) /\ (\A n \in Message : Counts(n))
  <2>1. UNCHANGED proc
    BY <1>0, <1>9, TimeType DEF Times
  <2>2. outbox[m].status # "none"
    BY <1>9 DEF Times, ExpireLease, PauseEnds
  <2>3. \A n \in Message : Counts(n)
    BY <1>0, <1>9, <2>2, TimeRows, MessageRows DEF Times
  <2> QED
    BY <2>1, <2>3
<1>10. ASSUME \A q \in Process : Shrinks(q), \A m \in Message : Counts(m) PROVE ClaimsAreOnes'
  BY <1>0, <1>10, NoneGiven
<1> HIDE DEF Shrinks, Counts
<1> QED
  BY <1>1, <1>2, <1>4, <1>5, <1>6, <1>7, <1>8, <1>9, <1>10, NewOnes, Kinds

LEMMA HoldsNext == ASSUME ClaimInv, Next PROVE TransactionHolds'
<1>0. TypeOK /\ InHand /\ ClaimsAreOnes /\ TransactionHolds
  BY DEF ClaimInv
<1> DEFINE Keeps(q) == proc'[q].pc \in InTransaction => Holds(proc[q].at)'
           Locks(q) == proc'[q].pc \in {"locked", "checked"} <=> lock' = q
<1>1. ASSUME NEW q \in Process, proc'[q] = proc[q], proc[q].pc \in InTransaction,
             outbox'[proc[q].at.msg].status = outbox[proc[q].at.msg].status,
             outbox'[proc[q].at.msg].attempts = outbox[proc[q].at.msg].attempts
      PROVE  Keeps(q)
  BY <1>0, <1>1 DEF TransactionHolds, Holds
<1>2. ASSUME NEW q \in Process, proc[q].pc \in InTransaction
      PROVE  /\ proc[q].pc \notin Waits /\ Holds(proc[q].at) /\ proc[q].at.msg \in Message
             /\ outbox[proc[q].at.msg].status = "processing"
  <2>1. proc[q].pc \notin Waits /\ Holds(proc[q].at)
    BY <1>0, <1>2 DEF TransactionHolds, InTransaction, Waits
  <2> QED
    BY <1>0, <2>1, AtHand DEF Holds
<1>3. ASSUME NEW q \in Process, proc'[q] = proc[q], UNCHANGED lock PROVE Locks(q)
  BY <1>0, <1>3 DEF TransactionHolds
<1>4. ASSUME Queues, NEW q \in Process PROVE Keeps(q) /\ Locks(q)
  <2>1. UNCHANGED <<proc, lock>>
    BY <1>0, <1>4, QueueType DEF Queues
  <2>2. ASSUME proc[q].pc \in InTransaction PROVE Keeps(q)
    <3>1. proc[q].at.msg \in Message /\ outbox[proc[q].at.msg].status = "processing"
      BY <1>2, <2>2
    <3>2. outbox'[proc[q].at.msg] = outbox[proc[q].at.msg]
      BY <1>0, <1>4, <3>1, QueueRows
    <3> QED
      BY <1>1, <2>1, <2>2, <3>2
  <2> QED
    BY <1>3, <2>1, <2>2
<1>5. ASSUME NEW p \in Process, Poll(p), NEW q \in Process PROVE Keeps(q) /\ Locks(q)
  <2>1. PICK M \in SUBSET Claimable : Claim(p, M) /\ UNCHANGED lock /\ proc[p].pc = "idle"
    BY <1>0, <1>5, PollType
  <2>2. Others(p) /\ proc'[p].pc = "next" /\ \A m \in Message : m \notin M => outbox'[m] = outbox[m]
    BY <1>0, <2>1, ClaimFields
  <2>3. CASE q = p
    BY <1>0, <2>1, <2>2, <2>3 DEF InTransaction, TransactionHolds
  <2>4. CASE q # p
    <3>1. proc'[q] = proc[q]
      BY <2>2, <2>4 DEF Others
    <3>2. ASSUME proc[q].pc \in InTransaction PROVE Keeps(q)
      <4>1. proc[q].at.msg \in Message /\ RowLocked(proc[q].at.msg)
        BY <1>2, <3>2 DEF RowLocked
      <4>2. outbox'[proc[q].at.msg] = outbox[proc[q].at.msg]
        BY <2>1, <2>2, <4>1 DEF Claimable
      <4> QED
        BY <1>1, <3>1, <3>2, <4>2
    <3> QED
      BY <1>3, <2>1, <3>1, <3>2
  <2> QED
    BY <2>3, <2>4
<1>6. ASSUME NEW p \in Process, Others(p), UNCHANGED outbox, proc'[p].pc \notin InTransaction,
             proc[p].pc \notin {"locked", "checked"}, UNCHANGED lock, NEW q \in Process
      PROVE  Keeps(q) /\ Locks(q)
  <2>1. CASE q = p
    BY <1>0, <1>6, <2>1 DEF InTransaction, TransactionHolds
  <2>2. CASE q # p
    <3>1. proc'[q] = proc[q]
      BY <1>6, <2>2 DEF Others
    <3> QED
      BY <1>1, <1>3, <1>6, <3>1
  <2> QED
    BY <2>1, <2>2
<1>7. ASSUME NEW p \in Process, Deliver(p), NEW q \in Process PROVE Keeps(q) /\ Locks(q)
  <2>1. PICK c \in proc[p].todo : Delivered(p, c) \/ AnswerLost(p, c) \/ Refused(p, c)
    BY <1>7 DEF Deliver
  <2>2. /\ proc[p].pc = "next" /\ Others(p) /\ proc'[p].pc \in {"preview", "complete", "fail"}
        /\ UNCHANGED <<outbox, lock>>
    BY <1>0, <2>1, DeliverType
  <2> QED
    BY <1>6, <2>2 DEF InTransaction
<1>8. ASSUME NEW p \in Process, Moves(p), NEW q \in Process PROVE Keeps(q) /\ Locks(q)
  <2>1. /\ Others(p) /\ UNCHANGED outbox /\ proc'[p].at = proc[p].at
        /\ lock' = IF LockOperation(p) THEN p ELSE lock
        /\ \/ proc'[p].pc = "fail" /\ proc[p].pc \notin {"locked", "checked"}
           \/ proc'[p].pc = "complete" /\ proc[p].pc = "preview"
           \/ proc'[p].pc = "marked" /\ proc[p].pc = "complete" /\ Holds(proc[p].at)
           \/ LockOperation(p) /\ proc'[p].pc = "locked"
           \/ LookAtOthers(p) /\ proc'[p].pc = "checked"
    BY <1>0, <1>8, MoveType DEF Moves
  <2>2. LockOperation(p) => proc[p].pc = "marked" /\ proc'[p].pc = "locked" /\ lock = None
    BY <1>0, GoToFields DEF LockOperation
  <2>3. LookAtOthers(p) => proc[p].pc = "locked"
    BY DEF LookAtOthers
  <2>4. CASE q = p
    <3>1. Keeps(p)
      <4>1. ASSUME Holds(proc[p].at) PROVE Keeps(p)
        BY <2>1, <4>1 DEF Holds
      <4>2. proc'[p].pc \in InTransaction => Holds(proc[p].at)
        BY <1>0, <2>1, <2>2, <2>3 DEF TransactionHolds, InTransaction
      <4> QED
        BY <4>1, <4>2
    <3>2. Locks(p)
      <4>1. CASE LockOperation(p)
        BY <2>1, <2>2, <4>1
      <4>2. CASE ~ LockOperation(p)
        BY <1>0, <2>1, <2>3, <4>2 DEF TransactionHolds
      <4> QED
        BY <4>1, <4>2
    <3> QED
      BY <2>4, <3>1, <3>2
  <2>5. CASE q # p
    <3>1. proc'[q] = proc[q]
      BY <2>1, <2>5 DEF Others
    <3>2. Keeps(q)
      BY <1>1, <2>1, <3>1
    <3>3. Locks(q)
      <4>1. CASE LockOperation(p)
        BY <1>0, <2>1, <2>2, <2>5, <3>1, <4>1, OutboxAssumption DEF TransactionHolds
      <4>2. CASE ~ LockOperation(p)
        BY <1>3, <2>1, <3>1, <4>2
      <4> QED
        BY <4>1, <4>2
    <3> QED
      BY <3>2, <3>3
  <2> QED
    BY <2>4, <2>5
<1>9. ASSUME NEW p \in Process, Ends(p), NEW q \in Process PROVE Keeps(q) /\ Locks(q)
  <2> DEFINE m == proc[p].at.msg
  <2>1. /\ m \in Message /\ proc[p].pc \in {"checked", "fail"} /\ Others(p)
        /\ \A n \in Message : n # m => outbox'[n] = outbox[n]
        /\ proc'[p].pc \in Waits \cup {"fail"}
        /\ \/ proc[p].pc = "checked" /\ lock' = IF lock = p THEN None ELSE lock
           \/ proc[p].pc = "fail" /\ UNCHANGED lock /\ Holds(proc[p].at)
           \/ proc[p].pc = "fail" /\ UNCHANGED <<lock, outbox>>
    BY <1>0, <1>9, EndType DEF Ends
  <2>2. CASE q = p
    <3>1. proc'[p].pc \notin InTransaction
      BY <2>1 DEF Waits, InTransaction
    <3>2. lock' # p
      BY <1>0, <2>1, OutboxAssumption DEF TransactionHolds
    <3> QED
      BY <2>2, <3>1, <3>2 DEF InTransaction
  <2>3. CASE q # p
    <3>1. proc'[q] = proc[q]
      BY <2>1, <2>3 DEF Others
    <3>2. Locks(q)
      BY <1>0, <2>1, <2>3, <3>1, OutboxAssumption DEF TransactionHolds
    <3>3. ASSUME proc[q].pc \in InTransaction PROVE Keeps(q)
      <4>1. /\ proc[q].pc \notin Waits /\ Holds(proc[q].at) /\ proc[q].at.msg \in Message
        BY <1>2, <3>3
      <4>2. outbox'[proc[q].at.msg] = outbox[proc[q].at.msg]
        <5>1. ASSUME proc[q].at.msg = m, Holds(proc[p].at) PROVE FALSE
          BY <2>1, <2>3, <4>1, <5>1, SameClaim DEF Waits
        <5>2. proc[p].pc = "checked" => Holds(proc[p].at)
          BY <1>0 DEF TransactionHolds, InTransaction
        <5> QED
          BY <2>1, <4>1, <5>1, <5>2
      <4> QED
        BY <1>1, <3>1, <3>3, <4>2
    <3> QED
      BY <3>1, <3>2, <3>3
  <2> QED
    BY <2>2, <2>3
<1>10. ASSUME NEW p \in Process, Crash(p), NEW q \in Process PROVE Keeps(q) /\ Locks(q)
  <2>1. Others(p) /\ proc'[p] = IdleProcess /\ UNCHANGED outbox /\ lock' = IF lock = p THEN None ELSE lock
    BY <1>0, <1>10, CrashType
  <2>2. CASE q = p
    BY <2>1, <2>2, OutboxAssumption DEF IdleProcess, InTransaction
  <2>3. CASE q # p
    <3>1. proc'[q] = proc[q]
      BY <2>1, <2>3 DEF Others
    <3>2. Locks(q)
      BY <1>0, <2>1, <2>3, <3>1, OutboxAssumption DEF TransactionHolds
    <3> QED
      BY <1>1, <2>1, <3>1, <3>2
  <2> QED
    BY <2>2, <2>3
<1>11. ASSUME NEW m \in Message, Times(m), NEW q \in Process PROVE Keeps(q) /\ Locks(q)
  <2>1. UNCHANGED <<proc, lock>>
    BY <1>0, <1>11, TimeType DEF Times
  <2>2. \A n \in Message : outbox'[n].status = outbox[n].status /\ outbox'[n].attempts = outbox[n].attempts
    BY <1>0, <1>11, TimeRows DEF Times
  <2> QED
    BY <1>1, <1>2, <1>3, <2>1, <2>2
<1>12. \A q \in Process : Keeps(q) /\ Locks(q)
  <2> HIDE DEF Keeps, Locks
  <2> QED
    BY <1>4, <1>5, <1>7, <1>8, <1>9, <1>10, <1>11, Kinds
<1> QED
  BY <1>12 DEF TransactionHolds

LEMMA ClaimInit == Init => ClaimInv
<1> SUFFICES ASSUME Init PROVE ClaimInv
  OBVIOUS
<1>0. /\ proc = [p \in Process |-> IdleProcess] /\ lock = None /\ outbox = [m \in Message |-> NoRow]
      /\ IdleProcess \in ProcessRow /\ NoRow \in OutboxRow /\ NoRow.attempts = 0
      /\ IdleProcess.pc = "idle" /\ IdleProcess.todo = {} /\ IdleProcess.at = NoClaim
  BY DEF Init, IdleProcess, ProcessRow, NoRow, OutboxRow
<1>1. TypeOK
  <2>1. op \in [status : OpStatus, booking : 0 .. MaxBookings, last : 0 .. MaxBookings]
    BY OutboxAssumption DEF Init, OpStatus
  <2> QED
    BY <1>0, <2>1 DEF Init, TypeOK
<1>2. InHand
  BY <1>0 DEF InHand, Waits
<1>3. ClaimsAreOnes
  BY <1>0 DEF ClaimsAreOnes, Mine, NoClaim
<1>4. TransactionHolds
  BY <1>0, OutboxAssumption DEF TransactionHolds, InTransaction
<1> QED
  BY <1>1, <1>2, <1>3, <1>4 DEF ClaimInv

LEMMA ClaimStays == ASSUME ClaimInv, UNCHANGED vars PROVE ClaimInv'
<1>1. TypeOK' /\ InHand'
  BY DEF ClaimInv, vars, TypeOK, InHand
<1>2. ClaimsAreOnes'
  BY DEF ClaimInv, vars, ClaimsAreOnes, Mine
<1>3. TransactionHolds'
  BY DEF ClaimInv, vars, TransactionHolds, Holds
<1> QED
  BY <1>1, <1>2, <1>3 DEF ClaimInv

LEMMA ClaimNext == ClaimInv /\ [Next]_vars => ClaimInv'
<1>1. ASSUME ClaimInv, Next PROVE ClaimInv'
  <2>1. TypeOK'
    BY <1>1, TypeNext DEF ClaimInv
  <2> QED
    BY <1>1, <2>1, InHandNext, OnesNext, HoldsNext DEF ClaimInv
<1> QED
  BY <1>1, ClaimStays

LEMMA ClaimHolds == Spec => []ClaimInv
<1> QED
  BY ClaimInit, ClaimNext, PTL DEF Spec

\* The rows, batches, counters and the lock stay within their types, whatever the
\* number of processes, bookings and attempts.
THEOREM TypeCorrect == Spec => []TypeOK
<1>1. ClaimInv => TypeOK
  BY DEF ClaimInv
<1> QED
  BY <1>1, ClaimHolds, PTL
------------------------------------------------------------------------------
(* Only the holder of a claim ends a job, and an end is final                *)

Exclusive(m) ==
  /\ outbox[m].status \in {"processed", "failed"} => outbox'[m] = outbox[m]
  /\ outbox[m].status = "processing" /\ outbox'[m].status # "processing" =>
       \E p \in Process : proc[p].at = [msg |-> m, token |-> outbox[m].attempts] /\ proc'[p] # proc[p]

LEMMA ExclusiveStep == ASSUME ClaimInv, Next, NEW m \in Message PROVE Exclusive(m)
<1>0. TypeOK /\ InHand /\ ClaimsAreOnes /\ TransactionHolds
  BY DEF ClaimInv
<1>1. ASSUME outbox'[m] = outbox[m] PROVE Exclusive(m)
  BY <1>1 DEF Exclusive
<1>2. ASSUME Queues PROVE Exclusive(m)
  BY <1>0, <1>2, QueueRows DEF Exclusive
<1>3. ASSUME NEW p \in Process, Poll(p) PROVE Exclusive(m)
  <2>1. PICK M \in SUBSET Claimable : Claim(p, M)
    BY <1>0, <1>3, PollType
  <2>2. (m \notin M => outbox'[m] = outbox[m]) /\ (m \in M => outbox'[m].status = "processing")
    BY <1>0, <2>1, ClaimFields
  <2>3. m \in M => outbox[m].status \in {"pending", "processing"}
    BY <2>1 DEF Claimable
  <2> QED
    BY <2>2, <2>3 DEF Exclusive
<1>4. ASSUME NEW p \in Process, Deliver(p) \/ Moves(p) \/ Crash(p) PROVE outbox'[m] = outbox[m]
  <2>1. Deliver(p) => UNCHANGED outbox
    BY <1>0, DeliverType DEF Deliver
  <2>2. Moves(p) => UNCHANGED outbox
    BY <1>0, MoveType DEF Moves
  <2> QED
    BY <1>0, <1>4, <2>1, <2>2, CrashType
<1>5. ASSUME NEW p \in Process, Ends(p) PROVE Exclusive(m)
  <2>1. LET n == proc[p].at.msg IN
        /\ n \in Message /\ \A k \in Message : k # n => outbox'[k] = outbox[k]
        /\ proc[p].pc \in {"checked", "fail"}
        /\ proc'[p].pc \in Waits \/ (proc'[p].pc = "fail" /\ proc[p].pc = "checked")
        /\ proc[p].pc = "checked" \/ Holds(proc[p].at) \/ UNCHANGED outbox
    BY <1>0, <1>5, EndType DEF Ends
  <2>2. proc'[p] # proc[p]
    BY <2>1 DEF Waits
  <2>3. CASE m = proc[p].at.msg /\ Holds(proc[p].at)
    <3>1. outbox[m].status = "processing" /\ proc[p].at.token = outbox[m].attempts
      BY <2>3 DEF Holds
    <3>2. proc[p].at = [msg |-> m, token |-> outbox[m].attempts]
      BY <1>0, <2>1, <2>3, <3>1, AtHand DEF Claims, Waits
    <3> QED
      BY <2>2, <3>1, <3>2 DEF Exclusive
  <2>4. CASE ~ (m = proc[p].at.msg /\ Holds(proc[p].at))
    <3>1. proc[p].pc = "checked" => Holds(proc[p].at)
      BY <1>0 DEF TransactionHolds, InTransaction
    <3>2. outbox'[m] = outbox[m]
      BY <2>1, <2>4, <3>1
    <3> QED
      BY <1>1, <3>2
  <2> QED
    BY <2>3, <2>4
<1>6. ASSUME NEW n \in Message, Times(n) PROVE Exclusive(m)
  <2>1. (m = n \/ outbox'[m] = outbox[m]) /\ outbox'[m].status = outbox[m].status
    BY <1>0, <1>6, TimeRows DEF Times
  <2>2. outbox[n].status \in {"pending", "processing"}
    BY <1>6 DEF Times, ExpireLease, PauseEnds
  <2> QED
    BY <2>1, <2>2 DEF Exclusive
<1> QED
  BY <1>1, <1>2, <1>3, <1>4, <1>5, <1>6, Kinds

\* Whatever the number of processes, messages and retries: a recorded end is final,
\* and a job in hand is ended by its present holder alone (complete_sms_outbox and
\* fail_sms_outbox compare the claim's token, sms_outbox.sql; the email outbox too).
THEOREM ExclusiveClaim == Spec => ClaimIsExclusive
<1>1. ClaimInv /\ [Next]_vars => [\A m \in Message : Exclusive(m)]_vars
  BY ExclusiveStep
<1>2. Spec => [][\A m \in Message : Exclusive(m)]_vars
  BY ClaimHolds, <1>1, PTL DEF Spec
<1> QED
  BY <1>2 DEF Exclusive, ClaimIsExclusive

------------------------------------------------------------------------------
(* The second of two confirmations sees the first                            *)

LEMMA OfBooking ==
  ASSUME NEW b \in Booking
  PROVE  Confirmations(b) \subseteq Message /\ Confirmations(b) # {}
         /\ \A n \in Confirmations(b) : n.booking = b
<1>1. [kind |-> "confirmation", booking |-> b, to |-> "client"] \in Confirmations(b)
  BY DEF Confirmations, Recipient
<1>2. ASSUME NEW n \in Confirmations(b) PROVE n \in Message /\ n.booking = b
  BY DEF Confirmations, Message
<1> QED
  BY <1>1, <1>2

LEMMA WithinBookings ==
  ASSUME NEW m \in Message
  PROVE  m.booking \in Nat /\ SameBooking(m) \subseteq Message
         /\ (m.booking # 0 => SameBooking(m) = Confirmations(m.booking))
<1>1. m.booking \in Booking \cup {0}
  BY DEF Message
<1>2. CASE m.booking = 0
  BY <1>2 DEF SameBooking
<1>3. CASE m.booking # 0
  BY <1>1, <1>3, OfBooking DEF SameBooking, Booking
<1> QED
  BY <1>2, <1>3

Unprocessed(n) == outbox[n].status \notin {"none", "processed"}

\* A step that processes nothing and finishes no look at the rows.
LEMMA OverlookKept ==
  ASSUME TypeOK, OverlookInv, UNCHANGED op,
         \A m \in Message : /\ outbox'[m].status = "none" <=> outbox[m].status = "none"
                            /\ outbox'[m].status = "processed" <=> outbox[m].status = "processed",
         \A q \in Process : proc'[q].pc = "checked" /\ ~ proc'[q].all =>
           \/ proc'[q] = proc[q]
           \/ /\ proc'[q].at.msg \in Message
              /\ \E n \in SameBooking(proc'[q].at.msg) : n # proc'[q].at.msg /\ Unprocessed(n),
         \A q \in Process : proc[q].pc = "checked" => proc[q].at.msg \in Message
  PROVE  OverlookInv'
<1>1. ASSUME NEW q \in Process, proc'[q].pc = "checked", ~ proc'[q].all
      PROVE  \E n \in SameBooking(proc'[q].at.msg) : n # proc'[q].at.msg /\ outbox'[n].status \notin {"none", "processed"}
  <2>1. /\ proc'[q].at.msg \in Message
        /\ \E n \in SameBooking(proc'[q].at.msg) : n # proc'[q].at.msg /\ Unprocessed(n)
    BY <1>1 DEF OverlookInv, LookedRight, Unprocessed
  <2> QED
    BY <2>1, WithinBookings DEF Unprocessed
<1>2. LookedRight'
  BY <1>1 DEF LookedRight, SameBooking, Confirmations
<1>3. op.status = "booking_confirmed" => \E m \in Confirmations(op.booking) : outbox'[m].status # "processed"
  <2>1. op.status = "booking_confirmed" => op.booking \in Booking
    BY OutboxAssumption DEF TypeOK, OverlookInv, Booking
  <2> QED
    BY <2>1, OfBooking DEF OverlookInv
<1>4. /\ op.booking \in {0, op.last} /\ (op.status = "booking_confirmed" => op.booking # 0)
      /\ \A m \in Message : m.booking > op.last => outbox'[m].status = "none"
  BY DEF OverlookInv
<1> QED
  BY <1>2, <1>3, <1>4 DEF OverlookInv, Confirmations

\* The transactions that queue messages hold the operation, so no look is in progress.
LEMMA OverlookQueued == ASSUME ClaimInv, OverlookInv, Queues PROVE OverlookInv'
<1>0. TypeOK /\ TransactionHolds
  BY DEF ClaimInv
<1>1. UNCHANGED <<proc, lock>> /\ lock = None
  BY <1>0, QueueType DEF Queues
<1>2. ASSUME NEW q \in Process PROVE proc[q].pc # "checked"
  BY <1>0, <1>1, OutboxAssumption DEF TransactionHolds
<1>3. LookedRight'
  BY <1>1, <1>2 DEF LookedRight
<1>4. op.last \in Nat /\ op.booking \in Nat /\ op.booking <= op.last /\ op \in OpRows
  BY <1>0 DEF TypeOK, OverlookInv, OpRows
<1>5. ASSUME NEW b \in Booking, ConfirmBooking(b) PROVE OverlookInv'
  <2>1. /\ op'.status = "booking_confirmed" /\ op'.booking = b /\ op'.last = b /\ b = op.last + 1
        /\ (outbox' = Enqueued(Confirmations(b)) \/ outbox' = outbox)
    BY <1>5 DEF ConfirmBooking
  <2>2. b \in Nat /\ b # 0 /\ b > op.last
    BY <1>4, <2>1
  <2>3. ASSUME NEW m \in Message, m.booking > b PROVE outbox'[m].status = "none"
    <3>1. m \notin Confirmations(b) /\ m.booking > op.last
      BY <1>4, <2>2, <2>3, OfBooking, WithinBookings
    <3> QED
      BY <1>0, <2>1, <3>1, QueuedRows DEF OverlookInv
  <2>4. PICK m \in Confirmations(b) : m \in Message /\ m.booking = b
    BY OfBooking
  <2>5. outbox'[m].status # "processed"
    BY <1>0, <2>1, <2>2, <2>4, QueuedRows DEF OverlookInv
  <2>6. \E n \in Confirmations(b) : outbox'[n].status # "processed"
    BY <2>4, <2>5
  <2> QED
    BY <1>3, <2>1, <2>2, <2>3, <2>6 DEF OverlookInv, Confirmations
<1>6. ASSUME ProviderCancels PROVE OverlookInv'
  <2>1. op' = [[op EXCEPT !.status = "sourcing"] EXCEPT !.booking = 0] /\ outbox' = outbox
    BY <1>6 DEF ProviderCancels
  <2>2. op'.status = "sourcing" /\ op'.booking = 0 /\ op'.last = op.last
    BY <1>0, <2>1, OpSet DEF OpStatus
  <2> QED
    BY <1>3, <2>1, <2>2 DEF OverlookInv
<1>7. ASSUME ClientCancels PROVE OverlookInv'
  <2>1. op' = [[op EXCEPT !.status = "cancelled"] EXCEPT !.booking = 0]
        /\ (outbox' = Enqueued(CancellationNotices) \/ outbox' = outbox)
    BY <1>7 DEF ClientCancels
  <2>2. op'.status = "cancelled" /\ op'.booking = 0 /\ op'.last = op.last
    BY <1>0, <2>1, OpSet DEF OpStatus
  <2>3. ASSUME NEW m \in Message, m.booking > op.last PROVE outbox'[m].status = "none"
    <3>1. m \notin CancellationNotices
      BY <1>4, <2>3 DEF CancellationNotices
    <3>2. outbox[m].status = "none"
      BY <2>3 DEF OverlookInv
    <3> QED
      BY <1>0, <2>1, <3>1, <3>2, QueuedRows
  <2> QED
    BY <1>3, <2>2, <2>3 DEF OverlookInv
<1>8. ASSUME QueueEmails PROVE OverlookInv'
  <2>1. op' = op /\ op.booking # 0 /\ outbox' = Enqueued(Confirmations(op.booking))
    BY <1>8 DEF QueueEmails
  <2>2. op.booking \in Booking
    BY <1>4, <2>1, OutboxAssumption DEF OpRows, Booking
  <2>3. ASSUME NEW m \in Message, m.booking > op.last PROVE outbox'[m].status = "none"
    <3>1. m \notin Confirmations(op.booking)
      BY <1>4, <2>2, <2>3, OfBooking
    <3>2. outbox[m].status = "none"
      BY <2>3 DEF OverlookInv
    <3> QED
      BY <1>0, <2>1, <3>1, <3>2, QueuedRows
  <2>4. ASSUME NEW m \in Message, outbox[m].status # "processed" PROVE outbox'[m].status # "processed"
    BY <1>0, <2>1, <2>4, QueuedRows
  <2>5. ASSUME op.status = "booking_confirmed"
        PROVE  \E m \in Confirmations(op.booking) : outbox'[m].status # "processed"
    BY <2>2, <2>4, <2>5, OfBooking DEF OverlookInv
  <2> QED
    BY <1>3, <2>1, <2>3, <2>5 DEF OverlookInv, Confirmations
<1> QED
  BY <1>5, <1>6, <1>7, <1>8 DEF Queues

\* Whoever commits a completion has the operation's row and looked since it had it:
\* what it found unprocessed is still so.
LEMMA OverlookEnds == ASSUME ClaimInv, OverlookInv, NEW p \in Process, Ends(p) PROVE OverlookInv'
<1> DEFINE m == proc[p].at.msg
<1>0. TypeOK /\ InHand /\ TransactionHolds
  BY DEF ClaimInv
<1>1. /\ m \in Message /\ Others(p) /\ proc'[p].pc \in Waits \cup {"fail"}
      /\ \A n \in Message : n # m => outbox'[n] = outbox[n]
      /\ \/ proc[p].pc = "checked" /\ outbox'[m].status = "processed" /\ op' = Notified(proc[p].all)
         \/ /\ proc[p].pc = "fail" /\ UNCHANGED op /\ Holds(proc[p].at)
            /\ outbox'[m].status \in {"pending", "failed"}
         \/ proc[p].pc = "fail" /\ UNCHANGED <<op, outbox>>
  BY <1>0, EndType DEF Ends
<1>2. ASSUME NEW q \in Process, proc[q].pc = "checked" PROVE proc[q].at.msg \in Message
  BY <1>0, <1>2, AtHand DEF Waits
<1>3. ASSUME NEW q \in Process, proc'[q].pc = "checked" PROVE proc'[q] = proc[q]
  BY <1>1, <1>3 DEF Others, Waits
<1>4. CASE proc[p].pc = "fail"
  <2>1. UNCHANGED op
    BY <1>1, <1>4
  <2>2. Holds(proc[p].at) => outbox[m].status = "processing"
    BY DEF Holds
  <2>3. \A n \in Message : /\ outbox'[n].status = "none" <=> outbox[n].status = "none"
                           /\ outbox'[n].status = "processed" <=> outbox[n].status = "processed"
    BY <1>1, <1>4, <2>2
  <2> QED
    BY <1>0, <1>2, <1>3, <2>1, <2>3, OverlookKept
<1>5. CASE proc[p].pc = "checked"
  <2>1. outbox'[m].status = "processed" /\ op' = Notified(proc[p].all) /\ outbox[m].status = "processing"
    BY <1>0, <1>1, <1>5 DEF TransactionHolds, InTransaction, Holds
  <2>2. ASSUME NEW q \in Process PROVE proc'[q].pc # "checked"
    BY <1>0, <1>1, <1>3, <1>5 DEF TransactionHolds, Waits
  <2>3. LookedRight'
    BY <2>2 DEF LookedRight
  <2>4. op'.booking = op.booking /\ op'.last = op.last /\ (op'.status = "booking_confirmed" => op' = op /\ ~ proc[p].all)
    BY <1>0, <2>1, OpSet DEF Notified, OpStatus
  <2>5. \A n \in Message : n.booking > op.last => outbox'[n].status = "none"
    BY <1>1, <2>1 DEF OverlookInv
  <2>6. ASSUME op.status = "booking_confirmed", ~ proc[p].all
        PROVE  \E n \in Confirmations(op.booking) : outbox'[n].status # "processed"
    <3>1. op.booking \in Booking /\ Confirmations(op.booking) \subseteq Message
      BY <1>0, <2>6, OfBooking, OutboxAssumption DEF TypeOK, OverlookInv, Booking
    <3>2. CASE m \in Confirmations(op.booking)
      <4>1. SameBooking(m) = Confirmations(op.booking)
        BY <1>1, <3>1, <3>2, OfBooking, WithinBookings DEF Booking
      <4> QED
        BY <1>1, <1>5, <2>6, <3>1, <4>1 DEF OverlookInv, LookedRight
    <3>3. CASE m \notin Confirmations(op.booking)
      BY <1>1, <2>6, <3>1, <3>3 DEF OverlookInv
    <3> QED
      BY <3>2, <3>3
  <2>7. op.booking \in {0, op.last} /\ (op.status = "booking_confirmed" => op.booking # 0)
    BY DEF OverlookInv
  <2> QED
    BY <2>3, <2>4, <2>5, <2>6, <2>7 DEF OverlookInv, Confirmations
<1> QED
  BY <1>1, <1>4, <1>5

LEMMA OverlookNext == ASSUME ClaimInv, OverlookInv, Next PROVE OverlookInv'
<1>0. TypeOK /\ InHand
  BY DEF ClaimInv
<1> DEFINE Same == \A m \in Message : /\ outbox'[m].status = "none" <=> outbox[m].status = "none"
                                      /\ outbox'[m].status = "processed" <=> outbox[m].status = "processed"
           Looks(q) == proc'[q].pc = "checked" /\ ~ proc'[q].all =>
                         \/ proc'[q] = proc[q]
                         \/ /\ proc'[q].at.msg \in Message
                            /\ \E n \in SameBooking(proc'[q].at.msg) : n # proc'[q].at.msg /\ Unprocessed(n)
<1>1. ASSUME NEW q \in Process, proc[q].pc = "checked" PROVE proc[q].at.msg \in Message
  BY <1>0, <1>1, AtHand DEF Waits
<1>2. ASSUME NEW p \in Process, Others(p), Looks(p) PROVE \A q \in Process : Looks(q)
  BY <1>2 DEF Others
<1>3. ASSUME NEW p \in Process, Poll(p) PROVE UNCHANGED op /\ Same /\ Others(p) /\ Looks(p)
  <2>1. PICK M \in SUBSET Claimable : Claim(p, M) /\ UNCHANGED op
    BY <1>0, <1>3, PollType
  <2>2. /\ \A m \in Message : m \notin M => outbox'[m] = outbox[m]
        /\ \A m \in M : outbox'[m].status = "processing"
        /\ Others(p) /\ proc'[p].pc = "next"
    BY <1>0, <2>1, ClaimFields
  <2>3. \A m \in M : outbox[m].status \in {"pending", "processing"}
    BY <2>1 DEF Claimable
  <2>4. Same
    BY <2>2, <2>3
  <2> QED
    BY <2>1, <2>2, <2>4
<1>4. ASSUME NEW p \in Process, Deliver(p) PROVE UNCHANGED op /\ Same /\ Others(p) /\ Looks(p)
  <2>1. PICK c \in proc[p].todo : Delivered(p, c) \/ AnswerLost(p, c) \/ Refused(p, c)
    BY <1>4 DEF Deliver
  <2>2. Others(p) /\ proc'[p].pc \in {"preview", "complete", "fail"} /\ UNCHANGED <<op, outbox>>
    BY <1>0, <2>1, DeliverType
  <2> QED
    BY <2>2
<1>5. ASSUME NEW p \in Process, Moves(p) PROVE UNCHANGED op /\ Same /\ Others(p) /\ Looks(p)
  <2>1. /\ Others(p) /\ UNCHANGED <<op, outbox>> /\ proc[p].pc \notin Waits
        /\ proc'[p].pc = "checked" => LookAtOthers(p)
    BY <1>0, <1>5, MoveType DEF Moves
  <2>2. ASSUME LookAtOthers(p), ~ proc'[p].all
        PROVE  /\ proc'[p].at.msg \in Message
               /\ \E n \in SameBooking(proc'[p].at.msg) : n # proc'[p].at.msg /\ Unprocessed(n)
    <3>1. LET m == proc[p].at.msg IN
          /\ proc'[p].at = proc[p].at
          /\ proc'[p].all = (\A n \in SameBooking(m) : n = m \/ outbox[n].status \in {"none", "processed"})
      BY <1>0, <2>2, LookFields
    <3>2. proc[p].at.msg \in Message
      BY <1>0, <2>1, AtHand
    <3> QED
      BY <2>2, <3>1, <3>2 DEF Unprocessed
  <2> QED
    BY <2>1, <2>2
<1>6. ASSUME NEW p \in Process, Crash(p) PROVE UNCHANGED op /\ Same /\ Others(p) /\ Looks(p)
  BY <1>0, <1>6, CrashType DEF IdleProcess
<1>7. ASSUME NEW m \in Message, Times(m) PROVE UNCHANGED op /\ Same /\ \A q \in Process : Looks(q)
  <2>1. UNCHANGED <<op, proc>>
    BY <1>0, <1>7, TimeType DEF Times
  <2>2. \A n \in Message : outbox'[n].status = outbox[n].status
    BY <1>0, <1>7, TimeRows DEF Times
  <2> QED
    BY <2>1, <2>2
<1>8. ASSUME UNCHANGED op, Same, \A q \in Process : Looks(q) PROVE OverlookInv'
  BY <1>0, <1>1, <1>8, OverlookKept
<1> HIDE DEF Same, Looks
<1> QED
  BY <1>2, <1>3, <1>4, <1>5, <1>6, <1>7, <1>8, OverlookQueued, OverlookEnds, Kinds

LEMMA OverlookInit == Init => OverlookInv
<1> SUFFICES ASSUME Init PROVE OverlookInv
  OBVIOUS
<1>1. /\ op.status = "sourcing" /\ op.booking = 0 /\ op.last = 0
      /\ \A m \in Message : outbox[m].status = "none"
      /\ \A q \in Process : proc[q].pc = "idle"
  BY DEF Init, NoRow, IdleProcess
<1> QED
  BY <1>1 DEF OverlookInv, LookedRight

LEMMA OverlookStep == ClaimInv /\ OverlookInv /\ [Next]_vars => OverlookInv'
<1>1. ASSUME OverlookInv, UNCHANGED vars PROVE OverlookInv'
  BY <1>1 DEF OverlookInv, LookedRight, SameBooking, Confirmations, vars
<1> QED
  BY <1>1, OverlookNext

\* Two processes, of any number, that complete the confirmations of a booking at the
\* same time do not both overlook the other: when no transaction is under way and all
\* are processed, the operation has left booking_confirmed (the row lock on the
\* operation between the UPDATE and the comparison, sms_outbox.sql).
THEOREM NoneOverlooked == Spec => []NobodyOverlooked
<1>1. OverlookInv => NobodyOverlooked
  BY DEF OverlookInv, NobodyOverlooked
<1> QED
  BY <1>1, ClaimHolds, OverlookInit, OverlookStep, PTL DEF Spec
------------------------------------------------------------------------------
(* What is processed was delivered                                           *)

Given(m) == Mode = "live" => sent[m] > 0
Shown(m) == Mode = "preview" /\ Channel = "email" => m \in previews

LEMMA DeliveryParts ==
  DeliveryInv <=> /\ \A m \in Message : outbox[m].status = "processed" => Given(m) /\ Shown(m)
                  /\ \A q \in Process : proc[q].pc \in Busy =>
                       Given(proc[q].at.msg) /\ (proc[q].pc # "preview" => Shown(proc[q].at.msg))
BY DEF DeliveryInv, ProcessedWasDelivered, Given, Shown, Busy

\* A step that delivers and takes back nothing.
LEMMA DeliveryKept ==
  ASSUME TypeOK, InHand, DeliveryInv, UNCHANGED sent, previews \subseteq previews',
         \A m \in Message : outbox'[m].status = "processed" =>
           \/ outbox[m].status = "processed"
           \/ \E q \in Process : proc[q].pc = "checked" /\ proc[q].at.msg = m,
         \A q \in Process : proc'[q].pc \in Busy =>
           \/ proc'[q] = proc[q]
           \/ /\ proc'[q].at = proc[q].at /\ proc[q].pc \in Busy
              /\ proc[q].pc = "preview" => proc[q].at.msg \in previews'
  PROVE  DeliveryInv'
<1>1. ASSUME NEW m \in Message, outbox'[m].status = "processed" PROVE Given(m)' /\ Shown(m)'
  BY <1>1, DeliveryParts DEF Given, Shown, Busy, InTransaction
<1>2. ASSUME NEW q \in Process, proc'[q].pc \in Busy
      PROVE  Given(proc[q].at.msg)' /\ (proc'[q].pc # "preview" => Shown(proc[q].at.msg)') /\ proc'[q].at = proc[q].at
  <2>1. Given(proc[q].at.msg) /\ (proc[q].pc # "preview" => Shown(proc[q].at.msg))
    BY <1>2, DeliveryParts
  <2>2. proc'[q] = proc[q] \/ (proc'[q].at = proc[q].at /\ (proc[q].pc = "preview" => proc[q].at.msg \in previews'))
    BY <1>2
  <2> QED
    BY <2>1, <2>2 DEF Given, Shown
<1> QED
  BY <1>1, <1>2 DEF DeliveryInv, ProcessedWasDelivered, Given, Shown, Busy

LEMMA DeliveryNext == ASSUME ClaimInv, DeliveryInv, Next PROVE DeliveryInv'
<1>0. TypeOK /\ InHand /\ TransactionHolds
  BY DEF ClaimInv
<1> DEFINE Finishes(m) == outbox'[m].status = "processed" =>
                         \/ outbox[m].status = "processed"
                         \/ \E q \in Process : proc[q].pc = "checked" /\ proc[q].at.msg = m
           Goes(q) == proc'[q].pc \in Busy =>
                        \/ proc'[q] = proc[q]
                        \/ /\ proc'[q].at = proc[q].at /\ proc[q].pc \in Busy
                           /\ proc[q].pc = "preview" => proc[q].at.msg \in previews'
           All == (\A m \in Message : Finishes(m)) /\ (\A q \in Process : Goes(q))
                  /\ UNCHANGED sent /\ previews \subseteq previews'
<1>1. ASSUME NEW p \in Process, Others(p), Goes(p) PROVE \A q \in Process : Goes(q)
  BY <1>1 DEF Others
<1>2. ASSUME Queues PROVE All
  <2>1. UNCHANGED <<proc, sent, previews>>
    BY <1>0, <1>2, QueueType DEF Queues
  <2>2. \A m \in Message : Finishes(m)
    BY <1>0, <1>2, QueueRows
  <2> QED
    BY <2>1, <2>2
<1>3. ASSUME NEW p \in Process, Poll(p) PROVE All
  <2>1. PICK M \in SUBSET Claimable : Claim(p, M) /\ UNCHANGED <<sent, previews>>
    BY <1>0, <1>3, PollType
  <2>2. /\ \A m \in Message : m \notin M => outbox'[m] = outbox[m]
        /\ \A m \in M : outbox'[m].status = "processing"
        /\ Others(p) /\ proc'[p].pc = "next"
    BY <1>0, <2>1, ClaimFields
  <2>3. (\A m \in Message : Finishes(m)) /\ Goes(p)
    BY <2>2 DEF Busy, InTransaction
  <2> QED
    BY <1>1, <2>1, <2>2, <2>3
<1>4. ASSUME NEW p \in Process, Moves(p) PROVE All
  <2>1. /\ Others(p) /\ UNCHANGED <<outbox, sent>> /\ proc'[p].at = proc[p].at
        /\ \/ proc'[p].pc = "fail" /\ UNCHANGED previews
           \/ proc[p].pc = "preview" /\ previews' = previews \cup {proc[p].at.msg}
           \/ proc[p].pc = "complete" /\ UNCHANGED previews
           \/ LockOperation(p) /\ UNCHANGED previews
           \/ LookAtOthers(p) /\ UNCHANGED previews
    BY <1>0, <1>4, MoveType DEF Moves
  <2>2. (LockOperation(p) => proc[p].pc = "marked") /\ (LookAtOthers(p) => proc[p].pc = "locked")
    BY DEF LockOperation, LookAtOthers
  <2>3. Goes(p) /\ previews \subseteq previews'
    BY <2>1, <2>2 DEF Busy, InTransaction
  <2> QED
    BY <1>1, <2>1, <2>3
<1>5. ASSUME NEW p \in Process, Ends(p) PROVE All
  <2>1. LET m == proc[p].at.msg IN
        /\ Others(p) /\ UNCHANGED <<previews, sent>> /\ proc'[p].pc \in Waits \cup {"fail"}
        /\ \A n \in Message : n # m => outbox'[n] = outbox[n]
        /\ outbox'[m].status \in {"pending", "failed"} \/ UNCHANGED outbox \/ proc[p].pc = "checked"
    BY <1>0, <1>5, EndType DEF Ends
  <2>2. \A m \in Message : Finishes(m)
    BY <2>1
  <2>3. Goes(p)
    BY <2>1 DEF Busy, InTransaction, Waits
  <2> QED
    BY <1>1, <2>1, <2>2, <2>3
<1>6. ASSUME NEW p \in Process, Crash(p) PROVE All
  <2>1. Others(p) /\ proc'[p] = IdleProcess /\ UNCHANGED <<outbox, previews, sent>>
    BY <1>0, <1>6, CrashType
  <2>2. Goes(p)
    BY <2>1 DEF Busy, InTransaction, IdleProcess
  <2> QED
    BY <1>1, <2>1, <2>2
<1>7. ASSUME NEW m \in Message, Times(m) PROVE All
  <2>1. UNCHANGED <<proc, sent, previews>>
    BY <1>0, <1>7, TimeType DEF Times
  <2>2. \A n \in Message : outbox'[n].status = outbox[n].status
    BY <1>0, <1>7, TimeRows DEF Times
  <2> QED
    BY <2>1, <2>2
<1>8. ASSUME NEW p \in Process, Deliver(p) PROVE DeliveryInv'
  <2>1. PICK c \in proc[p].todo : Delivered(p, c) \/ AnswerLost(p, c) \/ Refused(p, c)
    BY <1>8 DEF Deliver
  <2>2. /\ c.msg \in Message /\ Others(p) /\ proc'[p].at = c /\ UNCHANGED <<outbox, previews>>
        /\ \A n \in Message : sent[n] \in Nat /\ sent'[n] \in Nat /\ sent'[n] >= sent[n]
        /\ \/ proc'[p].pc = AfterDelivery /\ (Mode = "live" => sent'[c.msg] > 0)
           \/ proc'[p].pc = "fail"
    <3>1. \A n \in Message : sent[n] \in Nat
      BY <1>0, MessageRows
    <3> QED
      BY <1>0, <2>1, <3>1, DeliverType
  <2>3. ASSUME NEW m \in Message, outbox'[m].status = "processed" PROVE Given(m)' /\ Shown(m)'
    <3>1. outbox[m].status = "processed" /\ sent[m] \in Nat /\ sent'[m] \in Nat /\ sent'[m] >= sent[m]
      BY <2>2, <2>3
    <3>2. Given(m) /\ Shown(m)
      BY <3>1, DeliveryParts
    <3> QED
      BY <2>2, <3>1, <3>2 DEF Given, Shown
  <2>4. ASSUME NEW q \in Process, proc'[q].pc \in Busy
        PROVE  LET m == proc'[q].at.msg IN
               /\ Mode = "live" => sent'[m] > 0
               /\ Mode = "preview" /\ Channel = "email" /\ proc'[q].pc # "preview" => m \in previews'
    <3>1. CASE q = p
      BY <2>2, <2>4, <3>1 DEF Busy, InTransaction, AfterDelivery
    <3>2. CASE q # p
      <4>1. proc'[q] = proc[q]
        BY <2>2, <3>2 DEF Others
      <4>2. proc[q].at.msg \in Message
        BY <1>0, <2>4, <4>1, AtHand DEF Busy, InTransaction, Waits
      <4>3. Given(proc[q].at.msg) /\ (proc[q].pc # "preview" => Shown(proc[q].at.msg))
        BY <2>4, <4>1, DeliveryParts
      <4> QED
        BY <2>2, <4>1, <4>2, <4>3 DEF Given, Shown
    <3> QED
      BY <3>1, <3>2
  <2> QED
    BY <2>3, <2>4 DEF DeliveryInv, ProcessedWasDelivered, Given, Shown, Busy
<1>9. All => DeliveryInv'
  BY <1>0, DeliveryKept
<1> HIDE DEF All
<1> QED
  BY <1>2, <1>3, <1>4, <1>5, <1>6, <1>7, <1>8, <1>9, Kinds

LEMMA DeliveryStep == ClaimInv /\ DeliveryInv /\ [Next]_vars => DeliveryInv'
<1>1. ASSUME DeliveryInv, UNCHANGED vars PROVE DeliveryInv'
  BY <1>1 DEF DeliveryInv, ProcessedWasDelivered, vars
<1> QED
  BY <1>1, DeliveryNext

LEMMA DeliveryInit == Init => DeliveryInv
<1> SUFFICES ASSUME Init PROVE DeliveryInv
  OBVIOUS
<1>1. (\A m \in Message : outbox[m].status = "none") /\ (\A q \in Process : proc[q].pc = "idle")
  BY DEF Init, NoRow, IdleProcess
<1> QED
  BY <1>1 DEF DeliveryInv, ProcessedWasDelivered, Busy, InTransaction
------------------------------------------------------------------------------
(* A message is sent twice only when something went wrong with it            *)

Account(m) == /\ IsFiniteSet(Senders(m))
              /\ sent[m] + Cardinality(Senders(m)) <= mishaps[m] + Grant(m)

\* Nobody sends: what is no longer granted was a mishap.
LEMMA AccountKept ==
  ASSUME TypeOK, NEW m \in Message, NEW p, Account(m),
         Senders(m)' \in {Senders(m), Senders(m) \ {p}}, sent'[m] = sent[m], mishaps'[m] \in Nat,
         \/ mishaps'[m] >= mishaps[m] /\ (Granted(m) => Granted(m)')
         \/ mishaps'[m] >= mishaps[m] + 1
  PROVE  Account(m)'
<1>1. IsFiniteSet(Senders(m)') /\ Cardinality(Senders(m)') \in Nat /\ Cardinality(Senders(m)') <= Cardinality(Senders(m))
  <2>1. IsFiniteSet(Senders(m)) /\ Senders(m)' \in SUBSET Senders(m)
    BY DEF Account
  <2> QED
    BY <2>1, FS_Subset, FS_CardinalityType
<1>2. Cardinality(Senders(m)) \in Nat /\ sent[m] \in Nat /\ mishaps[m] \in Nat
  BY FS_CardinalityType, MessageRows DEF Account
<1>3. /\ Grant(m) \in {0, 1} /\ Grant(m)' \in {0, 1}
      /\ (Granted(m) => Granted(m)') => Grant(m) <= Grant(m)'
  BY DEF Grant
<1>4. sent[m] + Cardinality(Senders(m)) <= mishaps[m] + Grant(m)
  BY DEF Account
<1>5. sent'[m] + Cardinality(Senders(m)') <= mishaps'[m] + Grant(m)'
  <2> DEFINE k == Cardinality(Senders(m))
             j == Cardinality(Senders(m)')
             g == Grant(m)
             h == Grant(m)'
  <2> HIDE DEF k, j, g, h
  <2>1. /\ k \in Nat /\ j \in Nat /\ j <= k /\ g \in {0, 1} /\ h \in {0, 1}
        /\ sent[m] + k <= mishaps[m] + g
        /\ \/ mishaps'[m] >= mishaps[m] /\ g <= h
           \/ mishaps'[m] >= mishaps[m] + 1
    BY <1>1, <1>2, <1>3, <1>4 DEF k, j, g, h
  <2>2. sent'[m] + j <= mishaps'[m] + h
    BY <1>2, <2>1
  <2> QED
    BY <2>2 DEF j, h
<1> QED
  BY <1>1, <1>5 DEF Account

\* A batch is claimed: one sender more, and a grant that was not there.
LEMMA AccountClaimed ==
  ASSUME TypeOK, NEW m \in Message, NEW p, Account(m), Senders(m)' = Senders(m) \cup {p},
         sent'[m] = sent[m], mishaps'[m] = mishaps[m], ~ Granted(m), Granted(m)'
  PROVE  Account(m)'
<1>0. IsFiniteSet(Senders(m)) /\ Cardinality(Senders(m)) \in Nat /\ sent[m] \in Nat /\ mishaps[m] \in Nat
  BY FS_CardinalityType, MessageRows DEF Account
<1>1. /\ IsFiniteSet(Senders(m)') /\ Cardinality(Senders(m)') \in Nat
      /\ Cardinality(Senders(m)') <= Cardinality(Senders(m)) + 1
  <2>1. /\ IsFiniteSet(Senders(m) \cup {p})
        /\ Cardinality(Senders(m) \cup {p}) =
             IF p \in Senders(m) THEN Cardinality(Senders(m)) ELSE Cardinality(Senders(m)) + 1
    BY <1>0, FS_AddElement
  <2>2. /\ IsFiniteSet(Senders(m)')
        /\ Cardinality(Senders(m)') \in {Cardinality(Senders(m)), Cardinality(Senders(m)) + 1}
    BY <2>1
  <2> QED
    BY <1>0, <2>2
<1>2. Grant(m) = 0 /\ Grant(m)' = 1
  BY DEF Grant
<1>3. sent'[m] + Cardinality(Senders(m)') <= mishaps'[m] + Grant(m)'
  BY <1>0, <1>1, <1>2 DEF Account
<1> QED
  BY <1>1, <1>3 DEF Account

\* A job is handed over: one sender less, and at most one message more.
LEMMA AccountSent ==
  ASSUME TypeOK, NEW m \in Message, NEW p \in Senders(m), Account(m), Senders(m)' = Senders(m) \ {p},
         sent'[m] \in Nat, mishaps'[m] \in Nat, sent'[m] <= sent[m] + 1, mishaps'[m] >= mishaps[m],
         \/ Granted(m) => Granted(m)'
         \/ sent'[m] = sent[m]
         \/ mishaps'[m] >= mishaps[m] + 1
  PROVE  Account(m)'
<1> DEFINE k == Cardinality(Senders(m))
           j == Cardinality(Senders(m)')
           g == Grant(m)
           h == Grant(m)'
<1>1. /\ IsFiniteSet(Senders(m)') /\ k \in Nat /\ j = k - 1 /\ sent[m] \in Nat /\ mishaps[m] \in Nat
  BY FS_RemoveElement, FS_CardinalityType, MessageRows DEF Account
<1>2. g \in {0, 1} /\ h \in {0, 1} /\ ((Granted(m) => Granted(m)') => g <= h)
  BY DEF Grant
<1>3. sent[m] + k <= mishaps[m] + g
  BY DEF Account
<1> HIDE DEF k, j, g, h
<1>4. sent'[m] + j <= mishaps'[m] + h
  BY <1>1, <1>2, <1>3
<1> QED
  BY <1>1, <1>4 DEF Account, j, h

\* The present attempt at a job is held wherever it is still to do or being recorded.
LEMMA GrantKept ==
  ASSUME NEW m \in Message, Granted(m), outbox'[m] = outbox[m],
         \A q \in Process : \/ proc'[q] = proc[q]
                            \/ Current(m) \in proc[q].todo =>
                                 Current(m) \in proc'[q].todo \/ (Current(m) = proc'[q].at /\ proc'[q].pc \in Busy),
         \A q \in Process : \/ proc'[q] = proc[q]
                            \/ Current(m) = proc[q].at /\ proc[q].pc \in Busy =>
                                 Current(m) = proc'[q].at /\ proc'[q].pc \in Busy
  PROVE  Granted(m)'
<1>1. CASE outbox[m].status \in {"processed", "failed"}
  BY <1>1 DEF Granted
<1>2. CASE outbox[m].status = "processing" /\ outbox[m].lease = "held"
  <2>1. PICK q \in Process : Current(m) \in proc[q].todo \/ (Current(m) = proc[q].at /\ proc[q].pc \in Busy)
    BY <1>2 DEF Granted
  <2>2. Current(m) \in proc'[q].todo \/ (Current(m) = proc'[q].at /\ proc'[q].pc \in Busy)
    BY <2>1
  <2> QED
    BY <1>2, <2>2 DEF Granted, Current
<1> QED
  BY <1>1, <1>2 DEF Granted

LEMMA SameSenders ==
  ASSUME NEW m, \A q \in Process : proc'[q] = proc[q] \/ proc'[q].todo = proc[q].todo
  PROVE  Senders(m)' = Senders(m)
BY DEF Senders

LEMMA CountQueued == ASSUME ClaimInv, CountInv, Queues, NEW m \in Message PROVE Account(m)'
<1>0. TypeOK
  BY DEF ClaimInv
<1>1. UNCHANGED <<proc, sent, mishaps>>
  BY <1>0, QueueType DEF Queues
<1>2. Senders(m)' = Senders(m)
  BY <1>1 DEF Senders
<1>3. Granted(m) => Granted(m)'
  <2>1. CASE outbox'[m] = outbox[m]
    BY <1>1, <2>1, GrantKept
  <2>2. CASE outbox[m].status = "none"
    BY <2>2 DEF Granted
  <2> QED
    BY <1>0, <2>1, <2>2, QueueRows
<1> QED
  BY <1>0, <1>1, <1>2, <1>3, AccountKept, MessageRows DEF CountInv, Account

LEMMA CountPolled == ASSUME ClaimInv, CountInv, NEW p \in Process, Poll(p), NEW m \in Message PROVE Account(m)'
<1>0. TypeOK /\ InHand /\ Account(m)
  BY DEF ClaimInv, CountInv, Account
<1>1. PICK M \in SUBSET Claimable : Claim(p, M) /\ UNCHANGED <<sent, mishaps>> /\ proc[p].pc = "idle"
  BY <1>0, PollType
<1>2. /\ \A n \in Message : n \notin M => outbox'[n] = outbox[n]
      /\ \A n \in M : /\ outbox'[n].status = "processing" /\ outbox'[n].lease = "held"
                      /\ outbox'[n].attempts = outbox[n].attempts + 1
      /\ Others(p) /\ proc'[p].pc = "next" /\ proc'[p].at = proc[p].at
      /\ proc'[p].todo = {[msg |-> n, token |-> outbox[n].attempts + 1] : n \in M}
  BY <1>0, <1>1, ClaimFields
<1>3. proc[p].todo = {} /\ proc[p].pc \notin Busy /\ mishaps[m] \in Nat
  BY <1>0, <1>1, MessageRows DEF InHand, Busy, InTransaction
<1>4. CASE m \in M
  <2>1. ~ Granted(m)
    BY <1>1, <1>4 DEF Claimable, Granted
  <2>2. Current(m)' \in proc'[p].todo
    BY <1>2, <1>4 DEF Current
  <2>3. Granted(m)'
    BY <1>2, <1>4, <2>2 DEF Granted, Current
  <2>4. \E c \in proc'[p].todo : c.msg = m
    BY <2>2 DEF Current
  <2>5. Senders(m)' = Senders(m) \cup {p}
    BY <1>2, <2>4 DEF Senders, Others
  <2> QED
    BY <1>0, <1>1, <2>1, <2>3, <2>5, AccountClaimed
<1>5. CASE m \notin M
  <2>1. \A c \in proc'[p].todo : c.msg # m
    BY <1>2, <1>5
  <2>2. Senders(m)' = Senders(m)
    BY <1>2, <1>3, <2>1 DEF Senders, Others
  <2>3. Granted(m) => Granted(m)'
    BY <1>2, <1>3, <1>5, GrantKept DEF Others
  <2> QED
    BY <1>0, <1>1, <1>3, <2>2, <2>3, AccountKept
<1> QED
  BY <1>4, <1>5

LEMMA CountDelivered == ASSUME ClaimInv, CountInv, NEW p \in Process, Deliver(p), NEW m \in Message PROVE Account(m)'
<1>0. TypeOK /\ ClaimsAreOnes /\ Account(m)
  BY DEF ClaimInv, CountInv, Account
<1>1. PICK c \in proc[p].todo : Delivered(p, c) \/ AnswerLost(p, c) \/ Refused(p, c)
  BY DEF Deliver
<1>2. /\ c.msg \in Message /\ proc[p].pc = "next" /\ Others(p)
      /\ proc'[p].at = c /\ proc'[p].todo = proc[p].todo \ {c} /\ UNCHANGED outbox
      /\ sent' \in [Message -> Nat] /\ mishaps' \in [Message -> Nat]
      /\ \A n \in Message : n # c.msg => sent'[n] = sent[n] /\ mishaps'[n] = mishaps[n]
      /\ \/ /\ proc'[p].pc \in Busy /\ mishaps' = mishaps
            /\ sent'[c.msg] \in {sent[c.msg], sent[c.msg] + 1}
         \/ sent'[c.msg] = sent[c.msg] + 1 /\ mishaps'[c.msg] = mishaps[c.msg] + 1
         \/ sent' = sent /\ mishaps' = mishaps
  <2>1. AfterDelivery \in Busy
    BY DEF AfterDelivery, Busy
  <2> QED
    BY <1>0, <1>1, <2>1, DeliverType
<1>3. proc[p].pc \notin Busy /\ mishaps[m] \in Nat /\ sent[m] \in Nat
  BY <1>0, <1>2, MessageRows DEF Busy, InTransaction
<1>4. CASE m = c.msg
  <2>1. p \in Senders(m)
    BY <1>1, <1>4 DEF Senders
  <2>2. \A d \in proc[p].todo : d.msg = m => d = c
    BY <1>0, <1>1, <1>4 DEF ClaimsAreOnes
  <2>3. Senders(m)' = Senders(m) \ {p}
    BY <1>2, <1>4, <2>2 DEF Senders, Others
  <2>4. Granted(m) /\ proc'[p].pc \in Busy => Granted(m)'
    <3>1. Current(m) \in proc[p].todo => Current(m) = c
      BY <2>2 DEF Current
    <3> QED
      BY <1>2, <1>3, <3>1, GrantKept DEF Others
  <2> QED
    BY <1>0, <1>2, <1>3, <1>4, <2>1, <2>3, <2>4, AccountSent
<1>5. CASE m # c.msg
  <2>1. Senders(m)' = Senders(m)
    BY <1>2, <1>5 DEF Senders, Others
  <2>2. Granted(m) => Granted(m)'
    <3>1. Current(m) # c
      BY <1>5 DEF Current
    <3> QED
      BY <1>2, <1>3, <3>1, GrantKept DEF Others
  <2> QED
    BY <1>0, <1>2, <1>3, <1>5, <2>1, <2>2, AccountKept
<1> QED
  BY <1>4, <1>5

LEMMA CountMoved == ASSUME ClaimInv, CountInv, NEW p \in Process, Moves(p), NEW m \in Message PROVE Account(m)'
<1>0. TypeOK /\ InHand /\ Account(m)
  BY DEF ClaimInv, CountInv, Account
<1>1. /\ proc[p].pc \notin Waits /\ Others(p) /\ proc'[p].at = proc[p].at /\ proc'[p].todo = proc[p].todo
      /\ UNCHANGED <<outbox, sent>> /\ mishaps' \in [Message -> Nat]
      /\ \/ proc'[p].pc = "fail" /\ ((mishaps' = mishaps /\ ~ Holds(proc[p].at)) \/ Mishap(proc[p].at.msg))
         \/ proc'[p].pc \in Busy /\ mishaps' = mishaps
  BY <1>0, MoveType DEF Moves, Busy, InTransaction
<1>2. Senders(m)' = Senders(m) /\ mishaps[m] \in Nat /\ proc[p].at.msg \in Message
  BY <1>0, <1>1, AtHand, MessageRows DEF Senders, Others
<1>3. mishaps'[m] >= mishaps[m] /\ (m = proc[p].at.msg => mishaps' = mishaps \/ mishaps'[m] = mishaps[m] + 1)
  BY <1>0, <1>1, <1>2, MishapType
<1>4. ASSUME Granted(m), Current(m) # proc[p].at \/ proc'[p].pc \in Busy PROVE Granted(m)'
  BY <1>1, <1>4, GrantKept DEF Others
<1>5. ASSUME Granted(m), ~ Granted(m)', mishaps'[m] < mishaps[m] + 1 PROVE FALSE
  <2>1. Current(m) = proc[p].at /\ proc'[p].pc \notin Busy
    BY <1>4, <1>5
  <2>2. m = proc[p].at.msg
    BY <2>1 DEF Current
  <2>3. mishaps' = mishaps /\ ~ Holds(proc[p].at)
    BY <1>0, <1>1, <1>2, <1>5, <2>1, <2>2, MishapType
  <2>4. outbox[m].attempts = proc[p].at.token
    BY <2>1 DEF Current
  <2>5. outbox[m].status # "processing"
    BY <2>2, <2>3, <2>4 DEF Holds
  <2>6. Granted(m)'
    BY <1>1, <1>5, <2>5 DEF Granted
  <2> QED
    BY <1>5, <2>6
<1>6. mishaps'[m] \in Nat /\ sent'[m] = sent[m]
  BY <1>1
<1> QED
  BY <1>0, <1>2, <1>3, <1>5, <1>6, AccountKept

\* The process that records a failure was the only holder of the present attempt.
LEMMA CountEnded == ASSUME ClaimInv, CountInv, NEW p \in Process, Ends(p), NEW m \in Message PROVE Account(m)'
<1>0. TypeOK /\ InHand /\ ClaimsAreOnes /\ Account(m)
  BY DEF ClaimInv, CountInv, Account
<1> DEFINE n == proc[p].at.msg
<1>1. /\ n \in Message /\ proc[p].pc \in {"checked", "fail"} /\ Others(p) /\ proc'[p].todo = proc[p].todo
      /\ \A k \in Message : k # n => outbox'[k] = outbox[k]
      /\ UNCHANGED sent /\ mishaps' \in [Message -> Nat] /\ (mishaps' = mishaps \/ Mishap(n))
      /\ \/ proc[p].pc = "checked" /\ outbox'[n].status = "processed"
         \/ proc[p].pc = "fail" /\ Holds(proc[p].at)
         \/ proc[p].pc = "fail" /\ UNCHANGED outbox
  BY <1>0, EndType DEF Ends
<1>2. Senders(m)' = Senders(m) /\ mishaps[m] \in Nat /\ mishaps'[m] \in Nat /\ mishaps'[m] >= mishaps[m]
  <2>1. Senders(m)' = Senders(m)
    BY <1>1 DEF Senders, Others
  <2>2. mishaps[m] \in Nat /\ mishaps'[m] \in Nat
    BY <1>0, <1>1, MessageRows
  <2>3. mishaps'[m] \in {mishaps[m], mishaps[m] + 1}
    BY <1>0, <1>1, MishapType
  <2> QED
    BY <2>1, <2>2, <2>3
<1>3. Granted(m) => Granted(m)'
  <2>1. CASE outbox'[m] = outbox[m] /\ proc[p].pc = "fail"
    BY <1>1, <2>1, GrantKept DEF Others, Busy, InTransaction
  <2>2. CASE m # n
    <3>1. Current(m) # proc[p].at
      BY <2>2 DEF Current
    <3> QED
      BY <1>1, <2>2, <3>1, GrantKept DEF Others
  <2>3. CASE m = n /\ proc[p].pc = "checked"
    BY <1>1, <2>3 DEF Granted
  <2>4. CASE m = n /\ proc[p].pc = "fail" /\ Holds(proc[p].at)
    <3>1. proc[p].at = Current(m) /\ Current(m).token > 0
      BY <1>0, <1>1, <2>4, AtHand DEF Current, Holds, Claims, Waits
    <3>2. ASSUME NEW q \in Process, Current(m) \in proc[q].todo \/ (Current(m) = proc[q].at /\ proc[q].pc \in Busy)
          PROVE  FALSE
      <4>1. Current(m) \in Mine(p) \cap Mine(q)
        BY <3>1, <3>2 DEF Mine
      <4>2. q = p
        BY <1>0, <4>1 DEF ClaimsAreOnes
      <4> QED
        BY <1>0, <2>4, <3>1, <3>2, <4>2 DEF ClaimsAreOnes, Busy, InTransaction
    <3>3. outbox[m].status = "processing"
      BY <2>4 DEF Holds
    <3> QED
      BY <3>2, <3>3 DEF Granted
  <2> QED
    BY <1>1, <2>1, <2>2, <2>3, <2>4
<1> QED
  BY <1>0, <1>1, <1>2, <1>3, AccountKept

LEMMA CountCrashed == ASSUME ClaimInv, CountInv, NEW p \in Process, Crash(p), NEW m \in Message PROVE Account(m)'
<1>0. TypeOK /\ InHand /\ ClaimsAreOnes /\ Account(m)
  BY DEF ClaimInv, CountInv, Account
<1>1. /\ Others(p) /\ proc'[p] = IdleProcess /\ UNCHANGED <<outbox, sent>> /\ mishaps' \in [Message -> Nat]
      /\ mishaps'[m] = IF m \in Unfinished(p) THEN mishaps[m] + 1 ELSE mishaps[m]
  BY <1>0, CrashType
<1>2. Senders(m)' = Senders(m) \ {p} /\ mishaps[m] \in Nat
  BY <1>0, <1>1, MessageRows DEF Senders, Others, IdleProcess
<1>3. CASE m \in Unfinished(p)
  BY <1>0, <1>1, <1>2, <1>3, AccountKept
<1>4. CASE m \notin Unfinished(p)
  <2>1. Current(m) \notin proc[p].todo
    BY <1>4 DEF Unfinished, Current
  <2>2. ~ (Current(m) = proc[p].at /\ proc[p].pc \in Busy)
    <3>1. ASSUME Current(m) = proc[p].at, proc[p].pc \in Busy PROVE FALSE
      <4>1. proc[p].at.token > 0 /\ proc[p].at.msg = m
        BY <1>0, <3>1, AtHand DEF Current, Busy, InTransaction, Waits
      <4>2. proc[p].at # NoClaim
        BY <4>1 DEF NoClaim
      <4> QED
        BY <1>4, <4>1, <4>2 DEF Unfinished
    <3> QED
      BY <3>1
  <2>3. Granted(m) => Granted(m)'
    BY <1>1, <2>1, <2>2, GrantKept DEF Others
  <2> QED
    BY <1>0, <1>1, <1>2, <1>4, <2>3, AccountKept
<1> QED
  BY <1>3, <1>4

LEMMA CountTimed == ASSUME ClaimInv, CountInv, NEW n \in Message, Times(n), NEW m \in Message PROVE Account(m)'
<1>0. TypeOK /\ Account(m)
  BY DEF ClaimInv, CountInv, Account
<1>1. /\ UNCHANGED <<proc, sent>> /\ mishaps' \in [Message -> Nat]
      /\ \A k \in Message : k # n => mishaps'[k] = mishaps[k] /\ outbox'[k] = outbox[k]
      /\ PauseEnds(n) => mishaps' = mishaps
      /\ ExpireLease(n) => mishaps'[n] = mishaps[n] + 1 \/ (~ Held(n) /\ mishaps' = mishaps)
  BY <1>0, TimeType, TimeRows DEF Times
<1>2. Senders(m)' = Senders(m) /\ mishaps[m] \in Nat
  BY <1>0, <1>1, MessageRows DEF Senders
<1>3. CASE m # n
  BY <1>0, <1>1, <1>2, <1>3, GrantKept, AccountKept
<1>4. CASE m = n /\ PauseEnds(n)
  <2>1. ~ Granted(m)
    BY <1>4 DEF PauseEnds, Granted
  <2> QED
    BY <1>0, <1>1, <1>2, <1>4, <2>1, AccountKept
<1>5. CASE m = n /\ ExpireLease(n)
  <2>1. Granted(m) => Held(m)
    <3>1. ASSUME Granted(m) PROVE Held(m)
      <4>1. outbox[m].status = "processing" /\ \E q \in Process : Current(m) \in proc[q].todo \cup {proc[q].at}
        BY <1>5, <3>1 DEF ExpireLease, Granted
      <4>2. Current(m).msg = m /\ Holds(Current(m))
        BY <4>1 DEF Current, Holds
      <4> QED
        BY <4>1, <4>2 DEF Held
    <3> QED
      BY <3>1
  <2>2. mishaps'[m] >= mishaps[m] + 1 \/ (~ Granted(m) /\ mishaps'[m] >= mishaps[m])
    BY <1>1, <1>2, <1>5, <2>1
  <2> QED
    BY <1>0, <1>1, <1>2, <2>2, AccountKept
<1> QED
  BY <1>3, <1>4, <1>5 DEF Times

LEMMA CountStep == ClaimInv /\ CountInv /\ [Next]_vars => CountInv'
<1>1. ASSUME CountInv, UNCHANGED vars PROVE CountInv'
  BY <1>1 DEF CountInv, Senders, Grant, Granted, Current, vars
<1>2. ASSUME ClaimInv, CountInv, Next PROVE \A m \in Message : Account(m)'
  BY <1>2, CountQueued, CountPolled, CountDelivered, CountMoved, CountEnded, CountCrashed, CountTimed, Kinds
<1>3. ASSUME \A m \in Message : Account(m)' PROVE CountInv'
  BY <1>3 DEF CountInv, Account
<1> QED
  BY <1>1, <1>2, <1>3

LEMMA CountInit == Init => CountInv
<1> SUFFICES ASSUME Init PROVE CountInv
  OBVIOUS
<1>1. ASSUME NEW m \in Message
      PROVE  sent[m] = 0 /\ mishaps[m] = 0 /\ Senders(m) = {} /\ outbox[m].status = "none"
  BY DEF Init, Senders, IdleProcess, NoRow
<1>2. ASSUME NEW m \in Message PROVE IsFiniteSet(Senders(m)) /\ Cardinality(Senders(m)) = 0 /\ Grant(m) = 0
  BY <1>1, FS_EmptySet DEF Grant, Granted
<1> QED
  BY <1>1, <1>2 DEF CountInv

\* Whatever becomes of answers, leases and processes, and whatever their number: a
\* message that was sent again was lost sight of before, and what is recorded as
\* processed was handed over (the deterministic keys and the claim's token of
\* sms_outbox.sql and the email outbox).
THEOREM OutboxIsTrue == Spec => []NoticesAreTrue
<1>1. CountInv /\ TypeOK => DuplicateNeedsMishap
  <2> SUFFICES ASSUME CountInv, TypeOK, NEW m \in Message PROVE sent[m] <= 1 + mishaps[m]
    BY DEF DuplicateNeedsMishap
  <2>1. /\ Cardinality(Senders(m)) \in Nat /\ sent[m] + Cardinality(Senders(m)) <= mishaps[m] + Grant(m)
        /\ sent[m] \in Nat /\ mishaps[m] \in Nat
    BY FS_CardinalityType, MessageRows DEF CountInv
  <2>2. Grant(m) \in {0, 1}
    BY DEF Grant
  <2> QED
    BY <2>1, <2>2
<1>2. DeliveryInv => ProcessedWasDelivered
  BY DEF DeliveryInv
<1>3. ClaimInv => TypeOK
  BY DEF ClaimInv
<1>4. Spec => [](CountInv /\ DeliveryInv /\ ClaimInv)
  BY ClaimHolds, CountInit, CountStep, DeliveryInit, DeliveryStep, PTL DEF Spec
<1>5. CountInv /\ DeliveryInv /\ ClaimInv => NoticesAreTrue
  BY <1>1, <1>2, <1>3 DEF NoticesAreTrue
<1> QED
  BY <1>4, <1>5, PTL

(***************************************************************************)
(* What the disposal of evidence promises (EvidenceRetention), for any     *)
(* calls, recordings and workers: a recording is marked deleted only when  *)
(* Twilio has none, the aggregate that readers see agrees with the rows,   *)
(* and neither goes back.                                                  *)
(***************************************************************************)
CONSTANTS Calls, Recordings, Processes, Owner, Stuck, CallBatch, MaxSegments, MaxFaults
VARIABLES calls, order, text, inserts, spoken, recs, audio, callbacks, worker, disposalFaults
Disposal == INSTANCE EvidenceRetention WITH
  Batch <- CallBatch, proc <- worker, faults <- disposalFaults

\* The instance has its own names of the library's operators.
LEMMA SameFinite == \A S : Disposal!IsFiniteSet(S) <=> IsFiniteSet(S)
BY DEF Disposal!IsFiniteSet, IsFiniteSet

LEMMA SameCardinality == \A S : Disposal!Cardinality(S) = Cardinality(S)
BY DEF Disposal!Cardinality, Cardinality

LEMMA FiniteCalls == ASSUME Disposal!RetentionAssumption PROVE IsFiniteSet(Calls)
BY SameFinite DEF Disposal!RetentionAssumption

\* Segments with content, and the one being inserted, have been begun.
TextCounted ==
  \A c \in Calls : text[c] + (IF inserts[c] = "none" THEN 0 ELSE 1) <= spoken[c]

\* A row without a status is none, and only what was completed is deleted.
RowsKnown ==
  \A r \in Recordings : /\ recs[r].status = "unknown" => recs[r] = Disposal!Unknown
                        /\ recs[r].deleted => recs[r].status = "completed"

\* A callback is about a recording of its call, or that there is no audio.
CallbacksOwned ==
  \A b \in callbacks : IF b.rec = Disposal!NoRecording THEN b.status \in {"absent", "failed"}
                       ELSE Owner[b.rec] = b.call

\* A worker has completed recordings of its job's call in hand, and takes a
\* deletion for confirmed only when it was carried out.
JobHeld(job) == \A r \in job.recs : Owner[r] = job.call /\ recs[r].status = "completed"
JobsHeld ==
  \A p \in Processes :
    /\ \A i \in 1 .. Len(worker[p].jobs) : JobHeld(worker[p].jobs[i])
    /\ worker[p].pc # "idle" => worker[p].jobs # <<>>
    /\ worker[p].pc = "sent" =>
         worker[p].rec \in Disposal!JobAt(p).recs /\ (worker[p].ok => audio[worker[p].rec] = "gone")

\* What holds between all of them: the invariant.
DisposalInv ==
  /\ Disposal!TypeOK /\ TextCounted /\ RowsKnown /\ CallbacksOwned /\ JobsHeld
  /\ Disposal!DeletedIsGone /\ Disposal!AggregateIsTrue

------------------------------------------------------------------------------
(* What the parts of the state owe to each other *)

\* A job's fields.
LEMMA JobFields ==
  ASSUME NEW j \in Disposal!Job
  PROVE  j.call \in Calls /\ j.transcript \in BOOLEAN /\ j.recs \in SUBSET Recordings
BY DEF Disposal!Job

\* A worker that is not idle has a job in hand.
LEMMA JobInHand ==
  ASSUME Disposal!TypeOK, JobsHeld, NEW p \in Processes, worker[p].pc # "idle"
  PROVE  /\ worker[p].jobs \in Seq(Disposal!Job) /\ Len(worker[p].jobs) \in Nat \ {0}
         /\ Disposal!JobAt(p) = worker[p].jobs[1] /\ Disposal!JobAt(p) \in Disposal!Job /\ JobHeld(Disposal!JobAt(p))
<1>1. worker[p].jobs \in Seq(Disposal!Job)
  BY DEF Disposal!TypeOK, Disposal!ProcessState
<1>2. worker[p].jobs # <<>>
  BY DEF JobsHeld
<1>3. Len(worker[p].jobs) \in Nat \ {0}
  BY <1>1, <1>2
<1>4. Disposal!JobAt(p) = worker[p].jobs[1] /\ Disposal!JobAt(p) \in Disposal!Job
  BY <1>1, <1>2, <1>3 DEF Disposal!JobAt
<1>5. JobHeld(Disposal!JobAt(p))
  BY <1>3, <1>4 DEF JobsHeld
<1> QED BY <1>1, <1>3, <1>4, <1>5

\* What a step that leaves the recordings alone keeps.
LEMMA RowsStay ==
  ASSUME RowsKnown, Disposal!DeletedIsGone, UNCHANGED <<recs, audio>>
  PROVE  RowsKnown' /\ Disposal!DeletedIsGone'
BY DEF RowsKnown, Disposal!DeletedIsGone, Disposal!Unknown

\* The aggregate depends on the rows and its own column.
LEMMA AggregateStays ==
  ASSUME Disposal!AggregateIsTrue, UNCHANGED recs, \A c \in Calls : calls'[c].status = calls[c].status
  PROVE  Disposal!AggregateIsTrue'
<1> SUFFICES ASSUME NEW c \in Calls
    PROVE  LET live == Disposal!Live(c, recs', "completed") \cup Disposal!Live(c, recs', "in-progress") IN
             /\ calls'[c].status = "deleted" => live = {}
             /\ calls'[c].status \in {"completed", "deletion_pending"} => live # {}
  BY DEF Disposal!AggregateIsTrue
<1>1. calls'[c].status = calls[c].status /\ recs' = recs
  OBVIOUS
<1> QED BY <1>1 DEF Disposal!AggregateIsTrue

\* Jobs stay held while what was completed and what is gone stay so.
LEMMA JobsStay ==
  ASSUME JobsHeld, Disposal!TypeOK, UNCHANGED worker,
         \A r \in Recordings : recs[r].status = "completed" => recs'[r].status = "completed",
         \A r \in Recordings : audio[r] = "gone" => audio'[r] = "gone"
  PROVE  JobsHeld'
<1> SUFFICES ASSUME NEW p \in Processes
    PROVE  /\ \A i \in 1 .. Len(worker[p].jobs) : JobHeld(worker[p].jobs[i])'
           /\ worker[p].pc # "idle" => worker[p].jobs # <<>>
           /\ worker[p].pc = "sent" =>
                worker[p].rec \in Disposal!JobAt(p).recs /\ (worker[p].ok => audio'[worker[p].rec] = "gone")
  BY DEF JobsHeld, Disposal!JobAt
<1>1. worker[p].jobs \in Seq(Disposal!Job)
  BY DEF Disposal!TypeOK, Disposal!ProcessState
<1>2. ASSUME NEW i \in 1 .. Len(worker[p].jobs) PROVE JobHeld(worker[p].jobs[i])'
  <2>1. worker[p].jobs[i] \in Disposal!Job /\ JobHeld(worker[p].jobs[i])
    BY <1>1 DEF JobsHeld
  <2> QED BY <2>1, JobFields DEF JobHeld
<1>3. ASSUME worker[p].pc = "sent"
      PROVE  worker[p].rec \in Disposal!JobAt(p).recs /\ worker[p].rec \in Recordings
  BY <1>3, JobInHand, JobFields DEF JobsHeld
<1> QED BY <1>2, <1>3 DEF JobsHeld

\* What the aggregate computes: nothing is deleted while a recording may still be
\* there, and completed or pending only while one is.
LEMMA AggregateTells ==
  ASSUME NEW c \in Calls, NEW rows \in [Recordings -> Disposal!RecordingRow], NEW before,
         \A r \in Recordings : rows[r].status = "unknown" => rows[r] = Disposal!Unknown,
         Disposal!RecordingsOf(c, rows) = {} => before \notin {"completed", "deletion_pending"}
  PROVE  LET live == Disposal!Live(c, rows, "completed") \cup Disposal!Live(c, rows, "in-progress")
             status == Disposal!Aggregate(c, rows, before) IN
           /\ status = "deleted" => live = {}
           /\ status \in {"completed", "deletion_pending"} => live # {}
           /\ calls[c].expired /\ before # "completed" => status # "completed"
<1> DEFINE live == Disposal!Live(c, rows, "completed") \cup Disposal!Live(c, rows, "in-progress")
           status == Disposal!Aggregate(c, rows, before)
<1>1. CASE live # {}
  BY <1>1 DEF Disposal!Aggregate
<1>2. CASE live = {} /\ Disposal!RecordingsOf(c, rows) = {}
  <2>1. ~Disposal!Has(c, rows, "failed") /\ ~Disposal!Has(c, rows, "absent")
    BY <1>2 DEF Disposal!Has
  <2>2. status = before
    BY <1>2, <2>1 DEF Disposal!Aggregate
  <2> QED BY <1>2, <2>2
<1>3. CASE live = {} /\ Disposal!RecordingsOf(c, rows) # {}
  <2>1. PICK r \in Disposal!RecordingsOf(c, rows) : TRUE
    BY <1>3
  <2>2. rows[r] \in Disposal!RecordingRow /\ rows[r].status # "unknown"
    BY <2>1 DEF Disposal!RecordingsOf
  <2>3. rows[r].deleted \/ rows[r].status \in {"failed", "absent"}
    BY <1>3, <2>1, <2>2 DEF Disposal!Live, Disposal!RecordingRow, Disposal!Status
  <2>4. (\E x \in Disposal!RecordingsOf(c, rows) : rows[x].deleted) \/ Disposal!Has(c, rows, "failed") \/ Disposal!Has(c, rows, "absent")
    BY <2>1, <2>3 DEF Disposal!Has
  <2>5. status \in {"deleted", "failed", "absent"}
    BY <1>3, <2>4 DEF Disposal!Aggregate
  <2> QED BY <1>3, <2>5
<1> QED BY <1>1, <1>2, <1>3

\* Its value is one of those of the column.
LEMMA AggregateTyped ==
  ASSUME NEW c, NEW rows, NEW before \in Disposal!Status \cup {"pending", "deleted", "deletion_pending"}
  PROVE  Disposal!Aggregate(c, rows, before) \in Disposal!Status \cup {"pending", "deleted", "deletion_pending"}
BY DEF Disposal!Aggregate, Disposal!Status

\* A step that changes the rows of one call's recordings, and computes its
\* aggregate from them, leaves every aggregate true.
LEMMA AggregateFollows ==
  ASSUME Disposal!TypeOK, RowsKnown, Disposal!AggregateIsTrue, NEW c \in Calls, NEW before,
         recs' \in [Recordings -> Disposal!RecordingRow], RowsKnown',
         \A r \in Recordings : recs'[r] = recs[r] \/ (Owner[r] = c /\ recs'[r] # Disposal!Unknown),
         calls' = [calls EXCEPT ![c].status = Disposal!Aggregate(c, recs', before)],
         Disposal!RecordingsOf(c, recs) = {} => before = calls[c].status \/ before \in {"absent", "failed"}
  PROVE  Disposal!AggregateIsTrue'
<1>1. calls \in [Calls -> Disposal!CallRow]
  BY DEF Disposal!TypeOK
<1>2. ASSUME Disposal!RecordingsOf(c, recs') = {} PROVE before \notin {"completed", "deletion_pending"}
  <2>1. Disposal!RecordingsOf(c, recs) = {}
    BY <1>2 DEF Disposal!RecordingsOf
  <2>2. Disposal!Live(c, recs, "completed") = {} /\ Disposal!Live(c, recs, "in-progress") = {}
    BY <2>1 DEF Disposal!Live
  <2>3. calls[c].status \notin {"completed", "deletion_pending"}
    BY <2>2 DEF Disposal!AggregateIsTrue
  <2> QED BY <2>1, <2>3
<1>3. calls'[c].status = Disposal!Aggregate(c, recs', before)
  BY <1>1 DEF Disposal!CallRow
<1> SUFFICES ASSUME NEW d \in Calls
    PROVE  LET live == Disposal!Live(d, recs', "completed") \cup Disposal!Live(d, recs', "in-progress") IN
             /\ calls'[d].status = "deleted" => live = {}
             /\ calls'[d].status \in {"completed", "deletion_pending"} => live # {}
  BY DEF Disposal!AggregateIsTrue
<1>4. CASE d = c
  <2>1. \A r \in Recordings : recs'[r].status = "unknown" => recs'[r] = Disposal!Unknown
    BY DEF RowsKnown, Disposal!Unknown
  <2> QED BY <1>2, <1>3, <1>4, <2>1, AggregateTells
<1>5. CASE d # c
  <2>1. calls'[d] = calls[d]
    BY <1>1, <1>5
  <2>2. \A r \in Recordings : Owner[r] = d => recs'[r] = recs[r]
    BY <1>5
  <2>3. Disposal!RecordingsOf(d, recs') = Disposal!RecordingsOf(d, recs)
    BY <2>2 DEF Disposal!RecordingsOf
  <2>4. /\ Disposal!Live(d, recs', "completed") = Disposal!Live(d, recs, "completed")
        /\ Disposal!Live(d, recs', "in-progress") = Disposal!Live(d, recs, "in-progress")
    BY <2>2, <2>3 DEF Disposal!Live, Disposal!RecordingsOf
  <2>5. LET live == Disposal!Live(d, recs, "completed") \cup Disposal!Live(d, recs, "in-progress") IN
          /\ calls[d].status = "deleted" => live = {}
          /\ calls[d].status \in {"completed", "deletion_pending"} => live # {}
    BY DEF Disposal!AggregateIsTrue
  <2> QED BY <2>1, <2>4, <2>5
<1> QED BY <1>4, <1>5

------------------------------------------------------------------------------
(* The evidence expires; the transcript *)

LEMMA InitDisposal == ASSUME Disposal!RetentionAssumption, Disposal!Init PROVE DisposalInv
<1> USE DEF Disposal!RetentionAssumption
<1>1. calls \in [Calls -> Disposal!CallRow]
  BY DEF Disposal!Init, Disposal!CallRow
<1>2. order \in [Calls -> Nat]
  <2>1. Cardinality(Calls) \in Nat /\ Disposal!Cardinality(Calls) = Cardinality(Calls)
    BY FiniteCalls, FS_CardinalityType, SameCardinality
  <2>2. order \in [Calls -> 1 .. Disposal!Cardinality(Calls)]
    BY DEF Disposal!Init
  <2> QED BY <2>1, <2>2
<1>3. recs \in [Recordings -> Disposal!RecordingRow] /\ callbacks \subseteq Disposal!Callback
  BY DEF Disposal!Init, Disposal!RecordingRow, Disposal!Unknown
<1>4. worker \in [Processes -> Disposal!ProcessState]
  BY DEF Disposal!Init, Disposal!ProcessState, Disposal!Idle, Disposal!NoRecording
<1>5. Disposal!TypeOK
  BY <1>1, <1>2, <1>3, <1>4 DEF Disposal!Init, Disposal!TypeOK
<1>6. TextCounted /\ RowsKnown /\ CallbacksOwned /\ Disposal!DeletedIsGone
  BY DEF Disposal!Init, TextCounted, RowsKnown, CallbacksOwned, Disposal!DeletedIsGone, Disposal!Unknown
<1>7. JobsHeld
  BY DEF Disposal!Init, JobsHeld, Disposal!Idle
<1>8. Disposal!AggregateIsTrue
  BY DEF Disposal!Init, Disposal!AggregateIsTrue, Disposal!Live, Disposal!RecordingsOf, Disposal!Unknown
<1> QED BY <1>5, <1>6, <1>7, <1>8 DEF DisposalInv

LEMMA ExpireStep == ASSUME DisposalInv, NEW c \in Calls, Disposal!Expire(c) PROVE DisposalInv'
<1> USE DEF DisposalInv, Disposal!Expire
<1>1. calls \in [Calls -> Disposal!CallRow]
  BY DEF Disposal!TypeOK
<1>2. calls' \in [Calls -> Disposal!CallRow]
  BY <1>1 DEF Disposal!CallRow
<1>3. \A d \in Calls : calls'[d].status = calls[d].status
  BY <1>1 DEF Disposal!CallRow
<1>4. Disposal!TypeOK' /\ TextCounted' /\ CallbacksOwned'
  BY <1>2 DEF Disposal!TypeOK, Disposal!transcripts, TextCounted, CallbacksOwned
<1> QED BY <1>3, <1>4, AggregateStays, RowsStay, JobsStay

LEMMA LeaseStep == ASSUME DisposalInv, NEW c \in Calls, Disposal!LeaseExpires(c) PROVE DisposalInv'
<1> USE DEF DisposalInv, Disposal!LeaseExpires
<1>1. calls \in [Calls -> Disposal!CallRow]
  BY DEF Disposal!TypeOK
<1>2. calls' \in [Calls -> Disposal!CallRow]
  BY <1>1 DEF Disposal!CallRow
<1>3. \A d \in Calls : calls'[d].status = calls[d].status
  BY <1>1 DEF Disposal!CallRow
<1>4. Disposal!TypeOK' /\ TextCounted' /\ CallbacksOwned'
  BY <1>2 DEF Disposal!TypeOK, Disposal!transcripts, TextCounted, CallbacksOwned
<1> QED BY <1>3, <1>4, AggregateStays, RowsStay, JobsStay

\* Segments touch the transcript only.
LEMMA SegmentStep ==
  ASSUME DisposalInv, TextCounted', UNCHANGED <<calls, order, recs, audio, callbacks, worker,
         disposalFaults>>,
         text' \in [Calls -> 0 .. MaxSegments], spoken' \in [Calls -> 0 .. MaxSegments],
         inserts' \in [Calls -> {"none", "live", "late"}]
  PROVE  DisposalInv'
<1> USE DEF DisposalInv
<1>1. Disposal!TypeOK' /\ CallbacksOwned'
  BY DEF Disposal!TypeOK, CallbacksOwned
<1> QED BY <1>1, AggregateStays, RowsStay, JobsStay

LEMMA BeginSegmentStep ==
  ASSUME Disposal!RetentionAssumption, DisposalInv, NEW c \in Calls, Disposal!BeginSegment(c)
  PROVE  DisposalInv'
<1>1. /\ text \in [Calls -> 0 .. MaxSegments] /\ spoken \in [Calls -> 0 .. MaxSegments]
      /\ inserts \in [Calls -> {"none", "live", "late"}]
  BY DEF DisposalInv, Disposal!TypeOK
<1>2. spoken' \in [Calls -> 0 .. MaxSegments]
  BY <1>1 DEF Disposal!BeginSegment, Disposal!RetentionAssumption
<1>3. inserts' \in [Calls -> {"none", "live", "late"}] /\ text' = text
  BY <1>1 DEF Disposal!BeginSegment
<1>4. TextCounted'
  <2> SUFFICES ASSUME NEW d \in Calls
      PROVE text[d] + (IF inserts'[d] = "none" THEN 0 ELSE 1) <= spoken'[d]
    BY <1>3 DEF TextCounted
  <2>1. text[d] \in Nat /\ spoken[d] \in Nat /\ text[d] + (IF inserts[d] = "none" THEN 0 ELSE 1) <= spoken[d]
    BY <1>1 DEF DisposalInv, TextCounted, Disposal!RetentionAssumption
  <2>2. CASE d = c
    <3>1. spoken'[d] = spoken[d] + 1 /\ inserts[d] = "none"
      BY <1>1, <2>2 DEF Disposal!BeginSegment
    <3> QED BY <2>1, <3>1
  <2>3. CASE d # c
    BY <1>1, <2>1, <2>3 DEF Disposal!BeginSegment
  <2> QED BY <2>2, <2>3
<1> QED BY <1>1, <1>2, <1>3, <1>4, SegmentStep DEF Disposal!BeginSegment

LEMMA CommitSegmentStep ==
  ASSUME Disposal!RetentionAssumption, DisposalInv, NEW c \in Calls, Disposal!CommitSegment(c)
  PROVE  DisposalInv'
<1>1. /\ text \in [Calls -> 0 .. MaxSegments] /\ spoken \in [Calls -> 0 .. MaxSegments]
      /\ inserts \in [Calls -> {"none", "live", "late"}]
  BY DEF DisposalInv, Disposal!TypeOK
<1>2. \A d \in Calls : /\ text[d] \in Nat /\ spoken[d] \in 0 .. MaxSegments
                       /\ text[d] + (IF inserts[d] = "none" THEN 0 ELSE 1) <= spoken[d]
  BY <1>1 DEF DisposalInv, TextCounted, Disposal!RetentionAssumption
<1>3. text[c] + 1 \in 0 .. MaxSegments
  BY <1>2 DEF Disposal!CommitSegment, Disposal!RetentionAssumption
<1>4. text' \in [Calls -> 0 .. MaxSegments]
  BY <1>1, <1>3 DEF Disposal!CommitSegment
<1>5. inserts' \in [Calls -> {"none", "live", "late"}] /\ spoken' = spoken
  BY <1>1 DEF Disposal!CommitSegment
<1>6. TextCounted'
  <2> SUFFICES ASSUME NEW d \in Calls
      PROVE text'[d] + (IF inserts'[d] = "none" THEN 0 ELSE 1) <= spoken[d]
    BY <1>5 DEF TextCounted
  <2>1. CASE d = c
    <3>1. inserts'[d] = "none" /\ inserts[d] # "none" /\ (text'[d] = text[d] \/ text'[d] = text[d] + 1)
      BY <1>1, <2>1 DEF Disposal!CommitSegment
    <3> QED BY <1>2, <3>1
  <2>2. CASE d # c
    <3>1. inserts'[d] = inserts[d] /\ text'[d] = text[d]
      BY <1>1, <2>2 DEF Disposal!CommitSegment
    <3> QED BY <1>2, <3>1
  <2> QED BY <2>1, <2>2
<1> QED BY <1>1, <1>4, <1>5, <1>6, SegmentStep DEF Disposal!CommitSegment

------------------------------------------------------------------------------
(* Recordings at Twilio and their callbacks *)

\* Twilio moves on with a recording that is not gone, and says so.
LEMMA TwilioStep ==
  ASSUME DisposalInv, NEW r \in Recordings, audio[r] # "gone",
         NEW a \in {"recording", "stored", "gone"}, audio' = [audio EXCEPT ![r] = a],
         NEW b \in Disposal!Callback, callbacks' = callbacks \cup {b},
         IF b.rec = Disposal!NoRecording THEN b.status \in {"absent", "failed"} ELSE Owner[b.rec] = b.call,
         UNCHANGED <<calls, order, Disposal!transcripts, recs, worker, disposalFaults>>
  PROVE  DisposalInv'
<1> USE DEF DisposalInv
<1>1. audio \in [Recordings -> {"none", "recording", "stored", "gone"}]
  BY DEF Disposal!TypeOK
<1>2. \A x \in Recordings : audio[x] = "gone" => audio'[x] = "gone"
  BY <1>1
<1>3. audio' \in [Recordings -> {"none", "recording", "stored", "gone"}]
  BY <1>1
<1>4. Disposal!TypeOK'
  BY <1>3 DEF Disposal!TypeOK, Disposal!transcripts
<1>5. TextCounted' /\ RowsKnown' /\ Disposal!DeletedIsGone'
  BY <1>2 DEF TextCounted, RowsKnown, Disposal!DeletedIsGone, Disposal!transcripts, Disposal!Unknown
<1>6. CallbacksOwned'
  BY DEF CallbacksOwned
<1>7. Disposal!AggregateIsTrue'
  BY AggregateStays
<1>8. JobsHeld'
  BY <1>2, JobsStay
<1> QED BY <1>4, <1>5, <1>6, <1>7, <1>8

LEMMA StartRecordingStep ==
  ASSUME Disposal!RetentionAssumption, DisposalInv, NEW r \in Recordings, Disposal!StartRecording(r)
  PROVE  DisposalInv'
<1> DEFINE b == [call |-> Owner[r], rec |-> r, status |-> "in-progress"]
<1>1. b \in Disposal!Callback /\ b.rec = r /\ b.call = Owner[r] /\ r # Disposal!NoRecording
  BY DEF Disposal!RetentionAssumption, Disposal!Callback, Disposal!Status
<1>2. audio[r] # "gone" /\ audio' = [audio EXCEPT ![r] = "recording"] /\ callbacks' = callbacks \cup {b}
  BY DEF Disposal!StartRecording
<1>3. UNCHANGED <<calls, order, Disposal!transcripts, recs, worker, disposalFaults>>
  BY DEF Disposal!StartRecording
<1> HIDE DEF b
<1> QED BY <1>1, <1>2, <1>3, TwilioStep

LEMMA StoreRecordingStep ==
  ASSUME Disposal!RetentionAssumption, DisposalInv, NEW r \in Recordings, Disposal!StoreRecording(r)
  PROVE  DisposalInv'
<1> DEFINE b == [call |-> Owner[r], rec |-> r, status |-> "completed"]
<1>1. b \in Disposal!Callback /\ b.rec = r /\ b.call = Owner[r] /\ r # Disposal!NoRecording
  BY DEF Disposal!RetentionAssumption, Disposal!Callback, Disposal!Status
<1>2. audio[r] # "gone" /\ audio' = [audio EXCEPT ![r] = "stored"] /\ callbacks' = callbacks \cup {b}
  BY DEF Disposal!StoreRecording
<1>3. UNCHANGED <<calls, order, Disposal!transcripts, recs, worker, disposalFaults>>
  BY DEF Disposal!StoreRecording
<1> HIDE DEF b
<1> QED BY <1>1, <1>2, <1>3, TwilioStep

LEMMA NoAudioStep ==
  ASSUME Disposal!RetentionAssumption, DisposalInv, NEW r \in Recordings, NEW named \in BOOLEAN,
         NEW status \in {"absent", "failed"}, Disposal!NoAudio(r, named, status)
  PROVE  DisposalInv'
<1> DEFINE b == [call |-> Owner[r], rec |-> IF named THEN r ELSE Disposal!NoRecording, status |-> status]
<1>1. b \in Disposal!Callback /\ (b.rec = r \/ b.rec = Disposal!NoRecording) /\ b.call = Owner[r] /\ b.status = status
  BY DEF Disposal!RetentionAssumption, Disposal!Callback, Disposal!Status
<1>2. IF b.rec = Disposal!NoRecording THEN b.status \in {"absent", "failed"} ELSE Owner[b.rec] = b.call
  BY <1>1
<1>3. audio[r] # "gone" /\ audio' = [audio EXCEPT ![r] = "gone"] /\ callbacks' = callbacks \cup {b}
  BY DEF Disposal!NoAudio
<1>4. UNCHANGED <<calls, order, Disposal!transcripts, recs, worker, disposalFaults>>
  BY DEF Disposal!NoAudio
<1> HIDE DEF b
<1> QED BY <1>1, <1>2, <1>3, <1>4, TwilioStep

LEMMA CallbackLostStep ==
  ASSUME DisposalInv, Disposal!RetentionAssumption, NEW b \in callbacks, Disposal!CallbackLost(b)
  PROVE  DisposalInv'
<1> USE DEF DisposalInv, Disposal!CallbackLost
<1>1. disposalFaults' \in 0 .. MaxFaults
  BY DEF Disposal!TypeOK, Disposal!Fault, Disposal!RetentionAssumption
<1>2. Disposal!TypeOK' /\ TextCounted' /\ CallbacksOwned'
  BY <1>1 DEF Disposal!TypeOK, Disposal!transcripts, TextCounted, CallbacksOwned
<1> QED BY <1>2, AggregateStays, RowsStay, JobsStay

\* A callback's fields.
LEMMA CallbackFields ==
  ASSUME DisposalInv, NEW b \in callbacks
  PROVE  /\ b.call \in Calls /\ b.rec \in Recordings \cup {Disposal!NoRecording} /\ b.status \in Disposal!Status
         /\ IF b.rec = Disposal!NoRecording THEN b.status \in {"absent", "failed"} ELSE Owner[b.rec] = b.call
BY DEF DisposalInv, Disposal!TypeOK, Disposal!Callback, CallbacksOwned

\* What a row holds after a callback: nothing goes back.
LEMMA RecordedRow ==
  ASSUME NEW row \in Disposal!RecordingRow, NEW status \in Disposal!Status,
         row.status = "unknown" => row = Disposal!Unknown, row.deleted => row.status = "completed"
  PROVE  LET after == Disposal!Recorded(row, status) IN
           /\ after \in Disposal!RecordingRow /\ after.status # "unknown" /\ after # Disposal!Unknown
           /\ after.deleted = row.deleted /\ (after.deleted => after.status = "completed")
           /\ row.status = "completed" => after.status = "completed"
<1>1. CASE row.deleted \/ row.status = "completed"
  BY <1>1 DEF Disposal!Recorded, Disposal!RecordingRow, Disposal!Unknown
<1>2. CASE ~(row.deleted \/ row.status = "completed")
  <2>1. Disposal!Recorded(row, status) = [row EXCEPT !.status = status]
    BY <1>2 DEF Disposal!Recorded
  <2>2. [row EXCEPT !.status = status] \in Disposal!RecordingRow
    BY DEF Disposal!RecordingRow
  <2>3. [row EXCEPT !.status = status].status = status /\ [row EXCEPT !.status = status].deleted = row.deleted
    BY DEF Disposal!RecordingRow
  <2>4. status # "unknown" /\ Disposal!Unknown.status = "unknown"
    BY DEF Disposal!Status, Disposal!Unknown
  <2> QED BY <1>2, <2>1, <2>2, <2>3, <2>4
<1> QED BY <1>1, <1>2

\* The rows after a callback.
LEMMA RecordStatusRows ==
  ASSUME Disposal!RetentionAssumption, DisposalInv, NEW b \in callbacks, Disposal!RecordStatus(b)
  PROVE  /\ recs' \in [Recordings -> Disposal!RecordingRow] /\ RowsKnown' /\ Disposal!DeletedIsGone'
         /\ \A r \in Recordings : recs'[r] = recs[r] \/ (Owner[r] = b.call /\ recs'[r] # Disposal!Unknown)
         /\ \A r \in Recordings : recs[r].status = "completed" =>
              recs'[r].status = "completed" /\ (recs[r].deleted => recs'[r].deleted)
<1>1. recs \in [Recordings -> Disposal!RecordingRow] /\ audio' = audio
  BY DEF DisposalInv, Disposal!TypeOK, Disposal!RecordStatus
<1>2. CASE b.rec = Disposal!NoRecording
  <2>1. recs' = recs
    BY <1>2 DEF Disposal!RecordStatus
  <2> QED BY <1>1, <2>1, RowsStay DEF DisposalInv
<1>3. CASE b.rec \in Recordings
  <2>1. b.rec # Disposal!NoRecording /\ Owner[b.rec] = b.call /\ b.status \in Disposal!Status
    BY <1>3, CallbackFields DEF Disposal!RetentionAssumption
  <2>2. recs' = [recs EXCEPT ![b.rec] = Disposal!Recorded(recs[b.rec], b.status)]
    BY <2>1 DEF Disposal!RecordStatus
  <2> DEFINE after == Disposal!Recorded(recs[b.rec], b.status)
  <2>3. /\ after \in Disposal!RecordingRow /\ after.status # "unknown" /\ after # Disposal!Unknown
        /\ after.deleted = recs[b.rec].deleted /\ (after.deleted => after.status = "completed")
        /\ recs[b.rec].status = "completed" => after.status = "completed"
    <3>1. recs[b.rec] \in Disposal!RecordingRow
      BY <1>1, <1>3
    <3>2. /\ recs[b.rec].status = "unknown" => recs[b.rec] = Disposal!Unknown
          /\ recs[b.rec].deleted => recs[b.rec].status = "completed"
      BY <1>3 DEF DisposalInv, RowsKnown
    <3> QED BY <2>1, <3>1, <3>2, RecordedRow
  <2> HIDE DEF after
  <2>4. \A r \in Recordings : IF r = b.rec THEN recs'[r] = after ELSE recs'[r] = recs[r]
    BY <1>1, <2>2 DEF after
  <2>5. recs' \in [Recordings -> Disposal!RecordingRow]
    BY <1>1, <2>2, <2>3 DEF after
  <2>6. RowsKnown'
    BY <2>3, <2>4 DEF DisposalInv, RowsKnown, Disposal!Unknown
  <2>7. Disposal!DeletedIsGone'
    BY <1>1, <2>3, <2>4 DEF DisposalInv, Disposal!DeletedIsGone
  <2> QED BY <2>1, <2>3, <2>4, <2>5, <2>6, <2>7
<1> QED BY <1>2, <1>3, CallbackFields

LEMMA RecordStatusStep ==
  ASSUME Disposal!RetentionAssumption, DisposalInv, NEW b \in callbacks, Disposal!RecordStatus(b)
  PROVE  DisposalInv'
<1> DEFINE before == IF b.rec = Disposal!NoRecording THEN Disposal!Unnamed(b.call, b.status) ELSE calls[b.call].status
<1>1. /\ recs' \in [Recordings -> Disposal!RecordingRow] /\ RowsKnown' /\ Disposal!DeletedIsGone'
      /\ \A r \in Recordings : recs'[r] = recs[r] \/ (Owner[r] = b.call /\ recs'[r] # Disposal!Unknown)
      /\ \A r \in Recordings : recs[r].status = "completed" => recs'[r].status = "completed"
  BY RecordStatusRows
<1>2. b.call \in Calls /\ b.status \in Disposal!Status /\ (b.rec = Disposal!NoRecording => b.status \in {"absent", "failed"})
  BY CallbackFields
<1>3. calls \in [Calls -> Disposal!CallRow] /\ calls[b.call].status \in Disposal!Status \cup {"pending", "deleted", "deletion_pending"}
  BY <1>2 DEF DisposalInv, Disposal!TypeOK, Disposal!CallRow
<1>4. calls' = [calls EXCEPT ![b.call].status = Disposal!Aggregate(b.call, recs', before)]
  BY DEF Disposal!RecordStatus
<1>5. /\ before = calls[b.call].status \/ before \in {"absent", "failed"}
      /\ before \in Disposal!Status \cup {"pending", "deleted", "deletion_pending"}
  BY <1>2, <1>3 DEF Disposal!Unnamed
<1> HIDE DEF before
<1>6. Disposal!AggregateIsTrue'
  BY <1>1, <1>2, <1>4, <1>5, AggregateFollows DEF DisposalInv
<1>7. calls' \in [Calls -> Disposal!CallRow]
  <2>1. Disposal!Aggregate(b.call, recs', before) \in Disposal!Status \cup {"pending", "deleted", "deletion_pending"}
    BY <1>5, AggregateTyped
  <2> QED BY <1>3, <1>4, <2>1 DEF Disposal!CallRow
<1>8. disposalFaults' \in 0 .. MaxFaults
  BY DEF DisposalInv, Disposal!TypeOK, Disposal!RecordStatus, Disposal!Fault, Disposal!NoFault,
         Disposal!RetentionAssumption
<1>9. callbacks' \subseteq callbacks
  BY DEF Disposal!RecordStatus
<1>10. Disposal!TypeOK'
  BY <1>1, <1>7, <1>8, <1>9
     DEF DisposalInv, Disposal!TypeOK, Disposal!RecordStatus, Disposal!transcripts
<1>11. TextCounted' /\ CallbacksOwned'
  BY <1>9 DEF DisposalInv, TextCounted, CallbacksOwned, Disposal!RecordStatus, Disposal!transcripts
<1>12. JobsHeld'
  BY <1>1, JobsStay DEF DisposalInv, Disposal!RecordStatus
<1> QED BY <1>1, <1>6, <1>10, <1>11, <1>12 DEF DisposalInv

------------------------------------------------------------------------------
(* The worker *)

\* A worker moves on: what its new state has to hold.
LEMMA WorkerMoves ==
  ASSUME DisposalInv, NEW p \in Processes, NEW s \in Disposal!ProcessState,
         worker' = [worker EXCEPT ![p] = s],
         \A r \in Recordings : recs[r].status = "completed" => recs'[r].status = "completed",
         \A r \in Recordings : audio[r] = "gone" => audio'[r] = "gone",
         \A i \in 1 .. Len(s.jobs) : JobHeld(s.jobs[i]),
         s.pc # "idle" => s.jobs # <<>>,
         s.pc = "sent" => s.rec \in s.jobs[1].recs /\ (s.ok => audio'[s.rec] = "gone")
  PROVE  JobsHeld' /\ worker' \in [Processes -> Disposal!ProcessState]
<1>1. worker \in [Processes -> Disposal!ProcessState]
  BY DEF DisposalInv, Disposal!TypeOK
<1>2. worker' \in [Processes -> Disposal!ProcessState]
  BY <1>1
<1> SUFFICES ASSUME NEW q \in Processes
    PROVE  /\ \A i \in 1 .. Len(worker'[q].jobs) : JobHeld(worker[q].jobs[i])'
           /\ worker'[q].pc # "idle" => worker'[q].jobs # <<>>
           /\ worker'[q].pc = "sent" => worker'[q].rec \in Head(worker'[q].jobs).recs
                                      /\ (worker'[q].ok => audio'[worker'[q].rec] = "gone")
  BY <1>2 DEF JobsHeld, Disposal!JobAt
<1>3. CASE q = p
  <2>1. worker'[q] = s /\ s.jobs \in Seq(Disposal!Job)
    BY <1>1, <1>3 DEF Disposal!ProcessState
  <2>2. ASSUME NEW i \in 1 .. Len(s.jobs) PROVE JobHeld(worker[q].jobs[i])'
    <3>1. s.jobs[i] \in Disposal!Job /\ JobHeld(s.jobs[i])
      BY <2>1
    <3>2. s.jobs[i].recs \subseteq Recordings
      BY <3>1, JobFields
    <3> QED BY <2>1, <3>1, <3>2 DEF JobHeld
  <2>3. s.jobs # <<>> => Head(s.jobs) = s.jobs[1]
    BY <2>1
  <2> QED BY <2>1, <2>2, <2>3
<1>4. CASE q # p
  <2>1. worker'[q] = worker[q] /\ worker[q].jobs \in Seq(Disposal!Job)
    BY <1>1, <1>4 DEF Disposal!ProcessState
  <2>2. ASSUME NEW i \in 1 .. Len(worker[q].jobs) PROVE JobHeld(worker[q].jobs[i])'
    <3>1. worker[q].jobs[i] \in Disposal!Job /\ JobHeld(worker[q].jobs[i])
      BY <2>1 DEF DisposalInv, JobsHeld
    <3>2. worker[q].jobs[i].recs \subseteq Recordings
      BY <3>1, JobFields
    <3> QED BY <2>1, <3>1, <3>2 DEF JobHeld
  <2>3. ASSUME worker[q].pc = "sent"
        PROVE  worker[q].rec \in Recordings /\ worker[q].rec \in Disposal!JobAt(q).recs
    <3>1. worker[q].rec \in Disposal!JobAt(q).recs
      BY <2>3 DEF DisposalInv, JobsHeld
    <3>2. Disposal!JobAt(q) \in Disposal!Job
      BY <2>3, JobInHand DEF DisposalInv
    <3> QED BY <3>1, <3>2, JobFields
  <2>4. /\ worker[q].pc # "idle" => worker[q].jobs # <<>>
        /\ worker[q].pc = "sent" => (worker[q].ok => audio[worker[q].rec] = "gone")
    BY DEF DisposalInv, JobsHeld
  <2> QED BY <2>1, <2>2, <2>3, <2>4 DEF Disposal!JobAt
<1> QED BY <1>3, <1>4

\* Places are numbers.
LEMMA PlacesTyped ==
  ASSUME Disposal!RetentionAssumption, NEW c \in Calls PROVE Disposal!Checked(c) \in Nat
<1>1. IsFiniteSet(Calls \ Disposal!Claimed) /\ IsFiniteSet(Disposal!Claimed)
  <2>1. Calls \ Disposal!Claimed \subseteq Calls /\ Disposal!Claimed \subseteq Calls
    BY DEF Disposal!Claimed, Disposal!Due
  <2> QED BY <2>1, FiniteCalls, FS_Subset
<1>2. /\ IsFiniteSet(Disposal!Before(c, Disposal!Claimed)) /\ IsFiniteSet(Disposal!Before(c, Calls \ Disposal!Claimed))
  <2>1. Disposal!Before(c, Disposal!Claimed) \subseteq Disposal!Claimed /\ Disposal!Before(c, Calls \ Disposal!Claimed) \subseteq Calls \ Disposal!Claimed
    BY DEF Disposal!Before
  <2> QED BY <1>1, <2>1, FS_Subset
<1>3. /\ Cardinality(Calls \ Disposal!Claimed) \in Nat
      /\ Cardinality(Disposal!Before(c, Disposal!Claimed)) \in Nat /\ Cardinality(Disposal!Before(c, Calls \ Disposal!Claimed)) \in Nat
  BY <1>1, <1>2, FS_CardinalityType
<1>4. /\ Disposal!Cardinality(Calls \ Disposal!Claimed) \in Nat
      /\ Disposal!Cardinality(Disposal!Before(c, Disposal!Claimed)) \in Nat
      /\ Disposal!Cardinality(Disposal!Before(c, Calls \ Disposal!Claimed)) \in Nat
  BY <1>3, SameCardinality
<1> QED BY <1>4 DEF Disposal!Checked

\* The job made of a call is one, and holds.
LEMMA JobOfCall ==
  ASSUME NEW c \in Calls
  PROVE  Disposal!JobOf(c) \in Disposal!Job /\ JobHeld(Disposal!JobOf(c))
BY DEF Disposal!JobOf, Disposal!Job, JobHeld, Disposal!TextPending, Disposal!Deletable, Disposal!Live,
       Disposal!RecordingsOf

LEMMA ClaimStep ==
  ASSUME Disposal!RetentionAssumption, DisposalInv, NEW p \in Processes, Disposal!Claim(p)
  PROVE  DisposalInv'
<1>1. calls \in [Calls -> Disposal!CallRow]
  BY DEF DisposalInv, Disposal!TypeOK
<1>2. calls' \in [Calls -> Disposal!CallRow] /\ \A d \in Calls : calls'[d].status = calls[d].status
  BY <1>1 DEF Disposal!Claim, Disposal!CallRow
<1>3. order' \in [Calls -> Nat]
  BY PlacesTyped DEF Disposal!Claim
<1>4. UNCHANGED <<Disposal!transcripts, recs, audio, callbacks, disposalFaults>>
  BY DEF Disposal!Claim
<1>5. PICK batch \in [1 .. Cardinality(Disposal!Claimed) -> Disposal!Claimed] :
        worker' = [worker EXCEPT ![p] =
          [Disposal!Idle EXCEPT !.pc = "purge", !.jobs = [i \in DOMAIN batch |-> Disposal!JobOf(batch[i])]]]
  BY SameCardinality DEF Disposal!Claim
<1> DEFINE jobs == [i \in 1 .. Cardinality(Disposal!Claimed) |-> Disposal!JobOf(batch[i])]
           s == [Disposal!Idle EXCEPT !.pc = "purge", !.jobs = jobs]
<1>6. worker' = [worker EXCEPT ![p] = s]
  <2>1. DOMAIN batch = 1 .. Cardinality(Disposal!Claimed)
    OBVIOUS
  <2> QED BY <1>5, <2>1
<1>7. IsFiniteSet(Disposal!Claimed) /\ Disposal!Claimed \subseteq Calls
  <2>1. Disposal!Claimed \subseteq Calls
    BY DEF Disposal!Claimed, Disposal!Due
  <2> QED BY <2>1, FiniteCalls, FS_Subset
<1>8. Cardinality(Disposal!Claimed) \in Nat /\ Cardinality(Disposal!Claimed) # 0
  BY <1>7, FS_CardinalityType, FS_EmptySet DEF Disposal!Claim
<1>9. \A i \in 1 .. Cardinality(Disposal!Claimed) : jobs[i] \in Disposal!Job /\ JobHeld(jobs[i])
  BY <1>7, JobOfCall
<1>10. jobs \in Seq(Disposal!Job) /\ Len(jobs) = Cardinality(Disposal!Claimed) /\ jobs # <<>>
  <2> HIDE DEF jobs
  <2>1. jobs \in [1 .. Cardinality(Disposal!Claimed) -> Disposal!Job]
    BY <1>9 DEF jobs
  <2> QED BY <1>8, <2>1
<1>11. s \in Disposal!ProcessState
  <2> HIDE DEF jobs
  <2> QED BY <1>10 DEF Disposal!Idle, Disposal!ProcessState, Disposal!NoRecording
<1>12. s.pc = "purge" /\ s.jobs = jobs
  <2> HIDE DEF jobs
  <2> QED BY DEF Disposal!Idle
<1> HIDE DEF jobs, s
<1>13. \A i \in 1 .. Len(s.jobs) : JobHeld(s.jobs[i])
  BY <1>9, <1>10, <1>12
<1>14. s.jobs # <<>> /\ s.pc # "sent"
  BY <1>10, <1>12
<1>15. JobsHeld' /\ worker' \in [Processes -> Disposal!ProcessState]
  BY <1>4, <1>6, <1>11, <1>13, <1>14, WorkerMoves
<1>16. Disposal!TypeOK' /\ TextCounted' /\ CallbacksOwned'
  BY <1>2, <1>3, <1>4, <1>15
     DEF DisposalInv, Disposal!TypeOK, TextCounted, CallbacksOwned, Disposal!transcripts
<1> QED BY <1>2, <1>4, <1>15, <1>16, AggregateStays, RowsStay DEF DisposalInv

\* A worker that is at a job keeps its jobs and what it knows of them.
LEMMA WorkerStays ==
  ASSUME DisposalInv, NEW p \in Processes, worker[p].pc # "idle", NEW s \in Disposal!ProcessState,
         s.jobs = worker[p].jobs, worker' = [worker EXCEPT ![p] = s],
         \A r \in Recordings : recs[r].status = "completed" => recs'[r].status = "completed",
         \A r \in Recordings : audio[r] = "gone" => audio'[r] = "gone",
         s.pc = "sent" => s.rec \in Disposal!JobAt(p).recs /\ (s.ok => audio'[s.rec] = "gone")
  PROVE  JobsHeld' /\ worker' \in [Processes -> Disposal!ProcessState]
<1>1. s.jobs # <<>> /\ Disposal!JobAt(p) = s.jobs[1]
  BY JobInHand DEF DisposalInv, JobsHeld
<1>2. \A i \in 1 .. Len(s.jobs) : JobHeld(s.jobs[i])
  BY DEF DisposalInv, JobsHeld
<1> QED BY <1>1, <1>2, WorkerMoves

LEMMA PurgeStep ==
  ASSUME Disposal!RetentionAssumption, DisposalInv, NEW p \in Processes, Disposal!Purge(p)
  PROVE  DisposalInv'
<1>1. calls \in [Calls -> Disposal!CallRow] /\ worker[p] \in Disposal!ProcessState /\ worker[p].pc = "purge"
  BY DEF DisposalInv, Disposal!TypeOK, Disposal!Purge
<1> DEFINE s == [worker[p] EXCEPT !.pc = "delete"]
<1>2. s \in Disposal!ProcessState /\ s.pc = "delete" /\ s.jobs = worker[p].jobs
  BY <1>1 DEF Disposal!ProcessState
<1>3. worker' = [worker EXCEPT ![p] = s] /\ UNCHANGED <<order, inserts, spoken, recs, audio, callbacks>>
  BY DEF Disposal!Purge
<1> HIDE DEF s
<1>4. JobsHeld' /\ worker' \in [Processes -> Disposal!ProcessState]
  BY <1>1, <1>2, <1>3, WorkerStays
<1> DEFINE c == Disposal!JobAt(p).call
<1>5. c \in Calls
  BY <1>1, JobInHand, JobFields DEF DisposalInv
<1>6. /\ (text' = [text EXCEPT ![c] = 0] /\ calls' = [calls EXCEPT ![c].purged = TRUE]) \/ UNCHANGED <<text, calls>>
      /\ disposalFaults' \in 0 .. MaxFaults
  BY DEF Disposal!Purge, Disposal!Fault, Disposal!NoFault, DisposalInv, Disposal!TypeOK,
         Disposal!RetentionAssumption
<1> HIDE DEF c
<1>7. calls' \in [Calls -> Disposal!CallRow] /\ \A d \in Calls : calls'[d].status = calls[d].status
  <2>1. CASE calls' = [calls EXCEPT ![c].purged = TRUE]
    BY <1>1, <2>1 DEF Disposal!CallRow
  <2> QED BY <1>1, <1>6, <2>1
<1>8. text' \in [Calls -> 0 .. MaxSegments] /\ \A d \in Calls : text'[d] = text[d] \/ text'[d] = 0
  BY <1>5, <1>6 DEF DisposalInv, Disposal!TypeOK, Disposal!RetentionAssumption
<1>9. TextCounted'
  <2> SUFFICES ASSUME NEW d \in Calls
      PROVE text'[d] + (IF inserts[d] = "none" THEN 0 ELSE 1) <= spoken[d]
    BY <1>3 DEF TextCounted
  <2>1. text[d] \in Nat /\ spoken[d] \in Nat /\ text[d] + (IF inserts[d] = "none" THEN 0 ELSE 1) <= spoken[d]
    BY DEF DisposalInv, Disposal!TypeOK, TextCounted, Disposal!RetentionAssumption
  <2> QED BY <1>8, <2>1
<1>10. Disposal!TypeOK' /\ CallbacksOwned'
  BY <1>3, <1>4, <1>6, <1>7, <1>8 DEF DisposalInv, Disposal!TypeOK, CallbacksOwned
<1> QED BY <1>3, <1>4, <1>7, <1>9, <1>10, AggregateStays, RowsStay DEF DisposalInv

LEMMA DeleteRecordingStep ==
  ASSUME Disposal!RetentionAssumption, DisposalInv, NEW p \in Processes, NEW r \in Recordings,
         NEW carriedOut \in BOOLEAN, NEW answered \in BOOLEAN, Disposal!DeleteRecording(p, r, carriedOut,
         answered)
  PROVE  DisposalInv'
<1>1. /\ audio \in [Recordings -> {"none", "recording", "stored", "gone"}]
      /\ worker[p] \in Disposal!ProcessState /\ worker[p].pc = "delete" /\ r \in Disposal!JobAt(p).recs
  BY DEF DisposalInv, Disposal!TypeOK, Disposal!DeleteRecording
<1> DEFINE s == [worker[p] EXCEPT !.pc = "sent", !.rec = r, !.ok = answered]
<1>2. s \in Disposal!ProcessState /\ s.pc = "sent" /\ s.jobs = worker[p].jobs /\ s.rec = r /\ s.ok = answered
  BY <1>1 DEF Disposal!ProcessState
<1>3. worker' = [worker EXCEPT ![p] = s] /\ UNCHANGED <<calls, order, Disposal!transcripts, recs, callbacks>>
  BY DEF Disposal!DeleteRecording, Disposal!Confirmed
<1> HIDE DEF s
<1>4. /\ audio' \in [Recordings -> {"none", "recording", "stored", "gone"}]
      /\ \A x \in Recordings : audio[x] = "gone" => audio'[x] = "gone"
      /\ answered => audio'[r] = "gone"
  BY <1>1 DEF Disposal!DeleteRecording
<1>5. JobsHeld' /\ worker' \in [Processes -> Disposal!ProcessState]
  BY <1>1, <1>2, <1>3, <1>4, WorkerStays
<1>6. disposalFaults' \in 0 .. MaxFaults
  BY DEF Disposal!DeleteRecording, Disposal!Fault, Disposal!NoFault, DisposalInv, Disposal!TypeOK,
         Disposal!RetentionAssumption
<1>7. Disposal!TypeOK' /\ TextCounted' /\ CallbacksOwned'
  BY <1>3, <1>4, <1>5, <1>6
     DEF DisposalInv, Disposal!TypeOK, TextCounted, CallbacksOwned, Disposal!transcripts
<1>8. RowsKnown' /\ Disposal!DeletedIsGone'
  BY <1>3, <1>4 DEF DisposalInv, RowsKnown, Disposal!DeletedIsGone, Disposal!Unknown
<1>9. Disposal!AggregateIsTrue'
  BY <1>3, AggregateStays DEF DisposalInv
<1> QED BY <1>5, <1>7, <1>8, <1>9 DEF DisposalInv

\* What a row holds once its deletion was recorded, or its failure.
LEMMA DeletionRow ==
  ASSUME NEW row \in Disposal!RecordingRow, row.status = "completed", NEW ok \in BOOLEAN
  PROVE  LET after == Disposal!DeletionRecorded(row, ok) IN
           /\ after \in Disposal!RecordingRow /\ after.status = "completed"
           /\ row.deleted => after.deleted
           /\ after.deleted => row.deleted \/ ok
<1>1. CASE row.deleted
  BY <1>1 DEF Disposal!DeletionRecorded
<1>2. CASE ~row.deleted /\ ok
  BY <1>2 DEF Disposal!DeletionRecorded, Disposal!RecordingRow
<1>3. CASE ~row.deleted /\ ~ok
  <2>1. Disposal!DeletionRecorded(row, ok) = [row EXCEPT !.error = TRUE]
    BY <1>3 DEF Disposal!DeletionRecorded
  <2> QED BY <1>3, <2>1 DEF Disposal!RecordingRow
<1> QED BY <1>1, <1>2, <1>3

\* The deletion in hand is of a completed recording of the job's call, and
\* confirmed only when Twilio has none.
LEMMA DeletionInHand ==
  ASSUME DisposalInv, NEW p \in Processes, worker[p].pc = "sent"
  PROVE  /\ worker[p].rec \in Recordings /\ worker[p].ok \in BOOLEAN /\ Disposal!JobAt(p).call \in Calls
         /\ Owner[worker[p].rec] = Disposal!JobAt(p).call /\ recs[worker[p].rec] \in Disposal!RecordingRow
         /\ recs[worker[p].rec].status = "completed"
         /\ worker[p].ok => audio[worker[p].rec] = "gone"
<1>1. Disposal!JobAt(p) \in Disposal!Job /\ JobHeld(Disposal!JobAt(p))
  BY JobInHand DEF DisposalInv
<1>2. worker[p].rec \in Disposal!JobAt(p).recs /\ (worker[p].ok => audio[worker[p].rec] = "gone")
  BY DEF DisposalInv, JobsHeld
<1>3. Disposal!JobAt(p).call \in Calls /\ worker[p].rec \in Recordings
  BY <1>1, <1>2, JobFields
<1>4. recs[worker[p].rec] \in Disposal!RecordingRow /\ worker[p].ok \in BOOLEAN
  BY <1>3 DEF DisposalInv, Disposal!TypeOK, Disposal!ProcessState
<1> QED BY <1>1, <1>2, <1>3, <1>4 DEF JobHeld

\* The rows after the deletion was recorded, or could not be.
LEMMA CompleteDeletionRows ==
  ASSUME DisposalInv, NEW p \in Processes, Disposal!CompleteDeletion(p)
  PROVE  /\ recs' \in [Recordings -> Disposal!RecordingRow] /\ RowsKnown' /\ Disposal!DeletedIsGone'
         /\ \A r \in Recordings : recs'[r] = recs[r] \/ (Owner[r] = Disposal!JobAt(p).call /\ recs'[r] # Disposal!Unknown)
         /\ \A r \in Recordings : recs[r].status = "completed" =>
              recs'[r].status = "completed" /\ (recs[r].deleted => recs'[r].deleted)
<1> DEFINE r == worker[p].rec
           after == Disposal!DeletionRecorded(recs[r], worker[p].ok)
<1>1. recs \in [Recordings -> Disposal!RecordingRow] /\ audio' = audio /\ worker[p].pc = "sent"
  BY DEF DisposalInv, Disposal!TypeOK, Disposal!CompleteDeletion
<1>2. CASE recs' = recs
  BY <1>1, <1>2, RowsStay DEF DisposalInv
<1>3. CASE recs' = [recs EXCEPT ![r] = after]
  <2>1. /\ r \in Recordings /\ worker[p].ok \in BOOLEAN /\ Owner[r] = Disposal!JobAt(p).call
        /\ recs[r] \in Disposal!RecordingRow /\ recs[r].status = "completed" /\ (worker[p].ok => audio[r] = "gone")
    BY <1>1, DeletionInHand
  <2>2. /\ after \in Disposal!RecordingRow /\ after.status = "completed"
        /\ recs[r].deleted => after.deleted
        /\ after.deleted => recs[r].deleted \/ worker[p].ok
    BY <2>1, DeletionRow
  <2> HIDE DEF r, after
  <2>3. \A x \in Recordings : IF x = r THEN recs'[x] = after ELSE recs'[x] = recs[x]
    BY <1>1, <1>3
  <2>4. recs' \in [Recordings -> Disposal!RecordingRow]
    BY <1>1, <1>3, <2>2
  <2>5. after # Disposal!Unknown
    BY <2>2 DEF Disposal!Unknown
  <2>6. RowsKnown'
    BY <2>2, <2>3 DEF DisposalInv, RowsKnown, Disposal!Unknown
  <2>7. Disposal!DeletedIsGone'
    BY <1>1, <2>1, <2>2, <2>3 DEF DisposalInv, Disposal!DeletedIsGone
  <2> QED BY <2>1, <2>2, <2>3, <2>4, <2>5, <2>6, <2>7
<1>4. recs' = recs \/ recs' = [recs EXCEPT ![r] = after]
  BY DEF Disposal!CompleteDeletion
<1> QED BY <1>2, <1>3, <1>4

LEMMA CompleteDeletionStep ==
  ASSUME Disposal!RetentionAssumption, DisposalInv, NEW p \in Processes, Disposal!CompleteDeletion(p)
  PROVE  DisposalInv'
<1> DEFINE r == worker[p].rec
           c == Disposal!JobAt(p).call
<1>1. /\ recs' \in [Recordings -> Disposal!RecordingRow] /\ RowsKnown' /\ Disposal!DeletedIsGone'
      /\ \A x \in Recordings : recs'[x] = recs[x] \/ (Owner[x] = c /\ recs'[x] # Disposal!Unknown)
      /\ \A x \in Recordings : recs[x].status = "completed" => recs'[x].status = "completed"
  BY CompleteDeletionRows
<1>2. /\ calls \in [Calls -> Disposal!CallRow] /\ worker \in [Processes -> Disposal!ProcessState]
      /\ worker[p] \in Disposal!ProcessState /\ worker[p].pc = "sent"
  BY DEF DisposalInv, Disposal!TypeOK, Disposal!CompleteDeletion
<1>3. r \in Recordings /\ c \in Calls
  BY <1>2, DeletionInHand
<1>4. \/ UNCHANGED <<calls, recs>>
      \/ calls' = [calls EXCEPT ![c].status = Disposal!Aggregate(c, recs', calls[c].status)]
  BY DEF Disposal!CompleteDeletion, Disposal!AggregateAfter
<1>5. UNCHANGED <<order, Disposal!transcripts, audio, callbacks>>
  BY DEF Disposal!CompleteDeletion
<1>6. disposalFaults' \in 0 .. MaxFaults
  BY DEF Disposal!CompleteDeletion, Disposal!Fault, Disposal!NoFault, DisposalInv, Disposal!TypeOK,
         Disposal!RetentionAssumption
<1>7. Disposal!AggregateIsTrue' /\ calls' \in [Calls -> Disposal!CallRow]
  <2> HIDE DEF c
  <2>1. CASE UNCHANGED <<calls, recs>>
    BY <1>2, <2>1, AggregateStays DEF DisposalInv
  <2>2. CASE calls' = [calls EXCEPT ![c].status = Disposal!Aggregate(c, recs', calls[c].status)]
    <3>1. Disposal!AggregateIsTrue'
      BY <1>1, <1>3, <2>2, AggregateFollows DEF DisposalInv
    <3>2. calls[c].status \in Disposal!Status \cup {"pending", "deleted", "deletion_pending"}
      BY <1>2, <1>3 DEF Disposal!CallRow
    <3>3. Disposal!Aggregate(c, recs', calls[c].status) \in Disposal!Status \cup {"pending", "deleted", "deletion_pending"}
      BY <3>2, AggregateTyped
    <3> QED BY <1>2, <2>2, <3>1, <3>3 DEF Disposal!CallRow
  <2> QED BY <1>4, <2>1, <2>2
<1> DEFINE job == [worker[p].jobs[1] EXCEPT !.recs = @ \ {r}]
           jobs == [worker[p].jobs EXCEPT ![1] = job]
           s == [worker[p] EXCEPT !.pc = "delete", !.jobs = jobs, !.rec = Disposal!NoRecording]
<1>8. /\ worker[p].jobs \in Seq(Disposal!Job) /\ Len(worker[p].jobs) \in Nat \ {0}
      /\ worker[p].jobs[1] \in Disposal!Job /\ JobHeld(worker[p].jobs[1])
      /\ \A i \in 1 .. Len(worker[p].jobs) : JobHeld(worker[p].jobs[i])
  BY <1>2, JobInHand DEF DisposalInv, JobsHeld
<1>9. worker' = [worker EXCEPT ![p] = s]
  BY DEF Disposal!CompleteDeletion
<1>10. job \in Disposal!Job /\ JobHeld(job)
  BY <1>8 DEF Disposal!Job, JobHeld
<1>11. jobs \in Seq(Disposal!Job) /\ Len(jobs) = Len(worker[p].jobs) /\ \A i \in 1 .. Len(jobs) : JobHeld(jobs[i])
  <2> HIDE DEF job
  <2>1. jobs \in Seq(Disposal!Job) /\ Len(jobs) = Len(worker[p].jobs)
    BY <1>8, <1>10
  <2>2. \A i \in 1 .. Len(worker[p].jobs) : jobs[i] = IF i = 1 THEN job ELSE worker[p].jobs[i]
    BY <1>8
  <2> QED BY <1>8, <1>10, <2>1, <2>2
<1>12. jobs # <<>>
  <2> HIDE DEF jobs
  <2> QED BY <1>8, <1>11
<1>13. s \in Disposal!ProcessState /\ s.pc = "delete" /\ s.jobs = jobs
  <2> HIDE DEF jobs
  <2> QED BY <1>2, <1>11 DEF Disposal!ProcessState
<1> HIDE DEF s, jobs
<1>14. JobsHeld' /\ worker' \in [Processes -> Disposal!ProcessState]
  <2>1. \A x \in Recordings : audio[x] = "gone" => audio'[x] = "gone"
    BY <1>5
  <2>2. s.pc # "sent" /\ s.jobs # <<>> /\ \A i \in 1 .. Len(s.jobs) : JobHeld(s.jobs[i])
    BY <1>11, <1>12, <1>13
  <2> QED BY <1>1, <1>9, <1>13, <2>1, <2>2, WorkerMoves
<1>15. Disposal!TypeOK' /\ TextCounted' /\ CallbacksOwned'
  BY <1>1, <1>5, <1>6, <1>7, <1>14
     DEF DisposalInv, Disposal!TypeOK, TextCounted, CallbacksOwned, Disposal!transcripts
<1> QED BY <1>1, <1>7, <1>14, <1>15 DEF DisposalInv

\* The worker alone moves.
LEMMA WorkerOnly ==
  ASSUME DisposalInv, JobsHeld', worker' \in [Processes -> Disposal!ProcessState],
         disposalFaults' \in 0 .. MaxFaults,
         UNCHANGED <<calls, order, Disposal!transcripts, recs, audio, callbacks>>
  PROVE  DisposalInv'
<1>1. Disposal!TypeOK' /\ TextCounted' /\ CallbacksOwned'
  BY DEF DisposalInv, Disposal!TypeOK, TextCounted, CallbacksOwned, Disposal!transcripts
<1> QED BY <1>1, AggregateStays, RowsStay DEF DisposalInv

\* An idle worker holds nothing.
LEMMA IdleHolds ==
  ASSUME DisposalInv, NEW p \in Processes, worker' = [worker EXCEPT ![p] = Disposal!Idle],
         UNCHANGED <<recs, audio>>
  PROVE  JobsHeld' /\ worker' \in [Processes -> Disposal!ProcessState]
<1>1. Disposal!Idle \in Disposal!ProcessState /\ Disposal!Idle.pc = "idle" /\ Disposal!Idle.jobs = <<>>
  BY DEF Disposal!Idle, Disposal!ProcessState, Disposal!NoRecording
<1>2. \A i \in 1 .. Len(Disposal!Idle.jobs) : JobHeld(Disposal!Idle.jobs[i])
  BY <1>1
<1> HIDE DEF Disposal!Idle
<1> QED BY <1>1, <1>2, WorkerMoves

LEMMA JobDoneStep == ASSUME DisposalInv, NEW p \in Processes, Disposal!JobDone(p) PROVE DisposalInv'
<1>1. UNCHANGED <<calls, order, Disposal!transcripts, recs, audio, callbacks>> /\ disposalFaults' = disposalFaults /\ worker[p].pc = "delete"
  BY DEF Disposal!JobDone
<1> DEFINE rest == Tail(worker[p].jobs)
           s == [worker[p] EXCEPT !.pc = "purge", !.jobs = rest]
<1>2. /\ worker[p].jobs \in Seq(Disposal!Job) /\ worker[p].jobs # <<>> /\ worker[p] \in Disposal!ProcessState
      /\ \A i \in 1 .. Len(worker[p].jobs) : JobHeld(worker[p].jobs[i])
  BY <1>1 DEF DisposalInv, Disposal!TypeOK, JobsHeld, Disposal!ProcessState
<1>3. rest \in Seq(Disposal!Job) /\ \A i \in 1 .. Len(rest) : JobHeld(rest[i])
  <2>1. /\ Len(rest) = Len(worker[p].jobs) - 1 /\ Len(worker[p].jobs) \in Nat
        /\ \A i \in 1 .. Len(rest) : rest[i] = worker[p].jobs[i + 1]
    BY <1>2
  <2>2. rest \in Seq(Disposal!Job)
    BY <1>2
  <2> HIDE DEF rest
  <2> QED BY <1>2, <2>1, <2>2
<1> HIDE DEF rest
<1>4. JobsHeld' /\ worker' \in [Processes -> Disposal!ProcessState]
  <2>1. CASE rest = <<>>
    <3>1. worker' = [worker EXCEPT ![p] = Disposal!Idle]
      BY <2>1 DEF Disposal!JobDone, rest
    <3> QED BY <1>1, <3>1, IdleHolds
  <2>2. CASE rest # <<>>
    <3>1. worker' = [worker EXCEPT ![p] = s]
      BY <2>2 DEF Disposal!JobDone, rest
    <3>2. s \in Disposal!ProcessState /\ s.jobs = rest /\ s.pc = "purge"
      BY <1>2, <1>3 DEF Disposal!ProcessState
    <3> HIDE DEF s
    <3> QED BY <1>1, <1>3, <2>2, <3>1, <3>2, WorkerMoves
  <2> QED BY <2>1, <2>2
<1>5. disposalFaults' \in 0 .. MaxFaults
  BY <1>1 DEF DisposalInv, Disposal!TypeOK
<1> QED BY <1>1, <1>4, <1>5, WorkerOnly

LEMMA CrashStep ==
  ASSUME Disposal!RetentionAssumption, DisposalInv, NEW p \in Processes, Disposal!Crash(p)
  PROVE  DisposalInv'
<1>1. UNCHANGED <<calls, order, Disposal!transcripts, recs, audio, callbacks>> /\ worker' = [worker EXCEPT ![p] = Disposal!Idle]
  BY DEF Disposal!Crash
<1>2. disposalFaults' \in 0 .. MaxFaults
  BY DEF Disposal!Crash, Disposal!Fault, DisposalInv, Disposal!TypeOK, Disposal!RetentionAssumption
<1>3. JobsHeld' /\ worker' \in [Processes -> Disposal!ProcessState]
  BY <1>1, IdleHolds
<1> QED BY <1>1, <1>2, <1>3, WorkerOnly

------------------------------------------------------------------------------
(* Every step *)

LEMMA NextDisposal ==
  ASSUME Disposal!RetentionAssumption, DisposalInv, [Disposal!Next]_(Disposal!vars)
  PROVE  DisposalInv'
<1>1. ASSUME NEW c \in Calls, Disposal!Expire(c) \/ Disposal!BeginSegment(c) \/ Disposal!CommitSegment(c) \/ Disposal!LeaseExpires(c)
      PROVE  DisposalInv'
  BY <1>1, ExpireStep, BeginSegmentStep, CommitSegmentStep, LeaseStep
<1>2. CASE Disposal!Twilio
  BY <1>2, StartRecordingStep, StoreRecordingStep, NoAudioStep, RecordStatusStep, CallbackLostStep
     DEF Disposal!Twilio
<1>3. ASSUME NEW p \in Processes, Disposal!Worker(p) \/ Disposal!Crash(p) PROVE DisposalInv'
  BY <1>3, ClaimStep, PurgeStep, CompleteDeletionStep, JobDoneStep, DeleteRecordingStep, CrashStep
     DEF Disposal!Worker
<1>4. CASE UNCHANGED Disposal!vars
  <2>1. Disposal!TypeOK' /\ TextCounted' /\ CallbacksOwned'
    BY <1>4
       DEF DisposalInv, Disposal!TypeOK, TextCounted, CallbacksOwned, Disposal!vars,
           Disposal!transcripts
  <2>2. UNCHANGED <<recs, audio, worker, calls>>
    BY <1>4 DEF Disposal!vars
  <2> QED BY <2>1, <2>2, AggregateStays, RowsStay, JobsStay DEF DisposalInv
<1> QED BY <1>1, <1>2, <1>3, <1>4 DEF Disposal!Next

\* Callbacks and deletions are the steps that change a row, and neither takes a
\* completed recording back or revives a deleted one.
LEMMA RowsGoOneWay ==
  ASSUME Disposal!RetentionAssumption, DisposalInv, [Disposal!Next]_(Disposal!vars)
  PROVE  Disposal!NotRevived
<1>1. CASE UNCHANGED recs
  BY <1>1 DEF Disposal!NotRevived
<1>2. ASSUME NEW b \in callbacks, Disposal!RecordStatus(b) PROVE Disposal!NotRevived
  BY <1>2, RecordStatusRows DEF Disposal!NotRevived
<1>3. ASSUME NEW p \in Processes, Disposal!CompleteDeletion(p) PROVE Disposal!NotRevived
  BY <1>3, CompleteDeletionRows DEF Disposal!NotRevived
<1>4. \/ UNCHANGED recs
      \/ \E b \in callbacks : Disposal!RecordStatus(b)
      \/ \E p \in Processes : Disposal!CompleteDeletion(p)
  <2>1. CASE UNCHANGED Disposal!vars
    BY <2>1 DEF Disposal!vars
  <2>2. ASSUME NEW c \in Calls,
               \/ Disposal!Expire(c) \/ Disposal!BeginSegment(c)
               \/ Disposal!CommitSegment(c) \/ Disposal!LeaseExpires(c)
        PROVE  UNCHANGED recs
    BY <2>2 DEF Disposal!Expire, Disposal!BeginSegment, Disposal!CommitSegment, Disposal!LeaseExpires
  <2>3. CASE Disposal!Twilio
    BY <2>3 DEF Disposal!Twilio, Disposal!StartRecording, Disposal!StoreRecording, Disposal!NoAudio,
                Disposal!CallbackLost
  <2>4. ASSUME NEW p \in Processes, Disposal!Worker(p) \/ Disposal!Crash(p)
        PROVE  UNCHANGED recs \/ Disposal!CompleteDeletion(p)
    BY <2>4
       DEF Disposal!Worker, Disposal!Claim, Disposal!Purge, Disposal!JobDone, Disposal!DeleteRecording,
                Disposal!Crash
  <2> QED BY <2>1, <2>2, <2>3, <2>4 DEF Disposal!Next
<1> QED BY <1>1, <1>2, <1>3, <1>4

\* A column that is computed again after the expiry does not become completed.
LEMMA HiddenAfter ==
  ASSUME DisposalInv, RowsKnown', NEW c \in Calls, NEW before,
         recs' \in [Recordings -> Disposal!RecordingRow],
         calls' = [calls EXCEPT ![c].status = Disposal!Aggregate(c, recs', before)],
         calls[c].expired /\ calls[c].status # "completed" => before # "completed"
  PROVE  Disposal!ExpiredStaysHidden
<1>1. calls \in [Calls -> Disposal!CallRow]
  BY DEF DisposalInv, Disposal!TypeOK
<1> SUFFICES ASSUME NEW d \in Calls, calls[d].expired, calls[d].status # "completed"
             PROVE  calls'[d].status # "completed"
  BY DEF Disposal!ExpiredStaysHidden
<1>2. CASE d = c
  <2>1. calls'[c].status = Disposal!Aggregate(c, recs', before)
    BY <1>1 DEF Disposal!CallRow
  <2>2. before # "completed"
    BY <1>2
  <2>3. Disposal!Aggregate(c, recs', before) # "completed"
    <3>1. CASE Disposal!Live(c, recs', "completed") \cup Disposal!Live(c, recs', "in-progress") # {}
      BY <1>2, <3>1 DEF Disposal!Aggregate
    <3>2. CASE Disposal!Live(c, recs', "completed") \cup Disposal!Live(c, recs', "in-progress") = {}
      BY <2>2, <3>2 DEF Disposal!Aggregate
    <3> QED BY <3>1, <3>2
  <2> QED BY <1>2, <2>1, <2>3
<1>3. CASE d # c
  BY <1>1, <1>3
<1> QED BY <1>2, <1>3

LEMMA ExpiredIsHidden ==
  ASSUME Disposal!RetentionAssumption, DisposalInv, [Disposal!Next]_(Disposal!vars)
  PROVE  Disposal!ExpiredStaysHidden
<1>1. calls \in [Calls -> Disposal!CallRow]
  BY DEF DisposalInv, Disposal!TypeOK
<1>2. CASE \A d \in Calls : calls'[d].status = calls[d].status
  BY <1>2 DEF Disposal!ExpiredStaysHidden
<1>3. ASSUME NEW b \in callbacks, Disposal!RecordStatus(b) PROVE Disposal!ExpiredStaysHidden
  <2> DEFINE before == IF b.rec = Disposal!NoRecording THEN Disposal!Unnamed(b.call, b.status) ELSE calls[b.call].status
  <2>1. recs' \in [Recordings -> Disposal!RecordingRow] /\ RowsKnown'
    BY <1>3, RecordStatusRows
  <2>2. b.call \in Calls /\ (b.rec = Disposal!NoRecording => b.status \in {"absent", "failed"})
    BY CallbackFields
  <2>3. calls' = [calls EXCEPT ![b.call].status = Disposal!Aggregate(b.call, recs', before)]
    BY <1>3 DEF Disposal!RecordStatus
  <2>4. calls[b.call].status # "completed" => before # "completed"
    BY <2>2 DEF Disposal!Unnamed
  <2> HIDE DEF before
  <2> QED BY <2>1, <2>2, <2>3, <2>4, HiddenAfter
<1>4. ASSUME NEW p \in Processes, Disposal!CompleteDeletion(p) PROVE Disposal!ExpiredStaysHidden
  <2> DEFINE c == Disposal!JobAt(p).call
  <2>1. recs' \in [Recordings -> Disposal!RecordingRow] /\ RowsKnown'
    BY <1>4, CompleteDeletionRows
  <2>2. c \in Calls
    BY <1>4, DeletionInHand DEF Disposal!CompleteDeletion
  <2>3. calls' = calls \/ calls' = [calls EXCEPT ![c].status = Disposal!Aggregate(c, recs', calls[c].status)]
    BY <1>4 DEF Disposal!CompleteDeletion, Disposal!AggregateAfter
  <2> HIDE DEF c
  <2> QED BY <1>2, <2>1, <2>2, <2>3, HiddenAfter
<1>5. ASSUME NEW c \in Calls, Disposal!Expire(c) \/ Disposal!LeaseExpires(c)
      PROVE  \A d \in Calls : calls'[d].status = calls[d].status
  BY <1>1, <1>5 DEF Disposal!Expire, Disposal!LeaseExpires, Disposal!CallRow
<1>6. ASSUME NEW p \in Processes, Disposal!Claim(p)
      PROVE  \A d \in Calls : calls'[d].status = calls[d].status
  BY <1>1, <1>6 DEF Disposal!Claim, Disposal!CallRow
<1>7. ASSUME NEW p \in Processes, Disposal!Purge(p)
      PROVE  \A d \in Calls : calls'[d].status = calls[d].status
  BY <1>1, <1>7 DEF Disposal!Purge, Disposal!CallRow
<1>8. \/ UNCHANGED calls
      \/ \E b \in callbacks : Disposal!RecordStatus(b)
      \/ \E c \in Calls : Disposal!Expire(c) \/ Disposal!LeaseExpires(c)
      \/ \E p \in Processes : Disposal!CompleteDeletion(p) \/ Disposal!Claim(p) \/ Disposal!Purge(p)
  BY DEF Disposal!Next, Disposal!vars, Disposal!BeginSegment, Disposal!CommitSegment, Disposal!Twilio,
         Disposal!StartRecording,
         Disposal!StoreRecording, Disposal!NoAudio, Disposal!CallbackLost, Disposal!Worker,
         Disposal!JobDone, Disposal!DeleteRecording, Disposal!Crash
<1> QED BY <1>2, <1>3, <1>4, <1>5, <1>6, <1>7, <1>8

------------------------------------------------------------------------------
\* The rows, the callbacks on their way and the jobs in hand always agree, for any
\* calls, recordings, workers and bounds (call-evidence-retention-worker.ts).
THEOREM DisposalAgrees ==
  ASSUME Disposal!RetentionAssumption PROVE Disposal!Spec => []DisposalInv
<1>1. Disposal!Init => DisposalInv
  BY InitDisposal
<1>2. DisposalInv /\ [Disposal!Next]_(Disposal!vars) => DisposalInv'
  BY NextDisposal
<1> QED BY <1>1, <1>2, PTL DEF Disposal!Spec

\* Every variable of the disposal keeps its type.
THEOREM DisposalTypes ==
  ASSUME Disposal!RetentionAssumption PROVE Disposal!Spec => []Disposal!TypeOK
<1>1. DisposalInv => Disposal!TypeOK
  BY DEF DisposalInv
<1> QED BY <1>1, DisposalAgrees, PTL

\* A recording is marked deleted only when Twilio has none, the aggregate tells the
\* truth, no row goes back, and expired evidence is never made available again: with
\* callbacks and deletions in any order, lost and repeated.
THEOREM DisposalStaysTrue ==
  ASSUME Disposal!RetentionAssumption PROVE Disposal!Spec => Disposal!DisposalIsTrue
<1>1. DisposalInv /\ [Disposal!Next]_(Disposal!vars) => Disposal!NotRevived
  BY RowsGoOneWay
<1>2. DisposalInv /\ [Disposal!Next]_(Disposal!vars) => Disposal!ExpiredStaysHidden
  BY ExpiredIsHidden
<1>3. DisposalInv /\ [Disposal!Next]_(Disposal!vars) => (Disposal!DeletedIsGone /\ Disposal!AggregateIsTrue)'
  <2> SUFFICES ASSUME DisposalInv, [Disposal!Next]_(Disposal!vars)
               PROVE  (Disposal!DeletedIsGone /\ Disposal!AggregateIsTrue)'
    OBVIOUS
  <2>1. DisposalInv'
    BY NextDisposal
  <2> QED BY <2>1 DEF DisposalInv
<1>4. DisposalInv /\ [Disposal!Next]_(Disposal!vars)
      => [Disposal!DeletedIsGone' /\ Disposal!AggregateIsTrue' /\ Disposal!NotRevived /\ Disposal!ExpiredStaysHidden]_(Disposal!vars)
  BY <1>1, <1>2, <1>3
<1> QED BY <1>4, DisposalAgrees, PTL DEF Disposal!Spec, Disposal!DisposalIsTrue
==============================================================================
