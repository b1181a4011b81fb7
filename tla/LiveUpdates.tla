---------------------------- MODULE LiveUpdates ----------------------------
(***************************************************************************)
(* How a dashboard page follows the database. The server polls a revision  *)
(* for each open stream, a few stamps read in separate queries, and sends  *)
(* a message when it differs from the one it holds; the browser then reads *)
(* the page again. The page of one operation and the register of all open  *)
(* ones work alike and differ in what their revision is made of.           *)
(*                                                                         *)
(* A transaction is numbered when it begins, for that is the time now()    *)
(* gives it: the rows it writes carry that time, whenever it commits. Some *)
(* commands stamp their events once they hold the operation's lock: they   *)
(* are among those that commit in the order of their numbers.              *)
(***************************************************************************)
EXTENDS Integers, Sequences, FiniteSetsExt, TLC

CONSTANTS
  Scope,     \* "operation" or "register"
  Ops,
  Watched,   \* the operation of the page
  MaxTx, MaxDrops, MaxFaults

LiveAssumption ==
  /\ Scope \in {"operation", "register"} /\ Watched \in Ops
  /\ MaxTx \in Nat /\ MaxDrops \in Nat /\ MaxFaults \in Nat

VARIABLES
  log,      \* transactions begun, in the order of their now()
  done,     \* those committed
  row,      \* operations: updated_at, and whether neither cancelled nor failed
  conn,     \* the stream: off, opening or live
  cursor,   \* the revision the stream holds
  poll,     \* the revision being read
  inbox,    \* a change message on its way
  strip,    \* what the page says of its connection
  refresh,  \* the rereading of the page
  page,     \* what it shows: transactions its record, and its details, tell of
  drops, faults

vars == <<log, done, row, conn, cursor, poll, inbox, strip, refresh, page, drops, faults>>
database == <<log, done, row>>
stream == <<conn, cursor, poll, drops, faults>>
browser == <<refresh, page>>

Kinds == {"update", "close", "event"} \cup
         (IF Scope = "operation" THEN {"call"} ELSE {"action"})
Parts == {"row", "event", IF Scope = "operation" THEN "call" ELSE "action"}
Tx == 1 .. MaxTx
WritesRow(k) == k \in {"update", "close"}
WritesEvent(k) == k \in {"update", "close", "event"}

TypeOK ==
  /\ log \in Seq([kind : Kinds, op : Ops]) /\ Len(log) <= MaxTx
  /\ done \subseteq 1 .. Len(log)
  /\ row \in [Ops -> [stamp : 0 .. MaxTx, open : BOOLEAN]]
  /\ conn \in {"off", "opening", "live"} /\ strip \in {"connecting", "live", "reconnecting"}
  /\ poll.on \in BOOLEAN /\ DOMAIN poll.got \subseteq Parts
  /\ DOMAIN cursor \in {{}, Parts} /\ (conn = "live" => DOMAIN cursor = Parts)
  /\ inbox \in BOOLEAN
  /\ refresh \in [on : {"idle", "record", "details"}, record : SUBSET Tx, again : BOOLEAN]
  /\ page \in [record : SUBSET Tx, details : SUBSET Tx]
  /\ drops \in 0 .. MaxDrops /\ faults \in 0 .. MaxFaults

Unread == [on |-> FALSE, got |-> <<>>]
Rest == [on |-> "idle", record |-> {}, again |-> FALSE]
Init ==
  /\ log = <<>> /\ done = {}
  /\ row = [o \in Ops |-> [stamp |-> 0, open |-> TRUE]]
  /\ conn = "off" /\ cursor = <<>> /\ poll = Unread /\ inbox = FALSE
  /\ strip = "connecting" /\ refresh = Rest /\ page = [record |-> {}, details |-> {}]
  /\ drops = 0 /\ faults = 0

-----------------------------------------------------------------------------
(* The database.                                                           *)

Begin(k, o) ==
  /\ Len(log) < MaxTx /\ log' = Append(log, [kind |-> k, op |-> o])
  /\ UNCHANGED <<done, row, stream, inbox, strip, browser>>

\* Transactions commit in any order; those of one row queue up for its lock.
Commit(i) ==
  /\ i \in DOMAIN log \ done
  /\ WritesRow(log[i].kind) => row[log[i].op].open
  /\ done' = done \cup {i}
  /\ row' = IF WritesRow(log[i].kind)
            THEN [row EXCEPT ![log[i].op] = [stamp |-> i, open |-> log[i].kind # "close"]]
            ELSE row
  /\ UNCHANGED <<log, stream, inbox, strip, browser>>

-----------------------------------------------------------------------------
(* The revision.                                                           *)

Latest(S) == Max(S \cup {0})
CommittedOf(kinds, ops) == {i \in done : log[i].kind \in kinds /\ log[i].op \in ops}
OpenRows == {o \in Ops : row[o].open}

getDashboardRevision(part) ==
  CASE part = "row" -> IF OpenRows = {} THEN <<"no-active-operations">>
                       ELSE LET top == Max({row[o].stamp : o \in OpenRows}) IN
                            <<top, IF top = 0 THEN Ops ELSE log[top].op>>
    [] part = "event" -> Latest({i \in done : WritesEvent(log[i].kind)})
    [] part = "action" -> Latest(CommittedOf({"action"}, Ops))

getDashboardOperationRevision(part) ==
  CASE part = "row" -> row[Watched].stamp
    [] part = "event" -> Latest({i \in done : WritesEvent(log[i].kind) /\ log[i].op = Watched})
    [] part = "call" -> CommittedOf({"call"}, {Watched})

Read(part) == IF Scope = "operation" THEN getDashboardOperationRevision(part)
              ELSE getDashboardRevision(part)

\* The operation's row is read first, to know its id; the other queries run
\* side by side.
ReadPart(p) ==
  /\ poll.on /\ p \in Parts \ DOMAIN poll.got
  /\ Scope = "register" \/ p = "row" \/ "row" \in DOMAIN poll.got
  /\ poll' = [poll EXCEPT !.got = (p :> Read(p)) @@ @]
  /\ UNCHANGED <<database, conn, cursor, drops, faults, inbox, strip, browser>>

-----------------------------------------------------------------------------
(* The stream, on the server.                                              *)

\* The request is accepted and reads the revision its stream starts from.
Connect ==
  /\ conn = "off"
  /\ conn' = "opening" /\ poll' = [Unread EXCEPT !.on = TRUE]
  /\ UNCHANGED <<database, cursor, drops, faults, inbox, strip, browser>>

\* Its answer makes the page say it is live. The page is not read again.
Ready ==
  /\ conn = "opening" /\ DOMAIN poll.got = Parts
  /\ conn' = "live" /\ cursor' = poll.got /\ poll' = Unread
  /\ strip' = "live"
  /\ UNCHANGED <<database, drops, faults, inbox, browser>>

\* The timer fires; while a check is under way it does nothing.
StartPoll ==
  /\ conn = "live" /\ ~poll.on
  /\ poll' = [Unread EXCEPT !.on = TRUE]
  /\ UNCHANGED <<database, conn, cursor, drops, faults, inbox, strip, browser>>

\* Bug: only a new row is worth a message.
FinishPollOfRow ==
  /\ conn = "live" /\ DOMAIN poll.got = Parts
  /\ poll' = Unread /\ cursor' = poll.got
  /\ inbox' = (inbox \/ poll.got["row"] # cursor["row"])
  /\ UNCHANGED <<database, conn, drops, faults, strip, browser>>

FinishPoll ==
  /\ conn = "live" /\ DOMAIN poll.got = Parts
  /\ poll' = Unread /\ cursor' = poll.got
  /\ inbox' = (inbox \/ poll.got # cursor)
  /\ UNCHANGED <<database, conn, drops, faults, strip, browser>>

\* A query fails: a message says so, and the check is over.
PollFails ==
  /\ conn = "live" /\ poll.on /\ faults < MaxFaults
  /\ faults' = faults + 1 /\ poll' = Unread /\ strip' = "reconnecting"
  /\ UNCHANGED <<database, conn, cursor, drops, inbox, browser>>

\* The connection ends, or is refused: messages and cursor are gone with it,
\* and after a delay the page connects again.
reconnect ==
  /\ conn # "off" /\ drops < MaxDrops
  /\ drops' = drops + 1 /\ conn' = "off" /\ cursor' = <<>> /\ poll' = Unread
  /\ inbox' = FALSE /\ strip' = "reconnecting"
  /\ UNCHANGED <<database, faults, browser>>

-----------------------------------------------------------------------------
(* The page, in the browser.                                               *)

\* A change message: refreshes run one after the other.
Changed ==
  /\ inbox /\ inbox' = FALSE /\ strip' = "live"
  /\ refresh' = IF refresh.on = "idle" THEN [refresh EXCEPT !.on = "record"]
                ELSE [refresh EXCEPT !.again = TRUE]
  /\ UNCHANGED <<database, stream, page>>

\* A page is read in parts: first the rows of operations, then what hangs on
\* them. A part tells of the transactions committed when it is read.
RecordRead ==
  /\ refresh.on = "record"
  /\ refresh' = [refresh EXCEPT !.on = "details", !.record = done]
  /\ UNCHANGED <<database, stream, inbox, strip, page>>

PageRead(record, details) ==
  /\ refresh.on = "details"
  /\ page' = [record |-> record, details |-> details]
  /\ refresh' = IF refresh.again THEN [Rest EXCEPT !.on = "record"] ELSE Rest
  /\ UNCHANGED <<database, stream, inbox, strip>>

listDashboardOperationsPage == Scope = "register" /\ RecordRead
toDashboardOperations == Scope = "register" /\ PageRead(refresh.record, done)

DossierRow == Scope = "operation" /\ RecordRead
DossierDetails == Scope = "operation" /\ PageRead(refresh.record, done)

RereadPage ==
  listDashboardOperationsPage \/ toDashboardOperations \/ DossierRow \/ DossierDetails

-----------------------------------------------------------------------------
Next ==
  \/ \E k \in Kinds, o \in Ops : Begin(k, o)
  \/ \E i \in Tx : Commit(i)
  \/ \E p \in Parts : ReadPart(p)
  \/ Connect \/ Ready \/ StartPoll \/ FinishPoll \/ PollFails \/ reconnect
  \/ Changed \/ RereadPage

\* Timers fire, queries answer and the page carries out its refreshes; nobody
\* has to write anything, and begun transactions may never commit.
Fairness ==
  /\ WF_vars(Connect) /\ WF_vars(Ready) /\ WF_vars(StartPoll) /\ WF_vars(FinishPoll)
  /\ \A p \in Parts : WF_vars(ReadPart(p))
  /\ WF_vars(Changed) /\ WF_vars(RereadPage)

Spec == Init /\ [][Next]_vars /\ Fairness

-----------------------------------------------------------------------------
Shown(i) == i \in page.record /\ i \in page.details

\* The revision has moved on from the one the stream holds. The row of the
\* register does not count: when the operation on top is closed, an earlier
\* one takes its place again.
Overtaken ==
  \E p \in DOMAIN cursor \ (IF Scope = "register" THEN {"row"} ELSE {}) :
    cursor[p] # Read(p)

\* What must end: once a write makes the revision move on from the one a stream
\* holds, all that is committed is shown some time later, unless the connection
\* ends: torn readings, failed checks and refreshes that overlap lose nothing.
Unnoticed(i) == conn = "live" /\ i \in done /\ Overtaken
ShownOrLost(i) == Shown(i) \/ conn # "live"
=============================================================================
