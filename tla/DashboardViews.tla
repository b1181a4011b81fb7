--------------------------- MODULE DashboardViews ---------------------------
(***************************************************************************)
(* How the dashboard puts together what calls left behind. The evidence    *)
(* page reads the calls of an operation, the transcript of one of them and *)
(* the events, page by page while new rows come in, and sets the events    *)
(* beside what was said nearest to them. The record page makes one trace   *)
(* of all calls and events, and a ledger of it that follows live.          *)
(*                                                                         *)
(* Time counts ticks: Grain of them are a millisecond, Unit a second.      *)
(***************************************************************************)
EXTENDS Integers, FiniteSets, SequencesExt

CONSTANTS
  Calls, Rows,   \* calls, and rows of events and transcripts, there may be
  PageSize,      \* 500 rows in the code
  Grain, Unit,
  Window,        \* EVIDENCE_WINDOW_SECONDS in milliseconds
  Views,         \* the pages in an instance: "evidence", "record"
  Types,         \* the events in an instance: "lifecycle", "state", "spoken"
  MaxTime

ViewsAssumption ==
  /\ Calls \subseteq Nat \ {0} /\ Rows \subseteq Nat \ {0}
  /\ PageSize \in Nat \ {0} /\ Grain \in Nat \ {0} /\ Unit \in Nat \ {0}
  /\ Window \in Nat /\ MaxTime \in Nat /\ Views \subseteq {"evidence", "record"}
  /\ Types \subseteq {"lifecycle", "state", "spoken"}

VARIABLES
  now,
  calls,     \* calls of the operation
  events,    \* its events, some of them of a call
  segments,  \* transcript segments of the calls
  evidence,  \* the evidence page: what it was asked for and what it has read
  record,    \* the record page: what its last reading found
  ledger,    \* its decision ledger
  atLatest   \* history: entries there when the reader was last at the latest

vars == <<now, calls, events, segments, evidence, record, ledger, atLatest>>
database == <<now, calls, events, segments>>
recordPage == <<record, ledger, atLatest>>

NoCall == 0
Time == 0 .. MaxTime
Tables == {"calls", "segments", "events"}

CallRow == [id : Calls, at : Time, end : Time \cup {-1}]
EventRow == [id : Rows, at : Time, call : Calls \cup {NoCall}, type : Types]
Segment == [id : Rows, at : Time, call : Calls]

TypeOK ==
  /\ now \in Time /\ calls \subseteq CallRow
  /\ events \subseteq EventRow /\ segments \subseteq Segment
  /\ evidence.pc \in {"closed", "calls", "rows", "shown", "not_found"}
  /\ evidence.call \in Calls \cup {NoCall}
  /\ evidence.read.calls \in Seq(CallRow) /\ evidence.read.segments \in Seq(Segment)
  /\ evidence.read.events \in Seq(EventRow) /\ evidence.complete \subseteq Tables
  /\ record.calls \subseteq CallRow /\ record.events \subseteq EventRow
  /\ record.pc \in SUBSET {"calls", "events"}
  /\ ledger.pinned \in BOOLEAN /\ ledger.unseen \in Nat /\ ledger.mounted \in BOOLEAN

NothingRead == [t \in Tables |-> <<>>]
Init ==
  /\ now = 0 /\ calls = {} /\ events = {} /\ segments = {}
  /\ evidence = [pc |-> "closed", call |-> NoCall, read |-> NothingRead, complete |-> {},
                 before |-> [t \in Tables |-> {}]]
  /\ record = [pc |-> {}, calls |-> {}, events |-> {}]
  /\ ledger = [mounted |-> FALSE, known |-> {}, pinned |-> TRUE, unseen |-> 0]
  /\ atLatest = {}

-----------------------------------------------------------------------------
(* The database. A row may carry the time of a moment ago; the end of a    *)
(* call comes from the carrier in whole seconds.                           *)

Tick == now < MaxTime /\ now' = now + 1 /\ UNCHANGED <<calls, events, segments, evidence, recordPage>>
Recent == {t \in {now - 1, now} : t >= 0}
Begun == {c.id : c \in calls}
Free == Rows \ {r.id : r \in events \cup segments}

StartCall(c) ==
  /\ c \notin Begun /\ calls' = calls \cup {[id |-> c, at |-> now, end |-> -1]}
  /\ UNCHANGED <<now, events, segments, evidence, recordPage>>

EndCall(c) ==
  /\ c.end = -1
  /\ LET second == (now \div Unit) * Unit IN
     second >= c.at /\ calls' = (calls \ {c}) \cup {[c EXCEPT !.end = second]}
  /\ UNCHANGED <<now, events, segments, evidence, recordPage>>

RecordEvent(id, call, type) ==
  /\ \E t \in Recent : events' = events \cup {[id |-> id, at |-> t, call |-> call, type |-> type]}
  /\ UNCHANGED <<now, calls, segments, evidence, recordPage>>

Speak(id, call) ==
  /\ \E t \in Recent : segments' = segments \cup {[id |-> id, at |-> t, call |-> call]}
  /\ UNCHANGED <<now, calls, events, evidence, recordPage>>

-----------------------------------------------------------------------------
(* The evidence page.                                                      *)

Earlier(a, b) == a.at < b.at \/ (a.at = b.at /\ a.id < b.id)
LatestFirst(a, b) == a.at > b.at \/ (a.at = b.at /\ a.id < b.id)

\* The query of a table, in its order.
Query(t, call) ==
  CASE t = "calls" -> SetToSortSeq(calls, LatestFirst)
    [] t = "segments" -> SetToSortSeq({s \in segments : s.call = call}, Earlier)
    [] t = "events" -> SetToSortSeq({e \in events : e.call \in {call, NoCall}}, Earlier)

\* Bug: a page after the first begins one row after the end of the one before.
PageFromGap(rows, from) ==
  LET first == IF from = 0 THEN 1 ELSE from + 2 IN
  SubSeq(rows, first, Min({first + PageSize - 1, Len(rows)}))

PageFrom(rows, from) == SubSeq(rows, from + 1, Min({from + PageSize, Len(rows)}))

\* One page of a table; a short one is the last.
readAll(t) ==
  /\ t \notin evidence.complete
  /\ LET read == evidence.read[t]
         page == PageFrom(Query(t, evidence.call), Len(read)) IN
     evidence' = [evidence EXCEPT !.read[t] = read \o page,
                    !.complete = IF Len(page) < PageSize THEN @ \cup {t} ELSE @]
  /\ UNCHANGED <<database, recordPage>>

OpenEvidence(call) ==
  /\ "evidence" \in Views /\ evidence.pc = "closed"
  /\ evidence' = [evidence EXCEPT !.pc = "calls", !.call = call,
       !.before = [t \in Tables |-> IF t = "calls" THEN calls
                                    ELSE IF t = "segments" THEN segments ELSE events]]
  /\ UNCHANGED <<database, recordPage>>

ReadCalls == evidence.pc = "calls" /\ readAll("calls")

\* The call asked for, or the latest; without one there is no transcript.
SelectCall ==
  /\ evidence.pc = "calls" /\ "calls" \in evidence.complete
  /\ LET read == evidence.read["calls"]
         asked == evidence.call
         found == asked = NoCall \/ \E i \in DOMAIN read : read[i].id = asked
         call == IF asked = NoCall /\ read # <<>> THEN read[1].id ELSE asked IN
     evidence' = IF ~found THEN [evidence EXCEPT !.pc = "not_found"]
                 ELSE [evidence EXCEPT !.pc = "rows", !.call = call,
                         !.complete = IF call = NoCall THEN @ \cup {"segments"} ELSE @]
  /\ UNCHANGED <<database, recordPage>>

ReadRows == evidence.pc = "rows" /\ \E t \in {"segments", "events"} : readAll(t)

ShowEvidence ==
  /\ evidence.pc = "rows" /\ evidence.complete = Tables
  /\ evidence' = [evidence EXCEPT !.pc = "shown"]
  /\ UNCHANGED <<database, recordPage>>

CloseEvidence ==
  /\ evidence.pc \in {"shown", "not_found"}
  /\ evidence' = [evidence EXCEPT !.pc = "closed", !.call = NoCall, !.read = NothingRead,
                    !.complete = {}, !.before = [t \in Tables |-> {}]]
  /\ UNCHANGED <<database, recordPage>>

\* Date.parse keeps milliseconds.
Ms(t) == t \div Grain
Delta(s, e) == IF Ms(s.at) > Ms(e.at) THEN Ms(s.at) - Ms(e.at) ELSE Ms(e.at) - Ms(s.at)
NoMatch == [id |-> 0, at |-> 0, call |-> NoCall]

Nearer(e, best, s) ==
  IF /\ s.call = e.call /\ Delta(s, e) <= Window
     /\ \/ best = NoMatch \/ Delta(s, e) < Delta(best, e)
        \/ Delta(s, e) = Delta(best, e) /\ s.at < best.at
  THEN s ELSE best

matchEvidenceEvent(e, read) == FoldLeft(LAMBDA best, s : Nearer(e, best, s), NoMatch, read)

-----------------------------------------------------------------------------
(* The trace of the record page.                                           *)

\* Times are compared as text, by locale: the point before a fraction sorts
\* before the sign of the time zone, so a whole second comes last.
localeCompare(t) == (t \div Unit) * (Unit + 1) + (IF t % Unit = 0 THEN Unit ELSE t % Unit)

kindOrder == [call_started |-> 0, event |-> 1, call_ended |-> 2]

Node(kind, id, at, lane) == [kind |-> kind, id |-> id, at |-> at, lane |-> lane]
Before(a, b) ==
  LET x == localeCompare(a.at)  y == localeCompare(b.at) IN
  \/ x < y
  \/ x = y /\ kindOrder[a.kind] < kindOrder[b.kind]
  \/ x = y /\ a.kind = b.kind /\ a.id < b.id

\* An event of the operation's state, or of a call that was not read, goes
\* to the lane of the operation.
Lane(e, read) ==
  IF e.type # "state" /\ \E c \in read : c.id = e.call THEN e.call ELSE NoCall

toOperationTrace(read, rows) ==
  SetToSortSeq({Node("call_started", c.id, c.at, c.id) : c \in read}
               \cup {Node("call_ended", c.id, c.end, c.id) : c \in {d \in read : d.end # -1}}
               \cup {Node("event", e.id, e.at, Lane(e, read)) : e \in {r \in rows : r.type # "lifecycle"}},
               Before)

Trace == toOperationTrace(record.calls, record.events)
Entries == {<<Trace[i].kind, Trace[i].id>> : i \in DOMAIN Trace}

\* New entries: shown at once when the reader is at the latest, else counted.
DecisionLedger(entries) ==
  LET added == entries \ ledger.known IN
  IF ~ledger.mounted THEN [ledger EXCEPT !.mounted = TRUE, !.known = entries]
  ELSE [ledger EXCEPT !.known = entries,
          !.unseen = IF added = {} THEN @ ELSE IF ledger.pinned THEN 0 ELSE @ + Cardinality(added)]

\* Calls and events are read side by side, each time the page is read.
ReadRecord(t) ==
  /\ "record" \in Views /\ t \notin record.pc
  /\ record' = [record EXCEPT !.pc = @ \cup {t},
                  !.calls = IF t = "calls" THEN calls ELSE @,
                  !.events = IF t = "events" THEN events ELSE @]
  /\ UNCHANGED <<database, evidence, ledger, atLatest>>

\* The ledger is there once there is an entry.
ShowRecord ==
  /\ record.pc = {"calls", "events"} /\ record' = [record EXCEPT !.pc = {}]
  /\ ledger' = IF Entries = {} THEN ledger ELSE DecisionLedger(Entries)
  /\ atLatest' = IF ledger.pinned THEN Entries ELSE atLatest
  /\ UNCHANGED <<database, evidence>>

\* The reader scrolls, or asks for the latest.
handleScroll(latest) ==
  /\ ledger.mounted /\ ledger.pinned # latest
  /\ ledger' = [ledger EXCEPT !.pinned = latest, !.unseen = IF latest THEN 0 ELSE @]
  /\ atLatest' = ledger.known
  /\ UNCHANGED <<database, evidence, record>>

-----------------------------------------------------------------------------
Next ==
  \/ Tick
  \/ \E c \in Calls : StartCall(c)
  \/ \E c \in calls : EndCall(c)
  \/ \E id \in Free, call \in Begun \cup {NoCall}, type \in Types : RecordEvent(id, call, type)
  \/ \E id \in Free, call \in Begun : Speak(id, call)
  \/ \E call \in Calls \cup {NoCall} : OpenEvidence(call)
  \/ ReadCalls \/ SelectCall \/ ReadRows \/ ShowEvidence \/ CloseEvidence
  \/ \E t \in {"calls", "events"} : ReadRecord(t)
  \/ ShowRecord
  \/ \E latest \in BOOLEAN : handleScroll(latest)

Spec == Init /\ [][Next]_vars

-----------------------------------------------------------------------------
Wanted(t) ==
  {r \in evidence.before[t] :
     \/ t = "calls"
     \/ t = "segments" /\ r.call = evidence.call
     \/ t = "events" /\ r.call \in {evidence.call, NoCall}}

\* Rows that come in while the pages are read push others from page to page;
\* whatever was there when the page was opened is in the evidence all the same
\* (a call may have ended since).
EvidenceIsComplete ==
  evidence.pc = "shown" =>
    \A t \in Tables : \A r \in Wanted(t) :
      \E i \in DOMAIN evidence.read[t] : evidence.read[t][i].id = r.id

\* The segment an event is set beside is of its call, within the window, none
\* is nearer, and of those as near it is the earliest; an event without one
\* has no segment within the window.
MatchIsNearest ==
  evidence.pc = "shown" =>
    LET read == evidence.read["segments"]
        near(e) == {s \in ToSet(read) : s.call = e.call /\ Delta(s, e) <= Window} IN
    \A i \in DOMAIN evidence.read["events"] :
      LET e == evidence.read["events"][i]
          m == matchEvidenceEvent(e, read) IN
      IF near(e) = {} THEN m = NoMatch
      ELSE /\ m \in near(e)
           /\ \A s \in near(e) : Delta(m, e) < Delta(s, e) \/ (Delta(m, e) = Delta(s, e) /\ m.at <= s.at)

\* However times are compared, no call is closed in the trace before it is
\* opened, even one whose end the carrier rounded down to its very start.
EndFollowsStart ==
  \A i, j \in DOMAIN Trace :
    Trace[i].kind = "call_started" /\ Trace[j].kind = "call_ended" /\ Trace[i].id = Trace[j].id
    => i < j

\* The number of entries the ledger offers is that of the entries that came
\* since the reader was last at the latest, over any number of live readings.
UnseenAreCounted ==
  ledger.mounted => ledger.unseen = Cardinality(ledger.known \ atLatest)

\* What the pages make of rows that keep coming in: nothing is missing, set
\* beside the wrong words, out of order or counted twice.
ViewsAreTrue == EvidenceIsComplete /\ MatchIsNearest /\ EndFollowsStart /\ UnseenAreCounted
=============================================================================
