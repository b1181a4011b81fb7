------------------------- MODULE IncomingCallsProofs -------------------------
(***************************************************************************)
(* The routing of incoming calls, for any directory, any number of calls   *)
(* and any number of deliveries of their webhooks: a delivery acts for     *)
(* whoever its row says, whoever is put through is on record, and an       *)
(* attempt is linked to one realtime call.                                 *)
(***************************************************************************)
EXTENDS IncomingCalls, FiniteSetTheorems, TLAPS

Delivery == 1 .. MaxDeliveries

\* The types of TypeOK without the two counts, which need an argument of their own.
Typed ==
  /\ people \in [Person -> PersonRow] /\ saving \in [Person -> Phone \cup {NoPhone}]
  /\ calls \in Seq(CallRow) /\ routed \in [1 .. MaxRows -> Nat]
  /\ refused \subseteq [phone : Phone, reason : Reason] /\ open \in BOOLEAN
  /\ sip \in [Leg -> SipCall] /\ handler \in [Delivery -> HandlerState]
  /\ edits \in 0 .. MaxEdits /\ faults \in 0 .. MaxFaults

\* Only the row of the dispatched attempt may be without a realtime id, and no
\* two rows have the same one.
LegRows(rows) ==
  /\ Outbound => rows # <<>>
  /\ \A i \in DOMAIN rows : i > 1 \/ ~Outbound => rows[i].realtime \in Leg
  /\ \A i, j \in DOMAIN rows : rows[i].realtime = rows[j].realtime /\ rows[i].realtime # NoLeg => i = j

DirectionOf(r) == IF sip[r].record # 0 THEN "outbound" ELSE "inbound"

\* The attempt is the first row and the only outbound one; a row that has a
\* leg goes in its direction.
RowsMatchLegs ==
  /\ Outbound => calls[1].direction = "outbound"
  /\ \A i \in DOMAIN calls : i > 1 \/ ~Outbound => calls[i].direction = "inbound"
  /\ \A i \in DOMAIN calls, r \in Leg : calls[i].realtime = r =>
       sip[r].state # "none" /\ calls[i].direction = DirectionOf(r)
  /\ \A r \in Leg : sip[r].record # 0 => Outbound

\* Where a delivery can be, by the kind of its call and what it has read.
Placed(h) ==
  LET d == handler[h] IN
  /\ d.pc # "idle" => d.leg \in Leg /\ sip[d.leg].state # "none"
  /\ d.pc \in {"attempt", "context", "link", "bound"} => sip[d.leg].record # 0
  /\ d.pc \in {"identify", "insert"} => sip[d.leg].record = 0
  /\ d.pc = "identify" /\ d.left # {"contact", "provider"} => sip[d.leg].caller # NoPhone
  /\ d.pc \in {"context", "link", "bound", "select", "insert"} => d.person \in Person

\* Whoever acts has a row that says so, and whoever is past the announcement
\* has an event.
OnItsRow(h) ==
  LET d == handler[h] IN
  /\ d.pc \in {"event", "announce", "refresh", "accept", "connect", "talking"} =>
       /\ d.row \in DOMAIN calls
       /\ calls[d.row].realtime = d.leg /\ calls[d.row].person = d.person
       /\ calls[d.row].direction = DirectionOf(d.leg)
  /\ d.pc \in {"refresh", "accept", "connect", "talking"} => routed[d.row] > 0

HandlersPlaced == \A h \in Delivery : Placed(h) /\ OnItsRow(h)

\* A delivery announces its row at most once: those that are past it.
Past(i) == {h \in Delivery : /\ handler[h].row = i
                             /\ handler[h].pc \in {"refresh", "accept", "connect", "reject",
                                                   "talking", "done", "failed"}}
EventsCounted == \A i \in 1 .. MaxRows : routed[i] <= Cardinality(Past(i))

RoutingInv ==
  /\ Typed /\ LegRows(calls) /\ RowsMatchLegs /\ HandlersPlaced
  /\ AcceptedIsRecorded /\ EventsCounted

------------------------------------------------------------------------------
LEMMA Numbers ==
  /\ Cardinality(Leg) \in Nat /\ MaxRows \in Nat /\ MaxRows = Cardinality(Leg) + 1
  /\ MaxDeliveries \in Nat /\ MaxEdits \in Nat /\ MaxFaults \in Nat
  /\ Nobody \notin Person /\ Several \notin Person /\ Nobody # Several /\ NoLeg \notin Leg
  /\ Contacts \subseteq Person /\ Providers \subseteq Person
BY IncomingAssumption, FS_CardinalityType DEF MaxRows, Person

\* There are no more rows than calls at OpenAI, and the attempt's.
LEMMA RowsBounded ==
  ASSUME NEW rows \in Seq(CallRow), LegRows(rows) PROVE Len(rows) <= MaxRows
<1> SUFFICES ASSUME ~(Len(rows) <= MaxRows) PROVE FALSE
  OBVIOUS
<1> DEFINE Legs == [i \in 2 .. Len(rows) |-> rows[i].realtime]
<1>1. Len(rows) \in Nat /\ DOMAIN rows = 1 .. Len(rows)
  OBVIOUS
<1>2. Len(rows) >= 2 /\ Cardinality(Leg) < Len(rows) - 1
  BY <1>1, Numbers
<1>3. IsFiniteSet(2 .. Len(rows)) /\ Cardinality(2 .. Len(rows)) = Len(rows) - 1
  BY <1>1, <1>2, FS_Interval
<1>4. Legs \in [2 .. Len(rows) -> Leg]
  BY <1>1 DEF LegRows
<1> HIDE DEF Legs
<1>5. \E i, j \in 2 .. Len(rows) : i # j /\ Legs[i] = Legs[j]
  BY <1>2, <1>3, <1>4, FS_PigeonHole, IncomingAssumption
<1> USE DEF Legs
<1>6. PICK i, j \in 2 .. Len(rows) : i # j /\ rows[i].realtime = rows[j].realtime /\ rows[i].realtime \in Leg
  BY <1>4, <1>5
<1>7. i \in DOMAIN rows /\ j \in DOMAIN rows /\ rows[i].realtime = rows[j].realtime /\ rows[i].realtime \in Leg
  BY <1>1, <1>6
<1> QED
  BY <1>6, <1>7, Numbers DEF LegRows

LEMMA HandlerFields ==
  ASSUME Typed, NEW h \in Delivery
  PROVE  /\ handler[h] \in HandlerState
         /\ handler[h].leg \in Leg \cup {NoLeg} /\ handler[h].left \in SUBSET {"contact", "provider"}
         /\ handler[h].contact \in Found /\ handler[h].provider \in Found
         /\ handler[h].person \in Person \cup {Nobody} /\ handler[h].row \in 0 .. MaxRows
BY DEF Typed, HandlerState

LEMMA SipFields ==
  ASSUME Typed, NEW r \in Leg
  PROVE  /\ sip[r] = [state |-> sip[r].state, caller |-> sip[r].caller, record |-> sip[r].record]
         /\ sip[r].state \in {"none", "ringing", "accepted", "rejected", "over"}
         /\ sip[r].caller \in Phone \cup {NoPhone} /\ sip[r].record \in 0 .. 1
BY DEF Typed, SipCall

LEMMA RowFields ==
  ASSUME Typed, NEW i \in DOMAIN calls
  PROVE  /\ i \in Nat \ {0} /\ i <= Len(calls)
         /\ calls[i] = [person |-> calls[i].person, direction |-> calls[i].direction,
                        realtime |-> calls[i].realtime, active |-> calls[i].active]
         /\ calls[i].person \in Person /\ calls[i].direction \in {"inbound", "outbound"}
         /\ calls[i].realtime \in Leg \cup {NoLeg} /\ calls[i].active \in BOOLEAN
<1>1. calls[i] \in CallRow /\ i \in 1 .. Len(calls) /\ Len(calls) \in Nat
  BY DEF Typed
<1> QED
  BY <1>1 DEF CallRow

LEMMA GotoFields ==
  ASSUME Typed, NEW h \in Delivery, NEW label, Goto(h, label)
  PROVE  /\ handler'[h].pc = label /\ handler'[h].leg = handler[h].leg
         /\ handler'[h].contact = handler[h].contact /\ handler'[h].provider = handler[h].provider
         /\ handler'[h].left = handler[h].left /\ handler'[h].person = handler[h].person
         /\ handler'[h].row = handler[h].row
BY DEF Typed, HandlerState, Goto

\* What one field of a row is set to.
LEMMA RowSet ==
  ASSUME Typed, NEW i \in DOMAIN calls, NEW e \in CallRow, calls' = [calls EXCEPT ![i] = e]
  PROVE  /\ calls' \in Seq(CallRow) /\ DOMAIN calls' = DOMAIN calls /\ calls'[i] = e
         /\ \A j \in DOMAIN calls : j # i => calls'[j] = calls[j]
<1>1. calls \in [1 .. Len(calls) -> CallRow] /\ Len(calls) \in Nat
  BY DEF Typed
<1>2. calls' \in [1 .. Len(calls) -> CallRow]
  BY <1>1
<1> QED
  BY <1>1, <1>2

LEMMA SipSet ==
  ASSUME Typed, NEW q \in Leg, NEW s, sip' = [sip EXCEPT ![q].state = s], NEW r \in Leg
  PROVE  /\ sip'[r].record = sip[r].record /\ sip'[r].caller = sip[r].caller
         /\ sip'[r].state = IF r = q THEN s ELSE sip[r].state
<1>1. sip[r] \in SipCall /\ sip'[r] = IF r = q THEN [sip[r] EXCEPT !.state = s] ELSE sip[r]
  BY DEF Typed
<1> QED
  BY <1>1 DEF SipCall

LEMMA PastIsFinite ==
  ASSUME NEW i
  PROVE  /\ IsFiniteSet(Delivery) /\ IsFiniteSet(Past(i)) /\ Cardinality(Past(i)) \in Nat
         /\ Cardinality(Past(i)) <= MaxDeliveries
<1>1. IsFiniteSet(Delivery) /\ Cardinality(Delivery) = MaxDeliveries
  <2>1. /\ IsFiniteSet(1 .. MaxDeliveries)
        /\ Cardinality(1 .. MaxDeliveries) = IF 1 > MaxDeliveries THEN 0 ELSE MaxDeliveries - 1 + 1
    <3>1. MaxDeliveries \in Int /\ 1 \in Int
      BY IncomingAssumption
    <3> QED
      BY <3>1, FS_Interval
  <2> QED
    BY <2>1, IncomingAssumption DEF Delivery
<1>2. Past(i) \subseteq Delivery
  BY DEF Past
<1>3. IsFiniteSet(Past(i)) /\ Cardinality(Past(i)) <= Cardinality(Delivery)
  BY <1>1, <1>2, FS_Subset
<1>4. Cardinality(Past(i)) \in Nat
  BY <1>3, FS_CardinalityType
<1> QED
  BY <1>1, <1>3, <1>4

LEMMA RoutingInit == Init => RoutingInv
<1> SUFFICES ASSUME Init PROVE RoutingInv
  OBVIOUS
<1>1. \A h \in Delivery : handler[h].pc = "idle"
  BY DEF Init, Delivery
<1>2. /\ Outbound => \E p \in Providers : calls = <<[person |-> p, direction |-> "outbound",
                                                realtime |-> NoLeg, active |-> TRUE]>>
      /\ ~Outbound => calls = <<>>
  BY DEF Init
<1>3. LegRows(calls)
  <2>1. CASE Outbound
    <3>1. calls # <<>> /\ DOMAIN calls = 1 .. 1
      BY <1>2, <2>1
    <3> QED
      BY <2>1, <3>1 DEF LegRows
  <2>2. CASE ~Outbound
    BY <1>2, <2>2 DEF LegRows
  <2> QED
    BY <2>1, <2>2
<1>4. Typed
  <2>1. people \in [Person -> PersonRow] /\ saving \in [Person -> Phone \cup {NoPhone}]
    <3>1. [line : 1 .. Lines, mobile : {TRUE}] \subseteq Phone
      BY DEF Phone
    <3>2. [phone : [line : 1 .. Lines, mobile : {TRUE}], active : {TRUE}, authorized : {TRUE}] \subseteq PersonRow
      BY <3>1 DEF PersonRow
    <3>3. people \in [Person -> [phone : [line : 1 .. Lines, mobile : {TRUE}], active : {TRUE}, authorized : {TRUE}]]
      BY DEF Init
    <3> QED
      BY <3>2, <3>3 DEF Init
  <2>2. calls \in Seq(CallRow)
    <3>1. CASE Outbound
      <4>1. PICK p \in Providers : calls = <<[person |-> p, direction |-> "outbound",
                                             realtime |-> NoLeg, active |-> TRUE]>>
        BY <1>2, <3>1
      <4>2. [person |-> p, direction |-> "outbound", realtime |-> NoLeg, active |-> TRUE] \in CallRow
        BY Numbers DEF CallRow
      <4> HIDE DEF CallRow
      <4> QED
        BY <4>1, <4>2
    <3>2. CASE ~Outbound
      BY <1>2, <3>2
    <3> QED
      BY <3>1, <3>2
  <2>3. sip \in [Leg -> SipCall]
    <3>1. [state |-> "none", caller |-> NoPhone, record |-> 0] \in SipCall
      BY DEF SipCall
    <3> QED
      BY <3>1 DEF Init
  <2>4. handler \in [Delivery -> HandlerState]
    BY Numbers DEF Init, Delivery, HandlerState, Unread, Found
  <2>5. routed \in [1 .. MaxRows -> Nat] /\ refused = {} /\ open = TRUE /\ edits = 0 /\ faults = 0
    BY DEF Init
  <2> QED
    BY <2>1, <2>2, <2>3, <2>4, <2>5, Numbers DEF Typed
<1>5. RowsMatchLegs
  <2>1. \A r \in Leg : sip[r].record = 0
    BY DEF Init
  <2>2. \A i \in DOMAIN calls : Outbound /\ i = 1 /\ calls[i].realtime = NoLeg /\ calls[i].direction = "outbound"
    BY <1>2
  <2>3. Outbound => 1 \in DOMAIN calls
    BY <1>2
  <2> QED
    BY <2>1, <2>2, <2>3, Numbers DEF RowsMatchLegs
<1>6. HandlersPlaced
  BY <1>1 DEF HandlersPlaced, Placed, OnItsRow
<1>7. AcceptedIsRecorded
  BY DEF Init, AcceptedIsRecorded
<1>8. EventsCounted
  <2> SUFFICES ASSUME NEW i \in 1 .. MaxRows PROVE 0 <= Cardinality(Past(i))
    BY DEF Init, EventsCounted
  <2> QED
    BY PastIsFinite
<1> QED
  BY <1>3, <1>4, <1>5, <1>6, <1>7, <1>8 DEF RoutingInv

------------------------------------------------------------------------------
(* What a step can change                                                    *)

Ringing(r) == \E c \in Phone \cup {NoPhone} : Ring(r, c, 0) \/ Ring(r, c, 1)

LEMMA WhatChanges ==
  ASSUME Next
  PROVE  \/ UNCHANGED tables /\ UNCHANGED sip
         \/ EndAttempt
         \/ \E r \in Leg : HangUp(r) \/ Ringing(r)
         \/ \E h \in Delivery : Link(h) \/ InsertCall(h) \/ InsertRoutedEvent(h) \/ Accept(h) \/ Reject(h)
<1>1. CASE World
  <2>1. ASSUME NEW p \in Person, CommitPhone(p) \/ \E phone \in Phone : SavePhone(p, phone)
        PROVE  UNCHANGED tables /\ UNCHANGED sip
    BY <2>1 DEF CommitPhone, SavePhone, tables
  <2>2. ASSUME NEW p \in Person, NEW a \in BOOLEAN, NEW b \in BOOLEAN, SetFlags(p, a, b)
        PROVE  UNCHANGED tables /\ UNCHANGED sip
    BY <2>2 DEF SetFlags, tables
  <2>3. CASE CloseScope \/ Crash
    BY <2>3 DEF CloseScope, Crash, tables
  <2>4. ASSUME NEW r \in Leg, NEW h \in Delivery, Deliver(h, r)
        PROVE  UNCHANGED tables /\ UNCHANGED sip
    BY <2>4 DEF Deliver, tables
  <2>5. ASSUME NEW r \in Leg, Ring(r, NoPhone, 1) \/ \E c \in Phone \cup {NoPhone} : Ring(r, c, 0)
        PROVE  Ringing(r)
    BY <2>5 DEF Ringing
  <2> QED
    BY <1>1, <2>1, <2>2, <2>3, <2>4, <2>5 DEF World, Delivery
<1>2. ASSUME NEW h \in Delivery, Handle(h)
      PROVE  \/ UNCHANGED tables /\ UNCHANGED sip
             \/ Link(h) \/ InsertCall(h) \/ InsertRoutedEvent(h) \/ Accept(h) \/ Reject(h)
  BY <1>2 DEF Handle, FindCounterparty, RoutingFails, Refuse, RouteIncomingCall, ReadAttempt,
     ReadContext, ReadBound, SelectExisting, ReadRoutedEvent, RefreshTools, Connect, QueryFails, tables
<1> QED
  BY <1>1, <1>2 DEF Next, Delivery

\* A delivery stays where it is, is lost in a restart, begins, or takes its step.
LEMMA WhoMoves ==
  ASSUME Typed, Next, NEW h \in Delivery
  PROVE  \/ handler'[h] = handler[h]
         \/ Crash \/ (\E r \in Leg : Deliver(h, r)) \/ Handle(h)
<1>1. CASE World
  <2>1. ASSUME NEW p \in Person, CommitPhone(p) \/ \E phone \in Phone : SavePhone(p, phone)
        PROVE  handler' = handler
    BY <2>1 DEF CommitPhone, SavePhone
  <2>2. ASSUME NEW p \in Person, NEW a \in BOOLEAN, NEW b \in BOOLEAN, SetFlags(p, a, b)
        PROVE  handler' = handler
    BY <2>2 DEF SetFlags
  <2>3. CASE CloseScope \/ EndAttempt
    BY <2>3 DEF CloseScope, EndAttempt
  <2>4. ASSUME NEW r \in Leg, NEW g \in Delivery, Deliver(g, r), g # h
        PROVE  handler'[h] = handler[h]
    BY <2>4 DEF Deliver, Typed
  <2>5. ASSUME NEW r \in Leg, HangUp(r) \/ Ring(r, NoPhone, 1) \/ \E c \in Phone \cup {NoPhone} : Ring(r, c, 0)
        PROVE  handler' = handler
    BY <2>5 DEF HangUp, Ring
  <2> QED
    BY <1>1, <2>1, <2>2, <2>3, <2>4, <2>5 DEF World, Delivery
<1>2. ASSUME NEW g \in Delivery, Handle(g), g # h
      PROVE  handler'[h] = handler[h]
  <2> USE DEF Goto, Typed
  <2>1. CASE \/ (\E t \in {"contact", "provider"} : FindCounterparty(g, t)) \/ RoutingFails(g)
             \/ Refuse(g) \/ RouteIncomingCall(g) \/ ReadAttempt(g)
    BY <1>2, <2>1 DEF FindCounterparty, RoutingFails, Refuse, RouteIncomingCall, ReadAttempt
  <2>2. CASE ReadContext(g) \/ Link(g) \/ ReadBound(g) \/ SelectExisting(g) \/ InsertCall(g) \/ ReadRoutedEvent(g)
    BY <1>2, <2>2 DEF ReadContext, Link, ReadBound, SelectExisting, InsertCall, ReadRoutedEvent
  <2>3. CASE InsertRoutedEvent(g) \/ RefreshTools(g) \/ Accept(g) \/ Reject(g) \/ Connect(g) \/ QueryFails(g)
    BY <1>2, <2>3 DEF InsertRoutedEvent, RefreshTools, Accept, Reject, Connect, QueryFails
  <2> QED
    BY <1>2, <2>1, <2>2, <2>3 DEF Handle
<1> QED
  BY <1>1, <1>2 DEF Next, Delivery

\* Rows keep whom they are of, events and calls are not forgotten, and nothing
\* is linked twice.
Monotone ==
  /\ \A i \in DOMAIN calls :
       /\ i \in DOMAIN calls' /\ calls'[i].person = calls[i].person
       /\ calls'[i].direction = calls[i].direction
       /\ calls[i].realtime # NoLeg => calls'[i].realtime = calls[i].realtime
  /\ \A i \in 1 .. MaxRows : routed'[i] >= routed[i]
  /\ \A r \in Leg : sip[r].state # "none" =>
       /\ sip'[r].state # "none" /\ sip'[r].record = sip[r].record /\ sip'[r].caller = sip[r].caller

LEMMA StepIsMonotone == ASSUME RoutingInv, Next PROVE Monotone
<1> USE DEF RoutingInv, Typed
<1>0. /\ DOMAIN calls = 1 .. Len(calls) /\ Len(calls) \in Nat /\ Len(calls) <= MaxRows
      /\ \A i \in DOMAIN calls : calls[i] \in CallRow
      /\ \A i \in 1 .. MaxRows : routed[i] \in Nat
      /\ (Outbound => 1 \in DOMAIN calls)
  BY RowsBounded DEF LegRows
<1>1. CASE UNCHANGED tables /\ UNCHANGED sip
  BY <1>0, <1>1 DEF Monotone, tables
<1>2. CASE EndAttempt
  BY <1>0, <1>2 DEF EndAttempt, CallRow, Monotone
<1>3. ASSUME NEW r \in Leg, HangUp(r) \/ Ringing(r) PROVE Monotone
  <2>1. UNCHANGED tables /\ \A q \in Leg : sip[q].state # "none" =>
          /\ sip'[q].record = sip[q].record /\ sip'[q].caller = sip[q].caller
          /\ sip'[q].state \in {sip[q].state, "over"}
    BY <1>3, SipFields DEF HangUp, Ringing, Ring
  <2> QED
    BY <1>0, <2>1 DEF tables, Monotone
<1>4. ASSUME NEW h \in Delivery, Link(h) PROVE Monotone
  BY <1>0, <1>4 DEF Link, Linkable, CallRow, Monotone
<1>5. ASSUME NEW h \in Delivery, InsertCall(h) PROVE Monotone
  <2>1. calls' = calls \/ \E row \in CallRow : calls' = Append(calls, row)
    BY <1>5, HandlerFields, Numbers DEF InsertCall, CallRow, HandlersPlaced, Placed, At
  <2>2. \A i \in DOMAIN calls : i \in DOMAIN calls' /\ calls'[i] = calls[i]
    BY <1>0, <2>1
  <2> QED
    BY <1>0, <1>5, <2>2 DEF InsertCall, Monotone
<1>6. ASSUME NEW h \in Delivery, InsertRoutedEvent(h) PROVE Monotone
  BY <1>0, <1>6, Numbers DEF InsertRoutedEvent, Monotone
<1>7. ASSUME NEW h \in Delivery, Accept(h) \/ Reject(h) PROVE Monotone
  <2>1. UNCHANGED tables /\ \A q \in Leg :
          /\ sip'[q].record = sip[q].record /\ sip'[q].caller = sip[q].caller
          /\ sip'[q].state \in {sip[q].state, "accepted", "rejected"}
    <3> DEFINE Set(s) == [sip EXCEPT ![handler[h].leg].state = s]
    <3>1. UNCHANGED tables /\ (sip' = sip \/ sip' = Set("accepted") \/ sip' = Set("rejected"))
      BY <1>7 DEF Accept, Reject, tables, Keep
    <3>2. \A s, q : q \in Leg => /\ Set(s)[q].record = sip[q].record /\ Set(s)[q].caller = sip[q].caller
                                  /\ Set(s)[q].state \in {sip[q].state, s}
      BY SipFields
    <3> HIDE DEF Set
    <3> QED
      BY <3>1, <3>2
  <2> QED
    BY <1>0, <2>1 DEF tables, Monotone
<1> QED
  BY <1>1, <1>2, <1>3, <1>4, <1>5, <1>6, <1>7, WhatChanges

------------------------------------------------------------------------------
(* The rows                                                                  *)

LEMMA RowsNext == ASSUME RoutingInv, Next PROVE calls' \in Seq(CallRow) /\ LegRows(calls')
<1> USE DEF RoutingInv
<1>0. /\ DOMAIN calls = 1 .. Len(calls) /\ Len(calls) \in Nat /\ calls \in Seq(CallRow)
      /\ \A i \in DOMAIN calls : calls[i] \in CallRow
      /\ (Outbound => 1 \in DOMAIN calls) /\ LegRows(calls)
  BY DEF LegRows, Typed
<1>1. CASE calls' = calls
  BY <1>0, <1>1
<1>2. CASE EndAttempt
  <2>1. /\ calls' \in Seq(CallRow) /\ DOMAIN calls' = DOMAIN calls
        /\ \A i \in DOMAIN calls : calls'[i].realtime = calls[i].realtime
    <3>1. calls' = [calls EXCEPT ![1] = [calls[1] EXCEPT !.active = FALSE]] /\ 1 \in DOMAIN calls
      BY <1>0, <1>2 DEF EndAttempt
    <3>2. calls[1] \in CallRow
      BY <1>0, <3>1
    <3>3. [calls[1] EXCEPT !.active = FALSE] \in CallRow
      BY <3>2 DEF CallRow
    <3>4. [calls[1] EXCEPT !.active = FALSE].realtime = calls[1].realtime
      BY <3>2 DEF CallRow
    <3> QED
      BY <3>1, <3>3, <3>4, RowSet
  <2> QED
    BY <1>0, <2>1 DEF LegRows
<1>3. ASSUME NEW h \in Delivery, Link(h), calls' # calls
      PROVE  calls' \in Seq(CallRow) /\ LegRows(calls')
  <2> DEFINE leg == handler[h].leg
  <2>1. leg \in Leg /\ sip[leg].record # 0 /\ Outbound
    BY <1>3 DEF Link, At, HandlersPlaced, Placed, RowsMatchLegs
  <2>2. /\ calls' \in Seq(CallRow) /\ DOMAIN calls' = DOMAIN calls
        /\ calls'[1].realtime = leg
        /\ \A i \in DOMAIN calls : i # 1 => calls'[i].realtime = calls[i].realtime
    <3>1. calls' = [calls EXCEPT ![1] = [calls[1] EXCEPT !.realtime = leg]] /\ 1 \in DOMAIN calls
      BY <1>0, <1>3, <2>1 DEF Link
    <3>2. [calls[1] EXCEPT !.realtime = leg] \in CallRow /\ [calls[1] EXCEPT !.realtime = leg].realtime = leg
      BY <2>1, <3>1, RowFields DEF CallRow
    <3> QED
      BY <3>1, <3>2, RowSet
  <2>3. \A i \in DOMAIN calls : i # 1 => calls[i].realtime # leg
    BY <1>0, <2>1, Numbers DEF RowsMatchLegs, DirectionOf
  <2> HIDE DEF leg
  <2> QED
    BY <1>0, <2>1, <2>2, <2>3 DEF LegRows
<1>4. ASSUME NEW h \in Delivery, InsertCall(h), calls' # calls
      PROVE  calls' \in Seq(CallRow) /\ LegRows(calls')
  <2> DEFINE row == [person |-> handler[h].person, direction |-> "inbound",
                     realtime |-> handler[h].leg, active |-> TRUE]
  <2>1. handler[h].leg \in Leg /\ handler[h].person \in Person
    BY <1>4 DEF InsertCall, At, HandlersPlaced, Placed
  <2>2. row \in CallRow
    BY <2>1 DEF CallRow
  <2>3. /\ calls' = Append(calls, row)
        /\ \A i \in DOMAIN calls : calls[i].realtime # handler[h].leg
    BY <1>4 DEF InsertCall, RowOf
  <2>4. row.realtime = handler[h].leg
    OBVIOUS
  <2> HIDE DEF row
  <2> QED
    BY <1>0, <2>1, <2>2, <2>3, <2>4 DEF LegRows
<1> QED
  BY <1>1, <1>2, <1>3, <1>4, WhatChanges DEF tables, HangUp, Ringing, Ring, InsertRoutedEvent, Accept, Reject

LEMMA SipRecords ==
  ASSUME RoutingInv, Next, NEW r \in Leg
  PROVE  sip'[r].record = sip[r].record \/ (sip'[r].record # 0 => Outbound)
<1> USE DEF RoutingInv
<1>1. CASE \E q \in Leg : Ringing(q)
  <2>1. PICK q \in Leg, c \in Phone \cup {NoPhone}, n \in 0 .. 1 : Ring(q, c, n)
    BY <1>1 DEF Ringing
  <2>2. sip' = [sip EXCEPT ![q] = [state |-> "ringing", caller |-> c, record |-> n]] /\ (n = 1 => Outbound)
    BY <2>1 DEF Ring
  <2> QED
    BY <2>2 DEF Typed
<1>2. CASE sip' = sip \/ \E q \in Leg, s \in {"accepted", "rejected", "over"} : sip' = [sip EXCEPT ![q].state = s]
  BY <1>2, SipSet
<1>3. ASSUME NEW h \in Delivery, Accept(h) \/ Reject(h) 
      PROVE  sip' = sip \/ \E q \in Leg, s \in {"accepted", "rejected", "over"} : sip' = [sip EXCEPT ![q].state = s]
  <2>1. handler[h].leg \in Leg
    BY <1>3 DEF Accept, Reject, At, HandlersPlaced, Placed
  <2> QED
    BY <1>3, <2>1 DEF Accept, Reject
<1> QED
  BY <1>1, <1>2, <1>3, WhatChanges DEF EndAttempt, Link, InsertCall, InsertRoutedEvent, HangUp

LEMMA RowsMatchNext == ASSUME RoutingInv, Next PROVE RowsMatchLegs'
<1> USE DEF RoutingInv
<1>1. Monotone
  BY StepIsMonotone
<1>2. DOMAIN calls = 1 .. Len(calls) /\ Len(calls) \in Nat /\ (Outbound => 1 \in DOMAIN calls)
  BY DEF LegRows, Typed
<1>3. \A r \in Leg : sip'[r].record # 0 => Outbound
  BY SipRecords DEF RowsMatchLegs
<1>4. ASSUME NEW i \in DOMAIN calls, NEW r \in Leg, calls'[i].realtime = r, calls[i].realtime = r
      PROVE  sip'[r].state # "none" /\ calls'[i].direction = DirectionOf(r)'
  BY <1>1, <1>4 DEF Monotone, RowsMatchLegs, DirectionOf
<1>5. Outbound => calls'[1].direction = "outbound"
  BY <1>1, <1>2 DEF Monotone, RowsMatchLegs
<1>6. \A i \in DOMAIN calls : i > 1 \/ ~Outbound => calls'[i].direction = "inbound"
  BY <1>1 DEF Monotone, RowsMatchLegs
<1>7. CASE calls' = calls \/ EndAttempt
  <2>1. DOMAIN calls' = DOMAIN calls /\ \A i \in DOMAIN calls : calls'[i].realtime = calls[i].realtime
    <3>1. CASE EndAttempt
      <4>1. calls' = [calls EXCEPT ![1] = [calls[1] EXCEPT !.active = FALSE]] /\ 1 \in DOMAIN calls
        BY <1>2, <3>1 DEF EndAttempt
      <4>2. calls[1] \in CallRow
        BY <4>1 DEF Typed
      <4>3. [calls[1] EXCEPT !.active = FALSE].realtime = calls[1].realtime
        BY <4>2 DEF CallRow
      <4> QED
        BY <4>1, <4>3
    <3> QED
      BY <1>7, <3>1
  <2> QED
    BY <1>3, <1>4, <1>5, <1>6, <2>1 DEF RowsMatchLegs
<1>8. ASSUME NEW h \in Delivery, Link(h), calls' # calls PROVE RowsMatchLegs'
  <2>1. PICK leg \in Leg : leg = handler[h].leg /\ sip[leg].record # 0 /\ sip[leg].state # "none" /\ Outbound
    BY <1>8 DEF Link, At, HandlersPlaced, Placed, RowsMatchLegs
  <2>2. /\ DOMAIN calls' = DOMAIN calls /\ calls'[1].realtime = leg
        /\ \A i \in DOMAIN calls : i # 1 => calls'[i].realtime = calls[i].realtime
    <3>1. calls' = [calls EXCEPT ![1] = [calls[1] EXCEPT !.realtime = leg]] /\ 1 \in DOMAIN calls
      BY <1>2, <1>8, <2>1 DEF Link
    <3>2. calls[1] \in CallRow
      BY <3>1 DEF Typed
    <3>3. [calls[1] EXCEPT !.realtime = leg].realtime = leg
      BY <3>2 DEF CallRow
    <3> QED
      BY <3>1, <3>3
  <2>3. sip'[leg].state # "none" /\ DirectionOf(leg)' = "outbound"
    BY <1>1, <2>1 DEF Monotone, DirectionOf
  <2> QED
    BY <1>3, <1>4, <1>5, <1>6, <2>1, <2>2, <2>3 DEF RowsMatchLegs
<1>9. ASSUME NEW h \in Delivery, InsertCall(h), calls' # calls PROVE RowsMatchLegs'
  <2>1. PICK leg \in Leg : leg = handler[h].leg /\ sip[leg].record = 0 /\ sip[leg].state # "none"
    BY <1>9 DEF InsertCall, At, HandlersPlaced, Placed
  <2> DEFINE row == [person |-> handler[h].person, direction |-> "inbound", realtime |-> leg, active |-> TRUE]
  <2>2. calls' = Append(calls, row) /\ sip' = sip
    BY <1>9, <2>1 DEF InsertCall
  <2>3. row.realtime = leg /\ row.direction = "inbound"
    OBVIOUS
  <2> HIDE DEF row
  <2>4. /\ DOMAIN calls' = 1 .. Len(calls) + 1 /\ calls'[Len(calls) + 1] = row
        /\ \A i \in DOMAIN calls : calls'[i] = calls[i]
    BY <1>2, <2>2 DEF Typed
  <2>5. sip'[leg].state # "none" /\ DirectionOf(leg)' = "inbound"
    BY <2>1, <2>2 DEF DirectionOf
  <2>6. \A i \in DOMAIN calls' : i \in DOMAIN calls \/ i = Len(calls) + 1
    BY <1>2, <2>4
  <2> QED
    BY <1>3, <1>4, <1>5, <1>6, <2>3, <2>4, <2>5, <2>6 DEF RowsMatchLegs
<1> QED
  BY <1>7, <1>8, <1>9, WhatChanges DEF tables, HangUp, Ringing, Ring, InsertRoutedEvent, Accept, Reject

------------------------------------------------------------------------------
(* The deliveries                                                            *)

LEMMA Lookups ==
  ASSUME Typed, NEW table \in SUBSET Person, NEW phone PROVE Lookup(table, phone) \in Found
<1> DEFINE rows == {p \in table : people[p].active /\ people[p].phone \in CallerIdVariants(phone)}
           p == CHOOSE q \in rows : TRUE
<1>1. Unread \in Found /\ [Unread EXCEPT !.person = Several] \in Found
  BY DEF Unread, Found
<1>2. ASSUME rows # {}
      PROVE  [person |-> p, active |-> people[p].active, authorized |-> people[p].authorized] \in Found
  <2>1. p \in rows
    BY <1>2
  <2>2. p \in Person /\ people[p] \in PersonRow
    BY <2>1 DEF Typed
  <2> HIDE DEF p, rows
  <2> QED
    BY <2>2 DEF PersonRow, Found
<1> HIDE DEF p
<1> QED
  BY <1>1, <1>2 DEF Lookup, p

\* Who is put through has been found, and is one person.
LEMMA Identities ==
  ASSUME Typed, NEW h \in Delivery, ~Ambiguous(h), RejectionReason(Identity(h)) = {}
  PROVE  Identity(h).person \in Person
<1>1. /\ handler[h].contact.person \in Person \cup {Nobody, Several}
      /\ handler[h].provider.person \in Person \cup {Nobody, Several}
  BY HandlerFields DEF Found
<1>2. Identity(h).person # Nobody
  BY DEF RejectionReason
<1>3. Identity(h).person # Several
  BY DEF Ambiguous, Identity
<1> QED
  BY <1>1, <1>2, <1>3 DEF Identity

\* A step that only moves a delivery on.
LEMMA OnlyPlace ==
  ASSUME Typed, NEW h \in Delivery, NEW label, Goto(h, label),
         label \in {"link", "bound", "select", "insert", "event", "announce", "refresh", "accept",
                    "connect", "reject", "talking", "done", "failed"}
  PROVE  handler' \in [Delivery -> HandlerState]
<1>1. handler[h] \in HandlerState
  BY DEF Typed
<1>2. [handler[h] EXCEPT !.pc = label] \in HandlerState
  BY <1>1 DEF HandlerState
<1> QED
  BY <1>2 DEF Goto, Typed

LEMMA HandlersTyped == ASSUME RoutingInv, Next PROVE handler' \in [Delivery -> HandlerState]
<1> USE DEF RoutingInv
<1>0. /\ handler \in [Delivery -> HandlerState] /\ DOMAIN calls = 1 .. Len(calls) /\ Len(calls) <= MaxRows
      /\ Len(calls) \in Nat
  BY RowsBounded DEF Typed
<1>1. CASE handler' = handler
  BY <1>0, <1>1
<1>2. CASE Crash
  <2>1. \A h \in Delivery : [handler[h] EXCEPT !.pc = "failed"] \in HandlerState
    BY <1>0 DEF HandlerState
  <2> QED
    BY <1>0, <1>2, <2>1 DEF Crash, Delivery
<1>3. ASSUME NEW h \in Delivery, NEW r \in Leg, Deliver(h, r) PROVE handler' \in [Delivery -> HandlerState]
  <2> DEFINE d(label) == [[[handler[h] EXCEPT !.leg = r] EXCEPT !.left = {"contact", "provider"}] EXCEPT !.pc = label]
  <2>1. \A label \in {"attempt", "identify"} : d(label) \in HandlerState
    BY <1>0 DEF HandlerState
  <2>2. \E label \in {"attempt", "identify"} : handler' = [handler EXCEPT ![h] = d(label)]
    BY <1>0, <1>3 DEF Deliver
  <2> QED
    BY <1>0, <2>1, <2>2
<1>4. ASSUME NEW h \in Delivery, Handle(h) PROVE handler' \in [Delivery -> HandlerState]
  <2>0. handler[h] \in HandlerState
    BY <1>0
  <2>1. ASSUME NEW label \in {"link", "bound", "select", "insert", "event", "announce", "refresh", "accept",
                                "connect", "reject", "talking", "done", "failed"}, Goto(h, label)
        PROVE  handler' \in [Delivery -> HandlerState]
    BY <2>1, OnlyPlace
  <2>2. ASSUME NEW t \in {"contact", "provider"}, FindCounterparty(h, t)
        PROVE  handler' \in [Delivery -> HandlerState]
    <3> DEFINE d(c, p) == [[[handler[h] EXCEPT !.left = @ \ {t}] EXCEPT !.contact = c] EXCEPT !.provider = p]
    <3>1. \A c, p \in Found : d(c, p) \in HandlerState
      BY <2>0 DEF HandlerState
    <3>2. Lookup(Contacts, SipOf(h).caller) \in Found /\ Lookup(Providers, SipOf(h).caller) \in Found
      BY Lookups, Numbers
    <3>3. handler[h].contact \in Found /\ handler[h].provider \in Found
      BY HandlerFields
    <3>4. \E c, p \in Found : handler' = [handler EXCEPT ![h] = d(c, p)]
      BY <1>0, <2>2, <3>2, <3>3 DEF FindCounterparty
    <3> HIDE DEF d
    <3> QED
      BY <1>0, <3>1, <3>4
  <2>3. CASE RouteIncomingCall(h)
    <3> DEFINE d == [[handler[h] EXCEPT !.person = Identity(h).person] EXCEPT !.pc = "select"]
    <3>1. Identity(h).person \in Person
      BY <2>3, Identities DEF RouteIncomingCall
    <3>2. d \in HandlerState
      BY <2>0, <3>1 DEF HandlerState
    <3>3. handler' = [handler EXCEPT ![h] = d]
      BY <1>0, <2>3 DEF RouteIncomingCall
    <3> QED
      BY <1>0, <3>2, <3>3
  <2>4. CASE ReadAttempt(h)
    <3> DEFINE d(n, label) == [[[handler[h] EXCEPT !.person = calls[1].person] EXCEPT !.row = n] EXCEPT !.pc = label]
    <3>1. calls[1].person \in Person /\ 1 \in 0 .. MaxRows /\ 0 \in 0 .. MaxRows
      <4>1. 1 \in DOMAIN calls
        BY <1>0, <2>4 DEF ReadAttempt, At, HandlersPlaced, Placed, RowsMatchLegs, LegRows
      <4> QED
        BY <1>0, <4>1, RowFields, Numbers
    <3>2. \A n \in {0, 1}, label \in {"context", "reject"} : d(n, label) \in HandlerState
      BY <2>0, <3>1 DEF HandlerState
    <3>3. \E n \in {0, 1}, label \in {"context", "reject"} : handler' = [handler EXCEPT ![h] = d(n, label)]
      BY <1>0, <2>4 DEF ReadAttempt
    <3> HIDE DEF d
    <3> QED
      BY <1>0, <3>2, <3>3
  <2>5. CASE SelectExisting(h)
    <3> DEFINE d(n, label) == [[handler[h] EXCEPT !.row = n] EXCEPT !.pc = label]
    <3>1. \A n \in DOMAIN calls, label \in {"event", "reject"} : d(n, label) \in HandlerState
      <4>1. DOMAIN calls \subseteq 0 .. MaxRows
        BY <1>0, Numbers
      <4>2. \A n \in 0 .. MaxRows, label \in {"event", "reject"} : d(n, label) \in HandlerState
        BY <2>0 DEF HandlerState
      <4> QED
        BY <4>1, <4>2
    <3>2. \/ \E n \in DOMAIN calls, label \in {"event", "reject"} : handler' = [handler EXCEPT ![h] = d(n, label)]
          \/ \E label \in {"reject", "insert"} : Goto(h, label)
      BY <1>0, <2>5 DEF SelectExisting, RowOf
    <3> HIDE DEF d
    <3> QED
      BY <1>0, <2>1, <3>1, <3>2
  <2>6. CASE InsertCall(h)
    <3> DEFINE d(n) == [[handler[h] EXCEPT !.row = n] EXCEPT !.pc = "event"]
    <3>1. \/ Goto(h, "reject")
          \/ /\ handler' = [handler EXCEPT ![h] = d(Len(calls) + 1)]
             /\ \E row : calls' = Append(calls, row)
      BY <1>0, <2>6 DEF InsertCall
    <3>2. ASSUME NEW row, calls' = Append(calls, row) PROVE Len(calls) + 1 \in 0 .. MaxRows
      <4>1. Len(calls') <= MaxRows
        BY RowsNext, RowsBounded
      <4>2. Len(calls') = Len(calls) + 1
        BY <3>2, RowsNext DEF Typed
      <4> QED
        BY <1>0, <4>1, <4>2, Numbers
    <3>3. \A n \in 0 .. MaxRows : d(n) \in HandlerState
      BY <2>0 DEF HandlerState
    <3> HIDE DEF d
    <3> QED
      BY <1>0, <2>1, <3>1, <3>2, <3>3
  <2>7. CASE \/ RoutingFails(h) \/ Refuse(h) \/ ReadContext(h) \/ Link(h) \/ ReadBound(h) \/ ReadRoutedEvent(h)
    BY <2>1, <2>7 DEF RoutingFails, Refuse, ReadContext, Link, ReadBound, ReadRoutedEvent
  <2>8. CASE \/ InsertRoutedEvent(h) \/ RefreshTools(h) \/ Accept(h) \/ Reject(h) \/ Connect(h) \/ QueryFails(h)
    BY <2>1, <2>8 DEF InsertRoutedEvent, RefreshTools, Accept, Reject, Connect, QueryFails
  <2> QED
    BY <1>4, <2>2, <2>3, <2>4, <2>5, <2>6, <2>7, <2>8 DEF Handle
<1>5. CASE World
  BY <1>1, <1>2, <1>3, <1>5 DEF World, Delivery, CommitPhone, SavePhone, SetFlags, CloseScope, EndAttempt, HangUp, Ring
<1> QED
  BY <1>4, <1>5 DEF Next, Delivery

LEMMA TypedNext == ASSUME RoutingInv, Next PROVE Typed'
<1> USE DEF RoutingInv
<1>1. calls' \in Seq(CallRow) /\ handler' \in [Delivery -> HandlerState]
  BY RowsNext, HandlersTyped
<1>2. people' \in [Person -> PersonRow] /\ saving' \in [Person -> Phone \cup {NoPhone}]
  <2>1. ASSUME NEW p \in Person, NEW phone \in Phone, SavePhone(p, phone)
        PROVE  people' \in [Person -> PersonRow] /\ saving' \in [Person -> Phone \cup {NoPhone}]
    BY <2>1 DEF SavePhone, Typed
  <2>2. ASSUME NEW p \in Person, CommitPhone(p)
        PROVE  people' \in [Person -> PersonRow] /\ saving' \in [Person -> Phone \cup {NoPhone}]
    <3>1. saving[p] \in Phone /\ people[p] \in PersonRow
      BY <2>2 DEF CommitPhone, Typed
    <3>2. [people[p] EXCEPT !.phone = saving[p]] \in PersonRow
      BY <3>1 DEF PersonRow
    <3> QED
      BY <2>2, <3>2 DEF CommitPhone, Typed
  <2>3. ASSUME NEW p \in Person, NEW a \in BOOLEAN, NEW b \in BOOLEAN, SetFlags(p, a, b)
        PROVE  people' \in [Person -> PersonRow] /\ saving' \in [Person -> Phone \cup {NoPhone}]
    <3>1. people[p] \in PersonRow
      BY DEF Typed
    <3>2. [[people[p] EXCEPT !.active = a] EXCEPT !.authorized = b] \in PersonRow
      BY <3>1 DEF PersonRow
    <3>3. people' = [people EXCEPT ![p] = [[people[p] EXCEPT !.active = a] EXCEPT !.authorized = b]]
      BY <2>3 DEF SetFlags, Typed
    <3> QED
      BY <2>3, <3>2, <3>3 DEF SetFlags, Typed
  <2>4. CASE UNCHANGED directory
    BY <2>4 DEF directory, Typed
  <2>5. CASE World
    BY <2>1, <2>2, <2>3, <2>4, <2>5 DEF World, CloseScope, EndAttempt, Crash, HangUp, Ring, Deliver
  <2>6. ASSUME NEW h \in Delivery, Handle(h) PROVE UNCHANGED directory
    BY <2>6 DEF Handle, FindCounterparty, RoutingFails, Refuse, RouteIncomingCall, ReadAttempt, ReadContext, Link,
       ReadBound, SelectExisting, InsertCall, ReadRoutedEvent, InsertRoutedEvent, RefreshTools, Accept, Reject,
       Connect, QueryFails, Keep
  <2> QED
    BY <2>4, <2>5, <2>6 DEF Next, Delivery
<1>3. sip' \in [Leg -> SipCall]
  <2>1. ASSUME NEW q \in Leg, NEW s \in {"accepted", "rejected", "over"}, sip' = [sip EXCEPT ![q].state = s]
        PROVE  sip' \in [Leg -> SipCall]
    <3>1. [sip[q] EXCEPT !.state = s] \in SipCall
      BY DEF Typed, SipCall
    <3> QED
      BY <2>1, <3>1 DEF Typed
  <2>2. ASSUME NEW q \in Leg, NEW c \in Phone \cup {NoPhone}, NEW n \in 0 .. 1, Ring(q, c, n)
        PROVE  sip' \in [Leg -> SipCall]
    <3>1. [state |-> "ringing", caller |-> c, record |-> n] \in SipCall
      BY DEF SipCall
    <3> QED
      BY <2>2, <3>1 DEF Ring, Typed
  <2>3. ASSUME NEW h \in Delivery, Accept(h) \/ Reject(h) PROVE sip' \in [Leg -> SipCall]
    <3>1. handler[h].leg \in Leg
      BY <2>3 DEF Accept, Reject, At, HandlersPlaced, Placed
    <3>2. sip' = sip \/ \E s \in {"accepted", "rejected"} : sip' = [sip EXCEPT ![handler[h].leg].state = s]
      BY <2>3 DEF Accept, Reject
    <3> QED
      BY <2>1, <3>1, <3>2 DEF Typed
  <2>4. ASSUME NEW q \in Leg, HangUp(q) PROVE sip' \in [Leg -> SipCall]
    BY <2>1, <2>4 DEF HangUp
  <2>5. CASE sip' = sip
    BY <2>5 DEF Typed
  <2>6. ASSUME NEW q \in Leg, Ringing(q) PROVE sip' \in [Leg -> SipCall]
    <3>1. 0 \in 0 .. 1 /\ 1 \in 0 .. 1
      OBVIOUS
    <3> QED
      BY <2>2, <2>6, <3>1 DEF Ringing
  <2> QED
    BY <2>3, <2>4, <2>5, <2>6, WhatChanges DEF EndAttempt, Link, InsertCall, InsertRoutedEvent
<1>4. routed' \in [1 .. MaxRows -> Nat]
  <2>1. ASSUME NEW h \in Delivery, InsertRoutedEvent(h) PROVE routed' \in [1 .. MaxRows -> Nat]
    <3>1. handler[h].row \in 1 .. MaxRows
      <4>1. handler[h].row \in DOMAIN calls
        BY <2>1 DEF InsertRoutedEvent, At, HandlersPlaced, OnItsRow
      <4>2. DOMAIN calls = 1 .. Len(calls) /\ Len(calls) \in Nat /\ Len(calls) <= MaxRows /\ MaxRows \in Nat
        BY RowsBounded, Numbers DEF Typed
      <4> QED
        BY <4>1, <4>2
    <3> QED
      BY <2>1, <3>1 DEF InsertRoutedEvent, Typed
  <2>2. CASE routed' = routed
    BY <2>2 DEF Typed
  <2> QED
    BY <2>1, <2>2, WhatChanges DEF tables, EndAttempt, HangUp, Ringing, Ring, Link, InsertCall, Accept, Reject
<1>5. refused' \subseteq [phone : Phone, reason : Reason] /\ open' \in BOOLEAN
  <2>1. ASSUME NEW h \in Delivery, Refuse(h)
        PROVE  refused' \subseteq [phone : Phone, reason : Reason] /\ open' \in BOOLEAN
    <3>1. PICK reason \in RejectionReason(Identity(h)) :
             refused' = refused \cup {[phone |-> SipOf(h).caller, reason |-> reason]}
      BY <2>1 DEF Refuse
    <3>2. reason \in Reason
      BY DEF RejectionReason, Reason
    <3>3. SipOf(h).caller \in Phone
      <4>1. handler[h].leg \in Leg /\ handler[h].left = {} /\ handler[h].pc = "identify"
        BY <2>1 DEF Refuse, Identified, At, HandlersPlaced, Placed
      <4>2. sip[handler[h].leg].caller # NoPhone
        BY <4>1 DEF HandlersPlaced, Placed
      <4> QED
        BY <4>1, <4>2, SipFields DEF SipOf
    <3> QED
      BY <2>1, <3>1, <3>2, <3>3 DEF Typed, Refuse
  <2>2. ASSUME NEW h \in Delivery, Handle(h), ~Refuse(h) PROVE UNCHANGED <<refused, open>>
    BY <2>2 DEF Handle, FindCounterparty, RoutingFails, RouteIncomingCall, ReadAttempt, ReadContext, Link,
       ReadBound, SelectExisting, InsertCall, ReadRoutedEvent, InsertRoutedEvent, RefreshTools, Accept, Reject,
       Connect, QueryFails, Keep
  <2>3. ASSUME World PROVE refused' = refused /\ open' \in {open, FALSE}
    BY <2>3 DEF World, CommitPhone, SavePhone, SetFlags, CloseScope, EndAttempt, Crash, HangUp, Ring, Deliver
  <2>4. CASE UNCHANGED <<refused, open>>
    BY <2>4 DEF Typed
  <2>5. CASE refused' = refused /\ open' = FALSE
    BY <2>5 DEF Typed
  <2> QED
    BY <2>1, <2>2, <2>3, <2>4, <2>5 DEF Next, Delivery
<1>6. edits' \in 0 .. MaxEdits /\ faults' \in 0 .. MaxFaults
  <2> DEFINE Counted == /\ edits' = edits \/ (edits < MaxEdits /\ edits' = edits + 1)
                        /\ faults' = faults \/ (faults < MaxFaults /\ faults' = faults + 1)
  <2>1. World => Counted
    BY DEF World, CommitPhone, SavePhone, SetFlags, CloseScope, EndAttempt, Crash, HangUp, Ring, Deliver, counters
  <2>2. ASSUME NEW h \in Delivery, Accept(h) \/ QueryFails(h) PROVE Counted
    BY <2>2 DEF Accept, QueryFails
  <2>3. ASSUME NEW h \in Delivery, Handle(h), ~Accept(h), ~QueryFails(h) PROVE Counted
    BY <2>3 DEF Handle, FindCounterparty, RoutingFails, Refuse, RouteIncomingCall, ReadAttempt, ReadContext, Link,
       ReadBound, SelectExisting, InsertCall, ReadRoutedEvent, InsertRoutedEvent, RefreshTools, Reject, Connect,
       Keep, counters
  <2>4. Counted
    BY <2>1, <2>2, <2>3 DEF Next, Delivery
  <2> QED
    BY <2>4, Numbers DEF Typed
<1> QED
  BY <1>1, <1>2, <1>3, <1>4, <1>5, <1>6 DEF Typed

\* What is said of a row stays true of it.
LEMMA RowKept ==
  ASSUME RoutingInv, Next, NEW i \in DOMAIN calls, NEW r \in Leg, sip[r].state # "none",
         calls[i].realtime = r, calls[i].direction = DirectionOf(r)
  PROVE  /\ i \in DOMAIN calls' /\ calls'[i].realtime = r /\ calls'[i].person = calls[i].person
         /\ calls'[i].direction = (IF sip'[r].record # 0 THEN "outbound" ELSE "inbound")
         /\ (routed[i] > 0 => routed'[i] > 0)
<1>1. Monotone /\ r # NoLeg
  BY StepIsMonotone, Numbers
<1>2. i \in 1 .. MaxRows /\ routed[i] \in Nat /\ routed'[i] \in Nat
  <2>1. i \in 1 .. Len(calls) /\ Len(calls) \in Nat /\ Len(calls) <= MaxRows /\ MaxRows \in Nat
    BY RowsBounded, Numbers DEF RoutingInv, Typed
  <2>2. i \in 1 .. MaxRows
    BY <2>1
  <2> QED
    BY <2>2, TypedNext DEF RoutingInv, Typed
<1> QED
  BY <1>1, <1>2 DEF Monotone, DirectionOf

\* An acting delivery that keeps its row.
LEMMA RowStays ==
  ASSUME RoutingInv, Next, NEW h \in Delivery,
         handler[h].pc \in {"event", "announce", "refresh", "accept", "connect", "talking"},
         handler'[h].leg = handler[h].leg, handler'[h].person = handler[h].person,
         handler'[h].row = handler[h].row,
         handler'[h].pc \in {"refresh", "accept", "connect", "talking"} =>
           \/ handler[h].pc \in {"refresh", "accept", "connect", "talking"}
           \/ routed'[handler[h].row] > 0
  PROVE  OnItsRow(h)'
<1> DEFINE i == handler[h].row
           r == handler[h].leg
<1>1. /\ i \in DOMAIN calls /\ r \in Leg /\ sip[r].state # "none" /\ calls[i].realtime = r
      /\ calls[i].person = handler[h].person /\ calls[i].direction = DirectionOf(r)
      /\ handler[h].pc \in {"refresh", "accept", "connect", "talking"} => routed[i] > 0
  BY DEF RoutingInv, HandlersPlaced, Placed, OnItsRow
<1>2. /\ i \in DOMAIN calls' /\ calls'[i].realtime = r /\ calls'[i].person = calls[i].person
      /\ calls'[i].direction = (IF sip'[r].record # 0 THEN "outbound" ELSE "inbound")
      /\ (routed[i] > 0 => routed'[i] > 0)
  BY <1>1, RowKept
<1> QED
  BY <1>1, <1>2 DEF OnItsRow, DirectionOf

LEMMA PlacedNext == ASSUME RoutingInv, Next, NEW h \in Delivery PROVE Placed(h)' /\ OnItsRow(h)'
<1> USE DEF RoutingInv
<1>0. /\ Monotone /\ DOMAIN calls = 1 .. Len(calls) /\ Len(calls) <= MaxRows /\ Len(calls) \in Nat
      /\ routed \in [1 .. MaxRows -> Nat] /\ routed' \in [1 .. MaxRows -> Nat] /\ MaxRows \in Nat
      /\ Placed(h) /\ OnItsRow(h) /\ handler'[h] \in HandlerState
  BY StepIsMonotone, RowsBounded, TypedNext, Numbers DEF Typed, HandlersPlaced
<1> DEFINE Same == /\ handler'[h].leg = handler[h].leg /\ handler'[h].left = handler[h].left
                   /\ handler'[h].person = handler[h].person /\ handler'[h].row = handler[h].row
\* What is true of a place stays true while the delivery stays there.
<1>1. ASSUME handler'[h] = handler[h]
      PROVE  Placed(h)' /\ OnItsRow(h)'
  <2>1. Placed(h)'
    BY <1>0, <1>1 DEF Placed, Monotone
  <2>2. CASE handler[h].pc \in {"event", "announce", "refresh", "accept", "connect", "talking"}
    BY <1>1, <2>1, <2>2, RowStays
  <2>3. CASE handler[h].pc \notin {"event", "announce", "refresh", "accept", "connect", "talking"}
    BY <1>1, <2>1, <2>3 DEF OnItsRow
  <2> QED
    BY <2>2, <2>3
\* A delivery that is over has a call, and that is all.
<1>2. ASSUME handler[h].pc # "idle", handler'[h].leg = handler[h].leg,
             handler'[h].pc \in {"reject", "done", "failed"}
      PROVE  Placed(h)' /\ OnItsRow(h)'
  BY <1>0, <1>2 DEF Placed, OnItsRow, Monotone
\* On the way to an answer, the row stays the row.
<1>3. ASSUME Same, handler[h].pc \in {"event", "announce", "refresh", "accept", "connect"},
             handler'[h].pc \in {"announce", "refresh", "accept", "connect", "talking"},
             handler[h].pc \in {"refresh", "accept", "connect"} \/ handler'[h].pc = "announce"
               \/ routed'[handler[h].row] > 0
      PROVE  Placed(h)' /\ OnItsRow(h)'
  <2>1. Placed(h)'
    BY <1>0, <1>3 DEF Placed, Monotone
  <2> QED
    BY <1>3, <2>1, RowStays
\* Before there is a row, only the place counts.
<1>4. ASSUME handler[h].pc # "idle", handler'[h].leg = handler[h].leg,
             handler'[h].pc \in {"identify", "context", "link", "bound", "select", "insert"},
             handler'[h].pc \in {"context", "link", "bound"} => sip[handler[h].leg].record # 0,
             handler'[h].pc \in {"identify", "insert"} => sip[handler[h].leg].record = 0,
             handler'[h].pc = "identify" => sip[handler[h].leg].caller # NoPhone,
             handler'[h].pc # "identify" => handler'[h].person \in Person
      PROVE  Placed(h)' /\ OnItsRow(h)'
  BY <1>0, <1>4 DEF Placed, OnItsRow, Monotone
<1>5. CASE Crash
  <2>1. handler'[h] = handler[h] \/ (Same /\ handler'[h].pc = "failed" /\ handler[h].pc # "idle")
    BY <1>5, HandlerFields DEF Crash, Delivery, HandlerState
  <2> QED
    BY <1>1, <1>2, <2>1
<1>6. ASSUME NEW r \in Leg, Deliver(h, r) PROVE Placed(h)' /\ OnItsRow(h)'
  <2>1. /\ handler'[h].leg = r /\ handler'[h].left = {"contact", "provider"} /\ sip' = sip
        /\ sip[r].state # "none"
        /\ handler'[h].pc = IF sip[r].record # 0 THEN "attempt" ELSE "identify"
    BY <1>6, HandlerFields DEF Deliver, HandlerState, Typed
  <2> QED
    BY <2>1 DEF Placed, OnItsRow
<1>7. CASE Handle(h)
  <2>0. \A label : Goto(h, label) => handler'[h].pc = label /\ Same
    BY GotoFields
  <2>1. ASSUME NEW t \in {"contact", "provider"}, FindCounterparty(h, t) PROVE Placed(h)' /\ OnItsRow(h)'
    <3>1. /\ handler[h].pc = "identify" /\ sip[handler[h].leg].caller # NoPhone
          /\ handler'[h].pc = handler[h].pc /\ handler'[h].leg = handler[h].leg
      BY <2>1, HandlerFields DEF FindCounterparty, At, SipOf, Typed, HandlerState
    <3> QED
      BY <1>0, <1>4, <3>1 DEF Placed
  <2>2. CASE RoutingFails(h) \/ Refuse(h) \/ QueryFails(h) \/ Reject(h)
    <3>1. handler[h].pc # "idle" /\ \E label \in {"reject", "done", "failed"} : Goto(h, label)
      BY <2>2 DEF RoutingFails, Refuse, QueryFails, Reject, Identified, At, Queries
    <3> QED
      BY <1>2, <2>0, <3>1
  <2>3. CASE RouteIncomingCall(h)
    <3>1. Identity(h).person \in Person
      BY <2>3, Identities DEF RouteIncomingCall
    <3>2. /\ handler[h].pc = "identify" /\ handler'[h].pc = "select"
          /\ handler'[h].leg = handler[h].leg /\ handler'[h].person = Identity(h).person
      BY <2>3, HandlerFields DEF RouteIncomingCall, Identified, At, Typed, HandlerState
    <3> QED
      BY <1>4, <3>1, <3>2
  <2>4. CASE ReadAttempt(h)
    <3>1. 1 \in DOMAIN calls
      BY <1>0, <2>4 DEF ReadAttempt, At, Placed, RowsMatchLegs, LegRows
    <3>2. /\ handler[h].pc = "attempt" /\ handler'[h].pc \in {"context", "reject"}
          /\ handler'[h].leg = handler[h].leg /\ handler'[h].person = calls[1].person
      BY <2>4, HandlerFields DEF ReadAttempt, At, Typed, HandlerState
    <3>3. calls[1].person \in Person
      BY <3>1, RowFields
    <3> QED
      BY <1>0, <1>2, <1>4, <3>2, <3>3 DEF Placed
  <2>5. CASE ReadContext(h) \/ Link(h) \/ ReadBound(h)
    <3>1. /\ handler[h].pc \in {"context", "link", "bound"}
          /\ \E label \in {"reject", "select", "link", "bound"} : Goto(h, label)
      BY <2>5 DEF ReadContext, Link, ReadBound, At
    <3> QED
      BY <1>0, <1>2, <1>4, <2>0, <3>1 DEF Placed
  <2>6. CASE SelectExisting(h)
    <3>1. CASE Goto(h, "reject") /\ At(h, "select")
      BY <1>2, <2>0, <3>1 DEF At
    <3>2. CASE Goto(h, "insert") /\ At(h, "select") /\ Direction(h) # "outbound"
      BY <1>0, <1>4, <2>0, <3>2 DEF At, Direction, SipOf, Placed
    <3>3. ASSUME NEW i \in RowOf(handler[h].leg), At(h, "select"),
                 handler' = [handler EXCEPT ![h].row = i, ![h].pc = IF InScope(h, i) THEN "event" ELSE "reject"]
          PROVE  Placed(h)' /\ OnItsRow(h)'
      <4>1. /\ handler[h].pc = "select" /\ handler'[h].row = i /\ handler'[h].leg = handler[h].leg
            /\ handler'[h].person = handler[h].person
            /\ handler'[h].pc = IF InScope(h, i) THEN "event" ELSE "reject"
        BY <3>3, HandlerFields DEF At, Typed, HandlerState
      <4>2. CASE ~InScope(h, i)
        BY <1>2, <4>1, <4>2
      <4>3. CASE InScope(h, i)
        <5> DEFINE r == handler[h].leg
        <5>1. /\ r \in Leg /\ sip[r].state # "none" /\ i \in DOMAIN calls /\ calls[i].realtime = r
              /\ calls[i].person = handler[h].person /\ calls[i].direction = DirectionOf(r)
          BY <1>0, <3>3, <4>1, <4>3 DEF Placed, RowOf, InScope, Direction, SipOf, DirectionOf
        <5>2. /\ i \in DOMAIN calls' /\ calls'[i].realtime = r /\ calls'[i].person = calls[i].person
              /\ calls'[i].direction = (IF sip'[r].record # 0 THEN "outbound" ELSE "inbound")
          BY <5>1, RowKept
        <5>3. Placed(h)'
          BY <1>0, <4>1, <4>3 DEF Placed, Monotone
        <5>4. OnItsRow(h)'
          BY <4>1, <4>3, <5>1, <5>2 DEF OnItsRow, DirectionOf
        <5> QED
          BY <5>3, <5>4
      <4> QED
        BY <4>2, <4>3
    <3> QED
      BY <2>6, <3>1, <3>2, <3>3 DEF SelectExisting
  <2>7. CASE InsertCall(h)
    <3>1. CASE Goto(h, "reject") /\ At(h, "insert")
      BY <1>2, <2>0, <3>1 DEF At
    <3>2. CASE Len(calls') = Len(calls) + 1
      <4> DEFINE r == handler[h].leg
                 row == [person |-> handler[h].person, direction |-> "inbound", realtime |-> r, active |-> TRUE]
      <4>1. calls' = Append(calls, row) /\ handler[h].pc = "insert" /\ sip' = sip
        BY <1>0, <2>7, <3>2 DEF InsertCall, At
      <4>2. /\ handler'[h].row = Len(calls) + 1 /\ handler'[h].leg = r
            /\ handler'[h].person = handler[h].person /\ handler'[h].pc = "event"
        BY <1>0, <2>7, <3>2, HandlerFields DEF InsertCall, Typed, HandlerState
      <4>3. row.person = handler[h].person /\ row.direction = "inbound" /\ row.realtime = r
        OBVIOUS
      <4>4. sip[r].record = 0 /\ r \in Leg /\ sip[r].state # "none"
        BY <1>0, <4>1 DEF Placed
      <4> HIDE DEF row
      <4>5. Len(calls) + 1 \in DOMAIN calls' /\ calls'[Len(calls) + 1] = row
        BY <1>0, <4>1 DEF Typed
      <4>6. Placed(h)'
        BY <4>1, <4>2, <4>4 DEF Placed
      <4>7. OnItsRow(h)'
        BY <4>1, <4>2, <4>3, <4>4, <4>5 DEF OnItsRow, DirectionOf
      <4> QED
        BY <4>6, <4>7
    <3>3. \/ Goto(h, "reject") /\ At(h, "insert")
          \/ \E row : calls' = Append(calls, row)
      BY <2>7 DEF InsertCall
    <3>4. ASSUME NEW row, calls' = Append(calls, row) PROVE Len(calls') = Len(calls) + 1
      BY <3>4, RowsNext DEF Typed
    <3> QED
      BY <3>1, <3>2, <3>3, <3>4
  <2>8. CASE ReadRoutedEvent(h) \/ InsertRoutedEvent(h)
    <3>1. /\ handler[h].row \in 1 .. MaxRows
          /\ handler[h].pc \in {"event", "announce"}
      BY <1>0, <2>8, Numbers DEF ReadRoutedEvent, InsertRoutedEvent, At, OnItsRow
    <3>2. CASE ReadRoutedEvent(h)
      <4>1. /\ routed' = routed
            /\ Goto(h, "announce") \/ (Goto(h, "refresh") /\ routed[handler[h].row] > 0)
        BY <3>2 DEF ReadRoutedEvent, tables
      <4> QED
        BY <1>3, <2>0, <3>1, <4>1
    <3>3. CASE InsertRoutedEvent(h)
      <4>1. routed' = [routed EXCEPT ![handler[h].row] = @ + 1] /\ Goto(h, "refresh")
        BY <3>3 DEF InsertRoutedEvent
      <4>2. routed'[handler[h].row] > 0
        BY <1>0, <3>1, <4>1
      <4> QED
        BY <1>3, <2>0, <3>1, <4>1, <4>2
    <3> QED
      BY <2>8, <3>2, <3>3
  <2>9. CASE RefreshTools(h) \/ Accept(h) \/ Connect(h)
    <3>1. /\ handler[h].pc \in {"refresh", "accept", "connect"}
          /\ \E label \in {"accept", "connect", "talking", "reject", "failed"} : Goto(h, label)
      BY <2>9 DEF RefreshTools, Accept, Connect, At
    <3> QED
      BY <1>2, <1>3, <2>0, <3>1
  <2> QED
    BY <1>7, <2>1, <2>2, <2>3, <2>4, <2>5, <2>6, <2>7, <2>8, <2>9 DEF Handle
<1> QED
  BY <1>1, <1>5, <1>6, <1>7, WhoMoves

------------------------------------------------------------------------------
(* Acceptance and announcement                                               *)

LEMMA AcceptedNext == ASSUME RoutingInv, Next PROVE AcceptedIsRecorded'
<1> USE DEF RoutingInv
<1> SUFFICES ASSUME NEW r \in Leg, sip'[r].state = "accepted"
             PROVE  \E i \in DOMAIN calls' : calls'[i].realtime = r /\ routed'[i] > 0
  BY DEF AcceptedIsRecorded, RowOf
<1>1. ASSUME NEW i \in DOMAIN calls, calls[i].realtime = r, routed[i] > 0
      PROVE  \E j \in DOMAIN calls' : calls'[j].realtime = r /\ routed'[j] > 0
  BY <1>1, RowKept DEF RowsMatchLegs
<1>2. CASE sip[r].state = "accepted"
  BY <1>1, <1>2 DEF AcceptedIsRecorded, RowOf
<1>3. ASSUME NEW h \in Delivery, Accept(h), handler[h].leg = r
      PROVE  \E i \in DOMAIN calls : calls[i].realtime = r /\ routed[i] > 0
  BY <1>3 DEF Accept, At, HandlersPlaced, OnItsRow
<1>4. sip[r].state = "accepted" \/ \E h \in Delivery : Accept(h) /\ handler[h].leg = r
  <2>1. CASE \E q \in Leg : Ringing(q)
    BY <2>1, SipFields DEF Ringing, Ring, Typed
  <2>2. ASSUME NEW q \in Leg, HangUp(q) PROVE sip[r].state = "accepted"
    BY <2>2, SipSet DEF HangUp
  <2>3. ASSUME NEW h \in Delivery, Accept(h) \/ Reject(h)
        PROVE  sip[r].state = "accepted" \/ (Accept(h) /\ handler[h].leg = r)
    <3>1. handler[h].leg \in Leg
      BY <2>3 DEF Accept, Reject, At, HandlersPlaced, Placed
    <3>2. CASE Reject(h)
      <4>1. sip' = sip \/ sip' = [sip EXCEPT ![handler[h].leg].state = "rejected"]
        BY <3>2 DEF Reject
      <4>2. CASE sip' = [sip EXCEPT ![handler[h].leg].state = "rejected"]
        <5>1. sip'[r].state = IF r = handler[h].leg THEN "rejected" ELSE sip[r].state
          BY <3>1, <4>2, SipSet
        <5> QED
          BY <5>1
      <4> QED
        BY <4>1, <4>2
    <3>3. CASE Accept(h)
      <4>1. sip' = sip \/ sip' = [sip EXCEPT ![handler[h].leg].state = "accepted"]
        BY <3>3 DEF Accept
      <4> QED
        BY <3>1, <3>3, <4>1, SipSet
    <3> QED
      BY <2>3, <3>2, <3>3
  <2>4. CASE sip' = sip
    BY <2>4
  <2> QED
    BY <2>1, <2>2, <2>3, <2>4, WhatChanges DEF EndAttempt, Link, InsertCall, InsertRoutedEvent
<1> QED
  BY <1>1, <1>2, <1>3, <1>4

LEMMA PastStays == ASSUME RoutingInv, Next, NEW i PROVE Past(i) \subseteq Past(i)'
<1> DEFINE Over == {"refresh", "accept", "connect", "reject", "talking", "done", "failed"}
<1> SUFFICES ASSUME NEW h \in Delivery, handler[h].pc \in Over
             PROVE  handler'[h].pc \in Over /\ handler'[h].row = handler[h].row
  BY DEF Past
<1>1. CASE handler'[h] = handler[h]
  BY <1>1
<1>2. CASE Crash
  BY <1>2, HandlerFields DEF RoutingInv, Crash, Delivery, HandlerState
<1>3. ASSUME NEW r \in Leg, Deliver(h, r) PROVE FALSE
  BY <1>3 DEF Deliver
<1>4. CASE Handle(h)
  <2>1. CASE RefreshTools(h) \/ Accept(h) \/ Reject(h) \/ Connect(h) \/ QueryFails(h)
    <3>1. \E label \in Over : Goto(h, label)
      BY <2>1 DEF RefreshTools, Accept, Reject, Connect, QueryFails
    <3> QED
      BY <3>1, GotoFields DEF RoutingInv
  <2>2. CASE ~(RefreshTools(h) \/ Accept(h) \/ Reject(h) \/ Connect(h) \/ QueryFails(h))
    BY <1>4, <2>2 DEF Handle, FindCounterparty, RoutingFails, Refuse, RouteIncomingCall, Identified, ReadAttempt,
       ReadContext, Link, ReadBound, SelectExisting, InsertCall, ReadRoutedEvent, InsertRoutedEvent, At
  <2> QED
    BY <2>1, <2>2
<1> QED
  BY <1>1, <1>2, <1>3, <1>4, WhoMoves DEF RoutingInv

LEMMA EventsNext == ASSUME RoutingInv, Next PROVE EventsCounted'
<1> SUFFICES ASSUME NEW i \in 1 .. MaxRows PROVE routed'[i] <= Cardinality(Past(i)')
  BY DEF EventsCounted
<1> DEFINE S == Past(i)
           T == Past(i)'
<1>1. /\ IsFiniteSet(S) /\ Cardinality(S) \in Nat /\ IsFiniteSet(Delivery) /\ T \subseteq Delivery
      /\ S \subseteq T /\ routed[i] <= Cardinality(S)
  BY PastIsFinite, PastStays DEF Past, RoutingInv, EventsCounted
<1> HIDE DEF S, T
<1>2. IsFiniteSet(T) /\ Cardinality(T) \in Nat
  BY <1>1, FS_Subset, FS_CardinalityType
<1>3. Cardinality(S) <= Cardinality(T)
  BY <1>1, <1>2, FS_Subset
<1>4. CASE routed'[i] = routed[i]
  BY <1>1, <1>2, <1>3, <1>4, TypedNext DEF RoutingInv, Typed, T
<1>5. ASSUME NEW h \in Delivery, InsertRoutedEvent(h), routed'[i] # routed[i]
      PROVE  routed'[i] <= Cardinality(T)
  <2>1. handler[h].row = i /\ routed'[i] = routed[i] + 1 /\ handler[h].pc = "announce"
    BY <1>5 DEF InsertRoutedEvent, At, RoutingInv, Typed
  <2>2. h \notin S
    BY <2>1 DEF S, Past
  <2>3. h \in T
    BY <1>5, <2>1, GotoFields DEF InsertRoutedEvent, RoutingInv, T, Past
  <2>4. Cardinality(S \cup {h}) = Cardinality(S) + 1
    BY <1>1, <2>2, FS_AddElement
  <2>5. Cardinality(S \cup {h}) <= Cardinality(T)
    BY <1>1, <1>2, <2>3, FS_Subset
  <2>6. routed[i] \in Nat
    BY DEF RoutingInv, Typed
  <2> QED
    BY <1>1, <1>2, <2>1, <2>4, <2>5, <2>6
<1>6. routed'[i] = routed[i] \/ \E h \in Delivery : InsertRoutedEvent(h)
  BY WhatChanges DEF tables, EndAttempt, HangUp, Ringing, Ring, Link, InsertCall, Accept, Reject
<1> QED
  BY <1>4, <1>5, <1>6 DEF T

------------------------------------------------------------------------------
(* The theorems                                                              *)

LEMMA RoutingNext == ASSUME RoutingInv, [Next]_vars PROVE RoutingInv'
<1>1. CASE Next
  BY <1>1, TypedNext, RowsNext, RowsMatchNext, PlacedNext, AcceptedNext, EventsNext DEF RoutingInv, HandlersPlaced
<1>2. CASE UNCHANGED vars
  BY <1>2 DEF vars, RoutingInv, Typed, LegRows, RowsMatchLegs, DirectionOf, HandlersPlaced, Placed, OnItsRow,
     AcceptedIsRecorded, RowOf, EventsCounted, Past
<1> QED
  BY <1>1, <1>2

\* The invariant holds of every directory, every number of calls and of deliveries.
THEOREM RoutingIsSafe == Spec => []RoutingInv
BY RoutingInit, RoutingNext, PTL DEF Spec

\* Every state is well-typed: also the rows are no more than the calls at
\* OpenAI and the attempt's, and a row is announced at most once per delivery.
THEOREM TypeCorrect == Spec => []TypeOK
<1>1. RoutingInv => TypeOK
  <2> SUFFICES ASSUME RoutingInv PROVE TypeOK
    OBVIOUS
  <2>1. Len(calls) <= MaxRows
    BY RowsBounded DEF RoutingInv, Typed
  <2>2. routed \in [1 .. MaxRows -> 0 .. MaxDeliveries]
    <3> SUFFICES ASSUME NEW i \in 1 .. MaxRows PROVE routed[i] \in 0 .. MaxDeliveries
      BY DEF RoutingInv, Typed
    <3>1. routed[i] \in Nat /\ routed[i] <= Cardinality(Past(i))
      BY DEF RoutingInv, Typed, EventsCounted
    <3> QED
      BY <3>1, PastIsFinite, Numbers
  <2> QED
    BY <2>1, <2>2 DEF RoutingInv, Typed, TypeOK, Delivery
<1> QED
  BY <1>1, RoutingIsSafe, PTL

\* A delivery acts for whoever its row says, whatever is delivered twice, edited
\* or lost in between.
THEOREM ScopeCorrect == Spec => []ScopeIsTheRow
<1>1. RoutingInv => ScopeIsTheRow
  BY DEF RoutingInv, HandlersPlaced, OnItsRow, ScopeIsTheRow, Acting, CallScope, Direction, DirectionOf, SipOf, Delivery
<1> QED
  BY <1>1, RoutingIsSafe, PTL

\* Whoever is put through has a row and the event that says how.
THEOREM AcceptanceRecorded == Spec => []AcceptedIsRecorded
<1>1. RoutingInv => AcceptedIsRecorded
  BY DEF RoutingInv
<1> QED
  BY <1>1, RoutingIsSafe, PTL

\* No step takes a row away or gives it to another realtime call.
THEOREM LinkedOnce == Spec => BoundOnce
<1>1. RoutingInv /\ [Next]_vars =>
        [\A i \in DOMAIN calls :
           /\ i \in DOMAIN calls'
           /\ calls[i].realtime # NoLeg => calls'[i].realtime = calls[i].realtime]_vars
  BY StepIsMonotone DEF Monotone
<1> QED
  BY <1>1, RoutingIsSafe, PTL DEF Spec, BoundOnce
==============================================================================
