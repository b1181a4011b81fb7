---------------------------- MODULE IncomingCalls ----------------------------
(***************************************************************************)
(* How a SIP call that reaches OpenAI becomes a conversation.  OpenAI      *)
(* delivers a webhook, and the handler of the server finds out who is      *)
(* calling (or which dispatched attempt the call belongs to), records the  *)
(* call, loads its tools, accepts it and opens the sideband.               *)
(*                                                                         *)
(* Every await of the handler is a step of its own.  Interleaved with it:  *)
(* other deliveries of the same webhook, other calls, the operators who    *)
(* edit the directory, the end of the attempt or of its search, a caller   *)
(* who hangs up, and a restart of the server.                              *)
(***************************************************************************)
EXTENDS Integers, Sequences, FiniteSets

CONSTANTS
  Contacts, Providers,  \* the people of the directory
  Leg,                  \* SIP calls, each with a realtime call id of its own
  Nobody, Several,      \* what a lookup finds besides one person
  NoLeg,                \* no realtime call id
  Lines,                \* number of telephone lines
  Outbound,             \* TRUE: an attempt has been dispatched to a provider
  MaxDeliveries,        \* bound on the webhooks delivered
  MaxEdits,             \* bound on the changes of the directory
  MaxFaults             \* bound on crashes and lost replies

ASSUME IncomingAssumption ==
  /\ Contacts \cap Providers = {} /\ Nobody # Several /\ NoLeg \notin Leg
  /\ {Nobody, Several} \cap (Contacts \cup Providers) = {}
  /\ IsFiniteSet(Leg) /\ Outbound \in BOOLEAN
  /\ Lines \in Nat /\ MaxDeliveries \in Nat /\ MaxEdits \in Nat /\ MaxFaults \in Nat

VARIABLES
  people,    \* contacts and providers rows
  saving,    \* the telephone numbers of transactions under way
  calls,     \* calls rows
  routed,    \* call.routed events of each row
  refused,   \* call.rejected events
  open,      \* the operation, request and round of the attempt are in scope
  sip,       \* the calls at OpenAI
  handler,   \* the deliveries of the webhook
  edits, faults

vars == <<people, saving, calls, routed, refused, open, sip, handler, edits, faults>>
directory == <<people, saving>>
tables == <<calls, routed>>
counters == <<edits, faults>>

Person == Contacts \cup Providers
\* An Argentine number, with or without the mobile marker.
Phone == [line : 1 .. Lines, mobile : BOOLEAN]
NoPhone == [line |-> 0, mobile |-> FALSE]
MaxRows == Cardinality(Leg) + 1

PersonRow == [phone : Phone, active : BOOLEAN, authorized : BOOLEAN]
CallRow == [person : Person, direction : {"inbound", "outbound"}, realtime : Leg \cup {NoLeg},
            active : BOOLEAN]
SipCall == [state : {"none", "ringing", "accepted", "rejected", "over"},
            caller : Phone \cup {NoPhone}, record : 0 .. 1]
Reason == {"unknown_caller", "inactive_contact", "unauthorized_contact"}
\* What a lookup found, as it was when it was read.
Found == [person : Person \cup {Nobody, Several}, active : BOOLEAN, authorized : BOOLEAN]
Unread == [person |-> Nobody, active |-> FALSE, authorized |-> FALSE]
HandlerState ==
  [pc : {"idle", "identify", "attempt", "context", "link", "bound", "select", "insert", "event",
         "announce", "refresh", "accept", "connect", "reject", "talking", "done", "failed"},
   leg : Leg \cup {NoLeg}, contact : Found, provider : Found, left : SUBSET {"contact", "provider"},
   person : Person \cup {Nobody}, row : 0 .. MaxRows]

TypeOK ==
  /\ people \in [Person -> PersonRow] /\ saving \in [Person -> Phone \cup {NoPhone}]
  /\ calls \in Seq(CallRow) /\ Len(calls) <= MaxRows
  /\ routed \in [1 .. MaxRows -> 0 .. MaxDeliveries]
  /\ refused \subseteq [phone : Phone, reason : Reason] /\ open \in BOOLEAN
  /\ sip \in [Leg -> SipCall] /\ handler \in [1 .. MaxDeliveries -> HandlerState]
  /\ edits \in 0 .. MaxEdits /\ faults \in 0 .. MaxFaults

\* The numbers are written with the marker at first: edits write the others.
Init ==
  /\ people \in [Person -> [phone : [line : 1 .. Lines, mobile : {TRUE}], active : {TRUE},
                            authorized : {TRUE}]]
  /\ \A p, q \in Person : people[p].phone = people[q].phone => p = q
  /\ saving = [p \in Person |-> NoPhone]
  /\ calls \in IF Outbound THEN {<<[person |-> p, direction |-> "outbound", realtime |-> NoLeg,
                                    active |-> TRUE]>> : p \in Providers}
               ELSE {<<>>}
  /\ routed = [i \in 1 .. MaxRows |-> 0] /\ refused = {} /\ open = TRUE
  /\ sip = [r \in Leg |-> [state |-> "none", caller |-> NoPhone, record |-> 0]]
  /\ handler = [h \in 1 .. MaxDeliveries |->
       [pc |-> "idle", leg |-> NoLeg, contact |-> Unread, provider |-> Unread, left |-> {},
        person |-> Nobody, row |-> 0]]
  /\ edits = 0 /\ faults = 0

------------------------------------------------------------------------------
(* The directory.  A transaction that gives somebody a number locks the    *)
(* number before it looks for it in the other table.                       *)

Free(p, phone) ==
  /\ \A q \in Person \ {p} : people[q].phone # phone
  /\ \A q \in Person \ {p} : saving[q] # phone

SavePhone(p, phone) ==
  /\ edits < MaxEdits /\ saving[p] = NoPhone /\ people[p].phone # phone /\ Free(p, phone)
  /\ saving' = [saving EXCEPT ![p] = phone] /\ edits' = edits + 1
  /\ UNCHANGED <<people, tables, refused, open, sip, handler, faults>>

CommitPhone(p) ==
  /\ saving[p] # NoPhone
  /\ people' = [people EXCEPT ![p].phone = saving[p]]
  /\ saving' = [saving EXCEPT ![p] = NoPhone]
  /\ UNCHANGED <<tables, refused, open, sip, handler, counters>>

SetFlags(p, active, authorized) ==
  /\ edits < MaxEdits /\ saving[p] = NoPhone /\ (p \in Providers => authorized)
  /\ people' = [people EXCEPT ![p].active = active, ![p].authorized = authorized]
  /\ people' # people /\ edits' = edits + 1
  /\ UNCHANGED <<saving, tables, refused, open, sip, handler, faults>>

\* The search the attempt belongs to ends, or the attempt itself does.
CloseScope ==
  /\ Outbound /\ open /\ open' = FALSE
  /\ UNCHANGED <<directory, tables, refused, sip, handler, counters>>
EndAttempt ==
  /\ Outbound /\ calls[1].active /\ calls' = [calls EXCEPT ![1].active = FALSE]
  /\ UNCHANGED <<directory, routed, refused, open, sip, handler, counters>>

------------------------------------------------------------------------------
(* OpenAI and the telephone network                                        *)

Ring(r, caller, record) ==
  /\ sip[r].state = "none" /\ (record = 1 => Outbound)
  /\ sip' = [sip EXCEPT ![r] = [state |-> "ringing", caller |-> caller, record |-> record]]
  /\ UNCHANGED <<directory, tables, refused, open, handler, counters>>

HangUp(r) ==
  /\ sip[r].state \in {"ringing", "accepted"}
  /\ sip' = [sip EXCEPT ![r].state = "over"]
  /\ UNCHANGED <<directory, tables, refused, open, handler, counters>>

\* The webhook of a call may be delivered again at any time.
Deliver(h, r) ==
  /\ handler[h].pc = "idle" /\ sip[r].state # "none"
  /\ \A g \in 1 .. h - 1 : handler[g].pc # "idle"
  /\ handler' = [handler EXCEPT ![h].leg = r, ![h].left = {"contact", "provider"},
       ![h].pc = IF sip[r].record # 0 THEN "attempt" ELSE "identify"]
  /\ UNCHANGED <<directory, tables, refused, open, sip, counters>>

\* A restart: every delivery in progress is lost, and every session with it.
Crash ==
  /\ faults < MaxFaults /\ faults' = faults + 1
  /\ \E h \in 1 .. MaxDeliveries : handler[h].pc \notin {"idle", "done", "failed"}
  /\ handler' = [h \in 1 .. MaxDeliveries |->
       IF handler[h].pc \in {"idle", "done"} THEN handler[h] ELSE [handler[h] EXCEPT !.pc = "failed"]]
  /\ UNCHANGED <<directory, tables, refused, open, sip, edits>>

------------------------------------------------------------------------------
(* The handler: who is calling                                             *)

At(h, label) == handler[h].pc = label
Goto(h, label) == handler' = [handler EXCEPT ![h].pc = label]
SipOf(h) == sip[handler[h].leg]
Keep == UNCHANGED <<directory, refused, open, counters>>

CallerIdVariants(phone) == {phone, [phone EXCEPT !.mobile = ~@]}

Lookup(table, phone) ==
  LET rows == {p \in table : people[p].active /\ people[p].phone \in CallerIdVariants(phone)}
      p == CHOOSE q \in rows : TRUE
  IN CASE rows = {} -> Unread
       [] Cardinality(rows) > 1 -> [Unread EXCEPT !.person = Several]
       [] OTHER -> [person |-> p, active |-> people[p].active, authorized |-> people[p].authorized]

FindCounterparty(h, table) ==
  /\ At(h, "identify") /\ table \in handler[h].left /\ SipOf(h).caller # NoPhone
  /\ handler' = [handler EXCEPT ![h].left = @ \ {table},
       ![h].contact = IF table = "contact" THEN Lookup(Contacts, SipOf(h).caller) ELSE @,
       ![h].provider = IF table = "provider" THEN Lookup(Providers, SipOf(h).caller) ELSE @]
  /\ UNCHANGED <<tables, sip>> /\ Keep

Identified(h) == At(h, "identify") /\ handler[h].left = {}
Ambiguous(h) ==
  \/ Several \in {handler[h].contact.person, handler[h].provider.person}
  \/ Nobody \notin {handler[h].contact.person, handler[h].provider.person}
Identity(h) == IF handler[h].contact.person # Nobody THEN handler[h].contact ELSE handler[h].provider

\* Mutant: nobody is not told apart from somebody in good standing.
RejectionReasonIfKnown(found) ==
  IF found.person \in Contacts /\ ~found.authorized THEN {"unauthorized_contact"} ELSE {}

RejectionReason(found) ==
  CASE found.person = Nobody -> {"unknown_caller"}
    [] found.person # Nobody /\ ~found.active ->
         {IF found.person \in Contacts THEN "inactive_contact" ELSE "unknown_caller"}
    [] found.person \in Contacts /\ found.active /\ ~found.authorized -> {"unauthorized_contact"}
    [] OTHER -> {}

\* No caller ID, or one that fits several people: the call is refused unrecorded.
RoutingFails(h) ==
  /\ \/ At(h, "identify") /\ SipOf(h).caller = NoPhone
     \/ Identified(h) /\ Ambiguous(h)
  /\ Goto(h, "reject") /\ UNCHANGED <<tables, sip>> /\ Keep

\* Recording the refusal is tried once: the call is refused all the same.
Refuse(h) ==
  /\ Identified(h) /\ ~Ambiguous(h)
  /\ \E reason \in RejectionReason(Identity(h)) :
       refused' = refused \cup {[phone |-> SipOf(h).caller, reason |-> reason]}
  /\ Goto(h, "reject") /\ UNCHANGED <<directory, tables, open, sip, counters>>

RouteIncomingCall(h) ==
  /\ Identified(h) /\ ~Ambiguous(h) /\ RejectionReason(Identity(h)) = {}
  /\ handler' = [handler EXCEPT ![h].person = Identity(h).person, ![h].pc = "select"]
  /\ UNCHANGED <<tables, sip>> /\ Keep

------------------------------------------------------------------------------
(* The handler: which attempt the call belongs to                          *)

Available(h) == calls[1].active /\ calls[1].realtime \in {NoLeg, handler[h].leg}

ReadAttempt(h) ==
  /\ At(h, "attempt")
  /\ handler' = [handler EXCEPT ![h].person = calls[1].person,
       ![h].row = IF calls[1].realtime = NoLeg THEN 0 ELSE 1,
       ![h].pc = IF Available(h) THEN "context" ELSE "reject"]
  /\ UNCHANGED <<tables, sip>> /\ Keep

ReadContext(h) ==
  /\ At(h, "context")
  /\ Goto(h, CASE ~open \/ ~people[handler[h].person].active -> "reject"
               [] handler[h].row = 1 -> "select"
               [] OTHER -> "link")
  /\ UNCHANGED <<tables, sip>> /\ Keep

\* Mutant: the update does not ask for a free attempt.
LinkableAgain == calls[1].active

\* The attempt takes the realtime id if it is still free and still active.
Linkable == calls[1].realtime = NoLeg /\ calls[1].active
Link(h) ==
  /\ At(h, "link")
  /\ calls' = IF Linkable THEN [calls EXCEPT ![1].realtime = handler[h].leg] ELSE calls
  /\ Goto(h, IF Linkable THEN "select" ELSE "bound")
  /\ UNCHANGED <<routed, sip>> /\ Keep

ReadBound(h) ==
  /\ At(h, "bound")
  /\ Goto(h, IF calls[1].realtime = handler[h].leg /\ calls[1].active THEN "select" ELSE "reject")
  /\ UNCHANGED <<tables, sip>> /\ Keep

------------------------------------------------------------------------------
(* The handler: the record of the call                                     *)

RowOf(r) == {i \in DOMAIN calls : calls[i].realtime = r}
Direction(h) == IF SipOf(h).record # 0 THEN "outbound" ELSE "inbound"
\* Mutant: a row found is not compared with the caller.
AnyScope(h, i) == TRUE

InScope(h, i) == calls[i].direction = Direction(h) /\ calls[i].person = handler[h].person

\* Mutant: a row found counts as announced.
SelectAnnounced(h) ==
  /\ At(h, "select")
  /\ \/ \E i \in RowOf(handler[h].leg) :
          handler' = [handler EXCEPT ![h].row = i, ![h].pc = IF InScope(h, i) THEN "refresh" ELSE "reject"]
     \/ /\ RowOf(handler[h].leg) = {}
        /\ Goto(h, IF Direction(h) = "outbound" THEN "reject" ELSE "insert")
  /\ UNCHANGED <<tables, sip>> /\ Keep

SelectExisting(h) ==
  /\ At(h, "select")
  /\ \/ \E i \in RowOf(handler[h].leg) :
          handler' = [handler EXCEPT ![h].row = i, ![h].pc = IF InScope(h, i) THEN "event" ELSE "reject"]
     \/ /\ RowOf(handler[h].leg) = {}
        /\ Goto(h, IF Direction(h) = "outbound" THEN "reject" ELSE "insert")
  /\ UNCHANGED <<tables, sip>> /\ Keep

InsertCall(h) ==
  /\ At(h, "insert")
  /\ \/ /\ RowOf(handler[h].leg) = {}
        /\ calls' = Append(calls, [person |-> handler[h].person, direction |-> "inbound",
                                   realtime |-> handler[h].leg, active |-> TRUE])
        /\ handler' = [handler EXCEPT ![h].row = Len(calls) + 1, ![h].pc = "event"]
     \/ /\ RowOf(handler[h].leg) # {}
        /\ calls' = calls /\ Goto(h, "reject")
  /\ UNCHANGED <<routed, sip>> /\ Keep

ReadRoutedEvent(h) ==
  /\ At(h, "event")
  /\ Goto(h, IF routed[handler[h].row] > 0 THEN "refresh" ELSE "announce")
  /\ UNCHANGED <<tables, sip>> /\ Keep

InsertRoutedEvent(h) ==
  /\ At(h, "announce")
  /\ routed' = [routed EXCEPT ![handler[h].row] = @ + 1]
  /\ Goto(h, "refresh") /\ UNCHANGED <<calls, sip>> /\ Keep

------------------------------------------------------------------------------
(* The handler: tools, acceptance, sideband                                *)

\* The scope the tools of the session are bound to.
CallScope(h) ==
  [callId |-> handler[h].row, realtimeCallId |-> handler[h].leg,
   counterpartyId |-> handler[h].person, direction |-> Direction(h)]

Authorized(scope) ==
  LET row == calls[scope.callId]
      who == people[scope.counterpartyId]
  IN /\ row.active /\ row.realtime = scope.realtimeCallId /\ row.person = scope.counterpartyId
     /\ who.active /\ (scope.counterpartyId \in Contacts => who.authorized)

RefreshTools(h) ==
  /\ At(h, "refresh")
  /\ Goto(h, IF Authorized(CallScope(h)) THEN "accept" ELSE "reject")
  /\ UNCHANGED <<tables, sip>> /\ Keep

\* A call that no longer rings cannot be accepted; a reply may be lost.
Accept(h) ==
  /\ At(h, "accept") /\ UNCHANGED <<directory, tables, refused, open, edits>>
  /\ \/ /\ SipOf(h).state = "ringing" /\ sip' = [sip EXCEPT ![handler[h].leg].state = "accepted"]
        /\ \/ Goto(h, "connect") /\ UNCHANGED faults
           \/ faults < MaxFaults /\ faults' = faults + 1 /\ Goto(h, "failed")
     \/ SipOf(h).state # "ringing" /\ Goto(h, "failed") /\ UNCHANGED <<sip, faults>>

Reject(h) ==
  /\ At(h, "reject")
  /\ \/ /\ SipOf(h).state = "ringing" /\ sip' = [sip EXCEPT ![handler[h].leg].state = "rejected"]
        /\ Goto(h, "done")
     \/ SipOf(h).state # "ringing" /\ Goto(h, "failed") /\ UNCHANGED sip
  /\ UNCHANGED tables /\ Keep

\* A query that fails, wherever the handler stands, ends in a refusal.
Queries == {"identify", "attempt", "context", "link", "bound", "select", "insert", "event",
            "announce", "refresh"}
QueryFails(h) ==
  /\ handler[h].pc \in Queries /\ faults < MaxFaults /\ faults' = faults + 1
  /\ Goto(h, "reject") /\ UNCHANGED <<directory, tables, refused, open, sip, edits>>

Connect(h) ==
  /\ At(h, "connect") /\ Goto(h, IF SipOf(h).state = "accepted" THEN "talking" ELSE "failed")
  /\ UNCHANGED <<tables, sip>> /\ Keep

Handle(h) ==
  \/ \E t \in {"contact", "provider"} : FindCounterparty(h, t)
  \/ RoutingFails(h) \/ Refuse(h) \/ RouteIncomingCall(h)
  \/ ReadAttempt(h) \/ ReadContext(h) \/ Link(h) \/ ReadBound(h)
  \/ SelectExisting(h) \/ InsertCall(h) \/ ReadRoutedEvent(h) \/ InsertRoutedEvent(h)
  \/ RefreshTools(h) \/ Accept(h) \/ Reject(h) \/ Connect(h)
  \/ QueryFails(h)

World ==
  \/ \E p \in Person : CommitPhone(p) \/ \E phone \in Phone : SavePhone(p, phone)
  \/ \E p \in Person, a, b \in BOOLEAN : SetFlags(p, a, b)
  \/ CloseScope \/ EndAttempt \/ Crash
  \/ \E r \in Leg : HangUp(r) \/ \E h \in 1 .. MaxDeliveries : Deliver(h, r)
  \/ \E r \in Leg : Ring(r, NoPhone, 1) \/ \E c \in Phone \cup {NoPhone} : Ring(r, c, 0)

Next == World \/ \E h \in 1 .. MaxDeliveries : Handle(h)
Spec == Init /\ [][Next]_vars
------------------------------------------------------------------------------
\* Properties

\* Deliveries that act for a row: they announce it, load its tools, talk for it.
Acting == {h \in 1 .. MaxDeliveries : handler[h].pc \in
             {"event", "announce", "refresh", "accept", "connect", "talking"}}

\* A delivery acts for whoever its row says: the person, the direction and
\* the realtime id of the session are those of the calls row its commands will
\* be recorded under, also when the webhook was delivered twice and the number
\* changed hands in between (resolveCallScope takes them from the routing
\* decision, persistRoutedCall compares them with the row).
ScopeIsTheRow ==
  \A h \in Acting :
    LET scope == CallScope(h)
        row == calls[scope.callId]
    IN /\ row.realtime = scope.realtimeCallId
       /\ row.person = scope.counterpartyId
       /\ row.direction = scope.direction

\* An attempt is linked to a realtime call once: another call that carries the
\* same record never takes it over, nor loses it (routeOutboundCall).
BoundOnce ==
  [][\A i \in DOMAIN calls :
       /\ i \in DOMAIN calls'
       /\ calls[i].realtime # NoLeg => calls'[i].realtime = calls[i].realtime]_vars

\* Whoever is put through is on record: a call OpenAI has accepted has its row
\* and the event that says how it was routed, also after a restart between the
\* two inserts (persistRoutedCall).
AcceptedIsRecorded ==
  \A r \in Leg : sip[r].state = "accepted" => \E i \in RowOf(r) : routed[i] > 0

==============================================================================
