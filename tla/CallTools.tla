------------------------------- MODULE CallTools -------------------------------
(***************************************************************************)
(* The commands of client calls and of inbound carrier calls on the        *)
(* operations they share: the tool session of each call (what the agent was *)
(* shown, which tools it may call, one request at a time), requests that    *)
(* arrive late, twice or never, and the transactions that serve them.       *)
(*                                                                         *)
(* Data: the operative details of an operation are a number, 0 while fields *)
(* are missing; the commercial terms of a mandate are the pickup windows it *)
(* allows; a revision (updated_at) is a counter of the row's updates.  The  *)
(* sourcing that leads to a booking is module SourcingRound; here Award     *)
(* stands for its outcome, always within the client's price.  Escalation is *)
(* module LiveHandoff.                                                      *)
(***************************************************************************)
EXTENDS Integers, Sequences, FiniteSets, Functions

CONSTANTS ClientCalls,   \* inbound calls of the client who owns the operations
          BookingCalls,  \* inbound calls of one carrier
          Carrier,       \* that carrier
          OtherCarrier,
          Window,        \* pickup windows a mandate may allow
          MaxDetails,    \* details are 0..MaxDetails
          MaxCommands,   \* bound: commands of one call
          MaxTotal,      \* bound: commands of all calls
          MaxPast,       \* bound: windows that begin
          MaxOps,        \* bound: operations
          MaxAwards,     \* bound: bookings that sourcing adds to the first one
          None

\* Details that are complete exist: the first operation has them.
CallAssumption == MaxDetails \in Nat \ {0} /\ MaxCommands \in Nat

Calls == ClientCalls \cup BookingCalls
Result == {"none", "alternatives_available", "requires_escalation", "applied", "cancelled"}
Details == 0..MaxDetails
Terms == (SUBSET Window) \ {{}}
Inherit == {}            \* confirm_mandate without commercial terms

VARIABLES ops,       \* operations: a sequence of rows
          mandates,  \* sequences of rows that are only appended to
          bookings,
          changes,   \* change_requests
          events,    \* operation.created and operation.updated
          calls,     \* the row of each call
          receipts,  \* tool_command_receipts: the commands of a call that committed
          past,      \* the pickup windows that have begun
          wire,      \* requests the database has not served
          sess       \* per call, the process's CallToolSession and its agent

db == <<ops, mandates, bookings, changes, events, calls, receipts>>
vars == <<ops, mandates, bookings, changes, events, calls, receipts, past, wire, sess>>
-----------------------------------------------------------------------------
(* What a call may see: client_operation_state, get_provider_inbound_tool_state *)

MandateTerms(op) == IF op.mandate = 0 THEN {} ELSE mandates[op.mandate].terms

\* A row of operations as the agent of a call is shown it
Shown(op) == [details |-> op.details, rev |-> op.rev, mandate |-> op.mandate,
              terms |-> MandateTerms(op), booking |-> op.booking]
Nothing == [details |-> 0, rev |-> 0, mandate |-> 0, terms |-> {}, booking |-> 0]

\* provider_booking_alternative_windows
Alternatives(m) == IF m = 0 THEN {} ELSE mandates[m].terms \ past

PendingOf(c, op) == {i \in DOMAIN changes : /\ changes[i].by[1] = c
                                            /\ changes[i].status = "pending"
                                            /\ changes[i].booking = op.booking
                                            /\ changes[i].mandate = op.mandate}
EscalatedBy(c) == \E i \in DOMAIN changes : changes[i].by[1] = c /\ changes[i].status = "escalated"

\* The carrier's confirmed bookings, to which operations point
OwnBooking(op) == /\ op.booking # 0 /\ bookings[op.booking].carrier = Carrier
                  /\ op.status \notin {"collecting_details", "cancelled"}
Bookings == {i \in DOMAIN ops : OwnBooking(ops[i])}

Selected(c) == /\ calls[c].chosen # 0
               /\ calls[c].chosen = ops[calls[c].op].booking
               /\ bookings[calls[c].chosen].carrier = Carrier

ClientProfile(c) ==
  CASE calls[c].op = 0 -> "client_entry"
    [] calls[c].op # 0 /\ (calls[c].done \/ ops[calls[c].op].status = "cancelled") -> "terminal"
    [] OTHER -> "client_operation"

BookingProfile(c) ==
  CASE calls[c].done -> "terminal"
    [] ~calls[c].done /\ calls[c].chosen = 0 -> "provider_inbound_entry"
    [] ~calls[c].done /\ calls[c].chosen # 0 /\ ~Selected(c) -> "provider_unavailable"
    [] ~calls[c].done /\ Selected(c) ->
         IF EscalatedBy(c) THEN "provider_booking_escalation"
         ELSE IF calls[c].last = "alternatives_available" /\ PendingOf(c, ops[calls[c].op]) # {}
              THEN IF Alternatives(ops[calls[c].op].mandate) # {}
                   THEN "provider_reschedule_alternatives" ELSE "provider_booking_escalation"
              ELSE calls[c].intent

Profile(c) == IF c \in ClientCalls THEN ClientProfile(c) ELSE BookingProfile(c)

\* CallToolSession.definitions: the tools that a profile advertises, without
\* escalate, which this module leaves out
ToolsOf(profile) ==
  CASE profile = "client_entry" ->
         {"list_open_operations", "create_operation", "update_operation", "cancel_operation"}
    [] profile = "client_operation" -> {"update_operation", "confirm_mandate"}
    [] profile = "provider_inbound_entry" ->
         {"list_provider_operations"} \cup
           (IF Bookings # {} THEN {"select_booking_for_reschedule", "select_booking_for_cancellation"} ELSE {})
    [] profile = "reschedule" -> {"reschedule_booking"}
    [] profile = "provider_reschedule_alternatives" -> {"reschedule_booking", "decline_reschedule_alternatives"}
    [] profile = "cancel_booking" -> {"cancel_booking"}
    [] OTHER -> {}

\* The tools that only read
ListTools == {"list_open_operations", "list_provider_operations"}

\* The tools CallToolFactory registers for a caller
Registered(c) ==
  IF c \in ClientCalls
  THEN {"list_open_operations", "create_operation", "update_operation", "cancel_operation", "confirm_mandate"}
  ELSE {"list_provider_operations", "reschedule_booking", "cancel_booking",
        "decline_reschedule_alternatives", "select_booking_for_reschedule",
        "select_booking_for_cancellation"}

\* What AgentsCallSession.buildTools hands to the agent
Exposed(c) == ToolsOf(Profile(c)) \cap Registered(c)

\* The services' states after getState, also what the instructions tell the agent
ClientView(c) ==
  [intent |-> calls[c].intent, shown |-> IF calls[c].op = 0 THEN Nothing ELSE Shown(ops[calls[c].op])]
BookingView(c) ==
  [intent |-> calls[c].intent, shown |-> IF Selected(c) THEN Shown(ops[calls[c].op]) ELSE Nothing]
View(c) == IF c \in ClientCalls THEN ClientView(c) ELSE BookingView(c)
-----------------------------------------------------------------------------
(* The tool session of a call                                               *)

Idle == [pc |-> "connecting", view |-> [intent |-> "undecided", shown |-> Nothing],
         tools |-> {}, next |-> 1, asked |-> None]

\* What the agent of a call may ask of a tool
ClientArguments(name) ==
  CASE name = "create_operation" -> Details
    [] name = "update_operation" -> (DOMAIN ops) \X Details
    [] name = "confirm_mandate" -> Terms \cup {Inherit}
    [] name = "cancel_operation" -> DOMAIN ops
BookingArguments(name) ==
  CASE name \in {"select_booking_for_reschedule", "select_booking_for_cancellation"} -> Bookings
    [] name = "reschedule_booking" -> Window
    [] OTHER -> {None}
Arguments(c, name) == IF c \in ClientCalls THEN ClientArguments(name) ELSE BookingArguments(name)

\* ClientOperationService.confirm: terms may be left out only when an update
\* was shown the mandate they come from
CanInherit(c) == sess[c].view.intent = "update" /\ sess[c].view.shown.mandate # 0
Accepted(c, name, args) == name = "confirm_mandate" /\ args = Inherit => CanInherit(c)

\* The server adds what the agent was shown; the agent cannot
Target(c) == sess[c].view.shown

Commands == FoldFunction(+, 0, [c \in Calls |-> sess[c].next - 1])

\* AgentsCallSession.execute: the command goes to the database
Ask(c) ==
  /\ sess[c].pc = "talking" /\ sess[c].next <= MaxCommands /\ Commands < MaxTotal
  /\ \E name \in sess[c].tools \ ListTools :
       \E args \in Arguments(c, name) :
         LET r == [call |-> c, id |-> sess[c].next, name |-> name, args |-> args,
                   target |-> Target(c), heard |-> sess[c].view.shown]
         IN /\ Accepted(c, name, args)
            /\ wire' = wire \cup {r}
            /\ sess' = [sess EXCEPT ![c].pc = "waiting", ![c].asked = r, ![c].next = @ + 1]
  /\ UNCHANGED <<db, past>>

\* The SDK repeats a command it has an answer to: same id, same arguments
Repeat(c) ==
  /\ sess[c].pc = "talking" /\ sess[c].asked # None
  /\ sess[c].asked.id \in receipts[c]
  /\ wire' = wire \cup {sess[c].asked}
  /\ sess' = [sess EXCEPT ![c].pc = "waiting"]
  /\ UNCHANGED <<db, past>>

\* The connection fails, or the answer cannot be read: the tool reports an
\* error, while the request was lost or may still be served
GiveUp(c) ==
  /\ sess[c].pc = "waiting"
  /\ sess' = [sess EXCEPT ![c].pc = "refreshing"]
  /\ wire' \in {wire, wire \ {sess[c].asked}}
  /\ UNCHANGED <<db, past>>

\* CallToolSession.refresh and the update of the agent's tools and instructions
Refresh(c) ==
  /\ sess[c].pc \in {"connecting", "refreshing"} /\ calls[c].live
  /\ sess' = [sess EXCEPT ![c].pc = "talking", ![c].view = View(c), ![c].tools = Exposed(c)]
  /\ UNCHANGED <<db, past, wire>>

\* After a failed refresh the agent has no tools left and closes the conversation
RefreshFails(c) ==
  /\ sess[c].pc \in {"connecting", "refreshing"}
  /\ sess' = [sess EXCEPT ![c].pc = "closed", ![c].tools = {}]
  /\ UNCHANGED <<db, past, wire>>

\* OperationReadRepository.isAuthorized
Authorized(c) == calls[c].live

\* A read refreshes the state first, and is refused when its tool is no longer
\* among the tools; the state is refreshed again after it
List(c) ==
  /\ sess[c].pc = "talking" /\ Authorized(c)
  /\ sess[c].tools \cap ListTools # {}
  /\ sess' = [sess EXCEPT ![c].pc = "refreshing", ![c].view = View(c)]
  /\ UNCHANGED <<db, past, wire>>

\* The call ends; what is on the wire is served, and refused, later
Hangup(c) ==
  /\ sess[c].pc # "connecting" /\ calls[c].live
  /\ calls' = [calls EXCEPT ![c].live = FALSE]
  /\ sess' = [sess EXCEPT ![c].pc = "closed", ![c].tools = {}]
  /\ UNCHANGED <<ops, mandates, bookings, changes, events, receipts, past, wire>>
-----------------------------------------------------------------------------
(* The transactions.  Each serves a request r whose call is active; a command *)
(* that has its receipt is answered from it.                                *)

By(r) == <<r.call, r.id>>
Fresh(r) == /\ calls[r.call].live /\ r.id \notin receipts[r.call] /\ ~calls[r.call].done
Record(r) == receipts' = [receipts EXCEPT ![r.call] = @ \cup {r.id}]
Touch(op) == [op EXCEPT !.rev = @ + 1]

CanCreate(r) == r.name = "create_operation" /\ Fresh(r) /\ calls[r.call].op = 0

Create(r) ==
  /\ CanCreate(r) /\ Len(ops) < MaxOps
  /\ ops' = Append(ops, [details |-> r.args, rev |-> 1, status |-> "collecting_details",
                         mandate |-> 0, confirm |-> FALSE, booking |-> 0])
  /\ calls' = [calls EXCEPT ![r.call].op = Len(ops) + 1, ![r.call].intent = "create"]
  /\ events' = events \cup {[by |-> By(r), op |-> Len(ops) + 1, rev |-> 1]}
  /\ Record(r) /\ UNCHANGED <<mandates, bookings, changes>>

UpdateAnything(r) ==
  r.name = "update_operation" /\ Fresh(r) /\ calls[r.call].op \in {0, r.args[1]}

\* The operation a command of an unlinked call names must be the one it is
\* linked to from then on
CanUpdate(r) ==
  /\ r.name = "update_operation" /\ Fresh(r)
  /\ calls[r.call].op \in {0, r.args[1]} /\ calls[r.call].intent # "cancel"
  /\ ops[r.args[1]].status # "cancelled"

\* validate_operation: new details invalidate the consent the mandate rests on
Changed(op, d) == [Touch(op) EXCEPT !.details = d, !.confirm = @ \/ op.mandate # 0]

Update(r) ==
  /\ CanUpdate(r)
  /\ LET i == r.args[1]
         d == r.args[2]
     IN /\ ops' = IF d = ops[i].details THEN ops ELSE [ops EXCEPT ![i] = Changed(@, d)]
        /\ events' = IF d = ops[i].details THEN events
                     ELSE events \cup {[by |-> By(r), op |-> i, rev |-> ops[i].rev + 1]}
        /\ calls' = [calls EXCEPT ![r.call].op = i,
                       ![r.call].intent = IF calls[r.call].op = 0 THEN "update" ELSE @]
  /\ Record(r) /\ UNCHANGED <<mandates, bookings, changes>>

AnyRevision(r) == TRUE

\* expected_operation_revision against the row: consent to an older summary
\* is refused
CurrentRevision(r) == r.target.rev = ops[calls[r.call].op].rev

CanConfirm(r) ==
  /\ r.name = "confirm_mandate" /\ Fresh(r) /\ calls[r.call].op # 0
  /\ LET op == ops[calls[r.call].op] IN
       /\ op.status # "cancelled" /\ op.details # 0
       /\ op.mandate = 0 \/ op.confirm
       /\ CurrentRevision(r)
       /\ r.args = Inherit => op.mandate # 0 /\ calls[r.call].intent = "update"

Confirm(r) ==
  /\ CanConfirm(r)
  /\ LET i == calls[r.call].op
         op == ops[i]
     IN /\ mandates' = Append(mandates,
             [op |-> i, details |-> op.details, by |-> By(r), heard |-> r.heard, args |-> r.args,
              terms |-> IF r.args = Inherit THEN MandateTerms(op) ELSE r.args])
        /\ ops' = [ops EXCEPT ![i] = [Touch(@) EXCEPT !.mandate = Len(mandates) + 1,
                                        !.confirm = FALSE, !.status = "sourcing"]]
  /\ calls' = [calls EXCEPT ![r.call].done = TRUE]
  /\ Record(r) /\ UNCHANGED <<bookings, changes, events>>

\* The open ones of some change_requests get a final status
Closed(some) == [i \in DOMAIN changes |->
  IF i \in some /\ changes[i].status \in {"pending", "escalated"}
  THEN [changes[i] EXCEPT !.status = "rejected"] ELSE changes[i]]

CanCancel(r) ==
  /\ r.name = "cancel_operation" /\ Fresh(r)
  /\ calls[r.call].op = 0 /\ ops[r.args].status # "cancelled"

Cancel(r) ==
  /\ CanCancel(r)
  /\ ops' = [ops EXCEPT ![r.args] = [Touch(@) EXCEPT !.status = "cancelled",
                                       !.booking = 0, !.confirm = FALSE]]
  /\ calls' = [calls EXCEPT ![r.call].op = r.args, ![r.call].intent = "cancel", ![r.call].done = TRUE]
  /\ changes' = Closed({i \in DOMAIN changes : changes[i].op = r.args})
  /\ Record(r) /\ UNCHANGED <<mandates, bookings, events>>

IntentOf(name) ==
  IF name \in {"select_booking_for_reschedule", "reschedule_booking", "decline_reschedule_alternatives"}
  THEN "reschedule" ELSE "cancel_booking"

\* select_provider_booking: the same selection twice is answered, another one
\* is refused
CanSelect(r) ==
  /\ r.name \in {"select_booking_for_reschedule", "select_booking_for_cancellation"} /\ Fresh(r)
  /\ calls[r.call].intent \in {"undecided", IntentOf(r.name)}
  /\ OwnBooking(ops[r.args])
  /\ calls[r.call].chosen \in {0, ops[r.args].booking}

Select(r) ==
  /\ CanSelect(r)
  /\ calls' = [calls EXCEPT ![r.call].op = r.args, ![r.call].chosen = ops[r.args].booking,
                            ![r.call].intent = IntentOf(r.name)]
  /\ Record(r) /\ UNCHANGED <<ops, mandates, bookings, changes, events>>

\* What execute_provider_booking_tool demands of every change: the booking that
\* was selected is current, and the caller was shown its latest revision
StillSelected(r) == calls[r.call].chosen = ops[calls[r.call].op].booking
                    /\ r.target.booking = calls[r.call].chosen

\* Mutant: a change is taken from an agent that has not seen the latest revision.
PermittedUnseen(r) ==
  /\ Fresh(r) /\ calls[r.call].chosen # 0 /\ calls[r.call].intent = IntentOf(r.name)
  /\ StillSelected(r) /\ ~EscalatedBy(r.call) /\ OwnBooking(ops[calls[r.call].op])

Permitted(r) ==
  /\ Fresh(r) /\ calls[r.call].chosen # 0 /\ calls[r.call].intent = IntentOf(r.name)
  /\ StillSelected(r) /\ CurrentRevision(r) /\ ~EscalatedBy(r.call)
  /\ OwnBooking(ops[calls[r.call].op])

\* Why a new window may not be applied: the mandate awaits confirmation, the
\* booking was not awarded under it, or does not allow the window
Reason(op, w) ==
  IF op.confirm \/ bookings[op.booking].mandate # op.mandate THEN "mandate_reconfirmation_required"
  ELSE IF op.status # "booking_confirmed" THEN "booking_terms_require_review"
  ELSE IF w \notin mandates[op.mandate].terms THEN "outside_action_window"
  ELSE "none"

CanReschedule(r) ==
  /\ r.name = "reschedule_booking" /\ Permitted(r)
  /\ r.args \notin past /\ r.args # bookings[ops[calls[r.call].op].booking].window

ChangeSwapped(r, kind, window, status) ==
  [op |-> calls[r.call].op, booking |-> ops[calls[r.call].op].booking,
   mandate |-> ops[calls[r.call].op].mandate, kind |-> status, window |-> window,
   status |-> kind, by |-> By(r), heard |-> r.heard]

Change(r, kind, window, status) ==
  [op |-> calls[r.call].op, booking |-> ops[calls[r.call].op].booking,
   mandate |-> ops[calls[r.call].op].mandate, kind |-> kind, window |-> window,
   status |-> status, by |-> By(r), heard |-> r.heard]

\* A corrected proposal replaces the call's pending one, never the booking
Replaced(c) == [i \in DOMAIN changes |->
  IF changes[i].by[1] = c /\ changes[i].status = "pending"
  THEN [changes[i] EXCEPT !.status = "rejected"] ELSE changes[i]]

Reschedule(r) ==
  /\ CanReschedule(r)
  /\ LET c == r.call
         i == calls[c].op
         b == bookings[ops[i].booking]
         why == Reason(ops[i], r.args)
         offer == why = "outside_action_window" /\ Alternatives(ops[i].mandate) # {}
     IN IF why = "none"
        THEN /\ bookings' = Append(bookings, [b EXCEPT !.window = r.args])
             /\ ops' = [ops EXCEPT ![i] = [Touch(@) EXCEPT !.booking = Len(bookings) + 1]]
             /\ changes' = Append(Replaced(c), Change(r, "reschedule", r.args, "applied"))
             /\ calls' = [calls EXCEPT ![c].done = TRUE, ![c].last = "applied"]
        ELSE /\ changes' = Append(Replaced(c),
                  Change(r, "reschedule", r.args, IF offer THEN "pending" ELSE "escalated"))
             /\ calls' = [calls EXCEPT ![c].last =
                  IF offer THEN "alternatives_available" ELSE "requires_escalation"]
             /\ UNCHANGED <<bookings, ops>>
  /\ Record(r) /\ UNCHANGED <<mandates, events>>

CanDecline(r) ==
  /\ r.name = "decline_reschedule_alternatives" /\ Permitted(r)
  /\ PendingOf(r.call, ops[calls[r.call].op]) # {}

Decline(r) ==
  /\ CanDecline(r)
  /\ changes' = [i \in DOMAIN changes |->
       IF i \in PendingOf(r.call, ops[calls[r.call].op])
       THEN [changes[i] EXCEPT !.status = "escalated"] ELSE changes[i]]
  /\ calls' = [calls EXCEPT ![r.call].last = "requires_escalation"]
  /\ Record(r) /\ UNCHANGED <<ops, mandates, bookings, events>>

\* The carrier gives the booking back.  The operation is sourced again, or is
\* left to follow-up when there is no carrier to ask.
CanCancelBooking(r) == r.name = "cancel_booking" /\ Permitted(r)

CancelBooking(r) ==
  /\ CanCancelBooking(r)
  /\ LET c == r.call
         ofBooking == {i \in DOMAIN changes : changes[i].booking = ops[calls[c].op].booking}
     IN /\ \E status \in {"sourcing", "needs_follow_up"} :
             ops' = [ops EXCEPT ![calls[c].op] = [Touch(@) EXCEPT !.booking = 0, !.status = status]]
        /\ changes' = Append(Closed(ofBooking), Change(r, "cancel", None, "applied"))
        /\ calls' = [calls EXCEPT ![c].done = TRUE, ![c].last = "cancelled"]
  /\ Record(r) /\ UNCHANGED <<mandates, bookings, events>>

\* A replay, or an error: nothing changes but the answer
Answerable(r) == \/ CanCreate(r) \/ CanUpdate(r) \/ CanConfirm(r) \/ CanCancel(r)
                 \/ CanSelect(r) \/ CanReschedule(r) \/ CanDecline(r) \/ CanCancelBooking(r)
Refuse(r) == ~Answerable(r) /\ UNCHANGED db

\* The answer reaches the session that still waits for it
Served(r) ==
  /\ wire' = wire \ {r}
  /\ sess' = [sess EXCEPT ![r.call].pc =
       IF @ = "waiting" /\ sess[r.call].asked = r THEN "refreshing" ELSE @]
  /\ UNCHANGED past

Serve == \E r \in wire :
  /\ Served(r)
  /\ \/ Create(r) \/ Update(r) \/ Confirm(r) \/ Cancel(r)
     \/ Select(r) \/ Reschedule(r) \/ Decline(r) \/ CancelBooking(r) \/ Refuse(r)

\* Sourcing books the operation with a carrier whose offer fits its mandate
Award(i) ==
  /\ ops[i].status = "sourcing" /\ ~ops[i].confirm /\ Len(bookings) <= MaxAwards
  /\ \E w \in MandateTerms(ops[i]) \ past, p \in {Carrier, OtherCarrier} :
       bookings' = Append(bookings, [op |-> i, window |-> w, mandate |-> ops[i].mandate, carrier |-> p])
  /\ ops' = [ops EXCEPT ![i] = [Touch(@) EXCEPT !.status = "booking_confirmed",
                                  !.booking = Len(bookings) + 1]]
  /\ UNCHANGED <<mandates, changes, events, calls, receipts, past, wire, sess>>

\* Time passes: a pickup window begins
Begin(w) == w \notin past /\ Cardinality(past) < MaxPast /\ past' = past \cup {w} /\ UNCHANGED <<db, wire, sess>>

\* One operation of the client is booked with the carrier
Init ==
  /\ \E terms \in Terms, w \in Window :
       /\ w \in terms
       /\ mandates = <<[op |-> 1, details |-> 1, by |-> None, heard |-> None, args |-> terms, terms |-> terms]>>
       /\ bookings = <<[op |-> 1, window |-> w, mandate |-> 1, carrier |-> Carrier]>>
  /\ ops = <<[details |-> 1, rev |-> 1, status |-> "booking_confirmed",
              mandate |-> 1, confirm |-> FALSE, booking |-> 1]>>
  /\ changes = <<>> /\ events = {} /\ past = {} /\ wire = {}
  /\ calls = [c \in Calls |-> [live |-> TRUE, op |-> 0, intent |-> "undecided",
                               chosen |-> 0, done |-> FALSE, last |-> "none"]]
  /\ receipts = [c \in Calls |-> {}]
  /\ sess = [c \in Calls |-> Idle]

Next ==
  \/ \E c \in Calls : Ask(c) \/ Repeat(c) \/ GiveUp(c) \/ Refresh(c) \/ RefreshFails(c)
                      \/ List(c) \/ Hangup(c)
  \/ Serve
  \/ \E i \in DOMAIN ops : Award(i)
  \/ \E w \in Window : Begin(w)

Spec == Init /\ [][Next]_vars
-----------------------------------------------------------------------------
(* Properties                                                               *)

\* Rows, sessions and the pointers between them have their types
TypeOK ==
  /\ \A i \in DOMAIN ops :
       /\ ops[i].details \in Details /\ ops[i].confirm \in BOOLEAN /\ ops[i].rev \in Nat \ {0}
       /\ ops[i].status \in {"collecting_details", "sourcing", "needs_follow_up",
                             "booking_confirmed", "cancelled"}
       /\ ops[i].mandate \in 0..Len(mandates) /\ ops[i].booking \in 0..Len(bookings)
  /\ \A i \in DOMAIN mandates : mandates[i].terms \in Terms
  /\ \A i \in DOMAIN changes : changes[i].status \in {"pending", "escalated", "applied", "rejected"}
  /\ \A c \in Calls :
       /\ calls[c].op \in 0..Len(ops) /\ calls[c].chosen \in 0..Len(bookings)
       /\ calls[c].last \in Result /\ receipts[c] \subseteq 1..MaxCommands
       /\ sess[c].pc \in {"connecting", "talking", "waiting", "refreshing", "closed"}
  /\ past \subseteq Window

\* A mandate states the details, and where its terms were left out the terms,
\* that the client had been told when the confirmation was asked for, whatever
\* other calls did and however late the request arrived.
ConsentIsCurrent ==
  \A i \in DOMAIN mandates : mandates[i].heard # None =>
    /\ mandates[i].details = mandates[i].heard.details
    /\ mandates[i].terms = IF mandates[i].args = Inherit THEN mandates[i].heard.terms
                           ELSE mandates[i].args

\* A call has one open change at most: a corrected proposal closes the one
\* before it, and one that waits for a person admits no other.
OneOpenChange ==
  \A c \in Calls :
    Cardinality({i \in DOMAIN changes : /\ changes[i].by[1] = c
                                        /\ changes[i].status \in {"pending", "escalated"}}) <= 1

\* The booking of a booked operation was awarded under its current mandate and
\* is in a window this allows, unless the client's confirmation is awaited.
BookingFitsMandate ==
  \A i \in DOMAIN ops : ops[i].status = "booking_confirmed" /\ ~ops[i].confirm =>
    /\ ops[i].booking # 0
    /\ bookings[ops[i].booking].mandate = ops[i].mandate
    /\ bookings[ops[i].booking].window \in mandates[ops[i].mandate].terms

\* Whatever other calls and sourcing did in between, a change is one of the booking
\* and under the mandate that the agent of its call had been shown when it asked.
ChangeIsInformed ==
  \A i \in DOMAIN changes : /\ changes[i].heard.booking = changes[i].booking
                            /\ changes[i].heard.mandate = changes[i].mandate

\* What carriers change, and what is booked.
ChangesAreSafe == OneOpenChange /\ BookingFitsMandate /\ ChangeIsInformed

\* Nothing that was on its way revives or edits a cancelled operation
CancelledIsFinal ==
  [][\A i \in DOMAIN ops : ops[i].status = "cancelled" => ops'[i] = ops[i]]_vars
=============================================================================
