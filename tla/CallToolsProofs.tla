--------------------------- MODULE CallToolsProofs ---------------------------
(***************************************************************************)
(* Consent, changes and cancellation for any calls, operations, windows    *)
(* and number of commands, whatever is served late, twice or never.        *)
(*                                                                         *)
(* What an agent was shown is stale as soon as it was shown, so the        *)
(* invariant says what a remembered revision is worth (Remembered): if it  *)
(* is still the revision of the operation, so are its details, mandate and *)
(* terms.  It holds of what sessions show, of what they asked and of every *)
(* request on the wire, because a call keeps its operation: a carrier's    *)
(* selects only bookings of the operation it has (Links).  Who may confirm *)
(* or change follows from the tools a session may call (ToolsAreOwn,       *)
(* InHand).                                                                *)
(***************************************************************************)
EXTENDS CallTools, FiniteSetTheorems, TLAPS

Intents == {"undecided", "create", "update", "cancel", "reschedule", "cancel_booking"}
OpenStatus == {"pending", "escalated"}
ToolName == {"list_open_operations", "create_operation", "update_operation", "cancel_operation",
             "confirm_mandate", "list_provider_operations", "reschedule_booking", "cancel_booking",
             "decline_reschedule_alternatives", "select_booking_for_reschedule",
             "select_booking_for_cancellation"}
Snapshot == [details : Details, rev : Nat, mandate : Nat, terms : SUBSET Window, booking : Nat]
OpRow == [details : Details, rev : Nat \ {0},
          status : {"collecting_details", "sourcing", "needs_follow_up", "booking_confirmed", "cancelled"},
          mandate : Nat, confirm : BOOLEAN, booking : Nat]
Argument == Details \cup ((Nat \ {0}) \X Details) \cup Terms \cup {Inherit} \cup Nat \cup Window \cup {None}
Origin == Calls \X (1 .. MaxCommands)
MandateRow == [op : Nat, details : Details, by : {None} \cup Origin, heard : {None} \cup Snapshot,
               args : Terms \cup {Inherit}, terms : Terms]
BookingRow == [op : Nat, window : Window, mandate : Nat, carrier : {Carrier, OtherCarrier}]
ChangeRow == [op : Nat, booking : Nat, mandate : Nat, kind : {"reschedule", "cancel"},
              window : Window \cup {None}, status : {"pending", "escalated", "applied", "rejected"},
              by : Origin, heard : Snapshot]
CallRow == [live : BOOLEAN, op : Nat, intent : Intents, chosen : Nat, done : BOOLEAN, last : Result]
Request == [call : Calls, id : 1 .. MaxCommands, name : ToolName, args : Argument,
            target : Snapshot, heard : Snapshot]
Session == [pc : {"connecting", "talking", "waiting", "refreshing", "closed"},
            view : [intent : Intents, shown : Snapshot], tools : SUBSET ToolName,
            next : 1 .. MaxCommands + 1, asked : {None} \cup Request]

\* Every table has its columns, and every session.
Tables ==
  /\ ops \in Seq(OpRow) /\ mandates \in Seq(MandateRow) /\ bookings \in Seq(BookingRow)
  /\ changes \in Seq(ChangeRow) /\ calls \in [Calls -> CallRow]
  /\ receipts \in [Calls -> SUBSET (1 .. MaxCommands)] /\ past \subseteq Window
Sessions == wire \subseteq Request /\ sess \in [Calls -> Session]

\* What rows point to is there.
Pointers ==
  /\ \A i \in DOMAIN ops : ops[i].mandate <= Len(mandates) /\ ops[i].booking <= Len(bookings)
  /\ \A c \in Calls : /\ calls[c].op <= Len(ops) /\ calls[c].chosen <= Len(bookings)
                      /\ calls[c].chosen # 0 => calls[c].op # 0

\* A booking is of the operation that points to it, and of that of the calls
\* that selected it; a carrier's call has the operation of its booking.
OpLinks == \A i \in DOMAIN ops : ops[i].booking # 0 => bookings[ops[i].booking].op = i
CallLinks ==
  \A c \in Calls : /\ calls[c].chosen # 0 => bookings[calls[c].chosen].op = calls[c].op
                   /\ calls[c].op # 0 => c \in ClientCalls \/ calls[c].chosen # 0
Links == OpLinks /\ CallLinks

\* A remembered revision that is still current stands for what is current.
Remembered(c, shown) ==
  shown.rev # 0 =>
    /\ calls[c].op # 0 /\ shown.rev <= ops[calls[c].op].rev
    /\ shown.rev = ops[calls[c].op].rev =>
         /\ shown.details = ops[calls[c].op].details
         /\ shown.mandate = ops[calls[c].op].mandate
         /\ shown.terms = MandateTerms(ops[calls[c].op])

\* The arguments a request may have.
Fitting(r) ==
  /\ r.name = "create_operation" => r.args \in Details
  /\ r.name = "update_operation" => r.args[1] \in DOMAIN ops /\ r.args[2] \in Details
  /\ r.name = "confirm_mandate" => r.args \in Terms \cup {Inherit}
  /\ r.name \in {"cancel_operation", "select_booking_for_reschedule",
                 "select_booking_for_cancellation"} => r.args \in DOMAIN ops
  /\ r.name = "reschedule_booking" => r.args \in Window

\* A request a session may have made.
InHand(r) ==
  /\ r.name \in Registered(r.call) /\ Fitting(r)
  /\ r.target = r.heard /\ Remembered(r.call, r.heard)

ToolsAreOwn ==
  /\ \A c \in Calls : sess[c].tools \subseteq Registered(c) /\ Remembered(c, sess[c].view.shown)
  /\ \A c \in Calls : sess[c].asked # None => InHand(sess[c].asked)
  /\ \A r \in wire : InHand(r)

\* What is booked has a mandate.
BookedHasMandate ==
  \A i \in DOMAIN ops : ops[i].status = "booking_confirmed" => ops[i].mandate # 0

\* Two open changes are not of one call.
OpenOf(c) == {i \in DOMAIN changes : changes[i].by[1] = c /\ changes[i].status \in OpenStatus}
OneIsOpen == \A c \in Calls : \A i, j \in OpenOf(c) : i = j
ChangesAgree == OneIsOpen /\ ChangeIsInformed

RowsInv == /\ Tables /\ Pointers /\ Links /\ BookedHasMandate /\ ChangesAgree
           /\ BookingFitsMandate /\ ConsentIsCurrent
TalkInv == Sessions /\ ToolsAreOwn
ToolsInv == RowsInv /\ TalkInv

\* What a step may do to what was remembered, and to a cancelled operation.
OpsForward ==
  /\ Len(ops) <= Len(ops')
  /\ \A c \in Calls : calls[c].op # 0 => calls'[c].op = calls[c].op
  /\ \A i \in DOMAIN ops :
       /\ ops[i].rev <= ops'[i].rev
       /\ ops'[i].rev = ops[i].rev => /\ ops'[i].details = ops[i].details
                                      /\ ops'[i].mandate = ops[i].mandate
                                      /\ MandateTerms(ops[i])' = MandateTerms(ops[i])
CancelledStays == \A i \in DOMAIN ops : ops[i].status = "cancelled" => ops'[i] = ops[i]

\* What a transaction does.
Serves == RowsInv' /\ OpsForward /\ CancelledStays

------------------------------------------------------------------------------
\* Rows of one table

LEMMA SeqOfFunction ==
  ASSUME NEW S, NEW n \in Nat, NEW f \in [1 .. n -> S]
  PROVE  f \in Seq(S) /\ Len(f) = n /\ DOMAIN f = 1 .. n
  OBVIOUS

LEMMA OneOp ==
  ASSUME ops \in Seq(OpRow), NEW i \in DOMAIN ops, NEW new \in OpRow,
         ops' = [ops EXCEPT ![i] = new]
  PROVE  /\ ops' \in Seq(OpRow) /\ Len(ops') = Len(ops) /\ DOMAIN ops' = DOMAIN ops
         /\ ops'[i] = new /\ \A j \in DOMAIN ops : j # i => ops'[j] = ops[j]
  OBVIOUS

\* What is appended comes last.
LEMMA Appended ==
  ASSUME NEW S, NEW s \in Seq(S), NEW e \in S, NEW t, t = Append(s, e)
  PROVE  /\ t \in Seq(S) /\ Len(t) = Len(s) + 1 /\ Len(s) \in Nat
         /\ DOMAIN s = 1 .. Len(s) /\ DOMAIN t = 1 .. Len(s) + 1
         /\ t[Len(s) + 1] = e /\ \A i \in DOMAIN s : t[i] = s[i]
  OBVIOUS

\* One column of the row of one call.
LEMMA SetOp ==
  ASSUME NEW f \in [Calls -> CallRow], NEW c \in Calls, NEW v \in Nat,
         NEW g, g = [f EXCEPT ![c].op = v]
  PROVE  /\ g \in [Calls -> CallRow] /\ g[c].op = v /\ g[c].chosen = f[c].chosen
         /\ g[c].intent = f[c].intent /\ \A d \in Calls : d # c => g[d] = f[d]
  BY DEF CallRow
LEMMA SetIntent ==
  ASSUME NEW f \in [Calls -> CallRow], NEW c \in Calls, NEW v \in Intents,
         NEW g, g = [f EXCEPT ![c].intent = v]
  PROVE  /\ g \in [Calls -> CallRow] /\ g[c].op = f[c].op /\ g[c].chosen = f[c].chosen
         /\ \A d \in Calls : d # c => g[d] = f[d]
  BY DEF CallRow

LEMMA RecordFact ==
  ASSUME Tables, NEW r \in Request, Record(r)
  PROVE  receipts' \in [Calls -> SUBSET (1 .. MaxCommands)]
  BY DEF Tables, Request, Record

\* Where a call's operation and its booking are.
LEMMA WhereOp ==
  ASSUME RowsInv, NEW c \in Calls, calls[c].op # 0
  PROVE  calls[c].op \in DOMAIN ops /\ ops[calls[c].op] \in OpRow
<1>1. calls[c].op \in Nat /\ calls[c].op <= Len(ops) /\ ops \in Seq(OpRow)
  BY DEF RowsInv, Tables, Pointers, CallRow
<1> QED BY <1>1

\* Consent is in the mandates alone.
LEMMA SameConsent ==
  ASSUME RowsInv, UNCHANGED mandates
  PROVE  ConsentIsCurrent'
<1> USE DEF ConsentIsCurrent
<1>1. ConsentIsCurrent
  BY DEF RowsInv
<1> QED BY <1>1

------------------------------------------------------------------------------
\* Frames of the transactions

\* The rows of operations, mandates and bookings stay as they are.
LEMMA StillRows ==
  ASSUME RowsInv, UNCHANGED <<ops, mandates, bookings>>,
         calls' \in [Calls -> CallRow], changes' \in Seq(ChangeRow), ChangesAgree',
         receipts' \in [Calls -> SUBSET (1 .. MaxCommands)], past' \subseteq Window,
         \A c \in Calls : /\ calls'[c].op <= Len(ops) /\ calls'[c].chosen <= Len(bookings)
                          /\ calls'[c].chosen # 0 => calls'[c].op # 0,
         CallLinks', \A c \in Calls : calls[c].op # 0 => calls'[c].op = calls[c].op
  PROVE  Serves
<1>1. Tables' /\ Pointers' /\ Links'
  BY DEF RowsInv, Tables, Pointers, Links, OpLinks
<1>2. BookedHasMandate' /\ BookingFitsMandate'
  BY DEF RowsInv, BookedHasMandate, BookingFitsMandate
<1>3. ConsentIsCurrent'
  BY SameConsent
<1>4. ops \in Seq(OpRow) /\ \A i \in DOMAIN ops : ops[i].rev \in Nat
  <2>1. ops \in Seq(OpRow)
    BY DEF RowsInv, Tables
  <2>2. \A i \in DOMAIN ops : ops[i] \in OpRow
    BY <2>1
  <2> QED BY <2>1, <2>2 DEF OpRow
<1>5. OpsForward
  BY <1>4 DEF OpsForward, MandateTerms, RowsInv, Tables
<1>6. CancelledStays
  BY DEF CancelledStays
<1> QED BY <1>1, <1>2, <1>5, <1>6, <1>3 DEF Serves, RowsInv

\* Nothing but the windows that have begun changes.
LEMMA SameServes ==
  ASSUME RowsInv, UNCHANGED <<ops, mandates, bookings, changes, calls, receipts>>, past' \subseteq Window
  PROVE  Serves
<1>1. /\ changes' \in Seq(ChangeRow) /\ ChangesAgree' /\ calls' \in [Calls -> CallRow]
      /\ receipts' \in [Calls -> SUBSET (1 .. MaxCommands)]
  BY DEF RowsInv, Tables, ChangesAgree, OneIsOpen, OpenOf, ChangeIsInformed
<1>2. /\ \A c \in Calls : /\ calls'[c].op <= Len(ops) /\ calls'[c].chosen <= Len(bookings)
                          /\ calls'[c].chosen # 0 => calls'[c].op # 0
      /\ CallLinks' /\ \A c \in Calls : calls[c].op # 0 => calls'[c].op = calls[c].op
  BY DEF RowsInv, Pointers, Links, CallLinks
<1> QED BY <1>1, <1>2, StillRows

\* One row is updated, with a new revision; mandates and bookings may be added.
LEMMA OneRow ==
  ASSUME RowsInv, NEW i \in DOMAIN ops, NEW new \in OpRow, ops' = [ops EXCEPT ![i] = new],
         new.rev = ops[i].rev + 1, ops[i].status # "cancelled",
         mandates' \in Seq(MandateRow), Len(mandates) <= Len(mandates'),
         \A k \in DOMAIN mandates : mandates'[k] = mandates[k], ConsentIsCurrent',
         bookings' \in Seq(BookingRow), Len(bookings) <= Len(bookings'),
         \A k \in DOMAIN bookings : bookings'[k] = bookings[k],
         new.mandate <= Len(mandates'), new.booking <= Len(bookings'),
         new.booking # 0 => bookings'[new.booking].op = i,
         new.status = "booking_confirmed" => new.mandate # 0,
         new.status = "booking_confirmed" /\ ~new.confirm =>
           /\ new.booking # 0 /\ bookings'[new.booking].mandate = new.mandate
           /\ bookings'[new.booking].window \in mandates'[new.mandate].terms,
         calls' \in [Calls -> CallRow], changes' \in Seq(ChangeRow), ChangesAgree',
         receipts' \in [Calls -> SUBSET (1 .. MaxCommands)], past' \subseteq Window,
         \A c \in Calls : /\ calls'[c].op <= Len(ops) /\ calls'[c].chosen <= Len(bookings')
                          /\ calls'[c].chosen # 0 => calls'[c].op # 0,
         CallLinks', \A c \in Calls : calls[c].op # 0 => calls'[c].op = calls[c].op
  PROVE  Serves
<1>1. /\ ops \in Seq(OpRow) /\ mandates \in Seq(MandateRow) /\ bookings \in Seq(BookingRow)
      /\ \A j \in DOMAIN ops : ops[j] \in OpRow /\ ops[j].mandate <= Len(mandates)
                               /\ ops[j].booking <= Len(bookings)
  BY DEF RowsInv, Tables, Pointers
<1>2. /\ ops' \in Seq(OpRow) /\ Len(ops') = Len(ops) /\ DOMAIN ops' = DOMAIN ops
      /\ ops'[i] = new /\ \A j \in DOMAIN ops : j # i => ops'[j] = ops[j]
  BY <1>1, OneOp
<1>3. /\ Len(mandates) \in Nat /\ Len(mandates') \in Nat /\ Len(bookings) \in Nat
      /\ Len(bookings') \in Nat
      /\ \A k \in Nat : k # 0 /\ k <= Len(mandates) => k \in DOMAIN mandates
      /\ \A k \in Nat : k # 0 /\ k <= Len(bookings) => k \in DOMAIN bookings
  BY <1>1
<1>4. \A j \in DOMAIN ops : /\ ops[j].mandate \in Nat /\ ops[j].booking \in Nat
                            /\ ops[j].rev \in Nat
  BY <1>1 DEF OpRow
<1>5. Tables' /\ Pointers'
  <2>1. \A j \in DOMAIN ops' : /\ ops'[j].mandate <= Len(mandates')
                               /\ ops'[j].booking <= Len(bookings')
    <3>1. ASSUME NEW j \in DOMAIN ops, j # i
          PROVE  ops[j].mandate <= Len(mandates') /\ ops[j].booking <= Len(bookings')
      BY <1>1, <1>3, <1>4
    <3> QED BY <1>2, <3>1
  <2> QED BY <1>2, <2>1 DEF Tables, Pointers
<1>6. BookedHasMandate' /\ Links'
  <2>1. BookedHasMandate'
    BY <1>2 DEF BookedHasMandate, RowsInv
  <2>2. ASSUME NEW j \in DOMAIN ops, j # i, ops[j].booking # 0
        PROVE  bookings'[ops[j].booking].op = j
    <3>1. ops[j].booking \in DOMAIN bookings
      BY <1>1, <1>3, <1>4, <2>2
    <3> QED BY <2>2, <3>1 DEF RowsInv, Links, OpLinks
  <2>3. OpLinks'
    BY <1>2, <2>2 DEF OpLinks
  <2> QED BY <2>1, <2>3 DEF Links
<1>7. BookingFitsMandate'
  <2>1. ASSUME NEW j \in DOMAIN ops, j # i, ops[j].status = "booking_confirmed", ~ops[j].confirm
        PROVE  /\ ops[j].booking # 0
               /\ bookings'[ops[j].booking].mandate = ops[j].mandate
               /\ bookings'[ops[j].booking].window \in mandates'[ops[j].mandate].terms
    <3>1. /\ ops[j].booking # 0 /\ bookings[ops[j].booking].mandate = ops[j].mandate
          /\ bookings[ops[j].booking].window \in mandates[ops[j].mandate].terms
          /\ ops[j].mandate # 0
      BY <2>1 DEF RowsInv, BookingFitsMandate, BookedHasMandate
    <3>2. ops[j].booking \in DOMAIN bookings /\ ops[j].mandate \in DOMAIN mandates
      BY <1>1, <1>3, <1>4, <3>1
    <3> QED BY <3>1, <3>2
  <2> QED BY <1>2, <2>1 DEF BookingFitsMandate
<1>8. OpsForward
  <2>1. ASSUME NEW j \in DOMAIN ops, j # i
        PROVE  ops'[j] = ops[j] /\ MandateTerms(ops[j])' = MandateTerms(ops[j])
    <3>1. ops'[j] = ops[j]
      BY <1>2, <2>1
    <3>2. ops[j].mandate # 0 => mandates'[ops[j].mandate] = mandates[ops[j].mandate]
      BY <1>1, <1>3, <1>4, <2>1
    <3> QED BY <3>1, <3>2 DEF MandateTerms
  <2>2. ops[i].rev <= ops'[i].rev /\ ops'[i].rev # ops[i].rev
    BY <1>2, <1>4
  <2>3. ASSUME NEW j \in DOMAIN ops
        PROVE  /\ ops[j].rev <= ops'[j].rev
               /\ ops'[j].rev = ops[j].rev =>
                    /\ ops'[j].details = ops[j].details
                    /\ ops'[j].mandate = ops[j].mandate
                    /\ MandateTerms(ops[j])' = MandateTerms(ops[j])
    <3>1. CASE j = i
      BY <2>2, <3>1
    <3>2. CASE j # i
      BY <1>4, <2>1, <3>2
    <3> QED BY <3>1, <3>2
  <2>4. Len(ops) <= Len(ops')
    BY <1>1, <1>2
  <2> QED BY <2>3, <2>4 DEF OpsForward
<1>9. CancelledStays
  BY <1>2 DEF CancelledStays
<1> QED BY <1>5, <1>6, <1>7, <1>8, <1>9 DEF Serves, RowsInv

------------------------------------------------------------------------------
\* The rows of changes

\* A change gets another status.
LEMMA Restatus ==
  ASSUME NEW row \in ChangeRow, NEW v \in {"pending", "escalated", "applied", "rejected"},
         NEW new, new = [row EXCEPT !.status = v]
  PROVE  /\ new \in ChangeRow /\ new.by = row.by /\ new.status = v
         /\ new.booking = row.booking /\ new.mandate = row.mandate /\ new.heard = row.heard
  BY DEF ChangeRow

\* Some are rejected; open ones may also be escalated.
Settles(new) ==
  /\ new = [i \in DOMAIN changes |-> new[i]]
  /\ \A i \in DOMAIN changes :
       \/ new[i] = changes[i]
       \/ new[i] = [changes[i] EXCEPT !.status = "rejected"]
       \/ changes[i].status \in OpenStatus /\ new[i] = [changes[i] EXCEPT !.status = "escalated"]

LEMMA Settled ==
  ASSUME RowsInv, NEW new, Settles(new)
  PROVE  /\ new \in Seq(ChangeRow) /\ DOMAIN new = DOMAIN changes
         /\ \A i \in DOMAIN changes :
              /\ new[i].by = changes[i].by
              /\ new[i].status \in OpenStatus => changes[i].status \in OpenStatus
              /\ new[i].booking = changes[i].booking /\ new[i].mandate = changes[i].mandate
              /\ new[i].heard = changes[i].heard
<1>1. changes \in Seq(ChangeRow)
  BY DEF RowsInv, Tables
<1>2. \A i \in DOMAIN changes : changes[i] \in ChangeRow
  BY <1>1
<1>3. ASSUME NEW i \in DOMAIN changes
      PROVE  /\ new[i] \in ChangeRow /\ new[i].by = changes[i].by
             /\ new[i].status \in OpenStatus => changes[i].status \in OpenStatus
             /\ new[i].booking = changes[i].booking /\ new[i].mandate = changes[i].mandate
             /\ new[i].heard = changes[i].heard
  <2>1. CASE new[i] = changes[i]
    BY <1>2, <2>1
  <2>2. CASE new[i] = [changes[i] EXCEPT !.status = "rejected"]
    BY <1>2, <2>2, Restatus DEF OpenStatus
  <2>3. CASE changes[i].status \in OpenStatus /\ new[i] = [changes[i] EXCEPT !.status = "escalated"]
    BY <1>2, <2>3, Restatus DEF OpenStatus
  <2> QED BY <2>1, <2>2, <2>3 DEF Settles
<1>4. Len(changes) \in Nat /\ DOMAIN changes = 1 .. Len(changes)
  BY <1>1
<1>5. new \in [1 .. Len(changes) -> ChangeRow]
  BY <1>3, <1>4 DEF Settles
<1> QED BY <1>3, <1>4, <1>5, SeqOfFunction

\* None is added.
LEMMA StillOneOpen ==
  ASSUME RowsInv, Settles(changes')
  PROVE  changes' \in Seq(ChangeRow) /\ ChangesAgree'
<1>1. OneIsOpen /\ ChangeIsInformed
  BY DEF RowsInv, ChangesAgree
<1>2. \A c \in Calls : OpenOf(c)' \subseteq OpenOf(c)
  BY Settled DEF OpenOf
<1>3. OneIsOpen'
  BY <1>1, <1>2 DEF OneIsOpen
<1>4. ChangeIsInformed'
  BY <1>1, Settled DEF ChangeIsInformed
<1> QED BY <1>3, <1>4, Settled DEF ChangesAgree

\* One is added, closed or the only open one of its call.
LEMMA OneMoreChange ==
  ASSUME RowsInv, NEW new, Settles(new), NEW e \in ChangeRow, changes' = Append(new, e),
         e.heard.booking = e.booking, e.heard.mandate = e.mandate,
         \/ e.status \notin OpenStatus
         \/ \A i \in DOMAIN new : new[i].by[1] = e.by[1] => new[i].status \notin OpenStatus
  PROVE  changes' \in Seq(ChangeRow) /\ ChangesAgree'
<1> DEFINE n == Len(new) + 1
<1>1. /\ changes' \in Seq(ChangeRow) /\ DOMAIN changes' = DOMAIN new \cup {n}
      /\ n \notin DOMAIN new /\ changes'[n] = e /\ \A i \in DOMAIN new : changes'[i] = new[i]
  <2>1. new \in Seq(ChangeRow)
    BY Settled
  <2> QED BY <2>1, Appended
<1>2. \A c \in Calls : OpenOf(c)' \subseteq OpenOf(c) \cup {n}
  BY <1>1, Settled DEF OpenOf
<1>3. ASSUME NEW c \in Calls, n \in OpenOf(c)'
      PROVE  OpenOf(c)' \subseteq {n}
  BY <1>1, <1>3 DEF OpenOf
<1>4. OneIsOpen /\ ChangeIsInformed
  BY DEF RowsInv, ChangesAgree
<1>5. ASSUME NEW c \in Calls, NEW i \in OpenOf(c)', NEW j \in OpenOf(c)'
      PROVE  i = j
  <2>1. CASE n \in OpenOf(c)'
    BY <1>3, <1>5, <2>1
  <2>2. CASE n \notin OpenOf(c)'
    BY <1>2, <1>4, <1>5, <2>2 DEF OneIsOpen
  <2> QED BY <2>1, <2>2
<1>6. OneIsOpen'
  BY <1>5 DEF OneIsOpen
<1>7. ChangeIsInformed'
  BY <1>1, <1>4, Settled DEF ChangeIsInformed
<1> QED BY <1>1, <1>6, <1>7 DEF ChangesAgree

LEMMA ClosedSettles ==
  ASSUME NEW some
  PROVE  Settles(Closed(some))
  BY DEF Settles, Closed

LEMMA ReplacedSettles ==
  ASSUME NEW c
  PROVE  Settles(Replaced(c))
  BY DEF Settles, Replaced

\* After its replacement a call without escalated changes has no open one.
LEMMA NoneIsOpen ==
  ASSUME RowsInv, NEW c \in Calls, ~EscalatedBy(c), NEW i \in DOMAIN changes,
         Replaced(c)[i].by[1] = c
  PROVE  Replaced(c)[i].status \notin OpenStatus
<1>1. changes \in Seq(ChangeRow)
  BY DEF RowsInv, Tables
<1>2. changes[i] \in ChangeRow
  BY <1>1
<1>3. CASE changes[i].by[1] = c /\ changes[i].status = "pending"
  <2>1. Replaced(c)[i] = [changes[i] EXCEPT !.status = "rejected"]
    BY <1>3 DEF Replaced
  <2> QED BY <1>2, <2>1, Restatus DEF OpenStatus
<1>4. CASE ~(changes[i].by[1] = c /\ changes[i].status = "pending")
  <2>1. Replaced(c)[i] = changes[i]
    BY <1>4 DEF Replaced
  <2> QED BY <1>4, <2>1 DEF EscalatedBy, OpenStatus
<1> QED BY <1>3, <1>4

------------------------------------------------------------------------------
\* The commands of clients

\* What asks for a tool of carriers is not a call of a client.
LEMMA CarriersTools ==
  ASSUME NEW r \in Request, InHand(r),
         r.name \in {"select_booking_for_reschedule", "select_booking_for_cancellation",
                     "reschedule_booking", "cancel_booking", "decline_reschedule_alternatives"}
  PROVE  r.call \in Calls /\ r.call \notin ClientCalls
  BY DEF InHand, Registered, Request

\* What asks for a tool of clients is one.
LEMMA ClientsTools ==
  ASSUME NEW r \in Request, InHand(r),
         r.name \in {"create_operation", "update_operation", "cancel_operation", "confirm_mandate"}
  PROVE  r.call \in Calls /\ r.call \in ClientCalls
  BY DEF InHand, Registered, Request

\* Rows of operations that a transaction adds or updates
LEMMA Row ==
  ASSUME RowsInv, NEW i \in DOMAIN ops
  PROVE  /\ ops \in Seq(OpRow) /\ ops[i] \in OpRow /\ ops[i].rev \in Nat \ {0}
         /\ ops[i].mandate \in Nat /\ ops[i].mandate <= Len(mandates)
         /\ ops[i].booking \in Nat /\ ops[i].booking <= Len(bookings)
         /\ ops[i].mandate # 0 => /\ ops[i].mandate \in DOMAIN mandates
                                  /\ mandates[ops[i].mandate] \in MandateRow
         /\ ops[i].booking # 0 => /\ ops[i].booking \in DOMAIN bookings
                                  /\ bookings[ops[i].booking] \in BookingRow
<1>1. /\ ops \in Seq(OpRow) /\ mandates \in Seq(MandateRow) /\ bookings \in Seq(BookingRow)
      /\ ops[i].mandate <= Len(mandates) /\ ops[i].booking <= Len(bookings)
  BY DEF RowsInv, Tables, Pointers
<1>2. ops[i] \in OpRow
  BY <1>1
<1>3. ops[i].rev \in Nat \ {0} /\ ops[i].mandate \in Nat /\ ops[i].booking \in Nat
  BY <1>2 DEF OpRow
<1> QED BY <1>1, <1>2, <1>3

LEMMA TouchedRow ==
  ASSUME NEW op \in OpRow
  PROVE  /\ Touch(op) \in OpRow /\ Touch(op).rev = op.rev + 1 /\ Touch(op).details = op.details
         /\ Touch(op).status = op.status /\ Touch(op).mandate = op.mandate
         /\ Touch(op).confirm = op.confirm /\ Touch(op).booking = op.booking
  BY DEF OpRow, Touch

LEMMA WithMandate ==
  ASSUME NEW op \in OpRow, NEW v \in Nat, NEW new, new = [op EXCEPT !.mandate = v]
  PROVE  /\ new \in OpRow /\ new.rev = op.rev /\ new.details = op.details
         /\ new.status = op.status /\ new.mandate = v
         /\ new.confirm = op.confirm /\ new.booking = op.booking
  BY DEF OpRow
LEMMA WithConfirm ==
  ASSUME NEW op \in OpRow, NEW v \in BOOLEAN, NEW new, new = [op EXCEPT !.confirm = v]
  PROVE  /\ new \in OpRow /\ new.rev = op.rev /\ new.details = op.details
         /\ new.status = op.status /\ new.mandate = op.mandate
         /\ new.confirm = v /\ new.booking = op.booking
  BY DEF OpRow
LEMMA WithDetails ==
  ASSUME NEW op \in OpRow, NEW v \in Details, NEW new, new = [op EXCEPT !.details = v]
  PROVE  /\ new \in OpRow /\ new.rev = op.rev /\ new.details = v
         /\ new.status = op.status /\ new.mandate = op.mandate
         /\ new.confirm = op.confirm /\ new.booking = op.booking
  BY DEF OpRow

\* A new operation has no mandate and no booking.
LEMMA CreateServes ==
  ASSUME CallAssumption, RowsInv, NEW r \in Request, InHand(r), Create(r), UNCHANGED past
  PROVE  Serves
<1> DEFINE new == [details |-> r.args, rev |-> 1, status |-> "collecting_details",
                   mandate |-> 0, confirm |-> FALSE, booking |-> 0]
           n == Len(ops) + 1
           some == [calls EXCEPT ![r.call].op = n]
<1>1. ops' = Append(ops, new) /\ ops \in Seq(OpRow) /\ new \in OpRow /\ r.call \in Calls
  BY DEF Create, CanCreate, InHand, Fitting, RowsInv, Tables, OpRow, Request
<1>2. /\ ops' \in Seq(OpRow) /\ Len(ops') = n /\ n \in Nat /\ n # 0
      /\ DOMAIN ops' = DOMAIN ops \cup {n} /\ n \notin DOMAIN ops
      /\ ops'[n] = new /\ \A j \in DOMAIN ops : ops'[j] = ops[j]
  BY <1>1, Appended
<1> HIDE DEF new, n
<1>3. UNCHANGED <<mandates, bookings, changes, past>>
  BY DEF Create
<1>4. calls \in [Calls -> CallRow] /\ calls' = [some EXCEPT ![r.call].intent = "create"]
  BY DEF Create, RowsInv, Tables, n
<1>5. some = [calls EXCEPT ![r.call].op = n]
  OBVIOUS
<1> HIDE DEF some
<1>6. /\ some \in [Calls -> CallRow] /\ some[r.call].op = n
      /\ some[r.call].chosen = calls[r.call].chosen
      /\ \A d \in Calls : d # r.call => some[d] = calls[d]
  BY <1>1, <1>2, <1>4, <1>5, SetOp
<1>7. /\ calls' \in [Calls -> CallRow] /\ calls'[r.call].op = n
      /\ calls'[r.call].chosen = calls[r.call].chosen
      /\ \A d \in Calls : d # r.call => calls'[d] = calls[d]
  <2>1. "create" \in Intents
    BY DEF Intents
  <2>2. calls' = [some EXCEPT ![r.call].intent = "create"]
    BY <1>4
  <2> QED BY <1>1, <1>6, <2>1, <2>2, SetIntent
<1>8. Tables'
  <2>1. receipts' \in [Calls -> SUBSET (1 .. MaxCommands)]
    BY RecordFact DEF Create, RowsInv
  <2> QED BY <1>2, <1>3, <1>7, <2>1 DEF RowsInv, Tables
<1>9. Pointers'
  <2>1. \A i \in DOMAIN ops' : ops'[i].mandate <= Len(mandates') /\ ops'[i].booking <= Len(bookings')
    <3>1. 0 <= Len(mandates) /\ 0 <= Len(bookings)
      BY DEF RowsInv, Tables
    <3> QED BY <1>2, <1>3, <3>1 DEF RowsInv, Pointers, new
  <2>2. ASSUME NEW c \in Calls
        PROVE  /\ calls'[c].op <= n /\ calls'[c].chosen <= Len(bookings)
               /\ calls'[c].chosen # 0 => calls'[c].op # 0
    <3>1. /\ calls[c].op \in Nat /\ calls[c].op <= Len(ops) /\ calls[c].chosen <= Len(bookings)
          /\ calls[c].chosen # 0 => calls[c].op # 0
      BY <1>4 DEF RowsInv, Pointers, CallRow
    <3>2. Len(ops) \in Nat /\ n = Len(ops) + 1
      BY <1>1 DEF n
    <3> QED BY <1>2, <1>7, <3>1, <3>2
  <2> QED BY <1>2, <1>3, <2>1, <2>2 DEF Pointers
<1>10. BookedHasMandate' /\ BookingFitsMandate' /\ Links'
  <2>1. BookedHasMandate' /\ BookingFitsMandate'
    BY <1>2, <1>3 DEF RowsInv, BookedHasMandate, BookingFitsMandate, new
  <2>2. OpLinks'
    BY <1>2, <1>3 DEF RowsInv, Links, OpLinks, new
  <2>3. r.call \in ClientCalls /\ calls[r.call].chosen = 0
    <3>1. calls[r.call].op = 0 /\ r.name = "create_operation"
      BY DEF Create, CanCreate
    <3> QED BY <1>1, <3>1, ClientsTools DEF RowsInv, Pointers
  <2>4. CallLinks'
    BY <1>3, <1>7, <2>3 DEF RowsInv, Links, CallLinks
  <2> QED BY <2>1, <2>2, <2>4 DEF Links
<1>11. ChangesAgree' /\ ConsentIsCurrent'
  <2>1. ChangesAgree'
    BY <1>3 DEF RowsInv, ChangesAgree, OneIsOpen, OpenOf, ChangeIsInformed
  <2>2. ConsentIsCurrent'
    BY <1>3, SameConsent
  <2> QED BY <2>1, <2>2
<1>12. OpsForward
  <2>1. \A c \in Calls : calls[c].op # 0 => calls'[c].op = calls[c].op
    BY <1>7 DEF Create, CanCreate, Calls
  <2>2. Len(ops) <= Len(ops') /\ \A j \in DOMAIN ops : ops[j].rev \in Nat
    BY <1>1, <1>2, Row DEF n
  <2> QED BY <1>2, <1>3, <2>1, <2>2 DEF OpsForward, MandateTerms
<1>13. CancelledStays
  BY <1>2 DEF CancelledStays
<1> QED BY <1>8, <1>9, <1>10, <1>11, <1>12, <1>13 DEF Serves, RowsInv

\* Two columns of the row of one call.
Relinked(f, c, v, w) == [f EXCEPT ![c].op = v, ![c].intent = w]

LEMMA SetOpIntent ==
  ASSUME NEW f \in [Calls -> CallRow], NEW c \in Calls, NEW v \in Nat, NEW w \in Intents,
         NEW g, g = Relinked(f, c, v, w)
  PROVE  /\ g \in [Calls -> CallRow] /\ g[c].op = v /\ g[c].chosen = f[c].chosen
         /\ \A d \in Calls : d # c => g[d] = f[d]
<1>1. PICK h : h = [f EXCEPT ![c].op = v]
  OBVIOUS
<1>2. g = [h EXCEPT ![c].intent = w]
  BY <1>1 DEF Relinked
<1>3. /\ h \in [Calls -> CallRow] /\ h[c].op = v /\ h[c].chosen = f[c].chosen
      /\ \A d \in Calls : d # c => h[d] = f[d]
  BY <1>1, SetOp
<1>4. /\ g \in [Calls -> CallRow] /\ g[c].op = h[c].op /\ g[c].chosen = h[c].chosen
      /\ \A d \in Calls : d # c => g[d] = h[d]
  BY <1>2, <1>3 DEF CallRow
<1> QED BY <1>3, <1>4

\* A call is linked to an operation that is there.
LEMMA LinkedCall ==
  ASSUME RowsInv, NEW c \in Calls, NEW i \in DOMAIN ops,
         calls' \in [Calls -> CallRow], calls'[c].op = i,
         calls'[c].chosen \in {calls[c].chosen, ops[i].booking},
         \A d \in Calls : d # c => calls'[d] = calls[d], UNCHANGED bookings,
         calls[c].op \in {0, i}, c \in ClientCalls \/ calls'[c].chosen # 0
  PROVE  /\ \A d \in Calls : /\ calls'[d].op <= Len(ops) /\ calls'[d].chosen <= Len(bookings)
                             /\ calls'[d].chosen # 0 => calls'[d].op # 0
         /\ CallLinks' /\ \A d \in Calls : calls[d].op # 0 => calls'[d].op = calls[d].op
<1>1. i # 0 /\ i <= Len(ops) /\ ops[i].booking <= Len(bookings)
  BY Row
<1>2. \A d \in Calls : /\ calls[d].op <= Len(ops) /\ calls[d].chosen <= Len(bookings)
                       /\ calls[d].chosen # 0 => calls[d].op # 0
  BY DEF RowsInv, Pointers
<1>3. ASSUME NEW d \in Calls
      PROVE  /\ calls'[d].op <= Len(ops) /\ calls'[d].chosen <= Len(bookings)
             /\ calls'[d].chosen # 0 => calls'[d].op # 0
  BY <1>1, <1>2
<1>4. \A d \in Calls : calls[d].op # 0 => calls'[d].op = calls[d].op
  OBVIOUS
<1>5. calls'[c].chosen # 0 => bookings[calls'[c].chosen].op = i
  <2>1. ops[i].booking # 0 => bookings[ops[i].booking].op = i
    BY DEF RowsInv, Links, OpLinks
  <2>2. calls[c].chosen # 0 => calls[c].op # 0 /\ bookings[calls[c].chosen].op = calls[c].op
    BY <1>2 DEF RowsInv, Links, CallLinks
  <2> QED BY <2>1, <2>2
<1>6. CallLinks'
  BY <1>5 DEF RowsInv, Links, CallLinks
<1> QED BY <1>3, <1>4, <1>6

\* New details keep the mandate, whose confirmation is awaited again.
LEMMA ChangedRow ==
  ASSUME NEW op \in OpRow, NEW d \in Details, NEW new, new = Changed(op, d)
  PROVE  /\ new \in OpRow /\ new.rev = op.rev + 1 /\ new.status = op.status
         /\ new.mandate = op.mandate /\ new.booking = op.booking
         /\ op.mandate # 0 => new.confirm
<1>1. PICK one : one = Touch(op)
  OBVIOUS
<1>2. /\ one \in OpRow /\ one.rev = op.rev + 1 /\ one.status = op.status
      /\ one.mandate = op.mandate /\ one.booking = op.booking /\ one.confirm = op.confirm
  BY <1>1, TouchedRow
<1>3. PICK two : two = [one EXCEPT !.details = d]
  OBVIOUS
<1>4. /\ two \in OpRow /\ two.rev = one.rev /\ two.status = one.status
      /\ two.mandate = one.mandate /\ two.booking = one.booking /\ two.confirm = one.confirm
  BY <1>2, <1>3, WithDetails
<1>5. PICK v \in BOOLEAN : v = (two.confirm \/ op.mandate # 0)
  OBVIOUS
<1>6. new = [two EXCEPT !.confirm = v]
  <2>1. new = [[Touch(op) EXCEPT !.details = d] EXCEPT !.confirm = @ \/ op.mandate # 0]
    BY DEF Changed
  <2> QED BY <1>1, <1>3, <1>5, <2>1
<1>7. /\ new \in OpRow /\ new.rev = two.rev /\ new.status = two.status
      /\ new.mandate = two.mandate /\ new.booking = two.booking /\ new.confirm = v
  BY <1>4, <1>6, WithConfirm
<1> QED BY <1>2, <1>4, <1>5, <1>7

\* The operation is the one the command names, and new details a new revision.
LEMMA UpdateServes ==
  ASSUME CallAssumption, RowsInv, NEW r \in Request, InHand(r), Update(r), UNCHANGED past
  PROVE  Serves
<1> DEFINE c == r.call
           i == r.args[1]
           d == r.args[2]
<1>1. /\ c \in Calls /\ i \in DOMAIN ops /\ d \in Details
      /\ calls[c].op \in {0, i} /\ ops[i].status # "cancelled" /\ c \in ClientCalls
  BY ClientsTools DEF Update, CanUpdate, InHand, Fitting, Request
<1>2. /\ UNCHANGED <<mandates, bookings, changes, past>>
      /\ calls' = [calls EXCEPT ![c].op = i,
                     ![c].intent = IF calls[c].op = 0 THEN "update" ELSE @]
      /\ ops' = IF d = ops[i].details THEN ops ELSE [ops EXCEPT ![i] = Changed(@, d)]
  BY DEF Update
<1>3. receipts' \in [Calls -> SUBSET (1 .. MaxCommands)]
  BY RecordFact DEF Update, RowsInv
<1> HIDE DEF c, i, d
<1>4. i \in Nat /\ calls \in [Calls -> CallRow]
  BY <1>1 DEF RowsInv, Tables
<1>5. PICK w : w = IF calls[c].op = 0 THEN "update" ELSE calls[c].intent
  OBVIOUS
<1>6. w \in Intents
  BY <1>1, <1>4, <1>5 DEF CallRow, Intents
<1>7. calls' = Relinked(calls, c, i, w)
  BY <1>1, <1>2, <1>4, <1>5 DEF CallRow, Relinked
<1>8. /\ calls' \in [Calls -> CallRow] /\ calls'[c].op = i /\ calls'[c].chosen = calls[c].chosen
      /\ \A e \in Calls : e # c => calls'[e] = calls[e]
  BY <1>1, <1>4, <1>6, <1>7, SetOpIntent
<1>9. /\ \A e \in Calls : /\ calls'[e].op <= Len(ops) /\ calls'[e].chosen <= Len(bookings)
                          /\ calls'[e].chosen # 0 => calls'[e].op # 0
      /\ CallLinks' /\ \A e \in Calls : calls[e].op # 0 => calls'[e].op = calls[e].op
  BY <1>1, <1>2, <1>8, LinkedCall
<1>10. changes' \in Seq(ChangeRow) /\ ChangesAgree' /\ past' \subseteq Window
  BY <1>2 DEF RowsInv, Tables, ChangesAgree, OneIsOpen, OpenOf, ChangeIsInformed
<1>11. CASE d = ops[i].details
  BY <1>2, <1>3, <1>8, <1>9, <1>10, <1>11, StillRows
<1>12. CASE d # ops[i].details
  <2>1. PICK new : new = Changed(ops[i], d)
    OBVIOUS
  <2>2. ops' = [ops EXCEPT ![i] = new]
    BY <1>1, <1>2, <1>12, <2>1
  <2>3. ops[i] \in OpRow
    BY <1>1, Row
  <2>4. /\ new \in OpRow /\ new.rev = ops[i].rev + 1 /\ new.status = ops[i].status
        /\ new.mandate = ops[i].mandate /\ new.booking = ops[i].booking
        /\ ops[i].mandate # 0 => new.confirm
    BY <1>1, <2>1, <2>3, ChangedRow
  <2>5. new.status = "booking_confirmed" => new.mandate # 0
    BY <1>1, <2>4 DEF RowsInv, BookedHasMandate
  <2>6. new.status = "booking_confirmed" /\ ~new.confirm =>
          /\ new.booking # 0 /\ bookings'[new.booking].mandate = new.mandate
          /\ bookings'[new.booking].window \in mandates'[new.mandate].terms
    BY <2>4, <2>5
  <2>7. /\ new.mandate <= Len(mandates) /\ new.booking <= Len(bookings)
        /\ new.booking # 0 => bookings'[new.booking].op = i
    BY <1>1, <1>2, <2>4, Row DEF RowsInv, Links, OpLinks
  <2>8. /\ mandates' \in Seq(MandateRow) /\ bookings' \in Seq(BookingRow)
        /\ Len(mandates) <= Len(mandates) /\ Len(bookings) <= Len(bookings)
    BY <1>2 DEF RowsInv, Tables
  <2>9. ConsentIsCurrent'
    BY <1>2, SameConsent
  <2>10. /\ Len(mandates) <= Len(mandates') /\ Len(bookings) <= Len(bookings')
         /\ \A k \in DOMAIN mandates : mandates'[k] = mandates[k]
         /\ \A k \in DOMAIN bookings : bookings'[k] = bookings[k]
         /\ new.mandate <= Len(mandates') /\ new.booking <= Len(bookings')
         /\ \A e \in Calls : calls'[e].chosen <= Len(bookings')
    BY <1>2, <1>9, <2>7, <2>8
  <2> QED BY <1>1, <1>3, <1>8, <1>9, <1>10, <2>2, <2>4, <2>5, <2>6, <2>7, <2>8, <2>9, <2>10, OneRow
<1> QED BY <1>11, <1>12

\* A confirmation gives the operation a new mandate and has it sourced.
Confirmed(op, n) == [Touch(op) EXCEPT !.mandate = n, !.confirm = FALSE, !.status = "sourcing"]

LEMMA ConfirmedRow ==
  ASSUME NEW op \in OpRow, NEW n \in Nat, NEW new, new = Confirmed(op, n)
  PROVE  /\ new \in OpRow /\ new.rev = op.rev + 1 /\ new.status = "sourcing"
         /\ new.mandate = n /\ new.booking = op.booking
<1>1. PICK one : one = Touch(op)
  OBVIOUS
<1>2. one \in OpRow /\ one.rev = op.rev + 1 /\ one.booking = op.booking
  BY <1>1, TouchedRow
<1>3. PICK two : two = [one EXCEPT !.mandate = n]
  OBVIOUS
<1>4. two \in OpRow /\ two.rev = one.rev /\ two.booking = one.booking /\ two.mandate = n
  BY <1>2, <1>3, WithMandate
<1>5. PICK three : three = [two EXCEPT !.confirm = FALSE]
  OBVIOUS
<1>6. /\ three \in OpRow /\ three.rev = two.rev /\ three.booking = two.booking
      /\ three.mandate = two.mandate
  BY <1>4, <1>5, WithConfirm
<1>7. new = [three EXCEPT !.status = "sourcing"]
  BY <1>1, <1>3, <1>5 DEF Confirmed
<1>8. /\ new \in OpRow /\ new.rev = three.rev /\ new.booking = three.booking
      /\ new.mandate = three.mandate /\ new.status = "sourcing"
  BY <1>6, <1>7 DEF OpRow
<1> QED BY <1>2, <1>4, <1>6, <1>8

\* Consent rests on what the client heard, because it was heard of this revision.
LEMMA ConfirmServes ==
  ASSUME CallAssumption, RowsInv, NEW r \in Request, InHand(r), Confirm(r), UNCHANGED past
  PROVE  Serves
<1> DEFINE c == r.call
           i == calls[c].op
           m == [op |-> i, details |-> ops[i].details, by |-> By(r), heard |-> r.heard, args |-> r.args,
                 terms |-> IF r.args = Inherit THEN MandateTerms(ops[i]) ELSE r.args]
           n == Len(mandates) + 1
<1>1. /\ c \in Calls /\ c \in ClientCalls /\ r.args \in Terms \cup {Inherit}
      /\ i # 0 /\ ops[i].status # "cancelled" /\ r.heard.rev = ops[i].rev
      /\ r.args = Inherit => ops[i].mandate # 0
  BY DEF Confirm, CanConfirm, CurrentRevision, InHand, Fitting, Registered, Request
<1>2. /\ UNCHANGED <<bookings, changes, past>> /\ mandates' = Append(mandates, m)
      /\ ops' = [ops EXCEPT ![i] = [Touch(@) EXCEPT !.mandate = n, !.confirm = FALSE, !.status = "sourcing"]]
      /\ calls' = [calls EXCEPT ![c].done = TRUE]
  BY DEF Confirm
<1>3. receipts' \in [Calls -> SUBSET (1 .. MaxCommands)]
  BY RecordFact DEF Confirm, RowsInv
<1>4. /\ r.heard \in Snapshot /\ By(r) \in Origin
      /\ r.heard.rev # 0 => /\ r.heard.details = ops[i].details
                            /\ r.heard.terms = MandateTerms(ops[i])
  BY <1>1 DEF InHand, Remembered, By, Origin, Request
<1>5. i \in DOMAIN ops /\ i \in Nat /\ mandates \in Seq(MandateRow) /\ calls \in [Calls -> CallRow]
  BY <1>1, WhereOp DEF RowsInv, Tables
<1>6. /\ ops[i] \in OpRow /\ ops[i].rev \in Nat \ {0} /\ ops[i].booking <= Len(bookings)
      /\ ops[i].booking \in Nat
      /\ ops[i].mandate # 0 => mandates[ops[i].mandate] \in MandateRow
  BY <1>5, Row
<1>7. r.heard.details = ops[i].details /\ r.heard.terms = MandateTerms(ops[i])
  BY <1>1, <1>4, <1>6
<1>8. m \in MandateRow
  <2>1. ops[i].details \in Details
    BY <1>6 DEF OpRow
  <2>2. (IF r.args = Inherit THEN MandateTerms(ops[i]) ELSE r.args) \in Terms
    BY <1>1, <1>6 DEF MandateTerms, MandateRow
  <2> QED BY <1>1, <1>4, <1>5, <2>1, <2>2 DEF MandateRow
<1>9. m.details = r.heard.details /\ m.heard = r.heard /\ m.args = r.args
      /\ m.terms = IF r.args = Inherit THEN r.heard.terms ELSE r.args
  BY <1>7
<1> HIDE DEF m, n, i, c
<1>10. /\ mandates' \in Seq(MandateRow) /\ Len(mandates') = n /\ n \in Nat /\ n # 0
       /\ Len(mandates) <= n /\ DOMAIN mandates' = DOMAIN mandates \cup {n}
       /\ n \notin DOMAIN mandates
       /\ mandates'[n] = m /\ \A k \in DOMAIN mandates : mandates'[k] = mandates[k]
  BY <1>2, <1>5, <1>8, Appended DEF n
<1>11. ConsentIsCurrent'
  BY <1>9, <1>10 DEF RowsInv, ConsentIsCurrent
<1>12. PICK new : new = Confirmed(ops[i], n)
  OBVIOUS
<1>13. ops' = [ops EXCEPT ![i] = new]
  BY <1>2, <1>5, <1>12 DEF Confirmed
<1>14. /\ new \in OpRow /\ new.rev = ops[i].rev + 1 /\ new.status = "sourcing"
       /\ new.mandate = n /\ new.booking = ops[i].booking
  <2>1. PICK op \in OpRow : op = ops[i]
    BY <1>6
  <2>2. n \in Nat /\ new = Confirmed(op, n)
    BY <1>10, <1>12, <2>1
  <2>3. /\ new \in OpRow /\ new.rev = op.rev + 1 /\ new.status = "sourcing"
        /\ new.mandate = n /\ new.booking = op.booking
    BY <2>2, ConfirmedRow
  <2> QED BY <2>1, <2>3
<1>15. /\ calls' \in [Calls -> CallRow] /\ calls'[c].op = calls[c].op
       /\ calls'[c].chosen = calls[c].chosen
       /\ \A d \in Calls : d # c => calls'[d] = calls[d]
  <2>1. calls' = [calls EXCEPT ![c].done = TRUE]
    BY <1>2
  <2>2. c \in Calls /\ calls \in [Calls -> CallRow]
    BY <1>1, <1>5
  <2> QED BY <2>1, <2>2 DEF CallRow
<1>16. \A d \in Calls : calls'[d].op = calls[d].op /\ calls'[d].chosen = calls[d].chosen
  BY <1>15
<1>17. /\ \A d \in Calls : /\ calls'[d].op <= Len(ops) /\ calls'[d].chosen <= Len(bookings')
                           /\ calls'[d].chosen # 0 => calls'[d].op # 0
       /\ CallLinks' /\ \A d \in Calls : calls[d].op # 0 => calls'[d].op = calls[d].op
  BY <1>2, <1>16 DEF RowsInv, Pointers, Links, CallLinks
<1>18. /\ changes' \in Seq(ChangeRow) /\ ChangesAgree' /\ past' \subseteq Window
       /\ bookings' \in Seq(BookingRow) /\ Len(bookings) <= Len(bookings')
       /\ \A k \in DOMAIN bookings : bookings'[k] = bookings[k]
       /\ new.booking <= Len(bookings') /\ (new.booking # 0 => bookings'[new.booking].op = i)
  <2>1. new.booking # 0 => bookings'[new.booking].op = i
    BY <1>2, <1>5, <1>14 DEF RowsInv, Links, OpLinks
  <2> QED BY <1>2, <1>6, <1>14, <2>1 DEF RowsInv, Tables, ChangesAgree, OneIsOpen, OpenOf,
                                         ChangeIsInformed
<1>19. /\ new.mandate <= Len(mandates') /\ Len(mandates) <= Len(mandates')
       /\ new.status # "booking_confirmed" /\ ops[i].status # "cancelled"
  BY <1>1, <1>10, <1>14
<1> QED BY <1>3, <1>5, <1>10, <1>11, <1>13, <1>14, <1>15, <1>17, <1>18, <1>19, OneRow

\* A cancelled operation has no booking.
Cancelled(op) == [Touch(op) EXCEPT !.status = "cancelled", !.booking = 0, !.confirm = FALSE]

LEMMA CancelledRow ==
  ASSUME NEW op \in OpRow, NEW new, new = Cancelled(op)
  PROVE  /\ new \in OpRow /\ new.rev = op.rev + 1 /\ new.status = "cancelled"
         /\ new.mandate = op.mandate /\ new.booking = 0
<1>1. /\ Touch(op) \in OpRow /\ Touch(op).rev = op.rev + 1 /\ Touch(op).mandate = op.mandate
  BY TouchedRow
<1>2. /\ new \in OpRow /\ new.rev = Touch(op).rev /\ new.status = "cancelled"
      /\ new.mandate = Touch(op).mandate /\ new.booking = 0
  BY <1>1 DEF Cancelled, OpRow
<1> QED BY <1>1, <1>2

\* A call that cancels an operation is done with it.
Cancelling(f, c, v) == [f EXCEPT ![c].op = v, ![c].intent = "cancel", ![c].done = TRUE]

LEMMA CancellingCall ==
  ASSUME NEW f \in [Calls -> CallRow], NEW c \in Calls, NEW v \in Nat,
         NEW g, g = Cancelling(f, c, v)
  PROVE  /\ g \in [Calls -> CallRow] /\ g[c].op = v /\ g[c].chosen = f[c].chosen
         /\ \A d \in Calls : d # c => g[d] = f[d]
<1>1. /\ g[c].op = v /\ g[c].chosen = f[c].chosen /\ \A d \in Calls : d # c => g[d] = f[d]
  BY DEF CallRow, Cancelling
<1>2. g[c] \in CallRow
  BY DEF CallRow, Intents, Cancelling
<1>3. DOMAIN g = Calls /\ g = [d \in Calls |-> g[d]]
  BY DEF Cancelling
<1> QED BY <1>1, <1>2, <1>3

LEMMA CancelServes ==
  ASSUME CallAssumption, RowsInv, NEW r \in Request, InHand(r), Cancel(r), UNCHANGED past
  PROVE  Serves
<1> DEFINE c == r.call
           i == r.args
<1>1. /\ c \in ClientCalls /\ c \in Calls /\ i \in DOMAIN ops /\ calls[c].op = 0
      /\ ops[i].status # "cancelled"
  BY ClientsTools DEF Cancel, CanCancel, InHand, Fitting, Request
<1>2. /\ UNCHANGED <<mandates, bookings, past>>
      /\ ops' = [ops EXCEPT ![i] = Cancelled(@)]
      /\ changes' = Closed({k \in DOMAIN changes : changes[k].op = i})
  BY DEF Cancel, Cancelled
<1>3. receipts' \in [Calls -> SUBSET (1 .. MaxCommands)]
  BY RecordFact DEF Cancel, RowsInv
<1>4. i \in Nat /\ calls \in [Calls -> CallRow] /\ ops[i] \in OpRow
  BY <1>1, Row DEF RowsInv, Tables
<1>5. /\ calls' \in [Calls -> CallRow] /\ calls'[c].op = i /\ calls'[c].chosen = calls[c].chosen
      /\ \A d \in Calls : d # c => calls'[d] = calls[d]
  <2>1. calls' = Cancelling(calls, c, i)
    BY DEF Cancel, Cancelling
  <2> HIDE DEF c, i
  <2> QED BY <1>1, <1>4, <2>1, CancellingCall
<1> HIDE DEF c, i
<1>6. PICK new : new = Cancelled(ops[i])
  OBVIOUS
<1>7. ops' = [ops EXCEPT ![i] = new]
  BY <1>1, <1>2, <1>6
<1>8. /\ new \in OpRow /\ new.rev = ops[i].rev + 1 /\ new.status = "cancelled"
      /\ new.mandate = ops[i].mandate /\ new.booking = 0
  BY <1>4, <1>6, CancelledRow
<1>9. /\ \A d \in Calls : /\ calls'[d].op <= Len(ops) /\ calls'[d].chosen <= Len(bookings)
                          /\ calls'[d].chosen # 0 => calls'[d].op # 0
      /\ CallLinks' /\ \A d \in Calls : calls[d].op # 0 => calls'[d].op = calls[d].op
  BY <1>1, <1>2, <1>5, LinkedCall
<1>10. changes' \in Seq(ChangeRow) /\ ChangesAgree'
  BY <1>2, ClosedSettles, StillOneOpen
<1>11. /\ mandates' \in Seq(MandateRow) /\ bookings' \in Seq(BookingRow)
       /\ Len(mandates) <= Len(mandates') /\ Len(bookings) <= Len(bookings')
       /\ \A k \in DOMAIN mandates : mandates'[k] = mandates[k]
       /\ \A k \in DOMAIN bookings : bookings'[k] = bookings[k]
       /\ \A d \in Calls : calls'[d].chosen <= Len(bookings')
       /\ past' \subseteq Window
  BY <1>2, <1>9 DEF RowsInv, Tables
<1>12. new.mandate <= Len(mandates') /\ new.booking <= Len(bookings') /\ new.status # "booking_confirmed"
  <2>1. ops[i].mandate <= Len(mandates) /\ 0 <= Len(bookings)
    BY <1>1, Row DEF RowsInv, Tables
  <2> QED BY <1>2, <1>8, <2>1
<1>13. ConsentIsCurrent'
  BY <1>2, SameConsent
<1> QED BY <1>1, <1>3, <1>5, <1>7, <1>8, <1>9, <1>10, <1>11, <1>12, <1>13, OneRow

------------------------------------------------------------------------------
\* The commands of carriers

\* A selection moves a carrier's call to another operation and its booking.
Selecting(f, c, v, b, w) == [f EXCEPT ![c].op = v, ![c].chosen = b, ![c].intent = w]

LEMMA SelectingCall ==
  ASSUME NEW f \in [Calls -> CallRow], NEW c \in Calls, NEW v \in Nat, NEW b \in Nat,
         NEW w \in Intents, NEW g, g = Selecting(f, c, v, b, w)
  PROVE  /\ g \in [Calls -> CallRow] /\ g[c].op = v /\ g[c].chosen = b
         /\ \A d \in Calls : d # c => g[d] = f[d]
<1>1. /\ g[c].op = v /\ g[c].chosen = b /\ \A d \in Calls : d # c => g[d] = f[d]
  BY DEF CallRow, Selecting
<1>2. g[c] \in CallRow
  BY DEF CallRow, Selecting
<1>3. DOMAIN g = Calls /\ g = [d \in Calls |-> g[d]]
  BY DEF Selecting
<1> QED BY <1>1, <1>2, <1>3

\* A change made ends what a carrier's call may do.
Finishing(f, c, v) == [f EXCEPT ![c].done = TRUE, ![c].last = v]

LEMMA FinishingCall ==
  ASSUME NEW f \in [Calls -> CallRow], NEW c \in Calls, NEW v \in Result,
         NEW g, g = Finishing(f, c, v)
  PROVE  /\ g \in [Calls -> CallRow]
         /\ \A d \in Calls : g[d].op = f[d].op /\ g[d].chosen = f[d].chosen
<1>1. /\ g[c].op = f[c].op /\ g[c].chosen = f[c].chosen /\ \A d \in Calls : d # c => g[d] = f[d]
  BY DEF CallRow, Finishing
<1>2. g[c] \in CallRow
  BY DEF CallRow, Finishing
<1>3. DOMAIN g = Calls /\ g = [d \in Calls |-> g[d]]
  BY DEF Finishing
<1> QED BY <1>1, <1>2, <1>3

\* A call keeps its operation and what it selected.
LEMMA SameCalls ==
  ASSUME RowsInv, bookings' \in Seq(BookingRow), Len(bookings) <= Len(bookings'),
         \A k \in DOMAIN bookings : bookings'[k] = bookings[k],
         \A d \in Calls : calls'[d].op = calls[d].op /\ calls'[d].chosen = calls[d].chosen
  PROVE  /\ \A d \in Calls : /\ calls'[d].op <= Len(ops) /\ calls'[d].chosen <= Len(bookings')
                             /\ calls'[d].chosen # 0 => calls'[d].op # 0
         /\ CallLinks' /\ \A d \in Calls : calls[d].op # 0 => calls'[d].op = calls[d].op
<1>1. /\ calls \in [Calls -> CallRow] /\ Len(bookings) \in Nat /\ Len(bookings') \in Nat
  BY DEF RowsInv, Tables
<1>2. \A d \in Calls : /\ calls[d].op <= Len(ops) /\ calls[d].chosen <= Len(bookings)
                       /\ calls[d].chosen # 0 => calls[d].op # 0
  BY DEF RowsInv, Pointers
<1>3. \A d \in Calls : calls[d].chosen \in Nat
  BY <1>1 DEF CallRow
<1>4. \A d \in Calls : /\ calls'[d].op <= Len(ops) /\ calls'[d].chosen <= Len(bookings')
                       /\ calls'[d].chosen # 0 => calls'[d].op # 0
  BY <1>1, <1>2, <1>3
<1>5. \A d \in Calls : calls[d].chosen # 0 => calls[d].chosen \in DOMAIN bookings
  BY <1>1, <1>2, <1>3 DEF RowsInv, Tables
<1>6. CallLinks'
  BY <1>5 DEF RowsInv, Links, CallLinks
<1> QED BY <1>4, <1>6

LEMMA SelectServes ==
  ASSUME CallAssumption, RowsInv, NEW r \in Request, InHand(r), Select(r), UNCHANGED past
  PROVE  Serves
<1> DEFINE c == r.call
           i == r.args
           w == IntentOf(r.name)
<1>1. c \in Calls /\ c \notin ClientCalls
  BY CarriersTools DEF Select, CanSelect
<1>2. i \in DOMAIN ops /\ i \in Nat /\ ops[i].booking \in Nat
  <2>1. i \in DOMAIN ops
    BY DEF Select, CanSelect, InHand, Fitting
  <2> QED BY <2>1, Row
<1>3. UNCHANGED <<ops, mandates, bookings, changes, past>>
  BY DEF Select
<1>4. calls' = Selecting(calls, c, i, ops[i].booking, w)
  BY DEF Select, Selecting
<1>5. receipts' \in [Calls -> SUBSET (1 .. MaxCommands)]
  BY RecordFact DEF Select, RowsInv
<1>6. calls \in [Calls -> CallRow] /\ w \in Intents
  BY DEF RowsInv, Tables, IntentOf, Intents
<1> HIDE DEF c, i, w
<1>7. /\ calls' \in [Calls -> CallRow] /\ calls'[c].op = i /\ calls'[c].chosen = ops[i].booking
      /\ \A d \in Calls : d # c => calls'[d] = calls[d]
  BY <1>1, <1>2, <1>4, <1>6, SelectingCall
<1>8. ops[i].booking # 0 /\ calls[c].chosen \in {0, ops[i].booking}
  BY DEF Select, CanSelect, OwnBooking, c, i
<1>9. calls[c].op \in {0, i}
  <2>1. bookings[ops[i].booking].op = i
    BY <1>2, <1>8 DEF RowsInv, Links, OpLinks
  <2>2. /\ calls[c].chosen # 0 => bookings[calls[c].chosen].op = calls[c].op
        /\ calls[c].op # 0 => calls[c].chosen # 0
    BY <1>1 DEF RowsInv, Links, CallLinks
  <2> QED BY <1>8, <2>1, <2>2
<1>10. /\ \A d \in Calls : /\ calls'[d].op <= Len(ops) /\ calls'[d].chosen <= Len(bookings)
                           /\ calls'[d].chosen # 0 => calls'[d].op # 0
       /\ CallLinks' /\ \A d \in Calls : calls[d].op # 0 => calls'[d].op = calls[d].op
  BY <1>1, <1>2, <1>3, <1>7, <1>8, <1>9, LinkedCall
<1>11. changes' \in Seq(ChangeRow) /\ ChangesAgree' /\ past' \subseteq Window
  BY <1>3 DEF RowsInv, Tables, ChangesAgree, OneIsOpen, OpenOf, ChangeIsInformed
<1> QED BY <1>3, <1>5, <1>7, <1>10, <1>11, StillRows

\* What every change of a booking rests on.
LEMMA PermittedFact ==
  ASSUME RowsInv, NEW r \in Request, InHand(r), Permitted(r),
         r.name \in {"reschedule_booking", "cancel_booking", "decline_reschedule_alternatives"}
  PROVE  /\ r.call \in Calls /\ r.call \notin ClientCalls /\ ~EscalatedBy(r.call)
         /\ calls[r.call].op \in DOMAIN ops /\ ops[calls[r.call].op].status # "cancelled"
         /\ ops[calls[r.call].op].booking \in DOMAIN bookings
         /\ bookings[ops[calls[r.call].op].booking] \in BookingRow
<1>1. r.call \in Calls /\ r.call \notin ClientCalls
  BY CarriersTools
<1>2. /\ ~EscalatedBy(r.call) /\ calls[r.call].chosen # 0 /\ OwnBooking(ops[calls[r.call].op])
  BY DEF Permitted
<1>3. calls[r.call].op # 0
  BY <1>1, <1>2 DEF RowsInv, Pointers
<1>4. calls[r.call].op \in DOMAIN ops
  BY <1>1, <1>3, WhereOp
<1> QED BY <1>1, <1>2, <1>4, Row DEF OwnBooking

\* The booking and the mandate it is about are those its agent was shown.
LEMMA InformedFact ==
  ASSUME RowsInv, NEW r \in Request, InHand(r), Permitted(r), calls[r.call].op \in DOMAIN ops
  PROVE  /\ r.heard.booking = ops[calls[r.call].op].booking
         /\ r.heard.mandate = ops[calls[r.call].op].mandate
<1>1. /\ r.target.booking = ops[calls[r.call].op].booking
      /\ r.target.rev = ops[calls[r.call].op].rev
  BY DEF Permitted, StillSelected, CurrentRevision
<1>2. ops[calls[r.call].op].rev # 0
  BY Row
<1> QED BY <1>1, <1>2 DEF InHand, Remembered

\* The row of a change.
LEMMA ChangeFact ==
  ASSUME RowsInv, NEW r \in Request, InHand(r), Permitted(r), calls[r.call].op \in DOMAIN ops,
         NEW kind \in {"reschedule", "cancel"}, NEW window \in Window \cup {None},
         NEW status \in {"pending", "escalated", "applied", "rejected"}
  PROVE  /\ Change(r, kind, window, status) \in ChangeRow
         /\ Change(r, kind, window, status).by[1] = r.call
         /\ Change(r, kind, window, status).status = status
         /\ Change(r, kind, window, status).heard.booking = Change(r, kind, window, status).booking
         /\ Change(r, kind, window, status).heard.mandate = Change(r, kind, window, status).mandate
<1>1. By(r) \in Origin /\ By(r)[1] = r.call /\ r.heard \in Snapshot
  BY DEF By, Origin, Request
<1>2. /\ calls[r.call].op \in Nat /\ ops[calls[r.call].op].mandate \in Nat
      /\ ops[calls[r.call].op].booking \in Nat
  BY Row
<1> QED BY <1>1, <1>2, InformedFact DEF Change, ChangeRow

LEMMA DeclineServes ==
  ASSUME CallAssumption, RowsInv, NEW r \in Request, InHand(r), Decline(r), UNCHANGED past
  PROVE  Serves
<1> DEFINE c == r.call
           i == calls[c].op
<1>1. c \in Calls /\ c \notin ClientCalls /\ i \in DOMAIN ops
  BY PermittedFact DEF Decline, CanDecline
<1>2. UNCHANGED <<ops, mandates, bookings, past>>
  BY DEF Decline
<1>3. calls' = [calls EXCEPT ![c].last = "requires_escalation"]
  BY DEF Decline
<1>4. receipts' \in [Calls -> SUBSET (1 .. MaxCommands)]
  BY RecordFact DEF Decline, RowsInv
<1>5. calls \in [Calls -> CallRow]
  BY DEF RowsInv, Tables
<1>6. Settles(changes')
  <2>1. changes' = [k \in DOMAIN changes |->
          IF k \in PendingOf(c, ops[i])
          THEN [changes[k] EXCEPT !.status = "escalated"] ELSE changes[k]]
    BY DEF Decline
  <2>2. \A k \in PendingOf(c, ops[i]) : changes[k].status \in OpenStatus
    BY DEF PendingOf, OpenStatus
  <2> HIDE DEF c, i
  <2> QED BY <2>1, <2>2 DEF Settles
<1>7. changes' \in Seq(ChangeRow) /\ ChangesAgree'
  BY <1>6, StillOneOpen
<1> HIDE DEF c, i
<1>8. /\ calls' \in [Calls -> CallRow]
      /\ \A d \in Calls : calls'[d].op = calls[d].op /\ calls'[d].chosen = calls[d].chosen
  BY <1>1, <1>3, <1>5 DEF CallRow, Result
<1>9. /\ bookings' \in Seq(BookingRow) /\ Len(bookings) <= Len(bookings') /\ past' \subseteq Window
      /\ \A k \in DOMAIN bookings : bookings'[k] = bookings[k]
  BY <1>2 DEF RowsInv, Tables
<1>10. /\ \A d \in Calls : /\ calls'[d].op <= Len(ops) /\ calls'[d].chosen <= Len(bookings)
                           /\ calls'[d].chosen # 0 => calls'[d].op # 0
       /\ CallLinks' /\ \A d \in Calls : calls[d].op # 0 => calls'[d].op = calls[d].op
  BY <1>2, <1>8, <1>9, SameCalls
<1> QED BY <1>2, <1>4, <1>7, <1>8, <1>9, <1>10, StillRows

\* A booking given back leaves the operation without one.
GivenBack(op, v) == [Touch(op) EXCEPT !.booking = 0, !.status = v]

LEMMA GivenBackRow ==
  ASSUME NEW op \in OpRow, NEW v \in {"sourcing", "needs_follow_up"}, NEW new, new = GivenBack(op, v)
  PROVE  /\ new \in OpRow /\ new.rev = op.rev + 1 /\ new.status # "booking_confirmed"
         /\ new.mandate = op.mandate /\ new.booking = 0
<1>1. /\ Touch(op) \in OpRow /\ Touch(op).rev = op.rev + 1 /\ Touch(op).mandate = op.mandate
  BY TouchedRow
<1>2. /\ new \in OpRow /\ new.rev = Touch(op).rev /\ new.status = v
      /\ new.mandate = Touch(op).mandate /\ new.booking = 0
  BY <1>1 DEF GivenBack, OpRow
<1> QED BY <1>1, <1>2

LEMMA CancelBookingServes ==
  ASSUME CallAssumption, RowsInv, NEW r \in Request, InHand(r), CancelBooking(r), UNCHANGED past
  PROVE  Serves
<1> DEFINE c == r.call
           i == calls[c].op
           some == {k \in DOMAIN changes : changes[k].booking = ops[i].booking}
           e == Change(r, "cancel", None, "applied")
<1>1. /\ c \in Calls /\ c \notin ClientCalls /\ i \in DOMAIN ops /\ ops[i].status # "cancelled"
  BY PermittedFact DEF CancelBooking, CanCancelBooking
<1>2. /\ UNCHANGED <<mandates, bookings, past>> /\ changes' = Append(Closed(some), e)
      /\ calls' = Finishing(calls, c, "cancelled")
  BY DEF CancelBooking, Finishing
<1>3. PICK v \in {"sourcing", "needs_follow_up"} : ops' = [ops EXCEPT ![i] = GivenBack(@, v)]
  BY DEF CancelBooking, GivenBack
<1>4. receipts' \in [Calls -> SUBSET (1 .. MaxCommands)]
  BY RecordFact DEF CancelBooking, RowsInv
<1>5. calls \in [Calls -> CallRow] /\ ops[i] \in OpRow /\ ops[i].mandate <= Len(mandates)
  BY <1>1, Row DEF RowsInv, Tables
<1>6. /\ e \in ChangeRow /\ e.status = "applied"
      /\ e.heard.booking = e.booking /\ e.heard.mandate = e.mandate
  <2>1. calls[r.call].op \in DOMAIN ops /\ Permitted(r)
    BY <1>1 DEF CancelBooking, CanCancelBooking
  <2> HIDE DEF c, i, some
  <2> QED BY <2>1, ChangeFact
<1> HIDE DEF c, i, some, e
<1>7. changes' \in Seq(ChangeRow) /\ ChangesAgree'
  <2>1. PICK old : old = Closed(some)
    OBVIOUS
  <2>2. Settles(old) /\ changes' = Append(old, e) /\ e.status \notin OpenStatus
    BY <1>2, <1>6, <2>1, ClosedSettles DEF OpenStatus
  <2> QED BY <1>6, <2>2, OneMoreChange
<1>8. PICK new : new = GivenBack(ops[i], v)
  OBVIOUS
<1>9. ops' = [ops EXCEPT ![i] = new]
  BY <1>1, <1>3, <1>8
<1>10. /\ new \in OpRow /\ new.rev = ops[i].rev + 1 /\ new.status # "booking_confirmed"
       /\ new.mandate = ops[i].mandate /\ new.booking = 0
  BY <1>5, <1>8, GivenBackRow
<1>11. /\ calls' \in [Calls -> CallRow]
       /\ \A d \in Calls : calls'[d].op = calls[d].op /\ calls'[d].chosen = calls[d].chosen
  <2>1. c \in Calls /\ "cancelled" \in Result /\ calls' = Finishing(calls, c, "cancelled")
    BY <1>1, <1>2 DEF Result
  <2> QED BY <1>5, <2>1, FinishingCall
<1>12. /\ mandates' \in Seq(MandateRow) /\ bookings' \in Seq(BookingRow)
       /\ Len(mandates) <= Len(mandates') /\ Len(bookings) <= Len(bookings')
       /\ \A k \in DOMAIN mandates : mandates'[k] = mandates[k]
       /\ \A k \in DOMAIN bookings : bookings'[k] = bookings[k]
       /\ past' \subseteq Window
  BY <1>2 DEF RowsInv, Tables
<1>13. /\ \A d \in Calls : /\ calls'[d].op <= Len(ops) /\ calls'[d].chosen <= Len(bookings')
                           /\ calls'[d].chosen # 0 => calls'[d].op # 0
       /\ CallLinks' /\ \A d \in Calls : calls[d].op # 0 => calls'[d].op = calls[d].op
  BY <1>11, <1>12, SameCalls
<1>14. new.mandate <= Len(mandates') /\ new.booking <= Len(bookings')
  BY <1>2, <1>5, <1>10, <1>12
<1>15. ConsentIsCurrent'
  BY <1>2, SameConsent
<1> QED BY <1>1, <1>4, <1>7, <1>9, <1>10, <1>11, <1>12, <1>13, <1>14, <1>15, OneRow

\* A new booking takes the place of the one before it.
Moved(op, n) == [Touch(op) EXCEPT !.booking = n]

LEMMA MovedRow ==
  ASSUME NEW op \in OpRow, NEW n \in Nat, NEW new, new = Moved(op, n)
  PROVE  /\ new \in OpRow /\ new.rev = op.rev + 1 /\ new.status = op.status
         /\ new.mandate = op.mandate /\ new.booking = n
<1>1. /\ Touch(op) \in OpRow /\ Touch(op).rev = op.rev + 1 /\ Touch(op).mandate = op.mandate
      /\ Touch(op).status = op.status
  BY TouchedRow
<1>2. /\ new \in OpRow /\ new.rev = Touch(op).rev /\ new.status = Touch(op).status
      /\ new.mandate = Touch(op).mandate /\ new.booking = n
  BY <1>1 DEF Moved, OpRow
<1> QED BY <1>1, <1>2

\* A window is applied when the mandate the booking rests on allows it.
LEMMA ApplyServes ==
  ASSUME CallAssumption, RowsInv, NEW r \in Request, InHand(r), Reschedule(r), UNCHANGED past,
         Reason(ops[calls[r.call].op], r.args) = "none"
  PROVE  Serves
<1> DEFINE c == r.call
           i == calls[c].op
           b == bookings[ops[i].booking]
           n == Len(bookings) + 1
           e == Change(r, "reschedule", r.args, "applied")
<1>1. /\ c \in Calls /\ c \notin ClientCalls /\ i \in DOMAIN ops /\ ops[i].status # "cancelled"
      /\ b \in BookingRow /\ r.args \in Window
  BY PermittedFact DEF Reschedule, CanReschedule, InHand, Fitting
<1>2. /\ UNCHANGED <<mandates, past>> /\ changes' = Append(Replaced(c), e)
      /\ bookings' = Append(bookings, [b EXCEPT !.window = r.args])
      /\ ops' = [ops EXCEPT ![i] = Moved(@, n)]
      /\ calls' = Finishing(calls, c, "applied")
  BY DEF Reschedule, Finishing, Moved
<1>3. /\ ~ops[i].confirm /\ b.mandate = ops[i].mandate /\ ops[i].status = "booking_confirmed"
      /\ r.args \in mandates[ops[i].mandate].terms
  BY DEF Reason
<1>4. receipts' \in [Calls -> SUBSET (1 .. MaxCommands)]
  BY RecordFact DEF Reschedule, RowsInv
<1>5. calls \in [Calls -> CallRow] /\ ops[i] \in OpRow /\ ops[i].mandate <= Len(mandates)
  BY <1>1, Row DEF RowsInv, Tables
<1>6. /\ e \in ChangeRow /\ e.status = "applied"
      /\ e.heard.booking = e.booking /\ e.heard.mandate = e.mandate
  <2>1. calls[r.call].op \in DOMAIN ops /\ Permitted(r) /\ r.args \in Window \cup {None}
    BY <1>1 DEF Reschedule, CanReschedule
  <2> HIDE DEF c, i, b
  <2> QED BY <2>1, ChangeFact
<1>7. PICK moved : moved = [b EXCEPT !.window = r.args]
  OBVIOUS
<1>8. /\ moved \in BookingRow /\ moved.window = r.args /\ moved.mandate = b.mandate
      /\ moved.op = b.op /\ bookings' = Append(bookings, moved)
  BY <1>1, <1>2, <1>7 DEF BookingRow
<1>9. b.op = i
  <2>1. ops[i].booking # 0
    BY DEF Reschedule, CanReschedule, Permitted, OwnBooking
  <2> QED BY <1>1, <2>1 DEF RowsInv, Links, OpLinks
<1> HIDE DEF c, i, b, e
<1>10. /\ bookings' \in Seq(BookingRow) /\ Len(bookings') = n /\ n \in Nat /\ n # 0
       /\ Len(bookings) <= Len(bookings') /\ bookings'[n] = moved
       /\ \A k \in DOMAIN bookings : bookings'[k] = bookings[k]
  <2>1. bookings \in Seq(BookingRow)
    BY DEF RowsInv, Tables
  <2> QED BY <1>8, <2>1, Appended
<1> HIDE DEF n
<1>11. changes' \in Seq(ChangeRow) /\ ChangesAgree'
  <2>1. PICK old : old = Replaced(c)
    OBVIOUS
  <2>2. Settles(old) /\ changes' = Append(old, e) /\ e.status \notin OpenStatus
    BY <1>2, <1>6, <2>1, ReplacedSettles DEF OpenStatus
  <2> QED BY <1>6, <2>2, OneMoreChange
<1>12. PICK new : new = Moved(ops[i], n)
  OBVIOUS
<1>13. ops' = [ops EXCEPT ![i] = new]
  BY <1>1, <1>2, <1>12
<1>14. /\ new \in OpRow /\ new.rev = ops[i].rev + 1 /\ new.status = ops[i].status
       /\ new.mandate = ops[i].mandate /\ new.booking = n
  <2>1. ops[i] \in OpRow /\ n \in Nat
    BY <1>5, <1>10
  <2> QED BY <1>12, <2>1, MovedRow
<1>15. /\ calls' \in [Calls -> CallRow]
       /\ \A d \in Calls : calls'[d].op = calls[d].op /\ calls'[d].chosen = calls[d].chosen
  <2>1. c \in Calls /\ "applied" \in Result /\ calls' = Finishing(calls, c, "applied")
    BY <1>1, <1>2 DEF Result
  <2> QED BY <1>5, <2>1, FinishingCall
<1>16. /\ mandates' \in Seq(MandateRow) /\ Len(mandates) <= Len(mandates')
       /\ \A k \in DOMAIN mandates : mandates'[k] = mandates[k]
       /\ past' \subseteq Window /\ new.mandate <= Len(mandates')
  BY <1>2, <1>5, <1>14 DEF RowsInv, Tables
<1>17. /\ \A d \in Calls : /\ calls'[d].op <= Len(ops) /\ calls'[d].chosen <= Len(bookings')
                           /\ calls'[d].chosen # 0 => calls'[d].op # 0
       /\ CallLinks' /\ \A d \in Calls : calls[d].op # 0 => calls'[d].op = calls[d].op
  BY <1>10, <1>15, SameCalls
<1>18. /\ new.status = "booking_confirmed" => new.mandate # 0
       /\ new.booking <= Len(bookings')
  BY <1>1, <1>10, <1>14 DEF RowsInv, BookedHasMandate
<1>19. /\ new.booking # 0 /\ bookings'[new.booking].mandate = new.mandate
       /\ bookings'[new.booking].window \in mandates'[new.mandate].terms
  BY <1>2, <1>3, <1>8, <1>10, <1>14
<1>20. bookings'[new.booking].op = i
  BY <1>8, <1>9, <1>10, <1>14
<1>21. ConsentIsCurrent'
  BY <1>2, SameConsent
<1> QED BY <1>1, <1>4, <1>10, <1>11, <1>13, <1>14, <1>15, <1>16, <1>17, <1>18, <1>19, <1>20,
           <1>21, OneRow

\* Any other window is offered or escalated, and changes no booking.
LEMMA ProposeServes ==
  ASSUME CallAssumption, RowsInv, NEW r \in Request, InHand(r), Reschedule(r), UNCHANGED past,
         Reason(ops[calls[r.call].op], r.args) # "none"
  PROVE  Serves
<1> DEFINE c == r.call
           i == calls[c].op
<1>1. /\ c \in Calls /\ i \in DOMAIN ops /\ ~EscalatedBy(c) /\ r.args \in Window \cup {None}
  BY PermittedFact DEF Reschedule, CanReschedule, InHand, Fitting
<1>2. UNCHANGED <<ops, mandates, bookings, past>>
  BY DEF Reschedule
<1>3. PICK offer \in BOOLEAN :
        /\ changes' = Append(Replaced(c),
             Change(r, "reschedule", r.args, IF offer THEN "pending" ELSE "escalated"))
        /\ calls' = [calls EXCEPT ![c].last =
             IF offer THEN "alternatives_available" ELSE "requires_escalation"]
  BY DEF Reschedule
<1>4. PICK status \in OpenStatus, v \in Result :
        /\ changes' = Append(Replaced(c), Change(r, "reschedule", r.args, status))
        /\ calls' = [calls EXCEPT ![c].last = v]
  BY <1>3 DEF OpenStatus, Result
<1>5. receipts' \in [Calls -> SUBSET (1 .. MaxCommands)]
  BY RecordFact DEF Reschedule, RowsInv
<1>6. calls \in [Calls -> CallRow]
  BY DEF RowsInv, Tables
<1>7. PICK e : e = Change(r, "reschedule", r.args, status)
  OBVIOUS
<1>8. /\ e \in ChangeRow /\ e.by[1] = c
      /\ e.heard.booking = e.booking /\ e.heard.mandate = e.mandate
  <2>1. /\ calls[r.call].op \in DOMAIN ops /\ Permitted(r) /\ r.args \in Window \cup {None}
        /\ status \in {"pending", "escalated", "applied", "rejected"}
    BY <1>1 DEF OpenStatus, Reschedule, CanReschedule
  <2> HIDE DEF i
  <2> QED BY <1>7, <2>1, ChangeFact
<1> HIDE DEF c, i
<1>9. changes' \in Seq(ChangeRow) /\ ChangesAgree'
  <2>1. PICK old : old = Replaced(c)
    OBVIOUS
  <2>2. Settles(old) /\ changes' = Append(old, e) /\ DOMAIN old = DOMAIN changes
    BY <1>4, <1>7, <2>1, ReplacedSettles DEF Replaced
  <2>3. \A k \in DOMAIN old : old[k].by[1] = e.by[1] => old[k].status \notin OpenStatus
    BY <1>1, <1>8, <2>1, <2>2, NoneIsOpen
  <2> QED BY <1>8, <2>2, <2>3, OneMoreChange
<1>10. /\ calls' \in [Calls -> CallRow]
       /\ \A d \in Calls : calls'[d].op = calls[d].op /\ calls'[d].chosen = calls[d].chosen
  BY <1>1, <1>4, <1>6 DEF CallRow
<1>11. /\ bookings' \in Seq(BookingRow) /\ Len(bookings) <= Len(bookings') /\ past' \subseteq Window
       /\ \A k \in DOMAIN bookings : bookings'[k] = bookings[k]
  BY <1>2 DEF RowsInv, Tables
<1>12. /\ \A d \in Calls : /\ calls'[d].op <= Len(ops) /\ calls'[d].chosen <= Len(bookings)
                           /\ calls'[d].chosen # 0 => calls'[d].op # 0
       /\ CallLinks' /\ \A d \in Calls : calls[d].op # 0 => calls'[d].op = calls[d].op
  BY <1>2, <1>10, <1>11, SameCalls
<1> QED BY <1>2, <1>5, <1>9, <1>10, <1>11, <1>12, StillRows

\* Every request that is served, or refused.
LEMMA RequestServes ==
  ASSUME CallAssumption, RowsInv, NEW r \in Request, InHand(r), UNCHANGED past,
         \/ Create(r) \/ Update(r) \/ Confirm(r) \/ Cancel(r)
         \/ Select(r) \/ Reschedule(r) \/ Decline(r) \/ CancelBooking(r) \/ Refuse(r)
  PROVE  Serves
<1>1. CASE Refuse(r)
  BY <1>1, SameServes DEF Refuse, db, RowsInv, Tables
<1>2. CASE Reschedule(r)
  BY <1>2, ApplyServes, ProposeServes
<1> QED BY <1>1, <1>2, CreateServes, UpdateServes, ConfirmServes, CancelServes,
           SelectServes, DeclineServes, CancelBookingServes

------------------------------------------------------------------------------
\* What sourcing, time and the end of a call do to the rows

\* A booked operation keeps its mandate.
Booked(op, n) == [Touch(op) EXCEPT !.status = "booking_confirmed", !.booking = n]

LEMMA BookedRow ==
  ASSUME NEW op \in OpRow, NEW n \in Nat, NEW new, new = Booked(op, n)
  PROVE  /\ new \in OpRow /\ new.rev = op.rev + 1
         /\ new.mandate = op.mandate /\ new.booking = n
<1>1. /\ Touch(op) \in OpRow /\ Touch(op).rev = op.rev + 1 /\ Touch(op).mandate = op.mandate
  BY TouchedRow
<1>2. /\ new \in OpRow /\ new.rev = Touch(op).rev
      /\ new.mandate = Touch(op).mandate /\ new.booking = n
  BY <1>1 DEF Booked, OpRow
<1> QED BY <1>1, <1>2

LEMMA AwardServes ==
  ASSUME CallAssumption, RowsInv, NEW i \in DOMAIN ops, Award(i)
  PROVE  Serves
<1> DEFINE n == Len(bookings) + 1
<1>1. /\ ops[i].status = "sourcing"
      /\ UNCHANGED <<mandates, changes, calls, receipts, past>>
      /\ ops' = [ops EXCEPT ![i] = Booked(@, n)]
  BY DEF Award, Booked
<1>2. PICK w \in MandateTerms(ops[i]), p \in {Carrier, OtherCarrier} :
        bookings' = Append(bookings, [op |-> i, window |-> w, mandate |-> ops[i].mandate, carrier |-> p])
  BY DEF Award
<1>3. PICK b : b = [op |-> i, window |-> w, mandate |-> ops[i].mandate, carrier |-> p]
  OBVIOUS
<1>4. /\ ops[i] \in OpRow /\ ops[i].mandate \in Nat /\ ops[i].mandate <= Len(mandates)
      /\ ops[i].mandate # 0 => mandates[ops[i].mandate] \in MandateRow
      /\ bookings \in Seq(BookingRow) /\ i \in Nat
  BY Row DEF RowsInv, Tables
<1>5. ops[i].mandate # 0 /\ w \in mandates[ops[i].mandate].terms /\ w \in Window
  <2>1. ops[i].mandate # 0 /\ w \in mandates[ops[i].mandate].terms
    BY <1>2 DEF MandateTerms
  <2> QED BY <1>4, <2>1 DEF MandateRow, Terms
<1>6. b \in BookingRow /\ b.window = w /\ b.mandate = ops[i].mandate /\ b.op = i
  BY <1>3, <1>4, <1>5 DEF BookingRow
<1>7. /\ bookings' \in Seq(BookingRow) /\ Len(bookings') = n /\ n \in Nat /\ n # 0
      /\ Len(bookings) <= Len(bookings') /\ bookings'[n] = b
      /\ \A k \in DOMAIN bookings : bookings'[k] = bookings[k]
  <2>1. bookings' = Append(bookings, b)
    BY <1>2, <1>3
  <2> QED BY <1>4, <1>6, <2>1, Appended
<1> HIDE DEF n
<1>8. PICK new : new = Booked(ops[i], n)
  OBVIOUS
<1>9. ops' = [ops EXCEPT ![i] = new]
  BY <1>1, <1>8
<1>10. /\ new \in OpRow /\ new.rev = ops[i].rev + 1
       /\ new.mandate = ops[i].mandate /\ new.booking = n
  <2>1. ops[i] \in OpRow /\ n \in Nat
    BY <1>4, <1>7
  <2> QED BY <1>8, <2>1, BookedRow
<1>11. /\ changes' \in Seq(ChangeRow) /\ ChangesAgree' /\ past' \subseteq Window
       /\ receipts' \in [Calls -> SUBSET (1 .. MaxCommands)] /\ calls' \in [Calls -> CallRow]
       /\ \A d \in Calls : calls'[d].op = calls[d].op /\ calls'[d].chosen = calls[d].chosen
  BY <1>1 DEF RowsInv, Tables, ChangesAgree, OneIsOpen, OpenOf, ChangeIsInformed
<1>12. /\ mandates' \in Seq(MandateRow) /\ Len(mandates) <= Len(mandates')
       /\ \A k \in DOMAIN mandates : mandates'[k] = mandates[k]
       /\ new.mandate <= Len(mandates') /\ new.booking <= Len(bookings')
  BY <1>1, <1>4, <1>7, <1>10 DEF RowsInv, Tables
<1>13. /\ \A d \in Calls : /\ calls'[d].op <= Len(ops) /\ calls'[d].chosen <= Len(bookings')
                           /\ calls'[d].chosen # 0 => calls'[d].op # 0
       /\ CallLinks' /\ \A d \in Calls : calls[d].op # 0 => calls'[d].op = calls[d].op
  BY <1>7, <1>11, SameCalls
<1>14. /\ new.booking # 0 /\ bookings'[new.booking].mandate = new.mandate /\ new.mandate # 0
       /\ bookings'[new.booking].window \in mandates'[new.mandate].terms
       /\ bookings'[new.booking].op = i /\ ops[i].status # "cancelled"
  BY <1>1, <1>5, <1>6, <1>7, <1>10
<1>15. ConsentIsCurrent'
  BY <1>1, SameConsent
<1> QED BY <1>7, <1>9, <1>10, <1>11, <1>12, <1>13, <1>14, <1>15, OneRow

LEMMA HangupServes ==
  ASSUME RowsInv, NEW c \in Calls, Hangup(c)
  PROVE  Serves
<1>1. /\ UNCHANGED <<ops, mandates, bookings, changes, receipts, past>>
      /\ calls' = [calls EXCEPT ![c].live = FALSE]
  BY DEF Hangup
<1>2. calls \in [Calls -> CallRow] /\ calls' = [calls EXCEPT ![c].live = FALSE]
  BY <1>1 DEF RowsInv, Tables
<1>3. /\ calls' \in [Calls -> CallRow]
      /\ \A d \in Calls : calls'[d].op = calls[d].op /\ calls'[d].chosen = calls[d].chosen
  BY <1>2 DEF CallRow
<1>4. /\ bookings' \in Seq(BookingRow) /\ Len(bookings) <= Len(bookings') /\ past' \subseteq Window
      /\ \A k \in DOMAIN bookings : bookings'[k] = bookings[k]
      /\ changes' \in Seq(ChangeRow) /\ receipts' \in [Calls -> SUBSET (1 .. MaxCommands)] /\ ChangesAgree'
  BY <1>1 DEF RowsInv, Tables, ChangesAgree, OneIsOpen, OpenOf, ChangeIsInformed
<1>5. /\ \A d \in Calls : /\ calls'[d].op <= Len(ops) /\ calls'[d].chosen <= Len(bookings)
                          /\ calls'[d].chosen # 0 => calls'[d].op # 0
      /\ CallLinks' /\ \A d \in Calls : calls[d].op # 0 => calls'[d].op = calls[d].op
  BY <1>1, <1>3, <1>4, SameCalls
<1> QED BY <1>1, <1>3, <1>4, <1>5, StillRows

------------------------------------------------------------------------------
\* What sessions show, ask and send

\* Operations stay where they are.
LEMMA StillThere ==
  ASSUME RowsInv, Serves
  PROVE  DOMAIN ops \subseteq DOMAIN ops' /\ \A i \in DOMAIN ops : ops'[i].rev \in Nat
<1>1. ops \in Seq(OpRow) /\ ops' \in Seq(OpRow) /\ Len(ops) <= Len(ops')
  BY DEF RowsInv, Serves, Tables, OpsForward
<1>2. DOMAIN ops \subseteq DOMAIN ops' /\ \A i \in DOMAIN ops : ops'[i] \in OpRow
  BY <1>1
<1> QED BY <1>2 DEF OpRow

\* A remembered revision stays worth what it was, whatever is served.
LEMMA RememberedForward ==
  ASSUME RowsInv, Serves, NEW c \in Calls, NEW shown \in Snapshot, Remembered(c, shown)
  PROVE  Remembered(c, shown)'
<1> SUFFICES ASSUME shown.rev # 0
             PROVE  /\ calls'[c].op # 0 /\ shown.rev <= ops'[calls'[c].op].rev
                    /\ shown.rev = ops'[calls'[c].op].rev =>
                         /\ shown.details = ops'[calls'[c].op].details
                         /\ shown.mandate = ops'[calls'[c].op].mandate
                         /\ shown.terms = MandateTerms(ops[calls[c].op])'
  BY DEF Remembered
<1>1. /\ calls[c].op # 0 /\ shown.rev <= ops[calls[c].op].rev
      /\ shown.rev = ops[calls[c].op].rev =>
           /\ shown.details = ops[calls[c].op].details
           /\ shown.mandate = ops[calls[c].op].mandate
           /\ shown.terms = MandateTerms(ops[calls[c].op])
  BY DEF Remembered
<1>2. PICK i : i = calls[c].op
  OBVIOUS
<1>3. /\ i \in DOMAIN ops /\ ops[i].rev \in Nat /\ ops'[i].rev \in Nat
      /\ calls'[c].op = i /\ shown.rev \in Nat
  <2>1. i \in DOMAIN ops
    BY <1>1, <1>2, WhereOp
  <2> QED BY <1>1, <1>2, <2>1, Row, StillThere DEF Serves, OpsForward, Snapshot
<1>4. /\ ops[i].rev <= ops'[i].rev
      /\ ops'[i].rev = ops[i].rev => /\ ops'[i].details = ops[i].details
                                     /\ ops'[i].mandate = ops[i].mandate
                                     /\ MandateTerms(ops[i])' = MandateTerms(ops[i])
  BY <1>3 DEF Serves, OpsForward
<1>5. MandateTerms(ops[calls[c].op])' = MandateTerms(ops[i])'
  BY <1>3 DEF MandateTerms
<1> QED BY <1>1, <1>2, <1>3, <1>4, <1>5

LEMMA InHandForward ==
  ASSUME RowsInv, Serves, NEW r \in Request, InHand(r)
  PROVE  InHand(r)'
<1>1. r.call \in Calls /\ r.heard \in Snapshot
  BY DEF Request
<1>2. Remembered(r.call, r.heard)'
  BY <1>1, RememberedForward DEF InHand
<1>3. Fitting(r)'
  <2>1. Fitting(r)
    BY DEF InHand
  <2> QED BY <2>1, StillThere DEF Fitting
<1> QED BY <1>2, <1>3 DEF InHand, Registered

\* What an agent is shown is of the operation as it is.
LEMMA ShownFact ==
  ASSUME RowsInv, NEW i \in DOMAIN ops
  PROVE  /\ Shown(ops[i]) \in Snapshot /\ Shown(ops[i]).rev = ops[i].rev
         /\ Shown(ops[i]).details = ops[i].details
         /\ Shown(ops[i]).mandate = ops[i].mandate
         /\ Shown(ops[i]).terms = MandateTerms(ops[i])
<1>1. ops[i] \in OpRow /\ (ops[i].mandate # 0 => mandates[ops[i].mandate] \in MandateRow)
  BY Row
<1>2. MandateTerms(ops[i]) \subseteq Window
  <2>1. CASE ops[i].mandate = 0
    BY <2>1 DEF MandateTerms
  <2>2. CASE ops[i].mandate # 0
    <3>1. mandates[ops[i].mandate].terms \in Terms
      BY <1>1, <2>2 DEF MandateRow
    <3> QED BY <2>2, <3>1 DEF MandateTerms, Terms
  <2> QED BY <2>1, <2>2
<1> QED BY <1>1, <1>2 DEF Shown, Snapshot, OpRow

LEMMA NothingFact ==
  ASSUME CallAssumption
  PROVE  Nothing \in Snapshot /\ Nothing.rev = 0
  BY DEF Nothing, Snapshot, Details, CallAssumption

LEMMA ViewFact ==
  ASSUME CallAssumption, RowsInv, NEW c \in Calls
  PROVE  /\ View(c) \in [intent : Intents, shown : Snapshot]
         /\ Remembered(c, View(c).shown)
<1>1. calls[c].intent \in Intents
  <2>1. calls[c] \in CallRow
    BY DEF RowsInv, Tables
  <2> QED BY <2>1 DEF CallRow
<1>2. ASSUME calls[c].op # 0
      PROVE  Shown(ops[calls[c].op]) \in Snapshot /\ Remembered(c, Shown(ops[calls[c].op]))
  <2>1. PICK i \in DOMAIN ops : i = calls[c].op
    BY <1>2, WhereOp
  <2>2. /\ Shown(ops[i]) \in Snapshot /\ Shown(ops[i]).rev = ops[i].rev
        /\ Shown(ops[i]).details = ops[i].details /\ Shown(ops[i]).terms = MandateTerms(ops[i])
        /\ Shown(ops[i]).mandate = ops[i].mandate /\ ops[i].rev \in Nat
    BY ShownFact, Row
  <2> QED BY <1>2, <2>1, <2>2 DEF Remembered
<1>3. Nothing \in Snapshot /\ Remembered(c, Nothing)
  BY NothingFact DEF Remembered
<1>4. PICK s \in Snapshot : View(c) = [intent |-> calls[c].intent, shown |-> s] /\ Remembered(c, s)
  <2>1. CASE c \in ClientCalls
    BY <1>2, <1>3, <2>1 DEF View, ClientView
  <2>2. CASE c \notin ClientCalls
    <3>1. Selected(c) => calls[c].op # 0
      BY DEF Selected, RowsInv, Pointers
    <3> QED BY <1>2, <1>3, <2>2, <3>1 DEF View, BookingView
  <2> QED BY <2>1, <2>2
<1> QED BY <1>1, <1>4

\* Whatever a session shows, asks and sends was in hand.
LEMMA TalkKept ==
  ASSUME CallAssumption, RowsInv, TalkInv, Serves,
         sess' \in [Calls -> Session], wire' \subseteq Request,
         \A c \in Calls : /\ sess'[c].tools \subseteq Registered(c)
                          /\ sess'[c].view = sess[c].view \/ sess'[c].view = View(c)
                          /\ sess'[c].asked = sess[c].asked \/ InHand(sess'[c].asked),
         \A r \in wire' : r \in wire \/ InHand(r)
  PROVE  TalkInv'
<1>1. sess \in [Calls -> Session] /\ wire \subseteq Request
  BY DEF TalkInv, Sessions
<1>2. ASSUME NEW c \in Calls
      PROVE  Remembered(c, sess[c].view.shown)'
  <2>1. sess'[c].view.shown \in Snapshot
    <3>1. sess'[c] \in Session
      OBVIOUS
    <3> QED BY <3>1 DEF Session
  <2>2. Remembered(c, sess'[c].view.shown)
    BY ViewFact DEF TalkInv, ToolsAreOwn
  <2>3. PICK shown \in Snapshot : shown = sess'[c].view.shown
    BY <2>1
  <2>4. Remembered(c, shown)'
    BY <2>2, <2>3, RememberedForward
  <2> QED BY <2>3, <2>4 DEF Remembered
<1>3. ASSUME NEW c \in Calls, sess'[c].asked # None
      PROVE  InHand(sess[c].asked)'
  <2>1. InHand(sess'[c].asked)
    BY <1>3 DEF TalkInv, ToolsAreOwn
  <2>2. sess'[c].asked \in Request
    <3>1. sess'[c] \in Session
      OBVIOUS
    <3> QED BY <1>3, <3>1 DEF Session
  <2>3. PICK r \in Request : r = sess'[c].asked
    BY <2>2
  <2>4. InHand(r)'
    BY <2>1, <2>3, InHandForward
  <2> QED BY <2>3, <2>4
<1>4. ASSUME NEW r \in wire'
      PROVE  InHand(r)'
  BY <1>1, InHandForward DEF TalkInv, ToolsAreOwn
<1> QED BY <1>2, <1>3, <1>4 DEF TalkInv, Sessions, ToolsAreOwn, Registered

------------------------------------------------------------------------------
\* The steps of a session

\* The rows do not change; the session may have new tools, a new view, a command.
LEMMA SessionStep ==
  ASSUME CallAssumption, ToolsInv, NEW c \in Calls, NEW s \in Session,
         sess' = [sess EXCEPT ![c] = s], UNCHANGED <<db, past>>,
         wire' \subseteq Request, \A r \in wire' : r \in wire \/ InHand(r),
         s.tools \subseteq Registered(c), s.view = sess[c].view \/ s.view = View(c),
         s.asked = sess[c].asked \/ InHand(s.asked)
  PROVE  ToolsInv'
<1>1. RowsInv /\ TalkInv /\ sess \in [Calls -> Session]
  BY DEF ToolsInv, TalkInv, Sessions
<1>2. /\ sess' \in [Calls -> Session] /\ sess'[c] = s
      /\ \A d \in Calls : d # c => sess'[d] = sess[d]
  BY <1>1
<1>3. Serves
  BY <1>1, SameServes DEF db, RowsInv, Tables
<1>4. \A d \in Calls : /\ sess'[d].tools \subseteq Registered(d)
                       /\ sess'[d].view = sess[d].view \/ sess'[d].view = View(d)
                       /\ sess'[d].asked = sess[d].asked \/ InHand(sess'[d].asked)
  BY <1>1, <1>2 DEF TalkInv, ToolsAreOwn
<1>5. TalkInv'
  BY <1>1, <1>2, <1>3, <1>4, TalkKept
<1> QED BY <1>3, <1>5 DEF ToolsInv, Serves

\* The sessions of a state, and what they may hold.
LEMMA SessionFact ==
  ASSUME ToolsInv, NEW c \in Calls
  PROVE  /\ sess \in [Calls -> Session] /\ sess[c] \in Session /\ wire \subseteq Request
         /\ sess[c].tools \subseteq Registered(c)
         /\ sess[c].asked # None => InHand(sess[c].asked) /\ sess[c].asked \in Request
         /\ \A r \in wire : r \in Request /\ InHand(r)
<1>1. sess \in [Calls -> Session] /\ sess[c] \in Session /\ wire \subseteq Request
  BY DEF ToolsInv, TalkInv, Sessions
<1>2. sess[c].asked # None => sess[c].asked \in Request
  BY <1>1 DEF Session
<1> QED BY <1>1, <1>2 DEF ToolsInv, TalkInv, ToolsAreOwn

LEMMA WithPc ==
  ASSUME NEW s \in Session, NEW p \in {"connecting", "talking", "waiting", "refreshing", "closed"},
         NEW t, t = [s EXCEPT !.pc = p]
  PROVE  t \in Session /\ t.view = s.view /\ t.tools = s.tools /\ t.asked = s.asked /\ t.next = s.next
  BY DEF Session
LEMMA WithView ==
  ASSUME NEW s \in Session, NEW v \in [intent : Intents, shown : Snapshot],
         NEW t, t = [s EXCEPT !.view = v]
  PROVE  t \in Session /\ t.view = v /\ t.tools = s.tools /\ t.asked = s.asked /\ t.next = s.next
  BY DEF Session
LEMMA OwnTools ==
  ASSUME NEW c \in Calls
  PROVE  Exposed(c) \subseteq Registered(c) /\ Registered(c) \subseteq ToolName
  BY DEF Exposed, Registered, ToolName

\* A session asks with its own tools, of what is there and was shown.
LEMMA AskedFact ==
  ASSUME CallAssumption, ToolsInv, NEW c \in Calls, sess[c].next <= MaxCommands,
         NEW name \in sess[c].tools \ ListTools, NEW args \in Arguments(c, name),
         NEW r, r = [call |-> c, id |-> sess[c].next, name |-> name, args |-> args,
                     target |-> Target(c), heard |-> sess[c].view.shown]
  PROVE  r \in Request /\ InHand(r)
<1>1. /\ sess[c] \in Session /\ name \in Registered(c) /\ name \notin ListTools
      /\ Remembered(c, sess[c].view.shown) /\ ops \in Seq(OpRow)
  BY SessionFact DEF ToolsInv, TalkInv, ToolsAreOwn, RowsInv, Tables
<1>2. sess[c].view.shown \in Snapshot /\ sess[c].next \in 1 .. MaxCommands
  <2>1. sess[c].view.shown \in Snapshot /\ sess[c].next \in 1 .. MaxCommands + 1 /\ MaxCommands \in Nat
    BY <1>1 DEF Session, CallAssumption
  <2> QED BY <2>1
<1>3. name \in ToolName
  BY <1>1, OwnTools
<1>4. /\ args \in Argument
      /\ name = "create_operation" => args \in Details
      /\ name = "update_operation" => args[1] \in DOMAIN ops /\ args[2] \in Details
      /\ name = "confirm_mandate" => args \in Terms \cup {Inherit}
      /\ name \in {"cancel_operation", "select_booking_for_reschedule",
                   "select_booking_for_cancellation"} => args \in DOMAIN ops
      /\ name = "reschedule_booking" => args \in Window
  <2>1. DOMAIN ops \subseteq Nat \ {0}
    BY <1>1
  <2>2. CASE c \in ClientCalls
    <3>1. name \in {"create_operation", "update_operation", "cancel_operation", "confirm_mandate"}
      BY <1>1, <2>2 DEF Registered, ListTools
    <3>2. args \in ClientArguments(name)
      BY <2>2 DEF Arguments
    <3>3. CASE name = "create_operation"
      BY <3>2, <3>3 DEF ClientArguments, Argument
    <3>4. CASE name = "update_operation"
      <4>1. args \in (DOMAIN ops) \X Details
        BY <3>2, <3>4 DEF ClientArguments
      <4> QED BY <2>1, <3>4, <4>1 DEF Argument
    <3>5. CASE name = "cancel_operation"
      <4>1. args \in DOMAIN ops
        BY <3>2, <3>5 DEF ClientArguments
      <4> QED BY <2>1, <3>5, <4>1 DEF Argument
    <3>6. CASE name = "confirm_mandate"
      BY <3>2, <3>6 DEF ClientArguments, Argument
    <3> QED BY <3>1, <3>3, <3>4, <3>5, <3>6
  <2>3. CASE c \notin ClientCalls
    <3>1. name \in {"reschedule_booking", "cancel_booking", "decline_reschedule_alternatives",
                    "select_booking_for_reschedule", "select_booking_for_cancellation"}
      BY <1>1, <2>3 DEF Registered, ListTools
    <3>2. args \in BookingArguments(name)
      BY <2>3 DEF Arguments
    <3>3. CASE name \in {"select_booking_for_reschedule", "select_booking_for_cancellation"}
      <4>1. args \in DOMAIN ops
        BY <3>2, <3>3 DEF BookingArguments, Bookings
      <4> QED BY <2>1, <3>3, <4>1 DEF Argument
    <3>4. CASE name = "reschedule_booking"
      BY <3>2, <3>4 DEF BookingArguments, Argument
    <3>5. CASE name \in {"cancel_booking", "decline_reschedule_alternatives"}
      BY <3>2, <3>5 DEF BookingArguments, Argument
    <3> QED BY <3>1, <3>3, <3>4, <3>5
  <2> QED BY <2>2, <2>3
<1>5. /\ r.call = c /\ r.id = sess[c].next /\ r.name = name /\ r.args = args
      /\ r.target = sess[c].view.shown /\ r.heard = sess[c].view.shown
  BY DEF Target
<1>6. r \in Request
  BY <1>2, <1>3, <1>4 DEF Request, Target
<1>7. Fitting(r)
  BY <1>4, <1>5 DEF Fitting
<1> QED BY <1>1, <1>5, <1>6, <1>7 DEF InHand

LEMMA AskTalks ==
  ASSUME CallAssumption, ToolsInv, NEW c \in Calls, Ask(c)
  PROVE  ToolsInv'
<1>1. PICK name \in sess[c].tools \ ListTools : \E args \in Arguments(c, name) : \E r :
        /\ r = [call |-> c, id |-> sess[c].next, name |-> name, args |-> args,
                target |-> Target(c), heard |-> sess[c].view.shown]
        /\ wire' = wire \cup {r}
        /\ sess' = [sess EXCEPT ![c].pc = "waiting", ![c].asked = r, ![c].next = @ + 1]
  BY DEF Ask
<1>2. PICK args \in Arguments(c, name) : \E r :
        /\ r = [call |-> c, id |-> sess[c].next, name |-> name, args |-> args,
                target |-> Target(c), heard |-> sess[c].view.shown]
        /\ wire' = wire \cup {r}
        /\ sess' = [sess EXCEPT ![c].pc = "waiting", ![c].asked = r, ![c].next = @ + 1]
  BY <1>1
<1>3. PICK r :
        /\ r = [call |-> c, id |-> sess[c].next, name |-> name, args |-> args,
                target |-> Target(c), heard |-> sess[c].view.shown]
        /\ wire' = wire \cup {r}
        /\ sess' = [sess EXCEPT ![c].pc = "waiting", ![c].asked = r, ![c].next = @ + 1]
  BY <1>2
<1>4. sess[c].next <= MaxCommands /\ UNCHANGED <<db, past>>
  BY DEF Ask
<1>5. r \in Request /\ InHand(r)
  BY <1>4, <1>3, AskedFact
<1>6. PICK one : one = [sess[c] EXCEPT !.pc = "waiting"]
  OBVIOUS
<1>7. PICK two : two = [one EXCEPT !.asked = r, !.next = @ + 1]
  OBVIOUS
<1>8. /\ one \in Session /\ one.view = sess[c].view /\ one.tools = sess[c].tools
      /\ one.next = sess[c].next
  BY <1>6, SessionFact, WithPc
<1>9. two \in Session /\ two.view = one.view /\ two.tools = one.tools /\ two.asked = r
  <2>1. one.next <= MaxCommands
    BY <1>4, <1>8
  <2>2. /\ one.next \in 1 .. MaxCommands + 1 /\ MaxCommands \in Nat
        /\ two = [one EXCEPT !.asked = r, !.next = one.next + 1]
    BY <1>7, <1>8 DEF Session, CallAssumption
  <2>3. one.next + 1 \in 1 .. MaxCommands + 1
    BY <2>1, <2>2
  <2> QED BY <1>5, <1>8, <2>2, <2>3 DEF Session
<1>10. sess' = [sess EXCEPT ![c] = two]
  BY <1>6, <1>7, <1>3, SessionFact DEF Session
<1>11. wire' \subseteq Request /\ \A s \in wire' : s \in wire \/ InHand(s)
  BY <1>5, <1>3, SessionFact
<1> QED BY <1>4, <1>5, <1>8, <1>9, <1>10, <1>11, SessionFact, SessionStep

\* The session waits, for a command repeated or no longer, or closes.
LEMMA PcTalks ==
  ASSUME CallAssumption, ToolsInv, NEW c \in Calls,
         NEW p \in {"connecting", "talking", "waiting", "refreshing", "closed"},
         sess' = [sess EXCEPT ![c].pc = p], UNCHANGED <<db, past>>,
         \A r \in wire' : r \in wire \/ (r \in Request /\ InHand(r))
  PROVE  ToolsInv'
<1>1. PICK s : s = [sess[c] EXCEPT !.pc = p]
  OBVIOUS
<1>2. s \in Session /\ s.view = sess[c].view /\ s.tools = sess[c].tools /\ s.asked = sess[c].asked
  BY <1>1, SessionFact, WithPc
<1>3. sess' = [sess EXCEPT ![c] = s]
  BY <1>1
<1>4. wire' \subseteq Request /\ \A r \in wire' : r \in wire \/ InHand(r)
  BY SessionFact
<1> QED BY <1>2, <1>3, <1>4, SessionFact, SessionStep

LEMMA RefreshTalks ==
  ASSUME CallAssumption, ToolsInv, NEW c \in Calls, Refresh(c) \/ List(c)
  PROVE  ToolsInv'
<1>1. /\ UNCHANGED <<db, past, wire>>
      /\ \E p \in {"talking", "refreshing"}, some \in {Exposed(c), sess[c].tools} :
           sess' = [sess EXCEPT ![c].pc = p, ![c].view = View(c), ![c].tools = some]
  <2>1. CASE Refresh(c)
    BY <2>1 DEF Refresh
  <2>2. CASE List(c)
    <3>1. sess' = [sess EXCEPT ![c].pc = "refreshing", ![c].view = View(c), ![c].tools = sess[c].tools]
      BY <2>2, SessionFact DEF List, Session
    <3> QED BY <2>2, <3>1 DEF List
  <2> QED BY <2>1, <2>2
<1>2. PICK p \in {"talking", "refreshing"}, some \in {Exposed(c), sess[c].tools} :
        sess' = [sess EXCEPT ![c].pc = p, ![c].view = View(c), ![c].tools = some]
  BY <1>1
<1>3. some \subseteq Registered(c) /\ some \subseteq ToolName
  BY OwnTools, SessionFact
<1>4. View(c) \in [intent : Intents, shown : Snapshot]
  BY ViewFact DEF ToolsInv
<1>5. PICK one : one = [sess[c] EXCEPT !.pc = p]
  OBVIOUS
<1>6. one \in Session /\ one.asked = sess[c].asked
  BY <1>5, SessionFact, WithPc
<1>7. PICK two : two = [one EXCEPT !.view = View(c)]
  OBVIOUS
<1>8. two \in Session /\ two.asked = one.asked /\ two.view = View(c)
  BY <1>4, <1>6, <1>7, WithView
<1>9. PICK s : s = [two EXCEPT !.tools = some]
  OBVIOUS
<1>10. s \in Session /\ s.asked = two.asked /\ s.view = two.view /\ s.tools = some
  BY <1>3, <1>8, <1>9 DEF Session
<1>11. sess' = [sess EXCEPT ![c] = s]
  BY <1>2, <1>5, <1>7, <1>9
<1>12. wire' \subseteq Request /\ \A r \in wire' : r \in wire \/ InHand(r)
  BY <1>1, SessionFact
<1> QED BY <1>1, <1>3, <1>6, <1>8, <1>10, <1>11, <1>12, SessionStep

\* A session that closes has no tools.
LEMMA ClosedSession ==
  ASSUME ToolsInv, NEW c \in Calls, sess' = [sess EXCEPT ![c].pc = "closed", ![c].tools = {}]
  PROVE  \E s \in Session : /\ sess' = [sess EXCEPT ![c] = s] /\ s.view = sess[c].view
                            /\ s.asked = sess[c].asked /\ s.tools = {}
<1>1. PICK one : one = [sess[c] EXCEPT !.pc = "closed"]
  OBVIOUS
<1>2. one \in Session /\ one.view = sess[c].view /\ one.asked = sess[c].asked
  BY <1>1, SessionFact, WithPc
<1>3. PICK s : s = [one EXCEPT !.tools = {}]
  OBVIOUS
<1>4. s \in Session /\ s.view = one.view /\ s.asked = one.asked /\ s.tools = {}
  BY <1>2, <1>3 DEF Session
<1>5. sess' = [sess EXCEPT ![c] = s]
  BY <1>1, <1>3
<1> QED BY <1>2, <1>4, <1>5

LEMMA FailTalks ==
  ASSUME CallAssumption, ToolsInv, NEW c \in Calls, RefreshFails(c)
  PROVE  ToolsInv'
<1>1. UNCHANGED <<db, past, wire>> /\ sess' = [sess EXCEPT ![c].pc = "closed", ![c].tools = {}]
  BY DEF RefreshFails
<1>2. PICK s \in Session : /\ sess' = [sess EXCEPT ![c] = s] /\ s.view = sess[c].view
                           /\ s.asked = sess[c].asked /\ s.tools = {}
  BY <1>1, ClosedSession
<1>3. wire' \subseteq Request /\ \A r \in wire' : r \in wire \/ InHand(r)
  BY <1>1, SessionFact
<1> QED BY <1>1, <1>2, <1>3, SessionStep

\* A step of the rows that leaves the sessions their views, tools and commands.
LEMMA RowsStep ==
  ASSUME CallAssumption, ToolsInv, Serves, wire' \subseteq wire, sess' \in [Calls -> Session],
         \A c \in Calls : /\ sess'[c].view = sess[c].view /\ sess'[c].asked = sess[c].asked
                          /\ sess'[c].tools \subseteq sess[c].tools
  PROVE  ToolsInv'
<1>1. /\ RowsInv /\ TalkInv /\ wire' \subseteq Request /\ \A r \in wire' : r \in wire
      /\ \A c \in Calls : sess'[c].tools \subseteq Registered(c)
  BY DEF ToolsInv, TalkInv, Sessions, ToolsAreOwn
<1>2. TalkInv'
  BY <1>1, TalkKept
<1> QED BY <1>2 DEF ToolsInv, Serves

LEMMA HangupTalks ==
  ASSUME CallAssumption, ToolsInv, NEW c \in Calls, Hangup(c)
  PROVE  Serves /\ ToolsInv'
<1>1. wire' = wire /\ sess' = [sess EXCEPT ![c].pc = "closed", ![c].tools = {}]
  BY DEF Hangup
<1>2. PICK s \in Session : /\ sess' = [sess EXCEPT ![c] = s] /\ s.view = sess[c].view
                           /\ s.asked = sess[c].asked /\ s.tools = {}
  BY <1>1, ClosedSession
<1>3. Serves
  BY HangupServes DEF ToolsInv
<1>4. /\ sess' \in [Calls -> Session] /\ wire' \subseteq wire
      /\ \A d \in Calls : /\ sess'[d].view = sess[d].view /\ sess'[d].asked = sess[d].asked
                          /\ sess'[d].tools \subseteq sess[d].tools
  BY <1>1, <1>2, SessionFact
<1> QED BY <1>3, <1>4, RowsStep

LEMMA ServeTalks ==
  ASSUME CallAssumption, ToolsInv, Serve
  PROVE  Serves /\ ToolsInv'
<1>1. PICK r \in wire :
        /\ Served(r)
        /\ \/ Create(r) \/ Update(r) \/ Confirm(r) \/ Cancel(r)
           \/ Select(r) \/ Reschedule(r) \/ Decline(r) \/ CancelBooking(r) \/ Refuse(r)
  BY DEF Serve
<1>2. r \in Request /\ InHand(r) /\ r.call \in Calls
  <2>1. r \in Request /\ InHand(r)
    BY DEF ToolsInv, TalkInv, Sessions, ToolsAreOwn
  <2> QED BY <2>1 DEF Request
<1>3. wire' \subseteq wire /\ UNCHANGED past
  BY <1>1 DEF Served
<1>4. PICK p : /\ p = IF sess[r.call].pc = "waiting" /\ sess[r.call].asked = r
                      THEN "refreshing" ELSE sess[r.call].pc
               /\ sess' = [sess EXCEPT ![r.call].pc = p]
  BY <1>1 DEF Served
<1>5. PICK c \in Calls : c = r.call
  BY <1>2
<1>6. sess[c] \in Session /\ sess \in [Calls -> Session]
  BY SessionFact
<1>7. p \in {"connecting", "talking", "waiting", "refreshing", "closed"}
  BY <1>4, <1>5, <1>6 DEF Session
<1>8. PICK s : s = [sess[c] EXCEPT !.pc = p]
  OBVIOUS
<1>9. s \in Session /\ s.view = sess[c].view /\ s.tools = sess[c].tools /\ s.asked = sess[c].asked
  BY <1>6, <1>7, <1>8, WithPc
<1>10. sess' = [sess EXCEPT ![c] = s]
  BY <1>4, <1>5, <1>8
<1>11. /\ sess' \in [Calls -> Session]
       /\ \A d \in Calls : /\ sess'[d].view = sess[d].view /\ sess'[d].asked = sess[d].asked
                           /\ sess'[d].tools \subseteq sess[d].tools
  BY <1>6, <1>9, <1>10
<1>12. Serves
  BY <1>1, <1>2, <1>3, RequestServes DEF ToolsInv
<1> QED BY <1>3, <1>11, <1>12, RowsStep

LEMMA OutsideTalks ==
  ASSUME CallAssumption, ToolsInv,
         (\E i \in DOMAIN ops : Award(i)) \/ (\E w \in Window : Begin(w))
  PROVE  Serves /\ ToolsInv'
<1>1. CASE \E i \in DOMAIN ops : Award(i)
  <2>1. Serves
    BY <1>1, AwardServes DEF ToolsInv
  <2>2. UNCHANGED <<wire, sess>>
    BY <1>1 DEF Award
  <2>3. /\ sess' \in [Calls -> Session] /\ wire' \subseteq wire
        /\ \A d \in Calls : /\ sess'[d].view = sess[d].view /\ sess'[d].asked = sess[d].asked
                            /\ sess'[d].tools \subseteq sess[d].tools
    BY <2>2 DEF ToolsInv, TalkInv, Sessions
  <2> QED BY <2>1, <2>3, RowsStep
<1>2. CASE \E w \in Window : Begin(w)
  <2>1. UNCHANGED <<db, wire, sess>> /\ past' \subseteq Window
    BY <1>2 DEF Begin, ToolsInv, RowsInv, Tables
  <2>2. Serves
    BY <2>1, SameServes DEF ToolsInv, db
  <2>3. /\ sess' \in [Calls -> Session] /\ wire' \subseteq wire
        /\ \A d \in Calls : /\ sess'[d].view = sess[d].view /\ sess'[d].asked = sess[d].asked
                            /\ sess'[d].tools \subseteq sess[d].tools
    BY <2>1 DEF ToolsInv, TalkInv, Sessions
  <2> QED BY <2>2, <2>3, RowsStep
<1> QED BY <1>1, <1>2

------------------------------------------------------------------------------
\* The invariant

LEMMA InitTables ==
  ASSUME CallAssumption, Init
  PROVE  RowsInv
<1>1. PICK terms \in Terms, w \in Window :
        /\ w \in terms
        /\ mandates = <<[op |-> 1, details |-> 1, by |-> None, heard |-> None,
                         args |-> terms, terms |-> terms]>>
        /\ bookings = <<[op |-> 1, window |-> w, mandate |-> 1, carrier |-> Carrier]>>
  BY DEF Init
<1>2. /\ ops = <<[details |-> 1, rev |-> 1, status |-> "booking_confirmed",
                  mandate |-> 1, confirm |-> FALSE, booking |-> 1]>>
      /\ changes = <<>> /\ past = {} /\ receipts = [c \in Calls |-> {}]
      /\ calls = [c \in Calls |-> [live |-> TRUE, op |-> 0, intent |-> "undecided",
                                   chosen |-> 0, done |-> FALSE, last |-> "none"]]
  BY DEF Init
<1>3. 1 \in Details /\ w \in Window
  BY DEF CallAssumption, Details, Terms
<1>4. /\ Len(mandates) = 1 /\ mandates[1].terms = terms /\ DOMAIN mandates = {1}
      /\ mandates[1].heard = None
      /\ Len(bookings) = 1 /\ bookings[1].mandate = 1 /\ bookings[1].op = 1
      /\ bookings[1].window \in mandates[1].terms
  BY <1>1
<1>5. /\ Len(ops) = 1 /\ DOMAIN ops = {1} /\ ops[1].mandate = 1 /\ ops[1].booking = 1
  BY <1>2
<1>6. Tables
  <2>1. ops \in Seq(OpRow)
    BY <1>2, <1>3 DEF OpRow
  <2>2. mandates \in Seq(MandateRow)
    BY <1>1, <1>3 DEF MandateRow
  <2>3. bookings \in Seq(BookingRow)
    BY <1>1, <1>3 DEF BookingRow
  <2>4. changes \in Seq(ChangeRow) /\ past \subseteq Window
        /\ receipts \in [Calls -> SUBSET (1 .. MaxCommands)]
    BY <1>2
  <2>5. calls \in [Calls -> CallRow]
    BY <1>2 DEF CallRow, Intents, Result
  <2> QED BY <2>1, <2>2, <2>3, <2>4, <2>5 DEF Tables
<1>7. Pointers /\ Links
  BY <1>2, <1>4, <1>5 DEF Pointers, Links, OpLinks, CallLinks
<1>8. BookedHasMandate /\ BookingFitsMandate
  BY <1>4, <1>5 DEF BookedHasMandate, BookingFitsMandate
<1>9. ChangesAgree
  BY <1>2 DEF ChangesAgree, OneIsOpen, OpenOf, ChangeIsInformed
<1>10. ConsentIsCurrent
  BY <1>4 DEF ConsentIsCurrent
<1> QED BY <1>6, <1>7, <1>8, <1>9, <1>10 DEF RowsInv

LEMMA InitTalk ==
  ASSUME CallAssumption, Init
  PROVE  TalkInv
<1>1. wire = {} /\ sess = [c \in Calls |-> Idle]
  BY DEF Init
<1>2. Nothing \in Snapshot /\ Nothing.rev = 0
  BY NothingFact
<1>3. /\ Idle \in Session /\ Idle.tools = {} /\ Idle.view.shown = Nothing /\ Idle.asked = None
  <2>1. 1 \in 1 .. MaxCommands + 1
    BY DEF CallAssumption
  <2> QED BY <1>2, <2>1 DEF Idle, Session, Intents
<1> QED BY <1>1, <1>2, <1>3 DEF TalkInv, Sessions, ToolsAreOwn, Remembered

\* A step keeps the invariant, revisions go forward and what is cancelled stays.
LEMMA StepInv ==
  ASSUME CallAssumption, ToolsInv, [Next]_vars
  PROVE  ToolsInv' /\ CancelledStays
<1>1. ASSUME UNCHANGED <<db, past>>
      PROVE  CancelledStays
  BY <1>1 DEF CancelledStays, db
<1>2. CASE UNCHANGED vars
  <2>1. UNCHANGED <<db, past, wire, sess>>
    BY <1>2 DEF vars, db
  <2>2. Serves
    BY <2>1, SameServes DEF ToolsInv, db, RowsInv, Tables
  <2>3. /\ sess' \in [Calls -> Session] /\ wire' \subseteq wire
        /\ \A c \in Calls : /\ sess'[c].view = sess[c].view /\ sess'[c].asked = sess[c].asked
                            /\ sess'[c].tools \subseteq sess[c].tools
    BY <2>1 DEF ToolsInv, TalkInv, Sessions
  <2> QED BY <1>1, <2>1, <2>2, <2>3, RowsStep
<1>3. ASSUME NEW c \in Calls, Ask(c)
      PROVE  ToolsInv' /\ CancelledStays
  BY <1>1, <1>3, AskTalks DEF Ask
<1>4. ASSUME NEW c \in Calls, Repeat(c)
      PROVE  ToolsInv' /\ CancelledStays
  <2>1. /\ sess[c].asked # None /\ sess' = [sess EXCEPT ![c].pc = "waiting"]
        /\ wire' = wire \cup {sess[c].asked} /\ UNCHANGED <<db, past>>
    BY <1>4 DEF Repeat
  <2>2. \A r \in wire' : r \in wire \/ (r \in Request /\ InHand(r))
    BY <2>1, SessionFact
  <2>3. ToolsInv'
    BY <2>1, <2>2, PcTalks
  <2> QED BY <1>1, <2>1, <2>3
<1>5. ASSUME NEW c \in Calls, GiveUp(c)
      PROVE  ToolsInv' /\ CancelledStays
  <2>1. /\ sess' = [sess EXCEPT ![c].pc = "refreshing"] /\ UNCHANGED <<db, past>>
        /\ \A r \in wire' : r \in wire
    BY <1>5 DEF GiveUp
  <2>2. ToolsInv'
    BY <2>1, PcTalks
  <2> QED BY <1>1, <2>1, <2>2
<1>6. ASSUME NEW c \in Calls, Refresh(c) \/ List(c)
      PROVE  ToolsInv' /\ CancelledStays
  BY <1>1, <1>6, RefreshTalks DEF Refresh, List
<1>7. ASSUME NEW c \in Calls, RefreshFails(c)
      PROVE  ToolsInv' /\ CancelledStays
  BY <1>1, <1>7, FailTalks DEF RefreshFails
<1>8. ASSUME NEW c \in Calls, Hangup(c)
      PROVE  ToolsInv' /\ CancelledStays
  BY <1>8, HangupTalks DEF Serves
<1>9. CASE Serve
  BY <1>9, ServeTalks DEF Serves
<1>10. CASE (\E i \in DOMAIN ops : Award(i)) \/ (\E w \in Window : Begin(w))
  BY <1>10, OutsideTalks DEF Serves
<1> QED BY <1>2, <1>3, <1>4, <1>5, <1>6, <1>7, <1>8, <1>9, <1>10 DEF Next

\* The tables, the sessions and the requests agree at every moment, in any
\* order of service: the invariant from which the rest follows.
THEOREM ToolsAgree ==
  ASSUME CallAssumption
  PROVE  Spec => []ToolsInv
<1>1. Init => ToolsInv
  BY InitTables, InitTalk DEF ToolsInv
<1>2. ToolsInv /\ [Next]_vars => ToolsInv'
  BY StepInv
<1> QED BY <1>1, <1>2, PTL DEF Spec

LEMMA TypesFollow ==
  ASSUME ToolsInv
  PROVE  TypeOK
<1>1. /\ ops \in Seq(OpRow) /\ mandates \in Seq(MandateRow) /\ changes \in Seq(ChangeRow)
      /\ calls \in [Calls -> CallRow] /\ sess \in [Calls -> Session]
      /\ receipts \in [Calls -> SUBSET (1 .. MaxCommands)] /\ past \subseteq Window
      /\ Len(mandates) \in Nat /\ Len(bookings) \in Nat /\ Len(ops) \in Nat
  BY DEF ToolsInv, RowsInv, Tables, TalkInv, Sessions
<1>2. ASSUME NEW i \in DOMAIN ops
      PROVE  /\ ops[i].details \in Details /\ ops[i].confirm \in BOOLEAN /\ ops[i].rev \in Nat \ {0}
             /\ ops[i].status \in {"collecting_details", "sourcing", "needs_follow_up",
                                   "booking_confirmed", "cancelled"}
             /\ ops[i].mandate \in 0..Len(mandates) /\ ops[i].booking \in 0..Len(bookings)
  <2>1. /\ ops[i] \in OpRow /\ ops[i].mandate \in Nat /\ ops[i].mandate <= Len(mandates)
        /\ ops[i].booking \in Nat /\ ops[i].booking <= Len(bookings)
    BY Row DEF ToolsInv
  <2> QED BY <1>1, <2>1 DEF OpRow
<1>3. \A i \in DOMAIN mandates : mandates[i].terms \in Terms
  <2>1. \A i \in DOMAIN mandates : mandates[i] \in MandateRow
    BY <1>1
  <2> QED BY <2>1 DEF MandateRow
<1>4. \A i \in DOMAIN changes : changes[i].status \in {"pending", "escalated", "applied", "rejected"}
  <2>1. \A i \in DOMAIN changes : changes[i] \in ChangeRow
    BY <1>1
  <2> QED BY <2>1 DEF ChangeRow
<1>5. ASSUME NEW c \in Calls
      PROVE  /\ calls[c].op \in 0..Len(ops) /\ calls[c].chosen \in 0..Len(bookings)
             /\ calls[c].last \in Result /\ receipts[c] \subseteq 1..MaxCommands
             /\ sess[c].pc \in {"connecting", "talking", "waiting", "refreshing", "closed"}
  <2>1. calls[c] \in CallRow /\ sess[c] \in Session /\ receipts[c] \in SUBSET (1 .. MaxCommands)
    BY <1>1
  <2>2. calls[c].op <= Len(ops) /\ calls[c].chosen <= Len(bookings)
    BY DEF ToolsInv, RowsInv, Pointers
  <2> QED BY <1>1, <2>1, <2>2 DEF CallRow, Session
<1> QED BY <1>1, <1>2, <1>3, <1>4, <1>5 DEF TypeOK

\* Rows, sessions and the pointers between them have their types, for any
\* calls, windows, details and number of commands.
THEOREM TypeCorrect ==
  ASSUME CallAssumption
  PROVE  Spec => []TypeOK
BY ToolsAgree, TypesFollow, PTL

\* The consent a mandate rests on is to the details, and to the terms it
\* inherits, that the client had been told: confirm_mandate compares the
\* revision shown with the row's, and equal revisions are equal details and
\* terms, however many calls edit the operation and however late the command
\* is served.
THEOREM ConsentStaysCurrent ==
  ASSUME CallAssumption
  PROVE  Spec => []ConsentIsCurrent
<1>1. ToolsInv => ConsentIsCurrent
  BY DEF ToolsInv, RowsInv
<1> QED BY <1>1, ToolsAgree, PTL

\* A call has one open change at most, what is booked was awarded under the
\* mandate in force and lies in a window it allows, and a change is of the booking
\* and under the mandate its agent was shown, whatever carriers propose, correct,
\* decline and give back between the client's own commands.
THEOREM ChangesStaySafe ==
  ASSUME CallAssumption
  PROVE  Spec => []ChangesAreSafe
<1>1. ASSUME ToolsInv
      PROVE  OneOpenChange
  <2>1. ASSUME NEW c \in Calls
        PROVE  Cardinality(OpenOf(c)) <= 1
    <3>1. \A i, j \in OpenOf(c) : i = j
      BY <1>1 DEF ToolsInv, RowsInv, ChangesAgree, OneIsOpen
    <3>2. CASE OpenOf(c) = {}
      BY <3>2, FS_EmptySet
    <3>3. CASE OpenOf(c) # {}
      <4>1. PICK i : i \in OpenOf(c)
        BY <3>3
      <4>2. OpenOf(c) = {i}
        BY <3>1, <4>1
      <4> QED BY <4>2, FS_Singleton
    <3> QED BY <3>2, <3>3
  <2> QED BY <2>1 DEF OneOpenChange, OpenOf, OpenStatus
<1>2. ToolsInv => ChangesAreSafe
  BY <1>1 DEF ToolsInv, RowsInv, ChangesAgree, ChangesAreSafe
<1> QED BY <1>2, ToolsAgree, PTL

\* No command, and no award, edits or revives a cancelled operation, however
\* late it is served or how often it is repeated.
THEOREM CancelledStaysFinal ==
  ASSUME CallAssumption
  PROVE  Spec => CancelledIsFinal
<1>1. ToolsInv /\ [Next]_vars =>
        [\A i \in DOMAIN ops : ops[i].status = "cancelled" => ops'[i] = ops[i]]_vars
  BY StepInv DEF CancelledStays
<1> QED BY <1>1, ToolsAgree, PTL DEF Spec, CancelledIsFinal
=============================================================================
