--------------------------- MODULE OperatorConsole ---------------------------
(***************************************************************************)
(* What operators change from the dashboard: they correct an operation,    *)
(* close an escalation, and add or edit contacts, providers and the people *)
(* calls are handed to. Each request is a series of separate statements on *)
(* the database, select, update, event, audit row, between which other     *)
(* browsers and calls write too, and any of which may fail.                *)
(*                                                                         *)
(* The state `updated_at` of a row is a version that every update bumps.   *)
(* A browser sends it back as `expectedUpdatedAt`.                         *)
(***************************************************************************)
EXTENDS Integers, Functions

CONSTANTS
  Browsers,
  Fields, Values,  \* what a correction may change, and to what
  Notes,           \* the one field a form may clear
  Entries,         \* directory rows there may ever be
  Kind,            \* the table of each: contacts, providers or recipients
  Phones,
  Pages,           \* the forms browsers use in an instance
  MaxVersion, MaxFaults

Blank == "blank"
Counterparties == {"contacts", "providers"}
OP == "operation"
ESC == "escalation"
Open == {"started", "supervisor_joined"}

ConsoleAssumption ==
  /\ Notes \in Fields /\ Values # {} /\ Blank \notin Values
  /\ Kind \in [Entries -> {"contacts", "providers", "recipients"}]
  /\ Entries \cap {OP, ESC, "shut"} = {} /\ Phones # {}
  /\ Pages \subseteq {"correction", "directory", "resolution"}
  /\ MaxVersion \in Nat \ {0} /\ MaxFaults \in Nat

VARIABLES
  op,      \* the operations row
  dir,     \* rows of the directory, version 0 before they are inserted
  esc,     \* status of the escalation
  form,    \* each browser's correction form, on a page that refreshes
  editor,  \* each browser's directory sheet
  req,     \* each browser's request and the server's progress with it
  events,  \* events of the operation written by the console
  audit,   \* operator_actions, by subject
  writes,  \* history: the committed updates and inserts, by subject
  faults

vars == <<op, dir, esc, form, editor, req, events, audit, writes, faults>>

Text == [Fields -> Values \cup {Blank}]
Version == 0 .. MaxVersion
DirRow == [phone : Phones, active : BOOLEAN, version : Version]
Subjects == Entries \cup {OP, ESC}
\* Rows that are not there have some phone; so has a sheet that is shut.
NoPhone == CHOOSE p \in Phones : TRUE
Shut == [on |-> "shut", row |-> [phone |-> NoPhone, active |-> FALSE, version |-> 0]]
Idle == [pc |-> "idle", kind |-> "none", answer |-> "none"]

\* Contacts and providers share their phones, recipients have their own.
SamePhones(x, e) == Kind[x] = Kind[e] \/ {Kind[x], Kind[e]} \subseteq Counterparties
Taken(rows, e, p) ==
  \E x \in Entries \ {e} : rows[x].version > 0 /\ rows[x].phone = p /\ SamePhones(x, e)

TypeOK ==
  /\ op \in [text : Text, mandated : BOOLEAN, closed : BOOLEAN, version : Version]
  /\ dir \in [Entries -> DirRow] /\ esc \in Open \cup {"resolved"}
  /\ form \in [Browsers -> [version : Version, typed : Text, edited : SUBSET Fields, shown : BOOLEAN]]
  /\ editor \in [Browsers -> [on : Entries \cup {"shut"}, row : DirRow]]
  /\ \A b \in Browsers :
       /\ req[b].pc \in {"idle", "read", "write", "event", "audit"}
       /\ req[b].kind \in {"none", "correct", "resolve", "update", "create"}
       /\ req[b].answer \in {"none", "saved", "refused", "failed"}
  /\ \A row \in events : row.on \in {OP, ESC} /\ row.by \in Browsers
  /\ DOMAIN audit = Subjects /\ DOMAIN writes = Subjects
  /\ faults \in 0 .. MaxFaults

Init ==
  /\ op = [text |-> [f \in Fields |-> Blank], mandated |-> FALSE, closed |-> FALSE, version |-> 1]
  /\ esc = "started"
  /\ \E seeded \in SUBSET Entries, p \in [Entries -> Phones] :
       /\ \A e \in Entries : e \notin seeded => p[e] = NoPhone
       /\ dir = [e \in Entries |-> [phone |-> p[e], active |-> e \in seeded,
                                    version |-> IF e \in seeded THEN 1 ELSE 0]]
       /\ \A e \in seeded : ~Taken(dir, e, p[e])
  /\ form = [b \in Browsers |-> [version |-> 1, typed |-> op.text, edited |-> {}, shown |-> TRUE]]
  /\ editor = [b \in Browsers |-> Shut]
  /\ req = [b \in Browsers |-> Idle]
  /\ events = {} /\ faults = 0
  /\ audit = [s \in Subjects |-> {}] /\ writes = [s \in Subjects |-> {}]

-----------------------------------------------------------------------------
(* A request: progress, failure, answer.                                   *)

At(b, kind, pc) == req[b].kind = kind /\ req[b].pc = pc
Answer(b, a) == req' = [req EXCEPT ![b] = [Idle EXCEPT !.answer = a]]
Send(b, r) == req[b].pc = "idle" /\ req' = [req EXCEPT ![b] = r]

\* A statement that took effect: the next one, or the end of the request.
\* Its response may be lost, which ends the request as a failure.
Done(b, next) ==
  \/ next = "answer" /\ Answer(b, "saved") /\ UNCHANGED faults
  \/ next # "answer" /\ req' = [req EXCEPT ![b].pc = next] /\ UNCHANGED faults
  \/ faults < MaxFaults /\ faults' = faults + 1 /\ Answer(b, "failed")

\* A statement fails, or the process stops before it.
RequestFails(b) ==
  /\ req[b].pc # "idle" /\ faults < MaxFaults
  /\ faults' = faults + 1 /\ Answer(b, "failed")
  /\ UNCHANGED <<op, dir, esc, form, editor, events, audit, writes>>

Wrote(s, row) == writes' = [writes EXCEPT ![s] = @ \cup {row}]

\* The last statement of every request.
recordOperatorAction(b, s, row) ==
  /\ audit' = [audit EXCEPT ![s] = @ \cup {row}]
  /\ Done(b, "answer")
  /\ UNCHANGED <<op, dir, esc, events, writes>>

-----------------------------------------------------------------------------
(* Corrections of an operation.                                            *)

\* The page is loaded: a new form over the values of the record, unless the
\* record shows a mandate.
OpenPage(b) ==
  /\ form' = [form EXCEPT ![b] =
       [version |-> op.version, typed |-> op.text, edited |-> {}, shown |-> ~op.mandated]]
  /\ form' # form
  /\ UNCHANGED <<op, dir, esc, editor, req, events, audit, writes, faults>>

\* A live update: the page reads the record again under the same form. Inputs
\* that were edited keep their text; the others follow their default value
\* only if the browser still takes them as untouched.
Refresh(b) ==
  /\ form[b].version # op.version
  /\ \E follow \in BOOLEAN :
       LET moved == IF follow THEN Fields \ form[b].edited ELSE {} IN
       form' = [form EXCEPT ![b] =
         [version |-> op.version, edited |-> @.edited, shown |-> ~op.mandated,
          typed |-> [f \in Fields |-> IF f \in moved THEN op.text[f] ELSE @.typed[f]]]]
  /\ UNCHANGED <<op, dir, esc, editor, req, events, audit, writes, faults>>

Edit(b, f, v) ==
  /\ f \notin form[b].edited
  /\ form' = [form EXCEPT ![b].typed[f] = v, ![b].edited = @ \cup {f}]
  /\ UNCHANGED <<op, dir, esc, editor, req, events, audit, writes, faults>>

\* All inputs are sent, edited or not, the empty ones left out.
Sent(typed) == Restrict(typed, {f \in Fields : typed[f] # Blank \/ f = Notes})

SubmitCorrection(b) ==
  /\ "correction" \in Pages /\ form[b].shown
  /\ Send(b, [kind |-> "correct", pc |-> "read", answer |-> "none", expected |-> form[b].version,
              sent |-> Sent(form[b].typed), before |-> op.text])
  /\ UNCHANGED <<op, dir, esc, form, editor, events, audit, writes, faults>>

Changes(sent, text) == {f \in DOMAIN sent : sent[f] # text[f]}
Correctable(b) == ~op.mandated /\ ~op.closed /\ op.version = req[b].expected
Unchanged(b) == op.version = req[b].expected

CorrectRead(b) ==
  /\ At(b, "correct", "read")
  /\ IF ~Correctable(b) THEN Answer(b, "refused")
     ELSE IF Changes(req[b].sent, op.text) = {} THEN Answer(b, "saved")
     ELSE req' = [req EXCEPT ![b].pc = "write", ![b].before = op.text]
  /\ UNCHANGED <<op, dir, esc, form, editor, events, audit, writes, faults>>

\* Bug: the row is read again for its snapshot.
CorrectionOfNow(b) ==
  LET fs == Changes(req[b].sent, req[b].before) IN
  [by |-> b, at |-> req[b].expected, before |-> Restrict(op.text, fs),
   after |-> Restrict(req[b].sent, fs)]

\* What the request takes the change to be, from the row it selected.
Correction(b) ==
  LET fs == Changes(req[b].sent, req[b].before) IN
  [by |-> b, at |-> req[b].expected, before |-> Restrict(req[b].before, fs),
   after |-> Restrict(req[b].sent, fs)]

CorrectWrite(b) ==
  LET row == Correction(b)
      text == [f \in Fields |-> IF f \in DOMAIN row.after THEN row.after[f] ELSE op.text[f]]
  IN
  /\ At(b, "correct", "write") /\ op.version < MaxVersion
  /\ IF ~Unchanged(b)
     THEN Answer(b, "refused") /\ UNCHANGED <<op, writes, faults>>
     ELSE /\ op' = [op EXCEPT !.text = text, !.version = @ + 1]
          /\ Wrote(OP, [by |-> b, at |-> op.version, after |-> row.after, was |-> op,
                        before |-> Restrict(op.text, DOMAIN row.after)])
          /\ Done(b, "event")
  /\ UNCHANGED <<dir, esc, form, editor, events, audit>>

CorrectEvent(b) ==
  /\ At(b, "correct", "event")
  /\ events' = events \cup {[on |-> OP, by |-> b, at |-> req[b].expected]}
  /\ Done(b, "audit")
  /\ UNCHANGED <<op, dir, esc, form, editor, audit, writes>>

CorrectAudit(b) ==
  At(b, "correct", "audit") /\ recordOperatorAction(b, OP, Correction(b)) /\ UNCHANGED <<form, editor>>

\* Calls change the same row: a client adds a detail, authorizes or cancels.
CallWrites ==
  /\ "correction" \in Pages /\ op.version < MaxVersion /\ ~op.closed
  /\ \/ \E f \in Fields, v \in Values : op.text[f] # v /\ op' = [op EXCEPT !.text[f] = v, !.version = @ + 1]
     \/ op' = [op EXCEPT !.mandated = TRUE, !.version = @ + 1]
     \/ op' = [op EXCEPT !.closed = TRUE, !.version = @ + 1]
  /\ UNCHANGED <<dir, esc, form, editor, req, events, audit, writes, faults>>

-----------------------------------------------------------------------------
(* Escalations.                                                            *)

SubmitResolution(b) ==
  /\ "resolution" \in Pages
  /\ Send(b, [kind |-> "resolve", pc |-> "read", answer |-> "none", before |-> esc])
  /\ UNCHANGED <<op, dir, esc, form, editor, events, audit, writes, faults>>

ResolveRead(b) ==
  /\ At(b, "resolve", "read")
  /\ IF esc \notin Open THEN Answer(b, "refused")
     ELSE req' = [req EXCEPT ![b].pc = "write", ![b].before = esc]
  /\ UNCHANGED <<op, dir, esc, form, editor, events, audit, writes, faults>>

Resolvable == esc \in Open

ResolveWrite(b) ==
  /\ At(b, "resolve", "write")
  /\ IF ~Resolvable THEN Answer(b, "refused") /\ UNCHANGED <<esc, writes, faults>>
     ELSE /\ esc' = "resolved"
          /\ Wrote(ESC, [by |-> b, before |-> esc])
          /\ Done(b, "event")
  /\ UNCHANGED <<op, dir, form, editor, events, audit>>

ResolveEvent(b) ==
  /\ At(b, "resolve", "event")
  /\ events' = events \cup {[on |-> ESC, by |-> b, at |-> 0]}
  /\ Done(b, "audit")
  /\ UNCHANGED <<op, dir, esc, form, editor, audit, writes>>

ResolveAudit(b) ==
  /\ At(b, "resolve", "audit")
  /\ recordOperatorAction(b, ESC, [by |-> b, before |-> req[b].before])
  /\ UNCHANGED <<form, editor>>

\* The caller withdraws the escalation, in one transaction.
CallerCancels ==
  /\ "resolution" \in Pages /\ esc = "started" /\ esc' = "resolved"
  /\ UNCHANGED <<op, dir, form, editor, req, events, audit, writes, faults>>

-----------------------------------------------------------------------------
(* The directory.                                                          *)

\* A sheet keeps the row it was opened on, whatever the page reads later.
openEditor(b, e) ==
  /\ "directory" \in Pages /\ req[b].pc = "idle" /\ dir[e].version > 0
  /\ editor' = [editor EXCEPT ![b] = [on |-> e, row |-> dir[e]]]
  /\ editor' # editor
  /\ UNCHANGED <<op, dir, esc, form, req, events, audit, writes, faults>>

SubmitNew(b, kinds) ==
  \E p \in Phones, e \in Entries :
    /\ Kind[e] \in kinds /\ dir[e].version = 0
    /\ Send(b, [kind |-> "create", pc |-> "read", answer |-> "none", on |-> e, phone |-> p])

\* A request names the fields it changes.
Change(row) == [field : {"phone"}, to : Phones] \cup [field : {"active"}, to : {~row.active}]
Changed(row, change) ==
  IF change.field = "phone" THEN [row EXCEPT !.phone = change.to] ELSE [row EXCEPT !.active = change.to]

SubmitChange(b, kinds) ==
  LET e == editor[b].on  row == editor[b].row IN
  /\ e \in Entries /\ Kind[e] \in kinds
  /\ \E change \in Change(row) :
       Send(b, [kind |-> "update", pc |-> "read", answer |-> "none", on |-> e, shown |-> row,
                change |-> change, before |-> row])

SubmitEntry(b) ==
  /\ "directory" \in Pages
  /\ SubmitNew(b, Counterparties) \/ SubmitChange(b, Counterparties)
  /\ UNCHANGED <<op, dir, esc, form, editor, events, audit, writes, faults>>

SubmitRecipient(b) ==
  /\ "directory" \in Pages
  /\ SubmitNew(b, {"recipients"}) \/ SubmitChange(b, {"recipients"})
  /\ UNCHANGED <<op, dir, esc, form, editor, events, audit, writes, faults>>

UpdateRead(b) ==
  /\ At(b, "update", "read")
  /\ IF dir[req[b].on].version # req[b].shown.version THEN Answer(b, "refused")
     ELSE req' = [req EXCEPT ![b].pc = "write", ![b].before = dir[req[b].on]]
  /\ UNCHANGED <<op, dir, esc, form, editor, events, audit, writes, faults>>

SameVersion(b) == dir[req[b].on].version = req[b].shown.version

UpdateWrite(b) ==
  LET e == req[b].on
      after == [Changed(dir[e], req[b].change) EXCEPT !.version = @ + 1]
  IN
  /\ At(b, "update", "write") /\ dir[e].version < MaxVersion
  /\ IF ~SameVersion(b) \/ Taken(dir, e, after.phone)
     THEN Answer(b, "refused") /\ UNCHANGED <<dir, writes, faults>>
     ELSE /\ dir' = [dir EXCEPT ![e] = after]
          /\ Wrote(e, [by |-> b, shown |-> req[b].shown, before |-> dir[e], after |-> after])
          /\ Done(b, "audit")
  /\ UNCHANGED <<op, esc, form, editor, events, audit>>

CreateWrite(b) ==
  /\ At(b, "create", "read")
  /\ LET e == req[b].on
         after == [phone |-> req[b].phone, active |-> TRUE, version |-> 1]
     IN /\ dir[e].version = 0
        /\ IF Taken(dir, e, req[b].phone)
           THEN Answer(b, "refused") /\ UNCHANGED <<dir, writes, faults>>
           ELSE /\ dir' = [dir EXCEPT ![e] = after]
                /\ Wrote(e, [by |-> b, shown |-> dir[e], before |-> dir[e], after |-> after])
                /\ Done(b, "audit")
  /\ UNCHANGED <<op, esc, form, editor, events, audit>>

\* The row the update returned, and the snapshots the audit row keeps.
Snapshot(row) == [phone |-> row.phone, active |-> row.active]
DirAction(b) ==
  IF req[b].kind = "create" THEN "created"
  ELSE IF req[b].before.active /\ ~Changed(req[b].before, req[b].change).active THEN "deactivated"
  ELSE "updated"

EntryAudit(b) ==
  /\ req[b].kind \in {"update", "create"} /\ req[b].pc = "audit"
  /\ LET e == req[b].on
         created == req[b].kind = "create"
     IN recordOperatorAction(b, e,
          [by |-> b, action |-> DirAction(b),
           at |-> IF created THEN 0 ELSE req[b].before.version,
           after |-> IF created THEN [phone |-> req[b].phone, active |-> TRUE]
                     ELSE Snapshot(Changed(req[b].before, req[b].change))])
  /\ editor' = IF req'[b].answer = "saved" THEN [editor EXCEPT ![b] = Shut] ELSE editor
  /\ UNCHANGED form

Browse(b) ==
  \/ /\ "correction" \in Pages
     /\ OpenPage(b) \/ Refresh(b) \/ \E f \in Fields, v \in Values \cup {Blank} : Edit(b, f, v)
  \/ SubmitCorrection(b) \/ SubmitResolution(b) \/ SubmitEntry(b) \/ SubmitRecipient(b)
  \/ \E e \in Entries : openEditor(b, e)

ServeCorrection(b) == CorrectRead(b) \/ CorrectWrite(b) \/ CorrectEvent(b) \/ CorrectAudit(b)
ServeResolution(b) == ResolveRead(b) \/ ResolveWrite(b) \/ ResolveEvent(b) \/ ResolveAudit(b)
ServeEntry(b) == UpdateRead(b) \/ UpdateWrite(b) \/ CreateWrite(b) \/ EntryAudit(b)
Serve(b) == ServeCorrection(b) \/ ServeResolution(b) \/ ServeEntry(b) \/ RequestFails(b)

Next == CallWrites \/ CallerCancels \/ \E b \in Browsers : Browse(b) \/ Serve(b)
Spec == Init /\ [][Next]_vars

-----------------------------------------------------------------------------
(* Properties.                                                             *)

\* An operator who edits a directory entry overwrites the row the sheet
\* showed and no later one, though other browsers save in between.
SavesWhatWasShown ==
  \A e \in Entries : \A w \in writes[e] : w.before = w.shown

\* The audit row and the events of a request tell what its update replaced,
\* though the values are those of an earlier select: each stands for one
\* committed correction, with the values that were there.
AuditIsExact ==
  /\ \A row \in audit[OP] : \E w \in writes[OP] :
       row.by = w.by /\ row.at = w.at /\ row.before = w.before /\ row.after = w.after
  /\ \A row \in audit[ESC] : \E w \in writes[ESC] : row.by = w.by /\ row.before = w.before
  /\ \A x \in events : \E w \in writes[x.on] : x.by = w.by

\* The same of directory entries: snapshot and action of an audit row are
\* those of the change that was committed at that version.
DirectoryAuditIsExact ==
  \A e \in Entries : \A row \in audit[e] : \E w \in writes[e] :
    /\ row.by = w.by /\ row.at = w.before.version
    /\ row.after = Snapshot(w.after)
    /\ (row.action = "deactivated") <=> (w.before.active /\ ~w.after.active)

\* A correction never lands on an operation a client has authorized, or that
\* was closed, not even between the two statements of the correction; and an
\* escalation two operators saw open is closed by one of them.
NothingIsOverridden ==
  /\ \A w \in writes[OP] : ~w.was.mandated /\ ~w.was.closed
  /\ \A v, w \in writes[ESC] : v = w

\* What operators do to the records: nobody overwrites what another wrote
\* unseen, and the audit trail says no more than what was done.
ConsoleIsTrue ==
  SavesWhatWasShown /\ AuditIsExact /\ DirectoryAuditIsExact /\ NothingIsOverridden
=============================================================================
