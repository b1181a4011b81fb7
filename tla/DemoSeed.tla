------------------------------- MODULE DemoSeed -------------------------------
(***************************************************************************)
(* The script that puts the demonstration into the ERP: a client contact,  *)
(* the providers, one operation with its mandate, a quote request per      *)
(* provider and the quotes of some of them.  Every statement is a          *)
(* transaction of its own, so a run that stops leaves what it has written, *)
(* and what a run has read may have changed when it writes: operators edit *)
(* the directory, the client confirms, sourcing moves the operation.       *)
(*                                                                         *)
(* Fixtures are numbered in the order of the script, rows of the two       *)
(* tables by their identifiers; a provider row called `f' bears the name   *)
(* of fixture f or the one the fixture had before.  The script is run by   *)
(* one person at a time.                                                   *)
(***************************************************************************)
EXTENDS Integers, FiniteSets

CONSTANTS
  Fixtures,      \* number of providers of the script
  Demo,          \* those with a quote request (all but the judge)
  Quoting,       \* those whose request is answered by a quote
  Phone, NoPhone,
  Malformed,     \* a caller id that is not in E.164 form
  Configs,       \* the caller ids runs are started with
  MaxContacts, MaxProviders, MaxMandates,   \* bounds on rows
  MaxRuns, MaxFaults, MaxEdits              \* bounds on runs, failures, other people's steps

Fixture == 1 .. Fixtures
SeedAssumption ==
  /\ Fixtures \in Nat \ {0} /\ Demo \subseteq Fixture
  /\ Quoting \subseteq Demo /\ Quoting # {}
  /\ NoPhone \notin Phone /\ Malformed \notin Phone
  /\ Configs \subseteq [0 .. Fixtures -> Phone \cup {Malformed}]
  /\ {MaxContacts, MaxProviders, MaxMandates} \subseteq Nat \ {0}
  /\ {MaxRuns, MaxFaults, MaxEdits} \subseteq Nat

VARIABLES
  contacts,   \* rows of contacts; the phone of a row not inserted is NoPhone
  providers,  \* rows of providers, with the seed key of their capabilities
  operation,  \* the row with the reference of the demonstration
  call,       \* whether the call of its mandate has been inserted
  mandates,   \* the versions of its mandate
  requests,   \* the requests with the stable keys of the script
  quotes,     \* the fixtures whose first quote has been inserted
  run,        \* the run in progress: where it is, and what it has read
  settled,    \* the caller ids of a completed run; the directory has not changed since
  alone,      \* nobody else has written since the run was started
  runs, faults, edits

tables == <<contacts, providers, operation, call, mandates, requests, quotes>>
counters == <<runs, faults, edits>>
vars == <<tables, run, settled, alone, counters>>

Client == 0
Stranger == -1     \* any name but those of the script
NoRow == [name |-> Stranger, key |-> 0, phone |-> NoPhone, active |-> FALSE]
Rows == [name : Stranger .. Fixtures, key : 0 .. Fixtures, phone : Phone \cup {NoPhone}, active : BOOLEAN]
Status == {"absent", "draft", "collecting_details", "sourcing", "quotes_received", "quote_selected",
           "booking_pending", "booking_confirmed", "notifications_sent", "needs_follow_up",
           "cancelled", "failed"}
Operations == [status : Status, contact : 0 .. MaxContacts, mandate : 0 .. MaxMandates,
               unconfirmed : BOOLEAN]
Requests == [provider : 0 .. MaxProviders, status : {"absent", "pending", "responded", "cancelled"}]
NoOperation == [status |-> "absent", contact |-> 0, mandate |-> 0, unconfirmed |-> FALSE]
NoRequest == [provider |-> 0, status |-> "absent"]
Points == {"idle", "load", "contact", "provider", "operation", "mandate", "call", "insertMandate",
           "collect", "attach", "findRequest", "insertRequest", "respond", "quote", "status",
           "done", "failed"}
Stopped == {"idle", "done", "failed"}

TypeOK ==
  /\ contacts \in [1 .. MaxContacts -> Rows] /\ providers \in [1 .. MaxProviders -> Rows]
  /\ operation \in Operations /\ call \in BOOLEAN /\ mandates \in 0 .. MaxMandates
  /\ requests \in [Fixture -> Requests] /\ quotes \subseteq Quoting
  /\ run \in [pc : Points, phones : Configs, unread : SUBSET {"contacts", "providers"},
              contacts : [1 .. MaxContacts -> Rows], providers : [1 .. MaxProviders -> Rows],
              contact : 0 .. MaxContacts, ids : [Fixture -> 0 .. MaxProviders], at : Fixture,
              operation : Operations, request : Requests]
  /\ settled \in SUBSET Configs /\ alone \in BOOLEAN
  /\ runs \in 0 .. MaxRuns /\ faults \in 0 .. MaxFaults /\ edits \in 0 .. MaxEdits

------------------------------------------------------------------------------
\* The rules of the database

Owners(table, phone) == {i \in DOMAIN table : table[i].phone = phone}
Free(table) == {i \in DOMAIN table : table[i].phone = NoPhone}
\* Unique in its own table, and in the other one by trigger.
PhoneAllowed(own, other, i, phone) == Owners(own, phone) \subseteq {i} /\ Owners(other, phone) = {}

Open == {"sourcing", "quotes_received", "quote_selected", "booking_pending", "booking_confirmed"}
Transitions ==
  [from \in Status |->
     CASE from = "draft" -> {"collecting_details", "cancelled"}
       [] from = "collecting_details" -> {"sourcing", "cancelled", "failed"}
       [] from = "sourcing" -> {"quotes_received", "needs_follow_up", "cancelled", "failed"}
       [] from = "quotes_received" -> {"quote_selected", "sourcing", "needs_follow_up", "cancelled", "failed"}
       [] from = "quote_selected" -> {"booking_pending", "sourcing", "needs_follow_up", "cancelled", "failed"}
       [] from = "booking_pending" -> {"booking_confirmed", "sourcing", "needs_follow_up", "cancelled", "failed"}
       [] from = "booking_confirmed" -> {"notifications_sent", "sourcing", "needs_follow_up", "cancelled", "failed"}
       [] from \in {"notifications_sent", "needs_follow_up"} -> {"sourcing", "cancelled", "failed"}
       [] OTHER -> {}]

TransitionAllowed(new) == new = operation.status \/ new \in Transitions[operation.status]

\* An inbound call of a client says what it is for, since calls are kept apart by flow.
CallAccepted(purpose) == purpose = "operation_management"

------------------------------------------------------------------------------
\* Other people: changes of the directory end what was settled

Others(ended) ==
  /\ edits < MaxEdits /\ edits' = edits + 1 /\ alone' = FALSE
  /\ settled' = IF ended THEN {} ELSE settled
  /\ UNCHANGED <<call, quotes, run, runs, faults>>

\* An operator adds a counterparty, or changes its name, number or activity.
EditContact(i, row) ==
  /\ Others(TRUE) /\ row.phone \in Phone /\ row.key = 0 /\ row.name \in {Stranger, Client}
  /\ PhoneAllowed(contacts, providers, i, row.phone) /\ contacts' = [contacts EXCEPT ![i] = row]
  /\ UNCHANGED <<providers, operation, mandates, requests>>

EditProvider(i, row) ==
  /\ Others(TRUE) /\ row.phone \in Phone /\ row.name # Client /\ row.key = providers[i].key
  /\ PhoneAllowed(providers, contacts, i, row.phone) /\ providers' = [providers EXCEPT ![i] = row]
  /\ UNCHANGED <<contacts, operation, mandates, requests>>

\* The client confirms the mandate, again after changing a detail.
ClientConfirms ==
  /\ Others(FALSE) /\ mandates < MaxMandates /\ operation.mandate = mandates
  /\ operation.mandate = 0 \/ operation.unconfirmed
  /\ "sourcing" \in Transitions[operation.status] \cup {operation.status}
  /\ mandates' = mandates + 1
  /\ operation' = [operation EXCEPT !.mandate = mandates + 1, !.unconfirmed = FALSE, !.status = "sourcing"]
  /\ UNCHANGED <<contacts, providers, requests>>

ClientChangesDetails ==
  /\ Others(FALSE) /\ operation.mandate # 0 /\ operation.status \notin {"cancelled", "failed"}
  /\ operation' = [operation EXCEPT !.unconfirmed = TRUE]
  /\ UNCHANGED <<contacts, providers, mandates, requests>>

\* Sourcing, booking or the client's cancellation move the operation.
OperationMoves(new) ==
  /\ Others(FALSE) /\ new \in Transitions[operation.status] \ {"collecting_details"}
  /\ new # "cancelled" => operation.mandate # 0
  /\ operation' = [operation EXCEPT !.status = new]
  /\ requests' = [f \in Fixture |-> IF new = "cancelled" /\ requests[f].status = "pending"
                                    THEN [requests[f] EXCEPT !.status = "cancelled"] ELSE requests[f]]
  /\ UNCHANGED <<contacts, providers, mandates>>

------------------------------------------------------------------------------
\* A run

Unread(phones) ==
  [pc |-> "load", phones |-> phones, unread |-> {"contacts", "providers"},
   contacts |-> [i \in 1 .. MaxContacts |-> NoRow], providers |-> [i \in 1 .. MaxProviders |-> NoRow],
   contact |-> 0, ids |-> [f \in Fixture |-> 0], at |-> 1, operation |-> NoOperation,
   request |-> NoRequest]
Ended(phones, pc) == [Unread(phones) EXCEPT !.pc = pc, !.unread = {}]

\* Before the schema kept flows apart, runs got further than the call: some
\* databases have their call, their mandate or a draft from then.
Init ==
  /\ providers = [i \in 1 .. MaxProviders |-> NoRow]
  /\ call \in BOOLEAN /\ mandates \in {0, 1} /\ (mandates = 1 => call)
  /\ \E phones \in Configs, status \in {"absent", "draft", "collecting_details"} :
       /\ phones[Client] \in Phone /\ (call => status # "absent")
       /\ contacts = [i \in 1 .. MaxContacts |->
                        IF i = 1 /\ status # "absent"
                        THEN [name |-> Client, key |-> 0, phone |-> phones[Client], active |-> TRUE] ELSE NoRow]
       /\ operation = [NoOperation EXCEPT !.status = status, !.contact = IF status = "absent" THEN 0 ELSE 1]
       /\ run = Ended(phones, "idle")
  /\ requests = [f \in Fixture |-> NoRequest] /\ quotes = {}
  /\ settled = {} /\ alone = TRUE /\ runs = 0 /\ faults = 0 /\ edits = 0

\* One caller id per fixture, each in E.164 form, before anything is read.
ValidCallerIds(phones) == \A f \in DOMAIN phones :
  phones[f] \in Phone /\ \A g \in DOMAIN phones : phones[g] = phones[f] => g = f

Start(phones) ==
  /\ run.pc \in Stopped /\ runs < MaxRuns /\ runs' = runs + 1
  /\ run' = IF ValidCallerIds(phones) THEN Unread(phones) ELSE Ended(phones, "failed")
  /\ settled' = settled \cap {phones} /\ alone' = TRUE
  /\ UNCHANGED <<tables, faults, edits>>

Quiet == UNCHANGED <<settled, alone, counters>>
Next_(pc) == run' = [run EXCEPT !.pc = pc]
\* The error is thrown to main; what has been written stays.
Throw == run' = Ended(run.phones, "failed") /\ UNCHANGED tables

\* The two lists are read at once, in either order.
Load(table) ==
  /\ run.pc = "load" /\ table \in run.unread
  /\ run' = [run EXCEPT !.unread = @ \ {table}, !.pc = IF run.unread = {table} THEN "contact" ELSE @,
               !.contacts = IF table = "contacts" THEN contacts ELSE @,
               !.providers = IF table = "providers" THEN providers ELSE @]
  /\ UNCHANGED tables /\ Quiet

ClientRow == [name |-> Client, key |-> 0, phone |-> run.phones[Client], active |-> TRUE]

UpsertContact ==
  LET phone == run.phones[Client]
      collides == \/ Owners(run.providers, phone) # {}
                  \/ \E i \in Owners(run.contacts, phone) : run.contacts[i].name # Client
      targets == IF Owners(contacts, phone) # {} THEN Owners(contacts, phone) ELSE Free(contacts)
  IN /\ run.pc = "contact" /\ Quiet
     /\ IF collides \/ Owners(providers, phone) # {} THEN Throw
        ELSE \E i \in targets :
               /\ contacts' = [contacts EXCEPT ![i] = ClientRow]
               /\ run' = [run EXCEPT !.pc = "provider", !.contact = i]
               /\ UNCHANGED <<providers, operation, call, mandates, requests, quotes>>

\* Mutant: a fixture is recognised by its number only.
CandidatesByPhone(f) == Owners(run.providers, run.phones[f])

\* The rows that were this fixture: by seed key, by name, by former name.
Candidates(f) == {i \in DOMAIN run.providers :
  run.providers[i].phone # NoPhone /\ (run.providers[i].key = f \/ run.providers[i].name = f)}

UpsertProvider ==
  LET f == run.at
      phone == run.phones[f]
      collides == \/ Owners(run.contacts, phone) # {}
                  \/ ~Owners(run.providers, phone) \subseteq Candidates(f)
                  \/ Cardinality(Candidates(f)) > 1
      targets == IF Candidates(f) # {} THEN Candidates(f) ELSE Free(providers)
  IN /\ run.pc = "provider" /\ Quiet
     /\ \/ collides /\ Throw
        \/ /\ ~collides
           /\ \E i \in targets :
                IF PhoneAllowed(providers, contacts, i, phone)
                THEN /\ providers' = [providers EXCEPT ![i] = [name |-> f, key |-> f, phone |-> phone, active |-> TRUE]]
                     /\ run' = IF f < Fixtures THEN [run EXCEPT !.ids[f] = i, !.at = f + 1]
                               ELSE [Ended(run.phones, "operation") EXCEPT
                                       !.contact = run.contact, !.ids = [run.ids EXCEPT ![f] = i]]
                     /\ UNCHANGED <<contacts, operation, call, mandates, requests, quotes>>
                ELSE Throw

EnsureOperation ==
  LET inserted == [NoOperation EXCEPT !.status = "collecting_details", !.contact = run.contact]
      found == IF operation.status # "absent" THEN operation ELSE inserted
  IN /\ run.pc = "operation" /\ Quiet
     /\ IF found.contact # run.contact THEN Throw
        ELSE /\ operation' = found /\ run' = [run EXCEPT !.pc = "mandate", !.operation = found]
             /\ UNCHANGED <<contacts, providers, call, mandates, requests, quotes>>

MandateLookup ==
  IF run.operation.mandate # 0 THEN "findRequest"
  ELSE IF mandates > 0 THEN "collect" ELSE IF call THEN "insertMandate" ELSE "call"

FindMandate == run.pc = "mandate" /\ Quiet /\ UNCHANGED tables /\ Next_(MandateLookup)

\* The row of the call names no purpose.
InsertCall ==
  /\ run.pc = "call" /\ Quiet
  /\ IF CallAccepted("none")
     THEN /\ call' = TRUE /\ Next_("insertMandate")
          /\ UNCHANGED <<contacts, providers, operation, mandates, requests, quotes>>
     ELSE Throw

InsertMandate ==
  /\ run.pc = "insertMandate" /\ Quiet
  /\ IF mandates = 0
     THEN /\ mandates' = 1 /\ Next_("collect")
          /\ UNCHANGED <<contacts, providers, operation, call, requests, quotes>>
     ELSE Throw

WriteOperation(row, pc) ==
  IF TransitionAllowed(row.status)
  THEN /\ operation' = row
       /\ run' = [run EXCEPT !.pc = pc, !.operation = [@ EXCEPT !.status = row.status, !.mandate = row.mandate]]
       /\ UNCHANGED <<contacts, providers, call, mandates, requests, quotes>>
  ELSE Throw

Collect ==
  /\ run.pc = "collect" /\ Quiet
  /\ IF run.operation.status = "draft"
     THEN WriteOperation([operation EXCEPT !.status = "collecting_details"], "attach")
     ELSE Next_("attach") /\ UNCHANGED tables

AttachedStatus == IF run.operation.status = "collecting_details" THEN "sourcing" ELSE run.operation.status

AttachMandate ==
  /\ run.pc = "attach" /\ Quiet
  /\ WriteOperation([operation EXCEPT !.mandate = 1, !.unconfirmed = FALSE, !.status = AttachedStatus],
                    "findRequest")

LastDemo == CHOOSE f \in Demo : \A g \in Demo : g <= f
\* The next fixture with a request, or the end.
Advance(f) ==
  IF f = LastDemo THEN Next_("status")
  ELSE run' = [run EXCEPT !.pc = "findRequest",
                 !.at = CHOOSE g \in Demo : g > f /\ \A k \in Demo : k > f => g <= k]

FindRequest ==
  LET f == run.at IN
  /\ run.pc = "findRequest" /\ Quiet /\ UNCHANGED tables
  /\ IF f \notin Demo THEN Advance(f)
     ELSE IF requests[f].status = "absent"
     THEN run' = [run EXCEPT !.pc = "insertRequest", !.request = NoRequest]
     ELSE IF requests[f].provider # run.ids[f] THEN Throw
     ELSE IF f \in Quoting
     THEN run' = [run EXCEPT !.pc = "respond", !.request = requests[f]]
     ELSE Advance(f)

InsertRequest ==
  LET f == run.at IN
  /\ run.pc = "insertRequest" /\ Quiet
  /\ IF operation.mandate = 0 THEN Throw   \* bind_quote_request_mandate
     ELSE /\ requests' = [requests EXCEPT ![f] =
               [provider |-> run.ids[f], status |-> IF f \in Quoting THEN "responded" ELSE "pending"]]
          /\ IF f \in Quoting THEN Next_("respond") ELSE Advance(f)
          /\ UNCHANGED <<contacts, providers, operation, call, mandates, quotes>>

Respond ==
  LET f == run.at IN
  /\ run.pc = "respond" /\ Quiet /\ Next_("quote")
  /\ requests' = IF run.request.status = "responded" THEN requests
                 ELSE [requests EXCEPT ![f].status = "responded"]
  /\ UNCHANGED <<contacts, providers, operation, call, mandates, quotes>>

WithQuote(f) == quotes \cup {f}

EnsureQuote ==
  /\ run.pc = "quote" /\ Quiet /\ quotes' = WithQuote(run.at) /\ Advance(run.at)
  /\ UNCHANGED <<contacts, providers, operation, call, mandates, requests>>

SetStatus ==
  LET moves == Quoting # {} /\ run.operation.status = "sourcing"
      new == IF moves THEN "quotes_received" ELSE operation.status
  IN /\ run.pc = "status" /\ UNCHANGED <<alone, counters>>
     /\ IF TransitionAllowed(new)
        THEN /\ operation' = [operation EXCEPT !.status = new]
             /\ run' = [Ended(run.phones, "done") EXCEPT !.ids = run.ids]
             /\ settled' = IF alone THEN {run.phones} ELSE settled
             /\ UNCHANGED <<contacts, providers, call, mandates, requests, quotes>>
        ELSE Throw /\ UNCHANGED settled

\* The process is killed, or a statement fails.
Crash ==
  /\ run.pc \notin Stopped /\ faults < MaxFaults /\ faults' = faults + 1
  /\ Throw /\ UNCHANGED <<settled, alone, runs, edits>>

Step ==
  \/ \E t \in {"contacts", "providers"} : Load(t)
  \/ UpsertContact \/ UpsertProvider \/ EnsureOperation \/ FindMandate \/ InsertCall \/ InsertMandate
  \/ Collect \/ AttachMandate \/ FindRequest \/ InsertRequest \/ Respond \/ EnsureQuote \/ SetStatus

Environment ==
  \/ \E i \in 1 .. MaxContacts, row \in Rows : EditContact(i, row)
  \/ \E i \in 1 .. MaxProviders, row \in Rows : EditProvider(i, row)
  \/ ClientConfirms \/ ClientChangesDetails \/ \E new \in Status : OperationMoves(new)

Next == Step \/ Environment \/ Crash \/ \E phones \in Configs : Start(phones)
Spec == Init /\ [][Next]_vars
------------------------------------------------------------------------------
\* Properties

SeedStep == run'.pc # run.pc \/ run'.at # run.at

\* Every fixture has a row of its own.
OwnRows == \A f \in Fixture : \E i \in DOMAIN providers : providers[i].key = f

\* Seeding again with the caller ids of a completed run changes nothing, also when
\* the second run is stopped half way, and when the client or the sourcing have
\* moved the operation in between; only an operation that is being sourced again
\* goes back to the quotes it has.  The script looks every row up by a stable key
\* and writes the operation on the way up only.  Two fixtures that share a row
\* are left out: then a row is written twice.
ReseedChangesNothing ==
  settled # {} /\ settled' = settled /\ OwnRows /\ SeedStep =>
    /\ UNCHANGED <<contacts, providers, call, mandates, requests, quotes>>
    /\ operation' = IF operation.status = "sourcing" THEN [operation EXCEPT !.status = operation'.status]
                    ELSE operation

\* However many runs have stopped half way, there is never a second row for a
\* provider of the script (upsertProviders).
OneRowPerFixture ==
  \A i, j \in DOMAIN providers :
    providers[i].key # 0 /\ providers[i].key = providers[j].key => i = j

\* A run nobody disturbs and that completes leaves the whole demonstration,
\* whatever earlier runs had left unfinished: the people with this run's caller
\* ids, the operation with its mandate, a request per provider and its quotes;
\* provided it has not taken one row for two fixtures.
CompletedIsWhole ==
  run.pc = "done" /\ alone /\ Cardinality({run.ids[f] : f \in Fixture}) = Fixtures =>
    /\ \E i \in DOMAIN contacts : contacts[i] = ClientRow /\ operation.contact = i
    /\ \A f \in Fixture : \E i \in DOMAIN providers :
         /\ providers[i].key = f /\ providers[i].phone = run.phones[f] /\ providers[i].active
         /\ f \in Demo => requests[f].provider = i
    /\ operation.mandate # 0 /\ operation.status # "sourcing"
    /\ quotes = Quoting

\* A run that finds the operation with a current mandate never replaces the
\* mandate nor what the client has left to confirm, and never moves the
\* operation back, however far it has come since the run read it
\* (ensureMandate, ensureQuoteScenarios; validate_operation).
Rank == [s \in Status |-> CASE s = "sourcing" -> 1 [] s = "quotes_received" -> 2 [] OTHER -> 3]
ProgressKept ==
  run.pc \in {"mandate", "findRequest", "insertRequest", "respond", "quote", "status"} /\ SeedStep =>
    /\ operation'.mandate = operation.mandate /\ operation'.unconfirmed = operation.unconfirmed
    /\ Rank[operation'.status] >= Rank[operation.status]

\* The script may be stopped and run again at any time, beside other people's work.
SeedIsSafe ==
  [][ReseedChangesNothing /\ OneRowPerFixture' /\ CompletedIsWhole' /\ ProgressKept]_vars
==============================================================================
