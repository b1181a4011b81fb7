------------------------------ MODULE MCRecords ------------------------------
(***************************************************************************)
(* The records and those who read them, for TLC: the outbox                *)
(* (MessageOutbox), the disposal of evidence (EvidenceRetention), the      *)
(* pages made of it (DashboardViews), the way to them (DashboardAccess)    *)
(* and the demonstration seed (DemoSeed), some under several bounds.  They *)
(* share no state here, so that what holds of one does not depend on the   *)
(* others: in a behaviour one of them moves and the others stay as they    *)
(* began.                                                                  *)
(***************************************************************************)
EXTENDS MessageOutbox, TLC

CONSTANTS p1, p2, c1, r1, r2, left, right, alice, bob, carol,
          NoPhone, Malformed

VARIABLES
  moving,
  calls, order, text, inserts, spoken, recs, audio, callbacks, worker, disposalFaults,
  now, begun, events, segments, evidence, record, ledger, atLatest,
  jar, sessions, closed, stale, accessFaults, tab,
  contacts, providers, demo, mandateCall, mandates, requests, quotes, run, settled, alone,
  runs, seedFaults, edits

notices == vars
disposal == <<calls, order, text, inserts, spoken, recs, audio, callbacks, worker, disposalFaults>>
views == <<now, begun, events, segments, evidence, record, ledger, atLatest>>
access == <<jar, sessions, closed, stale, accessFaults, tab>>
seeding == <<contacts, providers, demo, mandateCall, mandates, requests, quotes, run, settled,
             alone, runs, seedFaults, edits>>
everything == <<notices, disposal, views, access, seeding, moving>>

\* The email worker in preview mode, with a second attempt.
Mail == INSTANCE MessageOutbox WITH Channel <- "email", Mode <- "preview", RetryLimit <- 2

\* Two recordings of one call, two workers.
SameOwner == [r \in {r1, r2} |-> c1]
Disposal == INSTANCE EvidenceRetention WITH
  Calls <- {c1}, Recordings <- {r1, r2}, Processes <- {p1, p2}, Owner <- SameOwner, Stuck <- {},
  Batch <- 1, MaxSegments <- 0, MaxFaults <- 1, proc <- worker, faults <- disposalFaults

\* Pages of one row; three rows beside each other; the trace.
Pages == INSTANCE DashboardViews WITH
  Calls <- {1}, Rows <- {1, 2}, PageSize <- 1, Grain <- 2, Unit <- 4, Window <- 1,
  Types <- {"spoken"}, Views <- {"evidence"}, MaxTime <- 2, calls <- begun
Matches == INSTANCE DashboardViews WITH
  Calls <- {1}, Rows <- {1, 2, 3}, PageSize <- 4, Grain <- 1, Unit <- 4, Window <- 0,
  Types <- {"spoken"}, Views <- {"evidence"}, MaxTime <- 1, calls <- begun
Trace == INSTANCE DashboardViews WITH
  Calls <- {1}, Rows <- {1}, PageSize <- 2, Grain <- 2, Unit <- 2, Window <- 1,
  Types <- {"lifecycle", "state", "spoken"}, Views <- {"record"}, MaxTime <- 2, calls <- begun

\* One tab with two sessions, or two tabs that share one.
OneTab == INSTANCE DashboardAccess WITH
  Tabs <- {left}, MaxSessions <- 2, MaxRefreshes <- 2, MaxFaults <- 2, MaxHops <- 12,
  faults <- accessFaults
TwoTabs == INSTANCE DashboardAccess WITH
  Tabs <- {left, right}, MaxSessions <- 1, MaxRefreshes <- 1, MaxFaults <- 0, MaxHops <- 8,
  faults <- accessFaults

\* The caller ids of the runs, and those of a run that repeats one.
Usual == 0 :> alice @@ 1 :> bob @@ 2 :> carol
Twice == 0 :> alice @@ 1 :> bob @@ 2 :> bob
Seeding == INSTANCE DemoSeed WITH
  Fixtures <- 2, Demo <- {1, 2}, Quoting <- {1}, Phone <- {alice, bob, carol},
  Configs <- {Usual, Twice}, MaxContacts <- 1, MaxProviders <- 2, MaxMandates <- 2,
  MaxRuns <- 2, MaxFaults <- 1, MaxEdits <- 1,
  operation <- demo, call <- mandateCall, faults <- seedFaults

ASSUME /\ Disposal!RetentionAssumption
       /\ Pages!ViewsAssumption /\ Matches!ViewsAssumption /\ Trace!ViewsAssumption
       /\ OneTab!AccessBounds /\ TwoTabs!AccessBounds
       /\ Seeding!SeedAssumption

Begin ==
  /\ moving \in {"notices", "mail", "disposal", "pages", "matches", "trace",
                 "one tab", "two tabs", "seeding"}
  /\ IF moving = "mail" THEN Mail!Init ELSE Init
  /\ Disposal!Init /\ Pages!Init
  /\ IF moving = "one tab" THEN OneTab!Init ELSE TwoTabs!Init
  /\ Seeding!Init
  /\ moving # "seeding" => demo.status = "absent" /\ mandates = 0 /\ run.phones = Usual

Step ==
  \/ moving = "notices" /\ Next /\ UNCHANGED <<disposal, views, access, seeding, moving>>
  \/ moving = "mail" /\ Mail!Next /\ UNCHANGED <<disposal, views, access, seeding, moving>>
  \/ moving = "disposal" /\ Disposal!Next /\ UNCHANGED <<notices, views, access, seeding, moving>>
  \/ moving = "pages" /\ Pages!Next /\ UNCHANGED <<notices, disposal, access, seeding, moving>>
  \/ moving = "matches" /\ Matches!Next /\ UNCHANGED <<notices, disposal, access, seeding, moving>>
  \/ moving = "trace" /\ Trace!Next /\ UNCHANGED <<notices, disposal, access, seeding, moving>>
  \/ moving = "one tab" /\ OneTab!Next /\ UNCHANGED <<notices, disposal, views, seeding, moving>>
  \/ moving = "two tabs" /\ TwoTabs!Next /\ UNCHANGED <<notices, disposal, views, seeding, moving>>
  \/ moving = "seeding" /\ Seeding!Next /\ UNCHANGED <<notices, disposal, views, access, moving>>

SideBySide == Begin /\ [][Step]_everything

\* Servers are alike.
Alike == Permutations({p1, p2})

-----------------------------------------------------------------------------
\* The component that moves is well-typed.
TypesOK ==
  CASE moving = "notices" -> TypeOK
    [] moving = "mail" -> Mail!TypeOK
    [] moving = "disposal" -> Disposal!TypeOK
    [] moving = "pages" -> Pages!TypeOK
    [] moving = "matches" -> Matches!TypeOK
    [] moving = "trace" -> Trace!TypeOK
    [] moving = "one tab" -> OneTab!TypeOK
    [] moving = "two tabs" -> TwoTabs!TypeOK
    [] moving = "seeding" -> Seeding!TypeOK

MessagesAreTrue ==
  CASE moving = "notices" -> NoticesAreTrue
    [] moving = "mail" -> Mail!NoticesAreTrue
    [] OTHER -> TRUE
DisposalIsTrue == Disposal!DisposalIsTrue
ViewsAreTrue ==
  CASE moving = "pages" -> Pages!ViewsAreTrue
    [] moving = "matches" -> Matches!ViewsAreTrue
    [] moving = "trace" -> Trace!ViewsAreTrue
    [] OTHER -> TRUE
RedirectsHaveCause ==
  CASE moving = "one tab" -> OneTab!RedirectsHaveCause
    [] moving = "two tabs" -> TwoTabs!RedirectsHaveCause
    [] OTHER -> TRUE
SeedIsSafe == Seeding!SeedIsSafe
=============================================================================
