----------------------------- MODULE MCCommands -----------------------------
(***************************************************************************)
(* The commercial side for TLC: the commands of client and carrier calls   *)
(* about an operation (CallTools), the quote call of one provider          *)
(* (QuoteTools), the award of a round (Adjudication) and what operators    *)
(* change (OperatorConsole), some under several bounds.  They share no     *)
(* state here, so that what holds of one does not depend on the others: in *)
(* a behaviour one of them moves and the others stay as they began.        *)
(***************************************************************************)
EXTENDS Adjudication, TLC

CONSTANTS x1, x2, y1, y2, c1, b1, Carrier, OtherCarrier, None, d1, notes, v1, e1, e2, t1

VARIABLES
  moving,
  ops, mandates, booked, changes, events, calls, receipts, past, wire, sess,
  asking, call, quotes, offers, quoted, staging, evidence, spoken, stored, latest, byCall,
  quoteSess, asked, again, quoteWire, ticks,
  operation, dir, esc, form, editor, req, posted, audit, writes, consoleFaults

award == vars
tools == <<ops, mandates, booked, changes, events, calls, receipts, past, wire, sess>>
quoting == <<asking, call, quotes, offers, quoted, staging, evidence, spoken, stored, latest,
             byCall, quoteSess, asked, again, quoteWire, ticks>>
console == <<operation, dir, esc, form, editor, req, posted, audit, writes, consoleFaults>>
everything == <<award, tools, quoting, console, moving>>

\* Two processes and a second round.
Again == INSTANCE Adjudication WITH
  Workers <- {y1, y2}, Price <- {2}, MaxRounds <- 2, MaxTime <- 2, MaxRevision <- 2,
  MaxQuotes <- 1, MaxSwitches <- 0

\* Two calls of the client.
Clients == INSTANCE CallTools WITH
  ClientCalls <- {x1, x2}, BookingCalls <- {}, Window <- {y1}, MaxDetails <- 1,
  MaxCommands <- 2, MaxTotal <- 3, MaxPast <- 0, MaxOps <- 1, MaxAwards <- 0,
  bookings <- booked
\* One of the carrier, two windows, one of which may begin, and another award.
OneCarrier == INSTANCE CallTools WITH
  ClientCalls <- {}, BookingCalls <- {b1}, Window <- {y1, y2}, MaxDetails <- 1,
  MaxCommands <- 3, MaxTotal <- 3, MaxPast <- 1, MaxOps <- 1, MaxAwards <- 1,
  bookings <- booked
\* Two of the carrier, which may have the same booking in hand; or one of the
\* client, who may confirm another mandate meanwhile, and one of the carrier.
Carriers == INSTANCE CallTools WITH
  ClientCalls <- {}, BookingCalls <- {x1, x2}, Window <- {y1, y2}, MaxDetails <- 1,
  MaxCommands <- 3, MaxTotal <- 4, MaxPast <- 0, MaxOps <- 1, MaxAwards <- 1,
  bookings <- booked
Parties == INSTANCE CallTools WITH
  ClientCalls <- {c1}, BookingCalls <- {b1}, Window <- {y1, y2}, MaxDetails <- 2,
  MaxCommands <- 3, MaxTotal <- 4, MaxPast <- 0, MaxOps <- 1, MaxAwards <- 1,
  bookings <- booked
\* A client who may open a second operation.
Newcomer == INSTANCE CallTools WITH
  ClientCalls <- {c1}, BookingCalls <- {}, Window <- {y1}, MaxDetails <- 2,
  MaxCommands <- 2, MaxTotal <- 3, MaxPast <- 0, MaxOps <- 2, MaxAwards <- 0,
  bookings <- booked

\* Three answers of the carrier; or two, whose transcripts are stored at any time,
\* and a tool call that is run again.
Bargain == INSTANCE QuoteTools WITH
  Price <- {2}, Cap <- 1, Limit <- 3, MaxTurns <- 3, MaxCalls <- 3, MaxTouches <- 0,
  MaxRepeats <- 0, MaxNotes <- 0, MaxLost <- 1,
  op <- asking, receipts <- quoted, sess <- quoteSess, wire <- quoteWire
Statements == INSTANCE QuoteTools WITH
  Price <- {2}, Cap <- 1, Limit <- 2, MaxTurns <- 2, MaxCalls <- 2, MaxTouches <- 1,
  MaxRepeats <- 1, MaxNotes <- 1, MaxLost <- 0,
  op <- asking, receipts <- quoted, sess <- quoteSess, wire <- quoteWire

\* A contact, and someone calls are handed to.
BothTables == [e \in {e1, e2} |-> IF e = e1 THEN "contacts" ELSE "recipients"]
OneTable == [e \in {e1} |-> "contacts"]
\* Two browsers correct an operation.
Corrections == INSTANCE OperatorConsole WITH
  Browsers <- {x1, x2}, Fields <- {notes}, Values <- {v1}, Notes <- notes, Entries <- {e1},
  Kind <- OneTable, Phones <- {t1}, Pages <- {"correction"}, MaxVersion <- 3, MaxFaults <- 0,
  op <- operation, events <- posted, faults <- consoleFaults
\* One does, and its requests fail.
Retried == INSTANCE OperatorConsole WITH
  Browsers <- {d1}, Fields <- {notes}, Values <- {v1}, Notes <- notes, Entries <- {e1},
  Kind <- OneTable, Phones <- {t1}, Pages <- {"correction"}, MaxVersion <- 3, MaxFaults <- 1,
  op <- operation, events <- posted, faults <- consoleFaults
\* Two change one entry, or enter a contact and a recipient.
Entry == INSTANCE OperatorConsole WITH
  Browsers <- {x1, x2}, Fields <- {notes}, Values <- {v1}, Notes <- notes, Entries <- {e1},
  Kind <- OneTable, Phones <- {t1}, Pages <- {"directory"}, MaxVersion <- 3, MaxFaults <- 1,
  op <- operation, events <- posted, faults <- consoleFaults
People == INSTANCE OperatorConsole WITH
  Browsers <- {x1, x2}, Fields <- {notes}, Values <- {v1}, Notes <- notes, Entries <- {e1, e2},
  Kind <- BothTables, Phones <- {t1}, Pages <- {"directory"}, MaxVersion <- 2, MaxFaults <- 0,
  op <- operation, events <- posted, faults <- consoleFaults
\* Two close an escalation.
Closing == INSTANCE OperatorConsole WITH
  Browsers <- {x1, x2}, Fields <- {notes}, Values <- {v1}, Notes <- notes, Entries <- {e1},
  Kind <- OneTable, Phones <- {t1}, Pages <- {"resolution"}, MaxVersion <- 2, MaxFaults <- 1,
  op <- operation, events <- posted, faults <- consoleFaults

ASSUME /\ Corrections!ConsoleAssumption /\ Retried!ConsoleAssumption /\ Entry!ConsoleAssumption
       /\ People!ConsoleAssumption /\ Closing!ConsoleAssumption
       /\ Bargain!QuoteAssumption /\ Statements!QuoteAssumption
       /\ Clients!CallAssumption /\ Newcomer!CallAssumption /\ OneCarrier!CallAssumption
       /\ Carriers!CallAssumption /\ Parties!CallAssumption

Begin ==
  /\ moving \in {"award", "awards", "clients", "newcomer", "carrier", "carriers", "parties",
                 "bargain", "statements", "corrections", "retried", "entry", "people", "closing"}
  /\ IF moving = "awards" THEN Again!Init ELSE Init
  /\ CASE moving = "carrier" -> OneCarrier!Init
       [] moving = "carriers" -> Carriers!Init
       [] moving = "parties" -> Parties!Init
       [] moving = "newcomer" -> Newcomer!Init
       [] OTHER -> Clients!Init
  /\ IF moving = "statements" THEN Statements!Init ELSE Bargain!Init
  /\ CASE moving = "retried" -> Retried!Init
       [] moving = "entry" -> Entry!Init
       [] moving = "people" -> People!Init
       [] OTHER -> Corrections!Init /\ dir[e1].version = 0

\* Under the larger bounds of two instances a call asks nothing a second time, no
\* refresh of it fails, and it hangs up only with a request on its way.  What this
\* leaves out changes no row: a command that has its receipt is answered from it,
\* and a call that ended with nothing on its way is like one that asks no more.
OnItsWay(c) == \E r \in wire : r.call = c /\ r.id \notin receipts[c]
\* Beside another caller, the client opens no operation, which MaxOps would not
\* admit, reads no list, and changes the details to others that are complete.
NoCreation == \A r \in wire' : r.name # "create_operation"
OtherDetails == \A r \in wire' : r.name = "update_operation" => r.args[2] = 2
CarriersTalk ==
  \/ \E c \in {x1, x2} : \/ Carriers!Ask(c) \/ Carriers!Refresh(c) \/ Carriers!List(c)
                         \/ Carriers!GiveUp(c) /\ UNCHANGED wire
                         \/ OnItsWay(c) /\ Carriers!Hangup(c)
  \/ Carriers!Serve \/ \E i \in DOMAIN ops : Carriers!Award(i)
PartiesTalk ==
  \/ \E c \in {c1, b1} : \/ Parties!Ask(c) /\ NoCreation /\ OtherDetails
                         \/ Parties!Refresh(c)
                         \/ Parties!GiveUp(c) /\ UNCHANGED wire
                         \/ OnItsWay(c) /\ Parties!Hangup(c)
  \/ Parties!Serve \/ \E i \in DOMAIN ops : Parties!Award(i)

Step ==
  \/ moving = "award" /\ Next /\ UNCHANGED <<tools, quoting, console, moving>>
  \/ moving = "awards" /\ Again!Next /\ UNCHANGED <<tools, quoting, console, moving>>
  \/ moving = "clients" /\ Clients!Next /\ NoCreation /\ UNCHANGED <<award, quoting, console, moving>>
  \/ moving = "carrier" /\ OneCarrier!Next /\ UNCHANGED <<award, quoting, console, moving>>
  \/ moving = "carriers" /\ CarriersTalk /\ UNCHANGED <<award, quoting, console, moving>>
  \/ moving = "parties" /\ PartiesTalk /\ UNCHANGED <<award, quoting, console, moving>>
  \/ moving = "newcomer" /\ Newcomer!Next /\ UNCHANGED <<award, quoting, console, moving>>
  \/ moving = "bargain" /\ Bargain!Next /\ UNCHANGED <<award, tools, console, moving>>
  \/ moving = "statements" /\ Statements!Next /\ UNCHANGED <<award, tools, console, moving>>
  \/ moving = "corrections" /\ Corrections!Next /\ UNCHANGED <<award, tools, quoting, moving>>
  \/ moving = "retried" /\ Retried!Next /\ UNCHANGED <<award, tools, quoting, moving>>
  \/ moving = "entry" /\ Entry!Next /\ UNCHANGED <<award, tools, quoting, moving>>
  \/ moving = "people" /\ People!Next /\ UNCHANGED <<award, tools, quoting, moving>>
  \/ moving = "closing" /\ Closing!Next /\ UNCHANGED <<award, tools, quoting, moving>>

SideBySide == Begin /\ [][Step]_everything

\* What is alike in a component is named by one of two pairs: the two calls, browsers
\* or carriers of a round by the first, the windows of a mandate and the two processes
\* by the second.  Every state is compared with its images under four permutations.
Alike == Permutations({x1, x2}) \cup Permutations({y1, y2})

-----------------------------------------------------------------------------
\* The component that moves is well-typed.
TypesOK ==
  CASE moving = "award" -> TypeOK
    [] moving = "awards" -> Again!TypeOK
    [] moving = "clients" -> Clients!TypeOK
    [] moving = "carrier" -> OneCarrier!TypeOK
    [] moving = "carriers" -> Carriers!TypeOK
    [] moving = "parties" -> Parties!TypeOK
    [] moving = "newcomer" -> Newcomer!TypeOK
    [] moving = "bargain" -> Bargain!TypeOK
    [] moving = "statements" -> Statements!TypeOK
    [] moving = "corrections" -> Corrections!TypeOK
    [] moving = "retried" -> Retried!TypeOK
    [] moving = "entry" -> Entry!TypeOK
    [] moving = "people" -> People!TypeOK
    [] moving = "closing" -> Closing!TypeOK

ConsentIsCurrent == moving = "clients" => Clients!ConsentIsCurrent
ChangesAreSafe ==
  CASE moving = "carrier" -> OneCarrier!ChangesAreSafe
    [] moving = "carriers" -> Carriers!ChangesAreSafe
    [] moving = "parties" -> Parties!ChangesAreSafe
    [] OTHER -> TRUE
CancelledIsFinal == Clients!CancelledIsFinal
QuotesAreSafe == moving \in {"bargain", "statements"} => Bargain!QuotesAreSafe
ExceptionIsEarned ==
  CASE moving = "bargain" -> Bargain!ExceptionIsEarned
    [] moving = "statements" -> Statements!ExceptionIsEarned
    [] OTHER -> TRUE
ConsoleIsTrue ==
  CASE moving \in {"corrections", "retried", "entry", "closing"} -> Corrections!ConsoleIsTrue
    [] moving = "people" -> People!ConsoleIsTrue
    [] OTHER -> TRUE
=============================================================================
