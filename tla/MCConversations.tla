-------------------------- MODULE MCConversations --------------------------
(***************************************************************************)
(* The telephone side for TLC: how a call is put through (IncomingCalls,   *)
(* once for callers and once for dispatched attempts), how its session is  *)
(* configured (SessionConfiguration) and how it is handed to a person      *)
(* (LiveHandoff).  These modules share no state, so that what holds of     *)
(* one does not depend on the others: in a behaviour one of them moves and *)
(* the others stay as they began.                                          *)
(***************************************************************************)
EXTENDS IncomingCalls, TLC

CONSTANTS r1, r2, p1, t1, t2

VARIABLES
  moving,
  tools, agent, session, channel, server, echoes, diag, commands, sessionFaults,
  cases, recipients, outcome, controls, coord, tool, openai, refer, past, handoffFaults,
  handoffEdits

configuration == <<tools, agent, session, channel, server, echoes, diag, commands, sessionFaults>>
handoff == <<cases, recipients, outcome, controls, coord, tool, openai, refer, past,
             handoffFaults, handoffEdits>>
everything == <<vars, configuration, handoff, moving>>

\* Two SIP legs that carry the record of the same attempt.
Attempt == INSTANCE IncomingCalls WITH
  Contacts <- {}, Providers <- {p1}, Leg <- {r1, r2}, Lines <- 1, Outbound <- TRUE,
  MaxEdits <- 0, MaxFaults <- 1
Configuration == INSTANCE SessionConfiguration WITH
  Tool <- {t1, t2}, MaxCommands <- 3, MaxFaults <- 1, faults <- sessionFaults
Handoff == INSTANCE LiveHandoff WITH
  Recipients <- 2, MaxCases <- 2, MaxResponses <- 3, MaxEdits <- 1, MaxFaults <- 1,
  directory <- recipients, agent <- controls, faults <- handoffFaults, edits <- handoffEdits

ASSUME Attempt!IncomingAssumption /\ Configuration!SessionAssumption /\ Handoff!HandoffAssumption

Begin ==
  /\ moving \in {"caller", "attempt", "configuration", "handoff"}
  /\ IF moving = "caller" THEN Init ELSE Attempt!Init
  /\ Configuration!Init /\ (moving # "configuration" => tools = {})
  /\ Handoff!Init

Step ==
  \/ moving = "caller" /\ Next /\ UNCHANGED <<configuration, handoff, moving>>
  \/ moving = "attempt" /\ Attempt!Next /\ UNCHANGED <<configuration, handoff, moving>>
  \/ moving = "configuration" /\ Configuration!Next /\ UNCHANGED <<vars, handoff, moving>>
  \/ moving = "handoff" /\ Handoff!Next /\ UNCHANGED <<vars, configuration, moving>>

SideBySide == Begin /\ [][Step]_everything

-----------------------------------------------------------------------------
\* Every component is well-typed.
TypesOK ==
  CASE moving = "caller" -> TypeOK
    [] moving = "attempt" -> Attempt!TypeOK
    [] moving = "configuration" -> Configuration!TypeOK
    [] moving = "handoff" -> Handoff!TypeOK

NoStaleTools == Configuration!NoStaleTools
TransferStaysProtected == Configuration!TransferStaysProtected
TransferIsSafe == Handoff!TransferIsSafe
=============================================================================
