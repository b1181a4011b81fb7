------------------------- MODULE SessionConfiguration -------------------------
(***************************************************************************)
(* What the agent of a call may do, as the server of OpenAI knows it.      *)
(* The tools and instructions of a session are sent with the acceptance,   *)
(* again when the sideband connects, and after every tool call; updates    *)
(* travel on one ordered connection, a field an update leaves out keeps    *)
(* its old value, and each one is echoed.  The diagnostics compare every   *)
(* echo with the configuration requested last.                             *)
(*                                                                         *)
(* The model may call a tool while an update is still under way: it sees   *)
(* the old tools until the update arrives.                                 *)
(***************************************************************************)
EXTENDS Integers, Sequences, FiniteSets

CONSTANTS
  Tool,         \* the tools of the call's own flow
  MaxCommands,  \* bound on the tool calls
  MaxFaults     \* bound on failed refreshes and updates

SessionAssumption == MaxCommands \in Nat /\ MaxFaults \in Nat /\ IsFiniteSet(Tool)

VARIABLES
  tools,    \* CallToolSession: the definitions of its last refresh
  agent,    \* RealtimeAgent: the tools and instructions it was given
  session,  \* AgentsCallSession: connection, tool call, confirmed transfer
  channel,  \* session.update events on their way
  server,   \* the configuration in force at OpenAI
  echoes,   \* session.updated events on their way back
  diag,     \* RealtimeSessionDiagnostics
  commands, faults

vars == <<tools, agent, session, channel, server, echoes, diag, commands, faults>>
counters == <<commands, faults>>

Confirm == "confirm_escalation"
Offerable == SUBSET (Tool \cup {Confirm})
\* Instructions are numbered by the tool call after which they were written.
Text == 0 .. MaxCommands
\* A field of an update: left out, or with a value.
Optional(S) == {{}} \cup {{s} : s \in S}
Configuration == [tools : Offerable, text : Text, silent : BOOLEAN]
Update == [tools : Optional(Offerable), text : Optional(Text), silent : BOOLEAN]
Snapshots == [tools : Optional(Offerable), text : Optional(Text)]

TypeOK ==
  /\ tools \in Offerable
  /\ agent \in [tools : Offerable, text : Text]
  /\ session \in [state : {"routed", "accepted", "open", "closed"},
                  pc : {"idle", "executing", "refreshed"}, call : Tool \cup {Confirm}, confirmed : BOOLEAN]
  /\ channel \in Seq(Update) /\ server \in Configuration /\ echoes \in Seq(Configuration)
  /\ diag \in [expected : Snapshots, received : Snapshots, sequence : 0 .. MaxCommands + 1,
               observed : BOOLEAN, toolsMatch : Optional(BOOLEAN), textMatch : Optional(BOOLEAN)]
  /\ commands \in 0 .. MaxCommands /\ faults \in 0 .. MaxFaults

------------------------------------------------------------------------------
\* What is sent

\* The SDK leaves the tools out when there are none; the payload restores the
\* empty list, and a confirmed transfer overrides tools and turn detection.
SdkPayload(a) == [tools |-> IF a.tools = {} THEN {} ELSE {a.tools}, text |-> {a.text}, silent |-> FALSE]

\* Mutant: the transfer is protected by the update of the confirmation only.
PayloadOnce(a, confirmed) ==
  [SdkPayload(a) EXCEPT !.tools = {a.tools}, !.silent = confirmed /\ session.call = Confirm]

BuildSessionPayload(a, confirmed) ==
  IF confirmed THEN [SdkPayload(a) EXCEPT !.tools = {{}}, !.silent = TRUE]
  ELSE [SdkPayload(a) EXCEPT !.tools = {a.tools}]

Snapshot(update) == [tools |-> update.tools, text |-> update.text]
FullSnapshot(c) == [tools |-> {c.tools}, text |-> {c.text}]

PrepareUpdate(update) ==
  [diag EXCEPT !.sequence = @ + 1, !.expected = Snapshot(update)]

SendUpdate(a, confirmed) ==
  LET update == BuildSessionPayload(a, confirmed) IN
  /\ channel' = Append(channel, update) /\ diag' = PrepareUpdate(update)

------------------------------------------------------------------------------
Initially == [tools |-> tools, text |-> 0]

Init ==
  /\ tools \in SUBSET Tool /\ agent = Initially
  /\ session = [state |-> "routed", pc |-> "idle", call |-> Confirm, confirmed |-> FALSE]
  /\ channel = <<>> /\ echoes = <<>> /\ commands = 0 /\ faults = 0
  /\ server = [tools |-> {}, text |-> 0, silent |-> FALSE]
  /\ diag = [expected |-> Snapshot(BuildSessionPayload(agent, FALSE)),
             received |-> [tools |-> {}, text |-> {}], sequence |-> 0, observed |-> FALSE,
             toolsMatch |-> {}, textMatch |-> {}]

\* calls.accept carries the same agent and options as the connection.
AcceptCall ==
  /\ session.state = "routed" /\ session' = [session EXCEPT !.state = "accepted"]
  /\ server' = [tools |-> agent.tools, text |-> agent.text, silent |-> FALSE]
  /\ UNCHANGED <<tools, agent, channel, echoes, diag, counters>>

Connect ==
  /\ session.state = "accepted"
  /\ \/ /\ session' = [session EXCEPT !.state = "open"] /\ SendUpdate(agent, FALSE)
        /\ UNCHANGED faults
     \/ /\ faults < MaxFaults /\ faults' = faults + 1
        /\ session' = [session EXCEPT !.state = "closed"] /\ UNCHANGED <<channel, diag>>
  /\ UNCHANGED <<tools, agent, server, echoes, commands>>

\* The model calls one of the tools it has been given.
CallTool(t) ==
  /\ session.state = "open" /\ session.pc = "idle" /\ t \in server.tools /\ commands < MaxCommands
  /\ session' = [session EXCEPT !.pc = "executing", !.call = t] /\ commands' = commands + 1
  /\ UNCHANGED <<tools, agent, channel, server, echoes, diag, faults>>

\* Mutant: an agent whose refresh failed keeps the tools it had.
ToolsKept(next, confirmed, refreshFailed) ==
  IF confirmed THEN {} ELSE IF refreshFailed THEN agent.tools ELSE next

ToolsLeft(next, confirmed, refreshFailed) == IF refreshFailed \/ confirmed THEN {} ELSE next

\* The tool runs, or is refused once the transfer has been confirmed; the profile of
\* the call is read again, wherever the tool has moved it, and the agent is given
\* the tools that are left to it.
Execute(next, confirms, refreshFailed) ==
  LET confirmed == session.confirmed \/ confirms IN
  /\ session.pc = "executing"
  /\ confirms => session.call = Confirm /\ ~session.confirmed
  /\ refreshFailed => faults < MaxFaults
  /\ faults' = IF refreshFailed THEN faults + 1 ELSE faults
  /\ tools' = IF refreshFailed THEN {} ELSE next
  /\ agent' = [tools |-> ToolsLeft(next, confirmed, refreshFailed), text |-> commands]
  /\ session' = [session EXCEPT !.pc = "refreshed", !.confirmed = confirmed]
  /\ UNCHANGED <<channel, server, echoes, diag, commands>>

\* updateAgent sends the configuration before the result, or the session closes.
UpdateAgent ==
  /\ session.pc = "refreshed"
  /\ \/ /\ SendUpdate(agent, session.confirmed)
        /\ session' = [session EXCEPT !.pc = "idle"] /\ UNCHANGED faults
     \/ /\ faults < MaxFaults /\ faults' = faults + 1
        /\ session' = [session EXCEPT !.pc = "idle", !.state = "closed"] /\ UNCHANGED <<channel, diag>>
  /\ UNCHANGED <<tools, agent, server, echoes, commands>>

\* The server of OpenAI takes the next update, and echoes what is now in force.
Value(field, old) == IF field = {} THEN old ELSE CHOOSE v \in field : TRUE
Merged(old, update) ==
  [tools |-> Value(update.tools, old.tools), text |-> Value(update.text, old.text),
   silent |-> update.silent]

Apply ==
  /\ channel # <<>>
  /\ server' = Merged(server, Head(channel)) /\ channel' = Tail(channel)
  /\ echoes' = Append(echoes, server')
  /\ UNCHANGED <<tools, agent, session, diag, counters>>

Compare(expected, received) ==
  IF expected = {} \/ received = {} THEN {} ELSE {expected = received}

Observe ==
  /\ echoes # <<>> /\ echoes' = Tail(echoes)
  /\ LET received == FullSnapshot(Head(echoes)) IN
       diag' = [diag EXCEPT !.received = received, !.observed = TRUE,
                  !.toolsMatch = Compare(diag.expected.tools, received.tools),
                  !.textMatch = Compare(diag.expected.text, received.text)]
  /\ UNCHANGED <<tools, agent, session, channel, server, counters>>

Session ==
  \/ AcceptCall \/ Connect \/ UpdateAgent
  \/ \E next \in (SUBSET Tool) \cup {S \cup {Confirm} : S \in SUBSET Tool}, c, f \in BOOLEAN :
       Execute(next, c, f)
Next == Session \/ Apply \/ Observe \/ \E t \in Tool \cup {Confirm} : CallTool(t)

Spec == Init /\ [][Next]_vars
\* The steps of the program and of the connection are taken; the model need not call.
FairSpec == Spec /\ WF_vars(Session) /\ WF_vars(Apply) /\ WF_vars(Observe)
------------------------------------------------------------------------------
\* Properties

\* Nothing is on its way, neither an update nor the tool call that will send one.
Settled == session.state = "open" /\ session.pc = "idle" /\ channel = <<>>

\* Once the updates have arrived the model has exactly the tools the server means
\* it to have: in particular none at the end of the call, after a failed refresh or
\* in a confirmed transfer, although the SDK leaves an empty list out of the update
\* and what is left out stays as it was (ObservedSIPTransport.buildSessionPayload).
NoStaleTools ==
  Settled => /\ server.tools = IF session.confirmed THEN {} ELSE tools
             /\ server.text = agent.text

\* The farewell cannot be talked over: from the update of the confirmation on,
\* no update gives tools or interruptions back, also when the model had called
\* another tool before the update reached it.
TransferStaysProtected ==
  [][server.silent => server'.silent /\ server'.tools = {}]_vars
==============================================================================
