---------------------- MODULE SessionConfigurationProofs ----------------------
(***************************************************************************)
(* What the model may do is what the server means it to do, for any tools, *)
(* any number of tool calls and any failed refreshes and updates.          *)
(*                                                                         *)
(* The updates on their way are a history of what was meant, so the        *)
(* invariant speaks of the last one: it states what is meant now           *)
(* (LatestIsMeant) and leaves nothing out (UpdatesAreWhole), and behind a  *)
(* silent configuration there are only silent ones (SilenceLasts).         *)
(***************************************************************************)
EXTENDS SessionConfiguration, TLAPS

Meant == IF session.confirmed THEN {} ELSE tools

\* Tools run in an open session, and only there is anything confirmed or silenced.
OpenFirst ==
  /\ session.pc # "idle" => session.state = "open"
  /\ session.state \in {"routed", "accepted"} =>
       /\ ~session.confirmed /\ ~server.silent /\ channel = <<>>
       /\ diag.sequence = 0 /\ session.pc = "idle"
  /\ ~session.confirmed => agent.tools = tools

\* Every update states its tools and instructions, an empty list of tools too.
UpdatesAreWhole ==
  \A i \in DOMAIN channel : \E t \in Offerable, x \in Text :
    channel[i].tools = {t} /\ channel[i].text = {x}

\* What will be in force once the updates have arrived.
LatestIsMeant ==
  session.state = "open" /\ session.pc # "refreshed" =>
    IF channel = <<>> THEN server.tools = Meant /\ server.text = agent.text
    ELSE /\ channel[Len(channel)].tools = {Meant}
         /\ channel[Len(channel)].text = {agent.text}

\* Behind a silent configuration there are none but silent ones, without tools.
SilenceLasts ==
  /\ server.silent => /\ session.confirmed /\ server.tools = {}
                      /\ \A i \in DOMAIN channel : channel[i].silent
  /\ \A i \in DOMAIN channel : channel[i].silent =>
       /\ session.confirmed /\ channel[i].tools = {{}}
       /\ \A j \in DOMAIN channel : i <= j => channel[j].silent

\* An update is sent on connection and one after each tool call.
UpdatesCounted ==
  diag.sequence <= IF session.pc = "idle" THEN commands + 1 ELSE commands

SessionInv ==
  TypeOK /\ OpenFirst /\ UpdatesAreWhole /\ LatestIsMeant /\ SilenceLasts /\ UpdatesCounted
------------------------------------------------------------------------------
\* The updates

\* The two forms of an update: tools and instructions are always stated.
LEMMA PayloadFact ==
  ASSUME NEW a \in [tools : Offerable, text : Text], NEW confirmed \in BOOLEAN
  PROVE  LET update == BuildSessionPayload(a, confirmed) IN
         /\ update \in Update /\ update.text = {a.text} /\ update.silent = confirmed
         /\ update.tools = IF confirmed THEN {{}} ELSE {a.tools}
<1> DEFINE sdk == SdkPayload(a)
<1>1. sdk \in [tools : Optional(Offerable), text : Optional(Text), silent : BOOLEAN]
      /\ sdk.text = {a.text} /\ sdk.silent = FALSE
  BY DEF SdkPayload, Optional
<1>2. {} \in Offerable /\ a.tools \in Offerable
  BY DEF Offerable
<1>3. {{}} \in Optional(Offerable) /\ {a.tools} \in Optional(Offerable)
  BY <1>2 DEF Optional
<1>4. CASE confirmed
  <2> HIDE DEF sdk
  <2>1. PICK one : one = [sdk EXCEPT !.tools = {{}}]
    OBVIOUS
  <2>2. one \in Update /\ one.tools = {{}} /\ one.text = sdk.text /\ one.silent = FALSE
    BY <1>1, <1>3, <2>1 DEF Update
  <2>3. PICK two : two = [one EXCEPT !.silent = TRUE]
    OBVIOUS
  <2>4. two \in Update /\ two.tools = {{}} /\ two.text = sdk.text /\ two.silent = TRUE
    BY <2>2, <2>3 DEF Update
  <2>5. two = BuildSessionPayload(a, confirmed)
    BY <1>4, <2>1, <2>3 DEF BuildSessionPayload, sdk
  <2> QED BY <1>1, <1>4, <2>4, <2>5
<1>5. CASE ~confirmed
  <2> HIDE DEF sdk
  <2>1. PICK one : one = [sdk EXCEPT !.tools = {a.tools}]
    OBVIOUS
  <2>2. one \in Update /\ one.tools = {a.tools} /\ one.text = sdk.text /\ one.silent = FALSE
    BY <1>1, <1>3, <2>1 DEF Update
  <2>3. one = BuildSessionPayload(a, confirmed)
    BY <1>5, <2>1 DEF BuildSessionPayload, sdk
  <2> QED BY <1>1, <1>5, <2>2, <2>3
<1> QED BY <1>4, <1>5

\* What sending an update does to the connection and to the diagnostics.
LEMMA SendFact ==
  ASSUME SessionAssumption, TypeOK, diag.sequence < MaxCommands + 1,
         NEW confirmed \in BOOLEAN, SendUpdate(agent, confirmed)
  PROVE  /\ channel' = Append(channel, BuildSessionPayload(agent, confirmed))
         /\ channel' \in Seq(Update)
         /\ diag' \in [expected : Snapshots, received : Snapshots, sequence : 0 .. MaxCommands + 1,
                       observed : BOOLEAN, toolsMatch : Optional(BOOLEAN),
                       textMatch : Optional(BOOLEAN)]
         /\ diag'.sequence = diag.sequence + 1
<1> DEFINE update == BuildSessionPayload(agent, confirmed)
<1>1. update \in Update
  BY PayloadFact DEF TypeOK
<1>2. channel' = Append(channel, update) /\ diag' = PrepareUpdate(update)
  BY DEF SendUpdate
<1> HIDE DEF update
<1>3. Snapshot(update) \in Snapshots
  BY <1>1 DEF Snapshot, Snapshots, Update
<1>4. PICK shot : shot = Snapshot(update)
  OBVIOUS
<1>5. PICK one : one = [diag EXCEPT !.sequence = @ + 1]
  OBVIOUS
<1>6. diag.sequence + 1 \in 0 .. MaxCommands + 1
  BY DEF TypeOK, SessionAssumption
<1>7. one \in [expected : Snapshots, received : Snapshots, sequence : 0 .. MaxCommands + 1,
               observed : BOOLEAN, toolsMatch : Optional(BOOLEAN), textMatch : Optional(BOOLEAN)]
  BY <1>5, <1>6 DEF TypeOK
<1>8. one.sequence = diag.sequence + 1
  BY <1>5 DEF TypeOK
<1>9. diag' = [one EXCEPT !.expected = shot]
  BY <1>2, <1>4, <1>5 DEF PrepareUpdate
<1>10. diag' \in [expected : Snapshots, received : Snapshots, sequence : 0 .. MaxCommands + 1,
                observed : BOOLEAN, toolsMatch : Optional(BOOLEAN), textMatch : Optional(BOOLEAN)]
  BY <1>3, <1>4, <1>7, <1>9
<1>11. diag'.sequence = one.sequence
  BY <1>7, <1>9
<1>12. channel' \in Seq(Update)
  BY <1>1, <1>2 DEF TypeOK
<1> QED BY <1>2, <1>8, <1>10, <1>11, <1>12 DEF update

\* An update put behind a connection that satisfies the invariant.
LEMMA SentFact ==
  ASSUME SessionInv, channel' = Append(channel, BuildSessionPayload(agent, session.confirmed)),
         UNCHANGED <<server, agent, tools>>, session'.confirmed = session.confirmed
  PROVE  UpdatesAreWhole' /\ LatestIsMeant' /\ SilenceLasts'
<1> DEFINE update == BuildSessionPayload(agent, session.confirmed)
<1>1. /\ update \in Update /\ update.text = {agent.text} /\ update.silent = session.confirmed
      /\ update.tools = IF session.confirmed THEN {{}} ELSE {agent.tools}
  BY PayloadFact DEF SessionInv, TypeOK
<1>2. channel' = Append(channel, update) /\ channel \in Seq(Update)
  BY DEF SessionInv, TypeOK
<1> HIDE DEF update
<1>3. /\ DOMAIN channel = 1 .. Len(channel) /\ DOMAIN channel' = 1 .. Len(channel) + 1
      /\ Len(channel) \in Nat /\ Len(channel') = Len(channel) + 1
      /\ channel'[Len(channel) + 1] = update
      /\ \A i \in DOMAIN channel : channel'[i] = channel[i]
  BY <1>1, <1>2
<1>4. {} \in Offerable /\ agent.tools \in Offerable /\ agent.text \in Text
  BY DEF SessionInv, TypeOK, Offerable
<1>5. UpdatesAreWhole'
  <2>1. ASSUME NEW i \in DOMAIN channel'
        PROVE  \E t \in Offerable, x \in Text :
                 channel'[i].tools = {t} /\ channel'[i].text = {x}
    <3>1. CASE i \in DOMAIN channel
      BY <1>3, <3>1 DEF UpdatesAreWhole, SessionInv
    <3>2. CASE i = Len(channel) + 1
      BY <1>1, <1>3, <1>4, <3>2
    <3> QED BY <1>3, <2>1, <3>1, <3>2
  <2> QED BY <2>1 DEF UpdatesAreWhole
<1>6. LatestIsMeant'
  <2>1. channel' # <<>> /\ channel'[Len(channel')] = update
    BY <1>3
  <2>2. update.tools = {Meant'} /\ update.text = {agent'.text}
    BY <1>1 DEF Meant, SessionInv, OpenFirst
  <2> QED BY <2>1, <2>2 DEF LatestIsMeant
<1>7. SilenceLasts'
  <2>1. server'.silent => /\ session'.confirmed /\ server'.tools = {}
                          /\ \A i \in DOMAIN channel' : channel'[i].silent
    BY <1>1, <1>3 DEF SessionInv, SilenceLasts
  <2>2. ASSUME NEW i \in DOMAIN channel', channel'[i].silent
        PROVE  /\ session'.confirmed /\ channel'[i].tools = {{}}
               /\ \A j \in DOMAIN channel' : i <= j => channel'[j].silent
    <3>1. CASE i \in DOMAIN channel
      <4>1. channel[i].silent /\ channel'[i] = channel[i]
        BY <1>3, <2>2, <3>1
      <4>2. session.confirmed /\ channel[i].tools = {{}}
            /\ \A j \in DOMAIN channel : i <= j => channel[j].silent
        BY <3>1, <4>1 DEF SessionInv, SilenceLasts
      <4>3. ASSUME NEW j \in DOMAIN channel', i <= j PROVE channel'[j].silent
        <5>1. CASE j \in DOMAIN channel
          BY <1>3, <4>2, <4>3, <5>1
        <5>2. CASE j = Len(channel) + 1
          BY <1>1, <1>3, <4>2, <5>2
        <5> QED BY <1>3, <4>3, <5>1, <5>2
      <4> QED BY <4>1, <4>2, <4>3
    <3>2. CASE i = Len(channel) + 1
      BY <1>1, <1>3, <2>2, <3>2
    <3> QED BY <1>3, <2>2, <3>1, <3>2
  <2> QED BY <2>1, <2>2 DEF SilenceLasts
<1> QED BY <1>5, <1>6, <1>7

------------------------------------------------------------------------------
\* The steps

LEMMA InitInv == ASSUME SessionAssumption, Init PROVE SessionInv
<1>1. tools \in Offerable /\ 0 \in Text /\ {} \in Offerable
  BY DEF Init, Offerable, Text, SessionAssumption
<1>2. agent = [tools |-> tools, text |-> 0]
  BY DEF Init, Initially
<1>3. agent \in [tools : Offerable, text : Text] /\ agent.tools = tools
  BY <1>1, <1>2
<1>4. BuildSessionPayload(agent, FALSE) \in Update
  BY <1>3, PayloadFact
<1>5. PICK update : update = BuildSessionPayload(agent, FALSE)
  OBVIOUS
<1>6. Snapshot(update) \in Snapshots /\ [tools |-> {}, text |-> {}] \in Snapshots
  BY <1>4, <1>5 DEF Snapshot, Snapshots, Update, Optional
<1>7. diag = [expected |-> Snapshot(update), received |-> [tools |-> {}, text |-> {}],
              sequence |-> 0, observed |-> FALSE, toolsMatch |-> {}, textMatch |-> {}]
  BY <1>5 DEF Init
<1>8. {} \in Optional(BOOLEAN) /\ 0 \in 0 .. MaxCommands + 1
  BY DEF Optional, SessionAssumption
<1>9. /\ diag \in [expected : Snapshots, received : Snapshots, sequence : 0 .. MaxCommands + 1,
                   observed : BOOLEAN, toolsMatch : Optional(BOOLEAN),
                   textMatch : Optional(BOOLEAN)]
      /\ diag.sequence = 0
  BY <1>6, <1>7, <1>8
<1>10. session \in [state : {"routed", "accepted", "open", "closed"},
                    pc : {"idle", "executing", "refreshed"}, call : Tool \cup {Confirm},
                    confirmed : BOOLEAN]
  BY DEF Init
<1>11. server \in Configuration /\ ~server.silent
  BY <1>1 DEF Init, Configuration
<1>12. channel \in Seq(Update) /\ echoes \in Seq(Configuration) /\ channel = <<>>
  BY DEF Init
<1>13. TypeOK
  <2>1. commands \in 0 .. MaxCommands /\ faults \in 0 .. MaxFaults
    BY DEF Init, SessionAssumption
  <2> QED BY <1>1, <1>3, <1>9, <1>10, <1>11, <1>12, <2>1 DEF TypeOK
<1>14. session.state = "routed" /\ session.pc = "idle" /\ ~session.confirmed /\ commands = 0
  BY DEF Init
<1> QED BY <1>3, <1>9, <1>11, <1>12, <1>13, <1>14
        DEF SessionInv, OpenFirst, UpdatesAreWhole, LatestIsMeant, SilenceLasts, UpdatesCounted

LEMMA AcceptCallInv == ASSUME SessionAssumption, SessionInv, AcceptCall PROVE SessionInv'
<1>1. /\ session.state = "routed" /\ session' = [session EXCEPT !.state = "accepted"]
      /\ server' = [tools |-> agent.tools, text |-> agent.text, silent |-> FALSE]
      /\ UNCHANGED <<tools, agent, channel, echoes, diag, commands, faults>>
  BY DEF AcceptCall, counters
<1>2. /\ session' \in [state : {"routed", "accepted", "open", "closed"},
                       pc : {"idle", "executing", "refreshed"}, call : Tool \cup {Confirm},
                       confirmed : BOOLEAN]
      /\ session'.state = "accepted" /\ session'.pc = session.pc
      /\ session'.confirmed = session.confirmed
  BY <1>1 DEF SessionInv, TypeOK
<1>3. server' \in Configuration /\ server'.silent = FALSE
  BY <1>1 DEF SessionInv, TypeOK, Configuration
<1>4. TypeOK'
  BY <1>1, <1>2, <1>3 DEF SessionInv, TypeOK
<1>5. OpenFirst' /\ LatestIsMeant' /\ UpdatesCounted'
  BY <1>1, <1>2, <1>3 DEF SessionInv, OpenFirst, LatestIsMeant, UpdatesCounted
<1>6. UpdatesAreWhole' /\ SilenceLasts'
  BY <1>1, <1>2, <1>3 DEF SessionInv, OpenFirst, UpdatesAreWhole, SilenceLasts
<1> QED BY <1>4, <1>5, <1>6 DEF SessionInv

LEMMA ConnectInv == ASSUME SessionAssumption, SessionInv, Connect PROVE SessionInv'
<1>1. /\ session.state = "accepted" /\ UNCHANGED <<tools, agent, server, echoes, commands>>
      /\ session.pc = "idle" /\ ~session.confirmed /\ diag.sequence = 0 /\ ~server.silent
  BY DEF Connect, SessionInv, OpenFirst
<1>2. CASE session' = [session EXCEPT !.state = "open"] /\ SendUpdate(agent, FALSE)
           /\ UNCHANGED faults
  <2>1. /\ session' \in [state : {"routed", "accepted", "open", "closed"},
                         pc : {"idle", "executing", "refreshed"}, call : Tool \cup {Confirm},
                         confirmed : BOOLEAN]
        /\ session'.state = "open" /\ session'.pc = session.pc
        /\ session'.confirmed = session.confirmed
    BY <1>2 DEF SessionInv, TypeOK
  <2>2. diag.sequence < MaxCommands + 1
    BY <1>1 DEF SessionAssumption
  <2>3. /\ channel' = Append(channel, BuildSessionPayload(agent, FALSE))
        /\ channel' \in Seq(Update)
        /\ diag' \in [expected : Snapshots, received : Snapshots, sequence : 0 .. MaxCommands + 1,
                      observed : BOOLEAN, toolsMatch : Optional(BOOLEAN),
                      textMatch : Optional(BOOLEAN)]
        /\ diag'.sequence = diag.sequence + 1
    BY <1>2, <2>2, SendFact DEF SessionInv
  <2>4. session.confirmed = FALSE
    BY <1>1 DEF SessionInv, TypeOK
  <2>5. UpdatesAreWhole' /\ LatestIsMeant' /\ SilenceLasts'
    BY <1>1, <2>1, <2>3, <2>4, SentFact
  <2>6. TypeOK'
    BY <1>1, <1>2, <2>1, <2>3 DEF SessionInv, TypeOK
  <2>7. OpenFirst'
    BY <1>1, <2>1 DEF SessionInv, OpenFirst
  <2>8. UpdatesCounted'
    BY <1>1, <2>1, <2>3 DEF SessionInv, TypeOK, UpdatesCounted
  <2> QED BY <2>5, <2>6, <2>7, <2>8 DEF SessionInv
<1>3. CASE faults < MaxFaults /\ faults' = faults + 1
           /\ session' = [session EXCEPT !.state = "closed"] /\ UNCHANGED <<channel, diag>>
  <2>1. /\ session' \in [state : {"routed", "accepted", "open", "closed"},
                         pc : {"idle", "executing", "refreshed"}, call : Tool \cup {Confirm},
                         confirmed : BOOLEAN]
        /\ session'.state = "closed" /\ session'.pc = session.pc
        /\ session'.confirmed = session.confirmed
    BY <1>3 DEF SessionInv, TypeOK
  <2>2. faults' \in 0 .. MaxFaults
    BY <1>3 DEF SessionInv, TypeOK, SessionAssumption
  <2>3. TypeOK'
    BY <1>1, <1>3, <2>1, <2>2 DEF SessionInv, TypeOK
  <2>4. OpenFirst' /\ LatestIsMeant' /\ UpdatesCounted'
    BY <1>1, <1>3, <2>1 DEF SessionInv, OpenFirst, LatestIsMeant, UpdatesCounted
  <2>5. UpdatesAreWhole' /\ SilenceLasts'
    BY <1>1, <1>3, <2>1 DEF SessionInv, UpdatesAreWhole, SilenceLasts
  <2> QED BY <2>3, <2>4, <2>5 DEF SessionInv
<1> QED BY <1>2, <1>3 DEF Connect

LEMMA CallToolInv ==
  ASSUME SessionAssumption, SessionInv, NEW t \in Tool \cup {Confirm}, CallTool(t)
  PROVE  SessionInv'
<1>1. /\ session.state = "open" /\ session.pc = "idle" /\ commands < MaxCommands
      /\ session' = [session EXCEPT !.pc = "executing", !.call = t] /\ commands' = commands + 1
      /\ UNCHANGED <<tools, agent, channel, server, echoes, diag, faults>>
  BY DEF CallTool
<1>2. /\ session' \in [state : {"routed", "accepted", "open", "closed"},
                       pc : {"idle", "executing", "refreshed"}, call : Tool \cup {Confirm},
                       confirmed : BOOLEAN]
      /\ session'.state = "open" /\ session'.pc = "executing"
      /\ session'.confirmed = session.confirmed
  BY <1>1 DEF SessionInv, TypeOK
<1>3. commands' \in 0 .. MaxCommands
  BY <1>1 DEF SessionInv, TypeOK, SessionAssumption
<1>4. TypeOK'
  BY <1>1, <1>2, <1>3 DEF SessionInv, TypeOK
<1>5. OpenFirst' /\ UpdatesCounted'
  BY <1>1, <1>2 DEF SessionInv, OpenFirst, UpdatesCounted
<1>6. LatestIsMeant'
  BY <1>1, <1>2 DEF SessionInv, LatestIsMeant, Meant
<1>7. UpdatesAreWhole' /\ SilenceLasts'
  BY <1>1, <1>2 DEF SessionInv, UpdatesAreWhole, SilenceLasts
<1> QED BY <1>4, <1>5, <1>6, <1>7 DEF SessionInv

LEMMA ExecuteInv ==
  ASSUME SessionAssumption, SessionInv,
         NEW next \in (SUBSET Tool) \cup {S \cup {Confirm} : S \in SUBSET Tool},
         NEW confirms \in BOOLEAN, NEW refreshFailed \in BOOLEAN,
         Execute(next, confirms, refreshFailed)
  PROVE  SessionInv'
<1> DEFINE confirmed == session.confirmed \/ confirms
           given == ToolsLeft(next, confirmed, refreshFailed)
<1>1. /\ session.pc = "executing" /\ (refreshFailed => faults < MaxFaults)
      /\ faults' = IF refreshFailed THEN faults + 1 ELSE faults
      /\ tools' = IF refreshFailed THEN {} ELSE next
      /\ agent' = [tools |-> given, text |-> commands]
      /\ session' = [session EXCEPT !.pc = "refreshed", !.confirmed = confirmed]
      /\ UNCHANGED <<channel, server, echoes, diag, commands>>
  BY DEF Execute
<1>2. next \in Offerable /\ {} \in Offerable
  <2>1. CASE next \in SUBSET Tool
    BY <2>1 DEF Offerable
  <2>2. CASE next \in {S \cup {Confirm} : S \in SUBSET Tool}
    <3>1. PICK S \in SUBSET Tool : next = S \cup {Confirm}
      BY <2>2
    <3> QED BY <3>1 DEF Offerable
  <2> QED BY <2>1, <2>2
<1>3. given \in Offerable /\ tools' \in Offerable /\ (~confirmed => given = tools')
  BY <1>1, <1>2 DEF ToolsLeft
<1>4. confirmed \in BOOLEAN /\ (session.confirmed => confirmed)
  BY DEF SessionInv, TypeOK
<1> HIDE DEF confirmed, given
<1>5. /\ session' \in [state : {"routed", "accepted", "open", "closed"},
                       pc : {"idle", "executing", "refreshed"}, call : Tool \cup {Confirm},
                       confirmed : BOOLEAN]
      /\ session'.state = session.state /\ session'.pc = "refreshed"
      /\ session'.confirmed = confirmed
  BY <1>1, <1>4 DEF SessionInv, TypeOK
<1>6. commands \in Text
  BY DEF SessionInv, TypeOK, Text
<1>7. agent' \in [tools : Offerable, text : Text] /\ agent'.tools = given
  BY <1>1, <1>3, <1>6
<1>8. faults' \in 0 .. MaxFaults
  BY <1>1 DEF SessionInv, TypeOK, SessionAssumption
<1>9. TypeOK'
  BY <1>1, <1>3, <1>5, <1>7, <1>8 DEF SessionInv, TypeOK
<1>10. OpenFirst'
  BY <1>1, <1>3, <1>5, <1>7 DEF SessionInv, OpenFirst
<1>11. LatestIsMeant' /\ UpdatesCounted'
  BY <1>1, <1>5 DEF SessionInv, LatestIsMeant, UpdatesCounted
<1>12. UpdatesAreWhole' /\ SilenceLasts'
  BY <1>1, <1>4, <1>5 DEF SessionInv, UpdatesAreWhole, SilenceLasts
<1> QED BY <1>9, <1>10, <1>11, <1>12 DEF SessionInv

LEMMA UpdateAgentInv == ASSUME SessionAssumption, SessionInv, UpdateAgent PROVE SessionInv'
<1>1. /\ session.pc = "refreshed" /\ UNCHANGED <<tools, agent, server, echoes, commands>>
      /\ session.state = "open"
  BY DEF UpdateAgent, SessionInv, OpenFirst
<1>2. CASE SendUpdate(agent, session.confirmed) /\ session' = [session EXCEPT !.pc = "idle"]
           /\ UNCHANGED faults
  <2>1. /\ session' \in [state : {"routed", "accepted", "open", "closed"},
                         pc : {"idle", "executing", "refreshed"}, call : Tool \cup {Confirm},
                         confirmed : BOOLEAN]
        /\ session'.state = "open" /\ session'.pc = "idle"
        /\ session'.confirmed = session.confirmed /\ session.confirmed \in BOOLEAN
    BY <1>1, <1>2 DEF SessionInv, TypeOK
  <2>2. diag.sequence < MaxCommands + 1 /\ diag.sequence \in Nat /\ commands \in Nat
        /\ diag.sequence <= commands
    BY <1>1 DEF SessionInv, TypeOK, UpdatesCounted, SessionAssumption
  <2>3. /\ channel' = Append(channel, BuildSessionPayload(agent, session.confirmed))
        /\ channel' \in Seq(Update)
        /\ diag' \in [expected : Snapshots, received : Snapshots, sequence : 0 .. MaxCommands + 1,
                      observed : BOOLEAN, toolsMatch : Optional(BOOLEAN),
                      textMatch : Optional(BOOLEAN)]
        /\ diag'.sequence = diag.sequence + 1
    BY <1>2, <2>1, <2>2, SendFact DEF SessionInv
  <2>4. UpdatesAreWhole' /\ LatestIsMeant' /\ SilenceLasts'
    BY <1>1, <2>1, <2>3, SentFact
  <2>5. TypeOK'
    BY <1>1, <1>2, <2>1, <2>3 DEF SessionInv, TypeOK
  <2>6. OpenFirst'
    BY <1>1, <2>1 DEF SessionInv, OpenFirst
  <2>7. UpdatesCounted'
    BY <1>1, <2>1, <2>2, <2>3 DEF UpdatesCounted
  <2> QED BY <2>4, <2>5, <2>6, <2>7 DEF SessionInv
<1>3. CASE /\ faults < MaxFaults /\ faults' = faults + 1 /\ UNCHANGED <<channel, diag>>
           /\ session' = [session EXCEPT !.pc = "idle", !.state = "closed"]
  <2>1. /\ session' \in [state : {"routed", "accepted", "open", "closed"},
                         pc : {"idle", "executing", "refreshed"}, call : Tool \cup {Confirm},
                         confirmed : BOOLEAN]
        /\ session'.state = "closed" /\ session'.pc = "idle"
        /\ session'.confirmed = session.confirmed
    BY <1>3 DEF SessionInv, TypeOK
  <2>2. faults' \in 0 .. MaxFaults
    BY <1>3 DEF SessionInv, TypeOK, SessionAssumption
  <2>3. TypeOK'
    BY <1>1, <1>3, <2>1, <2>2 DEF SessionInv, TypeOK
  <2>4. OpenFirst' /\ LatestIsMeant'
    BY <1>1, <1>3, <2>1 DEF SessionInv, OpenFirst, LatestIsMeant
  <2>5. UpdatesCounted'
    BY <1>1, <1>3, <2>1 DEF SessionInv, TypeOK, UpdatesCounted
  <2>6. UpdatesAreWhole' /\ SilenceLasts'
    BY <1>1, <1>3, <2>1 DEF SessionInv, UpdatesAreWhole, SilenceLasts
  <2> QED BY <2>3, <2>4, <2>5, <2>6 DEF SessionInv
<1> QED BY <1>2, <1>3 DEF UpdateAgent

\* What taking the first update does: all of it is in force afterwards.
LEMMA MergedFact ==
  ASSUME SessionInv, channel # <<>>
  PROVE  LET merged == Merged(server, Head(channel)) IN
         /\ merged \in Configuration /\ merged.silent = channel[1].silent
         /\ channel[1].tools = {merged.tools} /\ channel[1].text = {merged.text}
<1>1. channel \in Seq(Update) /\ 1 \in DOMAIN channel /\ Head(channel) = channel[1]
  BY DEF SessionInv, TypeOK
<1>2. PICK t \in Offerable, x \in Text : channel[1].tools = {t} /\ channel[1].text = {x}
  BY <1>1 DEF SessionInv, UpdatesAreWhole
<1>3. Value({t}, server.tools) = t /\ Value({x}, server.text) = x
  BY DEF Value
<1>4. PICK merged : merged = Merged(server, Head(channel))
  OBVIOUS
<1>5. merged = [tools |-> t, text |-> x, silent |-> channel[1].silent]
  <2>1. merged = [tools |-> Value(channel[1].tools, server.tools),
                  text |-> Value(channel[1].text, server.text), silent |-> channel[1].silent]
    BY <1>4, <1>1 DEF Merged
  <2> QED BY <1>2, <1>3, <2>1
<1>6. channel[1].silent \in BOOLEAN
  <2>1. channel[1] \in Update
    BY <1>1
  <2> QED BY <2>1 DEF Update
<1> QED BY <1>2, <1>4, <1>5, <1>6 DEF Configuration

LEMMA ApplyInv == ASSUME SessionAssumption, SessionInv, Apply PROVE SessionInv'
<1>1. /\ channel # <<>> /\ channel' = Tail(channel) /\ echoes' = Append(echoes, server')
      /\ UNCHANGED <<tools, agent, session, diag, commands, faults>>
      /\ server' = Merged(server, Head(channel))
  BY DEF Apply, counters
<1>2. /\ server' \in Configuration /\ server'.silent = channel[1].silent
      /\ channel[1].tools = {server'.tools} /\ channel[1].text = {server'.text}
  BY <1>1, MergedFact
<1>3. /\ channel \in Seq(Update) /\ channel' \in Seq(Update) /\ Len(channel) \in Nat \ {0}
      /\ DOMAIN channel = 1 .. Len(channel) /\ DOMAIN channel' = 1 .. Len(channel) - 1
      /\ Len(channel') = Len(channel) - 1
      /\ \A i \in DOMAIN channel' : i + 1 \in DOMAIN channel /\ channel'[i] = channel[i + 1]
  BY <1>1 DEF SessionInv, TypeOK
<1>4. TypeOK'
  <2>1. echoes' \in Seq(Configuration)
    BY <1>1, <1>2 DEF SessionInv, TypeOK
  <2> QED BY <1>1, <1>2, <1>3, <2>1 DEF SessionInv, TypeOK
<1>5. OpenFirst' /\ UpdatesCounted'
  BY <1>1 DEF SessionInv, OpenFirst, UpdatesCounted
<1>6. UpdatesAreWhole'
  BY <1>3 DEF SessionInv, UpdatesAreWhole
<1>7. LatestIsMeant'
  <2> SUFFICES ASSUME session'.state = "open", session'.pc # "refreshed"
               PROVE  IF channel' = <<>> THEN server'.tools = Meant' /\ server'.text = agent'.text
                      ELSE /\ channel'[Len(channel')].tools = {Meant'}
                           /\ channel'[Len(channel')].text = {agent'.text}
    BY DEF LatestIsMeant
  <2>1. /\ channel[Len(channel)].tools = {Meant'}
        /\ channel[Len(channel)].text = {agent'.text}
    <3>1. session.state = "open" /\ session.pc # "refreshed" /\ channel # <<>>
      BY <1>1
    <3>2. channel[Len(channel)].tools = {Meant} /\ channel[Len(channel)].text = {agent.text}
      BY <3>1 DEF SessionInv, LatestIsMeant
    <3>3. Meant' = Meant /\ agent' = agent
      BY <1>1 DEF Meant
    <3> QED BY <3>2, <3>3
  <2>2. CASE channel' = <<>>
    <3>1. Len(channel') = 0
      BY <2>2
    <3>2. Len(channel) \in Nat /\ Len(channel') = Len(channel) - 1
      BY <1>3
    <3>3. Len(channel) = 1
      BY <3>1, <3>2
    <3> QED BY <1>2, <2>1, <2>2, <3>3
  <2>3. CASE channel' # <<>>
    <3>1. Len(channel') \in DOMAIN channel'
      BY <1>3, <2>3
    <3>2. channel'[Len(channel')] = channel[Len(channel)]
      BY <1>3, <3>1
    <3> QED BY <2>1, <2>3, <3>2
  <2> QED BY <2>2, <2>3
<1>8. SilenceLasts'
  <2>1. 1 \in DOMAIN channel /\ \A i \in DOMAIN channel : 1 <= i
    BY <1>3
  <2>2. channel[1].silent => /\ session.confirmed /\ channel[1].tools = {{}}
                             /\ \A j \in DOMAIN channel : channel[j].silent
    BY <2>1 DEF SessionInv, SilenceLasts
  <2>3. server'.silent => /\ session'.confirmed /\ server'.tools = {}
                          /\ \A i \in DOMAIN channel' : channel'[i].silent
    BY <1>1, <1>2, <1>3, <2>2
  <2>4. ASSUME NEW i \in DOMAIN channel', channel'[i].silent
        PROVE  /\ session'.confirmed /\ channel'[i].tools = {{}}
               /\ \A j \in DOMAIN channel' : i <= j => channel'[j].silent
    <3>1. i + 1 \in DOMAIN channel /\ channel[i + 1].silent
      BY <1>3, <2>4
    <3>2. /\ session.confirmed /\ channel[i + 1].tools = {{}}
          /\ \A j \in DOMAIN channel : i + 1 <= j => channel[j].silent
      BY <3>1 DEF SessionInv, SilenceLasts
    <3> QED BY <1>1, <1>3, <3>2
  <2> QED BY <2>3, <2>4 DEF SilenceLasts
<1> QED BY <1>4, <1>5, <1>6, <1>7, <1>8 DEF SessionInv

LEMMA ObserveInv == ASSUME SessionAssumption, SessionInv, Observe PROVE SessionInv'
<1> DEFINE received == FullSnapshot(Head(echoes))
           toolsMatch == Compare(diag.expected.tools, received.tools)
           textMatch == Compare(diag.expected.text, received.text)
<1>1. /\ echoes # <<>> /\ echoes' = Tail(echoes)
      /\ diag' = [diag EXCEPT !.received = received, !.observed = TRUE,
                    !.toolsMatch = toolsMatch, !.textMatch = textMatch]
      /\ UNCHANGED <<tools, agent, session, channel, server, commands, faults>>
  BY DEF Observe, counters
<1>2. Head(echoes) \in Configuration /\ echoes' \in Seq(Configuration)
  BY <1>1 DEF SessionInv, TypeOK
<1>3. received \in Snapshots
  BY <1>2 DEF FullSnapshot, Snapshots, Configuration, Optional
<1>4. toolsMatch \in Optional(BOOLEAN) /\ textMatch \in Optional(BOOLEAN)
  BY DEF Compare, Optional
<1> HIDE DEF received, toolsMatch, textMatch
<1> DEFINE D == [expected : Snapshots, received : Snapshots, sequence : 0 .. MaxCommands + 1,
                 observed : BOOLEAN, toolsMatch : Optional(BOOLEAN), textMatch : Optional(BOOLEAN)]
<1>5. PICK one : one = [diag EXCEPT !.received = received]
  OBVIOUS
<1>6. one \in D /\ one.sequence = diag.sequence
  BY <1>3, <1>5 DEF SessionInv, TypeOK
<1>7. PICK two : two = [one EXCEPT !.observed = TRUE]
  OBVIOUS
<1>8. two \in D /\ two.sequence = diag.sequence
  BY <1>6, <1>7
<1>9. PICK three : three = [two EXCEPT !.toolsMatch = toolsMatch]
  OBVIOUS
<1>10. three \in D /\ three.sequence = diag.sequence
  BY <1>4, <1>8, <1>9
<1>11. diag' = [three EXCEPT !.textMatch = textMatch]
  BY <1>1, <1>5, <1>7, <1>9
<1>12. diag' \in D /\ diag'.sequence = diag.sequence
  BY <1>4, <1>10, <1>11
<1>13. TypeOK'
  BY <1>1, <1>2, <1>12 DEF SessionInv, TypeOK
<1>14. OpenFirst' /\ UpdatesCounted'
  BY <1>1, <1>12 DEF SessionInv, OpenFirst, UpdatesCounted
<1>15. LatestIsMeant'
  BY <1>1 DEF SessionInv, LatestIsMeant, Meant
<1>16. UpdatesAreWhole' /\ SilenceLasts'
  BY <1>1 DEF SessionInv, UpdatesAreWhole, SilenceLasts
<1> QED BY <1>13, <1>14, <1>15, <1>16 DEF SessionInv

LEMMA StepInv == ASSUME SessionAssumption, SessionInv, [Next]_vars PROVE SessionInv'
<1>1. CASE UNCHANGED vars
  BY <1>1 DEF vars, SessionInv, TypeOK, OpenFirst, UpdatesAreWhole, LatestIsMeant, Meant,
              SilenceLasts, UpdatesCounted
<1>2. ASSUME NEW next \in (SUBSET Tool) \cup {S \cup {Confirm} : S \in SUBSET Tool},
             NEW c \in BOOLEAN, NEW f \in BOOLEAN, Execute(next, c, f)
      PROVE  SessionInv'
  BY <1>2, ExecuteInv
<1>3. ASSUME NEW t \in Tool \cup {Confirm}, CallTool(t) PROVE SessionInv'
  BY <1>3, CallToolInv
<1> QED BY <1>1, <1>2, <1>3, AcceptCallInv, ConnectInv, UpdateAgentInv, ApplyInv, ObserveInv
        DEF Next, Session

\* The updates of a call and what they leave in force agree at every step.
THEOREM SessionAgrees == ASSUME SessionAssumption PROVE Spec => []SessionInv
<1>1. Init => SessionInv
  BY InitInv
<1>2. SessionInv /\ [Next]_vars => SessionInv'
  BY StepInv
<1> QED BY <1>1, <1>2, PTL DEF Spec

\* Every step keeps the configuration, the updates and the diagnostics within
\* their types: the updates are numbered up to the number of tool calls and one.
THEOREM TypeCorrect == ASSUME SessionAssumption PROVE Spec => []TypeOK
<1>1. SessionInv => TypeOK
  BY DEF SessionInv
<1> QED BY <1>1, SessionAgrees, PTL

------------------------------------------------------------------------------
\* The tools

\* With nothing on its way the model has the tools and instructions the server
\* means it to have: none in a confirmed transfer or after a failed refresh.
THEOREM ToolsAreCurrent == ASSUME SessionAssumption PROVE Spec => []NoStaleTools
<1>1. SessionInv => NoStaleTools
  BY DEF SessionInv, LatestIsMeant, Meant, NoStaleTools, Settled
<1> QED BY <1>1, SessionAgrees, PTL

\* No step gives tools or interruptions back once the farewell is protected.
LEMMA StepProtects ==
  ASSUME SessionAssumption, SessionInv, [Next]_vars
  PROVE  server.silent => server'.silent /\ server'.tools = {}
<1> SUFFICES ASSUME server.silent PROVE server'.silent /\ server'.tools = {}
  OBVIOUS
<1>1. /\ session.confirmed /\ server.tools = {} /\ \A i \in DOMAIN channel : channel[i].silent
      /\ session.state # "routed"
  BY DEF SessionInv, SilenceLasts, OpenFirst
<1>2. CASE Apply
  <2>1. channel \in Seq(Update) /\ channel # <<>> /\ server' = Merged(server, Head(channel))
    BY <1>2 DEF Apply, SessionInv, TypeOK
  <2>2. 1 \in DOMAIN channel
    BY <2>1
  <2>3. channel[1].silent /\ channel[1].tools = {{}}
    BY <1>1, <2>2 DEF SessionInv, SilenceLasts
  <2> QED BY <2>1, <2>3, MergedFact
<1>3. CASE UNCHANGED server
  BY <1>1, <1>3
<1>4. AcceptCall => FALSE
  BY <1>1 DEF AcceptCall
<1>5. ASSUME NEW next, NEW c, NEW f, Execute(next, c, f) PROVE UNCHANGED server
  BY <1>5 DEF Execute
<1>6. ASSUME NEW t, CallTool(t) PROVE UNCHANGED server
  BY <1>6 DEF CallTool
<1>7. Connect \/ UpdateAgent \/ Observe \/ UNCHANGED vars => UNCHANGED server
  BY DEF Connect, UpdateAgent, Observe, vars
<1> QED BY <1>2, <1>3, <1>4, <1>5, <1>6, <1>7 DEF Next, Session

\* From the update of the confirmation on nothing gives tools or interruptions
\* back, whatever other tool the model had called before.
THEOREM FarewellProtected == ASSUME SessionAssumption PROVE Spec => TransferStaysProtected
<1>1. SessionInv /\ [Next]_vars =>
        [server.silent => server'.silent /\ server'.tools = {}]_vars
  BY StepProtects
<1> QED BY <1>1, SessionAgrees, PTL DEF Spec, TransferStaysProtected
=============================================================================
