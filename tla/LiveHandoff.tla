----------------------------- MODULE LiveHandoff -----------------------------
(***************************************************************************)
(* The transfer of one outbound provider call to a person.  The agent's    *)
(* tool opens a durable review (an escalation row), the caller confirms or *)
(* cancels, a confirmation makes the agent say a farewell, and when its    *)
(* audio has been played the server asks OpenAI for one SIP REFER, on      *)
(* which Twilio asks the server whom to dial.                              *)
(*                                                                         *)
(* Interleaved here: the one tool in execution (each await of it is a step *)
(* of its own), the handlers of the events OpenAI sends over the sideband, *)
(* the REFER request, Twilio's callbacks, the operators' dashboard and the *)
(* caller, who may speak or hang up at any time.                           *)
(***************************************************************************)
EXTENDS Integers, Sequences, FiniteSetsExt

CONSTANTS
  Recipients,    \* number of handoff recipients, in order of priority
  MaxCases,      \* bound on the reviews opened by the call
  MaxResponses,  \* bound on the responses of the model
  MaxEdits,      \* bound on the changes of the directory
  MaxFaults      \* bound on lost calls, lost replies and duplicated events

HandoffAssumption ==
  /\ Recipients \in Nat /\ MaxCases \in Nat /\ MaxResponses \in Nat
  /\ MaxEdits \in Nat /\ MaxFaults \in Nat

VARIABLES
  cases,      \* escalations rows of the call
  directory,  \* handoff_recipients rows
  outcome,    \* calls.outcome
  agent,      \* CallToolSession and AgentsCallSession
  coord,      \* EscalationHandoffCoordinator
  tool,       \* the tool in execution
  openai,     \* the model's side of the call
  refer,      \* the REFER request and what it led to
  past,       \* what happened, for the properties only
  faults, edits

vars == <<cases, directory, outcome, agent, coord, tool, openai, refer, past, faults, edits>>
durable == <<cases, directory, outcome>>
counters == <<faults, edits>>

Recipient == 1 .. Recipients
Case == 1 .. MaxCases
Response == 1 .. MaxResponses
\* A telephone number: a recipient and how often an operator has changed it.
Phone == [of : Recipient, edit : 0 .. MaxEdits]
NoPhone == [of |-> 0, edit |-> 0]

CaseRow == [status : {"none", "started", "resolved"},
            handoff : {"pending", "not_configured", "transfer_requested", "transfer_failed"},
            recipient : 0 .. Recipients, closedBy : {"nobody", "caller", "operator"}]
AgentState == [pending : BOOLEAN, case : 0 .. MaxCases, phone : Phone \cup {NoPhone},
               ready : BOOLEAN, confirmed : BOOLEAN,
               tools : BOOLEAN, open : BOOLEAN]
Coordinator == [target : Phone \cup {NoPhone}, awaiting : BOOLEAN, farewell : 0 .. MaxResponses,
                started : BOOLEAN, referred : BOOLEAN, cancelling : BOOLEAN]
ToolName == {"command", "escalate", "confirm_escalation", "cancel_escalation"}
ToolState == [name : ToolName, ok : BOOLEAN, ended : BOOLEAN,
              pc : {"idle", "creating", "cancelling", "refresh", "update", "flushed"}]
SidebandEvent == [type : {"created", "stopped"}, response : Response]
Sideband == [silence : {"off", "sent", "on"}, asked : BOOLEAN, playing : 0 .. MaxResponses,
             last : 0 .. MaxResponses, farewell : 0 .. MaxResponses, inbox : Seq(SidebandEvent)]
ReferState == [request : {"none", "sent", "answered"}, mark : {"none", "transfer_requested", "transfer_failed"},
               twilio : {"none", "referred", "dialing", "over"}]

TypeOK ==
  /\ cases \in [Case -> CaseRow]
  /\ directory \in [Recipient -> [active : BOOLEAN, phone : Phone]]
  /\ outcome \in {"active", "transferred", "completed"}
  /\ agent \in AgentState /\ coord \in Coordinator /\ tool \in ToolState
  /\ openai \in Sideband /\ refer \in ReferState
  /\ past \in [refers : Nat, case : 0 .. MaxCases, confirmed : SUBSET (0 .. MaxCases),
               dialled : Phone \cup {NoPhone}]
  /\ faults \in 0 .. MaxFaults /\ edits \in 0 .. MaxEdits

NoCase == [status |-> "none", handoff |-> "pending", recipient |-> 0, closedBy |-> "nobody"]
Init ==
  /\ cases = [c \in Case |-> NoCase]
  /\ directory = [r \in Recipient |-> [active |-> TRUE, phone |-> [of |-> r, edit |-> 0]]]
  /\ outcome = "active"
  /\ agent = [pending |-> FALSE, case |-> 0, phone |-> NoPhone, ready |-> FALSE,
              confirmed |-> FALSE, tools |-> TRUE, open |-> TRUE]
  /\ coord = [target |-> NoPhone, awaiting |-> FALSE, farewell |-> 0,
              started |-> FALSE, referred |-> FALSE, cancelling |-> FALSE]
  /\ tool = [name |-> "command", ok |-> FALSE, ended |-> FALSE, pc |-> "idle"]
  /\ openai = [silence |-> "off", asked |-> FALSE, playing |-> 0, last |-> 0,
               farewell |-> 0, inbox |-> <<>>]
  /\ refer = [request |-> "none", mark |-> "none", twilio |-> "none"]
  /\ past = [refers |-> 0, case |-> 0, confirmed |-> {},
             dialled |-> NoPhone]
  /\ faults = 0 /\ edits = 0

Fault == faults < MaxFaults /\ faults' = faults + 1 /\ UNCHANGED edits

------------------------------------------------------------------------------
\* EscalationHandoffCoordinator

CanReturn == ~coord.started /\ ~coord.cancelling
Prepared == coord.target # NoPhone
Disarmed(c) == [c EXCEPT !.awaiting = FALSE, !.farewell = 0]

\* Voice activity is logged and nothing else.
OnCallerSpeechStarted(c) == c

CancelBegun(c) == [Disarmed(c) EXCEPT !.cancelling = TRUE]

CancelDone(c) == [c EXCEPT !.cancelling = FALSE, !.target = NoPhone]
CancelFailed(c) == [c EXCEPT !.cancelling = FALSE]

BegunFarewell(c) == [Disarmed(c) EXCEPT !.awaiting = TRUE]

ObserveResponseCreated(c, r) ==
  IF c.awaiting /\ c.farewell = 0 THEN [c EXCEPT !.awaiting = FALSE, !.farewell = r] ELSE c

FarewellPlayed(r) == Prepared /\ CanReturn /\ r = coord.farewell

------------------------------------------------------------------------------
\* The tools.  They run one at a time: parallel_tool_calls is off.

\* CallToolSession.definitions: while a review is pending only its two controls.
Offered(pending) ==
  IF pending THEN {"confirm_escalation", "cancel_escalation"} ELSE {"command", "escalate"}

MayCall(name) ==
  /\ tool.pc = "idle" /\ agent.open /\ agent.tools /\ ~agent.confirmed
  /\ name \in Offered(agent.pending)

Finish(ok) == tool' = [tool EXCEPT !.pc = "refresh", !.ok = ok]
Start(name, pc, ok) == tool' = [name |-> name, ok |-> ok, ended |-> FALSE, pc |-> pc]

\* A command of the call's own flow; what it does is not part of this module.
FlowCommand ==
  /\ MayCall("command")
  /\ Start("command", "refresh", TRUE)
  /\ UNCHANGED <<durable, agent, coord, openai, refer, past, counters>>

Escalate ==
  /\ MayCall("escalate")
  /\ Start("escalate", "creating", FALSE)
  /\ UNCHANGED <<durable, agent, coord, openai, refer, past, counters>>

\* create_call_escalation: the call is active and has no other open review.
Open == {c \in Case : cases[c].status = "started"}
Fresh == {c \in Case : cases[c].status = "none"}
Creatable == outcome = "active" /\ Open = {} /\ Fresh # {}
ActiveRecipients == {r \in Recipient : directory[r].active}
NewCase ==
  IF ActiveRecipients = {} THEN [NoCase EXCEPT !.status = "started", !.handoff = "not_configured"]
  ELSE [NoCase EXCEPT !.status = "started", !.recipient = Min(ActiveRecipients)]

\* server.ts, prepareHandoff: the review becomes the active one; its recipient is
\* the target of the coordinator, unless one is prepared already.
PrepareHandoff(c, row) ==
  LET phone == IF row.recipient = 0 THEN NoPhone ELSE directory[row.recipient].phone IN
  /\ agent' = [agent EXCEPT !.pending = TRUE, !.case = c, !.phone = phone]
  /\ coord' = IF Prepared THEN coord ELSE [coord EXCEPT !.target = phone]

CreateCase ==
  /\ tool.pc = "creating" /\ Creatable
  /\ LET c == Min(Fresh) IN
       /\ cases' = [cases EXCEPT ![c] = NewCase]
       /\ \/ PrepareHandoff(c, NewCase) /\ Finish(TRUE) /\ UNCHANGED counters
          \/ Finish(FALSE) /\ Fault /\ UNCHANGED <<agent, coord>>   \* the reply is lost
  /\ UNCHANGED <<directory, outcome, openai, refer, past>>

CreateRefused ==
  /\ tool.pc = "creating"
  /\ IF Creatable THEN Fault ELSE UNCHANGED counters
  /\ Finish(FALSE)
  /\ UNCHANGED <<durable, agent, coord, openai, refer, past>>

\* confirm_escalation: no await; a target is prepared and can still be left alone.
Confirmable == agent.case # 0 /\ agent.phone # NoPhone /\ Prepared /\ CanReturn

ConfirmEscalation ==
  /\ MayCall("confirm_escalation")
  /\ Start("confirm_escalation", "refresh", Confirmable)
  /\ past' = IF Confirmable THEN [past EXCEPT !.confirmed = @ \cup {agent.case}] ELSE past
  /\ UNCHANGED <<durable, agent, coord, openai, refer, counters>>

CancelEscalation ==
  /\ MayCall("cancel_escalation")
  /\ IF agent.case # 0 /\ CanReturn
       THEN Start("cancel_escalation", "cancelling", FALSE) /\ coord' = CancelBegun(coord)
       ELSE Start("cancel_escalation", "refresh", FALSE) /\ UNCHANGED coord
  /\ UNCHANGED <<durable, agent, openai, refer, past, counters>>

\* cancel_call_escalation: an open review that is not being transferred, or one this
\* caller has cancelled before.
Cancellable(c) ==
  /\ outcome = "active"
  /\ \/ cases[c].status = "started" /\ cases[c].handoff \in {"pending", "not_configured"}
     \/ cases[c].closedBy = "caller"

\* The review is closed and the session returns to its flow; or its reply is lost.
PersistCancel ==
  LET c == agent.case IN
  /\ tool.pc = "cancelling" /\ Cancellable(c)
  /\ cases' = [cases EXCEPT ![c].status = "resolved", ![c].closedBy = "caller"]
  /\ \/ /\ coord' = CancelDone(coord) /\ Finish(TRUE)
        /\ agent' = [agent EXCEPT !.pending = FALSE, !.case = 0, !.phone = NoPhone]
        /\ UNCHANGED counters
     \/ /\ coord' = CancelFailed(coord) /\ Finish(FALSE)
        /\ Fault /\ UNCHANGED agent
  /\ UNCHANGED <<directory, outcome, openai, refer, past>>

CancelRefused ==
  LET c == agent.case IN
  /\ tool.pc = "cancelling"
  /\ IF Cancellable(c) THEN Fault ELSE UNCHANGED counters
  /\ coord' = CancelFailed(coord) /\ Finish(FALSE)
  /\ UNCHANGED <<durable, agent, openai, refer, past>>

Confirms == tool.name = "confirm_escalation" /\ tool.ok

\* AgentsCallSession.execute after the tool: refresh, then choose what to offer.
Refresh(failed) ==
  LET confirmed == agent.confirmed \/ Confirms IN
  /\ tool.pc = "refresh"
  /\ IF failed THEN Fault ELSE UNCHANGED counters
  /\ agent' = [agent EXCEPT !.ready = Confirms, !.confirmed = confirmed,
                              !.tools = ~failed /\ ~confirmed]
  /\ tool' = [tool EXCEPT !.pc = "update"]
  /\ openai' = IF confirmed /\ openai.silence = "off" THEN [openai EXCEPT !.silence = "sent"]
               ELSE openai
  /\ UNCHANGED <<durable, coord, refer, past>>

\* updateAgent has been flushed, or fails, which closes the session.
SessionUpdated ==
  /\ tool.pc = "update"
  /\ tool' = [tool EXCEPT !.pc = IF tool.ended THEN "idle" ELSE "flushed"]
  /\ UNCHANGED <<durable, agent, coord, openai, refer, past, counters>>

SessionUpdateFailed ==
  /\ tool.pc = "update" /\ Fault
  /\ agent' = [agent EXCEPT !.ready = FALSE, !.open = FALSE]
  /\ tool' = [tool EXCEPT !.pc = "idle"]
  /\ UNCHANGED <<durable, coord, openai, refer, past>>

\* agent_tool_end may come while the update is being flushed: the confirmation asks
\* for the farewell, once.
ToolEnds ==
  /\ tool.pc \in {"update", "flushed"} /\ ~tool.ended
  /\ tool' = [tool EXCEPT !.ended = TRUE, !.pc = IF @ = "flushed" THEN "idle" ELSE @]
  /\ agent' = [agent EXCEPT !.ready = FALSE]
  /\ IF tool.name = "confirm_escalation" /\ agent.ready /\ Prepared /\ CanReturn
       THEN coord' = BegunFarewell(coord) /\ openai' = [openai EXCEPT !.asked = TRUE]
       ELSE UNCHANGED <<coord, openai>>
  /\ UNCHANGED <<durable, refer, past, counters>>

------------------------------------------------------------------------------
\* The model's side (external): responses, and the session update that silences it

Send(event) == openai.inbox \o event
Created(r) == <<[type |-> "created", response |-> r]>>
Stopped(r) == <<[type |-> "stopped", response |-> r]>>

ModelAnswers ==
  /\ agent.open /\ openai.silence # "on" /\ openai.playing = 0 /\ openai.last + 1 < MaxResponses
  /\ LET r == openai.last + 1 IN
       openai' = [openai EXCEPT !.last = r, !.playing = r, !.inbox = Send(Created(r))]
  /\ UNCHANGED <<durable, agent, coord, tool, refer, past, counters>>

UpdateArrives ==
  /\ agent.open /\ openai.silence = "sent"
  /\ openai' = [openai EXCEPT !.silence = "on"]
  /\ UNCHANGED <<durable, agent, coord, tool, refer, past, counters>>

\* Behind the update on the same connection, and after what is being played; one
\* response of the bound is kept for it.
FarewellStarts ==
  /\ agent.open /\ openai.asked /\ openai.silence = "on" /\ openai.playing = 0
  /\ openai.last < MaxResponses
  /\ LET r == openai.last + 1 IN
       openai' = [openai EXCEPT !.asked = FALSE, !.last = r, !.playing = r, !.farewell = r,
                                !.inbox = Send(Created(r))]
  /\ UNCHANGED <<durable, agent, coord, tool, refer, past, counters>>

AudioStops ==
  LET r == openai.playing IN
  /\ agent.open /\ r # 0
  /\ \/ UNCHANGED counters /\ openai' = [openai EXCEPT !.playing = 0, !.inbox = Send(Stopped(r))]
     \/ Fault /\ openai' = [openai EXCEPT !.playing = 0, !.inbox = Send(Stopped(r) \o Stopped(r))]
  /\ UNCHANGED <<durable, agent, coord, tool, refer, past>>

\* The caller talks: a response is cut off unless interruptions are off.
CallerSpeaks ==
  /\ agent.open
  /\ openai' = IF openai.silence = "on" THEN openai ELSE [openai EXCEPT !.playing = 0]
  /\ coord' = OnCallerSpeechStarted(coord)
  /\ UNCHANGED <<durable, agent, tool, refer, past, counters>>

------------------------------------------------------------------------------
\* The handlers of the events, the REFER and its record

HandleCreated ==
  /\ openai.inbox # <<>> /\ Head(openai.inbox).type = "created"
  /\ coord' = ObserveResponseCreated(coord, Head(openai.inbox).response)
  /\ openai' = [openai EXCEPT !.inbox = Tail(@)]
  /\ UNCHANGED <<durable, agent, tool, refer, past, counters>>

\* Mutant: the fence against a second REFER goes up when the first is answered.
UnfencedRefer(c) == c

FencedRefer(c) == [c EXCEPT !.started = TRUE]

\* The first event for the farewell sends the one REFER; every other one is ignored.
HandleStopped ==
  /\ openai.inbox # <<>> /\ Head(openai.inbox).type = "stopped"
  /\ openai' = [openai EXCEPT !.inbox = Tail(@)]
  /\ LET r == Head(openai.inbox).response IN
       IF FarewellPlayed(r)
         THEN /\ coord' = FencedRefer(coord)
              /\ refer' = [refer EXCEPT !.request = "sent"]
              /\ past' = [past EXCEPT !.refers = @ + 1, !.case = agent.case]
         ELSE UNCHANGED <<coord, refer, past>>
  /\ UNCHANGED <<durable, agent, tool, counters>>

\* OpenAI passes the REFER to Twilio before it answers, or not at all.
ReferPassedOn ==
  /\ refer.request = "sent" /\ refer.twilio = "none"
  /\ refer' = [refer EXCEPT !.twilio = "referred"]
  /\ UNCHANGED <<durable, agent, coord, tool, openai, past, counters>>

ReferAccepted ==
  /\ refer.request = "sent" /\ refer.twilio # "none"
  /\ refer' = [refer EXCEPT !.request = "answered", !.mark = "transfer_requested"]
  /\ coord' = [coord EXCEPT !.referred = TRUE]
  /\ UNCHANGED <<durable, agent, tool, openai, past, counters>>

\* A timeout or an error; it does not prove that the transfer was not made.
ReferFailed ==
  /\ refer.request = "sent" /\ Fault
  /\ refer' = [refer EXCEPT !.request = "answered", !.mark = "transfer_failed"]
  /\ UNCHANGED <<durable, agent, coord, tool, openai, past>>

\* mark_escalation_handoff: whatever is recorded already.
Marked(c, status) == [cases EXCEPT ![c].handoff = status]

MarkHandoff ==
  /\ refer.mark # "none"
  /\ cases' = IF agent.case = 0 THEN cases ELSE Marked(agent.case, refer.mark)
  /\ outcome' = IF refer.mark = "transfer_requested" /\ outcome = "active" THEN "transferred"
                ELSE outcome
  /\ refer' = [refer EXCEPT !.mark = "none"]
  /\ UNCHANGED <<directory, agent, coord, tool, openai, past, counters>>

MarkLost ==
  /\ refer.mark # "none" /\ Fault
  /\ refer' = [refer EXCEPT !.mark = "none"]
  /\ UNCHANGED <<durable, agent, coord, tool, openai, past>>

------------------------------------------------------------------------------
\* Twilio's callbacks

\* HandoffReferRepository.find: the last review of the call, and its recipient.
LastCase == Max({c \in Case : cases[c].status # "none"})
StatusAllowsDial == cases[LastCase].handoff \in {"pending", "transfer_requested"}

TargetAuthorized(target, phone) == target = phone

HandoffRefer ==
  LET r == cases[LastCase].recipient
      allowed == r # 0 /\ directory[r].active /\ StatusAllowsDial
      authorized == allowed /\ TargetAuthorized(coord.target, directory[r].phone) IN
  /\ refer.twilio = "referred"
  /\ refer' = [refer EXCEPT !.twilio = IF authorized THEN "dialing" ELSE "over"]
  /\ past' = IF authorized THEN [past EXCEPT !.dialled = directory[r].phone] ELSE past
  /\ \/ /\ cases' = IF allowed /\ ~authorized THEN Marked(LastCase, "transfer_failed") ELSE cases
        /\ UNCHANGED counters
     \/ allowed /\ ~authorized /\ Fault /\ UNCHANGED cases   \* the mark is not recorded
  /\ UNCHANGED <<directory, outcome, agent, coord, tool, openai>>

\* The dial's result: completed, or busy, no-answer, failed or canceled.
HandoffFinished(completed) ==
  /\ refer.twilio = "dialing"
  /\ refer' = [refer EXCEPT !.twilio = "over"]
  /\ cases' = IF completed THEN cases ELSE Marked(LastCase, "transfer_failed")
  /\ UNCHANGED <<directory, outcome, agent, coord, tool, openai, past, counters>>

------------------------------------------------------------------------------
\* Operators and the caller

ResolveEscalation(c) ==
  /\ cases[c].status = "started"
  /\ cases' = [cases EXCEPT ![c].status = "resolved", ![c].closedBy = "operator"]
  /\ UNCHANGED <<directory, outcome, agent, coord, tool, openai, refer, past, counters>>

Edit == edits < MaxEdits /\ edits' = edits + 1 /\ UNCHANGED faults

UpdateRecipient(r) ==
  /\ Edit
  /\ directory' = [directory EXCEPT ![r].phone = [of |-> r, edit |-> edits + 1]]
  /\ UNCHANGED <<cases, outcome, agent, coord, tool, openai, refer, past>>

ToggleRecipient(r) ==
  /\ Edit
  /\ directory' = [directory EXCEPT ![r].active = ~@]
  /\ UNCHANGED <<cases, outcome, agent, coord, tool, openai, refer, past>>

\* The sideband closes; the callback of the call records its end.
HangUp ==
  /\ agent.open
  /\ agent' = [agent EXCEPT !.open = FALSE]
  /\ outcome' = IF outcome = "active" THEN "completed" ELSE outcome
  /\ UNCHANGED <<cases, directory, coord, tool, openai, refer, past, counters>>

------------------------------------------------------------------------------
Tools ==
  \/ CreateCase \/ CreateRefused \/ PersistCancel \/ CancelRefused
  \/ \E failed \in BOOLEAN : Refresh(failed)
  \/ SessionUpdated \/ SessionUpdateFailed \/ ToolEnds

ModelCalls == FlowCommand \/ Escalate \/ ConfirmEscalation \/ CancelEscalation

Audio == ModelAnswers \/ UpdateArrives \/ FarewellStarts \/ AudioStops \/ CallerSpeaks
Handlers == HandleCreated \/ HandleStopped
Refers == ReferPassedOn \/ ReferAccepted \/ ReferFailed \/ MarkHandoff \/ MarkLost
Twilio == HandoffRefer \/ \E completed \in BOOLEAN : HandoffFinished(completed)
Operators ==
  \/ \E c \in Case : ResolveEscalation(c)
  \/ \E r \in Recipient : UpdateRecipient(r) \/ ToggleRecipient(r)

Next == ModelCalls \/ Tools \/ Audio \/ Handlers \/ Refers \/ Twilio \/ Operators \/ HangUp

Spec == Init /\ [][Next]_vars

\* Awaited calls return or throw, events are delivered and handled in order, OpenAI
\* applies an update, plays what it was asked for and stops.
Fairness ==
  /\ WF_vars(Tools) /\ WF_vars(Handlers)
  /\ WF_vars(UpdateArrives) /\ WF_vars(FarewellStarts) /\ WF_vars(AudioStops)

FairSpec == Spec /\ Fairness

------------------------------------------------------------------------------
\* Safety

\* docs/escalation-return.md: REFER is sent once, even with duplicated audio events
\* or an uncertain result of the network.
OneRefer == past.refers <= 1

\* A transfer is made for the review whose confirmation the caller gave, which was
\* persisted before, and to the recipient that was chosen for it.
TransferWasConfirmed ==
  past.refers > 0 => /\ past.case \in past.confirmed
                     /\ cases[past.case].recipient = coord.target.of

\* The telephone that rings is the one the REFER named, whatever operators did to the
\* directory in between.
DialledIsTheTarget == past.dialled # NoPhone => past.dialled = coord.target

TransferIsSafe == OneRefer /\ TransferWasConfirmed /\ DialledIsTheTarget

------------------------------------------------------------------------------
\* Liveness

\* What must end: once the coordinator follows the farewell itself, its REFER is
\* sent.  No speech or noise of the caller and no late cancellation disarms it,
\* only the call may end.
FarewellFollowed == coord.farewell # 0 /\ coord.farewell = openai.farewell
FarewellEnded == refer.request # "none" \/ ~agent.open
==============================================================================
