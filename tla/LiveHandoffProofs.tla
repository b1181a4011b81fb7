-------------------------- MODULE LiveHandoffProofs --------------------------
(***************************************************************************)
(* One transfer, to the person the caller confirmed, for any number of     *)
(* reviews, recipients, edits of the directory, lost replies and repeated  *)
(* events of the audio.                                                    *)
(*                                                                         *)
(* What makes it safe is spread over the agent, the coordinator and the    *)
(* review's row, so the invariant says how the three agree:                *)
(*   ReviewInHand  the coordinator's target is the telephone of the review *)
(*                 the agent has in hand, and belongs to its recipient;    *)
(*   ToolInHand    a tool that changes the review in hand is not running   *)
(*                 once the review is confirmed;                           *)
(*   ReferMade     nothing follows a farewell or sends a REFER but a       *)
(*                 confirmation, and the target has not moved since.       *)
(***************************************************************************)
EXTENDS LiveHandoff, WellFoundedInduction, TLAPS

\* The phone in hand belongs to the recipient of the case in hand, and is the target.
ReviewInHand ==
  /\ ~agent.pending => agent.case = 0 /\ agent.phone = NoPhone
  /\ coord.target = agent.phone
  /\ agent.phone # NoPhone => /\ agent.case # 0
                              /\ cases[agent.case].recipient = agent.phone.of
  /\ \A r \in Recipient : directory[r].phone.of = r

\* Tools run one at a time, and a confirmation is the last of them.
ToolInHand ==
  /\ tool.pc = "creating" => tool.name = "escalate" /\ ~agent.pending
  /\ tool.pc = "cancelling" => tool.name = "cancel_escalation"
  /\ Confirms => agent.case \in past.confirmed /\ agent.case # 0 /\ Prepared
  /\ agent.ready => agent.confirmed
  /\ agent.confirmed => Confirms

\* From the farewell to the telephone that rings.
ReferMade ==
  /\ coord.awaiting \/ coord.farewell # 0 \/ coord.started => agent.confirmed
  /\ past.refers = IF coord.started THEN 1 ELSE 0
  /\ coord.started => past.case = agent.case
  /\ refer.request # "none" \/ refer.twilio # "none" => coord.started
  /\ past.dialled # NoPhone => coord.started /\ past.dialled = coord.target

HandoffInv == TypeOK /\ ReviewInHand /\ ToolInHand /\ ReferMade

------------------------------------------------------------------------------
\* Updates of records

LEMMA Numbers ==
  ASSUME HandoffAssumption
  PROVE  /\ Recipients \in Nat /\ MaxCases \in Nat /\ MaxResponses \in Nat
         /\ MaxEdits \in Nat /\ MaxFaults \in Nat
BY DEF HandoffAssumption

\* Min of a set of numbers is one of them.
LEMMA LeastIn ==
  ASSUME NEW N \in SUBSET Nat, N # {} PROVE Min(N) \in N
<1>1. PICK x \in N : \A y \in N : ~ (<<y, x>> \in OpToRel(<, Nat))
  BY NatLessThanWellFounded, WFMin
<1>2. ASSUME NEW y \in N PROVE x <= y
  <2>1. ~ (y < x)
    BY <1>1 DEF OpToRel
  <2> QED
    BY <2>1
<1> QED
  BY <1>2 DEF Min

\* A mark changes the state of a transfer and nothing else.
LEMMA Marking ==
  ASSUME cases \in [Case -> CaseRow], NEW c,
         NEW s \in {"transfer_requested", "transfer_failed"}
  PROVE  /\ Marked(c, s) \in [Case -> CaseRow]
         /\ \A d \in Case : Marked(c, s)[d].recipient = cases[d].recipient
<1>1. ASSUME c \in Case PROVE [cases[c] EXCEPT !.handoff = s] \in CaseRow
  BY <1>1 DEF CaseRow
<1>2. ASSUME c \in Case PROVE [cases[c] EXCEPT !.handoff = s].recipient = cases[c].recipient
  BY <1>2 DEF CaseRow
<1> QED
  BY <1>1, <1>2 DEF Marked

\* Nor does closing a review.
LEMMA Closing ==
  ASSUME cases \in [Case -> CaseRow], NEW c, NEW who \in {"caller", "operator"},
         cases' = [cases EXCEPT ![c].status = "resolved", ![c].closedBy = who]
  PROVE  /\ cases' \in [Case -> CaseRow]
         /\ \A d \in Case : cases'[d].recipient = cases[d].recipient
<1>1. PICK one : one = [cases EXCEPT ![c].status = "resolved"]
  OBVIOUS
<1>2. one \in [Case -> CaseRow] /\ \A d \in Case : one[d].recipient = cases[d].recipient
  <2>1. ASSUME c \in Case
        PROVE  /\ [cases[c] EXCEPT !.status = "resolved"] \in CaseRow
               /\ [cases[c] EXCEPT !.status = "resolved"].recipient = cases[c].recipient
    BY <2>1 DEF CaseRow
  <2> QED
    BY <1>1, <2>1
<1>3. cases' = [one EXCEPT ![c].closedBy = who]
  BY <1>1
<1>4. ASSUME c \in Case
      PROVE  /\ [one[c] EXCEPT !.closedBy = who] \in CaseRow
             /\ [one[c] EXCEPT !.closedBy = who].recipient = one[c].recipient
  <2>1. PICK row \in CaseRow : row = one[c]
    BY <1>2, <1>4
  <2>2. /\ [row EXCEPT !.closedBy = who] \in CaseRow
        /\ [row EXCEPT !.closedBy = who].recipient = row.recipient
    BY DEF CaseRow
  <2> QED
    BY <2>1, <2>2
<1> QED
  BY <1>2, <1>3, <1>4

------------------------------------------------------------------------------
\* The three agreements, when a step leaves them alone

\* A step that keeps the review in hand, its target and its recipient.
LEMMA ReviewKept ==
  ASSUME ReviewInHand, TypeOK,
         agent'.pending = agent.pending, agent'.case = agent.case, agent'.phone = agent.phone,
         coord'.target = coord.target,
         \A c \in Case : cases'[c].recipient = cases[c].recipient,
         \A r \in Recipient : directory'[r].phone.of = r
  PROVE  ReviewInHand'
<1>1. agent.case # 0 => agent.case \in Case
  BY DEF TypeOK, AgentState, Case
<1> QED
  BY <1>1 DEF ReviewInHand

LEMMA ToolKept ==
  ASSUME ToolInHand, tool' = tool, agent'.pending = agent.pending, agent'.case = agent.case,
         agent'.ready = agent.ready, agent'.confirmed = agent.confirmed,
         coord'.target = coord.target, past'.confirmed = past.confirmed
  PROVE  ToolInHand'
BY DEF ToolInHand, Confirms, Prepared

LEMMA ReferKept ==
  ASSUME ReferMade, agent'.confirmed = agent.confirmed, agent'.case = agent.case,
         coord'.target = coord.target, coord'.started = coord.started,
         coord'.awaiting \/ coord'.farewell # 0 => coord.awaiting \/ coord.farewell # 0,
         past'.refers = past.refers, past'.case = past.case, past'.dialled = past.dialled,
         refer'.request # "none" \/ refer'.twilio # "none" =>
           refer.request # "none" \/ refer.twilio # "none"
  PROVE  ReferMade'
BY DEF ReferMade

\* A confirmation keeps its review, whose phone is the target of the transfer.
LEMMA ConfirmedReview ==
  ASSUME HandoffInv, agent.confirmed
  PROVE  /\ agent.case \in past.confirmed /\ agent.case # 0 /\ coord.target # NoPhone
         /\ cases[agent.case].recipient = coord.target.of
         /\ tool.pc # "creating" /\ tool.pc # "cancelling"
BY DEF HandoffInv, ReviewInHand, ToolInHand, Confirms, Prepared

------------------------------------------------------------------------------
\* Each step

LEMMA InitHandoff ==
  ASSUME HandoffAssumption, Init PROVE HandoffInv
<1> USE Numbers
<1>1. TypeOK
  <2>1. cases \in [Case -> CaseRow]
    BY DEF Init, NoCase, CaseRow
  <2>2. directory \in [Recipient -> [active : BOOLEAN, phone : Phone]]
    BY DEF Init, Phone
  <2>3. agent \in AgentState /\ coord \in Coordinator
    BY DEF Init, AgentState, Coordinator
  <2>4. tool \in ToolState /\ openai \in Sideband /\ refer \in ReferState
    BY DEF Init, ToolState, ToolName, Sideband, ReferState
  <2>5. past \in [refers : Nat, case : 0 .. MaxCases, confirmed : SUBSET (0 .. MaxCases),
                  dialled : Phone \cup {NoPhone}]
    BY DEF Init
  <2> QED
    BY <2>1, <2>2, <2>3, <2>4, <2>5 DEF TypeOK, Init
<1>2. ReviewInHand
  BY DEF Init, ReviewInHand
<1>3. ToolInHand /\ ReferMade
  BY DEF Init, ToolInHand, ReferMade, Confirms
<1> QED
  BY <1>1, <1>2, <1>3 DEF HandoffInv

\* One more fault is within the bound.
LEMMA Faults ==
  ASSUME HandoffAssumption, TypeOK, Fault \/ UNCHANGED counters
  PROVE  faults' \in 0 .. MaxFaults /\ edits' \in 0 .. MaxEdits
BY Numbers DEF Fault, counters, TypeOK

\* The result of a tool.
LEMMA Finishing ==
  ASSUME tool \in ToolState, NEW ok \in BOOLEAN, Finish(ok)
  PROVE  /\ tool' \in ToolState /\ tool'.name = tool.name /\ tool'.ok = ok
         /\ tool'.pc = "refresh"
BY DEF Finish, ToolState

\* The start of one.
LEMMA Starting ==
  ASSUME NEW name \in ToolName, NEW pc \in {"creating", "cancelling", "refresh"},
         NEW ok \in BOOLEAN, Start(name, pc, ok)
  PROVE  /\ tool' \in ToolState /\ tool'.name = name /\ tool'.ok = ok /\ tool'.pc = pc
BY DEF Start, ToolState

\* A cancellation disarms the coordinator.
LEMMA Disarming ==
  ASSUME HandoffAssumption, NEW c \in Coordinator
  PROVE  /\ CancelBegun(c) \in Coordinator /\ CancelBegun(c).target = c.target
         /\ CancelBegun(c).started = c.started
         /\ ~CancelBegun(c).awaiting /\ CancelBegun(c).farewell = 0
<1>1. PICK one : one = [c EXCEPT !.awaiting = FALSE]
  OBVIOUS
<1>2. one \in Coordinator /\ one.target = c.target /\ one.started = c.started /\ ~one.awaiting
  BY <1>1 DEF Coordinator
<1>3. PICK two : two = [one EXCEPT !.farewell = 0]
  OBVIOUS
<1>4. /\ two \in Coordinator /\ two.target = c.target /\ two.started = c.started
      /\ ~two.awaiting /\ two.farewell = 0
  BY <1>2, <1>3, Numbers DEF Coordinator
<1>5. CancelBegun(c) = [two EXCEPT !.cancelling = TRUE]
  BY <1>1, <1>3 DEF CancelBegun, Disarmed
<1> QED
  BY <1>4, <1>5 DEF Coordinator

\* The call of a tool: commands, a review asked for, and the confirmation.
LEMMA CallsKeep ==
  ASSUME HandoffAssumption, HandoffInv, ModelCalls PROVE HandoffInv'
<1> USE DEF durable, counters
<1>1. CASE FlowCommand \/ Escalate
  <2>1. /\ ~agent.confirmed /\ ~agent.pending
        /\ tool' \in ToolState /\ tool'.name \in {"command", "escalate"}
        /\ tool'.pc = "creating" => tool'.name = "escalate"
        /\ tool'.pc # "cancelling"
    <3>1. "command" \in ToolName /\ "escalate" \in ToolName
      BY DEF ToolName
    <3>2. CASE FlowCommand
      BY <3>1, <3>2, Starting DEF FlowCommand, MayCall, Offered
    <3>3. CASE Escalate
      BY <3>1, <3>3, Starting DEF Escalate, MayCall, Offered
    <3> QED
      BY <1>1, <3>2, <3>3
  <2>2. UNCHANGED <<durable, agent, coord, openai, refer, past, counters>>
    BY <1>1 DEF FlowCommand, Escalate
  <2>3. TypeOK'
    BY <2>1, <2>2 DEF HandoffInv, TypeOK
  <2>4. ReviewInHand' /\ ReferMade'
    BY <2>2 DEF HandoffInv, ReviewInHand, ReferMade
  <2>5. ToolInHand'
    BY <2>1, <2>2 DEF HandoffInv, ToolInHand, Confirms
  <2> QED
    BY <2>3, <2>4, <2>5 DEF HandoffInv
<1>2. CASE ConfirmEscalation
  <2>1. /\ ~agent.confirmed
        /\ tool' \in ToolState /\ tool'.name = "confirm_escalation"
        /\ tool'.pc = "refresh" /\ tool'.ok = Confirmable
    BY <1>2 DEF ConfirmEscalation, MayCall, Start, ToolState, ToolName, Confirmable,
       CanReturn, Prepared
  <2>2. UNCHANGED <<durable, agent, coord, openai, refer, counters>>
    BY <1>2 DEF ConfirmEscalation
  <2>3. /\ past' \in [refers : Nat, case : 0 .. MaxCases, confirmed : SUBSET (0 .. MaxCases),
                      dialled : Phone \cup {NoPhone}]
        /\ past'.refers = past.refers /\ past'.case = past.case /\ past'.dialled = past.dialled
        /\ Confirmable => agent.case \in past'.confirmed
    BY <1>2 DEF ConfirmEscalation, HandoffInv, TypeOK, AgentState
  <2>4. TypeOK'
    BY <2>1, <2>2, <2>3 DEF HandoffInv, TypeOK
  <2>5. ReviewInHand'
    BY <2>2 DEF HandoffInv, ReviewInHand
  <2>6. ReferMade'
    BY <2>2, <2>3 DEF HandoffInv, ReferMade
  <2>7. ToolInHand'
    BY <2>1, <2>2, <2>3 DEF HandoffInv, ToolInHand, Confirms, Confirmable, Prepared
  <2> QED
    BY <2>4, <2>5, <2>6, <2>7 DEF HandoffInv
<1>3. CASE CancelEscalation
  <2>1. /\ ~agent.confirmed /\ tool' \in ToolState /\ tool'.name = "cancel_escalation"
        /\ tool'.pc # "creating"
    <3>1. "cancel_escalation" \in ToolName
      BY DEF ToolName
    <3>2. ~agent.confirmed
      BY <1>3 DEF CancelEscalation, MayCall
    <3>3. CASE Start("cancel_escalation", "cancelling", FALSE)
      BY <3>1, <3>2, <3>3, Starting
    <3>4. CASE Start("cancel_escalation", "refresh", FALSE)
      BY <3>1, <3>2, <3>4, Starting
    <3> QED
      BY <1>3, <3>3, <3>4 DEF CancelEscalation
  <2>2. UNCHANGED <<durable, agent, openai, refer, past, counters>>
    BY <1>3 DEF CancelEscalation
  <2>3. /\ coord' \in Coordinator /\ coord'.target = coord.target
        /\ coord'.started = coord.started
        /\ coord'.awaiting \/ coord'.farewell # 0 => coord.awaiting \/ coord.farewell # 0
    <3>1. coord \in Coordinator
      BY DEF HandoffInv, TypeOK
    <3>2. coord' = coord \/ coord' = CancelBegun(coord)
      BY <1>3 DEF CancelEscalation
    <3> QED
      BY <3>1, <3>2, Disarming
  <2>4. TypeOK'
    BY <2>1, <2>2, <2>3 DEF HandoffInv, TypeOK
  <2>5. ReviewInHand'
    BY <2>2, <2>3 DEF HandoffInv, ReviewInHand
  <2>6. ReferMade'
    BY <2>2, <2>3, ReferKept DEF HandoffInv
  <2>7. ToolInHand'
    BY <2>1, <2>2 DEF HandoffInv, ToolInHand, Confirms
  <2> QED
    BY <2>4, <2>5, <2>6, <2>7 DEF HandoffInv
<1> QED
  BY <1>1, <1>2, <1>3 DEF ModelCalls

\* A new review is a proper row, for the first active recipient if there is one.
LEMMA NewReview ==
  ASSUME HandoffAssumption, TypeOK
  PROVE  NewCase \in CaseRow
<1>1. CASE ActiveRecipients = {}
  <2>1. NewCase = [status |-> "started", handoff |-> "not_configured", recipient |-> 0,
                   closedBy |-> "nobody"]
    BY <1>1 DEF NewCase, NoCase
  <2> QED
    BY <2>1, Numbers DEF CaseRow
<1>2. CASE ActiveRecipients # {}
  <2>1. ActiveRecipients \in SUBSET Nat /\ ActiveRecipients \subseteq 0 .. Recipients
    BY Numbers DEF ActiveRecipients, Recipient
  <2>2. PICK r : r = Min(ActiveRecipients)
    OBVIOUS
  <2>3. r \in 0 .. Recipients
    BY <1>2, <2>1, <2>2, LeastIn
  <2>4. NewCase = [[NoCase EXCEPT !.status = "started"] EXCEPT !.recipient = r]
    BY <1>2, <2>2 DEF NewCase, NoCase
  <2> QED
    BY <2>3, <2>4 DEF NoCase, CaseRow
<1> QED
  BY <1>1, <1>2

LEMMA CreateKeeps ==
  ASSUME HandoffAssumption, HandoffInv, CreateCase PROVE HandoffInv'
<1> DEFINE c == Min(Fresh)
<1> DEFINE phone == IF NewCase.recipient = 0 THEN NoPhone ELSE directory[NewCase.recipient].phone
<1>1. /\ tool.name = "escalate" /\ ~agent.pending /\ ~agent.confirmed
      /\ agent.case = 0 /\ agent.phone = NoPhone /\ coord.target = NoPhone
  BY DEF CreateCase, HandoffInv, ToolInHand, ReviewInHand, Confirms
<1>2. c \in Case /\ NewCase \in CaseRow /\ cases' = [cases EXCEPT ![c] = NewCase]
  <2>1. Fresh \in SUBSET Nat /\ Fresh \subseteq Case /\ Fresh # {}
    BY Numbers DEF Fresh, Case, CreateCase, Creatable
  <2>2. c \in Case
    BY <2>1, LeastIn
  <2> QED
    BY <2>2, NewReview DEF CreateCase, HandoffInv
<1>3. cases' \in [Case -> CaseRow] /\ cases'[c] = NewCase
  BY <1>2 DEF HandoffInv, TypeOK
<1>4. phone \in Phone \cup {NoPhone} /\ (phone # NoPhone => phone.of = NewCase.recipient)
  <2>1. NewCase.recipient = 0 \/ NewCase.recipient \in Recipient
    BY <1>2, Numbers DEF CaseRow, Recipient
  <2> QED
    BY <2>1 DEF HandoffInv, TypeOK, ReviewInHand
<1>5. UNCHANGED <<directory, outcome, openai, refer, past>>
  BY DEF CreateCase
<1>6. tool' \in ToolState /\ tool'.name = "escalate" /\ tool'.pc = "refresh"
  <2>1. tool \in ToolState
    BY DEF HandoffInv, TypeOK
  <2>2. Finish(TRUE) \/ Finish(FALSE)
    BY DEF CreateCase
  <2> QED
    BY <1>1, <2>1, <2>2, Finishing
<1>7. faults' \in 0 .. MaxFaults /\ edits' \in 0 .. MaxEdits
  BY Faults DEF HandoffInv, CreateCase
<1> HIDE DEF c, phone
<1>8. CASE UNCHANGED <<agent, coord>>
  <2>1. TypeOK'
    BY <1>3, <1>5, <1>6, <1>7, <1>8 DEF HandoffInv, TypeOK
  <2>2. ReviewInHand'
    BY <1>1, <1>5, <1>8 DEF HandoffInv, ReviewInHand
  <2>3. ToolInHand'
    BY <1>1, <1>5, <1>6, <1>8 DEF HandoffInv, ToolInHand, Confirms
  <2>4. ReferMade'
    BY <1>5, <1>8 DEF HandoffInv, ReferMade
  <2> QED
    BY <2>1, <2>2, <2>3, <2>4 DEF HandoffInv
<1>9. CASE PrepareHandoff(c, NewCase)
  <2>1. /\ agent' = [agent EXCEPT !.pending = TRUE, !.case = c, !.phone = phone]
        /\ coord' = [coord EXCEPT !.target = phone]
    BY <1>1, <1>9 DEF PrepareHandoff, Prepared, phone
  <2>2. /\ agent' \in AgentState /\ agent'.pending /\ agent'.case = c /\ agent'.phone = phone
        /\ agent'.ready = agent.ready /\ agent'.confirmed = agent.confirmed
    <3>1. agent \in AgentState /\ c \in 0 .. MaxCases
      BY <1>2, Numbers DEF HandoffInv, TypeOK, Case
    <3>2. PICK one : one = [agent EXCEPT !.pending = TRUE]
      OBVIOUS
    <3>3. /\ one \in AgentState /\ one.pending
          /\ one.ready = agent.ready /\ one.confirmed = agent.confirmed
      BY <3>1, <3>2 DEF AgentState
    <3>4. PICK two : two = [one EXCEPT !.case = c]
      OBVIOUS
    <3>5. /\ two \in AgentState /\ two.pending /\ two.case = c
          /\ two.ready = agent.ready /\ two.confirmed = agent.confirmed
      BY <3>1, <3>3, <3>4 DEF AgentState
    <3>6. agent' = [two EXCEPT !.phone = phone]
      BY <2>1, <3>2, <3>4
    <3> QED
      BY <1>4, <3>5, <3>6 DEF AgentState
  <2>3. /\ coord' \in Coordinator /\ coord'.target = phone
        /\ coord'.started = coord.started /\ coord'.awaiting = coord.awaiting
        /\ coord'.farewell = coord.farewell
    BY <1>4, <2>1 DEF HandoffInv, TypeOK, Coordinator
  <2>4. TypeOK'
    BY <1>3, <1>5, <1>6, <1>7, <2>2, <2>3 DEF HandoffInv, TypeOK
  <2>5. ReviewInHand'
    BY <1>2, <1>3, <1>4, <1>5, <2>2, <2>3, Numbers DEF HandoffInv, ReviewInHand, Case
  <2>6. ToolInHand'
    BY <1>1, <1>5, <1>6, <2>2 DEF HandoffInv, ToolInHand, Confirms
  <2>7. ReferMade'
    BY <1>1, <1>5, <2>2, <2>3 DEF HandoffInv, ReferMade
  <2> QED
    BY <2>4, <2>5, <2>6, <2>7 DEF HandoffInv
<1> QED
  BY <1>8, <1>9 DEF CreateCase, c

\* The two tools that change the review in hand may leave everything as it was.
LEMMA RefusalKeeps ==
  ASSUME HandoffAssumption, HandoffInv, CreateRefused \/ CancelRefused PROVE HandoffInv'
<1>1. UNCHANGED <<durable, agent, openai, refer, past>>
  BY DEF CreateRefused, CancelRefused
<1>2. /\ tool' \in ToolState /\ tool'.name \in {"escalate", "cancel_escalation"}
      /\ tool'.pc = "refresh"
  BY Finishing DEF CreateRefused, CancelRefused, HandoffInv, TypeOK, ToolInHand
<1>3. /\ coord' \in Coordinator /\ coord'.target = coord.target
      /\ coord'.started = coord.started /\ coord'.awaiting = coord.awaiting
      /\ coord'.farewell = coord.farewell
  BY DEF CreateRefused, CancelRefused, CancelFailed, HandoffInv, TypeOK, Coordinator
<1>4. faults' \in 0 .. MaxFaults /\ edits' \in 0 .. MaxEdits
  <2>1. Fault \/ UNCHANGED counters
    BY DEF CreateRefused, CancelRefused
  <2> QED
    BY <2>1, Faults DEF HandoffInv
<1>5. ~agent.confirmed
  BY DEF CreateRefused, CancelRefused, HandoffInv, ToolInHand, Confirms
<1>6. TypeOK'
  BY <1>1, <1>2, <1>3, <1>4 DEF HandoffInv, TypeOK, durable
<1>7. ReviewInHand'
  BY <1>1, <1>3 DEF HandoffInv, ReviewInHand, durable
<1>8. ToolInHand'
  BY <1>1, <1>2, <1>5 DEF HandoffInv, ToolInHand, Confirms
<1>9. ReferMade'
  BY <1>1, <1>3 DEF HandoffInv, ReferMade
<1> QED
  BY <1>6, <1>7, <1>8, <1>9 DEF HandoffInv

LEMMA CancelKeeps ==
  ASSUME HandoffAssumption, HandoffInv, PersistCancel PROVE HandoffInv'
<1>1. UNCHANGED <<directory, outcome, openai, refer, past>>
  BY DEF PersistCancel
<1>2. /\ tool' \in ToolState /\ tool'.name = "cancel_escalation" /\ tool'.pc = "refresh"
      /\ ~agent.confirmed
  <2>1. tool \in ToolState /\ tool.name = "cancel_escalation" /\ ~agent.confirmed
    BY DEF PersistCancel, HandoffInv, TypeOK, ToolInHand, Confirms
  <2>2. Finish(TRUE) \/ Finish(FALSE)
    BY DEF PersistCancel
  <2> QED
    BY <2>1, <2>2, Finishing
<1>3. /\ cases' \in [Case -> CaseRow]
      /\ \A d \in Case : cases'[d].recipient = cases[d].recipient
  <2>1. cases \in [Case -> CaseRow]
    BY DEF HandoffInv, TypeOK
  <2>2. cases' = [cases EXCEPT ![agent.case].status = "resolved", ![agent.case].closedBy = "caller"]
    BY DEF PersistCancel
  <2> QED
    BY <2>1, <2>2, Closing, "caller" \in {"caller", "operator"}
<1>4. faults' \in 0 .. MaxFaults /\ edits' \in 0 .. MaxEdits
  <2>1. Fault \/ UNCHANGED counters
    BY DEF PersistCancel
  <2> QED
    BY <2>1, Faults DEF HandoffInv
<1>5. coord \in Coordinator /\ agent \in AgentState
  BY DEF HandoffInv, TypeOK
<1>6. CASE /\ coord' = CancelDone(coord)
           /\ agent' = [agent EXCEPT !.pending = FALSE, !.case = 0, !.phone = NoPhone]
  <2>1. /\ coord' \in Coordinator /\ coord'.target = NoPhone
        /\ coord'.started = coord.started /\ coord'.awaiting = coord.awaiting
        /\ coord'.farewell = coord.farewell
    BY <1>5, <1>6 DEF CancelDone, Coordinator
  <2>2. /\ agent' \in AgentState /\ agent'.case = 0 /\ agent'.phone = NoPhone
        /\ agent'.ready = agent.ready /\ agent'.confirmed = agent.confirmed
    <3>1. PICK one : one = [agent EXCEPT !.pending = FALSE]
      OBVIOUS
    <3>2. one \in AgentState /\ one.ready = agent.ready /\ one.confirmed = agent.confirmed
      BY <1>5, <3>1 DEF AgentState
    <3>3. PICK two : two = [one EXCEPT !.case = 0]
      OBVIOUS
    <3>4. /\ two \in AgentState /\ two.case = 0
          /\ two.ready = agent.ready /\ two.confirmed = agent.confirmed
      BY <3>2, <3>3, Numbers DEF AgentState
    <3>5. agent' = [two EXCEPT !.phone = NoPhone]
      BY <1>6, <3>1, <3>3
    <3> QED
      BY <3>4, <3>5 DEF AgentState
  <2>3. TypeOK'
    BY <1>1, <1>2, <1>3, <1>4, <2>1, <2>2 DEF HandoffInv, TypeOK
  <2>4. ReviewInHand'
    BY <1>1, <2>1, <2>2 DEF HandoffInv, ReviewInHand
  <2>5. ToolInHand'
    BY <1>1, <1>2, <2>2 DEF HandoffInv, ToolInHand, Confirms
  <2>6. ReferMade'
    BY <1>1, <1>2, <2>1, <2>2 DEF HandoffInv, ReferMade
  <2> QED
    BY <2>3, <2>4, <2>5, <2>6 DEF HandoffInv
<1>7. CASE coord' = CancelFailed(coord) /\ UNCHANGED agent
  <2>1. /\ coord' \in Coordinator /\ coord'.target = coord.target
        /\ coord'.started = coord.started /\ coord'.awaiting = coord.awaiting
        /\ coord'.farewell = coord.farewell
    BY <1>5, <1>7 DEF CancelFailed, Coordinator
  <2>2. TypeOK'
    BY <1>1, <1>2, <1>3, <1>4, <1>7, <2>1 DEF HandoffInv, TypeOK
  <2>3. ReviewInHand'
    <3>1. \A r \in Recipient : directory'[r].phone.of = r
      BY <1>1 DEF HandoffInv, ReviewInHand
    <3> QED
      BY <1>3, <1>7, <2>1, <3>1, ReviewKept DEF HandoffInv
  <2>4. ToolInHand'
    BY <1>1, <1>2, <1>7 DEF HandoffInv, ToolInHand, Confirms
  <2>5. ReferMade'
    BY <1>1, <1>7, <2>1 DEF HandoffInv, ReferMade
  <2> QED
    BY <2>2, <2>3, <2>4, <2>5 DEF HandoffInv
<1> QED
  BY <1>6, <1>7 DEF PersistCancel

\* The session is refreshed; a confirmation is on record from here.
LEMMA RefreshKeeps ==
  ASSUME HandoffAssumption, HandoffInv, NEW failed \in BOOLEAN, Refresh(failed)
  PROVE  HandoffInv'
<1> DEFINE confirmed == agent.confirmed \/ Confirms
<1>1. UNCHANGED <<cases, directory, outcome, coord, refer, past>>
  BY DEF Refresh, durable
<1>2. confirmed = Confirms /\ confirmed \in BOOLEAN
  BY DEF HandoffInv, TypeOK, ToolInHand, ToolState, AgentState, Confirms
<1>3. /\ agent' \in AgentState /\ agent'.pending = agent.pending
      /\ agent'.case = agent.case /\ agent'.phone = agent.phone
      /\ agent'.ready = Confirms /\ agent'.confirmed = confirmed
  <2>1. agent \in AgentState
    BY DEF HandoffInv, TypeOK
  <2>2. PICK one : one = [agent EXCEPT !.ready = Confirms]
    OBVIOUS
  <2>3. /\ one \in AgentState /\ one.pending = agent.pending
        /\ one.case = agent.case /\ one.phone = agent.phone /\ one.ready = Confirms
    BY <1>2, <2>1, <2>2 DEF AgentState
  <2>4. PICK two : two = [one EXCEPT !.confirmed = confirmed]
    OBVIOUS
  <2>5. /\ two \in AgentState /\ two.pending = agent.pending
        /\ two.case = agent.case /\ two.phone = agent.phone
        /\ two.ready = Confirms /\ two.confirmed = confirmed
    BY <1>2, <2>3, <2>4 DEF AgentState
  <2>6. agent' = [two EXCEPT !.tools = ~failed /\ ~confirmed]
    BY <2>2, <2>4 DEF Refresh
  <2> QED
    BY <1>2, <2>5, <2>6 DEF AgentState
<1>4. /\ tool' \in ToolState /\ tool'.name = tool.name /\ tool'.ok = tool.ok
      /\ tool'.pc = "update"
  BY DEF Refresh, HandoffInv, TypeOK, ToolState
<1>5. openai' \in Sideband
  BY DEF Refresh, HandoffInv, TypeOK, Sideband
<1>6. faults' \in 0 .. MaxFaults /\ edits' \in 0 .. MaxEdits
  <2>1. Fault \/ UNCHANGED counters
    BY DEF Refresh
  <2> QED
    BY <2>1, Faults DEF HandoffInv
<1> HIDE DEF confirmed
<1>7. TypeOK'
  BY <1>1, <1>3, <1>4, <1>5, <1>6 DEF HandoffInv, TypeOK
<1>8. ReviewInHand'
  BY <1>1, <1>3 DEF HandoffInv, ReviewInHand
<1>9. ToolInHand'
  BY <1>1, <1>2, <1>3, <1>4 DEF HandoffInv, ToolInHand, Confirms, Prepared
<1>10. ReferMade'
  <2>1. agent.confirmed => agent'.confirmed
    BY <1>2, <1>3 DEF HandoffInv, ToolInHand
  <2> QED
    BY <1>1, <1>3, <2>1 DEF HandoffInv, ReferMade
<1> QED
  BY <1>7, <1>8, <1>9, <1>10 DEF HandoffInv

\* The update of the session, and the end of the tool.
LEMMA UpdateKeeps ==
  ASSUME HandoffAssumption, HandoffInv, SessionUpdated \/ SessionUpdateFailed PROVE HandoffInv'
<1>1. UNCHANGED <<durable, coord, openai, refer, past>>
  BY DEF SessionUpdated, SessionUpdateFailed
<1>2. /\ tool' \in ToolState /\ tool'.name = tool.name /\ tool'.ok = tool.ok
      /\ tool'.pc \in {"idle", "flushed"}
  BY DEF SessionUpdated, SessionUpdateFailed, HandoffInv, TypeOK, ToolState
<1>3. /\ agent' \in AgentState /\ agent'.pending = agent.pending
      /\ agent'.case = agent.case /\ agent'.phone = agent.phone
      /\ agent'.ready => agent.ready
      /\ agent'.confirmed = agent.confirmed
  BY DEF SessionUpdated, SessionUpdateFailed, HandoffInv, TypeOK, AgentState
<1>4. faults' \in 0 .. MaxFaults /\ edits' \in 0 .. MaxEdits
  <2>1. Fault \/ UNCHANGED counters
    BY DEF SessionUpdated, SessionUpdateFailed
  <2> QED
    BY <2>1, Faults DEF HandoffInv
<1>5. TypeOK'
  BY <1>1, <1>2, <1>3, <1>4 DEF HandoffInv, TypeOK, durable
<1>6. ReviewInHand'
  BY <1>1, <1>3 DEF HandoffInv, ReviewInHand, durable
<1>7. ToolInHand'
  BY <1>1, <1>2, <1>3 DEF HandoffInv, ToolInHand, Confirms, Prepared
<1>8. ReferMade'
  BY <1>1, <1>3 DEF HandoffInv, ReferMade
<1> QED
  BY <1>5, <1>6, <1>7, <1>8 DEF HandoffInv

LEMMA EndKeeps ==
  ASSUME HandoffAssumption, HandoffInv, ToolEnds PROVE HandoffInv'
<1>1. UNCHANGED <<durable, refer, past, counters>>
  BY DEF ToolEnds
<1>2. /\ tool' \in ToolState /\ tool'.name = tool.name /\ tool'.ok = tool.ok
      /\ tool'.pc \notin {"creating", "cancelling"}
  <2>1. tool \in ToolState /\ tool.pc \in {"update", "flushed"}
    BY DEF ToolEnds, HandoffInv, TypeOK
  <2>2. PICK one : one = [tool EXCEPT !.ended = TRUE]
    OBVIOUS
  <2>3. one \in ToolState /\ one.name = tool.name /\ one.ok = tool.ok /\ one.pc = tool.pc
    BY <2>1, <2>2 DEF ToolState
  <2>4. tool' = [one EXCEPT !.pc = IF one.pc = "flushed" THEN "idle" ELSE one.pc]
    BY <2>2, <2>3 DEF ToolEnds
  <2> QED
    BY <2>1, <2>3, <2>4 DEF ToolState
<1>3. /\ agent' \in AgentState /\ agent'.pending = agent.pending
      /\ agent'.case = agent.case /\ agent'.phone = agent.phone
      /\ ~agent'.ready /\ agent'.confirmed = agent.confirmed
  BY DEF ToolEnds, HandoffInv, TypeOK, AgentState
<1>4. /\ coord' \in Coordinator /\ coord'.target = coord.target /\ coord'.started = coord.started
      /\ agent.confirmed \/ (coord'.awaiting = coord.awaiting /\ coord'.farewell = coord.farewell)
  <2>1. coord \in Coordinator
    BY DEF HandoffInv, TypeOK
  <2>2. CASE coord' = coord
    BY <2>1, <2>2
  <2>3. CASE agent.ready /\ coord' = BegunFarewell(coord)
    <3>1. agent.confirmed
      BY <2>3 DEF HandoffInv, ToolInHand
    <3>2. PICK one : one = [coord EXCEPT !.awaiting = FALSE]
      OBVIOUS
    <3>3. one \in Coordinator /\ one.target = coord.target /\ one.started = coord.started
      BY <2>1, <3>2 DEF Coordinator
    <3>4. PICK two : two = [one EXCEPT !.farewell = 0]
      OBVIOUS
    <3>5. two \in Coordinator /\ two.target = coord.target /\ two.started = coord.started
      BY <3>3, <3>4, Numbers DEF Coordinator
    <3>6. coord' = [two EXCEPT !.awaiting = TRUE]
      BY <2>3, <3>2, <3>4 DEF BegunFarewell, Disarmed
    <3> QED
      BY <3>1, <3>5, <3>6 DEF Coordinator
  <2> QED
    BY <2>2, <2>3 DEF ToolEnds
<1>5. openai' \in Sideband
  BY DEF ToolEnds, HandoffInv, TypeOK, Sideband
<1>6. TypeOK'
  BY <1>1, <1>2, <1>3, <1>4, <1>5 DEF HandoffInv, TypeOK, durable, counters
<1>7. ReviewInHand'
  BY <1>1, <1>3, <1>4 DEF HandoffInv, ReviewInHand, durable
<1>8. ToolInHand'
  BY <1>1, <1>2, <1>3, <1>4 DEF HandoffInv, ToolInHand, Confirms, Prepared
<1>9. ReferMade'
  BY <1>1, <1>3, <1>4 DEF HandoffInv, ReferMade
<1> QED
  BY <1>6, <1>7, <1>8, <1>9 DEF HandoffInv

\* One field of the sideband at a time.
LEMMA SidebandFields ==
  ASSUME NEW s \in Sideband, NEW r \in 0 .. MaxResponses, NEW box \in Seq(SidebandEvent)
  PROVE  /\ [s EXCEPT !.asked = FALSE] \in Sideband /\ [s EXCEPT !.last = r] \in Sideband
         /\ [s EXCEPT !.playing = r] \in Sideband /\ [s EXCEPT !.farewell = r] \in Sideband
         /\ [s EXCEPT !.inbox = box] \in Sideband
<1>1. [s EXCEPT !.asked = FALSE] \in Sideband /\ [s EXCEPT !.last = r] \in Sideband
  BY DEF Sideband
<1>2. [s EXCEPT !.playing = r] \in Sideband /\ [s EXCEPT !.farewell = r] \in Sideband
  BY DEF Sideband
<1>3. [s EXCEPT !.inbox = box] \in Sideband
  BY DEF Sideband
<1> QED
  BY <1>1, <1>2, <1>3

\* The model's audio changes the sideband only.
LEMMA AudioKeeps ==
  ASSUME HandoffAssumption, HandoffInv, Audio PROVE HandoffInv'
<1>1. UNCHANGED <<durable, agent, coord, tool, refer, past>>
  BY DEF Audio, ModelAnswers, UpdateArrives, FarewellStarts, AudioStops, CallerSpeaks,
     OnCallerSpeechStarted
<1>2. openai \in Sideband
  BY DEF HandoffInv, TypeOK
<1>3. ASSUME NEW r \in Response
      PROVE  Send(Created(r)) \in Seq(SidebandEvent) /\ Send(Stopped(r)) \in Seq(SidebandEvent)
             /\ Send(Stopped(r) \o Stopped(r)) \in Seq(SidebandEvent)
  <2>1. /\ [type |-> "created", response |-> r] \in SidebandEvent
        /\ [type |-> "stopped", response |-> r] \in SidebandEvent
    BY DEF SidebandEvent
  <2>2. Created(r) \in Seq(SidebandEvent) /\ Stopped(r) \in Seq(SidebandEvent)
    BY <2>1 DEF Created, Stopped
  <2>3. openai.inbox \in Seq(SidebandEvent)
    BY <1>2 DEF Sideband
  <2> QED
    BY <2>2, <2>3 DEF Send
<1>4. openai' \in Sideband
  <2>1. CASE ModelAnswers
    <3>1. PICK r : r = openai.last + 1
      OBVIOUS
    <3>2. r \in Response
      BY <1>2, <2>1, <3>1, Numbers DEF ModelAnswers, Sideband, Response
    <3>3. openai' = [openai EXCEPT !.last = r, !.playing = r, !.inbox = Send(Created(r))]
      BY <2>1, <3>1 DEF ModelAnswers
    <3>4. r \in 0 .. MaxResponses
      BY <3>2, Numbers DEF Response
    <3>5. PICK one \in Sideband : one = [openai EXCEPT !.last = r]
      BY <1>2, <1>3, <3>2, <3>4, SidebandFields
    <3>6. PICK two \in Sideband : two = [one EXCEPT !.playing = r]
      BY <1>3, <3>2, <3>4, SidebandFields
    <3>7. openai' = [two EXCEPT !.inbox = Send(Created(r))]
      BY <3>3, <3>5, <3>6
    <3> QED
      BY <1>3, <3>2, <3>4, <3>7, SidebandFields
  <2>2. CASE UpdateArrives
    BY <1>2, <2>2 DEF UpdateArrives, Sideband
  <2>3. CASE FarewellStarts
    <3>1. PICK r : r = openai.last + 1
      OBVIOUS
    <3>2. r \in Response
      BY <1>2, <2>3, <3>1, Numbers DEF FarewellStarts, Sideband, Response
    <3>3. openai' = [openai EXCEPT !.asked = FALSE, !.last = r, !.playing = r, !.farewell = r,
                                   !.inbox = Send(Created(r))]
      BY <2>3, <3>1 DEF FarewellStarts
    <3>4. r \in 0 .. MaxResponses
      BY <3>2, Numbers DEF Response
    <3>5. PICK one \in Sideband : one = [openai EXCEPT !.asked = FALSE]
      BY <1>2, <1>3, <3>2, <3>4, SidebandFields
    <3>6. PICK two \in Sideband : two = [one EXCEPT !.last = r]
      BY <1>3, <3>2, <3>4, SidebandFields
    <3>7. PICK three \in Sideband : three = [two EXCEPT !.playing = r]
      BY <1>3, <3>2, <3>4, SidebandFields
    <3>8. PICK four \in Sideband : four = [three EXCEPT !.farewell = r]
      BY <1>3, <3>2, <3>4, SidebandFields
    <3>9. openai' = [four EXCEPT !.inbox = Send(Created(r))]
      BY <3>3, <3>5, <3>6, <3>7, <3>8
    <3> QED
      BY <1>3, <3>2, <3>4, <3>9, SidebandFields
  <2>4. CASE AudioStops
    <3>1. openai.playing \in Response
      BY <1>2, <2>4, Numbers DEF AudioStops, Sideband, Response
    <3>2. PICK one \in Sideband : one = [openai EXCEPT !.playing = 0]
      <4>1. 0 \in 0 .. MaxResponses
        BY Numbers
      <4> QED
        BY <1>2, <1>3, <3>1, <4>1, SidebandFields
    <3>3. PICK box \in Seq(SidebandEvent) : openai' = [one EXCEPT !.inbox = box]
      BY <1>3, <2>4, <3>1, <3>2 DEF AudioStops
    <3> QED
      BY <3>2, <3>3 DEF Sideband
  <2>5. CASE CallerSpeaks
    BY <1>2, <2>5, Numbers DEF CallerSpeaks, Sideband
  <2> QED
    BY <2>1, <2>2, <2>3, <2>4, <2>5 DEF Audio
<1>5. faults' \in 0 .. MaxFaults /\ edits' \in 0 .. MaxEdits
  <2>1. Fault \/ UNCHANGED counters
    BY DEF Audio, ModelAnswers, UpdateArrives, FarewellStarts, AudioStops, CallerSpeaks
  <2> QED
    BY <2>1, Faults DEF HandoffInv
<1>6. TypeOK'
  BY <1>1, <1>4, <1>5 DEF HandoffInv, TypeOK, durable
<1>7. ReviewInHand'
  BY <1>1 DEF HandoffInv, ReviewInHand, durable
<1>8. ToolInHand'
  BY <1>1 DEF HandoffInv, ToolInHand, Confirms, Prepared
<1>9. ReferMade'
  BY <1>1 DEF HandoffInv, ReferMade
<1> QED
  BY <1>6, <1>7, <1>8, <1>9 DEF HandoffInv

\* An event that starts a response may make it the farewell of a confirmation; the
\* end of the farewell sends the REFER, whose fence was down.
LEMMA HandlersKeep ==
  ASSUME HandoffAssumption, HandoffInv, Handlers PROVE HandoffInv'
<1>1. UNCHANGED <<durable, agent, tool, counters>>
  BY DEF Handlers, HandleCreated, HandleStopped
<1>2. /\ coord \in Coordinator /\ openai \in Sideband /\ refer \in ReferState
      /\ agent.case \in 0 .. MaxCases
      /\ past \in [refers : Nat, case : 0 .. MaxCases, confirmed : SUBSET (0 .. MaxCases),
                   dialled : Phone \cup {NoPhone}]
  BY DEF HandoffInv, TypeOK, AgentState
<1>3. Head(openai.inbox).response \in Response
  <2>1. openai.inbox \in Seq(SidebandEvent) /\ openai.inbox # <<>>
    BY <1>2 DEF Handlers, HandleCreated, HandleStopped, Sideband
  <2>2. Head(openai.inbox) \in SidebandEvent
    BY <2>1
  <2> QED
    BY <2>2 DEF SidebandEvent
<1>4. openai' \in Sideband
  <2>1. openai.inbox \in Seq(SidebandEvent) /\ openai.inbox # <<>>
    BY <1>2 DEF Handlers, HandleCreated, HandleStopped, Sideband
  <2>2. Tail(openai.inbox) \in Seq(SidebandEvent)
    BY <2>1
  <2>3. openai' = [openai EXCEPT !.inbox = Tail(openai.inbox)]
    BY <1>2 DEF Handlers, HandleCreated, HandleStopped, Sideband
  <2> QED
    BY <1>2, <2>2, <2>3 DEF Sideband
<1>5. CASE UNCHANGED <<coord, refer, past>>
  <2>1. TypeOK'
    BY <1>1, <1>4, <1>5 DEF HandoffInv, TypeOK, durable, counters
  <2>2. ReviewInHand' /\ ToolInHand' /\ ReferMade'
    BY <1>1, <1>5 DEF HandoffInv, ReviewInHand, ToolInHand, ReferMade, Confirms, Prepared, durable
  <2> QED
    BY <2>1, <2>2 DEF HandoffInv
<1>6. CASE /\ coord.awaiting /\ UNCHANGED <<refer, past>>
           /\ coord' = [coord EXCEPT !.awaiting = FALSE, !.farewell = Head(openai.inbox).response]
  <2>1. /\ coord' \in Coordinator /\ coord'.target = coord.target
        /\ coord'.started = coord.started
    <3>1. Head(openai.inbox).response \in 0 .. MaxResponses
      BY <1>3, Numbers DEF Response
    <3> QED
      BY <1>2, <1>6, <3>1 DEF Coordinator
  <2>2. agent.confirmed
    BY <1>6 DEF HandoffInv, ReferMade
  <2>3. TypeOK'
    BY <1>1, <1>4, <1>6, <2>1 DEF HandoffInv, TypeOK, durable, counters
  <2>4. ReviewInHand' /\ ToolInHand'
    BY <1>1, <1>6, <2>1 DEF HandoffInv, ReviewInHand, ToolInHand, Confirms, Prepared, durable
  <2>5. ReferMade'
    BY <1>1, <1>6, <2>1, <2>2 DEF HandoffInv, ReferMade
  <2> QED
    BY <2>3, <2>4, <2>5 DEF HandoffInv
<1>7. CASE /\ FarewellPlayed(Head(openai.inbox).response)
           /\ coord' = FencedRefer(coord)
           /\ refer' = [refer EXCEPT !.request = "sent"]
           /\ past' = [past EXCEPT !.refers = @ + 1, !.case = agent.case]
  <2>1. coord.farewell # 0 /\ ~coord.started
    BY <1>3, <1>7, Numbers DEF FarewellPlayed, CanReturn, Response
  <2>2. agent.confirmed /\ past.refers = 0 /\ past.dialled = NoPhone
    BY <2>1 DEF HandoffInv, ReferMade
  <2>3. coord' \in Coordinator /\ coord'.target = coord.target /\ coord'.started
    BY <1>2, <1>7 DEF FencedRefer, Coordinator
  <2>4. refer' \in ReferState
    BY <1>2, <1>7 DEF ReferState
  <2>5. /\ past' \in [refers : Nat, case : 0 .. MaxCases, confirmed : SUBSET (0 .. MaxCases),
                      dialled : Phone \cup {NoPhone}]
        /\ past'.refers = 1 /\ past'.case = agent.case /\ past'.dialled = NoPhone
        /\ past'.confirmed = past.confirmed
    <3>1. PICK one : one = [past EXCEPT !.refers = @ + 1]
      OBVIOUS
    <3>2. /\ one \in [refers : Nat, case : 0 .. MaxCases, confirmed : SUBSET (0 .. MaxCases),
                      dialled : Phone \cup {NoPhone}]
          /\ one.refers = 1 /\ one.dialled = NoPhone /\ one.confirmed = past.confirmed
      BY <1>2, <2>2, <3>1
    <3>3. past' = [one EXCEPT !.case = agent.case]
      BY <1>7, <3>1
    <3> QED
      BY <1>2, <3>2, <3>3
  <2>6. TypeOK'
    BY <1>1, <1>4, <2>3, <2>4, <2>5 DEF HandoffInv, TypeOK, durable, counters
  <2>7. ReviewInHand' /\ ToolInHand'
    BY <1>1, <2>3, <2>5 DEF HandoffInv, ReviewInHand, ToolInHand, Confirms, Prepared, durable
  <2>8. ReferMade'
    BY <1>1, <2>2, <2>3, <2>5 DEF ReferMade
  <2> QED
    BY <2>6, <2>7, <2>8 DEF HandoffInv
<1> QED
  BY <1>5, <1>6, <1>7 DEF Handlers, HandleCreated, HandleStopped, ObserveResponseCreated

\* A step that touches neither the agent, the tool nor what happened.
LEMMA Bystanders ==
  ASSUME HandoffAssumption, HandoffInv, UNCHANGED <<agent, tool, openai, past>>,
         cases' \in [Case -> CaseRow],
         \A c \in Case : cases'[c].recipient = cases[c].recipient,
         directory' \in [Recipient -> [active : BOOLEAN, phone : Phone]],
         \A r \in Recipient : directory'[r].phone.of = r,
         outcome' \in {"active", "transferred", "completed"},
         coord' \in Coordinator, coord'.target = coord.target,
         coord'.started = coord.started, coord'.awaiting = coord.awaiting,
         coord'.farewell = coord.farewell, refer' \in ReferState,
         refer'.request # "none" \/ refer'.twilio # "none" => coord.started,
         faults' \in 0 .. MaxFaults /\ edits' \in 0 .. MaxEdits
  PROVE  HandoffInv'
<1>1. TypeOK'
  BY DEF HandoffInv, TypeOK
<1>2. ReviewInHand'
  BY ReviewKept DEF HandoffInv
<1>3. ToolInHand'
  BY ToolKept DEF HandoffInv
<1>4. ReferMade'
  BY DEF HandoffInv, ReferMade
<1> QED
  BY <1>1, <1>2, <1>3, <1>4 DEF HandoffInv

\* What the lemma asks for, of whatever a step leaves alone.
LEMMA AsBefore ==
  ASSUME HandoffInv
  PROVE  /\ cases \in [Case -> CaseRow] /\ agent \in AgentState /\ tool \in ToolState
         /\ directory \in [Recipient -> [active : BOOLEAN, phone : Phone]]
         /\ \A r \in Recipient : directory[r].phone.of = r
         /\ outcome \in {"active", "transferred", "completed"}
         /\ coord \in Coordinator /\ refer \in ReferState
         /\ past \in [refers : Nat, case : 0 .. MaxCases, confirmed : SUBSET (0 .. MaxCases),
                      dialled : Phone \cup {NoPhone}]
         /\ (refer.request # "none" \/ refer.twilio # "none" => coord.started)
         /\ faults \in 0 .. MaxFaults /\ edits \in 0 .. MaxEdits
BY DEF HandoffInv, TypeOK, ReviewInHand, ReferMade

\* The REFER's answer, and its record.
LEMMA RefersKeep ==
  ASSUME HandoffAssumption, HandoffInv, Refers PROVE HandoffInv'
<1>1. UNCHANGED <<directory, agent, tool, openai, past>>
  BY DEF Refers, ReferPassedOn, ReferAccepted, ReferFailed, MarkHandoff, MarkLost, durable
<1>2. faults' \in 0 .. MaxFaults /\ edits' \in 0 .. MaxEdits
  <2>1. Fault \/ UNCHANGED counters
    BY DEF Refers, ReferPassedOn, ReferAccepted, ReferFailed, MarkHandoff, MarkLost
  <2> QED
    BY <2>1, Faults DEF HandoffInv
<1>3. /\ refer' \in ReferState
      /\ refer'.request # "none" \/ refer'.twilio # "none" => coord.started
  BY AsBefore DEF Refers, ReferPassedOn, ReferAccepted, ReferFailed, MarkHandoff, MarkLost,
     ReferState
<1>4. /\ coord' \in Coordinator /\ coord'.target = coord.target
      /\ coord'.started = coord.started /\ coord'.awaiting = coord.awaiting
      /\ coord'.farewell = coord.farewell
  BY AsBefore DEF Refers, ReferPassedOn, ReferAccepted, ReferFailed, MarkHandoff, MarkLost,
     Coordinator
<1>5. /\ cases' \in [Case -> CaseRow]
      /\ \A c \in Case : cases'[c].recipient = cases[c].recipient
      /\ outcome' \in {"active", "transferred", "completed"}
  <2>1. CASE UNCHANGED durable
    BY <2>1, AsBefore DEF durable
  <2>2. CASE MarkHandoff
    <3>1. refer.mark \in {"transfer_requested", "transfer_failed"}
      BY <2>2, AsBefore DEF MarkHandoff, ReferState
    <3>2. cases' = cases \/ cases' = Marked(agent.case, refer.mark)
      BY <2>2 DEF MarkHandoff
    <3>3. outcome' \in {"active", "transferred", "completed"}
      BY <2>2, AsBefore DEF MarkHandoff
    <3> QED
      BY <3>1, <3>2, <3>3, AsBefore, Marking
  <2> QED
    BY <2>1, <2>2 DEF Refers, ReferPassedOn, ReferAccepted, ReferFailed, MarkLost
<1> QED
  BY <1>1, <1>2, <1>3, <1>4, <1>5, AsBefore, Bystanders

\* Twilio's callbacks.  Whom it may dial is compared with the target the coordinator
\* has had since the REFER.
LEMMA TwilioKeeps ==
  ASSUME HandoffAssumption, HandoffInv, Twilio PROVE HandoffInv'
<1>1. UNCHANGED <<directory, outcome, agent, coord, tool, openai>>
  BY DEF Twilio, HandoffRefer, HandoffFinished
<1>2. /\ coord.started /\ refer' \in ReferState
  BY AsBefore DEF Twilio, HandoffRefer, HandoffFinished, ReferState
<1>3. faults' \in 0 .. MaxFaults /\ edits' \in 0 .. MaxEdits
  <2>1. Fault \/ UNCHANGED counters
    BY DEF Twilio, HandoffRefer, HandoffFinished
  <2> QED
    BY <2>1, Faults DEF HandoffInv
<1>4. /\ cases' \in [Case -> CaseRow]
      /\ \A c \in Case : cases'[c].recipient = cases[c].recipient
  <2>1. cases' = cases \/ cases' = Marked(LastCase, "transfer_failed")
    BY DEF Twilio, HandoffRefer, HandoffFinished
  <2>2. "transfer_failed" \in {"transfer_requested", "transfer_failed"}
    OBVIOUS
  <2> QED
    BY <2>1, <2>2, AsBefore, Marking
<1>5. CASE UNCHANGED past
  BY <1>1, <1>2, <1>3, <1>4, <1>5, AsBefore, Bystanders
<1>6. CASE past' = [past EXCEPT !.dialled = coord.target]
  <2>1. /\ past' \in [refers : Nat, case : 0 .. MaxCases, confirmed : SUBSET (0 .. MaxCases),
                      dialled : Phone \cup {NoPhone}]
        /\ past'.refers = past.refers /\ past'.case = past.case
        /\ past'.confirmed = past.confirmed /\ past'.dialled = coord.target
    BY <1>6, AsBefore DEF Coordinator
  <2>2. TypeOK'
    BY <1>1, <1>2, <1>3, <1>4, <2>1 DEF HandoffInv, TypeOK
  <2>3. ReviewInHand'
    BY <1>1, <1>4, AsBefore, ReviewKept DEF HandoffInv
  <2>4. ToolInHand'
    BY <1>1, <2>1, ToolKept DEF HandoffInv
  <2>5. ReferMade'
    BY <1>1, <1>2, <2>1 DEF HandoffInv, ReferMade
  <2> QED
    BY <2>2, <2>3, <2>4, <2>5 DEF HandoffInv
<1> QED
  BY <1>5, <1>6 DEF Twilio, HandoffRefer, HandoffFinished, TargetAuthorized

\* Operators resolve reviews and edit the directory at any time.
LEMMA OperatorsKeep ==
  ASSUME HandoffAssumption, HandoffInv, Operators PROVE HandoffInv'
<1>1. UNCHANGED <<outcome, agent, coord, tool, openai, refer, past>>
  BY DEF Operators, ResolveEscalation, UpdateRecipient, ToggleRecipient
<1>2. /\ cases' \in [Case -> CaseRow]
      /\ \A c \in Case : cases'[c].recipient = cases[c].recipient
  <2>1. CASE UNCHANGED cases
    BY <2>1, AsBefore
  <2>2. ASSUME NEW c \in Case, ResolveEscalation(c)
        PROVE  /\ cases' \in [Case -> CaseRow]
               /\ \A d \in Case : cases'[d].recipient = cases[d].recipient
    BY <2>2, AsBefore, Closing DEF ResolveEscalation
  <2> QED
    BY <2>1, <2>2 DEF Operators, UpdateRecipient, ToggleRecipient
<1>3. faults' \in 0 .. MaxFaults /\ edits' \in 0 .. MaxEdits
  <2>1. UNCHANGED counters \/ Edit
    BY DEF Operators, ResolveEscalation, UpdateRecipient, ToggleRecipient
  <2>2. CASE UNCHANGED counters
    BY <2>2, AsBefore DEF counters
  <2>3. CASE Edit
    BY <2>3, AsBefore, Numbers DEF Edit
  <2> QED
    BY <2>1, <2>2, <2>3
<1>4. /\ directory' \in [Recipient -> [active : BOOLEAN, phone : Phone]]
      /\ \A r \in Recipient : directory'[r].phone.of = r
  <2>1. CASE UNCHANGED directory
    BY <2>1, AsBefore
  <2>2. ASSUME NEW r \in Recipient, UpdateRecipient(r)
        PROVE  /\ directory' \in [Recipient -> [active : BOOLEAN, phone : Phone]]
               /\ \A s \in Recipient : directory'[s].phone.of = s
    <3>1. PICK phone : phone = [of |-> r, edit |-> edits + 1]
      OBVIOUS
    <3>2. phone \in Phone /\ phone.of = r
      BY <2>2, <3>1, AsBefore, Numbers DEF UpdateRecipient, Edit, Phone
    <3>3. directory' = [directory EXCEPT ![r].phone = phone]
      BY <2>2, <3>1 DEF UpdateRecipient
    <3> QED
      BY <3>2, <3>3, AsBefore
  <2>3. ASSUME NEW r \in Recipient, ToggleRecipient(r)
        PROVE  /\ directory' \in [Recipient -> [active : BOOLEAN, phone : Phone]]
               /\ \A s \in Recipient : directory'[s].phone.of = s
    BY <2>3, AsBefore DEF ToggleRecipient
  <2> QED
    BY <2>1, <2>2, <2>3 DEF Operators, ResolveEscalation
<1> QED
  BY <1>1, <1>2, <1>3, <1>4, AsBefore, Bystanders

LEMMA HangUpKeeps ==
  ASSUME HandoffAssumption, HandoffInv, HangUp PROVE HandoffInv'
<1>1. UNCHANGED <<cases, directory, coord, tool, openai, refer, past, counters>>
  BY DEF HangUp
<1>2. /\ agent' \in AgentState /\ agent'.pending = agent.pending
      /\ agent'.case = agent.case /\ agent'.phone = agent.phone
      /\ agent'.ready = agent.ready /\ agent'.confirmed = agent.confirmed
  BY AsBefore DEF HangUp, AgentState
<1>3. outcome' \in {"active", "transferred", "completed"}
  BY AsBefore DEF HangUp
<1>4. TypeOK'
  BY <1>1, <1>2, <1>3 DEF HandoffInv, TypeOK, counters
<1>5. ReviewInHand' /\ ToolInHand' /\ ReferMade'
  BY <1>1, <1>2 DEF HandoffInv, ReviewInHand, ToolInHand, ReferMade, Confirms, Prepared
<1> QED
  BY <1>4, <1>5 DEF HandoffInv

LEMMA NextHandoff ==
  ASSUME HandoffAssumption, HandoffInv, [Next]_vars PROVE HandoffInv'
<1>1. CASE UNCHANGED vars
  <2>1. TypeOK'
    BY <1>1 DEF HandoffInv, TypeOK, vars
  <2>2. ReviewInHand' /\ ToolInHand' /\ ReferMade'
    BY <1>1 DEF HandoffInv, ReviewInHand, ToolInHand, ReferMade, Confirms, Prepared, vars
  <2> QED
    BY <2>1, <2>2 DEF HandoffInv
<1>2. CASE Tools
  BY <1>2, CreateKeeps, RefusalKeeps, CancelKeeps, RefreshKeeps, UpdateKeeps, EndKeeps DEF Tools
<1> QED
  BY <1>1, <1>2, CallsKeep, AudioKeeps, HandlersKeep, RefersKeep, TwilioKeeps, OperatorsKeep,
     HangUpKeeps DEF Next

------------------------------------------------------------------------------
\* The agent, the coordinator and the review's row agree on the review in hand, on
\* the tool that runs and on the REFER made (call-tool-session.ts,
\* escalation-handoff-coordinator.ts), for any bounds.
THEOREM HandoffAgrees ==
  ASSUME HandoffAssumption PROVE Spec => []HandoffInv
<1>1. Init => HandoffInv
  BY InitHandoff
<1>2. HandoffInv /\ [Next]_vars => HandoffInv'
  BY NextHandoff
<1> QED
  BY <1>1, <1>2, PTL DEF Spec

\* Every variable of the handoff keeps its type.
THEOREM TypeCorrect ==
  ASSUME HandoffAssumption PROVE Spec => []TypeOK
<1>1. HandoffInv => TypeOK
  BY DEF HandoffInv
<1> QED
  BY <1>1, HandoffAgrees, PTL

\* A farewell, duplicated events, an uncertain REFER, late cancellations and edits of
\* the directory lead to at most one transfer, of the confirmed review, to the
\* telephone that was confirmed.
THEOREM OneTransfer ==
  ASSUME HandoffAssumption PROVE Spec => []TransferIsSafe
<1>1. HandoffInv => TransferIsSafe
  <2> SUFFICES ASSUME HandoffInv PROVE TransferIsSafe
    OBVIOUS
  <2>1. OneRefer
    BY DEF HandoffInv, ReferMade, OneRefer
  <2>2. ASSUME past.refers > 0
        PROVE  /\ past.case \in past.confirmed
               /\ cases[past.case].recipient = coord.target.of
    <3>1. coord.started /\ past.case = agent.case /\ agent.confirmed
      BY <2>2 DEF HandoffInv, ReferMade
    <3> QED
      BY <3>1, ConfirmedReview
  <2>3. DialledIsTheTarget
    BY DEF HandoffInv, ReferMade, DialledIsTheTarget
  <2> QED
    BY <2>1, <2>2, <2>3 DEF TransferIsSafe, TransferWasConfirmed
<1> QED
  BY <1>1, HandoffAgrees, PTL
=============================================================================
