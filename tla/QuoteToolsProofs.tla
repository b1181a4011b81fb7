--------------------------- MODULE QuoteToolsProofs ---------------------------
(***************************************************************************)
(* Theorems about the quote call of one provider (module QuoteTools): its  *)
(* types, what is counted and proved about the carrier's answers, and when *)
(* a price above the budget may be accepted; and, at the end, about the    *)
(* dashboard: its writes (module OperatorConsole, the instance Console)    *)
(* and the way to it (module DashboardAccess, the instance Access).        *)
(***************************************************************************)
EXTENDS QuoteTools, FiniteSetTheorems, WellFoundedInduction, TLAPS

View == [profile : {"none", "terminal", "provider_quote", "provider_unavailable"},
         rev : Nat, previous : Nat]
Session == [pc : {"refresh", "idle", "stage", "wait", "closed"}, id : Slot, view : View]
Request == [id : Call, target : View]
Asking == [c : Commands, answer : 1..MaxTurns]

Results == {"none", "dentro", "contraoferta", "fuera", "declined", "recorded"}

RowsTyped ==
  /\ op \in [rev : Nat, status : {"sourcing", "quotes_received"}, open : BOOLEAN]
  /\ call \in [active : BOOLEAN, completed : BOOLEAN]

QuotesTyped ==
  /\ quotes \in Seq(Quote) /\ offers \in Seq(Price)
  /\ evidence \in Seq(0..MaxTurns) /\ Len(evidence) = Len(quotes)

ToolCallsTyped ==
  /\ receipts \in [Call -> Results]
  /\ staging \in [Call -> 0..MaxTurns] /\ byCall \in [Call -> 0..MaxTurns]

SpeechTyped == spoken \in 0..MaxTurns /\ stored \subseteq 1..spoken /\ latest \in stored \cup {Nil}

AskedTyped == asked \in Seq(Asking) /\ Len(asked) <= MaxCalls /\ again \subseteq DOMAIN asked

WireTyped == wire \subseteq Request /\ \A r \in wire : r.id \in DOMAIN asked

Typed ==
  /\ RowsTyped /\ QuotesTyped /\ ToolCallsTyped /\ SpeechTyped /\ AskedTyped /\ WireTyped
  /\ sess \in Session

\* No view, in the session or on the wire, shows a quote there is not.
ViewsAreOfThen ==
  /\ sess.view.previous <= Len(quotes)
  /\ \A r \in wire : r.target.previous <= Len(quotes)

\* None of the first n quotes is of the answer that tool call id reports,
\* unless this is the approval of a price that was turned down.
Fresh(n, id) ==
  \A v \in 1..n : quotes[v].answer = asked[id].answer =>
    asked[id].c.accept /\ ~quotes[v].accepted

\* A tool call that was run once carries the view under which it was asked.
AnswersAreFresh ==
  /\ sess.pc = "stage" =>
       /\ sess.id \in DOMAIN asked /\ asked[sess.id].c.name = "create_quote"
       /\ sess.id \in again \/ Fresh(sess.view.previous, sess.id)
  /\ \A r \in wire : asked[r.id].c.name = "create_quote" =>
       r.id \in again \/ Fresh(r.target.previous, r.id)

\* The receipts of the tool calls that made quotes.
QuotesHaveReceipts == \A v \in DOMAIN quotes : receipts[quotes[v].id] # "none"

\* The segment picked for a tool call is stored and stays; what is staged for
\* it, and bound to its quote, is that segment.
SegmentsArePicked ==
  /\ \A id \in Call :
       /\ byCall[id] \in stored \cup {Nil} /\ staging[id] \in {Nil, byCall[id]}
       /\ id \notin DOMAIN asked => byCall[id] = Nil
       /\ id \in DOMAIN asked => asked[id].c.name = "create_quote" \/ byCall[id] = Nil
  /\ \A v \in DOMAIN quotes : evidence[v] \in {Nil, byCall[quotes[v].id]}

QuotesAgree ==
  /\ Typed /\ ViewsAreOfThen /\ AnswersAreFresh /\ QuotesHaveReceipts /\ SegmentsArePicked
  /\ AnswerCountedOnce /\ OneQuotePerToolCall /\ ExceptionIsEarned
-----------------------------------------------------------------------------
(* Types *)

\* A command's fields.
LEMMA CommandFields ==
  ASSUME NEW c \in Commands
  PROVE  /\ c.name \in {"record_provider_offer", "create_quote", "decline_quote_request"}
         /\ c.accept \in BOOLEAN /\ c.stopped \in BOOLEAN
         /\ c.name # "decline_quote_request" => c.price \in Price
<1>1. ASSUME NEW p \in Price,
             c = [name |-> "record_provider_offer", price |-> p, accept |-> FALSE, stopped |-> FALSE]
      PROVE  /\ c.name = "record_provider_offer" /\ c.price = p
             /\ c.accept = FALSE /\ c.stopped = FALSE
  BY <1>1
<1>2. CASE c \in [name : {"create_quote"}, price : Price, accept : BOOLEAN, stopped : BOOLEAN]
  BY <1>2
<1>3. CASE c = [name |-> "decline_quote_request", price |-> 0, accept |-> FALSE, stopped |-> FALSE]
  BY <1>3
<1>4. CASE c \in {[name |-> "record_provider_offer", price |-> p, accept |-> FALSE, stopped |-> FALSE] :
                  p \in Price}
  BY <1>1, <1>4
<1> QED BY <1>2, <1>3, <1>4 DEF Commands

\* The named parts of the types are the module's type invariant.
LEMMA TypedIsTypeOK == Typed => TypeOK
BY DEF Typed, TypeOK, RowsTyped, QuotesTyped, ToolCallsTyped, SpeechTyped, WireTyped, Results, Session

\* A quote's fields.
LEMMA QuoteFields ==
  ASSUME QuotesAgree, NEW v \in DOMAIN quotes
  PROVE  /\ quotes[v] \in Quote /\ quotes[v].id \in Call /\ quotes[v].price \in Price
         /\ quotes[v].accepted \in BOOLEAN /\ quotes[v].answer \in 1..MaxTurns
         /\ v \in 1..Len(quotes) /\ v \in Nat /\ v >= 1
<1>1. quotes \in Seq(Quote)
  BY DEF QuotesAgree, Typed, QuotesTyped
<1>2. quotes[v] \in Quote /\ v \in 1..Len(quotes)
  BY <1>1
<1> QED BY <1>1, <1>2 DEF Quote

\* The latest quote's version is the number of quotes.
LEMMA LastIsLen ==
  ASSUME NEW S, NEW s \in Seq(S)
  PROVE  Last(s) = Len(s) /\ Last(s) \in Nat
<1>1. CASE s = <<>>
  BY <1>1 DEF Last, Nil
<1>2. CASE s # <<>>
  BY <1>2 DEF Last
<1> QED BY <1>1, <1>2

\* What the agent is shown is a view.
LEMMA StateIsView == Typed => State \in View /\ State.previous = Len(quotes)
<1> SUFFICES ASSUME Typed PROVE State \in View /\ State.previous = Len(quotes)
  OBVIOUS
<1>1. Last(quotes) = Len(quotes) /\ Last(quotes) \in Nat
  BY LastIsLen DEF Typed, QuotesTyped
<1>2. op.rev \in Nat
  BY DEF Typed, RowsTyped
<1>3. Profile \in {"terminal", "provider_quote", "provider_unavailable"}
  BY DEF Profile
<1> QED BY <1>1, <1>2, <1>3 DEF State, View

\* Initially everything agrees.
LEMMA AgreeInitially == QuoteAssumption /\ Init => QuotesAgree
<1> SUFFICES ASSUME QuoteAssumption, Init PROVE QuotesAgree
  OBVIOUS
<1> USE DEF QuoteAssumption
<1>1. RowsTyped
  BY DEF Init, RowsTyped
<1>2. QuotesTyped
  BY DEF Init, QuotesTyped
<1>3. ToolCallsTyped
  BY DEF Init, ToolCallsTyped, Results, Nil
<1>4. SpeechTyped
  BY DEF Init, SpeechTyped
<1>5. AskedTyped
  BY DEF Init, AskedTyped
<1>6. WireTyped
  BY DEF Init, WireTyped
<1>7. sess \in Session
  BY DEF Init, Session, View, Unknown, Slot, Nil
<1>8. ViewsAreOfThen
  BY DEF Init, ViewsAreOfThen, Unknown, Nil
<1>9. AnswersAreFresh
  BY DEF Init, AnswersAreFresh
<1>10. QuotesHaveReceipts /\ AnswerCountedOnce /\ OneQuotePerToolCall /\ ExceptionIsEarned
  BY DEF Init, QuotesHaveReceipts, AnswerCountedOnce, OneQuotePerToolCall, ExceptionIsEarned
<1>11. SegmentsArePicked
  BY DEF Init, SegmentsArePicked, Nil
<1> QED BY <1>1, <1>2, <1>3, <1>4, <1>5, <1>6, <1>7, <1>8, <1>9, <1>10, <1>11 DEF QuotesAgree, Typed
-----------------------------------------------------------------------------
(* What the properties depend on *)

\* The count of the answers depends on the quotes, and on what was run again.
LEMMA CountStays ==
  ASSUME AnswerCountedOnce, OneQuotePerToolCall, ExceptionIsEarned,
         quotes' = quotes, again \subseteq again'
  PROVE  AnswerCountedOnce' /\ OneQuotePerToolCall' /\ ExceptionIsEarned'
<1>1. AnswerCountedOnce'
  BY DEF AnswerCountedOnce, Attempt
<1>2. OneQuotePerToolCall'
  BY DEF OneQuotePerToolCall
<1>3. ExceptionIsEarned'
  BY DEF ExceptionIsEarned, Attempt
<1> QED BY <1>1, <1>2, <1>3

\* The receipts of quotes depend on the quotes and the receipts.
LEMMA ReceiptsStay ==
  ASSUME QuotesHaveReceipts, quotes' = quotes, receipts' = receipts
  PROVE  QuotesHaveReceipts'
BY DEF QuotesHaveReceipts

\* The segments of quotes stay when transcripts and tool calls come.
LEMMA SegmentsStay ==
  ASSUME SegmentsArePicked, quotes' = quotes, evidence' = evidence, staging' = staging,
         byCall' = byCall, asked' = asked, stored \subseteq stored'
  PROVE  SegmentsArePicked'
BY DEF SegmentsArePicked

\* The views stay when neither the session nor the wire nor the quotes change.
LEMMA ViewsStay ==
  ASSUME ViewsAreOfThen, AnswersAreFresh, quotes' = quotes, sess' = sess, wire' = wire,
         asked' = asked, again' = again
  PROVE  ViewsAreOfThen' /\ AnswersAreFresh'
BY DEF ViewsAreOfThen, AnswersAreFresh, Fresh
-----------------------------------------------------------------------------
(* The carrier's words, and the rest of the system *)

\* An utterance changes nothing the properties see.
LEMMA SpeakStep == QuoteAssumption /\ QuotesAgree /\ Speak => QuotesAgree'
<1> SUFFICES ASSUME QuoteAssumption, QuotesAgree, Speak PROVE QuotesAgree'
  OBVIOUS
<1> USE DEF QuoteAssumption
<1>1. SpeechTyped'
  BY DEF QuotesAgree, Typed, SpeechTyped, Speak
<1>2. Typed'
  BY <1>1 DEF QuotesAgree, Typed, Speak, db, RowsTyped, QuotesTyped, ToolCallsTyped, AskedTyped, WireTyped
<1>3. ViewsAreOfThen' /\ AnswersAreFresh'
  BY ViewsStay DEF QuotesAgree, Speak, db
<1>4. QuotesHaveReceipts' /\ SegmentsArePicked'
  BY ReceiptsStay, SegmentsStay DEF QuotesAgree, Speak, db
<1>5. AnswerCountedOnce' /\ OneQuotePerToolCall' /\ ExceptionIsEarned'
  BY CountStays DEF QuotesAgree, Speak, db
<1> QED BY <1>2, <1>3, <1>4, <1>5 DEF QuotesAgree

\* A stored transcript only adds to what is stored.
LEMMA NoteStep ==
  ASSUME NEW u \in 1..spoken, QuotesAgree, Note(u)
  PROVE  QuotesAgree'
<1>1. SpeechTyped'
  BY DEF QuotesAgree, Typed, SpeechTyped, Note
<1>2. Typed'
  BY <1>1 DEF QuotesAgree, Typed, Note, db, RowsTyped, QuotesTyped, ToolCallsTyped, AskedTyped, WireTyped
<1>3. ViewsAreOfThen' /\ AnswersAreFresh'
  BY ViewsStay DEF QuotesAgree, Note, db
<1>4. QuotesHaveReceipts' /\ SegmentsArePicked'
  BY ReceiptsStay, SegmentsStay DEF QuotesAgree, Note, db
<1>5. AnswerCountedOnce' /\ OneQuotePerToolCall' /\ ExceptionIsEarned'
  BY CountStays DEF QuotesAgree, Note, db
<1> QED BY <1>2, <1>3, <1>4, <1>5 DEF QuotesAgree

\* A change of the rows alone disturbs only their types.
LEMMA RowsStep ==
  ASSUME QuotesAgree, RowsTyped',
         UNCHANGED <<quotes, offers, receipts, staging, evidence, speech, byCall, sess, asked, again, wire>>
  PROVE  QuotesAgree'
<1>1. SpeechTyped'
  BY DEF QuotesAgree, Typed, SpeechTyped, speech
<1>2. Typed'
  BY <1>1 DEF QuotesAgree, Typed, QuotesTyped, ToolCallsTyped, AskedTyped, WireTyped
<1>3. ViewsAreOfThen' /\ AnswersAreFresh'
  BY ViewsStay DEF QuotesAgree
<1>4. QuotesHaveReceipts' /\ SegmentsArePicked'
  BY ReceiptsStay, SegmentsStay DEF QuotesAgree, speech
<1>5. AnswerCountedOnce' /\ OneQuotePerToolCall' /\ ExceptionIsEarned'
  BY CountStays DEF QuotesAgree
<1> QED BY <1>2, <1>3, <1>4, <1>5 DEF QuotesAgree

\* An operation's row.
OpRow == [rev : Nat, status : {"sourcing", "quotes_received"}, open : BOOLEAN]

\* An operation's row with its revision counted up, and a new status or a
\* closed request, is a row.
LEMMA RowCountsUp ==
  ASSUME NEW o \in OpRow, NEW s \in {"sourcing", "quotes_received"}, NEW b \in BOOLEAN
  PROVE  /\ [o EXCEPT !.rev = @ + 1] \in OpRow
         /\ [o EXCEPT !.status = s, !.rev = @ + 1] \in OpRow
         /\ [o EXCEPT !.open = b, !.rev = @ + 1] \in OpRow
<1>1. o.rev + 1 \in Nat
  BY DEF OpRow
<1>2. ASSUME NEW n \in Nat
      PROVE  /\ [o EXCEPT !.rev = n] \in OpRow
             /\ [o EXCEPT !.status = s, !.rev = n] \in OpRow
             /\ [o EXCEPT !.open = b, !.rev = n] \in OpRow
  BY DEF OpRow
<1>3. /\ [o EXCEPT !.rev = o.rev + 1] \in OpRow
      /\ [o EXCEPT !.status = s, !.rev = o.rev + 1] \in OpRow
      /\ [o EXCEPT !.open = b, !.rev = o.rev + 1] \in OpRow
  BY <1>1, <1>2
<1>4. [o EXCEPT !.status = s].rev = o.rev /\ [o EXCEPT !.open = b].rev = o.rev
  BY DEF OpRow
<1> QED BY <1>3, <1>4

LEMMA TouchStep == QuotesAgree /\ Touch => QuotesAgree'
<1> SUFFICES ASSUME QuotesAgree, Touch PROVE QuotesAgree'
  OBVIOUS
<1>1. RowsTyped
  BY DEF QuotesAgree, Typed
<1>2. op \in OpRow
  BY <1>1 DEF RowsTyped, OpRow
<1>3. op' \in OpRow /\ call' = call
  BY <1>2, RowCountsUp DEF Touch
<1>4. RowsTyped'
  BY <1>1, <1>3 DEF RowsTyped, OpRow
<1> QED BY <1>4, RowsStep DEF Touch

LEMMA CloseStep == QuotesAgree /\ Close => QuotesAgree'
<1> SUFFICES ASSUME QuotesAgree, Close PROVE QuotesAgree'
  OBVIOUS
<1>1. RowsTyped
  BY DEF QuotesAgree, Typed
<1>2. op \in OpRow
  BY <1>1 DEF RowsTyped, OpRow
<1>3. op' \in OpRow /\ call' = call
  BY <1>2, RowCountsUp DEF Close
<1>4. RowsTyped'
  BY <1>1, <1>3 DEF RowsTyped, OpRow
<1> QED BY <1>4, RowsStep DEF Close

LEMMA HangupStep == QuotesAgree /\ Hangup => QuotesAgree'
<1> SUFFICES ASSUME QuotesAgree, Hangup PROVE QuotesAgree'
  OBVIOUS
<1>1. RowsTyped
  BY DEF QuotesAgree, Typed
<1>2. op' = op /\ call' \in [active : BOOLEAN, completed : BOOLEAN]
  BY <1>1 DEF Hangup, RowsTyped
<1>3. RowsTyped'
  BY <1>1, <1>2 DEF RowsTyped
<1> QED BY <1>3, RowsStep DEF Hangup
-----------------------------------------------------------------------------
(* The session *)

\* A change of the session alone keeps what agrees, if the view is one of then
\* and no evidence is being staged that was not before.
LEMMA SessionStep ==
  ASSUME QuotesAgree, sess' \in Session, sess'.pc # "stage", sess'.view.previous <= Len(quotes),
         UNCHANGED <<db, speech, byCall, asked, again, wire>>
  PROVE  QuotesAgree'
<1>1. SpeechTyped'
  BY DEF QuotesAgree, Typed, SpeechTyped, speech
<1>2. Typed'
  BY <1>1 DEF QuotesAgree, Typed, db, RowsTyped, QuotesTyped, ToolCallsTyped, AskedTyped, WireTyped
<1>3. ViewsAreOfThen'
  BY DEF QuotesAgree, db, ViewsAreOfThen
<1>4. AnswersAreFresh'
  BY DEF QuotesAgree, db, AnswersAreFresh, Fresh
<1>5. QuotesHaveReceipts' /\ SegmentsArePicked'
  BY ReceiptsStay, SegmentsStay DEF QuotesAgree, db, speech
<1>6. AnswerCountedOnce' /\ OneQuotePerToolCall' /\ ExceptionIsEarned'
  BY CountStays DEF QuotesAgree, db
<1> QED BY <1>2, <1>3, <1>4, <1>5, <1>6 DEF QuotesAgree

\* A session that only changes its program counter.
LEMMA SessionMoves ==
  ASSUME NEW s \in Session, NEW pc \in {"refresh", "idle", "stage", "wait", "closed"}
  PROVE  LET t == [s EXCEPT !.pc = pc] IN t \in Session /\ t.pc = pc /\ t.id = s.id /\ t.view = s.view
BY DEF Session

LEMMA GiveUpStep == QuotesAgree /\ GiveUp => QuotesAgree'
<1> SUFFICES ASSUME QuotesAgree, GiveUp PROVE QuotesAgree'
  OBVIOUS
<1>1. sess \in Session /\ sess.view.previous <= Len(quotes)
  BY DEF QuotesAgree, Typed, ViewsAreOfThen
<1>2. sess' = [sess EXCEPT !.pc = "refresh"]
  BY DEF GiveUp
<1>3. sess' \in Session /\ sess'.pc = "refresh" /\ sess'.view = sess.view
  BY <1>1, <1>2, SessionMoves
<1> QED BY <1>1, <1>3, SessionStep DEF GiveUp

LEMMA RefreshFailsStep == QuotesAgree /\ RefreshFails => QuotesAgree'
<1> SUFFICES ASSUME QuotesAgree, RefreshFails PROVE QuotesAgree'
  OBVIOUS
<1>1. sess \in Session /\ sess.view.previous <= Len(quotes)
  BY DEF QuotesAgree, Typed, ViewsAreOfThen
<1>2. sess' = [sess EXCEPT !.pc = "closed"]
  BY DEF RefreshFails
<1>3. sess' \in Session /\ sess'.pc = "closed" /\ sess'.view = sess.view
  BY <1>1, <1>2, SessionMoves
<1> QED BY <1>1, <1>3, SessionStep DEF RefreshFails

\* A refresh shows the quotes of now.
LEMMA RefreshStep == QuotesAgree /\ Refresh => QuotesAgree'
<1> SUFFICES ASSUME QuotesAgree, Refresh PROVE QuotesAgree'
  OBVIOUS
<1>1. sess \in Session /\ State \in View /\ State.previous = Len(quotes)
  BY StateIsView DEF QuotesAgree, Typed
<1>2. sess' = [sess EXCEPT !.pc = "idle", !.view = State]
  BY DEF Refresh
<1>3. sess' \in Session /\ sess'.pc = "idle" /\ sess'.view = State
  BY <1>1, <1>2 DEF Session
<1>4. Len(quotes) \in Nat
  BY DEF QuotesAgree, Typed, QuotesTyped
<1> QED BY <1>1, <1>3, <1>4, SessionStep DEF Refresh
-----------------------------------------------------------------------------
(* A tool call *)

\* The evidence of a tool call is picked once.
LEMMA EvidenceIsPickedOnce ==
  ASSUME QuotesAgree, NEW id \in Call, NEW c \in Commands,
         id \in DOMAIN asked => asked[id].c = c
  PROVE  /\ Evidence(id, c.name) \in stored \cup {Nil}
         /\ byCall[id] # Nil => Evidence(id, c.name) = byCall[id]
         /\ Evidence(id, c.name) # Nil => c.name = "create_quote"
<1>1. byCall[id] \in stored \cup {Nil} /\ latest \in stored \cup {Nil}
  BY DEF QuotesAgree, Typed, SpeechTyped, SegmentsArePicked
<1>2. byCall[id] # Nil => c.name = "create_quote"
  BY DEF QuotesAgree, SegmentsArePicked
<1> QED BY <1>1, <1>2 DEF Evidence

\* The tool call is run, under the view of now and with its evidence.
LEMMA InvokeStep ==
  ASSUME QuoteAssumption, QuotesAgree, NEW id \in Call, NEW c \in Commands, Invoke(id, c),
         UNCHANGED <<db, speech>>,
         id \in DOMAIN asked => asked[id].c = c,
         AskedTyped', id \in DOMAIN asked', asked'[id].c = c, again \subseteq again',
         \A i \in DOMAIN asked : i \in DOMAIN asked' /\ asked'[i] = asked[i],
         \A i \in DOMAIN asked' : i = id \/ i \in DOMAIN asked,
         c.name = "create_quote" => id \in again' \/
           \A v \in 1..sess.view.previous :
             quotes[v].answer = asked'[id].answer => c.accept /\ ~quotes[v].accepted
  PROVE  QuotesAgree'
<1> DEFINE s == Evidence(id, c.name)
<1>1. /\ s \in stored \cup {Nil} /\ (byCall[id] # Nil => s = byCall[id])
      /\ s # Nil => c.name = "create_quote"
  BY EvidenceIsPickedOnce
<1>2. /\ byCall' = [byCall EXCEPT ![id] = s]
      /\ sess' = [sess EXCEPT !.pc = IF s = Nil THEN "wait" ELSE "stage", !.id = id]
      /\ wire' = wire \/ wire' = wire \cup {[id |-> id, target |-> sess.view]}
      /\ s # Nil => wire' = wire
  BY DEF Invoke, Send
<1> HIDE DEF s
<1>3. byCall \in [Call -> 0..MaxTurns] /\ stored \subseteq 1..spoken /\ spoken \in 0..MaxTurns
  BY DEF QuotesAgree, Typed, ToolCallsTyped, SpeechTyped
<1>4. s \in 0..MaxTurns
  <2>1. CASE s = Nil
    BY <2>1 DEF QuoteAssumption, Nil
  <2>2. CASE s \in 1..spoken
    BY <2>2, <1>3 DEF QuoteAssumption
  <2> QED BY <2>1, <2>2, <1>1, <1>3
<1>5. byCall' \in [Call -> 0..MaxTurns] /\ byCall'[id] = s
      /\ \A i \in Call : i # id => byCall'[i] = byCall[i]
  BY <1>2, <1>3, <1>4
<1>6. sess \in Session /\ id \in Slot
  BY DEF QuoteAssumption, QuotesAgree, Typed, Call, Slot
<1>7. /\ sess' \in Session /\ sess'.view = sess.view /\ sess'.id = id
      /\ sess'.pc = "stage" => s # Nil
  BY <1>2, <1>6 DEF Session
<1>8. sess.view \in View
  BY <1>6 DEF Session
<1>9. [id |-> id, target |-> sess.view] \in Request
  BY <1>8 DEF Request
<1>10. wire \subseteq Request /\ \A r \in wire : r.id \in DOMAIN asked
  BY DEF QuotesAgree, Typed, WireTyped
<1>11. \A r \in wire' : r \in wire \/ (r.id = id /\ r.target = sess.view)
  BY <1>2
<1>12. WireTyped'
  <2>1. wire' \subseteq Request
    BY <1>2, <1>9, <1>10
  <2> QED BY <2>1, <1>10, <1>11 DEF WireTyped
<1>13. Typed'
  <2>1. RowsTyped' /\ QuotesTyped' /\ SpeechTyped'
    BY DEF QuotesAgree, Typed, RowsTyped, QuotesTyped, SpeechTyped, db, speech
  <2>2. ToolCallsTyped'
    BY <1>5 DEF QuotesAgree, Typed, ToolCallsTyped, db
  <2> QED BY <2>1, <2>2, <1>7, <1>12 DEF Typed
<1>14. ViewsAreOfThen'
  <2>1. sess.view.previous <= Len(quotes) /\ \A r \in wire : r.target.previous <= Len(quotes)
    BY DEF QuotesAgree, ViewsAreOfThen
  <2>2. quotes' = quotes
    BY DEF db
  <2> QED BY <2>1, <2>2, <1>7, <1>11 DEF ViewsAreOfThen
<1>15. AnswersAreFresh'
  <2>1. quotes' = quotes
    BY DEF db
  <2>2. ASSUME NEW n, NEW i \in DOMAIN asked, Fresh(n, i)
        PROVE  Fresh(n, i)'
    BY <2>1, <2>2 DEF Fresh
  <2>3. sess'.pc = "stage" => /\ sess'.id \in DOMAIN asked' /\ asked'[sess'.id].c.name = "create_quote"
                              /\ sess'.id \in again' \/ Fresh(sess.view.previous, sess.id)'
    BY <1>1, <1>7, <2>1 DEF Fresh
  <2>4. ASSUME NEW r \in wire', asked'[r.id].c.name = "create_quote"
        PROVE  r.id \in again' \/ Fresh(r.target.previous, r.id)'
    <3>1. CASE r \in wire
      <4>1. r.id \in DOMAIN asked /\ asked'[r.id] = asked[r.id]
        BY <3>1, <1>10
      <4>2. r.id \in again \/ Fresh(r.target.previous, r.id)
        BY <3>1, <4>1, <2>4 DEF QuotesAgree, AnswersAreFresh
      <4> QED BY <4>1, <4>2, <2>2
    <3>2. CASE r.id = id /\ r.target = sess.view
      BY <3>2, <2>4, <2>1 DEF Fresh
    <3> QED BY <3>1, <3>2, <1>11
  <2> QED BY <2>3, <2>4 DEF AnswersAreFresh
<1>16. SegmentsArePicked'
  <2>1. quotes' = quotes /\ evidence' = evidence /\ staging' = staging /\ stored' = stored
    BY DEF db, speech
  <2>2. \A i \in Call : /\ byCall[i] \in stored \cup {Nil} /\ staging[i] \in {Nil, byCall[i]}
                        /\ i \notin DOMAIN asked => byCall[i] = Nil
                        /\ i \in DOMAIN asked => asked[i].c.name = "create_quote" \/ byCall[i] = Nil
    BY DEF QuotesAgree, SegmentsArePicked
  <2>3. \A v \in DOMAIN quotes : evidence[v] \in {Nil, byCall[quotes[v].id]} /\ quotes[v].id \in Call
    BY QuoteFields DEF QuotesAgree, SegmentsArePicked
  <2>4. \A i \in Call : byCall'[i] = byCall[i] \/ (i = id /\ byCall[i] = Nil)
    BY <1>1, <1>5
  <2>5. \A i \in Call : byCall'[i] \in stored' \cup {Nil} /\ staging'[i] \in {Nil, byCall'[i]}
    BY <2>1, <2>2, <2>4, <1>1, <1>5
  <2>6. \A i \in Call : /\ i \notin DOMAIN asked' => byCall'[i] = Nil
                        /\ i \in DOMAIN asked' => asked'[i].c.name = "create_quote" \/ byCall'[i] = Nil
    BY <2>2, <2>4, <1>1, <1>5
  <2>7. \A v \in DOMAIN quotes' : evidence'[v] \in {Nil, byCall'[quotes'[v].id]}
    BY <2>1, <2>3, <2>4
  <2> QED BY <2>5, <2>6, <2>7 DEF SegmentsArePicked
<1>17. QuotesHaveReceipts'
  BY ReceiptsStay DEF QuotesAgree, db
<1>18. AnswerCountedOnce' /\ OneQuotePerToolCall' /\ ExceptionIsEarned'
  BY CountStays DEF QuotesAgree, db
<1> QED BY <1>13, <1>14, <1>15, <1>16, <1>17, <1>18 DEF QuotesAgree

\* The agent reports an answer the view does not show as a quote.
LEMMA AskStep == QuoteAssumption /\ QuotesAgree /\ Ask => QuotesAgree'
<1> SUFFICES ASSUME QuoteAssumption, QuotesAgree, Ask PROVE QuotesAgree'
  OBVIOUS
<1> DEFINE n == Len(asked) + 1
<1>1. PICK c \in Commands :
        /\ c.name = "create_quote" => ~Answered(spoken, c.accept)
        /\ asked' = Append(asked, [c |-> c, answer |-> spoken]) /\ Invoke(n, c)
  BY DEF Ask
<1>2. /\ spoken > 0 /\ Len(asked) < MaxCalls /\ again' = again
      /\ UNCHANGED <<db, speech>>
  BY DEF Ask
<1>3. /\ asked \in Seq(Asking) /\ Len(asked) <= MaxCalls /\ again \subseteq DOMAIN asked
      /\ spoken \in 0..MaxTurns /\ Len(asked) \in Nat /\ DOMAIN asked = 1..Len(asked)
  BY DEF QuotesAgree, Typed, AskedTyped, SpeechTyped
<1>4. n \in Call /\ n \notin DOMAIN asked
  BY <1>2, <1>3 DEF QuoteAssumption, Call
<1>5. [c |-> c, answer |-> spoken] \in Asking
  BY <1>2, <1>3 DEF QuoteAssumption, Asking
<1>6. /\ asked' \in Seq(Asking) /\ Len(asked') = n /\ asked'[n] = [c |-> c, answer |-> spoken]
      /\ \A i \in DOMAIN asked : asked'[i] = asked[i]
  BY <1>1, <1>3, <1>5
<1>7. /\ n \in DOMAIN asked' /\ \A i \in DOMAIN asked : i \in DOMAIN asked'
      /\ \A i \in DOMAIN asked' : i = n \/ i \in DOMAIN asked
  BY <1>3, <1>6
<1>8. AskedTyped'
  BY <1>2, <1>3, <1>6, <1>7 DEF QuoteAssumption, AskedTyped
<1>9. asked'[n].c = c /\ asked'[n].answer = spoken
  BY <1>6
<1>10. c.name = "create_quote" =>
         \A v \in 1..sess.view.previous :
           quotes[v].answer = asked'[n].answer => c.accept /\ ~quotes[v].accepted
  BY <1>1, <1>9 DEF Answered
<1> HIDE DEF n
<1> QED BY <1>1, <1>2, <1>4, <1>6, <1>7, <1>8, <1>9, <1>10, InvokeStep

\* A tool call that is run again needs no news.
LEMMA RepeatStep == QuoteAssumption /\ QuotesAgree /\ Repeat => QuotesAgree'
<1> SUFFICES ASSUME QuoteAssumption, QuotesAgree, Repeat PROVE QuotesAgree'
  OBVIOUS
<1>1. PICK id \in DOMAIN asked : again' = again \cup {id} /\ Invoke(id, asked[id].c)
  BY DEF Repeat
<1>2. asked' = asked /\ UNCHANGED <<db, speech>>
  BY DEF Repeat
<1>3. asked \in Seq(Asking) /\ Len(asked) <= MaxCalls /\ again \subseteq DOMAIN asked
  BY DEF QuotesAgree, Typed, AskedTyped
<1>4. asked[id] \in Asking /\ id \in Call
  BY <1>3 DEF QuoteAssumption, Call
<1>5. asked[id].c \in Commands
  BY <1>4 DEF Asking
<1>6. AskedTyped'
  BY <1>1, <1>2, <1>3 DEF AskedTyped
<1>7. id \in again'
  BY <1>1
<1> QED BY <1>1, <1>2, <1>4, <1>5, <1>6, <1>7, InvokeStep
-----------------------------------------------------------------------------
(* Staging *)

\* The evidence of the tool call in hand is staged, or not, and its command is
\* sent under the view of now, or not.
LEMMA StagingStep ==
  ASSUME QuoteAssumption, QuotesAgree, sess.pc = "stage",
         staging' = staging \/ staging' = [staging EXCEPT ![sess.id] = byCall[sess.id]],
         sess' \in Session, sess'.view = sess.view, sess'.pc # "stage",
         wire' = wire \/ wire' = wire \cup {[id |-> sess.id, target |-> sess.view]},
         UNCHANGED <<op, call, quotes, offers, receipts, evidence, speech, byCall, asked, again>>
  PROVE  QuotesAgree'
<1>1. /\ sess.id \in DOMAIN asked /\ asked[sess.id].c.name = "create_quote"
      /\ sess.id \in again \/ Fresh(sess.view.previous, sess.id)
  BY DEF QuotesAgree, AnswersAreFresh
<1>2. asked \in Seq(Asking) /\ Len(asked) <= MaxCalls /\ sess \in Session
  BY DEF QuotesAgree, Typed, AskedTyped
<1>3. sess.id \in Call /\ sess.view \in View
  BY <1>1, <1>2 DEF QuoteAssumption, Call, Session
<1>4. [id |-> sess.id, target |-> sess.view] \in Request
  BY <1>3 DEF Request
<1>5. wire \subseteq Request /\ \A r \in wire : r.id \in DOMAIN asked
  BY DEF QuotesAgree, Typed, WireTyped
<1>6. \A r \in wire' : r \in wire \/ (r.id = sess.id /\ r.target = sess.view)
  OBVIOUS
<1>7. WireTyped'
  <2>1. wire' \subseteq Request
    BY <1>4, <1>5
  <2> QED BY <2>1, <1>1, <1>5, <1>6 DEF WireTyped
<1>8. staging \in [Call -> 0..MaxTurns] /\ byCall \in [Call -> 0..MaxTurns]
  BY DEF QuotesAgree, Typed, ToolCallsTyped
<1>9. /\ staging' \in [Call -> 0..MaxTurns]
      /\ \A i \in Call : staging'[i] = staging[i] \/ staging'[i] = byCall[i]
  BY <1>3, <1>8
<1>10. Typed'
  <2>1. RowsTyped' /\ QuotesTyped' /\ SpeechTyped' /\ AskedTyped'
    BY DEF QuotesAgree, Typed, RowsTyped, QuotesTyped, SpeechTyped, AskedTyped, speech
  <2>2. ToolCallsTyped'
    BY <1>9 DEF QuotesAgree, Typed, ToolCallsTyped
  <2> QED BY <2>1, <2>2, <1>7 DEF Typed
<1>11. ViewsAreOfThen'
  <2>1. sess.view.previous <= Len(quotes) /\ \A r \in wire : r.target.previous <= Len(quotes)
    BY DEF QuotesAgree, ViewsAreOfThen
  <2> QED BY <2>1, <1>6 DEF ViewsAreOfThen
<1>12. AnswersAreFresh'
  <2>1. ASSUME NEW r \in wire', asked[r.id].c.name = "create_quote"
        PROVE  r.id \in again \/ Fresh(r.target.previous, r.id)
    BY <2>1, <1>1, <1>6 DEF QuotesAgree, AnswersAreFresh
  <2> QED BY <2>1 DEF AnswersAreFresh, Fresh
<1>13. SegmentsArePicked'
  <2>1. stored' = stored
    BY DEF speech
  <2> QED BY <2>1, <1>9 DEF QuotesAgree, SegmentsArePicked
<1>14. QuotesHaveReceipts'
  BY ReceiptsStay DEF QuotesAgree
<1>15. AnswerCountedOnce' /\ OneQuotePerToolCall' /\ ExceptionIsEarned'
  BY CountStays DEF QuotesAgree
<1> QED BY <1>10, <1>11, <1>12, <1>13, <1>14, <1>15 DEF QuotesAgree

LEMMA StageStep == QuoteAssumption /\ QuotesAgree /\ Stage => QuotesAgree'
<1> SUFFICES ASSUME QuoteAssumption, QuotesAgree, Stage PROVE QuotesAgree'
  OBVIOUS
<1>1. sess \in Session
  BY DEF QuotesAgree, Typed
<1>2. /\ sess' = [sess EXCEPT !.pc = "wait"] \/ sess' = [sess EXCEPT !.pc = "refresh"]
      /\ staging' = staging \/ staging' = [staging EXCEPT ![sess.id] = byCall[sess.id]]
      /\ wire' = wire \/ wire' = wire \cup {[id |-> sess.id, target |-> sess.view]}
      /\ sess.pc = "stage"
      /\ UNCHANGED <<op, call, quotes, offers, receipts, evidence, speech, byCall, asked, again>>
  BY DEF Stage, Send
<1>3. sess' \in Session /\ sess'.view = sess.view /\ sess'.pc # "stage"
  <2>1. CASE sess' = [sess EXCEPT !.pc = "wait"]
    BY <2>1, <1>1, SessionMoves
  <2>2. CASE sess' = [sess EXCEPT !.pc = "refresh"]
    BY <2>2, <1>1, SessionMoves
  <2> QED BY <2>1, <2>2, <1>2
<1> QED BY <1>2, <1>3, StagingStep

LEMMA StageLostStep == QuoteAssumption /\ QuotesAgree /\ StageLost => QuotesAgree'
<1> SUFFICES ASSUME QuoteAssumption, QuotesAgree, StageLost PROVE QuotesAgree'
  OBVIOUS
<1>1. sess \in Session
  BY DEF QuotesAgree, Typed
<1>2. /\ sess' = [sess EXCEPT !.pc = "refresh"] /\ wire' = wire /\ sess.pc = "stage"
      /\ staging' = [staging EXCEPT ![sess.id] = byCall[sess.id]]
      /\ UNCHANGED <<op, call, quotes, offers, receipts, evidence, speech, byCall, asked, again>>
  BY DEF StageLost
<1>3. sess' \in Session /\ sess'.view = sess.view /\ sess'.pc # "stage"
  BY <1>1, <1>2, SessionMoves
<1> QED BY <1>2, <1>3, StagingStep
-----------------------------------------------------------------------------
(* The transactions *)

\* A command is delivered: it leaves the wire, its caller stops waiting, and
\* the quotes there were stay.
Delivered(r) ==
  /\ wire' = wire \ {r}
  /\ sess' = IF sess.pc = "wait" /\ sess.id = r.id THEN [sess EXCEPT !.pc = "refresh"] ELSE sess
  /\ UNCHANGED <<speech, byCall, asked, again>>

\* What others saw or are about to do is as fresh as before.
LEMMA DeliveredStep ==
  ASSUME NEW r \in wire, QuotesAgree, Delivered(r), Len(quotes') >= Len(quotes),
         \A v \in DOMAIN quotes : quotes'[v] = quotes[v]
  PROVE  /\ SpeechTyped' /\ AskedTyped' /\ WireTyped' /\ sess' \in Session
         /\ (Len(quotes') \in Nat => ViewsAreOfThen') /\ AnswersAreFresh'
<1>1. /\ sess \in Session /\ wire \subseteq Request /\ quotes \in Seq(Quote)
      /\ \A x \in wire : x.id \in DOMAIN asked
  BY DEF QuotesAgree, Typed, WireTyped, QuotesTyped
<1>2. sess' \in Session /\ sess'.view = sess.view /\ (sess'.pc = "stage" => sess' = sess)
  <2>1. CASE sess' = sess
    BY <2>1, <1>1
  <2>2. CASE sess' = [sess EXCEPT !.pc = "refresh"]
    BY <2>2, <1>1, SessionMoves
  <2> QED BY <2>1, <2>2 DEF Delivered
<1>3. sess.view.previous \in Nat /\ \A x \in wire : x.target.previous \in Nat
  BY <1>1 DEF Session, Request, View
<1>4. sess.view.previous <= Len(quotes) /\ \A x \in wire : x.target.previous <= Len(quotes)
  BY DEF QuotesAgree, ViewsAreOfThen
<1>5. wire' \subseteq wire /\ asked' = asked /\ again' = again
  BY DEF Delivered
<1>6. SpeechTyped' /\ AskedTyped' /\ WireTyped'
  BY <1>1, <1>5 DEF QuotesAgree, Typed, SpeechTyped, AskedTyped, WireTyped, Delivered, speech
<1>7. Len(quotes') \in Nat => ViewsAreOfThen'
  <2>1. Len(quotes) \in Nat
    BY <1>1
  <2> QED BY <2>1, <1>2, <1>3, <1>4, <1>5 DEF ViewsAreOfThen
<1> DEFINE StillFresh(n, id) == \A v \in 1..n : quotes'[v].answer = asked[id].answer =>
                                  asked[id].c.accept /\ ~quotes'[v].accepted
<1>8. \A n \in Nat : n <= Len(quotes) => \A id : Fresh(n, id) => StillFresh(n, id)
  <2> SUFFICES ASSUME NEW n \in Nat, n <= Len(quotes), NEW id, Fresh(n, id)
               PROVE  StillFresh(n, id)
    OBVIOUS
  <2>1. \A v \in 1..n : quotes'[v] = quotes[v]
    BY <1>1
  <2> QED BY <2>1 DEF Fresh
<1> HIDE DEF StillFresh
<1>9. sess.pc = "stage" =>
        /\ sess.id \in DOMAIN asked /\ asked[sess.id].c.name = "create_quote"
        /\ sess.id \in again \/ StillFresh(sess.view.previous, sess.id)
  BY <1>3, <1>4, <1>8 DEF QuotesAgree, AnswersAreFresh
<1>10. \A x \in wire : asked[x.id].c.name = "create_quote" =>
         x.id \in again \/ StillFresh(x.target.previous, x.id)
  BY <1>3, <1>4, <1>8 DEF QuotesAgree, AnswersAreFresh
<1>11. AnswersAreFresh'
  BY <1>2, <1>5, <1>9, <1>10 DEF AnswersAreFresh, Fresh, StillFresh
<1> QED BY <1>2, <1>6, <1>7, <1>11

\* A command that makes no quote.
LEMMA NoQuoteStep ==
  ASSUME NEW r \in wire, QuotesAgree, Delivered(r), RowsTyped', offers' \in Seq(Price),
         receipts' = receipts \/ \E x \in Results \ {"none"} : receipts' = [receipts EXCEPT ![r.id] = x],
         UNCHANGED <<quotes, staging, evidence>>
  PROVE  QuotesAgree'
<1>1. receipts \in [Call -> Results]
  BY DEF QuotesAgree, Typed, ToolCallsTyped
<1>2. /\ receipts' \in [Call -> Results]
      /\ \A id \in Call : receipts[id] # "none" => receipts'[id] # "none"
  BY <1>1 DEF Results
<1>3. quotes \in Seq(Quote)
  BY DEF QuotesAgree, Typed, QuotesTyped
<1>4. SpeechTyped' /\ AskedTyped' /\ WireTyped' /\ sess' \in Session /\ ViewsAreOfThen' /\ AnswersAreFresh'
  BY <1>3, DeliveredStep
<1>5. Typed'
  BY <1>2, <1>4 DEF QuotesAgree, Typed, QuotesTyped, ToolCallsTyped, Delivered
<1>6. QuotesHaveReceipts'
  BY <1>2, QuoteFields DEF QuotesAgree, QuotesHaveReceipts
<1>7. SegmentsArePicked'
  BY SegmentsStay DEF QuotesAgree, Delivered, speech
<1>8. AnswerCountedOnce' /\ OneQuotePerToolCall' /\ ExceptionIsEarned'
  BY CountStays DEF QuotesAgree, Delivered
<1> QED BY <1>4, <1>5, <1>6, <1>7, <1>8 DEF QuotesAgree
\* A set of positions that is not empty has a largest one.
LEMMA LargestPosition ==
  ASSUME NEW n \in Nat, NEW K \in SUBSET (1..n), K # {}
  PROVE  (CHOOSE i \in K : \A j \in K : j <= i) \in K
<1>1. PICK k \in K : TRUE
  OBVIOUS
<1> DEFINE Above == {n - i : i \in K}
<1>2. Above \subseteq Nat /\ Above # {}
  BY <1>1
<1>3. PICK m \in Above : \A x \in Above : ~(<<x, m>> \in OpToRel(<, Nat))
  BY <1>2, NatLessThanWellFounded, WFMin
<1>4. PICK i \in K : m = n - i
  BY <1>3
<1>5. ASSUME NEW j \in K PROVE j <= i
  <2>1. n - j \in Above /\ n - j \in Nat /\ m \in Nat
    BY <1>2, <1>3
  <2>2. ~(n - j < m)
    BY <2>1, <1>3 DEF OpToRel
  <2>3. i \in Nat /\ j \in Nat
    OBVIOUS
  <2> QED BY <2>1, <2>2, <2>3, <1>4
<1> QED BY <1>4, <1>5

\* A command on the wire is one the agent gave.
LEMMA CommandsAreAsked ==
  ASSUME QuotesAgree, NEW r \in wire
  PROVE  /\ r.id \in DOMAIN asked /\ r.id \in Call /\ r.target \in View
         /\ Asks(r) \in Commands /\ asked[r.id].answer \in 1..MaxTurns
<1>1. wire \subseteq Request /\ r.id \in DOMAIN asked
  BY DEF QuotesAgree, Typed, WireTyped
<1>2. r.id \in Call /\ r.target \in View
  BY <1>1 DEF Request
<1>3. asked \in Seq(Asking)
  BY DEF QuotesAgree, Typed, AskedTyped
<1>4. asked[r.id] \in Asking
  BY <1>1, <1>3
<1> QED BY <1>1, <1>2, <1>4 DEF Asks, Asking

\* The quote a command makes.
LEMMA NewQuoteIsQuote ==
  ASSUME QuotesAgree, NEW r \in wire, Asks(r).name = "create_quote"
  PROVE  /\ NewQuote(r) \in Quote
         /\ NewQuote(r).id = r.id /\ NewQuote(r).answer = asked[r.id].answer
         /\ NewQuote(r).price = Asks(r).price
         /\ NewQuote(r).accepted = (Asks(r).accept /\ Asks(r).price > Cap)
         /\ NewQuote(r).stopped = (Asks(r).stopped /\ Asks(r).price > Cap)
<1> DEFINE known == {i \in DOMAIN offers : offers[i] = Asks(r).price}
           o == IF known = {} THEN Len(offers) + 1
                ELSE CHOOSE i \in known : \A j \in known : j <= i
<1>1. Len(offers) \in Nat /\ known \in SUBSET (1..Len(offers))
  BY DEF QuotesAgree, Typed, QuotesTyped
<1>2. o \in Nat \ {0}
  <2>1. CASE known = {}
    BY <2>1, <1>1
  <2>2. CASE known # {}
    <3> HIDE DEF known
    <3>1. (CHOOSE i \in known : \A j \in known : j <= i) \in known
      BY <2>2, <1>1, LargestPosition
    <3>2. o \in known
      BY <3>1, <2>2
    <3>3. o \in 1..Len(offers)
      BY <3>2, <1>1
    <3> HIDE DEF o
    <3> QED BY <3>3, <1>1
  <2> QED BY <2>1, <2>2
<1>3. NewQuote(r) = [price |-> Asks(r).price, verdict |-> NewVerdict(Asks(r)),
        accepted |-> Asks(r).accept /\ Asks(r).price > Cap,
        stopped |-> Asks(r).stopped /\ Asks(r).price > Cap,
        offer |-> o, id |-> r.id, answer |-> asked[r.id].answer]
  BY DEF NewQuote
<1> HIDE DEF known, o
<1>4. NewVerdict(Asks(r)) \in {"dentro", "contraoferta", "fuera"}
  BY DEF NewVerdict
<1>5. Asks(r).price \in Price /\ r.id \in Call /\ asked[r.id].answer \in 1..MaxTurns
  BY CommandsAreAsked, CommandFields
<1>6. NewQuote(r) \in Quote
  BY <1>2, <1>3, <1>4, <1>5 DEF Quote
<1> QED BY <1>3, <1>6

\* Answers whose tool calls were run once are counted once each.
LEMMA AttemptsAreAnswers ==
  ASSUME QuotesAgree, \A v \in DOMAIN quotes : quotes[v].id \notin again
  PROVE  /\ Attempts = Cardinality({quotes[v].answer : v \in {x \in DOMAIN quotes : Attempt(quotes[x])}})
         /\ Attempts \in Nat
<1> DEFINE S == {v \in DOMAIN quotes : Attempt(quotes[v])}
           T == {quotes[v].answer : v \in S}
           f == [v \in S |-> quotes[v].answer]
<1>1. IsFiniteSet(S)
  <2>1. Len(quotes) \in Nat /\ S \in SUBSET (1..Len(quotes))
    BY DEF QuotesAgree, Typed, QuotesTyped
  <2>2. IsFiniteSet(1..Len(quotes))
    BY <2>1, FS_Interval
  <2> QED BY <2>1, <2>2, FS_Subset
<1>2. \A v, w \in S : v # w => quotes[v].answer # quotes[w].answer
  <2> SUFFICES ASSUME NEW v \in S, NEW w \in S, v < w PROVE quotes[v].answer # quotes[w].answer
    BY DEF QuotesAgree, Typed, QuotesTyped
  <2> QED BY DEF QuotesAgree, AnswerCountedOnce
<1>3. f \in [S -> T] /\ \A v \in S : f[v] = quotes[v].answer
  OBVIOUS
<1>4. \A t \in T : \E v \in S : f[v] = t
  BY <1>3
<1> HIDE DEF f
<1>5. f \in Injection(S, T) /\ f \in Surjection(S, T)
  BY <1>2, <1>3, <1>4 DEF Injection, IsInjective, Surjection
<1>6. Cardinality(T) = Cardinality(S)
  BY <1>1, <1>5, FS_Surjection
<1>7. Cardinality(S) \in Nat
  BY <1>1, FS_CardinalityType
<1> QED BY <1>6, <1>7 DEF Attempts

\* A quote added to those there were.
Quoted(r, q) ==
  /\ quotes' = Append(quotes, q) /\ evidence' = Append(evidence, staging[r.id])
  /\ staging' = staging

\* The quotes there were stay, and the new one comes last.
LEMMA QuotesAfter ==
  ASSUME QuotesAgree, NEW r \in wire, NEW q \in Quote, Quoted(r, q)
  PROVE  /\ quotes' \in Seq(Quote) /\ Len(quotes') = Len(quotes) + 1 /\ Len(quotes) \in Nat
         /\ DOMAIN quotes' = 1..(Len(quotes) + 1) /\ DOMAIN quotes = 1..Len(quotes)
         /\ DOMAIN quotes' = DOMAIN quotes \cup {Len(quotes) + 1}
         /\ \A v \in DOMAIN quotes : quotes'[v] = quotes[v]
         /\ quotes'[Len(quotes) + 1] = q
         /\ evidence' \in Seq(0..MaxTurns) /\ Len(evidence') = Len(quotes')
         /\ \A v \in DOMAIN quotes : evidence'[v] = evidence[v]
         /\ evidence'[Len(quotes) + 1] = staging[r.id]
<1>1. quotes \in Seq(Quote) /\ evidence \in Seq(0..MaxTurns) /\ Len(evidence) = Len(quotes)
  BY DEF QuotesAgree, Typed, QuotesTyped
<1>2. staging[r.id] \in 0..MaxTurns
  BY CommandsAreAsked DEF QuotesAgree, Typed, ToolCallsTyped
<1>3. quotes' = Append(quotes, q) /\ evidence' = Append(evidence, staging[r.id])
  BY DEF Quoted
<1>4. Len(quotes) \in Nat /\ DOMAIN quotes = 1..Len(quotes) /\ DOMAIN evidence = 1..Len(quotes)
  BY <1>1
<1>5. /\ quotes' \in Seq(Quote) /\ Len(quotes') = Len(quotes) + 1
      /\ DOMAIN quotes' = 1..(Len(quotes) + 1)
      /\ \A v \in DOMAIN quotes : quotes'[v] = quotes[v]
      /\ quotes'[Len(quotes) + 1] = q
  BY <1>1, <1>3
<1>6. /\ evidence' \in Seq(0..MaxTurns) /\ Len(evidence') = Len(quotes) + 1
      /\ \A v \in DOMAIN evidence : evidence'[v] = evidence[v]
      /\ evidence'[Len(quotes) + 1] = staging[r.id]
  BY <1>1, <1>2, <1>3
<1> QED BY <1>4, <1>5, <1>6

\* The new quote's tool call has made none, and what it reports is news.
LEMMA QuoteIsCountedOnce ==
  ASSUME QuotesAgree, NEW r \in wire, NEW q \in Quote, Quoted(r, q), again' = again,
         q.id = r.id, q.answer = asked[r.id].answer, ~Committed(r),
         q.accepted = (Asks(r).accept /\ Asks(r).price > Cap), q.price = Asks(r).price,
         Asks(r).name = "create_quote", r.target.previous = Len(quotes)
  PROVE  AnswerCountedOnce' /\ OneQuotePerToolCall'
<1> DEFINE n == Len(quotes) + 1
<1>1. /\ DOMAIN quotes' = DOMAIN quotes \cup {n} /\ quotes'[n] = q
      /\ \A v \in DOMAIN quotes : quotes'[v] = quotes[v]
      /\ DOMAIN quotes = 1..Len(quotes) /\ Len(quotes) \in Nat
  BY QuotesAfter
<1>2. n \in Nat /\ \A v \in DOMAIN quotes : v < n /\ v \in Nat
  BY <1>1
<1> HIDE DEF n
<1>3. r.id \in again \/ Fresh(Len(quotes), r.id)
  BY DEF QuotesAgree, AnswersAreFresh, Asks
<1>4. \A v \in DOMAIN quotes : quotes[v].id # r.id
  BY DEF QuotesAgree, QuotesHaveReceipts, Committed
<1>5. ASSUME NEW v \in DOMAIN quotes, Attempt(quotes[v]), Attempt(q), quotes[v].answer = q.answer
      PROVE  q.id \in again
  <2>1. ~Asks(r).accept /\ ~quotes[v].accepted
    BY <1>5 DEF Attempt
  <2>2. ~Fresh(Len(quotes), r.id)
    BY <2>1, <1>1, <1>2, <1>5 DEF Fresh, Asks
  <2> QED BY <2>2, <1>3
<1>6. AnswerCountedOnce'
  <2> SUFFICES ASSUME NEW v \in DOMAIN quotes', NEW w \in DOMAIN quotes', v < w,
                      Attempt(quotes'[v]), Attempt(quotes'[w]), quotes'[v].answer = quotes'[w].answer
               PROVE  quotes'[w].id \in again
    BY DEF AnswerCountedOnce, Attempt
  <2>1. v \in DOMAIN quotes
    BY <1>1, <1>2
  <2>2. CASE w \in DOMAIN quotes
    BY <2>1, <2>2, <1>1, <1>2 DEF QuotesAgree, AnswerCountedOnce
  <2>3. CASE w = n
    BY <2>1, <2>3, <1>1, <1>2, <1>5
  <2> QED BY <2>2, <2>3, <1>1, <1>2
<1>7. OneQuotePerToolCall'
  BY <1>1, <1>2, <1>4 DEF QuotesAgree, OneQuotePerToolCall
<1> QED BY <1>6, <1>7

\* A price above the budget is accepted when enough answers were counted.
LEMMA QuoteIsEarned ==
  ASSUME QuoteAssumption, QuotesAgree, NEW r \in wire, NEW q \in Quote, Quoted(r, q), again' = again,
         q.accepted = (Asks(r).accept /\ Asks(r).price > Cap),
         q.stopped = (Asks(r).stopped /\ Asks(r).price > Cap), ~TooEarly(Asks(r))
  PROVE  ExceptionIsEarned'
<1> DEFINE n == Len(quotes) + 1
<1>1. /\ DOMAIN quotes' = DOMAIN quotes \cup {n} /\ quotes'[n] = q
      /\ \A v \in DOMAIN quotes : quotes'[v] = quotes[v]
      /\ DOMAIN quotes = 1..Len(quotes) /\ Len(quotes) \in Nat
  BY QuotesAfter
<1>2. n \in Nat /\ n - 1 = Len(quotes) /\ \A v \in DOMAIN quotes' : v \in Nat /\ v >= 1 /\ v <= n
  BY <1>1
<1> HIDE DEF n
<1>3. ASSUME NEW k \in Nat, k <= Len(quotes), \A w \in 1..k : quotes'[w].id \notin again
      PROVE  /\ \A w \in 1..k : quotes[w].id \notin again
             /\ {quotes'[w].answer : w \in {x \in 1..k : Attempt(quotes'[x])}} =
                {quotes[w].answer : w \in {x \in 1..k : Attempt(quotes[x])}}
  <2>1. \A w \in 1..k : quotes'[w] = quotes[w]
    BY <1>1, <1>2, <1>3
  <2> QED BY <2>1, <1>3
<1> SUFFICES ASSUME NEW v \in DOMAIN quotes', quotes'[v].accepted, ~quotes'[v].stopped,
                    \A w \in 1..(v - 1) : quotes'[w].id \notin again
             PROVE  Cardinality({quotes'[w].answer : w \in {x \in 1..(v - 1) : Attempt(quotes'[x])}}) >= Counted
  BY DEF ExceptionIsEarned, Attempt, Counted
<1>4. v - 1 \in Nat /\ v - 1 <= Len(quotes)
  BY <1>1, <1>2
<1>5. CASE v \in DOMAIN quotes
  BY <1>1, <1>2, <1>3, <1>4, <1>5 DEF QuotesAgree, ExceptionIsEarned
<1>6. CASE v = n
  <2>1. v - 1 = Len(quotes) /\ DOMAIN quotes = 1..(v - 1)
    BY <1>1, <1>2, <1>6
  <2>2. Attempts = Cardinality({quotes[w].answer : w \in {x \in 1..(v - 1) : Attempt(quotes[x])}})
    BY <2>1, <1>3, <1>4, AttemptsAreAnswers
  <2>3. ~(Attempts < Counted)
    BY <1>1, <1>2, <1>6 DEF TooEarly
  <2>4. Attempts \in Nat
    BY <2>1, <1>1, <1>2, <1>3, <1>4, AttemptsAreAnswers
  <2>5. Counted \in Nat
    BY DEF QuoteAssumption, Counted, Least
  <2>6. Attempts >= Counted
    BY <2>3, <2>4, <2>5
  <2> QED BY <2>2, <2>6, <1>3, <1>4
<1> QED BY <1>1, <1>2, <1>5, <1>6

\* A quote is made: the one that the tool call reports, once.
LEMMA CreateQuoteStep ==
  ASSUME QuoteAssumption, NEW r \in wire, QuotesAgree, Delivered(r), ~Committed(r), CreateQuote(r)
  PROVE  QuotesAgree'
<1> DEFINE q == NewQuote(r)
           final == q.verdict = "dentro" \/ q.accepted
           n == Len(quotes) + 1
<1>1. /\ Asks(r).name = "create_quote" /\ Fits(Asks(r)) /\ r.target.previous = Last(quotes)
      /\ UNCHANGED staging
      /\ quotes' = Append(quotes, q) /\ evidence' = Append(evidence, staging[r.id])
      /\ offers' = offers \/ offers' = Append(offers, q.price)
      /\ op' = op \/ op' = [op EXCEPT !.status = "quotes_received", !.rev = @ + 1]
      /\ call' = [call EXCEPT !.completed = @ \/ final]
      /\ receipts' = [receipts EXCEPT ![r.id] = q.verdict]
  BY DEF CreateQuote, CanQuote, Stale, Attached
<1>2. /\ q \in Quote /\ q.id = r.id /\ q.answer = asked[r.id].answer /\ q.price = Asks(r).price
      /\ q.accepted = (Asks(r).accept /\ Asks(r).price > Cap)
      /\ q.stopped = (Asks(r).stopped /\ Asks(r).price > Cap)
  BY <1>1, NewQuoteIsQuote
<1> HIDE DEF q
<1>3. q.verdict \in Results \ {"none"} /\ q.price \in Price /\ final \in BOOLEAN
  BY <1>2 DEF Quote, Results
<1> HIDE DEF final
<1>4. r.id \in Call
  BY CommandsAreAsked
<1>5. quotes \in Seq(Quote) /\ offers \in Seq(Price)
  BY DEF QuotesAgree, Typed, QuotesTyped
<1>6. r.target.previous = Len(quotes)
  BY <1>1, <1>5, LastIsLen
<1>7. Quoted(r, q)
  BY <1>1 DEF Quoted
<1>8. /\ quotes' \in Seq(Quote) /\ Len(quotes') = n /\ Len(quotes) \in Nat
      /\ DOMAIN quotes' = DOMAIN quotes \cup {n} /\ quotes'[n] = q
      /\ \A v \in DOMAIN quotes : quotes'[v] = quotes[v]
      /\ evidence' \in Seq(0..MaxTurns) /\ Len(evidence') = Len(quotes')
      /\ \A v \in DOMAIN quotes : evidence'[v] = evidence[v]
      /\ evidence'[n] = staging[r.id]
  BY <1>2, <1>7, QuotesAfter
<1>9. n \in Nat /\ n >= Len(quotes)
  BY <1>8
<1> HIDE DEF n
<1>10. /\ SpeechTyped' /\ AskedTyped' /\ WireTyped' /\ sess' \in Session
       /\ ViewsAreOfThen' /\ AnswersAreFresh'
  BY <1>8, <1>9, DeliveredStep
<1>11. RowsTyped'
  <2>1. op \in OpRow /\ call \in [active : BOOLEAN, completed : BOOLEAN]
    BY DEF QuotesAgree, Typed, RowsTyped, OpRow
  <2>2. op' \in OpRow
    BY <1>1, <2>1, RowCountsUp
  <2>3. call' \in [active : BOOLEAN, completed : BOOLEAN]
    BY <1>1, <1>3, <2>1
  <2> QED BY <2>2, <2>3 DEF RowsTyped, OpRow
<1>12. receipts \in [Call -> Results]
  BY DEF QuotesAgree, Typed, ToolCallsTyped
<1>13. /\ receipts' \in [Call -> Results] /\ receipts'[r.id] # "none"
       /\ \A id \in Call : receipts[id] # "none" => receipts'[id] # "none"
  BY <1>1, <1>3, <1>4, <1>12
<1>14. Typed'
  <2>1. QuotesTyped'
    <3>1. Append(offers, q.price) \in Seq(Price)
      BY <1>3, <1>5
    <3>2. offers' \in Seq(Price)
      BY <3>1, <1>1, <1>5
    <3> QED BY <3>2, <1>8 DEF QuotesTyped
  <2>2. ToolCallsTyped'
    BY <1>1, <1>13 DEF QuotesAgree, Typed, ToolCallsTyped, Delivered
  <2> QED BY <2>1, <2>2, <1>10, <1>11 DEF Typed
<1>15. QuotesHaveReceipts'
  BY <1>2, <1>8, <1>13, QuoteFields DEF QuotesAgree, QuotesHaveReceipts
<1>16. SegmentsArePicked'
  <2>1. byCall' = byCall /\ stored' = stored /\ staging' = staging /\ asked' = asked
    BY <1>1 DEF Delivered, speech
  <2>2. staging[r.id] \in {Nil, byCall[r.id]}
    BY <1>4 DEF QuotesAgree, SegmentsArePicked
  <2>3. \A v \in DOMAIN quotes' : evidence'[v] \in {Nil, byCall[quotes'[v].id]}
    BY <1>2, <1>8, <2>2 DEF QuotesAgree, SegmentsArePicked
  <2> QED BY <2>1, <2>3 DEF QuotesAgree, SegmentsArePicked
<1>17. again' = again
  BY DEF Delivered
<1>18. AnswerCountedOnce' /\ OneQuotePerToolCall'
  BY <1>1, <1>2, <1>6, <1>7, <1>17, QuoteIsCountedOnce
<1>19. ExceptionIsEarned'
  BY <1>1, <1>2, <1>7, <1>17, QuoteIsEarned DEF Fits
<1> QED BY <1>10, <1>14, <1>15, <1>16, <1>18, <1>19 DEF QuotesAgree

\* A command is served, or it is refused, or answered from its receipt.
LEMMA ServeStep ==
  ASSUME QuoteAssumption, NEW r \in wire, QuotesAgree, Serve(r)
  PROVE  QuotesAgree'
<1>1. Delivered(r)
  BY DEF Serve, Delivered
<1>2. RowsTyped /\ offers \in Seq(Price)
  BY DEF QuotesAgree, Typed, QuotesTyped
<1>3. CASE UNCHANGED db
  <2>1. RowsTyped' /\ offers' \in Seq(Price)
    BY <1>2, <1>3 DEF RowsTyped, db
  <2> QED BY <1>1, <1>3, <2>1, NoQuoteStep DEF db
<1>4. CASE ~Committed(r) /\ CreateQuote(r)
  BY <1>1, <1>4, CreateQuoteStep
<1>5. CASE Decline(r)
  <2>1. /\ op' = [op EXCEPT !.open = FALSE] /\ call' = [call EXCEPT !.completed = TRUE]
        /\ receipts' = [receipts EXCEPT ![r.id] = "declined"]
        /\ UNCHANGED <<quotes, offers, staging, evidence>>
    BY <1>5 DEF Decline
  <2>2. RowsTyped'
    BY <1>2, <2>1 DEF RowsTyped
  <2>3. \E x \in Results \ {"none"} : receipts' = [receipts EXCEPT ![r.id] = x]
    BY <2>1 DEF Results
  <2> QED BY <1>1, <1>2, <2>1, <2>2, <2>3, NoQuoteStep
<1>6. CASE RecordOffer(r)
  <2>1. /\ offers' = Append(offers, Asks(r).price) /\ Asks(r).name = "record_provider_offer"
        /\ receipts' = [receipts EXCEPT ![r.id] = "recorded"]
        /\ UNCHANGED <<op, call, quotes, staging, evidence>>
    BY <1>6 DEF RecordOffer, CanOffer
  <2>2. RowsTyped'
    BY <1>2, <2>1 DEF RowsTyped
  <2>3. \E x \in Results \ {"none"} : receipts' = [receipts EXCEPT ![r.id] = x]
    BY <2>1 DEF Results
  <2>4. Asks(r).price \in Price
    BY <2>1, CommandsAreAsked, CommandFields
  <2>5. offers' \in Seq(Price)
    BY <1>2, <2>1, <2>4
  <2> QED BY <1>1, <2>1, <2>2, <2>3, <2>5, NoQuoteStep
<1> QED BY <1>3, <1>4, <1>5, <1>6 DEF Serve, Replay, Execute, Refuse
-----------------------------------------------------------------------------
(* The invariant and what it shows *)

\* Every step keeps what agrees.
LEMMA AgreeSteps == QuoteAssumption /\ QuotesAgree /\ [Next]_vars => QuotesAgree'
<1> SUFFICES ASSUME QuoteAssumption, QuotesAgree, [Next]_vars PROVE QuotesAgree'
  OBVIOUS
<1>1. CASE Speak
  BY <1>1, SpeakStep
<1>2. CASE \E u \in 1..spoken : Note(u)
  BY <1>2, NoteStep
<1>3. CASE Ask
  BY <1>3, AskStep
<1>4. CASE Repeat
  BY <1>4, RepeatStep
<1>5. CASE Stage
  BY <1>5, StageStep
<1>6. CASE StageLost
  BY <1>6, StageLostStep
<1>7. CASE GiveUp
  BY <1>7, GiveUpStep
<1>8. CASE Refresh
  BY <1>8, RefreshStep
<1>9. CASE RefreshFails
  BY <1>9, RefreshFailsStep
<1>10. CASE \E r \in wire : Serve(r)
  BY <1>10, ServeStep
<1>11. CASE Touch
  BY <1>11, TouchStep
<1>12. CASE Close
  BY <1>12, CloseStep
<1>13. CASE Hangup
  BY <1>13, HangupStep
<1>14. CASE UNCHANGED vars
  <2>1. RowsTyped'
    BY <1>14 DEF vars, db, QuotesAgree, Typed, RowsTyped
  <2> QED BY <1>14, <2>1, RowsStep DEF vars, db
<1> QED BY <1>1, <1>2, <1>3, <1>4, <1>5, <1>6, <1>7, <1>8, <1>9, <1>10, <1>11, <1>12, <1>13, <1>14 DEF Next

\* The process, the database and the commands on their way always agree on what
\* was answered: the views are of then, answers are fresh unless run again, and
\* the segments are the ones picked.
THEOREM QuotesAlwaysAgree ==
  ASSUME QuoteAssumption PROVE Spec => []QuotesAgree
<1>1. Init => QuotesAgree
  BY AgreeInitially
<1>2. QuotesAgree /\ [Next]_vars => QuotesAgree'
  BY AgreeSteps
<1> QED BY <1>1, <1>2, PTL DEF Spec

\* Every value of every variable has its type, for any prices, budget and limits.
THEOREM TypeCorrect ==
  ASSUME QuoteAssumption PROVE Spec => []TypeOK
<1>1. QuotesAgree => TypeOK
  BY TypedIsTypeOK DEF QuotesAgree
<1> QED BY <1>1, QuotesAlwaysAgree, PTL

\* A quote's evidence is the stored utterance picked for its own tool call.
LEMMA SegmentsAreOwn == QuotesAgree => EvidenceIsOwn
<1> SUFFICES ASSUME QuotesAgree, NEW v \in DOMAIN quotes, evidence[v] # Nil
             PROVE  evidence[v] \in stored /\ evidence[v] = byCall[quotes[v].id]
  BY DEF EvidenceIsOwn
<1>1. evidence[v] = byCall[quotes[v].id] /\ quotes[v].id \in Call
  BY QuoteFields DEF QuotesAgree, SegmentsArePicked
<1>2. byCall[quotes[v].id] \in stored \cup {Nil}
  BY <1>1 DEF QuotesAgree, SegmentsArePicked
<1> QED BY <1>1, <1>2

\* However commands are given up, served late or run again, a tool call makes
\* one quote at most, with its own evidence, and no answer of the carrier is
\* counted twice unless its tool call was run again.
THEOREM QuotesStaySafe ==
  ASSUME QuoteAssumption PROVE Spec => []QuotesAreSafe
<1>1. QuotesAgree => QuotesAreSafe
  BY SegmentsAreOwn DEF QuotesAgree, QuotesAreSafe
<1> QED BY <1>1, QuotesAlwaysAgree, PTL

\* A price above the budget is accepted only after as many refused answers as
\* the request's limit asks for, unless the carrier stopped the bargaining or a
\* tool call before it was run again.
THEOREM ExceptionStaysEarned ==
  ASSUME QuoteAssumption PROVE Spec => []ExceptionIsEarned
<1>1. QuotesAgree => ExceptionIsEarned
  BY DEF QuotesAgree
<1> QED BY <1>1, QuotesAlwaysAgree, PTL

(***************************************************************************)
(* What the console promises (OperatorConsole), for any browsers, fields,  *)
(* entries and phones: nobody overwrites what another wrote unseen, and    *)
(* the audit trail says no more than what was done.                        *)
(***************************************************************************)
CONSTANTS Browsers, Fields, Values, Notes, Entries, Kind, Phones, Pages, MaxVersion, MaxFaults
VARIABLES operation, dir, esc, form, editor, req, posted, audit, writes, consoleFaults
Console == INSTANCE OperatorConsole WITH op <- operation, events <- posted, faults <- consoleFaults

(* The requests a browser may have at the server *)
Partial == UNION {[S -> Values \cup {Console!Blank}] : S \in SUBSET Fields}
AnyChange == [field : {"phone"}, to : Phones] \cup [field : {"active"}, to : BOOLEAN]
NoRequest == [pc : {"idle"}, kind : {"none"}, answer : {"none", "saved", "refused", "failed"}]
CorrectRequest == [kind : {"correct"}, pc : {"read", "write", "event", "audit"}, answer : {"none"},
                   expected : Console!Version, sent : Partial, before : Console!Text]
ResolveRequest == [kind : {"resolve"}, pc : {"read", "write", "event", "audit"}, answer : {"none"},
                   before : {"started", "resolved"}]
UpdateRequest == [kind : {"update"}, pc : {"read", "write", "audit"}, answer : {"none"},
                  on : Entries, shown : Console!DirRow, change : AnyChange, before : Console!DirRow]
CreateRequest == [kind : {"create"}, pc : {"read", "audit"}, answer : {"none"},
                  on : Entries, phone : Phones]
Requests == NoRequest \cup CorrectRequest \cup ResolveRequest \cup UpdateRequest \cup CreateRequest

OperationRow == [text : Console!Text, mandated : BOOLEAN, closed : BOOLEAN, version : Console!Version]
Form == [version : Console!Version, typed : Console!Text, edited : SUBSET Fields, shown : BOOLEAN]
Sheet == [on : Entries \cup {"shut"}, row : Console!DirRow]

ConsoleTyped ==
  /\ operation \in OperationRow /\ dir \in [Entries -> Console!DirRow] /\ esc \in {"started", "resolved"}
  /\ form \in [Browsers -> Form] /\ editor \in [Browsers -> Sheet]
  /\ req \in [Browsers -> Requests]
  /\ \A row \in posted : row.on \in {Console!OP, Console!ESC} /\ row.by \in Browsers
  /\ DOMAIN audit = Console!Subjects /\ DOMAIN writes = Console!Subjects
  /\ consoleFaults \in 0 .. MaxFaults

\* A row that was read is not newer than the entry's, and is the same at the same version.
ReadEarlier(row, e) == row.version <= dir[e].version /\ (row.version = dir[e].version => row = dir[e])
SheetsAreOld == \A b \in Browsers : editor[b].on \in Entries => ReadEarlier(editor[b].row, editor[b].on)

\* What a request has done and seen so far.
Corrected(w, b, r) ==
  /\ w.by = b /\ w.at = r.expected
  /\ w.before = Console!Restrict(r.before, Console!Changes(r.sent, r.before))
  /\ w.after = Console!Restrict(r.sent, Console!Changes(r.sent, r.before))
CorrectHolds(b, r) ==
  /\ r.pc = "write" => /\ r.expected <= operation.version
                       /\ r.expected = operation.version => operation.text = r.before /\ ~operation.mandated /\ ~operation.closed
  /\ r.pc \in {"event", "audit"} => \E w \in writes[Console!OP] : Corrected(w, b, r)
ResolveHolds(b, r) ==
  /\ r.pc = "write" => r.before = "started"
  /\ r.pc \in {"event", "audit"} => \E w \in writes[Console!ESC] : w.by = b /\ w.before = r.before
UpdateHolds(b, r) ==
  /\ ReadEarlier(r.shown, r.on)
  /\ r.pc = "write" => r.before = r.shown
  /\ r.pc = "audit" => \E w \in writes[r.on] :
       w.by = b /\ w.before = r.before
       /\ Console!Snapshot(w.after) = Console!Snapshot(Console!Changed(r.before, r.change))
CreateHolds(b, r) ==
  r.pc = "audit" => \E w \in writes[r.on] :
    w.by = b /\ w.before.version = 0 /\ Console!Snapshot(w.after) = [phone |-> r.phone, active |-> TRUE]
Holds(b, r) ==
  /\ r.kind = "correct" => CorrectHolds(b, r)
  /\ r.kind = "resolve" => ResolveHolds(b, r)
  /\ r.kind = "update" => UpdateHolds(b, r)
  /\ r.kind = "create" => CreateHolds(b, r)
RequestsHold == \A b \in Browsers : Holds(b, req[b])

\* An escalation that was closed from the console was closed by one.
ClosedOnce ==
  /\ esc = "started" => writes[Console!ESC] = {}
  /\ \A v, w \in writes[Console!ESC] : v = w
NotAuthorized == \A w \in writes[Console!OP] : ~w.was.mandated /\ ~w.was.closed

\* What holds between all of them: the invariant.
ConsoleInv ==
  /\ ConsoleTyped /\ SheetsAreOld /\ RequestsHold /\ ClosedOnce /\ NotAuthorized
  /\ Console!SavesWhatWasShown /\ Console!AuditIsExact /\ Console!DirectoryAuditIsExact

------------------------------------------------------------------------------
(* What a step may change *)

\* The rows move on by versions and the history only grows.
Forward ==
  /\ operation' = operation \/ operation'.version > operation.version
  /\ \A e \in Entries : dir'[e] = dir[e] \/ dir'[e].version > dir[e].version
  /\ \A s \in Console!Subjects : writes[s] \subseteq writes'[s]

\* The fields of the requests.
LEMMA RequestFields ==
  ASSUME NEW r \in Requests
  PROVE  /\ r.kind \in {"none", "correct", "resolve", "update", "create"}
         /\ r.pc \in {"idle", "read", "write", "event", "audit"}
         /\ r.pc = "idle" <=> r.kind = "none"
         /\ r.kind = "none" => r \in NoRequest
         /\ r.kind = "correct" => r \in CorrectRequest
         /\ r.kind = "resolve" => r \in ResolveRequest
         /\ r.kind = "update" => r \in UpdateRequest
         /\ r.kind = "create" => r \in CreateRequest
BY DEF Requests, NoRequest, CorrectRequest, ResolveRequest, UpdateRequest, CreateRequest

\* A row that was read earlier stays one.
LEMMA EarlierStays ==
  ASSUME ConsoleTyped, NEW e \in Entries, NEW row \in Console!DirRow, ReadEarlier(row, e),
         dir'[e] \in Console!DirRow, dir'[e] = dir[e] \/ dir'[e].version > dir[e].version
  PROVE  ReadEarlier(row, e)'
<1>1. row.version \in Int /\ dir[e].version \in Int /\ dir'[e].version \in Int
  BY DEF ConsoleTyped, Console!DirRow, Console!Version
<1> QED BY <1>1 DEF ReadEarlier

\* What a request holds, it keeps while the others move on.
LEMMA HoldingStays ==
  ASSUME ConsoleTyped, ConsoleTyped', Forward, NEW b \in Browsers, NEW r \in Requests, Holds(b, r)
  PROVE  Holds(b, r)'
<1>1. writes[Console!OP] \subseteq writes'[Console!OP] /\ writes[Console!ESC] \subseteq writes'[Console!ESC]
  BY DEF Forward, Console!Subjects
<1>2. ASSUME r.kind = "correct" PROVE CorrectHolds(b, r)'
  <2>1. CorrectHolds(b, r) /\ r \in CorrectRequest
    BY <1>2, RequestFields DEF Holds
  <2>2. r.expected \in Int /\ operation.version \in Int /\ operation'.version \in Int
    BY <2>1 DEF ConsoleTyped, CorrectRequest, OperationRow, Console!Version
  <2>3. operation' = operation \/ operation'.version > operation.version
    BY DEF Forward
  <2> QED BY <1>1, <2>1, <2>2, <2>3 DEF CorrectHolds, Corrected
<1>3. ASSUME r.kind = "resolve" PROVE ResolveHolds(b, r)'
  BY <1>1, <1>3 DEF Holds, ResolveHolds
<1>4. ASSUME r.kind = "update" PROVE UpdateHolds(b, r)'
  <2>1. UpdateHolds(b, r) /\ r.on \in Entries /\ r.shown \in Console!DirRow
    BY <1>4, RequestFields DEF Holds, UpdateRequest
  <2>2. ReadEarlier(r.shown, r.on)'
    BY <2>1, EarlierStays DEF UpdateHolds, Forward, ConsoleTyped
  <2>3. writes[r.on] \subseteq writes'[r.on]
    BY <2>1 DEF Forward, Console!Subjects
  <2> QED BY <2>1, <2>2, <2>3 DEF UpdateHolds
<1>5. ASSUME r.kind = "create" PROVE CreateHolds(b, r)'
  <2>1. CreateHolds(b, r) /\ r.on \in Entries
    BY <1>5, RequestFields DEF Holds, CreateRequest
  <2>2. writes[r.on] \subseteq writes'[r.on]
    BY <2>1 DEF Forward, Console!Subjects
  <2> QED BY <2>1, <2>2 DEF CreateHolds
<1> QED BY <1>2, <1>3, <1>4, <1>5 DEF Holds

\* One request moves, the others hold what they held.
LEMMA RequestMoves ==
  ASSUME ConsoleTyped, ConsoleTyped', Forward, RequestsHold, NEW b \in Browsers, NEW r \in Requests,
         req' = [req EXCEPT ![b] = r], Holds(b, r)'
  PROVE  RequestsHold'
<1> SUFFICES ASSUME NEW x \in Browsers PROVE Holds(x, req[x])'
  BY DEF RequestsHold
<1>1. PICK y \in Requests : y = req'[x]
  BY DEF ConsoleTyped
<1>2. Holds(x, y)'
  <2>1. CASE x = b
    <3>1. y = r
      BY <1>1, <2>1 DEF ConsoleTyped
    <3> QED BY <2>1, <3>1
  <2>2. CASE x # b
    <3>1. y = req[x]
      BY <1>1, <2>2 DEF ConsoleTyped
    <3>2. Holds(x, y)
      BY <3>1 DEF RequestsHold
    <3> QED BY <3>2, HoldingStays
  <2> QED BY <2>1, <2>2
<1> QED BY <1>1, <1>2
           DEF Holds, CorrectHolds, ResolveHolds, UpdateHolds, CreateHolds, Corrected, ReadEarlier

\* Sheets keep what they showed while the rows move on.
LEMMA SheetsStay ==
  ASSUME ConsoleTyped, ConsoleTyped', Forward, SheetsAreOld, UNCHANGED editor PROVE SheetsAreOld'
<1> SUFFICES ASSUME NEW b \in Browsers, editor[b].on \in Entries
             PROVE  ReadEarlier(editor[b].row, editor[b].on)'
  BY DEF SheetsAreOld
<1>1. PICK row \in Console!DirRow : row = editor[b].row
  BY DEF ConsoleTyped, Sheet
<1>2. PICK e \in Entries : e = editor[b].on
  OBVIOUS
<1>3. ReadEarlier(row, e)
  BY <1>1, <1>2 DEF SheetsAreOld
<1>4. ReadEarlier(row, e)'
  BY <1>3, EarlierStays DEF Forward, ConsoleTyped
<1> QED BY <1>1, <1>2, <1>4 DEF ReadEarlier

\* What the history says does not depend on the rest.
LEMMA HistoryStays ==
  ASSUME ConsoleInv, UNCHANGED <<esc, posted, audit, writes>>
  PROVE  ClosedOnce' /\ NotAuthorized' /\ Console!SavesWhatWasShown' /\ Console!AuditIsExact' /\ Console!DirectoryAuditIsExact'
BY DEF ConsoleInv, ClosedOnce, NotAuthorized, Console!SavesWhatWasShown, Console!AuditIsExact,
       Console!DirectoryAuditIsExact

\* Nothing moves on but forms, sheets and requests.
LEMMA RowsStand == ASSUME UNCHANGED <<operation, dir, writes>> PROVE Forward
BY DEF Forward

\* A request that only reads.
LEMMA RequestStep ==
  ASSUME ConsoleInv, NEW b \in Browsers, NEW r \in Requests, req' = [req EXCEPT ![b] = r], Holds(b, r),
         consoleFaults' \in 0 .. MaxFaults, UNCHANGED <<operation, dir, esc, form, editor, posted, audit, writes>>
  PROVE  ConsoleInv'
<1>1. ConsoleTyped'
  BY DEF ConsoleInv, ConsoleTyped
<1>2. Forward
  BY RowsStand
<1>3. Holds(b, r)'
  BY <1>1, <1>2, HoldingStays DEF ConsoleInv
<1> QED BY <1>1, <1>2, <1>3, RequestMoves, SheetsStay, HistoryStays DEF ConsoleInv

\* Forms change nothing but themselves.
LEMMA FormStep ==
  ASSUME ConsoleInv, form' \in [Browsers -> Form],
         UNCHANGED <<operation, dir, esc, editor, req, posted, audit, writes, consoleFaults>>
  PROVE  ConsoleInv'
<1>1. ConsoleTyped'
  BY DEF ConsoleInv, ConsoleTyped
<1>2. Forward
  BY RowsStand
<1>3. RequestsHold'
  <2> SUFFICES ASSUME NEW b \in Browsers PROVE Holds(b, req[b])'
    BY DEF RequestsHold
  <2>1. Holds(b, req[b])
    BY DEF ConsoleInv, RequestsHold
  <2> QED BY <2>1
             DEF Holds, CorrectHolds, ResolveHolds, UpdateHolds, CreateHolds, Corrected, ReadEarlier
<1> QED BY <1>1, <1>2, <1>3, SheetsStay, HistoryStays DEF ConsoleInv

------------------------------------------------------------------------------
(* What browsers do *)

LEMMA InitConsole == ASSUME Console!ConsoleAssumption, Console!Init PROVE ConsoleInv
<1>1. Console!NoPhone \in Phones
  BY DEF Console!ConsoleAssumption, Console!NoPhone
<1>2. operation \in OperationRow /\ form \in [Browsers -> Form]
  BY DEF Console!Init, OperationRow, Form, Console!Text, Console!Version, Console!ConsoleAssumption
<1>3. dir \in [Entries -> Console!DirRow]
  <2>1. PICK seeded \in SUBSET Entries, p \in [Entries -> Phones] :
          dir = [e \in Entries |-> [phone |-> p[e], active |-> e \in seeded,
                                    version |-> IF e \in seeded THEN 1 ELSE 0]]
    BY DEF Console!Init
  <2> QED BY <2>1 DEF Console!DirRow, Console!Version, Console!ConsoleAssumption
<1>4. editor \in [Browsers -> Sheet]
  BY <1>1
     DEF Console!Init, Console!Shut, Sheet, Console!DirRow, Console!Version, Console!ConsoleAssumption
<1>5. req \in [Browsers -> Requests]
  BY DEF Console!Init, Console!Idle, Requests, NoRequest
<1>6. ConsoleTyped
  <2>1. DOMAIN audit = Console!Subjects /\ DOMAIN writes = Console!Subjects /\ esc = "started" /\ posted = {}
    BY DEF Console!Init
  <2>2. consoleFaults \in 0 .. MaxFaults
    BY DEF Console!Init, Console!ConsoleAssumption
  <2> QED BY <1>2, <1>3, <1>4, <1>5, <2>1, <2>2 DEF ConsoleTyped
<1>7. SheetsAreOld
  BY DEF Console!Init, Console!Shut, SheetsAreOld, Console!ConsoleAssumption
<1>8. RequestsHold
  BY DEF Console!Init, Console!Idle, RequestsHold, Holds
<1>9. ClosedOnce /\ NotAuthorized /\ Console!SavesWhatWasShown /\ Console!AuditIsExact /\ Console!DirectoryAuditIsExact
  BY DEF Console!Init, ClosedOnce, NotAuthorized, Console!SavesWhatWasShown, Console!AuditIsExact,
         Console!DirectoryAuditIsExact, Console!Subjects
<1> QED BY <1>6, <1>7, <1>8, <1>9 DEF ConsoleInv

LEMMA FormSteps ==
  ASSUME ConsoleInv, NEW b \in Browsers,
         Console!OpenPage(b) \/ Console!Refresh(b) \/ \E f \in Fields, v \in Values \cup {Console!Blank} : Console!Edit(b, f, v)
  PROVE  ConsoleInv'
<1>1. form \in [Browsers -> Form] /\ operation \in OperationRow
  BY DEF ConsoleInv, ConsoleTyped
<1>2. operation.version \in Console!Version /\ operation.text \in Console!Text /\ operation.mandated \in BOOLEAN
  BY <1>1 DEF OperationRow
<1>3. form[b].version \in Console!Version /\ form[b].typed \in Console!Text /\ form[b].edited \in SUBSET Fields
  BY <1>1 DEF Form
<1>4. ASSUME Console!OpenPage(b) PROVE form' \in [Browsers -> Form]
  BY <1>1, <1>2, <1>4 DEF Console!OpenPage, Form
<1>5. ASSUME Console!Refresh(b) PROVE form' \in [Browsers -> Form]
  <2>1. PICK follow \in BOOLEAN : form' = [form EXCEPT ![b] =
         [version |-> operation.version, edited |-> form[b].edited, shown |-> ~operation.mandated,
          typed |-> [f \in Fields |-> IF f \in (IF follow THEN Fields \ form[b].edited ELSE {})
                                      THEN operation.text[f] ELSE form[b].typed[f]]]]
    BY <1>5, <1>1 DEF Console!Refresh
  <2> DEFINE t == [f \in Fields |-> IF f \in (IF follow THEN Fields \ form[b].edited ELSE {})
                                    THEN operation.text[f] ELSE form[b].typed[f]]
  <2>2. t \in Console!Text
    BY <1>2, <1>3 DEF Console!Text
  <2> HIDE DEF t
  <2>3. [version |-> operation.version, edited |-> form[b].edited, shown |-> ~operation.mandated, typed |-> t] \in Form
    BY <1>2, <1>3, <2>2 DEF Form
  <2> QED BY <1>1, <2>1, <2>3 DEF t
<1>6. ASSUME NEW f \in Fields, NEW v \in Values \cup {Console!Blank}, Console!Edit(b, f, v)
      PROVE  form' \in [Browsers -> Form]
  <2>1. [form[b].typed EXCEPT ![f] = v] \in Console!Text /\ form[b].edited \cup {f} \in SUBSET Fields
    BY <1>3 DEF Console!Text
  <2>2. form' = [form EXCEPT ![b] = [form[b] EXCEPT !.typed = [form[b].typed EXCEPT ![f] = v],
                                                   !.edited = form[b].edited \cup {f}]]
    BY <1>1, <1>6 DEF Console!Edit
  <2>3. [form[b] EXCEPT !.typed = [form[b].typed EXCEPT ![f] = v],
                        !.edited = form[b].edited \cup {f}] \in Form
    BY <1>1, <2>1 DEF Form
  <2> QED BY <1>1, <2>2, <2>3
<1>7. UNCHANGED <<operation, dir, esc, editor, req, posted, audit, writes, consoleFaults>>
  BY DEF Console!OpenPage, Console!Refresh, Console!Edit
<1> QED BY <1>4, <1>5, <1>6, <1>7, FormStep

\* What is sent of a form.
LEMMA SentPartial == ASSUME NEW typed \in Console!Text PROVE Console!Sent(typed) \in Partial
<1> DEFINE S == {f \in Fields : typed[f] # Console!Blank \/ f = Notes}
<1>1. S \in SUBSET Fields /\ Console!Sent(typed) = [f \in S |-> typed[f]]
  BY DEF Console!Sent, Console!Restrict
<1> HIDE DEF S
<1>2. Console!Sent(typed) \in [S -> Values \cup {Console!Blank}]
  BY <1>1 DEF Console!Text
<1> QED BY <1>1, <1>2 DEF Partial

LEMMA SubmitCorrectionStep ==
  ASSUME ConsoleInv, NEW b \in Browsers, Console!SubmitCorrection(b) PROVE ConsoleInv'
<1>1. form[b] \in Form /\ operation \in OperationRow /\ consoleFaults \in 0 .. MaxFaults
  BY DEF ConsoleInv, ConsoleTyped
<1>2. form[b].version \in Console!Version /\ Console!Sent(form[b].typed) \in Partial /\ operation.text \in Console!Text
  BY <1>1, SentPartial DEF Form, OperationRow
<1>3. PICK r \in CorrectRequest : r = [kind |-> "correct", pc |-> "read", answer |-> "none",
        expected |-> form[b].version, sent |-> Console!Sent(form[b].typed), before |-> operation.text]
  BY <1>2 DEF CorrectRequest
<1>4. r \in Requests /\ r.kind = "correct" /\ r.pc = "read"
  BY <1>3 DEF Requests
<1>5. Holds(b, r)
  BY <1>4 DEF Holds, CorrectHolds
<1>6. req' = [req EXCEPT ![b] = r] /\ consoleFaults' = consoleFaults
      /\ UNCHANGED <<operation, dir, esc, form, editor, posted, audit, writes>>
  BY <1>3 DEF Console!SubmitCorrection, Console!Send
<1> QED BY <1>1, <1>4, <1>5, <1>6, RequestStep

LEMMA SubmitResolutionStep ==
  ASSUME ConsoleInv, NEW b \in Browsers, Console!SubmitResolution(b) PROVE ConsoleInv'
<1>1. esc \in {"started", "resolved"} /\ consoleFaults \in 0 .. MaxFaults
  BY DEF ConsoleInv, ConsoleTyped
<1>2. PICK r \in ResolveRequest : r = [kind |-> "resolve", pc |-> "read", answer |-> "none", before |-> esc]
  BY <1>1 DEF ResolveRequest
<1>3. r \in Requests /\ r.kind = "resolve" /\ r.pc = "read"
  BY <1>2 DEF Requests
<1>4. Holds(b, r)
  BY <1>3 DEF Holds, ResolveHolds
<1>5. req' = [req EXCEPT ![b] = r] /\ consoleFaults' = consoleFaults
      /\ UNCHANGED <<operation, dir, esc, form, editor, posted, audit, writes>>
  BY <1>2 DEF Console!SubmitResolution, Console!Send
<1> QED BY <1>1, <1>3, <1>4, <1>5, RequestStep

LEMMA SubmitNewStep ==
  ASSUME ConsoleInv, NEW b \in Browsers, NEW kinds, Console!SubmitNew(b, kinds),
         UNCHANGED <<operation, dir, esc, form, editor, posted, audit, writes, consoleFaults>>
  PROVE  ConsoleInv'
<1>1. PICK p \in Phones, e \in Entries :
        req' = [req EXCEPT ![b] = [kind |-> "create", pc |-> "read", answer |-> "none", on |-> e, phone |-> p]]
  BY DEF Console!SubmitNew, Console!Send
<1>2. PICK r \in CreateRequest :
        r = [kind |-> "create", pc |-> "read", answer |-> "none", on |-> e, phone |-> p]
  BY DEF CreateRequest
<1>3. r \in Requests /\ r.kind = "create" /\ r.pc = "read"
  BY <1>2 DEF Requests
<1>4. Holds(b, r)
  BY <1>3 DEF Holds, CreateHolds
<1>5. consoleFaults' \in 0 .. MaxFaults
  BY DEF ConsoleInv, ConsoleTyped
<1> QED BY <1>1, <1>2, <1>3, <1>4, <1>5, RequestStep

LEMMA SubmitChangeStep ==
  ASSUME ConsoleInv, NEW b \in Browsers, NEW kinds, Console!SubmitChange(b, kinds),
         UNCHANGED <<operation, dir, esc, form, editor, posted, audit, writes, consoleFaults>>
  PROVE  ConsoleInv'
<1>1. editor[b] \in Sheet /\ editor[b].on \in Entries
  BY DEF ConsoleInv, ConsoleTyped, Console!SubmitChange
<1>2. PICK row \in Console!DirRow, e \in Entries : row = editor[b].row /\ e = editor[b].on
  BY <1>1 DEF Sheet
<1>3. PICK change \in Console!Change(row) :
        req' = [req EXCEPT ![b] = [kind |-> "update", pc |-> "read", answer |-> "none", on |-> e,
                                   shown |-> row, change |-> change, before |-> row]]
  BY <1>2 DEF Console!SubmitChange, Console!Send
<1>4. change \in AnyChange
  BY DEF Console!Change, AnyChange, Console!DirRow
<1>5. PICK r \in UpdateRequest :
        r = [kind |-> "update", pc |-> "read", answer |-> "none", on |-> e, shown |-> row,
             change |-> change, before |-> row]
  BY <1>4 DEF UpdateRequest
<1>6. r \in Requests /\ r.kind = "update" /\ r.pc = "read" /\ r.shown = row /\ r.on = e
  BY <1>5 DEF Requests
<1>7. ReadEarlier(row, e)
  BY <1>1, <1>2 DEF ConsoleInv, SheetsAreOld
<1>8. Holds(b, r)
  BY <1>6, <1>7 DEF Holds, UpdateHolds
<1>9. consoleFaults' \in 0 .. MaxFaults
  BY DEF ConsoleInv, ConsoleTyped
<1> QED BY <1>3, <1>5, <1>6, <1>8, <1>9, RequestStep

LEMMA SubmitEntryStep ==
  ASSUME ConsoleInv, NEW b \in Browsers, Console!SubmitEntry(b) \/ Console!SubmitRecipient(b)
  PROVE  ConsoleInv'
BY SubmitNewStep, SubmitChangeStep DEF Console!SubmitEntry, Console!SubmitRecipient

\* A sheet shows the row of now, or nothing.
LEMMA SheetStep ==
  ASSUME ConsoleInv, ConsoleTyped', Forward, NEW b \in Browsers, NEW s \in Sheet,
         editor' = [editor EXCEPT ![b] = s],
         s.on \in Entries => ReadEarlier(s.row, s.on)
  PROVE  SheetsAreOld'
<1> SUFFICES ASSUME NEW x \in Browsers, editor'[x].on \in Entries
             PROVE  ReadEarlier(editor[x].row, editor[x].on)'
  BY DEF SheetsAreOld
<1>1. PICK t \in Sheet : t = editor'[x]
  BY DEF ConsoleTyped
<1>2. t.on \in Entries /\ t.row \in Console!DirRow
  BY <1>1 DEF Sheet
<1>3. ReadEarlier(t.row, t.on)
  <2>1. CASE x = b
    BY <1>1, <1>2, <2>1 DEF ConsoleInv, ConsoleTyped
  <2>2. CASE x # b
    <3>1. t = editor[x]
      BY <1>1, <2>2 DEF ConsoleInv, ConsoleTyped
    <3> QED BY <1>2, <3>1 DEF ConsoleInv, SheetsAreOld
  <2> QED BY <2>1, <2>2
<1>4. ReadEarlier(t.row, t.on)'
  BY <1>2, <1>3, EarlierStays DEF ConsoleInv, Forward, ConsoleTyped
<1> QED BY <1>1, <1>4 DEF ReadEarlier

LEMMA OpenEditorStep ==
  ASSUME ConsoleInv, NEW b \in Browsers, NEW e \in Entries, Console!openEditor(b, e) PROVE ConsoleInv'
<1>1. PICK s \in Sheet : s = [on |-> e, row |-> dir[e]]
  BY DEF ConsoleInv, ConsoleTyped, Sheet
<1>2. editor' = [editor EXCEPT ![b] = s] /\ UNCHANGED <<operation, dir, esc, form, req, posted, audit, writes, consoleFaults>>
  BY <1>1 DEF Console!openEditor
<1>3. ConsoleTyped'
  BY <1>2 DEF ConsoleInv, ConsoleTyped
<1>4. Forward
  BY <1>2, RowsStand
<1>5. s.on = e /\ s.row = dir[e]
  BY <1>1
<1>6. ReadEarlier(s.row, s.on)
  BY <1>5 DEF ReadEarlier, ConsoleInv, ConsoleTyped, Console!DirRow, Console!Version
<1>7. SheetsAreOld'
  BY <1>2, <1>3, <1>4, <1>6, SheetStep
<1>8. RequestsHold'
  <2> SUFFICES ASSUME NEW x \in Browsers PROVE Holds(x, req[x])'
    BY DEF RequestsHold
  <2>1. Holds(x, req[x])
    BY DEF ConsoleInv, RequestsHold
  <2> QED BY <1>2, <2>1
             DEF Holds, CorrectHolds, ResolveHolds, UpdateHolds, CreateHolds, Corrected, ReadEarlier
<1> QED BY <1>2, <1>3, <1>7, <1>8, HistoryStays DEF ConsoleInv

------------------------------------------------------------------------------
(* What the server does: requests that end, and those that read *)

\* An answer ends the request.
LEMMA AnswerEnds ==
  ASSUME NEW b, NEW a \in {"none", "saved", "refused", "failed"}, Console!Answer(b, a)
  PROVE  \E r \in NoRequest : req' = [req EXCEPT ![b] = r]
<1>1. [Console!Idle EXCEPT !.answer = a] \in NoRequest
  BY DEF Console!Idle, NoRequest
<1> QED BY <1>1 DEF Console!Answer

\* Without a request there is nothing to hold.
LEMMA NothingHeld == ASSUME NEW b, NEW r \in NoRequest PROVE r \in Requests /\ Holds(b, r)
BY DEF NoRequest, Requests, Holds

LEMMA AnswerStep ==
  ASSUME ConsoleInv, NEW b \in Browsers, NEW a \in {"none", "saved", "refused", "failed"},
         Console!Answer(b, a),
         consoleFaults' \in 0 .. MaxFaults, UNCHANGED <<operation, dir, esc, form, editor, posted, audit, writes>>
  PROVE  ConsoleInv'
BY AnswerEnds, NothingHeld, RequestStep

LEMMA RequestFailsStep ==
  ASSUME Console!ConsoleAssumption, ConsoleInv, NEW b \in Browsers, Console!RequestFails(b)
  PROVE  ConsoleInv'
<1>1. consoleFaults' \in 0 .. MaxFaults
  BY DEF Console!RequestFails, ConsoleInv, ConsoleTyped, Console!ConsoleAssumption
<1> QED BY <1>1, AnswerStep DEF Console!RequestFails

LEMMA CorrectReadStep ==
  ASSUME ConsoleInv, NEW b \in Browsers, Console!CorrectRead(b) PROVE ConsoleInv'
<1>1. UNCHANGED <<operation, dir, esc, form, editor, posted, audit, writes, consoleFaults>> /\ consoleFaults' \in 0 .. MaxFaults
  BY DEF Console!CorrectRead, ConsoleInv, ConsoleTyped
<1>2. CASE Console!Answer(b, "refused") \/ Console!Answer(b, "saved")
  BY <1>1, <1>2, AnswerStep
<1>3. CASE Console!Correctable(b) /\ req' = [req EXCEPT ![b].pc = "write", ![b].before = operation.text]
  <2>1. req \in [Browsers -> Requests] /\ req[b] \in Requests /\ req[b].kind = "correct" /\ operation \in OperationRow
    BY DEF Console!CorrectRead, Console!At, ConsoleInv, ConsoleTyped
  <2>2. req[b] \in CorrectRequest
    BY <2>1, RequestFields
  <2>3. PICK r \in CorrectRequest : r = [req[b] EXCEPT !.pc = "write", !.before = operation.text]
    BY <2>1, <2>2 DEF CorrectRequest, OperationRow
  <2>4. /\ r \in Requests /\ r.kind = "correct" /\ r.pc = "write"
        /\ r.before = operation.text /\ r.expected = req[b].expected
    BY <2>2, <2>3 DEF CorrectRequest, Requests
  <2>5. req' = [req EXCEPT ![b] = r]
    BY <1>3, <2>1, <2>3
  <2>6. operation.version \in Int /\ operation.version = r.expected /\ ~operation.mandated /\ ~operation.closed
    BY <1>3, <2>1, <2>4 DEF Console!Correctable, OperationRow, Console!Version
  <2>7. Holds(b, r)
    BY <2>4, <2>6 DEF Holds, CorrectHolds
  <2> QED BY <1>1, <2>4, <2>5, <2>7, RequestStep
<1> QED BY <1>2, <1>3 DEF Console!CorrectRead

LEMMA ResolveReadStep ==
  ASSUME ConsoleInv, NEW b \in Browsers, Console!ResolveRead(b) PROVE ConsoleInv'
<1>1. UNCHANGED <<operation, dir, esc, form, editor, posted, audit, writes, consoleFaults>> /\ consoleFaults' \in 0 .. MaxFaults
  BY DEF Console!ResolveRead, ConsoleInv, ConsoleTyped
<1>2. CASE Console!Answer(b, "refused")
  BY <1>1, <1>2, AnswerStep
<1>3. CASE esc \in Console!Open /\ req' = [req EXCEPT ![b].pc = "write", ![b].before = esc]
  <2>1. /\ req \in [Browsers -> Requests] /\ req[b] \in Requests /\ req[b].kind = "resolve"
        /\ esc = "started"
    BY <1>3 DEF Console!ResolveRead, Console!At, ConsoleInv, ConsoleTyped, Console!Open
  <2>2. req[b] \in ResolveRequest
    BY <2>1, RequestFields
  <2>3. PICK r \in ResolveRequest : r = [req[b] EXCEPT !.pc = "write", !.before = esc]
    BY <2>1, <2>2 DEF ResolveRequest
  <2>4. r \in Requests /\ r.kind = "resolve" /\ r.pc = "write" /\ r.before = "started"
    BY <2>1, <2>2, <2>3 DEF ResolveRequest, Requests
  <2>5. req' = [req EXCEPT ![b] = r]
    BY <1>3, <2>1, <2>3
  <2>6. Holds(b, r)
    BY <2>4 DEF Holds, ResolveHolds
  <2> QED BY <1>1, <2>4, <2>5, <2>6, RequestStep
<1> QED BY <1>2, <1>3 DEF Console!ResolveRead

LEMMA UpdateReadStep ==
  ASSUME ConsoleInv, NEW b \in Browsers, Console!UpdateRead(b) PROVE ConsoleInv'
<1>1. UNCHANGED <<operation, dir, esc, form, editor, posted, audit, writes, consoleFaults>> /\ consoleFaults' \in 0 .. MaxFaults
  BY DEF Console!UpdateRead, ConsoleInv, ConsoleTyped
<1>2. CASE Console!Answer(b, "refused")
  BY <1>1, <1>2, AnswerStep
<1>3. CASE /\ dir[req[b].on].version = req[b].shown.version
           /\ req' = [req EXCEPT ![b].pc = "write", ![b].before = dir[req[b].on]]
  <2>1. req \in [Browsers -> Requests] /\ req[b] \in Requests /\ req[b].kind = "update"
    BY <1>3 DEF Console!UpdateRead, Console!At, ConsoleInv, ConsoleTyped
  <2>2. req[b] \in UpdateRequest /\ UpdateHolds(b, req[b])
    BY <2>1, RequestFields DEF ConsoleInv, RequestsHold, Holds
  <2>3. req[b].on \in Entries /\ req[b].shown \in Console!DirRow /\ dir[req[b].on] \in Console!DirRow
    BY <2>2 DEF UpdateRequest, ConsoleInv, ConsoleTyped
  <2>4. PICK row \in Console!DirRow : row = dir[req[b].on]
    BY <2>3
  <2>5. PICK r \in UpdateRequest : r = [req[b] EXCEPT !.pc = "write", !.before = row]
    BY <2>2 DEF UpdateRequest
  <2>6. /\ r \in Requests /\ r.kind = "update" /\ r.pc = "write" /\ r.before = row
        /\ r.on = req[b].on /\ r.shown = req[b].shown
    BY <2>2, <2>5 DEF UpdateRequest, Requests
  <2>7. req' = [req EXCEPT ![b] = r]
    BY <1>3, <2>1, <2>4, <2>5
  <2>8. ReadEarlier(r.shown, r.on) /\ r.before = r.shown
    BY <1>3, <2>2, <2>4, <2>6 DEF UpdateHolds, ReadEarlier
  <2>9. Holds(b, r)
    BY <2>6, <2>8 DEF Holds, UpdateHolds
  <2> QED BY <1>1, <2>6, <2>7, <2>9, RequestStep
<1> QED BY <1>2, <1>3 DEF Console!UpdateRead

\* What a statement that took effect makes of the request: the next, or none.
LEMMA DoneMoves ==
  ASSUME Console!ConsoleAssumption, ConsoleTyped, NEW b \in Browsers,
         NEW next \in {"event", "audit", "answer"}, Console!Done(b, next),
         next # "answer" => [req[b] EXCEPT !.pc = next] \in Requests
  PROVE  /\ consoleFaults' \in 0 .. MaxFaults
         /\ \E r \in Requests : /\ req' = [req EXCEPT ![b] = r]
                                /\ r \in NoRequest \/ (next # "answer" /\ r = [req[b] EXCEPT !.pc = next])
<1>1. consoleFaults' \in 0 .. MaxFaults
  BY DEF Console!Done, ConsoleTyped, Console!ConsoleAssumption
<1>2. CASE Console!Answer(b, "saved") \/ Console!Answer(b, "failed")
  BY <1>1, <1>2, AnswerEnds, NothingHeld
<1>3. CASE next # "answer" /\ req' = [req EXCEPT ![b].pc = next]
  <2>1. req' = [req EXCEPT ![b] = [req[b] EXCEPT !.pc = next]]
    BY <1>3 DEF ConsoleTyped
  <2> QED BY <1>1, <1>3, <2>1
<1> QED BY <1>2, <1>3 DEF Console!Done

------------------------------------------------------------------------------
(* The statements that write *)

\* What was audited and told stays true while the history grows.
LEMMA TrailStays ==
  ASSUME ConsoleInv, Forward, UNCHANGED <<posted, audit>>
  PROVE  Console!AuditIsExact' /\ Console!DirectoryAuditIsExact'
<1>1. \A s \in Console!Subjects : writes[s] \subseteq writes'[s]
  BY DEF Forward
<1>2. Console!AuditIsExact'
  <2>1. writes[Console!OP] \subseteq writes'[Console!OP] /\ writes[Console!ESC] \subseteq writes'[Console!ESC]
    BY <1>1 DEF Console!Subjects
  <2>2. \A x \in posted : writes[x.on] \subseteq writes'[x.on]
    BY <2>1 DEF ConsoleInv, ConsoleTyped
  <2> QED BY <2>1, <2>2 DEF ConsoleInv, Console!AuditIsExact
<1>3. Console!DirectoryAuditIsExact'
  <2>1. \A e \in Entries : writes[e] \subseteq writes'[e]
    BY <1>1 DEF Console!Subjects
  <2> QED BY <2>1 DEF ConsoleInv, Console!DirectoryAuditIsExact
<1> QED BY <1>2, <1>3

\* A new entry of the history.
LEMMA WroteAdds ==
  ASSUME ConsoleTyped, NEW s \in Console!Subjects, NEW w, Console!Wrote(s, w)
  PROVE  /\ DOMAIN writes' = Console!Subjects /\ writes'[s] = writes[s] \cup {w}
         /\ \A x \in Console!Subjects \ {s} : writes'[x] = writes[x]
BY DEF ConsoleTyped, Console!Wrote

LEMMA SubjectsDiffer ==
  ASSUME Console!ConsoleAssumption
  PROVE  /\ Console!OP \in Console!Subjects /\ Console!ESC \in Console!Subjects /\ Console!OP # Console!ESC
         /\ \A e \in Entries : e \in Console!Subjects /\ e # Console!OP /\ e # Console!ESC
BY DEF Console!ConsoleAssumption, Console!Subjects, Console!OP, Console!ESC

\* The text after a correction.
LEMMA CorrectedText ==
  ASSUME NEW r \in CorrectRequest, operation \in OperationRow
  PROVE  LET fs == Console!Changes(r.sent, r.before)
             after == Console!Restrict(r.sent, fs) IN
           /\ DOMAIN after = fs
           /\ [f \in Fields |-> IF f \in DOMAIN after THEN after[f] ELSE operation.text[f]] \in Console!Text
<1> DEFINE fs == Console!Changes(r.sent, r.before)
<1>1. r.sent \in Partial
  BY DEF CorrectRequest
<1>2. PICK S \in SUBSET Fields : r.sent \in [S -> Values \cup {Console!Blank}]
  BY <1>1 DEF Partial
<1>3. fs \subseteq S
  BY <1>2 DEF Console!Changes
<1>4. \A f \in fs : r.sent[f] \in Values \cup {Console!Blank}
  BY <1>2, <1>3
<1>5. operation.text \in Console!Text
  BY DEF OperationRow
<1> HIDE DEF fs
<1>6. Console!Restrict(r.sent, fs) = [f \in fs |-> r.sent[f]]
  BY DEF Console!Restrict
<1>7. DOMAIN Console!Restrict(r.sent, fs) = fs /\ \A f \in fs : Console!Restrict(r.sent, fs)[f] \in Values \cup {Console!Blank}
  BY <1>4, <1>6
<1>8. [f \in Fields |-> IF f \in DOMAIN Console!Restrict(r.sent, fs) THEN Console!Restrict(r.sent, fs)[f] ELSE operation.text[f]] \in Console!Text
  BY <1>5, <1>7 DEF Console!Text
<1> QED BY <1>7, <1>8 DEF fs

LEMMA CorrectWriteStep ==
  ASSUME Console!ConsoleAssumption, ConsoleInv, NEW b \in Browsers, Console!CorrectWrite(b)
  PROVE  ConsoleInv'
<1>1. UNCHANGED <<dir, esc, form, editor, posted, audit>>
  BY DEF Console!CorrectWrite
<1>2. CASE Console!Answer(b, "refused") /\ UNCHANGED <<operation, writes, consoleFaults>>
  <2>1. consoleFaults' \in 0 .. MaxFaults
    BY <1>2 DEF ConsoleInv, ConsoleTyped
  <2> QED BY <1>1, <1>2, <2>1, AnswerStep
<1>3. CASE Console!Unchanged(b) /\ ~(Console!Answer(b, "refused") /\ UNCHANGED <<operation, writes, consoleFaults>>)
  <2>1. req[b] \in Requests /\ req[b].kind = "correct" /\ req[b].pc = "write" /\ operation \in OperationRow
    BY DEF Console!CorrectWrite, Console!At, ConsoleInv, ConsoleTyped
  <2>2. req[b] \in CorrectRequest /\ CorrectHolds(b, req[b])
    BY <2>1, RequestFields DEF ConsoleInv, RequestsHold, Holds
  <2>3. PICK q \in CorrectRequest : q = req[b]
    BY <2>2
  <2>4. operation.version \in Console!Version /\ operation.version = q.expected /\ operation.text = q.before /\ ~operation.mandated /\ ~operation.closed
    BY <1>3, <2>1, <2>2, <2>3 DEF CorrectHolds, Console!Unchanged, OperationRow
  <2> DEFINE fs == Console!Changes(q.sent, q.before)
             after == Console!Restrict(q.sent, fs)
             text == [f \in Fields |-> IF f \in DOMAIN after THEN after[f] ELSE operation.text[f]]
             w == [by |-> b, at |-> operation.version, after |-> after, was |-> operation,
                   before |-> Console!Restrict(operation.text, DOMAIN after)]
  <2>5. operation' = [operation EXCEPT !.text = text, !.version = @ + 1] /\ Console!Wrote(Console!OP, w) /\ Console!Done(b, "event")
        /\ operation.version < MaxVersion
    BY <1>3, <2>3 DEF Console!CorrectWrite, Console!Correction
  <2>6. DOMAIN after = fs /\ text \in Console!Text
    BY <2>1, CorrectedText
  <2>7. Corrected(w, b, q) /\ w.was = operation
    BY <2>4, <2>6 DEF Corrected
  <2> HIDE DEF fs, after, text, w
  <2>8. operation' \in OperationRow /\ operation'.version > operation.version
    <3>1. operation.version + 1 \in Console!Version /\ operation.version + 1 > operation.version
      BY <2>4, <2>5 DEF Console!Version, Console!ConsoleAssumption
    <3>2. PICK v \in Console!Version : v = operation.version + 1
      BY <3>1
    <3>3. operation' = [operation EXCEPT !.text = text, !.version = v]
      BY <2>1, <2>5, <3>2 DEF OperationRow
    <3>4. [operation EXCEPT !.text = text, !.version = v] \in OperationRow
      BY <2>1, <2>6 DEF OperationRow
    <3>5. [operation EXCEPT !.text = text, !.version = v].version = v
      BY <2>1 DEF OperationRow
    <3> QED BY <3>1, <3>2, <3>3, <3>4, <3>5
  <2>9. /\ DOMAIN writes' = Console!Subjects /\ writes'[Console!OP] = writes[Console!OP] \cup {w}
        /\ \A x \in Console!Subjects \ {Console!OP} : writes'[x] = writes[x]
    BY <2>5, WroteAdds, SubjectsDiffer DEF ConsoleInv
  <2>10. Forward
    BY <1>1, <2>8, <2>9 DEF Forward
  <2>11. [q EXCEPT !.pc = "event"] \in CorrectRequest
    BY DEF CorrectRequest
  <2>12. /\ consoleFaults' \in 0 .. MaxFaults
         /\ \E r \in Requests : /\ req' = [req EXCEPT ![b] = r]
                                /\ r \in NoRequest \/ r = [q EXCEPT !.pc = "event"]
    BY <2>3, <2>5, <2>11, DoneMoves DEF ConsoleInv, Requests
  <2>13. PICK r \in Requests : /\ req' = [req EXCEPT ![b] = r]
                               /\ r \in NoRequest \/ r = [q EXCEPT !.pc = "event"]
    BY <2>12
  <2>14. ConsoleTyped'
    BY <1>1, <2>8, <2>9, <2>12, <2>13 DEF ConsoleInv, ConsoleTyped
  <2>15. Holds(b, r)'
    <3>1. CASE r \in NoRequest
      BY <3>1 DEF Holds, NoRequest
    <3>2. CASE r = [q EXCEPT !.pc = "event"]
      <4>1. /\ r.kind = "correct" /\ r.pc = "event" /\ r.expected = q.expected
            /\ r.sent = q.sent /\ r.before = q.before
        BY <3>2 DEF CorrectRequest
      <4>2. Corrected(w, b, r)
        BY <2>7, <4>1 DEF Corrected
      <4> QED BY <2>9, <4>1, <4>2 DEF Holds, CorrectHolds, Corrected
    <3> QED BY <2>13, <3>1, <3>2
  <2>16. RequestsHold'
    BY <2>10, <2>13, <2>14, <2>15, RequestMoves DEF ConsoleInv
  <2>17. SheetsAreOld'
    BY <1>1, <2>10, <2>14, SheetsStay DEF ConsoleInv
  <2>18. NotAuthorized'
    BY <2>4, <2>7, <2>9 DEF ConsoleInv, NotAuthorized
  <2>19. ClosedOnce' /\ Console!SavesWhatWasShown'
    <3>1. writes'[Console!ESC] = writes[Console!ESC] /\ \A e \in Entries : writes'[e] = writes[e]
      BY <2>9, SubjectsDiffer
    <3> QED BY <1>1, <3>1 DEF ConsoleInv, ClosedOnce, Console!SavesWhatWasShown
  <2> QED BY <1>1, <2>10, <2>14, <2>16, <2>17, <2>18, <2>19, TrailStays DEF ConsoleInv
<1> QED BY <1>2, <1>3 DEF Console!CorrectWrite

LEMMA ResolveWriteStep ==
  ASSUME Console!ConsoleAssumption, ConsoleInv, NEW b \in Browsers, Console!ResolveWrite(b)
  PROVE  ConsoleInv'
<1>1. UNCHANGED <<operation, dir, form, editor, posted, audit>>
  BY DEF Console!ResolveWrite
<1>2. CASE Console!Answer(b, "refused") /\ UNCHANGED <<esc, writes, consoleFaults>>
  <2>1. consoleFaults' \in 0 .. MaxFaults
    BY <1>2 DEF ConsoleInv, ConsoleTyped
  <2> QED BY <1>1, <1>2, <2>1, AnswerStep
<1>3. CASE Console!Resolvable /\ ~(Console!Answer(b, "refused") /\ UNCHANGED <<esc, writes, consoleFaults>>)
  <2>1. /\ req[b] \in Requests /\ req[b].kind = "resolve" /\ req[b].pc = "write"
        /\ esc = "started" /\ writes[Console!ESC] = {}
    BY <1>3
       DEF Console!ResolveWrite, Console!At, ConsoleInv, ConsoleTyped, Console!Resolvable, Console!Open,
           ClosedOnce
  <2>2. req[b] \in ResolveRequest /\ req[b].before = "started"
    BY <2>1, RequestFields DEF ConsoleInv, RequestsHold, Holds, ResolveHolds
  <2>3. PICK q \in ResolveRequest : q = req[b]
    BY <2>2
  <2> DEFINE w == [by |-> b, before |-> esc]
  <2>4. esc' = "resolved" /\ Console!Wrote(Console!ESC, w) /\ Console!Done(b, "event")
    BY <1>3 DEF Console!ResolveWrite
  <2>5. w.by = b /\ w.before = q.before
    BY <2>1, <2>2, <2>3
  <2> HIDE DEF w
  <2>6. /\ DOMAIN writes' = Console!Subjects /\ writes'[Console!ESC] = {w}
        /\ \A x \in Console!Subjects \ {Console!ESC} : writes'[x] = writes[x]
    BY <2>1, <2>4, WroteAdds, SubjectsDiffer DEF ConsoleInv
  <2>7. Forward
    BY <1>1, <2>1, <2>6 DEF Forward
  <2>8. [q EXCEPT !.pc = "event"] \in ResolveRequest
    BY DEF ResolveRequest
  <2>9. /\ consoleFaults' \in 0 .. MaxFaults
        /\ \E r \in Requests : /\ req' = [req EXCEPT ![b] = r]
                               /\ r \in NoRequest \/ r = [q EXCEPT !.pc = "event"]
    BY <2>3, <2>4, <2>8, DoneMoves DEF ConsoleInv, Requests
  <2>10. PICK r \in Requests : /\ req' = [req EXCEPT ![b] = r]
                               /\ r \in NoRequest \/ r = [q EXCEPT !.pc = "event"]
    BY <2>9
  <2>11. ConsoleTyped'
    BY <1>1, <2>4, <2>6, <2>9, <2>10 DEF ConsoleInv, ConsoleTyped
  <2>12. Holds(b, r)'
    <3>1. CASE r \in NoRequest
      BY <3>1 DEF Holds, NoRequest
    <3>2. CASE r = [q EXCEPT !.pc = "event"]
      <4>1. r.kind = "resolve" /\ r.pc = "event" /\ r.before = q.before
        BY <3>2 DEF ResolveRequest
      <4> QED BY <2>5, <2>6, <4>1 DEF Holds, ResolveHolds
    <3> QED BY <2>10, <3>1, <3>2
  <2>13. RequestsHold'
    BY <2>7, <2>10, <2>11, <2>12, RequestMoves DEF ConsoleInv
  <2>14. SheetsAreOld'
    BY <1>1, <2>7, <2>11, SheetsStay DEF ConsoleInv
  <2>15. ClosedOnce'
    BY <2>4, <2>6 DEF ClosedOnce
  <2>16. NotAuthorized' /\ Console!SavesWhatWasShown'
    <3>1. writes'[Console!OP] = writes[Console!OP] /\ \A e \in Entries : writes'[e] = writes[e]
      BY <2>6, SubjectsDiffer
    <3> QED BY <1>1, <3>1 DEF ConsoleInv, NotAuthorized, Console!SavesWhatWasShown
  <2> QED BY <1>1, <2>7, <2>11, <2>13, <2>14, <2>15, <2>16, TrailStays DEF ConsoleInv
<1> QED BY <1>2, <1>3 DEF Console!ResolveWrite

\* A row of the directory moves on, and the history with it.
LEMMA EntryStep ==
  ASSUME Console!ConsoleAssumption, ConsoleInv, NEW b \in Browsers, NEW e \in Entries,
         NEW after \in Console!DirRow, after.version > dir[e].version, dir' = [dir EXCEPT ![e] = after],
         NEW w, w.before = w.shown, Console!Wrote(e, w),
         NEW r \in Requests, req' = [req EXCEPT ![b] = r], Holds(b, r)',
         consoleFaults' \in 0 .. MaxFaults,
         UNCHANGED <<operation, esc, form, editor, posted, audit>>
  PROVE  ConsoleInv'
<1>1. /\ DOMAIN writes' = Console!Subjects /\ writes'[e] = writes[e] \cup {w}
      /\ \A x \in Console!Subjects \ {e} : writes'[x] = writes[x]
  BY WroteAdds, SubjectsDiffer DEF ConsoleInv
<1>2. dir' \in [Entries -> Console!DirRow] /\ dir'[e] = after /\ \A x \in Entries \ {e} : dir'[x] = dir[x]
  BY DEF ConsoleInv, ConsoleTyped
<1>3. Forward
  BY <1>1, <1>2 DEF Forward
<1>4. ConsoleTyped'
  BY <1>1, <1>2 DEF ConsoleInv, ConsoleTyped
<1>5. RequestsHold'
  BY <1>3, <1>4, RequestMoves DEF ConsoleInv
<1>6. SheetsAreOld'
  BY <1>3, <1>4, SheetsStay DEF ConsoleInv
<1>7. writes'[Console!OP] = writes[Console!OP] /\ writes'[Console!ESC] = writes[Console!ESC]
  BY <1>1, SubjectsDiffer
<1>8. ClosedOnce' /\ NotAuthorized'
  BY <1>7 DEF ConsoleInv, ClosedOnce, NotAuthorized
<1>9. Console!SavesWhatWasShown'
  <2> SUFFICES ASSUME NEW x \in Entries, NEW v \in writes'[x] PROVE v.before = v.shown
    BY DEF Console!SavesWhatWasShown
  <2>1. v \in writes[x] \/ v = w
    BY <1>1, SubjectsDiffer
  <2> QED BY <2>1 DEF ConsoleInv, Console!SavesWhatWasShown
<1> QED BY <1>3, <1>4, <1>5, <1>6, <1>8, <1>9, TrailStays DEF ConsoleInv

\* A change is one of the row.
LEMMA ChangedRow ==
  ASSUME NEW row \in Console!DirRow, NEW change \in AnyChange
  PROVE  Console!Changed(row, change) \in Console!DirRow /\ Console!Changed(row, change).version = row.version
<1>1. CASE change.field = "phone"
  <2>1. change.to \in Phones
    BY <1>1 DEF AnyChange
  <2>2. [row EXCEPT !.phone = change.to] \in Console!DirRow
    BY <2>1 DEF Console!DirRow
  <2>3. [row EXCEPT !.phone = change.to].version = row.version
    BY DEF Console!DirRow
  <2> QED BY <1>1, <2>2, <2>3 DEF Console!Changed
<1>2. CASE change.field # "phone"
  <2>1. change.to \in BOOLEAN
    BY <1>2 DEF AnyChange
  <2>2. [row EXCEPT !.active = change.to] \in Console!DirRow
    BY <2>1 DEF Console!DirRow
  <2>3. [row EXCEPT !.active = change.to].version = row.version
    BY DEF Console!DirRow
  <2> QED BY <1>2, <2>2, <2>3 DEF Console!Changed
<1> QED BY <1>1, <1>2

\* A row with the next version.
LEMMA NextVersion ==
  ASSUME Console!ConsoleAssumption, NEW row \in Console!DirRow, row.version < MaxVersion
  PROVE  /\ [row EXCEPT !.version = @ + 1] \in Console!DirRow
         /\ [row EXCEPT !.version = @ + 1].version > row.version
         /\ Console!Snapshot([row EXCEPT !.version = @ + 1]) = Console!Snapshot(row)
<1>1. row.version + 1 \in Console!Version /\ row.version + 1 > row.version
  BY DEF Console!DirRow, Console!Version, Console!ConsoleAssumption
<1>2. PICK v \in Console!Version : v = row.version + 1
  BY <1>1
<1>3. [row EXCEPT !.version = v] \in Console!DirRow
  BY DEF Console!DirRow
<1>4. /\ [row EXCEPT !.version = v].version = v
      /\ [row EXCEPT !.version = v].phone = row.phone
      /\ [row EXCEPT !.version = v].active = row.active
  BY DEF Console!DirRow
<1>5. [row EXCEPT !.version = @ + 1] = [row EXCEPT !.version = v]
  BY <1>2
<1> QED BY <1>1, <1>2, <1>3, <1>4, <1>5 DEF Console!Snapshot

LEMMA UpdateWriteStep ==
  ASSUME Console!ConsoleAssumption, ConsoleInv, NEW b \in Browsers, Console!UpdateWrite(b)
  PROVE  ConsoleInv'
<1>1. UNCHANGED <<operation, esc, form, editor, posted, audit>>
  BY DEF Console!UpdateWrite
<1>2. CASE Console!Answer(b, "refused") /\ UNCHANGED <<dir, writes, consoleFaults>>
  <2>1. consoleFaults' \in 0 .. MaxFaults
    BY <1>2 DEF ConsoleInv, ConsoleTyped
  <2> QED BY <1>1, <1>2, <2>1, AnswerStep
<1>3. CASE Console!SameVersion(b) /\ ~(Console!Answer(b, "refused") /\ UNCHANGED <<dir, writes, consoleFaults>>)
  <2>1. req[b] \in Requests /\ req[b].kind = "update" /\ req[b].pc = "write"
    BY DEF Console!UpdateWrite, Console!At, ConsoleInv, ConsoleTyped
  <2>2. req[b] \in UpdateRequest /\ UpdateHolds(b, req[b])
    BY <2>1, RequestFields DEF ConsoleInv, RequestsHold, Holds
  <2>3. PICK q \in UpdateRequest : q = req[b]
    BY <2>2
  <2>4. q.on \in Entries /\ q.shown \in Console!DirRow /\ q.change \in AnyChange
    BY DEF UpdateRequest
  <2>5. PICK e \in Entries : e = q.on
    BY <2>4
  <2>6. PICK row \in Console!DirRow : row = dir[e]
    BY DEF ConsoleInv, ConsoleTyped
  <2>7. row = q.shown /\ row = q.before
    BY <1>3, <2>1, <2>2, <2>3, <2>5, <2>6 DEF UpdateHolds, ReadEarlier, Console!SameVersion
  <2>8. Console!Changed(row, q.change) \in Console!DirRow /\ Console!Changed(row, q.change).version = row.version
    BY <2>4, ChangedRow
  <2>9. PICK changed \in Console!DirRow : changed = Console!Changed(row, q.change) /\ changed.version = row.version
    BY <2>8
  <2>10. row.version < MaxVersion
    BY <2>3, <2>5, <2>6 DEF Console!UpdateWrite
  <2>11. PICK after \in Console!DirRow : after = [changed EXCEPT !.version = @ + 1] /\ after.version > row.version
                                /\ Console!Snapshot(after) = Console!Snapshot(changed)
    BY <2>9, <2>10, NextVersion
  <2>12. PICK w : w = [by |-> b, shown |-> q.shown, before |-> row, after |-> after]
    OBVIOUS
  <2>13. dir' = [dir EXCEPT ![e] = after] /\ Console!Wrote(e, w) /\ Console!Done(b, "audit")
    BY <1>3, <2>3, <2>5, <2>6, <2>9, <2>11, <2>12 DEF Console!UpdateWrite
  <2>14. w.by = b /\ w.shown = row /\ w.before = row /\ w.after = after
    BY <2>7, <2>12
  <2>15. [q EXCEPT !.pc = "audit"] \in UpdateRequest
    BY DEF UpdateRequest
  <2>16. /\ consoleFaults' \in 0 .. MaxFaults
         /\ \E r \in Requests : /\ req' = [req EXCEPT ![b] = r]
                                /\ r \in NoRequest \/ r = [q EXCEPT !.pc = "audit"]
    BY <2>3, <2>13, <2>15, DoneMoves DEF ConsoleInv, Requests
  <2>17. PICK r \in Requests : /\ req' = [req EXCEPT ![b] = r]
                               /\ r \in NoRequest \/ r = [q EXCEPT !.pc = "audit"]
    BY <2>16
  <2>18. writes'[e] = writes[e] \cup {w}
    BY <2>13, WroteAdds, SubjectsDiffer DEF ConsoleInv
  <2>19. dir'[e] = after
    BY <2>13 DEF ConsoleInv, ConsoleTyped
  <2>20. Holds(b, r)'
    <3>1. CASE r \in NoRequest
      BY <3>1 DEF Holds, NoRequest
    <3>2. CASE r = [q EXCEPT !.pc = "audit"]
      <4>1. /\ r.kind = "update" /\ r.pc = "audit" /\ r.on = e /\ r.shown = row
            /\ r.before = row /\ r.change = q.change
        BY <2>5, <2>7, <3>2 DEF UpdateRequest
      <4>2. ReadEarlier(r.shown, r.on)'
        BY <2>11, <2>19, <4>1 DEF ReadEarlier, Console!DirRow, Console!Version
      <4>3. w \in writes'[r.on] /\ w.by = b /\ w.before = r.before
            /\ Console!Snapshot(w.after) = Console!Snapshot(Console!Changed(r.before, r.change))
        BY <2>9, <2>11, <2>14, <2>18, <4>1
      <4>4. UpdateHolds(b, r)'
        BY <4>1, <4>2, <4>3 DEF UpdateHolds
      <4> QED BY <4>1, <4>4 DEF Holds
    <3> QED BY <2>17, <3>1, <3>2
  <2> QED BY <1>1, <2>6, <2>11, <2>13, <2>14, <2>16, <2>17, <2>20, EntryStep
<1> QED BY <1>2, <1>3 DEF Console!UpdateWrite

LEMMA CreateWriteStep ==
  ASSUME Console!ConsoleAssumption, ConsoleInv, NEW b \in Browsers, Console!CreateWrite(b)
  PROVE  ConsoleInv'
<1>1. UNCHANGED <<operation, esc, form, editor, posted, audit>>
  BY DEF Console!CreateWrite
<1>2. CASE Console!Answer(b, "refused") /\ UNCHANGED <<dir, writes, consoleFaults>>
  <2>1. consoleFaults' \in 0 .. MaxFaults
    BY <1>2 DEF ConsoleInv, ConsoleTyped
  <2> QED BY <1>1, <1>2, <2>1, AnswerStep
<1>3. CASE ~(Console!Answer(b, "refused") /\ UNCHANGED <<dir, writes, consoleFaults>>)
  <2>1. req[b] \in Requests /\ req[b].kind = "create" /\ req[b].pc = "read"
    BY DEF Console!CreateWrite, Console!At, ConsoleInv, ConsoleTyped
  <2>2. PICK q \in CreateRequest : q = req[b]
    BY <2>1, RequestFields
  <2>3. PICK e \in Entries, p \in Phones : e = q.on /\ p = q.phone
    BY DEF CreateRequest
  <2>4. PICK row \in Console!DirRow : row = dir[e]
    BY DEF ConsoleInv, ConsoleTyped
  <2>5. PICK after \in Console!DirRow : after = [phone |-> p, active |-> TRUE, version |-> 1]
    <3>1. 1 \in Console!Version
      BY DEF Console!Version, Console!ConsoleAssumption
    <3> QED BY <3>1 DEF Console!DirRow
  <2>6. after.version = 1 /\ Console!Snapshot(after) = [phone |-> p, active |-> TRUE]
    BY <2>5 DEF Console!Snapshot
  <2>7. PICK w : w = [by |-> b, shown |-> row, before |-> row, after |-> after]
    OBVIOUS
  <2>8. dir' = [dir EXCEPT ![e] = after] /\ Console!Wrote(e, w) /\ Console!Done(b, "audit") /\ row.version = 0
    BY <1>3, <2>2, <2>3, <2>4, <2>5, <2>7 DEF Console!CreateWrite
  <2>9. w.by = b /\ w.shown = row /\ w.before = row /\ w.after = after
    BY <2>7
  <2>10. [q EXCEPT !.pc = "audit"] \in CreateRequest
    BY DEF CreateRequest
  <2>11. /\ consoleFaults' \in 0 .. MaxFaults
         /\ \E r \in Requests : /\ req' = [req EXCEPT ![b] = r]
                                /\ r \in NoRequest \/ r = [q EXCEPT !.pc = "audit"]
    BY <2>2, <2>8, <2>10, DoneMoves DEF ConsoleInv, Requests
  <2>12. PICK r \in Requests : /\ req' = [req EXCEPT ![b] = r]
                               /\ r \in NoRequest \/ r = [q EXCEPT !.pc = "audit"]
    BY <2>11
  <2>13. writes'[e] = writes[e] \cup {w}
    BY <2>8, WroteAdds, SubjectsDiffer DEF ConsoleInv
  <2>14. Holds(b, r)'
    <3>1. CASE r \in NoRequest
      BY <3>1 DEF Holds, NoRequest
    <3>2. CASE r = [q EXCEPT !.pc = "audit"]
      <4>1. r.kind = "create" /\ r.pc = "audit" /\ r.on = e /\ r.phone = p
        BY <2>3, <3>2 DEF CreateRequest
      <4>2. CreateHolds(b, r)'
        BY <2>6, <2>8, <2>9, <2>13, <4>1 DEF CreateHolds
      <4> QED BY <4>1, <4>2 DEF Holds
    <3> QED BY <2>12, <3>1, <3>2
  <2>15. after.version > dir[e].version
    BY <2>4, <2>6, <2>8
  <2> QED BY <1>1, <2>8, <2>9, <2>11, <2>12, <2>14, <2>15, EntryStep
<1> QED BY <1>2, <1>3 DEF Console!CreateWrite

------------------------------------------------------------------------------
(* The statements that tell: events and audit rows *)

\* Nothing moves on but a request, and what is told is so.
LEMMA TellStep ==
  ASSUME ConsoleInv, NEW b \in Browsers, NEW r \in Requests, req' = [req EXCEPT ![b] = r], Holds(b, r),
         consoleFaults' \in 0 .. MaxFaults, UNCHANGED <<operation, dir, esc, form, writes>>,
         editor' \in [Browsers -> Sheet], SheetsAreOld',
         \A row \in posted' : row.on \in {Console!OP, Console!ESC} /\ row.by \in Browsers,
         DOMAIN audit' = Console!Subjects, Console!AuditIsExact', Console!DirectoryAuditIsExact'
  PROVE  ConsoleInv'
<1>1. ConsoleTyped'
  BY DEF ConsoleInv, ConsoleTyped
<1>2. Forward
  BY RowsStand
<1>3. Holds(b, r)'
  BY <1>1, <1>2, HoldingStays DEF ConsoleInv
<1>4. RequestsHold'
  BY <1>1, <1>2, <1>3, RequestMoves DEF ConsoleInv
<1>5. ClosedOnce' /\ NotAuthorized' /\ Console!SavesWhatWasShown'
  BY DEF ConsoleInv, ClosedOnce, NotAuthorized, Console!SavesWhatWasShown
<1> QED BY <1>1, <1>4, <1>5 DEF ConsoleInv

\* An event of a request follows its update.
LEMMA EventStep ==
  ASSUME Console!ConsoleAssumption, ConsoleInv, NEW b \in Browsers, NEW s \in {Console!OP, Console!ESC},
         NEW x, x.on = s, x.by = b,
         posted' = posted \cup {x}, \E w \in writes[s] : w.by = b,
         NEW r \in Requests, req' = [req EXCEPT ![b] = r], Holds(b, r),
         consoleFaults' \in 0 .. MaxFaults, UNCHANGED <<operation, dir, esc, form, editor, audit, writes>>
  PROVE  ConsoleInv'
<1>1. \A row \in posted' : row.on \in {Console!OP, Console!ESC} /\ row.by \in Browsers
  BY DEF ConsoleInv, ConsoleTyped
<1>2. Console!AuditIsExact'
  <2>1. \A row \in posted' : \E w \in writes[row.on] : row.by = w.by
    BY DEF ConsoleInv, Console!AuditIsExact
  <2> QED BY <2>1 DEF ConsoleInv, Console!AuditIsExact
<1>3. Console!DirectoryAuditIsExact'
  BY DEF ConsoleInv, Console!DirectoryAuditIsExact
<1>4. editor' \in [Browsers -> Sheet] /\ DOMAIN audit' = Console!Subjects
  BY DEF ConsoleInv, ConsoleTyped
<1>5. SheetsAreOld'
  BY DEF ConsoleInv, SheetsAreOld, ReadEarlier
<1> QED BY <1>1, <1>2, <1>3, <1>4, <1>5, TellStep

LEMMA CorrectEventStep ==
  ASSUME Console!ConsoleAssumption, ConsoleInv, NEW b \in Browsers, Console!CorrectEvent(b)
  PROVE  ConsoleInv'
<1>1. req[b] \in Requests /\ req[b].kind = "correct" /\ req[b].pc = "event"
  BY DEF Console!CorrectEvent, Console!At, ConsoleInv, ConsoleTyped
<1>2. req[b] \in CorrectRequest /\ CorrectHolds(b, req[b])
  BY <1>1, RequestFields DEF ConsoleInv, RequestsHold, Holds
<1>3. PICK q \in CorrectRequest : q = req[b]
  BY <1>2
<1>4. PICK w \in writes[Console!OP] : Corrected(w, b, q)
  BY <1>1, <1>2, <1>3 DEF CorrectHolds
<1>5. [q EXCEPT !.pc = "audit"] \in CorrectRequest
  BY DEF CorrectRequest
<1>6. Console!Done(b, "audit") /\ UNCHANGED <<operation, dir, esc, form, editor, audit, writes>>
  BY DEF Console!CorrectEvent
<1>7. /\ consoleFaults' \in 0 .. MaxFaults
      /\ \E r \in Requests : /\ req' = [req EXCEPT ![b] = r]
                             /\ r \in NoRequest \/ r = [q EXCEPT !.pc = "audit"]
  BY <1>3, <1>5, <1>6, DoneMoves DEF ConsoleInv, Requests
<1>8. PICK r \in Requests : /\ req' = [req EXCEPT ![b] = r]
                            /\ r \in NoRequest \/ r = [q EXCEPT !.pc = "audit"]
  BY <1>7
<1>9. Holds(b, r)
  <2>1. CASE r = [q EXCEPT !.pc = "audit"]
    <3>1. /\ r.kind = "correct" /\ r.pc = "audit" /\ r.expected = q.expected
          /\ r.sent = q.sent /\ r.before = q.before
      BY <2>1 DEF CorrectRequest
    <3> QED BY <1>4, <3>1 DEF Holds, CorrectHolds, Corrected
  <2> QED BY <1>8, <2>1, NothingHeld
<1>10. PICK x : x = [on |-> Console!OP, by |-> b, at |-> req[b].expected]
  OBVIOUS
<1>11. x.on = Console!OP /\ x.by = b /\ posted' = posted \cup {x}
  BY <1>10 DEF Console!CorrectEvent
<1> QED BY <1>4, <1>6, <1>7, <1>8, <1>9, <1>11, EventStep DEF Corrected

LEMMA ResolveEventStep ==
  ASSUME Console!ConsoleAssumption, ConsoleInv, NEW b \in Browsers, Console!ResolveEvent(b)
  PROVE  ConsoleInv'
<1>1. req[b] \in Requests /\ req[b].kind = "resolve" /\ req[b].pc = "event"
  BY DEF Console!ResolveEvent, Console!At, ConsoleInv, ConsoleTyped
<1>2. req[b] \in ResolveRequest /\ ResolveHolds(b, req[b])
  BY <1>1, RequestFields DEF ConsoleInv, RequestsHold, Holds
<1>3. PICK q \in ResolveRequest : q = req[b]
  BY <1>2
<1>4. PICK w \in writes[Console!ESC] : w.by = b /\ w.before = q.before
  BY <1>1, <1>2, <1>3 DEF ResolveHolds
<1>5. [q EXCEPT !.pc = "audit"] \in ResolveRequest
  BY DEF ResolveRequest
<1>6. Console!Done(b, "audit") /\ UNCHANGED <<operation, dir, esc, form, editor, audit, writes>>
  BY DEF Console!ResolveEvent
<1>7. /\ consoleFaults' \in 0 .. MaxFaults
      /\ \E r \in Requests : /\ req' = [req EXCEPT ![b] = r]
                             /\ r \in NoRequest \/ r = [q EXCEPT !.pc = "audit"]
  BY <1>3, <1>5, <1>6, DoneMoves DEF ConsoleInv, Requests
<1>8. PICK r \in Requests : /\ req' = [req EXCEPT ![b] = r]
                            /\ r \in NoRequest \/ r = [q EXCEPT !.pc = "audit"]
  BY <1>7
<1>9. Holds(b, r)
  <2>1. CASE r = [q EXCEPT !.pc = "audit"]
    <3>1. r.kind = "resolve" /\ r.pc = "audit" /\ r.before = q.before
      BY <2>1 DEF ResolveRequest
    <3> QED BY <1>4, <3>1 DEF Holds, ResolveHolds
  <2> QED BY <1>8, <2>1, NothingHeld
<1>10. PICK x : x = [on |-> Console!ESC, by |-> b, at |-> 0]
  OBVIOUS
<1>11. x.on = Console!ESC /\ x.by = b /\ posted' = posted \cup {x}
  BY <1>10 DEF Console!ResolveEvent
<1> QED BY <1>4, <1>6, <1>7, <1>8, <1>9, <1>11, EventStep

\* An audit row is the last a request writes.
LEMMA AuditAdds ==
  ASSUME Console!ConsoleAssumption, ConsoleTyped, NEW b \in Browsers, NEW s \in Console!Subjects,
         NEW row, Console!recordOperatorAction(b, s, row)
  PROVE  /\ DOMAIN audit' = Console!Subjects /\ audit'[s] = audit[s] \cup {row}
         /\ \A x \in Console!Subjects \ {s} : audit'[x] = audit[x]
         /\ UNCHANGED <<operation, dir, esc, posted, writes>> /\ consoleFaults' \in 0 .. MaxFaults
         /\ \E r \in NoRequest : req' = [req EXCEPT ![b] = r]
<1>1. DOMAIN audit' = Console!Subjects /\ audit'[s] = audit[s] \cup {row}
      /\ \A x \in Console!Subjects \ {s} : audit'[x] = audit[x]
  BY DEF Console!recordOperatorAction, ConsoleTyped
<1>2. Console!Done(b, "answer") /\ UNCHANGED <<operation, dir, esc, posted, writes>>
  BY DEF Console!recordOperatorAction
<1>3. consoleFaults' \in 0 .. MaxFaults /\ \E r \in NoRequest : req' = [req EXCEPT ![b] = r]
  BY <1>2, DoneMoves
<1> QED BY <1>1, <1>2, <1>3

\* An audit row of the operation or of the escalation, about one of its writes.
LEMMA AuditStep ==
  ASSUME Console!ConsoleAssumption, ConsoleInv, NEW b \in Browsers, NEW s \in {Console!OP, Console!ESC},
         NEW row,
         Console!recordOperatorAction(b, s, row), UNCHANGED <<form, editor>>,
         \E w \in writes[s] : /\ row.by = w.by /\ row.before = w.before
                              /\ s = Console!OP => row.at = w.at /\ row.after = w.after
  PROVE  ConsoleInv'
<1>1. s \in Console!Subjects /\ Console!OP \in Console!Subjects /\ Console!ESC \in Console!Subjects /\ Console!OP # Console!ESC
  BY SubjectsDiffer
<1>2. /\ DOMAIN audit' = Console!Subjects /\ audit'[s] = audit[s] \cup {row}
      /\ \A x \in Console!Subjects \ {s} : audit'[x] = audit[x]
      /\ UNCHANGED <<operation, dir, esc, posted, writes>> /\ consoleFaults' \in 0 .. MaxFaults
      /\ \E r \in NoRequest : req' = [req EXCEPT ![b] = r]
  BY <1>1, AuditAdds DEF ConsoleInv
<1>3. PICK r \in NoRequest : req' = [req EXCEPT ![b] = r]
  BY <1>2
<1>4. r \in Requests /\ Holds(b, r)
  BY NothingHeld
<1>5. Console!AuditIsExact'
  <2>1. \A t \in audit'[Console!OP] : \E w \in writes[Console!OP] :
          t.by = w.by /\ t.at = w.at /\ t.before = w.before /\ t.after = w.after
    BY <1>1, <1>2 DEF ConsoleInv, Console!AuditIsExact
  <2>2. \A t \in audit'[Console!ESC] : \E w \in writes[Console!ESC] : t.by = w.by /\ t.before = w.before
    BY <1>1, <1>2 DEF ConsoleInv, Console!AuditIsExact
  <2> QED BY <1>2, <2>1, <2>2 DEF ConsoleInv, Console!AuditIsExact
<1>6. Console!DirectoryAuditIsExact'
  <2>1. \A e \in Entries : audit'[e] = audit[e]
    BY <1>2, SubjectsDiffer
  <2> QED BY <1>2, <2>1 DEF ConsoleInv, Console!DirectoryAuditIsExact
<1>7. editor' \in [Browsers -> Sheet] /\ \A x \in posted' : x.on \in {Console!OP, Console!ESC} /\ x.by \in Browsers
  BY <1>2 DEF ConsoleInv, ConsoleTyped
<1>8. SheetsAreOld'
  BY <1>2 DEF ConsoleInv, SheetsAreOld, ReadEarlier
<1> QED BY <1>2, <1>3, <1>4, <1>5, <1>6, <1>7, <1>8, TellStep

LEMMA CorrectAuditStep ==
  ASSUME Console!ConsoleAssumption, ConsoleInv, NEW b \in Browsers, Console!CorrectAudit(b)
  PROVE  ConsoleInv'
<1>1. req[b] \in Requests /\ req[b].kind = "correct" /\ req[b].pc = "audit"
  BY DEF Console!CorrectAudit, Console!At, ConsoleInv, ConsoleTyped
<1>2. CorrectHolds(b, req[b])
  BY <1>1 DEF ConsoleInv, RequestsHold, Holds
<1>3. PICK w \in writes[Console!OP] : Corrected(w, b, req[b])
  BY <1>1, <1>2 DEF CorrectHolds
<1>4. PICK row : row = Console!Correction(b)
  OBVIOUS
<1>5. row.by = w.by /\ row.before = w.before /\ row.at = w.at /\ row.after = w.after
  BY <1>3, <1>4 DEF Console!Correction, Corrected
<1>6. Console!recordOperatorAction(b, Console!OP, row) /\ UNCHANGED <<form, editor>>
  BY <1>4 DEF Console!CorrectAudit
<1> QED BY <1>5, <1>6, AuditStep

LEMMA ResolveAuditStep ==
  ASSUME Console!ConsoleAssumption, ConsoleInv, NEW b \in Browsers, Console!ResolveAudit(b)
  PROVE  ConsoleInv'
<1>1. req[b] \in Requests /\ req[b].kind = "resolve" /\ req[b].pc = "audit"
  BY DEF Console!ResolveAudit, Console!At, ConsoleInv, ConsoleTyped
<1>2. ResolveHolds(b, req[b])
  BY <1>1 DEF ConsoleInv, RequestsHold, Holds
<1>3. PICK w \in writes[Console!ESC] : w.by = b /\ w.before = req[b].before
  BY <1>1, <1>2 DEF ResolveHolds
<1>4. PICK row : row = [by |-> b, before |-> req[b].before]
  OBVIOUS
<1>5. Console!recordOperatorAction(b, Console!ESC, row) /\ UNCHANGED <<form, editor>>
  BY <1>4 DEF Console!ResolveAudit
<1> QED BY <1>3, <1>4, <1>5, SubjectsDiffer, AuditStep

\* The sheet of an entry that was saved is shut.
LEMMA SheetShuts ==
  ASSUME Console!ConsoleAssumption, ConsoleInv, NEW b \in Browsers, UNCHANGED <<operation, dir, writes>>,
         ConsoleTyped',
         editor' = [editor EXCEPT ![b] = Console!Shut] \/ UNCHANGED editor
  PROVE  SheetsAreOld'
<1>1. Forward
  BY RowsStand
<1>2. PICK s \in Sheet : s = Console!Shut
  <2>1. Console!NoPhone \in Phones /\ 0 \in Console!Version
    BY DEF Console!ConsoleAssumption, Console!NoPhone, Console!Version
  <2>2. [phone |-> Console!NoPhone, active |-> FALSE, version |-> 0] \in Console!DirRow
    BY <2>1 DEF Console!DirRow
  <2> QED BY <2>2 DEF Console!Shut, Sheet
<1>3. s.on \notin Entries
  BY <1>2 DEF Console!Shut, Console!ConsoleAssumption
<1> QED BY <1>1, <1>2, <1>3, SheetStep, SheetsStay DEF ConsoleInv

LEMMA EntryAuditStep ==
  ASSUME Console!ConsoleAssumption, ConsoleInv, NEW b \in Browsers, Console!EntryAudit(b)
  PROVE  ConsoleInv'
<1>1. req[b] \in Requests /\ req[b].kind \in {"update", "create"} /\ req[b].pc = "audit"
  BY DEF Console!EntryAudit, ConsoleInv, ConsoleTyped
<1>2. Holds(b, req[b])
  BY DEF ConsoleInv, RequestsHold
<1>3. PICK e \in Entries : e = req[b].on
  BY <1>1, RequestFields DEF UpdateRequest, CreateRequest
<1>4. PICK row : row = [by |-> b, action |-> Console!DirAction(b),
        at |-> IF req[b].kind = "create" THEN 0 ELSE req[b].before.version,
        after |-> IF req[b].kind = "create" THEN [phone |-> req[b].phone, active |-> TRUE]
                  ELSE Console!Snapshot(Console!Changed(req[b].before, req[b].change))]
  OBVIOUS
<1>5. Console!recordOperatorAction(b, e, row)
  BY <1>3, <1>4 DEF Console!EntryAudit
<1>6. \E w \in writes[e] :
        /\ row.by = w.by /\ row.at = w.before.version /\ row.after = Console!Snapshot(w.after)
        /\ (row.action = "deactivated") <=> (w.before.active /\ ~w.after.active)
  <2>1. CASE req[b].kind = "update"
    <3>1. UpdateHolds(b, req[b])
      BY <1>2, <2>1 DEF Holds
    <3>2. PICK w \in writes[e] : /\ w.by = b /\ w.before = req[b].before
                                 /\ Console!Snapshot(w.after) = Console!Snapshot(Console!Changed(req[b].before, req[b].change))
      BY <1>1, <1>3, <3>1 DEF UpdateHolds
    <3>3. w.after.active = Console!Changed(req[b].before, req[b].change).active
      BY <3>2 DEF Console!Snapshot
    <3>4. row.action = Console!DirAction(b) /\ row.by = b /\ row.at = req[b].before.version
          /\ row.after = Console!Snapshot(Console!Changed(req[b].before, req[b].change))
      BY <1>4, <2>1
    <3>5. (row.action = "deactivated") <=> (w.before.active /\ ~w.after.active)
      BY <2>1, <3>2, <3>3, <3>4 DEF Console!DirAction
    <3> QED BY <3>2, <3>4, <3>5
  <2>2. CASE req[b].kind = "create"
    <3>1. PICK w \in writes[e] : /\ w.by = b /\ w.before.version = 0
                                 /\ Console!Snapshot(w.after) = [phone |-> req[b].phone, active |-> TRUE]
      BY <1>1, <1>2, <1>3, <2>2 DEF Holds, CreateHolds
    <3>2. w.after.active
      BY <3>1 DEF Console!Snapshot
    <3>3. row.action = "created" /\ row.by = b /\ row.at = 0
          /\ row.after = [phone |-> req[b].phone, active |-> TRUE]
      BY <1>4, <2>2 DEF Console!DirAction
    <3> QED BY <3>1, <3>2, <3>3
  <2> QED BY <1>1, <2>1, <2>2
<1>7. e \in Console!Subjects /\ e # Console!OP /\ e # Console!ESC /\ Console!OP \in Console!Subjects /\ Console!ESC \in Console!Subjects
  BY SubjectsDiffer
<1>8. /\ DOMAIN audit' = Console!Subjects /\ audit'[e] = audit[e] \cup {row}
      /\ \A x \in Console!Subjects \ {e} : audit'[x] = audit[x]
      /\ UNCHANGED <<operation, dir, esc, posted, writes>> /\ consoleFaults' \in 0 .. MaxFaults
      /\ \E r \in NoRequest : req' = [req EXCEPT ![b] = r]
  BY <1>5, <1>7, AuditAdds DEF ConsoleInv
<1>9. PICK r \in NoRequest : req' = [req EXCEPT ![b] = r]
  BY <1>8
<1>10. r \in Requests /\ Holds(b, r)
  BY NothingHeld
<1>11. Console!AuditIsExact'
  <2>1. audit'[Console!OP] = audit[Console!OP] /\ audit'[Console!ESC] = audit[Console!ESC]
    BY <1>7, <1>8
  <2> QED BY <1>8, <2>1 DEF ConsoleInv, Console!AuditIsExact
<1>12. Console!DirectoryAuditIsExact'
  <2> SUFFICES ASSUME NEW x \in Entries, NEW t \in audit'[x]
               PROVE  \E w \in writes'[x] :
                 /\ t.by = w.by /\ t.at = w.before.version /\ t.after = Console!Snapshot(w.after)
                 /\ (t.action = "deactivated") <=> (w.before.active /\ ~w.after.active)
    BY DEF Console!DirectoryAuditIsExact, Console!Snapshot
  <2>1. t \in audit[x] \/ (x = e /\ t = row)
    BY <1>8, SubjectsDiffer
  <2> QED BY <1>6, <1>8, <2>1 DEF ConsoleInv, Console!DirectoryAuditIsExact
<1>13. editor' = [editor EXCEPT ![b] = Console!Shut] \/ UNCHANGED editor
  BY DEF Console!EntryAudit
<1>14. editor' \in [Browsers -> Sheet]
  <2>1. Console!NoPhone \in Phones /\ 0 \in Console!Version
    BY DEF Console!ConsoleAssumption, Console!NoPhone, Console!Version
  <2>2. Console!Shut \in Sheet
    BY <2>1 DEF Console!Shut, Sheet, Console!DirRow
  <2> QED BY <1>13, <2>2 DEF ConsoleInv, ConsoleTyped
<1>15. UNCHANGED form /\ \A x \in posted' : x.on \in {Console!OP, Console!ESC} /\ x.by \in Browsers
  BY <1>8 DEF Console!EntryAudit, ConsoleInv, ConsoleTyped
<1>16. ConsoleTyped'
  BY <1>8, <1>9, <1>10, <1>14, <1>15 DEF ConsoleInv, ConsoleTyped
<1>17. SheetsAreOld'
  BY <1>8, <1>13, <1>16, SheetShuts
<1> QED BY <1>8, <1>9, <1>10, <1>11, <1>12, <1>14, <1>15, <1>17, TellStep

------------------------------------------------------------------------------
(* The steps together *)

\* What calls do, no request and no sheet moves with.
LEMMA CallsStep ==
  ASSUME ConsoleInv, ConsoleTyped', Forward, UNCHANGED <<form, editor, req, posted, audit, writes>>,
         esc' = esc \/ esc' = "resolved"
  PROVE  ConsoleInv'
<1>1. RequestsHold'
  <2> SUFFICES ASSUME NEW b \in Browsers PROVE Holds(b, req[b])'
    BY DEF RequestsHold
  <2>1. PICK r \in Requests : r = req[b]
    BY DEF ConsoleInv, ConsoleTyped
  <2>2. Holds(b, r)
    BY <2>1 DEF ConsoleInv, RequestsHold
  <2>3. Holds(b, r)'
    BY <2>2, HoldingStays DEF ConsoleInv
  <2> QED BY <2>1, <2>3
             DEF Holds, CorrectHolds, ResolveHolds, UpdateHolds, CreateHolds, Corrected, ReadEarlier
<1>2. SheetsAreOld'
  BY SheetsStay DEF ConsoleInv
<1>3. ClosedOnce' /\ NotAuthorized' /\ Console!SavesWhatWasShown'
  BY DEF ConsoleInv, ClosedOnce, NotAuthorized, Console!SavesWhatWasShown
<1> QED BY <1>1, <1>2, <1>3, TrailStays DEF ConsoleInv

LEMMA CallWritesStep ==
  ASSUME Console!ConsoleAssumption, ConsoleInv, Console!CallWrites
  PROVE  ConsoleInv'
<1>1. UNCHANGED <<dir, esc, form, editor, req, posted, audit, writes, consoleFaults>>
  BY DEF Console!CallWrites
<1>2. operation \in OperationRow /\ operation.text \in Console!Text /\ operation.version + 1 \in Console!Version /\ operation.version + 1 > operation.version
  <2>1. operation \in OperationRow /\ operation.version < MaxVersion
    BY DEF Console!CallWrites, ConsoleInv, ConsoleTyped
  <2>2. operation.text \in Console!Text /\ operation.version \in Console!Version
    BY <2>1 DEF OperationRow
  <2> QED BY <2>1, <2>2 DEF Console!Version, Console!ConsoleAssumption
<1>3. PICK v \in Console!Version : v = operation.version + 1
  BY <1>2
<1>4. operation' \in OperationRow /\ operation'.version > operation.version
  <2>1. ASSUME NEW f \in Fields, NEW x \in Values, operation' = [operation EXCEPT !.text[f] = x, !.version = @ + 1]
        PROVE  operation' \in OperationRow /\ operation'.version > operation.version
    <3>1. [operation.text EXCEPT ![f] = x] \in Console!Text
      BY <1>2 DEF Console!Text
    <3>2. operation' = [operation EXCEPT !.text = [operation.text EXCEPT ![f] = x], !.version = v]
      BY <1>2, <1>3, <2>1 DEF OperationRow
    <3>3. [operation EXCEPT !.text = [operation.text EXCEPT ![f] = x], !.version = v] \in OperationRow
      BY <1>2, <3>1 DEF OperationRow
    <3>4. [operation EXCEPT !.text = [operation.text EXCEPT ![f] = x], !.version = v].version = v
      BY <1>2 DEF OperationRow
    <3> QED BY <1>2, <1>3, <3>2, <3>3, <3>4
  <2>2. ASSUME operation' = [operation EXCEPT !.mandated = TRUE, !.version = @ + 1]
        PROVE  operation' \in OperationRow /\ operation'.version > operation.version
    <3>1. operation' = [operation EXCEPT !.mandated = TRUE, !.version = v]
      BY <1>2, <1>3, <2>2 DEF OperationRow
    <3>2. [operation EXCEPT !.mandated = TRUE, !.version = v] \in OperationRow
      BY <1>2 DEF OperationRow
    <3>3. [operation EXCEPT !.mandated = TRUE, !.version = v].version = v
      BY <1>2 DEF OperationRow
    <3> QED BY <1>2, <1>3, <3>1, <3>2, <3>3
  <2>3. ASSUME operation' = [operation EXCEPT !.closed = TRUE, !.version = @ + 1]
        PROVE  operation' \in OperationRow /\ operation'.version > operation.version
    <3>1. operation' = [operation EXCEPT !.closed = TRUE, !.version = v]
      BY <1>2, <1>3, <2>3 DEF OperationRow
    <3>2. [operation EXCEPT !.closed = TRUE, !.version = v] \in OperationRow
      BY <1>2 DEF OperationRow
    <3>3. [operation EXCEPT !.closed = TRUE, !.version = v].version = v
      BY <1>2 DEF OperationRow
    <3> QED BY <1>2, <1>3, <3>1, <3>2, <3>3
  <2> QED BY <2>1, <2>2, <2>3 DEF Console!CallWrites
<1>5. Forward
  BY <1>1, <1>4 DEF Forward
<1>6. ConsoleTyped'
  BY <1>1, <1>4 DEF ConsoleInv, ConsoleTyped
<1> QED BY <1>1, <1>5, <1>6, CallsStep

LEMMA CallerCancelsStep == ASSUME ConsoleInv, Console!CallerCancels PROVE ConsoleInv'
<1>1. UNCHANGED <<operation, dir, form, editor, req, posted, audit, writes, consoleFaults>> /\ esc' = "resolved"
  BY DEF Console!CallerCancels
<1>2. ConsoleTyped'
  BY <1>1 DEF ConsoleInv, ConsoleTyped
<1>3. Forward
  BY <1>1, RowsStand
<1> QED BY <1>1, <1>2, <1>3, CallsStep

LEMMA StutterConsole == ASSUME ConsoleInv, UNCHANGED Console!vars PROVE ConsoleInv'
<1>1. UNCHANGED <<operation, dir, esc, form, editor, req, posted, audit, writes, consoleFaults>>
  BY DEF Console!vars
<1>2. ConsoleTyped'
  BY <1>1 DEF ConsoleInv, ConsoleTyped
<1>3. Forward
  BY <1>1, RowsStand
<1> QED BY <1>1, <1>2, <1>3, CallsStep

LEMMA NextConsole == ASSUME Console!ConsoleAssumption, ConsoleInv, Console!Next PROVE ConsoleInv'
<1>1. CASE Console!CallWrites
  BY <1>1, CallWritesStep
<1>2. CASE Console!CallerCancels
  BY <1>2, CallerCancelsStep
<1>3. ASSUME NEW b \in Browsers, Console!Browse(b) PROVE ConsoleInv'
  BY <1>3, FormSteps, SubmitCorrectionStep, SubmitResolutionStep, SubmitEntryStep, OpenEditorStep
     DEF Console!Browse
<1>4. ASSUME NEW b \in Browsers, Console!ServeCorrection(b) PROVE ConsoleInv'
  BY <1>4, CorrectReadStep, CorrectWriteStep, CorrectEventStep, CorrectAuditStep
     DEF Console!ServeCorrection
<1>5. ASSUME NEW b \in Browsers, Console!ServeResolution(b) PROVE ConsoleInv'
  BY <1>5, ResolveReadStep, ResolveWriteStep, ResolveEventStep, ResolveAuditStep
     DEF Console!ServeResolution
<1>6. ASSUME NEW b \in Browsers, Console!ServeEntry(b) PROVE ConsoleInv'
  BY <1>6, UpdateReadStep, UpdateWriteStep, CreateWriteStep, EntryAuditStep DEF Console!ServeEntry
<1>7. ASSUME NEW b \in Browsers, Console!RequestFails(b) PROVE ConsoleInv'
  BY <1>7, RequestFailsStep
<1> QED BY <1>1, <1>2, <1>3, <1>4, <1>5, <1>6, <1>7 DEF Console!Next, Console!Serve

------------------------------------------------------------------------------
(* What holds of the console *)

\* The invariant holds of every behaviour of the console.
THEOREM ConsoleAgrees == ASSUME Console!ConsoleAssumption PROVE Console!Spec => []ConsoleInv
<1>1. Console!Init => ConsoleInv
  BY InitConsole
<1>2. ConsoleInv /\ [Console!Next]_(Console!vars) => ConsoleInv'
  BY NextConsole, StutterConsole
<1> QED BY <1>1, <1>2, PTL DEF Console!Spec

\* An answer is one a browser knows.
LEMMA RequestAnswers ==
  ASSUME NEW r \in Requests
  PROVE  r.answer \in {"none", "saved", "refused", "failed"}
BY DEF Requests, NoRequest, CorrectRequest, ResolveRequest, UpdateRequest, CreateRequest

\* Rows, forms, sheets, requests and history have their types.
THEOREM ConsoleTypes == ASSUME Console!ConsoleAssumption PROVE Console!Spec => []Console!TypeOK
<1>1. ConsoleInv => Console!TypeOK
  <2> SUFFICES ASSUME ConsoleTyped PROVE Console!TypeOK
    BY DEF ConsoleInv
  <2>1. \A b \in Browsers :
          /\ req[b].pc \in {"idle", "read", "write", "event", "audit"}
          /\ req[b].kind \in {"none", "correct", "resolve", "update", "create"}
          /\ req[b].answer \in {"none", "saved", "refused", "failed"}
    BY RequestFields, RequestAnswers DEF ConsoleTyped
  <2> QED BY <2>1 DEF ConsoleTyped, Console!TypeOK, OperationRow, Form, Sheet, Console!Open
<1> QED BY <1>1, ConsoleAgrees, PTL

\* Nobody overwrites what another wrote unseen, a correction never lands on an
\* operation that was authorized or closed since, and what the audit trail and
\* the events tell of an update is what it replaced.
THEOREM ConsoleStaysTrue == ASSUME Console!ConsoleAssumption PROVE Console!Spec => []Console!ConsoleIsTrue
<1>1. ConsoleInv => Console!ConsoleIsTrue
  BY DEF ConsoleInv, Console!ConsoleIsTrue, Console!NothingIsOverridden, NotAuthorized, ClosedOnce
<1> QED BY <1>1, ConsoleAgrees, PTL

(***************************************************************************)
(* What the way to the dashboard promises (DashboardAccess), for any tabs  *)
(* and bounds: no redirect without a cause.  The invariant counts, with    *)
(* the redirects a navigation has had, those it may still meet if nothing  *)
(* more happens to the session.                                            *)
(***************************************************************************)
CONSTANTS Tabs, MaxSessions, MaxRefreshes, MaxAccessFaults, MaxHops
VARIABLES jar, sessions, closed, stale, accessFaults, tab
Access == INSTANCE DashboardAccess WITH faults <- accessFaults, MaxFaults <- MaxAccessFaults

\* Auth takes a token for signed in, if it answers at all.
Good(tok) == tok # Access!NoToken /\ (tok \notin stale \/ tok.session \notin closed)
Yes(tok) == IF Good(tok) THEN 1 ELSE 0
\* The jar after the page's answer to a tab that shows r, over jar j.
JarAfter(r, j) == IF r.token = r.sent THEN j ELSE r.token

\* The redirects a navigation may still meet, if nothing else happens.
NeedAtProxy(r, j) ==
  IF r.path = "dashboard" THEN IF Good(r.sent) THEN 0 ELSE 1 + Yes(j)
  ELSE IF Good(r.sent) THEN 2 - Yes(j)
  ELSE (IF r.path = "root" THEN 1 ELSE 0) + (IF r.sent = Access!NoToken THEN Yes(j) ELSE 0)
NeedAtPage(r, j) ==
  IF r.path = "dashboard" THEN IF Good(r.token) THEN 0 ELSE 1 + Yes(JarAfter(r, j))
  ELSE (IF r.path = "root" THEN 1 ELSE 0) + Yes(JarAfter(r, j))
Need(r, j) ==
  IF r.phase = "proxy" THEN NeedAtProxy(r, j)
  ELSE IF r.phase = "page" THEN NeedAtPage(r, j)
  ELSE IF r.phase = "mounted" THEN Yes(j)
  ELSE 0

\* There is room for them: the invariant.
HasRoom(r, j) == r.hops + Need(r, j) <= 1 + 2 * r.excuse
Room == \A t \in Tabs : HasRoom(tab[t], jar)
Refreshable == \A tok \in stale : tok.refreshes < MaxRefreshes
AccessInv == Access!TypeOK /\ Refreshable /\ Room

------------------------------------------------------------------------------
(* What Auth makes of a token *)

LEMMA NoTokenIsOne == ASSUME Access!AccessBounds PROVE Access!NoToken \in Access!Token
<1>1. 0 \in 0..MaxSessions /\ 0 \in 0..MaxRefreshes
  BY DEF Access!AccessBounds
<1> QED BY <1>1 DEF Access!NoToken, Access!Token

LEMMA ClaimsOf ==
  ASSUME Access!AccessBounds, Access!TypeOK, Refreshable, NEW tok \in Access!Token,
         NEW c \in Access!Claims(tok)
  PROVE  /\ c.token \in Access!Token /\ c.signed \in BOOLEAN /\ c.lost \in {0, 1} /\ accessFaults + c.lost \in 0..MaxAccessFaults
         /\ c.lost = 0 => /\ c.signed <=> Good(tok)
                          /\ Good(c.token) <=> Good(tok)
                          /\ ~ c.signed => c.token = Access!NoToken
         /\ c.lost = 1 => ~ c.signed /\ c.token = tok
<1>1. accessFaults \in 0..MaxAccessFaults /\ MaxAccessFaults \in Nat
  BY DEF Access!TypeOK, Access!AccessBounds
<1>2. Access!NoToken \in Access!Token
  BY NoTokenIsOne
<1>3. CASE tok = Access!NoToken
  <2>1. c = [signed |-> FALSE, token |-> Access!NoToken, lost |-> 0]
    BY <1>3 DEF Access!Claims
  <2> QED BY <1>1, <1>2, <1>3, <2>1 DEF Good
<1>4. CASE tok # Access!NoToken /\ tok \notin stale
  <2>1. c = [signed |-> TRUE, token |-> tok, lost |-> 0]
    BY <1>4 DEF Access!Claims
  <2> QED BY <1>1, <1>4, <2>1 DEF Good
<1>5. CASE tok # Access!NoToken /\ tok \in stale
  <2>1. CASE c.lost = 1 /\ c = [signed |-> FALSE, token |-> tok, lost |-> 1] /\ accessFaults < MaxAccessFaults
    BY <1>1, <2>1
  <2>2. CASE tok.session \in closed /\ c = [signed |-> FALSE, token |-> Access!NoToken, lost |-> 0]
    BY <1>1, <1>2, <1>5, <2>2 DEF Good
  <2>3. CASE /\ tok.session \notin closed
             /\ c = [signed |-> TRUE, token |-> [tok EXCEPT !.refreshes = @ + 1], lost |-> 0]
    <3>1. tok.refreshes + 1 \in 0..MaxRefreshes
      BY <1>5 DEF Refreshable, Access!Token, Access!AccessBounds
    <3>2. PICK n \in 0..MaxRefreshes : n = tok.refreshes + 1 /\ n # 0
      BY <3>1 DEF Access!Token
    <3>3. [tok EXCEPT !.refreshes = n] \in Access!Token
      BY DEF Access!Token
    <3>4. [tok EXCEPT !.refreshes = n].refreshes = n /\ [tok EXCEPT !.refreshes = n].session = tok.session
      BY DEF Access!Token
    <3>5. c.token = [tok EXCEPT !.refreshes = n] /\ c.signed /\ c.lost = 0
      BY <2>3, <3>2
    <3>6. c.token # Access!NoToken /\ c.token.session \notin closed
      BY <2>3, <3>2, <3>4, <3>5 DEF Access!NoToken
    <3> QED BY <1>1, <1>5, <2>3, <3>3, <3>5, <3>6 DEF Good
  <2>4. \/ c = [signed |-> FALSE, token |-> tok, lost |-> 1] /\ accessFaults < MaxAccessFaults
        \/ tok.session \in closed /\ c = [signed |-> FALSE, token |-> Access!NoToken, lost |-> 0]
        \/ /\ tok.session \notin closed
           /\ c = [signed |-> TRUE, token |-> [tok EXCEPT !.refreshes = @ + 1], lost |-> 0]
    BY <1>5 DEF Access!Claims
  <2> QED BY <2>1, <2>2, <2>3, <2>4
<1> QED BY <1>3, <1>4, <1>5

------------------------------------------------------------------------------
(* What a navigation may still meet *)

LEMMA NeedBounded ==
  ASSUME NEW r \in Access!Tab, NEW j \in Access!Token PROVE Need(r, j) \in 0..2
BY DEF Need, NeedAtProxy, NeedAtPage, Yes

\* It depends on the jar by what Auth makes of it.
LEMMA JarsAlike ==
  ASSUME NEW r \in Access!Tab, NEW j \in Access!Token, NEW k \in Access!Token, Good(j) <=> Good(k)
  PROVE  Need(r, j) = Need(r, k)
BY DEF Need, NeedAtProxy, NeedAtPage, Yes, JarAfter

\* Whom nothing has disturbed.
LEMMA NeedStays ==
  ASSUME UNCHANGED <<stale, closed>>, NEW r \in Access!Tab, NEW j \in Access!Token,
         NEW k \in Access!Token,
         Good(j) <=> Good(k), HasRoom(r, j)
  PROVE  HasRoom(r, k)'
<1>1. Need(r, k)' = Need(r, k)
  BY DEF Need, NeedAtProxy, NeedAtPage, Yes, JarAfter, Good
<1>2. Need(r, k) = Need(r, j)
  BY JarsAlike
<1> QED BY <1>1, <1>2 DEF HasRoom

\* A navigation that met something has room for whatever may come of it.
Excused(r) == [r EXCEPT !.excuse = IF r.phase = "idle" THEN @ ELSE @ + 1]
LEMMA ExcusedFits ==
  ASSUME NEW r \in Access!Tab, NEW j \in Access!Token, NEW k \in Access!Token, HasRoom(r, j)
  PROVE  Excused(r) \in Access!Tab /\ HasRoom(Excused(r), k)'
<1>1. r.hops \in Nat /\ r.excuse \in Nat /\ r.hops <= 1 + 2 * r.excuse
  <2>1. Need(r, j) \in 0..2
    BY NeedBounded
  <2> QED BY <2>1 DEF HasRoom, Access!Tab
<1>2. CASE r.phase = "idle"
  <2>1. Excused(r) = r
    BY <1>2 DEF Excused, Access!Tab
  <2>2. Need(r, k)' = 0
    BY <1>2 DEF Need
  <2> QED BY <1>1, <2>1, <2>2 DEF HasRoom
<1>3. CASE r.phase # "idle"
  <2>1. PICK n \in Nat : n = r.excuse + 1
    BY <1>1
  <2>2. Excused(r) = [r EXCEPT !.excuse = n]
    BY <1>3, <2>1 DEF Excused
  <2>3. PICK q \in Access!Tab : q = Excused(r)
    BY <2>2 DEF Access!Tab
  <2>4. q.hops = r.hops /\ q.excuse = n
    BY <2>2, <2>3 DEF Access!Tab
  <2>5. Need(q, k)' \in 0..2
    BY DEF Need, NeedAtProxy, NeedAtPage, Yes
  <2>6. HasRoom(q, k)'
    BY <1>1, <2>1, <2>4, <2>5 DEF HasRoom
  <2> QED BY <2>3, <2>6
<1> QED BY <1>2, <1>3

------------------------------------------------------------------------------
(* The rows of a step *)

\* A tab takes its step; Auth makes the same of the jar as before.
LEMMA OwnRow ==
  ASSUME Access!TypeOK, Room, NEW t \in Tabs, NEW mine \in Access!Tab, UNCHANGED <<stale, closed>>,
         jar' \in Access!Token, Good(jar') <=> Good(jar), tab' = [tab EXCEPT ![t] = mine],
         HasRoom(mine, jar)'
  PROVE  tab' \in [Tabs -> Access!Tab] /\ Room'
<1>1. tab \in [Tabs -> Access!Tab] /\ jar \in Access!Token
  BY DEF Access!TypeOK
<1>2. tab' \in [Tabs -> Access!Tab] /\ tab'[t] = mine /\ \A u \in Tabs \ {t} : tab'[u] = tab[u]
  BY <1>1
<1>3. ASSUME NEW u \in Tabs PROVE HasRoom(tab[u], jar)'
  <2>1. CASE u = t
    BY <1>2, <2>1
  <2>2. CASE u # t
    <3>1. PICK r \in Access!Tab : r = tab[u]
      BY <1>1
    <3>2. PICK j \in Access!Token : j = jar
      BY <1>1
    <3>3. PICK k \in Access!Token : k = jar'
      OBVIOUS
    <3>4. HasRoom(r, j)
      BY <3>1, <3>2 DEF Room
    <3>5. HasRoom(r, k)'
      BY <3>2, <3>3, <3>4, NeedStays
    <3>6. tab'[u] = r
      BY <1>2, <2>2, <3>1
    <3> QED BY <3>3, <3>5, <3>6
  <2> QED BY <2>1, <2>2
<1> QED BY <1>2, <1>3 DEF Room

LEMMA RowExcused ==
  ASSUME Access!TypeOK, Room, NEW u \in Tabs, jar' \in Access!Token, tab'[u] = Excused(tab[u])
  PROVE  tab'[u] \in Access!Tab /\ HasRoom(tab[u], jar)'
<1>1. PICK r \in Access!Tab : r = tab[u]
  BY DEF Access!TypeOK
<1>2. PICK j \in Access!Token : j = jar
  BY DEF Access!TypeOK
<1>3. PICK k \in Access!Token : k = jar'
  OBVIOUS
<1>4. HasRoom(r, j)
  BY <1>1, <1>2 DEF Room
<1>5. Excused(r) \in Access!Tab /\ HasRoom(Excused(r), k)'
  BY <1>4, ExcusedFits
<1>6. PICK q \in Access!Tab : q = Excused(r)
  BY <1>5
<1>7. HasRoom(q, k)' /\ tab'[u] = q
  BY <1>1, <1>5, <1>6
<1> QED BY <1>3, <1>7

\* A tab changes the session under the others.
LEMMA OwnAndExcused ==
  ASSUME Access!TypeOK, Room, NEW t \in Tabs, NEW mine \in Access!Tab, jar' \in Access!Token,
         tab' = Access!Told(t, mine), HasRoom(mine, jar)'
  PROVE  tab' \in [Tabs -> Access!Tab] /\ Room'
<1>1. tab'[t] = mine /\ \A u \in Tabs \ {t} : tab'[u] = Excused(tab[u])
  BY DEF Access!Told, Excused
<1>2. \A u \in Tabs : tab'[u] \in Access!Tab /\ HasRoom(tab[u], jar)'
  BY <1>1, RowExcused
<1> QED BY <1>2 DEF Access!Told, Room

\* Something else changes it under all of them.
LEMMA AllExcused ==
  ASSUME Access!TypeOK, Room, jar' \in Access!Token, tab' = Access!Disturbed
  PROVE  tab' \in [Tabs -> Access!Tab] /\ Room'
<1>1. \A u \in Tabs : tab'[u] = Excused(tab[u])
  BY DEF Access!Disturbed, Excused
<1>2. \A u \in Tabs : tab'[u] \in Access!Tab /\ HasRoom(tab[u], jar)'
  BY <1>1, RowExcused
<1> QED BY <1>2 DEF Access!Disturbed, Room

\* The jar after a page's answer is known before it.
LEMMA KeptToken ==
  ASSUME Access!TypeOK, NEW t \in Tabs
  PROVE  Access!Kept(t) \in Access!Token /\ Access!Kept(t) = JarAfter(tab[t], jar)
<1>1. tab[t] \in Access!Tab /\ jar \in Access!Token
  BY DEF Access!TypeOK
<1> QED BY <1>1 DEF Access!Kept, JarAfter, Access!Tab

LEMMA AnsweredRows ==
  ASSUME Access!TypeOK, Room, NEW t \in Tabs, NEW mine \in Access!Tab, UNCHANGED <<stale, closed>>,
         Access!Answered(t, mine), HasRoom(mine, jar)'
  PROVE  jar' \in Access!Token /\ tab' \in [Tabs -> Access!Tab] /\ Room'
<1>1. jar' = Access!Kept(t) /\ jar' \in Access!Token
  BY KeptToken DEF Access!Answered
<1>2. CASE Access!Kept(t) = jar
  <2>1. jar' = jar /\ tab' = [tab EXCEPT ![t] = mine]
    BY <1>1, <1>2 DEF Access!Answered
  <2> QED BY <1>1, <2>1, OwnRow
<1>3. CASE Access!Kept(t) # jar
  <2>1. tab' = Access!Told(t, mine)
    BY <1>3 DEF Access!Answered
  <2> QED BY <1>1, <2>1, OwnAndExcused
<1> QED BY <1>2, <1>3

------------------------------------------------------------------------------
(* The rows a tab takes itself *)

Paths == {"root", "login", "dashboard"}

LEMMA RedirectedRow ==
  ASSUME NEW r \in Access!Tab, NEW path \in Paths, NEW j \in Access!Token, NEW lost \in {0, 1}
  PROVE  \E q \in Access!Tab : /\ q = Access!Redirected(r, path, j, lost)
                               /\ q.phase = "proxy" /\ q.path = path /\ q.sent = j
                               /\ q.hops <= r.hops + 1 /\ q.excuse = r.excuse + lost
<1>1. PICK n \in Nat : n = IF r.hops < MaxHops THEN r.hops + 1 ELSE r.hops
  BY DEF Access!Tab
<1>2. PICK e \in Nat : e = r.excuse + lost
  BY DEF Access!Tab
<1>3. n <= r.hops + 1
  BY <1>1 DEF Access!Tab
<1>4. Access!Redirected(r, path, j, lost)
        = [r EXCEPT !.phase = "proxy", !.path = path, !.sent = j, !.hops = n, !.excuse = e]
  BY <1>1, <1>2 DEF Access!Redirected, Access!Requested, Access!Tab
<1>5. PICK q \in Access!Tab :
        q = [r EXCEPT !.phase = "proxy", !.path = path, !.sent = j, !.hops = n, !.excuse = e]
  BY DEF Access!Tab, Paths
<1>6. q.phase = "proxy" /\ q.path = path /\ q.sent = j /\ q.hops = n /\ q.excuse = e
  BY <1>5 DEF Access!Tab
<1> QED BY <1>2, <1>3, <1>4, <1>5, <1>6

LEMMA BegunRow ==
  ASSUME NEW r \in Access!Tab, NEW path \in Paths, NEW j \in Access!Token
  PROVE  \E q \in Access!Tab : /\ q = Access!Begun(r, path, j)
                               /\ q.phase = "proxy" /\ q.path = path /\ q.sent = j
                               /\ q.hops = 0 /\ q.excuse = 0
<1>1. Access!Begun(r, path, j)
        = [r EXCEPT !.phase = "proxy", !.path = path, !.sent = j, !.hops = 0, !.excuse = 0]
  BY DEF Access!Begun, Access!Requested, Access!Tab
<1>2. PICK q \in Access!Tab :
        q = [r EXCEPT !.phase = "proxy", !.path = path, !.sent = j, !.hops = 0, !.excuse = 0]
  BY DEF Access!Tab, Paths
<1>3. q.phase = "proxy" /\ q.path = path /\ q.sent = j /\ q.hops = 0 /\ q.excuse = 0
  BY <1>2 DEF Access!Tab
<1> QED BY <1>1, <1>2, <1>3

LEMMA RestedRow ==
  ASSUME Access!AccessBounds, NEW r \in Access!Tab
  PROVE  \E q \in Access!Tab : q = Access!Rested(r) /\ q.phase = "idle" /\ q.hops = 0 /\ q.excuse = r.excuse
<1>1. Access!NoToken \in Access!Token
  BY NoTokenIsOne
<1>2. PICK q \in Access!Tab : q = Access!Rested(r)
  BY <1>1 DEF Access!Rested, Access!Tab
<1>3. q.phase = "idle" /\ q.hops = 0 /\ q.excuse = r.excuse
  BY <1>2 DEF Access!Rested, Access!Tab
<1> QED BY <1>2, <1>3

\* A request that carries the whole jar.
LEMMA NeedOfRequest ==
  ASSUME NEW q \in Access!Tab, NEW k \in Access!Token, q.phase = "proxy", q.sent = k
  PROVE  /\ Need(q, k)' \in 0..1
         /\ q.path = "login" => Need(q, k)' = Yes(k)'
         /\ q.path = "dashboard" => Need(q, k)' = 1 - Yes(k)'
<1>1. q.path \in Paths
  BY DEF Access!Tab, Paths
<1>2. Need(q, k)' = NeedAtProxy(q, k)'
  BY DEF Need
<1>3. k = Access!NoToken => ~ Good(k)'
  BY DEF Good
<1>4. CASE Good(k)'
  BY <1>1, <1>2, <1>4 DEF NeedAtProxy, Yes, Paths
<1>5. CASE ~ Good(k)'
  BY <1>1, <1>2, <1>3, <1>5 DEF NeedAtProxy, Yes, Paths
<1> QED BY <1>4, <1>5

\* A navigation begins with room.
LEMMA BegunFits ==
  ASSUME NEW q \in Access!Tab, jar' \in Access!Token, q.phase = "proxy", q.sent = jar', q.hops = 0,
         q.excuse = 0
  PROVE  HasRoom(q, jar)'
<1>1. PICK k \in Access!Token : k = jar'
  OBVIOUS
<1>2. Need(q, k)' \in 0..1
  BY <1>1, NeedOfRequest
<1>3. HasRoom(q, k)'
  BY <1>2 DEF HasRoom
<1> QED BY <1>1, <1>3

LEMMA IdleFits ==
  ASSUME NEW q \in Access!Tab, NEW k, q.phase = "idle" \/ q.phase = "reading",
         q.hops <= 1 + 2 * q.excuse
  PROVE  HasRoom(q, k)'
<1>1. Need(q, k)' = 0 /\ q.hops \in Nat
  BY DEF Need, Access!Tab
<1> QED BY <1>1 DEF HasRoom

------------------------------------------------------------------------------
(* The steps *)

\* The row of a tab before its step.
LEMMA RowOf ==
  ASSUME Access!TypeOK, Room, NEW t \in Tabs
  PROVE  \E r \in Access!Tab, j \in Access!Token :
           /\ r = tab[t] /\ j = jar /\ Need(r, j) \in 0..2 /\ r.hops \in Nat /\ r.excuse \in Nat
           /\ r.hops + Need(r, j) <= 1 + 2 * r.excuse
<1>1. PICK r \in Access!Tab, j \in Access!Token : r = tab[t] /\ j = jar
  BY DEF Access!TypeOK
<1>2. HasRoom(r, j)
  BY <1>1 DEF Room
<1>3. Need(r, j) \in 0..2
  BY NeedBounded
<1> QED BY <1>1, <1>2, <1>3 DEF HasRoom, Access!Tab

\* The cookies and the clock, when a step leaves them alone or asks Auth.
Cookies == /\ jar \in Access!Token /\ sessions \in 0..MaxSessions /\ closed \subseteq 1..MaxSessions
           /\ stale \subseteq Access!Token /\ accessFaults \in 0..MaxAccessFaults
LEMMA AfterStep ==
  ASSUME Cookies', Refreshable', tab' \in [Tabs -> Access!Tab], Room' PROVE AccessInv'
BY DEF Cookies, AccessInv, Access!TypeOK

LEMMA CookiesStay ==
  ASSUME AccessInv, UNCHANGED <<sessions, closed, stale>>, jar' \in Access!Token,
         accessFaults' \in 0..MaxAccessFaults
  PROVE  Cookies' /\ Refreshable'
BY DEF AccessInv, Cookies, Access!TypeOK, Refreshable

LEMMA NavigateStep ==
  ASSUME Access!AccessBounds, AccessInv, NEW t \in Tabs, Access!Navigate(t) PROVE AccessInv'
<1>1. Access!TypeOK /\ Room /\ jar \in Access!Token /\ jar' = jar /\ accessFaults' \in 0..MaxAccessFaults
  BY DEF AccessInv, Access!TypeOK, Access!Navigate
<1>2. PICK path \in Paths : tab' = [tab EXCEPT ![t] = Access!Begun(@, path, jar)]
  BY DEF Access!Navigate, Paths
<1>3. PICK r \in Access!Tab, j \in Access!Token : r = tab[t] /\ j = jar
  BY <1>1 DEF Access!TypeOK
<1>4. PICK mine \in Access!Tab : mine = Access!Begun(r, path, j) /\ mine.phase = "proxy" /\ mine.sent = j
                         /\ mine.hops = 0 /\ mine.excuse = 0
  BY BegunRow
<1>5. HasRoom(mine, jar)'
  BY <1>1, <1>3, <1>4, BegunFits
<1>6. tab' = [tab EXCEPT ![t] = mine]
  BY <1>2, <1>3, <1>4
<1>7. tab' \in [Tabs -> Access!Tab] /\ Room'
  BY <1>1, <1>5, <1>6, OwnRow DEF Access!Navigate
<1> QED BY <1>1, <1>7, AfterStep, CookiesStay DEF Access!Navigate

LEMMA ProxyStep ==
  ASSUME Access!AccessBounds, AccessInv, NEW t \in Tabs, Access!Proxy(t) PROVE AccessInv'
<1>1. Access!TypeOK /\ Room /\ Refreshable /\ jar \in Access!Token /\ jar' = jar
  BY DEF AccessInv, Access!TypeOK, Access!Proxy
<1>2. PICK r \in Access!Tab, j \in Access!Token :
        /\ r = tab[t] /\ j = jar /\ Need(r, j) \in 0..2 /\ r.hops \in Nat /\ r.excuse \in Nat
        /\ r.hops + Need(r, j) <= 1 + 2 * r.excuse
  BY <1>1, RowOf
<1>3. r.phase = "proxy" /\ Need(r, j) = NeedAtProxy(r, j) /\ r.sent \in Access!Token /\ r.path \in Paths
  BY <1>2 DEF Access!Proxy, Need, Access!Tab, Paths
<1>4. PICK c \in Access!Claims(r.sent) :
        /\ accessFaults' = accessFaults + c.lost
        /\ \/ /\ ~ c.signed /\ r.path = "dashboard"
              /\ tab' = [tab EXCEPT ![t] = Access!Redirected(r, "login", jar, c.lost)]
           \/ /\ Access!SignedIn(c, r.sent) /\ r.path \in {"root", "login"}
              /\ tab' = [tab EXCEPT ![t] = Access!Redirected(r, "dashboard", jar, c.lost)]
           \/ /\ IF r.path = "dashboard" THEN c.signed ELSE ~ Access!SignedIn(c, r.sent)
              /\ tab' = [tab EXCEPT ![t].phase = "page", ![t].token = c.token,
                                    ![t].excuse = @ + c.lost]
  BY <1>2 DEF Access!Proxy
<1>5. /\ c.token \in Access!Token /\ c.signed \in BOOLEAN /\ c.lost \in {0, 1} /\ accessFaults + c.lost \in 0..MaxAccessFaults
      /\ c.lost = 0 => /\ c.signed <=> Good(r.sent)
                       /\ Good(c.token) <=> Good(r.sent)
                       /\ ~ c.signed => c.token = Access!NoToken
      /\ c.lost = 1 => ~ c.signed /\ c.token = r.sent
  BY <1>1, <1>3, ClaimsOf
<1>6. Yes(j) \in 0..1 /\ Yes(j)' = Yes(j)
  BY DEF Yes, Good, Access!Proxy
<1>7. SUFFICES \E mine \in Access!Tab : tab' = [tab EXCEPT ![t] = mine] /\ HasRoom(mine, j)'
  <2>1. PICK mine \in Access!Tab : tab' = [tab EXCEPT ![t] = mine] /\ HasRoom(mine, j)'
    BY <1>7
  <2>2. jar' = j /\ UNCHANGED <<stale, closed>>
    BY <1>1, <1>2 DEF Access!Proxy
  <2>3. HasRoom(mine, jar)'
    BY <2>1, <2>2
  <2>4. tab' \in [Tabs -> Access!Tab] /\ Room'
    BY <1>1, <2>1, <2>2, <2>3, OwnRow
  <2> QED BY <1>1, <1>4, <1>5, <2>4, AfterStep, CookiesStay DEF Access!Proxy
<1>8. CASE /\ ~ c.signed /\ r.path = "dashboard"
           /\ tab' = [tab EXCEPT ![t] = Access!Redirected(r, "login", jar, c.lost)]
  <2>0. "login" \in Paths /\ c.lost \in {0, 1}
    BY <1>5 DEF Paths
  <2>1. PICK q \in Access!Tab : /\ q = Access!Redirected(r, "login", j, c.lost)
                                /\ q.phase = "proxy" /\ q.path = "login" /\ q.sent = j
                                /\ q.hops <= r.hops + 1 /\ q.excuse = r.excuse + c.lost
    BY <2>0, RedirectedRow
  <2>2. Need(q, j)' = Yes(j)
    BY <1>6, <2>1, NeedOfRequest
  <2>3. c.lost = 0 => Need(r, j) = 1 + Yes(j)
    BY <1>3, <1>5, <1>8 DEF NeedAtProxy
  <2>4. q.hops + Yes(j) <= 1 + 2 * q.excuse
    BY <1>2, <1>5, <1>6, <2>1, <2>3 DEF Access!Tab
  <2>5. HasRoom(q, j)'
    BY <2>2, <2>4 DEF HasRoom
  <2> QED BY <1>2, <1>8, <2>1, <2>5
<1>9. CASE /\ Access!SignedIn(c, r.sent) /\ r.path \in {"root", "login"}
           /\ tab' = [tab EXCEPT ![t] = Access!Redirected(r, "dashboard", jar, c.lost)]
  <2>0. "dashboard" \in Paths /\ c.lost \in {0, 1}
    BY <1>5 DEF Paths
  <2>1. PICK q \in Access!Tab : /\ q = Access!Redirected(r, "dashboard", j, c.lost)
                                /\ q.phase = "proxy" /\ q.path = "dashboard" /\ q.sent = j
                                /\ q.hops <= r.hops + 1 /\ q.excuse = r.excuse + c.lost
    BY <2>0, RedirectedRow
  <2>2. Need(q, j)' = 1 - Yes(j)
    BY <1>6, <2>1, NeedOfRequest
  <2>3. c.lost = 0 /\ Need(r, j) = 2 - Yes(j)
    BY <1>3, <1>5, <1>9 DEF NeedAtProxy, Access!SignedIn
  <2>4. q.hops + (1 - Yes(j)) <= 1 + 2 * q.excuse
    BY <1>2, <1>6, <2>1, <2>3 DEF Access!Tab
  <2>5. HasRoom(q, j)'
    BY <2>2, <2>4 DEF HasRoom
  <2> QED BY <1>2, <1>9, <2>1, <2>5
<1>10. CASE /\ IF r.path = "dashboard" THEN c.signed ELSE ~ Access!SignedIn(c, r.sent)
            /\ tab' = [tab EXCEPT ![t].phase = "page", ![t].token = c.token,
                                  ![t].excuse = @ + c.lost]
  <2>1. PICK e \in Nat, k \in Access!Token : e = r.excuse + c.lost /\ k = c.token
    BY <1>2, <1>5
  <2>2. PICK q \in Access!Tab : q = [r EXCEPT !.phase = "page", !.token = k, !.excuse = e]
    BY DEF Access!Tab
  <2>3. /\ q.phase = "page" /\ q.token = k /\ q.excuse = e
        /\ q.path = r.path /\ q.sent = r.sent /\ q.hops = r.hops
    BY <2>2 DEF Access!Tab
  <2>4. tab' = [tab EXCEPT ![t] = q]
    BY <1>1, <1>2, <1>10, <2>1, <2>2 DEF Access!TypeOK, Access!Tab
  <2>5. Need(q, j)' = NeedAtPage(q, j)
    BY <2>3 DEF Need, NeedAtPage, Yes, JarAfter, Good, Access!Proxy
  <2>6. Need(q, j)' \in 0..2
    BY DEF Need, NeedAtProxy, NeedAtPage, Yes
  <2>7. CASE c.lost = 1
    <3>1. q.hops + Need(q, j)' <= 1 + 2 * q.excuse
      BY <1>2, <2>1, <2>3, <2>6, <2>7
    <3>2. HasRoom(q, j)'
      BY <3>1 DEF HasRoom
    <3> QED BY <2>4, <3>2
  <2>8. CASE c.lost = 0 /\ r.path = "dashboard"
    <3>1. NeedAtPage(q, j) = 0
      BY <1>5, <1>10, <2>1, <2>3, <2>8 DEF NeedAtPage
    <3>2. HasRoom(q, j)'
      BY <1>2, <2>1, <2>3, <2>5, <2>8, <3>1 DEF HasRoom
    <3> QED BY <2>4, <3>2
  <2>9. CASE c.lost = 0 /\ r.path # "dashboard"
    <3>1. ~ Good(r.sent) /\ k = Access!NoToken
      BY <1>5, <1>10, <2>1, <2>9 DEF Access!SignedIn
    <3>2. Yes(JarAfter(q, j)) = IF r.sent = Access!NoToken THEN Yes(j) ELSE 0
      BY <2>3, <3>1 DEF JarAfter, Yes, Good
    <3>3. NeedAtPage(q, j) = NeedAtProxy(r, j)
      BY <2>3, <2>9, <3>1, <3>2 DEF NeedAtPage, NeedAtProxy
    <3>4. HasRoom(q, j)'
      BY <1>2, <1>3, <2>1, <2>3, <2>5, <2>9, <3>3 DEF HasRoom
    <3> QED BY <2>4, <3>4
  <2> QED BY <1>5, <2>7, <2>8, <2>9
<1> QED BY <1>4, <1>8, <1>9, <1>10

\* The page of a tab that found nobody signed in sends it to the form.
LEMMA SentToLogin ==
  ASSUME Access!AccessBounds, AccessInv, NEW t \in Tabs, NEW lost \in {0, 1}, UNCHANGED <<stale,
         closed>>,
         Access!Answered(t, Access!Redirected(tab[t], "login", Access!Kept(t), lost)),
         lost = 0 => Need(tab[t], jar) = 1 + Yes(Access!Kept(t))
  PROVE  jar' \in Access!Token /\ tab' \in [Tabs -> Access!Tab] /\ Room'
<1>1. Access!TypeOK /\ Room
  BY DEF AccessInv
<1>2. PICK r \in Access!Tab, j \in Access!Token :
        /\ r = tab[t] /\ j = jar /\ Need(r, j) \in 0..2 /\ r.hops \in Nat /\ r.excuse \in Nat
        /\ r.hops + Need(r, j) <= 1 + 2 * r.excuse
  BY <1>1, RowOf
<1>3. PICK k \in Access!Token : k = Access!Kept(t)
  BY <1>1, KeptToken
<1>4. "login" \in Paths
  BY DEF Paths
<1>5. PICK q \in Access!Tab : /\ q = Access!Redirected(r, "login", k, lost)
                              /\ q.phase = "proxy" /\ q.path = "login" /\ q.sent = k
                              /\ q.hops <= r.hops + 1 /\ q.excuse = r.excuse + lost
  BY <1>4, RedirectedRow
<1>6. Yes(k) \in 0..1 /\ Yes(k)' = Yes(k)
  BY DEF Yes, Good
<1>7. Need(q, k)' = Yes(k)
  BY <1>5, <1>6, NeedOfRequest
<1>8. lost = 0 => Need(r, j) = 1 + Yes(k)
  BY <1>2, <1>3
<1>9. q.hops + Yes(k) <= 1 + 2 * q.excuse
  BY <1>2, <1>5, <1>6, <1>8 DEF Access!Tab
<1>10. HasRoom(q, k)'
  BY <1>7, <1>9 DEF HasRoom
<1>11. jar' = k /\ Access!Answered(t, q)
  BY <1>2, <1>3, <1>5 DEF Access!Answered
<1>12. HasRoom(q, jar)'
  BY <1>10, <1>11
<1> QED BY <1>1, <1>11, <1>12, AnsweredRows

LEMMA HomeStep ==
  ASSUME Access!AccessBounds, AccessInv, NEW t \in Tabs, Access!Home(t) PROVE AccessInv'
<1>1. Access!TypeOK /\ accessFaults' \in 0..MaxAccessFaults
  BY DEF AccessInv, Access!TypeOK, Access!Home
<1>2. Need(tab[t], jar) = 1 + Yes(Access!Kept(t))
  BY <1>1, KeptToken DEF Access!Home, Need, NeedAtPage
<1>3. jar' \in Access!Token /\ tab' \in [Tabs -> Access!Tab] /\ Room'
  <2>1. /\ Access!Answered(t, Access!Redirected(tab[t], "login", Access!Kept(t), 0))
        /\ UNCHANGED <<stale, closed>> /\ 0 \in {0, 1}
    BY DEF Access!Home
  <2> QED BY <1>2, <2>1, SentToLogin
<1> QED BY <1>1, <1>3, AfterStep, CookiesStay DEF Access!Home

LEMMA LoginPageStep ==
  ASSUME Access!AccessBounds, AccessInv, NEW t \in Tabs, Access!LoginPage(t) PROVE AccessInv'
<1>1. Access!TypeOK /\ Room /\ accessFaults' \in 0..MaxAccessFaults /\ UNCHANGED <<stale, closed>>
  BY DEF AccessInv, Access!TypeOK, Access!LoginPage
<1>2. PICK r \in Access!Tab, j \in Access!Token :
        /\ r = tab[t] /\ j = jar /\ Need(r, j) \in 0..2 /\ r.hops \in Nat /\ r.excuse \in Nat
        /\ r.hops + Need(r, j) <= 1 + 2 * r.excuse
  BY <1>1, RowOf
<1>3. PICK k \in Access!Token : k = Access!Kept(t)
  BY <1>1, KeptToken
<1>4. Need(r, j) = Yes(k)
  <2>1. k = JarAfter(r, j)
    BY <1>1, <1>2, <1>3, KeptToken
  <2>2. r.phase = "page" /\ r.path = "login" /\ Yes(k) \in 0..1
    BY <1>2 DEF Access!LoginPage, Yes
  <2> QED BY <2>1, <2>2 DEF Need, NeedAtPage
<1>5. PICK q \in Access!Tab : q = [r EXCEPT !.at = "login", !.phase = "mounted"]
  BY DEF Access!Tab
<1>6. q.phase = "mounted" /\ q.hops = r.hops /\ q.excuse = r.excuse
  BY <1>5 DEF Access!Tab
<1>7. Need(q, k)' = Yes(k)
  BY <1>1, <1>6 DEF Need, Yes, Good
<1>8. HasRoom(q, k)'
  BY <1>2, <1>4, <1>6, <1>7 DEF HasRoom
<1>9. jar' = k /\ Access!Answered(t, q)
  BY <1>2, <1>3, <1>5 DEF Access!LoginPage, Access!Answered
<1>10. HasRoom(q, jar)'
  BY <1>8, <1>9
<1>11. jar' \in Access!Token /\ tab' \in [Tabs -> Access!Tab] /\ Room'
  BY <1>1, <1>9, <1>10, AnsweredRows
<1> QED BY <1>1, <1>11, AfterStep, CookiesStay DEF Access!LoginPage

LEMMA DashboardPageStep ==
  ASSUME Access!AccessBounds, AccessInv, NEW t \in Tabs, Access!DashboardPage(t) PROVE AccessInv'
<1>1. Access!TypeOK /\ Room /\ Refreshable /\ jar \in Access!Token /\ UNCHANGED <<stale, closed>>
  BY DEF AccessInv, Access!TypeOK, Access!DashboardPage
<1>2. PICK r \in Access!Tab, j \in Access!Token :
        /\ r = tab[t] /\ j = jar /\ Need(r, j) \in 0..2 /\ r.hops \in Nat /\ r.excuse \in Nat
        /\ r.hops + Need(r, j) <= 1 + 2 * r.excuse
  BY <1>1, RowOf
<1>3. r.phase = "page" /\ r.path = "dashboard" /\ r.token \in Access!Token
  BY <1>2 DEF Access!DashboardPage, Access!Tab
<1>4. PICK c \in Access!Claims(r.token) :
        /\ accessFaults' = accessFaults + c.lost
        /\ IF c.signed
             THEN /\ tab' = [tab EXCEPT ![t].phase = "reading", ![t].bearer = c.token]
                  /\ UNCHANGED jar
             ELSE Access!Answered(t, Access!Redirected(r, "login", Access!Kept(t), c.lost))
  BY <1>2 DEF Access!DashboardPage
<1>5. /\ c.token \in Access!Token /\ c.signed \in BOOLEAN /\ c.lost \in {0, 1} /\ accessFaults + c.lost \in 0..MaxAccessFaults
      /\ c.lost = 0 => (c.signed <=> Good(r.token))
  BY <1>1, <1>3, ClaimsOf
<1>6. accessFaults' \in 0..MaxAccessFaults
  BY <1>4, <1>5
<1>7. SUFFICES jar' \in Access!Token /\ tab' \in [Tabs -> Access!Tab] /\ Room'
  BY <1>6, AfterStep, CookiesStay DEF Access!DashboardPage
<1>8. CASE c.signed
  <2>1. PICK k \in Access!Token : k = c.token
    BY <1>5
  <2>2. PICK q \in Access!Tab : q = [r EXCEPT !.phase = "reading", !.bearer = k]
    BY DEF Access!Tab
  <2>3. q.phase = "reading" /\ q.hops = r.hops /\ q.excuse = r.excuse
    BY <2>2 DEF Access!Tab
  <2>4. tab' = [tab EXCEPT ![t] = q] /\ jar' = jar
    BY <1>1, <1>2, <1>4, <1>8, <2>1, <2>2 DEF Access!TypeOK, Access!Tab
  <2>5. HasRoom(q, j)'
    BY <1>2, <2>3, IdleFits
  <2>6. HasRoom(q, jar)'
    BY <1>2, <2>4, <2>5
  <2> QED BY <1>1, <2>4, <2>6, OwnRow
<1>9. CASE ~ c.signed
  <2>1. Access!Answered(t, Access!Redirected(tab[t], "login", Access!Kept(t), c.lost))
    BY <1>2, <1>4, <1>9
  <2>2. Access!Kept(t) = JarAfter(tab[t], jar)
    BY <1>1, KeptToken
  <2>3. c.lost = 0 => Need(tab[t], jar) = 1 + Yes(Access!Kept(t))
    BY <1>2, <1>3, <1>5, <1>9, <2>2 DEF Need, NeedAtPage
  <2> QED BY <1>1, <1>5, <2>1, <2>3, SentToLogin
<1> QED BY <1>5, <1>8, <1>9

LEMMA ApiAnswerStep ==
  ASSUME Access!AccessBounds, AccessInv, NEW t \in Tabs, Access!ApiAnswer(t) PROVE AccessInv'
<1>1. Access!TypeOK /\ Room /\ accessFaults' \in 0..MaxAccessFaults /\ UNCHANGED <<stale, closed>>
  BY DEF AccessInv, Access!TypeOK, Access!ApiAnswer
<1>2. PICK r \in Access!Tab : r = tab[t]
  BY <1>1 DEF Access!TypeOK
<1>3. PICK rest \in Access!Tab :
        rest = Access!Rested(r) /\ rest.phase = "idle" /\ rest.hops = 0 /\ rest.excuse = r.excuse
  BY RestedRow
<1>4. PICK at \in {"error", "dashboard"} : at = IF tab[t].bearer \in stale THEN "error" ELSE "dashboard"
  OBVIOUS
<1>5. PICK q \in Access!Tab : q = [rest EXCEPT !.at = at]
  BY DEF Access!Tab
<1>6. q.phase = "idle" /\ q.hops = 0 /\ q.excuse \in Nat
  BY <1>3, <1>5 DEF Access!Tab
<1>7. Access!Answered(t, q)
  BY <1>2, <1>3, <1>4, <1>5 DEF Access!ApiAnswer
<1>8. HasRoom(q, jar)'
  <2>1. jar' \in Access!Token
    BY <1>1, <1>7, KeptToken DEF Access!Answered
  <2>2. PICK k \in Access!Token : k = jar'
    BY <2>1
  <2>3. HasRoom(q, k)'
    BY <1>6, IdleFits
  <2> QED BY <2>2, <2>3
<1>9. jar' \in Access!Token /\ tab' \in [Tabs -> Access!Tab] /\ Room'
  BY <1>1, <1>7, <1>8, AnsweredRows
<1> QED BY <1>1, <1>9, AfterStep, CookiesStay DEF Access!ApiAnswer

LEMMA LoginMountedStep ==
  ASSUME Access!AccessBounds, AccessInv, NEW t \in Tabs, Access!LoginMounted(t) PROVE AccessInv'
<1>1. Access!TypeOK /\ Room /\ Refreshable /\ jar \in Access!Token /\ UNCHANGED <<stale, closed>>
  BY DEF AccessInv, Access!TypeOK, Access!LoginMounted
<1>2. PICK r \in Access!Tab, j \in Access!Token :
        /\ r = tab[t] /\ j = jar /\ Need(r, j) \in 0..2 /\ r.hops \in Nat /\ r.excuse \in Nat
        /\ r.hops + Need(r, j) <= 1 + 2 * r.excuse
  BY <1>1, RowOf
<1>3. Need(r, j) = Yes(j)
  BY <1>2 DEF Access!LoginMounted, Need
<1>4. PICK c \in Access!Claims(j) :
        /\ accessFaults' = accessFaults + c.lost
        /\ jar' = c.token
        /\ tab' = [tab EXCEPT ![t] =
             IF c.signed THEN Access!Redirected(r, "dashboard", c.token, 0)
             ELSE [Access!Rested(r) EXCEPT !.excuse = @ + c.lost]]
  BY <1>2 DEF Access!LoginMounted
<1>5. /\ c.token \in Access!Token /\ c.signed \in BOOLEAN /\ c.lost \in {0, 1} /\ accessFaults + c.lost \in 0..MaxAccessFaults
      /\ c.lost = 0 => /\ c.signed <=> Good(j)
                       /\ Good(c.token) <=> Good(j)
      /\ c.lost = 1 => ~ c.signed /\ c.token = j
  BY <1>1, ClaimsOf
<1>6. accessFaults' \in 0..MaxAccessFaults /\ jar' \in Access!Token
  BY <1>4, <1>5
<1>7. Good(jar') <=> Good(jar)
  BY <1>2, <1>4, <1>5
<1>8. SUFFICES \E q \in Access!Tab : tab' = [tab EXCEPT ![t] = q] /\ HasRoom(q, c.token)'
  <2>1. PICK q \in Access!Tab : tab' = [tab EXCEPT ![t] = q] /\ HasRoom(q, c.token)'
    BY <1>8
  <2>2. HasRoom(q, jar)'
    BY <1>4, <2>1
  <2>3. tab' \in [Tabs -> Access!Tab] /\ Room'
    BY <1>1, <1>6, <1>7, <2>1, <2>2, OwnRow
  <2> QED BY <1>6, <2>3, AfterStep, CookiesStay DEF Access!LoginMounted
<1>9. CASE c.signed
  <2>1. PICK k \in Access!Token : k = c.token
    BY <1>5
  <2>2. "dashboard" \in Paths /\ 0 \in {0, 1}
    BY DEF Paths
  <2>3. PICK q \in Access!Tab : /\ q = Access!Redirected(r, "dashboard", k, 0)
                                /\ q.phase = "proxy" /\ q.path = "dashboard" /\ q.sent = k
                                /\ q.hops <= r.hops + 1 /\ q.excuse = r.excuse + 0
    BY <2>2, RedirectedRow
  <2>4. Good(j) /\ Good(k)
    BY <1>5, <1>9, <2>1
  <2>5. Yes(j) = 1 /\ Yes(k)' = 1
    BY <1>1, <2>4 DEF Yes, Good
  <2>6. Need(q, k)' = 0
    BY <2>3, <2>5, NeedOfRequest
  <2>7. HasRoom(q, k)'
    BY <1>2, <1>3, <2>3, <2>5, <2>6 DEF HasRoom, Access!Tab
  <2>8. tab' = [tab EXCEPT ![t] = q]
    BY <1>2, <1>4, <1>9, <2>1, <2>3
  <2> QED BY <2>1, <2>7, <2>8
<1>10. CASE ~ c.signed
  <2>1. PICK rest \in Access!Tab :
          rest = Access!Rested(r) /\ rest.phase = "idle" /\ rest.hops = 0 /\ rest.excuse = r.excuse
    BY RestedRow
  <2>2. PICK e \in Nat : e = rest.excuse + c.lost
    BY <1>5 DEF Access!Tab
  <2>3. PICK q \in Access!Tab : q = [rest EXCEPT !.excuse = e]
    BY DEF Access!Tab
  <2>4. q.phase = "idle" /\ q.hops = 0 /\ q.excuse \in Nat
    BY <2>1, <2>3 DEF Access!Tab
  <2>5. HasRoom(q, c.token)'
    BY <2>4, IdleFits
  <2>6. [Access!Rested(r) EXCEPT !.excuse = @ + c.lost] = q
    BY <2>1, <2>2, <2>3
  <2>7. tab' = [tab EXCEPT ![t] = [Access!Rested(r) EXCEPT !.excuse = @ + c.lost]]
    BY <1>4, <1>10
  <2>8. tab' = [tab EXCEPT ![t] = q]
    BY <2>6, <2>7
  <2> QED BY <2>5, <2>8
<1> QED BY <1>5, <1>9, <1>10

LEMMA SignInStep ==
  ASSUME Access!AccessBounds, AccessInv, NEW t \in Tabs, Access!SignIn(t) PROVE AccessInv'
<1>1. /\ Access!TypeOK /\ Room /\ Refreshable /\ sessions \in 0..MaxSessions /\ MaxSessions \in Nat
      /\ MaxRefreshes \in Nat /\ sessions < MaxSessions
  BY DEF AccessInv, Access!TypeOK, Access!SignIn, Access!AccessBounds
<1>2. PICK s \in 0..MaxSessions, n \in 0..MaxRefreshes : s = sessions + 1 /\ n = 0
  BY <1>1
<1>3. PICK k \in Access!Token : k = [session |-> s, refreshes |-> n]
  BY DEF Access!Token
<1>4. jar' = k /\ sessions' = s /\ tab' = Access!Told(t, Access!Begun(tab[t], "dashboard", k))
  BY <1>2, <1>3 DEF Access!SignIn
<1>5. PICK r \in Access!Tab : r = tab[t]
  BY <1>1 DEF Access!TypeOK
<1>6. "dashboard" \in Paths
  BY DEF Paths
<1>7. PICK q \in Access!Tab : /\ q = Access!Begun(r, "dashboard", k) /\ q.phase = "proxy" /\ q.sent = k
                              /\ q.hops = 0 /\ q.excuse = 0
  BY <1>6, BegunRow
<1>8. HasRoom(q, jar)'
  BY <1>4, <1>7, BegunFits
<1>9. tab' \in [Tabs -> Access!Tab] /\ Room'
  BY <1>1, <1>4, <1>5, <1>7, <1>8, OwnAndExcused
<1>10. Cookies' /\ Refreshable'
  BY <1>1, <1>4 DEF Access!SignIn, Cookies, Access!TypeOK, Refreshable
<1> QED BY <1>9, <1>10, AfterStep

LEMMA SignOutStep ==
  ASSUME Access!AccessBounds, AccessInv, NEW t \in Tabs, Access!SignOut(t) PROVE AccessInv'
<1>1. /\ Access!TypeOK /\ Room /\ Refreshable /\ jar \in Access!Token
      /\ accessFaults \in 0..MaxAccessFaults /\ MaxAccessFaults \in Nat /\ MaxSessions \in Nat
  BY DEF AccessInv, Access!TypeOK, Access!AccessBounds
<1>2. PICK r \in Access!Tab : r = tab[t]
  BY <1>1 DEF Access!TypeOK
<1>3. "login" \in Paths /\ Access!NoToken \in Access!Token
  BY NoTokenIsOne DEF Paths
<1>4. CASE /\ jar' = Access!NoToken
           /\ closed' = closed \cup ({jar.session} \ {0})
           /\ tab' = Access!Told(t, Access!Begun(tab[t], "login", Access!NoToken))
           /\ UNCHANGED accessFaults
  <2>1. PICK q \in Access!Tab : /\ q = Access!Begun(r, "login", Access!NoToken) /\ q.phase = "proxy" /\ q.sent = Access!NoToken
                                /\ q.hops = 0 /\ q.excuse = 0
    BY <1>3, BegunRow
  <2>2. HasRoom(q, jar)'
    BY <1>3, <1>4, <2>1, BegunFits
  <2>3. tab' \in [Tabs -> Access!Tab] /\ Room'
    BY <1>1, <1>2, <1>3, <1>4, <2>1, <2>2, OwnAndExcused
  <2>4. {jar.session} \ {0} \subseteq 1..MaxSessions
    BY <1>1 DEF Access!Token
  <2>5. Cookies' /\ Refreshable'
    BY <1>1, <1>3, <1>4, <2>4 DEF Access!SignOut, Cookies, Access!TypeOK, Refreshable
  <2> QED BY <2>3, <2>5, AfterStep
<1>5. CASE /\ jar # Access!NoToken /\ accessFaults < MaxAccessFaults
           /\ accessFaults' = accessFaults + 1
           /\ tab' = [tab EXCEPT ![t] = Access!Begun(@, "login", jar)]
           /\ UNCHANGED <<jar, closed>>
  <2>1. PICK k \in Access!Token : k = jar
    BY <1>1
  <2>2. PICK q \in Access!Tab : /\ q = Access!Begun(r, "login", k) /\ q.phase = "proxy" /\ q.sent = k
                                /\ q.hops = 0 /\ q.excuse = 0
    BY <1>3, BegunRow
  <2>3. UNCHANGED <<stale, closed>> /\ jar' = jar
    BY <1>5 DEF Access!SignOut
  <2>4. HasRoom(q, jar)'
    BY <1>1, <2>1, <2>2, <2>3, BegunFits
  <2>5. tab' = [tab EXCEPT ![t] = q]
    BY <1>2, <1>5, <2>1, <2>2
  <2>6. tab' \in [Tabs -> Access!Tab] /\ Room'
    BY <1>1, <2>3, <2>4, <2>5, OwnRow
  <2>7. accessFaults' \in 0..MaxAccessFaults
    BY <1>1, <1>5
  <2> QED BY <1>1, <1>5, <2>6, <2>7, AfterStep, CookiesStay DEF Access!SignOut
<1> QED BY <1>4, <1>5 DEF Access!SignOut

LEMMA ExpireStep ==
  ASSUME Access!AccessBounds, AccessInv, Access!Expire PROVE AccessInv'
<1>1. /\ Access!TypeOK /\ Room /\ Refreshable /\ jar \in Access!Token /\ jar' = jar /\ tab' = Access!Disturbed
      /\ sessions \in 0..MaxSessions /\ MaxSessions \in Nat /\ MaxRefreshes \in Nat
  BY DEF AccessInv, Access!TypeOK, Access!AccessBounds, Access!Expire
<1>2. PICK s \in 1..sessions, n \in 0..(MaxRefreshes - 1) :
        stale' = stale \cup {[session |-> s, refreshes |-> n]}
  BY DEF Access!Expire
<1>3. s \in 0..MaxSessions /\ n \in 0..MaxRefreshes /\ n < MaxRefreshes
  BY <1>1
<1>4. [session |-> s, refreshes |-> n] \in Access!Token
  BY <1>3 DEF Access!Token
<1>5. Cookies' /\ Refreshable'
  BY <1>1, <1>2, <1>3, <1>4 DEF Access!Expire, Cookies, Access!TypeOK, Refreshable
<1>6. tab' \in [Tabs -> Access!Tab] /\ Room'
  BY <1>1, AllExcused
<1> QED BY <1>5, <1>6, AfterStep

LEMMA CloseElsewhereStep ==
  ASSUME Access!AccessBounds, AccessInv, Access!CloseElsewhere PROVE AccessInv'
<1>1. /\ Access!TypeOK /\ Room /\ Refreshable /\ jar \in Access!Token /\ jar' = jar /\ tab' = Access!Disturbed
      /\ sessions \in 0..MaxSessions /\ MaxSessions \in Nat
  BY DEF AccessInv, Access!TypeOK, Access!AccessBounds, Access!CloseElsewhere
<1>2. PICK s \in 1..sessions : closed' = closed \cup {s}
  BY DEF Access!CloseElsewhere
<1>3. Cookies' /\ Refreshable'
  BY <1>1, <1>2 DEF Access!CloseElsewhere, Cookies, Access!TypeOK, Refreshable
<1>4. tab' \in [Tabs -> Access!Tab] /\ Room'
  BY <1>1, AllExcused
<1> QED BY <1>3, <1>4, AfterStep

LEMMA AutoRefreshStep ==
  ASSUME Access!AccessBounds, AccessInv, Access!AutoRefresh PROVE AccessInv'
<1>1. Access!TypeOK /\ Room /\ Refreshable /\ jar \in Access!Token /\ tab' = Access!Disturbed
  BY DEF AccessInv, Access!TypeOK, Access!AutoRefresh
<1>2. PICK j \in Access!Token : j = jar
  BY <1>1
<1>3. PICK c \in Access!Claims(j) : jar' = c.token
  BY <1>2 DEF Access!AutoRefresh
<1>4. jar' \in Access!Token
  BY <1>1, <1>3, ClaimsOf
<1>5. tab' \in [Tabs -> Access!Tab] /\ Room'
  BY <1>1, <1>4, AllExcused
<1>6. accessFaults' \in 0..MaxAccessFaults
  BY <1>1 DEF Access!TypeOK, Access!AutoRefresh
<1> QED BY <1>4, <1>5, <1>6, AfterStep, CookiesStay DEF Access!AutoRefresh

LEMMA NothingHappens == ASSUME AccessInv, UNCHANGED Access!vars PROVE AccessInv'
BY DEF AccessInv, Access!TypeOK, Refreshable, Room, HasRoom, Need, NeedAtProxy, NeedAtPage, Yes,
       JarAfter, Good, Access!vars

LEMMA InitAccess == ASSUME Access!AccessBounds, Access!Init PROVE AccessInv
<1>1. Access!NoToken \in Access!Token
  BY NoTokenIsOne
<1>2. PICK q \in Access!Tab :
        q = [at |-> "outside", phase |-> "idle", path |-> "root", sent |-> Access!NoToken,
             token |-> Access!NoToken, bearer |-> Access!NoToken, hops |-> 0, excuse |-> 0]
  BY <1>1 DEF Access!Tab
<1>3. q.phase = "idle" /\ q.hops = 0 /\ q.excuse = 0
  BY <1>2
<1>4. tab = [t \in Tabs |-> q]
  BY <1>2 DEF Access!Init
<1>5. 0 \in 0..MaxSessions /\ 0 \in 0..MaxAccessFaults
  BY DEF Access!AccessBounds
<1>6. Access!TypeOK
  BY <1>1, <1>4, <1>5 DEF Access!Init, Access!TypeOK
<1>7. Room
  BY <1>3, <1>4 DEF Room, HasRoom, Need
<1>8. Refreshable
  BY DEF Access!Init, Refreshable
<1> QED BY <1>6, <1>7, <1>8 DEF AccessInv

LEMMA NextAccess == ASSUME Access!AccessBounds, AccessInv, [Access!Next]_(Access!vars) PROVE AccessInv'
<1>1. ASSUME NEW t \in Tabs, Access!Step(t) PROVE AccessInv'
  BY <1>1, ProxyStep, HomeStep, LoginPageStep, DashboardPageStep, ApiAnswerStep, LoginMountedStep
     DEF Access!Step
<1>2. ASSUME NEW t \in Tabs, Access!Navigate(t) \/ Access!SignIn(t) \/ Access!SignOut(t)
      PROVE  AccessInv'
  BY <1>2, NavigateStep, SignInStep, SignOutStep
<1>3. CASE Access!Expire \/ Access!CloseElsewhere \/ Access!AutoRefresh
  BY <1>3, ExpireStep, CloseElsewhereStep, AutoRefreshStep
<1>4. CASE UNCHANGED Access!vars
  BY <1>4, NothingHappens
<1> QED BY <1>1, <1>2, <1>3, <1>4 DEF Access!Next

------------------------------------------------------------------------------
(* What holds of the way to the dashboard *)

\* The invariant holds of every behaviour of the browser.
THEOREM AccessAgrees == ASSUME Access!AccessBounds PROVE Access!Spec => []AccessInv
<1>1. Access!Init => AccessInv
  BY InitAccess
<1>2. AccessInv /\ [Access!Next]_(Access!vars) => AccessInv'
  BY NextAccess
<1> QED BY <1>1, <1>2, PTL DEF Access!Spec

\* Cookies, sessions, expired tokens and tabs have their types; above all, no
\* token is refreshed more often than its bound.
THEOREM AccessTypes == ASSUME Access!AccessBounds PROVE Access!Spec => []Access!TypeOK
<1>1. AccessInv => Access!TypeOK
  BY DEF AccessInv
<1> QED BY <1>1, AccessAgrees, PTL

\* A navigation is redirected a second time only after Auth failed to answer, a
\* token expired or the session changed under it, and twice more for each.
THEOREM RedirectsStayCaused == ASSUME Access!AccessBounds PROVE Access!Spec => []Access!RedirectsHaveCause
<1>1. AccessInv => Access!RedirectsHaveCause
  <2>1. ASSUME AccessInv, NEW t \in Tabs PROVE tab[t].hops <= 1 + 2 * tab[t].excuse
    <3>1. Access!TypeOK /\ Room
      BY <2>1 DEF AccessInv
    <3> QED BY <3>1, RowOf
  <2> QED BY <2>1 DEF Access!RedirectsHaveCause
<1> QED BY <1>1, AccessAgrees, PTL
==============================================================================
