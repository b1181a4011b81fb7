------------------------------ MODULE QuoteTools ------------------------------
(***************************************************************************)
(* One outbound quote call: what the carrier says and when its transcript  *)
(* is stored, the agent's record_provider_offer, create_quote and          *)
(* decline_quote_request, the evidence and the command target the process  *)
(* adds to them, and the transactions that serve them, possibly late or    *)
(* twice.                                                                  *)
(*                                                                         *)
(* Data: a price is its maximum, a number; the price cap is Cap.  The      *)
(* request, its round and the mandate are one flag: whether the request    *)
(* may still be answered.  The shipment, the window and the currency of    *)
(* the quotes are fixed and left out, and so is the choice of the winner   *)
(* (module SourcingRound).                                                 *)
(***************************************************************************)
EXTENDS Integers, Sequences, FiniteSets

CONSTANTS Price,      \* prices the carrier may name
          Cap,        \* the mandate's price_cap
          Limit,      \* the request's negotiation_limit
          MaxTurns,   \* bound: utterances of the carrier
          MaxCalls,   \* bound: tool calls of the agent
          MaxTouches, \* bound: updates of the operation by others
          MaxRepeats, \* bound: tool calls the SDK runs again
          MaxNotes,   \* bound: transcripts stored
          MaxLost     \* bound: requests given up

\* Prices are amounts; the others count.
QuoteAssumption ==
  /\ Price \subseteq Nat /\ Cap \in Nat
  /\ Limit \in Nat /\ MaxTurns \in Nat /\ MaxCalls \in Nat

VARIABLES op,         \* the operation's row and whether the request may be answered
          call,       \* the call's row: active, completed (provider_tools_completed_at)
          quotes,     \* the request's quotes, in order of version
          offers,     \* quote.offered events: the prices
          receipts,   \* tool_command_receipts: per tool call, its result
          staging,    \* provider_quote_evidence_staging
          evidence,   \* quote_transcript_evidence: per version, the segment
          spoken,     \* number of utterances
          stored,     \* those whose transcript the process has stored and noted
          latest,     \* latestCallerTranscriptSegmentId
          byCall,     \* evidenceByToolCall
          sess,       \* the agent and the tool session
          asked,      \* per tool call, its command
          again,      \* tool calls the SDK has run more than once
          wire,       \* commands the database has not served
          ticks       \* what the bounds count

db == <<op, call, quotes, offers, receipts, staging, evidence>>
speech == <<spoken, stored, latest>>
vars == <<db, speech, byCall, sess, asked, again, wire, ticks>>

Call == 1..MaxCalls
Nil == 0
Least(a, b) == IF a < b THEN a ELSE b
Last(s) == IF s = <<>> THEN Nil ELSE Len(s)
-----------------------------------------------------------------------------
(* What the agent is shown: get_provider_tool_state *)

\* A rejected price above the cap: one completed attempt
Attempt(q) == q.price > Cap /\ ~q.accepted
Attempts == Cardinality({v \in DOMAIN quotes : Attempt(quotes[v])})
Rejected == quotes # <<>> /\ quotes[Len(quotes)].verdict = "fuera" /\ ~quotes[Len(quotes)].accepted
Finished == call.completed /\ ~Rejected

Profile == CASE Finished -> "terminal"
             [] ~Finished /\ op.open -> "provider_quote"
             [] OTHER -> "provider_unavailable"

\* The command target: what the agent's next command is about
State == [profile |-> Profile, rev |-> op.rev, previous |-> Last(quotes)]
Unknown == [profile |-> "none", rev |-> 0, previous |-> Nil]

Tools(profile) == IF profile = "provider_quote"
                  THEN {"record_provider_offer", "create_quote", "decline_quote_request"} ELSE {}

Init ==
  /\ op = [rev |-> 1, status |-> "sourcing", open |-> TRUE]
  /\ call = [active |-> TRUE, completed |-> FALSE]
  /\ quotes = <<>> /\ offers = <<>>
  /\ receipts = [id \in Call |-> "none"]
  /\ staging = [id \in Call |-> Nil]
  /\ evidence = <<>>
  /\ spoken = 0 /\ stored = {} /\ latest = Nil
  /\ byCall = [id \in Call |-> Nil]
  /\ sess = [pc |-> "refresh", id |-> Nil, view |-> Unknown]
  /\ asked = <<>> /\ again = {} /\ wire = {}
  /\ ticks = [touches |-> 0, lost |-> 0]
-----------------------------------------------------------------------------
(* The carrier speaks; the server stores the transcripts *)

Speak ==
  /\ call.active /\ spoken < MaxTurns
  /\ spoken' = spoken + 1
  /\ UNCHANGED <<db, stored, latest, byCall, sess, asked, again, wire, ticks>>

\* Each transcript has a handler of its own, which stores it and then notes its
\* segment: they end in any order, and one whose write fails never does.
Note(u) ==
  /\ u \notin stored /\ Cardinality(stored) < MaxNotes
  /\ stored' = stored \cup {u}
  /\ latest' = u
  /\ UNCHANGED <<db, spoken, byCall, sess, asked, again, wire, ticks>>
-----------------------------------------------------------------------------
(* The agent calls a tool; the process adds evidence and target *)

\* The agent does not repeat a command for an answer the state already shows
\* as a quote, unless it now reports the carrier's final approval.
Answered(u, accept) ==
  \E v \in 1..sess.view.previous : quotes[v].answer = u /\ (accept => quotes[v].accepted)

Commands ==
  {[name |-> "record_provider_offer", price |-> p, accept |-> FALSE, stopped |-> FALSE] : p \in Price}
  \cup {c \in [name : {"create_quote"}, price : Price, accept : BOOLEAN, stopped : BOOLEAN] :
          c.stopped => c.accept}
  \cup {[name |-> "decline_quote_request", price |-> 0, accept |-> FALSE, stopped |-> FALSE]}

Evidence(id, name) ==
  IF name # "create_quote" THEN Nil
  ELSE IF byCall[id] # Nil THEN byCall[id] ELSE latest

Send(id) == wire' = wire \cup {[id |-> id, target |-> sess.view]}

\* AgentsCallSession.execute up to the first request to the database: the
\* evidence is staged before the command, unless there is none.
Invoke(id, c) ==
  LET s == Evidence(id, c.name) IN
  /\ byCall' = [byCall EXCEPT ![id] = s]
  /\ sess' = [sess EXCEPT !.pc = IF s = Nil THEN "wait" ELSE "stage", !.id = id]
  /\ IF s = Nil THEN Send(id) ELSE UNCHANGED wire

Ask ==
  /\ sess.pc = "idle" /\ spoken > 0 /\ Len(asked) < MaxCalls
  /\ \E c \in Commands :
       /\ c.name \in Tools(sess.view.profile)
       /\ c.name = "create_quote" => ~Answered(spoken, c.accept)
       /\ asked' = Append(asked, [c |-> c, answer |-> spoken])
       /\ Invoke(Len(asked) + 1, c)
  /\ UNCHANGED <<db, speech, again, ticks>>

\* The SDK runs a tool call again.  The tool may be hidden by now: the command
\* goes through all the same, with the evidence of the first run and under the
\* target of the present state.
Repeat ==
  /\ sess.pc = "idle"
  /\ \E id \in DOMAIN asked :
       /\ id \in again \/ Cardinality(again) < MaxRepeats
       /\ again' = again \cup {id}
       /\ Invoke(id, asked[id].c)
  /\ UNCHANGED <<db, speech, asked, ticks>>

\* stage_provider_quote_evidence; a conflict ends the tool call
Stage ==
  /\ sess.pc = "stage"
  /\ IF staging[sess.id] \in {Nil, byCall[sess.id]}
     THEN /\ staging' = [staging EXCEPT ![sess.id] = byCall[sess.id]]
          /\ sess' = [sess EXCEPT !.pc = "wait"]
          /\ Send(sess.id)
     ELSE /\ sess' = [sess EXCEPT !.pc = "refresh"]
          /\ UNCHANGED <<staging, wire>>
  /\ UNCHANGED <<op, call, quotes, offers, receipts, evidence, speech, byCall, asked, again, ticks>>

\* The evidence is staged but its answer is lost: the command is not sent
StageLost ==
  /\ sess.pc = "stage" /\ staging[sess.id] = Nil /\ ticks.lost < MaxLost
  /\ staging' = [staging EXCEPT ![sess.id] = byCall[sess.id]]
  /\ sess' = [sess EXCEPT !.pc = "refresh"]
  /\ ticks' = [ticks EXCEPT !.lost = @ + 1]
  /\ UNCHANGED <<op, call, quotes, offers, receipts, evidence, speech, byCall, asked, again, wire>>

\* The answer does not come; the database may serve the command later
GiveUp ==
  /\ sess.pc \in {"stage", "wait"} /\ ticks.lost < MaxLost
  /\ sess' = [sess EXCEPT !.pc = "refresh"]
  /\ ticks' = [ticks EXCEPT !.lost = @ + 1]
  /\ UNCHANGED <<db, speech, byCall, asked, again, wire>>

\* CallToolSession.refresh after every tool call, and before the first
Refresh ==
  /\ sess.pc = "refresh" /\ call.active
  /\ sess' = [sess EXCEPT !.pc = "idle", !.view = State]
  /\ UNCHANGED <<db, speech, byCall, asked, again, wire, ticks>>

RefreshFails ==
  /\ sess.pc = "refresh"
  /\ ~call.active \/ ticks.lost < MaxLost
  /\ sess' = [sess EXCEPT !.pc = "closed"]
  /\ ticks' = IF call.active THEN [ticks EXCEPT !.lost = @ + 1] ELSE ticks
  /\ UNCHANGED <<db, speech, byCall, asked, again, wire>>
-----------------------------------------------------------------------------
(* The transactions *)

Closed == Finished \/ ~op.open
StaleTerms(target) == target.profile # "provider_quote" \/ target.rev # op.rev
Stale(target) == StaleTerms(target) \/ target.previous # Last(quotes)

Asks(r) == asked[r.id].c
Counted == Least(2, Limit)

\* A price above the cap is accepted only once the attempts are used up, or
\* the carrier stopped the bargaining.
OneTooEarly(c) == c.accept /\ c.price > Cap /\ Attempts + 1 < Counted /\ ~c.stopped
TooEarly(c) == c.accept /\ c.price > Cap /\ Attempts < Counted /\ ~c.stopped

NewVerdict(c) ==
  IF c.price <= Cap THEN "dentro"
  ELSE IF ~c.accept /\ Attempts + 1 < Counted THEN "contraoferta" ELSE "fuera"

\* The quotes that may follow the latest one
Follows(c) ==
  quotes # <<>> =>
    LET last == quotes[Len(quotes)] IN
    /\ last.verdict = "contraoferta" \/ (Rejected /\ (c.accept \/ c.price <= Cap))
    /\ c.price = last.price => \/ c.accept
                               \/ last.verdict = "contraoferta" /\ NewVerdict(c) # "dentro"

NewQuote(r) ==
  LET c == Asks(r)
      known == {i \in DOMAIN offers : offers[i] = c.price}
  IN [price |-> c.price, verdict |-> NewVerdict(c),
      accepted |-> c.accept /\ c.price > Cap, stopped |-> c.stopped /\ c.price > Cap,
      offer |-> IF known = {} THEN Len(offers) + 1 ELSE CHOOSE i \in known : \A j \in known : j <= i,
      id |-> r.id, answer |-> asked[r.id].answer]

\* The command fits the state.  The price revision rules of the quotes table
\* (validate_price_only_quote_revision) roll the whole command back.
Fits(c) == ~Closed /\ ~TooEarly(c) /\ Follows(c)
CanQuoteAnyState(r) == Asks(r).name = "create_quote" /\ Fits(Asks(r)) /\ ~StaleTerms(r.target)
CanQuote(r) == Asks(r).name = "create_quote" /\ Fits(Asks(r)) /\ ~Stale(r.target)
CanDecline(r) ==
  /\ Asks(r).name = "decline_quote_request" /\ ~Closed /\ ~Stale(r.target)
  /\ quotes # <<>> => quotes[Len(quotes)].verdict = "contraoferta" \/ Rejected
CanOffer(r) == Asks(r).name = "record_provider_offer" /\ ~call.completed /\ op.open

\* The trigger on tool_command_receipts binds the staged segment to the quote
Attached(id) == Append(evidence, staging[id])

CreateQuote(r) ==
  /\ CanQuote(r)
  /\ LET q == NewQuote(r)
         final == q.verdict = "dentro" \/ q.accepted
     IN /\ quotes' = Append(quotes, q)
        /\ offers' = IF q.offer > Len(offers) THEN Append(offers, q.price) ELSE offers
        /\ op' = IF final /\ op.status = "sourcing"
                 THEN [op EXCEPT !.status = "quotes_received", !.rev = @ + 1] ELSE op
        /\ call' = [call EXCEPT !.completed = @ \/ final]
        /\ receipts' = [receipts EXCEPT ![r.id] = q.verdict]
        /\ evidence' = Attached(r.id)
  /\ UNCHANGED staging

Decline(r) ==
  /\ CanDecline(r)
  /\ op' = [op EXCEPT !.open = FALSE]
  /\ call' = [call EXCEPT !.completed = TRUE]
  /\ receipts' = [receipts EXCEPT ![r.id] = "declined"]
  /\ UNCHANGED <<quotes, offers, staging, evidence>>

RecordOffer(r) ==
  /\ CanOffer(r)
  /\ offers' = Append(offers, Asks(r).price)
  /\ receipts' = [receipts EXCEPT ![r.id] = "recorded"]
  /\ UNCHANGED <<op, call, quotes, staging, evidence>>

\* The receipt answers a command that committed before
Committed(r) == receipts[r.id] # "none"

Replay(r) == Committed(r) /\ UNCHANGED db
Execute(r) == ~Committed(r) /\ (CreateQuote(r) \/ Decline(r) \/ RecordOffer(r))
Refuse(r) ==
  /\ ~Committed(r) /\ ~CanQuote(r) /\ ~CanDecline(r) /\ ~CanOffer(r)
  /\ UNCHANGED db

Serve(r) ==
  /\ IF call.active THEN Replay(r) \/ Execute(r) \/ Refuse(r) ELSE UNCHANGED db
  /\ wire' = wire \ {r}
  /\ sess' = IF sess.pc = "wait" /\ sess.id = r.id
             THEN [sess EXCEPT !.pc = "refresh"] ELSE sess
  /\ UNCHANGED <<speech, byCall, asked, again, ticks>>
-----------------------------------------------------------------------------
(* The rest of the system *)

\* Another carrier's valid quote, or a correction of the operation
Touch ==
  /\ ticks.touches < MaxTouches
  /\ \/ op.status = "sourcing" /\ op' = [op EXCEPT !.status = "quotes_received", !.rev = @ + 1]
     \/ op' = [op EXCEPT !.rev = @ + 1]
  /\ ticks' = [ticks EXCEPT !.touches = @ + 1]
  /\ UNCHANGED <<call, quotes, offers, receipts, staging, evidence, speech, byCall, sess, asked, again, wire>>

\* The request expires, its round ends or the client changes the operation
Close ==
  /\ op.open
  /\ op' = [op EXCEPT !.open = FALSE, !.rev = @ + 1]
  /\ UNCHANGED <<call, quotes, offers, receipts, staging, evidence, speech, byCall, sess, asked, again, wire, ticks>>

Hangup ==
  /\ call.active
  /\ call' = [call EXCEPT !.active = FALSE]
  /\ UNCHANGED <<op, quotes, offers, receipts, staging, evidence, speech, byCall, sess, asked, again, wire, ticks>>

Next ==
  \/ Speak \/ (\E u \in 1..spoken : Note(u))
  \/ Ask \/ Repeat \/ Stage \/ StageLost \/ GiveUp \/ Refresh \/ RefreshFails
  \/ (\E r \in wire : Serve(r))
  \/ Touch \/ Close \/ Hangup

Spec == Init /\ [][Next]_vars
-----------------------------------------------------------------------------
Slot == 0..MaxCalls
Quote == [price : Price, verdict : {"dentro", "contraoferta", "fuera"}, accepted : BOOLEAN,
          stopped : BOOLEAN, offer : Nat \ {0}, id : Call, answer : 1..MaxTurns]

TypeOK ==
  /\ op \in [rev : Nat, status : {"sourcing", "quotes_received"}, open : BOOLEAN]
  /\ call \in [active : BOOLEAN, completed : BOOLEAN]
  /\ quotes \in Seq(Quote) /\ offers \in Seq(Price)
  /\ receipts \in [Call -> {"none", "dentro", "contraoferta", "fuera", "declined", "recorded"}]
  /\ staging \in [Call -> 0..MaxTurns] /\ byCall \in [Call -> 0..MaxTurns]
  /\ evidence \in Seq(0..MaxTurns) /\ Len(evidence) = Len(quotes)
  /\ spoken \in 0..MaxTurns /\ stored \subseteq 1..spoken /\ latest \in stored \cup {Nil}
  /\ sess.pc \in {"refresh", "idle", "stage", "wait", "closed"} /\ sess.id \in Slot
  /\ \A r \in wire : r.id \in DOMAIN asked

\* A carrier's answer is counted as one attempt, whatever was given up or
\* served late: only a tool call that was run again may count it once more.
AnswerCountedOnce ==
  \A v, w \in DOMAIN quotes :
    v < w /\ Attempt(quotes[v]) /\ Attempt(quotes[w]) /\ quotes[v].answer = quotes[w].answer
      => quotes[w].id \in again

\* A tool call makes at most one quote, however often it is run, and later
\* runs are told the first result.
OneQuotePerToolCall ==
  \A v, w \in DOMAIN quotes : quotes[v].id = quotes[w].id => v = w

\* A quote's evidence is a stored utterance of the carrier: the one the process
\* picked for its own tool call, however often that was run again while the
\* carrier went on talking.
EvidenceIsOwn ==
  \A v \in DOMAIN quotes : evidence[v] # Nil =>
    evidence[v] \in stored /\ evidence[v] = byCall[quotes[v].id]

\* Late, repeated and given-up commands distort neither the count nor the evidence.
QuotesAreSafe == AnswerCountedOnce /\ OneQuotePerToolCall /\ EvidenceIsOwn

\* Above the budget nothing is accepted before two answers of the carrier (or
\* the request's limit, if lower) refused a discount, unless the carrier
\* stopped the bargaining or a tool call was run again.
ExceptionIsEarned ==
  \A v \in DOMAIN quotes :
    quotes[v].accepted /\ ~quotes[v].stopped /\ (\A w \in 1..(v - 1) : quotes[w].id \notin again) =>
      Cardinality({quotes[w].answer : w \in {x \in 1..(v - 1) : Attempt(quotes[x])}}) >= Counted

\* What the project's notes say of replays: a tool call that is run again does
\* not make a quote of an answer that has its quote.
ReplaysDoNotDuplicate ==
  \A v, w \in DOMAIN quotes :
    v < w /\ Attempt(quotes[v]) /\ Attempt(quotes[w]) => quotes[v].answer # quotes[w].answer
=============================================================================
