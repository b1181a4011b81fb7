--------------------------- MODULE Adjudication ---------------------------
(***************************************************************************)
(* How a round of one operation is adjudicated.  The database chooses the  *)
(* candidate among the eligible quotes and describes it in a context; a    *)
(* process shows the context to the judge, a language model that can only  *)
(* ratify it; the review is stored if the context is still the current     *)
(* one, and the booking is made if the context of that moment has been     *)
(* reviewed.  In between carriers quote, revise and decline, operators     *)
(* deactivate them, and the client changes the mandate.                    *)
(*                                                                         *)
(* A context is compared as a whole; the code also compares its md5.  Of   *)
(* the conditions of eligibility the model keeps the round, the latest     *)
(* version, the verdict, the provider's activity and the pickup still to   *)
(* come; equipment, payment term, currency and window are the round's.     *)
(***************************************************************************)
EXTENDS Naturals, Sequences

CONSTANTS Providers,  \* those asked in every round
          Workers,    \* backend processes, each with its polling loop
          Price, Cap, \* prices offered, and the limit of every mandate
          Window,     \* the comparison, five minutes
          Pause,      \* between a judge's failure and the next try, a minute
          Pickup,     \* when the pickup window of the mandate begins
          MaxRounds, MaxTime, MaxRevision, MaxQuotes, MaxFaults, MaxSwitches

ASSUME AdjudicationNumbers ==
  /\ Price \subseteq Nat /\ {Cap, Window, Pause, Pickup} \subseteq Nat
  /\ MaxRounds \in Nat \ {0} /\ {MaxTime, MaxRevision, MaxQuotes, MaxFaults, MaxSwitches} \subseteq Nat

VARIABLES op,       \* the operation
          rounds,   \* its sourcing rounds, the last one being the newest
          request,  \* per round and provider: the status of the request
          quote,    \* per round and provider: the latest version of the quote
          active,   \* providers operators have not deactivated
          reviews,  \* contexts the judge's review was stored for
          bookings, \* bookings made, in order
          worker,   \* per process: where it is in finalize, and its retry memory
          clock, faults, switches,
          failures  \* history: the judge's failures

work == <<op, rounds, request, quote, active, bookings>>
vars == <<work, reviews, worker, clock, faults, switches, failures>>

Time == 0..MaxTime
Never == MaxTime + 1
NoQuote == [verdict |-> "none", price |-> 0, at |-> 0, turn |-> 0, version |-> 0, refused |-> 0]
NoContext == [round |-> 0]
Waiting == {"queued", "contacted", "responded"}
Ended == {"none", "cancelled", "expired"}
Last == Len(rounds)

NewRound(m) == [mandate |-> m, status |-> "active", dispatched |-> Never, received |-> 0]
Idle(r) == [r EXCEPT !.pc = "idle", !.ctx = NoContext]

Init ==
  /\ op = [status |-> "sourcing", pending |-> FALSE, mandate |-> 1, revision |-> 1]
  /\ rounds = <<NewRound(1)>>
  /\ request = <<[p \in Providers |-> "queued"]>>
  /\ quote = <<[p \in Providers |-> NoQuote]>>
  /\ active = Providers
  /\ reviews = {} /\ bookings = <<>> /\ failures = {}
  /\ worker = [w \in Workers |-> [pc |-> "idle", ctx |-> NoContext,
                                  retry |-> [ctx |-> NoContext, until |-> 0]]]
  /\ clock = 0 /\ faults = 0 /\ switches = 0

----------------------------------------------------------------------------
(* The candidate.                                                          *)

Deadline(r) == rounds[r].dispatched + Window
Late(r, p) == quote[r][p].at > Deadline(r)

\* A counteroffer is an answer but not a finished negotiation.
StillOpen(r) == \E p \in Providers :
  request[r][p] \in Waiting /\ quote[r][p].verdict \in {"none", "contraoferta"}

Eligible(r) == {p \in active : /\ request[r][p] = "responded"
                               /\ quote[r][p].verdict \in {"dentro", "accepted"}
                               /\ clock < Pickup}

\* Within the comparison the lowest price, then reception; a late quote comes
\* after those, in the order of reception.
When(r, p) == IF Late(r, p) THEN quote[r][p].turn ELSE 0
Before(r, p, q) ==
  \/ When(r, p) < When(r, q)
  \/ /\ When(r, p) = When(r, q)
     /\ \/ quote[r][p].price < quote[r][q].price
        \/ quote[r][p].price = quote[r][q].price /\ quote[r][p].turn <= quote[r][q].turn
Winner(r) == CHOOSE p \in Eligible(r) : \A q \in Eligible(r) : Before(r, p, q)

\* A mistake: every round of the current mandate.
AdjudicableByMandate(r) == rounds[r].mandate = op.mandate /\ ~ op.pending
Adjudicable(r) == /\ op.status \in {"sourcing", "quotes_received"}
                  /\ ~ op.pending
                  /\ rounds[r].mandate = op.mandate /\ rounds[r].status = "active"
Ready(r) == /\ Adjudicable(r)
            /\ rounds[r].dispatched # Never
            /\ StillOpen(r) => clock >= Deadline(r)
            /\ Eligible(r) # {}

\* prepare_sourcing_review
Context(r) == [round |-> r, revision |-> op.revision, mandate |-> op.mandate,
               winner |-> Winner(r), late |-> Late(r, Winner(r)),
               quotes |-> {<<p, quote[r][p]>> : p \in Eligible(r)}]
Prepared == IF Ready(Last) THEN Context(Last) ELSE NoContext

----------------------------------------------------------------------------
(* The carriers, the operators and the client.                             *)

\* The first call of the round is dispatched.
Dispatch ==
  /\ rounds[Last].status = "active" /\ rounds[Last].dispatched = Never
  /\ clock + Window <= MaxTime
  /\ rounds' = [rounds EXCEPT ![Last].dispatched = clock]
  /\ UNCHANGED <<op, request, quote, active, bookings, reviews, worker, clock, faults, switches, failures>>

\* create_quote: only the price is negotiated, and the operation's lock puts the
\* quotes of a round in the order of their reception.  A price above the limit is answered
\* with a counteroffer once, afterwards it stands as refused until it is accepted
\* as it is, or lowered; whoever accepts it at once has stopped the negotiation.
CreateQuote(p, price, accept) ==
  LET r == Last  old == quote[r][p]
      verdict == IF price <= Cap THEN "dentro" ELSE IF accept THEN "accepted"
                 ELSE IF old.refused = 0 THEN "contraoferta" ELSE "fuera"
  IN /\ Adjudicable(r) /\ rounds[r].dispatched # Never /\ p \in active
     /\ request[r][p] \in Waiting /\ old.version < MaxQuotes
     /\ \/ old.verdict \in {"none", "contraoferta"}
        \/ old.verdict = "fuera" /\ verdict \in {"dentro", "accepted"}
     /\ quote' = [quote EXCEPT ![r][p] =
          [verdict |-> verdict, price |-> price, at |-> clock, turn |-> rounds[r].received + 1,
           version |-> old.version + 1,
           refused |-> old.refused + IF verdict \in {"contraoferta", "fuera"} THEN 1 ELSE 0]]
     /\ rounds' = [rounds EXCEPT ![r].received = @ + 1]
     /\ request' = [request EXCEPT ![r][p] = "responded"]
     /\ op' = IF verdict \in {"dentro", "accepted"} /\ op.status = "sourcing"
                THEN [op EXCEPT !.status = "quotes_received", !.revision = @ + 1] ELSE op
     /\ UNCHANGED <<active, bookings, reviews, worker, clock, faults, switches, failures>>

\* decline_quote_request, and the expiry of a request nobody works on any more.
EndRequest(p) ==
  /\ Adjudicable(Last) /\ rounds[Last].dispatched # Never
  /\ request[Last][p] \in Waiting
  /\ \/ /\ quote[Last][p].verdict \in {"none", "contraoferta", "fuera"} /\ p \in active
        /\ request' = [request EXCEPT ![Last][p] = "cancelled"]
     \/ /\ quote[Last][p].verdict = "none"
        /\ request' = [request EXCEPT ![Last][p] = "expired"]
  /\ UNCHANGED <<op, rounds, quote, active, bookings, reviews, worker, clock, faults, switches, failures>>

\* The directory.
SwitchProvider(p) ==
  /\ switches < MaxSwitches /\ switches' = switches + 1
  /\ active' = IF p \in active THEN active \ {p} ELSE active \cup {p}
  /\ UNCHANGED <<op, rounds, request, quote, bookings, reviews, worker, clock, faults, failures>>

\* The client changes a detail: the round is withdrawn until the mandate is confirmed.
\* (Changes to an operation that is already booked are in SourcingRound.)
ChangeDetails ==
  /\ Adjudicable(Last) /\ op.revision < MaxRevision
  /\ op' = [op EXCEPT !.pending = TRUE, !.revision = @ + 1]
  /\ rounds' = [rounds EXCEPT ![Last].status = "superseded"]
  /\ request' = [request EXCEPT ![Last] = [p \in Providers |->
                   IF @[p] \in Waiting THEN "cancelled" ELSE @[p]]]
  /\ UNCHANGED <<quote, active, bookings, reviews, worker, clock, faults, switches, failures>>

Opened(m, who) ==
  /\ Last < MaxRounds
  /\ rounds' = Append(rounds, NewRound(m))
  /\ request' = Append(request, [p \in Providers |-> IF p \in who THEN "queued" ELSE "none"])
  /\ quote' = Append(quote, [p \in Providers |-> NoQuote])

ConfirmMandate ==
  /\ op.pending /\ Opened(op.mandate + 1, active)
  /\ op' = [op EXCEPT !.pending = FALSE, !.status = "sourcing",
                      !.mandate = @ + 1, !.revision = @ + 1]
  /\ UNCHANGED <<active, bookings, reviews, worker, clock, faults, switches, failures>>

\* The carrier cancels its booking, and the others are asked again.
CancelBooking ==
  /\ op.status = "booking_confirmed"
  /\ Opened(op.mandate, active \ {bookings[Len(bookings)].provider})
  /\ op' = [op EXCEPT !.status = "sourcing", !.revision = @ + 1]
  /\ UNCHANGED <<active, bookings, reviews, worker, clock, faults, switches, failures>>

Tick == /\ clock < MaxTime /\ clock' = clock + 1
        /\ UNCHANGED <<work, reviews, worker, faults, switches, failures>>

----------------------------------------------------------------------------
(* SourcingReviewService.finalize, one request to the database at a time.  *)

Prepare(w) ==
  /\ worker[w].pc = "idle" /\ Prepared # NoContext
  /\ worker' = [worker EXCEPT ![w].pc = "lookup", ![w].ctx = Prepared]
  /\ UNCHANGED <<work, reviews, clock, faults, switches, failures>>

Paused(w) == worker[w].retry.ctx = worker[w].ctx /\ worker[w].retry.until > clock

Lookup(w) ==
  /\ worker[w].pc = "lookup"
  /\ worker' = [worker EXCEPT ![w] =
       IF worker[w].ctx \in reviews THEN [@ EXCEPT !.pc = "finalize"]
       ELSE IF Paused(w) THEN Idle(@)
       ELSE [@ EXCEPT !.pc = "judging"]]
  /\ UNCHANGED <<work, reviews, clock, faults, switches, failures>>

\* The judge returns the candidate's id and nothing else.
Ratified(w) ==
  /\ worker[w].pc = "judging"
  /\ worker' = [worker EXCEPT ![w].pc = "record",
                              ![w].retry = [ctx |-> NoContext, until |-> 0]]
  /\ UNCHANGED <<work, reviews, clock, faults, switches, failures>>

\* No answer within twenty seconds, no valid answer, or the id of something else.
JudgeFails(w) ==
  /\ worker[w].pc = "judging"
  /\ faults < MaxFaults /\ faults' = faults + 1
  /\ clock + Pause <= MaxTime
  /\ worker' = [worker EXCEPT ![w] =
       [Idle(@) EXCEPT !.retry = [ctx |-> worker[w].ctx, until |-> clock + Pause]]]
  /\ failures' = failures \cup {[worker |-> w, ctx |-> worker[w].ctx, at |-> clock]}
  /\ UNCHANGED <<work, reviews, clock, switches>>

\* record_sourcing_review
Record(w) ==
  /\ worker[w].pc = "record"
  /\ IF Prepared = worker[w].ctx
       THEN /\ reviews' = reviews \cup {worker[w].ctx}
            /\ worker' = [worker EXCEPT ![w].pc = "finalize"]
       ELSE /\ worker' = [worker EXCEPT ![w] = Idle(@)]
            /\ UNCHANGED reviews
  /\ UNCHANGED <<work, clock, faults, switches, failures>>

Award(ctx) ==
  /\ bookings' = Append(bookings, [round |-> ctx.round, provider |-> ctx.winner])
  /\ op' = [op EXCEPT !.status = "booking_confirmed", !.revision = @ + 1]
  /\ rounds' = [rounds EXCEPT ![ctx.round].status = "selected"]
  /\ request' = [request EXCEPT ![ctx.round] = [p \in Providers |->
       IF p # ctx.winner /\ @[p] \in Waiting THEN "cancelled" ELSE @[p]]]

\* A mistake: the context that was reviewed, instead of the one of this moment.
FinalizeReviewed(w) ==
  /\ worker[w].pc = "finalize"
  /\ worker' = [worker EXCEPT ![w] = Idle(@)]
  /\ IF Prepared # NoContext /\ worker[w].ctx \in reviews
       THEN Award(worker[w].ctx)
       ELSE UNCHANGED <<op, rounds, request, bookings>>
  /\ UNCHANGED <<quote, active, reviews, clock, faults, switches, failures>>

\* finalize_operation_sourcing
Finalize(w) ==
  /\ worker[w].pc = "finalize"
  /\ worker' = [worker EXCEPT ![w] = Idle(@)]
  /\ IF Prepared # NoContext /\ Prepared \in reviews
       THEN Award(Prepared)
       ELSE UNCHANGED <<op, rounds, request, bookings>>
  /\ UNCHANGED <<quote, active, reviews, clock, faults, switches, failures>>

\* A request to the database fails, before or after it took effect; the process is restarted.
Abandon(w) ==
  /\ worker[w].pc # "idle"
  /\ faults < MaxFaults /\ faults' = faults + 1
  /\ worker' = [worker EXCEPT ![w] = Idle(@)]
  /\ UNCHANGED <<work, reviews, clock, switches, failures>>
Restart(w) ==
  /\ faults < MaxFaults /\ faults' = faults + 1
  /\ worker' = [worker EXCEPT ![w] = [Idle(@) EXCEPT !.retry = [ctx |-> NoContext, until |-> 0]]]
  /\ failures' = {f \in failures : f.worker # w}
  /\ UNCHANGED <<work, reviews, clock, switches>>

Advance(w) == Prepare(w) \/ Lookup(w) \/ Ratified(w) \/ Record(w) \/ Finalize(w)

Next == \/ Dispatch \/ ChangeDetails \/ ConfirmMandate \/ CancelBooking \/ Tick
        \/ \E p \in Providers : \/ EndRequest(p) \/ SwitchProvider(p)
                                \/ \E price \in Price, accept \in BOOLEAN : CreateQuote(p, price, accept)
        \/ \E w \in Workers : Advance(w) \/ JudgeFails(w) \/ Abandon(w) \/ Restart(w)

\* The loop polls every five seconds, the judge answers or fails, time passes.
Spec == /\ Init /\ [][Next]_vars
        /\ WF_vars(Tick) /\ \A w \in Workers : WF_vars(Advance(w))
------------------------------------------------------------------------------
\* Properties

OpRow == [status : {"sourcing", "quotes_received", "booking_confirmed"}, pending : BOOLEAN,
          mandate : 1..MaxRounds, revision : Nat]
RoundRow == [mandate : 1..MaxRounds, status : {"active", "selected", "superseded"},
             dispatched : Time \cup {Never}, received : Nat]
QuoteRow == [verdict : {"none", "dentro", "accepted", "contraoferta", "fuera"}, price : Price \cup {0},
             at : Time, turn : Nat, version : 0..MaxQuotes, refused : Nat]
ContextRow == [round : Nat, revision : Nat, mandate : Nat, winner : Providers, late : BOOLEAN,
               quotes : SUBSET (Providers \X QuoteRow)] \cup {NoContext}
WorkerState == [pc : {"idle", "lookup", "judging", "record", "finalize"}, ctx : ContextRow,
                retry : [ctx : ContextRow, until : Nat]]

TypeOK ==
  /\ op \in OpRow /\ active \subseteq Providers
  /\ rounds \in Seq(RoundRow) /\ Len(rounds) \in 1..MaxRounds
  /\ request \in Seq([Providers -> Waiting \cup Ended]) /\ Len(request) = Len(rounds)
  /\ quote \in Seq([Providers -> QuoteRow]) /\ Len(quote) = Len(rounds)
  /\ bookings \in Seq([round : Nat, provider : Providers])
  /\ reviews \subseteq ContextRow /\ worker \in [Workers -> WorkerState]
  /\ failures \subseteq [worker : Workers, ctx : ContextRow, at : Time]
  /\ clock \in Time /\ faults \in 0..MaxFaults /\ switches \in 0..MaxSwitches

InTime(r) == {p \in Eligible(r) : quote[r][p].at <= Deadline(r)}

\* At the moment of the booking, and not of the review, the winner is eligible; of
\* the quotes received within the comparison none is cheaper, and a late one wins
\* only where there is none of those, and as the first; and nobody who is still
\* negotiating is cut off before the comparison ends (finalize_operation_sourcing
\* and docs/bidding-minimal.md, "Cuándo cerrar").
AwardIsBest ==
  [][Len(bookings') > Len(bookings) =>
       LET b == bookings'[Len(bookings')]  r == Last IN
       /\ b.round = r /\ b.provider \in Eligible(r)
       /\ \A p \in InTime(r) : /\ b.provider \in InTime(r)
                               /\ quote[r][b.provider].price <= quote[r][p].price
       /\ InTime(r) = {} => \A p \in Eligible(r) : quote[r][b.provider].turn <= quote[r][p].turn
       /\ clock < Deadline(r) => \A p \in Providers : request[r][p] \in Waiting =>
            quote[r][p].verdict \notin {"none", "contraoferta"}]_vars

\* However many processes finalize and however often the booking is cancelled, a
\* round is awarded once, and never after it was withdrawn.
OneAwardPerRound ==
  /\ \A i, j \in DOMAIN bookings : i # j => bookings[i].round # bookings[j].round
  /\ \A i \in DOMAIN bookings : rounds[bookings[i].round].status = "selected"

\* Once the comparison is over nothing a carrier does displaces the candidate, so
\* the judge reviews a candidate that stays: only its own loss, or the return of a
\* provider an operator had deactivated, changes it.
CandidateStays ==
  [][\A p \in Providers :
       LET r == Last IN
       /\ Ready(r) /\ clock > Deadline(r) /\ Winner(r) = p
       /\ Last' = r /\ Ready(r)' /\ p \in Eligible(r)' /\ quote'[r][p] = quote[r][p]
       /\ active' \subseteq active
       => Winner(r)' = p]_vars

\* The best of what was offered wins, and the candidate under review is it.
AwardIsFair == AwardIsBest /\ CandidateStays
=============================================================================
