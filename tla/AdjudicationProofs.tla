------------------------- MODULE AdjudicationProofs -------------------------
(***************************************************************************)
(* The award of a round, for any number of providers, processes, rounds    *)
(* and prices: a round is awarded once, to the best quote of the moment,   *)
(* and the candidate under review stays once the comparison is over.  At   *)
(* the end, as Seed!, the script of the demonstration, for any fixtures.   *)
(***************************************************************************)
EXTENDS Adjudication, FiniteSetTheorems, WellFoundedInduction, TLAPS

\* Only the newest round can be active, and then the operation is being sourced
\* under its mandate: whatever withdraws the operation withdraws the round.
ActiveIsLast ==
  /\ \A r \in DOMAIN rounds : rounds[r].status = "active" =>
       /\ r = Last /\ op.status \in {"sourcing", "quotes_received"} /\ ~ op.pending
  /\ op.status = "booking_confirmed" => ~ op.pending
  /\ op.mandate <= Last

\* The quotes of a round are numbered as they came: a number is given once.
QuotesInOrder ==
  \A r \in DOMAIN rounds :
    /\ \A p \in Providers : /\ quote[r][p].turn <= rounds[r].received
                            /\ quote[r][p].verdict # "none" => quote[r][p].turn > 0
    /\ \A p, q \in Providers :
         quote[r][p].turn = quote[r][q].turn /\ quote[r][p].turn > 0 => p = q

BookingsInRounds == \A i \in DOMAIN bookings : bookings[i].round \in DOMAIN rounds

AwardInv == TypeOK /\ ActiveIsLast /\ QuotesInOrder /\ BookingsInRounds /\ OneAwardPerRound

------------------------------------------------------------------------------
LEMMA Numbers ==
  /\ Price \subseteq Nat /\ Cap \in Nat /\ Window \in Nat /\ Pause \in Nat /\ Pickup \in Nat
  /\ MaxRounds \in Nat \ {0} /\ MaxTime \in Nat /\ MaxRevision \in Nat /\ MaxQuotes \in Nat
  /\ MaxFaults \in Nat /\ MaxSwitches \in Nat /\ Never \in Nat /\ Time \subseteq Nat
BY AdjudicationNumbers DEF Never, Time

LEMMA Least ==
  ASSUME NEW N \in SUBSET Nat, N # {} PROVE \E x \in N : \A y \in N : x <= y
<1>1. PICK x \in N : \A y \in N : ~ (<<y, x>> \in OpToRel(<, Nat))
  BY NatLessThanWellFounded, WFMin
<1>2. ASSUME NEW y \in N PROVE x <= y
  <2>1. ~ (y < x)
    BY <1>1 DEF OpToRel
  <2> QED
    BY <2>1
<1> QED
  BY <1>2

\* Of anything counted there is one that counts least.
LEMMA LeastOf ==
  ASSUME NEW T, T # {}, NEW f \in [T -> Nat] PROVE \E x \in T : \A y \in T : f[x] <= f[y]
<1> DEFINE N == {f[x] : x \in T}
<1>1. N \in SUBSET Nat /\ N # {}
  OBVIOUS
<1> HIDE DEF N
<1>2. PICK n \in N : \A m \in N : n <= m
  BY <1>1, Least
<1> USE DEF N
<1> QED
  BY <1>2

LEMMA SeqSet ==
  ASSUME NEW S, NEW s \in Seq(S), NEW i \in DOMAIN s, NEW e \in S
  PROVE  /\ [s EXCEPT ![i] = e] \in Seq(S) /\ Len([s EXCEPT ![i] = e]) = Len(s)
         /\ DOMAIN [s EXCEPT ![i] = e] = DOMAIN s /\ [s EXCEPT ![i] = e][i] = e
         /\ \A j \in DOMAIN s : j # i => [s EXCEPT ![i] = e][j] = s[j]
<1>1. s \in [1 .. Len(s) -> S] /\ Len(s) \in Nat
  OBVIOUS
<1> DEFINE t == [s EXCEPT ![i] = e]
<1>2. t \in [1 .. Len(s) -> S]
  BY <1>1
<1>3. t \in Seq(S) /\ Len(t) = Len(s)
  BY <1>1, <1>2
<1> QED
  BY <1>1, <1>3

LEMMA SeqGrow ==
  ASSUME NEW S, NEW s \in Seq(S), NEW e \in S
  PROVE  /\ Append(s, e) \in Seq(S) /\ Len(Append(s, e)) = Len(s) + 1 /\ Len(s) \in Nat
         /\ DOMAIN s = 1 .. Len(s) /\ DOMAIN Append(s, e) = 1 .. Len(s) + 1
         /\ Append(s, e)[Len(s) + 1] = e /\ \A j \in DOMAIN s : Append(s, e)[j] = s[j]
OBVIOUS

------------------------------------------------------------------------------
(* What the tables hold                                                      *)

LEMMA Tables ==
  ASSUME TypeOK
  PROVE  /\ Last \in Nat \ {0} /\ Last <= MaxRounds /\ Last \in DOMAIN rounds
         /\ DOMAIN rounds = 1 .. Last /\ DOMAIN request = 1 .. Last /\ DOMAIN quote = 1 .. Last
         /\ \A r \in DOMAIN rounds :
              /\ rounds[r] \in RoundRow
              /\ request[r] \in [Providers -> Waiting \cup Ended]
              /\ quote[r] \in [Providers -> QuoteRow]
BY Numbers DEF TypeOK, Last

LEMMA QuoteFields ==
  ASSUME TypeOK, NEW r \in DOMAIN rounds, NEW p \in Providers
  PROVE  /\ quote[r][p] \in QuoteRow /\ quote[r][p].price \in Nat /\ quote[r][p].at \in Nat
         /\ quote[r][p].turn \in Nat /\ quote[r][p].version \in Nat /\ quote[r][p].refused \in Nat
         /\ rounds[r].received \in Nat /\ rounds[r].dispatched \in Nat /\ Deadline(r) \in Nat
         /\ Late(r, p) \in BOOLEAN /\ When(r, p) \in Nat
<1>1. quote[r][p] \in QuoteRow /\ rounds[r] \in RoundRow
  BY Tables
<1>2. /\ quote[r][p].price \in Nat /\ quote[r][p].at \in Nat /\ quote[r][p].turn \in Nat
      /\ quote[r][p].version \in Nat /\ quote[r][p].refused \in Nat
  <2>1. /\ quote[r][p].price \in Price \cup {0} /\ quote[r][p].at \in Time /\ quote[r][p].turn \in Nat
        /\ quote[r][p].version \in 0..MaxQuotes /\ quote[r][p].refused \in Nat
    BY <1>1 DEF QuoteRow
  <2>2. quote[r][p].price \in Nat
    <3>1. Price \cup {0} \subseteq Nat
      BY Numbers
    <3> QED
      BY <2>1, <3>1
  <2>3. quote[r][p].at \in Nat
    BY <2>1, Numbers
  <2>4. quote[r][p].version \in Nat
    BY <2>1, Numbers
  <2> QED
    BY <2>1, <2>2, <2>3, <2>4
<1>3. rounds[r].received \in Nat /\ rounds[r].dispatched \in Nat
  BY <1>1, Numbers DEF RoundRow
<1>4. Deadline(r) \in Nat
  BY <1>3, Numbers DEF Deadline
<1> QED
  BY <1>1, <1>2, <1>3, <1>4 DEF Late, When

\* There is a winner where there is a candidate: in the order of Before one comes first.
LEMMA WinnerIsFirst ==
  ASSUME TypeOK, NEW r \in DOMAIN rounds, Eligible(r) # {}
  PROVE  Winner(r) \in Eligible(r) /\ \A q \in Eligible(r) : Before(r, Winner(r), q)
<1>0. Eligible(r) \subseteq Providers
  BY DEF Eligible, TypeOK
<1> DEFINE A == Eligible(r)
           when == [p \in A |-> When(r, p)]
<1>1. PICK a \in A : \A q \in A : when[a] <= when[q]
  <2>1. when \in [A -> Nat]
    BY <1>0, QuoteFields
  <2> HIDE DEF when, A
  <2> QED
    BY <2>1, LeastOf DEF A
<1> DEFINE B == {p \in A : When(r, p) = When(r, a)}
           price == [p \in B |-> quote[r][p].price]
<1>2. PICK b \in B : \A q \in B : price[b] <= price[q]
  <2>1. price \in [B -> Nat] /\ a \in B
    BY <1>0, QuoteFields
  <2> HIDE DEF price, B
  <2> QED
    BY <2>1, LeastOf
<1> DEFINE C == {p \in B : quote[r][p].price = quote[r][b].price}
           turn == [p \in C |-> quote[r][p].turn]
<1>3. PICK c \in C : \A q \in C : turn[c] <= turn[q]
  <2>1. turn \in [C -> Nat] /\ b \in C
    BY <1>0, QuoteFields
  <2> HIDE DEF turn, C
  <2> QED
    BY <2>1, LeastOf
<1>4. ASSUME NEW q \in A PROVE Before(r, c, q)
  <2>0. /\ When(r, q) \in Nat /\ When(r, c) \in Nat /\ quote[r][q].price \in Nat /\ quote[r][c].price \in Nat
        /\ quote[r][q].turn \in Nat /\ quote[r][c].turn \in Nat
    BY <1>0, QuoteFields
  <2>1. When(r, c) <= When(r, q)
    BY <1>1, <1>3
  <2>2. CASE When(r, c) = When(r, q)
    <3>1. quote[r][c].price <= quote[r][q].price
      BY <1>2, <1>3, <2>2
    <3>2. quote[r][c].price = quote[r][q].price => quote[r][c].turn <= quote[r][q].turn
      BY <1>3, <2>2
    <3> QED
      BY <2>0, <2>2, <3>1, <3>2 DEF Before
  <2> QED
    BY <2>0, <2>1, <2>2 DEF Before
<1> HIDE DEF A
<1>5. \E p \in Eligible(r) : \A q \in Eligible(r) : Before(r, p, q)
  BY <1>4 DEF A
<1> QED
  BY <1>5 DEF Winner

\* What is prepared is the candidate of the newest round, or nothing.
LEMMA PreparedIsTheWinner ==
  ASSUME TypeOK, Prepared # NoContext
  PROVE  /\ Ready(Last) /\ Prepared = Context(Last) /\ Prepared.round = Last
         /\ Prepared.winner = Winner(Last) /\ Winner(Last) \in Eligible(Last)
         /\ Winner(Last) \in Providers
         /\ \A q \in Eligible(Last) : Before(Last, Winner(Last), q)
<1>1. Ready(Last) /\ Prepared = Context(Last)
  BY DEF Prepared
<1>2. Eligible(Last) # {} /\ Last \in DOMAIN rounds
  BY <1>1, Tables DEF Ready
<1> QED
  BY <1>1, <1>2, WinnerIsFirst DEF Context, Eligible, TypeOK

------------------------------------------------------------------------------
(* Every state is well-typed                                                 *)

LEMMA TypeInit == Init => TypeOK
<1> SUFFICES ASSUME Init PROVE TypeOK
  OBVIOUS
<1>1. op \in OpRow
  BY Numbers DEF Init, OpRow
<1>2. NewRound(1) \in RoundRow
  BY Numbers DEF NewRound, RoundRow
<1>3. NoQuote \in QuoteRow
  BY Numbers DEF NoQuote, QuoteRow, Time
<1>4. [p \in Providers |-> NoQuote] \in [Providers -> QuoteRow]
  BY <1>3
<1>5. [p \in Providers |-> "queued"] \in [Providers -> Waiting \cup Ended]
  BY DEF Waiting
<1>6. worker \in [Workers -> WorkerState]
  <2>1. NoContext \in ContextRow
    BY DEF ContextRow
  <2>2. [pc |-> "idle", ctx |-> NoContext, retry |-> [ctx |-> NoContext, until |-> 0]] \in WorkerState
    BY <2>1 DEF WorkerState
  <2> QED
    BY <2>2 DEF Init
<1>7. /\ rounds = <<NewRound(1)>> /\ quote = <<[p \in Providers |-> NoQuote]>>
      /\ request = <<[p \in Providers |-> "queued"]>>
  BY DEF Init
<1>8. rounds \in Seq(RoundRow) /\ Len(rounds) = 1
  BY <1>2, <1>7
<1>9. quote \in Seq([Providers -> QuoteRow]) /\ Len(quote) = 1
  BY <1>4, <1>7
<1>10. request \in Seq([Providers -> Waiting \cup Ended]) /\ Len(request) = 1
  BY <1>5, <1>7
<1>11. /\ active = Providers /\ reviews = {} /\ bookings = <<>> /\ failures = {}
       /\ clock = 0 /\ faults = 0 /\ switches = 0
  BY DEF Init
<1>12. clock \in Time /\ faults \in 0..MaxFaults /\ switches \in 0..MaxSwitches /\ 1 \in 1..MaxRounds
  BY <1>11, Numbers DEF Time
<1> QED
  BY <1>1, <1>6, <1>8, <1>9, <1>10, <1>11, <1>12 DEF TypeOK

\* What is prepared is a context.
LEMMA PreparedType == ASSUME TypeOK PROVE Prepared \in ContextRow
<1>1. CASE Prepared = NoContext
  BY <1>1 DEF ContextRow
<1>2. CASE Prepared # NoContext
  <2> DEFINE quotes == {<<p, quote[Last][p]>> : p \in Eligible(Last)}
             late == Late(Last, Winner(Last))
  <2>1. /\ Prepared = Context(Last) /\ Winner(Last) \in Providers /\ Last \in DOMAIN rounds /\ Last \in Nat
        /\ Eligible(Last) \subseteq Providers
    BY <1>2, PreparedIsTheWinner, Tables DEF Eligible, TypeOK
  <2>2. quotes \in SUBSET (Providers \X QuoteRow)
    BY <2>1, QuoteFields
  <2>3. late \in BOOLEAN
    BY <2>1, QuoteFields
  <2>4. op.revision \in Nat /\ op.mandate \in Nat
    BY Numbers DEF TypeOK, OpRow
  <2>5. Context(Last) = [round |-> Last, revision |-> op.revision, mandate |-> op.mandate,
                         winner |-> Winner(Last), late |-> late, quotes |-> quotes]
    BY DEF Context
  <2> HIDE DEF quotes, late
  <2>6. [round |-> Last, revision |-> op.revision, mandate |-> op.mandate,
         winner |-> Winner(Last), late |-> late, quotes |-> quotes] \in ContextRow
    BY <2>1, <2>2, <2>3, <2>4 DEF ContextRow
  <2> QED
    BY <2>1, <2>5, <2>6
<1> QED
  BY <1>1, <1>2

LEMMA WorkerNext ==
  ASSUME TypeOK, Next PROVE worker' \in [Workers -> WorkerState]
<1>0. worker \in [Workers -> WorkerState] /\ NoContext \in ContextRow /\ Prepared \in ContextRow
  BY PreparedType DEF TypeOK, ContextRow
<1>1. ASSUME NEW w \in Workers, NEW e \in WorkerState, worker' = [worker EXCEPT ![w] = e]
      PROVE  worker' \in [Workers -> WorkerState]
  BY <1>0, <1>1
<1>2. ASSUME NEW w \in Workers, Advance(w) \/ JudgeFails(w) \/ Abandon(w) \/ Restart(w)
      PROVE  \E e \in WorkerState : worker' = [worker EXCEPT ![w] = e]
  <2> DEFINE me == worker[w]
  <2>0. /\ me \in WorkerState /\ me.ctx \in ContextRow
        /\ [ctx |-> NoContext, until |-> 0] \in [ctx : ContextRow, until : Nat]
    BY <1>0 DEF WorkerState
  <2>1. \A label \in {"record", "finalize", "judging"} : [me EXCEPT !.pc = label] \in WorkerState
    BY <2>0 DEF WorkerState
  <2>2. Idle(me) \in WorkerState
    BY <1>0, <2>0 DEF WorkerState, Idle
  <2>3. \A y \in [ctx : ContextRow, until : Nat] : [Idle(me) EXCEPT !.retry = y] \in WorkerState
    BY <2>2 DEF WorkerState
  <2>4. CASE Prepare(w)
    <3>1. [[me EXCEPT !.pc = "lookup"] EXCEPT !.ctx = Prepared] \in WorkerState
      BY <1>0, <2>0 DEF WorkerState
    <3>2. worker' = [worker EXCEPT ![w] = [[me EXCEPT !.pc = "lookup"] EXCEPT !.ctx = Prepared]]
      BY <1>0, <2>4 DEF Prepare
    <3> QED
      BY <3>1, <3>2
  <2>5. CASE Lookup(w)
    <3>1. \E e \in {Idle(me), [me EXCEPT !.pc = "finalize"], [me EXCEPT !.pc = "judging"]} :
             worker' = [worker EXCEPT ![w] = e]
      BY <1>0, <2>5 DEF Lookup
    <3> QED
      BY <2>1, <2>2, <3>1
  <2>6. CASE Ratified(w)
    <3> DEFINE y == [ctx |-> NoContext, until |-> 0]
    <3>1. [[me EXCEPT !.pc = "record"] EXCEPT !.retry = y] \in WorkerState
      BY <2>0 DEF WorkerState
    <3>2. worker' = [worker EXCEPT ![w] = [[me EXCEPT !.pc = "record"] EXCEPT !.retry = y]]
      BY <1>0, <2>6 DEF Ratified
    <3> QED
      BY <3>1, <3>2
  <2>7. CASE Record(w)
    <3>1. \E e \in {Idle(me), [me EXCEPT !.pc = "finalize"]} : worker' = [worker EXCEPT ![w] = e]
      BY <1>0, <2>7 DEF Record
    <3> QED
      BY <2>1, <2>2, <3>1
  <2>8. CASE Finalize(w) \/ Abandon(w)
    BY <1>0, <2>2, <2>8 DEF Finalize, Abandon
  <2>9. CASE JudgeFails(w) \/ Restart(w)
    <3>1. clock + Pause \in Nat
      BY Numbers DEF TypeOK
    <3>2. [ctx |-> me.ctx, until |-> clock + Pause] \in [ctx : ContextRow, until : Nat]
      BY <2>0, <3>1
    <3>3. \E y \in [ctx : ContextRow, until : Nat] : worker' = [worker EXCEPT ![w] = [Idle(me) EXCEPT !.retry = y]]
      BY <1>0, <2>0, <2>9, <3>2 DEF JudgeFails, Restart
    <3> QED
      BY <2>3, <3>3
  <2> QED
    BY <1>2, <2>4, <2>5, <2>6, <2>7, <2>8, <2>9 DEF Advance
<1>3. CASE worker' = worker
  BY <1>0, <1>3
<1> QED
  BY <1>1, <1>2, <1>3 DEF Next, Dispatch, ChangeDetails, ConfirmMandate, CancelBooking, Tick, EndRequest,
     SwitchProvider, CreateQuote

LEMMA Contexts ==
  ASSUME TypeOK, Next PROVE reviews' \subseteq ContextRow /\ failures' \subseteq [worker : Workers, ctx : ContextRow, at : Time]
<1>0. /\ reviews \subseteq ContextRow /\ failures \subseteq [worker : Workers, ctx : ContextRow, at : Time]
      /\ clock \in Time /\ \A w \in Workers : worker[w].ctx \in ContextRow
  BY DEF TypeOK, WorkerState
<1>1. ASSUME NEW w \in Workers, Record(w) PROVE reviews' \subseteq ContextRow /\ failures' = failures
  BY <1>0, <1>1 DEF Record
<1>2. ASSUME NEW w \in Workers, JudgeFails(w)
      PROVE  reviews' = reviews /\ failures' \subseteq [worker : Workers, ctx : ContextRow, at : Time]
  <2>1. [worker |-> w, ctx |-> worker[w].ctx, at |-> clock] \in [worker : Workers, ctx : ContextRow, at : Time]
    BY <1>0
  <2> QED
    BY <1>0, <1>2, <2>1 DEF JudgeFails
<1>3. ASSUME NEW w \in Workers, Restart(w) PROVE reviews' = reviews /\ failures' \subseteq failures
  BY <1>3 DEF Restart
<1>4. ASSUME NEW w \in Workers, Advance(w) \/ Abandon(w), ~ Record(w) PROVE UNCHANGED <<reviews, failures>>
  BY <1>4 DEF Advance, Abandon, Prepare, Lookup, Ratified, Finalize
<1>5. CASE UNCHANGED <<reviews, failures>>
  BY <1>0, <1>5
<1> QED
  BY <1>0, <1>1, <1>2, <1>3, <1>4, <1>5 DEF Next, Dispatch, ChangeDetails, ConfirmMandate, CancelBooking, Tick,
     EndRequest, SwitchProvider, CreateQuote

LEMMA Bounded ==
  ASSUME TypeOK, Next
  PROVE  /\ clock' \in Time /\ faults' \in 0..MaxFaults /\ switches' \in 0..MaxSwitches
         /\ active' \subseteq Providers
<1> DEFINE Counted == /\ clock' = clock \/ (clock < MaxTime /\ clock' = clock + 1)
                      /\ faults' = faults \/ (faults < MaxFaults /\ faults' = faults + 1)
                      /\ switches' = switches \/ (switches < MaxSwitches /\ switches' = switches + 1)
<1>1. ASSUME NEW w \in Workers, Advance(w) \/ JudgeFails(w) \/ Abandon(w) \/ Restart(w)
      PROVE  Counted /\ active' = active
  BY <1>1 DEF Advance, JudgeFails, Abandon, Restart, Prepare, Lookup, Ratified, Record, Finalize, work
<1>2. ASSUME NEW p \in Providers, SwitchProvider(p) PROVE Counted /\ active' \subseteq active \cup {p}
  BY <1>2 DEF SwitchProvider
<1>3. ASSUME NEW p \in Providers, EndRequest(p) \/ \E price \in Price, accept \in BOOLEAN : CreateQuote(p, price, accept)
      PROVE  Counted /\ active' = active
  BY <1>3 DEF EndRequest, CreateQuote
<1>4. ASSUME Dispatch \/ ChangeDetails \/ ConfirmMandate \/ CancelBooking \/ Tick PROVE Counted /\ active' = active
  BY <1>4 DEF Dispatch, ChangeDetails, ConfirmMandate, CancelBooking, Tick, work
<1>5. Counted /\ active' \subseteq Providers
  BY <1>1, <1>2, <1>3, <1>4 DEF Next, TypeOK
<1> QED
  BY <1>5, Numbers DEF TypeOK, Time

LEMMA Raised ==
  ASSUME NEW o \in OpRow, NEW n \in Nat PROVE [o EXCEPT !.revision = n] \in OpRow
BY DEF OpRow

\* What the statements that change the work leave of it.
LEMMA DispatchType ==
  ASSUME TypeOK, Dispatch
  PROVE  /\ \E e \in RoundRow : /\ rounds' = [rounds EXCEPT ![Last] = e]
                               /\ e.status = rounds[Last].status /\ e.received = rounds[Last].received
         /\ UNCHANGED <<op, request, quote, bookings>>
<1> DEFINE e == [rounds[Last] EXCEPT !.dispatched = clock]
<1>1. rounds[Last] \in RoundRow /\ clock \in Time \cup {Never}
  BY Tables DEF TypeOK
<1>2. e \in RoundRow
  BY <1>1 DEF RoundRow
<1>3. e.status = rounds[Last].status
  BY <1>1 DEF RoundRow
<1>4. e.received = rounds[Last].received
  BY <1>1 DEF RoundRow
<1>5. rounds' = [rounds EXCEPT ![Last] = e] /\ UNCHANGED <<op, request, quote, bookings>>
  BY DEF Dispatch
<1> QED
  BY <1>2, <1>3, <1>4, <1>5

LEMMA QuoteType ==
  ASSUME TypeOK, NEW p \in Providers, NEW price \in Price, NEW accept \in BOOLEAN, CreateQuote(p, price, accept)
  PROVE  /\ Adjudicable(Last) /\ UNCHANGED bookings
         /\ \E e \in RoundRow : /\ rounds' = [rounds EXCEPT ![Last] = e]
                               /\ e.status = rounds[Last].status /\ e.received = rounds[Last].received + 1
                               /\ e.dispatched = rounds[Last].dispatched
         /\ \E d \in QuoteRow : /\ quote' = [quote EXCEPT ![Last] = [quote[Last] EXCEPT ![p] = d]]
                               /\ d.turn = rounds[Last].received + 1 /\ d.at = clock
         /\ request' = [request EXCEPT ![Last] = [request[Last] EXCEPT ![p] = "responded"]]
         /\ op' \in OpRow /\ op'.pending = op.pending /\ op'.mandate = op.mandate
         /\ op'.status \in {op.status, "quotes_received"}
<1> DEFINE old == quote[Last][p]
           verdict == IF price <= Cap THEN "dentro" ELSE IF accept THEN "accepted"
                      ELSE IF old.refused = 0 THEN "contraoferta" ELSE "fuera"
           d == [verdict |-> verdict, price |-> price, at |-> clock, turn |-> rounds[Last].received + 1,
                 version |-> old.version + 1,
                 refused |-> old.refused + IF verdict \in {"contraoferta", "fuera"} THEN 1 ELSE 0]
           e == [rounds[Last] EXCEPT !.received = @ + 1]
<1>1. /\ Last \in DOMAIN rounds /\ rounds[Last] \in RoundRow /\ old \in QuoteRow /\ op \in OpRow
      /\ rounds[Last].received \in Nat /\ old.version \in Nat /\ old.refused \in Nat /\ clock \in Time
  BY Tables, QuoteFields DEF TypeOK
<1>2. verdict \in {"none", "dentro", "accepted", "contraoferta", "fuera"}
  OBVIOUS
<1>3. old.version + 1 \in 0..MaxQuotes /\ Adjudicable(Last)
  BY <1>1, Numbers DEF CreateQuote
<1>4. old.refused + (IF verdict \in {"contraoferta", "fuera"} THEN 1 ELSE 0) \in Nat
  BY <1>1
<1>5. d \in QuoteRow
  <2> HIDE DEF verdict, old
  <2> QED
    BY <1>1, <1>2, <1>3, <1>4 DEF QuoteRow
<1>6. e \in RoundRow
  BY <1>1 DEF RoundRow
<1>7. e.status = rounds[Last].status
  BY <1>1 DEF RoundRow
<1>8. e.received = rounds[Last].received + 1
  BY <1>1 DEF RoundRow
<1>9. /\ rounds' = [rounds EXCEPT ![Last] = e]
      /\ quote' = [quote EXCEPT ![Last] = [quote[Last] EXCEPT ![p] = d]]
      /\ request' = [request EXCEPT ![Last] = [request[Last] EXCEPT ![p] = "responded"]]
      /\ op' = op \/ op' = [[op EXCEPT !.status = "quotes_received"] EXCEPT !.revision = op.revision + 1]
      /\ bookings' = bookings
  BY DEF CreateQuote
<1>16. e.dispatched = rounds[Last].dispatched
  BY <1>1 DEF RoundRow
<1>10. d.turn = rounds[Last].received + 1 /\ d.at = clock
  OBVIOUS
<1> DEFINE o == [[op EXCEPT !.status = "quotes_received"] EXCEPT !.revision = op.revision + 1]
<1>11. o \in OpRow
  <2>1. op.revision + 1 \in Nat
    BY <1>1 DEF OpRow
  <2>2. [op EXCEPT !.status = "quotes_received"] \in OpRow
    BY <1>1 DEF OpRow
  <2> QED
    BY <2>1, <2>2, Raised
<1>12. o.pending = op.pending
  BY <1>1 DEF OpRow
<1>13. o.mandate = op.mandate
  BY <1>1 DEF OpRow
<1>14. o.status = "quotes_received"
  BY <1>1 DEF OpRow
<1> HIDE DEF d, e, o
<1>15. op' = op \/ op' = o
  BY <1>9 DEF o
<1> QED
  BY <1>1, <1>3, <1>5, <1>6, <1>7, <1>8, <1>9, <1>10, <1>11, <1>12, <1>13, <1>14, <1>15, <1>16

LEMMA ChangeType ==
  ASSUME TypeOK, ChangeDetails
  PROVE  /\ Adjudicable(Last) /\ UNCHANGED <<quote, bookings>>
         /\ \E e \in RoundRow : /\ rounds' = [rounds EXCEPT ![Last] = e]
                               /\ e.status = "superseded" /\ e.received = rounds[Last].received
         /\ \E q \in [Providers -> Waiting \cup Ended] : request' = [request EXCEPT ![Last] = q]
         /\ op' \in OpRow /\ op'.mandate = op.mandate /\ op'.status = op.status
<1> DEFINE e == [rounds[Last] EXCEPT !.status = "superseded"]
           q == [p \in Providers |-> IF request[Last][p] \in Waiting THEN "cancelled" ELSE request[Last][p]]
           o == [[op EXCEPT !.pending = TRUE] EXCEPT !.revision = op.revision + 1]
<1>1. /\ rounds[Last] \in RoundRow /\ request[Last] \in [Providers -> Waiting \cup Ended] /\ op \in OpRow
  BY Tables DEF TypeOK
<1>2. e \in RoundRow
  BY <1>1 DEF RoundRow
<1>3. e.status = "superseded"
  BY <1>1 DEF RoundRow
<1>4. e.received = rounds[Last].received
  BY <1>1 DEF RoundRow
<1>5. q \in [Providers -> Waiting \cup Ended]
  BY <1>1 DEF Ended
<1>6. o \in OpRow
  <2>1. op.revision + 1 \in Nat
    BY <1>1 DEF OpRow
  <2>2. [op EXCEPT !.pending = TRUE] \in OpRow
    BY <1>1 DEF OpRow
  <2> QED
    BY <2>1, <2>2, Raised
<1>7. o.mandate = op.mandate
  BY <1>1 DEF OpRow
<1>9. o.status = op.status
  BY <1>1 DEF OpRow
<1>8. /\ rounds' = [rounds EXCEPT ![Last] = e] /\ request' = [request EXCEPT ![Last] = q] /\ op' = o
      /\ Adjudicable(Last) /\ UNCHANGED <<quote, bookings>>
  BY DEF ChangeDetails
<1> HIDE DEF e, q, o
<1> QED
  BY <1>2, <1>3, <1>4, <1>5, <1>6, <1>7, <1>8, <1>9

\* A new round: after a confirmed change, or a booking cancelled by its carrier.
LEMMA OpenedType ==
  ASSUME TypeOK, op.mandate <= Last, ConfirmMandate \/ CancelBooking
  PROVE  /\ \/ op.pending /\ ~ op'.pending
            \/ op.status = "booking_confirmed" /\ op'.pending = op.pending
         /\ UNCHANGED bookings
         /\ \E e \in RoundRow : rounds' = Append(rounds, e) /\ e.status = "active" /\ e.received = 0
         /\ \E q \in [Providers -> Waiting \cup Ended] : request' = Append(request, q)
         /\ quote' = Append(quote, [p \in Providers |-> NoQuote])
         /\ [p \in Providers |-> NoQuote] \in [Providers -> QuoteRow]
         /\ op' \in OpRow /\ op'.mandate <= Last + 1 /\ Last < MaxRounds
         /\ op'.status = "sourcing"
<1>1. op \in OpRow /\ Last \in Nat /\ op.mandate \in Nat /\ op.revision \in Nat
  BY Tables, Numbers DEF TypeOK, OpRow
<1>2. ASSUME NEW m \in 1..MaxRounds, NEW who, Opened(m, who)
      PROVE  /\ \E e \in RoundRow : rounds' = Append(rounds, e) /\ e.status = "active" /\ e.received = 0
             /\ \E q \in [Providers -> Waiting \cup Ended] : request' = Append(request, q)
             /\ quote' = Append(quote, [p \in Providers |-> NoQuote])
  <2>1. NewRound(m) \in RoundRow /\ NewRound(m).status = "active" /\ NewRound(m).received = 0
    BY Numbers DEF NewRound, RoundRow
  <2>2. [p \in Providers |-> IF p \in who THEN "queued" ELSE "none"] \in [Providers -> Waiting \cup Ended]
    BY DEF Waiting, Ended
  <2> QED
    BY <1>2, <2>1, <2>2 DEF Opened
<1>3. [p \in Providers |-> NoQuote] \in [Providers -> QuoteRow]
  <2>1. NoQuote \in QuoteRow
    BY Numbers DEF NoQuote, QuoteRow, Time
  <2> QED
    BY <2>1
<1>4. CASE ConfirmMandate
  <2>0. Last < MaxRounds
    BY <1>4 DEF ConfirmMandate, Opened
  <2>1. op.mandate + 1 \in 1..MaxRounds /\ Last < MaxRounds
    BY <1>1, <2>0, Numbers
  <2>2. op' = [status |-> "sourcing", pending |-> FALSE, mandate |-> op.mandate + 1, revision |-> op.revision + 1]
    BY <1>1, <1>4 DEF ConfirmMandate, OpRow
  <2>3. op' \in OpRow /\ op'.mandate <= Last + 1 /\ op'.status = "sourcing" /\ ~ op'.pending
    BY <1>1, <2>1, <2>2 DEF OpRow
  <2> QED
    BY <1>2, <1>3, <1>4, <2>1, <2>3 DEF ConfirmMandate
<1>5. CASE CancelBooking
  <2>1. op.mandate \in 1..MaxRounds /\ Last < MaxRounds
    BY <1>1, <1>5 DEF CancelBooking, Opened, OpRow
  <2>2. op' = [status |-> "sourcing", pending |-> op.pending, mandate |-> op.mandate, revision |-> op.revision + 1]
    BY <1>1, <1>5 DEF CancelBooking, OpRow
  <2>3. op' \in OpRow /\ op'.mandate <= Last + 1 /\ op'.status = "sourcing" /\ op'.pending = op.pending
    BY <1>1, <2>1, <2>2 DEF OpRow
  <2> QED
    BY <1>2, <1>3, <1>5, <2>1, <2>3 DEF CancelBooking
<1> QED
  BY <1>4, <1>5

LEMMA AwardType ==
  ASSUME TypeOK, NEW w \in Workers, Finalize(w), Prepared # NoContext /\ Prepared \in reviews
  PROVE  /\ bookings' = Append(bookings, [round |-> Last, provider |-> Winner(Last)])
         /\ [round |-> Last, provider |-> Winner(Last)] \in [round : Nat, provider : Providers]
         /\ \E e \in RoundRow : /\ rounds' = [rounds EXCEPT ![Last] = e]
                               /\ e.status = "selected" /\ e.received = rounds[Last].received
         /\ \E q \in [Providers -> Waiting \cup Ended] : request' = [request EXCEPT ![Last] = q]
         /\ UNCHANGED quote /\ op' \in OpRow /\ op'.mandate = op.mandate /\ op'.pending = op.pending
<1>1. /\ Prepared.round = Last /\ Prepared.winner = Winner(Last) /\ Winner(Last) \in Providers /\ Last \in Nat
  BY PreparedIsTheWinner, Tables
<1> DEFINE e == [rounds[Last] EXCEPT !.status = "selected"]
           q == [p \in Providers |-> IF p # Winner(Last) /\ request[Last][p] \in Waiting
                                       THEN "cancelled" ELSE request[Last][p]]
<1>2. /\ rounds[Last] \in RoundRow /\ request[Last] \in [Providers -> Waiting \cup Ended] /\ op \in OpRow
  BY Tables DEF TypeOK
<1>3. e \in RoundRow
  BY <1>2 DEF RoundRow
<1>4. e.status = "selected"
  BY <1>2 DEF RoundRow
<1>5. e.received = rounds[Last].received
  BY <1>2 DEF RoundRow
<1>6. q \in [Providers -> Waiting \cup Ended]
  BY <1>2 DEF Ended
<1>7. op' = [status |-> "booking_confirmed", pending |-> op.pending, mandate |-> op.mandate, revision |-> op.revision + 1]
  BY <1>2 DEF Finalize, Award, OpRow
<1>8. op' \in OpRow /\ op'.mandate = op.mandate /\ op'.pending = op.pending
  BY <1>2, <1>7 DEF OpRow
<1>9. /\ rounds' = [rounds EXCEPT ![Last] = e] /\ request' = [request EXCEPT ![Last] = q]
      /\ bookings' = Append(bookings, [round |-> Last, provider |-> Winner(Last)])
      /\ UNCHANGED quote
  BY <1>1 DEF Finalize, Award
<1> HIDE DEF e, q
<1> QED
  BY <1>1, <1>3, <1>4, <1>5, <1>6, <1>8, <1>9

LEMMA TypeNext == ASSUME TypeOK, op.mandate <= Last, Next PROVE TypeOK'
<1> DEFINE Requests == [Providers -> Waiting \cup Ended]
           Quotes == [Providers -> QuoteRow]
           Bookings == [round : Nat, provider : Providers]
           Work == /\ op \in OpRow
                   /\ rounds \in Seq(RoundRow) /\ Len(rounds) \in 1..MaxRounds
                   /\ request \in Seq(Requests) /\ Len(request) = Len(rounds)
                   /\ quote \in Seq(Quotes) /\ Len(quote) = Len(rounds)
                   /\ bookings \in Seq(Bookings)
<1>0. Work
  BY DEF TypeOK
<1>1. /\ Last = Len(rounds) /\ Last \in DOMAIN rounds /\ Last \in DOMAIN request /\ Last \in DOMAIN quote
      /\ quote[Last] \in Quotes /\ request[Last] \in Requests /\ Last \in Nat
  BY Tables DEF Last
<1> HIDE DEF Requests, Quotes, Bookings
<1>2. ASSUME Dispatch PROVE Work'
  <2>1. PICK e \in RoundRow : rounds' = [rounds EXCEPT ![Last] = e]
    BY <1>2, DispatchType
  <2>2. rounds' \in Seq(RoundRow) /\ Len(rounds') = Len(rounds)
    BY <1>0, <1>1, <2>1, SeqSet
  <2>3. UNCHANGED <<op, request, quote, bookings>>
    BY <1>2, DispatchType
  <2> QED
    BY <1>0, <2>2, <2>3
<1>3. ASSUME NEW p \in Providers, NEW price \in Price, NEW accept \in BOOLEAN, CreateQuote(p, price, accept)
      PROVE  Work'
  <2>1. PICK e \in RoundRow : rounds' = [rounds EXCEPT ![Last] = e]
    BY <1>3, QuoteType
  <2>2. PICK d \in QuoteRow : quote' = [quote EXCEPT ![Last] = [quote[Last] EXCEPT ![p] = d]]
    BY <1>3, QuoteType
  <2>3. [quote[Last] EXCEPT ![p] = d] \in Quotes
    BY <1>1 DEF Quotes
  <2>4. [request[Last] EXCEPT ![p] = "responded"] \in Requests
    BY <1>1 DEF Requests, Waiting
  <2>5. rounds' \in Seq(RoundRow) /\ Len(rounds') = Len(rounds)
    BY <1>0, <1>1, <2>1, SeqSet
  <2>6. quote' \in Seq(Quotes) /\ Len(quote') = Len(quote)
    BY <1>0, <1>1, <2>2, <2>3, SeqSet
  <2>7. request' = [request EXCEPT ![Last] = [request[Last] EXCEPT ![p] = "responded"]]
    BY <1>3, QuoteType
  <2>8. request' \in Seq(Requests) /\ Len(request') = Len(request)
    BY <1>0, <1>1, <2>4, <2>7, SeqSet
  <2>9. op' \in OpRow /\ bookings' = bookings
    BY <1>3, QuoteType
  <2> QED
    BY <1>0, <2>5, <2>6, <2>8, <2>9
<1>4. ASSUME NEW p \in Providers, EndRequest(p) PROVE Work'
  <2>1. PICK label \in {"cancelled", "expired"} : request' = [request EXCEPT ![Last] = [request[Last] EXCEPT ![p] = label]]
    BY <1>4 DEF EndRequest
  <2>2. [request[Last] EXCEPT ![p] = label] \in Requests
    BY <1>1 DEF Requests, Ended
  <2>3. request' \in Seq(Requests) /\ Len(request') = Len(request)
    BY <1>0, <1>1, <2>1, <2>2, SeqSet
  <2>4. UNCHANGED <<op, rounds, quote, bookings>>
    BY <1>4 DEF EndRequest
  <2> QED
    BY <1>0, <2>3, <2>4
<1>5. ASSUME ChangeDetails PROVE Work'
  <2>1. PICK e \in RoundRow : rounds' = [rounds EXCEPT ![Last] = e]
    BY <1>5, ChangeType
  <2>2. PICK q \in Requests : request' = [request EXCEPT ![Last] = q]
    BY <1>5, ChangeType DEF Requests
  <2>3. rounds' \in Seq(RoundRow) /\ Len(rounds') = Len(rounds)
    BY <1>0, <1>1, <2>1, SeqSet
  <2>4. request' \in Seq(Requests) /\ Len(request') = Len(request)
    BY <1>0, <1>1, <2>2, SeqSet
  <2>5. op' \in OpRow /\ UNCHANGED <<quote, bookings>>
    BY <1>5, ChangeType
  <2> QED
    BY <1>0, <2>3, <2>4, <2>5
<1>6. ASSUME ConfirmMandate \/ CancelBooking PROVE Work'
  <2>1. PICK e \in RoundRow : rounds' = Append(rounds, e)
    BY <1>6, OpenedType
  <2>2. PICK q \in Requests : request' = Append(request, q)
    BY <1>6, OpenedType DEF Requests
  <2>3. PICK b \in Quotes : quote' = Append(quote, b)
    BY <1>6, OpenedType DEF Quotes
  <2>4. op' \in OpRow /\ Last < MaxRounds /\ UNCHANGED bookings
    BY <1>6, OpenedType
  <2>5. rounds' \in Seq(RoundRow) /\ Len(rounds') = Last + 1
    BY <1>0, <1>1, <2>1, SeqGrow
  <2>6. request' \in Seq(Requests) /\ Len(request') = Last + 1
    BY <1>0, <1>1, <2>2, SeqGrow
  <2>7. quote' \in Seq(Quotes) /\ Len(quote') = Last + 1
    BY <1>0, <1>1, <2>3, SeqGrow
  <2>8. Last + 1 \in 1..MaxRounds
    BY <1>1, <2>4, Numbers
  <2> QED
    BY <1>0, <2>4, <2>5, <2>6, <2>7, <2>8
<1>7. ASSUME NEW w \in Workers, Finalize(w), Prepared # NoContext /\ Prepared \in reviews PROVE Work'
  <2>1. PICK e \in RoundRow : rounds' = [rounds EXCEPT ![Last] = e]
    BY <1>7, AwardType
  <2>2. PICK q \in Requests : request' = [request EXCEPT ![Last] = q]
    BY <1>7, AwardType DEF Requests
  <2>3. rounds' \in Seq(RoundRow) /\ Len(rounds') = Len(rounds)
    BY <1>0, <1>1, <2>1, SeqSet
  <2>4. request' \in Seq(Requests) /\ Len(request') = Len(request)
    BY <1>0, <1>1, <2>2, SeqSet
  <2>5. op' \in OpRow /\ UNCHANGED quote
    BY <1>7, AwardType
  <2>6. PICK b \in Bookings : bookings' = Append(bookings, b)
    BY <1>7, AwardType DEF Bookings
  <2>7. bookings' \in Seq(Bookings)
    BY <1>0, <2>6, SeqGrow
  <2> QED
    BY <1>0, <2>3, <2>4, <2>5, <2>7
<1>8. ASSUME UNCHANGED <<op, rounds, request, quote, bookings>> PROVE Work'
  BY <1>0, <1>8
<1>9. Work'
  <2>1. ASSUME NEW w \in Workers, Advance(w) \/ JudgeFails(w) \/ Abandon(w) \/ Restart(w)
        PROVE  \/ UNCHANGED <<op, rounds, request, quote, bookings>>
               \/ Finalize(w) /\ Prepared # NoContext /\ Prepared \in reviews
    BY <2>1 DEF Advance, Prepare, Lookup, Ratified, Record, Finalize, JudgeFails, Abandon, Restart, work
  <2>2. ASSUME Tick \/ \E p \in Providers : SwitchProvider(p) PROVE Work'
    BY <1>8, <2>2 DEF Tick, SwitchProvider, work
  <2> HIDE DEF Work
  <2> QED
    BY <1>2, <1>3, <1>4, <1>5, <1>6, <1>7, <1>8, <2>1, <2>2 DEF Next
<1> USE DEF Requests, Quotes, Bookings
<1> QED
  BY <1>9, WorkerNext, Contexts, Bounded DEF TypeOK
------------------------------------------------------------------------------
(* A round is awarded once                                                   *)

\* The newest round is written over; the others stay.
LEMMA Overwritten ==
  ASSUME TypeOK, NEW e \in RoundRow, rounds' = [rounds EXCEPT ![Last] = e]
  PROVE  /\ Last' = Last /\ DOMAIN rounds' = DOMAIN rounds /\ rounds'[Last] = e
         /\ \A r \in DOMAIN rounds : r # Last => rounds'[r] = rounds[r]
<1>1. rounds \in Seq(RoundRow) /\ Last \in DOMAIN rounds
  BY Tables DEF TypeOK
<1> QED
  BY <1>1, SeqSet DEF Last

LEMMA BookingsStay ==
  ASSUME AwardInv, NEW e \in RoundRow, rounds' = [rounds EXCEPT ![Last] = e], UNCHANGED bookings,
         rounds[Last].status \in {"active", e.status}
  PROVE  BookingsInRounds' /\ OneAwardPerRound'
<1>1. TypeOK /\ BookingsInRounds /\ OneAwardPerRound
  BY DEF AwardInv
<1>2. /\ DOMAIN rounds' = DOMAIN rounds /\ rounds'[Last] = e
      /\ \A r \in DOMAIN rounds : r # Last => rounds'[r] = rounds[r]
  BY <1>1, Overwritten
<1>3. BookingsInRounds'
  BY <1>1, <1>2 DEF BookingsInRounds
<1>4. ASSUME NEW i \in DOMAIN bookings PROVE rounds'[bookings[i].round].status = "selected"
  BY <1>1, <1>2 DEF BookingsInRounds, OneAwardPerRound
<1> QED
  BY <1>1, <1>3, <1>4 DEF OneAwardPerRound

LEMMA QuotesStay ==
  ASSUME AwardInv, NEW e \in RoundRow, rounds' = [rounds EXCEPT ![Last] = e], UNCHANGED quote,
         e.received = rounds[Last].received
  PROVE  QuotesInOrder'
<1>1. TypeOK /\ QuotesInOrder
  BY DEF AwardInv
<1>2. DOMAIN rounds' = DOMAIN rounds /\ \A r \in DOMAIN rounds : rounds'[r].received = rounds[r].received
  BY <1>1, Overwritten
<1> QED
  BY <1>1, <1>2 DEF QuotesInOrder

LEMMA NewestStays ==
  ASSUME AwardInv, NEW e \in RoundRow, rounds' = [rounds EXCEPT ![Last] = e],
         e.status = "active" => op'.status \in {"sourcing", "quotes_received"} /\ ~ op'.pending,
         op'.status = "booking_confirmed" => ~ op'.pending, op'.mandate = op.mandate
  PROVE  ActiveIsLast'
<1>1. TypeOK /\ ActiveIsLast
  BY DEF AwardInv
<1>2. /\ Last' = Last /\ DOMAIN rounds' = DOMAIN rounds /\ rounds'[Last] = e
      /\ \A r \in DOMAIN rounds : r # Last => rounds'[r] = rounds[r]
  BY <1>1, Overwritten
<1> QED
  BY <1>1, <1>2 DEF ActiveIsLast

LEMMA Unmoved ==
  ASSUME AwardInv, UNCHANGED <<op, rounds, quote, bookings>>
  PROVE  ActiveIsLast' /\ QuotesInOrder' /\ BookingsInRounds' /\ OneAwardPerRound'
<1>1. UNCHANGED <<op, rounds, quote, bookings>> /\ Last' = Last
  BY DEF Last
<1>2. ActiveIsLast'
  BY <1>1 DEF AwardInv, ActiveIsLast
<1>3. QuotesInOrder'
  BY <1>1 DEF AwardInv, QuotesInOrder
<1>4. BookingsInRounds'
  BY <1>1 DEF AwardInv, BookingsInRounds
<1>5. OneAwardPerRound'
  BY <1>1 DEF AwardInv, OneAwardPerRound
<1> QED
  BY <1>2, <1>3, <1>4, <1>5

LEMMA DispatchKeeps ==
  ASSUME AwardInv, Dispatch PROVE ActiveIsLast' /\ QuotesInOrder' /\ BookingsInRounds' /\ OneAwardPerRound'
<1>0. TypeOK /\ ActiveIsLast /\ Last \in DOMAIN rounds
  BY Tables DEF AwardInv
<1>1. PICK e \in RoundRow : /\ rounds' = [rounds EXCEPT ![Last] = e]
                            /\ e.status = rounds[Last].status /\ e.received = rounds[Last].received
  BY <1>0, DispatchType
<1>2. UNCHANGED <<op, request, quote, bookings>>
  BY <1>0, DispatchType
<1>3. BookingsInRounds' /\ OneAwardPerRound' /\ QuotesInOrder'
  BY <1>1, <1>2, BookingsStay, QuotesStay
<1>4. /\ e.status = "active" => op'.status \in {"sourcing", "quotes_received"} /\ ~ op'.pending
      /\ op'.status = "booking_confirmed" => ~ op'.pending
      /\ op'.mandate = op.mandate
  BY <1>0, <1>1, <1>2 DEF ActiveIsLast
<1> QED
  BY <1>1, <1>3, <1>4, NewestStays

LEMMA QuoteKeeps ==
  ASSUME AwardInv, NEW p \in Providers, NEW price \in Price, NEW accept \in BOOLEAN, CreateQuote(p, price, accept)
  PROVE  ActiveIsLast' /\ QuotesInOrder' /\ BookingsInRounds' /\ OneAwardPerRound'
<1>0. TypeOK /\ ActiveIsLast /\ QuotesInOrder /\ Last \in DOMAIN rounds /\ DOMAIN rounds = DOMAIN quote
  BY Tables DEF AwardInv
<1>1. PICK e \in RoundRow : /\ rounds' = [rounds EXCEPT ![Last] = e]
                            /\ e.status = rounds[Last].status /\ e.received = rounds[Last].received + 1
  BY <1>0, QuoteType
<1>2. PICK d \in QuoteRow : /\ quote' = [quote EXCEPT ![Last] = [quote[Last] EXCEPT ![p] = d]]
                            /\ d.turn = rounds[Last].received + 1
  BY <1>0, QuoteType
<1>3. Adjudicable(Last) /\ UNCHANGED bookings
  BY <1>0, QuoteType
<1>4. op'.pending = op.pending /\ op'.mandate = op.mandate /\ op'.status \in {op.status, "quotes_received"}
  BY <1>0, QuoteType
<1>5. BookingsInRounds' /\ OneAwardPerRound'
  BY <1>1, <1>3, BookingsStay
<1>6. ActiveIsLast'
  <2>1. /\ op'.status \in {"sourcing", "quotes_received"} /\ ~ op'.pending
        /\ op'.status = "booking_confirmed" => ~ op'.pending
    BY <1>3, <1>4 DEF Adjudicable
  <2> QED
    BY <1>1, <1>4, <2>1, NewestStays
<1>7. QuotesInOrder'
  <2>1. /\ DOMAIN rounds' = DOMAIN rounds /\ rounds'[Last] = e
        /\ \A r \in DOMAIN rounds : r # Last => rounds'[r] = rounds[r]
    BY <1>0, <1>1, Overwritten
  <2>2. /\ \A r \in DOMAIN rounds : r # Last => quote'[r] = quote[r]
        /\ quote'[Last][p] = d /\ \A q \in Providers : q # p => quote'[Last][q] = quote[Last][q]
    BY <1>0, <1>2, Tables
  <2>3. ASSUME NEW r \in DOMAIN rounds', r # Last
        PROVE  quote'[r] = quote[r] /\ rounds'[r] = rounds[r] /\ r \in DOMAIN rounds
    BY <2>1, <2>2, <2>3
  <2>4. rounds[Last].received \in Nat /\ \A q \in Providers : quote[Last][q].turn \in Nat
    BY <1>0, QuoteFields
  <2>5. \A q \in Providers : /\ quote[Last][q].turn <= rounds[Last].received
                             /\ quote[Last][q].verdict # "none" => quote[Last][q].turn > 0
    BY <1>0 DEF QuotesInOrder
  <2>6. ASSUME NEW q \in Providers
        PROVE  /\ quote'[Last][q].turn <= rounds'[Last].received
               /\ quote'[Last][q].verdict # "none" => quote'[Last][q].turn > 0
    <3>1. CASE q = p
      BY <1>1, <1>2, <2>1, <2>2, <2>4, <3>1
    <3>2. CASE q # p
      BY <1>1, <2>1, <2>2, <2>4, <2>5, <3>2
    <3> QED
      BY <3>1, <3>2
  <2>7. ASSUME NEW q1 \in Providers, NEW q2 \in Providers,
               quote'[Last][q1].turn = quote'[Last][q2].turn, quote'[Last][q1].turn > 0
        PROVE  q1 = q2
    <3>1. CASE q1 # p /\ q2 # p
      BY <1>0, <2>2, <2>7, <3>1 DEF QuotesInOrder
    <3>2. CASE q1 = p /\ q2 # p
      BY <1>2, <2>2, <2>4, <2>5, <2>7, <3>2
    <3>3. CASE q1 # p /\ q2 = p
      BY <1>2, <2>2, <2>4, <2>5, <2>7, <3>3
    <3> QED
      BY <3>1, <3>2, <3>3
  <2> QED
    BY <1>0, <2>3, <2>6, <2>7 DEF QuotesInOrder
<1> QED
  BY <1>5, <1>6, <1>7

LEMMA ChangeKeeps ==
  ASSUME AwardInv, ChangeDetails
  PROVE  ActiveIsLast' /\ QuotesInOrder' /\ BookingsInRounds' /\ OneAwardPerRound'
<1>0. TypeOK
  BY DEF AwardInv
<1>1. PICK e \in RoundRow : /\ rounds' = [rounds EXCEPT ![Last] = e]
                            /\ e.status = "superseded" /\ e.received = rounds[Last].received
  BY <1>0, ChangeType
<1>2. Adjudicable(Last) /\ UNCHANGED <<quote, bookings>> /\ op'.mandate = op.mandate /\ op'.status = op.status
  BY <1>0, ChangeType
<1>3. /\ rounds[Last].status = "active" /\ op'.status # "booking_confirmed"
  BY <1>2 DEF Adjudicable
<1>4. BookingsInRounds' /\ OneAwardPerRound' /\ QuotesInOrder'
  BY <1>1, <1>2, <1>3, BookingsStay, QuotesStay
<1> QED
  BY <1>1, <1>2, <1>3, <1>4, NewestStays

LEMMA OpenedKeeps ==
  ASSUME AwardInv, ConfirmMandate \/ CancelBooking
  PROVE  ActiveIsLast' /\ QuotesInOrder' /\ BookingsInRounds' /\ OneAwardPerRound'
<1>0. /\ TypeOK /\ ActiveIsLast /\ QuotesInOrder /\ BookingsInRounds /\ OneAwardPerRound
      /\ op.mandate <= Last /\ Last \in Nat /\ Last = Len(rounds) /\ Len(quote) = Last
      /\ rounds \in Seq(RoundRow) /\ quote \in Seq([Providers -> QuoteRow])
  BY Tables DEF AwardInv, ActiveIsLast, TypeOK, Last
<1>1. PICK e \in RoundRow : rounds' = Append(rounds, e) /\ e.status = "active" /\ e.received = 0
  BY <1>0, OpenedType
<1> DEFINE blank == [p \in Providers |-> NoQuote]
<1>2. quote' = Append(quote, blank) /\ blank \in [Providers -> QuoteRow]
  BY <1>0, OpenedType
<1>3. /\ \/ op.pending /\ ~ op'.pending
         \/ op.status = "booking_confirmed" /\ op'.pending = op.pending
      /\ UNCHANGED bookings /\ op'.mandate <= Last + 1 /\ op'.status = "sourcing"
  BY <1>0, OpenedType
<1>4. /\ DOMAIN rounds = 1 .. Last /\ DOMAIN rounds' = 1 .. Last + 1 /\ Last' = Last + 1
      /\ rounds'[Last + 1] = e /\ \A r \in 1 .. Last : rounds'[r] = rounds[r]
  BY <1>0, <1>1, SeqGrow DEF Last
<1>5. \A p \in Providers : blank[p].turn = 0 /\ blank[p].verdict = "none"
  BY DEF NoQuote
<1> HIDE DEF blank
<1>6. quote'[Last + 1] = blank /\ \A r \in 1 .. Last : quote'[r] = quote[r]
  BY <1>0, <1>2, SeqGrow
<1>7. ActiveIsLast'
  <2>1. ~ op'.pending /\ \A r \in 1 .. Last : rounds[r].status # "active"
    BY <1>0, <1>3, <1>4 DEF ActiveIsLast
  <2>2. ASSUME NEW r \in 1 .. Last + 1, rounds'[r].status = "active" PROVE r = Last + 1
    BY <1>0, <1>4, <2>1, <2>2
  <2> QED
    BY <1>3, <1>4, <2>1, <2>2 DEF ActiveIsLast
<1>8. QuotesInOrder'
  <2>1. ASSUME NEW r \in 1 .. Last + 1 PROVE r = Last + 1 \/ r \in 1 .. Last
    BY <1>0
  <2>2. ASSUME NEW r \in 1 .. Last
        PROVE  rounds'[r] = rounds[r] /\ quote'[r] = quote[r] /\ r \in DOMAIN rounds
    BY <1>4, <1>6
  <2>3. /\ \A p \in Providers : /\ quote'[Last + 1][p].turn <= rounds'[Last + 1].received
                                /\ quote'[Last + 1][p].verdict # "none" => quote'[Last + 1][p].turn > 0
        /\ \A p \in Providers : ~ (quote'[Last + 1][p].turn > 0)
    BY <1>1, <1>4, <1>5, <1>6
  <2> QED
    BY <1>0, <1>4, <2>1, <2>2, <2>3 DEF QuotesInOrder
<1>9. BookingsInRounds'
  BY <1>0, <1>3, <1>4 DEF BookingsInRounds
<1>10. OneAwardPerRound'
  <2>1. ASSUME NEW i \in DOMAIN bookings PROVE rounds'[bookings[i].round].status = "selected"
    BY <1>0, <1>4 DEF BookingsInRounds, OneAwardPerRound
  <2> QED
    BY <1>0, <1>3, <2>1 DEF OneAwardPerRound
<1> QED
  BY <1>7, <1>8, <1>9, <1>10

LEMMA AwardKeeps ==
  ASSUME AwardInv, NEW w \in Workers, Finalize(w), Prepared # NoContext /\ Prepared \in reviews
  PROVE  ActiveIsLast' /\ QuotesInOrder' /\ BookingsInRounds' /\ OneAwardPerRound'
<1>0. /\ TypeOK /\ BookingsInRounds /\ OneAwardPerRound /\ Last \in DOMAIN rounds
      /\ bookings \in Seq([round : Nat, provider : Providers])
  BY Tables DEF AwardInv, TypeOK
<1> DEFINE b == [round |-> Last, provider |-> Winner(Last)]
<1>1. bookings' = Append(bookings, b) /\ b \in [round : Nat, provider : Providers] /\ b.round = Last
  BY <1>0, AwardType
<1> HIDE DEF b
<1>2. PICK e \in RoundRow : /\ rounds' = [rounds EXCEPT ![Last] = e]
                            /\ e.status = "selected" /\ e.received = rounds[Last].received
  BY <1>0, AwardType
<1>3. UNCHANGED quote /\ op'.mandate = op.mandate /\ op'.pending = op.pending
  BY <1>0, AwardType
<1>4. rounds[Last].status = "active" /\ ~ op.pending
  BY <1>0, PreparedIsTheWinner DEF Ready, Adjudicable
<1>5. ActiveIsLast' /\ QuotesInOrder'
  BY <1>2, <1>3, <1>4, QuotesStay, NewestStays
<1>6. /\ DOMAIN rounds' = DOMAIN rounds /\ rounds'[Last] = e
      /\ \A r \in DOMAIN rounds : r # Last => rounds'[r] = rounds[r]
  BY <1>0, <1>2, Overwritten
<1>7. /\ DOMAIN bookings = 1 .. Len(bookings) /\ DOMAIN bookings' = 1 .. Len(bookings) + 1
      /\ bookings'[Len(bookings) + 1] = b /\ \A i \in DOMAIN bookings : bookings'[i] = bookings[i]
      /\ Len(bookings) \in Nat
  BY <1>0, <1>1, SeqGrow
<1>8. ASSUME NEW i \in DOMAIN bookings'
      PROVE  \/ i = Len(bookings) + 1 /\ bookings'[i].round = Last
             \/ /\ i \in DOMAIN bookings /\ bookings'[i] = bookings[i] /\ bookings[i].round \in DOMAIN rounds
                /\ rounds[bookings[i].round].status = "selected" /\ bookings[i].round # Last
  <2>1. i = Len(bookings) + 1 \/ i \in DOMAIN bookings
    BY <1>7
  <2> QED
    BY <1>0, <1>1, <1>4, <1>7, <2>1 DEF BookingsInRounds, OneAwardPerRound
<1>9. BookingsInRounds'
  BY <1>0, <1>6, <1>8 DEF BookingsInRounds
<1>10. OneAwardPerRound'
  <2>1. ASSUME NEW i \in DOMAIN bookings', NEW j \in DOMAIN bookings', i # j
        PROVE  bookings'[i].round # bookings'[j].round
    BY <1>0, <1>8, <2>1 DEF OneAwardPerRound
  <2>2. ASSUME NEW i \in DOMAIN bookings' PROVE rounds'[bookings'[i].round].status = "selected"
    BY <1>2, <1>6, <1>8
  <2> QED
    BY <2>1, <2>2 DEF OneAwardPerRound
<1> QED
  BY <1>5, <1>9, <1>10

LEMMA AwardInit == Init => AwardInv
<1> SUFFICES ASSUME Init PROVE AwardInv
  OBVIOUS
<1>1. TypeOK
  BY TypeInit
<1>2. /\ rounds = <<NewRound(1)>> /\ quote = <<[p \in Providers |-> NoQuote]>> /\ bookings = <<>>
      /\ op = [status |-> "sourcing", pending |-> FALSE, mandate |-> 1, revision |-> 1]
  BY DEF Init
<1>3. DOMAIN rounds = {1} /\ Last = 1 /\ rounds[1] = NewRound(1) /\ quote[1] = [p \in Providers |-> NoQuote]
  BY <1>2 DEF Last
<1>4. ActiveIsLast
  BY <1>2, <1>3 DEF ActiveIsLast
<1>5. QuotesInOrder
  BY <1>3 DEF QuotesInOrder, NoQuote, NewRound
<1>6. BookingsInRounds /\ OneAwardPerRound
  BY <1>2 DEF BookingsInRounds, OneAwardPerRound
<1> QED
  BY <1>1, <1>4, <1>5, <1>6 DEF AwardInv

LEMMA AwardNext == AwardInv /\ [Next]_vars => AwardInv'
<1> SUFFICES ASSUME AwardInv, [Next]_vars PROVE AwardInv'
  OBVIOUS
<1>0. TypeOK /\ op.mandate <= Last
  BY DEF AwardInv, ActiveIsLast
<1> DEFINE Kept == ActiveIsLast' /\ QuotesInOrder' /\ BookingsInRounds' /\ OneAwardPerRound'
<1>1. ASSUME UNCHANGED vars PROVE TypeOK' /\ Kept
  <2>1. TypeOK'
    BY <1>0, <1>1 DEF TypeOK, vars, work
  <2>2. UNCHANGED <<op, rounds, quote, bookings>>
    BY <1>1 DEF vars, work
  <2> QED
    BY <2>1, <2>2, Unmoved
<1>2. ASSUME Next PROVE TypeOK' /\ Kept
  <2>1. TypeOK'
    BY <1>0, <1>2, TypeNext
  <2>2. ASSUME NEW w \in Workers, Advance(w) \/ JudgeFails(w) \/ Abandon(w) \/ Restart(w)
        PROVE  \/ UNCHANGED <<op, rounds, quote, bookings>>
               \/ Finalize(w) /\ Prepared # NoContext /\ Prepared \in reviews
    BY <2>2 DEF Advance, Prepare, Lookup, Ratified, Record, Finalize, JudgeFails, Abandon, Restart, work
  <2>3. ASSUME Tick \/ \E p \in Providers : EndRequest(p) \/ SwitchProvider(p)
        PROVE  UNCHANGED <<op, rounds, quote, bookings>>
    BY <2>3 DEF Tick, EndRequest, SwitchProvider, work
  <2>4. Kept
    <3> HIDE DEF Kept
    <3>1. ASSUME UNCHANGED <<op, rounds, quote, bookings>> PROVE Kept
      BY <3>1, Unmoved DEF Kept
    <3>2. ASSUME Dispatch \/ ChangeDetails \/ ConfirmMandate \/ CancelBooking PROVE Kept
      BY <3>2, DispatchKeeps, ChangeKeeps, OpenedKeeps DEF Kept
    <3>3. ASSUME NEW p \in Providers, NEW price \in Price, NEW accept \in BOOLEAN, CreateQuote(p, price, accept)
          PROVE  Kept
      BY <3>3, QuoteKeeps DEF Kept
    <3>4. ASSUME NEW w \in Workers, Finalize(w), Prepared # NoContext /\ Prepared \in reviews PROVE Kept
      BY <3>4, AwardKeeps DEF Kept
    <3> QED
      BY <1>2, <2>2, <2>3, <3>1, <3>2, <3>3, <3>4 DEF Next
  <2> QED
    BY <2>1, <2>4
<1> QED
  BY <1>1, <1>2 DEF AwardInv

LEMMA AwardInvariant == Spec => []AwardInv
<1>1. AwardInv /\ [Next]_vars => AwardInv'
  BY AwardNext
<1> QED
  BY AwardInit, <1>1, PTL DEF Spec

\* Every variable keeps its type, whatever the numbers (the columns of operations,
\* sourcing_rounds, quote_requests, quotes and bookings, and the loop's memory).
THEOREM TypeCorrect == Spec => []TypeOK
<1>1. AwardInv => TypeOK
  BY DEF AwardInv
<1> QED
  BY AwardInvariant, <1>1, PTL

\* A round is awarded once, and only while it has not been withdrawn, for any number
\* of providers, processes, rounds and prices: whoever finalizes sees the newest round
\* active, and an active round has no booking (finalize_operation_sourcing).
THEOREM AwardedOnce == Spec => []OneAwardPerRound
<1>1. AwardInv => OneAwardPerRound
  BY DEF AwardInv
<1> QED
  BY AwardInvariant, <1>1, PTL

------------------------------------------------------------------------------
(* The award is fair                                                         *)

\* Only finalize_operation_sourcing makes a booking, and it is the candidate's.
LEMMA OnlyTheCandidate ==
  ASSUME AwardInv, [Next]_vars, Len(bookings') > Len(bookings)
  PROVE  /\ Prepared # NoContext
         /\ bookings'[Len(bookings')] = [round |-> Last, provider |-> Winner(Last)]
<1>0. TypeOK /\ op.mandate <= Last /\ bookings \in Seq([round : Nat, provider : Providers])
  BY DEF AwardInv, ActiveIsLast, TypeOK
<1>1. ASSUME UNCHANGED bookings PROVE FALSE
  BY <1>0, <1>1
<1>2. PICK w \in Workers : Finalize(w) /\ Prepared # NoContext /\ Prepared \in reviews
  <2>1. ASSUME NEW w \in Workers, Advance(w) \/ JudgeFails(w) \/ Abandon(w) \/ Restart(w)
        PROVE  \/ UNCHANGED bookings
               \/ Finalize(w) /\ Prepared # NoContext /\ Prepared \in reviews
    BY <2>1 DEF Advance, Prepare, Lookup, Ratified, Record, Finalize, JudgeFails, Abandon, Restart, work
  <2>2. ASSUME \/ Tick \/ Dispatch \/ ChangeDetails \/ ConfirmMandate \/ CancelBooking \/ UNCHANGED vars
               \/ \E p \in Providers : \/ EndRequest(p) \/ SwitchProvider(p)
                                       \/ \E price \in Price, accept \in BOOLEAN : CreateQuote(p, price, accept)
        PROVE  UNCHANGED bookings
    BY <2>2 DEF Tick, Dispatch, ChangeDetails, ConfirmMandate, CancelBooking, EndRequest, SwitchProvider,
       CreateQuote, vars, work
  <2> QED
    BY <1>1, <2>1, <2>2 DEF Next
<1> DEFINE b == [round |-> Last, provider |-> Winner(Last)]
<1>3. bookings' = Append(bookings, b) /\ b \in [round : Nat, provider : Providers]
  BY <1>0, <1>2, AwardType
<1> HIDE DEF b
<1>4. bookings'[Len(bookings')] = b
  BY <1>0, <1>3, SeqGrow
<1> QED
  BY <1>2, <1>4 DEF b

LEMMA CandidateIsBest ==
  ASSUME AwardInv, Prepared # NoContext
  PROVE  /\ Winner(Last) \in Eligible(Last)
         /\ \A p \in InTime(Last) : /\ Winner(Last) \in InTime(Last)
                                    /\ quote[Last][Winner(Last)].price <= quote[Last][p].price
         /\ InTime(Last) = {} =>
              \A p \in Eligible(Last) : quote[Last][Winner(Last)].turn <= quote[Last][p].turn
         /\ clock < Deadline(Last) =>
              \A p \in Providers : request[Last][p] \in Waiting =>
                quote[Last][p].verdict \notin {"none", "contraoferta"}
<1> DEFINE win == Winner(Last)
<1>0. TypeOK /\ QuotesInOrder /\ Last \in DOMAIN rounds /\ Last \in Nat
  BY Tables DEF AwardInv
<1>1. /\ Ready(Last) /\ win \in Eligible(Last) /\ \A q \in Eligible(Last) : Before(Last, win, q)
  BY <1>0, PreparedIsTheWinner
<1>2. Eligible(Last) \subseteq Providers
  BY <1>0 DEF Eligible, TypeOK
<1> HIDE DEF win
<1>3. \A q \in Providers : /\ quote[Last][q].price \in Nat /\ quote[Last][q].at \in Nat
                           /\ quote[Last][q].turn \in Nat /\ When(Last, q) \in Nat
  BY <1>0, QuoteFields
<1>4. Deadline(Last) \in Nat /\ clock \in Nat
  BY <1>0, <1>1, <1>2, QuoteFields, Numbers DEF TypeOK
<1>5. quote[Last][win].turn > 0
  <2>1. quote[Last][win].verdict # "none"
    BY <1>1 DEF Eligible
  <2> QED
    BY <1>0, <1>1, <1>2, <2>1 DEF QuotesInOrder
<1>6. ASSUME NEW p \in InTime(Last)
      PROVE  win \in InTime(Last) /\ quote[Last][win].price <= quote[Last][p].price
  <2>1. p \in Eligible(Last) /\ ~ Late(Last, p)
    BY <1>2, <1>3, <1>4 DEF InTime, Late
  <2>2. When(Last, p) = 0
    BY <2>1 DEF When
  <2>3. Before(Last, win, p) /\ When(Last, win) \in Nat
    BY <1>1, <1>2, <1>3, <2>1
  <2>4. When(Last, win) = 0
    BY <2>2, <2>3 DEF Before
  <2>5. ~ Late(Last, win)
    BY <1>5, <2>4 DEF When
  <2>6. win \in InTime(Last)
    BY <1>1, <1>2, <1>3, <1>4, <2>5 DEF InTime, Late
  <2>7. quote[Last][win].price <= quote[Last][p].price
    BY <1>1, <1>2, <1>3, <2>1, <2>2, <2>3, <2>4 DEF Before
  <2> QED
    BY <2>6, <2>7
<1>7. ASSUME InTime(Last) = {}, NEW p \in Eligible(Last) PROVE quote[Last][win].turn <= quote[Last][p].turn
  <2>1. Late(Last, win) /\ Late(Last, p)
    BY <1>1, <1>2, <1>3, <1>4, <1>7 DEF InTime, Late
  <2>2. When(Last, win) = quote[Last][win].turn /\ When(Last, p) = quote[Last][p].turn
    BY <2>1 DEF When
  <2> QED
    BY <1>1, <1>2, <1>3, <2>2 DEF Before
<1>8. ASSUME clock < Deadline(Last), NEW p \in Providers, request[Last][p] \in Waiting
      PROVE  quote[Last][p].verdict \notin {"none", "contraoferta"}
  <2>1. ~ StillOpen(Last)
    BY <1>1, <1>4, <1>8 DEF Ready
  <2> QED
    BY <1>8, <2>1 DEF StillOpen
<1> QED
  BY <1>1, <1>6, <1>7, <1>8 DEF win

LEMMA BestAwarded == Spec => AwardIsBest
<1> DEFINE Best ==
      Len(bookings') > Len(bookings) =>
        LET b == bookings'[Len(bookings')]  r == Last IN
        /\ b.round = r /\ b.provider \in Eligible(r)
        /\ \A p \in InTime(r) : /\ b.provider \in InTime(r)
                                /\ quote[r][b.provider].price <= quote[r][p].price
        /\ InTime(r) = {} => \A p \in Eligible(r) : quote[r][b.provider].turn <= quote[r][p].turn
        /\ clock < Deadline(r) => \A p \in Providers : request[r][p] \in Waiting =>
             quote[r][p].verdict \notin {"none", "contraoferta"}
<1>1. AwardInv /\ [Next]_vars => [Best]_vars
  <2> SUFFICES ASSUME AwardInv, [Next]_vars, Len(bookings') > Len(bookings) PROVE Best
    OBVIOUS
  <2>1. Prepared # NoContext /\ bookings'[Len(bookings')] = [round |-> Last, provider |-> Winner(Last)]
    BY OnlyTheCandidate
  <2> QED
    BY <2>1, CandidateIsBest
<1> QED
  BY AwardInvariant, <1>1, PTL DEF Spec, AwardIsBest

\* Numbers of the quotes, said of every state and so of the next.
LEMMA QuoteNumbers ==
  AwardInv => \A r \in DOMAIN rounds : \A p \in Providers :
    /\ quote[r][p].price \in Nat /\ quote[r][p].at \in Nat /\ quote[r][p].turn \in Nat
    /\ rounds[r].received \in Nat /\ Deadline(r) \in Nat /\ quote[r][p].turn <= rounds[r].received
    /\ (quote[r][p].verdict # "none" => quote[r][p].turn > 0)
    /\ \A q \in Providers : quote[r][p].turn = quote[r][q].turn /\ quote[r][p].turn > 0 => p = q
<1> SUFFICES ASSUME AwardInv, NEW r \in DOMAIN rounds, NEW p \in Providers
    PROVE  /\ quote[r][p].price \in Nat /\ quote[r][p].at \in Nat /\ quote[r][p].turn \in Nat
           /\ rounds[r].received \in Nat /\ Deadline(r) \in Nat /\ quote[r][p].turn <= rounds[r].received
           /\ (quote[r][p].verdict # "none" => quote[r][p].turn > 0)
           /\ \A q \in Providers : quote[r][p].turn = quote[r][q].turn /\ quote[r][p].turn > 0 => p = q
  OBVIOUS
<1>1. TypeOK /\ QuotesInOrder
  BY DEF AwardInv
<1>2. /\ quote[r][p].price \in Nat /\ quote[r][p].at \in Nat /\ quote[r][p].turn \in Nat
      /\ rounds[r].received \in Nat /\ Deadline(r) \in Nat
  BY <1>1, QuoteFields
<1> QED
  BY <1>1, <1>2 DEF QuotesInOrder

LEMMA QuoteNumbersNext ==
  AwardInv' => \A r \in DOMAIN rounds' : \A p \in Providers :
    /\ quote'[r][p].price \in Nat /\ quote'[r][p].at \in Nat /\ quote'[r][p].turn \in Nat
    /\ rounds'[r].received \in Nat /\ Deadline(r)' \in Nat /\ quote'[r][p].turn <= rounds'[r].received
    /\ (quote'[r][p].verdict # "none" => quote'[r][p].turn > 0)
    /\ \A q \in Providers : quote'[r][p].turn = quote'[r][q].turn /\ quote'[r][p].turn > 0 => p = q
<1>1. (AwardInv => \A r \in DOMAIN rounds : \A p \in Providers :
    /\ quote[r][p].price \in Nat /\ quote[r][p].at \in Nat /\ quote[r][p].turn \in Nat
    /\ rounds[r].received \in Nat /\ Deadline(r) \in Nat /\ quote[r][p].turn <= rounds[r].received
    /\ (quote[r][p].verdict # "none" => quote[r][p].turn > 0)
    /\ \A q \in Providers : quote[r][p].turn = quote[r][q].turn /\ quote[r][p].turn > 0 => p = q)'
  BY QuoteNumbers, PTL
<1> QED
  BY <1>1

\* While a round can be adjudicated before and after a step, the step leaves it its
\* deadline, and whoever is eligible was, with the same quote, or has just quoted.
LEMMA EligibleMoves ==
  ASSUME AwardInv, [Next]_vars, NEW r, r = Last, r = Last', Ready(r), Ready(r)', active' \subseteq active
  PROVE  /\ Deadline(r)' = Deadline(r)
         /\ \/ UNCHANGED quote /\ Eligible(r)' \subseteq Eligible(r)
            \/ \E q \in Providers :
                 /\ quote'[r][q].at = clock /\ quote'[r][q].turn = rounds[r].received + 1
                 /\ \A s \in Providers \ {q} :
                      quote'[r][s] = quote[r][s] /\ (s \in Eligible(r)' => s \in Eligible(r))
<1>0. /\ TypeOK /\ op.mandate <= Last /\ Last \in Nat /\ r \in DOMAIN rounds /\ r \in DOMAIN request
      /\ r \in DOMAIN quote /\ request[r] \in [Providers -> Waiting \cup Ended] /\ quote[r] \in [Providers -> QuoteRow]
      /\ clock \in Nat /\ active \subseteq Providers /\ Pickup \in Nat
  BY Tables, Numbers DEF AwardInv, ActiveIsLast, TypeOK
<1>1. /\ rounds[r].dispatched # Never /\ rounds[r].status = "active" /\ rounds'[r].status = "active"
  BY DEF Ready, Adjudicable
<1> DEFINE Less == UNCHANGED quote /\ Eligible(r)' \subseteq Eligible(r) /\ rounds' = rounds
<1>2. ASSUME UNCHANGED <<rounds, quote>>, clock' \in Nat, clock' >= clock,
             \A s \in Providers : request'[r][s] = "responded" => request[r][s] = "responded"
      PROVE  Less
    BY <1>0, <1>2 DEF Eligible
<1>3. ASSUME NEW q \in Providers, EndRequest(q) PROVE Less
  <2>1. UNCHANGED <<rounds, quote, clock>>
    BY <1>3 DEF EndRequest
  <2>2. PICK label \in {"cancelled", "expired"} : request' = [request EXCEPT ![r][q] = label]
    BY <1>3 DEF EndRequest
  <2>3. \A s \in Providers : request'[r][s] = "responded" => request[r][s] = "responded"
    BY <1>0, <2>2
  <2> QED
    BY <1>0, <1>2, <2>1, <2>3
<1>4. ASSUME UNCHANGED <<rounds, quote, request>>, clock' \in {clock, clock + 1} PROVE Less
  BY <1>0, <1>2, <1>4
<1>5. ASSUME Dispatch \/ ChangeDetails \/ ConfirmMandate \/ CancelBooking PROVE FALSE
  <2>1. ~ Dispatch
    BY <1>1 DEF Dispatch
  <2>2. ASSUME ChangeDetails PROVE FALSE
    <3>1. PICK e \in RoundRow : rounds' = [rounds EXCEPT ![Last] = e] /\ e.status = "superseded"
      BY <1>0, <2>2, ChangeType
    <3>2. rounds'[Last] = e
      BY <1>0, <3>1, Overwritten
    <3> QED
      BY <1>1, <3>1, <3>2
  <2>3. ASSUME ConfirmMandate \/ CancelBooking PROVE FALSE
    <3>1. PICK e \in RoundRow : rounds' = Append(rounds, e)
      BY <1>0, <2>3, OpenedType
    <3>2. Len(rounds') = Len(rounds) + 1 /\ Len(rounds) \in Nat
      BY <1>0, <3>1, SeqGrow DEF TypeOK
    <3> QED
      BY <3>2 DEF Last
  <2> QED
    BY <1>5, <2>1, <2>2, <2>3
<1>6. ASSUME NEW w \in Workers, Finalize(w), Prepared # NoContext /\ Prepared \in reviews PROVE FALSE
  <2>1. PICK e \in RoundRow : rounds' = [rounds EXCEPT ![Last] = e] /\ e.status = "selected"
    BY <1>0, <1>6, AwardType
  <2>2. rounds'[Last] = e
    BY <1>0, <2>1, Overwritten
  <2> QED
    BY <1>1, <2>1, <2>2
<1>7. ASSUME NEW w \in Workers, Advance(w) \/ JudgeFails(w) \/ Abandon(w) \/ Restart(w) PROVE Less
  <2>1. \/ UNCHANGED <<rounds, quote, request, clock>>
        \/ Finalize(w) /\ Prepared # NoContext /\ Prepared \in reviews
    BY <1>7 DEF Advance, Prepare, Lookup, Ratified, Record, Finalize, JudgeFails, Abandon, Restart, work
  <2> QED
    BY <1>4, <1>6, <2>1
<1>8. ASSUME Tick \/ UNCHANGED vars \/ \E q \in Providers : SwitchProvider(q) PROVE Less
  <2>1. UNCHANGED <<rounds, quote, request>> /\ clock' \in {clock, clock + 1}
    BY <1>8 DEF Tick, SwitchProvider, vars, work
  <2> QED
    BY <1>4, <2>1
<1>9. ASSUME NEW q \in Providers, NEW price \in Price, NEW accept \in BOOLEAN, CreateQuote(q, price, accept)
      PROVE  /\ Deadline(r)' = Deadline(r)
             /\ quote'[r][q].at = clock /\ quote'[r][q].turn = rounds[r].received + 1
             /\ \A s \in Providers \ {q} :
                  quote'[r][s] = quote[r][s] /\ (s \in Eligible(r)' => s \in Eligible(r))
  <2>1. PICK e \in RoundRow : /\ rounds' = [rounds EXCEPT ![Last] = e]
                              /\ e.dispatched = rounds[Last].dispatched
    BY <1>0, <1>9, QuoteType
  <2>2. rounds'[r] = e
    BY <1>0, <2>1, Overwritten
  <2>3. PICK d \in QuoteRow : /\ quote' = [quote EXCEPT ![Last] = [quote[Last] EXCEPT ![q] = d]]
                              /\ d.turn = rounds[Last].received + 1 /\ d.at = clock
    BY <1>0, <1>9, QuoteType
  <2>4. request' = [request EXCEPT ![Last] = [request[Last] EXCEPT ![q] = "responded"]]
    BY <1>0, <1>9, QuoteType
  <2>5. quote'[r][q] = d /\ \A s \in Providers \ {q} : quote'[r][s] = quote[r][s] /\ request'[r][s] = request[r][s]
    BY <1>0, <2>3, <2>4
  <2>6. clock' = clock /\ active' = active
    BY <1>9 DEF CreateQuote
  <2>7. Deadline(r)' = Deadline(r)
    BY <2>1, <2>2 DEF Deadline
  <2>8. \A s \in Providers \ {q} : s \in Eligible(r)' => s \in Eligible(r)
    BY <2>5, <2>6 DEF Eligible
  <2> QED
    BY <2>3, <2>5, <2>7, <2>8
<1>10. Less => Deadline(r)' = Deadline(r)
  BY DEF Deadline
<1>11. Less \/ \E q \in Providers, price \in Price, accept \in BOOLEAN : CreateQuote(q, price, accept)
  <2> HIDE DEF Less
  <2> QED
    BY <1>3, <1>5, <1>7, <1>8 DEF Next
<1> QED
  BY <1>9, <1>10, <1>11

\* The step on which CandidateStays is about.
LEMMA SameCandidate ==
  ASSUME AwardInv, AwardInv', [Next]_vars, NEW p \in Providers, NEW r, r = Last, r = Last',
         Ready(r), clock > Deadline(r), Winner(r) = p, Ready(r)', p \in Eligible(r)',
         quote'[r][p] = quote[r][p], active' \subseteq active
  PROVE  Winner(r)' = p
<1>0. /\ TypeOK /\ TypeOK' /\ r \in DOMAIN rounds /\ r \in DOMAIN rounds'
      /\ Eligible(r) \subseteq Providers /\ Eligible(r)' \subseteq Providers /\ clock \in Nat
  <2>1. TypeOK /\ TypeOK'
    BY DEF AwardInv
  <2>2. r \in DOMAIN rounds
    BY <2>1, Tables
  <2>3. r \in DOMAIN rounds'
    BY <2>1 DEF TypeOK, Last
  <2> QED
    BY <2>1, <2>2, <2>3, Numbers DEF Eligible, TypeOK
<1>1. Eligible(r) # {}
  BY DEF Ready
<1>2. p \in Eligible(r) /\ \A q \in Eligible(r) : Before(r, p, q)
  BY <1>0, <1>1, WinnerIsFirst
<1>3. \A q \in Providers :
        /\ quote[r][q].price \in Nat /\ quote[r][q].at \in Nat /\ quote[r][q].turn \in Nat
        /\ rounds[r].received \in Nat /\ Deadline(r) \in Nat /\ quote[r][q].turn <= rounds[r].received
  BY <1>0, QuoteNumbers
<1>4. \A q \in Providers :
        /\ quote'[r][q].price \in Nat /\ quote'[r][q].at \in Nat /\ quote'[r][q].turn \in Nat
        /\ (quote'[r][q].verdict # "none" => quote'[r][q].turn > 0)
        /\ \A s \in Providers : quote'[r][q].turn = quote'[r][s].turn /\ quote'[r][q].turn > 0 => q = s
  BY <1>0, QuoteNumbersNext
<1>5. Deadline(r)' = Deadline(r)
  BY EligibleMoves
<1>6. \A q \in Providers : quote'[r][q] = quote[r][q] => When(r, q)' = When(r, q)
  BY <1>5 DEF When, Late
<1>7. ASSUME NEW q \in Eligible(r)' PROVE Before(r, p, q)'
  <2>1. CASE q \in Eligible(r) /\ quote'[r][q] = quote[r][q]
    <3>1. Before(r, p, q) /\ When(r, p)' = When(r, p) /\ When(r, q)' = When(r, q)
      BY <1>0, <1>2, <1>6, <2>1
    <3> QED
      BY <2>1, <3>1 DEF Before
  <2>2. CASE quote'[r][q].at = clock /\ quote'[r][q].turn = rounds[r].received + 1
    <3>1. When(r, q)' = rounds[r].received + 1
      BY <1>5, <2>2 DEF When, Late
    <3>2. When(r, p)' <= rounds[r].received /\ When(r, p)' \in Nat
      BY <1>3, <1>6 DEF When
    <3>3. When(r, p)' < When(r, q)'
      BY <1>3, <3>1, <3>2
    <3> QED
      BY <3>3 DEF Before
  <2> QED
    BY <1>0, <2>1, <2>2, EligibleMoves
<1>8. ASSUME NEW c \in Eligible(r)', \A q \in Eligible(r)' : Before(r, c, q)' PROVE c = p
  <2>1. Before(r, c, p)' /\ Before(r, p, c)'
    BY <1>7, <1>8
  <2>2. When(r, c)' \in Nat /\ When(r, p)' \in Nat
    BY <1>0, <1>4 DEF When
  <2>3. quote'[r][c].turn = quote'[r][p].turn
    BY <1>0, <1>4, <2>1, <2>2 DEF Before
  <2>4. quote'[r][c].turn > 0
    BY <1>0, <1>4 DEF Eligible
  <2> QED
    BY <1>0, <1>4, <2>3, <2>4
<1> QED
  BY <1>7, <1>8 DEF Winner

\* At the moment of the booking the best of what was offered wins, and once the
\* comparison is over nothing a carrier does displaces the candidate under review
\* (finalize_operation_sourcing, docs/bidding-minimal.md, "Cuándo cerrar").
THEOREM FairAward == Spec => AwardIsFair
<1> DEFINE Stays(p) ==
      LET r == Last IN
      /\ Ready(r) /\ clock > Deadline(r) /\ Winner(r) = p
      /\ Last' = r /\ Ready(r)' /\ p \in Eligible(r)' /\ quote'[r][p] = quote[r][p]
      /\ active' \subseteq active
      => Winner(r)' = p
<1>1. AwardInv /\ AwardInv' /\ [Next]_vars => [\A p \in Providers : Stays(p)]_vars
  <2> SUFFICES ASSUME AwardInv, AwardInv', [Next]_vars, NEW p \in Providers PROVE Stays(p)
    OBVIOUS
  <2> SUFFICES ASSUME Ready(Last), clock > Deadline(Last), Winner(Last) = p, Last' = Last, Ready(Last)',
                      p \in Eligible(Last)', quote'[Last][p] = quote[Last][p], active' \subseteq active
      PROVE  Winner(Last)' = p
    OBVIOUS
  <2>1. PICK r : r = Last
    OBVIOUS
  <2>2. r = Last'
    BY <2>1
  <2> QED
    BY <2>1, <2>2, SameCandidate
<1>2. Spec => CandidateStays
  BY AwardInvariant, <1>1, PTL DEF Spec, CandidateStays
<1> QED
  BY BestAwarded, <1>2 DEF AwardIsFair

(***************************************************************************)
(* What the script of the demonstration promises (DemoSeed), for any       *)
(* fixtures, caller ids, rows and runs: it may be stopped and run again at *)
(* any time, beside other people's work.  The invariant holds together     *)
(* what a run has in hand and what it and others have left in the tables.  *)
(***************************************************************************)
CONSTANTS Fixtures, Demo, Quoting, Phone, NoPhone, Malformed, Configs,
          MaxContacts, MaxProviders, MaxMandates, MaxRuns, MaxSeedFaults, MaxEdits
VARIABLES contacts, providers, operation, call, mandates, requests, quotes,
          run, settled, alone, runs, seedFaults, edits
Seed == INSTANCE DemoSeed WITH faults <- seedFaults, MaxFaults <- MaxSeedFaults

\* The instance counts sets with the operator it extends.
LEMMA SameCardinality == ASSUME NEW S PROVE Seed!Cardinality(S) = Cardinality(S)
BY DEF Seed!Cardinality, Cardinality

------------------------------------------------------------------------------
(* The invariant *)

Runs == [pc : Seed!Points, phones : Configs, unread : SUBSET {"contacts", "providers"},
         contacts : [1 .. MaxContacts -> Seed!Rows], providers : [1 .. MaxProviders -> Seed!Rows],
         contact : 0 .. MaxContacts, ids : [Seed!Fixture -> 0 .. MaxProviders], at : Seed!Fixture,
         operation : Seed!Operations, request : Seed!Requests]

\* Where a run is after it has written the directory.
Filling == {"mandate", "call", "insertMandate", "collect", "attach"}
Asking == {"findRequest", "insertRequest", "respond", "quote", "status"}
Written == {"operation"} \cup Filling \cup Asking

\* The providers it has written, the last of them, and the requests it is done with.
Reached == IF run.pc = "provider" THEN run.at - 1
           ELSE IF run.pc \in Written \cup {"done"} THEN Fixtures ELSE 0
FixtureRow(f) == [name |-> f, key |-> f, phone |-> run.phones[f], active |-> TRUE]
Processed(f) == run.pc = "status" \/ (run.pc \in Asking /\ f < run.at)

\* The database: whom a key names can be called, and a number has one contact.
RowsKeyed ==
  /\ \A i \in 1 .. MaxProviders : providers[i].key # 0 => providers[i].phone # NoPhone
  /\ \A i, j \in 1 .. MaxContacts :
       contacts[i].phone = contacts[j].phone /\ contacts[i].phone # NoPhone => i = j
  /\ \A i, j \in 1 .. MaxProviders :
       providers[i].key # 0 /\ providers[i].key = providers[j].key => i = j

\* Nobody but a run writes keys: where they differ from those it has read, it wrote them.
KeysRead ==
  run.pc \in {"load", "contact", "provider"} /\ "providers" \notin run.unread =>
    \A i \in 1 .. MaxProviders :
      /\ providers[i].key = run.providers[i].key \/ providers[i].key \in 1 .. (run.at - 1)
      /\ run.providers[i].key # 0 => run.providers[i].phone # NoPhone

\* What a run has in hand.
InHand ==
  /\ run.pc \notin Seed!Stopped => \A f \in 0 .. Fixtures : run.phones[f] \in Phone
  /\ run.pc \in {"contact", "provider"} => run.unread = {}
  /\ run.pc \in {"load", "contact", "operation"} \cup Filling => run.at = 1
  /\ run.pc \in {"provider"} \cup Written => run.contact # 0
  /\ \A g \in 1 .. Reached : run.ids[g] # 0

\* The operation it has found or inserted does not go back.
OperationHeld ==
  /\ run.pc \in Filling \cup Asking =>
       /\ operation.contact = run.contact /\ operation.status # "absent"
       /\ run.operation.mandate # 0 => operation.mandate # 0
  /\ run.pc \in Asking => operation.mandate # 0

\* The requests it is done with are there, and answered where they are to be.
RequestsHeld ==
  /\ run.pc \in Asking \ {"status"} => \E g \in Demo : run.at <= g
  /\ run.pc = "insertRequest" => run.at \in Demo
  /\ run.pc \in {"respond", "quote"} =>
       /\ run.at \in Quoting
       /\ requests[run.at].status # "absent" /\ requests[run.at].provider = run.ids[run.at]
  /\ run.pc = "quote" \/ (run.pc = "respond" /\ run.request.status = "responded") =>
       requests[run.at].status = "responded"
  /\ \A f \in Demo : Processed(f) =>
       requests[f].status # "absent" /\ requests[f].provider = run.ids[f]
  /\ \A f \in Quoting : Processed(f) => requests[f].status = "responded" /\ f \in quotes

\* A run nobody disturbs finds what it has written as it wrote it.
Undisturbed ==
  alone =>
    /\ \A i \in 1 .. MaxProviders :
         providers[i].key \in 1 .. Reached => providers[i] = FixtureRow(providers[i].key)
    /\ \A g \in 1 .. Reached :
         (\A h \in 1 .. Reached : h > g => run.ids[h] # run.ids[g]) => providers[run.ids[g]].key = g
    /\ run.pc \in {"provider"} \cup Written => contacts[run.contact] = Seed!ClientRow
    /\ run.pc \in Filling \cup Asking => run.operation.status = operation.status
    /\ Seed!CompletedIsWhole

\* What a completed run has left, and a later run then finds.
DemonstrationLeft ==
  /\ operation.status # "absent" /\ operation.mandate # 0
  /\ \A f \in Demo : requests[f].status # "absent"
  /\ \A f \in Quoting : requests[f].status = "responded"
  /\ quotes = Quoting
  /\ run.pc \notin {"call", "insertMandate", "collect", "attach", "insertRequest"}
  /\ run.pc = "mandate" => run.operation.mandate # 0
  /\ run.pc = "respond" => run.request.status = "responded"

\* It is there while nobody has changed the directory since.
AsCompleted ==
  /\ settled \subseteq {run.phones}
  /\ settled # {} =>
       /\ \A i \in 1 .. MaxProviders :
            providers[i].key # 0 => providers[i] = FixtureRow(providers[i].key)
       /\ \E i \in 1 .. MaxContacts : contacts[i] = Seed!ClientRow
       /\ DemonstrationLeft

SeedInv == /\ Seed!TypeOK /\ RowsKeyed /\ KeysRead /\ InHand /\ OperationHeld /\ RequestsHeld
           /\ Undisturbed /\ AsCompleted

------------------------------------------------------------------------------
(* What a run is when it begins, ends or goes on *)

LEMMA SeedRange ==
  ASSUME Seed!SeedAssumption
  PROVE  /\ 0 \in 0 .. MaxContacts /\ 0 \in 0 .. MaxProviders /\ 0 \in 0 .. MaxMandates
         /\ 1 \in Seed!Fixture /\ Seed!NoRow \in Seed!Rows
         /\ Seed!NoOperation \in Seed!Operations /\ Seed!NoRequest \in Seed!Requests
<1>1. /\ 0 \in 0 .. MaxContacts /\ 0 \in 0 .. MaxProviders /\ 0 \in 0 .. MaxMandates
      /\ 1 \in Seed!Fixture /\ 0 \in 0 .. Fixtures /\ Seed!Stranger \in Seed!Stranger .. Fixtures
  BY DEF Seed!SeedAssumption, Seed!Fixture, Seed!Stranger
<1> QED BY <1>1
           DEF Seed!NoRow, Seed!Rows, Seed!NoOperation, Seed!Operations, Seed!NoRequest,
               Seed!Requests, Seed!Status

LEMMA UnreadRun ==
  ASSUME Seed!SeedAssumption, NEW phones \in Configs
  PROVE  \E r \in Runs : /\ r = Seed!Unread(phones) /\ r.pc = "load" /\ r.phones = phones /\ r.at = 1
                         /\ r.unread = {"contacts", "providers"}
<1>1. [i \in 1 .. MaxContacts |-> Seed!NoRow] \in [1 .. MaxContacts -> Seed!Rows]
  BY SeedRange
<1>2. [i \in 1 .. MaxProviders |-> Seed!NoRow] \in [1 .. MaxProviders -> Seed!Rows]
  BY SeedRange
<1>3. [f \in Seed!Fixture |-> 0] \in [Seed!Fixture -> 0 .. MaxProviders]
  BY SeedRange
<1>4. PICK r \in Runs : r = Seed!Unread(phones)
  BY <1>1, <1>2, <1>3, SeedRange DEF Seed!Unread, Runs, Seed!Points
<1>5. r.pc = "load" /\ r.phones = phones /\ r.at = 1 /\ r.unread = {"contacts", "providers"}
  BY <1>4 DEF Seed!Unread
<1> QED BY <1>4, <1>5

LEMMA EndedRun ==
  ASSUME Seed!SeedAssumption, NEW phones \in Configs, NEW pc \in Seed!Points
  PROVE  \E r \in Runs : /\ r = Seed!Ended(phones, pc) /\ r.pc = pc /\ r.phones = phones /\ r.at = 1
                         /\ r.unread = {}
<1>1. PICK q \in Runs : q = Seed!Unread(phones) /\ q.phones = phones /\ q.at = 1
  BY UnreadRun
<1>2. PICK r \in Runs : r = [q EXCEPT !.pc = pc, !.unread = {}]
  BY DEF Runs
<1>3. r.pc = pc /\ r.phones = phones /\ r.at = 1 /\ r.unread = {}
  BY <1>1, <1>2 DEF Runs
<1> QED BY <1>1, <1>2, <1>3 DEF Seed!Ended

\* A run that only goes on.
LEMMA GoesOn ==
  ASSUME NEW r \in Runs, NEW pc \in Seed!Points
  PROVE  \E q \in Runs : /\ q = [r EXCEPT !.pc = pc] /\ q.pc = pc
                         /\ q.phones = r.phones /\ q.unread = r.unread /\ q.contacts = r.contacts
                         /\ q.providers = r.providers /\ q.contact = r.contact /\ q.ids = r.ids
                         /\ q.at = r.at /\ q.operation = r.operation /\ q.request = r.request
<1>1. PICK q \in Runs : q = [r EXCEPT !.pc = pc]
  BY DEF Runs
<1>2. /\ q.pc = pc /\ q.phones = r.phones /\ q.unread = r.unread /\ q.contacts = r.contacts
      /\ q.providers = r.providers /\ q.contact = r.contact /\ q.ids = r.ids
      /\ q.at = r.at /\ q.operation = r.operation /\ q.request = r.request
  BY <1>1 DEF Runs
<1> QED BY <1>1, <1>2

\* The types of the rows, of a run and of the counters.
TablesTyped ==
  /\ contacts \in [1 .. MaxContacts -> Seed!Rows] /\ providers \in [1 .. MaxProviders -> Seed!Rows]
  /\ operation \in Seed!Operations /\ call \in BOOLEAN /\ mandates \in 0 .. MaxMandates
  /\ requests \in [Seed!Fixture -> Seed!Requests] /\ quotes \subseteq Quoting
CountersTyped ==
  /\ settled \in SUBSET Configs /\ alone \in BOOLEAN
  /\ runs \in 0 .. MaxRuns /\ seedFaults \in 0 .. MaxSeedFaults /\ edits \in 0 .. MaxEdits
LEMMA TypeParts == Seed!TypeOK <=> TablesTyped /\ run \in Runs /\ CountersTyped
BY DEF Seed!TypeOK, TablesTyped, Runs, CountersTyped
LEMMA TypePartsThen == Seed!TypeOK' <=> TablesTyped' /\ run' \in Runs /\ CountersTyped'
BY DEF Seed!TypeOK, TablesTyped, Runs, CountersTyped

------------------------------------------------------------------------------
(* Steps that write nothing *)

\* What SeedIsSafe says of a step, apart from what the invariant says of its end.
StepIsSafe == Seed!ReseedChangesNothing /\ Seed!ProgressKept

LEMMA NothingWritten == ASSUME Seed!TypeOK, UNCHANGED Seed!tables PROVE StepIsSafe
<1>1. [operation EXCEPT !.status = operation.status] = operation
  BY DEF Seed!TypeOK, Seed!Operations
<1>2. operation' = operation /\ operation.status \in Seed!Status
  BY DEF Seed!TypeOK, Seed!Operations, Seed!tables
<1>3. Seed!Rank[operation.status] >= Seed!Rank[operation.status]
  <2>1. Seed!Rank[operation.status] \in {1, 2, 3}
    BY <1>2 DEF Seed!Rank
  <2> QED BY <2>1
<1> QED BY <1>1, <1>2, <1>3
           DEF StepIsSafe, Seed!ReseedChangesNothing, Seed!ProgressKept, Seed!tables

LEMMA StepOfOthers == ASSUME UNCHANGED run PROVE StepIsSafe
BY DEF StepIsSafe, Seed!ReseedChangesNothing, Seed!ProgressKept, Seed!SeedStep

\* A run that is over has nothing in hand.
LEMMA RunIsOver ==
  ASSUME Seed!SeedAssumption, Seed!TypeOK, RowsKeyed, AsCompleted, run' \in Runs,
         run'.pc \in {"idle", "failed"},
         UNCHANGED Seed!tables, settled' \subseteq settled, settled' # {} => run'.phones = run.phones,
         CountersTyped'
  PROVE  SeedInv'
<1>1. Seed!TypeOK'
  BY TypeParts, TypePartsThen DEF TablesTyped, Seed!tables
<1>2. RowsKeyed' /\ KeysRead'
  BY DEF RowsKeyed, KeysRead, Seed!tables
<1>3. Reached' = 0
  BY DEF Reached, Written, Filling, Asking
<1>4. InHand'
  BY <1>3 DEF InHand, Seed!Stopped, Written, Filling, Asking
<1>5. OperationHeld' /\ RequestsHeld'
  BY DEF OperationHeld, RequestsHeld, Processed, Filling, Asking
<1>6. Undisturbed'
  BY <1>3 DEF Undisturbed, Seed!CompletedIsWhole, Written, Filling, Asking
<1>7. AsCompleted'
  BY DEF AsCompleted, DemonstrationLeft, Seed!tables, FixtureRow, Seed!ClientRow
<1> QED BY <1>1, <1>2, <1>4, <1>5, <1>6, <1>7 DEF SeedInv

LEMMA ThrowStep ==
  ASSUME Seed!SeedAssumption, SeedInv, Seed!Throw, UNCHANGED settled, CountersTyped'
  PROVE  SeedInv' /\ StepIsSafe
<1>1. run \in Runs /\ Seed!TypeOK /\ RowsKeyed /\ AsCompleted /\ "failed" \in Seed!Points
  BY TypeParts DEF SeedInv, Seed!Points
<1>2. run.phones \in Configs
  BY <1>1 DEF Runs
<1>3. run' \in Runs /\ run'.pc = "failed" /\ run'.phones = run.phones
  BY <1>1, <1>2, EndedRun DEF Seed!Throw
<1>4. UNCHANGED Seed!tables
  BY DEF Seed!Throw
<1> QED BY <1>1, <1>3, <1>4, RunIsOver, NothingWritten

LEMMA CrashStep == ASSUME Seed!SeedAssumption, SeedInv, Seed!Crash PROVE SeedInv' /\ StepIsSafe
<1>1. CountersTyped'
  BY TypeParts DEF SeedInv, CountersTyped, Seed!Crash, Seed!SeedAssumption
<1> QED BY <1>1, ThrowStep DEF Seed!Crash

LEMMA QuietTyped == ASSUME SeedInv, Seed!Quiet PROVE CountersTyped' /\ UNCHANGED <<settled, alone>>
BY TypeParts DEF SeedInv, Seed!Quiet, CountersTyped, Seed!counters

LEMMA StartStep ==
  ASSUME Seed!SeedAssumption, SeedInv, NEW phones \in Configs, Seed!Start(phones)
  PROVE  SeedInv' /\ StepIsSafe
<1>1. run \in Runs /\ Seed!TypeOK /\ RowsKeyed /\ AsCompleted /\ CountersTyped
  BY TypeParts DEF SeedInv
<1>2. CountersTyped' /\ settled' \subseteq settled /\ settled' \subseteq {phones}
  BY <1>1 DEF CountersTyped, Seed!Start, Seed!SeedAssumption
<1>3. UNCHANGED Seed!tables
  BY DEF Seed!Start
<1>4. settled' # {} => phones = run.phones
  BY <1>1, <1>2 DEF AsCompleted, DemonstrationLeft
<1>5. CASE ~Seed!ValidCallerIds(phones)
  <2>1. run' \in Runs /\ run'.pc = "failed" /\ run'.phones = phones
    BY <1>5, EndedRun DEF Seed!Start, Seed!Points
  <2> QED BY <1>1, <1>2, <1>3, <1>4, <2>1, RunIsOver, NothingWritten
<1>6. CASE Seed!ValidCallerIds(phones)
  <2>1. /\ run' \in Runs /\ run'.pc = "load" /\ run'.phones = phones /\ run'.at = 1
        /\ run'.unread = {"contacts", "providers"}
    BY <1>6, UnreadRun DEF Seed!Start
  <2>2. Seed!TypeOK'
    BY <1>1, <1>2, <1>3, <2>1, TypeParts, TypePartsThen DEF TablesTyped, Seed!tables
  <2>3. RowsKeyed' /\ KeysRead'
    BY <1>1, <1>3, <2>1 DEF RowsKeyed, KeysRead, Seed!tables
  <2>4. Reached' = 0
    BY <2>1 DEF Reached, Written, Filling, Asking
  <2>5. \A f \in 0 .. Fixtures : phones[f] \in Phone
    BY <1>6 DEF Seed!ValidCallerIds, Seed!SeedAssumption
  <2>6. InHand'
    BY <2>1, <2>4, <2>5 DEF InHand, Seed!Stopped, Written, Filling, Asking
  <2>7. OperationHeld' /\ RequestsHeld'
    BY <2>1 DEF OperationHeld, RequestsHeld, Processed, Filling, Asking
  <2>8. Undisturbed'
    BY <2>1, <2>4 DEF Undisturbed, Seed!CompletedIsWhole, Written, Filling, Asking
  <2>9. AsCompleted'
    BY <1>1, <1>2, <1>3, <1>4, <2>1
       DEF AsCompleted, DemonstrationLeft, Seed!tables, FixtureRow, Seed!ClientRow
  <2> QED BY <1>1, <1>3, <2>2, <2>3, <2>6, <2>7, <2>8, <2>9, NothingWritten DEF SeedInv
<1> QED BY <1>5, <1>6

------------------------------------------------------------------------------
(* Steps of other people *)

LEMMA OthersTyped == ASSUME Seed!SeedAssumption, SeedInv, NEW ended \in BOOLEAN, Seed!Others(ended)
  PROVE CountersTyped' /\ ~alone' /\ settled' = IF ended THEN {} ELSE settled
<1>1. CountersTyped
  BY TypeParts DEF SeedInv
<1>2. edits' \in 0 .. MaxEdits
  BY <1>1 DEF Seed!Others, CountersTyped, Seed!SeedAssumption
<1>3. settled' = (IF ended THEN {} ELSE settled) /\ settled' \in SUBSET Configs
  BY <1>1 DEF Seed!Others, CountersTyped
<1> QED BY <1>1, <1>2, <1>3 DEF Seed!Others, CountersTyped

\* They leave what a run has in hand; the directory they change is not that of a
\* completed run any more.
LEMMA DirectoryEdited ==
  ASSUME Seed!SeedAssumption, SeedInv, Seed!Others(TRUE), TablesTyped', RowsKeyed',
         UNCHANGED <<operation, mandates, requests>>,
         \A i \in 1 .. MaxProviders : providers'[i].key = providers[i].key
  PROVE  SeedInv' /\ StepIsSafe
<1>1. UNCHANGED <<run, quotes, call>> /\ settled' = {} /\ ~alone' /\ CountersTyped'
  BY OthersTyped DEF Seed!Others
<1>2. Seed!TypeOK'
  BY <1>1, TypeParts, TypePartsThen DEF SeedInv
<1>3. KeysRead'
  BY <1>1 DEF SeedInv, KeysRead
<1>4. InHand' /\ OperationHeld' /\ RequestsHeld'
  BY <1>1 DEF SeedInv, InHand, Reached, OperationHeld, RequestsHeld, Processed
<1>5. Undisturbed' /\ AsCompleted'
  BY <1>1 DEF Undisturbed, AsCompleted, DemonstrationLeft
<1> QED BY <1>1, <1>2, <1>3, <1>4, <1>5, StepOfOthers DEF SeedInv

LEMMA EditContactStep ==
  ASSUME Seed!SeedAssumption, SeedInv, NEW i \in 1 .. MaxContacts, NEW row \in Seed!Rows,
         Seed!EditContact(i, row)
  PROVE  SeedInv' /\ StepIsSafe
<1>1. /\ TablesTyped /\ RowsKeyed /\ Seed!Others(TRUE) /\ contacts' = [contacts EXCEPT ![i] = row]
      /\ UNCHANGED <<providers, operation, mandates, requests, quotes, call>>
  BY TypeParts DEF SeedInv, Seed!EditContact, Seed!Others
<1>2. TablesTyped'
  BY <1>1 DEF TablesTyped
<1>3. \A j \in 1 .. MaxContacts : contacts[j].phone = row.phone => j = i
  BY <1>1 DEF Seed!EditContact, Seed!PhoneAllowed, Seed!Owners, TablesTyped
<1>4. contacts'[i] = row /\ \A j \in 1 .. MaxContacts : j # i => contacts'[j] = contacts[j]
  BY <1>1 DEF TablesTyped
<1>5. RowsKeyed'
  BY <1>1, <1>3, <1>4 DEF RowsKeyed
<1> QED BY <1>1, <1>2, <1>5, DirectoryEdited

LEMMA EditProviderStep ==
  ASSUME Seed!SeedAssumption, SeedInv, NEW i \in 1 .. MaxProviders, NEW row \in Seed!Rows,
         Seed!EditProvider(i, row)
  PROVE  SeedInv' /\ StepIsSafe
<1>1. /\ TablesTyped /\ RowsKeyed /\ Seed!Others(TRUE) /\ providers' = [providers EXCEPT ![i] = row]
      /\ row.phone \in Phone /\ row.key = providers[i].key
      /\ UNCHANGED <<contacts, operation, mandates, requests, quotes, call>>
  BY TypeParts DEF SeedInv, Seed!EditProvider, Seed!Others
<1>2. TablesTyped'
  BY <1>1 DEF TablesTyped
<1>3. providers'[i] = row /\ \A j \in 1 .. MaxProviders : j # i => providers'[j] = providers[j]
  BY <1>1 DEF TablesTyped
<1>4. \A j \in 1 .. MaxProviders : providers'[j].key = providers[j].key
  BY <1>1, <1>3
<1>5. row.phone # NoPhone
  BY <1>1 DEF Seed!SeedAssumption
<1>6. RowsKeyed'
  BY <1>1, <1>3, <1>4, <1>5 DEF RowsKeyed
<1> QED BY <1>1, <1>2, <1>4, <1>6, DirectoryEdited

\* The client and the sourcing leave the directory, the operation's contact, what
\* has a mandate with one, and answered requests.
LEMMA OperationMoved ==
  ASSUME Seed!SeedAssumption, SeedInv, Seed!Others(FALSE), TablesTyped', UNCHANGED <<contacts,
         providers>>,
         operation'.contact = operation.contact,
         operation.status # "absent" => operation'.status # "absent",
         operation.mandate # 0 => operation'.mandate # 0,
         \A f \in Seed!Fixture :
           /\ requests'[f].provider = requests[f].provider
           /\ requests[f].status # "absent" => requests'[f].status # "absent"
           /\ requests[f].status = "responded" => requests'[f].status = "responded"
  PROVE  SeedInv' /\ StepIsSafe
<1>1. UNCHANGED <<run, quotes, call>> /\ settled' = settled /\ ~alone' /\ CountersTyped'
  BY OthersTyped DEF Seed!Others
<1>2. Seed!TypeOK'
  BY <1>1, TypeParts, TypePartsThen DEF SeedInv
<1>3. RowsKeyed' /\ KeysRead' /\ InHand'
  BY <1>1 DEF SeedInv, RowsKeyed, KeysRead, InHand, Reached
<1>4. OperationHeld'
  BY <1>1 DEF SeedInv, OperationHeld
<1>5. Demo \subseteq Seed!Fixture /\ Quoting \subseteq Seed!Fixture /\ run.at \in Seed!Fixture
  BY TypeParts DEF Seed!SeedAssumption, SeedInv, Runs
<1>6. RequestsHeld'
  BY <1>1, <1>5 DEF SeedInv, RequestsHeld, Processed
<1>7. Undisturbed'
  BY <1>1 DEF Undisturbed
<1>8. AsCompleted'
  BY <1>1, <1>5 DEF SeedInv, AsCompleted, DemonstrationLeft, FixtureRow, Seed!ClientRow
<1> QED BY <1>1, <1>2, <1>3, <1>4, <1>6, <1>7, <1>8, StepOfOthers DEF SeedInv

LEMMA TransitionsPresent ==
  ASSUME NEW s \in Seed!Status, NEW new \in Seed!Transitions[s]
  PROVE  new \in Seed!Status /\ new # "absent" /\ (new = "quotes_received" => s = "sourcing")
BY DEF Seed!Transitions, Seed!Status

LEMMA ClientConfirmsStep ==
  ASSUME Seed!SeedAssumption, SeedInv, Seed!ClientConfirms PROVE SeedInv' /\ StepIsSafe
<1>1. /\ TablesTyped /\ Seed!Others(FALSE) /\ mandates' = mandates + 1 /\ mandates < MaxMandates
      /\ operation' = [operation EXCEPT !.mandate = mandates + 1, !.unconfirmed = FALSE,
                                        !.status = "sourcing"]
      /\ UNCHANGED <<contacts, providers, requests, quotes, call>>
  BY TypeParts DEF SeedInv, Seed!ClientConfirms, Seed!Others
<1>2. PICK m \in 0 .. MaxMandates : m = mandates + 1 /\ m # 0
  BY <1>1 DEF TablesTyped, Seed!SeedAssumption
<1>3. PICK o \in Seed!Operations : o = operation
  BY <1>1 DEF TablesTyped
<1>4. "sourcing" \in Seed!Status /\ FALSE \in BOOLEAN
  BY DEF Seed!Status
<1>5. operation' = [o EXCEPT !.status = "sourcing", !.mandate = m, !.unconfirmed = FALSE]
  BY <1>1, <1>2, <1>3 DEF Seed!Operations
<1>6. /\ operation' \in Seed!Operations /\ operation'.contact = operation.contact
      /\ operation'.status = "sourcing" /\ operation'.mandate # 0
  <2>1. PICK q \in Seed!Operations :
          q = [o EXCEPT !.status = "sourcing", !.mandate = m, !.unconfirmed = FALSE]
    BY <1>4 DEF Seed!Operations
  <2>2. q.status = "sourcing" /\ q.mandate = m /\ q.contact = o.contact
    BY <2>1 DEF Seed!Operations
  <2> QED BY <1>2, <1>3, <1>5, <2>1, <2>2
<1>7. TablesTyped'
  BY <1>1, <1>2, <1>6 DEF TablesTyped
<1> QED BY <1>1, <1>6, <1>7, OperationMoved

LEMMA ClientChangesDetailsStep ==
  ASSUME Seed!SeedAssumption, SeedInv, Seed!ClientChangesDetails PROVE SeedInv' /\ StepIsSafe
<1>1. /\ TablesTyped /\ Seed!Others(FALSE)
      /\ operation' = [operation EXCEPT !.unconfirmed = TRUE]
      /\ UNCHANGED <<contacts, providers, mandates, requests, quotes, call>>
  BY TypeParts DEF SeedInv, Seed!ClientChangesDetails, Seed!Others
<1>2. /\ operation' \in Seed!Operations /\ operation'.contact = operation.contact
      /\ operation'.status = operation.status /\ operation'.mandate = operation.mandate
  BY <1>1 DEF TablesTyped, Seed!Operations
<1>3. TablesTyped'
  BY <1>1, <1>2 DEF TablesTyped
<1> QED BY <1>1, <1>2, <1>3, OperationMoved

LEMMA OperationMovesStep ==
  ASSUME Seed!SeedAssumption, SeedInv, NEW new \in Seed!Status, Seed!OperationMoves(new)
  PROVE  SeedInv' /\ StepIsSafe
<1>1. /\ TablesTyped /\ Seed!Others(FALSE) /\ new \in Seed!Transitions[operation.status]
      /\ operation' = [operation EXCEPT !.status = new]
      /\ requests' = [f \in Seed!Fixture |-> IF new = "cancelled" /\ requests[f].status = "pending"
                                        THEN [requests[f] EXCEPT !.status = "cancelled"] ELSE requests[f]]
      /\ UNCHANGED <<contacts, providers, mandates, quotes, call>>
  BY TypeParts DEF SeedInv, Seed!OperationMoves, Seed!Others
<1>2. /\ operation' \in Seed!Operations /\ operation'.contact = operation.contact
      /\ operation'.status = new /\ operation'.mandate = operation.mandate
  BY <1>1 DEF TablesTyped, Seed!Operations
<1>3. new # "absent"
  BY <1>1, TransitionsPresent DEF TablesTyped, Seed!Operations
<1>4. ASSUME NEW f \in Seed!Fixture
      PROVE  /\ requests'[f] \in Seed!Requests
             /\ requests'[f].provider = requests[f].provider
             /\ requests[f].status # "absent" => requests'[f].status # "absent"
             /\ requests[f].status = "responded" => requests'[f].status = "responded"
  <2>1. PICK r \in Seed!Requests : r = requests[f]
    BY <1>1 DEF TablesTyped
  <2>2. requests'[f] = IF new = "cancelled" /\ r.status = "pending"
                       THEN [r EXCEPT !.status = "cancelled"] ELSE r
    BY <1>1, <2>1
  <2>3. CASE new = "cancelled" /\ r.status = "pending"
    <3>1. PICK q \in Seed!Requests : q = [r EXCEPT !.status = "cancelled"]
      BY DEF Seed!Requests
    <3>2. q.status = "cancelled" /\ q.provider = r.provider
      BY <3>1 DEF Seed!Requests
    <3> QED BY <2>1, <2>2, <2>3, <3>1, <3>2
  <2> QED BY <2>1, <2>2, <2>3
<1>5. requests' \in [Seed!Fixture -> Seed!Requests]
  BY <1>1, <1>4
<1>6. TablesTyped'
  BY <1>1, <1>2, <1>5 DEF TablesTyped
<1> QED BY <1>1, <1>2, <1>3, <1>4, <1>6, OperationMoved

------------------------------------------------------------------------------
(* The run reads and writes the directory *)

LEMMA LoadStep ==
  ASSUME Seed!SeedAssumption, SeedInv, NEW table \in {"contacts", "providers"}, Seed!Load(table)
  PROVE  SeedInv' /\ StepIsSafe
<1>1. /\ Seed!TypeOK /\ TablesTyped /\ run.pc = "load" /\ table \in run.unread /\ UNCHANGED Seed!tables
      /\ CountersTyped' /\ UNCHANGED <<settled, alone>>
  BY TypeParts, QuietTyped DEF SeedInv, Seed!Load
<1>2. PICK r \in Runs : r = run
  BY TypeParts DEF SeedInv
<1>3. PICK pc \in {"load", "contact"} : pc = IF run.unread = {table} THEN "contact" ELSE run.pc
  BY <1>1
<1>4. PICK cs \in [1 .. MaxContacts -> Seed!Rows] :
        cs = IF table = "contacts" THEN contacts ELSE run.contacts
  BY <1>1, <1>2 DEF TablesTyped, Runs
<1>5. PICK ps \in [1 .. MaxProviders -> Seed!Rows] :
        ps = IF table = "providers" THEN providers ELSE run.providers
  BY <1>1, <1>2 DEF TablesTyped, Runs
<1>6. PICK u \in SUBSET {"contacts", "providers"} : u = run.unread \ {table}
  BY <1>2 DEF Runs
<1>7. PICK q \in Runs : q = [r EXCEPT !.unread = u, !.pc = pc, !.contacts = cs, !.providers = ps]
  BY DEF Runs, Seed!Points
<1>8. /\ q.unread = u /\ q.pc = pc /\ q.providers = ps /\ q.phones = r.phones /\ q.at = r.at
      /\ q.operation = r.operation /\ q.request = r.request /\ q.ids = r.ids /\ q.contact = r.contact
  BY <1>7 DEF Runs
<1>9. run' = q
  BY <1>1, <1>2, <1>3, <1>4, <1>5, <1>6, <1>7 DEF Seed!Load
<1>10. Seed!TypeOK'
  BY <1>1, <1>9, TypePartsThen DEF TablesTyped, Seed!tables
<1>11. RowsKeyed'
  BY <1>1 DEF SeedInv, RowsKeyed, Seed!tables
<1>12. /\ \A f \in 0 .. Fixtures : run.phones[f] \in Phone
       /\ run.at = 1
  BY <1>1 DEF SeedInv, InHand, Seed!Stopped
<1>13. Reached' = 0
  BY <1>8, <1>9 DEF Reached, Written, Filling, Asking
<1>14. InHand'
  <2>1. run'.pc = "contact" => run'.unread = {}
    BY <1>1, <1>3, <1>6, <1>8, <1>9
  <2>2. run'.phones = run.phones /\ run'.at = 1 /\ run'.pc \in {"load", "contact"}
    BY <1>2, <1>8, <1>9, <1>12
  <2> QED BY <1>12, <1>13, <2>1, <2>2 DEF InHand, Written, Filling, Asking
<1>15. KeysRead'
  <2>1. CASE table = "providers"
    <3>1. run'.providers = providers /\ providers' = providers
      BY <1>1, <1>5, <1>8, <1>9, <2>1 DEF Seed!tables
    <3> QED BY <1>11, <3>1 DEF KeysRead, RowsKeyed
  <2>2. CASE table = "contacts"
    <3>1. /\ run'.providers = run.providers /\ providers' = providers /\ run'.at = run.at
          /\ "providers" \notin run'.unread => "providers" \notin run.unread
      BY <1>1, <1>2, <1>5, <1>6, <1>8, <1>9, <2>2 DEF Seed!tables
    <3> QED BY <1>1, <3>1 DEF SeedInv, KeysRead
  <2> QED BY <2>1, <2>2
<1>16. OperationHeld' /\ RequestsHeld'
  BY <1>8, <1>9 DEF OperationHeld, RequestsHeld, Processed, Filling, Asking
<1>17. Undisturbed'
  BY <1>8, <1>9, <1>13 DEF Undisturbed, Seed!CompletedIsWhole, Written, Filling, Asking
<1>18. AsCompleted'
  <2>1. run'.phones = run.phones /\ run'.pc \in {"load", "contact"}
    BY <1>2, <1>8, <1>9
  <2> QED BY <1>1, <2>1
             DEF SeedInv, AsCompleted, DemonstrationLeft, Seed!tables, FixtureRow, Seed!ClientRow
<1> QED BY <1>1, <1>10, <1>11, <1>14, <1>15, <1>16, <1>17, <1>18, NothingWritten DEF SeedInv

\* What the run writes of the client.
LEMMA ClientRowTyped ==
  ASSUME Seed!SeedAssumption, SeedInv, run.pc \notin Seed!Stopped
  PROVE  Seed!ClientRow \in Seed!Rows /\ Seed!ClientRow.phone # NoPhone
<1>1. run.phones[Seed!Client] \in Phone /\ 0 \in 0 .. Fixtures /\ Seed!Client \in Seed!Stranger .. Fixtures
  BY DEF SeedInv, InHand, Seed!Client, Seed!Stranger, Seed!SeedAssumption
<1> QED BY <1>1 DEF Seed!ClientRow, Seed!Rows, Seed!SeedAssumption

LEMMA UpsertContactStep ==
  ASSUME Seed!SeedAssumption, SeedInv, Seed!UpsertContact PROVE SeedInv' /\ StepIsSafe
<1> DEFINE phone == run.phones[Seed!Client]
           targets == IF Seed!Owners(contacts, phone) # {} THEN Seed!Owners(contacts, phone)
                      ELSE Seed!Free(contacts)
<1>1. /\ Seed!TypeOK /\ TablesTyped /\ RowsKeyed /\ run.pc = "contact" /\ Seed!Quiet
      /\ CountersTyped' /\ UNCHANGED <<settled, alone>>
  BY TypeParts, QuietTyped DEF SeedInv, Seed!UpsertContact
<1>2. CASE Seed!Throw
  BY <1>1, <1>2, ThrowStep
<1>3. CASE \E i \in targets :
             /\ contacts' = [contacts EXCEPT ![i] = Seed!ClientRow]
             /\ run' = [run EXCEPT !.pc = "provider", !.contact = i]
             /\ UNCHANGED <<providers, operation, call, mandates, requests, quotes>>
  <2>1. PICK i \in targets :
             /\ contacts' = [contacts EXCEPT ![i] = Seed!ClientRow]
             /\ run' = [run EXCEPT !.pc = "provider", !.contact = i]
             /\ UNCHANGED <<providers, operation, call, mandates, requests, quotes>>
    BY <1>3
  <2>2. i \in 1 .. MaxContacts
    BY <1>1 DEF Seed!Owners, Seed!Free, TablesTyped
  <2>3. \A j \in 1 .. MaxContacts : contacts[j].phone = phone => j = i
    <3>1. phone # NoPhone
      BY <1>1, ClientRowTyped DEF Seed!ClientRow, Seed!Stopped
    <3>2. CASE Seed!Owners(contacts, phone) # {}
      <4>1. contacts[i].phone = phone
        BY <3>2 DEF Seed!Owners
      <4> QED BY <1>1, <2>2, <3>1, <4>1 DEF RowsKeyed
    <3>3. CASE Seed!Owners(contacts, phone) = {}
      BY <1>1, <3>3 DEF Seed!Owners, TablesTyped
    <3> QED BY <3>2, <3>3
  <2> HIDE DEF targets
  <2>4. Seed!ClientRow \in Seed!Rows /\ Seed!ClientRow.phone = phone
    BY <1>1, ClientRowTyped DEF Seed!ClientRow, Seed!Stopped
  <2>5. /\ contacts' \in [1 .. MaxContacts -> Seed!Rows] /\ contacts'[i] = Seed!ClientRow
        /\ \A j \in 1 .. MaxContacts : j # i => contacts'[j] = contacts[j]
    BY <1>1, <2>1, <2>2, <2>4 DEF TablesTyped
  <2>6. PICK r \in Runs : r = run
    BY TypeParts DEF SeedInv
  <2>7. PICK q \in Runs : q = [r EXCEPT !.pc = "provider", !.contact = i]
    <3>1. i \in 0 .. MaxContacts /\ "provider" \in Seed!Points
      BY <2>2 DEF Seed!Points
    <3> QED BY <3>1 DEF Runs
  <2>8. /\ q.pc = "provider" /\ q.contact = i /\ q.unread = r.unread /\ q.phones = r.phones /\ q.at = r.at
        /\ q.providers = r.providers /\ q.operation = r.operation /\ q.request = r.request /\ q.ids = r.ids
    BY <2>2, <2>7 DEF Runs
  <2>9. run' = q
    BY <2>1, <2>6, <2>7
  <2>10. Seed!TypeOK'
    BY <1>1, <2>1, <2>5, <2>9, TypePartsThen DEF TablesTyped
  <2>11. RowsKeyed'
    <3>1. \A j \in 1 .. MaxContacts : contacts'[j].phone = phone => j = i
      BY <2>3, <2>5
    <3>2. ASSUME NEW j \in 1 .. MaxContacts, NEW k \in 1 .. MaxContacts,
                 contacts'[j].phone = contacts'[k].phone, contacts'[j].phone # NoPhone
          PROVE  j = k
      <4>1. CASE j = i
        BY <2>4, <2>5, <3>1, <3>2, <4>1
      <4>2. CASE k = i
        BY <2>4, <2>5, <3>1, <3>2, <4>2
      <4>3. CASE j # i /\ k # i
        BY <1>1, <2>5, <3>2, <4>3 DEF RowsKeyed
      <4> QED BY <4>1, <4>2, <4>3
    <3> QED BY <1>1, <2>1, <3>2 DEF RowsKeyed
  <2>12. run.at = 1 /\ run.unread = {} /\ \A f \in 0 .. Fixtures : run.phones[f] \in Phone
    BY <1>1 DEF SeedInv, InHand, Seed!Stopped
  <2>13. Reached' = 0
    BY <2>6, <2>8, <2>9, <2>12 DEF Reached
  <2>14. KeysRead'
    BY <1>1, <2>1, <2>6, <2>8, <2>9 DEF SeedInv, KeysRead
  <2>15. InHand'
    BY <2>2, <2>6, <2>8, <2>9, <2>12, <2>13 DEF InHand, Filling
  <2>16. OperationHeld' /\ RequestsHeld'
    BY <2>8, <2>9 DEF OperationHeld, RequestsHeld, Processed, Filling, Asking
  <2>17. Seed!ClientRow' = Seed!ClientRow
    BY <2>6, <2>8, <2>9 DEF Seed!ClientRow
  <2>18. Undisturbed'
    BY <2>5, <2>8, <2>9, <2>13, <2>17 DEF Undisturbed, Seed!CompletedIsWhole, Filling, Asking
  <2>19. AsCompleted'
    <3>1. /\ run'.phones = run.phones /\ run'.pc = "provider"
          /\ UNCHANGED <<providers, operation, requests, quotes, settled>>
      BY <1>1, <2>1, <2>6, <2>8, <2>9
    <3>2. contacts'[i] = Seed!ClientRow'
      BY <2>5, <2>17
    <3> QED BY <2>2, <3>1, <3>2 DEF SeedInv, AsCompleted, DemonstrationLeft, FixtureRow
  <2>20. StepIsSafe
    <3>1. settled # {} => contacts' = contacts
      <4> SUFFICES ASSUME settled # {} PROVE contacts' = contacts
        OBVIOUS
      <4>1. PICK j \in 1 .. MaxContacts : contacts[j] = Seed!ClientRow
        BY DEF SeedInv, AsCompleted, DemonstrationLeft
      <4>2. j = i
        BY <2>3, <2>4, <4>1
      <4> QED BY <1>1, <2>1, <4>1, <4>2 DEF TablesTyped
    <3>2. [operation EXCEPT !.status = operation.status] = operation /\ operation' = operation
      BY <1>1, <2>1 DEF TablesTyped, Seed!Operations
    <3>3. Seed!ReseedChangesNothing
      BY <2>1, <3>1, <3>2 DEF Seed!ReseedChangesNothing
    <3>4. Seed!ProgressKept
      BY <1>1 DEF Seed!ProgressKept
    <3> QED BY <3>3, <3>4 DEF StepIsSafe
  <2> QED BY <2>10, <2>11, <2>14, <2>15, <2>16, <2>18, <2>19, <2>20 DEF SeedInv
<1> QED BY <1>2, <1>3 DEF Seed!UpsertContact

\* The row a provider of the script gets: the only one that was it, or a free one.
LEMMA TheRow ==
  ASSUME Seed!SeedAssumption, SeedInv, run.pc = "provider",
         Cardinality(Seed!Candidates(run.at)) <= 1,
         NEW i \in 1 .. MaxProviders,
         i \in IF Seed!Candidates(run.at) # {} THEN Seed!Candidates(run.at) ELSE Seed!Free(providers)
  PROVE  \A j \in 1 .. MaxProviders : providers[j].key = run.at => j = i
<1> SUFFICES ASSUME NEW j \in 1 .. MaxProviders, providers[j].key = run.at PROVE j = i
  OBVIOUS
<1>1. run \in Runs /\ run.unread = {} /\ run.at \in Seed!Fixture
  BY TypeParts DEF SeedInv, InHand, Runs
<1>2. run.providers[j].key = run.at /\ run.providers[j].phone # NoPhone
  BY <1>1 DEF SeedInv, KeysRead, Seed!Fixture, Seed!SeedAssumption
<1>3. j \in Seed!Candidates(run.at)
  BY <1>1, <1>2 DEF Seed!Candidates, Runs
<1>4. i \in Seed!Candidates(run.at)
  BY <1>3
<1>5. IsFiniteSet(Seed!Candidates(run.at))
  <2>1. Seed!Candidates(run.at) \subseteq 1 .. MaxProviders
    BY <1>1 DEF Seed!Candidates, Runs
  <2>2. 1 \in Int /\ MaxProviders \in Int
    BY DEF Seed!SeedAssumption
  <2>3. IsFiniteSet(1 .. MaxProviders)
    BY <2>2, FS_Interval
  <2> QED BY <2>1, <2>3, FS_Subset
<1> QED
  <2> SUFFICES ASSUME j # i PROVE FALSE
    OBVIOUS
  <2>1. {i, j} \subseteq Seed!Candidates(run.at)
    BY <1>3, <1>4
  <2>2. Cardinality({i, j}) = 2
    <3>1. IsFiniteSet({i}) /\ Cardinality({i}) = 1 /\ j \notin {i}
      BY FS_Singleton
    <3>2. Cardinality({i} \cup {j}) =
            IF j \in {i} THEN Cardinality({i}) ELSE Cardinality({i}) + 1
      BY <3>1, FS_AddElement
    <3>3. {i} \cup {j} = {i, j}
      OBVIOUS
    <3> QED BY <3>1, <3>2, <3>3
  <2>3. Cardinality({i, j}) <= Cardinality(Seed!Candidates(run.at))
    BY <1>5, <2>1, FS_Subset
  <2>4. Cardinality(Seed!Candidates(run.at)) \in Nat
    BY <1>5, FS_CardinalityType
  <2> QED BY <2>2, <2>3, <2>4

\* What one write of a provider leaves, whether it is the last of the run or not.
LEMMA ProviderWritten ==
  ASSUME Seed!SeedAssumption, SeedInv, run.pc = "provider", NEW i \in 1 .. MaxProviders,
         \A j \in 1 .. MaxProviders : providers[j].key = run.at => j = i,
         providers' = [providers EXCEPT ![i] = FixtureRow(run.at)],
         UNCHANGED <<contacts, operation, call, mandates, requests, quotes, settled, alone>>,
         CountersTyped', run' \in Runs, run'.phones = run.phones, run'.contact = run.contact,
         run'.ids = [run.ids EXCEPT ![run.at] = i], run'.unread = {},
         \/ /\ run.at < Fixtures /\ run'.pc = "provider" /\ run'.at = run.at + 1
            /\ run'.providers = run.providers
         \/ run.at = Fixtures /\ run'.pc = "operation" /\ run'.at = 1
  PROVE  SeedInv' /\ StepIsSafe
<1>1. /\ TablesTyped /\ RowsKeyed /\ run \in Runs /\ run.at \in 1 .. Fixtures /\ Fixtures \in Nat
      /\ run.unread = {} /\ run.contact # 0 /\ \A f \in 0 .. Fixtures : run.phones[f] \in Phone
  BY TypeParts DEF SeedInv, InHand, Runs, Seed!Fixture, Seed!SeedAssumption, Seed!Stopped
<1>2. PICK f \in 1 .. Fixtures : f = run.at
  BY <1>1
<1>3. FixtureRow(f) \in Seed!Rows /\ FixtureRow(f).key = f /\ FixtureRow(f).phone # NoPhone
  <2>1. run.phones[f] \in Phone /\ f \in Seed!Stranger .. Fixtures /\ f \in 0 .. Fixtures
    BY <1>1 DEF Seed!Stranger
  <2> QED BY <2>1 DEF FixtureRow, Seed!Rows, Seed!SeedAssumption
<1>4. /\ providers' \in [1 .. MaxProviders -> Seed!Rows] /\ providers'[i] = FixtureRow(f)
      /\ \A j \in 1 .. MaxProviders : j # i => providers'[j] = providers[j]
  BY <1>1, <1>2, <1>3 DEF TablesTyped
<1>5. \A j \in 1 .. MaxProviders : providers[j].key = f => j = i
  BY <1>2
<1>6. Seed!TypeOK'
  BY <1>1, <1>4, TypePartsThen DEF TablesTyped
<1>7. RowsKeyed'
  <2>1. \A j \in 1 .. MaxProviders : providers'[j].key # 0 => providers'[j].phone # NoPhone
    BY <1>1, <1>3, <1>4 DEF RowsKeyed
  <2>2. ASSUME NEW j \in 1 .. MaxProviders, NEW k \in 1 .. MaxProviders,
               providers'[j].key # 0, providers'[j].key = providers'[k].key
        PROVE  j = k
    <3>1. CASE j = i \/ k = i
      BY <1>3, <1>4, <1>5, <2>2, <3>1
    <3>2. CASE j # i /\ k # i
      BY <1>1, <1>4, <2>2, <3>2 DEF RowsKeyed
    <3> QED BY <3>1, <3>2
  <2> QED BY <1>1, <2>1, <2>2 DEF RowsKeyed
<1>8. Reached' = f /\ Reached = f - 1
  BY <1>1, <1>2 DEF Reached, Written
<1>9. KeysRead'
  <2> SUFFICES ASSUME run'.pc \in {"load", "contact", "provider"} PROVE KeysRead'
    BY DEF KeysRead
  <2>1. run'.pc = "provider" /\ run'.at = f + 1 /\ run'.providers = run.providers
    BY <1>2
  <2>2. ASSUME NEW j \in 1 .. MaxProviders
        PROVE  /\ providers'[j].key = run'.providers[j].key \/ providers'[j].key \in 1 .. (run'.at - 1)
               /\ run'.providers[j].key # 0 => run'.providers[j].phone # NoPhone
    <3>1. /\ providers[j].key = run.providers[j].key \/ providers[j].key \in 1 .. (f - 1)
          /\ run.providers[j].key # 0 => run.providers[j].phone # NoPhone
      BY <1>1, <1>2 DEF SeedInv, KeysRead
    <3>2. CASE j = i
      BY <1>1, <1>3, <1>4, <2>1, <3>1, <3>2
    <3>3. CASE j # i
      BY <1>1, <1>4, <2>1, <3>1, <3>3
    <3> QED BY <3>2, <3>3
  <2> QED BY <2>2 DEF KeysRead
<1>10. /\ run'.ids[f] = i /\ \A g \in 1 .. Fixtures : g # f => run'.ids[g] = run.ids[g]
  BY <1>1, <1>2 DEF Runs, Seed!Fixture
<1>11. InHand'
  <2>1. \A g \in 1 .. f : run'.ids[g] # 0
    BY <1>1, <1>2, <1>8, <1>10 DEF SeedInv, InHand
  <2>2. run'.pc = "operation" => run'.at = 1
    OBVIOUS
  <2> QED BY <1>1, <1>8, <2>1, <2>2 DEF InHand, Filling
<1>12. OperationHeld' /\ RequestsHeld'
  BY DEF OperationHeld, RequestsHeld, Processed, Filling, Asking
<1>13. Undisturbed'
  <2> SUFFICES ASSUME alone PROVE Undisturbed'
    BY DEF Undisturbed
  <2>1. ASSUME NEW j \in 1 .. MaxProviders, providers'[j].key \in 1 .. f
        PROVE  (providers[j] = FixtureRow(providers[j].key))'
    <3>1. CASE j = i
      BY <1>3, <1>4, <3>1 DEF FixtureRow
    <3>2. CASE j # i
      <4>1. providers[j].key \in 1 .. f - 1
        BY <1>1, <1>4, <1>5, <2>1, <3>2
      <4>2. providers[j] = FixtureRow(providers[j].key) /\ providers'[j] = providers[j]
        BY <1>4, <1>8, <3>2, <4>1 DEF SeedInv, Undisturbed
      <4> QED BY <4>2 DEF FixtureRow
    <3> QED BY <3>1, <3>2
  <2>2. ASSUME NEW g \in 1 .. f, \A h \in 1 .. f : h > g => run'.ids[h] # run'.ids[g]
        PROVE  providers'[run'.ids[g]].key = g
    <3>1. CASE g = f
      BY <1>3, <1>4, <1>10, <3>1
    <3>2. CASE g # f
      <4>1. run'.ids[g] # i /\ run'.ids[g] = run.ids[g] /\ g \in 1 .. f - 1
        BY <1>2, <1>10, <2>2, <3>2
      <4>2. \A h \in 1 .. f - 1 : h > g => run.ids[h] # run.ids[g]
        BY <1>2, <1>10, <2>2, <4>1
      <4>3. providers[run.ids[g]].key = g
        BY <1>8, <4>1, <4>2 DEF SeedInv, Undisturbed
      <4>4. run.ids[g] \in 1 .. MaxProviders
        <5>1. run.ids[g] # 0
          BY <1>8, <4>1 DEF SeedInv, InHand
        <5>2. run.ids[g] \in 0 .. MaxProviders
          BY <1>1 DEF Runs, Seed!Fixture
        <5> QED BY <5>1, <5>2
      <4> QED BY <1>4, <4>1, <4>3, <4>4
    <3> QED BY <3>1, <3>2
  <2>3. contacts'[run'.contact] = Seed!ClientRow'
    BY <1>1 DEF SeedInv, Undisturbed, Seed!ClientRow
  <2>4. run'.pc \notin Filling \cup Asking /\ run'.pc # "done"
    BY DEF Filling, Asking
  <2> QED BY <1>8, <2>1, <2>2, <2>3, <2>4 DEF Undisturbed, Seed!CompletedIsWhole
<1>14. AsCompleted'
  <2> SUFFICES ASSUME settled # {} PROVE AsCompleted'
    BY DEF SeedInv, AsCompleted, DemonstrationLeft
  <2>1. ASSUME NEW j \in 1 .. MaxProviders, providers'[j].key # 0
        PROVE  (providers[j] = FixtureRow(providers[j].key))'
    <3>1. CASE j = i
      BY <1>3, <1>4, <3>1 DEF FixtureRow
    <3>2. CASE j # i
      <4>1. providers[j] = FixtureRow(providers[j].key) /\ providers'[j] = providers[j]
        BY <1>4, <2>1, <3>2 DEF SeedInv, AsCompleted, DemonstrationLeft
      <4> QED BY <4>1 DEF FixtureRow
    <3> QED BY <3>1, <3>2
  <2>2. Seed!ClientRow' = Seed!ClientRow
    BY DEF Seed!ClientRow
  <2>3. run'.pc \in {"provider", "operation"}
    OBVIOUS
  <2> QED BY <2>1, <2>2, <2>3 DEF SeedInv, AsCompleted, DemonstrationLeft
<1>15. StepIsSafe
  <2>1. settled # {} /\ Seed!OwnRows => providers' = providers
    <3> SUFFICES ASSUME settled # {}, Seed!OwnRows PROVE providers' = providers
      OBVIOUS
    <3>1. PICK j \in 1 .. MaxProviders : providers[j].key = f
      BY <1>1, <1>2 DEF Seed!OwnRows, TablesTyped, Seed!Fixture
    <3>2. providers[j] = FixtureRow(f) /\ j = i
      BY <1>5, <3>1 DEF SeedInv, AsCompleted, DemonstrationLeft
    <3> QED BY <1>1, <1>2, <3>2 DEF TablesTyped
  <2>2. [operation EXCEPT !.status = operation.status] = operation /\ operation' = operation
    BY <1>1 DEF TablesTyped, Seed!Operations
  <2>3. Seed!ReseedChangesNothing
    BY <2>1, <2>2 DEF Seed!ReseedChangesNothing
  <2>4. Seed!ProgressKept
    BY DEF Seed!ProgressKept
  <2> QED BY <2>3, <2>4 DEF StepIsSafe
<1> QED BY <1>6, <1>7, <1>9, <1>11, <1>12, <1>13, <1>14, <1>15 DEF SeedInv

LEMMA UpsertProviderStep ==
  ASSUME Seed!SeedAssumption, SeedInv, Seed!UpsertProvider PROVE SeedInv' /\ StepIsSafe
<1> DEFINE targets == IF Seed!Candidates(run.at) # {} THEN Seed!Candidates(run.at) ELSE Seed!Free(providers)
           going(i) == [run EXCEPT !.ids[run.at] = i, !.at = run.at + 1]
           last(i) == [Seed!Ended(run.phones, "operation") EXCEPT
                         !.contact = run.contact, !.ids = [run.ids EXCEPT ![run.at] = i]]
<1>1. /\ TablesTyped /\ run.pc = "provider" /\ CountersTyped' /\ UNCHANGED <<settled, alone>>
  BY TypeParts, QuietTyped DEF SeedInv, Seed!UpsertProvider
<1>2. CASE Seed!Throw
  BY <1>1, <1>2, ThrowStep
<1>3. CASE ~Seed!Throw
  <2>1. PICK i \in targets :
          /\ ~(Seed!Cardinality(Seed!Candidates(run.at)) > 1)
          /\ providers' = [providers EXCEPT ![i] = FixtureRow(run.at)]
          /\ run' = IF run.at < Fixtures THEN going(i) ELSE last(i)
          /\ UNCHANGED <<contacts, operation, call, mandates, requests, quotes>>
    BY <1>3 DEF Seed!UpsertProvider, FixtureRow
  <2>2. PICK r \in Runs : r = run
    BY TypeParts DEF SeedInv
  <2>3. i \in 1 .. MaxProviders
    BY <1>1, <2>2 DEF Seed!Candidates, Seed!Free, TablesTyped, Runs
  <2>4. Cardinality(Seed!Candidates(run.at)) <= 1
    <3>1. Seed!Candidates(run.at) \subseteq 1 .. MaxProviders
      BY <2>2 DEF Seed!Candidates, Runs
    <3>2. 1 \in Int /\ MaxProviders \in Int
      BY DEF Seed!SeedAssumption
    <3>3. IsFiniteSet(1 .. MaxProviders)
      BY <3>2, FS_Interval
    <3>4. Cardinality(Seed!Candidates(run.at)) \in Nat
      BY <3>1, <3>3, FS_Subset, FS_CardinalityType
    <3> QED BY <2>1, <3>4, SameCardinality
  <2>5. \A j \in 1 .. MaxProviders : providers[j].key = run.at => j = i
    BY <1>1, <2>1, <2>3, <2>4, TheRow
  <2> HIDE DEF targets
  <2>6. PICK ids \in [Seed!Fixture -> 0 .. MaxProviders] : ids = [run.ids EXCEPT ![run.at] = i]
    <3>1. i \in 0 .. MaxProviders
      BY <2>3
    <3> QED BY <2>2, <3>1 DEF Runs
  <2>7. run.unread = {} /\ Fixtures \in Nat /\ run.at \in 1 .. Fixtures
    BY <1>1, <2>2 DEF SeedInv, InHand, Seed!SeedAssumption, Runs, Seed!Fixture
  <2>8. CASE run.at < Fixtures
    <3>1. PICK n \in Seed!Fixture : n = run.at + 1
      BY <2>7, <2>8 DEF Seed!Fixture
    <3>2. PICK q \in Runs : q = [r EXCEPT !.ids = ids, !.at = n]
      BY DEF Runs
    <3>3. /\ q.ids = ids /\ q.at = n /\ q.pc = r.pc /\ q.phones = r.phones /\ q.contact = r.contact
          /\ q.unread = r.unread /\ q.providers = r.providers
      BY <3>2 DEF Runs
    <3>4. run' = q
      BY <2>1, <2>2, <2>6, <2>8, <3>1, <3>2 DEF Runs
    <3>5. run' \in Runs /\ run'.pc = "provider" /\ run'.at = run.at + 1
      BY <1>1, <2>2, <3>1, <3>3, <3>4
    <3>6. /\ run'.phones = run.phones /\ run'.contact = run.contact /\ run'.unread = {}
          /\ run'.providers = run.providers /\ run'.ids = [run.ids EXCEPT ![run.at] = i]
      BY <2>2, <2>6, <2>7, <3>3, <3>4
    <3> QED BY <1>1, <2>1, <2>3, <2>5, <2>8, <3>5, <3>6, ProviderWritten
  <2>9. CASE ~(run.at < Fixtures)
    <3>1. run.at = Fixtures
      BY <2>7, <2>9
    <3>2. PICK e \in Runs : /\ e = Seed!Ended(run.phones, "operation") /\ e.pc = "operation"
                            /\ e.phones = run.phones /\ e.at = 1 /\ e.unread = {}
      <4>1. run.phones \in Configs /\ "operation" \in Seed!Points
        BY <2>2 DEF Runs, Seed!Points
      <4> QED BY <4>1, EndedRun
    <3>3. PICK c \in 0 .. MaxContacts : c = run.contact
      BY <2>2 DEF Runs
    <3>4. PICK q \in Runs : q = [e EXCEPT !.contact = c, !.ids = ids]
      BY DEF Runs
    <3>5. /\ q.ids = ids /\ q.at = e.at /\ q.pc = e.pc /\ q.phones = e.phones /\ q.contact = c
          /\ q.unread = e.unread
      BY <3>4 DEF Runs
    <3>6. run' = q
      BY <2>1, <2>6, <2>9, <3>2, <3>3, <3>4
    <3>7. run' \in Runs /\ run'.pc = "operation" /\ run'.at = 1
      BY <3>2, <3>5, <3>6
    <3>8. /\ run'.phones = run.phones /\ run'.contact = run.contact /\ run'.unread = {}
          /\ run'.ids = [run.ids EXCEPT ![run.at] = i]
      BY <2>6, <3>2, <3>3, <3>5, <3>6
    <3> QED BY <1>1, <2>1, <2>3, <2>5, <3>1, <3>7, <3>8, ProviderWritten
  <2> QED BY <2>8, <2>9
<1> QED BY <1>2, <1>3

------------------------------------------------------------------------------
(* The run has written the directory and goes on with the operation *)

\* What it has written of the directory stays as long as it goes on.
LEMMA Continues ==
  ASSUME Seed!SeedAssumption, SeedInv, run.pc \in Written,
         UNCHANGED <<contacts, providers, settled, alone>>, TablesTyped', CountersTyped',
         run' \in Runs, run'.pc \in Filling \cup Asking, run'.pc \in Filling => run'.at = 1,
         run'.phones = run.phones, run'.contact = run.contact, run'.ids = run.ids,
         alone => run'.operation.status = operation'.status,
         OperationHeld', RequestsHeld', settled # {} => DemonstrationLeft'
  PROVE  SeedInv'
<1>1. Seed!TypeOK' /\ RowsKeyed'
  BY TypePartsThen DEF SeedInv, RowsKeyed
<1>2. KeysRead'
  BY DEF KeysRead, Filling, Asking
<1>3. Reached' = Fixtures /\ Reached = Fixtures
  BY DEF Reached, Written, Filling, Asking
<1>4. /\ \A f \in 0 .. Fixtures : run.phones[f] \in Phone
      /\ run.contact # 0 /\ \A g \in 1 .. Fixtures : run.ids[g] # 0
  BY <1>3 DEF SeedInv, InHand, Written, Filling, Asking, Seed!Stopped
<1>5. InHand'
  BY <1>3, <1>4 DEF InHand, Filling, Asking
<1>6. Undisturbed'
  <2> SUFFICES ASSUME alone PROVE Undisturbed'
    BY DEF Undisturbed
  <2>1. \A i \in 1 .. MaxProviders :
          (providers[i].key \in 1 .. Reached => providers[i] = FixtureRow(providers[i].key))'
    BY <1>3 DEF SeedInv, Undisturbed, FixtureRow
  <2>2. \A g \in 1 .. Fixtures :
          (\A h \in 1 .. Fixtures : h > g => run'.ids[h] # run'.ids[g]) => providers'[run'.ids[g]].key = g
    BY <1>3 DEF SeedInv, Undisturbed
  <2>3. contacts'[run'.contact] = Seed!ClientRow'
    BY DEF SeedInv, Undisturbed, Seed!ClientRow
  <2>4. run'.pc # "done"
    BY DEF Filling, Asking
  <2> QED BY <1>3, <2>1, <2>2, <2>3, <2>4 DEF Undisturbed, Seed!CompletedIsWhole
<1>7. AsCompleted'
  <2>1. settled # {} => \A i \in 1 .. MaxProviders :
          (providers[i].key # 0 => providers[i] = FixtureRow(providers[i].key))'
    BY DEF SeedInv, AsCompleted, FixtureRow
  <2>2. Seed!ClientRow' = Seed!ClientRow
    BY DEF Seed!ClientRow
  <2> QED BY <2>1, <2>2 DEF SeedInv, AsCompleted
<1> QED BY <1>1, <1>2, <1>5, <1>6, <1>7 DEF SeedInv

\* Steps that leave the operation, and of a completed demonstration everything.
LEMMA OperationKept ==
  ASSUME Seed!TypeOK, UNCHANGED <<contacts, providers, operation>>,
         settled # {} => UNCHANGED <<call, mandates, requests, quotes>>
  PROVE  StepIsSafe
<1>1. [operation EXCEPT !.status = operation.status] = operation /\ operation.status \in Seed!Status
  BY DEF Seed!TypeOK, Seed!Operations
<1>2. Seed!Rank[operation.status] >= Seed!Rank[operation.status]
  <2>1. Seed!Rank[operation.status] \in {1, 2, 3}
    BY <1>1 DEF Seed!Rank
  <2> QED BY <2>1
<1> QED BY <1>1, <1>2 DEF StepIsSafe, Seed!ReseedChangesNothing, Seed!ProgressKept

\* A step that moves the run on and changes nothing else that it has in hand.
LEMMA NextRun ==
  ASSUME SeedInv, NEW pc \in Seed!Points, Seed!Next_(pc)
  PROVE  /\ run' \in Runs /\ run'.pc = pc /\ run'.at = run.at /\ run'.phones = run.phones
         /\ run'.contact = run.contact /\ run'.ids = run.ids
         /\ run'.operation = run.operation /\ run'.request = run.request
<1>1. PICK r \in Runs : r = run
  BY TypeParts DEF SeedInv
<1> QED BY <1>1, GoesOn DEF Seed!Next_

\* The fixtures are numbered from 1.
LEMMA Numbered ==
  ASSUME Seed!SeedAssumption
  PROVE  /\ Demo \subseteq Seed!Fixture /\ Demo # {} /\ Quoting \subseteq Demo
         /\ \A g \in Seed!Fixture : g \in Nat /\ 1 <= g /\ g <= Fixtures
<1>1. Demo \subseteq Seed!Fixture /\ Quoting \subseteq Demo /\ Quoting # {}
  BY DEF Seed!SeedAssumption
<1>2. \A g \in Seed!Fixture : g \in Nat /\ 1 <= g /\ g <= Fixtures
  BY DEF Seed!SeedAssumption, Seed!Fixture
<1> QED BY <1>1, <1>2

\* Before the first request none is done with.
LEMMA FirstRequest ==
  ASSUME Seed!SeedAssumption, run'.at = 1, run'.pc \in {"findRequest"} \cup Filling
  PROVE  RequestsHeld'
<1>1. run'.pc # "status"
  BY DEF Filling
<1>2. \A f \in Demo : ~Processed(f)'
  <2> SUFFICES ASSUME NEW f \in Demo, Processed(f)' PROVE FALSE
    OBVIOUS
  <2>1. f \in Nat /\ 1 <= f
    BY Numbered
  <2>2. f < 1
    BY <1>1 DEF Processed
  <2> QED BY <2>1, <2>2
<1>3. \E g \in Demo : 1 <= g
  BY Numbered
<1> QED BY <1>1, <1>2, <1>3, Numbered DEF RequestsHeld, Filling

LEMMA EnsureOperationStep ==
  ASSUME Seed!SeedAssumption, SeedInv, Seed!EnsureOperation PROVE SeedInv' /\ StepIsSafe
<1> DEFINE inserted == [Seed!NoOperation EXCEPT !.status = "collecting_details", !.contact = run.contact]
           found == IF operation.status # "absent" THEN operation ELSE inserted
<1>1. /\ Seed!TypeOK /\ TablesTyped /\ run.pc = "operation" /\ CountersTyped'
      /\ UNCHANGED <<settled, alone>>
  BY TypeParts, QuietTyped DEF SeedInv, Seed!EnsureOperation
<1>2. CASE Seed!Throw
  BY <1>1, <1>2, ThrowStep
<1>3. CASE ~Seed!Throw
  <2>1. /\ found.contact = run.contact /\ operation' = found
        /\ run' = [run EXCEPT !.pc = "mandate", !.operation = found]
        /\ UNCHANGED <<contacts, providers, call, mandates, requests, quotes>>
    BY <1>3 DEF Seed!EnsureOperation
  <2>2. PICK r \in Runs : r = run
    BY TypeParts DEF SeedInv
  <2>3. PICK o \in Seed!Operations : o = found /\ o.status # "absent"
    <3>1. PICK c \in 0 .. MaxContacts : c = run.contact
      BY <2>2 DEF Runs
    <3>2. PICK n \in Seed!Operations : n = Seed!NoOperation
      BY SeedRange
    <3>3. PICK k \in Seed!Operations : k = [n EXCEPT !.status = "collecting_details", !.contact = c]
      BY DEF Seed!Operations, Seed!Status
    <3>4. k.status = "collecting_details"
      BY <3>3 DEF Seed!Operations
    <3>5. inserted = k
      BY <3>1, <3>2, <3>3
    <3> QED BY <1>1, <3>4, <3>5 DEF TablesTyped
  <2> HIDE DEF found
  <2>4. PICK q \in Runs : q = [r EXCEPT !.pc = "mandate", !.operation = o]
    BY DEF Runs, Seed!Points
  <2>5. /\ q.pc = "mandate" /\ q.operation = o /\ q.at = r.at /\ q.phones = r.phones
        /\ q.contact = r.contact /\ q.ids = r.ids
    BY <2>4 DEF Runs
  <2>6. run' = q
    BY <2>1, <2>2, <2>3, <2>4
  <2>7. TablesTyped'
    BY <1>1, <2>1, <2>3 DEF TablesTyped
  <2>8. run.at = 1
    BY <1>1 DEF SeedInv, InHand
  <2>9. OperationHeld'
    BY <2>1, <2>2, <2>3, <2>5, <2>6 DEF OperationHeld, Filling, Asking
  <2>10. RequestsHeld'
    BY <2>5, <2>6 DEF RequestsHeld, Processed, Asking
  <2>11. settled # {} => operation' = operation
    BY <2>1 DEF SeedInv, AsCompleted, DemonstrationLeft, found
  <2>12. settled # {} => DemonstrationLeft'
    BY <2>1, <2>3, <2>5, <2>6, <2>11 DEF SeedInv, AsCompleted, DemonstrationLeft
  <2>13. run'.operation.status = operation'.status
    BY <2>1, <2>3, <2>5, <2>6
  <2>14. SeedInv'
    <3>1. run.pc \in Written /\ run'.pc \in Filling
      BY <1>1, <2>5, <2>6 DEF Written, Filling
    <3>2. /\ run' \in Runs /\ run'.at = 1 /\ run'.phones = run.phones /\ run'.contact = run.contact
          /\ run'.ids = run.ids
      BY <2>2, <2>5, <2>6, <2>8
    <3> QED BY <1>1, <2>1, <2>7, <2>9, <2>10, <2>12, <2>13, <3>1, <3>2, Continues
  <2>15. StepIsSafe
    <3>1. settled # {} => UNCHANGED <<contacts, providers, operation, call, mandates, requests, quotes>>
      BY <2>1, <2>11
    <3>2. [operation EXCEPT !.status = operation.status] = operation
      BY <1>1 DEF TablesTyped, Seed!Operations
    <3>3. Seed!ReseedChangesNothing
      BY <3>1, <3>2 DEF Seed!ReseedChangesNothing
    <3>4. Seed!ProgressKept
      BY <1>1 DEF Seed!ProgressKept
    <3> QED BY <3>3, <3>4 DEF StepIsSafe
  <2> QED BY <2>14, <2>15
<1> QED BY <1>2, <1>3

LEMMA FindMandateStep ==
  ASSUME Seed!SeedAssumption, SeedInv, Seed!FindMandate PROVE SeedInv' /\ StepIsSafe
<1>1. /\ Seed!TypeOK /\ TablesTyped /\ run.pc = "mandate" /\ CountersTyped' /\ UNCHANGED <<settled, alone>>
      /\ UNCHANGED Seed!tables
  BY TypeParts, QuietTyped DEF SeedInv, Seed!FindMandate
<1>2. PICK pc \in {"findRequest", "collect", "insertMandate", "call"} :
        pc = Seed!MandateLookup /\ (pc = "findRequest" <=> run.operation.mandate # 0)
  BY DEF Seed!MandateLookup
<1>3. pc \in Seed!Points /\ Seed!Next_(pc)
  BY <1>2 DEF Seed!Points, Seed!FindMandate
<1>4. /\ run' \in Runs /\ run'.pc = pc /\ run'.at = run.at /\ run'.phones = run.phones
      /\ run'.contact = run.contact /\ run'.ids = run.ids
      /\ run'.operation = run.operation /\ run'.request = run.request
  BY <1>3, NextRun
<1>5. run.at = 1
  BY <1>1 DEF SeedInv, InHand, Filling
<1>6. TablesTyped' /\ operation' = operation /\ requests' = requests /\ quotes' = quotes
  BY <1>1 DEF TablesTyped, Seed!tables
<1>7. OperationHeld'
  BY <1>1, <1>2, <1>4, <1>6 DEF SeedInv, OperationHeld, Filling, Asking
<1>8. RequestsHeld'
  BY <1>2, <1>4, <1>5, FirstRequest DEF Filling
<1>9. settled # {} => DemonstrationLeft'
  BY <1>1, <1>2, <1>4, <1>6 DEF SeedInv, AsCompleted, DemonstrationLeft
<1>10. alone => run'.operation.status = operation'.status
  BY <1>1, <1>4, <1>6 DEF SeedInv, Undisturbed, Filling
<1>11. SeedInv'
  <2>1. run.pc \in Written /\ run'.pc \in Filling \cup Asking /\ run'.at = 1
    BY <1>1, <1>2, <1>4, <1>5 DEF Written, Filling, Asking
  <2>2. UNCHANGED <<contacts, providers, settled, alone>>
    BY <1>1 DEF Seed!tables
  <2> QED BY <1>1, <1>4, <1>6, <1>7, <1>8, <1>9, <1>10, <2>1, <2>2, Continues
<1> QED BY <1>1, <1>11, NothingWritten

LEMMA InsertCallStep ==
  ASSUME Seed!SeedAssumption, SeedInv, Seed!InsertCall PROVE SeedInv' /\ StepIsSafe
<1>1. Seed!Throw
  BY DEF Seed!InsertCall, Seed!CallAccepted
<1>2. CountersTyped' /\ UNCHANGED settled
  BY QuietTyped DEF Seed!InsertCall
<1> QED BY <1>1, <1>2, ThrowStep

\* A step on the way to the requests that leaves the operation as it is.
LEMMA OnTheWay ==
  ASSUME Seed!SeedAssumption, SeedInv, Seed!Quiet, run.pc \in {"insertMandate", "collect"},
         NEW pc \in {"collect", "attach"}, Seed!Next_(pc), TablesTyped',
         UNCHANGED <<contacts, providers, operation, requests, quotes>>
  PROVE  SeedInv' /\ StepIsSafe
<1>1. Seed!TypeOK /\ CountersTyped' /\ UNCHANGED <<settled, alone>>
  BY QuietTyped DEF SeedInv
<1>2. settled = {}
  BY DEF SeedInv, AsCompleted, DemonstrationLeft
<1>3. /\ run' \in Runs /\ run'.pc = pc /\ run'.at = run.at /\ run'.phones = run.phones
      /\ run'.contact = run.contact /\ run'.ids = run.ids
      /\ run'.operation = run.operation /\ run'.request = run.request
  BY NextRun DEF Seed!Points
<1>4. run.at = 1
  BY DEF SeedInv, InHand, Filling
<1>5. OperationHeld'
  BY <1>3 DEF SeedInv, OperationHeld, Filling, Asking
<1>6. RequestsHeld'
  BY <1>3 DEF RequestsHeld, Processed, Asking
<1>7. alone => run'.operation.status = operation'.status
  BY <1>3 DEF SeedInv, Undisturbed, Filling
<1>8. run.pc \in Written /\ run'.pc \in Filling /\ run'.at = 1
  BY <1>3, <1>4 DEF Written, Filling
<1>9. SeedInv'
  BY <1>1, <1>2, <1>3, <1>5, <1>6, <1>7, <1>8, Continues
<1> QED BY <1>1, <1>2, <1>9, OperationKept

LEMMA InsertMandateStep ==
  ASSUME Seed!SeedAssumption, SeedInv, Seed!InsertMandate PROVE SeedInv' /\ StepIsSafe
<1>1. TablesTyped /\ run.pc = "insertMandate" /\ Seed!Quiet /\ CountersTyped' /\ UNCHANGED settled
  BY TypeParts, QuietTyped DEF SeedInv, Seed!InsertMandate
<1>2. CASE Seed!Throw
  BY <1>1, <1>2, ThrowStep
<1>3. CASE ~Seed!Throw
  <2>1. /\ mandates' = 1 /\ Seed!Next_("collect")
        /\ UNCHANGED <<contacts, providers, operation, call, requests, quotes>>
    BY <1>3 DEF Seed!InsertMandate
  <2>2. 1 \in 0 .. MaxMandates
    BY DEF Seed!SeedAssumption
  <2>3. TablesTyped'
    BY <1>1, <2>1, <2>2 DEF TablesTyped
  <2> QED BY <1>1, <2>1, <2>3, OnTheWay
<1> QED BY <1>2, <1>3

\* What a run writes of the operation before it asks for quotes.
LEMMA WriteOperationStep ==
  ASSUME Seed!SeedAssumption, SeedInv, Seed!Quiet, run.pc \in {"collect", "attach"},
         NEW row \in Seed!Operations, NEW pc \in {"attach", "findRequest"},
         Seed!WriteOperation(row, pc),
         row.contact = operation.contact, row.status # "absent" \/ ~Seed!TransitionAllowed(row.status),
         pc = "findRequest" => row.mandate # 0
  PROVE  SeedInv' /\ StepIsSafe
<1>1. Seed!TypeOK /\ TablesTyped /\ CountersTyped' /\ UNCHANGED <<settled, alone>>
  BY TypeParts, QuietTyped DEF SeedInv
<1>2. CASE ~Seed!TransitionAllowed(row.status)
  BY <1>1, <1>2, ThrowStep DEF Seed!WriteOperation
<1>3. CASE Seed!TransitionAllowed(row.status)
  <2>1. /\ operation' = row
        /\ run' = [run EXCEPT !.pc = pc,
                     !.operation = [run.operation EXCEPT !.status = row.status, !.mandate = row.mandate]]
        /\ UNCHANGED <<contacts, providers, call, mandates, requests, quotes>>
    BY <1>3 DEF Seed!WriteOperation
  <2>2. PICK r \in Runs : r = run
    BY TypeParts DEF SeedInv
  <2>3. PICK o \in Seed!Operations : o = run.operation
    BY <2>2 DEF Runs
  <2>4. PICK p \in Seed!Operations : p = [o EXCEPT !.status = row.status, !.mandate = row.mandate]
    BY DEF Seed!Operations
  <2>5. p.status = row.status /\ p.mandate = row.mandate
    BY <2>4 DEF Seed!Operations
  <2>6. PICK q \in Runs : q = [r EXCEPT !.pc = pc, !.operation = p]
    BY DEF Runs, Seed!Points
  <2>7. /\ q.pc = pc /\ q.operation = p /\ q.at = r.at /\ q.phones = r.phones
        /\ q.contact = r.contact /\ q.ids = r.ids
    BY <2>6 DEF Runs, Seed!Points
  <2>8. run' = q
    BY <2>1, <2>2, <2>3, <2>4, <2>6
  <2>9. TablesTyped'
    BY <1>1, <2>1 DEF TablesTyped
  <2>10. run.at = 1 /\ settled = {}
    BY DEF SeedInv, InHand, Filling, AsCompleted, DemonstrationLeft
  <2>11. OperationHeld'
    <3>1. operation.contact = run.contact
      BY DEF SeedInv, OperationHeld, Filling
    <3> QED BY <1>3, <2>1, <2>2, <2>5, <2>7, <2>8, <3>1 DEF OperationHeld, Asking
  <2>12. RequestsHeld'
    BY <2>2, <2>7, <2>8, <2>10, FirstRequest DEF Filling
  <2>13. SeedInv'
    <3>1. run.pc \in Written /\ run'.pc \in Filling \cup Asking
      BY <2>7, <2>8 DEF Written, Filling, Asking
    <3>2. /\ run' \in Runs /\ run'.at = 1 /\ run'.phones = run.phones /\ run'.contact = run.contact
          /\ run'.ids = run.ids /\ run'.operation.status = operation'.status
      BY <2>1, <2>2, <2>5, <2>7, <2>8, <2>10
    <3> QED BY <1>1, <2>1, <2>9, <2>10, <2>11, <2>12, <3>1, <3>2, Continues
  <2>14. StepIsSafe
    BY <2>10 DEF StepIsSafe, Seed!ReseedChangesNothing, Seed!ProgressKept
  <2> QED BY <2>13, <2>14
<1> QED BY <1>2, <1>3

LEMMA CollectStep ==
  ASSUME Seed!SeedAssumption, SeedInv, Seed!Collect PROVE SeedInv' /\ StepIsSafe
<1>1. TablesTyped /\ run.pc = "collect" /\ Seed!Quiet
  BY TypeParts DEF SeedInv, Seed!Collect
<1>2. CASE run.operation.status = "draft"
  <2>1. PICK o \in Seed!Operations : o = operation
    BY <1>1 DEF TablesTyped
  <2>2. PICK row \in Seed!Operations : row = [o EXCEPT !.status = "collecting_details"]
    BY DEF Seed!Operations, Seed!Status
  <2>3. row.status # "absent" /\ row.contact = o.contact
    BY <2>2 DEF Seed!Operations
  <2>4. Seed!WriteOperation(row, "attach")
    BY <1>2, <2>1, <2>2 DEF Seed!Collect
  <2> QED BY <1>1, <2>1, <2>3, <2>4, WriteOperationStep
<1>3. CASE run.operation.status # "draft"
  <2>1. Seed!Next_("attach") /\ UNCHANGED Seed!tables
    BY <1>3 DEF Seed!Collect
  <2>2. TablesTyped' /\ UNCHANGED <<contacts, providers, operation, requests, quotes>>
    BY <1>1, <2>1 DEF TablesTyped, Seed!tables
  <2> QED BY <1>1, <2>1, <2>2, OnTheWay
<1> QED BY <1>2, <1>3

LEMMA AttachMandateStep ==
  ASSUME Seed!SeedAssumption, SeedInv, Seed!AttachMandate PROVE SeedInv' /\ StepIsSafe
<1>1. TablesTyped /\ run.pc = "attach" /\ Seed!Quiet
  BY TypeParts DEF SeedInv, Seed!AttachMandate
<1>2. PICK o \in Seed!Operations : o = operation /\ o.status # "absent"
  BY <1>1 DEF TablesTyped, SeedInv, OperationHeld, Filling
<1>3. PICK s \in Seed!Status : s = Seed!AttachedStatus
  <2>1. run.operation.status \in Seed!Status
    BY TypeParts DEF SeedInv, Runs, Seed!Operations
  <2> QED BY <2>1 DEF Seed!AttachedStatus, Seed!Status
<1>4. 1 \in 0 .. MaxMandates
  BY DEF Seed!SeedAssumption
<1>5. PICK row \in Seed!Operations : row = [o EXCEPT !.mandate = 1, !.unconfirmed = FALSE, !.status = s]
  BY <1>4 DEF Seed!Operations
<1>6. row.mandate = 1 /\ row.status = s /\ row.contact = o.contact
  BY <1>4, <1>5 DEF Seed!Operations
<1>7. s # "absent" \/ ~Seed!TransitionAllowed(s)
  <2>1. ASSUME s \in Seed!Transitions[operation.status] PROVE s # "absent"
    BY <1>2, <2>1, TransitionsPresent DEF Seed!Operations
  <2> QED BY <1>2, <2>1 DEF Seed!TransitionAllowed
<1>8. Seed!WriteOperation(row, "findRequest")
  BY <1>2, <1>3, <1>5 DEF Seed!AttachMandate
<1> QED BY <1>1, <1>2, <1>6, <1>7, <1>8, WriteOperationStep

------------------------------------------------------------------------------
(* The run asks for the quotes *)

LEMMA LastOfDemo ==
  ASSUME Seed!SeedAssumption PROVE Seed!LastDemo \in Demo /\ \A g \in Demo : g <= Seed!LastDemo
<1> DEFINE N == {Fixtures - g : g \in Demo}
<1>1. Fixtures \in Nat /\ \A g \in Demo : g \in Nat /\ g <= Fixtures
  BY Numbered DEF Seed!SeedAssumption
<1>2. N \in SUBSET Nat /\ N # {}
  BY <1>1, Numbered
<1>3. PICK x \in N : \A y \in N : x <= y
  BY <1>2, Least
<1>4. PICK f \in Demo : x = Fixtures - f
  BY <1>3
<1>5. \A g \in Demo : g <= f
  <2> SUFFICES ASSUME NEW g \in Demo PROVE g <= f
    OBVIOUS
  <2>1. Fixtures - f <= Fixtures - g
    BY <1>3, <1>4
  <2> QED BY <1>1, <2>1
<1>6. \E h \in Demo : \A g \in Demo : g <= h
  BY <1>5
<1> QED BY <1>6 DEF Seed!LastDemo

LEMMA NextOfDemo ==
  ASSUME Seed!SeedAssumption, NEW f \in Seed!Fixture, \E g \in Demo : g > f
  PROVE  LET n == CHOOSE g \in Demo : g > f /\ \A k \in Demo : k > f => g <= k
         IN  n \in Demo /\ n > f /\ \A k \in Demo : k > f => n <= k
<1> DEFINE N == {g \in Demo : g > f}
<1>1. N \in SUBSET Nat /\ N # {}
  BY Numbered
<1>2. PICK x \in N : \A y \in N : x <= y
  BY <1>1, Least
<1>3. \E g \in Demo : g > f /\ \A k \in Demo : k > f => g <= k
  BY <1>2
<1> QED BY <1>3

\* On to the next request, past none.
LEMMA AdvancedRun ==
  ASSUME Seed!SeedAssumption, SeedInv, Seed!Advance(run.at), \E g \in Demo : run.at <= g
  PROVE  /\ run' \in Runs /\ run'.phones = run.phones /\ run'.contact = run.contact
         /\ run'.ids = run.ids /\ run'.operation = run.operation
         /\ \/ run'.pc = "status" /\ \A g \in Demo : g <= run.at
            \/ /\ run'.pc = "findRequest" /\ run'.at \in Demo
               /\ \A g \in Demo : g <= run.at \/ run'.at <= g
<1>1. PICK r \in Runs : r = run
  BY TypeParts DEF SeedInv
<1>2. PICK f \in Seed!Fixture : f = run.at
  BY <1>1 DEF Runs
<1>3. CASE f = Seed!LastDemo
  <2>1. Seed!Next_("status")
    BY <1>2, <1>3 DEF Seed!Advance
  <2> QED BY <1>2, <1>3, <2>1, LastOfDemo, NextRun DEF Seed!Points
<1>4. CASE f # Seed!LastDemo
  <2>1. \E g \in Demo : g > f
    <3>1. PICK g \in Demo : f <= g
      BY <1>2
    <3>2. f \in Nat /\ g \in Nat /\ Seed!LastDemo \in Nat /\ g <= Seed!LastDemo /\ Seed!LastDemo \in Demo
      BY LastOfDemo, Numbered
    <3> QED BY <1>4, <3>1, <3>2
  <2>2. PICK n \in Demo : /\ n = CHOOSE g \in Demo : g > f /\ \A k \in Demo : k > f => g <= k
                          /\ \A k \in Demo : k > f => n <= k
    BY <2>1, NextOfDemo
  <2>3. n \in Seed!Fixture
    BY Numbered
  <2>4. PICK q \in Runs : q = [r EXCEPT !.pc = "findRequest", !.at = n]
    BY <2>3 DEF Runs, Seed!Points
  <2>5. /\ q.pc = "findRequest" /\ q.at = n /\ q.phones = r.phones /\ q.contact = r.contact
        /\ q.ids = r.ids /\ q.operation = r.operation
    BY <2>3, <2>4 DEF Runs
  <2>6. run' = q
    BY <1>1, <1>2, <1>4, <2>2, <2>4 DEF Seed!Advance
  <2>7. \A g \in Demo : g <= f \/ n <= g
    <3> SUFFICES ASSUME NEW g \in Demo, ~(n <= g) PROVE g <= f
      OBVIOUS
    <3>1. ~(g > f) /\ g \in Nat /\ f \in Nat
      BY <2>2, Numbered
    <3> QED BY <3>1
  <2> QED BY <1>1, <1>2, <2>5, <2>6, <2>7
<1> QED BY <1>3, <1>4

\* Whoever asks keeps the operation, its mandate and the requests done with.
LEMMA Asks ==
  ASSUME Seed!SeedAssumption, SeedInv, Seed!Quiet, run.pc \in Asking, run' \in Runs,
         run'.pc \in Asking,
         run'.phones = run.phones, run'.contact = run.contact, run'.ids = run.ids,
         run'.operation = run.operation, UNCHANGED <<contacts, providers, operation>>,
         TablesTyped', RequestsHeld',
         settled # {} => UNCHANGED <<call, mandates, requests, quotes>>,
         settled # {} => run'.pc # "insertRequest",
         settled # {} /\ run'.pc = "respond" => run'.request.status = "responded"
  PROVE  SeedInv' /\ StepIsSafe
<1>1. Seed!TypeOK /\ CountersTyped' /\ UNCHANGED <<settled, alone>>
  BY QuietTyped DEF SeedInv
<1>2. OperationHeld'
  BY DEF SeedInv, OperationHeld
<1>3. alone => run'.operation.status = operation'.status
  BY DEF SeedInv, Undisturbed
<1>4. settled # {} => DemonstrationLeft'
  BY DEF SeedInv, AsCompleted, DemonstrationLeft, Asking
<1>5. run.pc \in Written /\ run'.pc \notin Filling
  BY DEF Written, Filling, Asking
<1>6. SeedInv'
  BY <1>1, <1>2, <1>3, <1>4, <1>5, Continues
<1> QED BY <1>1, <1>6, OperationKept

\* The run is done with a request it has looked up, inserted or answered.
LEMMA Advances ==
  ASSUME Seed!SeedAssumption, SeedInv, Seed!Quiet, run.pc \in Asking \ {"status"},
         Seed!Advance(run.at),
         UNCHANGED <<contacts, providers, operation>>, TablesTyped',
         settled # {} => UNCHANGED <<call, mandates, requests, quotes>>,
         \A g \in Seed!Fixture : g # run.at => requests'[g] = requests[g],
         quotes \subseteq quotes',
         run.at \in Demo => /\ requests'[run.at].status # "absent"
                            /\ requests'[run.at].provider = run.ids[run.at],
         run.at \in Quoting => requests'[run.at].status = "responded" /\ run.at \in quotes'
  PROVE  SeedInv' /\ StepIsSafe
<1>1. \E g \in Demo : run.at <= g
  BY DEF SeedInv, RequestsHeld
<1>2. /\ run' \in Runs /\ run'.phones = run.phones /\ run'.contact = run.contact
      /\ run'.ids = run.ids /\ run'.operation = run.operation
      /\ \/ run'.pc = "status" /\ \A g \in Demo : g <= run.at
         \/ /\ run'.pc = "findRequest" /\ run'.at \in Demo
            /\ \A g \in Demo : g <= run.at \/ run'.at <= g
  BY <1>1, AdvancedRun
<1>3. ASSUME NEW g \in Demo, Processed(g)' PROVE g = run.at \/ (g # run.at /\ Processed(g))
  <2>1. g \in Nat /\ run.at \in Nat
    BY TypeParts, Numbered DEF SeedInv, Runs
  <2>2. g <= run.at
    <3>1. CASE run'.pc = "status"
      BY <1>2, <3>1
    <3>2. CASE run'.pc # "status"
      <4>1. g < run'.at /\ run'.at \in Nat /\ (g <= run.at \/ run'.at <= g)
        BY <1>2, <1>3, <3>2, Numbered DEF Processed
      <4> QED BY <2>1, <4>1
    <3> QED BY <3>1, <3>2
  <2> QED BY <2>1, <2>2 DEF Processed
<1>4. \A g \in Demo : Processed(g)' =>
        requests'[g].status # "absent" /\ requests'[g].provider = run'.ids[g]
  BY <1>2, <1>3, Numbered DEF SeedInv, RequestsHeld
<1>5. \A g \in Quoting : Processed(g)' => requests'[g].status = "responded" /\ g \in quotes'
  BY <1>3, Numbered DEF SeedInv, RequestsHeld
<1>6. run'.pc = "findRequest" => \E g \in Demo : run'.at <= g
  <2>1. run'.at \in Demo => run'.at \in Nat /\ run'.at <= run'.at
    BY Numbered
  <2> QED BY <1>2, <2>1
<1>7. RequestsHeld'
  BY <1>2, <1>4, <1>5, <1>6 DEF RequestsHeld, Asking
<1> QED BY <1>2, <1>7, Asks DEF Asking

LEMMA FindRequestStep ==
  ASSUME Seed!SeedAssumption, SeedInv, Seed!FindRequest PROVE SeedInv' /\ StepIsSafe
<1>1. /\ TablesTyped /\ Seed!Quiet /\ UNCHANGED Seed!tables /\ run.pc = "findRequest"
      /\ CountersTyped' /\ UNCHANGED <<settled, alone>>
  BY TypeParts, QuietTyped DEF SeedInv, Seed!FindRequest
<1>2. /\ TablesTyped' /\ run.pc \in Asking \ {"status"}
      /\ UNCHANGED <<contacts, providers, operation, call, mandates, requests, quotes>>
  BY <1>1 DEF TablesTyped, Seed!tables, Asking
<1>3. PICK r \in Runs : r = run
  BY TypeParts DEF SeedInv
<1>4. PICK f \in Seed!Fixture : f = run.at
  BY <1>3 DEF Runs
<1>5. \E g \in Demo : f <= g
  BY <1>1, <1>4 DEF SeedInv, RequestsHeld, Asking
<1>6. CASE f \notin Demo
  <2>1. Seed!Advance(run.at) /\ run.at \notin Demo /\ run.at \notin Quoting
    BY <1>4, <1>6, Numbered DEF Seed!FindRequest
  <2> QED BY <1>1, <1>2, <2>1, Advances
<1>7. CASE f \in Demo /\ requests[f].status = "absent"
  <2>1. PICK q \in Runs : q = [r EXCEPT !.pc = "insertRequest", !.request = Seed!NoRequest]
    BY SeedRange DEF Runs, Seed!Points
  <2>2. /\ q.pc = "insertRequest" /\ q.phones = r.phones /\ q.contact = r.contact /\ q.at = r.at
        /\ q.ids = r.ids /\ q.operation = r.operation
    BY <2>1 DEF Runs
  <2>3. run' = q
    BY <1>3, <1>4, <1>7, <2>1 DEF Seed!FindRequest
  <2>4. settled = {}
    BY <1>7 DEF SeedInv, AsCompleted, DemonstrationLeft
  <2>5. RequestsHeld'
    <3>1. \A g \in Demo : Processed(g)' => Processed(g)
      BY <1>1, <1>3, <2>2, <2>3 DEF Processed, Asking
    <3> QED BY <1>2, <1>3, <1>4, <1>5, <1>7, <2>2, <2>3, <3>1, Numbered
               DEF SeedInv, RequestsHeld, Asking
  <2>6. /\ run' \in Runs /\ run'.pc = "insertRequest" /\ run'.phones = run.phones
        /\ run'.contact = run.contact /\ run'.ids = run.ids /\ run'.operation = run.operation
    BY <1>3, <2>2, <2>3
  <2> QED BY <1>1, <1>2, <2>4, <2>5, <2>6, Asks DEF Asking
<1>8. CASE f \in Demo /\ requests[f].status # "absent"
  <2>1. CASE requests[f].provider # run.ids[f]
    <3>1. Seed!Throw
      BY <1>4, <1>8, <2>1 DEF Seed!FindRequest
    <3> QED BY <1>1, <3>1, ThrowStep
  <2>2. CASE requests[f].provider = run.ids[f] /\ f \notin Quoting
    <3>1. Seed!Advance(run.at)
      BY <1>4, <1>8, <2>2 DEF Seed!FindRequest
    <3> QED BY <1>1, <1>2, <1>4, <1>8, <2>2, <3>1, Advances
  <2>3. CASE requests[f].provider = run.ids[f] /\ f \in Quoting
    <3>1. PICK n \in Seed!Requests : n = requests[f]
      BY <1>1 DEF TablesTyped
    <3>2. PICK q \in Runs : q = [r EXCEPT !.pc = "respond", !.request = n]
      BY DEF Runs, Seed!Points
    <3>3. /\ q.pc = "respond" /\ q.phones = r.phones /\ q.contact = r.contact /\ q.at = r.at
          /\ q.ids = r.ids /\ q.operation = r.operation /\ q.request = n
      BY <3>2 DEF Runs
    <3>4. run' = q
      BY <1>3, <1>4, <1>8, <2>3, <3>1, <3>2 DEF Seed!FindRequest
    <3>5. RequestsHeld'
      <4>1. \A g \in Demo : Processed(g)' => Processed(g)
        BY <1>1, <1>3, <3>3, <3>4 DEF Processed, Asking
      <4>2. run'.at = f /\ run'.ids = run.ids /\ run'.request = requests[f] /\ run'.pc = "respond"
        BY <1>3, <1>4, <3>1, <3>3, <3>4
      <4> QED BY <1>2, <1>5, <1>8, <2>3, <4>1, <4>2, Numbered DEF SeedInv, RequestsHeld, Asking
    <3>6. settled # {} => run'.request.status = "responded"
      BY <2>3, <3>1, <3>3, <3>4 DEF SeedInv, AsCompleted, DemonstrationLeft
    <3>7. /\ run' \in Runs /\ run'.pc = "respond" /\ run'.phones = run.phones
          /\ run'.contact = run.contact /\ run'.ids = run.ids /\ run'.operation = run.operation
      BY <1>3, <3>3, <3>4
    <3> QED BY <1>1, <1>2, <3>5, <3>6, <3>7, Asks DEF Asking
  <2> QED BY <2>1, <2>2, <2>3
<1> QED BY <1>6, <1>7, <1>8

LEMMA InsertRequestStep ==
  ASSUME Seed!SeedAssumption, SeedInv, Seed!InsertRequest PROVE SeedInv' /\ StepIsSafe
<1>1. /\ TablesTyped /\ Seed!Quiet /\ run.pc = "insertRequest" /\ CountersTyped'
      /\ UNCHANGED <<settled, alone>>
      /\ run \in Runs /\ run.at \in Seed!Fixture /\ run.at \in Demo /\ run.pc \in Asking \ {"status"}
  BY TypeParts, QuietTyped, Numbered DEF SeedInv, Seed!InsertRequest, RequestsHeld, Asking
<1>2. CASE Seed!Throw
  BY <1>1, <1>2, ThrowStep
<1>3. CASE ~Seed!Throw
  <2>1. PICK f \in Seed!Fixture : f = run.at
    BY <1>1
  <2>2. PICK n \in Seed!Requests :
          n = [provider |-> run.ids[f], status |-> IF f \in Quoting THEN "responded" ELSE "pending"]
    BY <1>1 DEF Runs, Seed!Requests
  <2>3. n.provider = run.ids[f] /\ n.status = IF f \in Quoting THEN "responded" ELSE "pending"
    BY <2>2
  <2>4. /\ requests' = [requests EXCEPT ![f] = n]
        /\ IF f \in Quoting THEN Seed!Next_("respond") ELSE Seed!Advance(f)
        /\ UNCHANGED <<contacts, providers, operation, call, mandates, quotes>>
    BY <1>3, <2>1, <2>2 DEF Seed!InsertRequest
  <2>5. /\ requests' \in [Seed!Fixture -> Seed!Requests] /\ requests'[f] = n
        /\ \A g \in Seed!Fixture : g # f => requests'[g] = requests[g]
    BY <1>1, <2>4 DEF TablesTyped
  <2>6. TablesTyped'
    BY <1>1, <2>4, <2>5 DEF TablesTyped
  <2>7. settled = {}
    BY <1>1 DEF SeedInv, AsCompleted, DemonstrationLeft
  <2>8. CASE f \in Quoting
    <3>1. /\ run' \in Runs /\ run'.pc = "respond" /\ run'.at = run.at /\ run'.phones = run.phones
          /\ run'.contact = run.contact /\ run'.ids = run.ids
          /\ run'.operation = run.operation /\ run'.request = run.request
      BY <2>4, <2>8, NextRun DEF Seed!Points
    <3>2. ASSUME NEW g \in Demo, Processed(g)' PROVE Processed(g) /\ g # f
      <4>1. g < f
        BY <2>1, <3>1, <3>2 DEF Processed
      <4>2. g \in Nat /\ f \in Nat
        BY Numbered
      <4> QED BY <1>1, <2>1, <4>1, <4>2 DEF Processed
    <3>3. RequestsHeld'
      <4>1. \E g \in Demo : run'.at <= g
        BY <1>1, <3>1 DEF SeedInv, RequestsHeld
      <4>2. \A g \in Demo : Processed(g)' =>
              requests'[g].status # "absent" /\ requests'[g].provider = run'.ids[g]
        BY <2>5, <3>1, <3>2, Numbered DEF SeedInv, RequestsHeld
      <4>3. \A g \in Quoting : Processed(g)' => requests'[g].status = "responded" /\ g \in quotes'
        BY <2>4, <2>5, <3>2, Numbered DEF SeedInv, RequestsHeld
      <4>4. /\ run'.at \in Quoting /\ requests'[run'.at].status = "responded"
            /\ requests'[run'.at].provider = run'.ids[run'.at]
        BY <2>1, <2>3, <2>5, <2>8, <3>1
      <4> QED BY <3>1, <4>1, <4>2, <4>3, <4>4 DEF RequestsHeld
    <3> QED BY <1>1, <2>4, <2>6, <2>7, <3>1, <3>3, Asks DEF Asking
  <2>9. CASE f \notin Quoting
    <3>1. Seed!Advance(run.at) /\ run.at \notin Quoting /\ requests'[run.at].status # "absent"
      BY <2>1, <2>3, <2>4, <2>5, <2>9
    <3> QED BY <1>1, <2>1, <2>3, <2>4, <2>5, <2>6, <2>7, <3>1, Advances
  <2> QED BY <2>8, <2>9
<1> QED BY <1>2, <1>3

LEMMA RespondStep ==
  ASSUME Seed!SeedAssumption, SeedInv, Seed!Respond PROVE SeedInv' /\ StepIsSafe
<1>1. /\ TablesTyped /\ Seed!Quiet /\ run.pc = "respond" /\ run.pc \in Asking /\ Seed!Next_("quote")
      /\ UNCHANGED <<contacts, providers, operation, call, mandates, quotes>>
  BY TypeParts DEF SeedInv, Seed!Respond, Asking
<1>2. PICK f \in Seed!Fixture : f = run.at
  BY TypeParts DEF SeedInv, Runs
<1>3. /\ run' \in Runs /\ run'.pc = "quote" /\ run'.at = f /\ run'.phones = run.phones
      /\ run'.contact = run.contact /\ run'.ids = run.ids /\ run'.operation = run.operation
  BY <1>1, <1>2, NextRun DEF Seed!Points
<1>4. f \in Quoting /\ requests[f].status # "absent" /\ requests[f].provider = run.ids[f]
  BY <1>1, <1>2 DEF SeedInv, RequestsHeld
<1>5. /\ requests' \in [Seed!Fixture -> Seed!Requests] /\ requests'[f].status = "responded"
      /\ \A g \in Seed!Fixture : requests'[g].provider = requests[g].provider
      /\ \A g \in Seed!Fixture : g # f => requests'[g] = requests[g]
  <2>1. CASE run.request.status = "responded"
    <3>1. requests' = requests /\ requests[f].status = "responded"
      BY <1>1, <1>2, <2>1 DEF Seed!Respond, SeedInv, RequestsHeld
    <3> QED BY <1>1, <3>1 DEF TablesTyped
  <2>2. CASE run.request.status # "responded"
    <3>1. PICK o \in Seed!Requests : o = requests[f]
      BY <1>1 DEF TablesTyped
    <3>2. PICK n \in Seed!Requests : n = [o EXCEPT !.status = "responded"]
      BY DEF Seed!Requests
    <3>3. n.status = "responded" /\ n.provider = o.provider
      BY <3>2 DEF Seed!Requests
    <3>4. requests' = [requests EXCEPT ![f] = n]
      BY <1>2, <2>2, <3>1, <3>2 DEF Seed!Respond
    <3> QED BY <1>1, <3>1, <3>3, <3>4 DEF TablesTyped
  <2> QED BY <2>1, <2>2
<1>6. TablesTyped'
  BY <1>1, <1>5 DEF TablesTyped
<1>7. settled # {} => UNCHANGED <<call, mandates, requests, quotes>>
  BY <1>1 DEF SeedInv, AsCompleted, DemonstrationLeft, Seed!Respond
<1>8. \A g \in Demo : Processed(g)' => Processed(g)
  BY <1>1, <1>2, <1>3 DEF Processed
<1>9. RequestsHeld'
  <2>1. \E g \in Demo : run'.at <= g
    BY <1>1, <1>2, <1>3 DEF SeedInv, RequestsHeld
  <2>2. \A g \in Demo : Processed(g)' =>
          requests'[g].status # "absent" /\ requests'[g].provider = run'.ids[g]
    BY <1>3, <1>5, <1>8, Numbered DEF SeedInv, RequestsHeld
  <2>3. \A g \in Quoting : Processed(g)' => requests'[g].status = "responded" /\ g \in quotes'
    BY <1>1, <1>5, <1>8, Numbered DEF SeedInv, RequestsHeld
  <2>4. requests'[run'.at].status = "responded" /\ requests'[run'.at].provider = run'.ids[run'.at]
    BY <1>3, <1>4, <1>5
  <2> QED BY <1>3, <1>4, <2>1, <2>2, <2>3, <2>4 DEF RequestsHeld
<1> QED BY <1>1, <1>3, <1>6, <1>7, <1>9, Asks DEF Asking

LEMMA EnsureQuoteStep ==
  ASSUME Seed!SeedAssumption, SeedInv, Seed!EnsureQuote PROVE SeedInv' /\ StepIsSafe
<1>1. /\ TablesTyped /\ Seed!Quiet /\ run.pc = "quote" /\ run.pc \in Asking \ {"status"}
      /\ Seed!Advance(run.at)
      /\ quotes' = quotes \cup {run.at}
      /\ UNCHANGED <<contacts, providers, operation, call, mandates, requests>>
  BY TypeParts DEF SeedInv, Seed!EnsureQuote, Seed!WithQuote, Asking
<1>2. /\ run.at \in Quoting /\ requests[run.at].status = "responded"
      /\ requests[run.at].provider = run.ids[run.at]
  BY <1>1 DEF SeedInv, RequestsHeld
<1>3. TablesTyped'
  BY <1>1, <1>2 DEF TablesTyped
<1>4. settled # {} => quotes' = quotes
  BY <1>1, <1>2 DEF SeedInv, AsCompleted, DemonstrationLeft
<1> QED BY <1>1, <1>2, <1>3, <1>4, Advances

------------------------------------------------------------------------------
(* The run completes *)

\* As many rows as fixtures: every fixture has its own.
LEMMA RowsOfTheirOwn ==
  ASSUME Seed!SeedAssumption, NEW ids \in [Seed!Fixture -> 0 .. MaxProviders],
         Cardinality({ids[f] : f \in Seed!Fixture}) = Fixtures,
         NEW f \in Seed!Fixture, NEW g \in Seed!Fixture, ids[f] = ids[g]
  PROVE  f = g
<1> DEFINE S == {ids[h] : h \in Seed!Fixture}
<1>1. Fixtures \in Nat /\ 1 \in Int /\ Fixtures \in Int
  BY DEF Seed!SeedAssumption
<1>2. IsFiniteSet(Seed!Fixture) /\ Cardinality(Seed!Fixture) = Fixtures
  <2>1. IsFiniteSet(1 .. Fixtures)
    BY <1>1, FS_Interval
  <2>2. Cardinality(1 .. Fixtures) = IF 1 > Fixtures THEN 0 ELSE Fixtures - 1 + 1
    BY <1>1, FS_Interval
  <2> QED BY <1>1, <2>1, <2>2 DEF Seed!Fixture, Seed!SeedAssumption
<1>3. ids \in Surjection(Seed!Fixture, S)
  BY DEF Surjection
<1>4. Cardinality(S) = Cardinality(Seed!Fixture)
  BY <1>2
<1> HIDE DEF S
<1>5. ids \in Injection(Seed!Fixture, S)
  BY <1>2, <1>3, <1>4, FS_SurjSameCardinalityImpliesInj
<1>6. \A h, k \in Seed!Fixture : ids[h] = ids[k] => h = k
  BY <1>5 DEF Injection, IsInjective
<1> QED BY <1>6

\* The operation it has asked quotes for is moved on from sourcing, or nowhere.
LEMMA SetStatusStep ==
  ASSUME Seed!SeedAssumption, SeedInv, Seed!SetStatus PROVE SeedInv' /\ StepIsSafe
<1> DEFINE new == IF Quoting # {} /\ run.operation.status = "sourcing" THEN "quotes_received"
                  ELSE operation.status
<1>1. /\ Seed!TypeOK /\ TablesTyped /\ CountersTyped /\ run \in Runs /\ run.pc = "status"
      /\ run.phones \in Configs /\ UNCHANGED <<alone, Seed!counters>>
  BY TypeParts DEF SeedInv, Seed!SetStatus, Runs
<1>2. /\ operation.contact = run.contact /\ operation.status # "absent" /\ operation.mandate # 0
      /\ run.contact # 0 /\ operation \in Seed!Operations
      /\ \A f \in Demo : requests[f].status # "absent" /\ requests[f].provider = run.ids[f]
      /\ \A f \in Quoting : requests[f].status = "responded"
      /\ quotes = Quoting
  <2>1. run.pc \in Asking /\ \A f \in Demo : Processed(f)
    BY <1>1 DEF Processed, Asking
  <2>2. quotes = Quoting
    BY <1>1, <2>1, Numbered DEF SeedInv, RequestsHeld, TablesTyped
  <2> QED BY <1>1, <2>1, <2>2, Numbered
          DEF SeedInv, OperationHeld, RequestsHeld, InHand, Written, TablesTyped
<1>3. CASE ~Seed!TransitionAllowed(new)
  <2>1. Seed!Throw /\ UNCHANGED settled
    BY <1>3 DEF Seed!SetStatus
  <2> QED BY <1>1, <2>1, ThrowStep DEF CountersTyped, Seed!counters
<1>4. CASE Seed!TransitionAllowed(new)
  <2>1. /\ operation' = [operation EXCEPT !.status = new]
        /\ run' = [Seed!Ended(run.phones, "done") EXCEPT !.ids = run.ids]
        /\ settled' = IF alone THEN {run.phones} ELSE settled
        /\ UNCHANGED <<contacts, providers, call, mandates, requests, quotes>>
    BY <1>4 DEF Seed!SetStatus
  <2>2. PICK o \in Seed!Operations : o = operation
    BY <1>2
  <2>3. /\ new \in Seed!Status /\ new # "absent"
        /\ new = operation.status \/ (operation.status = "sourcing" /\ new = "quotes_received")
    <3>1. new = "quotes_received" \/ new = operation.status
      OBVIOUS
    <3>2. CASE new = operation.status
      BY <1>2, <3>2 DEF Seed!Operations
    <3>3. CASE new = "quotes_received" /\ new # operation.status
      <4>1. new \in Seed!Transitions[operation.status] /\ operation.status \in Seed!Status
        BY <1>2, <1>4, <3>3 DEF Seed!TransitionAllowed, Seed!Operations
      <4> QED BY <3>3, <4>1, TransitionsPresent
    <3> QED BY <3>1, <3>2, <3>3
  <2>4. PICK s \in Seed!Status : s = new
    BY <2>3
  <2>5. PICK n \in Seed!Operations : n = [o EXCEPT !.status = s]
    BY DEF Seed!Operations
  <2>6. n.status = s /\ n.contact = o.contact /\ n.mandate = o.mandate /\ n.unconfirmed = o.unconfirmed
    BY <2>5 DEF Seed!Operations
  <2>7. operation' = n
    BY <2>1, <2>2, <2>4, <2>5
  <2>8. /\ operation'.status = new /\ operation'.contact = operation.contact
        /\ operation'.mandate = operation.mandate /\ operation'.unconfirmed = operation.unconfirmed
    BY <2>2, <2>4, <2>6, <2>7
  <2>9. alone => operation'.status # "sourcing"
    BY <1>1, <2>3, <2>8 DEF SeedInv, Undisturbed, Asking, Seed!SeedAssumption
  <2>10. PICK e \in Runs : /\ e = Seed!Ended(run.phones, "done") /\ e.pc = "done" /\ e.phones = run.phones
                           /\ e.at = 1 /\ e.unread = {}
    BY <1>1, EndedRun DEF Seed!Points
  <2>11. PICK ids \in [Seed!Fixture -> 0 .. MaxProviders] : ids = run.ids
    BY <1>1 DEF Runs
  <2>12. PICK q \in Runs : q = [e EXCEPT !.ids = ids]
    BY DEF Runs
  <2>13. q.pc = e.pc /\ q.phones = e.phones /\ q.ids = ids
    BY <2>12 DEF Runs
  <2>14. run' = q
    BY <2>1, <2>10, <2>11, <2>12
  <2>15. run' \in Runs /\ run'.pc = "done" /\ run'.phones = run.phones /\ run'.ids = run.ids
    BY <2>10, <2>11, <2>13, <2>14
  <2> HIDE DEF new
  <2>16. Seed!TypeOK'
    <3>1. settled' \in SUBSET Configs
      BY <1>1, <2>1 DEF CountersTyped
    <3>2. CountersTyped'
      BY <1>1, <3>1 DEF CountersTyped, Seed!counters
    <3>3. TablesTyped'
      BY <1>1, <2>1, <2>7 DEF TablesTyped
    <3> QED BY <2>15, <3>2, <3>3, TypePartsThen
  <2>17. Reached = Fixtures /\ Reached' = Fixtures
    BY <1>1, <2>15 DEF Reached, Written, Asking
  <2>18. RowsKeyed' /\ KeysRead'
    BY <2>1, <2>15 DEF SeedInv, RowsKeyed, KeysRead
  <2>19. InHand' /\ OperationHeld' /\ RequestsHeld'
    <3>1. \A g \in 1 .. Fixtures : run'.ids[g] # 0
      BY <2>15, <2>17 DEF SeedInv, InHand
    <3> QED BY <2>15, <2>17, <3>1
            DEF InHand, OperationHeld, RequestsHeld, Processed, Seed!Stopped, Written, Filling, Asking
  <2>20. \A g \in Seed!Fixture : FixtureRow(g)' = FixtureRow(g)
    BY <2>15 DEF FixtureRow
  <2>21. alone => Seed!CompletedIsWhole'
    <3> SUFFICES ASSUME alone, Seed!Cardinality({run'.ids[f] : f \in Seed!Fixture}) = Fixtures
                 PROVE  Seed!CompletedIsWhole'
      BY <1>1 DEF Seed!CompletedIsWhole
    <3>1. \A f, g \in Seed!Fixture : ids[f] = ids[g] => f = g
      BY <2>11, <2>15, RowsOfTheirOwn, SameCardinality
    <3>2. ASSUME NEW f \in Seed!Fixture
          PROVE  /\ ids[f] \in 1 .. MaxProviders /\ providers[ids[f]] = FixtureRow(f)
                 /\ f \in Demo => requests[f].provider = ids[f]
      <4>1. f \in 1 .. Fixtures /\ \A h \in 1 .. Fixtures : h > f => ids[h] # ids[f]
        BY <3>1, <3>2, Numbered DEF Seed!Fixture
      <4>2. providers[ids[f]].key = f
        BY <2>11, <2>17, <4>1 DEF SeedInv, Undisturbed
      <4>3. ids[f] # 0 /\ ids[f] \in 0 .. MaxProviders
        BY <2>11, <2>17, <4>1 DEF SeedInv, InHand
      <4>4. ids[f] \in 1 .. MaxProviders
        BY <4>3 DEF Seed!SeedAssumption
      <4> QED BY <1>2, <2>11, <2>17, <4>1, <4>2, <4>4 DEF SeedInv, Undisturbed
    <3>3. contacts[run.contact] = Seed!ClientRow /\ run.contact \in 1 .. MaxContacts
      <4>1. run.contact \in 0 .. MaxContacts
        BY <1>1 DEF Runs
      <4> QED BY <1>1, <1>2, <4>1 DEF SeedInv, Undisturbed, Written, Asking, Seed!SeedAssumption
    <3>4. \E i \in DOMAIN contacts' : contacts'[i] = Seed!ClientRow' /\ operation'.contact = i
      <4>1. Seed!ClientRow' = Seed!ClientRow
        BY <2>15 DEF Seed!ClientRow
      <4>2. DOMAIN contacts' = 1 .. MaxContacts
        BY <1>1, <2>1 DEF TablesTyped
      <4> QED BY <1>2, <2>1, <2>8, <3>3, <4>1, <4>2
    <3>5. ASSUME NEW f \in Seed!Fixture
          PROVE  \E i \in DOMAIN providers' :
                   /\ providers'[i].key = f /\ providers'[i].phone = run'.phones[f] /\ providers'[i].active
                   /\ f \in Demo => requests'[f].provider = i
      <4>1. DOMAIN providers' = 1 .. MaxProviders
        BY <1>1, <2>1 DEF TablesTyped
      <4>2. /\ FixtureRow(f).key = f /\ FixtureRow(f).phone = run'.phones[f]
            /\ FixtureRow(f).active
        BY <2>15 DEF FixtureRow
      <4> QED BY <2>1, <3>2, <4>1, <4>2
    <3>6. operation'.mandate # 0 /\ operation'.status # "sourcing" /\ quotes' = Quoting
      BY <1>2, <2>1, <2>8, <2>9
    <3> QED BY <3>4, <3>5, <3>6 DEF Seed!CompletedIsWhole
  <2>22. Undisturbed'
    <3> SUFFICES ASSUME alone PROVE Undisturbed'
      BY <1>1 DEF Undisturbed
    <3>1. \A i \in 1 .. MaxProviders :
            (providers[i].key \in 1 .. Reached => providers[i] = FixtureRow(providers[i].key))'
      BY <2>1, <2>15, <2>17 DEF SeedInv, Undisturbed, FixtureRow
    <3>2. \A g \in 1 .. Fixtures :
            (\A h \in 1 .. Fixtures : h > g => run'.ids[h] # run'.ids[g]) => providers'[run'.ids[g]].key = g
      BY <2>1, <2>15, <2>17 DEF SeedInv, Undisturbed
    <3> QED BY <2>15, <2>17, <2>21, <3>1, <3>2 DEF Undisturbed, Written, Filling, Asking
  <2>23. AsCompleted'
    <3>1. settled' \subseteq {run'.phones}
      BY <2>1, <2>15 DEF SeedInv, AsCompleted
    <3>2. DemonstrationLeft'
      BY <1>2, <2>1, <2>3, <2>8, <2>15, Numbered DEF DemonstrationLeft
    <3>3. ASSUME settled' # {}
          PROVE  /\ \A i \in 1 .. MaxProviders :
                      providers[i].key # 0 => providers[i] = FixtureRow(providers[i].key)
                 /\ \E i \in 1 .. MaxContacts : contacts[i] = Seed!ClientRow
      <4>1. CASE alone
        <5>1. \A i \in 1 .. MaxProviders : providers[i].key # 0 => providers[i].key \in 1 .. Fixtures
          <6>1. \A i \in 1 .. MaxProviders : providers[i].key \in 0 .. Fixtures
            BY <1>1 DEF TablesTyped, Seed!Rows
          <6> QED BY <6>1 DEF Seed!SeedAssumption
        <5>2. run.contact \in 1 .. MaxContacts
          <6>1. run.contact \in 0 .. MaxContacts /\ run.contact # 0
            BY <1>1, <1>2 DEF Runs
          <6> QED BY <6>1 DEF Seed!SeedAssumption
        <5>3. contacts[run.contact] = Seed!ClientRow
          BY <1>1, <4>1 DEF SeedInv, Undisturbed, Written, Asking
        <5> QED BY <2>17, <4>1, <5>1, <5>2, <5>3 DEF SeedInv, Undisturbed
      <4>2. CASE ~alone
        BY <2>1, <3>3, <4>2 DEF SeedInv, AsCompleted
      <4> QED BY <4>1, <4>2
    <3>4. settled' # {} =>
            /\ \A i \in 1 .. MaxProviders :
                 (providers[i].key # 0 => providers[i] = FixtureRow(providers[i].key))'
            /\ \E i \in 1 .. MaxContacts : (contacts[i] = Seed!ClientRow)'
      BY <2>1, <2>15, <3>3 DEF FixtureRow, Seed!ClientRow
    <3> QED BY <3>1, <3>2, <3>4 DEF AsCompleted
  <2>24. StepIsSafe
    <3>1. operation' = [operation EXCEPT !.status = operation'.status]
      BY <2>1, <2>8
    <3>2. [operation EXCEPT !.status = operation.status] = operation
      BY <1>2 DEF Seed!Operations
    <3>3. operation.status # "sourcing" => operation' = operation
      BY <2>1, <2>3, <3>2
    <3>4. Seed!Rank[operation'.status] >= Seed!Rank[operation.status]
      <4>1. operation.status \in Seed!Status /\ new \in Seed!Status
        BY <1>2, <2>3 DEF Seed!Operations
      <4>2. CASE new = operation.status
        <5>1. Seed!Rank[new] \in {1, 2, 3}
          BY <4>1 DEF Seed!Rank
        <5> QED BY <2>8, <4>2, <5>1
      <4>3. CASE operation.status = "sourcing" /\ new = "quotes_received"
        <5>1. Seed!Rank["sourcing"] = 1 /\ Seed!Rank["quotes_received"] = 2
          BY DEF Seed!Rank, Seed!Status
        <5> QED BY <2>8, <4>3, <5>1
      <4> QED BY <2>3, <4>2, <4>3
    <3>5. Seed!ReseedChangesNothing
      BY <2>1, <3>1, <3>3 DEF Seed!ReseedChangesNothing
    <3>6. Seed!ProgressKept
      BY <2>8, <3>4 DEF Seed!ProgressKept
    <3> QED BY <3>5, <3>6 DEF StepIsSafe
  <2> QED BY <2>16, <2>18, <2>19, <2>22, <2>23, <2>24 DEF SeedInv
<1> QED BY <1>3, <1>4

------------------------------------------------------------------------------
(* The script may be stopped and run again at any time *)

LEMMA StepKeepsSeed ==
  ASSUME Seed!SeedAssumption, SeedInv, Seed!Step PROVE SeedInv' /\ StepIsSafe
BY LoadStep, UpsertContactStep, UpsertProviderStep, EnsureOperationStep, FindMandateStep,
   InsertCallStep, InsertMandateStep, CollectStep, AttachMandateStep, FindRequestStep,
   InsertRequestStep, RespondStep, EnsureQuoteStep, SetStatusStep DEF Seed!Step

LEMMA OthersKeepSeed ==
  ASSUME Seed!SeedAssumption, SeedInv, Seed!Environment PROVE SeedInv' /\ StepIsSafe
BY EditContactStep, EditProviderStep, ClientConfirmsStep, ClientChangesDetailsStep,
   OperationMovesStep DEF Seed!Environment

LEMMA SeedStutters ==
  ASSUME Seed!SeedAssumption, SeedInv, UNCHANGED Seed!vars PROVE SeedInv' /\ StepIsSafe
<1>1. Seed!TypeOK' /\ RowsKeyed' /\ KeysRead'
  BY DEF SeedInv, Seed!TypeOK, RowsKeyed, KeysRead, Seed!vars, Seed!tables, Seed!counters
<1>2. InHand' /\ OperationHeld'
  BY DEF SeedInv, InHand, Reached, OperationHeld, Seed!vars, Seed!tables
<1>3. RequestsHeld'
  BY DEF SeedInv, RequestsHeld, Processed, Seed!vars, Seed!tables
<1>4. Undisturbed'
  BY DEF SeedInv, Undisturbed, Reached, FixtureRow, Seed!ClientRow, Seed!CompletedIsWhole,
         Seed!vars, Seed!tables
<1>5. AsCompleted'
  BY DEF SeedInv, AsCompleted, DemonstrationLeft, FixtureRow, Seed!ClientRow, Seed!vars,
         Seed!tables
<1>6. StepIsSafe
  BY StepOfOthers DEF Seed!vars
<1> QED BY <1>1, <1>2, <1>3, <1>4, <1>5, <1>6 DEF SeedInv

LEMMA NextKeepsSeed ==
  ASSUME Seed!SeedAssumption, SeedInv, [Seed!Next]_(Seed!vars) PROVE SeedInv' /\ StepIsSafe
BY StepKeepsSeed, OthersKeepSeed, CrashStep, StartStep, SeedStutters DEF Seed!Next

LEMMA InitIsSeed == ASSUME Seed!SeedAssumption, Seed!Init PROVE SeedInv
<1>1. PICK phones \in Configs, status \in {"absent", "draft", "collecting_details"} :
        /\ phones[Seed!Client] \in Phone
        /\ contacts = [i \in 1 .. MaxContacts |->
                         IF i = 1 /\ status # "absent"
                         THEN [name |-> Seed!Client, key |-> 0, phone |-> phones[Seed!Client], active |-> TRUE]
                         ELSE Seed!NoRow]
        /\ operation = [Seed!NoOperation EXCEPT !.status = status,
                                                !.contact = IF status = "absent" THEN 0 ELSE 1]
        /\ run = Seed!Ended(phones, "idle")
  BY DEF Seed!Init
<1>2. run \in Runs /\ run.pc = "idle" /\ run.phones = phones
  BY <1>1, EndedRun DEF Seed!Points
<1>3. PICK row \in Seed!Rows :
        row = [name |-> Seed!Client, key |-> 0, phone |-> phones[Seed!Client], active |-> TRUE]
  <2>1. 0 \in 0 .. Fixtures /\ Seed!Client \in Seed!Stranger .. Fixtures
    BY DEF Seed!Client, Seed!Stranger, Seed!SeedAssumption
  <2> QED BY <1>1, <2>1 DEF Seed!Rows
<1>4. contacts \in [1 .. MaxContacts -> Seed!Rows]
  BY <1>1, <1>3, SeedRange
<1>5. operation \in Seed!Operations
  <2>1. PICK c \in 0 .. MaxContacts : c = IF status = "absent" THEN 0 ELSE 1
    BY DEF Seed!SeedAssumption
  <2>2. PICK n \in Seed!Operations : n = Seed!NoOperation
    BY SeedRange
  <2>3. [n EXCEPT !.status = status, !.contact = c] \in Seed!Operations
    BY DEF Seed!Operations, Seed!Status
  <2> QED BY <1>1, <2>1, <2>2, <2>3
<1>6. TablesTyped
  <2>1. providers \in [1 .. MaxProviders -> Seed!Rows] /\ requests \in [Seed!Fixture -> Seed!Requests]
    BY SeedRange DEF Seed!Init
  <2>2. mandates \in 0 .. MaxMandates
    BY DEF Seed!Init, Seed!SeedAssumption
  <2> QED BY <1>4, <1>5, <2>1, <2>2 DEF TablesTyped, Seed!Init
<1>7. CountersTyped
  BY DEF CountersTyped, Seed!Init, Seed!SeedAssumption
<1>8. Seed!TypeOK
  BY <1>2, <1>6, <1>7, TypeParts
<1>9. RowsKeyed
  <2>1. \A i \in 1 .. MaxProviders : providers[i].key = 0
    BY DEF Seed!Init, Seed!NoRow
  <2>2. \A i \in 1 .. MaxContacts : contacts[i].phone # NoPhone => i = 1
    BY <1>1 DEF Seed!NoRow
  <2> QED BY <2>1, <2>2 DEF RowsKeyed
<1>10. Reached = 0
  BY <1>2 DEF Reached, Written, Filling, Asking
<1>11. KeysRead /\ InHand /\ OperationHeld /\ RequestsHeld
  BY <1>2, <1>10
     DEF KeysRead, InHand, OperationHeld, RequestsHeld, Processed, Seed!Stopped, Written, Filling,
         Asking
<1>12. Undisturbed
  BY <1>2, <1>10 DEF Undisturbed, Seed!CompletedIsWhole, Written, Filling, Asking
<1>13. AsCompleted
  BY DEF AsCompleted, Seed!Init
<1> QED BY <1>8, <1>9, <1>11, <1>12, <1>13 DEF SeedInv

\* The invariant of the runs of the script, whatever others write beside them.
THEOREM SeedAgrees == ASSUME Seed!SeedAssumption PROVE Seed!Spec => []SeedInv
<1>1. Seed!Init => SeedInv
  BY InitIsSeed
<1>2. SeedInv /\ [Seed!Next]_(Seed!vars) => SeedInv'
  BY NextKeepsSeed
<1> QED BY <1>1, <1>2, PTL DEF Seed!Spec

\* The tables, the run and the counters keep their types, for any fixtures,
\* caller ids and bounds.
THEOREM SeedTypes == ASSUME Seed!SeedAssumption PROVE Seed!Spec => []Seed!TypeOK
<1>1. SeedInv => Seed!TypeOK
  BY DEF SeedInv
<1> QED BY <1>1, SeedAgrees, PTL

\* Seeding again changes nothing of a completed demonstration, no provider gets a
\* second row, an undisturbed run that completes leaves everything, and the client's
\* mandate and the progress of the operation are kept (ensureMandate,
\* ensureQuoteScenarios, upsertProviders).
THEOREM SeedStaysSafe == ASSUME Seed!SeedAssumption PROVE Seed!Spec => Seed!SeedIsSafe
<1>1. SeedInv /\ SeedInv' /\ [Seed!Next]_(Seed!vars) =>
        /\ Seed!ReseedChangesNothing /\ Seed!OneRowPerFixture'
        /\ Seed!CompletedIsWhole' /\ Seed!ProgressKept
  <2> SUFFICES ASSUME SeedInv, SeedInv', [Seed!Next]_(Seed!vars)
               PROVE  /\ Seed!ReseedChangesNothing /\ Seed!OneRowPerFixture'
                      /\ Seed!CompletedIsWhole' /\ Seed!ProgressKept
    OBVIOUS
  <2>1. Seed!ReseedChangesNothing /\ Seed!ProgressKept
    BY NextKeepsSeed DEF StepIsSafe
  <2>2. DOMAIN providers' = 1 .. MaxProviders
    BY DEF SeedInv, Seed!TypeOK
  <2>3. Seed!OneRowPerFixture'
    BY <2>2 DEF SeedInv, RowsKeyed, Seed!OneRowPerFixture
  <2>4. Seed!CompletedIsWhole'
    BY DEF SeedInv, Undisturbed, Seed!CompletedIsWhole
  <2> QED BY <2>1, <2>3, <2>4
<1> QED BY <1>1, SeedAgrees, PTL DEF Seed!Spec, Seed!SeedIsSafe
=============================================================================
