---------------------------- MODULE ContactPromise ----------------------------
(***************************************************************************)
(* What the dispatcher promises the providers of an operation, without     *)
(* jobs, leases, processes or rounds: the attempts of a request are dialled *)
(* in order and once each, the next one only after the one before was       *)
(* missed and while nobody is known to have answered, and only a limited    *)
(* number of calls is under way at a time.  ProviderContact implements it.  *)
(***************************************************************************)
EXTENDS Integers, FiniteSets

CONSTANTS Request, MaxAttempts, MaxLive

VARIABLES
  phase,   \* per attempt: idle, dialled, missed (no-answer) or over
  heard    \* per attempt: there is evidence that somebody answered

vars == <<phase, heard>>

Attempt == Request \X (1 .. MaxAttempts)

Init ==
  /\ phase = [k \in Attempt |-> "idle"]
  /\ heard = [k \in Attempt |-> FALSE]

UnderWay == {k \in Attempt : phase[k] = "dialled"}

Dial(k) ==
  /\ phase[k] = "idle"
  /\ k[2] > 1 => phase[<<k[1], k[2] - 1>>] = "missed"
  /\ \A n \in 1 .. MaxAttempts : ~heard[<<k[1], n>>]
  /\ Cardinality(UnderWay) < MaxLive
  /\ phase' = [phase EXCEPT ![k] = "dialled"]
  /\ UNCHANGED heard

\* News of a call: it may end it, it may be evidence of an answer, or both.
\* What is known of a call is not taken back.
Report(k) ==
  /\ phase[k] # "idle"
  /\ \E end \in {"dialled", "missed", "over"} :
       /\ phase[k] # "dialled" => end = phase[k]
       /\ phase' = [phase EXCEPT ![k] = end]
  /\ \E answer \in BOOLEAN : heard' = [heard EXCEPT ![k] = @ \/ answer]

Next == \E k \in Attempt : Dial(k) \/ Report(k)

Spec == Init /\ [][Next]_vars
==============================================================================
