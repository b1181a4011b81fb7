-------------------------- MODULE MCProviderContact --------------------------
(* Instances of ProviderContact for TLC. *)
EXTENDS ProviderContact, TLC

CONSTANTS a, b

\* One round with one request or with two; two rounds of one request.
Single == {a}
Pair == {a, b}
SingleRound == (a :> 1)
PairRound == (a :> 1 @@ b :> 1)
TwoRounds == (a :> 1 @@ b :> 2)

\* What Twilio may report of a call.  The mixed reports contradict each other:
\* an answer and a no-answer for the same call.
MixedScripts == {<<"in-progress", "no-answer">>, <<"busy">>}
MissedOrDone == {<<"no-answer">>, <<"completed">>}
DoneOrBusy == {<<"completed">>, <<"busy">>}
AlwaysBusy == {<<"busy">>}

Processes == Permutations(Worker)
Twins == Permutations({a, b}) \cup Permutations(Worker)
==============================================================================
