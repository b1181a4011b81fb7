-------------------------- MODULE EvidenceRetention --------------------------
(***************************************************************************)
(* The evidence of calls and its disposal: the text of their transcripts   *)
(* and their recordings at Twilio, of which the database keeps the SIDs.   *)
(* When the evidence of a call expires, a worker of each server process    *)
(* claims the call under a lease, erases the text and deletes every        *)
(* completed recording at Twilio, one HTTP request at a time.              *)
(*                                                                         *)
(* Segments of the transcript and callbacks about recordings may still     *)
(* come after the expiry; a request may fail, or be carried out and time   *)
(* out; a process may die; a lease may run out under a slow batch.         *)
(***************************************************************************)
EXTENDS Integers, Sequences, FiniteSets

CONSTANTS
  Calls, Recordings, Processes,
  Owner,        \* the call of each recording
  Stuck,        \* recordings that Twilio always refuses to delete
  Batch,        \* number of calls a worker claims at once
  MaxSegments,  \* bound on the segments of a call
  MaxFaults     \* bound on failed or lost requests, duplicates and crashes

NoRecording == "none"

RetentionAssumption ==
  /\ NoRecording \notin Recordings /\ Owner \in [Recordings -> Calls] /\ Stuck \subseteq Recordings
  /\ IsFiniteSet(Calls) /\ Batch \in Nat /\ MaxSegments \in Nat /\ MaxFaults \in Nat

VARIABLES
  calls,      \* calls rows: expiry, lease, purge and the aggregate status
  order,      \* place of each call by retention_checked_at, those never checked first
  text,       \* number of segments of each call that have content
  inserts,    \* the insertion of a segment in progress, if any
  spoken,     \* number of segments begun
  recs,       \* call_recordings rows
  audio,      \* the recordings at Twilio
  callbacks,  \* callbacks about recordings on their way
  proc,       \* the worker of each process
  faults

vars == <<calls, order, text, inserts, spoken, recs, audio, callbacks, proc, faults>>
transcripts == <<text, inserts, spoken>>

Status == {"in-progress", "completed", "absent", "failed"}
CallRow == [expired : BOOLEAN, leased : BOOLEAN, purged : BOOLEAN,
            status : Status \cup {"pending", "deleted", "deletion_pending"}]
RecordingRow == [status : Status \cup {"unknown"}, deleted : BOOLEAN, error : BOOLEAN]
Callback == [call : Calls, rec : Recordings \cup {NoRecording}, status : Status]
Job == [call : Calls, transcript : BOOLEAN, recs : SUBSET Recordings]
ProcessState == [pc : {"idle", "purge", "delete", "sent"}, jobs : Seq(Job),
            rec : Recordings \cup {NoRecording}, ok : BOOLEAN]

TypeOK ==
  /\ calls \in [Calls -> CallRow] /\ order \in [Calls -> Nat]
  /\ text \in [Calls -> 0 .. MaxSegments] /\ spoken \in [Calls -> 0 .. MaxSegments]
  /\ inserts \in [Calls -> {"none", "live", "late"}]
  /\ recs \in [Recordings -> RecordingRow]
  /\ audio \in [Recordings -> {"none", "recording", "stored", "gone"}]
  /\ callbacks \subseteq Callback /\ proc \in [Processes -> ProcessState]
  /\ faults \in 0 .. MaxFaults

Unknown == [status |-> "unknown", deleted |-> FALSE, error |-> FALSE]
Idle == [pc |-> "idle", jobs |-> <<>>, rec |-> NoRecording, ok |-> FALSE]

Init ==
  /\ calls = [c \in Calls |-> [expired |-> FALSE, leased |-> FALSE, purged |-> FALSE, status |-> "pending"]]
  /\ order \in [Calls -> 1 .. Cardinality(Calls)] /\ \A c, d \in Calls : order[c] = order[d] => c = d
  /\ text = [c \in Calls |-> 0] /\ spoken = [c \in Calls |-> 0] /\ inserts = [c \in Calls |-> "none"]
  /\ recs = [r \in Recordings |-> Unknown] /\ audio = [r \in Recordings |-> "none"]
  /\ callbacks = {} /\ proc = [p \in Processes |-> Idle] /\ faults = 0

Fault == faults < MaxFaults /\ faults' = faults + 1
NoFault == UNCHANGED faults

Expire(c) ==
  /\ ~calls[c].expired
  /\ calls' = [calls EXCEPT ![c].expired = TRUE]
  /\ UNCHANGED <<order, transcripts, recs, audio, callbacks, proc, faults>>

------------------------------------------------------------------------------
\* The transcript

\* The trigger compares the expiry with now(), the time at which the transaction began.
BeginSegment(c) ==
  /\ inserts[c] = "none" /\ spoken[c] < MaxSegments
  /\ inserts' = [inserts EXCEPT ![c] = IF calls[c].expired THEN "late" ELSE "live"]
  /\ spoken' = [spoken EXCEPT ![c] = @ + 1]
  /\ UNCHANGED <<calls, order, text, recs, audio, callbacks, proc, faults>>

\* A late segment is stored as a tombstone.
HasText(when) == when = "live"

CommitSegment(c) ==
  /\ inserts[c] # "none"
  /\ text' = IF HasText(inserts[c]) THEN [text EXCEPT ![c] = @ + 1] ELSE text
  /\ inserts' = [inserts EXCEPT ![c] = "none"]
  /\ UNCHANGED <<calls, order, spoken, recs, audio, callbacks, proc, faults>>

------------------------------------------------------------------------------
\* Recordings at Twilio (external) and their callbacks

StartRecording(r) ==
  /\ audio[r] = "none" /\ recs[r] = Unknown
  /\ audio' = [audio EXCEPT ![r] = "recording"]
  /\ callbacks' = callbacks \cup {[call |-> Owner[r], rec |-> r, status |-> "in-progress"]}
  /\ UNCHANGED <<calls, order, transcripts, recs, proc, faults>>

StoreRecording(r) ==
  /\ audio[r] = "recording"
  /\ audio' = [audio EXCEPT ![r] = "stored"]
  /\ callbacks' = callbacks \cup {[call |-> Owner[r], rec |-> r, status |-> "completed"]}
  /\ UNCHANGED <<calls, order, transcripts, recs, proc, faults>>

\* There is no audio; the callback may name the recording or not.
NoAudio(r, named, status) ==
  /\ audio[r] = "recording"
  /\ audio' = [audio EXCEPT ![r] = "gone"]
  /\ callbacks' = callbacks \cup
       {[call |-> Owner[r], rec |-> IF named THEN r ELSE NoRecording, status |-> status]}
  /\ UNCHANGED <<calls, order, transcripts, recs, proc, faults>>

RecordingsOf(c, rows) == {r \in Recordings : Owner[r] = c /\ rows[r] # Unknown}
Live(c, rows, status) == {r \in RecordingsOf(c, rows) : ~rows[r].deleted /\ rows[r].status = status}
Has(c, rows, status) == \E r \in RecordingsOf(c, rows) : rows[r].status = status

\* sync_call_recording_aggregate
Aggregate(c, rows, status) ==
  IF calls[c].expired /\ Live(c, rows, "completed") \cup Live(c, rows, "in-progress") # {}
    THEN "deletion_pending"
  ELSE IF Live(c, rows, "completed") # {} THEN "completed"
  ELSE IF Live(c, rows, "in-progress") # {} THEN "in-progress"
  ELSE IF \E r \in RecordingsOf(c, rows) : rows[r].deleted THEN "deleted"
  ELSE IF Has(c, rows, "failed") THEN "failed"
  ELSE IF Has(c, rows, "absent") THEN "absent"
  ELSE status

\* Mutant: whatever the callback says is recorded.
RecordAnything(row, status) == [row EXCEPT !.status = status]

\* record_call_recording_status: neither a deleted nor a completed recording goes back.
Recorded(row, status) ==
  IF row.deleted \/ row.status = "completed" THEN row ELSE [row EXCEPT !.status = status]

\* A callback that names no recording counts only while the call has none.
Unnamed(c, status) ==
  IF calls[c].status \in {"completed", "deleted"} \/ RecordingsOf(c, recs) # {}
    THEN calls[c].status ELSE status

RecordStatus(b) ==
  LET rows == IF b.rec = NoRecording THEN recs
              ELSE [recs EXCEPT ![b.rec] = Recorded(@, b.status)]
      before == IF b.rec = NoRecording THEN Unnamed(b.call, b.status) ELSE calls[b.call].status IN
  /\ b \in callbacks
  /\ recs' = rows
  /\ calls' = [calls EXCEPT ![b.call].status = Aggregate(b.call, rows, before)]
  /\ \/ callbacks' = callbacks \ {b} /\ NoFault
     \/ Fault /\ UNCHANGED callbacks     \* it is delivered again
  /\ UNCHANGED <<order, transcripts, audio, proc>>

\* It could not be stored, or never came.
CallbackLost(b) ==
  /\ b \in callbacks /\ Fault
  /\ callbacks' = callbacks \ {b}
  /\ UNCHANGED <<calls, order, transcripts, recs, audio, proc>>

------------------------------------------------------------------------------
\* CallEvidenceRetentionWorker

Deletable(c) == Live(c, recs, "completed")

TextPending(c) == ~calls[c].purged \/ text[c] > 0
Claimable(c) == calls[c].expired /\ ~calls[c].leased /\ (TextPending(c) \/ Deletable(c) # {})

Due == {c \in Calls : Claimable(c)}
\* Never checked first, then the one checked longest ago.
Before(c, S) == {d \in S : order[d] < order[c]}
Claimed == {c \in Due : Cardinality(Before(c, Due)) < Batch}
\* A checked call goes behind the others.
Checked(c) ==
  1 + IF c \in Claimed THEN Cardinality(Calls \ Claimed) + Cardinality(Before(c, Claimed))
      ELSE Cardinality(Before(c, Calls \ Claimed))
JobOf(c) == [call |-> c, transcript |-> TextPending(c), recs |-> Deletable(c)]

Claim(p) ==
  /\ proc[p].pc = "idle" /\ Claimed # {}
  /\ calls' = [c \in Calls |-> [calls[c] EXCEPT !.leased = @ \/ c \in Claimed]]
  /\ order' = [c \in Calls |-> Checked(c)]
  /\ \E batch \in [1 .. Cardinality(Claimed) -> Claimed] :
       /\ \A i, j \in DOMAIN batch : i < j => order[batch[i]] < order[batch[j]]
       /\ proc' = [proc EXCEPT ![p] =
            [Idle EXCEPT !.pc = "purge", !.jobs = [i \in DOMAIN batch |-> JobOf(batch[i])]]]
  /\ UNCHANGED <<transcripts, recs, audio, callbacks, faults>>

\* The lease is five minutes, whatever the batch still needs.
LeaseExpires(c) ==
  /\ calls[c].leased
  /\ calls' = [calls EXCEPT ![c].leased = FALSE]
  /\ UNCHANGED <<order, transcripts, recs, audio, callbacks, proc, faults>>

JobAt(p) == Head(proc[p].jobs)

\* purge_expired_call_transcripts, or its failure, which is logged and passed over.
Purge(p) ==
  LET c == JobAt(p).call IN
  /\ proc[p].pc = "purge"
  /\ proc' = [proc EXCEPT ![p].pc = "delete"]
  /\ \/ /\ JobAt(p).transcript /\ calls[c].expired
        /\ text' = [text EXCEPT ![c] = 0]
        /\ calls' = [calls EXCEPT ![c].purged = TRUE]
        /\ NoFault
     \/ /\ IF JobAt(p).transcript THEN Fault ELSE NoFault
        /\ UNCHANGED <<text, calls>>
  /\ UNCHANGED <<order, inserts, spoken, recs, audio, callbacks>>

\* Only a 204 or a 404 confirms the deletion.
Confirmed(answered) == answered

\* DELETE at Twilio: carried out and answered, carried out and timed out, or refused.
DeleteRecording(p, r, carriedOut, answered) ==
  /\ proc[p].pc = "delete" /\ r \in JobAt(p).recs
  /\ carriedOut => r \notin Stuck
  /\ answered => carriedOut
  /\ IF answered \/ r \in Stuck THEN NoFault ELSE Fault
  /\ audio' = IF carriedOut THEN [audio EXCEPT ![r] = "gone"] ELSE audio
  /\ proc' = [proc EXCEPT ![p].pc = "sent", ![p].rec = r, ![p].ok = Confirmed(answered)]
  /\ UNCHANGED <<calls, order, transcripts, recs, callbacks>>

\* complete_call_recording_deletion: idempotent, and never back.
DeletionRecorded(row, ok) ==
  IF row.deleted THEN row
  ELSE IF ok THEN [row EXCEPT !.deleted = TRUE, !.error = FALSE]
  ELSE [row EXCEPT !.error = TRUE]

AggregateAfter(c, rows) == Aggregate(c, rows, calls[c].status)

CompleteDeletion(p) ==
  LET r == proc[p].rec
      c == JobAt(p).call
      rows == [recs EXCEPT ![r] = DeletionRecorded(@, proc[p].ok)] IN
  /\ proc[p].pc = "sent"
  /\ proc' = [proc EXCEPT ![p].pc = "delete", ![p].jobs[1].recs = @ \ {r}, ![p].rec = NoRecording]
  /\ \/ /\ recs[r].status = "completed"
        /\ recs' = rows /\ calls' = [calls EXCEPT ![c].status = AggregateAfter(c, rows)]
        /\ NoFault
     \/ /\ IF recs[r].status = "completed" THEN Fault ELSE NoFault
        /\ UNCHANGED <<recs, calls>>
  /\ UNCHANGED <<order, transcripts, audio, callbacks>>

JobDone(p) ==
  LET rest == Tail(proc[p].jobs) IN
  /\ proc[p].pc = "delete" /\ JobAt(p).recs = {}
  /\ proc' = [proc EXCEPT ![p] = IF rest = <<>> THEN Idle ELSE [@ EXCEPT !.pc = "purge", !.jobs = rest]]
  /\ UNCHANGED <<calls, order, transcripts, recs, audio, callbacks, faults>>

Crash(p) ==
  /\ proc[p].pc # "idle" /\ Fault
  /\ proc' = [proc EXCEPT ![p] = Idle]
  /\ UNCHANGED <<calls, order, transcripts, recs, audio, callbacks>>

------------------------------------------------------------------------------
Twilio ==
  \/ \E r \in Recordings : StartRecording(r) \/ StoreRecording(r)
       \/ \E named \in BOOLEAN, status \in {"absent", "failed"} : NoAudio(r, named, status)
  \/ \E b \in callbacks : RecordStatus(b) \/ CallbackLost(b)

Worker(p) ==
  \/ Claim(p) \/ Purge(p) \/ CompleteDeletion(p) \/ JobDone(p)
  \/ \E r \in Recordings, carriedOut, answered \in BOOLEAN : DeleteRecording(p, r, carriedOut, answered)

Next ==
  \/ \E c \in Calls : Expire(c) \/ BeginSegment(c) \/ CommitSegment(c) \/ LeaseExpires(c)
  \/ Twilio
  \/ \E p \in Processes : Worker(p) \/ Crash(p)

Spec == Init /\ [][Next]_vars

\* The timer of each process claims again; requests return or time out; leases end.
Fairness ==
  /\ \A p \in Processes : WF_vars(Worker(p))
  /\ \A c \in Calls : WF_vars(LeaseExpires(c))

FairSpec == Spec /\ Fairness

------------------------------------------------------------------------------
\* Safety

\* docs/evidence-retention-contract.md: success is never declared for audio that may
\* still exist: a recording is marked deleted only when Twilio has none.
DeletedIsGone == \A r \in Recordings : recs[r].deleted => audio[r] = "gone"

\* The aggregate that readers see tells the truth: deleted only when no recording is
\* pending, and completed or pending deletion only while there is one, also after
\* callbacks out of order and deletions by two processes.
AggregateIsTrue ==
  \A c \in Calls :
    LET live == Live(c, recs, "completed") \cup Live(c, recs, "in-progress") IN
      /\ calls[c].status = "deleted" => live = {}
      /\ calls[c].status \in {"completed", "deletion_pending"} => live # {}

------------------------------------------------------------------------------
\* What a step may not do

\* A duplicated or late callback, or a failure recorded late by another process,
\* neither revives a deleted recording nor takes completed back.
NotRevived ==
  \A r \in Recordings : recs[r].status = "completed" =>
    recs'[r].status = "completed" /\ (recs[r].deleted => recs'[r].deleted)

\* Another recording of a call whose evidence has expired waits for its deletion; it
\* never makes the call's audio available again.
ExpiredStaysHidden ==
  \A c \in Calls : calls[c].expired /\ calls[c].status # "completed" =>
    calls'[c].status # "completed"

\* The disposal of recordings tells the truth after every step and goes one way,
\* with callbacks and deletions in any order, lost and repeated.
DisposalIsTrue ==
  [][DeletedIsGone' /\ AggregateIsTrue' /\ NotRevived /\ ExpiredStaysHidden]_vars

------------------------------------------------------------------------------
\* Liveness

\* What must end: the text of a call whose evidence has expired is erased, also that
\* of a segment whose insertion began before the expiry and ended after the purge.
TextDue(c) == calls[c].expired /\ text[c] > 0
TextGone(c) == text[c] = 0

\* Every recording known to be completed is deleted after the expiry, although others
\* cannot be deleted: neither a lost answer, a crash nor a batch in front starves it.
AudioDue(r) == recs[r].status = "completed" /\ calls[Owner[r]].expired
AudioGone(r) == recs[r].deleted
==============================================================================
