------------------------------- MODULE Reserve -------------------------------
(***************************************************************************)
(* Storage accounting, in the code's own byte counts: TerminalReserve and  *)
(* CheckJobFits (internal/core/state.go) and the budget checks of Append   *)
(* (internal/adapters/journal/journal.go), under the worker's commits.     *)
(*                                                                         *)
(* A job is its state and the length of its JSON record.  What surrounds a *)
(* record in its transaction (frame header, cursors, times, identities)    *)
(* has a fixed largest size; the identities of the pending jobs are        *)
(* counted.  Steps that are refused for another reason than size are not   *)
(* modelled here: module Worker has them.                                  *)
(***************************************************************************)
EXTENDS Integers, Sequences, FiniteSets, SequencesExt

KiB == 1024
MiB == 1024 * KiB
AdmissionBytes  == 192 * MiB
HardBytes       == 256 * MiB
MaxCommitBytes  == 16 * MiB
MaxChunkBytes   == 16 * KiB
MetadataReserve == 64 * KiB
MaxPending      == 64
FrameBytes      == 72
HeaderBytes     == 64
EventBytes == 300      \* longest event around a job, a queue or a piece of output
IdBytes    == 35       \* a pending job's identity, quoted, and a comma
ReceiptBytes == 1000   \* longest receipt
SmallJob   == 700      \* a job with a short prompt
Growth == [running |-> 60, cancelling |-> 20, cancelled |-> 300, interrupted |-> 300,
           succeeded |-> 100, failed |-> 300]   \* what a change of state adds to a job at most

CONSTANTS
    JobSizes,    \* record lengths of submitted jobs, besides the largest that fits
    Recovered,   \* instances of a store found at start: bytes used and small jobs queued
    MaxCommits   \* bound: transactions of a behaviour

VARIABLES
    size,    \* j.size
    jobs,    \* w.state.Jobs that are not terminal yet, oldest first
    paused,
    denied,  \* the state changes that were refused for size
    commits

accounts == <<size, jobs, paused, denied, commits>>

Pending(js) == Cardinality({i \in DOMAIN js : js[i].state = "queued"})
Terminal(state) == state \in {"cancelled", "interrupted", "succeeded", "failed"}

(* The sums of the first numbers of a sequence, and the sum of all. *)
SumUpTo(s) == LET upTo[i \in 0..Len(s)] == IF i = 0 THEN 0 ELSE upTo[i - 1] + s[i] IN upTo
Total(s) == SumUpTo(s)[Len(s)]

(* Mutant: a queued job is thought to need only its start and its end. *)
ReserveTwo(js) ==
    8192 + Total([i \in DOMAIN js |-> (IF js[i].state \in {"queued", "running"} THEN 2 ELSE 1) * (js[i].len + 4096)
                                          + MetadataReserve])

(* The transactions a job still needs, each with its record in full, and the metadata of its end. *)
Owed(j) ==
    (IF j.state = "queued" THEN 3 ELSE IF j.state = "running" THEN 2 ELSE 1) * (j.len + 4096) + MetadataReserve
TerminalReserve(js) == 8192 + Total([i \in DOMAIN js |-> Owed(js[i])])

(* A store with small jobs queued, and its size with their transactions. *)
Waiting(q) == [i \in 1..q |-> [state |-> "queued", len |-> SmallJob]]
Found(r) == HeaderBytes + r.used + r.queued * (SmallJob + 4 * EventBytes + IdBytes * MaxPending)

(* A store is as its last owner left it: what the jobs in it still need fits. *)
ASSUME ReserveAssumption ==
    /\ JobSizes \subseteq Nat
    /\ Recovered \subseteq [used : Nat, queued : 0..MaxPending]
    /\ \A r \in Recovered : Found(r) + TerminalReserve(Waiting(r.queued)) <= HardBytes

CheckJobFits(len) == len + MetadataReserve + 8192 <= MaxCommitBytes

(* The payload of a transaction with one event about a job or its output and one about the queue. *)
Payload(body, js) == 2 * EventBytes + body + IdBytes * (Pending(js) + 1)

(* Append's checks: whether the transaction that leaves js may be written. *)
Fits(payload, js, receipt) ==
    LET projected == size + FrameBytes + payload
    IN  /\ payload <= MaxCommitBytes
        /\ receipt => projected <= AdmissionBytes
        /\ projected + TerminalReserve(js) <= HardBytes

commit(payload, js) ==
    /\ size' = size + FrameBytes + payload
    /\ jobs' = js
    /\ commits' = commits + 1

-----------------------------------------------------------------------------
(* A job's next record, len bytes longer; a terminal job leaves the accounts. *)
Replaced(i, state, grown) ==
    IF Terminal(state) THEN RemoveAt(jobs, i)
    ELSE [jobs EXCEPT ![i] = [state |-> state, len |-> jobs[i].len + grown]]

(* dispatch, cancelJob, complete and NewWorker: a transaction that must not fail. *)
Move(i, state, grown) ==
    LET js == Replaced(i, state, grown)
        payload == Payload(jobs[i].len + grown, js)
    IN  /\ commits < MaxCommits
        /\ IF Fits(payload, js, FALSE)
           THEN commit(payload, js) /\ UNCHANGED denied
           ELSE denied' = denied \cup {state} /\ UNCHANGED <<size, jobs, commits>>
        /\ UNCHANGED paused

(* Jobs that differ, or are active: of equal waiting jobs one stands for all. *)
Distinct == {i \in DOMAIN jobs : \A k \in 1..i - 1 : jobs[k] # jobs[i]}

Active == {i \in DOMAIN jobs : jobs[i].state # "queued"}

(* The longest job record with which a submission still fits. *)
Brim == (HardBytes - size - TerminalReserve(jobs) - FrameBytes - 2 * EventBytes - ReceiptBytes
           - IdBytes * (Pending(jobs) + 2) - 3 * 4096 - MetadataReserve) \div 4

create(len) ==
    LET js == Append(jobs, [state |-> "queued", len |-> len])
        payload == Payload(len + ReceiptBytes, js)
    IN  /\ commits < MaxCommits /\ denied = {}
        /\ len >= SmallJob /\ CheckJobFits(len) /\ Pending(jobs) < MaxPending
        /\ Fits(payload, js, TRUE)
        /\ commit(payload, js)
        /\ UNCHANGED <<paused, denied>>

(* Mutant: a second job is started. *)
dispatchTwice ==
    /\ denied = {} /\ ~paused
    /\ \E i \in DOMAIN jobs : jobs[i].state = "queued" /\ Move(i, "running", Growth["running"])

dispatch ==
    /\ denied = {} /\ ~paused /\ Active = {} /\ jobs # <<>>
    /\ Move(1, "running", Growth["running"])

(* A piece of output, with its encoded length; what does not fit is refused and not written. *)
emit(i, len) ==
    LET js == [jobs EXCEPT ![i].len = @ + len]
        payload == 2 * EventBytes + len
    IN  /\ commits < MaxCommits /\ denied = {}
        /\ i \in Active
        /\ CheckJobFits(js[i].len) /\ Fits(payload, js, FALSE)
        /\ commit(payload, js)
        /\ UNCHANGED <<paused, denied>>

(* The longest piece of output that still fits. *)
BrimOutput == (HardBytes - size - TerminalReserve(jobs) - FrameBytes - 2 * EventBytes) \div 3

cancelJob(i) ==
    /\ denied = {}
    /\ \/ jobs[i].state = "queued" /\ Move(i, "cancelled", Growth["cancelled"])
       \/ jobs[i].state = "running" /\ Move(i, "cancelling", Growth["cancelling"])

(* Backend metadata is cut to half of its reserve. *)
complete(i, metadata) ==
    /\ denied = {}
    /\ i \in Active
    /\ \E state \in IF jobs[i].state = "cancelling" THEN {"cancelled", "interrupted"}
                    ELSE {"succeeded", "failed", "interrupted"} :
           Move(i, state, metadata + Growth[state])

(* A restart finds a job active. *)
interrupt(i) ==
    /\ denied = {}
    /\ i \in Active
    /\ Move(i, "interrupted", Growth["interrupted"])

setQueuePaused ==
    /\ commits < MaxCommits /\ denied = {}
    /\ Fits(2 * EventBytes + IdBytes * (Pending(jobs) + 1), jobs, FALSE)
    /\ commit(2 * EventBytes + IdBytes * (Pending(jobs) + 1), jobs)
    /\ paused' = ~paused
    /\ UNCHANGED denied

(* What a restart finds: bytes that finished jobs left behind, and small jobs waiting. *)
AccountsInit ==
    /\ \E r \in Recovered :
        /\ size = Found(r) /\ jobs = Waiting(r.queued)
        /\ paused = (r.queued > 0)
    /\ denied = {} /\ commits = 0

AccountsNext ==
    \/ \E len \in JobSizes \cup {Brim} : create(len)
    \/ dispatch
    \/ \E i \in Distinct :
        \/ \E len \in {1, 6 * MaxChunkBytes, BrimOutput} : 0 < len /\ len <= 6 * MaxChunkBytes /\ emit(i, len)
        \/ cancelJob(i)
        \/ \E metadata \in {0, MetadataReserve \div 2} : complete(i, metadata)
        \/ interrupt(i)
    \/ setQueuePaused

AccountsSpec == AccountsInit /\ [][AccountsNext]_accounts

-----------------------------------------------------------------------------
(* Properties. *)

AccountsTypeOK ==
    /\ size \in HeaderBytes..HardBytes
    /\ jobs \in Seq([state : {"queued", "running", "cancelling"}, len : 1..MaxCommitBytes])
    /\ Cardinality(Active) <= 1
    /\ paused \in BOOLEAN /\ denied \subseteq DOMAIN Growth

(* However full storage is and whatever output and submissions took of it, the transactions that
   start, cancel and end the accepted jobs are never refused for size: dispatch and complete
   poison the worker if they are, and Cancel would not reach the backend.  The journal stays
   within its hard limit. *)
LifecycleFits == AccountsTypeOK /\ denied = {}
==============================================================================
