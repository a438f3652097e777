------------------------------ MODULE Contract ------------------------------
(***************************************************************************)
(* The vocabulary shared by every part of TaskWORKER (internal/core):      *)
(* job states and their legal transitions, requests and the instructions   *)
(* materialised from them, the five kinds of event, queue and snapshot.    *)
(*                                                                         *)
(* Abstractions.  A job's identity is its acceptance index (the code draws *)
(* 128 random bits; a collision is excluded).  Result.Text is the number   *)
(* of chunks appended, a request is an opaque value, CreatedAt and the     *)
(* wording of errors are dropped and StartedAt/FinishedAt keep only        *)
(* whether they are set.  Instructions are the pair (req, hist): System    *)
(* and Prompt are functions of the request alone (Compose).                *)
(***************************************************************************)
EXTENDS Integers, Sequences, FiniteSets

CONSTANTS
    Keys,           \* idempotency keys clients choose
    Origins,        \* display labels
    Requests,       \* contents a client may ask for
    ValidRequests,  \* those that pass ValidateRequest on their own
    NoRequest,      \* Request{}: what a retry carries
    BackendErrors,  \* codes Generate may fail with
    MaxPending,     \* bound of the pending queue (64 in the code)
    MaxJobs,        \* bound of the retained jobs (1000 in the code)
    MaxOutput,      \* chunks of output a job may retain (MaxOutputBytes, CheckJobFits)
    MaxHistory,     \* messages of history that fit MaxInputBytes
    MaxSeq          \* last event sequence (MaxUint64 in the code)

ASSUME RequestAssumption == ValidRequests \subseteq Requests /\ NoRequest \notin Requests
ASSUME BoundAssumption ==
    /\ MaxPending \in Nat \ {0}
    /\ MaxJobs \in Nat \ {0}
    /\ {MaxOutput, MaxHistory, MaxSeq} \subseteq Nat

NoJob == 0                       \* a nil *JobID or the empty JobID
JobIDs == Nat \ {NoJob}

-----------------------------------------------------------------------------
(* Job states. *)

LiveStates == {"running", "cancelling"}
TerminalStates == {"succeeded", "failed", "cancelled", "interrupted"}
JobStates == {"queued"} \cup LiveStates \cup TerminalStates

Terminal(state) == state \in TerminalStates

Successors == [queued     |-> {"running", "cancelled"},
               running    |-> {"cancelling", "succeeded", "failed", "interrupted"},
               cancelling |-> {"cancelled", "interrupted"}]

transition(a, b) == a \in DOMAIN Successors /\ b \in Successors[a]

-----------------------------------------------------------------------------
(* Error codes a finished job may show. *)

NoError == "none"
PublicBackendErrors == {"invalid_request", "unsupported", "limit_exceeded",
                        "backend_unavailable", "backend_failure"}

publicBackendError(code) ==
    IF code \in PublicBackendErrors THEN code ELSE "backend_failure"

JobErrors == PublicBackendErrors \cup {NoError, "cancelled", "interrupted"}

-----------------------------------------------------------------------------
(* Jobs, queue and snapshot. *)

Message == [role : {"user"}, content : Requests]
           \cup [role : {"assistant"}, content : JobIDs \X Nat]

Relations == {"submit", "retry", "branch"}  \* "submit" is a nil Lineage

Job == [state    : JobStates,
        req      : Requests,
        hist     : Seq(Message),
        origin   : Origins,
        parent   : Nat,
        rel      : Relations,
        started  : BOOLEAN,
        finished : BOOLEAN,
        text     : Nat,
        err      : JobErrors]

QueueState == [paused : BOOLEAN, pending : Seq(JobIDs), active : Nat]

Snapshot == [seq : 0..MaxSeq, queue : QueueState, jobs : Seq(Job)]

EmptySnapshot ==
    [seq |-> 0, queue |-> [paused |-> FALSE, pending |-> <<>>, active |-> NoJob], jobs |-> <<>>]

(* Only sizes are left of ValidateRequest: the content is valid, and it and its history fit. *)
ValidateRequest(req, hist) == req \in ValidRequests /\ Len(hist) <= MaxHistory

(* What a branch of job p starts from: p's history, p's prompt and p's answer if it gave one. *)
BranchHistory(jobs, p) ==
    jobs[p].hist
      \o << [role |-> "user", content |-> jobs[p].req] >>
      \o (IF jobs[p].text = 0 THEN <<>>
          ELSE << [role |-> "assistant", content |-> <<p, jobs[p].text>>] >>)

-----------------------------------------------------------------------------
(* Events and receipts.  Commit numbers the events (see Stamp). *)

jobEvent(kind, id, job) == [kind |-> kind, seq |-> 0, id |-> id, job |-> job]
outputEvent(id, offset) == [kind |-> "job.output", seq |-> 0, id |-> id, offset |-> offset]
queueEvent(queue) == [kind |-> "queue.state", seq |-> 0, queue |-> queue]

(* The digest covers operation, parent, origin and request. *)
Digest == [op : Relations, parent : Nat, origin : Origins, req : Requests \cup {NoRequest}]
Receipt == [key : Keys, digest : Digest, job : JobIDs]

(* Receipts by key, extended by the receipt of a commit, if it has one. *)
WithReceipt(receipts, receipt) ==
    [k \in DOMAIN receipts \cup {r.key : r \in receipt} |->
        IF k \in {r.key : r \in receipt} THEN CHOOSE r \in receipt : TRUE ELSE receipts[k]]

Recovery == [snap |-> EmptySnapshot, receipts |-> <<>>]   \* a fresh journal
=============================================================================
