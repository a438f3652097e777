------------------------------- MODULE Ledger -------------------------------
(***************************************************************************)
(* What TaskWORKER promises its clients (docs/contracts.md, the Service    *)
(* port of internal/core/ports.go), with no queue, journal, goroutine or   *)
(* crash in sight: a list of accepted jobs that only grows, each moving    *)
(* along the lifecycle one atomic step at a time, started first come first *)
(* served and one at a time, and one job for each idempotency key for      *)
(* ever.  The worker with its failures implements this.                    *)
(***************************************************************************)
EXTENDS Contract

VARIABLES
    jobs,       \* accepted jobs in acceptance order
    paused,     \* whether starting is suspended
    receipts    \* the command and the job of every key used

ledger == <<jobs, paused, receipts>>

Queued == {j \in DOMAIN jobs : jobs[j].state = "queued"}
Live   == {j \in DOMAIN jobs : jobs[j].state \in LiveStates}

Init == jobs = <<>> /\ paused = FALSE /\ receipts = <<>>

(* The conversation a job starts from, by its relation to its parent. *)
History(op, parent) ==
    CASE op = "submit" -> <<>>
      [] op = "retry"  -> jobs[parent].hist
      [] op = "branch" -> BranchHistory(jobs, parent)

(* A new key gets a new job, with the instructions its lineage calls for. *)
Accept(key, op, origin, parent, req) ==
    /\ key \notin DOMAIN receipts
    /\ Len(jobs) < MaxJobs
    /\ Cardinality(Queued) < MaxPending
    /\ op = "submit" => parent = NoJob
    /\ op # "submit" => parent \in DOMAIN jobs /\ Terminal(jobs[parent].state)
    /\ op = "retry" => req = jobs[parent].req
    /\ jobs' = Append(jobs, [state |-> "queued", req |-> req, hist |-> History(op, parent),
                             origin |-> origin, parent |-> parent, rel |-> op,
                             started |-> FALSE, finished |-> FALSE, text |-> 0, err |-> NoError])
    /\ receipts' = WithReceipt(receipts,
                       {[key |-> key, job |-> Len(jobs) + 1,
                         digest |-> [op |-> op, parent |-> parent, origin |-> origin,
                                     req |-> IF op = "retry" THEN NoRequest ELSE req]]})
    /\ UNCHANGED paused

(* The oldest queued job starts when nothing runs. *)
Start(j) ==
    /\ ~paused
    /\ Live = {}
    /\ j \in Queued /\ \A i \in Queued : j <= i
    /\ jobs' = [jobs EXCEPT ![j].state = "running", ![j].started = TRUE]
    /\ UNCHANGED <<paused, receipts>>

Output(j) ==
    /\ j \in Live
    /\ jobs[j].text < MaxOutput
    /\ jobs' = [jobs EXCEPT ![j].text = @ + 1]
    /\ UNCHANGED <<paused, receipts>>

RequestCancel(j) ==
    /\ jobs[j].state = "running"
    /\ jobs' = [jobs EXCEPT ![j].state = "cancelling"]
    /\ UNCHANGED <<paused, receipts>>

(* The error an ended job shows says how it ended. *)
Ending == [succeeded |-> {NoError}, failed |-> PublicBackendErrors,
           cancelled |-> {"cancelled"}, interrupted |-> {"interrupted"}]

Finish(j, state, err) ==
    /\ transition(jobs[j].state, state)
    /\ err \in Ending[state]
    /\ jobs' = [jobs EXCEPT ![j].state = state, ![j].finished = TRUE, ![j].err = err]
    /\ UNCHANGED <<paused, receipts>>

SetPaused ==
    /\ paused' = ~paused
    /\ UNCHANGED <<jobs, receipts>>

Next ==
    \/ \E key \in Keys, op \in Relations, origin \in Origins, parent \in 0..Len(jobs),
          req \in Requests : Accept(key, op, origin, parent, req)
    \/ \E j \in DOMAIN jobs :
          \/ Start(j)
          \/ Output(j)
          \/ RequestCancel(j)
          \/ \E state \in TerminalStates : \E err \in Ending[state] : Finish(j, state, err)
    \/ SetPaused

Spec == Init /\ [][Next]_ledger
=============================================================================
