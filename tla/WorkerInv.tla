----------------------------- MODULE WorkerInv ------------------------------
(***************************************************************************)
(* The inductive invariant behind the worker's safety properties.  The     *)
(* properties of Worker speak of the moments when no handler holds w.mu;   *)
(* the conjuncts here also say what holds in the middle of a handler, in   *)
(* particular what the transaction in cmd is about to do.                  *)
(***************************************************************************)
EXTENDS Worker

(* A job record no step of the lifecycle can get stuck on. *)
JobSound(job) ==
    /\ ValidateRequest(job.req, job.hist)
    /\ job.finished <=> job.state \in TerminalStates
    /\ job.state \in LiveStates => job.started
    /\ job.state \notin TerminalStates => job.err = NoError

(* What ApplyCommit leaves behind, whatever transaction it was given. *)
Sound(s) ==
    /\ s \in Snapshot
    /\ QueueMatches(s)
    /\ \A j \in DOMAIN s.jobs : JobSound(s.jobs[j])

Committing == pc \in {"commit", "sync"}
Commits(handlers) == Committing /\ cmd.by \in handlers

(* The handler whose turn it is has let go of, or never had, an inference. *)
Idling == pc \in {"down", "recover"} \/ Commits({"complete", "recover"})

StorageInv ==
    /\ Sound(snap) /\ Sound(cache.snap) /\ Sound(disk.snap)
    /\ pc \notin {"down", "sync"} /\ fatal = "none" =>
          cache.snap = snap /\ cache.receipts = receipts
    /\ pc = "sync" => /\ Applied.ok
                      /\ cache.snap = Applied.snap
                      /\ cache.receipts = WithReceipt(receipts, cmd.receipt)

BackendInv ==
    /\ gens = {cancel} \ {NoJob}
    /\ Idling => cancel = NoJob
    /\ ~Idling /\ fatal = "none" => cancel = snap.queue.active
    /\ \/ stopping
       \/ fatal # "none"
       \/ outputErr # NoError
       \/ \E id \in gens : snap.jobs[id].state = "cancelling"
       => gens \subseteq ctxDone

LifeInv ==
    /\ pc \notin {"idle", "down"} => fatal = "none"
    /\ stopping => pc \in {"idle", "emit"} \/ Commits({"emit", "complete"})
    /\ pc = "recover" => snap.queue.active # NoJob
    /\ pc = "recover" \/ Commits({"recover"}) => boot
    /\ boot => pc \in {"recover", "dispatch"} \/ Commits({"recover", "dispatch"})
    /\ ~Up \/ boot => ~stopping /\ fatal = "none" /\ cancel = NoJob
    /\ closed => stopping /\ gens = {} /\ pc = "idle"

(* What the transaction under way does to the queue. *)
CommandInv ==
    /\ pc = "emit" \/ Commits({"emit"}) => cmd.job \in gens
    /\ Committing =>
        /\ cmd.by # "none"
        /\ Len(cmd.events) \in {1, 2}
        /\ Len(cmd.events) = 2 => cmd.events[2].kind = "queue.state"
        /\ Exhausted \/ Applied.ok
        /\ \A r \in cmd.receipt : r.key \notin DOMAIN receipts
        /\ LET queue == Applied.snap.queue
           IN  Applied.ok =>
                 /\ cmd.by \in {"create", "pause", "cancel", "emit"} =>
                       queue.active = snap.queue.active
                 /\ cmd.by \in {"complete", "recover"} => queue.active = NoJob
                 /\ cmd.by = "dispatch" =>
                       /\ snap.queue.active = NoJob
                       /\ cmd.job # NoJob
                       /\ queue.active = cmd.job
                       /\ Applied.snap.jobs[cmd.job].state = "running"
                 /\ cmd.by \in {"cancel", "emit"} =>
                       /\ queue.paused = snap.queue.paused
                       /\ queue.pending # <<>> => snap.queue.pending # <<>>
                 /\ \A j \in DOMAIN snap.jobs : Applied.snap.jobs[j].state = "cancelling" =>
                       snap.jobs[j].state = "cancelling" \/ (cmd.by = "cancel" /\ j = cmd.job)

(* Nobody but a handler on its way to dispatch may leave the worker idle with work to do. *)
ProgressInv ==
    /\ pc \in {"idle", "emit"} \/ Commits({"create", "pause", "cancel", "emit"})
    /\ available /\ ~snap.queue.paused /\ snap.queue.pending # <<>>
    => snap.queue.active # NoJob

(* The conjunction TLAPS proves inductive; TLC checks it on the runs' instances. *)
Inv == TypeOK /\ StorageInv /\ BackendInv /\ LifeInv /\ CommandInv /\ ProgressInv

-----------------------------------------------------------------------------
(* The refinement of Ledger.  A transaction that a crash, or a failed File.Sync, leaves in the file
   unpublished is published by the next start; until then the journal is one ledger step ahead.
   A step of Ledger is written here as a relation between two snapshots with their receipts. *)

(* The job create makes of its arguments when these are the jobs. *)
Fresh(jobs, op, origin, parent, req) ==
    [state |-> "queued",
     req   |-> IF op = "retry" THEN jobs[parent].req ELSE req,
     hist  |-> CASE op = "submit" -> <<>>
                 [] op = "retry"  -> jobs[parent].hist
                 [] op = "branch" -> BranchHistory(jobs, parent),
     origin |-> origin, parent |-> parent, rel |-> op,
     started |-> FALSE, finished |-> FALSE, text |-> 0, err |-> NoError]

(* The new snapshot has one job more, and its receipt. *)
AddsJob(old, rs, new, rs2) ==
    \E key \in Keys \ DOMAIN rs, op \in Relations, origin \in Origins,
       parent \in 0..Len(old.jobs), req \in Requests \cup {NoRequest} :
        /\ Len(old.jobs) < MaxJobs /\ Len(old.queue.pending) < MaxPending
        /\ op = "submit" => parent = NoJob
        /\ op # "submit" => parent \in DOMAIN old.jobs /\ Terminal(old.jobs[parent].state)
        /\ op = "retry" <=> req = NoRequest
        /\ new.jobs = Append(old.jobs, Fresh(old.jobs, op, origin, parent, req))
        /\ rs2 = WithReceipt(rs, {[key |-> key, job |-> Len(old.jobs) + 1,
                                   digest |-> [op |-> op, parent |-> parent, origin |-> origin,
                                               req |-> req]]})

(* What one step may make of job id: it starts, grows by a chunk, is asked to stop or ends. *)
Moved(old, id, job) ==
    LET was == old.jobs[id]
    IN  \/ /\ ~old.queue.paused /\ old.queue.active = NoJob /\ was.state = "queued"
           /\ \A j \in DOMAIN old.jobs : old.jobs[j].state = "queued" => id <= j
           /\ job = [was EXCEPT !.state = "running", !.started = TRUE]
        \/ was.state \in LiveStates /\ was.text < MaxOutput /\ job = AddChunk(was)
        \/ was.state = "running" /\ job = [was EXCEPT !.state = "cancelling"]
        \/ \E state \in TerminalStates : \E err \in L!Ending[state] :
              /\ transition(was.state, state)
              /\ job = [was EXCEPT !.state = state, !.err = err, !.finished = TRUE]

MovesJob(old, new) ==
    \E id \in DOMAIN old.jobs :
        LET job == new.jobs[id]
        IN  Moved(old, id, job) /\ new.jobs = [old.jobs EXCEPT ![id] = job]

(* Snapshot new with receipts rs2 is one step of Ledger ahead of old with rs. *)
OneAhead(old, rs, new, rs2) ==
    \/ AddsJob(old, rs, new, rs2) /\ new.queue.paused = old.queue.paused
    \/ MovesJob(old, new) /\ rs2 = rs /\ new.queue.paused = old.queue.paused
    \/ new.jobs = old.jobs /\ rs2 = rs /\ new.queue.paused # old.queue.paused

(* Every transaction is one step of Ledger, and while the machine keeps its power the journal holds
   what is published, or that and one step more. *)
LedgerInv ==
    /\ Committing /\ Applied.ok =>
          OneAhead(snap, receipts, Applied.snap, WithReceipt(receipts, cmd.receipt))
    /\ PowerLoss \/ \/ cache.snap = snap /\ cache.receipts = receipts
                    \/ /\ snap.seq <= cache.snap.seq
                       /\ OneAhead(snap, receipts, cache.snap, cache.receipts)

(* Each of the three images has its own receipts, one for each job: also the one a power failure
   goes back to. *)
ReceiptInv ==
    /\ ReceiptsMatch(snap.jobs, receipts)
    /\ ReceiptsMatch(cache.snap.jobs, cache.receipts)
    /\ ReceiptsMatch(disk.snap.jobs, disk.receipts)
=============================================================================
