------------------------------- MODULE Worker -------------------------------
(***************************************************************************)
(* The worker (internal/core/worker.go) over its journal and its backend,  *)
(* with crashes and restarts.                                              *)
(*                                                                         *)
(* Every handler runs under w.mu, which it keeps while the journal writes  *)
(* and syncs, so pc # "idle" means "some handler holds w.mu" and cmd is    *)
(* that handler's pending transaction.  A handler is an action that leaves *)
(* "idle"; its commits then take two steps, the write of the frame and     *)
(* File.Sync, so a crash can fall between any two of them; dispatch and    *)
(* the remaining chunks of an emit are further steps of the same handler.  *)
(* An early return that changes nothing is a stuttering step.              *)
(*                                                                         *)
(* Storage is two images of the journal: cache is what a process reads     *)
(* back from the file, disk what is on stable storage.  Only a write to    *)
(* cache that File.Sync has confirmed is safe from a power failure.        *)
(***************************************************************************)
EXTENDS Reducer

CONSTANTS
    MaxPiece,    \* chunks one backend callback may carry
    PowerLoss    \* whether the machine may lose power, not only the process die

ASSUME PieceAssumption == MaxPiece \in Nat /\ PowerLoss \in BOOLEAN

VARIABLES
    snap,        \* w.state, the published snapshot
    receipts,    \* w.receipts
    cache,       \* what Open would recover from the file now
    disk,        \* what Open would recover after a power failure
    pc,          \* where the holder of w.mu is
    cmd,         \* what the holder of w.mu is committing
    boot,        \* NewWorker has not returned yet
    gens,        \* jobs whose Generate goroutine runs
    ctxDone,     \* those of them whose context is cancelled
    cancel,      \* the job w.cancel cancels, NoJob for nil
    outputErr,   \* w.outputErr
    fatal,       \* w.fatal, by cause
    stopping,    \* w.stopping
    closed       \* w.closed

view    == <<snap, receipts>>
storage == <<cache, disk>>
backend == <<gens, ctxDone, cancel, outputErr>>
life    == <<boot, fatal, stopping, closed>>
vars    == <<view, storage, pc, cmd, backend, life>>

NoCmd == [by |-> "none", job |-> NoJob, rest |-> 0, events |-> <<>>, receipt |-> {}]

Init ==
    /\ snap = EmptySnapshot
    /\ receipts = <<>>
    /\ cache = Recovery
    /\ disk = Recovery
    /\ pc = "down"
    /\ cmd = NoCmd
    /\ gens = {} /\ ctxDone = {} /\ cancel = NoJob /\ outputErr = NoError
    /\ boot = FALSE /\ fatal = "none" /\ stopping = FALSE /\ closed = FALSE

Up == pc # "down"
available == fatal = "none" /\ ~stopping

(* Calls w.cancel: the context of the job it belongs to is done. *)
CancelContext == ctxDone' = ctxDone \cup ({cancel} \ {NoJob})

-----------------------------------------------------------------------------
(* commit: number the events, apply them, append them, publish them. *)

Stamp(events) == [i \in DOMAIN events |-> [events[i] EXCEPT !.seq = snap.seq + i]]

(* The handler enters commit; the mutex stays with it. *)
Commit(by, id, rest, events, receipt) ==
    /\ pc' = "commit"
    /\ cmd' = [by |-> by, job |-> id, rest |-> rest, events |-> Stamp(events), receipt |-> receipt]

Exhausted == snap.seq + Len(cmd.events) > MaxSeq

Applied == ApplyCommit(snap, cmd.events, cmd.receipt)

(* What Append checks again, against the journal's own state. *)
AppendAccepts ==
    /\ ApplyCommit(cache.snap, cmd.events, cmd.receipt).ok
    /\ \A r \in cmd.receipt : r.key \notin DOMAIN cache.receipts

CommitOK == ~Exhausted /\ Applied.ok /\ AppendAccepts

(* Mutant: complete leaves the store open. *)
NeverCloses == FALSE

(* complete's last step while the worker stops: closeStore. *)
ClosesStore == cmd.by = "complete" /\ stopping

(* A commit that failed, and what its caller does about it: NewWorker gives up, emit stops the
   backend, dispatch and complete poison the worker even for limit_exceeded. *)
CommitFails(cause) ==
    LET poison == cause # "limit" \/ cmd.by \in {"dispatch", "complete"}
    IN  /\ cmd' = NoCmd
        /\ boot' = FALSE
        /\ UNCHANGED <<view, disk, gens, cancel, stopping>>
        /\ IF boot
           THEN pc' = "down" /\ UNCHANGED <<ctxDone, outputErr, fatal, closed>>
           ELSE /\ pc' = "idle"
                /\ fatal' = IF poison THEN cause ELSE fatal
                /\ IF poison \/ cmd.by = "emit" THEN CancelContext ELSE UNCHANGED ctxDone
                /\ outputErr' = IF cmd.by # "emit" THEN outputErr
                                ELSE IF poison THEN "storage_failure" ELSE "limit_exceeded"
                /\ closed' = (closed \/ ClosesStore)

(* The sequence is used up, or a reducer refuses the transaction. *)
CommitRefused ==
    /\ pc = "commit"
    /\ ~CommitOK
    /\ CommitFails(IF Exhausted THEN "exhausted" ELSE "refused")
    /\ UNCHANGED cache

(* The journal refuses for size before it writes.  Sizes are not part of this model. *)
OverLimit ==
    /\ pc = "commit"
    /\ CommitOK
    /\ CommitFails("limit")
    /\ UNCHANGED cache

(* Nothing or part of a frame reached the file; Open truncates it away. *)
WriteFails ==
    /\ pc = "commit"
    /\ CommitOK
    /\ CommitFails("io")
    /\ UNCHANGED cache

(* Mutant: the frame stays in a buffer of the process. *)
WriteBuffered ==
    /\ pc = "commit"
    /\ CommitOK
    /\ pc' = "sync"
    /\ UNCHANGED <<view, storage, cmd, backend, life>>

Write ==
    /\ pc = "commit"
    /\ CommitOK
    /\ cache' = [snap     |-> ApplyCommit(cache.snap, cmd.events, cmd.receipt).snap,
                 receipts |-> WithReceipt(cache.receipts, cmd.receipt)]
    /\ pc' = "sync"
    /\ UNCHANGED <<view, disk, cmd, backend, life>>

(* The frame is in the file, whole, but File.Sync did not confirm it. *)
SyncFails ==
    /\ pc = "sync"
    /\ CommitFails("io")
    /\ UNCHANGED cache

(* Mutant: setQueuePaused returns without a dispatch. *)
ResumeOnly == CASE cmd.by = "emit" -> "emit"
                [] cmd.by \in {"create", "recover"} -> "dispatch"
                [] cmd.by = "complete" -> IF stopping THEN "idle" ELSE "dispatch"
                [] cmd.by \in {"dispatch", "cancel", "pause"} -> "idle"

(* Where the handler goes once its transaction is published. *)
Continuation == CASE cmd.by = "emit" -> "emit"
                  [] cmd.by \in {"create", "pause", "recover"} -> "dispatch"
                  [] cmd.by = "complete" -> IF stopping THEN "idle" ELSE "dispatch"
                  [] cmd.by \in {"dispatch", "cancel"} -> "idle"

AfterPublish ==
    /\ pc' = Continuation
    /\ cmd' = IF cmd.by = "emit" THEN [cmd EXCEPT !.events = <<>>] ELSE NoCmd
    /\ closed' = (closed \/ ClosesStore)
    /\ IF cmd.by = "dispatch"
       THEN /\ gens' = gens \cup {cmd.job}
            /\ cancel' = cmd.job
            /\ outputErr' = NoError
            /\ boot' = FALSE
       ELSE UNCHANGED <<gens, cancel, outputErr, boot>>
    /\ IF cmd.by = "cancel" /\ snap'.jobs[cmd.job].state = "cancelling"
       THEN CancelContext
       ELSE UNCHANGED ctxDone

Sync ==
    /\ pc = "sync"
    /\ disk' = cache
    /\ snap' = Applied.snap
    /\ receipts' = WithReceipt(receipts, cmd.receipt)
    /\ AfterPublish
    /\ UNCHANGED <<cache, fatal, stopping>>

-----------------------------------------------------------------------------
(* create: Submit, Retry and Branch. *)

NewRequest(op, parent, req) == IF op = "retry" THEN snap.jobs[parent].req ELSE req

NewHistory(op, parent) == CASE op = "submit" -> <<>>
                            [] op = "retry"  -> snap.jobs[parent].hist
                            [] op = "branch" -> BranchHistory(snap.jobs, parent)

NewJob(op, origin, parent, req) ==
    [state |-> "queued", req |-> NewRequest(op, parent, req), hist |-> NewHistory(op, parent),
     origin |-> origin, parent |-> parent, rel |-> op,
     started |-> FALSE, finished |-> FALSE, text |-> 0, err |-> NoError]

create(op, key, origin, parent, req) ==
    /\ pc = "idle"
    /\ available
    /\ op # "retry" => ValidateRequest(req, <<>>)
    /\ key \notin DOMAIN receipts   \* otherwise: the receipt's job, or a conflict
    /\ op # "submit" => parent \in DOMAIN snap.jobs /\ Terminal(snap.jobs[parent].state)
    /\ LET job == NewJob(op, origin, parent, req)
           id == Len(snap.jobs) + 1
       IN  /\ ValidateRequest(job.req, job.hist)
           /\ Len(snap.queue.pending) < MaxPending
           /\ Len(snap.jobs) < MaxJobs
           /\ Commit("create", id, 0,
                     << jobEvent("job.accepted", id, job),
                        queueEvent([snap.queue EXCEPT !.pending = Append(@, id)]) >>,
                     {[key |-> key, job |-> id,
                       digest |-> [op |-> op, parent |-> parent, origin |-> origin, req |-> req]]})
    /\ UNCHANGED <<view, storage, backend, life>>

Submit == \E key \in Keys, origin \in Origins, req \in Requests :
              create("submit", key, origin, NoJob, req)
Retry  == \E key \in Keys, origin \in Origins, parent \in DOMAIN snap.jobs :
              create("retry", key, origin, parent, NoRequest)
Branch == \E key \in Keys, origin \in Origins, parent \in DOMAIN snap.jobs, req \in Requests :
              create("branch", key, origin, parent, req)

-----------------------------------------------------------------------------
(* dispatch: the last thing create, complete, setQueuePaused and NewWorker do. *)

MayDispatch ==
    /\ available
    /\ ~snap.queue.paused
    /\ snap.queue.active = NoJob
    /\ snap.queue.pending # <<>>

dispatch ==
    /\ pc = "dispatch"
    /\ MayDispatch
    /\ LET id == Head(snap.queue.pending)
       IN  Commit("dispatch", id, 0,
                  << jobEvent("job.state", id,
                              [snap.jobs[id] EXCEPT !.state = "running", !.started = TRUE]),
                     queueEvent([snap.queue EXCEPT !.pending = Tail(@), !.active = id]) >>, {})
    /\ UNCHANGED <<view, storage, backend, life>>

NothingToDispatch ==
    /\ pc = "dispatch"
    /\ ~MayDispatch
    /\ pc' = "idle"
    /\ boot' = FALSE
    /\ UNCHANGED <<view, storage, cmd, backend, fatal, stopping, closed>>

-----------------------------------------------------------------------------
(* emit: the backend's callback, for the job its goroutine was started for. *)

(* Mutant: refused output does not stop the backend. *)
EmitStopsQuietly(code) == outputErr' = code /\ pc' = "idle" /\ cmd' = NoCmd /\ UNCHANGED ctxDone

EmitStops(code) == outputErr' = code /\ CancelContext /\ pc' = "idle" /\ cmd' = NoCmd

emit(id, chunks) ==
    /\ pc = "idle"
    /\ id \in gens
    /\ fatal = "none" /\ outputErr = NoError
    /\ pc' = "emit"
    /\ cmd' = [NoCmd EXCEPT !.by = "emit", !.job = id, !.rest = chunks]
    /\ UNCHANGED <<view, storage, backend, life>>

EmitInvalid(id) ==
    /\ pc = "idle"
    /\ id \in gens
    /\ fatal = "none" /\ outputErr = NoError
    /\ EmitStops("backend_failure")
    /\ UNCHANGED <<view, storage, gens, cancel, life>>

EmitChunk ==
    /\ pc = "emit"
    /\ cmd.rest > 0
    /\ snap.jobs[cmd.job].text < MaxOutput
    /\ Commit("emit", cmd.job, cmd.rest - 1,
              << outputEvent(cmd.job, snap.jobs[cmd.job].text) >>, {})
    /\ UNCHANGED <<view, storage, backend, life>>

EmitTooLong ==
    /\ pc = "emit"
    /\ cmd.rest > 0
    /\ snap.jobs[cmd.job].text >= MaxOutput
    /\ EmitStops("limit_exceeded")
    /\ UNCHANGED <<view, storage, gens, cancel, life>>

EmitReturns ==
    /\ pc = "emit"
    /\ cmd.rest = 0
    /\ pc' = "idle"
    /\ cmd' = NoCmd
    /\ UNCHANGED <<view, storage, backend, life>>

-----------------------------------------------------------------------------
(* complete: Generate returned.  A bad_metadata outcome is a result complete refuses to store. *)

Outcomes == {"ok", "bad_metadata"} \cup BackendErrors

(* Mutant: the backend's own code reaches the client. *)
FinishedRaw(job, outcome) ==
    IF stopping THEN [state |-> "interrupted", err |-> "interrupted"]
    ELSE IF job.state = "cancelling" THEN [state |-> "cancelled", err |-> "cancelled"]
    ELSE IF outputErr # NoError THEN [state |-> "failed", err |-> outputErr]
    ELSE IF outcome # "ok" THEN [state |-> "failed", err |-> outcome]
    ELSE [state |-> "succeeded", err |-> NoError]

Finished(job, outcome) ==
    IF stopping THEN [state |-> "interrupted", err |-> "interrupted"]
    ELSE IF job.state = "cancelling" THEN [state |-> "cancelled", err |-> "cancelled"]
    ELSE IF outputErr # NoError THEN [state |-> "failed", err |-> publicBackendError(outputErr)]
    ELSE IF outcome # "ok" THEN [state |-> "failed", err |-> publicBackendError(outcome)]
    ELSE [state |-> "succeeded", err |-> NoError]

(* Mutant: the goroutine gives up once its context is cancelled. *)
ReturnedUncancelled(id) == pc = "idle" /\ id \in gens \ ctxDone

(* Generate has returned and its goroutine holds w.mu. *)
Returned(id) == pc = "idle" /\ id \in gens

complete(id, outcome) ==
    /\ Returned(id)
    /\ gens' = gens \ {id}
    /\ ctxDone' = ctxDone \ {id}
    /\ cancel' = NoJob
    /\ IF fatal = "none"
       THEN /\ LET end == Finished(snap.jobs[id], outcome)
               IN  Commit("complete", id, 0,
                          << jobEvent("job.result", id,
                                      [snap.jobs[id] EXCEPT !.state = end.state, !.err = end.err,
                                                            !.finished = TRUE]),
                             queueEvent([snap.queue EXCEPT !.active = NoJob]) >>, {})
            /\ UNCHANGED closed
       ELSE /\ closed' = (closed \/ stopping)
            /\ UNCHANGED <<pc, cmd>>
    /\ UNCHANGED <<view, storage, outputErr, boot, fatal, stopping>>

-----------------------------------------------------------------------------
(* Cancel and SetQueuePaused. *)

(* Mutant: a cancelled job stays in the pending queue. *)
WithoutNone(pending, id) == pending

Without(pending, id) ==
    LET at == CHOOSE i \in DOMAIN pending : pending[i] = id
    IN  [k \in 1..(Len(pending) - 1) |-> pending[IF k < at THEN k ELSE k + 1]]

cancelJob(id) ==
    /\ pc = "idle"
    /\ available
    /\ id \in DOMAIN snap.jobs
    /\ LET job == snap.jobs[id]
       IN  \/ /\ job.state = "queued"
              /\ Commit("cancel", id, 0,
                        << jobEvent("job.result", id,
                                    [job EXCEPT !.state = "cancelled", !.err = "cancelled",
                                                !.finished = TRUE]),
                           queueEvent([snap.queue EXCEPT !.pending = Without(@, id)]) >>, {})
           \/ /\ job.state = "running"
              /\ Commit("cancel", id, 0,
                        << jobEvent("job.state", id, [job EXCEPT !.state = "cancelling"]),
                           queueEvent(snap.queue) >>, {})
    /\ UNCHANGED <<view, storage, backend, life>>

setQueuePaused(paused) ==
    /\ pc = "idle"
    /\ available
    /\ IF snap.queue.paused # paused
       THEN Commit("pause", NoJob, 0, << queueEvent([snap.queue EXCEPT !.paused = paused]) >>, {})
       ELSE pc' = "dispatch" /\ UNCHANGED cmd
    /\ UNCHANGED <<view, storage, backend, life>>

-----------------------------------------------------------------------------
(* Shutdown, failure and restart. *)

Shutdown ==
    /\ pc = "idle"
    /\ ~stopping
    /\ stopping' = TRUE
    /\ CancelContext
    /\ closed' = (cancel = NoJob)
    /\ UNCHANGED <<view, storage, pc, cmd, gens, cancel, outputErr, boot, fatal>>

(* A stream's replay read failed: see Watch. *)
ReadFails ==
    /\ pc = "idle"
    /\ ~stopping
    /\ fatal' = "io"
    /\ CancelContext
    /\ UNCHANGED <<view, storage, pc, cmd, gens, cancel, outputErr, boot, stopping, closed>>

(* The process is gone; snap and receipts stay what it last published. *)
Vanish ==
    /\ pc' = "down"
    /\ cmd' = NoCmd
    /\ gens' = {} /\ ctxDone' = {} /\ cancel' = NoJob /\ outputErr' = NoError
    /\ boot' = FALSE /\ fatal' = "none" /\ stopping' = FALSE /\ closed' = FALSE
    /\ UNCHANGED view

(* Death or orderly exit of the process: the operating system keeps the file as written. *)
Crash == Up /\ Vanish /\ UNCHANGED storage

(* The unsynced end of the file may or may not have reached the disk. *)
PowerFails ==
    /\ PowerLoss
    /\ Vanish
    /\ cache' \in {cache, disk}
    /\ disk' = cache'

(* Mutant: NewWorker does not look at the recovered active job. *)
ResumeAt(image) == "dispatch"

(* Where NewWorker starts: the job a dead process left active is interrupted first. *)
StartAt(image) == IF image.snap.queue.active # NoJob THEN "recover" ELSE "dispatch"

(* Mutant: the receipts are not loaded. *)
RestartForgetful ==
    /\ pc = "down"
    /\ snap' = cache.snap
    /\ receipts' = <<>>
    /\ boot' = TRUE
    /\ pc' = StartAt(cache)
    /\ UNCHANGED <<storage, cmd, backend, fatal, stopping, closed>>

(* Mutant: the job a dead process left active is put back in the queue. *)
RestartRequeues ==
    /\ pc = "down"
    /\ snap' = LET id == cache.snap.queue.active
               IN  IF id = NoJob THEN cache.snap
                   ELSE [cache.snap EXCEPT !.jobs[id].state = "queued", !.queue.active = NoJob,
                                           !.queue.pending = <<id>> \o @]
    /\ receipts' = cache.receipts
    /\ boot' = TRUE
    /\ pc' = "dispatch"
    /\ UNCHANGED <<storage, cmd, backend, fatal, stopping, closed>>

(* journal.Open, store.Recover and the first half of NewWorker. *)
Restart ==
    /\ pc = "down"
    /\ snap' = cache.snap
    /\ receipts' = cache.receipts
    /\ boot' = TRUE
    /\ pc' = StartAt(cache)
    /\ UNCHANGED <<storage, cmd, backend, fatal, stopping, closed>>

Recover ==
    /\ pc = "recover"
    /\ LET id == snap.queue.active
       IN  Commit("recover", id, 0,
                  << jobEvent("job.result", id,
                              [snap.jobs[id] EXCEPT !.state = "interrupted", !.err = "interrupted",
                                                    !.finished = TRUE]),
                     queueEvent([snap.queue EXCEPT !.active = NoJob]) >>, {})
    /\ UNCHANGED <<view, storage, backend, life>>

-----------------------------------------------------------------------------
CancelAny   == \E id \in DOMAIN snap.jobs : cancelJob(id)
PauseAny    == \E paused \in BOOLEAN : setQueuePaused(paused)
EmitAny     == \E id \in gens, chunks \in 1..MaxPiece : emit(id, chunks)
EmitInvalidAny == \E id \in gens : EmitInvalid(id)
CompleteAny == \E id \in gens, outcome \in Outcomes : complete(id, outcome)

CommitStep == CommitRefused \/ OverLimit \/ WriteFails \/ Write \/ SyncFails \/ Sync
HandlerStep == dispatch \/ NothingToDispatch \/ EmitChunk \/ EmitTooLong \/ EmitReturns \/ Recover
Request == Submit \/ Retry \/ Branch \/ CancelAny \/ PauseAny \/ Shutdown \/ ReadFails
BackendStep == EmitAny \/ EmitInvalidAny \/ CompleteAny
Failure == Crash \/ PowerFails \/ Restart

Next == CommitStep \/ HandlerStep \/ Request \/ BackendStep \/ Failure

Spec == Init /\ [][Next]_vars

(* The holder of w.mu runs on, and Generate returns (the adapter bounds it in time) and then gets
   the mutex: Go's mutex serves its waiters in order once one of them starves. *)
FairSpec == Spec /\ WF_vars(CommitStep) /\ WF_vars(HandlerStep) /\ SF_vars(CompleteAny)

-----------------------------------------------------------------------------
(* Properties. *)

Events == [kind : {"job.accepted", "job.state", "job.result"}, seq : Nat, id : JobIDs, job : Job]
          \cup [kind : {"job.output"}, seq : Nat, id : JobIDs, offset : Nat]
          \cup [kind : {"queue.state"}, seq : Nat, queue : QueueState]

ReceiptMap(rs) == DOMAIN rs \subseteq Keys /\ rs \in [DOMAIN rs -> Receipt]

Image(im) == im.snap \in Snapshot /\ ReceiptMap(im.receipts)

Places == {"down", "recover", "idle", "dispatch", "emit", "commit", "sync"}
Handlers == {"none", "create", "dispatch", "emit", "complete", "cancel", "pause", "recover"}
Command == [by : Handlers, job : Nat, rest : Nat, events : Seq(Events), receipt : SUBSET Receipt]
FatalCauses == {"none", "exhausted", "refused", "limit", "io"}

(* Every variable of the worker keeps the type of the field of Worker, Journal or handler-local
   state it stands for. *)
TypeOK ==
    /\ snap \in Snapshot
    /\ ReceiptMap(receipts)
    /\ DOMAIN cache = {"snap", "receipts"} /\ Image(cache)
    /\ DOMAIN disk = {"snap", "receipts"} /\ Image(disk)
    /\ pc \in Places
    /\ cmd \in Command
    /\ boot \in BOOLEAN
    /\ gens \subseteq JobIDs
    /\ ctxDone \subseteq gens
    /\ cancel \in Nat
    /\ outputErr \in JobErrors \cup {"storage_failure"}
    /\ fatal \in FatalCauses
    /\ stopping \in BOOLEAN
    /\ closed \in BOOLEAN

(* No handler ever builds a transaction that ApplyCommit refuses, in the worker or again in the
   journal, and none reuses a key the journal holds: commit's "invalid journal transaction"
   poisoning is unreachable, whatever the order of requests, output, failures and restarts. *)
CommitsAccepted == pc = "commit" /\ ~Exhausted => Applied.ok /\ AppendAccepts

(* At most one Generate runs, w.cancel belongs to it, and between handlers of a healthy worker it
   is the job the queue calls active: so cancelJob and emit never call a nil w.cancel, a job is
   never started twice and no active job is left without a goroutine. *)
SingleInference ==
    /\ gens = {cancel} \ {NoJob}
    /\ pc = "idle" /\ fatal = "none" => cancel = snap.queue.active

(* Between handlers, a reason to stop the inference (Cancel, Shutdown, a poisoned worker, refused
   output) has reached the context of the Generate that runs. *)
StopReachesBackend ==
    /\ pc = "idle"
    /\ \/ stopping
       \/ fatal # "none"
       \/ outputErr # NoError
       \/ \E id \in gens : snap.jobs[id].state = "cancelling"
    => gens \subseteq ctxDone

(* dispatch is called wherever it is needed: between handlers a healthy, unpaused worker with
   pending work has a job active.  This is also why repeating resume is a no-op. *)
WorkConserving ==
    /\ pc = "idle"
    /\ available
    /\ ~snap.queue.paused
    /\ snap.queue.pending # <<>>
    => snap.queue.active # NoJob

(* closeStore runs after the last Generate returned and with no handler under way: nothing can
   append to a closed journal. *)
ClosedIsQuiet == closed => stopping /\ gens = {} /\ pc = "idle"

Grows(old, new) ==
    /\ old.seq <= new.seq
    /\ Len(old.jobs) <= Len(new.jobs)
    /\ \A j \in DOMAIN old.jobs :
          /\ \/ old.jobs[j].state = new.jobs[j].state
             \/ transition(old.jobs[j].state, new.jobs[j].state)
          /\ old.jobs[j].text <= new.jobs[j].text
          /\ Terminal(old.jobs[j].state) => old.jobs[j] = new.jobs[j]

KeepsReceipts(old, new) == \A k \in DOMAIN old : k \in DOMAIN new /\ old[k] = new[k]

(* Whatever the worker has published, and so whatever Submit, Cancel, GetJob or Snapshot has
   answered, is in the file Open would read: a restart continues it. *)
PublishedRecoverable == Grows(snap, cache.snap) /\ KeepsReceipts(receipts, cache.receipts)

(* Between handlers of a running worker, everything it answers from has been confirmed by
   File.Sync (docs/persistence.md: "finish each complete record, then call File.Sync before
   acknowledging mutations, publishing events, or dispatching accepted jobs").  Open does not
   sync a whole frame that it finds behind the last confirmed one. *)
PublishedIsSynced == pc = "idle" => snap.seq <= disk.snap.seq

(* The promise of Ledger, kept by what the worker publishes, one ledger step for each transaction,
   through crashes and restarts of the process. *)
L == INSTANCE Ledger WITH jobs <- snap.jobs, paused <- snap.queue.paused

ImplementsLedger == L!Spec

(* Receipts and jobs match one to one, in memory and in the journal, and a receipt's digest is that
   of the command its job was created by: a resent command gets exactly its own job. *)
ReceiptsMatch(jobs, rs) ==
    /\ \A k \in DOMAIN rs :
          /\ rs[k].key = k
          /\ rs[k].job \in DOMAIN jobs
          /\ LET job == jobs[rs[k].job]
             IN  rs[k].digest = [op |-> job.rel, parent |-> job.parent, origin |-> job.origin,
                                 req |-> IF job.rel = "retry" THEN NoRequest ELSE job.req]
    /\ \A j \in DOMAIN jobs : \E k \in DOMAIN rs : rs[k].job = j
    /\ \A k, l \in DOMAIN rs : rs[k].job = rs[l].job => k = l

OneJobPerKey == ReceiptsMatch(snap.jobs, receipts) /\ ReceiptsMatch(cache.snap.jobs, cache.receipts)

JobIn(j, states) == j \in DOMAIN snap.jobs /\ snap.jobs[j].state \in states

(* A cancelled inference ends: cancelling leads to a terminal state unless the worker is poisoned
   or dies. *)
CancelCompletes ==
    \A j \in 1..MaxJobs :
        JobIn(j, {"cancelling"}) ~> (JobIn(j, TerminalStates) \/ fatal # "none" \/ ~Up)

(* Shutdown ends: once stopping is set the store gets closed, with or without an active inference
   and even if the worker was poisoned. *)
ShutdownCloses == stopping ~> closed \/ ~Up
=============================================================================
