---------------------------- MODULE LedgerProofs ----------------------------
(***************************************************************************)
(* The worker implements Ledger, what it publishes is in the journal, and  *)
(* receipts and jobs match one to one: for every value of the constants.   *)
(* The argument is one relation, OneAhead: every handler builds a          *)
(* transaction that is one step of Ledger, and the journal is never more   *)
(* than that one step ahead of what is published.                          *)
(***************************************************************************)
EXTENDS WorkerProofs, FiniteSetTheorems

USE BoundAssumption DEF NoJob, JobIDs

-----------------------------------------------------------------------------
(* Every transaction is a step of Ledger. *)

(* A commit without a receipt leaves the receipts as they are. *)
LEMMA NoReceipt == ASSUME NEW rs, ReceiptMap(rs) PROVE WithReceipt(rs, {}) = rs
BY DEF WithReceipt, ReceiptMap

(* A transaction ApplyCommit accepts does not lower the sequence number. *)
LEMMA CommitSeq ==
    ASSUME NEW s \in Snapshot, NEW es, NEW r, ApplyCommit(s, es, r).ok
    PROVE  s.seq <= ApplyCommit(s, es, r).snap.seq
<1> DEFINE a0 == [ok |-> TRUE, snap |-> s, accepted |-> NoJob]
           a1 == ApplyEvent(a0, es[1])
           a2 == ApplyEvent(a1, es[2])
           c == ApplyCommit(s, es, r)
<1>0. s.seq \in Nat BY DEF Snapshot
<1>1. c = IF Len(es) = 1 THEN a1 ELSE a2 BY DEF ApplyCommit, Rejected
<1>2. a1.ok => a1.snap.seq = s.seq + 1 BY DEF ApplyEvent, Rejected, EventOK
<1> HIDE DEF a1
<1>3. a2.ok => a1.ok /\ a2.snap.seq = a1.snap.seq + 1 BY DEF ApplyEvent, Rejected, EventOK
<1> HIDE DEF a2, c
<1>4. c.ok => s.seq <= c.snap.seq BY <1>0, <1>1, <1>2, <1>3
<1> QED BY <1>4 DEF c

(* A transaction that moves one job is a step of Ledger. *)
LEMMA MoveAhead ==
    ASSUME Sound(snap), ReceiptMap(receipts), NEW id \in DOMAIN snap.jobs, NEW job,
           Moved(snap, id, job), NEW queue, queue.paused = snap.queue.paused
    PROVE  \A s : s.queue = queue /\ s.jobs = [snap.jobs EXCEPT ![id] = job] =>
                      OneAhead(snap, receipts, s, WithReceipt(receipts, {}))
<1> TAKE s
<1> HAVE s.queue = queue /\ s.jobs = [snap.jobs EXCEPT ![id] = job]
<1>1. snap.jobs \in Seq(Job) BY SoundParts
<1>2. s.jobs[id] = job BY <1>1, Replaced
<1>3. MovesJob(snap, s) BY <1>2 DEF MovesJob
<1> QED BY <1>3, NoReceipt DEF OneAhead

(* A handler that enters commit with a transaction that is a step of Ledger keeps LedgerInv. *)
LEMMA CommitAhead ==
    ASSUME Inv, LedgerInv, UNCHANGED <<view, storage>>, fatal' = fatal,
           NEW by \in Handlers, NEW id \in Nat, NEW rest \in Nat, NEW events,
           NEW receipt \in SUBSET Receipt, NEW queue, NEW jobs,
           Commit(by, id, rest, events, receipt),
           Lands(Stamp(events), receipt, queue, jobs),
           pc \in {"idle", "dispatch", "emit", "recover"},
           \A r \in receipt : r.key \notin DOMAIN receipts,
           \A s : s.queue = queue /\ s.jobs = jobs =>
                      OneAhead(snap, receipts, s, WithReceipt(receipts, receipt))
    PROVE  LedgerInv'
<1>1. snap' = snap /\ receipts' = receipts /\ cache' = cache BY DEF view, storage
<1>2. cmd'.receipt = receipt BY DEF Commit
<1>3. Applied'.ok => Applied'.snap.queue = queue /\ Applied'.snap.jobs = jobs
  BY CommitStarts
<1> QED BY <1>1, <1>2, <1>3 DEF LedgerInv

(* The first of the pending jobs is the oldest of the queued ones. *)
LEMMA OldestFirst ==
    ASSUME NEW p \in Seq(JobIDs), NEW jobs \in Seq(Job), PendingMatches(p, jobs), p # <<>>
    PROVE  \A j \in DOMAIN jobs : jobs[j].state = "queued" => Head(p) <= j
<1>1. SUFFICES ASSUME NEW j \in DOMAIN jobs, jobs[j].state = "queued" PROVE Head(p) <= j
  OBVIOUS
<1>2. PICK i \in DOMAIN p : p[i] = j BY <1>1 DEF PendingMatches
<1>3. Head(p) = p[1] /\ 1 \in DOMAIN p /\ i \in Nat /\ p[1] \in Nat /\ p[i] \in Nat
  BY <1>2
<1>4. CASE i = 1 BY <1>2, <1>3, <1>4
<1>5. CASE 1 < i
  <2>1. p[1] < p[i] BY <1>2, <1>3, <1>5 DEF PendingMatches
  <2> QED BY <1>2, <1>3, <2>1
<1>6. i >= 1 BY <1>2
<1> QED BY <1>3, <1>4, <1>5, <1>6

(* dispatch starts the oldest queued job when nothing runs. *)
LEMMA DispatchAhead == ASSUME Inv, LedgerInv, dispatch PROVE LedgerInv'
<1> DEFINE id == Head(snap.queue.pending)
           job == [snap.jobs[id] EXCEPT !.state = "running", !.started = TRUE]
           queue == [snap.queue EXCEPT !.pending = Tail(@), !.active = id]
           events == <<jobEvent("job.state", id, job), queueEvent(queue)>>
           jobs == [snap.jobs EXCEPT ![id] = job]
<1>1. /\ pc = "dispatch" /\ MayDispatch /\ Commit("dispatch", id, 0, events, {})
      /\ UNCHANGED <<view, storage>> /\ fatal' = fatal
  BY DEF dispatch, life
<1>2. Sound(snap) /\ ReceiptMap(receipts) BY DEF Inv, StorageInv, TypeOK
<1>3. /\ id \in JobIDs /\ id \in DOMAIN snap.jobs
      /\ Lands(Stamp(events), {}, queue, jobs)
  BY <1>1, <1>2, DispatchLands
<1>4. Moved(snap, id, job)
  <2>1. snap.queue.pending # <<>> /\ ~snap.queue.paused /\ snap.queue.active = NoJob
    BY <1>1 DEF MayDispatch
  <2>2. snap.jobs[id].state = "queued" BY <1>2, <2>1, SoundParts, PendingHead
  <2>3. \A j \in DOMAIN snap.jobs : snap.jobs[j].state = "queued" => id <= j
    BY <1>2, <2>1, SoundParts, OldestFirst
  <2> QED BY <2>1, <2>2, <2>3 DEF Moved
<1>5. queue.paused = snap.queue.paused BY <1>2, SoundParts DEF QueueState
<1>6. "dispatch" \in Handlers BY DEF Handlers
<1> HIDE DEF id, job, queue, events
<1>7. \A s : s.queue = queue /\ s.jobs = jobs =>
                 OneAhead(snap, receipts, s, WithReceipt(receipts, {}))
  BY <1>2, <1>3, <1>4, <1>5, MoveAhead
<1> HIDE DEF jobs
<1> QED BY <1>1, <1>3, <1>6, <1>7, CommitAhead

(* An end complete or Recover may give a live job is one Ledger allows. *)
LEMMA EndingLegal ==
    ASSUME NEW was, was.state \in LiveStates, NEW outcome
    PROVE  LET end == Finished(was, outcome)
           IN  end.state \in TerminalStates /\ end.err \in L!Ending[end.state]
                 /\ transition(was.state, end.state)
<1>1. \A code : publicBackendError(code) \in L!PublicBackendErrors
  BY DEF publicBackendError, PublicBackendErrors, L!PublicBackendErrors
<1>2. /\ L!Ending["succeeded"] = {NoError} /\ L!Ending["failed"] = L!PublicBackendErrors
      /\ L!Ending["cancelled"] = {"cancelled"} /\ L!Ending["interrupted"] = {"interrupted"}
  BY DEF L!Ending, L!NoError, NoError
<1> QED BY <1>1, <1>2 DEF Finished, LiveStates, TerminalStates, transition, Successors

(* Recovery ends the job a dead process left active. *)
LEMMA RecoverAhead == ASSUME Inv, LedgerInv, Recover PROVE LedgerInv'
<1> DEFINE id == snap.queue.active
           job == [snap.jobs[id] EXCEPT !.state = "interrupted", !.err = "interrupted",
                                        !.finished = TRUE]
           queue == [snap.queue EXCEPT !.active = NoJob]
           events == <<jobEvent("job.result", id, job), queueEvent(queue)>>
           jobs == [snap.jobs EXCEPT ![id] = job]
<1>1. /\ pc = "recover" /\ Commit("recover", id, 0, events, {})
      /\ UNCHANGED <<view, storage>> /\ fatal' = fatal
  BY DEF Recover, life
<1>2. Sound(snap) /\ id # NoJob /\ ReceiptMap(receipts)
  BY <1>1 DEF Inv, StorageInv, LifeInv, TypeOK
<1>3. /\ snap.queue \in QueueState /\ id \in Nat
      /\ id \in DOMAIN snap.jobs /\ snap.jobs[id].state \in LiveStates
  BY <1>2, SoundParts DEF ActiveMatches
<1>4. /\ "interrupted" \in TerminalStates /\ "interrupted" \in JobErrors
      /\ transition(snap.jobs[id].state, "interrupted")
      /\ "interrupted" = "succeeded" <=> "interrupted" = NoError
      /\ "interrupted" \in L!Ending["interrupted"]
  BY <1>3 DEF TerminalStates, JobErrors, NoError, transition, Successors, LiveStates, L!Ending
<1>5. Lands(Stamp(events), {}, queue, jobs) BY <1>2, <1>4, EndLands
<1>6. Moved(snap, id, job) BY <1>4 DEF Moved
<1>7. queue.paused = snap.queue.paused BY <1>3 DEF QueueState
<1>8. "recover" \in Handlers /\ {} \in SUBSET Receipt BY DEF Handlers
<1> HIDE DEF id, job, queue, events
<1>9. \A s : s.queue = queue /\ s.jobs = jobs =>
                 OneAhead(snap, receipts, s, WithReceipt(receipts, {}))
  BY <1>2, <1>3, <1>6, <1>7, MoveAhead
<1> HIDE DEF jobs
<1> QED BY <1>1, <1>3, <1>5, <1>8, <1>9, CommitAhead

(* complete ends the active job, with the error that says how. *)
LEMMA CompleteAhead ==
    ASSUME Inv, LedgerInv, NEW id, NEW outcome, complete(id, outcome), fatal = "none"
    PROVE  LedgerInv'
<1> DEFINE end == Finished(snap.jobs[id], outcome)
           job == [snap.jobs[id] EXCEPT !.state = end.state, !.err = end.err,
                                        !.finished = TRUE]
           queue == [snap.queue EXCEPT !.active = NoJob]
           events == <<jobEvent("job.result", id, job), queueEvent(queue)>>
           jobs == [snap.jobs EXCEPT ![id] = job]
<1>1. /\ pc = "idle" /\ id \in gens /\ Commit("complete", id, 0, events, {})
      /\ UNCHANGED <<view, storage>> /\ fatal' = fatal
  BY DEF complete, Returned
<1>2. Sound(snap) /\ id = snap.queue.active /\ id # NoJob /\ ReceiptMap(receipts)
  BY <1>1 DEF Inv, StorageInv, BackendInv, Idling, Commits, Committing, TypeOK
<1>3. /\ snap.queue \in QueueState /\ id \in Nat
      /\ id \in DOMAIN snap.jobs /\ snap.jobs[id].state \in LiveStates
  BY <1>2, SoundParts DEF ActiveMatches
<1>4. /\ end.state \in TerminalStates /\ end.err \in JobErrors
      /\ transition(snap.jobs[id].state, end.state)
      /\ end.state = "succeeded" <=> end.err = NoError
      /\ end.err \in L!Ending[end.state]
  BY <1>3, FinishedLegal, EndingLegal
<1> HIDE DEF end
<1>5. Lands(Stamp(events), {}, queue, jobs) BY <1>2, <1>4, EndLands
<1>6. Moved(snap, id, job) BY <1>4 DEF Moved
<1>7. queue.paused = snap.queue.paused BY <1>3 DEF QueueState
<1>8. "complete" \in Handlers /\ {} \in SUBSET Receipt BY DEF Handlers
<1> HIDE DEF job, queue, events
<1>9. \A s : s.queue = queue /\ s.jobs = jobs =>
                 OneAhead(snap, receipts, s, WithReceipt(receipts, {}))
  BY <1>2, <1>3, <1>6, <1>7, MoveAhead
<1> HIDE DEF jobs
<1> QED BY <1>1, <1>3, <1>5, <1>8, <1>9, CommitAhead

(* Cancel ends a queued job and asks the running one to stop. *)
LEMMA CancelAhead ==
    ASSUME Inv, LedgerInv, NEW id \in DOMAIN snap.jobs, cancelJob(id) PROVE LedgerInv'
<1>1. Sound(snap) /\ ReceiptMap(receipts) BY DEF Inv, StorageInv, TypeOK
<1>2. pc = "idle" /\ UNCHANGED <<view, storage>> /\ fatal' = fatal BY DEF cancelJob, life
<1>3. "cancel" \in Handlers /\ {} \in SUBSET Receipt BY DEF Handlers
<1>4. CASE snap.jobs[id].state = "queued"
  <2> DEFINE job == [snap.jobs[id] EXCEPT !.state = "cancelled", !.err = "cancelled",
                                          !.finished = TRUE]
             queue == [snap.queue EXCEPT !.pending = Without(@, id)]
             events == <<jobEvent("job.result", id, job), queueEvent(queue)>>
             jobs == [snap.jobs EXCEPT ![id] = job]
  <2>1. Commit("cancel", id, 0, events, {}) BY <1>4 DEF cancelJob
  <2>2. /\ id \in JobIDs /\ queue.paused = snap.queue.paused
        /\ Lands(Stamp(events), {}, queue, jobs)
    BY <1>1, <1>4, DropLands
  <2>3. Moved(snap, id, job)
    <3>1. /\ "cancelled" \in TerminalStates /\ transition(snap.jobs[id].state, "cancelled")
          /\ "cancelled" \in L!Ending["cancelled"]
      BY <1>4 DEF TerminalStates, transition, Successors, L!Ending
    <3> QED BY <3>1 DEF Moved
  <2> HIDE DEF job, queue, events
  <2>4. \A s : s.queue = queue /\ s.jobs = jobs =>
                   OneAhead(snap, receipts, s, WithReceipt(receipts, {}))
    BY <1>1, <2>2, <2>3, MoveAhead
  <2> HIDE DEF jobs
  <2> QED BY <1>2, <1>3, <2>1, <2>2, <2>4, CommitAhead
<1>5. CASE snap.jobs[id].state = "running"
  <2> DEFINE job == [snap.jobs[id] EXCEPT !.state = "cancelling"]
             events == <<jobEvent("job.state", id, job), queueEvent(snap.queue)>>
             jobs == [snap.jobs EXCEPT ![id] = job]
  <2>1. Commit("cancel", id, 0, events, {}) BY <1>5 DEF cancelJob
  <2>2. id \in JobIDs /\ Lands(Stamp(events), {}, snap.queue, jobs)
    BY <1>1, <1>5, StopLands
  <2>3. Moved(snap, id, job) BY <1>5 DEF Moved
  <2> HIDE DEF job, events
  <2>4. \A s : s.queue = snap.queue /\ s.jobs = jobs =>
                   OneAhead(snap, receipts, s, WithReceipt(receipts, {}))
    BY <1>1, <2>3, MoveAhead
  <2> HIDE DEF jobs
  <2> QED BY <1>2, <1>3, <2>1, <2>2, <2>4, CommitAhead
<1> QED BY <1>4, <1>5 DEF cancelJob

(* A chunk of output grows the live job by one. *)
LEMMA EmitAhead == ASSUME Inv, LedgerInv, EmitChunk PROVE LedgerInv'
<1> DEFINE id == cmd.job
           job == AddChunk(snap.jobs[id])
           jobs == [snap.jobs EXCEPT ![id] = job]
           events == <<outputEvent(id, snap.jobs[id].text)>>
<1>1. /\ pc = "emit" /\ cmd.rest > 0 /\ snap.jobs[id].text < MaxOutput
      /\ Commit("emit", id, cmd.rest - 1, events, {})
      /\ UNCHANGED <<view, storage>> /\ fatal' = fatal
  BY DEF EmitChunk, life
<1>2. /\ Sound(snap) /\ id \in gens /\ cmd \in Command /\ cmd.rest - 1 \in Nat
      /\ ReceiptMap(receipts)
  BY <1>1 DEF Inv, StorageInv, CommandInv, TypeOK, Command
<1>3. id = snap.queue.active /\ id # NoJob
  BY <1>1, <1>2 DEF Inv, BackendInv, LifeInv, Idling, Commits, Committing
<1>4. id \in DOMAIN snap.jobs /\ snap.jobs[id].state \in LiveStates
  BY <1>2, <1>3, SoundParts DEF ActiveMatches
<1>5. id \in JobIDs /\ Lands(Stamp(events), {}, snap.queue, jobs)
  BY <1>1, <1>2, <1>4, OutputLands
<1>6. Moved(snap, id, job) BY <1>1, <1>4 DEF Moved
<1>7. "emit" \in Handlers /\ {} \in SUBSET Receipt BY DEF Handlers
<1> HIDE DEF id, job, events
<1>8. \A s : s.queue = snap.queue /\ s.jobs = jobs =>
                 OneAhead(snap, receipts, s, WithReceipt(receipts, {}))
  BY <1>2, <1>4, <1>6, MoveAhead
<1> HIDE DEF jobs
<1> QED BY <1>1, <1>2, <1>5, <1>7, <1>8, CommitAhead

(* setQueuePaused flips the flag and nothing else. *)
LEMMA PauseAhead ==
    ASSUME Inv, LedgerInv, NEW paused \in BOOLEAN, setQueuePaused(paused),
           snap.queue.paused # paused
    PROVE  LedgerInv'
<1> DEFINE queue == [snap.queue EXCEPT !.paused = paused]
           events == <<queueEvent(queue)>>
<1>1. /\ pc = "idle" /\ Commit("pause", NoJob, 0, events, {})
      /\ UNCHANGED <<view, storage>> /\ fatal' = fatal
  BY DEF setQueuePaused, life
<1>2. Sound(snap) /\ ReceiptMap(receipts) BY DEF Inv, StorageInv, TypeOK
<1>3. Lands(Stamp(events), {}, queue, snap.jobs) BY <1>2, PauseLands
<1>4. queue.paused # snap.queue.paused BY <1>2, SoundParts DEF QueueState
<1>5. "pause" \in Handlers /\ {} \in SUBSET Receipt /\ NoJob \in Nat /\ 0 \in Nat BY DEF Handlers
<1> HIDE DEF queue, events
<1>6. \A s : s.queue = queue /\ s.jobs = snap.jobs =>
                 OneAhead(snap, receipts, s, WithReceipt(receipts, {}))
  BY <1>2, <1>4, NoReceipt DEF OneAhead
<1> QED BY <1>1, <1>3, <1>5, <1>6, CommitAhead

(* create adds the job its lineage calls for, with its receipt. *)
LEMMA CreateAhead ==
    ASSUME Inv, LedgerInv, NEW op \in Relations, NEW key \in Keys, NEW origin \in Origins,
           NEW parent \in Nat, NEW req \in Requests \cup {NoRequest},
           op = "submit" => parent = NoJob, op = "retry" <=> req = NoRequest,
           create(op, key, origin, parent, req)
    PROVE  LedgerInv'
<1> DEFINE job == NewJob(op, origin, parent, req)
           id == Len(snap.jobs) + 1
           queue == [snap.queue EXCEPT !.pending = Append(@, id)]
           r == [key |-> key, job |-> id,
                 digest |-> [op |-> op, parent |-> parent, origin |-> origin, req |-> req]]
           events == <<jobEvent("job.accepted", id, job), queueEvent(queue)>>
           jobs == Append(snap.jobs, job)
<1>1. /\ pc = "idle" /\ key \notin DOMAIN receipts
      /\ op # "submit" => parent \in DOMAIN snap.jobs /\ Terminal(snap.jobs[parent].state)
      /\ ValidateRequest(job.req, job.hist)
      /\ Len(snap.queue.pending) < MaxPending
      /\ Len(snap.jobs) < MaxJobs
      /\ Commit("create", id, 0, events, {r})
      /\ UNCHANGED <<view, storage>> /\ fatal' = fatal
  BY DEF create, life
<1>2. Sound(snap) /\ snap.queue \in QueueState /\ snap.jobs \in Seq(Job)
  BY SoundParts DEF Inv, StorageInv
<1>3. /\ id \in JobIDs /\ r \in Receipt /\ r.key = key
      /\ Lands(Stamp(events), {r}, queue, jobs)
  BY <1>1, <1>2, CreateLands
<1>4. queue.paused = snap.queue.paused BY <1>2 DEF QueueState
<1>5. job = Fresh(snap.jobs, op, origin, parent, req)
  BY DEF NewJob, NewRequest, NewHistory, Fresh
<1>6. parent \in 0..Len(snap.jobs) BY <1>1, <1>2
<1> HIDE DEF job, queue
<1>7. ASSUME NEW s, s.queue = queue, s.jobs = jobs
      PROVE  AddsJob(snap, receipts, s, WithReceipt(receipts, {r}))
  BY <1>1, <1>5, <1>6, <1>7 DEF AddsJob
<1> HIDE DEF r, jobs, id, events
<1>8. \A s : s.queue = queue /\ s.jobs = jobs =>
                 OneAhead(snap, receipts, s, WithReceipt(receipts, {r}))
  BY <1>4, <1>7 DEF OneAhead
<1>9. "create" \in Handlers /\ {r} \in SUBSET Receipt /\ 0 \in Nat
      /\ \A x \in {r} : x.key \notin DOMAIN receipts
  BY <1>1, <1>3 DEF Handlers
<1> QED BY <1>1, <1>3, <1>8, <1>9, CommitAhead

-----------------------------------------------------------------------------
(* What a step may do to the published state and to the journal. *)

Wrote ==
    /\ Committing /\ Applied.ok
    /\ UNCHANGED <<view, disk>>
    /\ cache'.snap = Applied.snap
    /\ cache'.receipts = WithReceipt(receipts, cmd.receipt)
Published ==
    /\ snap' = cache.snap /\ receipts' = cache.receipts /\ cache' = cache
    /\ disk' \in {cache, disk}
LostPower ==
    /\ PowerLoss
    /\ UNCHANGED view
    /\ cache' \in {cache, disk} /\ disk' \in {cache, disk}

(* Only the write of a frame, its confirmation, a restart and a power failure touch them. *)
LEMMA StorageSteps ==
    ASSUME Inv, [Next]_vars
    PROVE  UNCHANGED <<view, storage>> \/ Wrote \/ Published \/ LostPower
<1>1. CASE CommitStep
  <2>1. CASE CommitRefused \/ OverLimit \/ WriteFails \/ SyncFails
    BY <2>1 DEF CommitRefused, OverLimit, WriteFails, SyncFails, CommitFails, storage
  <2>2. CASE Write
    <3>1. /\ pc = "commit" /\ CommitOK /\ UNCHANGED <<view, disk>>
          /\ cache' = [snap     |-> ApplyCommit(cache.snap, cmd.events, cmd.receipt).snap,
                       receipts |-> WithReceipt(cache.receipts, cmd.receipt)]
      BY <2>2 DEF Write
    <3>2. cache.snap = snap /\ cache.receipts = receipts
      BY <3>1 DEF Inv, StorageInv, LifeInv
    <3> QED BY <3>1, <3>2 DEF Wrote, Applied, CommitOK, Committing
  <2>3. CASE Sync
    BY <2>3 DEF Sync, Inv, StorageInv, Published
  <2> QED BY <1>1, <2>1, <2>2, <2>3 DEF CommitStep
<1>2. CASE HandlerStep
  BY <1>2 DEF HandlerStep, dispatch, NothingToDispatch, EmitChunk, EmitTooLong, EmitReturns,
              Recover
<1>3. CASE Request
  BY <1>3, ZenonT(40) DEF Request, Submit, Retry, Branch, create, CancelAny, cancelJob, PauseAny,
              setQueuePaused, Shutdown, ReadFails
<1>4. CASE BackendStep
  BY <1>4 DEF BackendStep, EmitAny, emit, EmitInvalidAny, EmitInvalid, CompleteAny, complete
<1>5. CASE Failure
  BY <1>5 DEF Failure, Crash, PowerFails, Vanish, Restart, storage, Published, LostPower
<1>6. CASE UNCHANGED vars BY <1>6 DEF vars
<1> QED BY <1>1, <1>2, <1>3, <1>4, <1>5, <1>6 DEF Next

(* LedgerInv after a step that enters no commit. *)
LEMMA StorageAhead ==
    ASSUME Inv, LedgerInv, [Next]_vars,
           Committing' => Committing /\ Applied' = Applied /\ cmd' = cmd /\ UNCHANGED view
    PROVE  LedgerInv'
<1>1. (Committing /\ Applied.ok =>
          OneAhead(snap, receipts, Applied.snap, WithReceipt(receipts, cmd.receipt)))'
  BY DEF LedgerInv, view
<1>2. CASE UNCHANGED <<view, storage>> BY <1>1, <1>2 DEF LedgerInv, view, storage
<1>3. CASE Wrote
  <2>1. snap \in Snapshot BY SoundParts DEF Inv, StorageInv
  <2>2. snap.seq <= Applied.snap.seq BY <1>3, <2>1, CommitSeq DEF Wrote, Applied
  <2> QED BY <1>1, <1>3, <2>2 DEF LedgerInv, Wrote, view
<1>4. CASE Published BY <1>1, <1>4 DEF LedgerInv, Published
<1>5. CASE LostPower BY <1>1, <1>5 DEF LedgerInv, LostPower
<1> QED BY <1>2, <1>3, <1>4, <1>5, StorageSteps

(* Submit, Retry and Branch commit a step of Ledger. *)
LEMMA SubmitAhead == ASSUME Inv, LedgerInv, Submit \/ Retry \/ Branch PROVE LedgerInv'
<1>0. NoRequest \notin Requests BY RequestAssumption
<1>1. CASE Submit
  <2>1. PICK key \in Keys, origin \in Origins, req \in Requests :
            create("submit", key, origin, NoJob, req)
    BY <1>1 DEF Submit
  <2>2. "submit" \in Relations BY DEF Relations
  <2> QED BY <1>0, <2>1, <2>2, CreateAhead
<1>2. CASE Retry
  <2>1. PICK key \in Keys, origin \in Origins, parent \in DOMAIN snap.jobs :
            create("retry", key, origin, parent, NoRequest)
    BY <1>2 DEF Retry
  <2>2. "retry" \in Relations BY DEF Relations
  <2>3. parent \in Nat BY SoundParts DEF Inv, StorageInv
  <2> QED BY <2>1, <2>2, <2>3, CreateAhead
<1>3. CASE Branch
  <2>1. PICK key \in Keys, origin \in Origins, parent \in DOMAIN snap.jobs, req \in Requests :
            create("branch", key, origin, parent, req)
    BY <1>3 DEF Branch
  <2>2. "branch" \in Relations BY DEF Relations
  <2>3. parent \in Nat BY SoundParts DEF Inv, StorageInv
  <2> QED BY <1>0, <2>1, <2>2, <2>3, CreateAhead
<1> QED BY <1>1, <1>2, <1>3

(* Every step of the worker keeps LedgerInv. *)
LEMMA LedgerKept == ASSUME Inv, LedgerInv, [Next]_vars PROVE LedgerInv'
<1>0. ASSUME pc' \notin {"commit", "sync"} PROVE LedgerInv'
  BY <1>0, StorageAhead DEF Committing
<1>1. CASE CommitStep
  <2>1. CASE CommitRefused \/ OverLimit \/ WriteFails \/ SyncFails
    BY <1>0, <2>1 DEF CommitRefused, OverLimit, WriteFails, SyncFails, CommitFails
  <2>2. CASE Write
    <3>1. Applied' = Applied /\ cmd' = cmd /\ UNCHANGED view /\ Committing
      BY <2>2 DEF Write, Applied, view, Committing
    <3> QED BY <3>1, StorageAhead
  <2>3. CASE Sync
    <3>1. cmd.by \in Handlers \ {"none"} /\ pc' = Continuation
      BY <2>3 DEF Sync, AfterPublish, Inv, TypeOK, Command, CommandInv, Committing
    <3>2. pc' \notin {"commit", "sync"} BY <3>1 DEF Continuation, Handlers
    <3> QED BY <1>0, <3>2
  <2> QED BY <1>1, <2>1, <2>2, <2>3 DEF CommitStep
<1>2. CASE HandlerStep
  <2>1. CASE dispatch BY <2>1, DispatchAhead
  <2>2. CASE EmitChunk BY <2>2, EmitAhead
  <2>3. CASE Recover BY <2>3, RecoverAhead
  <2>4. CASE NothingToDispatch \/ EmitTooLong \/ EmitReturns
    BY <1>0, <2>4 DEF NothingToDispatch, EmitTooLong, EmitStops, EmitReturns
  <2> QED BY <1>2, <2>1, <2>2, <2>3, <2>4 DEF HandlerStep
<1>3. CASE Request
  <2>1. CASE Submit \/ Retry \/ Branch BY <2>1, SubmitAhead
  <2>2. CASE CancelAny BY <2>2, CancelAhead DEF CancelAny
  <2>3. CASE PauseAny
    <3>1. PICK paused \in BOOLEAN : setQueuePaused(paused) BY <2>3 DEF PauseAny
    <3>2. CASE snap.queue.paused # paused BY <3>1, <3>2, PauseAhead
    <3>3. CASE snap.queue.paused = paused
      <4>1. pc' = "dispatch" BY <3>1, <3>3 DEF setQueuePaused
      <4> QED BY <1>0, <4>1
    <3> QED BY <3>2, <3>3
  <2>4. CASE Shutdown \/ ReadFails BY <1>0, <2>4 DEF Shutdown, ReadFails
  <2> QED BY <1>3, <2>1, <2>2, <2>3, <2>4 DEF Request
<1>4. CASE BackendStep
  <2>1. CASE EmitAny \/ EmitInvalidAny
    BY <1>0, <2>1 DEF EmitAny, emit, EmitInvalidAny, EmitInvalid, EmitStops
  <2>2. CASE CompleteAny
    <3>1. PICK id \in gens, outcome \in Outcomes : complete(id, outcome)
      BY <2>2 DEF CompleteAny
    <3>2. CASE fatal = "none" BY <3>1, <3>2, CompleteAhead
    <3>3. CASE fatal # "none"
      <4>1. pc' = "idle" BY <3>1, <3>3 DEF complete, Returned
      <4> QED BY <1>0, <4>1
    <3> QED BY <3>2, <3>3
  <2> QED BY <1>4, <2>1, <2>2 DEF BackendStep
<1>5. CASE Failure
  <2>1. pc' \notin {"commit", "sync"}
    BY <1>5 DEF Failure, Crash, PowerFails, Vanish, Restart, StartAt
  <2> QED BY <1>0, <2>1
<1>6. CASE UNCHANGED vars
  <2>1. Applied' = Applied /\ cmd' = cmd /\ UNCHANGED view /\ pc' = pc
    BY <1>6 DEF vars, view, Applied
  <2> QED BY <2>1, StorageAhead DEF Committing
<1> QED BY <1>1, <1>2, <1>3, <1>4, <1>5, <1>6 DEF Next

(* Every transaction the worker builds is one step of Ledger, and the journal is never more than
   one such step ahead of what is published. *)
THEOREM LedgerInvariant == Spec => []LedgerInv
<1>1. Init => LedgerInv
  BY DEF Init, Recovery, LedgerInv, Committing
<1>2. Inv /\ LedgerInv /\ [Next]_vars => LedgerInv' BY LedgerKept
<1> QED BY <1>1, <1>2, WorkerInvariant, PTL DEF Spec

-----------------------------------------------------------------------------
(* Receipts and jobs match one to one. *)

(* A step of a job's life leaves alone what its receipt speaks of. *)
LEMMA MovedKeeps ==
    ASSUME NEW old, NEW id, old.jobs[id] \in Job, NEW job, Moved(old, id, job)
    PROVE  /\ job.rel = old.jobs[id].rel /\ job.parent = old.jobs[id].parent
           /\ job.origin = old.jobs[id].origin /\ job.req = old.jobs[id].req
BY DEF Moved, AddChunk, Job

(* A step of Ledger keeps receipts and jobs matched. *)
LEMMA AheadMatches ==
    ASSUME NEW old, Sound(old), NEW rs, NEW new, NEW rs2, OneAhead(old, rs, new, rs2),
           ReceiptsMatch(old.jobs, rs)
    PROVE  ReceiptsMatch(new.jobs, rs2)
<1>0. old.jobs \in Seq(Job) BY SoundParts
<1>1. CASE AddsJob(old, rs, new, rs2)
  <2>1. PICK key \in Keys \ DOMAIN rs, op \in Relations, origin \in Origins,
             parent \in 0..Len(old.jobs), req \in Requests \cup {NoRequest} :
                 /\ op = "retry" <=> req = NoRequest
                 /\ new.jobs = Append(old.jobs, Fresh(old.jobs, op, origin, parent, req))
                 /\ rs2 = WithReceipt(rs, {[key |-> key, job |-> Len(old.jobs) + 1,
                                            digest |-> [op |-> op, parent |-> parent,
                                                        origin |-> origin, req |-> req]]})
    BY <1>1, ZenonT(40) DEF AddsJob
  <2> DEFINE job == Fresh(old.jobs, op, origin, parent, req)
             id == Len(old.jobs) + 1
             r == [key |-> key, job |-> id,
                   digest |-> [op |-> op, parent |-> parent, origin |-> origin, req |-> req]]
  <2>2. /\ job.rel = op /\ job.parent = parent /\ job.origin = origin
        /\ (IF job.rel = "retry" THEN NoRequest ELSE job.req) = req
    BY <2>1 DEF Fresh
  <2>3. /\ r.key = key /\ r.job = id
        /\ r.digest = [op |-> op, parent |-> parent, origin |-> origin, req |-> req]
    OBVIOUS
  <2> HIDE DEF job, r
  <2>4. /\ DOMAIN new.jobs = DOMAIN old.jobs \cup {id} /\ id \notin DOMAIN old.jobs
        /\ new.jobs[id] = job
        /\ \A j \in DOMAIN old.jobs : new.jobs[j] = old.jobs[j]
    <3>1. new.jobs = Append(old.jobs, job) BY <2>1 DEF job
    <3> QED BY <1>0, <3>1, SMTT(30)
  <2>5. /\ DOMAIN rs2 = DOMAIN rs \cup {key} /\ rs2[key] = r
        /\ \A k \in DOMAIN rs : rs2[k] = rs[k]
    <3>1. rs2 = WithReceipt(rs, {r}) BY <2>1 DEF r
    <3>2. r.key \notin DOMAIN rs BY <2>1, <2>3
    <3> QED BY <2>3, <3>1, <3>2 DEF WithReceipt
  <2> HIDE DEF id
  <2>6. ASSUME NEW k \in DOMAIN rs2
        PROVE  /\ rs2[k].key = k /\ rs2[k].job \in DOMAIN new.jobs
               /\ LET j == new.jobs[rs2[k].job]
                  IN  rs2[k].digest = [op |-> j.rel, parent |-> j.parent, origin |-> j.origin,
                                       req |-> IF j.rel = "retry" THEN NoRequest ELSE j.req]
    <3>1. CASE k = key BY <2>2, <2>3, <2>4, <2>5, <3>1
    <3>2. CASE k \in DOMAIN rs
      <4>1. rs2[k] = rs[k] BY <2>5, <3>2
      <4>2. rs[k].key = k /\ rs[k].job \in DOMAIN old.jobs BY <3>2 DEF ReceiptsMatch
      <4>3. new.jobs[rs[k].job] = old.jobs[rs[k].job] BY <2>4, <4>2
      <4> QED BY <2>4, <3>2, <4>1, <4>2, <4>3 DEF ReceiptsMatch
    <3> QED BY <2>5, <3>1, <3>2
  <2>7. \A j \in DOMAIN new.jobs : \E k \in DOMAIN rs2 : rs2[k].job = j
    BY <2>3, <2>4, <2>5 DEF ReceiptsMatch
  <2>8. ASSUME NEW k \in DOMAIN rs2, NEW l \in DOMAIN rs2, rs2[k].job = rs2[l].job PROVE k = l
    <3>0. \A m \in DOMAIN rs : rs[m].job \in DOMAIN old.jobs BY DEF ReceiptsMatch
    <3>1. \A m \in DOMAIN rs : rs2[m] = rs[m] /\ rs[m].job # id BY <2>4, <2>5, <3>0
    <3>2. \A m, n \in DOMAIN rs : rs[m].job = rs[n].job => m = n BY DEF ReceiptsMatch
    <3> QED BY <2>3, <2>5, <2>8, <3>1, <3>2
  <2> QED BY <2>6, <2>7, <2>8 DEF ReceiptsMatch
<1>2. CASE MovesJob(old, new) /\ rs2 = rs
  <2>1. PICK id \in DOMAIN old.jobs :
            Moved(old, id, new.jobs[id]) /\ new.jobs = [old.jobs EXCEPT ![id] = new.jobs[id]]
    BY <1>2 DEF MovesJob
  <2>2. DOMAIN new.jobs = DOMAIN old.jobs
        /\ \A j \in DOMAIN old.jobs : j # id => new.jobs[j] = old.jobs[j]
    BY <1>0, <2>1, Replaced
  <2>3. old.jobs[id] \in Job BY <1>0
  <2>4. \A j \in DOMAIN old.jobs :
            /\ new.jobs[j].rel = old.jobs[j].rel /\ new.jobs[j].parent = old.jobs[j].parent
            /\ new.jobs[j].origin = old.jobs[j].origin /\ new.jobs[j].req = old.jobs[j].req
    BY <2>1, <2>2, <2>3, MovedKeeps
  <2>5. ASSUME NEW k \in DOMAIN rs
        PROVE  /\ rs[k].key = k /\ rs[k].job \in DOMAIN new.jobs
               /\ LET j == new.jobs[rs[k].job]
                  IN  rs[k].digest = [op |-> j.rel, parent |-> j.parent, origin |-> j.origin,
                                      req |-> IF j.rel = "retry" THEN NoRequest ELSE j.req]
    <3>1. rs[k].key = k /\ rs[k].job \in DOMAIN old.jobs BY DEF ReceiptsMatch
    <3>2. LET j == old.jobs[rs[k].job]
          IN  rs[k].digest = [op |-> j.rel, parent |-> j.parent, origin |-> j.origin,
                              req |-> IF j.rel = "retry" THEN NoRequest ELSE j.req]
      BY DEF ReceiptsMatch
    <3>3. /\ new.jobs[rs[k].job].rel = old.jobs[rs[k].job].rel
          /\ new.jobs[rs[k].job].parent = old.jobs[rs[k].job].parent
          /\ new.jobs[rs[k].job].origin = old.jobs[rs[k].job].origin
          /\ new.jobs[rs[k].job].req = old.jobs[rs[k].job].req
      BY <2>4, <3>1
    <3> QED BY <2>2, <3>1, <3>2, <3>3
  <2>6. /\ \A j \in DOMAIN new.jobs : \E k \in DOMAIN rs : rs[k].job = j
        /\ \A k, l \in DOMAIN rs : rs[k].job = rs[l].job => k = l
    BY <2>2 DEF ReceiptsMatch
  <2> QED BY <1>2, <2>5, <2>6 DEF ReceiptsMatch
<1>3. CASE new.jobs = old.jobs /\ rs2 = rs BY <1>3
<1> QED BY <1>1, <1>2, <1>3 DEF OneAhead

(* Every step keeps the receipts of all three images matched. *)
LEMMA ReceiptsKept == ASSUME Inv, LedgerInv, ReceiptInv, [Next]_vars PROVE ReceiptInv'
<1>1. CASE UNCHANGED <<view, storage>> BY <1>1 DEF ReceiptInv, view, storage
<1>2. CASE Wrote
  <2>1. /\ OneAhead(snap, receipts, cache'.snap, cache'.receipts)
        /\ Sound(snap) /\ ReceiptsMatch(snap.jobs, receipts)
    BY <1>2 DEF Wrote, LedgerInv, Inv, StorageInv, ReceiptInv
  <2>2. ReceiptsMatch(cache'.snap.jobs, cache'.receipts) BY <2>1, AheadMatches
  <2> QED BY <1>2, <2>2 DEF Wrote, ReceiptInv, view
<1>3. CASE Published BY <1>3 DEF Published, ReceiptInv
<1>4. CASE LostPower BY <1>4 DEF LostPower, ReceiptInv, view
<1> QED BY <1>1, <1>2, <1>3, <1>4, StorageSteps

(* A resent command gets exactly its own job: receipts and jobs match one to one, in memory and in
   the journal, through crashes, restarts and power failures. *)
THEOREM OneJobPerKeyTheorem == Spec => []OneJobPerKey
<1>1. Init => ReceiptInv
  BY DEF Init, Recovery, EmptySnapshot, ReceiptInv, ReceiptsMatch
<1>2. Inv /\ LedgerInv /\ ReceiptInv /\ [Next]_vars => ReceiptInv' BY ReceiptsKept
<1>3. ReceiptInv => OneJobPerKey BY DEF ReceiptInv, OneJobPerKey
<1> QED BY <1>1, <1>2, <1>3, WorkerInvariant, LedgerInvariant, PTL DEF Spec

-----------------------------------------------------------------------------
(* What is published can be recovered. *)

(* A job one step further is a later version of the same job. *)
LEMMA MovedGrows ==
    ASSUME NEW old, NEW id, old.jobs[id] \in Job, NEW job, Moved(old, id, job)
    PROVE  /\ old.jobs[id].state = job.state \/ transition(old.jobs[id].state, job.state)
           /\ old.jobs[id].text <= job.text
           /\ ~Terminal(old.jobs[id].state)
<1> DEFINE was == old.jobs[id]
<1>1. was.text \in Nat /\ was.text <= was.text BY DEF Job
<1>2. CASE was.state = "queued" /\ job = [was EXCEPT !.state = "running", !.started = TRUE]
  BY <1>1, <1>2 DEF Job, transition, Successors, Terminal, TerminalStates
<1>3. CASE was.state \in LiveStates /\ job = AddChunk(was)
  BY <1>1, <1>3 DEF Job, AddChunk, LiveStates, Terminal, TerminalStates
<1>4. CASE was.state = "running" /\ job = [was EXCEPT !.state = "cancelling"]
  BY <1>1, <1>4 DEF Job, transition, Successors, Terminal, TerminalStates
<1>5. ASSUME NEW state \in TerminalStates, NEW err, transition(was.state, state),
             job = [was EXCEPT !.state = state, !.err = err, !.finished = TRUE]
      PROVE  was.text <= job.text /\ transition(was.state, job.state) /\ ~Terminal(was.state)
  BY <1>1, <1>5 DEF Job, transition, Successors, Terminal, TerminalStates
<1> QED BY <1>2, <1>3, <1>4, <1>5 DEF Moved

(* A step of Ledger loses nothing. *)
LEMMA AheadGrows ==
    ASSUME NEW old, Sound(old), NEW rs, NEW new, NEW rs2, OneAhead(old, rs, new, rs2),
           old.seq <= new.seq
    PROVE  Grows(old, new) /\ KeepsReceipts(rs, rs2)
<1>0. old.jobs \in Seq(Job) /\ \A j \in DOMAIN old.jobs : old.jobs[j].text <= old.jobs[j].text
  <2>1. old.jobs \in Seq(Job) BY SoundParts
  <2>2. ASSUME NEW j \in DOMAIN old.jobs PROVE old.jobs[j].text <= old.jobs[j].text
    <3>1. old.jobs[j] \in Job BY <2>1
    <3> QED BY <3>1 DEF Job
  <2> QED BY <2>1, <2>2
<1>1. CASE AddsJob(old, rs, new, rs2)
  <2>1. PICK job, r :
            /\ new.jobs = Append(old.jobs, job)
            /\ r.key \in Keys \ DOMAIN rs /\ rs2 = WithReceipt(rs, {r})
    BY <1>1 DEF AddsJob
  <2>2. /\ Len(old.jobs) <= Len(new.jobs)
        /\ \A j \in DOMAIN old.jobs : new.jobs[j] = old.jobs[j]
    BY <1>0, <2>1
  <2>3. KeepsReceipts(rs, rs2)
    <3>1. r.key \notin DOMAIN rs BY <2>1
    <3>2. DOMAIN rs \subseteq DOMAIN rs2 /\ \A k \in DOMAIN rs : rs2[k] = rs[k]
      BY <2>1, <3>1 DEF WithReceipt
    <3> QED BY <3>2 DEF KeepsReceipts
  <2> QED BY <1>0, <2>2, <2>3 DEF Grows
<1>2. CASE MovesJob(old, new) /\ rs2 = rs
  <2>1. PICK id \in DOMAIN old.jobs :
            Moved(old, id, new.jobs[id]) /\ new.jobs = [old.jobs EXCEPT ![id] = new.jobs[id]]
    BY <1>2 DEF MovesJob
  <2>2. /\ \A j \in DOMAIN old.jobs : j # id => new.jobs[j] = old.jobs[j]
        /\ Len(old.jobs) <= Len(new.jobs)
    <3>1. DOMAIN new.jobs = 1..Len(old.jobs) /\ Len(new.jobs) = Len(old.jobs) BY <1>0, <2>1
    <3> QED BY <1>0, <2>1, <3>1, Replaced
  <2>3. old.jobs[id] \in Job BY <1>0
  <2>4. /\ \/ old.jobs[id].state = new.jobs[id].state
           \/ transition(old.jobs[id].state, new.jobs[id].state)
        /\ old.jobs[id].text <= new.jobs[id].text
        /\ ~Terminal(old.jobs[id].state)
    BY <2>1, <2>3, MovedGrows
  <2> QED BY <1>0, <1>2, <2>2, <2>4 DEF Grows, KeepsReceipts
<1>3. CASE new.jobs = old.jobs /\ rs2 = rs
  BY <1>0, <1>3 DEF Grows, KeepsReceipts
<1> QED BY <1>1, <1>2, <1>3 DEF OneAhead

(* As long as the machine keeps its power, whatever was published is in what Open would read, at
   every moment and through any number of crashes of the process. *)
THEOREM PublishedTheorem == ASSUME ~PowerLoss PROVE Spec => []PublishedRecoverable
<1>1. Inv /\ LedgerInv => PublishedRecoverable
  <2> SUFFICES ASSUME Inv, LedgerInv PROVE PublishedRecoverable OBVIOUS
  <2>1. Sound(snap) BY DEF Inv, StorageInv
  <2>2. CASE cache.snap = snap /\ cache.receipts = receipts
    <3>1. snap.jobs \in Seq(Job) /\ snap.seq \in Nat BY <2>1, SoundParts
    <3>2. \A j \in DOMAIN snap.jobs : snap.jobs[j].text <= snap.jobs[j].text
      <4>1. SUFFICES ASSUME NEW j \in DOMAIN snap.jobs PROVE snap.jobs[j].text <= snap.jobs[j].text
        OBVIOUS
      <4>2. snap.jobs[j] \in Job BY <3>1
      <4> QED BY <4>2 DEF Job
    <3> QED BY <2>2, <3>1, <3>2 DEF PublishedRecoverable, Grows, KeepsReceipts
  <2>3. CASE snap.seq <= cache.snap.seq /\ OneAhead(snap, receipts, cache.snap, cache.receipts)
    BY <2>1, <2>3, AheadGrows DEF PublishedRecoverable
  <2> QED BY <2>2, <2>3 DEF LedgerInv
<1> QED BY <1>1, WorkerInvariant, LedgerInvariant, PTL

-----------------------------------------------------------------------------
(* The worker implements Ledger. *)

(* There are no more queued jobs than pending entries. *)
LEMMA QueuedBound ==
    ASSUME NEW p \in Seq(JobIDs), NEW jobs \in Seq(Job), PendingMatches(p, jobs)
    PROVE  Cardinality({j \in DOMAIN jobs : jobs[j].state = "queued"}) <= Len(p)
<1> DEFINE Q == {j \in DOMAIN jobs : jobs[j].state = "queued"}
           D == 1..Len(p)
<1>1. Len(p) \in Nat /\ DOMAIN p = D /\ p \in [D -> JobIDs] OBVIOUS
<1>2. IsFiniteSet(D) /\ Cardinality(D) = Len(p)
  <2>1. 1 \in Int /\ Len(p) \in Int BY <1>1
  <2>2. IsFiniteSet(1..Len(p)) /\ Cardinality(1..Len(p)) = IF 1 > Len(p) THEN 0 ELSE Len(p) - 1 + 1
    BY <2>1, FS_Interval, Zenon
  <2> QED BY <1>1, <2>2
<1>3. \A i \in D : p[i] \in Q BY <1>1 DEF PendingMatches
<1>4. \A j \in Q : \E i \in D : p[i] = j BY <1>1 DEF PendingMatches
<1> HIDE DEF Q, D
<1>5. p \in Surjection(D, Q)
  <2>1. p \in [D -> Q] BY <1>1, <1>3
  <2> QED BY <1>4, <2>1 DEF Surjection
<1>6. Cardinality(Q) <= Cardinality(D) BY <1>2, <1>5, FS_Surjection
<1> QED BY <1>2, <1>6 DEF Q

(* One step ahead is one step of Ledger. *)
LEMMA AheadIsStep ==
    ASSUME Sound(snap), OneAhead(snap, receipts, snap', receipts'), snap'.queue.paused \in BOOLEAN
    PROVE  L!Next
<1>0. /\ snap.jobs \in Seq(Job) /\ snap.queue.pending \in Seq(JobIDs)
      /\ PendingMatches(snap.queue.pending, snap.jobs)
      /\ ActiveMatches(snap.queue.active, snap.jobs)
  BY SoundParts
<1>1. CASE AddsJob(snap, receipts, snap', receipts') /\ snap'.queue.paused = snap.queue.paused
  <2>1. PICK key \in Keys \ DOMAIN receipts, op \in Relations, origin \in Origins,
             parent \in 0..Len(snap.jobs), req \in Requests \cup {NoRequest} :
          /\ Len(snap.jobs) < MaxJobs /\ Len(snap.queue.pending) < MaxPending
          /\ op = "submit" => parent = NoJob
          /\ op # "submit" => parent \in DOMAIN snap.jobs /\ Terminal(snap.jobs[parent].state)
          /\ op = "retry" <=> req = NoRequest
          /\ snap'.jobs = Append(snap.jobs, Fresh(snap.jobs, op, origin, parent, req))
          /\ receipts' = WithReceipt(receipts,
                             {[key |-> key, job |-> Len(snap.jobs) + 1,
                               digest |-> [op |-> op, parent |-> parent, origin |-> origin,
                                           req |-> req]]})
    BY <1>1 DEF AddsJob
  <2> DEFINE asked == IF op = "retry" THEN snap.jobs[parent].req ELSE req
  <2>2. asked \in Requests
    <3>1. CASE op = "retry"
      <4>1. snap.jobs[parent] \in Job BY <1>0, <2>1, <3>1
      <4> QED BY <3>1, <4>1 DEF Job
    <3>2. CASE op # "retry" BY <2>1, <3>2
    <3> QED BY <3>1, <3>2
  <2>3. Cardinality(L!Queued) < MaxPending
    <3>1. L!Queued = {j \in DOMAIN snap.jobs : snap.jobs[j].state = "queued"} BY DEF L!Queued
    <3>2. Cardinality(L!Queued) <= Len(snap.queue.pending) BY <1>0, <3>1, QueuedBound
    <3>3. IsFiniteSet(L!Queued)
      <4>1. 1 \in Int /\ Len(snap.jobs) \in Int BY <1>0
      <4>3. IsFiniteSet(1..Len(snap.jobs)) BY <4>1, FS_Interval, Zenon
      <4>2. L!Queued \in SUBSET (1..Len(snap.jobs)) BY <1>0, <3>1
      <4> QED BY <4>2, <4>3, FS_Subset
    <3>4. Cardinality(L!Queued) \in Nat BY <3>3, FS_CardinalityType
    <3>5. Len(snap.queue.pending) \in Nat BY <1>0
    <3> HIDE DEF L!Queued
    <3> QED BY <2>1, <3>2, <3>4, <3>5
  <2>4. L!Accept(key, op, origin, parent, asked)
    <3>1. Fresh(snap.jobs, op, origin, parent, req)
            = [state |-> "queued", req |-> asked, hist |-> L!History(op, parent),
               origin |-> origin, parent |-> parent, rel |-> op,
               started |-> FALSE, finished |-> FALSE, text |-> 0, err |-> L!NoError]
      BY DEF Fresh, L!History, L!BranchHistory, BranchHistory, L!NoError, NoError
    <3>2. req = IF op = "retry" THEN NoRequest ELSE asked BY <2>1
    <3>3. op = "retry" => asked = snap.jobs[parent].req OBVIOUS
    <3>4. \A rs, rc : L!WithReceipt(rs, rc) = WithReceipt(rs, rc)
      BY DEF L!WithReceipt, WithReceipt
    <3>5. receipts' = L!WithReceipt(receipts,
                          {[key |-> key, job |-> Len(snap.jobs) + 1,
                            digest |-> [op |-> op, parent |-> parent, origin |-> origin,
                                        req |-> IF op = "retry" THEN NoRequest ELSE asked]]})
      BY <2>1, <3>2, <3>4
    <3>6. L!Cardinality(L!Queued) = Cardinality(L!Queued) BY DEF L!Cardinality, Cardinality
    <3> HIDE DEF asked
    <3>7. snap'.jobs = Append(snap.jobs,
              [state |-> "queued", req |-> asked, hist |-> L!History(op, parent),
               origin |-> origin, parent |-> parent, rel |-> op,
               started |-> FALSE, finished |-> FALSE, text |-> 0, err |-> L!NoError])
      BY <2>1, <3>1
    <3>8. /\ op = "submit" => parent = L!NoJob
          /\ op # "submit" => parent \in DOMAIN snap.jobs /\ L!Terminal(snap.jobs[parent].state)
      BY <2>1 DEF L!Terminal, Terminal, L!TerminalStates, TerminalStates, L!NoJob, NoJob
    <3> HIDE DEF L!Queued
    <3> QED BY <1>1, <2>1, <2>3, <3>3, <3>5, <3>6, <3>7, <3>8 DEF L!Accept
  <2>5. op \in L!Relations /\ key \in Keys BY <2>1 DEF Relations, L!Relations
  <2> HIDE DEF asked
  <2> QED BY <2>1, <2>2, <2>4, <2>5 DEF L!Next
<1>2. CASE /\ MovesJob(snap, snap') /\ receipts' = receipts
           /\ snap'.queue.paused = snap.queue.paused
  <2>1. PICK id \in DOMAIN snap.jobs :
            /\ Moved(snap, id, snap'.jobs[id])
            /\ snap'.jobs = [snap.jobs EXCEPT ![id] = snap'.jobs[id]]
    BY <1>2 DEF MovesJob
  <2> DEFINE was == snap.jobs[id]
             job == snap'.jobs[id]
  <2>2. was \in Job BY <1>0
  <2>3. CASE /\ ~snap.queue.paused /\ snap.queue.active = NoJob /\ was.state = "queued"
             /\ \A j \in DOMAIN snap.jobs : snap.jobs[j].state = "queued" => id <= j
             /\ job = [was EXCEPT !.state = "running", !.started = TRUE]
    <3>1. L!Live = {} BY <1>0, <2>3, NoneLive DEF L!Live, L!LiveStates, LiveStates
    <3>2. id \in L!Queued /\ \A i \in L!Queued : id <= i BY <2>3 DEF L!Queued
    <3>3. snap'.jobs = [snap.jobs EXCEPT ![id].state = "running", ![id].started = TRUE]
      BY <1>0, <2>1, <2>2, <2>3
    <3>4. L!Start(id) BY <1>2, <2>3, <3>1, <3>2, <3>3 DEF L!Start
    <3> QED BY <3>4 DEF L!Next
  <2>4. CASE was.state \in LiveStates /\ was.text < MaxOutput /\ job = AddChunk(was)
    <3>1. id \in L!Live BY <2>4 DEF L!Live, L!LiveStates, LiveStates
    <3>2. snap'.jobs = [snap.jobs EXCEPT ![id].text = @ + 1]
      BY <1>0, <2>1, <2>2, <2>4 DEF AddChunk
    <3>3. L!Output(id) BY <1>2, <2>4, <3>1, <3>2 DEF L!Output
    <3> QED BY <3>3 DEF L!Next
  <2>5. CASE was.state = "running" /\ job = [was EXCEPT !.state = "cancelling"]
    <3>1. snap'.jobs = [snap.jobs EXCEPT ![id].state = "cancelling"] BY <2>1, <2>5
    <3>2. L!RequestCancel(id) BY <1>2, <2>5, <3>1 DEF L!RequestCancel
    <3> QED BY <3>2 DEF L!Next
  <2>6. ASSUME NEW state \in TerminalStates, NEW err \in L!Ending[state],
               transition(was.state, state),
               job = [was EXCEPT !.state = state, !.err = err, !.finished = TRUE]
        PROVE  L!Next
    <3>1. snap'.jobs = [snap.jobs EXCEPT ![id].state = state, ![id].finished = TRUE,
                                         ![id].err = err]
      BY <1>0, <2>1, <2>2, <2>6 DEF Job
    <3>2. L!transition(was.state, state) /\ state \in L!TerminalStates
      BY <2>6 DEF L!transition, transition, L!Successors, Successors, L!TerminalStates,
                  TerminalStates
    <3>3. L!Finish(id, state, err) BY <1>2, <2>6, <3>1, <3>2 DEF L!Finish
    <3> QED BY <2>6, <3>2, <3>3 DEF L!Next
  <2> QED BY <2>1, <2>3, <2>4, <2>5, <2>6 DEF Moved
<1>3. CASE /\ snap'.jobs = snap.jobs /\ receipts' = receipts
           /\ snap'.queue.paused # snap.queue.paused
  <2>1. snap.queue.paused \in BOOLEAN BY SoundParts DEF QueueState
  <2> QED BY <1>3, <2>1 DEF L!Next, L!SetPaused
<1> QED BY <1>1, <1>2, <1>3 DEF OneAhead

(* Every step of the worker, of its journal and of the processes it dies and restarts in, is for
   its clients one step of Ledger or none. *)
LEMMA RefinedStep ==
    ASSUME ~PowerLoss, Inv, LedgerInv, Inv', [Next]_vars
    PROVE  L!Next \/ UNCHANGED L!ledger
<1>1. CASE UNCHANGED view BY <1>1 DEF view, L!ledger
<1>2. CASE Published
  <2>1. snap' = cache.snap /\ receipts' = cache.receipts BY <1>2 DEF Published
  <2>2. CASE cache.snap = snap /\ cache.receipts = receipts
    BY <2>1, <2>2 DEF L!ledger
  <2>3. CASE OneAhead(snap, receipts, cache.snap, cache.receipts)
    <3>1. Sound(snap) BY DEF Inv, StorageInv
    <3>2. Sound(snap)' BY DEF Inv, StorageInv
    <3>3. snap'.queue.paused \in BOOLEAN BY <3>2 DEF Sound, Snapshot, QueueState
    <3>4. OneAhead(snap, receipts, snap', receipts') BY <2>1, <2>3
    <3> QED BY <3>1, <3>3, <3>4, AheadIsStep
  <2> QED BY <2>2, <2>3 DEF LedgerInv
<1>3. ~LostPower BY DEF LostPower
<1> QED BY <1>1, <1>2, <1>3, StorageSteps DEF Wrote

(* As long as the machine keeps its power, the worker with its queue, its journal, its one running
   generation and its crashes implements Ledger: jobs are accepted once, started first come first
   served and one at a time, and end the way they say they do. *)
THEOREM RefinementTheorem == ASSUME ~PowerLoss PROVE Spec => ImplementsLedger
<1>1. Init => L!Init BY DEF Init, EmptySnapshot, L!Init
<1>2. Inv /\ LedgerInv /\ Inv' /\ [Next]_vars => [L!Next]_(L!ledger) BY RefinedStep
<1> QED BY <1>1, <1>2, WorkerInvariant, LedgerInvariant, PTL DEF Spec, ImplementsLedger, L!Spec
=============================================================================
