------------------------------ MODULE Reducer -------------------------------
(***************************************************************************)
(* ApplyCommit (internal/core/state.go): the one function that turns a     *)
(* snapshot and a transaction into the next snapshot, or rejects it.  The  *)
(* worker applies it before it appends, the journal while it appends, and  *)
(* recovery on every frame it reads back.                                  *)
(*                                                                         *)
(* A transaction here has one or two events: no caller of commit builds a  *)
(* longer one.  A result is [ok, snap, accepted]; ok = FALSE is bad().     *)
(***************************************************************************)
EXTENDS Contract

Rejected == [ok |-> FALSE, snap |-> EmptySnapshot, accepted |-> NoJob]

(* The instructions an accepted job must carry, from its lineage. *)
LineageOK(jobs, job) ==
    \/ /\ job.rel = "submit"
       /\ job.parent = NoJob
       /\ job.hist = <<>>
    \/ /\ job.rel = "retry"
       /\ job.parent \in DOMAIN jobs
       /\ Terminal(jobs[job.parent].state)
       /\ job.req = jobs[job.parent].req
       /\ job.hist = jobs[job.parent].hist
    \/ /\ job.rel = "branch"
       /\ job.parent \in DOMAIN jobs
       /\ Terminal(jobs[job.parent].state)
       /\ job.hist = BranchHistory(jobs, job.parent)

AcceptOK(snap, accepted, id, job) ==
    /\ ValidateRequest(job.req, job.hist)
    /\ id = Len(snap.jobs) + 1
    /\ accepted = NoJob
    /\ Len(snap.jobs) < MaxJobs
    /\ job.state = "queued"
    /\ ~job.started /\ ~job.finished /\ job.text = 0 /\ job.err = NoError
    /\ LineageOK(snap.jobs, job)

(* job.state and job.result replace the job as a whole. *)
ReplaceOK(snap, kind, id, job) ==
    /\ ValidateRequest(job.req, job.hist)
    /\ id \in DOMAIN snap.jobs
    /\ LET old == snap.jobs[id]
       IN  /\ transition(old.state, job.state)
           /\ job.state = "running" =>
                /\ ~snap.queue.paused
                /\ snap.queue.active = NoJob
                /\ snap.queue.pending # <<>>
                /\ snap.queue.pending[1] = id
           /\ \A f \in {"req", "hist", "parent", "rel", "origin", "text"} : old[f] = job[f]
           /\ Terminal(job.state) <=> kind = "job.result"
           /\ Terminal(job.state) <=> job.finished
           /\ job.state \in LiveStates \/ old.started => job.started
           /\ ~Terminal(job.state) \/ job.state = "succeeded" => job.err = NoError
           /\ Terminal(job.state) /\ job.state # "succeeded" => job.err # NoError

OutputOK(snap, id, offset) ==
    /\ id \in DOMAIN snap.jobs
    /\ snap.jobs[id].state \in LiveStates
    /\ offset = snap.jobs[id].text
    /\ offset < MaxOutput

EventOK(snap, accepted, e) ==
    /\ e.seq = snap.seq + 1
    /\ e.seq <= MaxSeq
    /\ CASE e.kind = "job.accepted" -> AcceptOK(snap, accepted, e.id, e.job)
         [] e.kind \in {"job.state", "job.result"} -> ReplaceOK(snap, e.kind, e.id, e.job)
         [] e.kind = "job.output" -> OutputOK(snap, e.id, e.offset)
         [] e.kind = "queue.state" -> TRUE

AddChunk(job) == [job EXCEPT !.text = @ + 1]

JobsAfter(jobs, e) ==
    CASE e.kind = "job.accepted" -> Append(jobs, e.job)
      [] e.kind \in {"job.state", "job.result"} -> [jobs EXCEPT ![e.id] = e.job]
      [] e.kind = "job.output" -> [jobs EXCEPT ![e.id] = AddChunk(@)]
      [] e.kind = "queue.state" -> jobs

ApplyEvent(a, e) ==
    IF a.ok /\ EventOK(a.snap, a.accepted, e)
    THEN [ok       |-> TRUE,
          snap     |-> [seq   |-> e.seq,
                        queue |-> IF e.kind = "queue.state" THEN e.queue ELSE a.snap.queue,
                        jobs  |-> JobsAfter(a.snap.jobs, e)],
          accepted |-> IF e.kind = "job.accepted" THEN e.id ELSE a.accepted]
    ELSE Rejected

(* The queue is exactly what the jobs say: the queued ones in acceptance order, the live one. *)
PendingMatches(pending, jobs) ==
    /\ Len(pending) <= MaxPending
    /\ \A i \in DOMAIN pending : pending[i] \in DOMAIN jobs /\ jobs[pending[i]].state = "queued"
    /\ \A i, k \in DOMAIN pending : i < k => pending[i] < pending[k]
    /\ \A j \in DOMAIN jobs : jobs[j].state = "queued" => \E i \in DOMAIN pending : pending[i] = j

ActiveMatches(active, jobs) ==
    /\ \A j \in DOMAIN jobs : jobs[j].state \in LiveStates => j = active
    /\ active # NoJob => active \in DOMAIN jobs /\ jobs[active].state \in LiveStates

QueueMatches(snap) ==
    /\ PendingMatches(snap.queue.pending, snap.jobs)
    /\ ActiveMatches(snap.queue.active, snap.jobs)

ReceiptOK(accepted, receipt) ==
    /\ accepted # NoJob <=> receipt # {}
    /\ \A r \in receipt : r.job = accepted

ApplyCommit(snap, events, receipt) ==
    LET a1 == ApplyEvent([ok |-> TRUE, snap |-> snap, accepted |-> NoJob], events[1])
        an == IF Len(events) = 1 THEN a1 ELSE ApplyEvent(a1, events[2])
    IN  IF an.ok /\ ReceiptOK(an.accepted, receipt) /\ QueueMatches(an.snap)
        THEN an ELSE Rejected
=============================================================================
