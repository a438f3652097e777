---------------------------- MODULE WorkerProofs ----------------------------
(***************************************************************************)
(* Lemmas about transactions (what ApplyCommit returns, and that each      *)
(* handler of the worker builds one that ApplyCommit accepts from a sound  *)
(* snapshot); then Inv is inductive, one lemma for each action, and the    *)
(* safety properties of Worker follow from it for every value of the       *)
(* constants.                                                              *)
(***************************************************************************)
EXTENDS WorkerInv, TLAPS

(* The results of ApplyEvent and ApplyCommit. *)
Acc == [ok : BOOLEAN, snap : Snapshot, accepted : Nat]

USE BoundAssumption DEF NoJob, JobIDs

(* The snapshot of a fresh journal is well formed. *)
LEMMA EmptyTyped == EmptySnapshot \in Snapshot
BY DEF EmptySnapshot, Snapshot, QueueState

(* Replacing an element of a sequence keeps its type, its length and its domain. *)
LEMMA ExceptSeq ==
    ASSUME NEW S, NEW q \in Seq(S), NEW i \in DOMAIN q, NEW x \in S
    PROVE  /\ [q EXCEPT ![i] = x] \in Seq(S)
           /\ Len([q EXCEPT ![i] = x]) = Len(q)
           /\ DOMAIN [q EXCEPT ![i] = x] = DOMAIN q
OBVIOUS

(* An element of a sequence has the sequence's element type. *)
LEMMA SeqElement ==
    ASSUME NEW S, NEW q \in Seq(S), NEW i \in 1..Len(q)
    PROVE  q[i] \in S
OBVIOUS

(* A job that gets one more chunk of output is still a job. *)
LEMMA AddChunkTyped == ASSUME NEW job \in Job PROVE AddChunk(job) \in Job
BY DEF AddChunk, Job

(* ApplyEvent returns a result of the right type whether it accepts the event or not. *)
LEMMA EventTyped ==
    ASSUME NEW a \in Acc, NEW e \in Events
    PROVE  ApplyEvent(a, e) \in Acc
<1>1. CASE ~(a.ok /\ EventOK(a.snap, a.accepted, e))
  BY <1>1, EmptyTyped DEF ApplyEvent, Rejected, Acc
<1>2. CASE a.ok /\ EventOK(a.snap, a.accepted, e)
  <2>0. a.snap \in Snapshot /\ a.accepted \in Nat BY DEF Acc
  <2>1. e.seq \in 0..MaxSeq
    BY <1>2 DEF EventOK, Events
  <2>2. (IF e.kind = "queue.state" THEN e.queue ELSE a.snap.queue) \in QueueState
    BY <2>0 DEF Events, Snapshot
  <2>3. JobsAfter(a.snap.jobs, e) \in Seq(Job)
    <3>1. CASE e.kind = "job.accepted"
      BY <2>0, <3>1 DEF JobsAfter, Events, Snapshot
    <3>2. CASE e.kind \in {"job.state", "job.result"}
      <4>1. e.id \in DOMAIN a.snap.jobs BY <1>2, <3>2 DEF EventOK, ReplaceOK
      <4>2. e.job \in Job BY <3>2 DEF Events
      <4>3. a.snap.jobs \in Seq(Job) BY <2>0 DEF Snapshot
      <4>4. JobsAfter(a.snap.jobs, e) = [a.snap.jobs EXCEPT ![e.id] = e.job]
        BY <3>2 DEF JobsAfter
      <4> QED BY <4>1, <4>2, <4>3, <4>4, ExceptSeq
    <3>3. CASE e.kind = "job.output"
      <4>1. e.id \in DOMAIN a.snap.jobs BY <1>2, <3>3 DEF EventOK, OutputOK
      <4>2. a.snap.jobs \in Seq(Job) BY <2>0 DEF Snapshot
      <4>3. JobsAfter(a.snap.jobs, e)
              = [a.snap.jobs EXCEPT ![e.id] = AddChunk(a.snap.jobs[e.id])]
        BY <3>3 DEF JobsAfter
      <4>4. a.snap.jobs[e.id] \in Job BY <4>1, <4>2
      <4>5. AddChunk(a.snap.jobs[e.id]) \in Job BY <4>4, AddChunkTyped
      <4> QED BY <4>1, <4>2, <4>3, <4>5, ExceptSeq
    <3>4. CASE e.kind = "queue.state"
      BY <2>0, <3>4 DEF JobsAfter, Snapshot
    <3> QED BY <3>1, <3>2, <3>3, <3>4 DEF Events
  <2>4. (IF e.kind = "job.accepted" THEN e.id ELSE a.accepted) \in Nat
    BY <2>0 DEF Events
  <2> QED BY <1>2, <2>1, <2>2, <2>3, <2>4 DEF ApplyEvent, Acc, Snapshot
<1> QED BY <1>1, <1>2

(* So does ApplyCommit for a transaction of one or two events. *)
LEMMA CommitTyped ==
    ASSUME NEW s \in Snapshot, NEW es \in Seq(Events), Len(es) \in {1, 2}, NEW r
    PROVE  ApplyCommit(s, es, r) \in Acc
<1> DEFINE a0 == [ok |-> TRUE, snap |-> s, accepted |-> NoJob]
<1>1. a0 \in Acc BY DEF Acc
<1>2. ApplyEvent(a0, es[1]) \in Acc 
  <2>1. es[1] \in Events BY SeqElement
  <2> QED BY <1>1, <2>1, EventTyped
<1>3. Rejected \in Acc BY EmptyTyped DEF Rejected, Acc
<1>4. CASE Len(es) = 1
  BY <1>2, <1>3, <1>4 DEF ApplyCommit
<1>5. CASE Len(es) = 2
  <2>1. 2 \in 1..Len(es) BY <1>5
  <2>2. es[2] \in Events BY <2>1, SeqElement
  <2>3. ApplyEvent(ApplyEvent(a0, es[1]), es[2]) \in Acc BY <1>2, <2>2, EventTyped
  <2> QED BY <1>3, <1>5, <2>3 DEF ApplyCommit
<1> QED BY <1>4, <1>5

JobsSound(jobs) == \A j \in DOMAIN jobs : JobSound(jobs[j])

(* An accepted event leaves no job record the lifecycle can get stuck on. *)
LEMMA EventSound ==
    ASSUME NEW a \in Acc, NEW e \in Events, JobsSound(a.snap.jobs), ApplyEvent(a, e).ok
    PROVE  JobsSound(ApplyEvent(a, e).snap.jobs)
<1>0. a.ok /\ EventOK(a.snap, a.accepted, e)
  BY DEF ApplyEvent, Rejected
<1>1. ApplyEvent(a, e).snap.jobs = JobsAfter(a.snap.jobs, e)
  BY <1>0 DEF ApplyEvent
<1>2. a.snap.jobs \in Seq(Job)
  BY DEF Acc, Snapshot
<1>3. CASE e.kind = "job.accepted"
  <2>1. JobsAfter(a.snap.jobs, e) = Append(a.snap.jobs, e.job) BY <1>3 DEF JobsAfter
  <2>2. e.job \in Job BY <1>3 DEF Events
  <2>3. JobSound(e.job)
    BY <1>0, <1>3 DEF EventOK, AcceptOK, JobSound, LiveStates, TerminalStates
  <2> QED BY <1>1, <1>2, <2>1, <2>2, <2>3 DEF JobsSound
<1>4. CASE e.kind \in {"job.state", "job.result"}
  <2>1. JobsAfter(a.snap.jobs, e) = [a.snap.jobs EXCEPT ![e.id] = e.job]
    BY <1>4 DEF JobsAfter
  <2>2. ReplaceOK(a.snap, e.kind, e.id, e.job) BY <1>0, <1>4 DEF EventOK
  <2>3. JobSound(e.job) BY <2>2 DEF ReplaceOK, JobSound, Terminal
  <2> QED BY <1>1, <1>2, <2>1, <2>3 DEF JobsSound
<1>5. CASE e.kind = "job.output"
  <2>1. JobsAfter(a.snap.jobs, e) = [a.snap.jobs EXCEPT ![e.id] = AddChunk(a.snap.jobs[e.id])]
    BY <1>5 DEF JobsAfter
  <2>2. e.id \in DOMAIN a.snap.jobs BY <1>0, <1>5 DEF EventOK, OutputOK
  <2>3. a.snap.jobs[e.id] \in Job BY <1>2, <2>2
  <2>4. JobSound(AddChunk(a.snap.jobs[e.id]))
    BY <2>2, <2>3 DEF JobsSound, JobSound, AddChunk, Job
  <2> QED BY <1>1, <1>2, <2>1, <2>4 DEF JobsSound
<1>6. CASE e.kind = "queue.state"
  BY <1>1, <1>6 DEF JobsAfter
<1> QED BY <1>3, <1>4, <1>5, <1>6 DEF Events

(* ApplyCommit turns a sound snapshot into a sound one, whatever the transaction. *)
LEMMA CommitSound ==
    ASSUME NEW s, Sound(s), NEW es \in Seq(Events), Len(es) \in {1, 2}, NEW r
    PROVE  Sound(ApplyCommit(s, es, r).snap)
<1> DEFINE a0 == [ok |-> TRUE, snap |-> s, accepted |-> NoJob]
           a1 == ApplyEvent(a0, es[1])
           c == ApplyCommit(s, es, r)
<1> SUFFICES Sound(c.snap) OBVIOUS
<1>0. s \in Snapshot /\ JobsSound(s.jobs) BY DEF Sound, JobsSound
<1>1. c \in Acc BY <1>0, CommitTyped
<1>2. CASE ~c.ok
  <2>1. c = Rejected BY <1>2 DEF ApplyCommit
  <2> QED BY <2>1, EmptyTyped DEF Rejected, Sound, EmptySnapshot, QueueMatches,
                              PendingMatches, ActiveMatches
<1>3. CASE c.ok
  <2>1. QueueMatches(c.snap) BY <1>3 DEF ApplyCommit, Rejected
  <2>2. a0 \in Acc /\ a0.snap = s BY <1>0 DEF Acc
  <2>3. es[1] \in Events BY SeqElement
  <2>4. a1 \in Acc BY <2>2, <2>3, EventTyped
  <2>5. CASE Len(es) = 1
    <3>1. c = a1 BY <1>3, <2>5 DEF ApplyCommit, Rejected
    <3> HIDE DEF c, a1
    <3>2. JobsSound(a1.snap.jobs) BY <3>1, <1>3, <1>0, <2>2, <2>3, EventSound DEF a1
    <3> QED BY <1>1, <2>1, <3>1, <3>2 DEF Sound, JobsSound, Acc
  <2>6. CASE Len(es) = 2
    <3>0. 2 \in 1..Len(es) BY <2>6
    <3>1. es[2] \in Events BY <3>0, SeqElement
    <3>2. c = ApplyEvent(a1, es[2]) BY <1>3, <2>6 DEF ApplyCommit, Rejected
    <3>3. a1.ok
      <4> HIDE DEF c, a1
      <4> QED BY <3>2, <1>3 DEF ApplyEvent, Rejected
    <3> HIDE DEF c, a1
    <3>4. JobsSound(a1.snap.jobs) BY <3>3, <1>0, <2>2, <2>3, EventSound DEF a1
    <3>5. JobsSound(c.snap.jobs) BY <3>4, <3>1, <3>2, <1>3, <2>4, EventSound
    <3> QED BY <1>1, <2>1, <3>5 DEF Sound, JobsSound, Acc
  <2> QED BY <2>5, <2>6
<1> QED BY <1>1, <1>2, <1>3 DEF Acc

-----------------------------------------------------------------------------
(* What ApplyCommit computes, and when it accepts, for a job event followed by a queue event. *)
LEMMA PairCommit ==
    ASSUME NEW s \in Snapshot, NEW e1 \in Events, NEW e2 \in Events, NEW r,
           e2.kind = "queue.state"
    PROVE  LET c == ApplyCommit(s, <<e1, e2>>, r)
               next == [seq |-> e2.seq,
                        queue |-> e2.queue,
                        jobs |-> JobsAfter(s.jobs, e1)]
           IN  /\ c.ok <=> /\ EventOK(s, NoJob, e1)
                           /\ e2.seq = e1.seq + 1
                           /\ e2.seq <= MaxSeq
                           /\ ReceiptOK(IF e1.kind = "job.accepted" THEN e1.id ELSE NoJob, r)
                           /\ QueueMatches(next)
               /\ c.ok => c.snap = next
<1> DEFINE a0 == [ok |-> TRUE, snap |-> s, accepted |-> NoJob]
           a1 == ApplyEvent(a0, e1)
           a2 == ApplyEvent(a1, e2)
           c == ApplyCommit(s, <<e1, e2>>, r)
           acc == IF e1.kind = "job.accepted" THEN e1.id ELSE NoJob
           next == [seq |-> e2.seq, queue |-> e2.queue, jobs |-> JobsAfter(s.jobs, e1)]
<1>1. c = IF a2.ok /\ ReceiptOK(a2.accepted, r) /\ QueueMatches(a2.snap) THEN a2 ELSE Rejected
  BY DEF ApplyCommit
<1>2. a1.ok <=> EventOK(s, NoJob, e1)
  BY DEF ApplyEvent, Rejected
<1>3. ASSUME a1.ok
      PROVE  a1.snap.seq = e1.seq /\ a1.snap.jobs = JobsAfter(s.jobs, e1) /\ a1.accepted = acc
  BY <1>3, <1>2 DEF ApplyEvent, Rejected
<1> HIDE DEF a1
<1>4. a2.ok <=> a1.ok /\ e2.seq = e1.seq + 1 /\ e2.seq <= MaxSeq
  BY <1>3 DEF ApplyEvent, Rejected, EventOK
<1>5. ASSUME a2.ok PROVE a2.snap = next /\ a2.accepted = acc
  BY <1>5, <1>4, <1>3 DEF ApplyEvent, Rejected, JobsAfter
<1> HIDE DEF a2, c, next, acc
<1>6. c.ok <=> a2.ok /\ ReceiptOK(a2.accepted, r) /\ QueueMatches(a2.snap)
  BY <1>1 DEF Rejected
<1>7. c.ok => c = a2
  BY <1>1 DEF Rejected
<1> QED BY <1>2, <1>4, <1>5, <1>6, <1>7 DEF c, next, acc

(* What ApplyCommit computes, and when it accepts, for one event that accepts no job. *)
LEMMA SingleCommit ==
    ASSUME NEW s \in Snapshot, NEW e \in Events, e.kind # "job.accepted"
    PROVE  LET c == ApplyCommit(s, <<e>>, {})
               next == [seq |-> e.seq,
                        queue |-> IF e.kind = "queue.state" THEN e.queue ELSE s.queue,
                        jobs |-> JobsAfter(s.jobs, e)]
           IN  /\ c.ok <=> EventOK(s, NoJob, e) /\ QueueMatches(next)
               /\ c.ok => c.snap = next
<1> DEFINE a0 == [ok |-> TRUE, snap |-> s, accepted |-> NoJob]
           a1 == ApplyEvent(a0, e)
           c == ApplyCommit(s, <<e>>, {})
           next == [seq |-> e.seq,
                    queue |-> IF e.kind = "queue.state" THEN e.queue ELSE s.queue,
                    jobs |-> JobsAfter(s.jobs, e)]
<1>1. c = IF a1.ok /\ ReceiptOK(a1.accepted, {}) /\ QueueMatches(a1.snap) THEN a1 ELSE Rejected
  BY DEF ApplyCommit
<1>2. a1.ok <=> EventOK(s, NoJob, e)
  BY DEF ApplyEvent, Rejected
<1>3. ASSUME a1.ok PROVE a1.snap = next /\ a1.accepted = NoJob
  BY <1>3, <1>2 DEF ApplyEvent, Rejected
<1>4. ReceiptOK(NoJob, {}) BY DEF ReceiptOK
<1> HIDE DEF a1, c, next
<1>5. c.ok <=> a1.ok /\ ReceiptOK(a1.accepted, {}) /\ QueueMatches(a1.snap)
  BY <1>1 DEF Rejected
<1>6. c.ok => c = a1
  BY <1>1 DEF Rejected
<1> QED BY <1>2, <1>3, <1>4, <1>5, <1>6 DEF c, next

-----------------------------------------------------------------------------
(* The queue agrees with the jobs after each kind of transaction. *)

(* The facts about a sound snapshot that the lemmas below cite. *)
LEMMA SoundParts ==
    ASSUME NEW s, Sound(s)
    PROVE  /\ s \in Snapshot /\ s.seq \in 0..MaxSeq /\ s.queue \in QueueState
           /\ s.jobs \in Seq(Job)
           /\ s.queue.pending \in Seq(JobIDs) /\ s.queue.active \in Nat
           /\ PendingMatches(s.queue.pending, s.jobs)
           /\ ActiveMatches(s.queue.active, s.jobs)
           /\ \A j \in DOMAIN s.jobs : JobSound(s.jobs[j])
BY DEF Sound, Snapshot, QueueState, QueueMatches

(* The jobs after one of them was replaced. *)
LEMMA Replaced ==
    ASSUME NEW S, NEW q \in Seq(S), NEW id \in DOMAIN q, NEW x
    PROVE  /\ DOMAIN [q EXCEPT ![id] = x] = DOMAIN q
           /\ \A j \in DOMAIN q : [q EXCEPT ![id] = x][j] = IF j = id THEN x ELSE q[j]
OBVIOUS

(* With no active job, no job is running or cancelling. *)
LEMMA NoneLive ==
    ASSUME NEW jobs \in Seq(Job), ActiveMatches(NoJob, jobs)
    PROVE  \A j \in DOMAIN jobs : jobs[j].state \notin LiveStates
BY DEF ActiveMatches

(* The head of the pending queue is a queued job. *)
LEMMA PendingHead ==
    ASSUME NEW p \in Seq(JobIDs), NEW jobs \in Seq(Job), PendingMatches(p, jobs), p # <<>>
    PROVE  /\ Head(p) \in DOMAIN jobs /\ Head(p) \in JobIDs
           /\ jobs[Head(p)].state = "queued"
           /\ Tail(p) \in Seq(JobIDs)
           /\ Head(p) = p[1]
<1>1. 1 \in DOMAIN p /\ Head(p) = p[1] /\ p[1] \in JobIDs /\ Tail(p) \in Seq(JobIDs)
  OBVIOUS
<1> QED BY <1>1 DEF PendingMatches

(* dispatch: the first pending job leaves the queue as it leaves the state queued. *)
LEMMA PendingStart ==
    ASSUME NEW p \in Seq(JobIDs), NEW jobs \in Seq(Job), PendingMatches(p, jobs), p # <<>>,
           NEW job, job.state # "queued"
    PROVE  PendingMatches(Tail(p), [jobs EXCEPT ![Head(p)] = job])
<1> DEFINE id == Head(p)
           t == Tail(p)
           new == [jobs EXCEPT ![id] = job]
<1>1. Len(p) \in Nat \ {0} /\ id = p[1] /\ DOMAIN p = 1..Len(p) /\ \A i \in DOMAIN p : p[i] \in JobIDs
  OBVIOUS
<1>2. id \in DOMAIN jobs /\ id \in JobIDs /\ jobs[id].state = "queued"
  BY PendingHead
<1>3. /\ t \in Seq(JobIDs) /\ Len(t) = Len(p) - 1 /\ DOMAIN t = 1..(Len(p) - 1)
      /\ \A i \in DOMAIN t : t[i] = p[i + 1] /\ i + 1 \in DOMAIN p
  BY <1>1
<1>4. DOMAIN new = DOMAIN jobs /\ \A j \in DOMAIN jobs : new[j] = IF j = id THEN job ELSE jobs[j]
  BY <1>2, Replaced
<1> HIDE DEF t, new, id
<1>5. Len(t) <= MaxPending
  BY <1>1, <1>3 DEF PendingMatches
<1>6. ASSUME NEW i \in DOMAIN t
      PROVE  t[i] \in DOMAIN new /\ new[t[i]].state = "queued"
  <2>0. i \in 1..(Len(p) - 1) BY <1>3
  <2>1. t[i] = p[i + 1] /\ i + 1 \in DOMAIN p /\ 1 \in DOMAIN p /\ 1 < i + 1
    <3>1. t[i] = p[i + 1] /\ i + 1 \in DOMAIN p BY <1>3
    <3>2. 1 < i + 1 BY <2>0
    <3> QED BY <1>1, <3>1, <3>2
  <2>2. p[1] < p[i + 1] /\ p[i + 1] \in DOMAIN jobs /\ jobs[p[i + 1]].state = "queued"
    BY <2>1 DEF PendingMatches
  <2>3. t[i] # id BY <1>1, <2>1, <2>2
  <2> QED BY <1>4, <2>1, <2>2, <2>3
<1>7. ASSUME NEW i \in DOMAIN t, NEW k \in DOMAIN t, i < k PROVE t[i] < t[k]
  <2>1. t[i] = p[i + 1] /\ i + 1 \in DOMAIN p /\ t[k] = p[k + 1] /\ k + 1 \in DOMAIN p
    BY <1>3
  <2>2. i \in 1..(Len(p) - 1) /\ k \in 1..(Len(p) - 1) BY <1>3
  <2>3. i + 1 < k + 1 BY <1>7, <2>2
  <2>4. p[i + 1] < p[k + 1] BY <2>1, <2>3 DEF PendingMatches
  <2> QED BY <2>1, <2>4
<1>8. ASSUME NEW j \in DOMAIN new, new[j].state = "queued"
      PROVE  \E i \in DOMAIN t : t[i] = j
  <2>1. j # id /\ jobs[j].state = "queued" BY <1>8, <1>4
  <2>2. PICK i \in DOMAIN p : p[i] = j BY <1>4, <2>1 DEF PendingMatches
  <2>3. i # 1 BY <2>1, <2>2, <1>1
  <2>4. i - 1 \in DOMAIN t /\ i - 1 + 1 = i
    <3>1. i \in 1..Len(p) /\ Len(p) \in Nat BY <2>2
    <3>2. i - 1 \in 1..(Len(p) - 1) /\ i - 1 + 1 = i BY <2>3, <3>1
    <3> QED BY <1>3, <3>2
  <2>5. t[i - 1] = j BY <1>3, <2>2, <2>4
  <2> QED BY <2>4, <2>5
<1>9. PendingMatches(t, new)
  BY <1>5, <1>6, <1>7, <1>8 DEF PendingMatches
<1> QED BY <1>9 DEF t, new, id

(* dispatch: with nothing active, the job that starts is the active one. *)
LEMMA ActiveStart ==
    ASSUME NEW jobs \in Seq(Job), ActiveMatches(NoJob, jobs), NEW id \in DOMAIN jobs,
           NEW job, job.state = "running"
    PROVE  ActiveMatches(id, [jobs EXCEPT ![id] = job])
BY NoneLive, Replaced DEF ActiveMatches, LiveStates

(* A job that was not queued is replaced by one that is not queued: pending stays right. *)
LEMMA PendingKeep ==
    ASSUME NEW p \in Seq(JobIDs), NEW jobs \in Seq(Job), PendingMatches(p, jobs),
           NEW id \in DOMAIN jobs, jobs[id].state # "queued", NEW job, job.state # "queued"
    PROVE  PendingMatches(p, [jobs EXCEPT ![id] = job])
<1> DEFINE new == [jobs EXCEPT ![id] = job]
<1>1. DOMAIN new = DOMAIN jobs /\ \A j \in DOMAIN jobs : new[j] = IF j = id THEN job ELSE jobs[j]
  BY Replaced
<1> HIDE DEF new
<1>2. PendingMatches(p, new)
  BY <1>1 DEF PendingMatches
<1> QED BY <1>2 DEF new

(* complete and recovery: when the active job ends, nothing is active. *)
LEMMA ActiveEnd ==
    ASSUME NEW jobs \in Seq(Job), NEW id \in DOMAIN jobs, ActiveMatches(id, jobs),
           NEW job, job.state \in TerminalStates
    PROVE  ActiveMatches(NoJob, [jobs EXCEPT ![id] = job])
BY Replaced DEF ActiveMatches, LiveStates, TerminalStates

(* A replacement that keeps a job live, or keeps it off the backend, leaves active right. *)
LEMMA ActiveKeep ==
    ASSUME NEW jobs \in Seq(Job), NEW id \in DOMAIN jobs, NEW active \in Nat,
           ActiveMatches(active, jobs),
           NEW job, job.state \in LiveStates <=> jobs[id].state \in LiveStates
    PROVE  ActiveMatches(active, [jobs EXCEPT ![id] = job])
BY Replaced DEF ActiveMatches

(* cancelJob of a queued job: without it, pending is again exactly the queued jobs in order. *)
LEMMA PendingDrop ==
    ASSUME NEW p \in Seq(JobIDs), NEW jobs \in Seq(Job), PendingMatches(p, jobs),
           NEW id \in DOMAIN jobs, jobs[id].state = "queued", NEW job, job.state # "queued"
    PROVE  /\ Without(p, id) \in Seq(JobIDs)
           /\ p # <<>>
           /\ PendingMatches(Without(p, id), [jobs EXCEPT ![id] = job])
<1> DEFINE at == CHOOSE i \in DOMAIN p : p[i] = id
           t == Without(p, id)
           new == [jobs EXCEPT ![id] = job]
<1>0. \E i \in DOMAIN p : p[i] = id BY DEF PendingMatches
<1>1. at \in DOMAIN p /\ p[at] = id BY <1>0
<1>2. t = [k \in 1..(Len(p) - 1) |-> p[IF k < at THEN k ELSE k + 1]] BY DEF Without
<1> HIDE DEF at, t
<1>3. DOMAIN p = 1..Len(p) /\ Len(p) \in Nat \ {0} /\ \A i \in DOMAIN p : p[i] \in JobIDs
  BY <1>1
<1>4. /\ DOMAIN t = 1..(Len(p) - 1)
      /\ \A k \in DOMAIN t : t[k] = p[IF k < at THEN k ELSE k + 1]
                             /\ (IF k < at THEN k ELSE k + 1) \in DOMAIN p
  BY <1>1, <1>2, <1>3
<1>5. t \in Seq(JobIDs) /\ Len(t) = Len(p) - 1
  <2>1. \A k \in 1..(Len(p) - 1) : p[IF k < at THEN k ELSE k + 1] \in JobIDs
    BY <1>1, <1>3
  <2> QED BY <1>2, <1>3, <2>1
<1>6. DOMAIN new = DOMAIN jobs /\ \A j \in DOMAIN jobs : new[j] = IF j = id THEN job ELSE jobs[j]
  BY Replaced
<1> HIDE DEF new
<1>7. Len(t) <= MaxPending
  BY <1>3, <1>5 DEF PendingMatches
<1>8. ASSUME NEW i \in DOMAIN t
      PROVE  t[i] \in DOMAIN new /\ new[t[i]].state = "queued"
  <2> DEFINE k == IF i < at THEN i ELSE i + 1
  <2>1. k \in DOMAIN p /\ t[i] = p[k] /\ k # at BY <1>1, <1>3, <1>4
  <2> HIDE DEF k
  <2>2. p[k] \in DOMAIN jobs /\ jobs[p[k]].state = "queued" BY <2>1 DEF PendingMatches
  <2>3. k < at \/ at < k BY <1>1, <1>3, <2>1
  <2>4. p[k] # id
    <3>1. k < at => p[k] < p[at] BY <1>1, <2>1 DEF PendingMatches
    <3>2. at < k => p[at] < p[k] BY <1>1, <2>1 DEF PendingMatches
    <3>3. p[k] \in Nat /\ p[at] \in Nat BY <1>1, <1>3, <2>1
    <3> QED BY <1>1, <2>3, <3>1, <3>2, <3>3
  <2> QED BY <1>6, <2>1, <2>2, <2>4
<1>9. ASSUME NEW i \in DOMAIN t, NEW k \in DOMAIN t, i < k PROVE t[i] < t[k]
  <2> DEFINE from(n) == IF n < at THEN n ELSE n + 1
  <2>1. i \in Nat /\ k \in Nat /\ at \in Nat BY <1>1, <1>3, <1>4
  <2>2. from(i) < from(k) BY <1>9, <2>1
  <2>3. /\ from(i) \in DOMAIN p /\ from(k) \in DOMAIN p
        /\ t[i] = p[from(i)] /\ t[k] = p[from(k)]
    BY <1>4
  <2> HIDE DEF from
  <2> QED BY <2>2, <2>3 DEF PendingMatches
<1>10. ASSUME NEW j \in DOMAIN new, new[j].state = "queued"
       PROVE  \E i \in DOMAIN t : t[i] = j
  <2>1. j # id /\ jobs[j].state = "queued" BY <1>10, <1>6
  <2>2. PICK i \in DOMAIN p : p[i] = j BY <1>6, <2>1 DEF PendingMatches
  <2>3. i # at BY <1>1, <2>1, <2>2
  <2>4. CASE i < at
    <3>1. i \in DOMAIN t /\ t[i] = j BY <1>1, <1>3, <1>4, <2>2, <2>4
    <3> QED BY <3>1
  <2>5. CASE i > at
    <3>1. i - 1 \in DOMAIN t /\ ~(i - 1 < at) /\ i - 1 + 1 = i BY <1>1, <1>3, <1>4, <2>2, <2>5
    <3>2. t[i - 1] = j BY <1>4, <2>2, <3>1
    <3> QED BY <3>1, <3>2
  <2> QED BY <1>1, <1>3, <2>2, <2>3, <2>4, <2>5
<1>11. PendingMatches(t, new)
  BY <1>7, <1>8, <1>9, <1>10 DEF PendingMatches
<1> QED BY <1>3, <1>5, <1>11 DEF t, new

(* create: the new job goes last in acceptance order. *)
LEMMA PendingAdd ==
    ASSUME NEW p \in Seq(JobIDs), NEW jobs \in Seq(Job), PendingMatches(p, jobs),
           Len(p) < MaxPending, NEW job \in Job, job.state = "queued"
    PROVE  /\ Append(p, Len(jobs) + 1) \in Seq(JobIDs)
           /\ PendingMatches(Append(p, Len(jobs) + 1), Append(jobs, job))
<1> DEFINE id == Len(jobs) + 1
           t == Append(p, id)
           new == Append(jobs, job)
<1>1. id \in JobIDs /\ Len(p) \in Nat /\ DOMAIN p = 1..Len(p) /\ DOMAIN jobs = 1..Len(jobs)
  OBVIOUS
<1>2. /\ t \in Seq(JobIDs) /\ Len(t) = Len(p) + 1 /\ DOMAIN t = 1..(Len(p) + 1)
      /\ t[Len(p) + 1] = id
      /\ \A i \in 1..Len(p) : t[i] = p[i]
  BY <1>1
<1>3. /\ DOMAIN new = 1..id
      /\ new[id] = job
      /\ \A j \in DOMAIN jobs : new[j] = jobs[j] /\ j < id
  BY <1>1
<1> HIDE DEF t, new
<1>4. ASSUME NEW i \in DOMAIN t
      PROVE  t[i] \in DOMAIN new /\ new[t[i]].state = "queued"
  <2>1. CASE i = Len(p) + 1 BY <1>1, <1>2, <1>3, <2>1
  <2>2. CASE i \in 1..Len(p)
    <3>1. t[i] = p[i] /\ p[i] \in DOMAIN jobs /\ jobs[p[i]].state = "queued"
      BY <1>1, <1>2, <2>2 DEF PendingMatches
    <3> QED BY <1>1, <1>3, <3>1
  <2> QED BY <1>1, <1>2, <2>1, <2>2
<1>5. ASSUME NEW i \in DOMAIN t, NEW k \in DOMAIN t, i < k PROVE t[i] < t[k]
  <2>1. i \in 1..Len(p) /\ t[i] = p[i] /\ p[i] \in DOMAIN jobs
    <3>1. i \in 1..(Len(p) + 1) /\ k \in 1..(Len(p) + 1) BY <1>2
    <3>2. i \in 1..Len(p) BY <1>1, <1>5, <3>1
    <3>3. i \in DOMAIN p /\ t[i] = p[i] BY <1>1, <1>2, <3>2
    <3> QED BY <3>2, <3>3 DEF PendingMatches
  <2>2. CASE k = Len(p) + 1 BY <1>1, <1>2, <2>1, <2>2
  <2>3. CASE k \in 1..Len(p) BY <1>1, <1>2, <1>5, <2>1, <2>3 DEF PendingMatches
  <2> QED BY <1>1, <1>2, <2>2, <2>3
<1>6. ASSUME NEW j \in DOMAIN new, new[j].state = "queued" PROVE \E i \in DOMAIN t : t[i] = j
  <2>1. CASE j = id
    <3>1. Len(p) + 1 \in DOMAIN t /\ t[Len(p) + 1] = j BY <1>1, <1>2, <2>1
    <3> QED BY <3>1
  <2>2. CASE j # id
    <3>1. j \in DOMAIN jobs /\ jobs[j].state = "queued" BY <1>1, <1>3, <1>6, <2>2
    <3>2. PICK i \in DOMAIN p : p[i] = j BY <3>1 DEF PendingMatches
    <3>3. i \in DOMAIN t /\ t[i] = j BY <1>1, <1>2, <3>2
    <3> QED BY <3>3
  <2> QED BY <2>1, <2>2
<1>7. PendingMatches(t, new) BY <1>1, <1>2, <1>4, <1>5, <1>6 DEF PendingMatches
<1> QED BY <1>2, <1>7 DEF t, new

(* create: a queued job more does not change which job is active. *)
LEMMA ActiveAdd ==
    ASSUME NEW jobs \in Seq(Job), NEW active \in Nat, ActiveMatches(active, jobs),
           NEW job \in Job, job.state = "queued"
    PROVE  ActiveMatches(active, Append(jobs, job))
<1>1. /\ DOMAIN Append(jobs, job) = 1..(Len(jobs) + 1) /\ DOMAIN jobs = 1..Len(jobs)
      /\ Append(jobs, job)[Len(jobs) + 1] = job
      /\ \A j \in DOMAIN jobs : Append(jobs, job)[j] = jobs[j]
  OBVIOUS
<1> QED BY <1>1 DEF ActiveMatches, LiveStates

-----------------------------------------------------------------------------
(* The transactions the handlers build.  es, applied to snap, is accepted unless the sequence is
   exhausted, and leaves this queue and these jobs. *)
Lands(es, receipt, queue, jobs) ==
    /\ es \in Seq(Events)
    /\ Len(es) \in {1, 2}
    /\ Len(es) = 2 => es[2].kind = "queue.state"
    /\ snap.seq + Len(es) <= MaxSeq => ApplyCommit(snap, es, receipt).ok
    /\ ApplyCommit(snap, es, receipt).ok =>
          /\ ApplyCommit(snap, es, receipt).snap.queue = queue
          /\ ApplyCommit(snap, es, receipt).snap.jobs = jobs

(* A pair is a sequence of length two. *)
LEMMA PairSeq ==
    ASSUME NEW S, NEW x \in S, NEW y \in S
    PROVE  <<x, y>> \in Seq(S) /\ Len(<<x, y>>) = 2 /\ <<x, y>>[2] = y
OBVIOUS

(* A one-element tuple is a sequence of length one. *)
LEMMA SingleSeq ==
    ASSUME NEW S, NEW x \in S
    PROVE  <<x>> \in Seq(S) /\ Len(<<x>>) = 1
OBVIOUS

(* Stamp numbers the two events of a transaction consecutively. *)
LEMMA StampPair ==
    ASSUME NEW kind, NEW id, NEW job, NEW queue
    PROVE  Stamp(<<jobEvent(kind, id, job), queueEvent(queue)>>)
             = << [kind |-> kind, seq |-> snap.seq + 1, id |-> id, job |-> job],
                  [kind |-> "queue.state", seq |-> snap.seq + 2, queue |-> queue] >>
BY DEF Stamp, jobEvent, queueEvent

(* A legal job replacement with a matching queue is a transaction ApplyCommit accepts. *)
LEMMA ReplaceLands ==
    ASSUME Sound(snap), NEW kind \in {"job.state", "job.result"}, NEW id \in JobIDs,
           NEW job \in Job, ReplaceOK(snap, kind, id, job), NEW queue \in QueueState,
           PendingMatches(queue.pending, [snap.jobs EXCEPT ![id] = job]),
           ActiveMatches(queue.active, [snap.jobs EXCEPT ![id] = job])
    PROVE  Lands(Stamp(<<jobEvent(kind, id, job), queueEvent(queue)>>), {},
                 queue, [snap.jobs EXCEPT ![id] = job])
<1> DEFINE e1 == [kind |-> kind, seq |-> snap.seq + 1, id |-> id, job |-> job]
           e2 == [kind |-> "queue.state", seq |-> snap.seq + 2, queue |-> queue]
           es == Stamp(<<jobEvent(kind, id, job), queueEvent(queue)>>)
           jobs == [snap.jobs EXCEPT ![id] = job]
           next == [seq |-> e2.seq, queue |-> e2.queue, jobs |-> JobsAfter(snap.jobs, e1)]
<1>1. snap \in Snapshot /\ snap.seq \in Nat BY SoundParts
<1>2. es = <<e1, e2>> BY StampPair
<1>3. e1 \in Events /\ e2 \in Events BY <1>1 DEF Events
<1>4. es \in Seq(Events) /\ Len(es) = 2 /\ es[2].kind = "queue.state"
  <2>1. e2.kind = "queue.state" OBVIOUS
  <2> HIDE DEF e1, e2, es
  <2> QED BY <1>2, <1>3, <2>1, PairSeq
<1>5. JobsAfter(snap.jobs, e1) = jobs BY DEF JobsAfter
<1>6. QueueMatches(next) BY <1>5 DEF QueueMatches
<1>7. snap.seq + 2 <= MaxSeq => EventOK(snap, NoJob, e1)
  <2>1. /\ e1.kind = kind /\ e1.id = id /\ e1.job = job /\ e1.seq = snap.seq + 1
    OBVIOUS
  <2> HIDE DEF e1
  <2>2. ReplaceOK(snap, e1.kind, e1.id, e1.job) BY <2>1
  <2>3. CASE kind = "job.state" BY <1>1, <2>1, <2>2, <2>3 DEF EventOK
  <2>4. CASE kind = "job.result" BY <1>1, <2>1, <2>2, <2>4 DEF EventOK
  <2> QED BY <2>3, <2>4
<1>8. ReceiptOK(IF e1.kind = "job.accepted" THEN e1.id ELSE NoJob, {}) BY DEF ReceiptOK
<1> HIDE DEF es
<1>9. /\ snap.seq + 2 <= MaxSeq => ApplyCommit(snap, es, {}).ok
      /\ ApplyCommit(snap, es, {}).ok => ApplyCommit(snap, es, {}).snap = next
  BY <1>1, <1>2, <1>3, <1>6, <1>7, <1>8, PairCommit
<1>10. next.queue = queue /\ next.jobs = jobs BY <1>5
<1> HIDE DEF next, jobs
<1>11. Lands(es, {}, queue, jobs)
  BY <1>4, <1>9, <1>10 DEF Lands
<1> QED BY <1>11 DEF es, jobs

(* An acceptable new job with its receipt and a matching queue is a transaction ApplyCommit accepts. *)
LEMMA AcceptLands ==
    ASSUME Sound(snap), NEW job \in Job, NEW queue \in QueueState, NEW r,
           AcceptOK(snap, NoJob, Len(snap.jobs) + 1, job),
           r.job = Len(snap.jobs) + 1,
           PendingMatches(queue.pending, Append(snap.jobs, job)),
           ActiveMatches(queue.active, Append(snap.jobs, job))
    PROVE  Lands(Stamp(<<jobEvent("job.accepted", Len(snap.jobs) + 1, job), queueEvent(queue)>>),
                 {r}, queue, Append(snap.jobs, job))
<1> DEFINE id == Len(snap.jobs) + 1
           e1 == [kind |-> "job.accepted", seq |-> snap.seq + 1, id |-> id, job |-> job]
           e2 == [kind |-> "queue.state", seq |-> snap.seq + 2, queue |-> queue]
           es == Stamp(<<jobEvent("job.accepted", id, job), queueEvent(queue)>>)
           jobs == Append(snap.jobs, job)
           next == [seq |-> e2.seq, queue |-> e2.queue, jobs |-> JobsAfter(snap.jobs, e1)]
<1>1. snap \in Snapshot /\ snap.seq \in Nat /\ id \in JobIDs BY SoundParts
<1>2. es = <<e1, e2>> BY StampPair
<1>3. e1 \in Events /\ e2 \in Events BY <1>1 DEF Events
<1>4. es \in Seq(Events) /\ Len(es) = 2 /\ es[2].kind = "queue.state"
  <2>1. e2.kind = "queue.state" OBVIOUS
  <2> HIDE DEF e1, e2, es
  <2> QED BY <1>2, <1>3, <2>1, PairSeq
<1>5. JobsAfter(snap.jobs, e1) = jobs BY DEF JobsAfter
<1>6. QueueMatches(next) BY <1>5 DEF QueueMatches
<1>7. snap.seq + 2 <= MaxSeq => EventOK(snap, NoJob, e1) BY <1>1 DEF EventOK
<1>8. ReceiptOK(IF e1.kind = "job.accepted" THEN e1.id ELSE NoJob, {r}) BY <1>1 DEF ReceiptOK
<1> HIDE DEF es
<1>9. /\ snap.seq + 2 <= MaxSeq => ApplyCommit(snap, es, {r}).ok
      /\ ApplyCommit(snap, es, {r}).ok => ApplyCommit(snap, es, {r}).snap = next
  BY <1>1, <1>2, <1>3, <1>6, <1>7, <1>8, PairCommit
<1>10. next.queue = queue /\ next.jobs = jobs BY <1>5
<1> HIDE DEF next, jobs
<1>11. Lands(es, {r}, queue, jobs)
  BY <1>4, <1>9, <1>10 DEF Lands
<1> QED BY <1>11 DEF es, jobs

(* A single acceptable event that keeps queue and jobs matched is accepted. *)
LEMMA SingleLands ==
    ASSUME Sound(snap), NEW e, NEW queue, NEW jobs,
           LET stamped == [e EXCEPT !.seq = snap.seq + 1]
           IN  /\ stamped \in Events
               /\ stamped.kind # "job.accepted"
               /\ snap.seq + 1 <= MaxSeq => EventOK(snap, NoJob, stamped)
               /\ queue = IF stamped.kind = "queue.state" THEN stamped.queue ELSE snap.queue
               /\ jobs = JobsAfter(snap.jobs, stamped),
           PendingMatches(queue.pending, jobs), ActiveMatches(queue.active, jobs)
    PROVE  Lands(Stamp(<<e>>), {}, queue, jobs)
<1> DEFINE e1 == [e EXCEPT !.seq = snap.seq + 1]
           es == Stamp(<<e>>)
           next == [seq |-> e1.seq,
                    queue |-> IF e1.kind = "queue.state" THEN e1.queue ELSE snap.queue,
                    jobs |-> JobsAfter(snap.jobs, e1)]
<1>1. snap \in Snapshot /\ snap.seq \in Nat BY SoundParts
<1>2. es = <<e1>> BY DEF Stamp
<1>3. e1 \in Events /\ e1.kind # "job.accepted" OBVIOUS
<1>4. es \in Seq(Events) /\ Len(es) = 1
  <2> HIDE DEF e1, es
  <2> QED BY <1>2, <1>3, SingleSeq
<1>5. next.queue = queue /\ next.jobs = jobs OBVIOUS
<1>6. snap.seq + 1 <= MaxSeq => EventOK(snap, NoJob, e1) OBVIOUS
<1> HIDE DEF es, e1
<1>7. QueueMatches(next) BY <1>5 DEF QueueMatches
<1>8. /\ snap.seq + 1 <= MaxSeq => ApplyCommit(snap, es, {}).ok
      /\ ApplyCommit(snap, es, {}).ok => ApplyCommit(snap, es, {}).snap = next
  BY <1>1, <1>2, <1>3, <1>6, <1>7, SingleCommit
<1> HIDE DEF next
<1>9. Lands(es, {}, queue, jobs)
  BY <1>4, <1>5, <1>8 DEF Lands
<1> QED BY <1>9 DEF es

(* dispatch builds an acceptable transaction that makes the head of the queue active. *)
LEMMA DispatchLands ==
    ASSUME Sound(snap), MayDispatch
    PROVE  LET id == Head(snap.queue.pending)
               job == [snap.jobs[id] EXCEPT !.state = "running", !.started = TRUE]
               queue == [snap.queue EXCEPT !.pending = Tail(@), !.active = id]
           IN  /\ id \in JobIDs /\ id \in DOMAIN snap.jobs
               /\ job.state = "running" /\ queue.active = id
               /\ Lands(Stamp(<<jobEvent("job.state", id, job), queueEvent(queue)>>), {},
                        queue, [snap.jobs EXCEPT ![id] = job])
<1> DEFINE p == snap.queue.pending
           id == Head(p)
           old == snap.jobs[id]
           job == [old EXCEPT !.state = "running", !.started = TRUE]
           queue == [snap.queue EXCEPT !.pending = Tail(@), !.active = id]
<1>1. /\ snap.queue \in QueueState /\ p \in Seq(JobIDs) /\ p # <<>>
      /\ snap.jobs \in Seq(Job)
      /\ PendingMatches(p, snap.jobs) /\ ActiveMatches(NoJob, snap.jobs)
  BY SoundParts DEF MayDispatch
<1>2. id \in DOMAIN snap.jobs /\ id \in JobIDs /\ old.state = "queued" /\ Tail(p) \in Seq(JobIDs)
  BY <1>1, PendingHead
<1>3. old \in Job /\ JobSound(old) BY <1>1, <1>2, SoundParts
<1>4. /\ job \in Job /\ job.state = "running" /\ job.started /\ job.finished = old.finished
      /\ job.err = old.err /\ job.req = old.req /\ job.hist = old.hist
      /\ \A f \in {"req", "hist", "parent", "rel", "origin", "text"} : old[f] = job[f]
  BY <1>3 DEF Job, JobStates, LiveStates
<1>5. queue \in QueueState /\ queue.pending = Tail(p) /\ queue.active = id
  BY <1>1, <1>2 DEF QueueState
<1> HIDE DEF job, queue
<1>6. PendingMatches(queue.pending, [snap.jobs EXCEPT ![id] = job])
  BY <1>1, <1>4, <1>5, PendingStart
<1>7. ActiveMatches(queue.active, [snap.jobs EXCEPT ![id] = job])
  BY <1>1, <1>2, <1>4, <1>5, ActiveStart
<1>8. p[1] = id /\ p # <<>> BY <1>1
<1> HIDE DEF id, p, old
<1>9. ReplaceOK(snap, "job.state", id, job)
  BY <1>2, <1>3, <1>4, <1>8
     DEF ReplaceOK, JobSound, transition, Successors, Terminal, TerminalStates, LiveStates,
         MayDispatch, old, p
<1>10. Lands(Stamp(<<jobEvent("job.state", id, job), queueEvent(queue)>>), {},
             queue, [snap.jobs EXCEPT ![id] = job])
  BY <1>2, <1>4, <1>5, <1>6, <1>7, <1>9, ReplaceLands
<1> QED BY <1>2, <1>4, <1>5, <1>10 DEF job, queue, id, p, old

(* A job ends: by complete, by Recover or, while it is queued, by cancelJob. *)
LEMMA EndReplaces ==
    ASSUME Sound(snap), NEW id \in DOMAIN snap.jobs, NEW state \in TerminalStates,
           NEW err \in JobErrors, transition(snap.jobs[id].state, state),
           state = "succeeded" <=> err = NoError
    PROVE  LET job == [snap.jobs[id] EXCEPT !.state = state, !.err = err, !.finished = TRUE]
           IN  /\ id \in JobIDs /\ job \in Job /\ job.state = state
               /\ ReplaceOK(snap, "job.result", id, job)
<1> DEFINE old == snap.jobs[id]
           job == [old EXCEPT !.state = state, !.err = err, !.finished = TRUE]
<1>1. snap.jobs \in Seq(Job) BY SoundParts
<1>2. id \in JobIDs /\ old \in Job /\ JobSound(old) BY <1>1, SoundParts
<1>3. /\ job \in Job /\ job.state = state /\ job.finished /\ job.started = old.started
      /\ job.err = err /\ job.req = old.req /\ job.hist = old.hist
      /\ \A f \in {"req", "hist", "parent", "rel", "origin", "text"} : old[f] = job[f]
  BY <1>2 DEF Job, JobStates
<1> HIDE DEF job
<1>4. state \notin LiveStates /\ state # "running" BY DEF TerminalStates, LiveStates
<1>5. ReplaceOK(snap, "job.result", id, job)
  BY <1>2, <1>3, <1>4 DEF ReplaceOK, JobSound, Terminal
<1> QED BY <1>2, <1>3, <1>5 DEF job

(* complete and Recover build an acceptable transaction that ends the active job. *)
LEMMA EndLands ==
    ASSUME Sound(snap), snap.queue.active # NoJob, NEW state \in TerminalStates,
           NEW err \in JobErrors, transition(snap.jobs[snap.queue.active].state, state),
           state = "succeeded" <=> err = NoError
    PROVE  LET id == snap.queue.active
               job == [snap.jobs[id] EXCEPT !.state = state, !.err = err, !.finished = TRUE]
               queue == [snap.queue EXCEPT !.active = NoJob]
           IN  Lands(Stamp(<<jobEvent("job.result", id, job), queueEvent(queue)>>), {},
                     queue, [snap.jobs EXCEPT ![id] = job])
<1> DEFINE id == snap.queue.active
           job == [snap.jobs[id] EXCEPT !.state = state, !.err = err, !.finished = TRUE]
           queue == [snap.queue EXCEPT !.active = NoJob]
<1>1. /\ snap.queue \in QueueState /\ snap.queue.pending \in Seq(JobIDs)
      /\ snap.jobs \in Seq(Job)
      /\ PendingMatches(snap.queue.pending, snap.jobs) /\ ActiveMatches(id, snap.jobs)
  BY SoundParts
<1>2. id \in DOMAIN snap.jobs /\ snap.jobs[id].state \in LiveStates
  BY <1>1 DEF ActiveMatches
<1>3. id \in JobIDs /\ job \in Job /\ job.state = state
      /\ ReplaceOK(snap, "job.result", id, job)
  BY <1>2, EndReplaces
<1>4. queue \in QueueState /\ queue.pending = snap.queue.pending /\ queue.active = NoJob
  BY <1>1 DEF QueueState
<1> HIDE DEF job, queue, id
<1>5. state # "queued" /\ snap.jobs[id].state # "queued"
  BY <1>2 DEF TerminalStates, LiveStates
<1>6. PendingMatches(queue.pending, [snap.jobs EXCEPT ![id] = job])
  BY <1>1, <1>2, <1>3, <1>4, <1>5, PendingKeep
<1>7. ActiveMatches(queue.active, [snap.jobs EXCEPT ![id] = job])
  BY <1>1, <1>2, <1>3, <1>4, ActiveEnd
<1>8. Lands(Stamp(<<jobEvent("job.result", id, job), queueEvent(queue)>>), {},
            queue, [snap.jobs EXCEPT ![id] = job])
  BY <1>3, <1>4, <1>6, <1>7, ReplaceLands
<1> QED BY <1>8 DEF job, queue, id

(* cancelJob of a queued job builds an acceptable transaction. *)
LEMMA DropLands ==
    ASSUME Sound(snap), NEW id \in DOMAIN snap.jobs, snap.jobs[id].state = "queued"
    PROVE  LET job == [snap.jobs[id] EXCEPT !.state = "cancelled", !.err = "cancelled",
                                            !.finished = TRUE]
               queue == [snap.queue EXCEPT !.pending = Without(@, id)]
           IN  /\ id \in JobIDs /\ snap.queue.pending # <<>> /\ queue.active = snap.queue.active
               /\ queue.paused = snap.queue.paused
               /\ Lands(Stamp(<<jobEvent("job.result", id, job), queueEvent(queue)>>), {},
                        queue, [snap.jobs EXCEPT ![id] = job])
<1> DEFINE job == [snap.jobs[id] EXCEPT !.state = "cancelled", !.err = "cancelled",
                                        !.finished = TRUE]
           queue == [snap.queue EXCEPT !.pending = Without(@, id)]
<1>1. /\ snap.queue \in QueueState /\ snap.queue.pending \in Seq(JobIDs)
      /\ snap.queue.active \in Nat /\ snap.jobs \in Seq(Job)
      /\ PendingMatches(snap.queue.pending, snap.jobs)
      /\ ActiveMatches(snap.queue.active, snap.jobs)
  BY SoundParts
<1>2. /\ "cancelled" \in TerminalStates /\ "cancelled" \in JobErrors
      /\ transition(snap.jobs[id].state, "cancelled")
      /\ "cancelled" = "succeeded" <=> "cancelled" = NoError
  BY DEF TerminalStates, JobErrors, NoError, transition, Successors
<1>3. id \in JobIDs /\ job \in Job /\ job.state = "cancelled"
      /\ ReplaceOK(snap, "job.result", id, job)
  BY <1>2, EndReplaces
<1> HIDE DEF job
<1>4. /\ Without(snap.queue.pending, id) \in Seq(JobIDs)
      /\ snap.queue.pending # <<>>
      /\ PendingMatches(Without(snap.queue.pending, id), [snap.jobs EXCEPT ![id] = job])
  BY <1>1, <1>3, PendingDrop
<1>5. /\ queue \in QueueState /\ queue.pending = Without(snap.queue.pending, id)
      /\ queue.active = snap.queue.active /\ queue.paused = snap.queue.paused
  BY <1>1, <1>4 DEF QueueState
<1> HIDE DEF queue
<1>6. "cancelled" \notin LiveStates /\ "queued" \notin LiveStates BY DEF LiveStates
<1>7. ActiveMatches(queue.active, [snap.jobs EXCEPT ![id] = job])
  BY <1>1, <1>3, <1>5, <1>6, ActiveKeep
<1>8. Lands(Stamp(<<jobEvent("job.result", id, job), queueEvent(queue)>>), {},
            queue, [snap.jobs EXCEPT ![id] = job])
  BY <1>3, <1>4, <1>5, <1>7, ReplaceLands
<1> QED BY <1>3, <1>4, <1>5, <1>8 DEF job, queue

(* cancelJob of the running job builds an acceptable transaction. *)
LEMMA StopLands ==
    ASSUME Sound(snap), NEW id \in DOMAIN snap.jobs, snap.jobs[id].state = "running"
    PROVE  LET job == [snap.jobs[id] EXCEPT !.state = "cancelling"]
           IN  /\ id \in JobIDs
               /\ Lands(Stamp(<<jobEvent("job.state", id, job), queueEvent(snap.queue)>>), {},
                        snap.queue, [snap.jobs EXCEPT ![id] = job])
<1> DEFINE old == snap.jobs[id]
           job == [old EXCEPT !.state = "cancelling"]
<1>1. /\ snap.queue \in QueueState /\ snap.queue.pending \in Seq(JobIDs)
      /\ snap.queue.active \in Nat /\ snap.jobs \in Seq(Job)
      /\ PendingMatches(snap.queue.pending, snap.jobs)
      /\ ActiveMatches(snap.queue.active, snap.jobs)
  BY SoundParts
<1>2. id \in JobIDs /\ old \in Job /\ JobSound(old) BY <1>1, SoundParts
<1>3. /\ job \in Job /\ job.state = "cancelling" /\ job.finished = old.finished
      /\ job.started = old.started
      /\ job.err = old.err /\ job.req = old.req /\ job.hist = old.hist
      /\ \A f \in {"req", "hist", "parent", "rel", "origin", "text"} : old[f] = job[f]
  BY <1>2 DEF Job, JobStates, LiveStates
<1> HIDE DEF job
<1>4. PendingMatches(snap.queue.pending, [snap.jobs EXCEPT ![id] = job])
  BY <1>1, <1>3, PendingKeep
<1>5. "running" \in LiveStates /\ "cancelling" \in LiveStates BY DEF LiveStates
<1>6. ActiveMatches(snap.queue.active, [snap.jobs EXCEPT ![id] = job])
  BY <1>1, <1>3, <1>5, ActiveKeep
<1>7. ReplaceOK(snap, "job.state", id, job)
  BY <1>2, <1>3
     DEF ReplaceOK, JobSound, transition, Successors, Terminal, TerminalStates, LiveStates
<1>8. Lands(Stamp(<<jobEvent("job.state", id, job), queueEvent(snap.queue)>>), {},
            snap.queue, [snap.jobs EXCEPT ![id] = job])
  BY <1>1, <1>2, <1>3, <1>4, <1>6, <1>7, ReplaceLands
<1> QED BY <1>2, <1>8 DEF job

(* The history of a branch is a sequence of messages. *)
LEMMA BranchTyped ==
    ASSUME NEW jobs \in Seq(Job), NEW parent \in DOMAIN jobs
    PROVE  BranchHistory(jobs, parent) \in Seq(Message)
<1> DEFINE job == jobs[parent]
           asked == << [role |-> "user", content |-> job.req] >>
           answer == IF job.text = 0 THEN <<>>
                     ELSE << [role |-> "assistant", content |-> <<parent, job.text>>] >>
<1>1. parent \in JobIDs /\ job \in Job OBVIOUS
<1>2. job.req \in Requests /\ job.hist \in Seq(Message) /\ job.text \in Nat BY <1>1 DEF Job
<1>3. asked \in Seq(Message)
  <2>1. [role |-> "user", content |-> job.req] \in Message BY <1>2 DEF Message
  <2> QED BY <2>1, SingleSeq
<1>4. answer \in Seq(Message)
  <2>1. <<parent, job.text>> \in JobIDs \X Nat BY <1>1, <1>2
  <2>2. [role |-> "assistant", content |-> <<parent, job.text>>] \in Message
    BY <2>1 DEF Message
  <2>3. << [role |-> "assistant", content |-> <<parent, job.text>>] >> \in Seq(Message)
    BY <2>2, SingleSeq
  <2>4. <<>> \in Seq(Message) OBVIOUS
  <2> QED BY <2>3, <2>4
<1>5. BranchHistory(jobs, parent) = job.hist \o asked \o answer BY DEF BranchHistory
<1> HIDE DEF job, asked, answer
<1> QED BY <1>2, <1>3, <1>4, <1>5

(* create builds an acceptable transaction for Submit, Retry and Branch. *)
LEMMA CreateLands ==
    ASSUME Sound(snap), NEW op \in Relations, NEW key \in Keys, NEW origin \in Origins,
           NEW parent \in Nat, NEW req \in Requests \cup {NoRequest},
           op = "submit" => parent = NoJob,
           op # "submit" => parent \in DOMAIN snap.jobs /\ Terminal(snap.jobs[parent].state),
           LET job == NewJob(op, origin, parent, req) IN ValidateRequest(job.req, job.hist),
           Len(snap.queue.pending) < MaxPending,
           Len(snap.jobs) < MaxJobs
    PROVE  LET job == NewJob(op, origin, parent, req)
               id == Len(snap.jobs) + 1
               queue == [snap.queue EXCEPT !.pending = Append(@, id)]
               r == [key |-> key, job |-> id,
                     digest |-> [op |-> op, parent |-> parent, origin |-> origin, req |-> req]]
           IN  /\ id \in JobIDs /\ job \in Job /\ job.state = "queued" /\ r \in Receipt /\ r.key = key
               /\ queue.active = snap.queue.active
               /\ Lands(Stamp(<<jobEvent("job.accepted", id, job), queueEvent(queue)>>), {r},
                        queue, Append(snap.jobs, job))
<1> DEFINE job == NewJob(op, origin, parent, req)
           id == Len(snap.jobs) + 1
           queue == [snap.queue EXCEPT !.pending = Append(@, id)]
           r == [key |-> key, job |-> id,
                 digest |-> [op |-> op, parent |-> parent, origin |-> origin, req |-> req]]
<1>1. /\ snap.queue \in QueueState /\ snap.queue.pending \in Seq(JobIDs)
      /\ snap.queue.active \in Nat /\ snap.jobs \in Seq(Job)
      /\ PendingMatches(snap.queue.pending, snap.jobs)
      /\ ActiveMatches(snap.queue.active, snap.jobs)
  BY SoundParts
<1>2. id \in JobIDs BY <1>1
<1>3. /\ job.state = "queued" /\ ~job.started /\ ~job.finished /\ job.text = 0
      /\ job.err = NoError /\ job.rel = op /\ job.parent = parent
      /\ job.req = NewRequest(op, parent, req) /\ job.hist = NewHistory(op, parent)
  BY DEF NewJob
<1>4. ValidateRequest(job.req, job.hist) OBVIOUS
<1>5. NewHistory(op, parent) \in Seq(Message)
  <2>1. CASE op = "submit" BY <2>1 DEF NewHistory
  <2>2. CASE op = "retry"
    <3>1. snap.jobs[parent] \in Job BY <1>1, <2>2
    <3>2. snap.jobs[parent].hist \in Seq(Message) BY <3>1 DEF Job
    <3> QED BY <2>2, <3>2 DEF NewHistory
  <2>3. CASE op = "branch"
    <3>1. BranchHistory(snap.jobs, parent) \in Seq(Message) BY <1>1, <2>3, BranchTyped
    <3> QED BY <2>3, <3>1 DEF NewHistory
  <2> QED BY <2>1, <2>2, <2>3 DEF Relations
<1>6. NewRequest(op, parent, req) \in Requests
  BY <1>3, <1>4, RequestAssumption DEF ValidateRequest
<1>7. job \in Job
  <2>1. "queued" \in JobStates /\ NoError \in JobErrors BY DEF JobStates, JobErrors
  <2> QED BY <1>5, <1>6, <2>1 DEF Job, NewJob
<1> HIDE DEF job
<1>8. LineageOK(snap.jobs, job)
  BY <1>3 DEF LineageOK, Relations, NewRequest, NewHistory
<1>9. AcceptOK(snap, NoJob, Len(snap.jobs) + 1, job)
  BY <1>3, <1>4, <1>8 DEF AcceptOK
<1>10. /\ Append(snap.queue.pending, id) \in Seq(JobIDs)
       /\ PendingMatches(Append(snap.queue.pending, id), Append(snap.jobs, job))
  BY <1>1, <1>3, <1>7, PendingAdd
<1>11. /\ queue \in QueueState /\ queue.pending = Append(snap.queue.pending, id)
       /\ queue.active = snap.queue.active
  BY <1>1, <1>10 DEF QueueState
<1>12. ActiveMatches(queue.active, Append(snap.jobs, job))
  BY <1>1, <1>3, <1>7, <1>11, ActiveAdd
<1>13. r \in Receipt /\ r.job = Len(snap.jobs) + 1 /\ r.key = key
  BY <1>2 DEF Receipt, Digest
<1> HIDE DEF queue, r
<1>14. Lands(Stamp(<<jobEvent("job.accepted", id, job), queueEvent(queue)>>), {r},
             queue, Append(snap.jobs, job))
  BY <1>7, <1>9, <1>10, <1>11, <1>12, <1>13, AcceptLands
<1> QED BY <1>2, <1>3, <1>7, <1>11, <1>13, <1>14 DEF job, queue, r

(* setQueuePaused builds an acceptable transaction that touches only the pause flag. *)
LEMMA PauseLands ==
    ASSUME Sound(snap), NEW paused \in BOOLEAN
    PROVE  LET queue == [snap.queue EXCEPT !.paused = paused]
           IN  /\ queue.active = snap.queue.active
               /\ Lands(Stamp(<<queueEvent(queue)>>), {}, queue, snap.jobs)
<1> DEFINE queue == [snap.queue EXCEPT !.paused = paused]
           e == queueEvent(queue)
           stamped == [e EXCEPT !.seq = snap.seq + 1]
<1>1. /\ snap.seq \in Nat /\ snap.queue \in QueueState
      /\ PendingMatches(snap.queue.pending, snap.jobs)
      /\ ActiveMatches(snap.queue.active, snap.jobs)
  BY SoundParts
<1>2. /\ queue \in QueueState /\ queue.pending = snap.queue.pending
      /\ queue.active = snap.queue.active
  BY <1>1 DEF QueueState
<1> HIDE DEF queue
<1>3. stamped = [kind |-> "queue.state", seq |-> snap.seq + 1, queue |-> queue]
  BY DEF queueEvent
<1>4. stamped \in Events BY <1>1, <1>2, <1>3 DEF Events
<1>5. /\ stamped.kind = "queue.state" /\ stamped.seq = snap.seq + 1 /\ stamped.queue = queue
  BY <1>3
<1> HIDE DEF stamped
<1>6. snap.seq + 1 <= MaxSeq => EventOK(snap, NoJob, stamped) BY <1>5 DEF EventOK
<1>7. JobsAfter(snap.jobs, stamped) = snap.jobs BY <1>5 DEF JobsAfter
<1> HIDE DEF e
<1>8. Lands(Stamp(<<e>>), {}, queue, snap.jobs)
  BY <1>1, <1>2, <1>4, <1>5, <1>6, <1>7, SingleLands DEF stamped
<1> QED BY <1>2, <1>8 DEF queue, e

(* emit builds an acceptable transaction for every chunk that fits. *)
LEMMA OutputLands ==
    ASSUME Sound(snap), NEW id \in DOMAIN snap.jobs, snap.jobs[id].state \in LiveStates,
           snap.jobs[id].text < MaxOutput
    PROVE  /\ id \in JobIDs
           /\ Lands(Stamp(<<outputEvent(id, snap.jobs[id].text)>>), {}, snap.queue,
                    [snap.jobs EXCEPT ![id] = AddChunk(snap.jobs[id])])
<1> DEFINE old == snap.jobs[id]
           job == AddChunk(old)
           jobs == [snap.jobs EXCEPT ![id] = job]
           e == outputEvent(id, old.text)
           stamped == [e EXCEPT !.seq = snap.seq + 1]
<1>1. /\ snap.seq \in Nat /\ snap.queue \in QueueState /\ snap.jobs \in Seq(Job)
      /\ snap.queue.pending \in Seq(JobIDs) /\ snap.queue.active \in Nat
      /\ PendingMatches(snap.queue.pending, snap.jobs)
      /\ ActiveMatches(snap.queue.active, snap.jobs)
  BY SoundParts
<1>2. id \in JobIDs /\ old \in Job BY <1>1
<1>3. job.state = old.state /\ old.text \in Nat BY <1>2 DEF AddChunk, Job
<1>4. stamped = [kind |-> "job.output", seq |-> snap.seq + 1, id |-> id, offset |-> old.text]
  BY DEF outputEvent
<1>5. stamped \in Events BY <1>1, <1>2, <1>3, <1>4 DEF Events
<1>6. /\ stamped.kind = "job.output" /\ stamped.seq = snap.seq + 1 /\ stamped.id = id
      /\ stamped.offset = old.text
  BY <1>4
<1> HIDE DEF stamped
<1>7. snap.seq + 1 <= MaxSeq => EventOK(snap, NoJob, stamped)
  BY <1>6 DEF EventOK, OutputOK
<1>8. JobsAfter(snap.jobs, stamped) = jobs BY <1>6 DEF JobsAfter
<1> HIDE DEF e, job
<1>9. old.state # "queued" BY DEF LiveStates
<1>10. PendingMatches(snap.queue.pending, jobs)
  BY <1>1, <1>3, <1>9, PendingKeep
<1>11. ActiveMatches(snap.queue.active, jobs)
  BY <1>1, <1>3, ActiveKeep
<1> HIDE DEF jobs
<1>12. Lands(Stamp(<<e>>), {}, snap.queue, jobs)
  BY <1>5, <1>6, <1>7, <1>8, <1>10, <1>11, SingleLands DEF stamped
<1> QED BY <1>2, <1>12 DEF jobs, job, e


-----------------------------------------------------------------------------
(* Steps that enter commit. *)

(* A step that only moves the handler on keeps TypeOK if the command has its type. *)
LEMMA TypeKeep ==
    ASSUME TypeOK, UNCHANGED <<view, storage, backend, life>>, cmd' \in Command, pc' \in Places
    PROVE  TypeOK'
BY DEF TypeOK, view, storage, backend, life, Image, ReceiptMap

(* A handler that enters commit with a transaction that lands keeps the type, the storage and the
   command conjuncts. *)
LEMMA CommitStarts ==
    ASSUME Inv, UNCHANGED <<view, storage>>, fatal' = fatal,
           NEW by \in Handlers, NEW id \in Nat, NEW rest \in Nat, NEW events,
           NEW receipt \in SUBSET Receipt, NEW queue, NEW jobs,
           Commit(by, id, rest, events, receipt),
           Lands(Stamp(events), receipt, queue, jobs),
           pc \in {"idle", "dispatch", "emit", "recover"},
           \A r \in receipt : r.key \notin DOMAIN receipts
    PROVE  /\ cmd' \in Command /\ pc' = "commit" /\ StorageInv'
           /\ cmd'.by = by /\ cmd'.job = id /\ cmd'.rest = rest
           /\ Len(cmd'.events) \in {1, 2}
           /\ Len(cmd'.events) = 2 => cmd'.events[2].kind = "queue.state"
           /\ (Exhausted \/ Applied.ok)'
           /\ \A r \in cmd'.receipt : r.key \notin DOMAIN receipts'
           /\ Applied'.ok => Applied'.snap.queue = queue /\ Applied'.snap.jobs = jobs
<1>1. cmd' = [by |-> by, job |-> id, rest |-> rest, events |-> Stamp(events), receipt |-> receipt]
      /\ pc' = "commit"
  BY DEF Commit
<1>2. snap.seq \in Nat BY SoundParts DEF Inv, StorageInv
<1>3. cmd' \in Command BY <1>1 DEF Command, Lands
<1>4. snap' = snap /\ receipts' = receipts /\ cache' = cache /\ disk' = disk
  BY DEF view, storage
<1>5. StorageInv' BY <1>1, <1>4 DEF Inv, StorageInv
<1> QED BY <1>1, <1>2, <1>3, <1>4, <1>5 DEF Lands, Exhausted, Applied

(* What each handler's transaction must do to the queue for CommandInv to hold while it commits. *)
Fits(by, id, queue, jobs) ==
    /\ by \in {"create", "pause", "cancel", "emit"} => queue.active = snap.queue.active
    /\ by \in {"complete", "recover"} => queue.active = NoJob
    /\ by = "dispatch" => /\ snap.queue.active = NoJob
                          /\ id # NoJob
                          /\ queue.active = id
                          /\ jobs[id].state = "running"
    /\ by \in {"cancel", "emit"} => /\ queue.paused = snap.queue.paused
                                    /\ queue.pending # <<>> => snap.queue.pending # <<>>
    /\ \A j \in DOMAIN snap.jobs : jobs[j].state = "cancelling" =>
          snap.jobs[j].state = "cancelling" \/ (by = "cancel" /\ j = id)

(* Which handler may enter commit where. *)
Enters(by, id) ==
    \/ by \in {"create", "cancel", "pause"} /\ pc = "idle" /\ available
    \/ by = "dispatch" /\ pc = "dispatch" /\ available
    \/ by = "recover" /\ pc = "recover"
    \/ by = "emit" /\ pc = "emit" /\ id \in gens

(* A handler that enters commit with a transaction that lands and fits keeps the whole invariant. *)
LEMMA CommitKeeps ==
    ASSUME Inv, UNCHANGED <<view, storage, backend, life>>,
           NEW by, NEW id \in Nat, NEW rest \in Nat, NEW events,
           NEW receipt \in SUBSET Receipt, NEW queue, NEW jobs,
           Commit(by, id, rest, events, receipt),
           Lands(Stamp(events), receipt, queue, jobs),
           \A r \in receipt : r.key \notin DOMAIN receipts,
           Enters(by, id), Fits(by, id, queue, jobs)
    PROVE  Inv'
<1>1. /\ snap' = snap /\ receipts' = receipts /\ cache' = cache /\ disk' = disk
      /\ gens' = gens /\ ctxDone' = ctxDone /\ cancel' = cancel /\ outputErr' = outputErr
      /\ boot' = boot /\ fatal' = fatal /\ stopping' = stopping /\ closed' = closed
  BY DEF view, storage, backend, life
<1>2. pc \in {"idle", "dispatch", "emit", "recover"} /\ by \in Handlers \ {"none", "complete"}
  BY DEF Enters, Handlers
<1>3. /\ cmd' \in Command /\ pc' = "commit" /\ StorageInv'
      /\ cmd'.by = by /\ cmd'.job = id /\ cmd'.rest = rest
      /\ Len(cmd'.events) \in {1, 2}
      /\ Len(cmd'.events) = 2 => cmd'.events[2].kind = "queue.state"
      /\ (Exhausted \/ Applied.ok)'
      /\ \A r \in cmd'.receipt : r.key \notin DOMAIN receipts'
      /\ Applied'.ok => Applied'.snap.queue = queue /\ Applied'.snap.jobs = jobs
  BY <1>1, <1>2, CommitStarts
<1>4. TypeOK'
  <2>1. pc' \in Places BY <1>3 DEF Places
  <2> QED BY <1>3, <2>1, TypeKeep DEF Inv
<1>5. BackendInv'
  BY <1>1, <1>3 DEF Inv, BackendInv, Idling, Commits, Committing, Enters
<1>6. LifeInv'
  BY <1>1, <1>3 DEF Inv, LifeInv, Up, Commits, Committing, Enters, available
<1>7. CommandInv'
  <2>1. (pc = "emit" \/ Commits({"emit"}) => cmd.job \in gens)'
    BY <1>1, <1>3 DEF Commits, Committing, Enters
  <2> QED BY <1>1, <1>2, <1>3, <2>1 DEF CommandInv, Fits
<1>8. ProgressInv'
  BY <1>1, <1>3 DEF Inv, ProgressInv, Commits, Committing, Enters, available
<1> QED BY <1>3, <1>4, <1>5, <1>6, <1>7, <1>8 DEF Inv

(* dispatch keeps the invariant. *)
LEMMA dispatchKeeps == ASSUME Inv, dispatch PROVE Inv'
<1> DEFINE id == Head(snap.queue.pending)
           job == [snap.jobs[id] EXCEPT !.state = "running", !.started = TRUE]
           queue == [snap.queue EXCEPT !.pending = Tail(@), !.active = id]
           events == <<jobEvent("job.state", id, job), queueEvent(queue)>>
           jobs == [snap.jobs EXCEPT ![id] = job]
<1>1. /\ pc = "dispatch" /\ MayDispatch /\ Commit("dispatch", id, 0, events, {})
      /\ UNCHANGED <<view, storage, backend, life>>
  BY DEF dispatch
<1>2. Sound(snap) BY DEF Inv, StorageInv
<1>3. /\ id \in JobIDs /\ id \in DOMAIN snap.jobs
      /\ job.state = "running" /\ queue.active = id
      /\ Lands(Stamp(events), {}, queue, jobs)
  BY <1>1, <1>2, DispatchLands
<1>4. snap.jobs \in Seq(Job) BY <1>2, SoundParts
<1>5. \A j \in DOMAIN snap.jobs : jobs[j] = IF j = id THEN job ELSE snap.jobs[j]
  BY <1>3, <1>4, Replaced
<1> HIDE DEF id, job, queue, events, jobs
<1>6. Fits("dispatch", id, queue, jobs) BY <1>1, <1>3, <1>5 DEF Fits, MayDispatch
<1>7. Enters("dispatch", id) BY <1>1 DEF Enters, MayDispatch
<1>8. {} \in SUBSET Receipt /\ \A x \in {} : x.key \notin DOMAIN receipts OBVIOUS
<1>9. id \in Nat /\ 0 \in Nat BY <1>3
<1>10. Lands(Stamp(events), {}, queue, jobs) BY <1>3
<1> QED BY <1>1, <1>6, <1>7, <1>8, <1>9, <1>10, CommitKeeps

(* create keeps the invariant, for each of its three callers. *)
LEMMA createKeeps ==
    ASSUME Inv, NEW op \in Relations, NEW key \in Keys, NEW origin \in Origins,
           NEW parent \in Nat, NEW req \in Requests \cup {NoRequest},
           op = "submit" => parent = NoJob, create(op, key, origin, parent, req)
    PROVE  Inv'
<1> DEFINE job == NewJob(op, origin, parent, req)
           id == Len(snap.jobs) + 1
           queue == [snap.queue EXCEPT !.pending = Append(@, id)]
           r == [key |-> key, job |-> id,
                 digest |-> [op |-> op, parent |-> parent, origin |-> origin, req |-> req]]
           events == <<jobEvent("job.accepted", id, job), queueEvent(queue)>>
           jobs == Append(snap.jobs, job)
<1>1. /\ pc = "idle" /\ available /\ key \notin DOMAIN receipts
      /\ op # "submit" => parent \in DOMAIN snap.jobs /\ Terminal(snap.jobs[parent].state)
      /\ ValidateRequest(job.req, job.hist)
      /\ Len(snap.queue.pending) < MaxPending
      /\ Len(snap.jobs) < MaxJobs
      /\ Commit("create", id, 0, events, {r})
      /\ UNCHANGED <<view, storage, backend, life>>
  BY DEF create
<1>2. Sound(snap) BY DEF Inv, StorageInv
<1>3. snap.jobs \in Seq(Job) BY <1>2, SoundParts
<1>4. /\ id \in JobIDs /\ job \in Job /\ job.state = "queued" /\ r \in Receipt /\ r.key = key
      /\ queue.active = snap.queue.active
      /\ Lands(Stamp(events), {r}, queue, jobs)
  BY <1>1, <1>2, CreateLands
<1> HIDE DEF job, r, queue
<1>5. \A j \in DOMAIN snap.jobs : jobs[j] = snap.jobs[j] BY <1>3, <1>4
<1> HIDE DEF id, events, jobs
<1>6. Fits("create", id, queue, jobs) BY <1>4, <1>5 DEF Fits
<1>7. Enters("create", id) BY <1>1 DEF Enters
<1>8. {r} \in SUBSET Receipt /\ \A x \in {r} : x.key \notin DOMAIN receipts BY <1>1, <1>4
<1> QED BY <1>1, <1>4, <1>6, <1>7, <1>8, CommitKeeps

(* Submit, Retry and Branch keep the invariant. *)
LEMMA SubmitKeeps == ASSUME Inv, Submit \/ Retry \/ Branch PROVE Inv'
<1>1. CASE Submit
  <2>1. PICK key \in Keys, origin \in Origins, req \in Requests :
            create("submit", key, origin, NoJob, req)
    BY <1>1 DEF Submit
  <2>2. "submit" \in Relations BY DEF Relations
  <2> QED BY <2>1, <2>2, createKeeps
<1>2. CASE Retry
  <2>1. PICK key \in Keys, origin \in Origins, parent \in DOMAIN snap.jobs :
            create("retry", key, origin, parent, NoRequest)
    BY <1>2 DEF Retry
  <2>2. "retry" \in Relations BY DEF Relations
  <2>3. parent \in Nat BY SoundParts DEF Inv, StorageInv
  <2> QED BY <2>1, <2>2, <2>3, createKeeps
<1>3. CASE Branch
  <2>1. PICK key \in Keys, origin \in Origins, parent \in DOMAIN snap.jobs, req \in Requests :
            create("branch", key, origin, parent, req)
    BY <1>3 DEF Branch
  <2>2. "branch" \in Relations BY DEF Relations
  <2>3. parent \in Nat BY SoundParts DEF Inv, StorageInv
  <2> QED BY <2>1, <2>2, <2>3, createKeeps
<1> QED BY <1>1, <1>2, <1>3

(* cancelJob keeps the invariant. *)
LEMMA CancelKeeps == ASSUME Inv, NEW id \in DOMAIN snap.jobs, cancelJob(id) PROVE Inv'
<1>1. Sound(snap) BY DEF Inv, StorageInv
<1>2. pc = "idle" /\ available /\ UNCHANGED <<view, storage, backend, life>> BY DEF cancelJob
<1>3. Enters("cancel", id) BY <1>2 DEF Enters
<1>4. CASE snap.jobs[id].state = "queued"
  <2> DEFINE job == [snap.jobs[id] EXCEPT !.state = "cancelled", !.err = "cancelled",
                                          !.finished = TRUE]
             queue == [snap.queue EXCEPT !.pending = Without(@, id)]
             events == <<jobEvent("job.result", id, job), queueEvent(queue)>>
             jobs == [snap.jobs EXCEPT ![id] = job]
  <2>1. Commit("cancel", id, 0, events, {}) BY <1>4 DEF cancelJob
  <2>2. /\ id \in JobIDs /\ snap.queue.pending # <<>> /\ queue.active = snap.queue.active
        /\ queue.paused = snap.queue.paused
        /\ Lands(Stamp(events), {}, queue, jobs)
    BY <1>1, <1>4, DropLands
  <2> HIDE DEF job, queue, events
  <2>3. \A j \in DOMAIN snap.jobs : jobs[j] = IF j = id THEN job ELSE snap.jobs[j]
    BY <1>1, SoundParts, Replaced
  <2> HIDE DEF jobs
  <2>4. Fits("cancel", id, queue, jobs) BY <2>2, <2>3 DEF Fits
  <2> QED BY <1>2, <1>3, <2>1, <2>2, <2>4, CommitKeeps
<1>5. CASE snap.jobs[id].state = "running"
  <2> DEFINE job == [snap.jobs[id] EXCEPT !.state = "cancelling"]
             events == <<jobEvent("job.state", id, job), queueEvent(snap.queue)>>
             jobs == [snap.jobs EXCEPT ![id] = job]
  <2>1. Commit("cancel", id, 0, events, {}) BY <1>5 DEF cancelJob
  <2>2. id \in JobIDs /\ Lands(Stamp(events), {}, snap.queue, jobs)
    BY <1>1, <1>5, StopLands
  <2> HIDE DEF job, events
  <2>3. \A j \in DOMAIN snap.jobs : jobs[j] = IF j = id THEN job ELSE snap.jobs[j]
    BY <1>1, SoundParts, Replaced
  <2> HIDE DEF jobs
  <2>4. Fits("cancel", id, snap.queue, jobs) BY <2>3 DEF Fits
  <2> QED BY <1>2, <1>3, <2>1, <2>2, <2>4, CommitKeeps
<1> QED BY <1>4, <1>5 DEF cancelJob

(* The interruption of a recovered active job keeps the invariant. *)
LEMMA RecoverKeeps == ASSUME Inv, Recover PROVE Inv'
<1> DEFINE id == snap.queue.active
           job == [snap.jobs[id] EXCEPT !.state = "interrupted", !.err = "interrupted",
                                        !.finished = TRUE]
           queue == [snap.queue EXCEPT !.active = NoJob]
           events == <<jobEvent("job.result", id, job), queueEvent(queue)>>
           jobs == [snap.jobs EXCEPT ![id] = job]
<1>1. /\ pc = "recover" /\ Commit("recover", id, 0, events, {})
      /\ UNCHANGED <<view, storage, backend, life>>
  BY DEF Recover
<1>2. Sound(snap) /\ id # NoJob BY <1>1 DEF Inv, StorageInv, LifeInv
<1>3. /\ snap.jobs \in Seq(Job) /\ snap.queue \in QueueState /\ id \in Nat
      /\ id \in DOMAIN snap.jobs /\ snap.jobs[id].state \in LiveStates
  BY <1>2, SoundParts DEF ActiveMatches
<1>4. /\ "interrupted" \in TerminalStates /\ "interrupted" \in JobErrors
      /\ transition(snap.jobs[id].state, "interrupted")
      /\ "interrupted" = "succeeded" <=> "interrupted" = NoError
  BY <1>3 DEF TerminalStates, JobErrors, NoError, transition, Successors, LiveStates
<1>5. Lands(Stamp(events), {}, queue, jobs) BY <1>2, <1>4, EndLands
<1>6. queue.active = NoJob BY <1>3 DEF QueueState
<1>7. job.state # "cancelling"
  <2>1. snap.jobs[id] \in Job BY <1>3
  <2> QED BY <2>1 DEF Job
<1> HIDE DEF job, queue, events
<1>8. \A j \in DOMAIN snap.jobs : jobs[j] = IF j = id THEN job ELSE snap.jobs[j]
  BY <1>3, Replaced
<1> HIDE DEF id, jobs
<1>9. Fits("recover", id, queue, jobs) BY <1>6, <1>7, <1>8 DEF Fits
<1>10. Enters("recover", id) BY <1>1 DEF Enters
<1>11. {} \in SUBSET Receipt /\ \A x \in {} : x.key \notin DOMAIN receipts OBVIOUS
<1>12. id \in Nat /\ 0 \in Nat BY <1>3
<1> QED BY <1>1, <1>5, <1>9, <1>10, <1>11, <1>12, CommitKeeps

(* setQueuePaused keeps the invariant. *)
LEMMA PauseKeeps == ASSUME Inv, NEW paused \in BOOLEAN, setQueuePaused(paused) PROVE Inv'
<1>1. pc = "idle" /\ available /\ UNCHANGED <<view, storage, backend, life>>
  BY DEF setQueuePaused
<1>2. CASE snap.queue.paused # paused
  <2> DEFINE queue == [snap.queue EXCEPT !.paused = paused]
             events == <<queueEvent(queue)>>
  <2>1. Commit("pause", NoJob, 0, events, {}) BY <1>2 DEF setQueuePaused
  <2>2. Sound(snap) BY DEF Inv, StorageInv
  <2>3. queue.active = snap.queue.active /\ Lands(Stamp(events), {}, queue, snap.jobs)
    BY <2>2, PauseLands
  <2> HIDE DEF queue, events
  <2>4. Fits("pause", NoJob, queue, snap.jobs) BY <2>3 DEF Fits
  <2>5. Enters("pause", NoJob) BY <1>1 DEF Enters
  <2>6. {} \in SUBSET Receipt /\ NoJob \in Nat /\ 0 \in Nat OBVIOUS
  <2> QED BY <1>1, <2>1, <2>3, <2>4, <2>5, <2>6, CommitKeeps
<1>3. CASE snap.queue.paused = paused
  <2>1. pc' = "dispatch" /\ cmd' = cmd BY <1>3 DEF setQueuePaused
  <2>2. /\ snap' = snap /\ receipts' = receipts /\ cache' = cache /\ disk' = disk
        /\ gens' = gens /\ ctxDone' = ctxDone /\ cancel' = cancel /\ outputErr' = outputErr
        /\ boot' = boot /\ fatal' = fatal /\ stopping' = stopping /\ closed' = closed
    BY <1>1 DEF view, storage, backend, life
  <2>3. TypeOK' BY <1>1, <2>1, TypeKeep DEF Inv, TypeOK, Places
  <2>4. StorageInv' BY <1>1, <2>1, <2>2 DEF Inv, StorageInv
  <2>5. BackendInv'
    BY <1>1, <2>1, <2>2 DEF Inv, BackendInv, Idling, Commits, Committing
  <2>6. LifeInv'
    BY <1>1, <2>1, <2>2 DEF Inv, LifeInv, Up, Commits, Committing, available
  <2>7. CommandInv' BY <2>1 DEF CommandInv, Commits, Committing
  <2>8. ProgressInv' BY <2>1 DEF ProgressInv, Commits, Committing
  <2> QED BY <2>3, <2>4, <2>5, <2>6, <2>7, <2>8 DEF Inv
<1> QED BY <1>2, <1>3

(* A chunk of output keeps the invariant. *)
LEMMA EmitChunkKeeps == ASSUME Inv, EmitChunk PROVE Inv'
<1> DEFINE id == cmd.job
           job == AddChunk(snap.jobs[id])
           jobs == [snap.jobs EXCEPT ![id] = job]
           events == <<outputEvent(id, snap.jobs[id].text)>>
<1>1. /\ pc = "emit" /\ cmd.rest > 0 /\ snap.jobs[id].text < MaxOutput
      /\ Commit("emit", id, cmd.rest - 1, events, {})
      /\ UNCHANGED <<view, storage, backend, life>>
  BY DEF EmitChunk
<1>2. Sound(snap) /\ id \in gens /\ cmd \in Command /\ cmd.rest - 1 \in Nat
  BY <1>1 DEF Inv, StorageInv, CommandInv, TypeOK, Command
<1>3. id = snap.queue.active /\ id # NoJob
  BY <1>1, <1>2 DEF Inv, BackendInv, LifeInv, Idling, Commits, Committing
<1>4. /\ snap.jobs \in Seq(Job)
      /\ id \in DOMAIN snap.jobs /\ snap.jobs[id].state \in LiveStates
  BY <1>2, <1>3, SoundParts DEF ActiveMatches
<1>5. id \in JobIDs /\ Lands(Stamp(events), {}, snap.queue, jobs)
  BY <1>1, <1>2, <1>4, OutputLands
<1>6. job.state = snap.jobs[id].state
  <2>1. snap.jobs[id] \in Job BY <1>4
  <2> QED BY <2>1 DEF AddChunk, Job
<1> HIDE DEF job, events
<1>7. \A j \in DOMAIN snap.jobs : jobs[j] = IF j = id THEN job ELSE snap.jobs[j]
  BY <1>4, Replaced
<1> HIDE DEF id, jobs
<1>8. Fits("emit", id, snap.queue, jobs) BY <1>6, <1>7 DEF Fits
<1>9. Enters("emit", id) BY <1>1, <1>2 DEF Enters
<1>10. {} \in SUBSET Receipt OBVIOUS
<1> QED BY <1>1, <1>2, <1>5, <1>8, <1>9, <1>10, CommitKeeps

(* The end complete chooses is a legal transition of a live job, with an error exactly if it failed. *)
LEMMA FinishedLegal ==
    ASSUME NEW job, job.state \in LiveStates, NEW outcome
    PROVE  LET end == Finished(job, outcome)
           IN  /\ end.state \in TerminalStates /\ end.err \in JobErrors
               /\ transition(job.state, end.state)
               /\ end.state = "succeeded" <=> end.err = NoError
<1>1. \A code : /\ publicBackendError(code) \in JobErrors
                /\ publicBackendError(code) # NoError
  BY DEF publicBackendError, PublicBackendErrors, JobErrors, NoError
<1> QED BY <1>1 DEF Finished, LiveStates, TerminalStates, JobErrors, NoError, transition, Successors

(* complete keeps the invariant, in a healthy and in a poisoned worker. *)
LEMMA CompleteKeeps == ASSUME Inv, NEW id, NEW outcome, complete(id, outcome) PROVE Inv'
<1>1. /\ pc = "idle" /\ id \in gens /\ gens' = gens \ {id} /\ ctxDone' = ctxDone \ {id}
      /\ cancel' = NoJob /\ UNCHANGED <<view, storage, outputErr, boot, fatal, stopping>>
  BY DEF complete, Returned
<1>2. /\ snap' = snap /\ receipts' = receipts /\ cache' = cache /\ disk' = disk
      /\ outputErr' = outputErr /\ boot' = boot /\ fatal' = fatal /\ stopping' = stopping
  BY <1>1 DEF view, storage
<1>3. id = cancel /\ id # NoJob /\ gens' = {} /\ ctxDone' = {}
  BY <1>1 DEF Inv, BackendInv, TypeOK
<1>4. ~closed /\ ~boot /\ TypeOK
  BY <1>1 DEF Inv, LifeInv, Commits, Committing, TypeOK
<1>5. CASE fatal = "none"
  <2> DEFINE end == Finished(snap.jobs[id], outcome)
             job == [snap.jobs[id] EXCEPT !.state = end.state, !.err = end.err,
                                          !.finished = TRUE]
             queue == [snap.queue EXCEPT !.active = NoJob]
             events == <<jobEvent("job.result", id, job), queueEvent(queue)>>
             jobs == [snap.jobs EXCEPT ![id] = job]
  <2>1. Commit("complete", id, 0, events, {}) /\ closed' = closed BY <1>5 DEF complete
  <2>2. Sound(snap) /\ id = snap.queue.active
    BY <1>1, <1>3, <1>5 DEF Inv, StorageInv, BackendInv, Idling, Commits, Committing
  <2>3. /\ snap.jobs \in Seq(Job) /\ snap.queue \in QueueState /\ id \in Nat
        /\ id \in DOMAIN snap.jobs /\ snap.jobs[id].state \in LiveStates
    BY <1>3, <2>2, SoundParts DEF ActiveMatches
  <2>4. /\ end.state \in TerminalStates /\ end.err \in JobErrors
        /\ transition(snap.jobs[id].state, end.state)
        /\ end.state = "succeeded" <=> end.err = NoError
    BY <2>3, FinishedLegal
  <2> HIDE DEF end
  <2>5. Lands(Stamp(events), {}, queue, jobs) BY <1>3, <2>2, <2>4, EndLands
  <2>6. queue.active = NoJob BY <2>3 DEF QueueState
  <2>7. job.state # "cancelling"
    <3>1. snap.jobs[id] \in Job BY <2>3
    <3>2. job.state = end.state BY <3>1 DEF Job
    <3> QED BY <2>4, <3>2 DEF TerminalStates
  <2> HIDE DEF job, queue, events
  <2>8. \A j \in DOMAIN snap.jobs : jobs[j] = IF j = id THEN job ELSE snap.jobs[j]
    BY <2>3, Replaced
  <2> HIDE DEF jobs
  <2>9. Fits("complete", id, queue, jobs) BY <2>6, <2>7, <2>8 DEF Fits
  <2>10. {} \in SUBSET Receipt /\ "complete" \in Handlers /\ UNCHANGED <<view, storage>>
    BY <1>1 DEF Handlers
  <2>11. /\ cmd' \in Command /\ pc' = "commit" /\ StorageInv'
         /\ cmd'.by = "complete" /\ cmd'.job = id
         /\ Len(cmd'.events) \in {1, 2}
         /\ Len(cmd'.events) = 2 => cmd'.events[2].kind = "queue.state"
         /\ (Exhausted \/ Applied.ok)'
         /\ \A r \in cmd'.receipt : r.key \notin DOMAIN receipts'
         /\ Applied'.ok => Applied'.snap.queue = queue /\ Applied'.snap.jobs = jobs
    BY <1>1, <1>2, <2>1, <2>3, <2>5, <2>10, CommitStarts
  <2>12. TypeOK'
    BY <1>1, <1>2, <1>3, <1>4, <2>1, <2>11 DEF TypeOK, Image, ReceiptMap, Places
  <2>13. BackendInv'
    BY <1>1, <1>3, <2>11 DEF BackendInv, Idling, Commits, Committing
  <2>14. LifeInv'
    BY <1>2, <1>4, <1>5, <2>1, <2>11 DEF LifeInv, Up, Commits, Committing
  <2>15. CommandInv'
    BY <1>2, <2>9, <2>11 DEF CommandInv, Fits, Commits, Committing
  <2>16. ProgressInv' BY <2>11 DEF ProgressInv, Commits, Committing
  <2> QED BY <2>11, <2>12, <2>13, <2>14, <2>15, <2>16 DEF Inv
<1>6. CASE fatal # "none"
  <2>1. closed' = (closed \/ stopping) /\ pc' = pc /\ cmd' = cmd BY <1>6 DEF complete
  <2>2. TypeOK'
    BY <1>1, <1>2, <1>3, <1>4, <2>1 DEF TypeOK, Image, ReceiptMap, Places
  <2>3. StorageInv' BY <1>1, <1>2, <1>6, <2>1 DEF Inv, StorageInv
  <2>4. BackendInv'
    BY <1>1, <1>2, <1>3, <1>6, <2>1 DEF BackendInv, Idling, Commits, Committing
  <2>5. LifeInv'
    <3>1. closed' => stopping BY <1>4, <2>1 DEF TypeOK
    <3> QED BY <1>1, <1>2, <1>3, <1>4, <2>1, <3>1 DEF LifeInv, Up, Commits, Committing
  <2>6. CommandInv' BY <1>1, <2>1 DEF CommandInv, Commits, Committing
  <2>7. ProgressInv' BY <1>2, <1>6 DEF ProgressInv, available
  <2> QED BY <2>2, <2>3, <2>4, <2>5, <2>6, <2>7 DEF Inv
<1> QED BY <1>5, <1>6

-----------------------------------------------------------------------------
(* Steps that leave the published state and the journal alone. *)

(* A step that changes neither the published state nor the journal keeps StorageInv. *)
LEMMA StorageKept ==
    ASSUME Inv, UNCHANGED <<view, storage>>, pc \notin {"down", "sync"}, pc' # "sync",
           fatal' = "none" => fatal = "none"
    PROVE  StorageInv' /\ snap' = snap
BY DEF Inv, StorageInv, view, storage

(* The empty command is a command. *)
LEMMA NoCmdTyped == NoCmd \in Command
<1>1. <<>> \in Seq(Events) /\ "none" \in Handlers /\ {} \in SUBSET Receipt BY DEF Handlers
<1> QED BY <1>1 DEF NoCmd, Command

(* A dispatch with nothing to do keeps the invariant. *)
LEMMA NothingKeeps == ASSUME Inv, NothingToDispatch PROVE Inv'
<1>1. /\ pc = "dispatch" /\ ~MayDispatch /\ pc' = "idle" /\ boot' = FALSE /\ cmd' = cmd
      /\ UNCHANGED <<view, storage>>
      /\ gens' = gens /\ ctxDone' = ctxDone /\ cancel' = cancel /\ outputErr' = outputErr
      /\ fatal' = fatal /\ stopping' = stopping /\ closed' = closed
  BY DEF NothingToDispatch, backend
<1>2. StorageInv' /\ snap' = snap BY <1>1, StorageKept
<1>3. TypeOK' BY <1>1 DEF Inv, TypeOK, Image, ReceiptMap, Places, view, storage
<1>4. BackendInv' BY <1>1, <1>2 DEF Inv, BackendInv, Idling, Commits, Committing
<1>5. LifeInv' BY <1>1 DEF Inv, LifeInv, Up, Commits, Committing
<1>6. CommandInv' BY <1>1 DEF CommandInv, Commits, Committing
<1>7. ProgressInv' BY <1>1, <1>2 DEF ProgressInv, MayDispatch, available
<1> QED BY <1>2, <1>3, <1>4, <1>5, <1>6, <1>7 DEF Inv

(* The start of a backend callback keeps the invariant. *)
LEMMA emitKeeps ==
    ASSUME Inv, NEW id \in gens, NEW chunks \in Nat, emit(id, chunks) PROVE Inv'
<1>1. /\ pc = "idle" /\ fatal = "none" /\ pc' = "emit"
      /\ cmd' = [NoCmd EXCEPT !.by = "emit", !.job = id, !.rest = chunks]
      /\ UNCHANGED <<view, storage, backend, life>>
  BY DEF emit
<1>2. /\ gens' = gens /\ ctxDone' = ctxDone /\ cancel' = cancel /\ outputErr' = outputErr
      /\ boot' = boot /\ fatal' = fatal /\ stopping' = stopping /\ closed' = closed
  BY <1>1 DEF backend, life
<1>3. cmd' \in Command /\ cmd'.job = id
  <2>1. id \in Nat BY DEF Inv, TypeOK
  <2>2. "emit" \in Handlers BY DEF Handlers
  <2> QED BY <1>1, <2>1, <2>2, NoCmdTyped DEF Command, NoCmd
<1>4. TypeOK' BY <1>1, <1>3, TypeKeep DEF Inv, Places
<1>5. StorageInv' /\ snap' = snap BY <1>1, <1>2, StorageKept
<1>6. BackendInv' BY <1>1, <1>2, <1>5 DEF Inv, BackendInv, Idling, Commits, Committing
<1>7. LifeInv' BY <1>1, <1>2 DEF Inv, LifeInv, Up, Commits, Committing
<1>8. CommandInv' BY <1>1, <1>2, <1>3 DEF CommandInv, Commits, Committing
<1>9. ProgressInv' BY <1>1, <1>2, <1>5 DEF Inv, ProgressInv, available
<1> QED BY <1>4, <1>5, <1>6, <1>7, <1>8, <1>9 DEF Inv

(* Stopping the backend because of its output keeps the invariant. *)
LEMMA EmitStopsKeeps ==
    ASSUME Inv, pc \in {"idle", "emit"}, gens # {}, NEW code \in JobErrors, EmitStops(code),
           UNCHANGED <<view, storage, gens, cancel, life>>
    PROVE  Inv'
<1>1. /\ outputErr' = code /\ ctxDone' = ctxDone \cup ({cancel} \ {NoJob})
      /\ pc' = "idle" /\ cmd' = NoCmd
  BY DEF EmitStops, CancelContext
<1>2. /\ gens' = gens /\ cancel' = cancel /\ UNCHANGED <<view, storage>>
      /\ boot' = boot /\ fatal' = fatal /\ stopping' = stopping /\ closed' = closed
  BY DEF life
<1>3. gens = {cancel} \ {NoJob} /\ ctxDone \subseteq gens BY DEF Inv, BackendInv, TypeOK
<1>4. gens' \subseteq ctxDone' /\ ctxDone' \subseteq gens' BY <1>1, <1>2, <1>3
<1>5. StorageInv' /\ snap' = snap BY <1>1, <1>2, StorageKept
<1>6. TypeOK'
  BY <1>1, <1>2, <1>4, NoCmdTyped DEF Inv, TypeOK, Image, ReceiptMap, Places, view, storage
<1>7. BackendInv' BY <1>1, <1>2, <1>4, <1>5 DEF Inv, BackendInv, Idling, Commits, Committing
<1>8. LifeInv' BY <1>1, <1>2 DEF Inv, LifeInv, Up, Commits, Committing
<1>9. CommandInv' BY <1>1 DEF CommandInv, Commits, Committing
<1>10. ProgressInv' BY <1>2, <1>5 DEF Inv, ProgressInv, available
<1> QED BY <1>5, <1>6, <1>7, <1>8, <1>9, <1>10 DEF Inv

(* Output that is too long or invalid keeps the invariant. *)
LEMMA EmitRefusedKeeps ==
    ASSUME Inv, EmitTooLong \/ \E id \in gens : EmitInvalid(id) PROVE Inv'
<1>1. "limit_exceeded" \in JobErrors /\ "backend_failure" \in JobErrors
  BY DEF JobErrors, PublicBackendErrors
<1>2. CASE EmitTooLong
  <2>1. gens # {} BY <1>2 DEF EmitTooLong, Inv, CommandInv
  <2> QED BY <1>1, <1>2, <2>1, EmitStopsKeeps DEF EmitTooLong
<1>3. CASE \E id \in gens : EmitInvalid(id)
  BY <1>1, <1>3, EmitStopsKeeps DEF EmitInvalid
<1> QED BY <1>2, <1>3

(* The end of a backend callback keeps the invariant. *)
LEMMA EmitReturnsKeeps == ASSUME Inv, EmitReturns PROVE Inv'
<1>1. /\ pc = "emit" /\ pc' = "idle" /\ cmd' = NoCmd
      /\ UNCHANGED <<view, storage, backend, life>>
  BY DEF EmitReturns
<1>2. /\ gens' = gens /\ ctxDone' = ctxDone /\ cancel' = cancel /\ outputErr' = outputErr
      /\ boot' = boot /\ fatal' = fatal /\ stopping' = stopping /\ closed' = closed
  BY <1>1 DEF backend, life
<1>3. TypeOK' BY <1>1, NoCmdTyped, TypeKeep DEF Inv, Places
<1>4. StorageInv' /\ snap' = snap BY <1>1, <1>2, StorageKept
<1>5. BackendInv' BY <1>1, <1>2, <1>4 DEF Inv, BackendInv, Idling, Commits, Committing
<1>6. LifeInv' BY <1>1, <1>2 DEF Inv, LifeInv, Up, Commits, Committing
<1>7. CommandInv' BY <1>1 DEF CommandInv, Commits, Committing
<1>8. ProgressInv' BY <1>1, <1>2, <1>4 DEF Inv, ProgressInv, available
<1> QED BY <1>3, <1>4, <1>5, <1>6, <1>7, <1>8 DEF Inv

(* Shutdown and a failed replay read keep the invariant. *)
LEMMA ShutdownKeeps == ASSUME Inv, Shutdown \/ ReadFails PROVE Inv'
<1>1. /\ pc = "idle" /\ ~stopping /\ ctxDone' = ctxDone \cup ({cancel} \ {NoJob})
      /\ pc' = pc /\ cmd' = cmd /\ gens' = gens /\ cancel' = cancel /\ outputErr' = outputErr
      /\ boot' = boot /\ UNCHANGED <<view, storage>>
  BY DEF Shutdown, ReadFails, CancelContext
<1>2. \/ stopping' = TRUE /\ closed' = (cancel = NoJob) /\ fatal' = fatal
      \/ stopping' = stopping /\ closed' = closed /\ fatal' = "io"
  BY DEF Shutdown, ReadFails
<1>3. gens = {cancel} \ {NoJob} /\ ctxDone \subseteq gens BY DEF Inv, BackendInv, TypeOK
<1>4. gens' \subseteq ctxDone' /\ ctxDone' \subseteq gens' BY <1>1, <1>3
<1>5. StorageInv' /\ snap' = snap BY <1>1, <1>2, StorageKept
<1>6. TypeOK'
  <2>1. closed' \in BOOLEAN /\ stopping' \in BOOLEAN /\ fatal' \in FatalCauses
    BY <1>2 DEF Inv, TypeOK, FatalCauses
  <2> QED BY <1>1, <1>4, <2>1 DEF Inv, TypeOK, Image, ReceiptMap, view, storage
<1>7. BackendInv'
  BY <1>1, <1>2, <1>4, <1>5 DEF Inv, BackendInv, Idling, Commits, Committing
<1>8. LifeInv'
  <2>1. ~boot /\ ~closed BY <1>1 DEF Inv, LifeInv, Commits, Committing
  <2>2. closed' => stopping' /\ gens' = {} BY <1>1, <1>2, <1>3, <2>1
  <2> QED BY <1>1, <2>1, <2>2 DEF LifeInv, Up, Commits, Committing
<1>9. CommandInv' BY <1>1 DEF CommandInv, Commits, Committing
<1>10. ProgressInv' BY <1>1, <1>2, <1>5 DEF Inv, ProgressInv, available
<1> QED BY <1>5, <1>6, <1>7, <1>8, <1>9, <1>10 DEF Inv

-----------------------------------------------------------------------------
(* A commit that fails. *)

(* A failed commit, with what its caller does about it, keeps the invariant. *)
LEMMA CommitFailsKeeps ==
    ASSUME Inv, Committing, NEW cause \in FatalCauses \ {"none"},
           cause = "limit" => pc = "commit", CommitFails(cause), cache' = cache
    PROVE  Inv'
<1> DEFINE poison == cause # "limit" \/ cmd.by \in {"dispatch", "complete"}
<1>1. /\ cmd' = NoCmd /\ boot' = FALSE /\ UNCHANGED <<view, storage>> /\ snap' = snap
      /\ receipts' = receipts /\ disk' = disk
      /\ gens' = gens /\ cancel' = cancel /\ stopping' = stopping
  BY DEF CommitFails, view, storage
<1>2. /\ pc \in {"commit", "sync"} /\ fatal = "none" /\ ~closed
      /\ cmd.by \in Handlers \ {"none"} /\ TypeOK
  BY DEF Inv, TypeOK, Committing, LifeInv, CommandInv, Command
<1>3. gens = {cancel} \ {NoJob} /\ ctxDone \subseteq gens BY DEF Inv, BackendInv, TypeOK
<1>4. CASE boot
  <2>1. /\ pc' = "down" /\ ctxDone' = ctxDone /\ outputErr' = outputErr /\ fatal' = fatal
        /\ closed' = closed
    BY <1>4 DEF CommitFails
  <2>2. ~stopping /\ cancel = NoJob BY <1>4 DEF Inv, LifeInv
  <2>3. TypeOK'
    BY <1>1, <1>2, <2>1, NoCmdTyped DEF TypeOK, Image, ReceiptMap, Places
  <2>4. StorageInv' BY <1>1, <2>1 DEF Inv, StorageInv
  <2>5. BackendInv' BY <1>1, <1>3, <2>1, <2>2 DEF BackendInv, Idling
  <2>6. LifeInv' BY <1>1, <1>2, <2>1, <2>2 DEF LifeInv, Up, Commits, Committing
  <2>7. CommandInv' BY <2>1 DEF CommandInv, Commits, Committing
  <2>8. ProgressInv' BY <2>1 DEF ProgressInv, Commits, Committing
  <2> QED BY <2>3, <2>4, <2>5, <2>6, <2>7, <2>8 DEF Inv
<1>5. CASE ~boot
  <2>1. /\ pc' = "idle"
        /\ fatal' = IF poison THEN cause ELSE fatal
        /\ ctxDone' = IF poison \/ cmd.by = "emit" THEN ctxDone \cup ({cancel} \ {NoJob})
                      ELSE ctxDone
        /\ outputErr' = IF cmd.by # "emit" THEN outputErr
                        ELSE IF poison THEN "storage_failure" ELSE "limit_exceeded"
        /\ closed' = (closed \/ ClosesStore)
    BY <1>5 DEF CommitFails, CancelContext
  <2>2. poison => fatal' # "none" BY <2>1
  <2>3. ASSUME ~poison
        PROVE  /\ fatal' = "none" /\ pc = "commit"
               /\ cmd.by \in {"create", "pause", "cancel", "emit"}
    <3>1. cmd.by # "recover" BY <1>2, <1>5 DEF Inv, LifeInv, Commits, Committing
    <3> QED BY <1>2, <2>1, <2>3, <3>1 DEF Handlers
  <2>4. ctxDone' \subseteq gens' BY <1>1, <1>3, <2>1
  <2>5. poison \/ cmd.by = "emit" => gens' \subseteq ctxDone' BY <1>1, <1>3, <2>1
  <2>6. ~poison /\ cmd.by # "emit" => ctxDone' = ctxDone /\ outputErr' = outputErr /\ fatal' = fatal
    BY <2>1
  <2>7. closed' => stopping /\ gens = {}
    <3>1. ClosesStore => stopping /\ cmd.by = "complete" BY DEF ClosesStore
    <3>2. cmd.by = "complete" => cancel = NoJob BY DEF Inv, BackendInv, Idling, Commits
    <3> QED BY <1>2, <1>3, <2>1, <3>1, <3>2
  <2>8. TypeOK'
    <3>1. outputErr' \in JobErrors \cup {"storage_failure"}
      BY <1>2, <2>1 DEF TypeOK, JobErrors, PublicBackendErrors
    <3>2. closed' \in BOOLEAN BY <2>1
    <3>3. fatal' \in FatalCauses BY <1>2, <2>1 DEF TypeOK
    <3> QED BY <1>1, <1>2, <2>1, <2>4, <3>1, <3>2, <3>3, NoCmdTyped
            DEF TypeOK, Image, ReceiptMap, Places
  <2> HIDE DEF poison
  <2>9. StorageInv'
    <3>1. pc \notin {"down", "sync"} /\ fatal = "none" =>
              cache.snap = snap /\ cache.receipts = receipts
      BY DEF Inv, StorageInv
    <3>2. fatal' = "none" => cache'.snap = snap' /\ cache'.receipts = receipts'
      BY <1>1, <1>2, <2>2, <2>3, <3>1
    <3> QED BY <1>1, <2>1, <3>2 DEF Inv, StorageInv
  <2>10. BackendInv'
    <3>1. fatal' = "none" => cancel' = snap'.queue.active
      BY <1>1, <1>2, <2>2, <2>3 DEF Inv, BackendInv, Idling, Commits, Committing
    <3>2. ~poison /\ cmd.by # "emit" =>
            ((\/ stopping
              \/ fatal # "none"
              \/ outputErr # NoError
              \/ \E id \in gens : snap.jobs[id].state = "cancelling")' => gens' \subseteq ctxDone')
      BY <1>1, <2>6 DEF Inv, BackendInv
    <3> QED BY <1>1, <1>3, <2>1, <2>5, <3>1, <3>2 DEF BackendInv, Idling, Commits, Committing
  <2>11. LifeInv' BY <1>1, <2>1, <2>7 DEF LifeInv, Up, Commits, Committing
  <2>12. CommandInv' BY <2>1 DEF CommandInv, Commits, Committing
  <2>13. ProgressInv'
    BY <1>1, <1>2, <2>2, <2>3 DEF Inv, ProgressInv, available, Commits, Committing
  <2> QED BY <2>8, <2>9, <2>10, <2>11, <2>12, <2>13 DEF Inv
<1> QED BY <1>4, <1>5

(* Each way a commit can fail keeps the invariant. *)
LEMMA FailureKeeps == ASSUME Inv, CommitRefused \/ OverLimit \/ WriteFails \/ SyncFails PROVE Inv'
<1>1. CASE CommitRefused
  <2>1. /\ Committing /\ pc = "commit" /\ cache' = cache
        /\ \E cause \in {"exhausted", "refused"} : CommitFails(cause)
    BY <1>1 DEF CommitRefused, Committing
  <2> QED BY <2>1, CommitFailsKeeps DEF FatalCauses
<1>2. CASE OverLimit
  BY <1>2, CommitFailsKeeps DEF OverLimit, Committing, FatalCauses
<1>3. CASE WriteFails
  BY <1>3, CommitFailsKeeps DEF WriteFails, Committing, FatalCauses
<1>4. CASE SyncFails
  BY <1>4, CommitFailsKeeps DEF SyncFails, Committing, FatalCauses
<1> QED BY <1>1, <1>2, <1>3, <1>4

-----------------------------------------------------------------------------
(* A commit that succeeds. *)

(* Receipts extended by a receipt are receipts. *)
LEMMA WithReceiptTyped ==
    ASSUME NEW rs, ReceiptMap(rs), NEW receipt \in SUBSET Receipt
    PROVE  ReceiptMap(WithReceipt(rs, receipt))
<1> DEFINE keys == {r.key : r \in receipt}
           new == WithReceipt(rs, receipt)
<1>1. DOMAIN new = DOMAIN rs \cup keys BY DEF WithReceipt
<1>2. keys \subseteq Keys BY DEF Receipt
<1>3. ASSUME NEW k \in DOMAIN new PROVE new[k] \in Receipt
  <2>1. CASE k \in keys
    <3>1. receipt # {} BY <2>1
    <3>2. (CHOOSE r \in receipt : TRUE) \in receipt BY <3>1
    <3> QED BY <1>3, <2>1, <3>2 DEF WithReceipt
  <2>2. CASE k \notin keys
    BY <1>1, <1>3, <2>2 DEF WithReceipt, ReceiptMap
  <2> QED BY <2>1, <2>2
<1>4. new = [k \in DOMAIN new |-> new[k]] BY DEF WithReceipt
<1> HIDE DEF new, keys
<1>5. new \in [DOMAIN new -> Receipt] BY <1>3, <1>4
<1> QED BY <1>1, <1>2, <1>5 DEF ReceiptMap, new

(* Writing the frame keeps the invariant. *)
LEMMA WriteKeeps == ASSUME Inv, Write PROVE Inv'
<1>1. /\ pc = "commit" /\ pc' = "sync" /\ CommitOK /\ cmd' = cmd
      /\ cache' = [snap     |-> ApplyCommit(cache.snap, cmd.events, cmd.receipt).snap,
                   receipts |-> WithReceipt(cache.receipts, cmd.receipt)]
      /\ snap' = snap /\ receipts' = receipts /\ disk' = disk
      /\ gens' = gens /\ ctxDone' = ctxDone /\ cancel' = cancel /\ outputErr' = outputErr
      /\ boot' = boot /\ fatal' = fatal /\ stopping' = stopping /\ closed' = closed
  BY DEF Write, view, backend, life
<1>2. cache.snap = snap /\ cache.receipts = receipts /\ Sound(snap) /\ Sound(disk.snap)
  BY <1>1 DEF Inv, StorageInv, LifeInv
<1>3. cache'.snap = Applied.snap /\ cache'.receipts = WithReceipt(receipts, cmd.receipt)
  BY <1>1, <1>2 DEF Applied
<1>4. TypeOK /\ cmd.events \in Seq(Events) /\ Len(cmd.events) \in {1, 2}
      /\ cmd.receipt \in SUBSET Receipt
  BY <1>1 DEF Inv, TypeOK, Command, CommandInv, Committing
<1>5. Sound(Applied.snap) BY <1>2, <1>4, CommitSound DEF Applied
<1>6. Applied' = Applied /\ Exhausted' = Exhausted BY <1>1 DEF Applied, Exhausted
<1>7. StorageInv'
  BY <1>1, <1>2, <1>3, <1>5, <1>6 DEF StorageInv, CommitOK
<1>8. TypeOK'
  <2>1. DOMAIN cache' = {"snap", "receipts"} BY <1>1
  <2>2. ReceiptMap(WithReceipt(receipts, cmd.receipt)) BY <1>4, WithReceiptTyped DEF TypeOK
  <2>3. Image(cache)' BY <1>3, <1>5, <2>2 DEF Image, Sound, ReceiptMap
  <2>4. Image(disk)' /\ ReceiptMap(receipts)' BY <1>1, <1>4 DEF TypeOK, Image, ReceiptMap
  <2> QED BY <1>1, <1>4, <2>1, <2>3, <2>4 DEF TypeOK, Places
<1>9. BackendInv' BY <1>1 DEF Inv, BackendInv, Idling, Commits, Committing
<1>10. LifeInv' BY <1>1 DEF Inv, LifeInv, Up, Commits, Committing
<1>11. CommandInv'
  <2>1. cmd.job \in gens \/ cmd.by # "emit" BY <1>1 DEF Inv, CommandInv, Commits, Committing
  <2> QED BY <1>1, <1>6, <2>1 DEF Inv, CommandInv, Commits, Committing
<1>12. ProgressInv' BY <1>1 DEF Inv, ProgressInv, available, Commits, Committing
<1> QED BY <1>7, <1>8, <1>9, <1>10, <1>11, <1>12 DEF Inv

(* File.Sync, publication and what the handler does next keep the invariant. *)
LEMMA SyncKeeps == ASSUME Inv, Sync PROVE Inv'
<1>1. /\ pc = "sync" /\ disk' = cache /\ cache' = cache /\ snap' = Applied.snap
      /\ receipts' = WithReceipt(receipts, cmd.receipt)
      /\ fatal' = fatal /\ stopping' = stopping /\ AfterPublish
  BY DEF Sync
<1>2. /\ Applied.ok /\ snap' = cache.snap /\ receipts' = cache.receipts
      /\ Sound(cache.snap) /\ Sound(snap)
  BY <1>1 DEF Inv, StorageInv
<1>3. /\ TypeOK /\ cmd \in Command /\ fatal = "none" /\ ~closed /\ Committing
      /\ cmd.by \in Handlers \ {"none"} /\ cmd.job \in Nat
  BY <1>1 DEF Inv, TypeOK, Command, CommandInv, LifeInv, Committing
<1>4. /\ pc' = Continuation
      /\ cmd' = IF cmd.by = "emit" THEN [cmd EXCEPT !.events = <<>>] ELSE NoCmd
      /\ closed' = (closed \/ ClosesStore)
      /\ cmd.by = "dispatch" => /\ gens' = gens \cup {cmd.job} /\ cancel' = cmd.job
                                /\ outputErr' = NoError /\ boot' = FALSE
      /\ cmd.by # "dispatch" => /\ gens' = gens /\ cancel' = cancel
                                /\ outputErr' = outputErr /\ boot' = boot
      /\ ctxDone' = IF cmd.by = "cancel" /\ snap'.jobs[cmd.job].state = "cancelling"
                    THEN ctxDone \cup ({cancel} \ {NoJob}) ELSE ctxDone
  BY <1>1 DEF AfterPublish, CancelContext
<1>5. /\ cmd.by = "emit" => pc' = "emit"
      /\ cmd.by \in {"create", "pause", "recover"} => pc' = "dispatch"
      /\ cmd.by = "complete" => pc' = IF stopping THEN "idle" ELSE "dispatch"
      /\ cmd.by \in {"dispatch", "cancel"} => pc' = "idle"
  BY <1>4 DEF Continuation
<1>6. pc' \in {"idle", "emit", "dispatch"} BY <1>3, <1>5 DEF Handlers
<1>7. gens = {cancel} \ {NoJob} /\ ctxDone \subseteq gens BY DEF Inv, BackendInv, TypeOK
<1>8. /\ cmd.by \in {"create", "pause", "cancel", "emit"} =>
            snap'.queue.active = snap.queue.active /\ cancel = snap.queue.active
      /\ cmd.by \in {"complete", "recover"} => snap'.queue.active = NoJob /\ cancel = NoJob
      /\ cmd.by = "dispatch" => /\ snap.queue.active = NoJob /\ cancel = NoJob
                                /\ cmd.job # NoJob /\ snap'.queue.active = cmd.job
                                /\ snap'.jobs[cmd.job].state = "running"
  BY <1>1, <1>2, <1>3 DEF Inv, CommandInv, BackendInv, Idling, Commits
<1>9. StorageInv' BY <1>1, <1>2, <1>6 DEF StorageInv
<1>10. ctxDone' \subseteq gens' /\ gens' = {cancel'} \ {NoJob}
  <2>1. CASE cmd.by = "dispatch" BY <1>4, <1>7, <1>8, <2>1
  <2>2. CASE cmd.by # "dispatch" BY <1>4, <1>7, <2>2
  <2> QED BY <2>1, <2>2
<1>11. TypeOK'
  <2>1. cmd' \in Command
    <3>1. CASE cmd.by = "emit"
      <4>1. <<>> \in Seq(Events) OBVIOUS
      <4> QED BY <1>3, <1>4, <3>1, <4>1 DEF Command
    <3>2. CASE cmd.by # "emit" BY <1>4, <3>2, NoCmdTyped
    <3> QED BY <3>1, <3>2
  <2>2. gens' \subseteq JobIDs /\ cancel' \in Nat BY <1>3, <1>4, <1>8 DEF TypeOK
  <2>3. snap' \in Snapshot /\ ReceiptMap(receipts)' /\ Image(cache)' /\ Image(disk)'
    BY <1>1, <1>2, <1>3 DEF Sound, TypeOK, Image, ReceiptMap
  <2>4. outputErr' \in JobErrors \cup {"storage_failure"} /\ boot' \in BOOLEAN
    BY <1>3, <1>4 DEF TypeOK, JobErrors
  <2>5. closed' \in BOOLEAN /\ pc' \in Places BY <1>4, <1>6 DEF Places
  <2> QED BY <1>1, <1>3, <1>10, <2>1, <2>2, <2>3, <2>4, <2>5 DEF TypeOK
<1>12. BackendInv'
  <2>1. cancel' = snap'.queue.active BY <1>3, <1>4, <1>8 DEF Handlers
  <2>2. ASSUME \/ stopping' \/ fatal' # "none" \/ outputErr' # NoError
               \/ \E id \in gens' : snap'.jobs[id].state = "cancelling"
        PROVE  gens' \subseteq ctxDone'
    <3>1. CASE cmd.by = "dispatch"
      <4>1. ~stopping BY <1>1, <3>1 DEF Inv, LifeInv, Commits, Committing
      <4> QED BY <1>1, <1>3, <1>4, <1>7, <1>8, <2>2, <3>1, <4>1
    <3>2. CASE cmd.by \in {"complete", "recover"} BY <1>4, <1>7, <1>8, <3>2
    <3>3. CASE cmd.by \in {"create", "pause", "cancel", "emit"}
      <4>1. CASE cmd.by = "cancel" /\ snap'.jobs[cmd.job].state = "cancelling"
        BY <1>4, <1>7, <4>1
      <4>2. CASE ~(cmd.by = "cancel" /\ snap'.jobs[cmd.job].state = "cancelling")
        <5>1. /\ gens' = gens /\ ctxDone' = ctxDone /\ outputErr' = outputErr
              /\ fatal' = fatal /\ stopping' = stopping
          BY <1>1, <1>4, <3>3, <4>2
        <5>2. ASSUME NEW id \in gens, snap'.jobs[id].state = "cancelling"
              PROVE  snap.jobs[id].state = "cancelling"
          <6>1. id = snap.queue.active /\ id # NoJob BY <1>7, <1>8, <3>3
          <6>2. id \in DOMAIN snap.jobs BY <1>2, <6>1, SoundParts DEF ActiveMatches
          <6> QED BY <1>1, <1>2, <1>3, <4>2, <5>2, <6>2 DEF Inv, CommandInv
        <5> QED BY <2>2, <5>1, <5>2 DEF Inv, BackendInv
      <4> QED BY <4>1, <4>2
    <3> QED BY <1>3, <3>1, <3>2, <3>3 DEF Handlers
  <2> QED BY <1>6, <1>10, <2>1, <2>2 DEF BackendInv, Idling, Commits, Committing
<1>13. LifeInv'
  <2>1. stopping => cmd.by \in {"emit", "complete"} BY <1>1 DEF Inv, LifeInv, Commits
  <2>2. boot => cmd.by \in {"recover", "dispatch"} /\ ~stopping /\ cancel = NoJob
    BY <1>1 DEF Inv, LifeInv, Commits
  <2>3. closed' => stopping /\ gens' = {} /\ pc' = "idle"
    <3>1. closed' => cmd.by = "complete" /\ stopping BY <1>3, <1>4 DEF ClosesStore, TypeOK
    <3> QED BY <1>4, <1>5, <1>7, <1>8, <3>1
  <2>4. boot' => boot /\ cmd.by = "recover" BY <1>4, <2>2
  <2> QED BY <1>1, <1>3, <1>4, <1>5, <1>6, <2>1, <2>2, <2>3, <2>4
          DEF LifeInv, Up, Commits, Committing
<1>14. CommandInv'
  <2>1. pc' = "emit" => cmd.by = "emit" BY <1>3, <1>5 DEF Handlers
  <2>2. cmd.by = "emit" => cmd.job \in gens BY <1>3 DEF Inv, CommandInv, Commits
  <2>3. cmd.by = "emit" => cmd'.job = cmd.job BY <1>3, <1>4 DEF Command
  <2> QED BY <1>4, <1>6, <2>1, <2>2, <2>3 DEF CommandInv, Commits, Committing
<1>15. ProgressInv'
  <2>1. CASE cmd.by = "dispatch" BY <1>8, <2>1 DEF ProgressInv
  <2>2. CASE cmd.by \in {"create", "pause", "recover"}
    BY <1>5, <2>2 DEF ProgressInv, Commits, Committing
  <2>3. CASE cmd.by = "complete"
    BY <1>1, <1>5, <2>3 DEF ProgressInv, Commits, Committing, available
  <2>4. CASE cmd.by \in {"cancel", "emit"}
    <3>1. /\ snap'.queue.paused = snap.queue.paused
          /\ snap'.queue.pending # <<>> => snap.queue.pending # <<>>
      BY <1>1, <1>2, <1>3, <2>4 DEF Inv, CommandInv
    <3>2. available /\ ~snap.queue.paused /\ snap.queue.pending # <<>> => snap.queue.active # NoJob
      BY <1>3, <2>4 DEF Inv, ProgressInv, Commits
    <3> QED BY <1>1, <1>8, <2>4, <3>1, <3>2 DEF ProgressInv, available
  <2> QED BY <1>3, <2>1, <2>2, <2>3, <2>4 DEF Handlers
<1> QED BY <1>9, <1>11, <1>12, <1>13, <1>14, <1>15 DEF Inv

-----------------------------------------------------------------------------
(* The process dies and starts again. *)

(* Death of the process or loss of power keeps the invariant. *)
LEMMA CrashKeeps == ASSUME Inv, Crash \/ PowerFails PROVE Inv'
<1>1. /\ pc' = "down" /\ cmd' = NoCmd /\ gens' = {} /\ ctxDone' = {} /\ cancel' = NoJob
      /\ outputErr' = NoError /\ boot' = FALSE /\ fatal' = "none" /\ stopping' = FALSE
      /\ closed' = FALSE /\ snap' = snap /\ receipts' = receipts
      /\ cache' \in {cache, disk} /\ disk' \in {cache, disk}
  BY DEF Crash, PowerFails, Vanish, view, storage
<1>2. TypeOK'
  <2>1. DOMAIN cache' = {"snap", "receipts"} /\ Image(cache)' BY <1>1 DEF Inv, TypeOK, Image, ReceiptMap
  <2>2. DOMAIN disk' = {"snap", "receipts"} /\ Image(disk)' BY <1>1 DEF Inv, TypeOK, Image, ReceiptMap
  <2> QED BY <1>1, <2>1, <2>2, NoCmdTyped
          DEF Inv, TypeOK, ReceiptMap, Places, JobErrors, FatalCauses
<1>3. StorageInv' BY <1>1 DEF Inv, StorageInv
<1>4. BackendInv' BY <1>1 DEF BackendInv, Idling
<1>5. LifeInv' BY <1>1 DEF LifeInv, Up, Commits, Committing
<1>6. CommandInv' BY <1>1 DEF CommandInv, Commits, Committing
<1>7. ProgressInv' BY <1>1 DEF ProgressInv, Commits, Committing
<1> QED BY <1>2, <1>3, <1>4, <1>5, <1>6, <1>7 DEF Inv

(* Reopening the journal keeps the invariant. *)
LEMMA RestartKeeps == ASSUME Inv, Restart PROVE Inv'
<1>1. /\ pc = "down" /\ snap' = cache.snap /\ receipts' = cache.receipts /\ boot' = TRUE
      /\ pc' = StartAt(cache) /\ cache' = cache /\ disk' = disk /\ cmd' = cmd
      /\ gens' = gens /\ ctxDone' = ctxDone /\ cancel' = cancel /\ outputErr' = outputErr
      /\ fatal' = fatal /\ stopping' = stopping /\ closed' = closed
  BY DEF Restart, storage, backend
<1>2. ~stopping /\ fatal = "none" /\ cancel = NoJob /\ gens = {} /\ ~closed /\ TypeOK
  BY <1>1 DEF Inv, LifeInv, BackendInv, Up
<1>3. /\ pc' \in {"recover", "dispatch"}
      /\ pc' = "recover" <=> cache.snap.queue.active # NoJob
  BY <1>1 DEF StartAt
<1>4. TypeOK' BY <1>1, <1>2, <1>3 DEF TypeOK, Image, ReceiptMap, Places
<1>5. StorageInv' BY <1>1, <1>3 DEF Inv, StorageInv
<1>6. BackendInv' BY <1>1, <1>2, <1>3 DEF BackendInv, Idling, Commits, Committing
<1>7. LifeInv' BY <1>1, <1>2, <1>3 DEF LifeInv, Up, Commits, Committing
<1>8. CommandInv' BY <1>3 DEF CommandInv, Commits, Committing
<1>9. ProgressInv' BY <1>3 DEF ProgressInv, Commits, Committing
<1> QED BY <1>4, <1>5, <1>6, <1>7, <1>8, <1>9 DEF Inv

-----------------------------------------------------------------------------
(* The theorems. *)

(* The invariant holds of a fresh journal with no process. *)
LEMMA InitInv == Init => Inv
<1> SUFFICES ASSUME Init PROVE Inv OBVIOUS
<1>1. /\ snap = EmptySnapshot /\ receipts = <<>> /\ cache = Recovery /\ disk = Recovery
      /\ pc = "down" /\ cmd = NoCmd /\ gens = {} /\ ctxDone = {} /\ cancel = NoJob
      /\ outputErr = NoError /\ boot = FALSE /\ fatal = "none" /\ stopping = FALSE
      /\ closed = FALSE
  BY DEF Init
<1>2. /\ DOMAIN Recovery = {"snap", "receipts"} /\ Recovery.snap = EmptySnapshot
      /\ Recovery.receipts = <<>>
  BY DEF Recovery
<1>3. ReceiptMap(<<>>) BY DEF ReceiptMap
<1>4. Sound(EmptySnapshot)
  BY EmptyTyped DEF Sound, EmptySnapshot, QueueMatches, PendingMatches, ActiveMatches
<1>5. TypeOK
  <2>1. Image(Recovery) BY <1>2, <1>3, EmptyTyped DEF Image
  <2> QED BY <1>1, <1>2, <1>3, <2>1, EmptyTyped, NoCmdTyped
          DEF TypeOK, Places, JobErrors, FatalCauses
<1>6. StorageInv BY <1>1, <1>2, <1>4 DEF StorageInv
<1>7. BackendInv BY <1>1 DEF BackendInv, Idling
<1>8. LifeInv BY <1>1 DEF LifeInv, Up, Commits, Committing
<1>9. CommandInv BY <1>1 DEF CommandInv, Commits, Committing
<1>10. ProgressInv BY <1>1 DEF ProgressInv, Commits, Committing
<1> QED BY <1>5, <1>6, <1>7, <1>8, <1>9, <1>10 DEF Inv

(* A stuttering step keeps the invariant. *)
LEMMA StutterKeeps == ASSUME Inv, UNCHANGED vars PROVE Inv'
<1>1. /\ snap' = snap /\ receipts' = receipts /\ cache' = cache /\ disk' = disk
      /\ pc' = pc /\ cmd' = cmd
      /\ gens' = gens /\ ctxDone' = ctxDone /\ cancel' = cancel /\ outputErr' = outputErr
      /\ boot' = boot /\ fatal' = fatal /\ stopping' = stopping /\ closed' = closed
  BY DEF vars, view, storage, backend, life
<1>2. Applied' = Applied /\ Exhausted' = Exhausted BY <1>1 DEF Applied, Exhausted
<1>3. TypeOK' BY <1>1 DEF Inv, TypeOK, Image, ReceiptMap
<1>4. StorageInv' BY <1>1, <1>2 DEF Inv, StorageInv
<1>5. BackendInv' BY <1>1 DEF Inv, BackendInv, Idling, Commits, Committing
<1>6. LifeInv' BY <1>1 DEF Inv, LifeInv, Up, Commits, Committing
<1>7. CommandInv' BY <1>1, <1>2 DEF Inv, CommandInv, Commits, Committing
<1>8. ProgressInv' BY <1>1 DEF Inv, ProgressInv, available, Commits, Committing
<1> QED BY <1>3, <1>4, <1>5, <1>6, <1>7, <1>8 DEF Inv

(* Every step of the worker keeps the invariant. *)
LEMMA NextKeeps == Inv /\ [Next]_vars => Inv'
<1> SUFFICES ASSUME Inv, [Next]_vars PROVE Inv' OBVIOUS
<1>1. CASE CommitStep BY <1>1, FailureKeeps, WriteKeeps, SyncKeeps DEF CommitStep
<1>2. CASE HandlerStep
  BY <1>2, dispatchKeeps, NothingKeeps, EmitChunkKeeps, EmitRefusedKeeps, EmitReturnsKeeps,
     RecoverKeeps DEF HandlerStep
<1>3. CASE Request
  BY <1>3, SubmitKeeps, CancelKeeps, PauseKeeps, ShutdownKeeps DEF Request, CancelAny, PauseAny
<1>4. CASE BackendStep
  <2>1. CASE EmitAny
    <3>1. PICK id \in gens, chunks \in 1..MaxPiece : emit(id, chunks) BY <2>1 DEF EmitAny
    <3>2. chunks \in Nat BY PieceAssumption
    <3> QED BY <3>1, <3>2, emitKeeps
  <2>2. CASE EmitInvalidAny BY <2>2, EmitRefusedKeeps DEF EmitInvalidAny
  <2>3. CASE CompleteAny BY <2>3, CompleteKeeps DEF CompleteAny
  <2> QED BY <1>4, <2>1, <2>2, <2>3 DEF BackendStep
<1>5. CASE Failure BY <1>5, CrashKeeps, RestartKeeps DEF Failure
<1>6. CASE UNCHANGED vars BY <1>6, StutterKeeps
<1> QED BY <1>1, <1>2, <1>3, <1>4, <1>5, <1>6 DEF Next

(* The inductive invariant holds in every state the worker, its journal and its backend reach. *)
THEOREM WorkerInvariant == Spec => []Inv
BY InitInv, NextKeeps, PTL DEF Spec

(* Every variable keeps its type: the snapshot and both journal images are well formed, a context
   is cancelled only for a Generate that runs. *)
THEOREM TypeCorrect == Spec => []TypeOK
<1>1. Inv => TypeOK BY DEF Inv
<1> QED BY <1>1, WorkerInvariant, PTL

(* No handler builds a transaction that ApplyCommit refuses, in the worker or in the journal: the
   "invalid journal transaction" poisoning of commit is dead code. *)
THEOREM TransactionsAccepted == Spec => []CommitsAccepted
<1>1. Inv => CommitsAccepted
  <2> SUFFICES ASSUME Inv, pc = "commit", ~Exhausted PROVE Applied.ok /\ AppendAccepts
    BY DEF CommitsAccepted
  <2>1. Applied.ok BY DEF Inv, CommandInv, Committing
  <2>2. cache.snap = snap /\ cache.receipts = receipts BY DEF Inv, StorageInv, LifeInv
  <2>3. \A r \in cmd.receipt : r.key \notin DOMAIN receipts BY DEF Inv, CommandInv, Committing
  <2> QED BY <2>1, <2>2, <2>3 DEF AppendAccepts, Applied
<1> QED BY <1>1, WorkerInvariant, PTL

(* At most one Generate runs, w.cancel is its cancel function, and between handlers of a healthy
   worker it is the job the queue calls active. *)
THEOREM OneInference == Spec => []SingleInference
<1>1. Inv => SingleInference
  BY DEF Inv, BackendInv, SingleInference, Idling, Commits, Committing
<1> QED BY <1>1, WorkerInvariant, PTL

(* Cancel, Shutdown, poisoning and refused output always reach the context of the inference that
   runs. *)
THEOREM StopDelivered == Spec => []StopReachesBackend
<1>1. Inv => StopReachesBackend
  BY DEF Inv, BackendInv, StopReachesBackend
<1> QED BY <1>1, WorkerInvariant, PTL

(* Between handlers a healthy, unpaused worker with pending work has a job active: no handler
   forgets dispatch. *)
THEOREM NeverIdleWithWork == Spec => []WorkConserving
<1>1. Inv => WorkConserving
  BY DEF Inv, ProgressInv, WorkConserving
<1> QED BY <1>1, WorkerInvariant, PTL

(* The journal is closed only after the last inference returned and with no handler in the middle
   of a transaction. *)
THEOREM CloseIsSafe == Spec => []ClosedIsQuiet
<1>1. Inv => ClosedIsQuiet
  BY DEF Inv, LifeInv, ClosedIsQuiet
<1> QED BY <1>1, WorkerInvariant, PTL
=============================================================================
