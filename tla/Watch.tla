-------------------------------- MODULE Watch --------------------------------
(***************************************************************************)
(* Event streams (internal/core/watch.go): Watch replays the journal up to *)
(* where it stood when the stream was made (through) and then serves the   *)
(* events the worker pushed meanwhile, from a bounded backlog.             *)
(*                                                                         *)
(* The worker is reduced to what streams meet: commits that publish one or *)
(* two events, poisoning, Shutdown and closeStore.  pushing is what the    *)
(* holder of w.mu has still to push, so pushing = <<>> means w.mu is free. *)
(* A stream has s.mu of its own; Next lets go of it around ReadEvents and  *)
(* around its wait, and every step below is one critical section.  An      *)
(* event is its sequence number and its encoded size.                      *)
(***************************************************************************)
EXTENDS Integers, Sequences, FiniteSets, FiniteSetsExt

CONSTANTS
    Streams,            \* stream objects, each made at most once
    MaxSeq,             \* events published in a behaviour
    MaxObserverEvents,  \* bound of a backlog (256 in the code)
    MaxObserverBytes,   \* bound of its encoded size (32 MiB in the code)
    MaxEventSize        \* no event is larger (16 MiB in the code)

ASSUME StreamAssumption ==
    /\ {MaxSeq, MaxObserverEvents, MaxObserverBytes, MaxEventSize} \subseteq Nat \ {0}
    /\ MaxEventSize <= MaxObserverBytes

VARIABLES
    seq,        \* w.state.Cursor.Sequence
    records,    \* the journal's index: first and last sequence of each frame
    pushing,    \* events the commit under way has still to push
    fatal,      \* w.fatal, by cause
    stopping,   \* w.stopping
    closed,     \* w.closed; the journal is closed with it
    poisoned,   \* j.poisoned
    observers,  \* w.observers
    cursor, through, queue, bytes, wake,  \* the fields of each stream
    ended,      \* closed and err: "no", "eof" (nil), "slow" or "fatal"
    at,         \* where the stream's Next is: "none" before Watch, "out" between calls
    start,      \* the cursor Watch was called with
    seen,       \* what Next has returned
    answer      \* how the last Next ended

owner  == <<seq, records, pushing, fatal, stopping, closed, poisoned>>
stream == <<cursor, through, queue, bytes, wake, ended>>
client == <<at, start, seen, answer>>
vars   == <<owner, observers, stream, client>>

Init ==
    /\ seq = 0 /\ records = <<>> /\ pushing = <<>>
    /\ fatal = "none" /\ stopping = FALSE /\ closed = FALSE /\ poisoned = FALSE
    /\ observers = {}
    /\ cursor = [s \in Streams |-> 0] /\ through = [s \in Streams |-> 0]
    /\ queue = [s \in Streams |-> <<>>] /\ bytes = [s \in Streams |-> 0]
    /\ wake = [s \in Streams |-> FALSE] /\ ended = [s \in Streams |-> "no"]
    /\ at = [s \in Streams |-> "none"] /\ start = [s \in Streams |-> 0]
    /\ seen = [s \in Streams |-> <<>>] /\ answer = [s \in Streams |-> "none"]

Free == pushing = <<>>
available == fatal = "none" /\ ~stopping

-----------------------------------------------------------------------------
(* finish, for a set of streams: the backlog is dropped and a waiting Next is woken. *)

(* Mutant: a waiting Next is not woken. *)
finishQuietly(ss, how) ==
    LET open == {s \in ss : ended[s] = "no"}
    IN  /\ ended' = [s \in Streams |-> IF s \in open THEN how ELSE ended[s]]
        /\ queue' = [s \in Streams |-> IF s \in open THEN <<>> ELSE queue[s]]
        /\ bytes' = [s \in Streams |-> IF s \in open THEN 0 ELSE bytes[s]]
        /\ UNCHANGED <<wake, cursor, through>>

finish(ss, how) ==
    LET open == {s \in ss : ended[s] = "no"}
    IN  /\ ended' = [s \in Streams |-> IF s \in open THEN how ELSE ended[s]]
        /\ queue' = [s \in Streams |-> IF s \in open THEN <<>> ELSE queue[s]]
        /\ bytes' = [s \in Streams |-> IF s \in open THEN 0 ELSE bytes[s]]
        /\ wake' = [s \in Streams |-> wake[s] \/ s \in open]
        /\ UNCHANGED <<cursor, through>>

poison(cause) ==
    /\ fatal' = cause
    /\ finish(observers, "fatal")
    /\ observers' = {}

(* Mutant: replay ends one event early. *)
WatchEarly(s, c) ==
    /\ Free /\ available
    /\ at[s] = "none"
    /\ observers' = observers \cup {s}
    /\ cursor' = [cursor EXCEPT ![s] = c]
    /\ through' = [through EXCEPT ![s] = IF seq > c THEN seq - 1 ELSE seq]
    /\ start' = [start EXCEPT ![s] = c]
    /\ at' = [at EXCEPT ![s] = "out"]
    /\ UNCHANGED <<owner, queue, bytes, wake, ended, seen, answer>>

(* A cursor beyond the worker's, or of another store, is refused. *)
watch(s, c) ==
    /\ Free /\ available
    /\ at[s] = "none"
    /\ observers' = observers \cup {s}
    /\ cursor' = [cursor EXCEPT ![s] = c]
    /\ through' = [through EXCEPT ![s] = seq]
    /\ start' = [start EXCEPT ![s] = c]
    /\ at' = [at EXCEPT ![s] = "out"]
    /\ UNCHANGED <<owner, queue, bytes, wake, ended, seen, answer>>

-----------------------------------------------------------------------------
(* The worker. *)

(* commit succeeded: the journal has the frame and w.state is the new snapshot. *)
Publish(n) ==
    /\ Free
    /\ fatal = "none" /\ ~closed /\ ~poisoned
    /\ seq + n <= MaxSeq
    /\ seq' = seq + n
    /\ records' = Append(records, [first |-> seq + 1, last |-> seq + n])
    /\ pushing' = [i \in 1..n |-> seq + i]
    /\ UNCHANGED <<fatal, stopping, closed, poisoned, observers, stream, client>>

(* Mutant: the backlog is checked after the append. *)
OverflowsLate(s, size) == Len(queue[s]) > MaxObserverEvents \/ bytes[s] > MaxObserverBytes

Overflows(s, size) == Len(queue[s]) >= MaxObserverEvents \/ size > MaxObserverBytes - bytes[s]

(* Mutant: a stream whose backlog overflowed stays registered. *)
PushLeaks(size) ==
    LET slow == {s \in observers : Overflows(s, size)}
        fed == {s \in observers : ended[s] = "no"} \ slow
    IN  /\ pushing # <<>>
        /\ pushing' = Tail(pushing)
        /\ ended' = [s \in Streams |-> IF s \in slow THEN "slow" ELSE ended[s]]
        /\ queue' = [s \in Streams |-> IF s \in slow THEN <<>>
                       ELSE IF s \in fed
                       THEN Append(queue[s], [seq |-> Head(pushing), size |-> size]) ELSE queue[s]]
        /\ bytes' = [s \in Streams |-> IF s \in slow THEN 0
                       ELSE IF s \in fed THEN bytes[s] + size ELSE bytes[s]]
        /\ wake' = [s \in Streams |-> wake[s] \/ s \in slow \cup fed]
        /\ UNCHANGED <<seq, records, fatal, stopping, closed, poisoned, cursor, through, client,
                       observers>>

(* Mutant: push does not signal. *)
PushSilently(size) ==
    LET slow == {s \in observers : Overflows(s, size)}
        fed == observers \ slow
    IN  /\ pushing # <<>>
        /\ pushing' = Tail(pushing)
        /\ ended' = [s \in Streams |-> IF s \in slow THEN "slow" ELSE ended[s]]
        /\ queue' = [s \in Streams |-> IF s \in slow THEN <<>>
                       ELSE IF s \in fed
                       THEN Append(queue[s], [seq |-> Head(pushing), size |-> size]) ELSE queue[s]]
        /\ bytes' = [s \in Streams |-> IF s \in slow THEN 0
                       ELSE IF s \in fed THEN bytes[s] + size ELSE bytes[s]]
        /\ observers' = fed
        /\ UNCHANGED <<seq, records, fatal, stopping, closed, poisoned, cursor, through, client,
                       wake>>

(* push, of one event to every observer; one that overflows is closed and forgotten. *)
push(size) ==
    LET slow == {s \in observers : Overflows(s, size)}
        fed == observers \ slow
    IN  /\ pushing # <<>>
        /\ pushing' = Tail(pushing)
        /\ ended' = [s \in Streams |-> IF s \in slow THEN "slow" ELSE ended[s]]
        /\ queue' = [s \in Streams |->
                       IF s \in slow THEN <<>>
                       ELSE IF s \in fed
                       THEN Append(queue[s], [seq |-> Head(pushing), size |-> size])
                       ELSE queue[s]]
        /\ bytes' = [s \in Streams |-> IF s \in slow THEN 0
                                       ELSE IF s \in fed THEN bytes[s] + size ELSE bytes[s]]
        /\ wake' = [s \in Streams |-> wake[s] \/ s \in observers]
        /\ observers' = fed
        /\ UNCHANGED <<seq, records, fatal, stopping, closed, poisoned, cursor, through, client>>

(* commit failed and poisoned the worker; the journal too when the write was ambiguous. *)
CommitFails ==
    /\ Free
    /\ fatal = "none" /\ ~closed
    /\ poisoned' \in {poisoned, TRUE}
    /\ poison("commit")
    /\ UNCHANGED <<seq, records, pushing, stopping, closed, client>>

closeStore ==
    /\ closed' = TRUE
    /\ finish(observers, "eof")
    /\ observers' = {}

(* Shutdown closes the store at once if no inference runs. *)
Shutdown ==
    /\ Free
    /\ ~stopping
    /\ stopping' = TRUE
    /\ closeStore \/ UNCHANGED <<closed, observers, stream>>
    /\ UNCHANGED <<seq, records, pushing, fatal, poisoned, client>>

(* Otherwise complete closes it when the inference has returned. *)
LastCompletes ==
    /\ Free
    /\ stopping /\ ~closed
    /\ closeStore
    /\ UNCHANGED <<seq, records, pushing, fatal, stopping, poisoned, client>>

(* Close, called by the client or because the context of Watch is done. *)
Close(s) ==
    /\ Free
    /\ at[s] # "none"
    /\ observers' = observers \ {s}
    /\ finish({s}, "eof")
    /\ UNCHANGED <<owner, client>>

-----------------------------------------------------------------------------
(* Next, one critical section at a time. *)

Call(s) ==
    /\ at[s] = "out"
    /\ at' = [at EXCEPT ![s] = "loop"]
    /\ UNCHANGED <<owner, observers, stream, start, seen, answer>>

Return(s, how) == at' = [at EXCEPT ![s] = "out"] /\ answer' = [answer EXCEPT ![s] = how]

Deliver(s, n) ==
    /\ cursor' = [cursor EXCEPT ![s] = n]
    /\ seen' = [seen EXCEPT ![s] = Append(@, n)]
    /\ Return(s, "event")

NextEnded(s) ==
    /\ at[s] = "loop"
    /\ ended[s] # "no"
    /\ Return(s, ended[s])
    /\ UNCHANGED <<owner, observers, stream, start, seen>>

(* The replay part: s.mu is released before the journal is read. *)
NextReads(s) ==
    /\ at[s] = "loop"
    /\ ended[s] = "no"
    /\ cursor[s] < through[s]
    /\ at' = [at EXCEPT ![s] = "read"]
    /\ UNCHANGED <<owner, observers, stream, start, seen, answer>>

(* Mutant: the search stops at the frame that holds the cursor's own event. *)
FromFrameAt(after) == {i \in DOMAIN records : records[i].last >= after}

(* The frames sort.Search leaves: those that end after the cursor. *)
FromFrame(after) == {i \in DOMAIN records : records[i].last > after}

(* ReadEvents with a limit of one: the first later event of the first such frame. *)
ReadEvents(after) ==
    LET frames == FromFrame(after)
        frame == records[Min(frames)]
        page == {n \in frame.first..frame.last : n > after}
    IN  IF frames = {} \/ page = {} THEN <<>> ELSE << Min(page) >>

ReplayGap(s) ==
    LET events == ReadEvents(cursor[s])
    IN  Len(events) # 1 \/ events[1] > through[s]

ReadOK(s) ==
    /\ at[s] = "read"
    /\ ~closed /\ ~poisoned
    /\ ~ReplayGap(s)
    /\ Deliver(s, ReadEvents(cursor[s])[1])
    /\ UNCHANGED <<owner, observers, through, queue, bytes, wake, ended, start>>

(* The journal is closed or poisoned, this read finds it damaged and poisons it, or there is a
   replay gap, which leaves the journal alone. *)
ReadError(s) ==
    /\ at[s] = "read"
    /\ poisoned' \in {poisoned \/ ~closed} \cup (IF ReplayGap(s) THEN {poisoned} ELSE {})
    /\ at' = [at EXCEPT ![s] = "failed"]
    /\ UNCHANGED <<seq, records, pushing, fatal, stopping, closed, observers, stream, start, seen,
                   answer>>

(* Mutant: a read that failed because of Shutdown poisons the worker. *)
PoisonsAlways == TRUE

Poisons == ~stopping

ReadReports(s) ==
    /\ at[s] = "failed"
    /\ Free
    /\ IF Poisons THEN poison("read") ELSE UNCHANGED <<fatal, observers, stream>>
    /\ Return(s, "storage_failure")
    /\ UNCHANGED <<seq, records, pushing, stopping, closed, poisoned, start, seen>>

NextPops(s) ==
    /\ at[s] = "loop"
    /\ ended[s] = "no"
    /\ cursor[s] >= through[s]
    /\ queue[s] # <<>>
    /\ queue' = [queue EXCEPT ![s] = Tail(@)]
    /\ bytes' = [bytes EXCEPT ![s] = @ - Head(queue[s]).size]
    /\ Deliver(s, Head(queue[s]).seq)
    /\ UNCHANGED <<owner, observers, through, wake, ended, start>>

NextWaits(s) ==
    /\ at[s] = "loop"
    /\ ended[s] = "no"
    /\ cursor[s] >= through[s]
    /\ queue[s] = <<>>
    /\ at' = [at EXCEPT ![s] = "wait"]
    /\ UNCHANGED <<owner, observers, stream, start, seen, answer>>

NextWakes(s) ==
    /\ at[s] = "wait"
    /\ wake[s]
    /\ wake' = [wake EXCEPT ![s] = FALSE]
    /\ at' = [at EXCEPT ![s] = "loop"]
    /\ UNCHANGED <<owner, observers, cursor, through, queue, bytes, ended, start, seen, answer>>

(* The context of Next is done: it returns without an event, a late read is dropped, and an error
   already read is returned but poisons nothing. *)
Abandon(s) ==
    /\ at[s] \in {"loop", "read", "failed", "wait"}
    /\ Return(s, IF at[s] = "failed" THEN "storage_failure" ELSE "ctx")
    /\ UNCHANGED <<owner, observers, stream, start, seen>>

-----------------------------------------------------------------------------
PushAny == \E size \in 1..MaxEventSize : push(size)
NextStep(s) ==
    \/ NextEnded(s) \/ NextReads(s) \/ ReadOK(s) \/ ReadError(s) \/ ReadReports(s)
    \/ NextPops(s) \/ NextWaits(s) \/ NextWakes(s)

WorkerStep == (\E n \in 1..2 : Publish(n)) \/ PushAny \/ CommitFails \/ Shutdown \/ LastCompletes
StreamStep(s) == (\E c \in 0..seq : watch(s, c)) \/ Close(s) \/ Call(s) \/ NextStep(s) \/ Abandon(s)

Next == WorkerStep \/ \E s \in Streams : StreamStep(s)

Spec == Init /\ [][Next]_vars

(* The holder of w.mu pushes on, a Next that was called runs on and gets w.mu when it asks for it,
   and the client calls again. *)
Fairness ==
    /\ WF_vars(PushAny)
    /\ \A s \in Streams : WF_vars(NextStep(s)) /\ WF_vars(Call(s)) /\ SF_vars(ReadReports(s))

-----------------------------------------------------------------------------
(* Properties. *)

Places == {"none", "out", "loop", "read", "failed", "wait"}
Ends == {"no", "eof", "slow", "fatal"}

(* Every variable of a stream and of the worker around it keeps its type. *)
TypeOK ==
    /\ seq \in 0..MaxSeq
    /\ records \in Seq([first : 1..MaxSeq, last : 1..MaxSeq])
    /\ pushing \in Seq(1..MaxSeq)
    /\ fatal \in {"none", "commit", "read"}
    /\ {stopping, closed, poisoned} \subseteq BOOLEAN
    /\ observers \subseteq Streams
    /\ cursor \in [Streams -> 0..MaxSeq]
    /\ through \in [Streams -> 0..MaxSeq]
    /\ queue \in [Streams -> Seq([seq : 1..MaxSeq, size : 1..MaxEventSize])]
    /\ bytes \in [Streams -> 0..MaxObserverBytes]
    /\ wake \in [Streams -> BOOLEAN]
    /\ ended \in [Streams -> Ends]
    /\ at \in [Streams -> Places]
    /\ start \in [Streams -> 0..MaxSeq]
    /\ seen \in [Streams -> Seq(1..MaxSeq)]
    /\ answer \in [Streams -> Ends \cup {"none", "event", "ctx", "storage_failure"}]

(* The events Next returns are those after the cursor Watch was given, each once and in order,
   across the change from replay to the live backlog: no gap, no repeat. *)
GapFree ==
    \A s \in Streams : /\ \A i \in DOMAIN seen[s] : seen[s][i] = start[s] + i
                       /\ cursor[s] = start[s] + Len(seen[s])

(* What an open stream has still to deliver, replay and backlog together with what is being pushed,
   is exactly what has been published and not seen. *)
NothingLost ==
    \A s \in observers :
        LET replay == IF cursor[s] < through[s] THEN through[s] ELSE cursor[s]
            left == [i \in DOMAIN queue[s] |-> queue[s][i].seq] \o pushing
        IN  /\ Len(left) = seq - replay
            /\ \A i \in DOMAIN left : left[i] = replay + i

(* What a stream has delivered and what it has still to deliver are the events after the cursor
   Watch was given, each once and in order, across the change from replay to the live backlog. *)
Exact == GapFree /\ NothingLost

(* The sizes in a backlog q add up to total: left[i] is what is left of it from its ith event on. *)
AddsUp(q, total) ==
    \E left \in [1..Len(q) + 1 -> 0..total] :
        /\ left[1] = total /\ left[Len(q) + 1] = 0
        /\ \A i \in DOMAIN q : left[i] = left[i + 1] + q[i].size

(* The byte count of a backlog is the size of what is in it and never exceeds the budget: push and
   Next keep bytes and queue together. *)
BacklogExact ==
    \A s \in Streams :
        /\ AddsUp(queue[s], bytes[s])
        /\ bytes[s] <= MaxObserverBytes /\ Len(queue[s]) <= MaxObserverEvents

(* A Next that waits has nothing to return, or its wake-up is in the channel. *)
NoLostWakeup ==
    \A s \in Streams :
        at[s] = "wait" /\ (queue[s] # <<>> \/ ended[s] # "no") => wake[s]

(* ReadEvents always finds the next event of a replay: "replay gap" cannot be reported. *)
ReplayIsDense == \A s \in Streams : at[s] = "read" => ~ReplayGap(s)

(* w.observers holds the open streams and no other: an ended stream is not kept or pushed to. *)
ObserversOpen == observers = {s \in Streams : at[s] # "none" /\ ended[s] = "no"}

(* The bookkeeping of streams is sound between any two steps: types, byte counts, the wake-ups of
   waiting calls, the frames of a replay, and the worker's set of open streams. *)
StreamSound == TypeOK /\ BacklogExact /\ NoLostWakeup /\ ReplayIsDense /\ ObserversOpen

(* Only damaged storage poisons the worker from the read side: a stream whose read races the end of
   an orderly Shutdown does not turn it into a failure. *)
PoisonIsHonest == fatal = "read" => poisoned

(* Next reports an orderly close as such (EventStream: "Next returns io.EOF on orderly close, or a
   Fault for slow consumers / invalid cursors"): a storage fault means that storage failed. *)
OrderlyClose == \A s \in Streams : answer[s] = "storage_failure" => fatal # "none" \/ poisoned

(* Every event published reaches every stream that stays open on sound storage, provided its client
   at last stops giving up on Next: a stream made for replay gets through it and goes live. *)
EventuallySeen ==
    <>[][\A s \in Streams : ~Abandon(s)]_vars =>
        \A s \in Streams, n \in 1..MaxSeq :
            s \in observers /\ cursor[s] < n /\ n <= seq
              ~> cursor[s] >= n \/ ended[s] # "no" \/ poisoned
==============================================================================
