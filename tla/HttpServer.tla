----------------------------- MODULE HttpServer -----------------------------
(***************************************************************************)
(* The local HTTP protocol (internal/adapters/httpapi/server.go): request  *)
(* checks, the request slots, calls of the Service port that outlive their *)
(* request (call in internal/core/worker.go), and event streams.           *)
(*                                                                         *)
(* A request is what the checks of ServeHTTP tell apart.  The worker is a  *)
(* mutex (busy), a published sequence number and its failure; a client     *)
(* reads, stops reading, or goes away.  The stream behind Next is the one  *)
(* of module Watch: it returns the event after its cursor, or an end.      *)
(***************************************************************************)
EXTENDS Integers, Sequences, FiniteSets

CONSTANTS
    Requests,   \* identities of requests
    Inputs,     \* the inputs requests are made with
    MaxSlots,   \* request slots (32 in the code)
    MaxSeq,     \* bound: events published
    Buffer,     \* writes a connection takes whose client does not read
    NoRequest

Paths == {"asset", "read", "command", "events", "unknown", "encoded"}
AllInputs == [forbidden : BOOLEAN, path : Paths, method : {"GET", "POST"}, query : BOOLEAN,
              body : {"none", "good", "bad", "huge"}, json : BOOLEAN]

ASSUME HttpAssumption ==
    /\ Inputs \subseteq AllInputs /\ NoRequest \notin Requests
    /\ {MaxSlots, MaxSeq, Buffer} \subseteq Nat

VARIABLES
    input,   \* the request, from its arrival
    at,      \* where its handler is
    slots,   \* len(h.slots)
    holds,   \* whether the handler has deferred the release of a slot
    op,      \* the call of the Service port: "none", "asked", "held", or its result
    ctx,     \* whether the request's context still is live
    client,  \* "reads", "stalled" or "gone"
    room,    \* writes a stalled client's connection still takes
    status,  \* the status written, 0 before
    effect,  \* whether the command changed the worker's state
    cursor,  \* of the request's stream
    got,     \* the sequence numbers the client received, the base first
    seq, fatal, busy

handler == <<input, at, holds, op, ctx, status, effect, cursor>>
httpVars == <<handler, slots, client, room, got, seq, fatal, busy>>

Definite == {400, 403, 404, 405, 409, 413, 415, 429}

HttpInit ==
    /\ input = <<>> /\ at = [r \in Requests |-> "idle"]
    /\ slots = 0 /\ holds = [r \in Requests |-> FALSE]
    /\ op = [r \in Requests |-> "none"] /\ ctx = [r \in Requests |-> TRUE]
    /\ client = [r \in Requests |-> "reads"] /\ room = [r \in Requests |-> Buffer]
    /\ status = [r \in Requests |-> 0] /\ effect = [r \in Requests |-> FALSE]
    /\ cursor = [r \in Requests |-> 0] /\ got = [r \in Requests |-> <<>>]
    /\ seq = 0 /\ fatal = FALSE /\ busy = NoRequest

-----------------------------------------------------------------------------
(* ServeHTTP. *)

Move(r, place) == at' = [at EXCEPT ![r] = place]
respond(r, code) == Move(r, "writing") /\ status' = [status EXCEPT ![r] = code]

(* The handler returns: its deferred functions give the slot back and close the stream. *)
return(r) ==
    /\ Move(r, "done")
    /\ slots' = IF holds[r] THEN slots - 1 ELSE slots
    /\ holds' = [holds EXCEPT ![r] = FALSE]

arrive(r, q) ==
    /\ at[r] = "idle"
    /\ input' = [x \in DOMAIN input \cup {r} |-> IF x = r THEN q ELSE input[x]]
    /\ Move(r, "arrived")
    /\ UNCHANGED <<slots, holds, op, ctx, client, room, status, effect, cursor, got, seq, fatal, busy>>

(* Mutant: the release of a slot is deferred whether one was taken or not. *)
admitDeferred(r) ==
    /\ at[r] = "arrived"
    /\ holds' = [holds EXCEPT ![r] = TRUE]
    /\ IF input[r].forbidden THEN respond(r, 403) /\ UNCHANGED slots
       ELSE IF slots = MaxSlots THEN respond(r, 503) /\ UNCHANGED slots
       ELSE slots' = slots + 1 /\ Move(r, "routing") /\ UNCHANGED status
    /\ UNCHANGED <<input, op, ctx, client, room, effect, cursor, got, seq, fatal, busy>>

(* Host, Origin and Sec-Fetch-Site are checked before a slot is taken. *)
admit(r) ==
    /\ at[r] = "arrived"
    /\ IF input[r].forbidden THEN respond(r, 403) /\ UNCHANGED <<slots, holds>>
       ELSE IF slots = MaxSlots THEN respond(r, 503) /\ UNCHANGED <<slots, holds>>
       ELSE /\ slots' = slots + 1
            /\ holds' = [holds EXCEPT ![r] = TRUE]
            /\ Move(r, "routing") /\ UNCHANGED status
    /\ UNCHANGED <<input, op, ctx, client, room, effect, cursor, got, seq, fatal, busy>>

Method(path) == IF path = "command" THEN "POST" ELSE "GET"

(* Mutant: the method of a route is not checked. *)
rejectionAnyMethod(q) ==
    IF q.path = "encoded" THEN 400
    ELSE IF q.path = "unknown" THEN 404
    ELSE IF q.path # "events" /\ q.query THEN 400
    ELSE IF q.path # "command" /\ q.body # "none" THEN 400
    ELSE IF q.path = "command" /\ ~q.json THEN 415
    ELSE IF q.path = "command" /\ q.body = "huge" THEN 413
    ELSE IF q.path = "command" /\ q.body # "good" THEN 400
    ELSE 0

(* The checks of a request that has a slot, in their order; 0 when it passes. *)
rejection(q) ==
    IF q.path = "encoded" THEN 400
    ELSE IF q.path = "unknown" THEN 404
    ELSE IF q.method # Method(q.path) THEN 405
    ELSE IF q.path # "events" /\ q.query THEN 400
    ELSE IF q.path # "command" /\ q.body # "none" THEN 400
    ELSE IF q.path = "command" /\ ~q.json THEN 415
    ELSE IF q.path = "command" /\ q.body = "huge" THEN 413
    ELSE IF q.path = "command" /\ q.body # "good" THEN 400
    ELSE 0

route(r) ==
    LET q == input[r]
    IN  /\ at[r] = "routing"
        /\ IF rejection(q) # 0 THEN respond(r, rejection(q)) /\ UNCHANGED op
           ELSE IF q.path = "asset" THEN respond(r, 200) /\ UNCHANGED op
           ELSE IF q.path = "events" THEN Move(r, "opening") /\ UNCHANGED <<status, op>>
           ELSE /\ Move(r, "calling")
                /\ op' = [op EXCEPT ![r] = "asked"]
                /\ UNCHANGED status
        /\ UNCHANGED <<input, slots, holds, ctx, client, room, effect, cursor, got, seq, fatal, busy>>

(* Mutant: an ended context is reported as a cancelled command. *)
expireCancelled(r) ==
    /\ at[r] = "calling"
    /\ respond(r, 409)
    /\ ctx' = [ctx EXCEPT ![r] = FALSE]
    /\ UNCHANGED <<input, slots, holds, op, client, room, effect, cursor, got, seq, fatal, busy>>

(* The request ends before its call: after 30 seconds, or because the client left (the only limit
   of the calls of events).  The call goes on by itself. *)
expire(r) ==
    /\ at[r] = "calling" \/ (at[r] \in {"opening", "watching"} /\ ~ctx[r])
    /\ respond(r, 503)
    /\ ctx' = [ctx EXCEPT ![r] = FALSE]
    /\ UNCHANGED <<input, slots, holds, op, client, room, effect, cursor, got, seq, fatal, busy>>

(* PublicFault and statuses. *)
StatusOf == [ok |-> 200, queue_full |-> 429, conflict |-> 409, storage_failure |-> 503, ended |-> 503]

answer(r) ==
    /\ at[r] = "calling" /\ op[r] \in DOMAIN StatusOf
    /\ respond(r, StatusOf[op[r]])
    /\ ctx' = [ctx EXCEPT ![r] = FALSE]
    /\ UNCHANGED <<input, slots, holds, op, client, room, effect, cursor, got, seq, fatal, busy>>

-----------------------------------------------------------------------------
(* A write takes place, or fails: the client is gone, or reads nothing until the deadline. *)

Writable(r) == client[r] = "reads" \/ (client[r] = "stalled" /\ room[r] > 0)
Used(r) == room' = IF client[r] = "stalled" THEN [room EXCEPT ![r] = @ - 1] ELSE room

write(r) ==
    /\ at[r] = "writing" /\ Writable(r)
    /\ Used(r) /\ return(r)
    /\ UNCHANGED <<input, op, ctx, client, status, effect, cursor, got, seq, fatal, busy>>

(* Mutant: writes to a client that does not read have no deadline. *)
writeFailsIfGone(r) ==
    /\ at[r] \in {"writing", "greeting", "sending", "beating", "failing"}
    /\ client[r] = "gone"
    /\ return(r)
    /\ UNCHANGED <<input, op, ctx, client, room, status, effect, cursor, got, seq, fatal, busy>>

writeFails(r) ==
    /\ at[r] \in {"writing", "greeting", "sending", "beating", "failing"}
    /\ ~Writable(r)
    /\ return(r)
    /\ UNCHANGED <<input, op, ctx, client, room, status, effect, cursor, got, seq, fatal, busy>>

-----------------------------------------------------------------------------
(* The worker's side of a call. *)

(* The call has w.mu; an ended context stops it here and nowhere later. *)
take(r) ==
    /\ busy = NoRequest /\ op[r] = "asked"
    /\ IF ctx[r] THEN busy' = r /\ op' = [op EXCEPT ![r] = "held"]
       ELSE op' = [op EXCEPT ![r] = "ended"] /\ UNCHANGED busy
    /\ UNCHANGED <<input, at, slots, holds, ctx, client, room, status, effect, cursor, got, seq, fatal>>

(* What the handler does with it: done, refused, or lost in a storage failure. *)
perform(r, result) ==
    /\ busy = r
    /\ fatal => result = "storage_failure"
    /\ result \in {"queue_full", "conflict"} => input[r].path = "command"
    /\ result = "ok" /\ input[r].path = "command" => seq < MaxSeq
    /\ busy' = NoRequest
    /\ op' = [op EXCEPT ![r] = result]
    /\ fatal' = (fatal \/ result = "storage_failure")
    /\ \E changed \in BOOLEAN :
        /\ changed => input[r].path = "command" /\ ~fatal /\ result \in {"ok", "storage_failure"}
        /\ result = "ok" /\ input[r].path = "command" => changed
        /\ effect' = [effect EXCEPT ![r] = changed]
        /\ seq' = IF changed /\ result = "ok" THEN seq + 1 ELSE seq
    /\ UNCHANGED <<input, at, slots, holds, ctx, client, room, status, cursor, got>>

(* Another actor of the service changes the state. *)
publish ==
    /\ busy = NoRequest /\ ~fatal /\ seq < MaxSeq
    /\ seq' = seq + 1
    /\ UNCHANGED <<handler, slots, client, room, got, fatal, busy>>

-----------------------------------------------------------------------------
(* events. *)

(* The cursor asked for, if it can be parsed, or a snapshot and its cursor. *)
open(r, after) ==
    /\ at[r] = "opening"
    /\ input[r].query <=> after # "snapshot"
    /\ after = "snapshot" => busy = NoRequest
    /\ IF after = "garbled" THEN respond(r, 400) /\ UNCHANGED cursor
       ELSE IF fatal /\ after = "snapshot" THEN respond(r, 503) /\ UNCHANGED cursor
       ELSE /\ \E c \in IF after = "snapshot" THEN {seq} ELSE 0..MaxSeq : cursor' = [cursor EXCEPT ![r] = c]
            /\ Move(r, "watching") /\ UNCHANGED status
    /\ UNCHANGED <<input, slots, holds, op, ctx, client, room, effect, got, seq, fatal, busy>>

(* Mutant: the stream starts at the worker's cursor and not at the snapshot's. *)
watchNow(r) ==
    /\ at[r] = "watching" /\ busy = NoRequest
    /\ IF fatal THEN respond(r, 503) /\ UNCHANGED <<cursor, got>>
       ELSE IF cursor[r] > seq THEN respond(r, 400) /\ UNCHANGED <<cursor, got>>
       ELSE /\ Move(r, "greeting")
            /\ cursor' = [cursor EXCEPT ![r] = seq]
            /\ got' = [got EXCEPT ![r] = <<cursor[r]>>]
            /\ UNCHANGED status
    /\ UNCHANGED <<input, slots, holds, op, ctx, client, room, effect, seq, fatal, busy>>

watch(r) ==
    /\ at[r] = "watching" /\ busy = NoRequest
    /\ IF fatal THEN respond(r, 503) /\ UNCHANGED got
       ELSE IF cursor[r] > seq THEN respond(r, 400) /\ UNCHANGED got
       ELSE /\ Move(r, "greeting")
            /\ got' = [got EXCEPT ![r] = <<cursor[r]>>]
            /\ UNCHANGED status
    /\ UNCHANGED <<input, slots, holds, op, ctx, client, room, effect, cursor, seq, fatal, busy>>

(* The snapshot, or a comment that says the stream is open; heartbeats are comments too. *)
comment(r) ==
    /\ at[r] \in {"greeting", "beating"} /\ Writable(r)
    /\ Used(r) /\ Move(r, "next")
    /\ UNCHANGED <<input, holds, op, ctx, status, effect, cursor, slots, client, got, seq, fatal, busy>>

(* Next returned: an event, the heartbeat's deadline, an end to tell, or an end. *)
next(r, what) ==
    /\ at[r] = "next"
    /\ \/ what = "event" /\ cursor[r] < seq /\ Move(r, "sending") /\ UNCHANGED <<slots, holds>>
       \/ what = "deadline" /\ cursor[r] = seq /\ ctx[r] /\ ~fatal /\ Move(r, "beating") /\ UNCHANGED <<slots, holds>>
       \/ what = "fault" /\ (fatal \/ cursor[r] < seq) /\ ctx[r] /\ Move(r, "failing") /\ UNCHANGED <<slots, holds>>
       \/ what = "end" /\ ~ctx[r] /\ return(r)
    /\ UNCHANGED <<input, op, ctx, client, room, status, effect, cursor, got, seq, fatal, busy>>

send(r) ==
    /\ at[r] = "sending" /\ Writable(r)
    /\ Used(r) /\ Move(r, "next")
    /\ cursor' = [cursor EXCEPT ![r] = @ + 1]
    /\ got' = [got EXCEPT ![r] = Append(@, cursor'[r])]
    /\ UNCHANGED <<input, holds, op, ctx, status, effect, slots, client, seq, fatal, busy>>

sendFault(r) ==
    /\ at[r] = "failing" /\ Writable(r)
    /\ Used(r) /\ return(r)
    /\ UNCHANGED <<input, op, ctx, client, status, effect, cursor, got, seq, fatal, busy>>

-----------------------------------------------------------------------------
(* Clients. *)

Starts == {"snapshot", "cursor", "garbled"}
Serving(r) == at[r] \notin {"idle", "done"}

stall(r) ==
    /\ Serving(r) /\ client[r] = "reads"
    /\ client' = [client EXCEPT ![r] = "stalled"]
    /\ UNCHANGED <<handler, slots, room, got, seq, fatal, busy>>

leave(r) ==
    /\ Serving(r) /\ client[r] # "gone"
    /\ client' = [client EXCEPT ![r] = "gone"]
    /\ ctx' = [ctx EXCEPT ![r] = FALSE]
    /\ UNCHANGED <<input, at, holds, op, status, effect, cursor, slots, room, got, seq, fatal, busy>>

Handle(r) ==
    \/ admit(r) \/ route(r) \/ answer(r) \/ expire(r) \/ write(r) \/ writeFails(r)
    \/ \E after \in Starts : open(r, after)
    \/ watch(r) \/ comment(r) \/ send(r) \/ sendFault(r)
    \/ \E what \in {"event", "deadline", "fault", "end"} : next(r, what)

Work(r) ==
    \/ take(r)
    \/ \E result \in {"ok", "queue_full", "conflict", "storage_failure"} : perform(r, result)

HttpNext ==
    \/ \E r \in Requests :
        \/ \E q \in Inputs : arrive(r, q)
        \/ Handle(r) \/ Work(r) \/ stall(r) \/ leave(r)
    \/ publish

HttpSpec == HttpInit /\ [][HttpNext]_httpVars

-----------------------------------------------------------------------------
(* Properties. *)

(* With nobody in a handler every slot is free. *)
HttpTypeOK ==
    /\ DOMAIN input \subseteq Requests /\ \A r \in DOMAIN input : input[r] \in Inputs
    /\ slots \in 0..MaxSlots
    /\ (\A r \in Requests : ~Serving(r)) => slots = 0
    /\ busy \in Requests \cup {NoRequest}
    /\ seq \in 0..MaxSeq
    /\ \A r \in Requests : cursor[r] \in 0..MaxSeq /\ room[r] \in 0..Buffer

(* Once a status other than 5xx is decided it is the truth for good: a rejected command never takes
   effect later, although its call may go on after the request; an accepted one has; and only a
   POST of JSON that passed every check of ServeHTTP has an effect. *)
AnswerHonest ==
    /\ \A r \in DOMAIN input : input[r].path = "command" =>
        /\ status[r] \in Definite => ~effect[r] /\ op[r] \notin {"asked", "held"}
        /\ status[r] = 200 => effect[r]
    /\ \A r \in Requests : effect[r] =>
        /\ r \in DOMAIN input /\ ~input[r].forbidden /\ rejection(input[r]) = 0
        /\ input[r].json /\ input[r].method = "POST" /\ input[r].path = "command"

(* What a client of the event stream receives continues its snapshot, or the cursor it gave,
   without a gap or a repeat, although the worker goes on between Snapshot, Watch and each send. *)
StreamContiguous ==
    \A r \in Requests : \A i \in 1..Len(got[r]) - 1 : got[r][i + 1] = got[r][i] + 1
==============================================================================
