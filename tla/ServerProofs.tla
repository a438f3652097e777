---------------------------- MODULE ServerProofs ----------------------------
(***************************************************************************)
(* Proofs about Service, for any set of processes and any bounds, and      *)
(* about HttpServer, for any requests, inputs and bounds.                  *)
(*                                                                         *)
(* Service: only the owner of the directory writes, one backend runs, who  *)
(* answers owns.  These are not inductive: that a late command or a late   *)
(* backend still finds the store its own needs what ownership follows from *)
(* at every step of Run (Owns), and how closed, stopping and returned      *)
(* imply each other (Order).                                               *)
(*                                                                         *)
(* HttpServer: a status is the truth about its command for good, only what *)
(* passed the checks has an effect, a stream has no gap, and no slot is    *)
(* lost.  That a command refused by its status has no effect later,        *)
(* although its call may go on after the handler, needs what a status says *)
(* of the call (StatusInv) and what a call's result says of its effect     *)
(* (CallInv); that every slot is free in the end, that the counter is the  *)
(* number of its holders (SlotInv).                                        *)
(***************************************************************************)
EXTENDS Service, HttpServer, FiniteSetTheorems, TLAPS

-----------------------------------------------------------------------------
(* Service. *)

(* The variables are what they should be. *)
Typed ==
    /\ pc \in [Processes -> {"off", "open", "recover", "serving", "closing", "waiting", "patient", "returned"}]
    /\ calls \in [Processes -> Int]
    /\ backend \subseteq Processes

(* A worker that is not closed owns the store, and closing it comes after the mark. *)
Order == \A p \in Processes :
    /\ pc[p] \in {"off", "open", "recover", "serving", "closing"} => p \notin stopping
    /\ pc[p] \in {"off", "open", "recover"} => calls[p] <= 0 /\ p \notin backend
    /\ p \in closed => p \in stopping /\ p \notin backend
    /\ pc[p] = "returned" => p \in closed
Owns == \A p \in Processes :
    /\ pc[p] \notin {"off", "open"} /\ p \notin closed => lock = p
    /\ pc[p] \in {"open", "recover", "serving", "closing"} => port = p

Ownership == Typed /\ Order /\ Owns /\ late = {}

LEMMA InitOwnership == Init => Ownership
  BY DEF Init, Ownership, Typed, Order, Owns

(* Run's own steps. *)
LEMMA RunStep ==
  ASSUME NEW p \in Processes, Ownership,
         Listen(p) \/ Open(p) \/ Stop(p) \/ CloseServer(p) \/ Timeout(p) \/ Return(p)
  PROVE  Ownership'
  <1>1. CASE Listen(p)
    BY <1>1, NoneAssumption DEF Ownership, Typed, Order, Owns, Listen, Go, worker
  <1>2. CASE Open(p)
    BY <1>2, NoneAssumption DEF Ownership, Typed, Order, Owns, Open, Go, Free, worker
  <1>3. CASE Stop(p)
    BY <1>3 DEF Ownership, Typed, Order, Owns, Stop, Go, worker
  <1>4. CASE CloseServer(p)
    BY <1>4, NoneAssumption DEF Ownership, Typed, Order, Owns, CloseServer, Go, Free, worker
  <1>5. CASE Timeout(p)
    BY <1>5 DEF Ownership, Typed, Order, Owns, Timeout, Go, worker
  <1>6. CASE Return(p)
    BY <1>6 DEF Ownership, Typed, Order, Owns, Return, Go, worker
  <1> QED BY <1>1, <1>2, <1>3, <1>4, <1>5, <1>6

(* A process that ends takes nothing from the others. *)
LEMMA GoneStep ==
  ASSUME NEW p \in Processes, Ownership, Gone(p), late' = late
  PROVE  Ownership'
  BY NoneAssumption DEF Ownership, Typed, Order, Owns, Gone, Go, Free

LEMMA NewWorkerStep ==
  ASSUME NEW p \in Processes, Ownership, NewWorker(p)
  PROVE  Ownership'
  <1>1. CASE Gone(p) /\ UNCHANGED late
    BY <1>1, GoneStep
  <1>2. CASE ~(Gone(p) /\ UNCHANGED late)
    BY <1>2 DEF Ownership, Typed, Order, Owns, NewWorker, Go, Write
  <1> QED BY <1>1, <1>2

(* The worker's goroutines. *)
LEMMA WorkerStep ==
  ASSUME NEW p \in Processes, Ownership,
         Shutdown(p) \/ Call(p) \/ Command(p) \/ emit(p) \/ complete(p)
  PROVE  Ownership'
  <1>1. CASE Shutdown(p)
    BY <1>1 DEF Ownership, Typed, Order, Owns, Shutdown, closeStore, Free
  <1>2. CASE Call(p)
    BY <1>2 DEF Ownership, Typed, Order, Owns, Call, worker
  <1>3. CASE Command(p)
    BY <1>3 DEF Ownership, Typed, Order, Owns, Command, Write
  <1>4. CASE emit(p)
    BY <1>4 DEF Ownership, Typed, Order, Owns, emit, Write, worker
  <1>5. CASE complete(p)
    BY <1>5 DEF Ownership, Typed, Order, Owns, complete, closeStore, Free, Write
  <1> QED BY <1>1, <1>2, <1>3, <1>4, <1>5

LEMMA NextOwnership == Ownership /\ [Next]_vars => Ownership'
  <1> SUFFICES ASSUME Ownership, [Next]_vars PROVE Ownership'
    OBVIOUS
  <1>1. CASE UNCHANGED vars
    BY <1>1 DEF Ownership, Typed, Order, Owns, vars, worker
  <1>2. CASE Next
    <2> PICK p \in Processes :
          \/ Listen(p) \/ Open(p) \/ NewWorker(p) \/ Stop(p) \/ CloseServer(p) \/ Timeout(p) \/ Return(p) \/ Exit(p)
          \/ Shutdown(p) \/ Call(p) \/ Command(p) \/ emit(p) \/ complete(p) \/ Crash(p)
      BY <1>2 DEF Next
    <2>1. CASE Exit(p) \/ Crash(p)
      BY <2>1, GoneStep DEF Exit, Crash
    <2> QED BY <2>1, RunStep, NewWorkerStep, WorkerStep
  <1> QED BY <1>1, <1>2

LEMMA OwnershipInvariant == Spec => []Ownership
  BY InitOwnership, NextOwnership, PTL DEF Spec

(* Only the owner of the directory ever writes to it (service.Run, Worker.Shutdown, closeStore). *)
THEOREM OwnerTheorem == Spec => []OnlyOwnerWrites
  <1>1. Ownership => OnlyOwnerWrites
    BY DEF Ownership, OnlyOwnerWrites
  <1> QED BY <1>1, OwnershipInvariant, PTL

(* No two processes run inference at the same time. *)
THEOREM OneBackendTheorem == Spec => []OneBackend
  <1>1. ASSUME Ownership PROVE OneBackend
    <2>1. \A p, q \in backend : p = q
      BY <1>1 DEF Ownership, Order, Owns, Typed
    <2>2. CASE backend = {}
      BY <2>2, FS_EmptySet DEF OneBackend
    <2>3. CASE backend # {}
      <3> PICK p \in backend : TRUE
        BY <2>3
      <3>1. backend = {p}
        BY <2>1
      <3>2. Cardinality({p}) = 1
        BY FS_Singleton
      <3> QED BY <3>1, <3>2 DEF OneBackend
    <2> QED BY <2>2, <2>3
  <1> QED BY <1>1, OwnershipInvariant, PTL

(* The process that answers at the address owns the store until its listener is closed. *)
THEOREM AnswersTheorem == Spec => []AnswersOwn
  <1>1. Ownership => AnswersOwn
    BY DEF Ownership, Order, Owns, Typed, AnswersOwn
  <1> QED BY <1>1, OwnershipInvariant, PTL

-----------------------------------------------------------------------------
(* HttpServer. *)

(* Where a handler is in an event stream, and what a call's result can be. *)
Streaming == {"greeting", "next", "sending", "beating", "failing"}
Places == {"idle", "arrived", "routing", "calling", "opening", "watching", "writing", "done"} \cup Streaming
Results == {"ok", "queue_full", "conflict", "storage_failure", "ended"}

(* The types, complete; every slot is held by one handler, which gives it back when it returns. *)
Holders == {r \in Requests : holds[r]}
TypeInv ==
    /\ DOMAIN input \subseteq Requests /\ \A r \in DOMAIN input : input[r] \in Inputs
    /\ at \in [Requests -> Places] /\ holds \in [Requests -> BOOLEAN]
    /\ op \in [Requests -> {"none", "asked", "held"} \cup Results]
    /\ status \in [Requests -> Nat] /\ effect \in [Requests -> BOOLEAN]
    /\ cursor \in [Requests -> 0..MaxSeq] /\ got \in [Requests -> Seq(Nat)]
    /\ room \in [Requests -> 0..Buffer]
    /\ seq \in 0..MaxSeq /\ busy \in Requests \cup {NoRequest} /\ fatal \in BOOLEAN
SlotInv ==
    /\ IsFiniteSet(Holders) /\ slots = Cardinality(Holders) /\ slots <= MaxSlots
    /\ \A r \in Requests : at[r] \in {"idle", "arrived", "done"} => ~holds[r]

(* A call is made only by a request that passed the checks, and its result follows its effect. *)
Passed(r) == r \in DOMAIN input /\ ~input[r].forbidden /\ rejection(input[r]) = 0
CallOf(r) ==
    /\ at[r] # "idle" => r \in DOMAIN input
    /\ at[r] \in {"idle", "arrived", "routing"} => op[r] = "none"
    /\ at[r] \notin {"idle", "arrived", "writing", "done"} => ~input[r].forbidden
    /\ at[r] \in {"opening", "watching"} \cup Streaming => input[r].path = "events"
    /\ op[r] # "none" => Passed(r)
    /\ op[r] = "held" <=> busy = r
    /\ effect[r] => op[r] \in {"ok", "storage_failure"} /\ input[r].path = "command"
    /\ op[r] = "ok" /\ input[r].path = "command" => effect[r]
CallInv == \A r \in Requests : CallOf(r)

(* The status of a command is that of its result, or it was never called. *)
StatusSays(r) ==
    /\ status[r] # 0 => at[r] \in {"writing", "done"}
    /\ status[r] # 0 /\ input[r].path = "command" =>
          /\ status[r] \in Definite => op[r] \in {"none", "queue_full", "conflict"}
          /\ status[r] = 200 => op[r] = "ok"
StatusInv == \A r \in Requests : StatusSays(r)

(* The last event a client has is the one its stream's cursor is at. *)
GotOf(r) ==
    /\ \A i \in 1..Len(got[r]) - 1 : got[r][i + 1] = got[r][i] + 1
    /\ at[r] \in Streaming => Len(got[r]) > 0 /\ got[r][Len(got[r])] = cursor[r]
    /\ at[r] = "sending" => cursor[r] < seq
StreamInv == \A r \in Requests : GotOf(r)

Inv == TypeInv /\ SlotInv /\ CallInv /\ StatusInv /\ StreamInv

-----------------------------------------------------------------------------
(* The types. *)

LEMMA Constants ==
    /\ MaxSlots \in Nat /\ MaxSeq \in Nat /\ Buffer \in Nat /\ NoRequest \notin Requests
BY HttpAssumption

(* A handler that moves, and one that returns. *)
LEMMA Moves ==
    ASSUME at \in [Requests -> Places], NEW r \in Requests, NEW place \in Places, Move(r, place)
    PROVE  /\ at' \in [Requests -> Places] /\ at'[r] = place
           /\ \A x \in Requests \ {r} : at'[x] = at[x]
BY DEF Move

(* What a handler's step may do to the rest of its request. *)
HandlerType ==
    /\ at \in [Requests -> Places] /\ holds \in [Requests -> BOOLEAN]
    /\ status \in [Requests -> Nat]
CallType ==
    /\ DOMAIN input \subseteq Requests /\ \A r \in DOMAIN input : input[r] \in Inputs
    /\ op \in [Requests -> {"none", "asked", "held"} \cup Results]
    /\ effect \in [Requests -> BOOLEAN] /\ busy \in Requests \cup {NoRequest} /\ fatal \in BOOLEAN
StreamType ==
    /\ cursor \in [Requests -> 0..MaxSeq] /\ got \in [Requests -> Seq(Nat)]
    /\ room \in [Requests -> 0..Buffer] /\ seq \in 0..MaxSeq

LEMMA Typing == TypeInv <=> HandlerType /\ CallType /\ StreamType
BY DEF TypeInv, HandlerType, CallType, StreamType

LEMMA RoomTyped ==
    ASSUME room \in [Requests -> 0..Buffer], NEW r \in Requests, Writable(r), Used(r)
    PROVE  room' \in [Requests -> 0..Buffer]
<1>1. CASE client[r] # "stalled" BY <1>1 DEF Used
<1>2. CASE client[r] = "stalled"
  <2>1. room[r] \in 0..Buffer /\ room[r] > 0 BY <1>2 DEF Writable
  <2>2. room[r] - 1 \in 0..Buffer BY <2>1, Constants
  <2> QED BY <1>2, <2>2 DEF Used
<1> QED BY <1>1, <1>2

LEMMA HandlerTyped ==
    ASSUME HandlerType, NEW r \in Requests,
           \/ \E q \in Inputs : arrive(r, q)
           \/ Handle(r)
    PROVE  HandlerType'
<1>0. at \in [Requests -> Places] /\ holds \in [Requests -> BOOLEAN] /\ status \in [Requests -> Nat]
  BY DEF HandlerType
<1>1. ASSUME NEW place \in Places, Move(r, place), UNCHANGED <<holds, status>> PROVE HandlerType'
  BY <1>0, <1>1, Moves DEF HandlerType
<1>2. ASSUME NEW code \in Nat, respond(r, code), UNCHANGED holds PROVE HandlerType'
  BY <1>0, <1>2 DEF HandlerType, respond, Move, Places
<1>3. ASSUME return(r), UNCHANGED status PROVE HandlerType'
  BY <1>0, <1>3 DEF HandlerType, return, Move, Places
<1>4. CASE \E q \in Inputs : arrive(r, q) BY <1>1, <1>4 DEF arrive, Places
<1>5. CASE admit(r)
  <2>1. CASE respond(r, 403) /\ UNCHANGED holds BY <1>2, <2>1
  <2>2. CASE respond(r, 503) /\ UNCHANGED holds BY <1>2, <2>2
  <2>3. CASE holds' = [holds EXCEPT ![r] = TRUE] /\ Move(r, "routing") /\ UNCHANGED status
    BY <1>0, <2>3 DEF HandlerType, Move, Places
  <2> QED BY <1>5, <2>1, <2>2, <2>3 DEF admit
<1>6. CASE route(r)
  <2>1. rejection(input[r]) \in Nat BY DEF rejection
  <2>2. UNCHANGED holds
        /\ \/ respond(r, rejection(input[r])) \/ respond(r, 200)
           \/ (Move(r, "opening") \/ Move(r, "calling")) /\ UNCHANGED status
    BY <1>6 DEF route
  <2>3. 200 \in Nat /\ "opening" \in Places /\ "calling" \in Places BY DEF Places
  <2> QED BY <1>1, <1>2, <2>1, <2>2, <2>3
<1>7. CASE answer(r)
  <2>1. StatusOf[op[r]] \in Nat /\ respond(r, StatusOf[op[r]]) /\ UNCHANGED holds
    BY <1>7 DEF answer, StatusOf
  <2> QED BY <1>2, <2>1
<1>8. CASE expire(r) BY <1>2, <1>8 DEF expire
<1>9. CASE write(r) \/ writeFails(r) \/ sendFault(r) BY <1>3, <1>9 DEF write, writeFails, sendFault
<1>10. CASE \E after \in Starts : open(r, after) BY <1>1, <1>2, <1>10 DEF open, Places
<1>11. CASE watch(r) BY <1>1, <1>2, <1>11 DEF watch, Places, Streaming
<1>12. CASE comment(r) \/ send(r) BY <1>1, <1>12 DEF comment, send, Places, Streaming
<1>13. CASE \E what \in {"event", "deadline", "fault", "end"} : next(r, what)
  BY <1>1, <1>3, <1>13 DEF next, Places, Streaming
<1> QED BY <1>4, <1>5, <1>6, <1>7, <1>8, <1>9, <1>10, <1>11, <1>12, <1>13 DEF Handle

(* The steps of a handler that leave the calls alone, and those that leave the stream alone. *)
LEMMA HandlerFrame ==
    ASSUME NEW r \in Requests, Handle(r)
    PROVE  /\ UNCHANGED <<input, effect, seq, fatal, busy, client>>
           /\ op' = op \/ (route(r) /\ op' = [op EXCEPT ![r] = "asked"])
           /\ UNCHANGED got \/ watch(r) \/ send(r)
           /\ UNCHANGED cursor \/ send(r) \/ \E after \in Starts : open(r, after)
BY DEF Handle, admit, route, answer, expire, write, writeFails, open, watch, comment, send, sendFault, next

LEMMA CallTyped ==
    ASSUME CallType, NEW r \in Requests,
           \/ \E q \in Inputs : arrive(r, q)
           \/ Handle(r) \/ Work(r) \/ stall(r) \/ leave(r)
    PROVE  CallType'
<1>1. CASE \E q \in Inputs : arrive(r, q) BY <1>1 DEF CallType, arrive
<1>2. CASE Handle(r) BY <1>2, HandlerFrame DEF CallType
<1>3. CASE take(r) BY <1>3 DEF CallType, take, Results
<1>4. CASE \E result \in {"ok", "queue_full", "conflict", "storage_failure"} : perform(r, result)
  <2>1. PICK result \in {"ok", "queue_full", "conflict", "storage_failure"} : perform(r, result) BY <1>4
  <2>2. op' = [op EXCEPT ![r] = result] /\ busy' = NoRequest /\ UNCHANGED input /\ result \in Results
    BY <2>1 DEF perform, Results
  <2>3. effect' \in [Requests -> BOOLEAN] /\ fatal' \in BOOLEAN BY <2>1 DEF perform, CallType
  <2> QED BY <2>2, <2>3 DEF CallType
<1>5. CASE stall(r) \/ leave(r) BY <1>5 DEF CallType, stall, leave, handler
<1> QED BY <1>1, <1>2, <1>3, <1>4, <1>5 DEF Work

LEMMA StreamTyped ==
    ASSUME StreamType, StreamInv, NEW r \in Requests,
           \/ \E q \in Inputs : arrive(r, q)
           \/ Handle(r) \/ Work(r) \/ stall(r) \/ leave(r)
    PROVE  StreamType'
<1>0. /\ cursor \in [Requests -> 0..MaxSeq] /\ got \in [Requests -> Seq(Nat)]
      /\ room \in [Requests -> 0..Buffer] /\ seq \in 0..MaxSeq /\ MaxSeq \in Nat
  BY Constants DEF StreamType
<1>1. CASE (\E q \in Inputs : arrive(r, q)) \/ take(r) \/ stall(r) \/ leave(r)
  BY <1>1 DEF StreamType, arrive, take, stall, leave, handler
<1>2. CASE \E result \in {"ok", "queue_full", "conflict", "storage_failure"} : perform(r, result)
  <2>1. UNCHANGED <<cursor, got, room>> BY <1>2 DEF perform
  <2>2. seq' = seq \/ (seq < MaxSeq /\ seq' = seq + 1) BY <1>2 DEF perform
  <2>3. seq' \in 0..MaxSeq BY <1>0, <2>2
  <2> QED BY <2>1, <2>3 DEF StreamType
<1>3. CASE Handle(r)
  <2>1. room' \in [Requests -> 0..Buffer]
    <3>1. UNCHANGED room \/ (Writable(r) /\ Used(r))
      BY <1>3 DEF Handle, admit, route, answer, expire, write, writeFails, open, watch, comment, send,
                  sendFault, next
    <3> QED BY <1>0, <3>1, RoomTyped
  <2>2. seq' = seq BY <1>3, HandlerFrame
  <2>3. cursor' \in [Requests -> 0..MaxSeq]
    <3>1. CASE UNCHANGED cursor BY <1>0, <3>1
    <3>2. CASE \E after \in Starts : open(r, after)
      <4>1. UNCHANGED cursor \/ \E c \in 0..MaxSeq : cursor' = [cursor EXCEPT ![r] = c]
        BY <1>0, <3>2 DEF open
      <4> QED BY <1>0, <4>1
    <3>3. CASE send(r)
      <4>1. cursor[r] < seq /\ cursor' = [cursor EXCEPT ![r] = @ + 1] BY <3>3 DEF send, StreamInv, GotOf
      <4>2. cursor[r] \in 0..MaxSeq BY <1>0
      <4>3. cursor[r] + 1 \in 0..MaxSeq BY <1>0, <4>1, <4>2
      <4> QED BY <1>0, <4>1, <4>3
    <3> QED BY <1>3, <3>1, <3>2, <3>3, HandlerFrame
  <2>4. got' \in [Requests -> Seq(Nat)]
    <3>1. CASE UNCHANGED got BY <1>0, <3>1
    <3>2. CASE watch(r)
      <4>1. cursor[r] \in Nat BY <1>0
      <4>2. <<cursor[r]>> \in Seq(Nat) BY <4>1
      <4>3. UNCHANGED got \/ got' = [got EXCEPT ![r] = <<cursor[r]>>] BY <3>2 DEF watch
      <4> QED BY <1>0, <4>2, <4>3
    <3>3. CASE send(r)
      <4>1. cursor'[r] \in Nat BY <2>3, <1>0
      <4>2. Append(got[r], cursor'[r]) \in Seq(Nat) BY <1>0, <4>1
      <4>3. got' = [got EXCEPT ![r] = Append(got[r], cursor'[r])] BY <3>3 DEF send
      <4> QED BY <1>0, <4>2, <4>3
    <3> QED BY <1>3, <3>1, <3>2, <3>3, HandlerFrame
  <2> QED BY <2>1, <2>2, <2>3, <2>4 DEF StreamType
<1> QED BY <1>1, <1>2, <1>3 DEF Work

LEMMA TypeKept == ASSUME TypeInv, StreamInv, [HttpNext]_httpVars PROVE TypeInv'
<1>0. HandlerType /\ CallType /\ StreamType BY Typing
<1>1. CASE publish
  <2>1. /\ UNCHANGED <<handler, slots, client, room, got, fatal, busy>>
        /\ seq < MaxSeq /\ seq' = seq + 1
    BY <1>1 DEF publish
  <2>2. seq' \in 0..MaxSeq BY <1>0, <2>1, Constants DEF StreamType
  <2>3. HandlerType' /\ CallType' /\ StreamType'
    BY <1>0, <2>1, <2>2 DEF HandlerType, CallType, StreamType, handler
  <2> QED BY <2>3, Typing, PTL
<1>2. CASE UNCHANGED httpVars
  <2>1. HandlerType' /\ CallType' /\ StreamType'
    BY <1>0, <1>2 DEF HandlerType, CallType, StreamType, handler, httpVars
  <2> QED BY <2>1, Typing, PTL
<1>3. ASSUME NEW r \in Requests,
             \/ \E q \in Inputs : arrive(r, q)
             \/ Handle(r) \/ Work(r) \/ stall(r) \/ leave(r)
      PROVE  TypeInv'
  <2>1. CallType' BY <1>0, <1>3, CallTyped
  <2>2. StreamType' BY <1>0, <1>3, StreamTyped
  <2>3. HandlerType'
    <3>1. CASE (\E q \in Inputs : arrive(r, q)) \/ Handle(r) BY <1>0, <3>1, HandlerTyped
    <3>2. CASE Work(r) \/ stall(r) \/ leave(r)
      BY <1>0, <3>2 DEF HandlerType, Work, take, perform, stall, leave, handler
    <3> QED BY <1>3, <3>1, <3>2
  <2> QED BY <2>1, <2>2, <2>3, Typing, PTL
<1> QED BY <1>1, <1>2, <1>3 DEF HttpNext

-----------------------------------------------------------------------------
(* The slots. *)

LEMMA ReturnSlots ==
    ASSUME TypeInv, SlotInv, NEW r \in Requests, return(r)
    PROVE  SlotInv'
<1>0. /\ at \in [Requests -> Places] /\ holds \in [Requests -> BOOLEAN]
      /\ at' = [at EXCEPT ![r] = "done"] /\ holds' = [holds EXCEPT ![r] = FALSE]
      /\ IsFiniteSet(Holders) /\ slots = Cardinality(Holders) /\ slots <= MaxSlots
  BY DEF TypeInv, SlotInv, return, Move
<1>1. \A x \in Requests : at'[x] \in {"idle", "arrived", "done"} => ~holds'[x]
  BY <1>0 DEF SlotInv
<1>2. Holders' = Holders \ {r} BY <1>0 DEF Holders
<1>3. CASE holds[r]
  <2>1. r \in Holders /\ slots' = slots - 1 BY <1>3 DEF Holders, return
  <2>2. IsFiniteSet(Holders \ {r}) /\ Cardinality(Holders \ {r}) = Cardinality(Holders) - 1
    BY <1>0, <2>1, FS_RemoveElement
  <2>3. Cardinality(Holders) \in Nat BY <1>0, FS_CardinalityType
  <2>4. slots' <= MaxSlots BY <1>0, <2>1, <2>3, Constants
  <2> QED BY <1>0, <1>1, <1>2, <2>1, <2>2, <2>4 DEF SlotInv
<1>4. CASE ~holds[r]
  <2>1. slots' = slots /\ Holders \ {r} = Holders BY <1>4 DEF Holders, return
  <2> QED BY <1>0, <1>1, <1>2, <2>1 DEF SlotInv
<1> QED BY <1>3, <1>4

LEMMA SlotKept == ASSUME TypeInv, SlotInv, [HttpNext]_httpVars PROVE SlotInv'
<1>0. /\ at \in [Requests -> Places] /\ holds \in [Requests -> BOOLEAN]
      /\ IsFiniteSet(Holders) /\ slots = Cardinality(Holders) /\ slots <= MaxSlots
  BY DEF TypeInv, SlotInv
<1>1. ASSUME UNCHANGED <<slots, holds>>,
             \A x \in Requests : at'[x] \in {"idle", "arrived", "done"} => at[x] \in {"idle", "arrived", "done"}
      PROVE  SlotInv'
  <2>1. Holders' = Holders BY <1>1 DEF Holders
  <2>2. \A x \in Requests : at'[x] \in {"idle", "arrived", "done"} => ~holds'[x] BY <1>1 DEF SlotInv
  <2> QED BY <1>0, <1>1, <2>1, <2>2 DEF SlotInv
<1>2. ASSUME NEW r \in Requests, NEW place \in Places \ {"idle", "arrived", "done"}, Move(r, place),
             UNCHANGED <<slots, holds>>
      PROVE  SlotInv'
  <2>1. \A x \in Requests : at'[x] \in {"idle", "arrived", "done"} => at[x] \in {"idle", "arrived", "done"}
    BY <1>0, <1>2, Moves
  <2> QED BY <1>1, <1>2, <2>1
<1>3. ASSUME NEW r \in Requests, NEW code, respond(r, code), UNCHANGED <<slots, holds>> PROVE SlotInv'
  BY <1>2, <1>3 DEF respond, Places
<1>4. ASSUME NEW r \in Requests, admit(r) PROVE SlotInv'
  <2>1. CASE slots' = slots
    <3>1. UNCHANGED <<slots, holds>> /\ (respond(r, 403) \/ respond(r, 503))
      <4>1. Cardinality(Holders) \in Nat BY <1>0, FS_CardinalityType
      <4>2. slots + 1 # slots BY <1>0, <4>1
      <4> QED BY <1>4, <2>1, <4>2 DEF admit
    <3> QED BY <1>3, <3>1
  <2>2. CASE slots' # slots
    <3>1. /\ at[r] = "arrived" /\ slots # MaxSlots /\ slots' = slots + 1
          /\ holds' = [holds EXCEPT ![r] = TRUE] /\ Move(r, "routing")
      BY <1>4, <2>2 DEF admit
    <3>2. r \notin Holders BY <3>1 DEF SlotInv, Holders
    <3>3. Holders' = Holders \cup {r} BY <1>0, <3>1 DEF Holders
    <3>4. IsFiniteSet(Holders \cup {r}) /\ Cardinality(Holders \cup {r}) = Cardinality(Holders) + 1
      BY <1>0, <3>2, FS_AddElement
    <3>5. Cardinality(Holders) \in Nat BY <1>0, FS_CardinalityType
    <3>6. slots' <= MaxSlots BY <1>0, <3>1, <3>5, Constants
    <3>7. /\ at'[r] = "routing" /\ \A x \in Requests \ {r} : at'[x] = at[x] /\ holds'[x] = holds[x]
      BY <1>0, <3>1, Moves DEF Places
    <3>8. \A x \in Requests : at'[x] \in {"idle", "arrived", "done"} => ~holds'[x] BY <3>7 DEF SlotInv
    <3> QED BY <1>0, <3>1, <3>3, <3>4, <3>6, <3>8 DEF SlotInv
  <2> QED BY <2>1, <2>2
<1>5. ASSUME NEW r \in Requests, write(r) \/ writeFails(r) \/ sendFault(r) PROVE SlotInv'
  BY <1>5, ReturnSlots DEF write, writeFails, sendFault
<1>6. ASSUME NEW r \in Requests, route(r) \/ answer(r) \/ expire(r) PROVE SlotInv'
  <2>1. /\ UNCHANGED <<slots, holds>>
        /\ (\E code : respond(r, code)) \/ Move(r, "opening") \/ Move(r, "calling")
    BY <1>6 DEF route, answer, expire
  <2> QED BY <1>2, <1>3, <2>1 DEF Places
<1>7. ASSUME NEW r \in Requests, (\E after \in Starts : open(r, after)) \/ watch(r) PROVE SlotInv'
  <2>1. /\ UNCHANGED <<slots, holds>>
        /\ (\E code : respond(r, code)) \/ Move(r, "watching") \/ Move(r, "greeting")
    BY <1>7 DEF open, watch
  <2> QED BY <1>2, <1>3, <2>1 DEF Places, Streaming
<1>8. ASSUME NEW r \in Requests, comment(r) \/ send(r) PROVE SlotInv'
  BY <1>2, <1>8 DEF comment, send, Places, Streaming
<1>9. ASSUME NEW r \in Requests, NEW what, next(r, what) PROVE SlotInv'
  <2>1. \/ return(r)
        \/ /\ UNCHANGED <<slots, holds>>
           /\ Move(r, "sending") \/ Move(r, "beating") \/ Move(r, "failing")
    BY <1>9 DEF next
  <2> QED BY <1>2, <2>1, ReturnSlots DEF Places, Streaming
<1>10. ASSUME NEW r \in Requests, NEW q, arrive(r, q) PROVE SlotInv'
  <2>1. at[r] = "idle" /\ UNCHANGED <<slots, holds>> /\ Move(r, "arrived") BY <1>10 DEF arrive
  <2>2. \A x \in Requests : at'[x] \in {"idle", "arrived", "done"} => at[x] \in {"idle", "arrived", "done"}
    BY <1>0, <2>1, Moves DEF Places
  <2> QED BY <1>1, <2>1, <2>2
<1>11. ASSUME UNCHANGED <<slots, holds, at>> PROVE SlotInv' BY <1>1, <1>11
<1>12. CASE publish \/ UNCHANGED httpVars BY <1>11, <1>12 DEF publish, httpVars, handler
<1>13. ASSUME NEW r \in Requests, Work(r) \/ stall(r) \/ leave(r) PROVE SlotInv'
  BY <1>11, <1>13 DEF Work, take, perform, stall, leave, handler
<1> QED BY <1>4, <1>5, <1>6, <1>7, <1>8, <1>9, <1>10, <1>12, <1>13 DEF HttpNext, Handle

-----------------------------------------------------------------------------
(* The calls. *)

(* The requests a step does not concern. *)
LEMMA OtherCalls ==
    ASSUME CallInv, NEW x \in Requests, x \in DOMAIN input' <=> x \in DOMAIN input,
           input'[x] = input[x], at'[x] = at[x], op'[x] = op[x], effect'[x] = effect[x],
           busy' = x <=> busy = x
    PROVE  CallOf(x)'
<1>1. Passed(x)' <=> Passed(x) BY DEF Passed, rejection, Method
<1> QED BY <1>1 DEF CallInv, CallOf

(* A handler that goes on, answers or returns leaves its call as it is. *)
LEMMA MoveCalls ==
    ASSUME TypeInv, CallInv, NEW r \in Requests, NEW place \in Places, Move(r, place),
           UNCHANGED <<input, op, effect, busy>>, at[r] # "idle",
           \/ place \in {"writing", "done"}
           \/ place \in {"watching"} \cup Streaming /\ at[r] \in {"opening", "watching"} \cup Streaming
           \/ place = "opening" /\ at[r] = "routing" /\ input[r].path = "events"
           \/ place = "routing" /\ at[r] = "arrived" /\ ~input[r].forbidden
    PROVE  CallInv'
<1>1. at'[r] = place /\ \A x \in Requests \ {r} : at'[x] = at[x] BY Moves DEF TypeInv
<1>2. \A x \in Requests \ {r} : CallOf(x)' BY <1>1, OtherCalls
<1>3. Passed(r)' <=> Passed(r) BY DEF Passed, rejection, Method
<1>4. CallOf(r) BY DEF CallInv
<1>5. /\ at'[r] # "idle" => r \in DOMAIN input
      /\ at'[r] \in {"idle", "arrived", "routing"} => op[r] = "none"
      /\ at'[r] \notin {"idle", "arrived", "writing", "done"} => ~input[r].forbidden
      /\ at'[r] \in {"opening", "watching"} \cup Streaming => input[r].path = "events"
  BY <1>1, <1>4 DEF CallOf, Streaming
<1>6. CallOf(r)' BY <1>3, <1>4, <1>5 DEF CallOf
<1> QED BY <1>2, <1>6 DEF CallInv

LEMMA CallKept == ASSUME TypeInv, CallInv, [HttpNext]_httpVars PROVE CallInv'
<1>0. /\ at \in [Requests -> Places] /\ op \in [Requests -> {"none", "asked", "held"} \cup Results]
      /\ effect \in [Requests -> BOOLEAN] /\ DOMAIN input \subseteq Requests /\ NoRequest \notin Requests
  BY Constants DEF TypeInv
<1>1. ASSUME NEW r \in Requests, NEW q \in Inputs, arrive(r, q) PROVE CallInv'
  <2>1. /\ at[r] = "idle" /\ Move(r, "arrived") /\ UNCHANGED <<op, effect, busy>>
        /\ input' = [x \in DOMAIN input \cup {r} |-> IF x = r THEN q ELSE input[x]]
    BY <1>1 DEF arrive
  <2>2. at'[r] = "arrived" /\ \A x \in Requests \ {r} : at'[x] = at[x]
    BY <1>0, <2>1, Moves DEF Places
  <2>3. r \in DOMAIN input'
    /\ \A x \in Requests \ {r} : x \in DOMAIN input' <=> x \in DOMAIN input
    BY <2>1
  <2>4. ASSUME NEW x \in Requests \ {r} PROVE CallOf(x)'
    <3>1. CASE x \in DOMAIN input
      <4>1. input'[x] = input[x] BY <2>1, <3>1
      <4> QED BY <2>1, <2>2, <2>3, <4>1, OtherCalls
    <3>2. CASE x \notin DOMAIN input
      <4>1. at[x] = "idle" /\ op[x] = "none" /\ ~effect[x] /\ busy # x
        BY <3>2 DEF CallInv, CallOf
      <4>2. at'[x] = "idle" /\ op'[x] = "none" /\ ~effect'[x] /\ busy' # x BY <2>1, <2>2, <4>1
      <4> QED BY <4>2 DEF CallOf, Streaming
    <3> QED BY <3>1, <3>2
  <2>5. op[r] = "none" /\ ~effect[r] /\ busy # r BY <2>1 DEF CallInv, CallOf
  <2>6. CallOf(r)' BY <2>1, <2>2, <2>3, <2>5 DEF CallOf, Streaming
  <2> QED BY <2>4, <2>6 DEF CallInv
<1>2. ASSUME NEW r \in Requests, NEW code, respond(r, code), UNCHANGED <<input, op, effect, busy>>,
             at[r] # "idle"
      PROVE  CallInv'
  <2>1. Move(r, "writing") /\ "writing" \in Places BY <1>2 DEF respond, Places
  <2> QED BY <1>2, <2>1, MoveCalls
<1>3. ASSUME NEW r \in Requests, return(r), UNCHANGED <<input, op, effect, busy>>, at[r] # "idle"
      PROVE  CallInv'
  <2>1. Move(r, "done") /\ "done" \in Places BY <1>3 DEF return, Places
  <2> QED BY <1>3, <2>1, MoveCalls
<1>4. ASSUME NEW r \in Requests, admit(r) PROVE CallInv'
  <2>1. /\ UNCHANGED <<input, op, effect, busy>> /\ at[r] = "arrived"
        /\ respond(r, 403) \/ respond(r, 503) \/ (Move(r, "routing") /\ ~input[r].forbidden)
    BY <1>4 DEF admit
  <2>2. "routing" \in Places BY DEF Places
  <2> QED BY <1>2, <2>1, <2>2, MoveCalls
<1>5. ASSUME NEW r \in Requests, route(r) PROVE CallInv'
  <2>1. at[r] = "routing" /\ UNCHANGED <<input, effect, busy>> BY <1>5 DEF route
  <2>2. CallOf(r) BY DEF CallInv
  <2>3. CASE UNCHANGED op
    <3>1. \/ \E code : respond(r, code)
          \/ Move(r, "opening") /\ input[r].path = "events"
      <4>1. op[r] # "asked" BY <2>1, <2>2 DEF CallOf
      <4>2. op # [op EXCEPT ![r] = "asked"] BY <1>0, <4>1
      <4> QED BY <1>5, <2>3, <4>2 DEF route
    <3>2. "opening" \in Places BY DEF Places
    <3> QED BY <1>2, <2>1, <2>3, <3>1, <3>2, MoveCalls
  <2>4. CASE rejection(input[r]) = 0 /\ Move(r, "calling") /\ op' = [op EXCEPT ![r] = "asked"]
    <3>1. at'[r] = "calling" /\ \A x \in Requests \ {r} : at'[x] = at[x] BY <1>0, <2>4, Moves DEF Places
    <3>2. op'[r] = "asked" /\ \A x \in Requests \ {r} : op'[x] = op[x] BY <1>0, <2>4
    <3>3. \A x \in Requests \ {r} : CallOf(x)' BY <2>1, <3>1, <3>2, OtherCalls
    <3>4. /\ r \in DOMAIN input /\ ~input[r].forbidden /\ ~effect[r] /\ busy # r
      BY <2>1, <2>2 DEF CallOf
    <3>5. Passed(r)' BY <2>1, <2>4, <3>4 DEF Passed, rejection, Method
    <3>6. CallOf(r)' BY <2>1, <3>1, <3>2, <3>4, <3>5 DEF CallOf, Streaming
    <3> QED BY <3>3, <3>6 DEF CallInv
  <2> QED BY <1>5, <2>3, <2>4 DEF route
<1>6. ASSUME NEW r \in Requests, answer(r) \/ expire(r) PROVE CallInv'
  BY <1>2, <1>6 DEF answer, expire
<1>7. ASSUME NEW r \in Requests, write(r) \/ writeFails(r) \/ sendFault(r) PROVE CallInv'
  BY <1>3, <1>7 DEF write, writeFails, sendFault
<1>8. ASSUME NEW r \in Requests, (\E after \in Starts : open(r, after)) \/ watch(r) PROVE CallInv'
  <2>1. /\ UNCHANGED <<input, op, effect, busy>> /\ at[r] \in {"opening", "watching"}
        /\ (\E code : respond(r, code)) \/ Move(r, "watching") \/ Move(r, "greeting")
    BY <1>8 DEF open, watch
  <2>2. "watching" \in Places /\ "greeting" \in Places /\ "greeting" \in Streaming BY DEF Places, Streaming
  <2> QED BY <1>2, <2>1, <2>2, MoveCalls
<1>9. ASSUME NEW r \in Requests, comment(r) \/ send(r) \/ (\E what : next(r, what)) PROVE CallInv'
  <2>1. /\ UNCHANGED <<input, op, effect, busy>> /\ at[r] \in Streaming
        /\ return(r) \/ \E place \in Streaming : Move(r, place)
    BY <1>9 DEF comment, send, next, Streaming
  <2>2. at[r] # "idle" /\ \A place \in Streaming : place \in Places BY <2>1 DEF Streaming, Places
  <2> QED BY <1>3, <2>1, <2>2, MoveCalls
<1>10. ASSUME NEW r \in Requests, take(r) PROVE CallInv'
  <2>1. /\ busy = NoRequest /\ op[r] = "asked" /\ UNCHANGED <<input, at, effect>>
        /\ \/ busy' = r /\ op' = [op EXCEPT ![r] = "held"]
           \/ busy' = busy /\ op' = [op EXCEPT ![r] = "ended"]
    BY <1>10 DEF take
  <2>2. \A x \in Requests \ {r} : op'[x] = op[x] BY <1>0, <2>1
  <2>3. \A x \in Requests \ {r} : CallOf(x)' BY <1>0, <2>1, <2>2, OtherCalls
  <2>4. CallOf(r) BY DEF CallInv
  <2>5. \/ busy' = r /\ op'[r] = "held"
        \/ busy' # r /\ op'[r] = "ended"
    BY <1>0, <2>1
  <2>6. Passed(r) /\ ~effect[r] /\ at[r] \notin {"idle", "arrived", "routing"} BY <2>1, <2>4 DEF CallOf
  <2>7. Passed(r)' BY <2>1, <2>6 DEF Passed, rejection, Method
  <2>8. CallOf(r)' BY <2>1, <2>4, <2>5, <2>6, <2>7 DEF CallOf
  <2> QED BY <2>3, <2>8 DEF CallInv
<1>11. ASSUME NEW r \in Requests, NEW result \in {"ok", "queue_full", "conflict", "storage_failure"},
              perform(r, result)
       PROVE  CallInv'
  <2>1. PICK changed \in BOOLEAN :
          /\ changed => input[r].path = "command" /\ result \in {"ok", "storage_failure"}
          /\ result = "ok" /\ input[r].path = "command" => changed
          /\ effect' = [effect EXCEPT ![r] = changed]
    BY <1>11 DEF perform
  <2>2. busy = r /\ busy' = NoRequest /\ op' = [op EXCEPT ![r] = result] /\ UNCHANGED <<input, at>>
    BY <1>11 DEF perform
  <2>3. /\ op'[r] = result /\ effect'[r] = changed
        /\ \A x \in Requests \ {r} : op'[x] = op[x] /\ effect'[x] = effect[x]
    BY <1>0, <2>1, <2>2
  <2>4. \A x \in Requests \ {r} : CallOf(x)' BY <1>0, <2>2, <2>3, OtherCalls
  <2>5. CallOf(r) BY DEF CallInv
  <2>6. Passed(r) /\ op[r] = "held" /\ at[r] \notin {"idle", "arrived", "routing"}
    BY <2>2, <2>5 DEF CallOf
  <2>7. Passed(r)' BY <2>2, <2>6 DEF Passed, rejection, Method
  <2>8. CallOf(r)' BY <1>0, <2>1, <2>2, <2>3, <2>5, <2>6, <2>7 DEF CallOf
  <2> QED BY <2>4, <2>8 DEF CallInv
<1>12. ASSUME UNCHANGED <<input, at, op, effect, busy>> PROVE CallInv'
  BY <1>12, OtherCalls DEF CallInv
<1>13. ASSUME NEW r \in Requests, stall(r) \/ leave(r) PROVE CallInv'
  BY <1>12, <1>13 DEF stall, leave, handler
<1>14. CASE publish \/ UNCHANGED httpVars BY <1>12, <1>14 DEF publish, httpVars, handler
<1> QED BY <1>1, <1>4, <1>5, <1>6, <1>7, <1>8, <1>9, <1>10, <1>11, <1>13, <1>14 DEF HttpNext, Handle, Work

-----------------------------------------------------------------------------
(* The statuses. *)

LEMMA OtherStatus ==
    ASSUME StatusInv, NEW x \in Requests, status'[x] = status[x], at'[x] = at[x],
           status[x] # 0 => input'[x] = input[x] /\ op'[x] = op[x]
    PROVE  StatusSays(x)'
BY DEF StatusInv, StatusSays

LEMMA MoveStatus ==
    ASSUME TypeInv, StatusInv, NEW r \in Requests, NEW place \in Places, Move(r, place),
           UNCHANGED <<input, status>>, \A x \in Requests \ {r} : op'[x] = op[x],
           at[r] \notin {"writing", "done"} \/ (op' = op /\ place \in {"writing", "done"})
    PROVE  StatusInv'
<1>1. at'[r] = place /\ \A x \in Requests \ {r} : at'[x] = at[x] BY Moves DEF TypeInv
<1>2. \A x \in Requests \ {r} : StatusSays(x)' BY <1>1, OtherStatus
<1>3. StatusSays(r) BY DEF StatusInv
<1>4. StatusSays(r)'
  <2>1. CASE status[r] = 0 BY <2>1 DEF StatusSays
  <2>2. CASE status[r] # 0
    <3>1. op' = op /\ place \in {"writing", "done"} BY <1>3, <2>2 DEF StatusSays
    <3> QED BY <1>1, <1>3, <3>1 DEF StatusSays
  <2> QED BY <2>1, <2>2
<1> QED BY <1>2, <1>4 DEF StatusInv

(* A status is true when it is written. *)
LEMMA RespondStatus ==
    ASSUME TypeInv, StatusInv, NEW r \in Requests, NEW code, respond(r, code), UNCHANGED <<input, op>>,
           input[r].path = "command" =>
              /\ code \in Definite => op[r] \in {"none", "queue_full", "conflict"}
              /\ code = 200 => op[r] = "ok"
    PROVE  StatusInv'
<1>1. Move(r, "writing") /\ status' = [status EXCEPT ![r] = code] BY DEF respond
<1>2. at'[r] = "writing" /\ \A x \in Requests \ {r} : at'[x] = at[x] BY <1>1, Moves DEF TypeInv, Places
<1>3. status'[r] = code /\ \A x \in Requests \ {r} : status'[x] = status[x] BY <1>1 DEF TypeInv
<1>4. \A x \in Requests \ {r} : StatusSays(x)' BY <1>2, <1>3, OtherStatus
<1>5. StatusSays(r)' BY <1>2, <1>3 DEF StatusSays
<1> QED BY <1>4, <1>5 DEF StatusInv

LEMMA StatusKept == ASSUME TypeInv, CallInv, StatusInv, [HttpNext]_httpVars PROVE StatusInv'
<1>0. /\ at \in [Requests -> Places] /\ op \in [Requests -> {"none", "asked", "held"} \cup Results]
      /\ status \in [Requests -> Nat] /\ DOMAIN input \subseteq Requests
  BY DEF TypeInv
<1>1. ASSUME NEW r \in Requests, NEW q, arrive(r, q) PROVE StatusInv'
  <2>1. /\ at[r] = "idle" /\ Move(r, "arrived") /\ UNCHANGED <<op, status>>
        /\ input' = [x \in DOMAIN input \cup {r} |-> IF x = r THEN q ELSE input[x]]
    BY <1>1 DEF arrive
  <2>2. at'[r] = "arrived" /\ \A x \in Requests \ {r} : at'[x] = at[x] BY <1>0, <2>1, Moves DEF Places
  <2>3. ASSUME NEW x \in Requests \ {r}, status[x] # 0 PROVE input'[x] = input[x]
    <3>1. at[x] # "idle" BY <2>3 DEF StatusInv, StatusSays
    <3>2. x \in DOMAIN input BY <3>1 DEF CallInv, CallOf
    <3> QED BY <2>1, <3>2
  <2>4. \A x \in Requests \ {r} : StatusSays(x)' BY <2>1, <2>2, <2>3, OtherStatus
  <2>5. status'[r] = 0 BY <2>1 DEF StatusInv, StatusSays
  <2>6. StatusSays(r)' BY <2>5 DEF StatusSays
  <2> QED BY <2>4, <2>6 DEF StatusInv
<1>2. ASSUME NEW r \in Requests, admit(r) PROVE StatusInv'
  <2>1. /\ UNCHANGED <<input, op>> /\ at[r] = "arrived"
        /\ respond(r, 403) \/ respond(r, 503) \/ (Move(r, "routing") /\ UNCHANGED status)
    BY <1>2 DEF admit
  <2>2. op[r] = "none" /\ "routing" \in Places BY <2>1 DEF CallInv, CallOf, Places
  <2>3. CASE respond(r, 403) \/ respond(r, 503) BY <2>1, <2>2, <2>3, RespondStatus
  <2>4. CASE Move(r, "routing") /\ UNCHANGED status BY <2>1, <2>2, <2>4, MoveStatus
  <2> QED BY <2>1, <2>3, <2>4
<1>3. ASSUME NEW r \in Requests, route(r) PROVE StatusInv'
  <2>1. /\ UNCHANGED input /\ at[r] = "routing"
        /\ \/ rejection(input[r]) # 0 /\ respond(r, rejection(input[r])) /\ UNCHANGED op
           \/ input[r].path = "asset" /\ respond(r, 200) /\ UNCHANGED op
           \/ /\ Move(r, "opening") \/ Move(r, "calling")
              /\ UNCHANGED status /\ (UNCHANGED op \/ op' = [op EXCEPT ![r] = "asked"])
    BY <1>3 DEF route
  <2>2. op[r] = "none" /\ "opening" \in Places /\ "calling" \in Places BY <2>1 DEF CallInv, CallOf, Places
  <2>3. rejection(input[r]) # 200 BY DEF rejection
  <2>4. CASE respond(r, rejection(input[r])) /\ UNCHANGED op BY <2>1, <2>2, <2>3, <2>4, RespondStatus
  <2>5. CASE input[r].path = "asset" /\ respond(r, 200) /\ UNCHANGED op
    BY <2>1, <2>5, RespondStatus
  <2>6. CASE /\ Move(r, "opening") \/ Move(r, "calling")
             /\ UNCHANGED status /\ (UNCHANGED op \/ op' = [op EXCEPT ![r] = "asked"])
    <3>1. \A x \in Requests \ {r} : op'[x] = op[x] BY <1>0, <2>6
    <3> QED BY <2>1, <2>2, <2>6, <3>1, MoveStatus
  <2> QED BY <2>1, <2>4, <2>5, <2>6
<1>4. ASSUME NEW r \in Requests, answer(r) PROVE StatusInv'
  <2>1. op[r] \in Results /\ respond(r, StatusOf[op[r]]) /\ UNCHANGED <<input, op>>
    BY <1>4 DEF answer, StatusOf, Results
  <2>2. /\ StatusOf[op[r]] \in Definite => op[r] \in {"none", "queue_full", "conflict"}
        /\ StatusOf[op[r]] = 200 => op[r] = "ok"
    BY <2>1 DEF StatusOf, Results, Definite
  <2> QED BY <2>1, <2>2, RespondStatus
<1>5. ASSUME NEW r \in Requests, expire(r) PROVE StatusInv'
  <2>1. respond(r, 503) /\ UNCHANGED <<input, op>> BY <1>5 DEF expire
  <2>2. 503 \notin Definite BY DEF Definite
  <2> QED BY <2>1, <2>2, RespondStatus
<1>6. ASSUME NEW r \in Requests, return(r), UNCHANGED <<input, op, status>> PROVE StatusInv'
  <2>1. Move(r, "done") /\ "done" \in Places BY <1>6 DEF return, Places
  <2> QED BY <1>6, <2>1, MoveStatus
<1>7. ASSUME NEW r \in Requests, write(r) \/ writeFails(r) \/ sendFault(r) PROVE StatusInv'
  BY <1>6, <1>7 DEF write, writeFails, sendFault
<1>8. ASSUME NEW r \in Requests, (\E after \in Starts : open(r, after)) \/ watch(r) PROVE StatusInv'
  <2>1. /\ UNCHANGED <<input, op>> /\ at[r] \in {"opening", "watching"}
        /\ \/ \E code : respond(r, code)
           \/ (Move(r, "watching") \/ Move(r, "greeting")) /\ UNCHANGED status
    BY <1>8 DEF open, watch
  <2>2. input[r].path # "command" BY <2>1 DEF CallInv, CallOf
  <2>3. "watching" \in Places /\ "greeting" \in Places BY DEF Places, Streaming
  <2>4. CASE \E code : respond(r, code) BY <2>1, <2>2, <2>4, RespondStatus
  <2>5. CASE (Move(r, "watching") \/ Move(r, "greeting")) /\ UNCHANGED status
    BY <2>1, <2>3, <2>5, MoveStatus
  <2> QED BY <2>1, <2>4, <2>5
<1>9. ASSUME NEW r \in Requests, comment(r) \/ send(r) \/ (\E what : next(r, what)) PROVE StatusInv'
  <2>1. /\ UNCHANGED <<input, op, status>> /\ at[r] \in Streaming
        /\ return(r) \/ \E place \in Streaming : Move(r, place)
    BY <1>9 DEF comment, send, next, Streaming
  <2>2. at[r] \notin {"writing", "done"} /\ \A place \in Streaming : place \in Places
    BY <2>1 DEF Streaming, Places
  <2> QED BY <1>6, <2>1, <2>2, MoveStatus
<1>10. ASSUME NEW r \in Requests, op[r] \in {"asked", "held"}, UNCHANGED <<input, at, status>>,
              \A x \in Requests \ {r} : op'[x] = op[x]
       PROVE  StatusInv'
  <2>1. \A x \in Requests \ {r} : StatusSays(x)' BY <1>10, OtherStatus
  <2>2. StatusSays(r) BY DEF StatusInv
  <2>3. StatusSays(r)' BY <1>10, <2>2 DEF StatusSays
  <2> QED BY <2>1, <2>3 DEF StatusInv
<1>11. ASSUME NEW r \in Requests, take(r) PROVE StatusInv'
  <2>1. op[r] = "asked" /\ UNCHANGED <<input, at, status>>
        /\ (op' = [op EXCEPT ![r] = "held"] \/ op' = [op EXCEPT ![r] = "ended"])
    BY <1>11 DEF take
  <2>2. \A x \in Requests \ {r} : op'[x] = op[x] BY <1>0, <2>1
  <2> QED BY <1>10, <2>1, <2>2
<1>12. ASSUME NEW r \in Requests, NEW result, perform(r, result) PROVE StatusInv'
  <2>1. busy = r /\ op' = [op EXCEPT ![r] = result] /\ UNCHANGED <<input, at, status>>
    BY <1>12 DEF perform
  <2>2. op[r] = "held" BY <2>1 DEF CallInv, CallOf
  <2>3. \A x \in Requests \ {r} : op'[x] = op[x] BY <1>0, <2>1
  <2> QED BY <1>10, <2>1, <2>2, <2>3
<1>13. ASSUME UNCHANGED <<input, at, op, status>> PROVE StatusInv'
  BY <1>13, OtherStatus DEF StatusInv
<1>14. ASSUME NEW r \in Requests, stall(r) \/ leave(r) PROVE StatusInv'
  BY <1>13, <1>14 DEF stall, leave, handler
<1>15. CASE publish \/ UNCHANGED httpVars BY <1>13, <1>15 DEF publish, httpVars, handler
<1> QED BY <1>1, <1>2, <1>3, <1>4, <1>5, <1>7, <1>8, <1>9, <1>11, <1>12, <1>14, <1>15
    DEF HttpNext, Handle, Work

-----------------------------------------------------------------------------
(* The streams. *)

LEMMA OtherGot ==
    ASSUME StreamInv, NEW x \in Requests, got'[x] = got[x], cursor'[x] = cursor[x], at'[x] = at[x],
           cursor[x] \in Int, seq \in Int, seq' \in Int, seq <= seq'
    PROVE  GotOf(x)'
<1>1. GotOf(x) BY DEF StreamInv
<1>2. at'[x] = "sending" => cursor'[x] < seq' BY <1>1 DEF GotOf
<1>3. \A i \in 1..Len(got'[x]) - 1 : got'[x][i + 1] = got'[x][i] + 1 BY <1>1 DEF GotOf
<1>4. at'[x] \in Streaming => Len(got'[x]) > 0 /\ got'[x][Len(got'[x])] = cursor'[x] BY <1>1 DEF GotOf
<1> QED BY <1>2, <1>3, <1>4 DEF GotOf

LEMMA MoveGot ==
    ASSUME TypeInv, StreamInv, NEW r \in Requests, NEW place \in Places, Move(r, place),
           UNCHANGED <<got, seq>>, \A x \in Requests \ {r} : cursor'[x] = cursor[x],
           place \in Streaming => at[r] \in Streaming /\ UNCHANGED cursor,
           place = "sending" => cursor[r] < seq
    PROVE  StreamInv'
<1>0. cursor \in [Requests -> 0..MaxSeq] /\ seq \in 0..MaxSeq /\ MaxSeq \in Nat
  BY Constants DEF TypeInv
<1>1. at'[r] = place /\ \A x \in Requests \ {r} : at'[x] = at[x] BY Moves DEF TypeInv
<1>2. \A x \in Requests : cursor[x] \in Int BY <1>0
<1>3. seq \in Int /\ seq' \in Int /\ seq <= seq' BY <1>0
<1>4. \A x \in Requests \ {r} : GotOf(x)' BY <1>1, <1>2, <1>3, OtherGot
<1>5. GotOf(r) BY DEF StreamInv
<1>6. \A i \in 1..Len(got'[r]) - 1 : got'[r][i + 1] = got'[r][i] + 1 BY <1>5 DEF GotOf
<1>7. place \in Streaming => Len(got'[r]) > 0 /\ got'[r][Len(got'[r])] = cursor'[r] BY <1>5 DEF GotOf
<1>8. place = "sending" => cursor'[r] < seq' BY DEF Streaming
<1>9. GotOf(r)' BY <1>1, <1>6, <1>7, <1>8 DEF GotOf
<1> QED BY <1>4, <1>9 DEF StreamInv

LEMMA StreamKept == ASSUME TypeInv, StreamInv, [HttpNext]_httpVars PROVE StreamInv'
<1>0. /\ cursor \in [Requests -> 0..MaxSeq] /\ got \in [Requests -> Seq(Nat)] /\ seq \in 0..MaxSeq
      /\ at \in [Requests -> Places] /\ MaxSeq \in Nat
  BY Constants DEF TypeInv
<1>i. \A x \in Requests : cursor[x] \in Int BY <1>0
<1>1. ASSUME NEW r \in Requests, NEW code, respond(r, code), UNCHANGED <<got, cursor, seq>> PROVE StreamInv'
  <2>1. Move(r, "writing") /\ "writing" \in Places /\ "writing" \notin Streaming
    BY <1>1 DEF respond, Places, Streaming
  <2> QED BY <1>1, <2>1, MoveGot
<1>2. ASSUME NEW r \in Requests, return(r), UNCHANGED <<got, cursor, seq>> PROVE StreamInv'
  <2>1. Move(r, "done") /\ "done" \in Places /\ "done" \notin Streaming
    BY <1>2 DEF return, Places, Streaming
  <2> QED BY <1>2, <2>1, MoveGot
<1>3. ASSUME NEW r \in Requests, NEW q, arrive(r, q) PROVE StreamInv'
  <2>1. Move(r, "arrived") /\ "arrived" \in Places /\ "arrived" \notin Streaming /\ UNCHANGED <<got, cursor, seq>>
    BY <1>3 DEF arrive, Places, Streaming
  <2> QED BY <2>1, MoveGot
<1>4. ASSUME NEW r \in Requests, admit(r) \/ route(r) \/ answer(r) \/ expire(r) PROVE StreamInv'
  <2>1. /\ UNCHANGED <<got, cursor, seq>>
        /\ \/ \E code : respond(r, code)
           \/ \E place \in {"routing", "opening", "calling"} : Move(r, place)
    BY <1>4 DEF admit, route, answer, expire
  <2>2. \A place \in {"routing", "opening", "calling"} : place \in Places /\ place \notin Streaming
    BY DEF Places, Streaming
  <2> QED BY <1>1, <2>1, <2>2, MoveGot
<1>5. ASSUME NEW r \in Requests, write(r) \/ writeFails(r) \/ sendFault(r) PROVE StreamInv'
  BY <1>2, <1>5 DEF write, writeFails, sendFault
<1>6. ASSUME NEW r \in Requests, NEW after \in Starts, open(r, after) PROVE StreamInv'
  <2>1. /\ UNCHANGED <<got, seq>>
        /\ \/ (\E code : respond(r, code)) /\ UNCHANGED cursor
           \/ Move(r, "watching") /\ \E c : cursor' = [cursor EXCEPT ![r] = c]
    BY <1>6 DEF open
  <2>2. CASE (\E code : respond(r, code)) /\ UNCHANGED cursor BY <1>1, <2>1, <2>2
  <2>3. CASE Move(r, "watching") /\ \E c : cursor' = [cursor EXCEPT ![r] = c]
    <3>1. \A x \in Requests \ {r} : cursor'[x] = cursor[x] BY <1>0, <2>3
    <3>2. "watching" \in Places /\ "watching" \notin Streaming BY DEF Places, Streaming
    <3> QED BY <2>1, <2>3, <3>1, <3>2, MoveGot
  <2> QED BY <2>1, <2>2, <2>3
<1>7. ASSUME NEW r \in Requests, watch(r) PROVE StreamInv'
  <2>1. /\ UNCHANGED <<cursor, seq>>
        /\ \/ (\E code : respond(r, code)) /\ UNCHANGED got
           \/ Move(r, "greeting") /\ got' = [got EXCEPT ![r] = <<cursor[r]>>]
    BY <1>7 DEF watch
  <2>2. CASE (\E code : respond(r, code)) /\ UNCHANGED got BY <1>1, <2>1, <2>2
  <2>3. CASE Move(r, "greeting") /\ got' = [got EXCEPT ![r] = <<cursor[r]>>]
    <3>1. at'[r] = "greeting" /\ \A x \in Requests \ {r} : at'[x] = at[x]
      BY <1>0, <2>3, Moves DEF Places, Streaming
    <3>2. got'[r] = <<cursor[r]>> /\ \A x \in Requests \ {r} : got'[x] = got[x] BY <1>0, <2>3
    <3>3. seq \in Int /\ seq' \in Int /\ seq <= seq' BY <1>0, <2>1
    <3>4. \A x \in Requests \ {r} : GotOf(x)' BY <1>i, <2>1, <3>1, <3>2, <3>3, OtherGot
    <3>5. Len(got'[r]) = 1 /\ got'[r][1] = cursor'[r] BY <2>1, <3>2
    <3>6. \A i \in 1..Len(got'[r]) - 1 : got'[r][i + 1] = got'[r][i] + 1 BY <3>5
    <3>7. Len(got'[r]) > 0 /\ got'[r][Len(got'[r])] = cursor'[r] BY <3>5
    <3>8. GotOf(r)' BY <3>1, <3>6, <3>7 DEF GotOf
    <3> QED BY <3>4, <3>8 DEF StreamInv
  <2> QED BY <2>1, <2>2, <2>3
<1>8. ASSUME NEW r \in Requests, comment(r) PROVE StreamInv'
  <2>1. /\ UNCHANGED <<cursor, got, seq>> /\ at[r] \in Streaming /\ Move(r, "next") /\ "next" \in Places
    BY <1>8 DEF comment, Streaming, Places
  <2> QED BY <2>1, MoveGot
<1>9. ASSUME NEW r \in Requests, NEW what, next(r, what) PROVE StreamInv'
  <2>1. /\ UNCHANGED <<cursor, got, seq>> /\ at[r] \in Streaming
        /\ \/ return(r)
           \/ Move(r, "sending") /\ cursor[r] < seq
           \/ Move(r, "beating")
           \/ Move(r, "failing")
    BY <1>9 DEF next, Streaming
  <2>2. "sending" \in Places /\ "beating" \in Places /\ "failing" \in Places BY DEF Places, Streaming
  <2> QED BY <1>2, <2>1, <2>2, MoveGot
<1>10. ASSUME NEW r \in Requests, send(r) PROVE StreamInv'
  <2>1. /\ at[r] = "sending" /\ Move(r, "next") /\ UNCHANGED seq
        /\ cursor' = [cursor EXCEPT ![r] = @ + 1]
        /\ got' = [got EXCEPT ![r] = Append(@, cursor'[r])]
    BY <1>10 DEF send
  <2>2. at'[r] = "next" /\ \A x \in Requests \ {r} : at'[x] = at[x]
    BY <1>0, <2>1, Moves DEF Places, Streaming
  <2>3. cursor'[r] = cursor[r] + 1 /\ \A x \in Requests \ {r} : cursor'[x] = cursor[x] BY <1>0, <2>1
  <2>4. got'[r] = Append(got[r], cursor'[r]) /\ \A x \in Requests \ {r} : got'[x] = got[x] BY <1>0, <2>1
  <2>5. seq \in Int /\ seq' \in Int /\ seq <= seq' BY <1>0, <2>1
  <2>6. \A x \in Requests \ {r} : GotOf(x)' BY <1>i, <2>2, <2>3, <2>4, <2>5, OtherGot
  <2>7. /\ got[r] \in Seq(Nat) /\ Len(got[r]) \in Nat /\ Len(got[r]) > 0
        /\ got[r][Len(got[r])] = cursor[r]
        /\ \A i \in 1..Len(got[r]) - 1 : got[r][i + 1] = got[r][i] + 1
    BY <1>0, <2>1 DEF StreamInv, GotOf, Streaming
  <2>8. cursor'[r] \in Nat BY <1>0, <2>3
  <2>9. /\ Len(got'[r]) = Len(got[r]) + 1 /\ got'[r][Len(got[r]) + 1] = cursor'[r]
        /\ \A i \in 1..Len(got[r]) : got'[r][i] = got[r][i]
    BY <2>4, <2>7, <2>8
  <2>10. ASSUME NEW i \in 1..Len(got'[r]) - 1 PROVE got'[r][i + 1] = got'[r][i] + 1
    <3>1. CASE i = Len(got[r])
      <4>1. got'[r][i] = cursor[r] BY <2>7, <2>9, <3>1
      <4> QED BY <2>3, <2>9, <3>1, <4>1
    <3>2. CASE i # Len(got[r])
      <4>1. i \in 1..Len(got[r]) - 1 /\ i + 1 \in 1..Len(got[r]) /\ i \in 1..Len(got[r])
        BY <2>7, <2>9, <3>2
      <4> QED BY <2>7, <2>9, <4>1
    <3> QED BY <3>1, <3>2
  <2>11. Len(got'[r]) > 0 /\ got'[r][Len(got'[r])] = cursor'[r] BY <2>7, <2>9
  <2>12. GotOf(r)' BY <2>2, <2>10, <2>11 DEF GotOf
  <2> QED BY <2>6, <2>12 DEF StreamInv
<1>11. ASSUME UNCHANGED <<at, cursor, got>>, seq' \in Int, seq <= seq' PROVE StreamInv'
  <2>1. seq \in Int BY <1>0
  <2> QED BY <1>i, <1>11, <2>1, OtherGot DEF StreamInv
<1>12. ASSUME NEW r \in Requests, take(r) \/ stall(r) \/ leave(r) PROVE StreamInv'
  <2>1. UNCHANGED <<at, cursor, got, seq>> BY <1>12 DEF take, stall, leave, handler
  <2>2. seq' \in Int /\ seq <= seq' BY <1>0, <2>1
  <2> QED BY <1>11, <2>1, <2>2
<1>13. ASSUME NEW r \in Requests, NEW result, perform(r, result) PROVE StreamInv'
  <2>1. UNCHANGED <<at, cursor, got>> /\ (seq' = seq \/ seq' = seq + 1) BY <1>13 DEF perform
  <2>2. seq' \in Int /\ seq <= seq' BY <1>0, <2>1
  <2> QED BY <1>11, <2>1, <2>2
<1>14. CASE publish \/ UNCHANGED httpVars
  <2>1. UNCHANGED <<at, cursor, got>> /\ (seq' = seq \/ seq' = seq + 1)
    BY <1>14 DEF publish, httpVars, handler
  <2>2. seq' \in Int /\ seq <= seq' BY <1>0, <2>1
  <2> QED BY <1>11, <2>1, <2>2
<1> QED BY <1>3, <1>4, <1>5, <1>6, <1>7, <1>8, <1>9, <1>10, <1>12, <1>13, <1>14
    DEF HttpNext, Handle, Work

-----------------------------------------------------------------------------
(* The theorems. *)

(* The invariant that carries the others: the types, the count of the slots' holders, what a call's
   result says of its effect, what a status says of the call, and where a stream's client is. *)
THEOREM HttpInvariant == HttpSpec => []Inv
<1>1. HttpInit => Inv
  <2> SUFFICES ASSUME HttpInit PROVE Inv OBVIOUS
  <2>1. TypeInv
    <3>1. HandlerType BY DEF HttpInit, HandlerType, Places
    <3>2. DOMAIN input = {}
      <4>1. input = <<>> BY DEF HttpInit
      <4> QED BY <4>1
    <3>3. CallType BY <3>2 DEF HttpInit, CallType
    <3>4. 0 \in 0..MaxSeq /\ Buffer \in 0..Buffer /\ <<>> \in Seq(Nat) BY Constants
    <3>5. StreamType BY <3>4 DEF HttpInit, StreamType
    <3> QED BY <3>1, <3>3, <3>5, Typing
  <2>2. SlotInv
    <3>1. Holders = {} /\ slots = 0 BY DEF HttpInit, Holders
    <3>2. IsFiniteSet({}) /\ Cardinality({}) = 0 BY FS_EmptySet
    <3>3. \A r \in Requests : ~holds[r] BY DEF HttpInit
    <3> QED BY <3>1, <3>2, <3>3, Constants DEF SlotInv
  <2>3. CallInv BY Constants DEF HttpInit, CallInv, CallOf, Streaming
  <2>4. StatusInv BY DEF HttpInit, StatusInv, StatusSays
  <2>5. StreamInv
    <3>1. ASSUME NEW r \in Requests PROVE GotOf(r)
      <4>1. at[r] = "idle" /\ got[r] = <<>> BY DEF HttpInit
      <4>2. \A i \in 1..Len(got[r]) - 1 : got[r][i + 1] = got[r][i] + 1 BY <4>1
      <4> QED BY <4>1, <4>2 DEF GotOf, Streaming
    <3> QED BY <3>1 DEF StreamInv
  <2> QED BY <2>1, <2>2, <2>3, <2>4, <2>5 DEF Inv
<1>2. Inv /\ [HttpNext]_httpVars => Inv'
  BY TypeKept, SlotKept, CallKept, StatusKept, StreamKept DEF Inv
<1> QED BY <1>1, <1>2, PTL DEF HttpSpec

(* For any number of requests, slots and events: once ServeHTTP has decided a status other than 5xx
   it is the truth about its command for good, although the call may outlive the handler; and only
   a POST of JSON that passed every check has an effect. *)
THEOREM AnswerTheorem == HttpSpec => []AnswerHonest
<1>1. Inv => AnswerHonest
  <2> SUFFICES ASSUME Inv PROVE AnswerHonest OBVIOUS
  <2>0. TypeInv /\ CallInv /\ StatusInv BY DEF Inv
  <2>1. ASSUME NEW r \in DOMAIN input, input[r].path = "command"
        PROVE  /\ status[r] \in Definite => ~effect[r] /\ op[r] \notin {"asked", "held"}
               /\ status[r] = 200 => effect[r]
    <3>1. r \in Requests BY <2>0 DEF TypeInv
    <3>2. CallOf(r) /\ StatusSays(r) BY <2>0, <3>1 DEF CallInv, StatusInv
    <3>3. 0 \notin Definite BY DEF Definite
    <3> QED BY <2>1, <3>2, <3>3 DEF CallOf, StatusSays
  <2>2. ASSUME NEW r \in Requests, effect[r]
        PROVE  /\ r \in DOMAIN input /\ ~input[r].forbidden /\ rejection(input[r]) = 0
               /\ input[r].json /\ input[r].method = "POST" /\ input[r].path = "command"
    <3>1. CallOf(r) BY <2>0 DEF CallInv
    <3>2. input[r].path = "command" /\ op[r] # "none" BY <2>2, <3>1 DEF CallOf
    <3>3. r \in DOMAIN input /\ ~input[r].forbidden /\ rejection(input[r]) = 0
      BY <3>1, <3>2 DEF CallOf, Passed
    <3>4. input[r].method = "POST" /\ input[r].json BY <3>2, <3>3 DEF rejection, Method
    <3> QED BY <3>2, <3>3, <3>4
  <2> QED BY <2>1, <2>2 DEF AnswerHonest
<1> QED BY <1>1, HttpInvariant, PTL

(* For any number of requests and events: what a client of the event stream received goes on from
   its first number by ones, wherever the worker was between Snapshot, Watch and the writes. *)
THEOREM StreamTheorem == HttpSpec => []StreamContiguous
<1>1. Inv => StreamContiguous BY DEF Inv, StreamInv, GotOf, StreamContiguous
<1> QED BY <1>1, HttpInvariant, PTL

(* For any number of requests and slots: never more than MaxSlots are taken, and when no handler is
   at work all of them are free, whichever way each of them returned. *)
THEOREM SlotsTheorem == HttpSpec => []HttpTypeOK
<1>1. Inv => HttpTypeOK
  <2> SUFFICES ASSUME Inv PROVE HttpTypeOK OBVIOUS
  <2>1. /\ DOMAIN input \subseteq Requests /\ \A r \in DOMAIN input : input[r] \in Inputs
        /\ busy \in Requests \cup {NoRequest} /\ seq \in 0..MaxSeq
        /\ \A r \in Requests : cursor[r] \in 0..MaxSeq /\ room[r] \in 0..Buffer
    BY DEF Inv, TypeInv
  <2>2. IsFiniteSet(Holders) /\ slots = Cardinality(Holders) /\ slots <= MaxSlots BY DEF Inv, SlotInv
  <2>3. slots \in 0..MaxSlots
    <3>1. Cardinality(Holders) \in Nat BY <2>2, FS_CardinalityType
    <3> QED BY <2>2, <3>1, Constants
  <2>4. (\A r \in Requests : ~Serving(r)) => slots = 0
    <3>1. HAVE \A r \in Requests : ~Serving(r)
    <3>2. \A r \in Requests : ~holds[r] BY <3>1 DEF Serving, Inv, SlotInv
    <3>3. Holders = {} BY <3>2 DEF Holders
    <3> QED BY <2>2, <3>3, FS_EmptySet
  <2> QED BY <2>1, <2>3, <2>4 DEF HttpTypeOK
<1> QED BY <1>1, HttpInvariant, PTL
==============================================================================
