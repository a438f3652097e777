------------------------------- MODULE Service -------------------------------
(***************************************************************************)
(* The life of the service process: service.Run takes the address, then    *)
(* the data directory, then starts the worker, and on the way out closes   *)
(* the server and waits for the worker, which keeps the store until its    *)
(* backend has returned.  Several processes are started on one address and *)
(* one directory, are stopped, crash and are started again, while requests *)
(* and the backend go on in goroutines that Run does not wait for.         *)
(*                                                                         *)
(* The worker is what the shutdown sees of it: whether a backend runs,     *)
(* stopping and closed; Worker.tla has the rest.                           *)
(***************************************************************************)
EXTENDS Integers, FiniteSets

CONSTANTS
    Processes,
    MaxCalls,      \* bound: handlers in the worker of one process
    MaxStarts,     \* bound: starts of all processes
    None

ASSUME NoneAssumption == None \notin Processes

VARIABLES
    pc,                         \* where Run is
    port, lock,                 \* the owners of the address and of owner.lock
    calls,                      \* handlers on their way to the worker's mutex
    backend, stopping, closed,  \* the processes whose worker runs a backend, is stopping, is closed
    late,                       \* the processes that wrote without owning the store
    starts

worker == <<backend, stopping, closed>>
vars == <<pc, port, lock, calls, worker, late, starts>>

Init ==
    /\ pc = [p \in Processes |-> "off"] /\ port = None /\ lock = None
    /\ calls = [p \in Processes |-> 0]
    /\ backend = {} /\ stopping = {} /\ closed = {}
    /\ late = {} /\ starts = 0

Go(p, next) == pc' = [pc EXCEPT ![p] = next]
Free(owner, p) == IF owner = p THEN None ELSE owner

(* A write to the journal, through whatever file the process has. *)
Write(p) == late' = IF lock = p THEN late ELSE late \cup {p}

(* The process is gone: the system closes its listener and its lock. *)
Gone(p) ==
    /\ Go(p, "off")
    /\ port' = Free(port, p) /\ lock' = Free(lock, p)
    /\ calls' = [calls EXCEPT ![p] = 0]
    /\ backend' = backend \ {p} /\ stopping' = stopping \ {p} /\ closed' = closed \ {p}

-----------------------------------------------------------------------------
(* Run. *)

Listen(p) ==
    /\ pc[p] = "off" /\ starts < MaxStarts /\ starts' = starts + 1
    /\ IF port = None THEN port' = p /\ Go(p, "open") ELSE UNCHANGED <<port, pc>>
    /\ UNCHANGED <<lock, calls, worker, late>>

(* Mutant: the directory is opened although another process has it. *)
OpenShared(p) ==
    /\ pc[p] = "open"
    /\ lock' = p /\ Go(p, "recover") /\ UNCHANGED port
    /\ UNCHANGED <<calls, worker, late, starts>>

(* journal.Open takes the lock or fails, which gives the address back. *)
Open(p) ==
    /\ pc[p] = "open"
    /\ IF lock = None THEN lock' = p /\ Go(p, "recover") /\ UNCHANGED port
       ELSE Go(p, "off") /\ port' = Free(port, p) /\ UNCHANGED lock
    /\ UNCHANGED <<calls, worker, late, starts>>

(* NewWorker recovers, which writes, and dispatches a queued job; or it fails and all is given back. *)
NewWorker(p) ==
    /\ pc[p] = "recover"
    /\ \/ /\ Go(p, "serving") /\ Write(p)
          /\ backend' \in {backend \ {p}, backend \cup {p}}
          /\ UNCHANGED <<port, lock, calls, stopping, closed>>
       \/ Gone(p) /\ UNCHANGED late
    /\ UNCHANGED starts

(* The context ends or Serve fails; the base context of the handlers is cancelled. *)
Stop(p) ==
    /\ pc[p] = "serving" /\ Go(p, "closing")
    /\ UNCHANGED <<port, lock, calls, worker, late, starts>>

(* srv.Close closes the listener and the connections, not the handlers. *)
CloseServer(p) ==
    /\ pc[p] = "closing" /\ Go(p, "waiting") /\ port' = Free(port, p)
    /\ UNCHANGED <<lock, calls, worker, late, starts>>

(* Mutant: the store is closed when the ten seconds are over. *)
TimeoutCloses(p) ==
    /\ pc[p] = "waiting" /\ Go(p, "patient")
    /\ closed' = closed \cup {p} /\ lock' = Free(lock, p)
    /\ UNCHANGED <<port, calls, backend, stopping, late, starts>>

(* The ten seconds are over; Run waits on without a deadline. *)
Timeout(p) ==
    /\ pc[p] = "waiting" /\ Go(p, "patient")
    /\ UNCHANGED <<port, lock, calls, worker, late, starts>>

Return(p) ==
    /\ pc[p] \in {"waiting", "patient"} /\ p \in closed
    /\ Go(p, "returned")
    /\ UNCHANGED <<port, lock, calls, worker, late, starts>>

Exit(p) == pc[p] = "returned" /\ Gone(p) /\ UNCHANGED <<late, starts>>
Crash(p) == pc[p] # "off" /\ Gone(p) /\ UNCHANGED <<late, starts>>

-----------------------------------------------------------------------------
(* The worker's goroutines; each step is under its mutex. *)

closeStore(p) ==
    IF p \in closed THEN UNCHANGED <<closed, lock>>
    ELSE closed' = closed \cup {p} /\ lock' = Free(lock, p)

(* Mutant: a worker without a running job is only marked. *)
ShutdownMarks(p) ==
    /\ pc[p] \in {"waiting", "patient"} /\ p \notin stopping
    /\ stopping' = stopping \cup {p}
    /\ UNCHANGED <<closed, lock>>
    /\ UNCHANGED <<pc, port, calls, backend, late, starts>>

(* The goroutine of Shutdown: the backend is told to end, or the store is closed at once. *)
Shutdown(p) ==
    /\ pc[p] \in {"waiting", "patient"} /\ p \notin stopping
    /\ stopping' = stopping \cup {p}
    /\ IF p \in backend THEN UNCHANGED <<closed, lock>> ELSE closeStore(p)
    /\ UNCHANGED <<pc, port, calls, backend, late, starts>>

(* A request arrives, and later its command gets the mutex. *)
Call(p) ==
    /\ pc[p] = "serving" /\ calls[p] < MaxCalls
    /\ calls' = [calls EXCEPT ![p] = @ + 1]
    /\ UNCHANGED <<pc, port, lock, worker, late, starts>>

(* Mutant: a command does not ask whether the worker is available. *)
CommandAlways(p) ==
    /\ calls[p] > 0 /\ calls' = [calls EXCEPT ![p] = @ - 1]
    /\ Write(p)
    /\ backend' \in {backend, backend \cup {p}}
    /\ UNCHANGED <<pc, port, lock, stopping, closed, starts>>

(* The command commits and may start a job, or is refused. *)
Command(p) ==
    /\ calls[p] > 0 /\ calls' = [calls EXCEPT ![p] = @ - 1]
    /\ IF p \in stopping THEN UNCHANGED <<backend, late>>
       ELSE /\ Write(p)
            /\ backend' \in {backend, backend \cup {p}}
    /\ UNCHANGED <<pc, port, lock, stopping, closed, starts>>

emit(p) ==
    /\ p \in backend /\ Write(p)
    /\ UNCHANGED <<pc, port, lock, calls, worker, starts>>

(* The backend has returned: the result is written and the store closed, or the next job started. *)
complete(p) ==
    /\ p \in backend /\ Write(p)
    /\ IF p \in stopping THEN backend' = backend \ {p} /\ closeStore(p)
       ELSE /\ backend' \in {backend \ {p}, backend \cup {p}}
            /\ UNCHANGED <<closed, lock>>
    /\ UNCHANGED <<pc, port, calls, stopping, starts>>

Next == \E p \in Processes :
    \/ Listen(p) \/ Open(p) \/ NewWorker(p) \/ Stop(p) \/ CloseServer(p) \/ Timeout(p) \/ Return(p) \/ Exit(p)
    \/ Shutdown(p) \/ Call(p) \/ Command(p) \/ emit(p) \/ complete(p) \/ Crash(p)

Spec == Init /\ [][Next]_vars

-----------------------------------------------------------------------------
(* Properties. *)

(* The types; a process that is off has nothing left. *)
TypeOK ==
    /\ port \in Processes \cup {None} /\ lock \in Processes \cup {None}
    /\ \A p \in Processes :
         /\ pc[p] \in {"off", "open", "recover", "serving", "closing", "waiting", "patient", "returned"}
         /\ calls[p] \in 0..MaxCalls
         /\ pc[p] = "off" => p \notin {port, lock} /\ p \notin backend

(* Only the owner of the directory writes to it: not a process that is on its way out, however
   late its requests, its backend's output or its result come, and not one that was refused. *)
OnlyOwnerWrites == late = {}

(* At most one process runs inference, although the next one can have the address before the last
   has given up the directory. *)
OneBackend == Cardinality(backend) <= 1

(* Who answers at the address owns the store, until its listener is closed. *)
AnswersOwn == \A p \in Processes : pc[p] \in {"serving", "closing"} => port = p /\ lock = p

(* A stopped service ends: it never waits for ever for its worker. *)
StopEnds == \A p \in Processes : pc[p] = "closing" ~> pc[p] = "off"
==============================================================================
