------------------------------ MODULE MCServer ------------------------------
(***************************************************************************)
(* Instances of the service process: its life (Service), the requests it   *)
(* serves (HttpServer) and the inference it waits for (Generate).  They    *)
(* meet only in what each assumes of the others and share no variable, so  *)
(* a property of one is checked in the behaviours in which only it moves:  *)
(* part says which.                                                        *)
(***************************************************************************)
EXTENDS Service, HttpServer, TLC

CONSTANT Absent

VARIABLES
    part,
    manifest, resident, changes, changed, request, phase, context, outcome, first, second, info,
    wire, end, total, output, done, emitted, faulty

call == <<manifest, resident, changes, changed, request, phase, context, outcome, first, second, info,
          wire, end, total, output, done, emitted, faulty>>

Plain(path) == [forbidden |-> FALSE, path |-> path, method |-> IF path = "command" THEN "POST" ELSE "GET",
                query |-> FALSE, body |-> IF path = "command" THEN "good" ELSE "none", json |-> TRUE]
(* A command, a new stream and one that resumes. *)
Mixed == {Plain("command"), Plain("events"), [Plain("events") EXCEPT !.query = TRUE]}

(* One request, but of every kind, and a longer stream. *)
One == {CHOOSE r \in Requests : TRUE}
C == INSTANCE HttpServer WITH Requests <- One, Inputs <- AllInputs, MaxSeq <- 2

OneModel == {[digest |-> "a", capacity |-> 7, estimate |-> 2, usable |-> TRUE]}
OneRequest == {[requested |-> 6, reserve |-> 2]}
G == INSTANCE Generate WITH
        Models <- OneModel, Requests <- OneRequest, Allocations <- {3}, MaxInt <- 7,
        MaxOutputBytes <- 1, StreamLimit <- 1, MaxChanges <- 0, ctx <- context

all == <<part, vars, httpVars, call>>
MCInit ==
    /\ part \in {"service", "http", "request", "generate"}
    /\ Init /\ HttpInit /\ G!Init
    /\ part # "generate" => resident = None
MCNext ==
    \/ part = "service" /\ Next /\ UNCHANGED <<part, httpVars, call>>
    \/ part = "http" /\ HttpNext /\ UNCHANGED <<part, vars, call>>
    \/ part = "request" /\ C!HttpNext /\ UNCHANGED <<part, vars, call>>
    \/ part = "generate" /\ G!Next /\ UNCHANGED <<part, vars, httpVars>>

(* Run goes on, its goroutine gets the mutex, and a backend that was told to end returns (Returns
   below).  Handlers and calls go on, and a stream's call gets the worker's mutex; clients owe
   nothing.  Time passes and a read ends with its context; the daemon owes nothing. *)
Service_(A) == part = "service" /\ A
Http_(A) == part \in {"http", "request"} /\ A
MCSpec ==
    /\ MCInit /\ [][MCNext]_all
    /\ \A p \in Processes :
        /\ WF_vars(Service_(CloseServer(p) \/ Return(p) \/ Exit(p))) /\ WF_vars(Service_(Shutdown(p)))
        /\ WF_vars(Service_(p \in stopping /\ complete(p)))
    /\ \A r \in Requests :
        /\ WF_httpVars(Http_(Handle(r))) /\ WF_httpVars(Http_(Work(r)))
        /\ SF_httpVars(Http_(watch(r))) /\ SF_httpVars(Http_(\E after \in Starts : open(r, after)))
    /\ WF_call(part = "generate" /\ G!Expire) /\ WF_call(part = "generate" /\ G!Abort)

(* A client that has left or stopped reading does not keep its request slot: the write deadline,
   heartbeats and the request's context end its handler; and with nobody in a handler every slot
   is free. *)
SlotsComeBack ==
    /\ [](part = "http" => HttpTypeOK)
    /\ \A r \in Requests : client[r] # "reads" /\ holds[r] ~> ~holds[r]

(* Generate returns, although the daemon may never answer: at any step, the deadline ends it. *)
Returns == part = "generate" ~> outcome # None
==============================================================================
