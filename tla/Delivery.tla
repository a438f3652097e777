------------------------------ MODULE Delivery ------------------------------
(***************************************************************************)
(* A create command from its intent to its settlement: the page            *)
(* (create and sendSaved in webui/app.js with Recovery in state.js) or an  *)
(* agent of the MCP bridge, the CLI or the Python client (Call in          *)
(* httpapi/client.go, faultBody in mcpbridge/view.go), the connection, and *)
(* create in core/worker.go with its receipts.                             *)
(*                                                                         *)
(* An intent is its idempotency key.  A store keeps, per key, how many     *)
(* jobs it made; gate is what refuses a new job now.  Every send is an     *)
(* attempt, which its client may abandon before its server is through.     *)
(***************************************************************************)
EXTENDS Integers, FiniteSets

CONSTANTS
    Keys,          \* bound: the intents of the client are 1..Keys
    Attempts,      \* attempts on the way at one time
    Stores,        \* data directories the service may be started on
    MaxFaults,     \* bound: faults of the environment
    MaxChanges,    \* bound: changes of gate
    PromptClose,   \* the clients whose closed connections are seen at the other end before anything else happens there
    NoStore, NoAttempt

ASSUME DeliveryAssumption ==
    /\ {Keys, MaxFaults, MaxChanges} \subseteq Nat
    /\ PromptClose \subseteq {"page", "agent"} /\ NoStore \notin Stores /\ NoAttempt \notin Attempts

VARIABLES
    role,     \* the client is a "page" or an "agent"
    pending,  \* the saved command: key (0 for none) and the store it was made for
    last,     \* keys made so far
    busy,     \* the attempt the client waits for
    view,     \* the store of the client's projection, NoStore while disconnected
    settled,  \* what the client holds to be true of each intent
    attempt,  \* per attempt: where it is, its key, its answer, whether its context is live
    up, store,     \* the service runs, on this data directory
    known,    \* receipts in its memory
    jobs,     \* jobs on each disk, per key
    fatal,    \* the worker has failed
    live,     \* the event stream of the client still is connected
    gate, faults, changes

client == <<role, pending, last, busy, view, settled>>
server == <<up, store, known, jobs, fatal, gate, changes>>
vars == <<client, server, attempt, live, faults>>

Free == [at |-> "free", key |-> 0, answer |-> "none", ctx |-> TRUE]
Nothing == [key |-> 0, store |-> NoStore]
Gates == {"open", "queue_full", "limit_exceeded"} \cup (IF role = "agent" THEN {"conflict"} ELSE {})

Init ==
    /\ role \in {"page", "agent"}
    /\ pending = Nothing /\ last = 0 /\ busy = NoAttempt /\ view = NoStore
    /\ settled = [k \in 1..Keys |-> "open"]
    /\ attempt = [a \in Attempts |-> Free]
    /\ up = TRUE /\ store \in Stores /\ known = {}
    /\ jobs = [s \in Stores |-> [k \in 1..Keys |-> 0]]
    /\ fatal = FALSE /\ live = FALSE /\ gate = "open" /\ faults = 0 /\ changes = 0

Fault == faults < MaxFaults /\ faults' = faults + 1
Put(a, place, answer) == attempt' = [attempt EXCEPT ![a].at = place, ![a].answer = answer]

-----------------------------------------------------------------------------
(* The client. *)

(* request: a service that does not run refuses the connection. *)
Send(a, key) ==
    /\ busy = NoAttempt /\ attempt[a].at = "free"
    /\ attempt' = [attempt EXCEPT ![a] =
         IF up THEN [Free EXCEPT !.at = "sent", !.key = key]
         ELSE [Free EXCEPT !.at = "answered", !.key = key, !.answer = "unreachable"]]
    /\ busy' = a

Prompt == role \in PromptClose

(* A new intent: a fresh key, saved before it is sent. *)
create(a) ==
    /\ pending.key = 0 /\ last < Keys
    /\ role = "page" => view # NoStore
    /\ last' = last + 1
    /\ pending' = [key |-> last', store |-> view]
    /\ Send(a, last')
    /\ UNCHANGED <<role, view, settled, server, live, faults>>

(* Mutant: the store of the saved command is not compared. *)
sendSavedAnywhere(a) ==
    /\ role = "page" /\ pending.key # 0 /\ view # NoStore
    /\ Send(a, pending.key)
    /\ UNCHANGED <<role, pending, last, view, settled, server, live, faults>>

(* The saved command again: the page compares its store with that of the projection. *)
sendSaved(a) ==
    /\ role = "page" /\ pending.key # 0 /\ view = pending.store
    /\ Send(a, pending.key)
    /\ UNCHANGED <<role, pending, last, view, settled, server, live, faults>>

(* The same tool with identical arguments: the bridge keeps no record and compares no store. *)
resend(a) ==
    /\ role = "agent" /\ pending.key # 0
    /\ Send(a, pending.key)
    /\ UNCHANGED <<role, pending, last, view, settled, server, live, faults>>

(* Mutant: a storage failure is taken for a rejection. *)
RejectsStorage(answer) ==
    answer \in {"queue_full", "limit_exceeded", "storage_failure"} \/ (answer = "conflict" /\ role = "agent")

(* The faults that settle an intent: the statuses of sendSaved, the codes of faultBody. *)
Rejects(answer) ==
    answer \in {"queue_full", "limit_exceeded"} \/ (answer = "conflict" /\ role = "agent")

(* Mutant: a failed request leaves the page busy. *)
receiveStuck(a) ==
    LET answer == attempt[a].answer
        done == answer = "job" \/ Rejects(answer)
    IN  /\ busy = a /\ attempt[a].at = "answered"
        /\ busy' = IF done THEN NoAttempt ELSE a
        /\ attempt' = [attempt EXCEPT ![a] = Free]
        /\ pending' = IF done THEN Nothing ELSE pending
        /\ settled' = IF done THEN [settled EXCEPT ![attempt[a].key] = IF answer = "job" THEN "accepted" ELSE "rejected"]
                      ELSE settled
        /\ UNCHANGED <<role, last, view, server, live, faults>>

(* An answer settles the intent, or leaves it as uncertain as it was. *)
receive(a) ==
    LET answer == attempt[a].answer
        done == answer = "job" \/ Rejects(answer)
    IN  /\ busy = a /\ attempt[a].at = "answered"
        /\ busy' = NoAttempt
        /\ attempt' = [attempt EXCEPT ![a] = Free]
        /\ pending' = IF done THEN Nothing ELSE pending
        /\ settled' = IF done THEN [settled EXCEPT ![attempt[a].key] = IF answer = "job" THEN "accepted" ELSE "rejected"]
                      ELSE settled
        /\ UNCHANGED <<role, last, view, server, live, faults>>

(* The request times out, or its page or process goes: the connection closes and the attempt is
   on its own.  The server learns of it in notice, or at once. *)
giveUp(a) ==
    /\ busy = a /\ Fault
    /\ busy' = NoAttempt
    /\ attempt' = [attempt EXCEPT ![a].ctx = ~Prompt]
    /\ UNCHANGED <<role, pending, last, view, settled, server, live>>

(* synchronize: the projection of the store that runs; the stream's end shows as disconnected. *)
synchronize ==
    /\ role = "page" /\ view = NoStore /\ up
    /\ view' = store /\ live' = TRUE
    /\ UNCHANGED <<role, pending, last, busy, settled, server, attempt, faults>>

disconnect ==
    /\ view # NoStore /\ ~live
    /\ view' = NoStore
    /\ UNCHANGED <<role, pending, last, busy, settled, server, attempt, live, faults>>

-----------------------------------------------------------------------------
(* The connection and the server's handler. *)

arrive(a) ==
    /\ attempt[a].at = "sent"
    /\ Put(a, "asked", "none")
    /\ UNCHANGED <<client, server, live, faults>>

(* The connection fails on the way there; every slot is taken; the answer cannot be read. *)
spoil(a) ==
    /\ Fault
    /\ \/ attempt[a].at = "sent" /\ Put(a, "answered", "unreachable")
       \/ attempt[a].at = "sent" /\ Put(a, "answered", "unavailable")
       \/ attempt[a].at = "answered" /\ Put(a, "answered", "unreadable")
    /\ UNCHANGED <<client, server, live>>

notice(a) ==
    /\ busy # a /\ attempt[a].at = "asked" /\ attempt[a].ctx
    /\ attempt' = [attempt EXCEPT ![a].ctx = FALSE]
    /\ UNCHANGED <<client, server, live, faults>>

(* An answer nobody waits for. *)
discard(a) ==
    /\ busy # a /\ attempt[a].at = "answered"
    /\ attempt' = [attempt EXCEPT ![a] = Free]
    /\ UNCHANGED <<client, server, live, faults>>

-----------------------------------------------------------------------------
(* create in the worker, under its mutex. *)

(* Mutant: receipts are not looked up. *)
answerNoReceipt(a) ==
    IF ~attempt[a].ctx THEN "unavailable"
    ELSE IF fatal THEN "storage_failure"
    ELSE IF gate # "open" THEN gate
    ELSE "none"

(* The answer of a create that makes no job, in the order of its checks. *)
answerOf(a) ==
    IF ~attempt[a].ctx THEN "unavailable"
    ELSE IF fatal THEN "storage_failure"
    ELSE IF attempt[a].key \in known THEN "job"
    ELSE IF gate # "open" THEN gate
    ELSE "none"

Made(key) == jobs' = [jobs EXCEPT ![store][key] = @ + 1]

(* The commit: acknowledged (the request may be over by then: 503), or failed, written or not. *)
execute(a) ==
    LET key == attempt[a].key
    IN  /\ attempt[a].at = "asked"
        /\ \/ /\ answerOf(a) # "none"
              /\ Put(a, "answered", answerOf(a))
              /\ UNCHANGED <<known, jobs, fatal, faults>>
           \/ /\ answerOf(a) = "none"
              /\ Made(key) /\ known' = known \cup {key} /\ UNCHANGED fatal
              /\ \/ Put(a, "answered", "job") /\ UNCHANGED faults
                 \/ Put(a, "answered", "unavailable") /\ Fault
           \/ /\ answerOf(a) = "none" /\ Fault
              /\ fatal' = TRUE /\ UNCHANGED known
              /\ Put(a, "answered", "storage_failure")
              /\ Made(key) \/ UNCHANGED jobs
        /\ UNCHANGED <<client, up, store, gate, changes, live>>

(* Other clients, and jobs that end; the job limit is for good. *)
change(g) ==
    /\ changes < MaxChanges /\ g # gate /\ gate # "limit_exceeded"
    /\ changes' = changes + 1
    /\ gate' = g
    /\ UNCHANGED <<client, up, store, known, jobs, fatal, attempt, live, faults>>

-----------------------------------------------------------------------------
(* The process. *)

Down ==
    /\ up /\ up' = FALSE /\ live' = FALSE
    /\ attempt' = [a \in Attempts |->
         IF attempt[a].at \in {"sent", "asked"} THEN [attempt[a] EXCEPT !.at = "answered", !.answer = "unreachable"]
         ELSE attempt[a]]
    /\ UNCHANGED <<client, store, known, jobs, fatal, gate, changes>>

crash == Fault /\ Down
(* A failed worker needs the process to be started again. *)
stop == fatal /\ Down /\ UNCHANGED faults

(* Mutant: a restart forgets the receipts. *)
restartForgetful(s) ==
    /\ ~up /\ up' = TRUE /\ fatal' = FALSE
    /\ Prompt => view = NoStore
    /\ store' = s /\ known' = {}
    /\ UNCHANGED <<client, jobs, gate, changes, attempt, live, faults>>

(* Recovery rebuilds the receipts from the journal of the directory it is given. *)
restart(s) ==
    /\ ~up /\ up' = TRUE /\ fatal' = FALSE
    /\ Prompt => view = NoStore
    /\ store' = s
    /\ known' = {k \in 1..Keys : jobs[s][k] > 0}
    /\ UNCHANGED <<client, jobs, gate, changes, attempt, live, faults>>

Serve(a) == arrive(a) \/ execute(a) \/ receive(a) \/ discard(a)

Next ==
    \/ \E a \in Attempts : create(a) \/ sendSaved(a) \/ resend(a) \/ giveUp(a) \/ spoil(a) \/ notice(a) \/ Serve(a)
    \/ synchronize \/ disconnect \/ crash \/ stop
    \/ \E s \in Stores : restart(s)
    \/ \E g \in Gates : change(g)

Spec == Init /\ [][Next]_vars

-----------------------------------------------------------------------------
(* Properties. *)

(* The attempt waited for is one of the saved command. *)
TypeOK ==
    /\ busy # NoAttempt => attempt[busy].at # "free" /\ attempt[busy].key = pending.key
    /\ pending.key \in 0..last /\ last \in 0..Keys /\ pending.store \in Stores \cup {NoStore}
    /\ busy \in Attempts \cup {NoAttempt} /\ view \in Stores \cup {NoStore}
    /\ settled \in [1..Keys -> {"open", "accepted", "rejected"}]
    /\ \A a \in Attempts : attempt[a].at \in {"free", "sent", "asked", "answered"}
    /\ store \in Stores /\ known \subseteq 1..Keys /\ gate \in Gates
    /\ faults \in 0..MaxFaults /\ changes \in 0..MaxChanges

(* The page, and its connections that end are seen to. *)
PagePrompt == role = "page" /\ Prompt

(* However often an intent is sent, and whatever fails or restarts between, a store makes one job
   of it at most (the receipts of create); an intent of the page makes one in one store at most, as
   its recovery is blocked against a different store.  The attempt a client waits for is always
   one of the command it has saved. *)
OneJobPerIntent ==
    /\ TypeOK
    /\ \A s \in Stores, k \in 1..Keys : jobs[s][k] <= 1
    /\ PagePrompt => \A k \in 1..Keys : Cardinality({s \in Stores : jobs[s][k] > 0}) <= 1

(* What a client holds of an intent it no longer retries is true for good: an accepted intent has
   its job, and one that the page saw rejected has none and gets none later, so a new key is safe. *)
SettledIsTrue ==
    \A k \in 1..Keys :
        /\ settled[k] = "accepted" => \E s \in Stores : jobs[s][k] > 0
        /\ settled[k] = "rejected" /\ PagePrompt => \A s \in Stores : jobs[s][k] = 0

(* An intent of the page once sent is settled in the end, by the recovery of an uncertain one,
   unless the service now runs on another store, against which recovery is blocked. *)
Resolved ==
    \A k \in 1..Keys : role = "page" /\ last >= k ~> settled[k] # "open" \/ store # pending.store
==============================================================================
