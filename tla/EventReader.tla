----------------------------- MODULE EventReader -----------------------------
(***************************************************************************)
(* read_events of the MCP bridge (mcpbridge/tools.go) over Watch of the    *)
(* HTTP client (httpapi/client.go), called again and again by an agent     *)
(* that passes each next_cursor back, starting at the cursor of a snapshot *)
(* (list_jobs).                                                            *)
(*                                                                         *)
(* An event is its job and its size; the service's stream delivers the     *)
(* events after a cursor in order (HttpServer!StreamContiguous).  A store  *)
(* may be replaced by another one while the service is down.               *)
(***************************************************************************)
EXTENDS Integers, Sequences

CONSTANTS
    Jobs, Filter,    \* the jobs of events, and the one asked for, or NoFilter
    Sizes,           \* sizes of events
    MaxInline,       \* larger events are replaced by a marker of size 1
    MaxResult,       \* bytes of one result
    MaxEvents,       \* max_events of a call
    MaxLog, MaxStores, MaxLost,  \* bounds: events, stores, results that get lost
    NoFilter

ASSUME ReaderAssumption ==
    /\ Sizes \subseteq Nat \ {0} /\ MaxEvents \in Nat \ {0}
    /\ MaxResult \in Nat /\ MaxInline \in 1..MaxResult /\ Filter \in Jobs \cup {NoFilter}
    /\ MaxLog \in Nat /\ MaxStores \in Nat /\ MaxLost \in Nat

VARIABLES
    store, log,      \* the service: its store and the events of that store
    cursor, base,    \* the agent: where it continues, and where its snapshot was
    got,             \* what it has received since
    stage,              \* the call: "idle", "watching", "stopped"
    pos, next, events, size, why,  \* the call's stream and the variables of readEvents
    lost

agent == <<cursor, base, got>>
watch == <<stage, pos, next, events, size, why>>
readVars == <<store, log, agent, watch, lost>>

ReadInit ==
    /\ store = 1 /\ log = <<>>
    /\ cursor = [store |-> 1, seq |-> 0] /\ base = 0 /\ got = <<>>
    /\ stage = "idle" /\ pos = 0 /\ next = 0 /\ events = <<>> /\ size = 0 /\ why = "none"
    /\ lost = 0

Publish(e) ==
    /\ Len(log) < MaxLog
    /\ log' = Append(log, e)
    /\ UNCHANGED <<store, agent, watch, lost>>

(* The service is started on another data directory: its streams break. *)
Replace ==
    /\ store < MaxStores
    /\ store' = store + 1 /\ log' = <<>>
    /\ IF stage = "watching" THEN stage' = "stopped" /\ why' = "error" ELSE UNCHANGED <<stage, why>>
    /\ UNCHANGED <<agent, pos, next, events, size, lost>>

-----------------------------------------------------------------------------
(* Watch opens the stream; the cursor of another store is refused. *)
Open ==
    /\ stage = "idle"
    /\ stage' = IF cursor.store = store /\ cursor.seq <= Len(log) THEN "watching" ELSE "stopped"
    /\ why' = IF stage' = "watching" THEN "timeout" ELSE "error"
    /\ pos' = cursor.seq /\ next' = cursor.seq /\ events' = <<>> /\ size' = 0
    /\ UNCHANGED <<store, log, agent, lost>>

(* Mutant: an event is passed on whole. *)
ItemWhole(e) == e.size
(* The size of what is returned for an event. *)
Item(e) == IF e.size > MaxInline THEN 1 ELSE e.size
Wanted(e) == Filter = NoFilter \/ e.job = Filter

(* Mutant: the cursor advances over every frame. *)
ApplyEager ==
    LET e == log[pos + 1]
    IN  /\ stage = "watching" /\ pos < Len(log)
        /\ pos' = pos + 1 /\ next' = pos + 1
        /\ IF ~Wanted(e) THEN UNCHANGED <<events, size, stage, why>>
           ELSE IF size + Item(e) > MaxResult /\ events # <<>>
           THEN why' = "max_bytes" /\ stage' = "stopped" /\ UNCHANGED <<events, size>>
           ELSE /\ events' = Append(events, pos + 1) /\ size' = size + Item(e)
                /\ IF Len(events') >= MaxEvents THEN why' = "max_events" /\ stage' = "stopped"
                   ELSE UNCHANGED <<stage, why>>
        /\ UNCHANGED <<store, log, agent, lost>>

(* A complete frame is applied: filtered, left for the next call, or taken. *)
Apply ==
    LET e == log[pos + 1]
    IN  /\ stage = "watching" /\ pos < Len(log)
        /\ pos' = pos + 1
        /\ IF ~Wanted(e) THEN next' = pos + 1 /\ UNCHANGED <<events, size, stage, why>>
           ELSE IF size + Item(e) > MaxResult /\ events # <<>>
           THEN why' = "max_bytes" /\ stage' = "stopped" /\ UNCHANGED <<next, events, size>>
           ELSE /\ events' = Append(events, pos + 1) /\ size' = size + Item(e)
                /\ next' = pos + 1
                /\ IF Len(events') >= MaxEvents THEN why' = "max_events" /\ stage' = "stopped"
                   ELSE UNCHANGED <<stage, why>>
        /\ UNCHANGED <<store, log, agent, lost>>

(* The call's own time is up, or the stream ends or faults. *)
Stop(cause) ==
    /\ stage = "watching" /\ stage' = "stopped" /\ why' = cause
    /\ UNCHANGED <<store, log, agent, pos, next, events, size, lost>>

(* The result: events and next_cursor, with the error of a stream that had brought something. *)
Deliver ==
    /\ stage = "stopped" /\ stage' = "idle"
    /\ ~(why = "error" /\ events = <<>> /\ next = cursor.seq)
    /\ got' = got \o events
    /\ cursor' = [cursor EXCEPT !.seq = next]
    /\ UNCHANGED <<store, log, base, pos, next, events, size, why, lost>>

(* A stream that brought nothing before its error: the fault alone. *)
Fault ==
    /\ stage = "stopped" /\ stage' = "idle"
    /\ why = "error" /\ events = <<>> /\ next = cursor.seq
    /\ UNCHANGED <<store, log, agent, pos, next, events, size, why, lost>>

(* A cancelled call or a lost response: the agent has nothing and keeps its cursor. *)
Lose ==
    /\ stage # "idle" /\ stage' = "idle"
    /\ lost < MaxLost /\ lost' = lost + 1
    /\ UNCHANGED <<store, log, agent, pos, next, events, size, why>>

(* A cursor the service refuses is never reset: the agent takes a new snapshot. *)
ListJobs ==
    /\ stage = "idle"
    /\ cursor' = [store |-> store, seq |-> Len(log)] /\ base' = Len(log) /\ got' = <<>>
    /\ UNCHANGED <<store, log, watch, lost>>

ReadNext ==
    \/ \E j \in Jobs, n \in Sizes : Publish([job |-> j, size |-> n])
    \/ Replace \/ Open \/ Apply \/ Deliver \/ Fault \/ Lose \/ ListJobs
    \/ \E cause \in {"timeout", "error"} : Stop(cause)

ReadSpec == ReadInit /\ [][ReadNext]_readVars

-----------------------------------------------------------------------------
(* Properties. *)

ReadTypeOK ==
    /\ cursor.seq \in base..MaxLog /\ cursor.store \in 1..store
    /\ pos \in 0..MaxLog /\ next \in 0..MaxLog /\ size \in Nat
    /\ Len(events) <= MaxEvents /\ size <= MaxResult

(* q names the wanted events of l after a and up to b, each once and in order. *)
Lists(l, q, a, b) ==
    /\ \A i \in 1..Len(q) : q[i] \in a + 1..b /\ Wanted(l[q[i]])
    /\ \A i, k \in 1..Len(q) : i < k => q[i] < q[k]
    /\ \A n \in a + 1..b : Wanted(l[n]) => \E i \in 1..Len(q) : q[i] = n

(* What the agent has received up to its cursor is every event it asked for since its snapshot,
   once and in order, whatever limits, filters, timeouts, broken streams and lost answers its
   calls met: next_cursor skips nothing and repeats nothing, and no result exceeds its bounds. *)
NothingSkipped == ReadTypeOK /\ (cursor.store = store => Lists(log, got, base, cursor.seq))
==============================================================================
