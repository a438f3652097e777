----------------------------- MODULE Projection -----------------------------
(***************************************************************************)
(* The page's copy of the shared state: Projection in webui/state.js and   *)
(* the loop synchronize in webui/app.js that keeps it up to date from the  *)
(* event stream, over broken connections, replaced stores and the page     *)
(* being hidden and shown again, which starts another loop while the old   *)
(* one still has a response on the way.                                    *)
(*                                                                         *)
(* The state is, per job, how much output it has; events accept a job or   *)
(* add output at an offset.  The logs of replaced stores are kept to say   *)
(* what a copy should hold.                                                *)
(***************************************************************************)
EXTENDS Integers, Sequences, FiniteSets

CONSTANTS
    Jobs,
    MaxLog, MaxStores,    \* bounds: events of a store, stores
    MaxLoops, MaxBreaks,  \* bounds: loops ever started, connections that break
    NoCursor

ASSUME PageAssumption ==
    /\ MaxLog \in Nat /\ MaxStores \in Nat \ {0} /\ MaxLoops \in Nat \ {0} /\ MaxBreaks \in Nat
    /\ NoCursor \notin [store : Nat, seq : Nat]

VARIABLES
    current, logs,      \* the service: its store, and the events of each store
    cursor, copy,       \* the projection
    generation, shown,  \* syncGeneration, and that the page is not stopping
    at, fresh, after,   \* per loop: where it is, its flag, the cursor it asked with
    stream,             \* per loop, the frames on the way
    breaks

service == <<current, logs>>
projection == <<cursor, copy>>
loop == <<at, fresh, after, stream>>
pageVars == <<service, projection, generation, shown, loop, breaks>>

Loops == 1..MaxLoops
Cursor(s, n) == [store |-> s, seq |-> n]

(* What the first n events of a log make of its store. *)
Accepted(l, n) == {l[i].job : i \in {i \in 1..n : l[i].kind = "accepted"}}
Bytes(l, n, j) == Cardinality({i \in 1..n : l[i].kind = "output" /\ l[i].job = j})
StateAt(l, n) == [j \in Accepted(l, n) |-> Bytes(l, n, j)]

PageInit ==
    /\ current = 1 /\ logs = [s \in 1..MaxStores |-> <<>>]
    /\ cursor = NoCursor /\ copy = <<>>
    /\ generation = 1 /\ shown = TRUE
    /\ at = [g \in Loops |-> IF g = 1 THEN "connecting" ELSE "none"]
    /\ fresh = [g \in Loops |-> TRUE] /\ after = [g \in Loops |-> NoCursor]
    /\ stream = [g \in Loops |-> <<>>]
    /\ breaks = 0

-----------------------------------------------------------------------------
(* The service.  A frame is a snapshot or an event with its cursor. *)

Snapshot == [kind |-> "snapshot", cursor |-> Cursor(current, Len(logs[current])),
             jobs |-> StateAt(logs[current], Len(logs[current]))]
Event(s, n) == [kind |-> "event", cursor |-> Cursor(s, n), event |-> logs[s][n]]
Open(g) == at[g] = "streaming"

Publish(kind, j) ==
    LET n == Len(logs[current]) + 1
        e == [kind |-> kind, job |-> j, offset |-> Bytes(logs[current], n - 1, j)]
    IN  /\ n <= MaxLog
        /\ kind = "accepted" <=> j \notin Accepted(logs[current], n - 1)
        /\ logs' = [logs EXCEPT ![current] = Append(@, e)]
        /\ stream' = [g \in Loops |-> IF Open(g)
                        THEN Append(stream[g], [kind |-> "event", cursor |-> Cursor(current, n), event |-> e])
                        ELSE stream[g]]
        /\ UNCHANGED <<current, projection, generation, shown, at, fresh, after, breaks>>

(* The service restarts on another data directory; what was sent is lost with the connections. *)
Replace ==
    /\ current < MaxStores /\ current' = current + 1
    /\ \E lost \in {"broken", "invalid"} :
         at' = [g \in Loops |-> IF Open(g) THEN lost ELSE at[g]]
    /\ stream' = [g \in Loops |-> <<>>]
    /\ UNCHANGED <<logs, projection, generation, shown, fresh, after, breaks>>

-----------------------------------------------------------------------------
(* synchronize. *)

Current(g) == shown /\ generation = g

(* The request, with the projection's cursor unless a snapshot is needed. *)
Connect(g) ==
    /\ at[g] = "connecting"
    /\ IF Current(g)
       THEN /\ at' = [at EXCEPT ![g] = "fetching"]
            /\ after' = [after EXCEPT ![g] = IF fresh[g] THEN NoCursor ELSE cursor]
       ELSE at' = [at EXCEPT ![g] = "none"] /\ UNCHANGED after
    /\ UNCHANGED <<service, projection, generation, shown, fresh, stream, breaks>>

(* The events of a store after its nth. *)
Following(s, n) == [i \in 1..Len(logs[s]) - n |-> Event(s, n + i)]

(* The response: a snapshot and what follows, what follows the cursor, or cursor_invalid. *)
Respond(g) ==
    LET c == after[g]
    IN  /\ at[g] = "fetching"
        /\ IF c = NoCursor
           THEN at' = [at EXCEPT ![g] = "streaming"] /\ stream' = [stream EXCEPT ![g] = <<Snapshot>>]
           ELSE IF c.store = current
           THEN at' = [at EXCEPT ![g] = "streaming"] /\ stream' = [stream EXCEPT ![g] = Following(c.store, c.seq)]
           ELSE at' = [at EXCEPT ![g] = "invalid"] /\ UNCHANGED stream
        /\ UNCHANGED <<service, projection, generation, shown, fresh, after, breaks>>

(* Mutant: the reader of a broken stream is not cancelled. *)
BreakKeeps(g) ==
    /\ at[g] \in {"fetching", "streaming"} /\ breaks < MaxBreaks
    /\ breaks' = breaks + 1
    /\ at' = [at EXCEPT ![g] = "broken"]
    /\ UNCHANGED <<service, projection, generation, shown, fresh, after, stream>>

(* The response ends early or is given up after 45 seconds of silence ("broken"), or the browser
   reports a TypeError, which asks for a fresh snapshot ("invalid"). *)
Break(g) ==
    /\ at[g] \in {"fetching", "streaming"} /\ breaks < MaxBreaks
    /\ breaks' = breaks + 1
    /\ \E lost \in {"broken", "invalid"} : at' = [at EXCEPT ![g] = lost]
    /\ stream' = [stream EXCEPT ![g] = <<>>]
    /\ UNCHANGED <<service, projection, generation, shown, fresh, after>>

(* Mutant: only a broken stream is tried again with a fresh snapshot. *)
CatchBroken(g) ==
    /\ at[g] \in {"broken", "invalid"}
    /\ IF Current(g)
       THEN /\ at' = [at EXCEPT ![g] = "connecting"]
            /\ fresh' = [fresh EXCEPT ![g] = @ \/ at[g] = "broken"]
       ELSE at' = [at EXCEPT ![g] = "none"] /\ UNCHANGED fresh
    /\ UNCHANGED <<service, projection, generation, shown, after, stream, breaks>>

(* The error of an attempt: the next one starts afresh if the cursor or a frame was no good. *)
Catch(g) ==
    /\ at[g] \in {"broken", "invalid"}
    /\ IF Current(g)
       THEN /\ at' = [at EXCEPT ![g] = "connecting"]
            /\ fresh' = [fresh EXCEPT ![g] = @ \/ at[g] = "invalid"]
       ELSE at' = [at EXCEPT ![g] = "none"] /\ UNCHANGED fresh
    /\ UNCHANGED <<service, projection, generation, shown, after, stream, breaks>>

(* Mutant: a snapshot is merged into the jobs there are. *)
snapshotMerge(f) ==
    /\ copy' = [j \in DOMAIN copy \cup DOMAIN f.jobs |-> IF j \in DOMAIN f.jobs THEN f.jobs[j] ELSE copy[j]]
    /\ cursor' = f.cursor

snapshot(f) == copy' = f.jobs /\ cursor' = f.cursor

(* The checks of Projection.event; a frame that is not newer is skipped. *)
Old(f) == cursor # NoCursor /\ f.cursor.store = cursor.store /\ f.cursor.seq <= cursor.seq
Fits(f) ==
    /\ cursor # NoCursor /\ f.cursor.store = cursor.store /\ f.cursor.seq = cursor.seq + 1
    /\ IF f.event.kind = "accepted" THEN f.event.job \notin DOMAIN copy
       ELSE f.event.job \in DOMAIN copy /\ copy[f.event.job] = f.event.offset

event(f) ==
    /\ copy' = [j \in DOMAIN copy \cup {f.event.job} |->
         IF j # f.event.job THEN copy[j] ELSE IF f.event.kind = "accepted" THEN 0 ELSE copy[j] + 1]
    /\ cursor' = f.cursor

Take(g) == stream' = [stream EXCEPT ![g] = Tail(@)]

(* Mutant: a loop applies what it gets although another one has taken over. *)
ApplyAny(g) ==
    LET f == stream[g][1]
    IN  /\ at[g] = "streaming" /\ stream[g] # <<>>
        /\ IF f.kind = "snapshot" /\ fresh[g]
           THEN snapshot(f) /\ fresh' = [fresh EXCEPT ![g] = FALSE] /\ Take(g) /\ UNCHANGED at
           ELSE IF Old(f) THEN Take(g) /\ UNCHANGED <<projection, fresh, at>>
           ELSE IF Fits(f) THEN event(f) /\ Take(g) /\ UNCHANGED <<fresh, at>>
           ELSE at' = [at EXCEPT ![g] = "invalid"] /\ stream' = [stream EXCEPT ![g] = <<>>] /\ UNCHANGED <<projection, fresh>>
        /\ UNCHANGED <<service, generation, shown, after, breaks>>

(* A frame: applied, skipped, or an error; an error too if the loop no longer is the current one. *)
Apply(g) ==
    LET f == stream[g][1]
    IN  /\ at[g] = "streaming" /\ stream[g] # <<>>
        /\ IF Current(g) /\ f.kind = "snapshot" /\ fresh[g]
           THEN snapshot(f) /\ fresh' = [fresh EXCEPT ![g] = FALSE] /\ Take(g) /\ UNCHANGED at
           ELSE IF Current(g) /\ ~fresh[g] /\ Old(f) THEN Take(g) /\ UNCHANGED <<projection, fresh, at>>
           ELSE IF Current(g) /\ ~fresh[g] /\ Fits(f) THEN event(f) /\ Take(g) /\ UNCHANGED <<fresh, at>>
           ELSE at' = [at EXCEPT ![g] = "invalid"] /\ stream' = [stream EXCEPT ![g] = <<>>] /\ UNCHANGED <<projection, fresh>>
        /\ UNCHANGED <<service, generation, shown, after, breaks>>

(* pagehide aborts, which the loop notices at its next step; pageshow starts another loop. *)
Hide ==
    /\ shown /\ generation < MaxLoops
    /\ shown' = FALSE /\ generation' = generation + 1
    /\ UNCHANGED <<service, projection, loop, breaks>>

Show ==
    /\ ~shown /\ shown' = TRUE
    /\ at' = [at EXCEPT ![generation] = "connecting"]
    /\ UNCHANGED <<service, projection, generation, fresh, after, stream, breaks>>

Step(g) == Connect(g) \/ Respond(g) \/ Catch(g) \/ Apply(g)

PageNext ==
    \/ \E kind \in {"accepted", "output"}, j \in Jobs : Publish(kind, j)
    \/ Replace \/ Hide \/ Show
    \/ \E g \in Loops : Step(g) \/ Break(g)

PageSpec == PageInit /\ [][PageNext]_pageVars

-----------------------------------------------------------------------------
(* Properties. *)

(* The types; a loop has frames to read only while its response is open. *)
PageTypeOK ==
    /\ current \in 1..MaxStores /\ generation \in Loops
    /\ DOMAIN copy \subseteq Jobs /\ \A j \in DOMAIN copy : copy[j] \in 0..MaxLog
    /\ \A g \in Loops : at[g] \in {"none", "connecting", "fetching", "streaming", "broken", "invalid"}
    /\ \A g \in Loops : stream[g] # <<>> => at[g] = "streaming"

(* The page shows a state the service was in: that of its cursor, in every job and byte, whatever
   breaks, restarts or reconnects; a loop has frames to read only while its response is open. *)
ShowsThePast ==
    PageTypeOK /\ (cursor # NoCursor => copy = StateAt(logs[cursor.store], cursor.seq))

(* It never goes back: neither to an earlier event of its store nor to an earlier store, although
   the loop of before the page was hidden still has frames on the way. *)
NeverBack ==
    [][cursor # NoCursor =>
        /\ cursor' # NoCursor
        /\ \/ cursor'.store = cursor.store /\ cursor'.seq >= cursor.seq
           \/ cursor'.store > cursor.store]_pageVars

(* It catches up with every event, or with the store that came after. *)
CatchesUp ==
    \A s \in 1..MaxStores, n \in 1..MaxLog :
        current = s /\ Len(logs[s]) >= n
            ~> current # s \/ (cursor # NoCursor /\ cursor.store = s /\ cursor.seq >= n)
==============================================================================
