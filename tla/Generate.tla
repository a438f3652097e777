------------------------------ MODULE Generate ------------------------------
(***************************************************************************)
(* One inference of the Ollama adapter: Backend.Generate with its          *)
(* discovery (version, inventory, show), the load request, the recheck,    *)
(* the streamed chat and the last observation, against a daemon that other *)
(* users share.  They may pull another model under the name, remove it or  *)
(* evict it between any two requests; the daemon may refuse, stall, break  *)
(* off or send nonsense; the job may be cancelled and the deadline pass.   *)
(*                                                                         *)
(* A model is its digest with what show tells of it; the estimate of the   *)
(* input depends on it through its template.  Integers are those of the    *)
(* program up to MaxInt.  A line of the stream counts one byte.            *)
(***************************************************************************)
EXTENDS Integers, Sequences

CONSTANTS
    Models,        \* records [digest, capacity, estimate, usable]; capacity 0 is unknown
    Allocations,   \* the context sizes the daemon gives on its own
    Requests,      \* records [requested, reserve]; requested 0 is none
    MaxInt,
    MaxOutputBytes, StreamLimit,
    MaxChanges,    \* bound: changes by other users of the daemon
    Absent, None

ASSUME ModelAssumption ==
    /\ Models \subseteq [digest : {m.digest : m \in Models}, capacity : Nat, estimate : Nat,
                         usable : BOOLEAN]
    /\ Requests \subseteq [requested : Nat, reserve : Nat]
    /\ Allocations \subseteq Nat
    /\ {MaxInt, MaxOutputBytes, StreamLimit, MaxChanges} \subseteq Nat
ASSUME NoneAssumption ==
    /\ Absent \notin Models
    /\ None \notin [digest : {m.digest : m \in Models}, allocation : Nat]
    /\ None \notin {"ok", "invalid_request", "unavailable", "failure", "limit_exceeded", "cancelled",
                   "unsupported", "refused"}

VARIABLES
    manifest, resident,   \* the daemon: the model under the name, and the one in memory
    changes, changed,     \* ... changes so far, and that there was one since the load
    request,
    phase, ctx, outcome,  \* the call: its step, its context, and how it ended
    first, second, info,  \* m.Digest, m2.Digest and the ContextInfo
    wire, end,            \* the response: the lines sent and how it ended
    total, output, done, emitted,
    faulty                \* the daemon did not do what it was asked

found == <<first, second, info>>
daemon == <<manifest, resident, changes, changed>>
reader == <<total, output, done, emitted>>
vars == <<daemon, request, phase, ctx, outcome, found, wire, end, reader, faulty>>

Unknown == [capacity |-> 0, estimate |-> 0, loaded |-> 0]

Init ==
    /\ manifest \in Models
    /\ resident \in {None} \cup [digest : {manifest.digest}, allocation : Allocations]
    /\ changes = 0 /\ changed = FALSE
    /\ request \in Requests
    /\ phase = "version" /\ ctx = "live" /\ outcome = None
    /\ first = None /\ second = None /\ info = Unknown
    /\ wire = <<>> /\ end = "open"
    /\ total = 0 /\ output = 0 /\ done = FALSE /\ emitted = <<>>
    /\ faulty = FALSE

-----------------------------------------------------------------------------
(* The context: the worker's cancel, or the deadline of the whole operation. *)

Running == phase # "returned"

Cancel ==
    /\ Running /\ ctx = "live" /\ ctx' = "cancelled"
    /\ UNCHANGED <<daemon, request, phase, outcome, found, wire, end, reader, faulty>>

(* Mutant: the deadline bounds the answer, not the discovery and the load before it. *)
ExpireStream ==
    /\ phase = "chat" /\ ctx = "live" /\ ctx' = "expired"
    /\ UNCHANGED <<daemon, request, phase, outcome, found, wire, end, reader, faulty>>

Expire ==
    /\ Running /\ ctx = "live" /\ ctx' = "expired"
    /\ UNCHANGED <<daemon, request, phase, outcome, found, wire, end, reader, faulty>>

(* Generate returns; the deferred function turns any error after the deadline into unavailable. *)
Return(code) ==
    /\ phase' = "returned"
    /\ outcome' = IF code # "ok" /\ ctx = "expired" THEN "unavailable" ELSE code

(* Mutant: a cancelled request looks like a daemon that is gone. *)
transportErrorPlain == "unavailable"

transportError == IF ctx = "cancelled" THEN "cancelled" ELSE "unavailable"

-----------------------------------------------------------------------------
(* The daemon and its other users. *)

Pull(m) ==
    /\ Running /\ changes < MaxChanges /\ m # manifest
    /\ changes' = changes + 1 /\ changed' = TRUE /\ manifest' = m
    /\ UNCHANGED <<resident, request, phase, ctx, outcome, found, wire, end, reader, faulty>>

Evict ==
    /\ Running /\ changes < MaxChanges /\ resident # None
    /\ changes' = changes + 1 /\ changed' = TRUE /\ resident' = None
    /\ UNCHANGED <<manifest, request, phase, ctx, outcome, found, wire, end, reader, faulty>>

(* The daemon has the model of the manifest in memory, with the size asked for or its own. *)
Loads ==
    IF resident # None /\ resident.digest = manifest.digest
        /\ request.requested \in {0, resident.allocation}
    THEN UNCHANGED resident
    ELSE \E a \in IF request.requested # 0 THEN {request.requested} ELSE Allocations :
            resident' = [digest |-> manifest.digest, allocation |-> a]

(* A request that the daemon refuses, answers with too much or with nonsense, or drops. *)
Fault(code) ==
    /\ Running
    /\ faulty' = TRUE
    /\ Return(IF code = "dropped" THEN transportError ELSE code)
    /\ UNCHANGED <<daemon, request, ctx, found, wire, end, reader>>

(* A request or a read that ends because the context has. *)
Abort ==
    /\ Running /\ ctx # "live"
    /\ Return(transportError)
    /\ UNCHANGED <<daemon, request, ctx, found, wire, end, reader, faulty>>

-----------------------------------------------------------------------------
(* The requests, in order. *)

To(next) == phase' = next /\ UNCHANGED outcome

Version ==
    /\ phase = "version"
    /\ \E supported \in BOOLEAN : IF supported THEN To("tags") ELSE Return("unsupported")
    /\ UNCHANGED <<daemon, request, ctx, found, wire, end, reader, faulty>>

(* inventory in selectModel, before the load and after it: the digest the name stands for. *)
Tags ==
    /\ phase \in {"tags", "retags"}
    /\ IF manifest = Absent THEN Return("invalid_request") /\ UNCHANGED found
       ELSE /\ To(IF phase = "tags" THEN "show" ELSE "reshow")
            /\ IF phase = "tags" THEN first' = manifest.digest /\ UNCHANGED second
               ELSE second' = manifest.digest /\ UNCHANGED first
            /\ UNCHANGED info
    /\ UNCHANGED <<daemon, request, ctx, wire, end, reader, faulty>>

(* Mutant: the sum, which may wrap around, is compared. *)
budgetSum(i) ==
    LET wrap == ((i.estimate + request.reserve + MaxInt + 1) % (2 * (MaxInt + 1))) - (MaxInt + 1)
        check(n) == wrap > n
    IN  /\ i.capacity # 0 => request.requested <= i.capacity
        /\ \A n \in {i.capacity, request.requested, i.loaded} \ {0} : ~check(n)

(* Whether estimate and reservation fit what is known; the reservation is subtracted first. *)
budget(i) ==
    LET check(n) == request.reserve >= n \/ i.estimate > n - request.reserve
    IN  /\ i.capacity # 0 => request.requested <= i.capacity
        /\ \A n \in {i.capacity, request.requested, i.loaded} \ {0} : ~check(n)

(* What show says of the model; it may be another one than the inventory's. *)
Described(m) == [info EXCEPT !.capacity = m.capacity, !.estimate = m.estimate]

(* show in selectModel, and the first budget. *)
Show ==
    /\ phase = "show"
    /\ IF manifest = Absent THEN Return("invalid_request") /\ UNCHANGED info
       ELSE IF ~manifest.usable THEN Return("unsupported") /\ UNCHANGED info
       ELSE /\ info' = Described(manifest)
            /\ IF budget(info') THEN To("load") ELSE Return("invalid_request")
    /\ UNCHANGED <<daemon, request, ctx, first, second, wire, end, reader, faulty>>

(* The chat without messages, which loads the model. *)
Load ==
    /\ phase = "load"
    /\ IF manifest = Absent THEN Return("invalid_request") /\ UNCHANGED <<resident, changed>>
       ELSE To("retags") /\ Loads /\ changed' = FALSE
    /\ UNCHANGED <<manifest, changes, request, ctx, found, wire, end, reader, faulty>>

(* Mutant: what the first show said is kept. *)
ReshowKeeps ==
    /\ phase = "reshow"
    /\ IF manifest = Absent THEN Return("invalid_request")
       ELSE IF ~manifest.usable THEN Return("unsupported")
       ELSE IF second # first THEN Return("failure")
       ELSE To("ps")
    /\ UNCHANGED <<daemon, request, ctx, found, wire, end, reader, faulty>>

(* The second show and the comparison of the digests. *)
Reshow ==
    /\ phase = "reshow"
    /\ IF manifest = Absent THEN Return("invalid_request") /\ UNCHANGED info
       ELSE IF ~manifest.usable THEN Return("unsupported") /\ UNCHANGED info
       ELSE IF second # first THEN Return("failure") /\ UNCHANGED info
       ELSE To("ps") /\ info' = Described(manifest)
    /\ UNCHANGED <<daemon, request, ctx, first, second, wire, end, reader, faulty>>

(* The allocation of the model first chosen, 0 when it is not in memory. *)
loaded == IF resident # None /\ resident.digest = first THEN resident.allocation ELSE 0

Ps ==
    /\ phase = "ps"
    /\ info' = [info EXCEPT !.loaded = loaded]
    /\ IF ~budget(info') THEN Return("invalid_request")
       ELSE IF request.requested = 0 /\ info'.loaded = 0 THEN Return("unsupported")
       ELSE To("prompt")
    /\ UNCHANGED <<daemon, request, ctx, first, second, wire, end, reader, faulty>>

-----------------------------------------------------------------------------
(* The chat. *)

Prompt ==
    /\ phase = "prompt"
    /\ IF manifest = Absent THEN Return("invalid_request") /\ UNCHANGED resident
       ELSE To("chat") /\ Loads
    /\ UNCHANGED <<manifest, changes, changed, request, ctx, found, wire, end, reader, faulty>>

(* A line: text or none, the last one or not; or an error record or nonsense. *)
Lines == [text : BOOLEAN, done : BOOLEAN, good : {TRUE}] \cup [text : {FALSE}, done : {FALSE}, good : {FALSE}]
Ended == wire # <<>> /\ wire[Len(wire)].done

Send(line) ==
    /\ phase = "chat" /\ end = "open" /\ Len(wire) < StreamLimit + 2
    /\ wire' = Append(wire, line)
    /\ faulty' = (faulty \/ ~line.good \/ Ended)
    /\ UNCHANGED <<daemon, request, phase, ctx, outcome, found, end, reader>>

Close(how) ==
    /\ phase = "chat" /\ end = "open" /\ end' = how
    /\ faulty' = (faulty \/ how = "cut" \/ ~Ended)
    /\ UNCHANGED <<daemon, request, phase, ctx, outcome, found, wire, reader>>

(* Mutant: the answer before this record is compared. *)
exceedsBefore(size) == size - 1 > MaxOutputBytes

exceeds(size) == size > MaxOutputBytes

(* A line is read, checked and its text passed to emit, which may refuse it. *)
ReadLine ==
    LET line == wire[total + 1]
        size == output + (IF line.text THEN 1 ELSE 0)
        Fails(code) == Return(code) /\ UNCHANGED <<output, done, emitted>>
    IN  /\ phase = "chat" /\ total < Len(wire)
        /\ total' = total + 1
        /\ IF total' > StreamLimit THEN Fails("limit_exceeded")
           ELSE IF ctx # "live" THEN Fails(transportError)
           ELSE IF done \/ ~line.good THEN Fails("failure")
           ELSE IF exceeds(size) THEN Fails("limit_exceeded")
           ELSE /\ output' = size
                /\ \/ line.text /\ Return("refused") /\ UNCHANGED <<done, emitted>>
                   \/ /\ emitted' = IF line.text THEN Append(emitted, total') ELSE emitted
                      /\ done' = line.done
                      /\ UNCHANGED <<phase, outcome>>
        /\ UNCHANGED <<daemon, request, ctx, found, wire, end, faulty>>

(* Mutant: a terminal record is enough, however the response ends. *)
ReadEndAny ==
    /\ phase = "chat" /\ end # "open" /\ total = Len(wire)
    /\ IF ctx # "live" THEN Return(transportError)
       ELSE IF done THEN To("last")
       ELSE Return("failure")
    /\ UNCHANGED <<daemon, request, ctx, found, wire, end, reader, faulty>>

(* The end is read: a success needs both the terminal record and a clean end. *)
ReadEnd ==
    /\ phase = "chat" /\ end # "open" /\ total = Len(wire)
    /\ IF ctx # "live" THEN Return(transportError)
       ELSE IF end = "clean" /\ done THEN To("last")
       ELSE Return("failure")
    /\ UNCHANGED <<daemon, request, ctx, found, wire, end, reader, faulty>>

(* The observation after the answer, the bound on the metadata, and the context, which has the
   last word. *)
Observe ==
    /\ phase = "last"
    /\ info' = [info EXCEPT !.loaded = loaded]
    /\ \E fits \in BOOLEAN :
         Return(IF ~fits THEN "limit_exceeded" ELSE IF ctx # "live" THEN transportError ELSE "ok")
    /\ UNCHANGED <<daemon, request, ctx, first, second, wire, end, reader, faulty>>

Call == Version \/ Tags \/ Show \/ Load \/ Reshow \/ Ps \/ Prompt \/ ReadLine \/ ReadEnd \/ Observe

Next ==
    \/ Call \/ Abort \/ Cancel \/ Expire \/ Evict
    \/ \E code \in {"invalid_request", "unavailable", "failure", "limit_exceeded", "dropped"} : Fault(code)
    \/ \E m \in Models \cup {Absent} : Pull(m)
    \/ \E line \in Lines : Send(line)
    \/ \E how \in {"clean", "cut"} : Close(how)

Spec == Init /\ [][Next]_vars

-----------------------------------------------------------------------------
(* Properties. *)

(* The types. *)
TypeOK ==
    /\ manifest \in Models \cup {Absent} /\ request \in Requests
    /\ ctx \in {"live", "cancelled", "expired"}
    /\ (phase = "returned") = (outcome # None)

(* What was read and what was emitted stays within the bounds of an answer. *)
Bounded ==
    Len(emitted) <= MaxOutputBytes /\ output \in 0..MaxOutputBytes /\ total \in 0..StreamLimit + 1

(* A success is the whole answer: all the text the daemon sent was emitted, in order and once, the
   terminal record came once and last, and the response was not cut off; and no answer exceeds its
   bounds. *)
WholeAnswer ==
    /\ Bounded
    /\ outcome = "ok" =>
        /\ end = "clean" /\ Ended
        /\ \A i \in 1..Len(wire) - 1 : ~wire[i].done
        /\ {emitted[k] : k \in 1..Len(emitted)} = {i \in 1..Len(wire) : wire[i].text}
        /\ \A k \in 1..Len(emitted) - 1 : emitted[k] < emitted[k + 1]

(* The prompt goes out only to a model it fits, reservation included, unless other users changed
   the model or its residency after the load. *)
PromptFits ==
    phase \in {"chat", "last"} /\ ~changed =>
        /\ resident.digest = manifest.digest
        /\ \A n \in {manifest.capacity, resident.allocation} \ {0} :
              manifest.estimate + request.reserve <= n

(* The outcome of Generate names its cause: the daemon is blamed only when it was at fault, when
   others changed the model or when the deadline passed; a call counts as cancelled only if it was, and
   succeeds only within its deadline. *)
HonestCause ==
    /\ outcome \in {"failure", "unavailable"} => faulty \/ changes > 0 \/ ctx = "expired"
    /\ outcome = "cancelled" => ctx = "cancelled"
    /\ outcome = "ok" => ctx = "live"

(* Generate returns, although the daemon may never answer: at any step, the deadline ends it. *)
Returns == <>(outcome # None)
==============================================================================
