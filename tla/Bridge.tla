------------------------------- MODULE Bridge -------------------------------
(***************************************************************************)
(* Tool calls of the MCP bridge (internal/adapters/mcpbridge/tools.go):    *)
(* the slots of acquire, service calls with their limit (doFor), and       *)
(* wait_job, which polls a job within a budget.                            *)
(*                                                                         *)
(* Time is a counter that may run ahead of any timer: a timer fires at its *)
(* time or later, and a reply may come at any time.                        *)
(* The other tools are "plain": one service call.                          *)
(***************************************************************************)
EXTENDS Integers, FiniteSets

CONSTANTS
    Calls,
    MaxConcurrent, MaxWaiters,  \* 16 and 4 in the code
    Budgets,   \* timeout_seconds of waits; empty if there are none
    Timeout,   \* the call limit (--timeout)
    Interval,  \* pollInterval
    MaxStart, MaxTime  \* bounds: calls are made until MaxStart; the clock stops at MaxTime

ASSUME BridgeAssumption ==
    /\ MaxConcurrent \in Nat /\ MaxWaiters \in 1..MaxConcurrent
    /\ Budgets \subseteq Nat /\ Timeout \in Nat \ {0} /\ Interval \in Nat \ {0}
    /\ MaxStart \in Nat /\ MaxTime \in Nat
    /\ IsFiniteSet(Calls)

VARIABLES
    now,
    job,      \* when the job ended; MaxTime + 1 while it runs
    slots, waiters,  \* len(b.slots), len(b.waiters)
    at,       \* where each call is
    budget,   \* of a wait; -1 for a plain call
    start,    \* when it began
    begun,    \* when its last service call began
    timer,    \* when what it does now is cut off: the service call's limit, or the pause
    reply,    \* what the service has answered
    last,     \* last job observed within the budget
    result    \* of the call

call == <<at, budget, start, begun, timer, reply, last, result>>
vars == <<now, job, slots, waiters, call>>

None == "none"
Running == job > now
State == IF Running THEN "running" ELSE "ended"
deadline(c) == start[c] + budget[c]
Sooner(a, b) == IF a < b THEN a ELSE b

Init ==
    /\ now = 0 /\ job = MaxTime + 1 /\ slots = 0 /\ waiters = 0
    /\ at = [c \in Calls |-> "idle"] /\ budget = [c \in Calls |-> -1]
    /\ start = [c \in Calls |-> 0] /\ begun = [c \in Calls |-> 0] /\ timer = [c \in Calls |-> 0]
    /\ reply = [c \in Calls |-> None] /\ last = [c \in Calls |-> None]
    /\ result = [c \in Calls |-> [kind |-> None, view |-> None, terminal |-> FALSE]]

Tick ==
    /\ now < MaxTime /\ now' = now + 1
    /\ UNCHANGED <<job, slots, waiters, call>>

JobEnds ==
    /\ Running /\ job' = now
    /\ UNCHANGED <<now, slots, waiters, call>>

-----------------------------------------------------------------------------
(* acquire takes a slot, then, for a blocking call, a waiter. *)

Take(c, b) ==
    /\ at[c] = "idle" /\ now <= MaxStart
    /\ budget' = [budget EXCEPT ![c] = b]
    /\ IF slots = MaxConcurrent
       THEN at' = [at EXCEPT ![c] = "refused"] /\ UNCHANGED slots
       ELSE /\ slots' = slots + 1
            /\ at' = [at EXCEPT ![c] = IF b = -1 THEN "ready" ELSE "entering"]
    /\ start' = [start EXCEPT ![c] = now]
    /\ UNCHANGED <<now, job, waiters, begun, timer, reply, last, result>>

(* Mutant: a call that finds no waiter free keeps its slot. *)
EnterLeaky(c) ==
    /\ at[c] = "entering"
    /\ IF waiters < MaxWaiters
       THEN waiters' = waiters + 1 /\ at' = [at EXCEPT ![c] = "ready"] /\ UNCHANGED slots
       ELSE at' = [at EXCEPT ![c] = "refused"] /\ UNCHANGED <<slots, waiters>>
    /\ start' = [start EXCEPT ![c] = now]
    /\ UNCHANGED <<now, job, budget, begun, timer, reply, last, result>>

Enter(c) ==
    /\ at[c] = "entering"
    /\ IF waiters < MaxWaiters
       THEN waiters' = waiters + 1 /\ at' = [at EXCEPT ![c] = "ready"] /\ UNCHANGED slots
       ELSE slots' = slots - 1 /\ at' = [at EXCEPT ![c] = "refused"] /\ UNCHANGED waiters
    /\ start' = [start EXCEPT ![c] = now]
    /\ UNCHANGED <<now, job, budget, begun, timer, reply, last, result>>

(* The call returns and release runs. *)
Return(c, kind, view, terminal) ==
    /\ at' = [at EXCEPT ![c] = "done"]
    /\ result' = [result EXCEPT ![c] = [kind |-> kind, view |-> view, terminal |-> terminal]]
    /\ slots' = slots - 1
    /\ waiters' = IF budget[c] = -1 THEN waiters ELSE waiters - 1

answer(c, view, terminal) == Return(c, "answer", view, terminal)

-----------------------------------------------------------------------------
(* wait_job and the plain tools. *)

CallLimit(c) ==
    IF budget[c] > 0 /\ deadline(c) - now <= Timeout THEN deadline(c) - now ELSE Timeout
BudgetBound(c) == budget[c] > 0 /\ deadline(c) - begun[c] <= Timeout

Ask(c) ==
    /\ at' = [at EXCEPT ![c] = "polling"]
    /\ begun' = [begun EXCEPT ![c] = now]
    /\ timer' = [timer EXCEPT ![c] = now + CallLimit(c)]
    /\ reply' = [reply EXCEPT ![c] = None]
    /\ UNCHANGED <<last, result, slots, waiters>>

(* A service call begins, unless the budget is over. *)
Poll(c) ==
    /\ at[c] = "ready"
    /\ IF budget[c] > 0 /\ deadline(c) <= now
       THEN answer(c, last[c], FALSE) /\ UNCHANGED <<begun, timer, reply, last>>
       ELSE Ask(c)
    /\ UNCHANGED <<now, job, budget, start>>

(* The service reads the job; its answer is on the way. *)
Serve(c) ==
    /\ at[c] = "polling" /\ reply[c] = None
    /\ reply' = [reply EXCEPT ![c] = State]
    /\ UNCHANGED <<now, job, slots, waiters, at, budget, start, begun, timer, last, result>>

(* Mutant: a reply counts whenever it comes. *)
ArriveLate(c) ==
    /\ at[c] = "polling" /\ reply[c] # None
    /\ last' = [last EXCEPT ![c] = reply[c]]
    /\ IF budget[c] <= 0 \/ reply[c] = "ended"
       THEN answer(c, reply[c], reply[c] = "ended") /\ UNCHANGED timer
       ELSE /\ at' = [at EXCEPT ![c] = "sleeping"]
            /\ timer' = [timer EXCEPT ![c] = Sooner(now + Interval, deadline(c))]
            /\ UNCHANGED <<result, slots, waiters>>
    /\ UNCHANGED <<now, job, budget, start, begun, reply>>

(* The reply: discarded if it is late; an observation otherwise. *)
Arrive(c) ==
    /\ at[c] = "polling" /\ reply[c] # None
    /\ IF budget[c] > 0 /\ now >= deadline(c)
       THEN answer(c, last[c], FALSE) /\ UNCHANGED <<timer, last>>
       ELSE /\ last' = [last EXCEPT ![c] = reply[c]]
            /\ IF budget[c] <= 0 \/ reply[c] = "ended"
               THEN answer(c, reply[c], reply[c] = "ended") /\ UNCHANGED timer
               ELSE /\ at' = [at EXCEPT ![c] = "sleeping"]
                    /\ timer' = [timer EXCEPT ![c] = Sooner(now + Interval, deadline(c))]
                    /\ UNCHANGED <<result, slots, waiters>>
    /\ UNCHANGED <<now, job, budget, start, begun, reply>>

(* Mutant: every timeout is the budget's. *)
ExpireAll(c) ==
    /\ at[c] = "polling" /\ now >= timer[c]
    /\ IF budget[c] > 0 THEN answer(c, last[c], FALSE) ELSE Return(c, "timeout", None, FALSE)
    /\ UNCHANGED <<now, job, budget, start, begun, timer, reply, last>>

(* The limit of the service call has passed: the end of the budget is a result, not a failure. *)
Expire(c) ==
    /\ at[c] = "polling" /\ now >= timer[c]
    /\ IF BudgetBound(c) THEN answer(c, last[c], FALSE) ELSE Return(c, "timeout", None, FALSE)
    /\ UNCHANGED <<now, job, budget, start, begun, timer, reply, last>>

(* The service faults or cannot be reached; the caller cancels. *)
Fail(c) ==
    /\ (at[c] = "polling" /\ now < timer[c]) \/ at[c] = "sleeping"
    /\ Return(c, "fault", None, FALSE)
    /\ UNCHANGED <<now, job, budget, start, begun, timer, reply, last>>

Wake(c) ==
    /\ at[c] = "sleeping" /\ now >= timer[c]
    /\ at' = [at EXCEPT ![c] = "ready"]
    /\ UNCHANGED <<now, job, slots, waiters, budget, start, begun, timer, reply, last, result>>

Step(c) == Enter(c) \/ Poll(c) \/ Arrive(c) \/ Expire(c) \/ Wake(c)

Next ==
    \/ Tick \/ JobEnds
    \/ \E c \in Calls :
        \/ \E b \in Budgets \cup {-1} : Take(c, b)
        \/ Step(c) \/ Serve(c) \/ Fail(c)

Spec == Init /\ [][Next]_vars

-----------------------------------------------------------------------------
(* Properties. *)

InFlight(c) == at[c] \in {"ready", "polling", "sleeping"}
Holding == {c \in Calls : InFlight(c) \/ at[c] = "entering"}
Blocking == {c \in Calls : InFlight(c) /\ budget[c] # -1}

(* The channels hold one element per call that will give it back. *)
TypeOK ==
    /\ now \in 0..MaxTime /\ job \in 0..MaxTime + 1
    /\ slots = Cardinality(Holding) /\ slots <= MaxConcurrent
    /\ waiters = Cardinality(Blocking) /\ waiters <= MaxWaiters
    /\ \A c \in Calls : last[c] \in {None, "running", "ended"}

(* Waits leave room for control: a plain call is refused only while as many plain calls as waits
   leave slots for are under way (or waits that are about to be refused themselves). *)
ControlOpen ==
    \A c \in Calls : at[c] = "idle" /\ at'[c] = "refused" /\ budget'[c] = -1 =>
        Cardinality(Holding \ Blocking) >= MaxConcurrent - MaxWaiters

(* No slot of acquire leaks, and waits never use up the slots of control calls. *)
ControlStaysOpen == [][TypeOK' /\ ControlOpen]_vars

Answered(c) == at[c] = "done" /\ budget[c] > 0 /\ result[c].kind = "answer"

(* What a wait reports was true within its budget: a job reported as ended had ended before the
   deadline and is not reported as timed out; one reported as running was running after the call
   began. *)
ReportIsTrue(c) ==
    Answered(c) =>
        /\ result[c].view = "ended" => result[c].terminal /\ job < deadline(c)
        /\ result[c].view = "running" => ~result[c].terminal /\ job >= start[c]
        /\ result[c].terminal => result[c].view = "ended"

(* The end of the budget is no failure and no reason for another poll; the call limit is one. *)
BudgetIsNoFailure(c) ==
    budget[c] > 0 =>
        /\ begun[c] > 0 => begun[c] < deadline(c)
        /\ at[c] = "done" /\ result[c].kind = "timeout" => begun[c] + Timeout < deadline(c)
        /\ Answered(c) /\ ~result[c].terminal => now >= deadline(c)

(* What wait_job reports was true within its budget, whenever replies come and timers fire, and the
   end of the budget is neither a failure nor a reason for another poll. *)
WaitIsHonest == \A c \in Calls : ReportIsTrue(c) /\ BudgetIsNoFailure(c)
==============================================================================
