----------------------------- MODULE McpProofs -----------------------------
(***************************************************************************)
(* Proofs about the MCP bridge, for any calls, jobs and bounds.            *)
(*                                                                         *)
(* Bridge: what wait_job reports was true within its budget, and no slot   *)
(* leaks.  That a report is true when it is made needs what the replies    *)
(* and observations on the way mean at every step (CallOf): an ended job   *)
(* has ended by now, a running one ran when the call was under way, and a  *)
(* service call's timer is the earlier of its two limits.  That no slot    *)
(* leaks needs the holders counted as finite sets (Channels).              *)
(*                                                                         *)
(* EventReader: what an agent has received up to its cursor is what it     *)
(* asked for.  The events of the call under way continue it from the       *)
(* cursor up to next (ReadInv).                                            *)
(*                                                                         *)
(* Framer: every line is answered as it must be.  The ids in flight are    *)
(* those of the requests under way, one each, since a client uses an id    *)
(* again only after it read the response (Clients): so a cancellation hits *)
(* its own request, and a response finds its own id (TrackInv).            *)
(*                                                                         *)
(* Paging: pages put together are the text.  Text, rest and pages are made *)
(* of complete characters (Texts), and the code cuts where one ends (Back  *)
(* finds the last such place; that a chunk or page is not empty needs the  *)
(* widest character to fit).                                               *)
(***************************************************************************)
EXTENDS Bridge, EventReader, Framer, Paging, FiniteSetTheorems, SequenceTheorems,
        WellFoundedInduction, TLAPS

-----------------------------------------------------------------------------
(* Bridge. *)

Views == {None, "running", "ended"}
Places == {"idle", "refused", "entering", "ready", "polling", "sleeping", "done"}

Typed ==
    /\ now \in Nat /\ job \in Nat /\ slots \in Nat /\ waiters \in Nat
    /\ now <= MaxTime /\ (job <= now \/ job = MaxTime + 1)
    /\ at \in [Calls -> Places] /\ budget \in [Calls -> Nat \cup {-1}]
    /\ start \in [Calls -> Nat] /\ begun \in [Calls -> Nat] /\ timer \in [Calls -> Nat]
    /\ reply \in [Calls -> Views] /\ last \in [Calls -> Views]
    /\ result \in [Calls -> [kind : {None, "answer", "timeout", "fault"}, view : Views, terminal : BOOLEAN]]

(* What a reply or an observation says of the job. *)
TrueView(c, v) ==
    /\ v = "ended" => job <= now
    /\ v = "running" => job >= start[c]

(* When the limit of the service call that began at t passes: the budget's end or the call limit. *)
TimerOf(c, t) ==
    IF budget[c] > 0 /\ deadline(c) - t <= Timeout THEN deadline(c) ELSE t + Timeout

CallOf(c) ==
    /\ start[c] <= now /\ begun[c] <= now
    /\ at[c] \in {"idle", "entering", "refused"} =>
        reply[c] = None /\ last[c] = None /\ begun[c] = 0 /\ result[c].view = None
    /\ TrueView(c, reply[c]) /\ TrueView(c, last[c]) /\ TrueView(c, result[c].view)
    /\ at[c] = "entering" => budget[c] # -1
    /\ InFlight(c) => last[c] # "ended"
    /\ begun[c] > 0 /\ budget[c] > 0 => begun[c] < deadline(c)
    /\ at[c] = "polling" => timer[c] = TimerOf(c, begun[c])
    /\ ReportIsTrue(c) /\ BudgetIsNoFailure(c)

Channels ==
    /\ slots = Cardinality(Holding) /\ slots <= MaxConcurrent
    /\ waiters = Cardinality(Blocking) /\ waiters <= MaxWaiters

BridgeInv == Typed /\ Channels /\ \A c \in Calls : CallOf(c)

(* What is assumed of the constants, by name. *)
LEMMA BridgeConstants ==
    /\ MaxConcurrent \in Nat /\ MaxWaiters \in Nat /\ 1 <= MaxWaiters /\ MaxWaiters <= MaxConcurrent
    /\ Timeout \in Nat /\ Timeout > 0 /\ Interval \in Nat /\ Interval > 0
    /\ MaxStart \in Nat /\ MaxTime \in Nat
    /\ IsFiniteSet(Calls)
    /\ \A b \in Budgets : b \in Nat
BY BridgeAssumption

(* The call d is where it was. *)
Same(d) ==
    /\ at'[d] = at[d] /\ budget'[d] = budget[d] /\ start'[d] = start[d] /\ begun'[d] = begun[d]
    /\ timer'[d] = timer[d] /\ reply'[d] = reply[d] /\ last'[d] = last[d] /\ result'[d] = result[d]

LEMMA SameKeeps ==
    ASSUME Typed, NEW d \in Calls, CallOf(d), Same(d), now' = now, job' = job
    PROVE  CallOf(d)'
BY DEF CallOf, Same, TrueView, TimerOf, deadline, InFlight, ReportIsTrue, BudgetIsNoFailure, Answered

(* Time passes, or the job ends. *)
LEMMA ClockStep ==
    ASSUME BridgeInv, Tick \/ JobEnds
    PROVE  BridgeInv'
<1>1. Typed'
    <2>1. /\ now' \in Nat /\ job' \in Nat /\ now' <= MaxTime /\ (job' <= now' \/ job' = MaxTime + 1)
        <3>1. CASE Tick
            <4>1. now' = now + 1 /\ now < MaxTime /\ job' = job
                BY <3>1 DEF Tick
            <4> QED BY <4>1, BridgeConstants DEF BridgeInv, Typed
        <3>2. CASE JobEnds
            <4>1. now' = now /\ job' = now
                BY <3>2 DEF JobEnds
            <4> QED BY <4>1, BridgeConstants DEF BridgeInv, Typed
        <3> QED BY <3>1, <3>2
    <2>2. UNCHANGED <<slots, waiters, at, budget, start, begun, timer, reply, last, result>>
        BY DEF Tick, JobEnds, call
    <2> QED BY <2>1, <2>2 DEF BridgeInv, Typed
<1>2. Channels'
    BY DEF BridgeInv, Channels, Holding, Blocking, InFlight, Tick, JobEnds, call
<1>3. ASSUME NEW c \in Calls PROVE CallOf(c)'
    <2> CallOf(c) /\ Typed /\ now' \in Nat /\ job' \in Nat
        BY <1>1 DEF BridgeInv, Typed
    <2>1. CASE Tick
        BY <2>1 DEF Tick, call, CallOf, Typed, TrueView, TimerOf, deadline, InFlight, ReportIsTrue,
            BudgetIsNoFailure, Answered, None
    <2>2. CASE JobEnds
        BY <2>2 DEF JobEnds, Running, call, CallOf, Typed, TrueView, TimerOf, deadline, InFlight, ReportIsTrue,
            BudgetIsNoFailure, Answered, None
    <2> QED BY <2>1, <2>2
<1> QED BY <1>1, <1>2, <1>3 DEF BridgeInv

(* How many calls hold a slot: one more, one less, or as many. *)
LEMMA OneMore ==
    ASSUME NEW S, NEW T, IsFiniteSet(S), NEW c, c \notin S, T = S \cup {c}
    PROVE  Cardinality(T) = Cardinality(S) + 1 /\ Cardinality(S) \in Nat
BY FS_AddElement, FS_CardinalityType

LEMMA OneLess ==
    ASSUME NEW S, NEW T, IsFiniteSet(S), NEW c, c \in S, T = S \ {c}
    PROVE  Cardinality(T) = Cardinality(S) - 1 /\ Cardinality(S) \in Nat /\ Cardinality(S) >= 1
<1>1. Cardinality(T) = Cardinality(S) - 1
    BY FS_RemoveElement
<1>2. Cardinality(S) \in Nat
    BY FS_CardinalityType
<1>3. Cardinality(S) # 0
    BY FS_EmptySet
<1> QED BY <1>1, <1>2, <1>3

LEMMA FiniteHolders == IsFiniteSet(Holding) /\ IsFiniteSet(Blocking) /\ Blocking \subseteq Holding
<1>1. Holding \subseteq Calls /\ Blocking \subseteq Calls /\ Blocking \subseteq Holding
    BY DEF Holding, Blocking
<1> QED BY <1>1, BridgeConstants, FS_Subset

(* A call that holds nothing takes a slot. *)
LEMMA TakeStep ==
    ASSUME BridgeInv, NEW c \in Calls, NEW b \in Budgets \cup {-1}, Take(c, b)
    PROVE  BridgeInv'
<1> b \in Nat \cup {-1}
    BY BridgeConstants
<1>1. Typed'
    BY BridgeConstants DEF BridgeInv, Typed, Take, Places, Channels
<1>2. Channels'
    <2>1. CASE slots = MaxConcurrent
        <3>1. Holding' = Holding /\ Blocking' = Blocking
            BY <2>1 DEF BridgeInv, Typed, Take, Holding, Blocking, InFlight
        <3> QED BY <2>1, <3>1 DEF BridgeInv, Channels, Take
    <2>2. CASE slots # MaxConcurrent
        <3>1. Holding' = Holding \cup {c} /\ c \notin Holding
            BY <2>2 DEF BridgeInv, Typed, Take, Holding, InFlight
        <3>2. Blocking' = Blocking
            BY <2>2 DEF BridgeInv, Typed, Take, Blocking, InFlight
        <3>3. Cardinality(Holding') = Cardinality(Holding) + 1
            BY <3>1, FiniteHolders, OneMore
        <3>4. slots' = slots + 1 /\ waiters' = waiters /\ slots \in Nat
            BY <2>2 DEF BridgeInv, Typed, Take
        <3> QED BY <2>2, <3>2, <3>3, <3>4, BridgeConstants DEF BridgeInv, Channels
    <2> QED BY <2>1, <2>2
<1>3. ASSUME NEW d \in Calls PROVE CallOf(d)'
    <2>1. CASE d # c
        BY <2>1, SameKeeps DEF BridgeInv, Typed, Take, Same
    <2>2. CASE d = c
        BY <2>2, BridgeConstants DEF BridgeInv, Typed, Take, CallOf, TrueView, TimerOf, deadline, InFlight, ReportIsTrue,
            BudgetIsNoFailure, Answered, None
    <2> QED BY <2>1, <2>2
<1> QED BY <1>1, <1>2, <1>3 DEF BridgeInv

(* A blocking call takes a waiter, or gives its slot back. *)
LEMMA EnterStep ==
    ASSUME BridgeInv, NEW c \in Calls, Enter(c)
    PROVE  BridgeInv'
<1>h. c \in Holding /\ c \notin Blocking /\ budget[c] # -1
    BY DEF BridgeInv, CallOf, Enter, Holding, Blocking, InFlight
<1>n. Cardinality(Holding) \in Nat /\ Cardinality(Holding) >= 1
    BY <1>h, FiniteHolders, OneLess
<1>1. Typed'
    BY <1>n, BridgeConstants DEF BridgeInv, Typed, Enter, Places, Channels
<1>2. Channels'
    <2>1. CASE waiters < MaxWaiters
        <3>1. Holding' = Holding
            BY <2>1 DEF BridgeInv, Typed, Enter, Holding, InFlight
        <3>2. Blocking' = Blocking \cup {c}
            BY <1>h, <2>1 DEF BridgeInv, Typed, Enter, Blocking, InFlight
        <3>3. Cardinality(Blocking') = Cardinality(Blocking) + 1
            BY <3>2, <1>h, FiniteHolders, OneMore
        <3> QED BY <2>1, <3>1, <3>3, BridgeConstants DEF BridgeInv, Typed, Channels, Enter
    <2>2. CASE ~(waiters < MaxWaiters)
        <3>1. Holding' = Holding \ {c}
            BY <2>2 DEF BridgeInv, Typed, Enter, Holding, InFlight
        <3>2. Blocking' = Blocking
            BY <2>2 DEF BridgeInv, Typed, Enter, Blocking, InFlight
        <3>3. Cardinality(Holding') = Cardinality(Holding) - 1
            BY <3>1, <1>h, FiniteHolders, OneLess
        <3> QED BY <2>2, <3>2, <3>3, BridgeConstants DEF BridgeInv, Typed, Channels, Enter
    <2> QED BY <2>1, <2>2
<1>3. ASSUME NEW d \in Calls PROVE CallOf(d)'
    <2>1. CASE d # c
        BY <2>1, SameKeeps DEF BridgeInv, Typed, Enter, Same
    <2>2. CASE d = c
        BY <2>2 DEF BridgeInv, Typed, Enter, CallOf, TrueView, TimerOf, deadline, InFlight, ReportIsTrue,
            BudgetIsNoFailure, Answered, None
    <2> QED BY <2>1, <2>2
<1> QED BY <1>1, <1>2, <1>3 DEF BridgeInv

(* A call that returns gives back what it holds, and nothing else. *)
LEMMA ReturnReleases ==
    ASSUME BridgeInv, NEW c \in Calls, InFlight(c), budget' = budget,
           NEW kind, NEW view, NEW terminal, Return(c, kind, view, terminal)
    PROVE  Channels' /\ slots' \in Nat /\ waiters' \in Nat
<1>1. c \in Holding /\ Holding' = Holding \ {c}
    BY DEF BridgeInv, Typed, Return, Holding, InFlight
<1>2. Cardinality(Holding') = Cardinality(Holding) - 1 /\ Cardinality(Holding) >= 1 /\ Cardinality(Holding) \in Nat
    BY <1>1, FiniteHolders, OneLess
<1>3. CASE budget[c] = -1
    <2>1. Blocking' = Blocking
        BY <1>3 DEF BridgeInv, Typed, Return, Blocking, InFlight
    <2> QED BY <1>2, <1>3, <2>1, BridgeConstants DEF BridgeInv, Typed, Channels, Return
<1>4. CASE budget[c] # -1
    <2>1. c \in Blocking /\ Blocking' = Blocking \ {c}
        BY <1>4 DEF BridgeInv, Typed, Return, Blocking, InFlight
    <2>2. Cardinality(Blocking') = Cardinality(Blocking) - 1 /\ Cardinality(Blocking) >= 1
          /\ Cardinality(Blocking) \in Nat
        BY <2>1, FiniteHolders, OneLess
    <2> QED BY <1>2, <1>4, <2>2, BridgeConstants DEF BridgeInv, Typed, Channels, Return
<1> QED BY <1>3, <1>4

(* A call under way that goes on keeps what it holds. *)
LEMMA StaysInFlight ==
    ASSUME BridgeInv, NEW c \in Calls, InFlight(c), UNCHANGED <<budget, slots, waiters>>,
           NEW place \in {"ready", "polling", "sleeping"}, at' = [at EXCEPT ![c] = place]
    PROVE  Channels'
<1>1. Holding' = Holding /\ Blocking' = Blocking
    BY DEF BridgeInv, Typed, Holding, Blocking, InFlight
<1> QED BY <1>1 DEF BridgeInv, Channels

(* A service call begins, or the budget is over. *)
LEMMA PollStep ==
    ASSUME BridgeInv, NEW c \in Calls, Poll(c)
    PROVE  BridgeInv'
<1>f. InFlight(c)
    BY DEF Poll, InFlight
<1>1. CASE budget[c] > 0 /\ deadline(c) <= now
    <2>0. Return(c, "answer", last[c], FALSE) /\ UNCHANGED <<begun, timer, reply, last, now, job, budget, start>>
        BY <1>1 DEF Poll, answer
    <2>1. Channels' /\ slots' \in Nat /\ waiters' \in Nat
        BY <1>f, <2>0, ReturnReleases
    <2>2. Typed'
        BY <2>0, <2>1 DEF BridgeInv, Typed, Return, Places
    <2>3. ASSUME NEW d \in Calls PROVE CallOf(d)'
        <3>1. CASE d # c
            BY <3>1, <2>0, SameKeeps DEF BridgeInv, Typed, Return, Same
        <3>2. CASE d = c
            BY <1>1, <1>f, <3>2, <2>0 DEF BridgeInv, Typed, Return, CallOf, TrueView, TimerOf, deadline,
                InFlight, ReportIsTrue, BudgetIsNoFailure, Answered
        <3> QED BY <3>1, <3>2
    <2> QED BY <2>1, <2>2, <2>3 DEF BridgeInv
<1>2. CASE ~(budget[c] > 0 /\ deadline(c) <= now)
    <2>0. Ask(c) /\ UNCHANGED <<now, job, budget, start>>
        BY <1>2 DEF Poll
    <2>1. Channels'
        BY <1>f, <2>0, StaysInFlight DEF Ask
    <2>c. /\ CallLimit(c) \in Nat
          /\ now + CallLimit(c) = TimerOf(c, now)
        BY <1>2, BridgeConstants DEF BridgeInv, Typed, CallLimit, TimerOf, deadline
    <2>2. Typed'
        <3>1. now + CallLimit(c) \in Nat
            BY <2>c DEF BridgeInv, Typed
        <3> QED BY <2>0, <3>1 DEF BridgeInv, Typed, Ask, Places, Views
    <2>3. ASSUME NEW d \in Calls PROVE CallOf(d)'
        <3>1. CASE d # c
            BY <3>1, <2>0, SameKeeps DEF BridgeInv, Typed, Ask, Same
        <3>2. CASE d = c
            <4>1. timer'[c] = TimerOf(c, now) /\ begun'[c] = now /\ reply'[c] = None /\ at'[c] = "polling"
                BY <2>0, <2>c DEF BridgeInv, Typed, Ask
            <4> QED BY <1>2, <1>f, <3>2, <2>0, <4>1, BridgeConstants DEF BridgeInv, Typed, Ask, CallOf, TrueView,
                    TimerOf, deadline, InFlight, ReportIsTrue, BudgetIsNoFailure, Answered, None
        <3> QED BY <3>1, <3>2
    <2> QED BY <2>1, <2>2, <2>3 DEF BridgeInv
<1> QED BY <1>1, <1>2

(* The service reads the job. *)
LEMMA ServeStep ==
    ASSUME BridgeInv, NEW c \in Calls, Serve(c)
    PROVE  BridgeInv'
<1>0. State \in {"running", "ended"}
    BY DEF State
<1>1. Typed'
    BY <1>0 DEF BridgeInv, Typed, Serve, Views
<1>2. Channels'
    BY DEF BridgeInv, Channels, Holding, Blocking, InFlight, Serve
<1>3. ASSUME NEW d \in Calls PROVE CallOf(d)'
    <2>1. CASE d # c
        BY <2>1, SameKeeps DEF BridgeInv, Typed, Serve, Same
    <2>2. CASE d = c
        <3>1. reply'[c] = State /\ UNCHANGED <<now, job, at, budget, start, begun, timer, last, result>>
            BY DEF BridgeInv, Typed, Serve
        <3>2. TrueView(c, State)
            BY DEF BridgeInv, Typed, CallOf, TrueView, State, Running
        <3> QED BY <2>2, <3>1, <3>2 DEF BridgeInv, Typed, Serve, CallOf, TrueView, TimerOf, deadline, InFlight,
                ReportIsTrue, BudgetIsNoFailure, Answered
    <2> QED BY <2>1, <2>2
<1> QED BY <1>1, <1>2, <1>3 DEF BridgeInv

(* A call that returns what is true of it keeps the invariant. *)
LEMMA ReturnStep ==
    ASSUME BridgeInv, NEW c \in Calls, InFlight(c), UNCHANGED <<now, job, budget, start, begun, timer, reply>>,
           NEW kind \in {"answer", "timeout", "fault"}, NEW view \in Views, NEW terminal \in BOOLEAN,
           Return(c, kind, view, terminal),
           NEW found \in Views, last' = [last EXCEPT ![c] = found], TrueView(c, found), TrueView(c, view),
           budget[c] > 0 /\ kind = "answer" =>
               /\ view = "ended" => terminal /\ now < deadline(c)
               /\ terminal => view = "ended"
               /\ ~terminal => now >= deadline(c),
           budget[c] > 0 /\ kind = "timeout" => begun[c] + Timeout < deadline(c)
    PROVE  BridgeInv'
<1>1. Channels' /\ slots' \in Nat /\ waiters' \in Nat
    BY ReturnReleases
<1>2. Typed'
    BY <1>1 DEF BridgeInv, Typed, Return, Places
<1>3. ASSUME NEW d \in Calls PROVE CallOf(d)'
    <2>1. CASE d # c
        BY <2>1, SameKeeps DEF BridgeInv, Typed, Return, Same
    <2>2. CASE d = c
        <3>1. /\ at'[c] = "done" /\ result'[c] = [kind |-> kind, view |-> view, terminal |-> terminal]
              /\ last'[c] = found
            BY DEF BridgeInv, Typed, Return
        <3>2. /\ ReportIsTrue(c)'
            BY <3>1, BridgeConstants DEF BridgeInv, Typed, TrueView, deadline, ReportIsTrue, Answered
        <3>3. BudgetIsNoFailure(c)'
            BY <3>1, BridgeConstants DEF BridgeInv, Typed, CallOf, deadline, BudgetIsNoFailure, Answered
        <3> QED BY <2>2, <3>1, <3>2, <3>3 DEF BridgeInv, Typed, CallOf, TrueView, deadline, InFlight
    <2> QED BY <2>1, <2>2
<1> QED BY <1>1, <1>2, <1>3 DEF BridgeInv

(* The reply comes: late, an observation, or the last one. *)
LEMMA ArriveStep ==
    ASSUME BridgeInv, NEW c \in Calls, Arrive(c)
    PROVE  BridgeInv'
<1>f. InFlight(c) /\ last[c] # "ended"
    BY DEF BridgeInv, CallOf, Arrive, InFlight
<1>v. last[c] \in Views /\ reply[c] \in Views /\ TrueView(c, last[c]) /\ TrueView(c, reply[c])
    BY DEF BridgeInv, Typed, CallOf
<1>l. last = [last EXCEPT ![c] = last[c]]
    BY DEF BridgeInv, Typed
<1>1. CASE budget[c] > 0 /\ now >= deadline(c)
    <2>1. Return(c, "answer", last[c], FALSE) /\ UNCHANGED <<now, job, budget, start, begun, timer, reply, last>>
        BY <1>1 DEF Arrive, answer
    <2> QED BY <1>1, <1>f, <1>v, <1>l, <2>1, ReturnStep
<1>2. CASE ~(budget[c] > 0 /\ now >= deadline(c)) /\ (budget[c] <= 0 \/ reply[c] = "ended")
    <2>1. /\ Return(c, "answer", reply[c], reply[c] = "ended")
          /\ UNCHANGED <<now, job, budget, start, begun, timer, reply>>
          /\ last' = [last EXCEPT ![c] = reply[c]]
        BY <1>2 DEF Arrive, answer
    <2>2. budget[c] > 0 => now < deadline(c) /\ reply[c] = "ended"
        BY <1>2 DEF BridgeInv, Typed, deadline
    <2> QED BY <1>f, <1>v, <2>1, <2>2, ReturnStep
<1>3. CASE ~(budget[c] > 0 /\ now >= deadline(c)) /\ ~(budget[c] <= 0 \/ reply[c] = "ended")
    <2>1. /\ at' = [at EXCEPT ![c] = "sleeping"] /\ last' = [last EXCEPT ![c] = reply[c]]
          /\ timer' = [timer EXCEPT ![c] = Sooner(now + Interval, deadline(c))]
          /\ UNCHANGED <<now, job, budget, start, begun, reply, result, slots, waiters>>
        BY <1>3 DEF Arrive
    <2>2. Channels'
        BY <1>f, <2>1, StaysInFlight
    <2>3. Sooner(now + Interval, deadline(c)) \in Nat
        BY <1>3, BridgeConstants DEF BridgeInv, Typed, Sooner, deadline
    <2>4. Typed'
        BY <1>v, <2>1, <2>3 DEF BridgeInv, Typed, Places
    <2>5. ASSUME NEW d \in Calls PROVE CallOf(d)'
        <3>1. CASE d # c
            BY <3>1, <2>1, SameKeeps DEF BridgeInv, Typed, Same
        <3>2. CASE d = c
            <4>1. at'[c] = "sleeping" /\ last'[c] = reply[c]
                BY <2>1 DEF BridgeInv, Typed
            <4> QED BY <1>3, <1>v, <2>1, <3>2, <4>1 DEF BridgeInv, Typed, CallOf, TrueView, deadline,
                    InFlight, ReportIsTrue, BudgetIsNoFailure, Answered
        <3> QED BY <3>1, <3>2
    <2> QED BY <2>2, <2>4, <2>5 DEF BridgeInv
<1> QED BY <1>1, <1>2, <1>3

(* The limit of the service call passes. *)
LEMMA ExpireStep ==
    ASSUME BridgeInv, NEW c \in Calls, Expire(c)
    PROVE  BridgeInv'
<1>f. InFlight(c) /\ last[c] # "ended" /\ timer[c] = TimerOf(c, begun[c])
    BY DEF BridgeInv, CallOf, Expire, InFlight
<1>v. last[c] \in Views /\ TrueView(c, last[c]) /\ None \in Views /\ TrueView(c, None)
    BY DEF BridgeInv, Typed, CallOf, Views, TrueView, None
<1>l. last = [last EXCEPT ![c] = last[c]]
    BY DEF BridgeInv, Typed
<1>1. CASE BudgetBound(c)
    <2>1. Return(c, "answer", last[c], FALSE) /\ UNCHANGED <<now, job, budget, start, begun, timer, reply, last>>
        BY <1>1 DEF Expire, answer
    <2>2. now >= deadline(c)
        BY <1>1, <1>f DEF Expire, BudgetBound, TimerOf
    <2> QED BY <1>f, <1>v, <1>l, <2>1, <2>2, ReturnStep
<1>2. CASE ~BudgetBound(c)
    <2>1. Return(c, "timeout", None, FALSE) /\ UNCHANGED <<now, job, budget, start, begun, timer, reply, last>>
        BY <1>2 DEF Expire
    <2>2. budget[c] > 0 => begun[c] + Timeout < deadline(c)
        BY <1>2, BridgeConstants DEF BudgetBound, deadline, BridgeInv, Typed
    <2> QED BY <1>f, <1>v, <1>l, <2>1, <2>2, ReturnStep
<1> QED BY <1>1, <1>2

LEMMA FailStep ==
    ASSUME BridgeInv, NEW c \in Calls, Fail(c)
    PROVE  BridgeInv'
<1>f. InFlight(c)
    BY DEF Fail, InFlight
<1>v. last[c] \in Views /\ TrueView(c, last[c]) /\ None \in Views /\ TrueView(c, None)
    BY DEF BridgeInv, Typed, CallOf, Views, TrueView, None
<1>l. last = [last EXCEPT ![c] = last[c]]
    BY DEF BridgeInv, Typed
<1>1. Return(c, "fault", None, FALSE) /\ UNCHANGED <<now, job, budget, start, begun, timer, reply, last>>
    BY DEF Fail
<1> QED BY <1>f, <1>v, <1>l, <1>1, ReturnStep

LEMMA WakeStep ==
    ASSUME BridgeInv, NEW c \in Calls, Wake(c)
    PROVE  BridgeInv'
<1>1. Typed'
    BY DEF BridgeInv, Typed, Wake, Places
<1>2. Channels'
    BY StaysInFlight DEF Wake, InFlight
<1>3. ASSUME NEW d \in Calls PROVE CallOf(d)'
    <2>1. CASE d # c
        BY <2>1, SameKeeps DEF BridgeInv, Typed, Wake, Same
    <2>2. CASE d = c
        BY <2>2 DEF BridgeInv, Typed, Wake, CallOf, TrueView, TimerOf, deadline, InFlight, ReportIsTrue,
            BudgetIsNoFailure, Answered
    <2> QED BY <2>1, <2>2
<1> QED BY <1>1, <1>2, <1>3 DEF BridgeInv

LEMMA BridgeStart == Init => BridgeInv
<1> SUFFICES ASSUME Init PROVE BridgeInv
    OBVIOUS
<1>1. Typed
    BY BridgeConstants DEF Init, Typed, Places, Views, None
<1>2. Channels
    <2>1. Holding = {} /\ Blocking = {}
        BY DEF Init, Holding, Blocking, InFlight
    <2> QED BY <2>1, FS_EmptySet, BridgeConstants DEF Init, Channels
<1>3. ASSUME NEW c \in Calls PROVE CallOf(c)
    BY DEF Init, CallOf, TrueView, TimerOf, deadline, InFlight, ReportIsTrue, BudgetIsNoFailure, Answered, None
<1> QED BY <1>1, <1>2, <1>3 DEF BridgeInv

LEMMA BridgeNext == BridgeInv /\ [Next]_vars => BridgeInv'
<1> SUFFICES ASSUME BridgeInv, [Next]_vars PROVE BridgeInv'
    OBVIOUS
<1>1. CASE Next
    BY <1>1, ClockStep, TakeStep, EnterStep, PollStep, ArriveStep, ExpireStep, WakeStep, ServeStep, FailStep
       DEF Next, Step
<1>2. CASE UNCHANGED vars
    <2>1. Typed'
        BY <1>2 DEF BridgeInv, Typed, vars, call
    <2>2. Channels'
        BY <1>2 DEF BridgeInv, Channels, Holding, Blocking, InFlight, vars, call
    <2>3. ASSUME NEW d \in Calls PROVE CallOf(d)'
        BY <1>2, SameKeeps DEF BridgeInv, Same, vars, call
    <2> QED BY <2>1, <2>2, <2>3 DEF BridgeInv
<1> QED BY <1>1, <1>2

(* The inductive invariant of the bridge's calls: what replies and observations on the way mean,
   when a service call is cut off, and who holds a slot. *)
THEOREM BridgeInvariant == Spec => []BridgeInv
BY BridgeStart, BridgeNext, PTL DEF Spec

(* What wait_job reports was true within its budget, and the end of the budget is neither a failure
   nor a reason for another poll (waitJob), for every budget, call limit and timing. *)
THEOREM WaitTheorem == Spec => []WaitIsHonest
<1>1. BridgeInv => WaitIsHonest
    BY DEF BridgeInv, CallOf, WaitIsHonest
<1> QED BY <1>1, BridgeInvariant, PTL

(* No slot and no waiter of acquire leaks, and a plain call is refused only while enough others that
   do not wait hold slots: waits never close the bridge to control. *)
THEOREM ControlTheorem == Spec => ControlStaysOpen
<1>1. BridgeInv => TypeOK
    <2> SUFFICES ASSUME BridgeInv PROVE TypeOK
        OBVIOUS
    <2>1. now \in 0..MaxTime /\ job \in 0..MaxTime + 1
        BY BridgeConstants DEF BridgeInv, Typed
    <2> QED BY <2>1 DEF BridgeInv, Typed, Channels, TypeOK, Views
<1>2. BridgeInv /\ [Next]_vars => [ControlOpen]_vars
    <2> SUFFICES ASSUME BridgeInv, Next, NEW c \in Calls, at[c] = "idle", at'[c] = "refused"
                 PROVE  Cardinality(Holding \ Blocking) >= MaxConcurrent - MaxWaiters
        BY DEF ControlOpen
    <2>1. slots = MaxConcurrent
        <3>1. PICK d \in Calls : (\E b \in Budgets \cup {-1} : Take(d, b)) \/ Step(d) \/ Serve(d) \/ Fail(d)
            <4>1. ~Tick /\ ~JobEnds
                BY DEF Tick, JobEnds, call
            <4> QED BY <4>1 DEF Next
        <3>2. PICK b \in Budgets \cup {-1} : Take(c, b)
            <4>1. CASE \E b \in Budgets \cup {-1} : Take(d, b)
                BY <4>1, <3>1 DEF Take, BridgeInv, Typed
            <4>2. CASE Step(d) \/ Serve(d) \/ Fail(d)
                BY <4>2 DEF Step, Serve, Fail, Enter, Poll, Arrive, Expire, Wake, Return, answer, Ask, BridgeInv, Typed
            <4> QED BY <3>1, <4>1, <4>2
        <3> QED BY <3>2 DEF Take, BridgeInv, Typed
    <2>2. Cardinality(Holding \ Blocking) = Cardinality(Holding) - Cardinality(Blocking)
        <3>1. Holding \cap Blocking = Blocking /\ IsFiniteSet(Holding)
            BY FiniteHolders
        <3>2. Cardinality(Holding \ Blocking) = Cardinality(Holding) - Cardinality(Holding \cap Blocking)
            BY <3>1, FS_Difference, ZenonT(30)
        <3> QED BY <3>1, <3>2
    <2> QED BY <2>1, <2>2, BridgeConstants DEF BridgeInv, Typed, Channels
<1> QED BY <1>1, <1>2, BridgeInvariant, PTL DEF Spec, ControlStaysOpen

-----------------------------------------------------------------------------
(* EventReader. *)

Event == [job : Jobs, size : Sizes]

ReadTyped ==
    /\ store \in Nat /\ log \in Seq(Event) /\ Len(log) <= MaxLog
    /\ cursor \in [store : Nat, seq : Nat] /\ 1 <= cursor.store /\ cursor.store <= store
    /\ base \in Nat /\ base <= cursor.seq /\ cursor.seq <= MaxLog
    /\ got \in Seq(Nat) /\ events \in Seq(Nat)
    /\ stage \in {"idle", "watching", "stopped"}
    /\ pos \in Nat /\ pos <= MaxLog /\ next \in Nat /\ next <= MaxLog /\ size \in Nat

(* The bounds of a result, the call under way and what the agent has: the events collected are the
   wanted ones from the cursor up to next, which is where the stream is while the call goes on. *)
ReadInv ==
    /\ ReadTyped
    /\ Len(events) <= MaxEvents /\ size <= MaxResult /\ (events = <<>> => size = 0)
    /\ stage = "watching" => next = pos /\ cursor.store = store /\ Len(events) < MaxEvents
    /\ stage # "idle" => cursor.seq <= next
    /\ cursor.store = store => cursor.seq <= Len(log) /\ Lists(log, got, base, cursor.seq)
    /\ cursor.store = store /\ stage # "idle" => next <= Len(log) /\ Lists(log, events, cursor.seq, next)

LEMMA ReaderConstants ==
    /\ Sizes \subseteq Nat /\ (\A n \in Sizes : n > 0) /\ MaxEvents \in Nat /\ MaxEvents > 0
    /\ MaxInline \in Nat /\ MaxInline >= 1 /\ MaxResult \in Nat /\ MaxInline <= MaxResult
    /\ MaxLog \in Nat
BY ReaderAssumption

(* A log that grows changes nothing of what was listed. *)
LEMMA ListsGrow ==
    ASSUME NEW S, NEW l \in Seq(S), NEW e \in S, NEW q \in Seq(Nat), NEW a \in Nat, NEW b \in Nat, b <= Len(l),
           Lists(l, q, a, b)
    PROVE  Lists(Append(l, e), q, a, b)
<1>1. \A n \in a + 1..b : Append(l, e)[n] = l[n]
    OBVIOUS
<1> QED BY <1>1 DEF Lists

(* An empty list lists nothing. *)
LEMMA ListsNothing ==
    ASSUME NEW l, NEW a \in Nat
    PROVE  Lists(l, <<>>, a, a)
BY DEF Lists

(* An event that is not wanted is passed over. *)
LEMMA ListsOver ==
    ASSUME NEW l, NEW q \in Seq(Nat), NEW a \in Nat, NEW b \in Nat, Lists(l, q, a, b), ~Wanted(l[b + 1])
    PROVE  Lists(l, q, a, b + 1)
<1>1. \A n \in a + 1..b + 1 : n \in a + 1..b \/ n = b + 1
    OBVIOUS
<1>2. \A n \in a + 1..b : n \in a + 1..b + 1
    OBVIOUS
<1> QED BY <1>1, <1>2 DEF Lists

(* One that is wanted is taken. *)
LEMMA ListsTake ==
    ASSUME NEW l, NEW q \in Seq(Nat), NEW a \in Nat, NEW b \in Nat, a <= b, Lists(l, q, a, b), Wanted(l[b + 1])
    PROVE  Lists(l, Append(q, b + 1), a, b + 1)
<1> DEFINE r == Append(q, b + 1)
<1>0. /\ r \in Seq(Nat) /\ Len(r) = Len(q) + 1 /\ r[Len(q) + 1] = b + 1
      /\ \A i \in 1..Len(q) : r[i] = q[i]
      /\ Len(q) \in Nat
    OBVIOUS
<1> HIDE DEF r
<1>i. \A i \in 1..Len(r) : i \in 1..Len(q) \/ i = Len(q) + 1
    BY <1>0
<1>1. \A i \in 1..Len(r) : r[i] \in a + 1..b + 1 /\ Wanted(l[r[i]])
    <2> TAKE i \in 1..Len(r)
    <2>1. CASE i \in 1..Len(q)
        <3>1. r[i] = q[i] /\ q[i] \in a + 1..b /\ Wanted(l[q[i]])
            BY <2>1, <1>0 DEF Lists
        <3> QED BY <3>1
    <2>2. CASE i = Len(q) + 1
        BY <2>2, <1>0
    <2> QED BY <2>1, <2>2, <1>i
<1>2. \A i, k \in 1..Len(r) : i < k => r[i] < r[k]
    <2> SUFFICES ASSUME NEW i \in 1..Len(r), NEW k \in 1..Len(r), i < k PROVE r[i] < r[k]
        OBVIOUS
    <2>1. i \in 1..Len(q) /\ r[i] = q[i] /\ q[i] \in a + 1..b
        BY <1>0, <1>i DEF Lists
    <2>2. CASE k \in 1..Len(q)
        BY <2>1, <2>2, <1>0 DEF Lists
    <2>3. CASE k = Len(q) + 1
        BY <2>1, <2>3, <1>0
    <2> QED BY <2>2, <2>3, <1>i
<1>3. \A n \in a + 1..b + 1 : Wanted(l[n]) => \E i \in 1..Len(r) : r[i] = n
    <2> SUFFICES ASSUME NEW n \in a + 1..b + 1, Wanted(l[n]) PROVE \E i \in 1..Len(r) : r[i] = n
        OBVIOUS
    <2>1. CASE n = b + 1
        <3>1. Len(q) + 1 \in 1..Len(r)
            BY <1>0
        <3> QED BY <2>1, <3>1, <1>0
    <2>2. CASE n # b + 1
        <3>1. n \in a + 1..b
            BY <2>2
        <3>2. PICK i \in 1..Len(q) : q[i] = n
            BY <3>1 DEF Lists
        <3>3. i \in 1..Len(r) /\ r[i] = n
            BY <3>2, <1>0
        <3> QED BY <3>3
    <2> QED BY <2>1, <2>2
<1>4. Lists(l, r, a, b + 1)
    BY <1>1, <1>2, <1>3 DEF Lists
<1> QED BY <1>4 DEF r

(* Two lists that meet make one. *)
LEMMA ListsJoin ==
    ASSUME NEW l, NEW q \in Seq(Nat), NEW p \in Seq(Nat), NEW a \in Nat, NEW b \in Nat, NEW c \in Nat,
           a <= b, b <= c, Lists(l, q, a, b), Lists(l, p, b, c)
    PROVE  Lists(l, q \o p, a, c)
<1> DEFINE r == q \o p
<1>0. /\ r \in Seq(Nat) /\ Len(r) = Len(q) + Len(p) /\ Len(q) \in Nat /\ Len(p) \in Nat
      /\ \A i \in 1..Len(q) : r[i] = q[i]
      /\ \A i \in 1..Len(p) : r[Len(q) + i] = p[i]
    OBVIOUS
<1> HIDE DEF r
<1>i. \A i \in 1..Len(r) : i \in 1..Len(q) \/ (i - Len(q) \in 1..Len(p) /\ i = Len(q) + (i - Len(q)))
    BY <1>0
<1>q. \A i \in 1..Len(q) : r[i] \in a + 1..b /\ Wanted(l[r[i]])
    BY <1>0 DEF Lists
<1>p. \A i \in 1..Len(r) : i \notin 1..Len(q) => r[i] = p[i - Len(q)] /\ r[i] \in b + 1..c /\ Wanted(l[r[i]])
    <2> SUFFICES ASSUME NEW i \in 1..Len(r), i \notin 1..Len(q)
                 PROVE  r[i] = p[i - Len(q)] /\ r[i] \in b + 1..c /\ Wanted(l[r[i]])
        OBVIOUS
    <2>1. i - Len(q) \in 1..Len(p) /\ i = Len(q) + (i - Len(q))
        BY <1>i
    <2>2. r[i] = p[i - Len(q)]
        BY <2>1, <1>0
    <2> QED BY <2>1, <2>2 DEF Lists
<1>1. \A i \in 1..Len(r) : r[i] \in a + 1..c /\ Wanted(l[r[i]])
    <2> TAKE i \in 1..Len(r)
    <2>1. CASE i \in 1..Len(q)
        BY <2>1, <1>q
    <2>2. CASE i \notin 1..Len(q)
        BY <2>2, <1>p
    <2> QED BY <2>1, <2>2
<1>2. \A i, k \in 1..Len(r) : i < k => r[i] < r[k]
    <2> SUFFICES ASSUME NEW i \in 1..Len(r), NEW k \in 1..Len(r), i < k PROVE r[i] < r[k]
        OBVIOUS
    <2>1. CASE k \in 1..Len(q)
        <3>1. i \in 1..Len(q)
            BY <2>1, <1>0
        <3> QED BY <2>1, <3>1, <1>0 DEF Lists
    <2>2. CASE i \in 1..Len(q) /\ k \notin 1..Len(q)
        BY <2>2, <1>q, <1>p, SMTT(30)
    <2>3. CASE i \notin 1..Len(q) /\ k \notin 1..Len(q)
        <3>1. i - Len(q) \in 1..Len(p) /\ k - Len(q) \in 1..Len(p) /\ i - Len(q) < k - Len(q)
            <4>1. i - Len(q) \in 1..Len(p) /\ k - Len(q) \in 1..Len(p)
                BY <2>3, <1>i
            <4> QED BY <4>1, <1>0
        <3> QED BY <2>3, <3>1, <1>p DEF Lists
    <2>4. CASE i \notin 1..Len(q) /\ k \in 1..Len(q)
        BY <2>4, <1>0
    <2> QED BY <2>1, <2>2, <2>3, <2>4
<1>3. \A n \in a + 1..c : Wanted(l[n]) => \E i \in 1..Len(r) : r[i] = n
    <2> SUFFICES ASSUME NEW n \in a + 1..c, Wanted(l[n]) PROVE \E i \in 1..Len(r) : r[i] = n
        OBVIOUS
    <2>1. CASE n <= b
        <3>1. n \in a + 1..b
            BY <2>1
        <3>2. PICK i \in 1..Len(q) : q[i] = n
            BY <3>1 DEF Lists
        <3>3. i \in 1..Len(r) /\ r[i] = n
            BY <3>2, <1>0
        <3> QED BY <3>3
    <2>2. CASE ~(n <= b)
        <3>1. n \in b + 1..c
            BY <2>2
        <3>2. PICK i \in 1..Len(p) : p[i] = n
            BY <3>1 DEF Lists
        <3>3. r[Len(q) + i] = n
            BY <3>2, <1>0
        <3>4. Len(q) + i \in 1..Len(r)
            BY <1>0
        <3> QED BY <3>3, <3>4
    <2> QED BY <2>1, <2>2
<1>4. Lists(l, r, a, c)
    BY <1>1, <1>2, <1>3 DEF Lists
<1> QED BY <1>4 DEF r

(* A step of the service or of the agent that leaves the call's stream and the agent alone. *)
LEMMA PublishStep ==
    ASSUME ReadInv, NEW e \in Event, Publish(e)
    PROVE  ReadInv'
<1>0. /\ log' = Append(log, e) /\ UNCHANGED <<store, cursor, base, got, stage, pos, next, events, size, lost>>
      /\ log' \in Seq(Event) /\ Len(log') = Len(log) + 1 /\ Len(log') <= MaxLog
    BY ReaderConstants DEF Publish, agent, watch, ReadInv, ReadTyped
<1>1. ReadTyped'
    BY <1>0 DEF ReadInv, ReadTyped
<1>2. cursor.store = store => Lists(log', got, base, cursor.seq)
    BY <1>0, ListsGrow DEF ReadInv, ReadTyped
<1>3. cursor.store = store /\ stage # "idle" => Lists(log', events, cursor.seq, next)
    BY <1>0, ListsGrow DEF ReadInv, ReadTyped
<1> QED BY <1>0, <1>1, <1>2, <1>3 DEF ReadInv, ReadTyped

LEMMA ReplaceStep ==
    ASSUME ReadInv, Replace
    PROVE  ReadInv'
<1>0. /\ store' = store + 1 /\ log' = <<>> /\ UNCHANGED <<cursor, base, got, pos, next, events, size, lost>>
      /\ stage' # "watching" /\ stage' \in {"idle", "stopped"} /\ (stage' # "idle" => stage # "idle")
    BY DEF Replace, agent, ReadInv, ReadTyped
<1>1. ReadTyped' /\ cursor.store # store'
    BY <1>0, ReaderConstants DEF ReadInv, ReadTyped
<1> QED BY <1>0, <1>1 DEF ReadInv

LEMMA OpenStep ==
    ASSUME ReadInv, Open
    PROVE  ReadInv'
<1>0. /\ pos' = cursor.seq /\ next' = cursor.seq /\ events' = <<>> /\ size' = 0
      /\ UNCHANGED <<store, log, cursor, base, got, lost>>
      /\ stage' \in {"watching", "stopped"} /\ (stage' = "watching" => cursor.store = store)
    BY DEF Open, agent
<1>1. ReadTyped'
    BY <1>0 DEF ReadInv, ReadTyped
<1>2. Lists(log, <<>>, cursor.seq, cursor.seq)
    BY ListsNothing DEF ReadInv, ReadTyped
<1> QED BY <1>0, <1>1, <1>2, ReaderConstants DEF ReadInv, ReadTyped

(* What is returned for an event fits into a result. *)
LEMMA ItemFits ==
    ASSUME NEW e \in Event
    PROVE  Item(e) \in Nat /\ Item(e) <= MaxResult
<1>1. e.size \in Nat
    BY ReaderConstants DEF Event
<1> QED BY <1>1, ReaderConstants DEF Item

LEMMA ApplyStep ==
    ASSUME ReadInv, Apply
    PROVE  ReadInv'
<1> DEFINE e == log[pos + 1]
<1>0. /\ stage = "watching" /\ pos < Len(log) /\ pos' = pos + 1
      /\ UNCHANGED <<store, log, cursor, base, got, lost>>
    BY DEF Apply, agent
<1>i. /\ next = pos /\ cursor.store = store /\ cursor.seq <= pos /\ pos \in Nat
      /\ Lists(log, events, cursor.seq, pos) /\ pos + 1 <= Len(log) /\ pos + 1 <= MaxLog
      /\ Len(events) < MaxEvents
    BY <1>0, ReaderConstants DEF ReadInv, ReadTyped
<1>e. e \in Event
    BY <1>0 DEF ReadInv, ReadTyped
<1>s. Item(e) \in Nat /\ Item(e) <= MaxResult
    BY <1>e, ItemFits
<1>1. CASE ~Wanted(e)
    <2>1. next' = pos + 1 /\ UNCHANGED <<events, size, stage>>
        BY <1>1 DEF Apply
    <2>2. Lists(log, events, cursor.seq, pos + 1)
        BY <1>1, <1>i, ListsOver DEF ReadInv, ReadTyped
    <2>3. ReadTyped'
        BY <1>0, <1>i, <2>1 DEF ReadInv, ReadTyped
    <2> QED BY <1>0, <1>i, <2>1, <2>2, <2>3 DEF ReadInv, ReadTyped
<1>2. CASE Wanted(e) /\ size + Item(e) > MaxResult /\ events # <<>>
    <2>1. stage' = "stopped" /\ UNCHANGED <<next, events, size>>
        BY <1>2 DEF Apply
    <2>3. ReadTyped'
        BY <1>0, <1>i, <2>1 DEF ReadInv, ReadTyped
    <2> QED BY <1>0, <1>i, <2>1, <2>3 DEF ReadInv, ReadTyped
<1>3. CASE Wanted(e) /\ ~(size + Item(e) > MaxResult /\ events # <<>>)
    <2>1. /\ events' = Append(events, pos + 1) /\ size' = size + Item(e) /\ next' = pos + 1
          /\ IF Len(events') >= MaxEvents THEN stage' = "stopped" ELSE stage' = stage
        BY <1>3 DEF Apply
    <2>2. Lists(log, events', cursor.seq, pos + 1)
        BY <1>3, <1>i, <2>1, ListsTake DEF ReadInv, ReadTyped
    <2>3. events' \in Seq(Nat) /\ Len(events') = Len(events) + 1 /\ events' # <<>>
        <3>1. events \in Seq(Nat) /\ pos + 1 \in Nat
            BY <1>i DEF ReadInv, ReadTyped
        <3> QED BY <2>1, <3>1
    <2>4. size' \in Nat /\ size' <= MaxResult
        <3> HIDE DEF e
        <3>1. size \in Nat /\ (events = <<>> => size = 0)
            BY DEF ReadInv, ReadTyped
        <3>2. CASE events = <<>>
            BY <3>1, <3>2, <1>s, <2>1, ReaderConstants
        <3>3. CASE events # <<>>
            BY <3>1, <3>3, <1>3, <1>s, <2>1, ReaderConstants
        <3> QED BY <3>2, <3>3
    <2>5. ReadTyped'
        BY <1>0, <1>i, <2>1, <2>3, <2>4 DEF ReadInv, ReadTyped
    <2>6. Len(events') <= MaxEvents /\ (stage' = "watching" => Len(events') < MaxEvents)
        <3>1. Len(events) \in Nat
            BY DEF ReadInv, ReadTyped
        <3>2. stage' = "watching" => ~(Len(events') >= MaxEvents)
            BY <2>1
        <3> QED BY <1>i, <2>3, <3>1, <3>2, ReaderConstants
    <2> QED BY <1>0, <1>i, <2>1, <2>2, <2>3, <2>4, <2>5, <2>6, SMTT(30) DEF ReadInv, ReadTyped
<1> QED BY <1>1, <1>2, <1>3

LEMMA StopStep ==
    ASSUME ReadInv, NEW cause, Stop(cause)
    PROVE  ReadInv'
<1>0. stage = "watching" /\ stage' = "stopped" /\ UNCHANGED <<store, log, cursor, base, got, pos, next, events, size>>
    BY DEF Stop, agent
<1> QED BY <1>0 DEF ReadInv, ReadTyped

LEMMA DeliverStep ==
    ASSUME ReadInv, Deliver
    PROVE  ReadInv'
<1>0. /\ stage = "stopped" /\ stage' = "idle" /\ got' = got \o events /\ cursor' = [cursor EXCEPT !.seq = next]
      /\ UNCHANGED <<store, log, base, pos, next, events, size>>
    BY DEF Deliver
<1>1. cursor'.store = cursor.store /\ cursor'.seq = next /\ cursor' \in [store : Nat, seq : Nat] /\ cursor.seq <= next
    BY <1>0 DEF ReadInv, ReadTyped
<1>2. ReadTyped'
    BY <1>0, <1>1 DEF ReadInv, ReadTyped
<1>3. cursor.store = store => Lists(log, got \o events, base, next)
    BY <1>0, <1>1, ListsJoin DEF ReadInv, ReadTyped
<1> QED BY <1>0, <1>1, <1>2, <1>3 DEF ReadInv

LEMMA DropStep ==
    ASSUME ReadInv, Fault \/ Lose
    PROVE  ReadInv'
<1>0. stage' = "idle" /\ UNCHANGED <<store, log, cursor, base, got, pos, next, events, size>>
    BY DEF Fault, Lose, agent
<1> QED BY <1>0 DEF ReadInv, ReadTyped

LEMMA ListJobsStep ==
    ASSUME ReadInv, ListJobs
    PROVE  ReadInv'
<1>0. /\ stage = "idle" /\ cursor' = [store |-> store, seq |-> Len(log)] /\ base' = Len(log) /\ got' = <<>>
      /\ UNCHANGED <<store, log, stage, pos, next, events, size, lost>>
    BY DEF ListJobs, watch
<1>1. Len(log) \in Nat
    BY DEF ReadInv, ReadTyped
<1>2. Lists(log, <<>>, Len(log), Len(log))
    BY <1>1, ListsNothing
<1>3. ReadTyped'
    BY <1>0, <1>1 DEF ReadInv, ReadTyped
<1> QED BY <1>0, <1>1, <1>2, <1>3 DEF ReadInv

LEMMA ReadStart == ReadInit => ReadInv
<1> SUFFICES ASSUME ReadInit PROVE ReadInv
    OBVIOUS
<1>1. ReadTyped
    BY ReaderConstants DEF ReadInit, ReadTyped
<1>2. Lists(log, <<>>, 0, 0)
    BY ListsNothing
<1> QED BY <1>1, <1>2, ReaderConstants DEF ReadInit, ReadInv

LEMMA ReadStep == ReadInv /\ [ReadNext]_readVars => ReadInv'
<1> SUFFICES ASSUME ReadInv, [ReadNext]_readVars PROVE ReadInv'
    OBVIOUS
<1>1. CASE UNCHANGED readVars
    BY <1>1 DEF ReadInv, ReadTyped, readVars, agent, watch
<1>2. CASE ReadNext
    <2>1. ASSUME NEW j \in Jobs, NEW n \in Sizes, Publish([job |-> j, size |-> n]) PROVE ReadInv'
        <3>1. [job |-> j, size |-> n] \in Event
            BY DEF Event
        <3> QED BY <2>1, <3>1, PublishStep
    <2> QED BY <1>2, <2>1, ReplaceStep, OpenStep, ApplyStep, StopStep, DeliverStep, DropStep, ListJobsStep
            DEF ReadNext
<1> QED BY <1>1, <1>2

(* The inductive invariant of read_events: what the call under way has collected continues what the
   agent has, from its cursor up to next_cursor. *)
THEOREM ReadInvariant == ReadSpec => []ReadInv
BY ReadStart, ReadStep, PTL DEF ReadSpec

(* An agent that passes next_cursor back receives every event it asked for once and in order, over
   limits, filters, broken streams, replaced stores and lost answers (readEvents, Client.Watch). *)
THEOREM SkippedTheorem == ReadSpec => []NothingSkipped
<1>1. ReadInv => NothingSkipped
    BY DEF ReadInv, ReadTyped, NothingSkipped, ReadTypeOK
<1> QED BY <1>1, ReadInvariant, PTL

-----------------------------------------------------------------------------
(* Framer. *)

Ids == [value : Values, spelling : {"plain"}]
LineRecords ==
    [kind : Kinds, size : Nat \ {0}, id : [value : Values \cup {"none"}, spelling : {"plain"}], of : Nat,
     shape : Shapes \cup {NoShape}]

(* The client: an id is used again only after its response was read, so that between a request
   and its cancellation no other has its id. *)
Told(n) == \E i \in 1..seen : out[i].line = n
Clients ==
    /\ sent \in Seq(LineRecords) /\ Len(sent) <= MaxLines /\ seen \in 0..Len(out)
    /\ \A n \in 1..Len(sent) : IsCall(n) => Id(n) \in Ids
    /\ \A n \in 1..Len(sent) : sent[n].kind = "cancel" =>
           /\ sent[n].of \in 1..n - 1 /\ IsCall(sent[n].of) /\ Id(n) = Id(sent[n].of)
           /\ \A k \in sent[n].of + 1..n - 1 : IsCall(k) => Id(k) # Id(n)
    /\ \A n \in 1..Len(sent) : \A k \in 1..n - 1 : IsCall(k) /\ IsCall(n) /\ Id(k) = Id(n) => Told(k)

(* The reader and what it passes on: the chunks of a line say whether it is beyond the limit. *)
ReaderInv ==
    /\ spot \in [line : Nat \ {0}, chunk : Nat] /\ spot.line <= Len(sent) + 1
    /\ IF spot.line <= Len(sent) THEN spot.chunk <= sent[spot.line].size ELSE spot.chunk = 0
    /\ oversized = (spot.chunk > Limit) /\ held = IF oversized THEN 0 ELSE spot.chunk
    /\ pipe \in Nat /\ pipe < spot.line /\ (pipe # 0 => ~Refused(pipe) /\ calls[pipe] = "none")

(* The SDK has requests that were passed to it. *)
CallsInv ==
    /\ calls \in [1..MaxLines -> {"none", "running", "done"}]
    /\ \A n \in 1..MaxLines : calls[n] # "none" => n < spot.line /\ n <= Len(sent) /\ IsCall(n) /\ ~Refused(n)

(* What is answered, and what must be by now. *)
Due(n) == calls[n] = "done" /\ (n \notin silenced \/ sent[n].kind = "batch")
OutInv ==
    /\ out \in Seq([line : Nat, null : BOOLEAN])
    /\ \A i \in 1..Len(out) :
           /\ out[i].line \in 1..Len(sent) /\ out[i].line < spot.line
           /\ (out[i].null <=> Refused(out[i].line))
           /\ ~Refused(out[i].line) => IsCall(out[i].line) /\ Due(out[i].line)
    /\ \A i, j \in 1..Len(out) : out[i].line = out[j].line => i = j
    /\ \A n \in 1..Len(sent) : n < spot.line /\ (Refused(n) \/ (IsCall(n) /\ Due(n))) => Replied(n)

(* The maps of the framer: the requests under way, and the cancelled ones among them. *)
Underway(n) == sent[n].kind = "call" /\ (pipe = n \/ calls[n] = "running")
TrackInv ==
    /\ cancelled \subseteq inflight
    /\ \A id \in inflight : \E n \in 1..Len(sent) : Underway(n) /\ Id(n) = id
    /\ \A n \in 1..Len(sent) : Underway(n) => Id(n) \in inflight /\ (n \in silenced <=> Id(n) \in cancelled)
    /\ silenced \subseteq {n \in 1..Len(sent) : n < spot.line}

LinesInv == Clients /\ ReaderInv /\ CallsInv /\ OutInv /\ TrackInv /\ SessionGoesOn

(* What the step lemmas need of the constants. *)
LEMMA LineConstants ==
    ASSUME Agreed
    PROVE  /\ Limit \in Nat \ {0} /\ MaxLines \in Nat /\ Spellings = {"plain"}
           /\ "batch" \in Kinds => Batching
           /\ \A m \in Shapes \cup {NoShape} : messageProblem(m) = Undecodable(m)
  <1>1. \A m \in Shapes : messageProblem(m) = Undecodable(m)
    BY DEF Agreed, messageProblem, Undecodable
  <1>2. messageProblem(NoShape) = Undecodable(NoShape)
    BY DEF NoShape, messageProblem, Undecodable
  <1> QED  BY <1>1, <1>2, LinesAssumption DEF Legal, Agreed

LEMMA Appended ==
    ASSUME NEW S, NEW s \in Seq(S), NEW e \in S
    PROVE  /\ Append(s, e) \in Seq(S) /\ Len(Append(s, e)) = Len(s) + 1
           /\ \A i \in 1..Len(s) : Append(s, e)[i] = s[i]
           /\ Append(s, e)[Len(s) + 1] = e
  BY AppendProperties

(* A line is read as answered if its answer is among those the client has read. *)
LEMMA SeenIsTold ==
    ASSUME out \in Seq([line : Nat, null : BOOLEAN]), seen \in 0..Len(out), NEW n
    PROVE  Seen(n) <=> Told(n)
  <1> DEFINE s == SubSeq(out, 1, seen)
  <1>1. Len(s) = seen /\ \A i \in 1..seen : s[i] = out[i]
    BY SubSeqProperties
  <1> QED  BY <1>1 DEF Seen, AnsweredIn, Told

(* A request that is under way has no answer yet, so that no later one has its id. *)
LEMMA NotReplied ==
    ASSUME LinesInv, NEW n \in 1..Len(sent), IsCall(n), pipe = n \/ calls[n] = "running"
    PROVE  ~Replied(n) /\ ~Told(n)
  <1>1. ~Refused(n) /\ ~Due(n)
    <2>1. n \in 1..MaxLines  BY LinesAssumption DEF LinesInv, Clients, Legal
    <2>2. CASE pipe = n  BY <2>2 DEF LinesInv, ReaderInv, Due
    <2>3. CASE calls[n] = "running"  BY <2>1, <2>3 DEF LinesInv, CallsInv, Due
    <2> QED  BY <2>2, <2>3
  <1>2. \A i \in 1..Len(out) : out[i].line # n
    BY <1>1 DEF LinesInv, OutInv
  <1> QED  BY <1>2 DEF Replied, AnsweredIn, Told, LinesInv, Clients

LEMMA OneWithId ==
    ASSUME LinesInv, NEW n \in 1..Len(sent), IsCall(n), pipe = n \/ calls[n] = "running",
           NEW k \in 1..Len(sent), IsCall(k), pipe = k \/ calls[k] = "running", Id(k) = Id(n)
    PROVE  k = n
  <1>1. ~Told(n) /\ ~Told(k)  BY NotReplied
  <1> QED  BY <1>1 DEF LinesInv, Clients

(* A new line: those before keep what is known of them, and no answer is for it. *)
LEMMA LineStep ==
    ASSUME LinesInv, NEW kind \in Kinds, NEW len \in Nat \ {0}, NEW of \in Nat,
           NEW id \in [value : Values \cup {"none"}, spelling : {"plain"}],
           NEW shape \in Shapes \cup {NoShape}, Line(kind, len, id, of, shape),
           kind \in {"call", "batch"} =>
               id \in Ids /\ \A k \in 1..Len(sent) : IsCall(k) /\ Id(k) = id => Told(k),
           kind = "cancel" =>
               /\ of \in 1..Len(sent) /\ IsCall(of) /\ id = Id(of)
               /\ \A k \in of + 1..Len(sent) : IsCall(k) => Id(k) # id
    PROVE  Clients' /\ ReaderInv' /\ CallsInv' /\ OutInv' /\ TrackInv'
  <1>0. PICK N : N = Len(sent) + 1  OBVIOUS
  <1> DEFINE e == [kind |-> kind, size |-> len, id |-> id, of |-> of, shape |-> shape]
  <1>1. e \in LineRecords  BY DEF LineRecords
  <1>2. /\ sent' \in Seq(LineRecords) /\ Len(sent') = N
        /\ \A n \in 1..Len(sent) : sent'[n] = sent[n]
        /\ sent'[N] = e
    BY <1>0, <1>1, Appended DEF Line, LinesInv, Clients
  <1>3. /\ Len(sent) \in Nat /\ N <= MaxLines
        /\ UNCHANGED <<seen, spot, held, oversized, pipe, inflight, cancelled, calls, out, open, silenced>>
    BY <1>0, <1>2, LinesAssumption DEF Line, LinesInv, Clients, reader, Legal
  <1>4. \A n \in 1..Len(sent) :
            /\ Id(n)' = Id(n) /\ IsCall(n)' = IsCall(n) /\ Refused(n)' = Refused(n) /\ Due(n)' = Due(n)
            /\ Underway(n)' = Underway(n)
    BY <1>2, <1>3 DEF Id, IsCall, Refused, Due, Underway
  <1>5. \A n : Told(n)' = Told(n) /\ Replied(n)' = Replied(n)
    BY <1>3 DEF Told, Replied, AnsweredIn
  <1>6. Id(N)' = id /\ IsCall(N)' = (kind \in {"call", "batch"})
    BY <1>2 DEF Id, IsCall
  <1>7. \A n \in 1..Len(sent') : n \in 1..Len(sent) \/ n = N
    BY <1>0, <1>2, <1>3
  <1>8. pipe # N /\ calls[N] = "none" /\ spot.line <= N
    BY <1>0, <1>3, LinesAssumption DEF LinesInv, ReaderInv, CallsInv, Legal
  <1> HIDE DEF e
  <1>10. Clients'
    <2>1. ASSUME NEW n \in 1..Len(sent'), IsCall(n)'  PROVE Id(n)' \in Ids
      <3>1. CASE n \in 1..Len(sent)
        BY <1>4, <2>1, <3>1 DEF LinesInv, Clients
      <3>2. CASE n = N
        BY <1>6, <2>1, <3>2
      <3> QED  BY <1>7, <3>1, <3>2
    <2>2. ASSUME NEW n \in 1..Len(sent'), sent'[n].kind = "cancel",
                 NEW m, m = sent'[n].of
          PROVE  /\ m \in 1..n - 1 /\ IsCall(m)' /\ Id(n)' = Id(m)'
                 /\ \A k \in m + 1..n - 1 : IsCall(k)' => Id(k)' # Id(n)'
      <3>1. CASE n \in 1..Len(sent)
        <4>1. /\ m \in 1..n - 1 /\ IsCall(m) /\ Id(n) = Id(m)
              /\ \A k \in m + 1..n - 1 : IsCall(k) => Id(k) # Id(n)
          BY <1>2, <2>2, <3>1 DEF LinesInv, Clients
        <4>3. \A k \in 1..n - 1 : k \in 1..Len(sent)  BY <1>3, <3>1
        <4>4. \A k \in m + 1..n - 1 : k \in 1..n - 1  BY <4>1
        <4> QED  BY <1>4, <3>1, <4>1, <4>3, <4>4
      <3>2. CASE n = N
        <4>1. m = of /\ kind = "cancel" /\ n - 1 = Len(sent)
          BY <1>0, <1>2, <1>3, <2>2, <3>2 DEF e
        <4>2. \A k \in m + 1..n - 1 : k \in 1..Len(sent)  BY <1>3, <4>1
        <4> QED  BY <1>3, <1>4, <1>6, <3>2, <4>1, <4>2
      <3> QED  BY <1>7, <3>1, <3>2
    <2>3. ASSUME NEW n \in 1..Len(sent'), NEW k \in 1..n - 1, IsCall(k)', IsCall(n)', Id(k)' = Id(n)'
          PROVE  Told(k)'
      <3>1. k \in 1..Len(sent)  BY <1>0, <1>2, <1>3
      <3>2. CASE n \in 1..Len(sent)
        BY <1>4, <1>5, <2>3, <3>1, <3>2 DEF LinesInv, Clients
      <3>3. CASE n = N
        BY <1>4, <1>5, <1>6, <2>3, <3>1, <3>3
      <3> QED  BY <1>7, <3>2, <3>3
    <2>4. \A n \in 1..Len(sent') : IsCall(n)' => Id(n)' \in Ids
      BY <2>1
    <2>5. \A n \in 1..Len(sent') : sent'[n].kind = "cancel" =>
              /\ sent'[n].of \in 1..n - 1 /\ sent'[sent'[n].of].kind \in {"call", "batch"}
              /\ Id(n)' = sent'[sent'[n].of].id
              /\ \A k \in sent'[n].of + 1..n - 1 : IsCall(k)' => Id(k)' # Id(n)'
      BY <2>2 DEF IsCall, Id
    <2>6. \A n \in 1..Len(sent') : \A k \in 1..n - 1 : (IsCall(k) /\ IsCall(n) /\ Id(k) = Id(n))' => Told(k)'
      BY <2>3
    <2>7. (sent \in Seq(LineRecords) /\ Len(sent) <= MaxLines /\ seen \in 0..Len(out))'
      BY <1>2, <1>3 DEF LinesInv, Clients
    <2> HIDE DEF LineRecords, Ids, Told
    <2> QED  BY <2>4, <2>5, <2>6, <2>7 DEF Clients, IsCall, Id
  <1>11. ReaderInv'
    <2>1. spot.line <= Len(sent') + 1 /\ sent'[N].size \in Nat
      BY <1>0, <1>2, <1>3 DEF LinesInv, ReaderInv, e
    <2>2. IF spot.line <= Len(sent') THEN spot.chunk <= sent'[spot.line].size ELSE spot.chunk = 0
      <3>1. CASE spot.line <= Len(sent)
        BY <1>0, <1>2, <1>3, <3>1 DEF LinesInv, ReaderInv
      <3>2. CASE spot.line = N
        BY <1>0, <1>2, <1>3, <2>1, <3>2 DEF LinesInv, ReaderInv
      <3> QED  BY <1>0, <1>3, <1>8, <3>1, <3>2 DEF LinesInv, ReaderInv
    <2>3. pipe # 0 => pipe \in 1..Len(sent)
      BY <1>0, <1>3, <1>8 DEF LinesInv, ReaderInv
    <2> QED  BY <1>3, <1>4, <2>1, <2>2, <2>3 DEF LinesInv, ReaderInv
  <1>12. CallsInv'
    <2>1. ASSUME NEW n \in 1..MaxLines, calls[n] # "none"
          PROVE  n \in 1..Len(sent) /\ n < spot.line /\ IsCall(n) /\ ~Refused(n)
      BY <1>3, <2>1 DEF LinesInv, CallsInv
    <2> QED  BY <1>0, <1>2, <1>3, <1>4, <2>1 DEF LinesInv, CallsInv
  <1>13. OutInv'
    <2>1. \A i \in 1..Len(out) : out[i].line \in 1..Len(sent')
      BY <1>0, <1>2, <1>3 DEF LinesInv, OutInv
    <2>2. \A n \in 1..Len(sent') : n < spot.line => n \in 1..Len(sent)
      BY <1>0, <1>3, <1>7, <1>8 DEF LinesInv, ReaderInv
    <2> QED  BY <1>3, <1>4, <1>5, <2>1, <2>2 DEF LinesInv, OutInv
  <1>14. TrackInv'
    <2>1. ~Underway(N)'
      BY <1>3, <1>8 DEF Underway
    <2>2. 1..Len(sent) \subseteq 1..Len(sent')
      BY <1>0, <1>2, <1>3
    <2> QED  BY <1>3, <1>4, <1>7, <2>1, <2>2 DEF LinesInv, TrackInv
  <1> QED  BY <1>10, <1>11, <1>12, <1>13, <1>14

(* The steps of the client. *)
LEMMA RequestStep ==
    ASSUME LinesInv, Agreed, NEW kind \in {"call", "batch"}, NEW len \in Nat \ {0},
           NEW v \in Values, NEW s \in Spellings, Request(kind, len, v, s)
    PROVE  LinesInv'
  <1> DEFINE id == [value |-> v, spelling |-> s]
  <1>1. Line(kind, len, id, 0, NoShape) /\ closed' = closed /\ kind \in Kinds /\ open' = open
    BY DEF Request, Line
  <1>2. id \in Ids /\ id \in [value : Values \cup {"none"}, spelling : {"plain"}]
    BY LineConstants DEF Ids
  <1>3. \A k \in 1..Len(sent) : IsCall(k) /\ Id(k) = id => Told(k)
    <2>1. \A k \in 1..Len(sent) : Seen(k) <=> Told(k)
      BY SeenIsTold DEF LinesInv, OutInv, Clients
    <2> QED  BY <2>1 DEF Request
  <1> HIDE DEF id
  <1>4. kind # "cancel"  OBVIOUS
  <1>5. Clients' /\ ReaderInv' /\ CallsInv' /\ OutInv' /\ TrackInv'
    BY <1>1, <1>2, <1>3, <1>4, LineStep
  <1> QED  BY <1>1, <1>5 DEF LinesInv, SessionGoesOn

LEMMA CancelStep ==
    ASSUME LinesInv, Agreed, NEW n, Cancel(n)
    PROVE  LinesInv'
  <1>1. /\ Line("cancel", 1, Id(n), n, NoShape) /\ closed' = closed /\ "cancel" \in Kinds /\ open' = open
        /\ n \in 1..Len(sent) /\ IsCall(n) /\ ~Seen(n)
    BY DEF Cancel, Line
  <1>2. Id(n) \in [value : Values \cup {"none"}, spelling : {"plain"}]
    BY <1>1 DEF LinesInv, Clients, Ids
  <1>3. \A k \in n + 1..Len(sent) : IsCall(k) => Id(k) # Id(n)
    <2>1. ~Told(n)
      BY <1>1, SeenIsTold DEF LinesInv, OutInv, Clients
    <2>2. ASSUME NEW k \in n + 1..Len(sent), IsCall(k), Id(k) = Id(n)  PROVE FALSE
      <3>1. k \in 1..Len(sent) /\ n \in 1..k - 1  BY <1>1
      <3> QED  BY <1>1, <2>1, <2>2, <3>1 DEF LinesInv, Clients
    <2> QED  BY <2>2
  <1>4. n \in Nat /\ 1 \in Nat \ {0}  BY <1>1
  <1>5. Clients' /\ ReaderInv' /\ CallsInv' /\ OutInv' /\ TrackInv'
    BY <1>1, <1>2, <1>3, <1>4, LineStep
  <1> QED  BY <1>1, <1>5 DEF LinesInv, SessionGoesOn

LEMMA OddStep ==
    ASSUME LinesInv, NEW len \in Nat \ {0}, NEW shape \in Shapes \cup {NoShape},
           Line("odd", len, NoId, 0, shape), closed' \in {closed, TRUE}
    PROVE  LinesInv'
  <1>1. "odd" \in Kinds /\ open' = open  BY DEF Line
  <1>2. NoId \in [value : Values \cup {"none"}, spelling : {"plain"}]  BY DEF NoId
  <1>3. Clients' /\ ReaderInv' /\ CallsInv' /\ OutInv' /\ TrackInv'
    BY <1>1, <1>2, LineStep
  <1> QED  BY <1>1, <1>3 DEF LinesInv, SessionGoesOn

(* What does not look at a variable keeps its truth. *)
LEMMA LinesSame ==
    ASSUME LinesInv, UNCHANGED <<sent, seen, reader, inflight, cancelled, calls, out, silenced>>,
           SessionGoesOn'
    PROVE  LinesInv'
  <1>1. UNCHANGED <<spot, held, oversized, pipe>>  BY DEF reader
  <1>2. Clients'  BY <1>1 DEF LinesInv, Clients, Id, IsCall, Told
  <1>3. ReaderInv'  BY <1>1 DEF LinesInv, ReaderInv, Refused
  <1>4. CallsInv'  BY <1>1 DEF LinesInv, CallsInv, IsCall, Refused
  <1>5. OutInv'  BY <1>1 DEF LinesInv, OutInv, IsCall, Refused, Due, Replied, AnsweredIn
  <1>6. TrackInv'  BY <1>1 DEF LinesInv, TrackInv, Underway, Id
  <1> QED  BY <1>2, <1>3, <1>4, <1>5, <1>6 DEF LinesInv

LEMMA CloseStep ==
    ASSUME LinesInv, NEW cut \in BOOLEAN, Close(cut)
    PROVE  LinesInv'
  <1>1. CASE cut
    BY <1>1, OddStep DEF Close
  <1>2. CASE ~cut
    <2>1. UNCHANGED <<sent, seen, reader, inflight, cancelled, calls, out, silenced>> /\ SessionGoesOn'
      BY <1>2 DEF Close, SessionGoesOn
    <2> QED  BY <2>1, LinesSame
  <1> QED  BY <1>1, <1>2

LEMMA ReadLineStep ==
    ASSUME LinesInv, Read
    PROVE  LinesInv'
  <1>1. /\ UNCHANGED <<sent, closed, spot, held, oversized, pipe, inflight, cancelled, calls, out, open, silenced>>
        /\ seen' = seen + 1 /\ seen < Len(out) /\ seen \in Nat /\ Len(out) \in Nat
    BY DEF Read, reader, LinesInv, OutInv, Clients
  <1>2. \A n : Told(n) => Told(n)'
    BY <1>1 DEF Told
  <1>3. Clients'  BY <1>1, <1>2 DEF LinesInv, Clients, Id, IsCall
  <1>4. ReaderInv'  BY <1>1 DEF LinesInv, ReaderInv, Refused
  <1>5. CallsInv'  BY <1>1 DEF LinesInv, CallsInv, IsCall, Refused
  <1>6. OutInv'  BY <1>1 DEF LinesInv, OutInv, IsCall, Refused, Due, Replied, AnsweredIn
  <1>7. TrackInv'  BY <1>1 DEF LinesInv, TrackInv, Underway, Id
  <1> QED  BY <1>1, <1>3, <1>4, <1>5, <1>6, <1>7 DEF LinesInv, SessionGoesOn

LEMMA readSliceStep ==
    ASSUME LinesInv, readSlice
    PROVE  LinesInv'
  <1>1. /\ UNCHANGED <<sent, seen, closed, pipe, inflight, cancelled, calls, out, open, silenced>>
        /\ spot' = [spot EXCEPT !.chunk = @ + 1]
    BY DEF readSlice
  <1>2. spot'.line = spot.line /\ spot'.chunk = spot.chunk + 1 /\ spot' \in [line : Nat \ {0}, chunk : Nat]
    BY <1>1 DEF LinesInv, ReaderInv
  <1>3. Clients'  BY <1>1 DEF LinesInv, Clients, Id, IsCall, Told
  <1>4. ReaderInv'
    <2>1. Limit \in Nat /\ Len(sent) \in Nat
      BY LinesAssumption DEF Legal, LinesInv, Clients
    <2>2. spot.line <= Len(sent) /\ sent[spot.line].size \in Nat /\ spot.chunk < sent[spot.line].size
      <3>1. spot.line \in 1..Len(sent)  BY <2>1 DEF readSlice, LinesInv, ReaderInv
      <3>2. sent[spot.line] \in LineRecords  BY <3>1 DEF LinesInv, Clients
      <3> QED  BY <3>1, <3>2 DEF readSlice, LineRecords
    <2>3. oversized' = (spot'.chunk > Limit) /\ held' = IF oversized' THEN 0 ELSE spot'.chunk
      <3>1. /\ spot.chunk \in Nat /\ oversized = (spot.chunk > Limit)
            /\ held = IF oversized THEN 0 ELSE spot.chunk
        BY DEF LinesInv, ReaderInv
      <3>2. CASE oversized
        <4>1. oversized' = oversized /\ held' = held  BY <3>2 DEF readSlice
        <4>2. oversized = TRUE /\ held = 0 /\ spot.chunk > Limit  BY <3>1, <3>2
        <4>3. spot'.chunk > Limit  BY <1>2, <2>1, <3>1, <4>2
        <4>4. oversized' = TRUE /\ held' = 0  BY <4>1, <4>2
        <4> QED  BY <4>3, <4>4
      <3>3. CASE ~oversized
        <4>1. IF held + 1 > Limit THEN oversized' = TRUE /\ held' = 0
              ELSE held' = held + 1 /\ oversized' = oversized
          BY <3>3 DEF readSlice
        <4>2. held = spot.chunk  BY <3>1, <3>3
        <4>3. CASE held + 1 > Limit  BY <1>2, <2>1, <3>1, <4>1, <4>2, <4>3
        <4>4. CASE ~(held + 1 > Limit)  BY <1>2, <2>1, <3>1, <3>3, <4>1, <4>2, <4>4
        <4> QED  BY <4>3, <4>4
      <3> QED  BY <3>2, <3>3
    <2>4. pipe' = 0 BY <1>1 DEF readSlice
    <2> QED  BY <1>1, <1>2, <2>1, <2>2, <2>3, <2>4 DEF LinesInv, ReaderInv
  <1>5. CallsInv'  BY <1>1, <1>2 DEF LinesInv, CallsInv, IsCall, Refused
  <1>6. OutInv'  BY <1>1, <1>2 DEF LinesInv, OutInv, IsCall, Refused, Due, Replied, AnsweredIn
  <1>7. TrackInv'  BY <1>1, <1>2 DEF LinesInv, TrackInv, Underway, Id
  <1> QED  BY <1>1, <1>3, <1>4, <1>5, <1>6, <1>7 DEF LinesInv, SessionGoesOn

(* An answer for a line that had none. *)
LEMMA AnswerOnce ==
    ASSUME LinesInv, NEW n \in 1..Len(sent), NEW b \in BOOLEAN, ~Replied(n),
           out' = Append(out, [line |-> n, null |-> b]), sent' = sent, seen' = seen
    PROVE  /\ out' \in Seq([line : Nat, null : BOOLEAN]) /\ seen' \in 0..Len(out')
           /\ \A k : (Replied(k)' <=> (Replied(k) \/ k = n)) /\ (Told(k) => Told(k)')
           /\ \A i, j \in 1..Len(out') : out'[i].line = out'[j].line => i = j
           /\ \A i \in 1..Len(out') : \/ i \in 1..Len(out) /\ out'[i] = out[i]
                                      \/ out'[i] = [line |-> n, null |-> b]
  <1> DEFINE e == [line |-> n, null |-> b]
  <1>1. /\ out \in Seq([line : Nat, null : BOOLEAN]) /\ e \in [line : Nat, null : BOOLEAN]
        /\ seen \in 0..Len(out)
    BY DEF LinesInv, OutInv, Clients
  <1>2. /\ out' \in Seq([line : Nat, null : BOOLEAN]) /\ Len(out') = Len(out) + 1
        /\ \A i \in 1..Len(out) : out'[i] = out[i]
        /\ out'[Len(out) + 1] = e
    BY <1>1, Appended
  <1>3. Len(out) \in Nat /\ e.line = n  BY <1>1
  <1> HIDE DEF e
  <1>4. \A i \in 1..Len(out') : i \in 1..Len(out) \/ i = Len(out) + 1  BY <1>2, <1>3
  <1>5. 1..Len(out) \subseteq 1..Len(out') /\ Len(out) + 1 \in 1..Len(out')  BY <1>2, <1>3
  <1>6. \A i \in 1..Len(out) : out[i].line # n  BY DEF Replied, AnsweredIn
  <1>7. ASSUME NEW k  PROVE (Replied(k)' <=> (Replied(k) \/ k = n)) /\ (Told(k) => Told(k)')
    <2>1. Replied(k)' => Replied(k) \/ k = n  BY <1>2, <1>3, <1>4 DEF Replied, AnsweredIn
    <2>2. Replied(k) => Replied(k)'  BY <1>2, <1>5 DEF Replied, AnsweredIn
    <2>3. k = n => Replied(k)'  BY <1>2, <1>3, <1>5 DEF Replied, AnsweredIn
    <2>4. \A i \in 1..seen : i \in 1..Len(out)  BY <1>1, <1>3
    <2>5. Told(k) => Told(k)'  BY <1>2, <2>4 DEF Told
    <2> QED  BY <2>1, <2>2, <2>3, <2>5
  <1>8. ASSUME NEW i \in 1..Len(out'), NEW j \in 1..Len(out'), out'[i].line = out'[j].line
        PROVE  i = j
    <2>1. CASE i \in 1..Len(out) /\ j \in 1..Len(out)
      BY <1>2, <1>8, <2>1 DEF LinesInv, OutInv
    <2>2. CASE i \in 1..Len(out) /\ j = Len(out) + 1
      BY <1>2, <1>3, <1>6, <1>8, <2>2
    <2>3. CASE i = Len(out) + 1 /\ j \in 1..Len(out)
      BY <1>2, <1>3, <1>6, <1>8, <2>3
    <2> QED  BY <1>4, <2>1, <2>2, <2>3
  <1>9. \A i \in 1..Len(out') : (i \in 1..Len(out) /\ out'[i] = out[i]) \/ out'[i] = e
    BY <1>2, <1>4
  <1>10. seen' \in 0..Len(out')  BY <1>1, <1>2, <1>3
  <1> QED  BY <1>2, <1>7, <1>8, <1>9, <1>10 DEF e

(* What flush finds: a whole line, not answered or passed on yet. *)
LEMMA AtLineEnd ==
    ASSUME LinesInv, Agreed, flush, NEW n, n = spot.line
    PROVE  /\ n \in 1..Len(sent) /\ n \in Nat /\ sent[n] \in LineRecords /\ open /\ pipe = 0
           /\ calls[n] = "none" /\ ~Replied(n) /\ n \notin silenced
           /\ spot' = [line |-> n + 1, chunk |-> 0] /\ held' = 0 /\ oversized' = FALSE
           /\ UNCHANGED <<sent, seen, closed, calls, open>>
           /\ IF Refused(n) THEN refuse(n) ELSE pass(n)
  <1>1. /\ AtEnd(n) /\ spot' = [line |-> n + 1, chunk |-> 0] /\ held' = 0 /\ oversized' = FALSE
        /\ UNCHANGED <<sent, seen, closed, calls, open>>
        /\ IF oversized \/ (sent[n].kind = "odd" /\ messageProblem(sent[n].shape)) THEN refuse(n) ELSE pass(n)
    BY DEF flush
  <1>2. n \in 1..Len(sent) /\ n \in Nat /\ Len(sent) <= MaxLines /\ Len(sent) \in Nat
    BY <1>1 DEF AtEnd, LinesInv, ReaderInv, Clients
  <1>3. sent[n] \in LineRecords  BY <1>2 DEF LinesInv, Clients
  <1>4. oversized \/ (sent[n].kind = "odd" /\ messageProblem(sent[n].shape)) <=> Refused(n)
    <2>1. sent[n].shape \in Shapes \cup {NoShape}  BY <1>3 DEF LineRecords
    <2>2. messageProblem(sent[n].shape) = Undecodable(sent[n].shape)  BY <2>1, LineConstants
    <2>3. oversized <=> sent[n].size > Limit
      BY <1>1 DEF AtEnd, LinesInv, ReaderInv
    <2> QED  BY <2>2, <2>3 DEF Refused
  <1>5. calls[n] = "none"
    <2>1. n \in 1..MaxLines  BY <1>2, LinesAssumption DEF Legal
    <2> QED  BY <1>2, <2>1 DEF LinesInv, CallsInv
  <1>6. ~Replied(n)
    <2>1. \A i \in 1..Len(out) : out[i].line < n  BY DEF LinesInv, OutInv
    <2> QED  BY <1>2, <2>1 DEF Replied, AnsweredIn
  <1>7. n \notin silenced  BY <1>2 DEF LinesInv, TrackInv
  <1> QED  BY <1>1, <1>2, <1>3, <1>4, <1>5, <1>6, <1>7 DEF AtEnd

(* The parts that change alike whether the line is refused or passed on. *)
LEMMA NextLine ==
    ASSUME LinesInv, Agreed, flush, NEW n, n = spot.line,
           \A k \in 1..Len(sent) : Told(k) => Told(k)', seen' \in 0..Len(out'),
           pipe' \in {pipe, n}, pipe' = n => ~Refused(n)
    PROVE  Clients' /\ ReaderInv' /\ CallsInv' /\ SessionGoesOn' /\ spot'.line = n + 1
  <1>1. /\ n \in 1..Len(sent) /\ n \in Nat /\ sent[n] \in LineRecords /\ open /\ pipe = 0 /\ calls[n] = "none"
        /\ spot' = [line |-> n + 1, chunk |-> 0] /\ held' = 0 /\ oversized' = FALSE
        /\ UNCHANGED <<sent, seen, closed, calls, open>>
    BY AtLineEnd
  <1>2. Len(sent) \in Nat /\ Limit \in Nat
    BY LinesAssumption DEF Legal, LinesInv, Clients
  <1>3. Clients'
    <2>1. \A k \in 1..Len(sent) : \A m \in 1..k - 1 : m \in 1..Len(sent)  BY <1>2
    <2> QED  BY <1>1, <2>1 DEF LinesInv, Clients, Id, IsCall
  <1>4. ReaderInv'
    <2>1. spot' \in [line : Nat \ {0}, chunk : Nat] /\ spot'.line = n + 1 /\ spot'.chunk = 0  BY <1>1
    <2>2. spot'.line <= Len(sent) => sent[spot'.line].size \in Nat \ {0}
      <3>1. ASSUME spot'.line <= Len(sent)  PROVE sent[spot'.line] \in LineRecords
        BY <1>1, <1>2, <2>1, <3>1 DEF LinesInv, Clients
      <3> QED  BY <3>1 DEF LineRecords
    <2>3. pipe' # 0 => pipe' = n /\ ~Refused(n) /\ calls'[n] = "none" /\ sent' = sent
      BY <1>1
    <2>4. (spot'.chunk > Limit) = FALSE  BY <1>2, <2>1
    <2>5. spot'.line <= Len(sent') + 1 /\ pipe' \in Nat /\ pipe' < spot'.line  BY <1>1, <1>2, <2>1
    <2>6. IF spot'.line <= Len(sent') THEN spot'.chunk <= sent'[spot'.line].size ELSE spot'.chunk = 0
      BY <1>1, <2>1, <2>2
    <2>7. oversized' = (spot'.chunk > Limit) /\ held' = IF oversized' THEN 0 ELSE spot'.chunk
      BY <1>1, <2>1, <2>4
    <2> QED  BY <2>1, <2>3, <2>5, <2>6, <2>7 DEF ReaderInv, Refused
  <1>5. CallsInv'
    BY <1>1 DEF LinesInv, CallsInv, IsCall, Refused
  <1> QED  BY <1>1, <1>3, <1>4, <1>5 DEF LinesInv, SessionGoesOn

LEMMA RefuseStep ==
    ASSUME LinesInv, Agreed, flush, Refused(spot.line)
    PROVE  LinesInv'
  <1>0. PICK n : n = spot.line  OBVIOUS
  <1>1. /\ n \in 1..Len(sent) /\ n \in Nat /\ ~Replied(n) /\ pipe = 0 /\ Refused(n)
        /\ spot' = [line |-> n + 1, chunk |-> 0] /\ refuse(n)
        /\ UNCHANGED <<sent, seen, closed, calls, open>>
    BY <1>0, AtLineEnd
  <1>2. out' = Append(out, [line |-> n, null |-> TRUE]) /\ UNCHANGED <<pipe, inflight, cancelled, silenced>>
    BY <1>1 DEF refuse
  <1>3. /\ out' \in Seq([line : Nat, null : BOOLEAN]) /\ seen' \in 0..Len(out')
        /\ \A k : (Replied(k)' <=> (Replied(k) \/ k = n)) /\ (Told(k) => Told(k)')
        /\ \A i, j \in 1..Len(out') : out'[i].line = out'[j].line => i = j
        /\ \A i \in 1..Len(out') : \/ i \in 1..Len(out) /\ out'[i] = out[i]
                                   \/ out'[i] = [line |-> n, null |-> TRUE]
    BY <1>1, <1>2, AnswerOnce
  <1>4. pipe' \in {pipe, n} /\ pipe' # n  BY <1>1, <1>2
  <1>5. Clients' /\ ReaderInv' /\ CallsInv' /\ SessionGoesOn' /\ spot'.line = n + 1
    BY <1>0, <1>3, <1>4, NextLine
  <1>6. OutInv'
    <2>1. \A k : Refused(k)' = Refused(k) /\ IsCall(k)' = IsCall(k) /\ Due(k)' = Due(k)
      BY <1>1, <1>2 DEF Refused, IsCall, Due
    <2>2. ASSUME NEW i \in 1..Len(out')
          PROVE  /\ out'[i].line \in 1..Len(sent') /\ out'[i].line < spot'.line
                 /\ (out'[i].null <=> Refused(out'[i].line))
                 /\ ~Refused(out'[i].line) => IsCall(out'[i].line) /\ Due(out'[i].line)
      <3>1. CASE i \in 1..Len(out) /\ out'[i] = out[i]
        BY <1>0, <1>1, <1>5, <3>1, SMTT(30) DEF LinesInv, OutInv
      <3>2. CASE out'[i] = [line |-> n, null |-> TRUE]
        BY <1>1, <1>5, <3>2 DEF Refused
      <3> QED  BY <1>3, <3>1, <3>2
    <2>3. ASSUME NEW k \in 1..Len(sent'), k < spot'.line, Refused(k)' \/ (IsCall(k)' /\ Due(k)')
          PROVE  Replied(k)'
      <3>1. CASE k = n  BY <1>3, <3>1
      <3>2. CASE k # n
        <4>1. k \in 1..Len(sent) /\ k < spot.line  BY <1>0, <1>1, <1>5, <2>3, <3>2
        <4> QED  BY <1>3, <2>1, <2>3, <4>1 DEF LinesInv, OutInv
      <3> QED  BY <3>1, <3>2
    <2>4. \A i \in 1..Len(out') :
              /\ out'[i].line \in 1..Len(sent') /\ out'[i].line < spot'.line
              /\ (out'[i].null <=> Refused(out'[i].line))
              /\ ~Refused(out'[i].line) => IsCall(out'[i].line) /\ Due(out'[i].line)
      BY <2>2
    <2> QED  BY <1>1, <1>2, <1>3, <2>3, <2>4 DEF OutInv, Refused, IsCall, Due
  <1>7. TrackInv'
    BY <1>0, <1>1, <1>2, <1>5 DEF LinesInv, TrackInv, Underway, Id
  <1> QED  BY <1>5, <1>6, <1>7 DEF LinesInv

(* A line is passed on: a request is tracked, and a cancellation hits the request it is for. *)
LEMMA PassStep ==
    ASSUME LinesInv, Agreed, flush, ~Refused(spot.line)
    PROVE  LinesInv'
  <1>0. PICK n : n = spot.line  OBVIOUS
  <1>1. /\ n \in 1..Len(sent) /\ n \in Nat /\ ~Replied(n) /\ pipe = 0 /\ ~Refused(n) /\ n \notin silenced
        /\ spot' = [line |-> n + 1, chunk |-> 0] /\ pass(n) /\ calls[n] = "none"
        /\ UNCHANGED <<sent, seen, closed, calls, open>>
    BY <1>0, AtLineEnd
  <1>2. /\ track(n) /\ pipe' = n /\ out' = out
        /\ silenced' = IF sent[n].kind = "cancel" /\ ~Replied(sent[n].of)
                       THEN silenced \cup {sent[n].of} ELSE silenced
    BY <1>1 DEF pass
  <1>3. \A k : (Told(k)' <=> Told(k)) /\ (Replied(k)' <=> Replied(k))
    BY <1>1, <1>2 DEF Told, Replied, AnsweredIn
  <1>4. seen' \in 0..Len(out')  BY <1>1, <1>2 DEF LinesInv, Clients
  <1>5. Clients' /\ ReaderInv' /\ CallsInv' /\ SessionGoesOn' /\ spot'.line = n + 1
    BY <1>0, <1>1, <1>2, <1>3, <1>4, NextLine
  <1>6. \A k : Refused(k)' = Refused(k) /\ IsCall(k)' = IsCall(k) /\ Id(k)' = Id(k) /\ sent'[k] = sent[k]
    BY <1>1 DEF Refused, IsCall, Id
  <1>7. ASSUME NEW k, k \in silenced', k \notin silenced
        PROVE  sent[n].kind = "cancel" /\ k = sent[n].of /\ ~Replied(k) /\ k \in 1..n - 1
    <2>1. sent[n].kind = "cancel" /\ k = sent[n].of /\ ~Replied(k)  BY <1>2, <1>7
    <2> QED  BY <1>1, <2>1 DEF LinesInv, Clients
  <1>8. silenced \subseteq silenced'  BY <1>2
  <1>9. \A k : Due(k)' => Due(k)  BY <1>1, <1>8 DEF Due
  <1>10. \A k : Due(k) /\ Replied(k) => Due(k)'  BY <1>1, <1>7 DEF Due
  <1>11. OutInv'
    <2>1. ASSUME NEW i \in 1..Len(out), NEW k, k = out[i].line
          PROVE  /\ k \in 1..Len(sent) /\ k < n + 1 /\ (out[i].null <=> Refused(k))
                 /\ ~Refused(k) => IsCall(k) /\ Due(k)'
      <3>1. Replied(k)  BY <2>1 DEF Replied, AnsweredIn
      <3>2. /\ k \in 1..Len(sent) /\ k < n /\ (out[i].null <=> Refused(k))
            /\ ~Refused(k) => IsCall(k) /\ Due(k)
        BY <1>0, <2>1 DEF LinesInv, OutInv
      <3>3. k < n + 1  BY <1>1, <3>2
      <3> QED  BY <1>10, <3>1, <3>2, <3>3
    <2>2. ASSUME NEW k \in 1..Len(sent), k < n + 1, Refused(k) \/ (IsCall(k) /\ Due(k)')
          PROVE  Replied(k)
      <3>1. CASE k = n
        BY <1>1, <1>9, <2>2, <3>1 DEF Due
      <3>2. CASE k # n
        <4>1. k < spot.line  BY <1>0, <1>1, <2>2, <3>2
        <4> QED  BY <1>9, <2>2, <4>1 DEF LinesInv, OutInv
      <3> QED  BY <3>1, <3>2
    <2>3. out \in Seq([line : Nat, null : BOOLEAN]) /\ \A i, j \in 1..Len(out) : out[i].line = out[j].line => i = j
      BY DEF LinesInv, OutInv
    <2>4. \A i \in 1..Len(out) :
              /\ out[i].line \in 1..Len(sent) /\ out[i].line < n + 1
              /\ (out[i].null <=> Refused(out[i].line))
              /\ ~Refused(out[i].line) =>
                     /\ IsCall(out[i].line)
                     /\ calls'[out[i].line] = "done"
                     /\ out[i].line \notin silenced' \/ sent'[out[i].line].kind = "batch"
      BY <2>1 DEF Due
    <2> QED  BY <1>1, <1>2, <1>3, <1>5, <1>6, <2>2, <2>3, <2>4 DEF OutInv, Due, Refused, IsCall
  <1>12. TrackInv'
    <2>1. \A k \in 1..Len(sent) : Underway(k)' <=> Underway(k) \/ (k = n /\ sent[n].kind = "call")
      BY <1>1, <1>2 DEF Underway
    <2>2. silenced' \subseteq {k \in 1..Len(sent') : k < spot'.line}
      <3>1. ASSUME NEW k \in silenced'  PROVE k \in 1..Len(sent) /\ k < n + 1
        <4>1. CASE k \in silenced  BY <1>0, <1>1, <4>1 DEF LinesInv, TrackInv
        <4>2. CASE k \notin silenced  BY <1>1, <1>7, <4>2
        <4> QED  BY <4>1, <4>2
      <3> QED  BY <1>1, <1>5, <3>1
    <2>3. CASE sent[n].kind = "call"
      <3>1. inflight' = inflight \cup {Id(n)} /\ cancelled' = cancelled /\ silenced' = silenced
        BY <1>2, <2>3 DEF track
      <3>2. Id(n) \notin inflight
        <4>1. ASSUME Id(n) \in inflight  PROVE FALSE
          <5>1. PICK m \in 1..Len(sent) : Underway(m) /\ Id(m) = Id(n)
            BY <4>1 DEF LinesInv, TrackInv
          <5>2. ~Told(m) /\ IsCall(m)  BY <5>1, NotReplied DEF Underway, IsCall
          <5>3. m \in 1..n - 1
            <6>1. calls[m] = "running"  BY <1>1, <5>1 DEF Underway
            <6>2. m \in 1..MaxLines  BY LinesAssumption DEF Legal, LinesInv, Clients
            <6> QED  BY <1>0, <1>1, <6>1, <6>2 DEF LinesInv, CallsInv
          <5> QED  BY <1>1, <2>3, <5>1, <5>2, <5>3 DEF LinesInv, Clients, IsCall
        <4> QED  BY <4>1
      <3>3. cancelled' \subseteq inflight'  BY <3>1 DEF LinesInv, TrackInv
      <3>4. ASSUME NEW i \in inflight'  PROVE \E k \in 1..Len(sent) : Underway(k)' /\ Id(k) = i
        BY <1>1, <2>1, <2>3, <3>1, <3>4 DEF LinesInv, TrackInv
      <3>5. ASSUME NEW k \in 1..Len(sent), Underway(k)'
            PROVE  Id(k) \in inflight' /\ (k \in silenced' <=> Id(k) \in cancelled')
        <4>1. CASE k = n  BY <1>1, <3>1, <3>2, <4>1 DEF LinesInv, TrackInv
        <4>2. CASE k # n  BY <2>1, <3>1, <3>5, <4>2 DEF LinesInv, TrackInv
        <4> QED  BY <4>1, <4>2
      <3> QED  BY <1>1, <1>6, <2>2, <3>3, <3>4, <3>5 DEF TrackInv
    <2>4. CASE sent[n].kind = "cancel"
      <3>0. PICK m : m = sent[n].of  OBVIOUS
      <3>1. /\ inflight' = inflight
            /\ cancelled' = IF Id(n) \in inflight THEN cancelled \cup {Id(n)} ELSE cancelled
            /\ silenced' = IF ~Replied(m) THEN silenced \cup {m} ELSE silenced
        BY <1>2, <2>4, <3>0 DEF track
      <3>2. /\ m \in 1..n - 1 /\ IsCall(m) /\ Id(n) = Id(m)
            /\ \A k \in m + 1..n - 1 : IsCall(k) => Id(k) # Id(n)
        BY <1>1, <2>4, <3>0 DEF LinesInv, Clients
      <3>3. \A k \in 1..Len(sent) : Underway(k)' <=> Underway(k)
        BY <2>1, <2>4
      <3>4. ASSUME NEW k \in 1..Len(sent), Underway(k), Id(k) = Id(n)
            PROVE  k = m /\ ~Replied(k)
        <4>1. ~Told(k) /\ ~Replied(k) /\ IsCall(k)  BY <3>4, NotReplied DEF Underway, IsCall
        <4>2. k \in 1..n - 1
          <5>1. calls[k] = "running"  BY <1>1, <3>4 DEF Underway
          <5>2. k \in 1..MaxLines  BY LinesAssumption DEF Legal, LinesInv, Clients
          <5> QED  BY <1>0, <1>1, <5>1, <5>2 DEF LinesInv, CallsInv
        <4>3. ~(k \in m + 1..n - 1)  BY <3>2, <3>4, <4>1
        <4>4. ~(k \in 1..m - 1)
          <5>1. m \in 1..Len(sent)  BY <1>1, <3>2 DEF LinesInv, Clients
          <5> QED  BY <3>2, <3>4, <4>1, <5>1 DEF LinesInv, Clients
        <4>5. k = m  BY <1>1, <3>2, <4>2, <4>3, <4>4
        <4> QED  BY <4>1, <4>5
      <3>5. cancelled' \subseteq inflight'  BY <3>1 DEF LinesInv, TrackInv
      <3>6. ASSUME NEW i \in inflight'  PROVE \E k \in 1..Len(sent) : Underway(k)' /\ Id(k) = i
        BY <3>1, <3>3, <3>6 DEF LinesInv, TrackInv
      <3>7. ASSUME NEW k \in 1..Len(sent), Underway(k)'
            PROVE  Id(k) \in inflight' /\ (k \in silenced' <=> Id(k) \in cancelled')
        <4>1. Underway(k) /\ Id(k) \in inflight /\ (k \in silenced <=> Id(k) \in cancelled)
          BY <3>3, <3>7 DEF LinesInv, TrackInv
        <4>2. CASE Id(k) = Id(n)  BY <3>1, <3>4, <4>1, <4>2
        <4>3. CASE Id(k) # Id(n)  BY <3>1, <3>2, <4>1, <4>3
        <4> QED  BY <4>2, <4>3
      <3> QED  BY <1>1, <1>6, <2>2, <3>5, <3>6, <3>7 DEF TrackInv
    <2>5. CASE sent[n].kind \notin {"call", "cancel"}
      <3>1. inflight' = inflight /\ cancelled' = cancelled /\ silenced' = silenced
        BY <1>2, <2>5 DEF track
      <3>2. \A k \in 1..Len(sent) : Underway(k)' <=> Underway(k)
        BY <2>1, <2>5
      <3> QED  BY <1>1, <1>6, <2>2, <3>1, <3>2 DEF LinesInv, TrackInv
    <2> QED  BY <2>3, <2>4, <2>5
  <1> QED  BY <1>5, <1>11, <1>12 DEF LinesInv

LEMMA flushStep ==
    ASSUME LinesInv, Agreed, flush
    PROVE  LinesInv'
  BY RefuseStep, PassStep

(* The SDK reads what it can decode, and a batch as its requests. *)
LEMMA acceptStep ==
    ASSUME LinesInv, Agreed, accept
    PROVE  LinesInv'
  <1>0. PICK n : n = pipe  OBVIOUS
  <1>1. /\ n # 0 /\ pipe' = 0 /\ n \in 1..Len(sent) /\ n \in 1..MaxLines /\ ~Refused(n) /\ calls[n] = "none"
        /\ n < spot.line /\ sent[n] \in LineRecords
        /\ UNCHANGED <<sent, seen, closed, spot, held, oversized, inflight, cancelled, out, silenced>>
    BY <1>0, LinesAssumption DEF accept, LinesInv, ReaderInv, Clients, Legal
  <1>2. calls' = (IF IsCall(n) THEN [calls EXCEPT ![n] = "running"] ELSE calls) /\ open' = open
    <2>1. ~(sent[n].kind = "odd" /\ Undecodable(sent[n].shape))  BY <1>1 DEF Refused
    <2>2. ~(sent[n].kind = "batch" /\ ~Batching)  BY <1>1, LineConstants DEF LineRecords
    <2> QED  BY <1>0, <2>1, <2>2 DEF accept
  <1>3. /\ calls' \in [1..MaxLines -> {"none", "running", "done"}]
        /\ \A k \in 1..MaxLines : k # n => calls'[k] = calls[k]
        /\ IsCall(n) => calls'[n] = "running"
        /\ ~IsCall(n) => calls' = calls
    BY <1>1, <1>2 DEF LinesInv, CallsInv
  <1>4. Clients'  BY <1>1 DEF LinesInv, Clients, Id, IsCall, Told
  <1>5. ReaderInv'  BY <1>1 DEF LinesInv, ReaderInv
  <1>6. CallsInv'  BY <1>1, <1>3 DEF LinesInv, CallsInv, IsCall, Refused
  <1>7. 1..Len(sent) \subseteq 1..MaxLines  BY LinesAssumption DEF LinesInv, Clients, Legal
  <1>8. \A k \in 1..Len(sent) : Due(k)' <=> Due(k)
    <2>1. ASSUME NEW k \in 1..Len(sent)  PROVE calls'[k] = "done" <=> calls[k] = "done"
      BY <1>1, <1>3, <1>7
    <2> QED  BY <1>1, <2>1 DEF Due
  <1>9. OutInv'
    <2>1. ASSUME NEW i \in 1..Len(out)
          PROVE  /\ out[i].line \in 1..Len(sent) /\ out[i].line < spot.line
                 /\ (out[i].null <=> Refused(out[i].line))
                 /\ ~Refused(out[i].line) =>
                        /\ IsCall(out[i].line) /\ calls'[out[i].line] = "done"
                        /\ out[i].line \notin silenced \/ sent[out[i].line].kind = "batch"
      <3>1. PICK k : k = out[i].line  OBVIOUS
      <3>2. /\ k \in 1..Len(sent) /\ k < spot.line /\ (out[i].null <=> Refused(k))
            /\ ~Refused(k) => IsCall(k) /\ Due(k)'
        BY <1>8, <3>1 DEF LinesInv, OutInv
      <3> QED  BY <1>1, <3>1, <3>2 DEF Due
    <2>2. ASSUME NEW k \in 1..Len(sent), k < spot.line, Refused(k) \/ (IsCall(k) /\ Due(k)')
          PROVE  Replied(k)
      BY <1>8, <2>2 DEF LinesInv, OutInv
    <2>3. out \in Seq([line : Nat, null : BOOLEAN]) /\ \A i, j \in 1..Len(out) : out[i].line = out[j].line => i = j
      BY DEF LinesInv, OutInv
    <2> QED  BY <1>1, <2>1, <2>2, <2>3 DEF OutInv, Due, Refused, IsCall, Replied, AnsweredIn
  <1>10. TrackInv'
    <2>1. \A k \in 1..Len(sent) : Underway(k)' <=> Underway(k)
      <3>1. ASSUME NEW k \in 1..Len(sent), sent[k].kind = "call"
            PROVE  calls'[k] = "running" <=> k = n \/ calls[k] = "running"
        <4>1. CASE k = n  BY <1>3, <3>1, <4>1 DEF IsCall
        <4>2. CASE k # n  BY <1>3, <1>7, <4>2
        <4> QED  BY <4>1, <4>2
      <3>2. \A k \in 1..Len(sent) : k # 0  OBVIOUS
      <3> QED  BY <1>0, <1>1, <3>1, <3>2 DEF Underway
    <2> QED  BY <1>1, <2>1 DEF LinesInv, TrackInv, Id
  <1> QED  BY <1>1, <1>2, <1>4, <1>5, <1>6, <1>9, <1>10 DEF LinesInv, SessionGoesOn

(* A response is dropped if its request was cancelled; its id is free again. *)
LEMMA WriteStep ==
    ASSUME LinesInv, Agreed, NEW n \in 1..MaxLines, Write(n)
    PROVE  LinesInv'
  <1>1. /\ calls[n] = "running" /\ calls' = [calls EXCEPT ![n] = "done"] /\ n < spot.line
        /\ n \in 1..Len(sent) /\ IsCall(n) /\ ~Refused(n)
        /\ UNCHANGED <<sent, seen, closed, spot, held, oversized, pipe, open, silenced>>
    BY DEF Write, reader, LinesInv, CallsInv, Clients
  <1>2. [Id(n) EXCEPT !.spelling = "plain"] = Id(n)
    <2>1. Id(n) \in Ids  BY <1>1 DEF LinesInv, Clients
    <2> QED  BY <2>1 DEF Ids
  <1> DEFINE drop == sent[n].kind = "call" /\ n \in silenced
  <1>3. sent[n].kind = "call" => Id(n) \in inflight /\ (n \in silenced <=> Id(n) \in cancelled)
    BY <1>1 DEF LinesInv, TrackInv, Underway
  <1>4. /\ inflight' = IF sent[n].kind = "call" THEN inflight \ {Id(n)} ELSE inflight
        /\ cancelled' = IF drop THEN cancelled \ {Id(n)} ELSE cancelled
        /\ out' = IF drop THEN out ELSE Append(out, [line |-> n, null |-> FALSE])
    BY <1>2, <1>3 DEF Write
  <1>5. /\ calls' \in [1..MaxLines -> {"none", "running", "done"}]
        /\ \A k \in 1..MaxLines : k # n => calls'[k] = calls[k]
        /\ calls'[n] = "done"
    BY <1>1 DEF LinesInv, CallsInv
  <1>6. ~Replied(n)  BY <1>1, NotReplied
  <1>7. /\ out' \in Seq([line : Nat, null : BOOLEAN]) /\ seen' \in 0..Len(out')
        /\ \A k : (Replied(k)' <=> (Replied(k) \/ (k = n /\ ~drop))) /\ (Told(k) => Told(k)')
        /\ \A i, j \in 1..Len(out') : out'[i].line = out'[j].line => i = j
        /\ \A i \in 1..Len(out') : \/ i \in 1..Len(out) /\ out'[i] = out[i]
                                   \/ ~drop /\ out'[i] = [line |-> n, null |-> FALSE]
    <2>1. CASE drop
      <3>1. out' = out  BY <1>4, <2>1
      <3>2. /\ out \in Seq([line : Nat, null : BOOLEAN]) /\ seen \in 0..Len(out)
            /\ \A i, j \in 1..Len(out) : out[i].line = out[j].line => i = j
        BY DEF LinesInv, OutInv, Clients
      <3> HIDE DEF drop
      <3>3. \A k : (Replied(k)' <=> Replied(k)) /\ (Told(k) => Told(k)')
        BY <1>1, <3>1 DEF Replied, AnsweredIn, Told
      <3> QED  BY <1>1, <2>1, <3>1, <3>2, <3>3
    <2>2. CASE ~drop
      <3>1. out' = Append(out, [line |-> n, null |-> FALSE])  BY <1>4, <2>2
      <3>2. FALSE \in BOOLEAN  OBVIOUS
      <3> HIDE DEF drop
      <3> QED  BY <1>1, <1>6, <2>2, <3>1, <3>2, AnswerOnce
    <2> QED  BY <2>1, <2>2
  <1>8. 1..Len(sent) \subseteq 1..MaxLines  BY LinesAssumption DEF LinesInv, Clients, Legal
  <1>9. ~drop <=> (n \notin silenced \/ sent[n].kind = "batch")  BY <1>1 DEF IsCall
  <1>10. Clients'
    <2>1. seen' \in 0..Len(out') /\ \A k \in 1..Len(sent) : Told(k) => Told(k)'  BY <1>7
    <2>2. \A k \in 1..Len(sent) : \A m \in 1..k - 1 : m \in 1..Len(sent)
      BY DEF LinesInv, Clients
    <2> QED  BY <1>1, <2>1, <2>2 DEF LinesInv, Clients, Id, IsCall
  <1>11. ReaderInv'
    <2>1. pipe # 0 => calls'[pipe] = "none"
      <3>1. pipe # 0 => pipe \in 1..MaxLines /\ calls[pipe] = "none"
        BY <1>8 DEF LinesInv, ReaderInv, Clients
      <3> QED  BY <1>1, <1>5, <3>1
    <2> QED  BY <1>1, <2>1 DEF LinesInv, ReaderInv, Refused
  <1>12. CallsInv'
    <2>1. ASSUME NEW k \in 1..MaxLines, calls'[k] # "none"
          PROVE  k < spot.line /\ k <= Len(sent) /\ IsCall(k) /\ ~Refused(k)
      <3>1. CASE k = n  BY <1>1, <3>1
      <3>2. CASE k # n  BY <1>5, <2>1, <3>2 DEF LinesInv, CallsInv
      <3> QED  BY <3>1, <3>2
    <2> QED  BY <1>1, <1>5, <2>1 DEF CallsInv, IsCall, Refused
  <1>13. \A k \in 1..Len(sent) : (Due(k)' <=> Due(k) \/ (k = n /\ ~drop)) /\ (k = n => ~Due(k))
    <2>1. ASSUME NEW k \in 1..Len(sent), k # n  PROVE calls'[k] = calls[k]  BY <1>5, <1>8, <2>1
    <2> QED  BY <1>1, <1>5, <1>9, <2>1 DEF Due
  <1> HIDE DEF drop
  <1>14. OutInv'
    <2>1. ASSUME NEW i \in 1..Len(out'), NEW k, k = out'[i].line
          PROVE  /\ k \in 1..Len(sent) /\ k < spot.line /\ (out'[i].null <=> Refused(k))
                 /\ ~Refused(k) => IsCall(k) /\ Due(k)'
      <3>1. CASE i \in 1..Len(out) /\ out'[i] = out[i]
        BY <1>13, <2>1, <3>1 DEF LinesInv, OutInv
      <3>2. CASE ~drop /\ out'[i] = [line |-> n, null |-> FALSE]
        BY <1>1, <1>13, <2>1, <3>2
      <3> QED  BY <1>7, <3>1, <3>2
    <2>2. ASSUME NEW k \in 1..Len(sent), k < spot.line, Refused(k) \/ (IsCall(k) /\ Due(k)')
          PROVE  Replied(k)'
      BY <1>1, <1>7, <1>13, <2>2 DEF LinesInv, OutInv
    <2>3. \A i \in 1..Len(out') :
              /\ out'[i].line \in 1..Len(sent) /\ out'[i].line < spot.line
              /\ (out'[i].null <=> Refused(out'[i].line))
              /\ ~Refused(out'[i].line) =>
                     /\ IsCall(out'[i].line) /\ calls'[out'[i].line] = "done"
                     /\ out'[i].line \notin silenced' \/ sent'[out'[i].line].kind = "batch"
      BY <2>1 DEF Due
    <2> QED  BY <1>1, <1>7, <2>2, <2>3 DEF OutInv, Due, Refused, IsCall
  <1>15. TrackInv'
    <2>1. \A k \in 1..Len(sent) : Underway(k)' <=> Underway(k) /\ k # n
      <3>1. \A k \in 1..Len(sent) : k # n => calls'[k] = calls[k]  BY <1>5, <1>8
      <3>2. pipe # n  BY <1>1 DEF LinesInv, ReaderInv
      <3> QED  BY <1>1, <1>5, <3>1, <3>2 DEF Underway
    <2>2. \A k \in 1..Len(sent) : Underway(k) /\ Id(k) = Id(n) => k = n
      BY <1>1, OneWithId DEF Underway, IsCall
    <2>3. CASE sent[n].kind = "call"
      <3>1. inflight' = inflight \ {Id(n)}  BY <1>4, <2>3
      <3>2. cancelled' = cancelled \ {Id(n)}  BY <1>3, <1>4, <2>3 DEF drop
      <3>3. cancelled' \subseteq inflight'  BY <3>1, <3>2 DEF LinesInv, TrackInv
      <3>4. ASSUME NEW i \in inflight'  PROVE \E k \in 1..Len(sent) : Underway(k)' /\ Id(k) = i
        BY <2>1, <3>1, <3>4 DEF LinesInv, TrackInv
      <3>5. ASSUME NEW k \in 1..Len(sent), Underway(k)'
            PROVE  Id(k) \in inflight' /\ (k \in silenced' <=> Id(k) \in cancelled')
        BY <1>1, <2>1, <2>2, <3>1, <3>2, <3>5 DEF LinesInv, TrackInv
      <3> QED  BY <1>1, <3>3, <3>4, <3>5 DEF LinesInv, TrackInv, Id
    <2>4. CASE sent[n].kind # "call"
      <3>1. inflight' = inflight /\ cancelled' = cancelled  BY <1>4, <2>4 DEF drop
      <3>2. \A k \in 1..Len(sent) : Underway(k)' <=> Underway(k)  BY <2>1, <2>4 DEF Underway
      <3> QED  BY <1>1, <3>1, <3>2 DEF LinesInv, TrackInv, Id
    <2> QED  BY <2>3, <2>4
  <1> QED  BY <1>1, <1>10, <1>11, <1>12, <1>14, <1>15 DEF LinesInv, SessionGoesOn

LEMMA endOfFileStep ==
    ASSUME LinesInv, endOfFile
    PROVE  LinesInv'
  BY LinesSame DEF endOfFile, SessionGoesOn

LEMMA LinesStart == Agreed /\ LinesInit => LinesInv
  <1> SUFFICES ASSUME Agreed, LinesInit  PROVE LinesInv
    OBVIOUS
  <1>1. /\ sent = <<>> /\ seen = 0 /\ spot = [line |-> 1, chunk |-> 0] /\ held = 0 /\ oversized = FALSE /\ pipe = 0
        /\ inflight = {} /\ cancelled = {} /\ calls = [n \in 1..MaxLines |-> "none"]
        /\ out = <<>> /\ open = TRUE /\ silenced = {}
    BY DEF LinesInit
  <1>2. Limit \in Nat \ {0} /\ MaxLines \in Nat  BY LineConstants
  <1>3. Clients  BY <1>1, <1>2 DEF Clients
  <1>4. ReaderInv
    <2>1. (spot.chunk > Limit) = FALSE  BY <1>1, <1>2
    <2>2. spot \in [line : Nat \ {0}, chunk : Nat] /\ spot.line = 1 /\ spot.chunk = 0 /\ Len(sent) = 0
      BY <1>1
    <2>3. oversized = (spot.chunk > Limit) /\ held = IF oversized THEN 0 ELSE spot.chunk
      BY <1>1, <2>1, <2>2
    <2>4. spot.line <= Len(sent) + 1 /\ ~(spot.line <= Len(sent)) /\ pipe \in Nat /\ pipe < spot.line /\ pipe = 0
      BY <1>1, <2>2
    <2> QED  BY <2>2, <2>3, <2>4 DEF ReaderInv
  <1>5. CallsInv  BY <1>1 DEF CallsInv
  <1>6. OutInv  BY <1>1 DEF OutInv
  <1>7. TrackInv  BY <1>1 DEF TrackInv
  <1> QED  BY <1>1, <1>3, <1>4, <1>5, <1>6, <1>7 DEF LinesInv, SessionGoesOn

LEMMA LinesStep == Agreed /\ LinesInv /\ [LinesNext]_lineVars => LinesInv'
  <1> SUFFICES ASSUME Agreed, LinesInv, [LinesNext]_lineVars  PROVE LinesInv'
    OBVIOUS
  <1>0. Limit \in Nat \ {0}  BY LineConstants
  <1>1. ASSUME NEW v \in Values, NEW s \in Spellings, NEW len \in {1, Limit + 1}, Request("call", len, v, s)
        PROVE  LinesInv'
    BY <1>0, <1>1, RequestStep
  <1>2. ASSUME NEW v \in Values, NEW s \in Spellings, Request("batch", 1, v, s)  PROVE LinesInv'
    BY <1>2, RequestStep
  <1>3. ASSUME NEW n \in 1..MaxLines, Cancel(n) \/ Write(n)  PROVE LinesInv'
    BY <1>3, CancelStep, WriteStep
  <1>4. ASSUME NEW len \in {1, Limit, Limit + 2}, NEW shape \in Shapes, Odd(len, shape)  PROVE LinesInv'
    <2>1. len \in Nat \ {0} /\ shape \in Shapes \cup {NoShape}  BY <1>0
    <2>2. Line("odd", len, NoId, 0, shape) /\ closed' \in {closed, TRUE}  BY <1>4 DEF Odd
    <2> QED  BY <2>1, <2>2, OddStep
  <1>5. ASSUME NEW cut \in BOOLEAN, Close(cut)  PROVE LinesInv'
    BY <1>5, CloseStep
  <1>6. CASE UNCHANGED lineVars
    <2>1. UNCHANGED <<sent, seen, reader, inflight, cancelled, calls, out, silenced>> /\ SessionGoesOn'
      BY <1>6 DEF lineVars, LinesInv, SessionGoesOn
    <2> QED  BY <2>1, LinesSame
  <1> QED  BY <1>1, <1>2, <1>3, <1>4, <1>5, <1>6, ReadLineStep, readSliceStep, flushStep, endOfFileStep,
              acceptStep DEF LinesNext

(* Every line is answered as the invariant says. *)
LEMMA LinesAnswered == Agreed /\ LinesInv => AnsweredOnce
  <1> SUFFICES ASSUME Agreed, LinesInv  PROVE AnsweredOnce
    OBVIOUS
  <1>0. Limit \in Nat \ {0} /\ Spellings = {"plain"} /\ Len(sent) \in Nat /\ Len(sent) <= MaxLines /\ MaxLines \in Nat
    BY LineConstants DEF LinesInv, Clients
  <1>1. LinesTypeOK
    <2>1. held \in 0..Limit
      <3>1. /\ spot.chunk \in Nat /\ oversized = (spot.chunk > Limit)
            /\ held = IF oversized THEN 0 ELSE spot.chunk
        BY DEF LinesInv, ReaderInv
      <3>2. CASE oversized  BY <1>0, <3>1, <3>2
      <3>3. CASE ~oversized
        <4>1. held = spot.chunk /\ ~(spot.chunk > Limit)  BY <3>1, <3>3
        <4> QED  BY <1>0, <3>1, <4>1
      <3> QED  BY <3>2, <3>3
    <2>2. inflight \subseteq [value : Values, spelling : Spellings]
      <3>1. ASSUME NEW i \in inflight  PROVE i \in Ids
        <4>1. PICK n \in 1..Len(sent) : Underway(n) /\ Id(n) = i  BY DEF LinesInv, TrackInv
        <4> QED  BY <4>1 DEF LinesInv, Clients, Underway, IsCall
      <3> QED  BY <1>0, <3>1 DEF Ids
    <2>3. pipe \in 0..Len(sent)  BY <1>0 DEF LinesInv, ReaderInv
    <2>4. seen \in 0..Len(out) /\ cancelled \subseteq inflight /\ silenced \subseteq 1..Len(sent)
      BY DEF LinesInv, Clients, TrackInv
    <2> QED  BY <2>1, <2>2, <2>3, <2>4 DEF LinesTypeOK
  <1>2. EachAnswered
    <2>1. ASSUME NEW n \in 1..Len(sent)
          PROVE  Times(n) = IF Replied(n) THEN 1 ELSE 0
      <3>1. CASE ~Replied(n)
        <4>1. {i \in 1..Len(out) : out[i].line = n} = {}  BY <3>1 DEF Replied, AnsweredIn
        <4> QED  BY <3>1, <4>1, FS_EmptySet DEF Times
      <3>2. CASE Replied(n)
        <4>1. PICK j \in 1..Len(out) : out[j].line = n  BY <3>2 DEF Replied, AnsweredIn
        <4>2. {i \in 1..Len(out) : out[i].line = n} = {j}  BY <4>1 DEF LinesInv, OutInv
        <4> QED  BY <3>2, <4>2, FS_Singleton DEF Times
      <3> QED  BY <3>1, <3>2
    <2>2. ASSUME NEW n \in 1..Len(sent)
          PROVE  Replied(n) => n < spot.line /\ (~Refused(n) => IsCall(n) /\ Due(n))
      <3>1. ASSUME Replied(n)  PROVE n < spot.line /\ (~Refused(n) => IsCall(n) /\ Due(n))
        <4>1. PICK j \in 1..Len(out) : out[j].line = n  BY <3>1 DEF Replied, AnsweredIn
        <4> QED  BY <4>1 DEF LinesInv, OutInv
      <3> QED  BY <3>1
    <2>3. ASSUME NEW n \in 1..Len(sent)
          PROVE  n < spot.line /\ (Refused(n) \/ (IsCall(n) /\ Due(n))) => Replied(n)
      BY DEF LinesInv, OutInv
    <2>4. ASSUME NEW n \in 1..Len(sent), calls[n] # "none"
          PROVE  n < spot.line /\ IsCall(n) /\ ~Refused(n)
      <3>1. n \in 1..MaxLines  BY <1>0
      <3> QED  BY <2>4, <3>1 DEF LinesInv, CallsInv
    <2>5. ASSUME NEW n \in 1..Len(sent)
          PROVE  /\ ~Refused(n) /\ ~IsCall(n) => Times(n) = 0
                 /\ Refused(n) => Times(n) = (IF Done(n) THEN 1 ELSE 0) /\ calls[n] = "none"
                 /\ IsCall(n) /\ ~Refused(n) => Times(n) <= 1 /\ (Times(n) = 1 <=> Due(n))
      <3>1. Times(n) = IF Replied(n) THEN 1 ELSE 0  BY <2>1
      <3>2. ~Refused(n) /\ ~IsCall(n) => ~Replied(n)  BY <2>2
      <3>3. Refused(n) => (Replied(n) <=> n < spot.line) /\ calls[n] = "none"  BY <2>2, <2>3, <2>4
      <3>4. IsCall(n) /\ ~Refused(n) => (Replied(n) <=> Due(n))
        <4>1. Due(n) => n < spot.line  BY <2>4 DEF Due
        <4> QED  BY <2>2, <2>3, <4>1
      <3> QED  BY <3>1, <3>2, <3>3, <3>4 DEF Done
    <2>6. \A i \in 1..Len(out) : out[i].null <=> Refused(out[i].line)
      BY DEF LinesInv, OutInv
    <2> QED  BY <2>5, <2>6 DEF EachAnswered, Due
  <1>3. TrackingDrains
    BY DEF LinesInv, TrackInv, TrackingDrains, Underway
  <1> QED  BY <1>1, <1>2, <1>3 DEF LinesInv, AnsweredOnce

(* The inductive invariant of the framing layer: what flush, track and Write know of lines and ids. *)
THEOREM LinesInvariant ==
    ASSUME Agreed
    PROVE  LinesSpec => []LinesInv
  BY LinesStart, LinesStep, PTL DEF LinesSpec

(* AnsweredOnce: filterInput, track and Write answer each line as they must, whatever the client
   sends, cancels and reuses, while the filter and the SDK agree on what a message is. *)
THEOREM AnsweredTheorem ==
    ASSUME Agreed
    PROVE  LinesSpec => []AnsweredOnce
  BY LinesInvariant, LinesAnswered, PTL

-----------------------------------------------------------------------------
(* Paging. *)

-----------------------------------------------------------------------------
(* Paging. *)

Bytes == Nat \X (Nat \ {0}) \X Widths

(* Complete characters: around each byte there are all bytes of its character. *)
Characters(s) ==
    \A i \in 1..Len(s) :
        /\ s[i][2] <= s[i][3] /\ s[i][2] <= i /\ i - s[i][2] + s[i][3] <= Len(s)
        /\ \A j \in 1..s[i][3] : s[i - s[i][2] + j] = <<s[i][1], j, s[i][3]>>

Texts == {s \in Seq(Bytes) : Characters(s)}
Boundary(s, n) == n = Len(s) \/ s[n + 1][2] = 1

LEMMA PagingConstants ==
    /\ \A w \in Widths : w \in Nat \ {0} /\ w <= MaxChunkBytes
    /\ MaxChunkBytes \in Nat /\ MaxOutputBytes \in Nat /\ MaxRunes \in Nat /\ PageSizes \subseteq Nat
  BY PagingAssumption

LEMMA TripleOf ==
    ASSUME NEW A, NEW B, NEW C, NEW x \in A \X B \X C
    PROVE  x[1] \in A /\ x[2] \in B /\ x[3] \in C /\ x = <<x[1], x[2], x[3]>>
  <1>1. x[1] \in A /\ x[2] \in B /\ x[3] \in C  OBVIOUS
  <1>2. x = <<x[1], x[2], x[3]>>  OBVIOUS
  <1> QED  BY <1>1, <1>2

LEMMA ByteOf ==
    ASSUME NEW s \in Seq(Bytes), NEW i \in 1..Len(s)
    PROVE  /\ s[i][1] \in Nat /\ s[i][2] \in Nat \ {0} /\ s[i][3] \in Nat \ {0} /\ s[i][3] \in Widths
           /\ s[i] = <<s[i][1], s[i][2], s[i][3]>> /\ s[i][3] <= MaxChunkBytes /\ i \in Nat
  <1>1. s[i] \in Bytes /\ i \in Nat  OBVIOUS
  <1>2. /\ s[i][1] \in Nat /\ s[i][2] \in Nat \ {0} /\ s[i][3] \in Widths
        /\ s[i] = <<s[i][1], s[i][2], s[i][3]>>
    <2>1. s[i] \in Nat \X (Nat \ {0}) \X Widths  BY <1>1 DEF Bytes
    <2> QED  BY <2>1, TripleOf
  <1>3. s[i][3] \in Nat \ {0} /\ s[i][3] <= MaxChunkBytes  BY <1>2, PagingConstants
  <1> QED  BY <1>1, <1>2, <1>3

(* The byte before a boundary ends a character. *)
LEMMA BeforeBoundary ==
    ASSUME NEW s \in Texts, NEW n \in 1..Len(s), Boundary(s, n)
    PROVE  s[n][2] = s[n][3]
  <1>1. s \in Seq(Bytes) /\ Characters(s) /\ Len(s) \in Nat  BY DEF Texts
  <1>2. /\ s[n][2] \in Nat \ {0} /\ s[n][3] \in Nat \ {0} /\ n \in Nat
        /\ s[n][2] <= s[n][3] /\ s[n][2] <= n /\ n - s[n][2] + s[n][3] <= Len(s)
        /\ \A j \in 1..s[n][3] : s[n - s[n][2] + j] = <<s[n][1], j, s[n][3]>>
    BY <1>1, ByteOf DEF Characters
  <1>3. SUFFICES ASSUME s[n][2] < s[n][3]  PROVE FALSE
    BY <1>2
  <1>4. n < Len(s)  BY <1>1, <1>2, <1>3
  <1>5. s[n + 1][2] = 1  BY <1>4 DEF Boundary
  <1>6. s[n][2] + 1 \in 1..s[n][3] /\ n - s[n][2] + (s[n][2] + 1) = n + 1  BY <1>2, <1>3
  <1>7. s[n + 1] = <<s[n][1], s[n][2] + 1, s[n][3]>>  BY <1>2, <1>6
  <1>8. s[n + 1][2] = s[n][2] + 1  BY <1>7
  <1> QED  BY <1>2, <1>5, <1>8

(* Cut at a boundary, a text is two. *)
LEMMA TextBefore ==
    ASSUME NEW s \in Texts, NEW n \in 0..Len(s), Boundary(s, n)
    PROVE  SubSeq(s, 1, n) \in Texts
  <1> DEFINE t == SubSeq(s, 1, n)
  <1>1. s \in Seq(Bytes) /\ Characters(s) /\ Len(s) \in Nat /\ n \in Nat  BY DEF Texts
  <1>2. t \in Seq(Bytes) /\ Len(t) = n /\ \A i \in 1..n : t[i] = s[i]
    BY <1>1, SubSeqProperties
  <1> HIDE DEF t
  <1>3. ASSUME NEW i \in 1..n
        PROVE  /\ t[i][2] <= t[i][3] /\ t[i][2] <= i /\ i - t[i][2] + t[i][3] <= n
               /\ \A j \in 1..t[i][3] : t[i - t[i][2] + j] = <<t[i][1], j, t[i][3]>>
    <2> DEFINE k == s[i][2]  w == s[i][3]
    <2>1. i \in 1..Len(s) /\ t[i] = s[i]  BY <1>1, <1>2
    <2>2. k \in Nat \ {0} /\ w \in Nat \ {0} /\ i \in Nat  BY <1>1, <2>1, ByteOf
    <2>3. /\ k <= w /\ k <= i /\ i - k + w <= Len(s)
          /\ \A j \in 1..w : s[i - k + j] = <<s[i][1], j, w>>
      BY <1>1, <2>1 DEF Characters
    <2> HIDE DEF k, w
    <2>4. i - k + w <= n
      <3>1. SUFFICES ASSUME n < i - k + w  PROVE FALSE
        BY <1>1, <2>2
      <3>2. n \in 1..Len(s)  BY <1>1, <2>2
      <3>3. s[n][2] = s[n][3]  BY <3>2, BeforeBoundary
      <3>4. n - i + k \in 1..w /\ i - k + (n - i + k) = n /\ n - i + k < w  BY <1>1, <2>2, <2>3, <3>1
      <3>5. s[n] = <<s[i][1], n - i + k, w>>  BY <2>3, <3>4
      <3>6. s[n][2] = n - i + k /\ s[n][3] = w  BY <3>5
      <3>7. w = n - i + k  BY <3>3, <3>6
      <3> QED  BY <1>1, <2>2, <3>1, <3>7
    <2>5. \A j \in 1..w : t[i - k + j] = <<s[i][1], j, w>>
      <3>1. \A j \in 1..w : i - k + j \in 1..n  BY <1>1, <2>2, <2>3, <2>4
      <3> QED  BY <1>2, <2>3, <3>1
    <2> QED  BY <2>1, <2>3, <2>4, <2>5 DEF k, w
  <1>4. Characters(t)  BY <1>2, <1>3 DEF Characters
  <1> QED  BY <1>2, <1>4 DEF Texts, t

LEMMA TextAfter ==
    ASSUME NEW s \in Texts, NEW n \in 0..Len(s), Boundary(s, n)
    PROVE  SubSeq(s, n + 1, Len(s)) \in Texts
  <1> DEFINE t == SubSeq(s, n + 1, Len(s))
  <1>1. s \in Seq(Bytes) /\ Characters(s) /\ Len(s) \in Nat /\ n \in Nat /\ n <= Len(s)  BY DEF Texts
  <1>2. t \in Seq(Bytes) /\ Len(t) = Len(s) - n /\ \A i \in 1..Len(s) - n : t[i] = s[n + i]
    <2>1. t \in Seq(Bytes) /\ Len(t) = (IF n + 1 <= Len(s) THEN Len(s) - (n + 1) + 1 ELSE 0)
      BY <1>1, SubSeqProperties
    <2>2. \A i \in 1..Len(s) - n : t[i] = s[(n + 1) + i - 1]
      BY <1>1, SubSeqProperties
    <2>3. \A i \in 1..Len(s) - n : (n + 1) + i - 1 = n + i  BY <1>1
    <2> QED  BY <1>1, <2>1, <2>2, <2>3
  <1> HIDE DEF t
  <1>3. ASSUME NEW i \in 1..Len(s) - n
        PROVE  /\ t[i][2] <= t[i][3] /\ t[i][2] <= i /\ i - t[i][2] + t[i][3] <= Len(s) - n
               /\ \A j \in 1..t[i][3] : t[i - t[i][2] + j] = <<t[i][1], j, t[i][3]>>
    <2> DEFINE p == n + i  k == s[p][2]  w == s[p][3]
    <2>1. p \in 1..Len(s) /\ t[i] = s[p] /\ i \in Nat /\ p = n + i  BY <1>1, <1>2
    <2> HIDE DEF p
    <2>2. k \in Nat \ {0} /\ w \in Nat \ {0} /\ p \in Nat  BY <1>1, <2>1, ByteOf
    <2>3. /\ k <= w /\ k <= p /\ p - k + w <= Len(s)
          /\ \A j \in 1..w : s[p - k + j] = <<s[p][1], j, w>>
      BY <1>1, <2>1 DEF Characters
    <2> HIDE DEF k, w
    <2>4. k <= i
      <3>1. SUFFICES ASSUME i < k  PROVE FALSE
        BY <2>1, <2>2
      <3>2. k \in Nat /\ w \in Nat /\ p \in Nat /\ n \in Nat /\ i \in Nat /\ Len(s) \in Nat /\ k <= w /\ k <= p
        BY <1>1, <2>1, <2>2, <2>3
      <3>3. k - i \in 1..w /\ p - k + (k - i) = n /\ n \in 1..Len(s) /\ n < Len(s)
        <4>1. k - i >= 1 /\ k - i <= w  BY <2>1, <3>1, <3>2
        <4>2. p - k + (k - i) = n  BY <2>1, <3>2
        <4>3. n >= 1  BY <2>1, <3>1, <3>2
        <4>4. n < Len(s)  BY <3>2
        <4> QED  BY <3>2, <4>1, <4>2, <4>3, <4>4
      <3>4. s[n] = <<s[p][1], k - i, w>>  BY <2>3, <3>3
      <3>5. s[n][2] = s[n][3]  BY <3>3, BeforeBoundary
      <3>6. k - i = w  BY <3>4, <3>5
      <3> QED  BY <2>1, <2>2, <2>3, <3>6
    <2>5. \A j \in 1..w : t[i - k + j] = <<s[p][1], j, w>>
      <3>1. \A j \in 1..w : i - k + j \in 1..Len(s) - n /\ n + (i - k + j) = p - k + j
        BY <1>1, <2>1, <2>2, <2>3, <2>4
      <3> QED  BY <1>2, <2>3, <3>1
    <2>6. i - k + w <= Len(s) - n  BY <1>1, <2>1, <2>2, <2>3
    <2> QED  BY <2>1, <2>3, <2>4, <2>5, <2>6 DEF k, w
  <1>4. Characters(t)  BY <1>2, <1>3 DEF Characters
  <1> QED  BY <1>2, <1>4 DEF Texts, t

(* Put together, two texts are one. *)
LEMMA TextsJoin ==
    ASSUME NEW s \in Texts, NEW t \in Texts
    PROVE  s \o t \in Texts
  <1> DEFINE u == s \o t  n == Len(s)  m == Len(t)
  <1>1. s \in Seq(Bytes) /\ t \in Seq(Bytes) /\ Characters(s) /\ Characters(t) /\ n \in Nat /\ m \in Nat
    BY DEF Texts
  <1>2. /\ u \in Seq(Bytes) /\ Len(u) = n + m
        /\ \A i \in 1..n : u[i] = s[i]
        /\ \A i \in 1..m : u[n + i] = t[i]
    <2>1. /\ u \in Seq(Bytes) /\ Len(u) = n + m
          /\ \A i \in 1..n + m : u[i] = IF i <= n THEN s[i] ELSE t[i - n]
      BY <1>1, ConcatProperties
    <2> HIDE DEF u, n, m
    <2>2. \A i \in 1..n : i \in 1..n + m /\ i <= n  BY <1>1
    <2>3. \A i \in 1..m : n + i \in 1..n + m /\ ~(n + i <= n) /\ (n + i) - n = i  BY <1>1
    <2> QED  BY <2>1, <2>2, <2>3
  <1>3. ASSUME NEW i \in 1..n
        PROVE  /\ u[i][2] <= u[i][3] /\ u[i][2] <= i /\ i - u[i][2] + u[i][3] <= n + m
               /\ \A j \in 1..u[i][3] : u[i - u[i][2] + j] = <<u[i][1], j, u[i][3]>>
    <2> DEFINE k == s[i][2]  w == s[i][3]
    <2>1. u[i] = s[i] /\ k \in Nat \ {0} /\ w \in Nat \ {0} /\ i \in Nat  BY <1>1, <1>2, ByteOf
    <2>2. k <= w /\ k <= i /\ i - k + w <= n /\ \A j \in 1..w : s[i - k + j] = <<s[i][1], j, w>>
      BY <1>1 DEF Characters
    <2> HIDE DEF k, w, u, n, m
    <2>3. \A j \in 1..w : i - k + j \in 1..n  BY <1>1, <2>1, <2>2
    <2>4. i - k + w <= n + m  BY <1>1, <2>1, <2>2
    <2> QED  BY <1>2, <2>1, <2>2, <2>3, <2>4 DEF k, w
  <1>4. ASSUME NEW h \in 1..m, NEW i, i = n + h
        PROVE  /\ u[i][2] <= u[i][3] /\ u[i][2] <= i /\ i - u[i][2] + u[i][3] <= n + m
               /\ \A j \in 1..u[i][3] : u[i - u[i][2] + j] = <<u[i][1], j, u[i][3]>>
    <2> DEFINE k == t[h][2]  w == t[h][3]
    <2>1. u[i] = t[h] /\ k \in Nat \ {0} /\ w \in Nat \ {0} /\ h \in Nat  BY <1>1, <1>2, <1>4, ByteOf
    <2>2. k <= w /\ k <= h /\ h - k + w <= m /\ \A j \in 1..w : t[h - k + j] = <<t[h][1], j, w>>
      BY <1>1 DEF Characters
    <2> HIDE DEF k, w, u, n, m
    <2>3. ASSUME NEW j \in 1..w  PROVE h - k + j \in 1..m /\ n + (h - k + j) = i - k + j
      <3>1. j \in Nat /\ 1 <= j /\ j <= w  BY <2>1
      <3>2. h - k + j \in 1..m  BY <1>1, <2>1, <2>2, <3>1
      <3>3. n + (h - k + j) = i - k + j  BY <1>1, <1>4, <2>1, <3>1
      <3> QED  BY <3>2, <3>3
    <2>4. i - k + w <= n + m /\ k <= i  BY <1>1, <1>4, <2>1, <2>2
    <2>5. \A j \in 1..w : u[i - k + j] = <<t[h][1], j, w>>  BY <1>2, <2>2, <2>3
    <2> QED  BY <2>1, <2>2, <2>4, <2>5 DEF k, w
  <1> HIDE DEF u, n, m
  <1>5. \A i \in 1..n + m : i \in 1..n \/ (i - n \in 1..m /\ i = n + (i - n))  BY <1>1
  <1>6. Characters(u)
    <2>1. ASSUME NEW i \in 1..n + m
          PROVE  /\ u[i][2] <= u[i][3] /\ u[i][2] <= i /\ i - u[i][2] + u[i][3] <= n + m
                 /\ \A j \in 1..u[i][3] : u[i - u[i][2] + j] = <<u[i][1], j, u[i][3]>>
      BY <1>3, <1>4, <1>5
    <2> QED  BY <1>2, <2>1 DEF Characters
  <1> QED  BY <1>2, <1>6 DEF Texts, u

LEMMA TextEnds ==
    ASSUME NEW s \in Texts, s # <<>>
    PROVE  Complete(s) /\ Len(s) \in Nat \ {0} /\ s[1][2] = 1
  <1>1. s \in Seq(Bytes) /\ Characters(s) /\ Len(s) \in Nat  BY DEF Texts
  <1>2. Len(s) # 0  BY <1>1
  <1>3. Len(s) \in 1..Len(s) /\ 1 \in 1..Len(s)  BY <1>1, <1>2
  <1>4. s[Len(s)][2] = s[Len(s)][3]  BY <1>3, BeforeBoundary DEF Boundary
  <1>5. s[1][2] \in Nat \ {0} /\ s[1][2] <= 1  BY <1>1, <1>3, ByteOf DEF Characters
  <1> QED  BY <1>1, <1>2, <1>4, <1>5 DEF Complete, Last

(* The first character ends within the limit of a chunk. *)
LEMMA FirstCharacter ==
    ASSUME NEW s \in Texts, s # <<>>
    PROVE  \E w \in 1..Len(s) : w <= MaxChunkBytes /\ Boundary(s, w)
  <1> DEFINE w == s[1][3]
  <1>1. s \in Seq(Bytes) /\ Characters(s) /\ Len(s) \in Nat \ {0} /\ s[1][2] = 1  BY TextEnds DEF Texts
  <1>2. 1 \in 1..Len(s)  BY <1>1
  <1>3. w \in Nat \ {0} /\ w <= MaxChunkBytes  BY <1>1, <1>2, ByteOf
  <1>4. /\ 1 - 1 + w <= Len(s)
        /\ \A j \in 1..w : s[1 - 1 + j] = <<s[1][1], j, w>>
    BY <1>1, <1>2 DEF Characters
  <1> HIDE DEF w
  <1>5. w \in 1..Len(s) /\ w \in 1..w /\ 1 - 1 + w = w  BY <1>1, <1>3, <1>4
  <1>6. s[w] = <<s[1][1], w, w>>  BY <1>4, <1>5
  <1>7. Boundary(s, w)
    <2>1. SUFFICES ASSUME w # Len(s)  PROVE s[w + 1][2] = 1
      BY DEF Boundary
    <2> DEFINE p == w + 1  k == s[p][2]  v == s[p][3]
    <2>2. p \in 1..Len(s) /\ p = w + 1  BY <1>1, <1>5, <2>1
    <2> HIDE DEF p
    <2>3. k \in Nat \ {0} /\ v \in Nat \ {0} /\ p \in Nat  BY <1>1, <2>2, ByteOf
    <2>4. k <= v /\ k <= p /\ \A j \in 1..v : s[p - k + j] = <<s[p][1], j, v>>
      BY <1>1, <2>2 DEF Characters
    <2> HIDE DEF k, v
    <2>5. SUFFICES ASSUME k # 1  PROVE FALSE
      BY <2>2 DEF k
    <2>6. k - 1 \in 1..v /\ p - k + (k - 1) = w  BY <1>3, <2>2, <2>3, <2>4, <2>5
    <2>7. s[w] = <<s[p][1], k - 1, v>>  BY <2>4, <2>6
    <2>8. k - 1 = w /\ v = w  BY <1>6, <2>7
    <2> QED  BY <1>3, <2>3, <2>4, <2>8
  <1> QED  BY <1>3, <1>5, <1>7

(* Sets of numbers have a least member; so what holds at the first place and from one place to
   the next holds everywhere. *)
LEMMA LeastNumber ==
    ASSUME NEW T \in SUBSET Nat, T # {}
    PROVE  \E x \in T : \A y \in T : x <= y
  <1> DEFINE R == OpToRel(<, Nat)
  <1>1. PICK x \in T : \A y \in T : <<y, x>> \notin R
    BY WFMin, NatLessThanWellFounded
  <1>2. ASSUME NEW y \in T, y < x  PROVE <<y, x>> \in R
    BY <1>2 DEF OpToRel
  <1> HIDE DEF R
  <1>3. \A y \in T : x <= y
    <2> TAKE y \in T
    <2>1. ~(y < x)  BY <1>1, <1>2, Zenon
    <2> QED  BY <2>1
  <1> QED  BY <1>3

LEMMA FromPlaceToPlace ==
    ASSUME NEW lo \in Nat, NEW hi \in Nat, NEW G, lo \in G,
           \A i \in lo..hi : i \in G /\ i < hi => i + 1 \in G
    PROVE  \A i \in lo..hi : i \in G
  <1> DEFINE T == {i \in Nat : i \in lo..hi /\ i \notin G}
  <1>1. SUFFICES ASSUME T # {}  PROVE FALSE
    OBVIOUS
  <1>2. PICK m \in T : \A y \in T : m <= y
    <2>1. T \in SUBSET Nat  OBVIOUS
    <2> HIDE DEF T
    <2> QED  BY <1>1, <2>1, LeastNumber
  <1>3. m \in Nat /\ m \in lo..hi /\ m \notin G  OBVIOUS
  <1>4. m # lo  BY <1>3
  <1>5. m - 1 \in lo..hi /\ m - 1 \in Nat /\ ~(m <= m - 1) /\ m - 1 < hi /\ (m - 1) + 1 = m  BY <1>3, <1>4
  <1>6. m - 1 \in G  BY <1>2, <1>5
  <1> HIDE DEF T
  <1> QED  BY <1>3, <1>5, <1>6

(* The largest number of a set of numbers that has one. *)
LEMMA Largest ==
    ASSUME NEW n \in Nat, NEW S, S \subseteq 0..n, S # {}
    PROVE  Max(S) \in S /\ \A y \in S : Max(S) >= y
  <1> DEFINE T == {k \in Nat : n - k \in S}
  <1>1. T # {}
    <2>1. PICK x : x \in S  OBVIOUS
    <2>2. x \in 0..n  BY <2>1
    <2>3. n - x \in Nat /\ n - (n - x) = x  BY <2>2
    <2>4. n - x \in T  BY <2>1, <2>3
    <2> QED  BY <2>4
  <1>2. PICK m \in T : \A k \in T : m <= k
    <2>1. T \in SUBSET Nat  OBVIOUS
    <2> HIDE DEF T
    <2> QED  BY <1>1, <2>1, LeastNumber
  <1>3. m \in Nat /\ n - m \in S  BY <1>2
  <1>4. \A y \in S : n - m >= y
    <2>1. ASSUME NEW y \in S  PROVE n - m >= y
      <3>1. y \in 0..n  OBVIOUS
      <3>2. n - y \in Nat /\ n - (n - y) = y  BY <3>1
      <3>3. n - y \in T  BY <3>2
      <3>4. m <= n - y  BY <1>2, <3>3
      <3> QED  BY <1>3, <3>1, <3>4
    <2> QED  BY <2>1
  <1>5. \E x \in S : \A y \in S : x >= y  BY <1>3, <1>4
  <1> QED  BY <1>5 DEF Max

(* Sequences put together: the recursion of FlattenSeq has a value at each place, found from the
   one before it. *)
Joined(s, g) == g = [i \in 1..Len(s) |-> IF i = 1 THEN s[i] ELSE g[i - 1] \o s[i]]

LEMMA JoinedExists ==
    ASSUME NEW S, NEW s \in Seq(S), s # <<>>
    PROVE  \E g : Joined(s, g)
  <1> DEFINE D == 1..Len(s)
             At(g, i) == IF i = 1 THEN s[i] ELSE g[i - 1] \o s[i]
             Right(g, m) == \A i \in D : i <= m => g[i] = At(g, i)
             G == {m \in D : \E g : Right(g, m)}
  <1>1. Len(s) \in Nat \ {0}  BY EmptySeq
  <1>2. 1 \in G
    <2> DEFINE g == [i \in D |-> s[1]]
    <2>1. ASSUME NEW i \in D, i <= 1  PROVE g[i] = At(g, i)
      <3>1. i = 1  BY <1>1, <2>1
      <3> QED  BY <3>1
    <2>2. Right(g, 1)  BY <2>1
    <2> QED  BY <1>1, <2>2
  <1>3. ASSUME NEW m \in D, m \in G, m < Len(s)  PROVE m + 1 \in G
    <2>1. PICK g : Right(g, m)  BY <1>3
    <2> DEFINE f == [i \in D |-> IF i <= m THEN g[i] ELSE At(g, i)]
    <2>2. ASSUME NEW i \in D, i <= m + 1  PROVE f[i] = At(f, i)
      <3>1. f[i] = At(g, i)  BY <2>1
      <3>2. CASE i = 1  BY <3>1, <3>2
      <3>3. CASE i # 1
        <4>1. i - 1 \in D /\ i - 1 <= m  BY <2>2, <3>3, <1>1
        <4>2. f[i - 1] = g[i - 1]  BY <4>1
        <4> QED  BY <3>1, <3>3, <4>2
      <3> QED  BY <3>2, <3>3
    <2>3. m + 1 \in D  BY <1>1, <1>3
    <2>4. Right(f, m + 1)  BY <2>2
    <2> QED  BY <2>3, <2>4
  <1>4. \A i \in 1..Len(s) : i \in G
    <2> HIDE DEF G
    <2> QED  BY <1>1, <1>2, <1>3, FromPlaceToPlace
  <1>5. PICK f : Right(f, Len(s))
    <2>1. Len(s) \in G
      <3> HIDE DEF G
      <3>1. Len(s) \in 1..Len(s)  BY <1>1
      <3> QED  BY <1>4, <3>1
    <2> QED  BY <2>1
  <1>6. \A i \in D : f[i] = At(f, i)  BY <1>5, <1>1
  <1> DEFINE e == [i \in D |-> f[i]]
  <1>7. ASSUME NEW i \in D  PROVE e[i] = At(e, i)
    <2>1. i # 1 => i - 1 \in D  BY <1>1
    <2> QED  BY <1>6, <2>1
  <1>8. e = [i \in D |-> At(e, i)]
    <2>1. e = [i \in D |-> e[i]]  OBVIOUS
    <2> HIDE DEF e, D, At
    <2> QED  BY <1>7, <2>1
  <1> QED  BY <1>8 DEF Joined

LEMMA JoinedHere ==
    ASSUME NEW S, NEW s \in Seq(S), s # <<>>
    PROVE  \E g : /\ FlattenSeq(s) = g[Len(s)] /\ g[1] = s[1]
                  /\ \A i \in 1..Len(s) : i # 1 => g[i] = g[i - 1] \o s[i]
  <1> DEFINE g == CHOOSE h : Joined(s, h)
  <1>1. Len(s) \in Nat \ {0}  BY EmptySeq
  <1>2. FlattenSeq(s) = g[Len(s)]  BY <1>1 DEF FlattenSeq, Joined
  <1>3. Joined(s, g)  BY JoinedExists
  <1> HIDE DEF g
  <1>4. \A i \in 1..Len(s) : g[i] = IF i = 1 THEN s[i] ELSE g[i - 1] \o s[i]  BY <1>3 DEF Joined
  <1>5. 1 \in 1..Len(s)  BY <1>1
  <1> QED  BY <1>2, <1>4, <1>5

LEMMA FlattenTexts ==
    ASSUME NEW s \in Seq(Texts)
    PROVE  FlattenSeq(s) \in Texts
  <1>1. CASE s = <<>>
    <2>1. <<>> \in Seq(Bytes) /\ Characters(<<>>)  BY DEF Characters
    <2> QED  BY <1>1, <2>1 DEF FlattenSeq, Texts
  <1>2. CASE s # <<>>
    <2>0. Len(s) \in Nat \ {0}  BY <1>2, EmptySeq
    <2>1. PICK g : /\ FlattenSeq(s) = g[Len(s)] /\ g[1] = s[1]
                   /\ \A i \in 1..Len(s) : i # 1 => g[i] = g[i - 1] \o s[i]
      BY <1>2, JoinedHere
    <2> DEFINE G == {i \in 1..Len(s) : g[i] \in Texts}
    <2>2. 1 \in G  BY <2>0, <2>1
    <2>3. ASSUME NEW i \in 1..Len(s), i \in G, i < Len(s)  PROVE i + 1 \in G
      <3>1. i + 1 \in 1..Len(s) /\ i + 1 # 1 /\ (i + 1) - 1 = i  BY <2>0, <2>3
      <3>2. g[i + 1] = g[i] \o s[i + 1]  BY <2>1, <3>1
      <3>3. g[i] \in Texts /\ s[i + 1] \in Texts  BY <2>3, <3>1
      <3>4. g[i + 1] \in Texts  BY <3>2, <3>3, TextsJoin
      <3> QED  BY <3>1, <3>4
    <2>4. \A i \in 1..Len(s) : i \in G
      <3> HIDE DEF G
      <3> QED  BY <2>0, <2>2, <2>3, FromPlaceToPlace
    <2>5. Len(s) \in 1..Len(s)  BY <2>0
    <2> QED  BY <2>1, <2>4, <2>5
  <1> QED  BY <1>1, <1>2

LEMMA FlattenAppend ==
    ASSUME NEW s \in Seq(Texts), NEW t \in Seq(Texts), Len(t) = Len(s) + 1, \A i \in 1..Len(s) : t[i] = s[i]
    PROVE  FlattenSeq(t) = FlattenSeq(s) \o t[Len(t)]
  <1>0. Len(s) \in Nat /\ Len(t) \in Nat \ {0} /\ t # <<>> /\ Len(t) \in 1..Len(t)  BY EmptySeq
  <1>1. PICK h : /\ FlattenSeq(t) = h[Len(t)] /\ h[1] = t[1]
                 /\ \A i \in 1..Len(t) : i # 1 => h[i] = h[i - 1] \o t[i]
    BY <1>0, JoinedHere
  <1>2. CASE s = <<>>
    <2>1. Len(t) = 1 /\ FlattenSeq(s) = <<>>  BY <1>2 DEF FlattenSeq
    <2>2. t[1] \in Seq(Bytes)  BY <1>0, <2>1 DEF Texts
    <2>3. <<>> \o t[1] = t[1]  BY <2>2, ConcatEmptySeq
    <2> QED  BY <1>1, <2>1, <2>3
  <1>3. CASE s # <<>>
    <2>0. Len(s) \in Nat \ {0}  BY <1>3, EmptySeq
    <2>1. PICK g : /\ FlattenSeq(s) = g[Len(s)] /\ g[1] = s[1]
                   /\ \A i \in 1..Len(s) : i # 1 => g[i] = g[i - 1] \o s[i]
      BY <1>3, JoinedHere
    <2> DEFINE G == {i \in 1..Len(s) : g[i] = h[i]}
    <2>2. 1 \in G  BY <1>1, <2>0, <2>1
    <2>3. ASSUME NEW i \in 1..Len(s), i \in G, i < Len(s)  PROVE i + 1 \in G
      <3>1. i + 1 \in 1..Len(s) /\ i + 1 \in 1..Len(t) /\ i + 1 # 1 /\ (i + 1) - 1 = i  BY <1>0, <2>0, <2>3
      <3>2. g[i + 1] = g[i] \o s[i + 1] /\ h[i + 1] = h[i] \o t[i + 1]  BY <1>1, <2>1, <3>1
      <3>3. g[i] = h[i] /\ s[i + 1] = t[i + 1]  BY <2>3, <3>1
      <3> QED  BY <3>1, <3>2, <3>3
    <2>4. \A i \in 1..Len(s) : i \in G
      <3> HIDE DEF G
      <3> QED  BY <2>0, <2>2, <2>3, FromPlaceToPlace
    <2>5. g[Len(s)] = h[Len(s)]  BY <2>0, <2>4
    <2>6. Len(t) # 1 /\ Len(t) - 1 = Len(s)  BY <2>0
    <2>7. h[Len(t)] = h[Len(s)] \o t[Len(t)]  BY <1>0, <1>1, <2>6
    <2> QED  BY <1>1, <2>1, <2>5, <2>7
  <1> QED  BY <1>2, <1>3

-----------------------------------------------------------------------------
(* The pages are the text up to where the agent is; text, rest and pages are complete characters,
   and nothing is left to commit once the job has ended. *)
Deltas == [i \in 1..Len(chunks) |-> chunks[i].text]
PageInv ==
    /\ state \in {"running", "succeeded", "failed"} /\ ended \in BOOLEAN
    /\ text \in Texts /\ rest \in Texts /\ Len(text) <= MaxOutputBytes
    /\ chunks \in Seq([offset : Nat, text : Texts])
    /\ \A i \in 1..Len(chunks) : Len(chunks[i].text) \in 1..MaxChunkBytes
    /\ text = FlattenSeq(Deltas)
    /\ Len(pages) <= Len(text) /\ pages = SubSeq(text, 1, Len(pages)) /\ pages \in Texts
    /\ state # "running" => rest = <<>>
    /\ ended => state # "running" /\ pages = text

LEMMA NoText == <<>> \in Texts
  BY DEF Texts, Characters

(* Where the code cuts, a character ends. *)
LEMMA CutsBetween ==
    ASSUME NEW s \in Texts, s # <<>>
    PROVE  Cut(s) \in 1..Len(s) /\ Cut(s) <= MaxChunkBytes /\ Boundary(s, Cut(s))
  <1>1. Len(s) \in Nat \ {0} /\ MaxChunkBytes \in Nat /\ s[1][2] = 1  BY TextEnds, PagingConstants
  <1>2. CASE Len(s) <= MaxChunkBytes
    BY <1>1, <1>2 DEF Cut, Boundary
  <1>3. CASE ~(Len(s) <= MaxChunkBytes)
    <2> DEFINE S == {0} \cup {i \in 0..MaxChunkBytes : RuneStart(s, i)}
    <2>1. Cut(s) = Max(S)  BY <1>3 DEF Cut, Back
    <2>2. S \subseteq 0..MaxChunkBytes /\ S # {}  BY <1>1
    <2>3. Max(S) \in S /\ \A y \in S : Max(S) >= y
      <3> HIDE DEF S
      <3> QED  BY <1>1, <2>2, Largest
    <2>4. PICK w \in 1..Len(s) : w <= MaxChunkBytes /\ Boundary(s, w)  BY FirstCharacter
    <2>5. w \in S
      <3>1. w # Len(s) /\ w \in 0..MaxChunkBytes  BY <1>1, <1>3, <2>4
      <3> QED  BY <2>4, <3>1 DEF Boundary, RuneStart
    <2>6. Max(S) >= w /\ Max(S) \in 0..MaxChunkBytes  BY <2>2, <2>3, <2>5
    <2>7. Max(S) \in 1..Len(s) /\ Max(S) # 0  BY <1>1, <1>3, <2>4, <2>6
    <2>8. RuneStart(s, Max(S))  BY <2>3, <2>7
    <2> HIDE DEF S
    <2> QED  BY <2>1, <2>6, <2>7, <2>8 DEF RuneStart, Boundary
  <1> QED  BY <1>2, <1>3

LEMMA PagesBetween ==
    ASSUME NEW s \in Texts, NEW offset \in 0..Len(s), Boundary(s, offset), NEW max \in Nat
    PROVE  pageOutput(s, offset, max) \in offset..Len(s) /\ Boundary(s, pageOutput(s, offset, max))
  <1>1. Len(s) \in Nat /\ offset \in Nat  BY DEF Texts
  <1>2. CASE offset + max >= Len(s)
    BY <1>1, <1>2 DEF pageOutput, Boundary
  <1>3. CASE ~(offset + max >= Len(s))
    <2> DEFINE S == {offset} \cup {i \in offset..offset + max : RuneStart(s, i)}
    <2>1. pageOutput(s, offset, max) = Max(S)  BY <1>3 DEF pageOutput, Back
    <2>2. S \subseteq 0..offset + max /\ S # {} /\ offset + max \in Nat  BY <1>1
    <2>3. Max(S) \in S
      <3> HIDE DEF S
      <3> QED  BY <2>2, Largest
    <2>4. Max(S) \in offset..offset + max  BY <1>1, <2>3
    <2>5. Max(S) \in offset..Len(s)  BY <1>1, <1>3, <2>4
    <2>6. CASE Max(S) = offset
      <3> HIDE DEF S
      <3> QED  BY <2>1, <2>5, <2>6
    <2>7. CASE Max(S) # offset
      <3>1. RuneStart(s, Max(S))  BY <2>3, <2>7
      <3> HIDE DEF S
      <3> QED  BY <2>1, <2>5, <3>1 DEF RuneStart, Boundary
    <2> QED  BY <2>6, <2>7
  <1> QED  BY <1>2, <1>3

(* The page's end is a boundary of the text, before and after it grew. *)
LEMMA PagesEndBetween ==
    ASSUME NEW s \in Texts, NEW n \in 0..Len(s), SubSeq(s, 1, n) \in Texts
    PROVE  Boundary(s, n)
  <1>1. s \in Seq(Bytes) /\ Characters(s) /\ Len(s) \in Nat /\ n \in Nat  BY DEF Texts
  <1> DEFINE t == SubSeq(s, 1, n)
  <1>2. Len(t) = n /\ \A i \in 1..n : t[i] = s[i]  BY <1>1, SubSeqProperties
  <1> HIDE DEF t
  <1>3. SUFFICES ASSUME n # Len(s)  PROVE s[n + 1][2] = 1
    BY DEF Boundary
  <1> DEFINE p == n + 1  k == s[p][2]  v == s[p][3]
  <1>4. p \in 1..Len(s) /\ p = n + 1  BY <1>1, <1>3
  <1> HIDE DEF p
  <1>5. k \in Nat \ {0} /\ v \in Nat \ {0} /\ p \in Nat  BY <1>1, <1>4, ByteOf
  <1>6. k <= v /\ k <= p /\ \A j \in 1..v : s[p - k + j] = <<s[p][1], j, v>>
    BY <1>1, <1>4 DEF Characters
  <1> HIDE DEF k, v
  <1>7. SUFFICES ASSUME k # 1  PROVE FALSE
    BY <1>4 DEF k
  <1>8. k - 1 \in 1..v /\ p - k + (k - 1) = n /\ n \in 1..n  BY <1>1, <1>4, <1>5, <1>6, <1>7
  <1>9. s[n] = <<s[p][1], k - 1, v>>  BY <1>6, <1>8
  <1>10. t[n][2] = k - 1 /\ t[n][3] = v  BY <1>2, <1>8, <1>9
  <1>11. t[n][2] = t[n][3]
    <2>1. t \in Texts  BY DEF t
    <2>2. n \in 1..Len(t) /\ Boundary(t, n)  BY <1>2, <1>8 DEF Boundary
    <2> QED  BY <2>1, <2>2, BeforeBoundary
  <1> QED  BY <1>5, <1>6, <1>10, <1>11

(* Two pieces of a text that meet are one. *)
LEMMA PiecesMeet ==
    ASSUME NEW S, NEW s \in Seq(S), NEW m \in 0..Len(s), NEW n \in m..Len(s)
    PROVE  SubSeq(s, 1, m) \o SubSeq(s, m + 1, n) = SubSeq(s, 1, n)
  <1> DEFINE a == SubSeq(s, 1, m)  b == SubSeq(s, m + 1, n)  c == SubSeq(s, 1, n)
  <1>0. Len(s) \in Nat /\ m \in Nat /\ n \in Nat /\ m <= n /\ n <= Len(s)  OBVIOUS
  <1>1. a \in Seq(S) /\ Len(a) = m /\ \A i \in 1..m : a[i] = s[i]  BY <1>0, SubSeqProperties
  <1>2. c \in Seq(S) /\ Len(c) = n /\ \A i \in 1..n : c[i] = s[i]  BY <1>0, SubSeqProperties
  <1>3. b \in Seq(S) /\ Len(b) = n - m /\ \A i \in 1..n - m : b[i] = s[m + i]
    <2>1. b \in Seq(S) /\ Len(b) = (IF m + 1 <= n THEN n - (m + 1) + 1 ELSE 0)
      BY <1>0, SubSeqProperties
    <2>2. \A i \in 1..n - m : b[i] = s[(m + 1) + i - 1]
      BY <1>0, SubSeqProperties
    <2>3. \A i \in 1..n - m : (m + 1) + i - 1 = m + i  BY <1>0
    <2> QED  BY <1>0, <2>1, <2>2, <2>3
  <1> HIDE DEF a, b, c
  <1>4. /\ a \o b \in Seq(S) /\ Len(a \o b) = m + (n - m)
        /\ \A i \in 1..m + (n - m) : (a \o b)[i] = IF i <= m THEN a[i] ELSE b[i - m]
    BY <1>1, <1>3, ConcatProperties
  <1>5. Len(a \o b) = n /\ \A i \in 1..n : (a \o b)[i] = c[i]
    <2>1. m + (n - m) = n  BY <1>0
    <2>2. ASSUME NEW i \in 1..n  PROVE (a \o b)[i] = c[i]
      <3>1. CASE i <= m  BY <1>0, <1>1, <1>2, <1>4, <2>1, <3>1
      <3>2. CASE ~(i <= m)
        <4>1. i - m \in 1..n - m /\ m + (i - m) = i  BY <1>0, <3>2
        <4> QED  BY <1>2, <1>3, <1>4, <2>1, <3>2, <4>1
      <3> QED  BY <3>1, <3>2
    <2> QED  BY <1>4, <2>1, <2>2
  <1>6. a \o b = c  BY <1>2, <1>4, <1>5, SeqEqual
  <1> QED  BY <1>6 DEF a, b, c

(* A longer text begins as the shorter one. *)
LEMMA PrefixStays ==
    ASSUME NEW S, NEW s \in Seq(S), NEW t \in Seq(S), NEW n \in 0..Len(s)
    PROVE  SubSeq(s \o t, 1, n) = SubSeq(s, 1, n) /\ n <= Len(s \o t)
  <1>1. s \o t \in Seq(S) /\ Len(s \o t) = Len(s) + Len(t)
        /\ \A i \in 1..Len(s) + Len(t) : (s \o t)[i] = IF i <= Len(s) THEN s[i] ELSE t[i - Len(s)]
    BY ConcatProperties
  <1>2. Len(s) \in Nat /\ Len(t) \in Nat /\ n <= Len(s) + Len(t) /\ n \in Nat  OBVIOUS
  <1> DEFINE a == SubSeq(s \o t, 1, n)  b == SubSeq(s, 1, n)
  <1>3. a \in Seq(S) /\ Len(a) = n /\ \A i \in 1..n : a[i] = (s \o t)[i]  BY <1>1, <1>2, SubSeqProperties
  <1>4. b \in Seq(S) /\ Len(b) = n /\ \A i \in 1..n : b[i] = s[i]  BY <1>2, SubSeqProperties
  <1> HIDE DEF a, b
  <1>5. \A i \in 1..n : a[i] = b[i]  BY <1>1, <1>2, <1>3, <1>4
  <1>6. a = b  BY <1>3, <1>4, <1>5, SeqEqual
  <1> QED  BY <1>1, <1>2, <1>6 DEF a, b

LEMMA CharacterIsText ==
    ASSUME NEW n \in Nat, NEW w \in Widths
    PROVE  [k \in 1..w |-> <<n, k, w>>] \in Texts
  <1> DEFINE s == [k \in 1..w |-> <<n, k, w>>]
  <1>1. w \in Nat \ {0}  BY PagingConstants
  <1>2. \A k \in 1..w : s[k] = <<n, k, w>> /\ s[k] \in Bytes  BY <1>1 DEF Bytes
  <1>3. s \in Seq(Bytes) /\ Len(s) = w  BY <1>1, <1>2
  <1> HIDE DEF s
  <1>4. ASSUME NEW i \in 1..w
        PROVE  /\ s[i][2] <= s[i][3] /\ s[i][2] <= i /\ i - s[i][2] + s[i][3] <= w
               /\ \A j \in 1..s[i][3] : s[i - s[i][2] + j] = <<s[i][1], j, s[i][3]>>
    <2>1. s[i][1] = n /\ s[i][2] = i /\ s[i][3] = w  BY <1>2
    <2>2. \A j \in 1..w : i - i + j = j  BY <1>1
    <2>3. i <= w /\ i <= i /\ i - i + w <= w  BY <1>1
    <2> QED  BY <1>2, <2>1, <2>2, <2>3
  <1> QED  BY <1>3, <1>4, ZenonT(40) DEF Texts, Characters, s

LEMMA EmitStep ==
    ASSUME PageInv, NEW ws \in BoundedSeq(Widths, MaxRunes), Emit(ws)
    PROVE  PageInv'
  <1>1. /\ state = "running" /\ rest' = Encode(Runes, ws)
        /\ UNCHANGED <<text, state, chunks, pages, ended>>
    BY DEF Emit
  <1>2. ws \in Seq(Widths)  BY PagingConstants DEF BoundedSeq, SeqOf
  <1>3. Runes \in Nat
    <2>1. CASE text = <<>>  BY <2>1 DEF Runes
    <2>2. CASE text # <<>>
      <3>1. text \in Seq(Bytes) /\ Len(text) \in 1..Len(text)  BY <2>2, EmptySeq DEF PageInv, Texts
      <3>2. text[Len(text)][1] \in Nat  BY <3>1, ByteOf
      <3> QED  BY <2>2, <3>2 DEF Runes, Last
    <2> QED  BY <2>1, <2>2
  <1> DEFINE cs == [i \in 1..Len(ws) |-> [k \in 1..ws[i] |-> <<Runes + i, k, ws[i]>>]]
  <1>4. \A i \in 1..Len(ws) : cs[i] \in Texts
    <2> TAKE i \in 1..Len(ws)
    <2>1. ws[i] \in Widths /\ Runes + i \in Nat  BY <1>2, <1>3
    <2> HIDE DEF cs
    <2>2. [k \in 1..ws[i] |-> <<Runes + i, k, ws[i]>>] \in Texts  BY <2>1, CharacterIsText
    <2> QED  BY <2>2 DEF cs
  <1>5. cs \in Seq(Texts)
    <2>1. Len(ws) \in Nat  BY <1>2
    <2>2. cs \in [1..Len(ws) -> Texts]
      <3>1. cs = [i \in 1..Len(ws) |-> cs[i]]  OBVIOUS
      <3> HIDE DEF cs
      <3> QED  BY <1>4, <3>1
    <2> HIDE DEF cs
    <2> QED  BY <2>1, <2>2
  <1>6. rest' \in Texts
    <2>1. rest' = FlattenSeq(cs)  BY <1>1 DEF Encode
    <2> HIDE DEF cs
    <2> QED  BY <1>5, <2>1, FlattenTexts
  <1> QED  BY <1>1, <1>6 DEF PageInv, Deltas

LEMMA TextsOf ==
    ASSUME NEW s \in Seq([offset : Nat, text : Texts])
    PROVE  LET D == [i \in 1..Len(s) |-> s[i].text]
           IN  D \in Seq(Texts) /\ Len(D) = Len(s) /\ \A i \in 1..Len(s) : D[i] = s[i].text
  <1> DEFINE D == [i \in 1..Len(s) |-> s[i].text]
  <1>1. \A i \in 1..Len(s) : s[i].text \in Texts
    <2> TAKE i \in 1..Len(s)
    <2>1. s[i] \in [offset : Nat, text : Texts]  BY ElementOfSeq
    <2> QED  BY <2>1
  <1>2. Len(s) \in Nat  OBVIOUS
  <1>3. D = [i \in 1..Len(s) |-> D[i]] /\ \A i \in 1..Len(s) : D[i] = s[i].text  OBVIOUS
  <1> HIDE DEF D
  <1>4. D \in [1..Len(s) -> Texts]  BY <1>1, <1>3
  <1>5. D \in Seq(Texts) /\ Len(D) = Len(s)  BY <1>2, <1>4
  <1> QED  BY <1>3, <1>5 DEF D

LEMMA CommitStep ==
    ASSUME PageInv, Commit
    PROVE  PageInv'
  <1> DEFINE n == Cut(rest)  d == SubSeq(rest, 1, n)
  <1>1. /\ state = "running" /\ rest # <<>> /\ ~ended /\ UNCHANGED <<pages, ended>>
    BY DEF Commit, PageInv
  <1>2. rest \in Texts /\ text \in Texts /\ text \in Seq(Bytes) /\ Len(text) \in Nat /\ rest \in Seq(Bytes)
        /\ Len(rest) \in Nat
    BY DEF PageInv, Texts
  <1>3. n \in 1..Len(rest) /\ n \in 0..Len(rest) /\ n <= MaxChunkBytes /\ Boundary(rest, n)
    BY <1>1, <1>2, CutsBetween
  <1>4. CASE Len(text) + n > MaxOutputBytes
    <2>1. state' = "failed" /\ rest' = <<>> /\ UNCHANGED <<text, chunks>>  BY <1>4 DEF Commit
    <2> QED  BY <1>1, <2>1, NoText DEF PageInv, Deltas
  <1>5. CASE ~(Len(text) + n > MaxOutputBytes)
    <2>1. /\ text' = text \o d /\ chunks' = Append(chunks, [offset |-> Len(text), text |-> d])
          /\ rest' = SubSeq(rest, n + 1, Len(rest)) /\ state' = state
      BY <1>5 DEF Commit
    <2>2. d \in Texts /\ Len(d) = n
      BY <1>2, <1>3, TextBefore, SubSeqProperties
    <2>3. rest' \in Texts  BY <1>2, <1>3, <2>1, TextAfter
    <2> HIDE DEF n, d
    <2>4. d \in Seq(Bytes)  BY <2>2 DEF Texts
    <2>5. text' \in Texts /\ Len(text') = Len(text) + n
      BY <1>2, <2>1, <2>2, <2>4, TextsJoin, ConcatProperties
    <2>6. Len(text') <= MaxOutputBytes  BY <1>2, <1>3, <1>5, <2>5, PagingConstants
    <2>7. /\ chunks \in Seq([offset : Nat, text : Texts])
          /\ [offset |-> Len(text), text |-> d] \in [offset : Nat, text : Texts]
      BY <1>2, <2>2 DEF PageInv
    <2>8. /\ chunks' \in Seq([offset : Nat, text : Texts]) /\ Len(chunks') = Len(chunks) + 1
          /\ \A i \in 1..Len(chunks) : chunks'[i] = chunks[i]
          /\ chunks'[Len(chunks) + 1].text = d
      BY <2>1, <2>7, Appended
    <2>9. Len(chunks) \in Nat  BY <2>7
    <2>10. \A i \in 1..Len(chunks') : i \in 1..Len(chunks) \/ i = Len(chunks) + 1  BY <2>8, <2>9
    <2>11. \A i \in 1..Len(chunks') : Len(chunks'[i].text) \in 1..MaxChunkBytes
      <3>1. Len(d) \in 1..MaxChunkBytes  BY <1>2, <1>3, <2>2, PagingConstants
      <3> QED  BY <2>8, <2>10, <3>1 DEF PageInv
    <2>12. text' = FlattenSeq(Deltas')
      <3> DEFINE D == Deltas  E == [i \in 1..Len(chunks') |-> chunks'[i].text]
      <3>1. D \in Seq(Texts) /\ Len(D) = Len(chunks) /\ \A i \in 1..Len(chunks) : D[i] = chunks[i].text
        <4>1. D = [i \in 1..Len(chunks) |-> chunks[i].text]  BY DEF Deltas
        <4> HIDE DEF D
        <4> QED  BY <2>7, <4>1, TextsOf
      <3>2. E \in Seq(Texts) /\ Len(E) = Len(chunks') /\ \A i \in 1..Len(chunks') : E[i] = chunks'[i].text
        BY <2>8, TextsOf
      <3>3. \A i \in 1..Len(D) : E[i] = D[i]
        <4>1. \A i \in 1..Len(chunks) : i \in 1..Len(chunks')  BY <2>8, <2>9
        <4> HIDE DEF D, E
        <4> QED  BY <2>8, <3>1, <3>2, <4>1
      <3>4. E[Len(E)] = d
        <4>1. Len(chunks') \in 1..Len(chunks')  BY <2>8, <2>9
        <4> HIDE DEF D, E
        <4> QED  BY <2>8, <3>2, <4>1
      <3>5. Len(E) = Len(D) + 1  BY <2>8, <3>1, <3>2
      <3> HIDE DEF D, E
      <3>6. FlattenSeq(E) = FlattenSeq(D) \o d  BY <3>1, <3>2, <3>3, <3>4, <3>5, FlattenAppend
      <3>7. text = FlattenSeq(D)  BY DEF PageInv, D
      <3>8. text' = FlattenSeq(E)  BY <2>1, <3>6, <3>7
      <3> QED  BY <3>8 DEF E, Deltas
    <2>13. Len(pages) <= Len(text') /\ pages = SubSeq(text', 1, Len(pages))
      <3>1. Len(pages) \in 0..Len(text) /\ pages = SubSeq(text, 1, Len(pages))
        BY <1>2 DEF PageInv, Texts
      <3> QED  BY <1>2, <2>1, <2>4, <3>1, PrefixStays
    <2> QED  BY <1>1, <2>1, <2>3, <2>5, <2>6, <2>8, <2>11, <2>12, <2>13 DEF PageInv
  <1> QED  BY <1>4, <1>5

LEMMA FinishStep ==
    ASSUME PageInv, Finish
    PROVE  PageInv'
  BY DEF PageInv, Finish, Deltas

LEMMA ReadPageStep ==
    ASSUME PageInv, NEW max \in PageSizes, ReadPage(max)
    PROVE  PageInv'
  <1> DEFINE offset == Len(pages)  upTo == pageOutput(text, offset, max)
  <1>1. /\ pages' = pages \o SubSeq(text, offset + 1, upTo) /\ ended' = endOfOutput(upTo)
        /\ UNCHANGED <<text, state, rest, chunks>>
    BY DEF ReadPage
  <1>2. text \in Texts /\ text \in Seq(Bytes) /\ Len(text) \in Nat /\ offset \in 0..Len(text) /\ max \in Nat
    BY PagingConstants DEF PageInv, Texts
  <1>3. pages = SubSeq(text, 1, offset) /\ pages \in Texts  BY DEF PageInv
  <1> HIDE DEF offset
  <1>4. Boundary(text, offset)  BY <1>2, <1>3, PagesEndBetween
  <1>5. upTo \in offset..Len(text) /\ Boundary(text, upTo)  BY <1>2, <1>4, PagesBetween
  <1> HIDE DEF upTo
  <1>6. upTo \in 0..Len(text)  BY <1>2, <1>5
  <1>7. pages' = SubSeq(text, 1, upTo)  BY <1>1, <1>2, <1>3, <1>5, PiecesMeet
  <1>8. pages' \in Texts  BY <1>2, <1>5, <1>6, <1>7, TextBefore
  <1>9. Len(pages') = upTo  BY <1>2, <1>6, <1>7, SubSeqProperties
  <1>10. upTo = Len(text) => pages' = text
    <2>1. SubSeq(text, 1, Len(text)) = text  BY <1>2
    <2> QED  BY <1>7, <2>1
  <1>11. ended' \in BOOLEAN /\ (ended' => state # "running" /\ pages' = text)
    BY <1>1, <1>10 DEF endOfOutput
  <1>12. Len(pages') <= Len(text) /\ pages' = SubSeq(text, 1, Len(pages'))  BY <1>2, <1>6, <1>7, <1>9
  <1> QED  BY <1>1, <1>8, <1>11, <1>12 DEF PageInv, Deltas

LEMMA PageStart == PageInit => PageInv
  <1> SUFFICES ASSUME PageInit  PROVE PageInv
    OBVIOUS
  <1>1. text = <<>> /\ state = "running" /\ rest = <<>> /\ chunks = <<>> /\ pages = <<>> /\ ended = FALSE
    BY DEF PageInit
  <1>2. Len(text) <= MaxOutputBytes /\ Len(text) = 0 /\ Len(chunks) = 0 /\ Len(pages) = 0
    BY <1>1, PagingConstants
  <1>3. Deltas = <<>>  BY <1>1 DEF Deltas
  <1>4. FlattenSeq(Deltas) = <<>>  BY <1>3 DEF FlattenSeq
  <1>5. SubSeq(text, 1, 0) = <<>>  BY <1>1
  <1>6. chunks \in Seq([offset : Nat, text : Texts])  BY <1>1
  <1>7. \A i \in 1..Len(chunks) : Len(chunks[i].text) \in 1..MaxChunkBytes
    <2>1. 1..Len(chunks) = {}  BY <1>2
    <2> QED  BY <2>1
  <1>8. Len(pages) <= Len(text) /\ pages = SubSeq(text, 1, Len(pages))  BY <1>1, <1>2, <1>5
  <1>9. text = FlattenSeq(Deltas)  BY <1>1, <1>4
  <1>10. text \in Texts /\ rest \in Texts /\ pages \in Texts  BY <1>1, NoText
  <1> QED  BY <1>1, <1>2, <1>6, <1>7, <1>8, <1>9, <1>10 DEF PageInv

LEMMA PageStep == PageInv /\ [PageNext]_pageVars => PageInv'
  <1> SUFFICES ASSUME PageInv, [PageNext]_pageVars  PROVE PageInv'
    OBVIOUS
  <1>1. CASE UNCHANGED pageVars  BY <1>1 DEF pageVars, PageInv, Deltas
  <1> QED  BY <1>1, EmitStep, CommitStep, FinishStep, ReadPageStep DEF PageNext

LEMMA PagesRight == PageInv => PagesAreText
  <1> SUFFICES ASSUME PageInv  PROVE PagesAreText
    OBVIOUS
  <1>1. PageTypeOK
    <2>1. ASSUME NEW c \in Range(chunks)  PROVE Complete(c.text) /\ Len(c.text) \in 1..MaxChunkBytes
      <3>1. PICK i \in 1..Len(chunks) : c = chunks[i]  BY DEF Range, PageInv
      <3>2. chunks \in Seq([offset : Nat, text : Texts]) /\ Len(chunks[i].text) \in 1..MaxChunkBytes
        BY DEF PageInv
      <3>3. c.text \in Texts /\ Len(c.text) \in 1..MaxChunkBytes
        <4>1. chunks[i] \in [offset : Nat, text : Texts]  BY <3>2, ElementOfSeq
        <4> QED  BY <3>1, <3>2, <4>1
      <3>4. Complete(c.text)
        <4>1. CASE c.text = <<>>  BY <4>1 DEF Complete
        <4>2. CASE c.text # <<>>  BY <3>3, <4>2, TextEnds
        <4> QED  BY <4>1, <4>2
      <3> QED  BY <3>3, <3>4
    <2> QED  BY <2>1 DEF PageTypeOK, PageInv, Deltas
  <1>2. IsPrefix(pages, text)
    <2>1. pages \in Seq(Bytes)  BY DEF PageInv, Texts
    <2>2. SubSeq(pages, 1, Len(pages)) = pages  BY <2>1
    <2> QED  BY <2>2 DEF IsPrefix, PageInv
  <1>3. Complete(pages)
    <2>1. CASE pages = <<>>  BY <2>1 DEF Complete
    <2>2. CASE pages # <<>>  BY <2>2, TextEnds DEF PageInv
    <2> QED  BY <2>1, <2>2
  <1>4. EndIsEnd  BY DEF PageInv, EndIsEnd
  <1> QED  BY <1>1, <1>2, <1>3, <1>4 DEF PagesAreText

(* The inductive invariant of the output: text, rest and pages are made of complete characters. *)
THEOREM PageInvariant == PageSpec => []PageInv
  BY PageStart, PageStep, PTL DEF PageSpec

(* PagesAreText: emit's chunks and read_job_output's pages cut no character, and the pages put
   together are the text, all of it once the agent was told so. *)
THEOREM PagesTheorem == PageSpec => []PagesAreText
  BY PageInvariant, PagesRight, PTL
==============================================================================
