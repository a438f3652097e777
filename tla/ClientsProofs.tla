---------------------------- MODULE ClientsProofs ----------------------------
(***************************************************************************)
(* Proofs about the clients of the service.                                *)
(*                                                                         *)
(* Delivery, for any number of intents, attempts, stores and faults: an    *)
(* intent makes one job however often it is sent, and what its client      *)
(* holds of it is true for good.  Neither is inductive.  One job in a      *)
(* store needs that the receipts of a worker that goes on are those of its *)
(* disk (ReceiptInv); one store, and a rejection for good, need that of    *)
(* the attempts on the way only the one the page waits for can still make  *)
(* a job, and that it was sent to the store the command was made for       *)
(* (PageInv).                                                              *)
(*                                                                         *)
(* Projection, for any logs, stores, loops and breaks: the page shows the  *)
(* state of its cursor and never goes back.  That a frame is applied to    *)
(* the state it was made for needs what every frame on the way holds of    *)
(* the store it came from (FrameOf), that a snapshot only comes first and  *)
(* only to a loop that asked for one (LoopOf), and that outputs are of     *)
(* accepted jobs (LogOf); that a late snapshot takes nothing back, that no *)
(* loop but the current one moves the cursor (Ahead).                      *)
(***************************************************************************)
EXTENDS Delivery, Projection, FiniteSetTheorems, TLAPS

-----------------------------------------------------------------------------
(* Delivery. *)

Places == {"free", "sent", "asked", "answered"}
Answers == {"none", "job", "unreachable", "unavailable", "unreadable", "storage_failure"}
           \cup {"queue_full", "limit_exceeded", "conflict"}

Attempt == [at : Places, key : 0..Keys, answer : Answers, ctx : BOOLEAN]

(* The types, complete. *)
TypeInv ==
    /\ TypeOK
    /\ role \in {"page", "agent"}
    /\ pending \in [key : 0..Keys, store : Stores \cup {NoStore}]
    /\ attempt \in [Attempts -> Attempt]
    /\ jobs \in [Stores -> [1..Keys -> Nat]]
    /\ up \in BOOLEAN /\ fatal \in BOOLEAN /\ live \in BOOLEAN
    /\ \A a \in Attempts : attempt[a].at # "free" => attempt[a].key \in 1..Keys

(* The receipts in memory are those of the jobs on the disk, which no failed commit leaves behind
   in a worker that goes on; so an intent has one job in a store.  What was answered is true. *)
Flying(a) == attempt[a].at \in {"sent", "asked"}
Told(a) == attempt[a].at = "answered" /\ attempt[a].answer = "job"
Has(js, k) == \E s \in Stores : js[s][k] > 0
ReceiptInv ==
    /\ \A a \in Attempts : Flying(a) => up
    /\ up => \A k \in known : jobs[store][k] > 0
    /\ up /\ ~fatal => \A k \in 1..Keys : jobs[store][k] > 0 => k \in known
    /\ \A s \in Stores, k \in 1..Keys : jobs[s][k] <= 1
    /\ \A a \in Attempts : Told(a) => Has(jobs, attempt[a].key)
    /\ \A k \in 1..Keys : settled[k] = "accepted" => Has(jobs, k)

(* The page's attempts that may still make a job are of its saved command, on that command's store:
   no other store has a job of it, and once it is rejected none has and none will. *)
Lacks(js, k) == \A s \in Stores : js[s][k] = 0
PageInv ==
    /\ view # NoStore => view = store
    /\ pending.key # 0 => pending.store \in Stores
    /\ \A s \in Stores, k \in 1..Keys : jobs[s][k] > 0 => k <= last /\ (k = pending.key => s = pending.store)
    /\ \A s, t \in Stores, k \in 1..Keys : jobs[s][k] > 0 /\ jobs[t][k] > 0 => s = t
    /\ \A a \in Attempts : Flying(a) /\ attempt[a].ctx => a = busy /\ pending.store = store
    /\ busy # NoAttempt /\ attempt[busy].at = "answered" /\ Rejects(attempt[busy].answer) => Lacks(jobs, pending.key)
    /\ \A k \in 1..Keys : settled[k] # "open" => k <= last /\ k # pending.key
    /\ \A k \in 1..Keys : settled[k] = "rejected" => Lacks(jobs, k)

Inv == TypeInv /\ ReceiptInv /\ (PagePrompt => PageInv)

-----------------------------------------------------------------------------
(* What the actions do to the attempts. *)

LEMMA Constants ==
    /\ Keys \in Nat /\ MaxFaults \in Nat /\ MaxChanges \in Nat
    /\ NoStore \notin Stores /\ NoAttempt \notin Attempts
BY DeliveryAssumption

LEMMA SendEffect ==
    ASSUME TypeInv, NEW a \in Attempts, NEW key \in 1..Keys, Send(a, key)
    PROVE  /\ attempt' \in [Attempts -> Attempt]
           /\ busy = NoAttempt /\ busy' = a /\ attempt[a].at = "free"
           /\ attempt'[a].key = key
           /\ \/ attempt'[a].at = "sent" /\ up
              \/ attempt'[a].at = "answered" /\ attempt'[a].answer = "unreachable"
           /\ \A b \in Attempts \ {a} : attempt'[b] = attempt[b]
<1>1. key \in 0..Keys BY Constants
<1>2. /\ [Free EXCEPT !.at = "sent", !.key = key] \in Attempt
      /\ [Free EXCEPT !.at = "answered", !.key = key, !.answer = "unreachable"] \in Attempt
  BY <1>1 DEF Free, Attempt, Places, Answers
<1>3. attempt \in [Attempts -> Attempt] BY DEF TypeInv
<1> QED BY <1>1, <1>2, <1>3 DEF Send, Free

LEMMA PutEffect ==
    ASSUME TypeInv, NEW a \in Attempts, NEW place \in Places, NEW answer \in Answers,
           Put(a, place, answer)
    PROVE  /\ attempt' \in [Attempts -> Attempt]
           /\ attempt'[a].at = place /\ attempt'[a].answer = answer
           /\ attempt'[a].key = attempt[a].key /\ attempt'[a].ctx = attempt[a].ctx
           /\ \A b \in Attempts \ {a} : attempt'[b] = attempt[b]
<1>1. attempt \in [Attempts -> Attempt] BY DEF TypeInv
<1> QED BY <1>1 DEF Put, Attempt

LEMMA CtxEffect ==
    ASSUME TypeInv, NEW a \in Attempts, NEW c \in BOOLEAN,
           attempt' = [attempt EXCEPT ![a].ctx = c]
    PROVE  /\ attempt' \in [Attempts -> Attempt] /\ attempt'[a].ctx = c
           /\ \A b \in Attempts : /\ attempt'[b].at = attempt[b].at /\ attempt'[b].key = attempt[b].key
                                  /\ attempt'[b].answer = attempt[b].answer
           /\ \A b \in Attempts \ {a} : attempt'[b] = attempt[b]
<1>1. attempt \in [Attempts -> Attempt] BY DEF TypeInv
<1> QED BY <1>1 DEF Attempt

LEMMA FreeEffect ==
    ASSUME TypeInv, NEW a \in Attempts, attempt' = [attempt EXCEPT ![a] = Free]
    PROVE  /\ attempt' \in [Attempts -> Attempt] /\ attempt'[a].at = "free"
           /\ \A b \in Attempts \ {a} : attempt'[b] = attempt[b]
<1>1. attempt \in [Attempts -> Attempt] /\ Free \in Attempt
  BY Constants DEF TypeInv, Free, Attempt, Places, Answers
<1> QED BY <1>1 DEF Free

LEMMA DownEffect ==
    ASSUME TypeInv, Down
    PROVE  /\ attempt' \in [Attempts -> Attempt]
           /\ \A b \in Attempts :
                 /\ attempt'[b].key = attempt[b].key
                 /\ attempt'[b].at \notin {"sent", "asked"}
                 /\ \/ attempt'[b] = attempt[b]
                    \/ /\ attempt[b].at \in {"sent", "asked"} /\ attempt'[b].at = "answered"
                       /\ attempt'[b].answer = "unreachable"
<1>1. attempt \in [Attempts -> Attempt] BY DEF TypeInv
<1>2. \A b \in Attempts :
        [attempt[b] EXCEPT !.at = "answered", !.answer = "unreachable"] \in Attempt
  BY <1>1 DEF Attempt, Places, Answers
<1>3. \A b \in Attempts :
         attempt'[b] = IF attempt[b].at \in {"sent", "asked"}
                       THEN [attempt[b] EXCEPT !.at = "answered", !.answer = "unreachable"]
                       ELSE attempt[b]
  BY DEF Down
<1>4. attempt' \in [Attempts -> Attempt] BY <1>1, <1>2 DEF Down
<1> QED BY <1>1, <1>3, <1>4 DEF Attempt

(* What execute answers. *)
LEMMA AnswerCases ==
    ASSUME TypeInv, NEW a \in Attempts
    PROVE  /\ answerOf(a) \in Answers
           /\ answerOf(a) = "none" => attempt[a].ctx /\ ~fatal /\ attempt[a].key \notin known
           /\ answerOf(a) = "job" => attempt[a].key \in known
           /\ Rejects(answerOf(a)) => attempt[a].ctx /\ ~fatal /\ attempt[a].key \notin known
<1>1. gate \in {"open", "queue_full", "limit_exceeded", "conflict"} BY DEF TypeInv, TypeOK, Gates
<1>2. \/ answerOf(a) = "unavailable" \/ answerOf(a) = "storage_failure"
      \/ answerOf(a) = "job" /\ attempt[a].key \in known
      \/ /\ attempt[a].ctx /\ ~fatal /\ attempt[a].key \notin known
         /\ answerOf(a) = "none" \/ (answerOf(a) = gate /\ gate # "open")
  <2>1. attempt[a].ctx \in BOOLEAN /\ fatal \in BOOLEAN BY DEF TypeInv, Attempt
  <2>2. CASE ~attempt[a].ctx BY <2>1, <2>2 DEF answerOf
  <2>3. CASE attempt[a].ctx /\ fatal BY <2>1, <2>3 DEF answerOf
  <2>4. CASE attempt[a].ctx /\ ~fatal /\ attempt[a].key \in known BY <2>1, <2>4 DEF answerOf
  <2>5. CASE attempt[a].ctx /\ ~fatal /\ attempt[a].key \notin known /\ gate # "open"
    BY <2>1, <2>5 DEF answerOf
  <2>6. CASE attempt[a].ctx /\ ~fatal /\ attempt[a].key \notin known /\ gate = "open"
    BY <2>1, <2>6 DEF answerOf
  <2> QED BY <2>1, <2>2, <2>3, <2>4, <2>5, <2>6
<1> QED BY <1>1, <1>2 DEF Answers, Rejects

LEMMA MadeEffect ==
    ASSUME TypeInv, NEW key \in 1..Keys, Made(key)
    PROVE  /\ jobs' \in [Stores -> [1..Keys -> Nat]]
           /\ jobs'[store][key] = jobs[store][key] + 1
           /\ \A s \in Stores, k \in 1..Keys :
                 s # store \/ k # key => jobs'[s][k] = jobs[s][k]
<1>1. jobs \in [Stores -> [1..Keys -> Nat]] /\ store \in Stores BY DEF TypeInv, TypeOK
<1>2. jobs[store] \in [1..Keys -> Nat] BY <1>1
<1>3. jobs'[store] = [jobs[store] EXCEPT ![key] = @ + 1] BY <1>1 DEF Made
<1>4. \A s \in Stores \ {store} : jobs'[s] = jobs[s] BY <1>1 DEF Made
<1>4a. jobs[store][key] \in Nat BY <1>2
<1>5. jobs[store][key] + 1 \in Nat BY <1>4a
<1>6. [jobs[store] EXCEPT ![key] = @ + 1] \in [1..Keys -> Nat] BY <1>2, <1>5
<1> QED BY <1>1, <1>2, <1>3, <1>4, <1>6 DEF Made

-----------------------------------------------------------------------------
(* The types. *)

(* What is typed of the attempts, and what of the rest. *)
AttemptType ==
    /\ attempt \in [Attempts -> Attempt]
    /\ \A a \in Attempts : attempt[a].at # "free" => attempt[a].key \in 1..Keys
    /\ busy \in Attempts \cup {NoAttempt}
    /\ busy # NoAttempt => attempt[busy].at # "free" /\ attempt[busy].key = pending.key
ClientType ==
    /\ role \in {"page", "agent"}
    /\ pending \in [key : 0..Keys, store : Stores \cup {NoStore}]
    /\ pending.key \in 0..last /\ last \in 0..Keys
    /\ view \in Stores \cup {NoStore}
    /\ settled \in [1..Keys -> {"open", "accepted", "rejected"}]
ServerType ==
    /\ store \in Stores /\ known \subseteq 1..Keys /\ gate \in Gates
    /\ jobs \in [Stores -> [1..Keys -> Nat]]
    /\ up \in BOOLEAN /\ fatal \in BOOLEAN /\ live \in BOOLEAN
    /\ faults \in 0..MaxFaults /\ changes \in 0..MaxChanges

LEMMA Typing == TypeInv <=> AttemptType /\ ClientType /\ ServerType
<1>1. ASSUME TypeInv PROVE AttemptType /\ ClientType /\ ServerType
  BY <1>1 DEF TypeInv, TypeOK, AttemptType, ClientType, ServerType
<1>2. ASSUME AttemptType, ClientType, ServerType PROVE TypeInv
  <2>1. \A a \in Attempts : attempt[a].at \in {"free", "sent", "asked", "answered"}
    BY <1>2 DEF AttemptType, Attempt, Places
  <2>2. pending.store \in Stores \cup {NoStore} BY <1>2 DEF ClientType
  <2> QED BY <1>2, <2>1, <2>2 DEF TypeInv, TypeOK, AttemptType, ClientType, ServerType
<1> QED BY <1>1, <1>2

(* A fault is counted. *)
LEMMA Faults ==
    ASSUME faults \in 0..MaxFaults, Fault \/ UNCHANGED faults
    PROVE  faults' \in 0..MaxFaults
BY Constants DEF Fault

LEMMA SendTyped ==
    ASSUME TypeInv, NEW a \in Attempts, NEW key \in 1..Keys, Send(a, key), pending'.key = key
    PROVE  AttemptType'
<1>1. AttemptType BY Typing
<1> QED BY <1>1, SendEffect, Constants DEF AttemptType

LEMMA ClientStepTyped ==
    ASSUME TypeInv, NEW a \in Attempts,
           create(a) \/ sendSaved(a) \/ resend(a) \/ giveUp(a) \/ receive(a)
    PROVE  AttemptType' /\ ClientType' /\ ServerType'
<1>0. AttemptType /\ ClientType /\ ServerType BY Typing
<1>1. CASE create(a)
  <2>1. last' = last + 1 /\ last + 1 \in 1..Keys /\ Send(a, last + 1)
        /\ pending' = [key |-> last + 1, store |-> view]
    BY <1>0, <1>1, Constants DEF create, ClientType
  <2>2. AttemptType' BY <2>1, SendTyped
  <2>3. ClientType'
    <3>1. last' \in 0..Keys /\ pending'.key \in 0..last' BY <1>0, <2>1, Constants DEF ClientType
    <3>2. pending' \in [key : 0..Keys, store : Stores \cup {NoStore}]
      BY <1>0, <2>1, <3>1, Constants DEF ClientType
    <3> QED BY <1>0, <1>1, <3>1, <3>2 DEF create, ClientType
  <2>4. ServerType' BY <1>0, <1>1 DEF create, ServerType, server, Gates
  <2> QED BY <2>2, <2>3, <2>4
<1>2. CASE sendSaved(a) \/ resend(a)
  <2>1. pending.key # 0 /\ Send(a, pending.key) /\ UNCHANGED <<role, pending, last, view, settled, server, live, faults>>
    BY <1>2 DEF sendSaved, resend
  <2>2. pending.key \in 1..Keys BY <1>0, <2>1, Constants DEF ClientType
  <2>3. AttemptType' BY <2>1, <2>2, SendTyped
  <2>4. ClientType' BY <1>0, <2>1 DEF ClientType
  <2>5. ServerType' BY <1>0, <2>1 DEF ServerType, server, Gates
  <2> QED BY <2>3, <2>4, <2>5
<1>3. CASE giveUp(a)
  <2>1. /\ busy' = NoAttempt /\ Fault /\ attempt' = [attempt EXCEPT ![a].ctx = ~Prompt]
        /\ UNCHANGED <<role, pending, last, view, settled, server, live>>
    BY <1>3 DEF giveUp
  <2>2. (~Prompt) \in BOOLEAN BY DEF Prompt
  <2>3. /\ attempt' \in [Attempts -> Attempt]
        /\ \A b \in Attempts : attempt'[b].at = attempt[b].at /\ attempt'[b].key = attempt[b].key
    BY <2>1, <2>2, CtxEffect
  <2>4. AttemptType' BY <1>0, <2>1, <2>3 DEF AttemptType
  <2>5. ClientType' BY <1>0, <2>1 DEF ClientType
  <2>6. faults' \in 0..MaxFaults BY <1>0, <2>1, Faults DEF ServerType
  <2>7. ServerType' BY <1>0, <2>1, <2>6 DEF ServerType, server, Gates
  <2> QED BY <2>4, <2>5, <2>7
<1>4. CASE receive(a)
  <2>1. /\ busy = a /\ attempt[a].at = "answered"
        /\ busy' = NoAttempt /\ attempt' = [attempt EXCEPT ![a] = Free]
        /\ pending' \in {pending, Nothing}
        /\ settled' = settled \/ \E w \in {"accepted", "rejected"} :
                                     settled' = [settled EXCEPT ![attempt[a].key] = w]
        /\ UNCHANGED <<role, last, view, server, live, faults>>
    BY <1>4 DEF receive
  <2>2. AttemptType' BY <1>0, <2>1, FreeEffect DEF AttemptType
  <2>3. Nothing \in [key : 0..Keys, store : Stores \cup {NoStore}] /\ Nothing.key \in 0..last
    BY <1>0, Constants DEF Nothing, ClientType
  <2>4. settled' \in [1..Keys -> {"open", "accepted", "rejected"}]
    BY <1>0, <2>1 DEF ClientType
  <2>5. ClientType' BY <1>0, <2>1, <2>3, <2>4 DEF ClientType
  <2>6. ServerType' BY <1>0, <2>1 DEF ServerType, server, Gates
  <2> QED BY <2>2, <2>5, <2>6
<1> QED BY <1>1, <1>2, <1>3, <1>4

(* An attempt that moves on at the server. *)
LEMMA PutTyped ==
    ASSUME TypeInv, NEW a \in Attempts, NEW place \in {"asked", "answered"}, NEW answer \in Answers,
           attempt[a].at # "free", Put(a, place, answer), UNCHANGED client
    PROVE  AttemptType' /\ ClientType'
<1>0. AttemptType /\ ClientType BY Typing
<1>1. place \in Places /\ place # "free" BY DEF Places
<1>2. AttemptType' BY <1>0, <1>1, PutEffect DEF AttemptType, client
<1>3. ClientType' BY <1>0 DEF ClientType, client
<1> QED BY <1>2, <1>3

LEMMA ServerStepTyped ==
    ASSUME TypeInv, NEW a \in Attempts, arrive(a) \/ spoil(a) \/ notice(a) \/ discard(a) \/ execute(a)
    PROVE  AttemptType' /\ ClientType' /\ ServerType'
<1>0. AttemptType /\ ClientType /\ ServerType BY Typing
<1>1. CASE arrive(a)
  <2>1. Put(a, "asked", "none") /\ attempt[a].at # "free" /\ UNCHANGED <<client, server, live, faults>>
    BY <1>1 DEF arrive
  <2>2. AttemptType' /\ ClientType' BY <2>1, PutTyped DEF Answers
  <2>3. ServerType' BY <1>0, <2>1 DEF ServerType, server, client, Gates
  <2> QED BY <2>2, <2>3
<1>2. CASE spoil(a)
  <2>1. /\ Fault /\ attempt[a].at # "free" /\ UNCHANGED <<client, server, live>>
        /\ \E answer \in {"unreachable", "unavailable", "unreadable"} : Put(a, "answered", answer)
    BY <1>2 DEF spoil
  <2>2. AttemptType' /\ ClientType' BY <2>1, PutTyped DEF Answers
  <2>3. faults' \in 0..MaxFaults BY <1>0, <2>1, Faults DEF ServerType
  <2>4. ServerType' BY <1>0, <2>1, <2>3 DEF ServerType, server, client, Gates
  <2> QED BY <2>2, <2>4
<1>3. CASE notice(a)
  <2>1. attempt' = [attempt EXCEPT ![a].ctx = FALSE] /\ UNCHANGED <<client, server, live, faults>>
    BY <1>3 DEF notice
  <2>2. AttemptType' BY <1>0, <2>1, CtxEffect DEF AttemptType, client
  <2>3. ClientType' /\ ServerType' BY <1>0, <2>1 DEF ClientType, ServerType, server, client, Gates
  <2> QED BY <2>2, <2>3
<1>4. CASE discard(a)
  <2>1. busy # a /\ attempt' = [attempt EXCEPT ![a] = Free] /\ UNCHANGED <<client, server, live, faults>>
    BY <1>4 DEF discard
  <2>2. AttemptType' BY <1>0, <2>1, FreeEffect DEF AttemptType, client
  <2>3. ClientType' /\ ServerType' BY <1>0, <2>1 DEF ClientType, ServerType, server, client, Gates
  <2> QED BY <2>2, <2>3
<1>5. CASE execute(a)
  <2>1. /\ attempt[a].at # "free" /\ UNCHANGED <<client, up, store, gate, changes, live>>
        /\ \E answer \in {"job", "unavailable", "storage_failure", answerOf(a)} : Put(a, "answered", answer)
    BY <1>5 DEF execute
  <2>2. AttemptType' /\ ClientType' BY <2>1, PutTyped, AnswerCases DEF Answers
  <2>3. attempt[a].key \in 1..Keys BY <1>0, <2>1 DEF AttemptType
  <2>4. /\ Made(attempt[a].key) \/ UNCHANGED jobs
        /\ known' = known \/ known' = known \cup {attempt[a].key}
        /\ fatal' \in {fatal, TRUE}
        /\ Fault \/ UNCHANGED faults
    BY <1>5 DEF execute
  <2>5. jobs' \in [Stores -> [1..Keys -> Nat]] BY <1>0, <2>3, <2>4, MadeEffect DEF ServerType
  <2>6. faults' \in 0..MaxFaults BY <1>0, <2>4, Faults DEF ServerType
  <2>7. ServerType' BY <1>0, <2>1, <2>3, <2>4, <2>5, <2>6 DEF ServerType, client, Gates
  <2> QED BY <2>2, <2>7
<1> QED BY <1>1, <1>2, <1>3, <1>4, <1>5

LEMMA ProcessStepTyped ==
    ASSUME TypeInv,
           \/ synchronize \/ disconnect \/ crash \/ stop
           \/ \E s \in Stores : restart(s)
           \/ \E g \in Gates : change(g)
    PROVE  AttemptType' /\ ClientType' /\ ServerType'
<1>0. AttemptType /\ ClientType /\ ServerType BY Typing
<1>1. CASE synchronize \/ disconnect
  <2>1. /\ view' \in Stores \cup {NoStore} /\ live' \in BOOLEAN
        /\ UNCHANGED <<role, pending, last, busy, settled, server, attempt, faults>>
    BY <1>0, <1>1 DEF synchronize, disconnect, ServerType
  <2>2. AttemptType' BY <1>0, <2>1 DEF AttemptType
  <2>3. ClientType' BY <1>0, <2>1 DEF ClientType
  <2>4. ServerType' BY <1>0, <2>1 DEF ServerType, server, Gates
  <2> QED BY <2>2, <2>3, <2>4
<1>2. CASE crash \/ stop
  <2>1. Down /\ (Fault \/ UNCHANGED faults) BY <1>2 DEF crash, stop
  <2>2. up' = FALSE /\ live' = FALSE /\ UNCHANGED <<client, store, known, jobs, fatal, gate, changes>>
    BY <2>1 DEF Down
  <2>3. AttemptType'
    <3>1. /\ attempt' \in [Attempts -> Attempt]
          /\ \A b \in Attempts :
                /\ attempt'[b].key = attempt[b].key
                /\ \/ attempt'[b].at = attempt[b].at
                   \/ attempt[b].at # "free" /\ attempt'[b].at # "free"
      <4>1. \A x : x \in {"sent", "asked"} \/ x = "answered" => x # "free" OBVIOUS
      <4> QED BY <2>1, <4>1, DownEffect
    <3> QED BY <1>0, <2>2, <3>1 DEF AttemptType, client
  <2>4. ClientType' BY <1>0, <2>2 DEF ClientType, client
  <2>5. faults' \in 0..MaxFaults BY <1>0, <2>1, Faults DEF ServerType
  <2>6. ServerType' BY <1>0, <2>2, <2>5 DEF ServerType, client, Gates
  <2> QED BY <2>3, <2>4, <2>6
<1>3. CASE \E s \in Stores : restart(s)
  <2>1. /\ store' \in Stores /\ known' \subseteq 1..Keys /\ up' = TRUE /\ fatal' = FALSE
        /\ UNCHANGED <<client, jobs, gate, changes, attempt, live, faults>>
    BY <1>3 DEF restart
  <2>2. AttemptType' BY <1>0, <2>1 DEF AttemptType, client
  <2>3. ClientType' BY <1>0, <2>1 DEF ClientType, client
  <2>4. ServerType' BY <1>0, <2>1 DEF ServerType, client, Gates
  <2> QED BY <2>2, <2>3, <2>4
<1>4. CASE \E g \in Gates : change(g)
  <2>1. /\ changes < MaxChanges /\ changes' = changes + 1 /\ gate' \in Gates
        /\ UNCHANGED <<client, up, store, known, jobs, fatal, attempt, live, faults>>
    BY <1>4 DEF change
  <2>2. AttemptType' BY <1>0, <2>1 DEF AttemptType, client
  <2>3. ClientType' BY <1>0, <2>1 DEF ClientType, client
  <2>4. changes' \in 0..MaxChanges BY <1>0, <2>1, Constants DEF ServerType
  <2>5. gate' \in Gates' BY <2>1 DEF Gates, client
  <2>6. ServerType' BY <1>0, <2>1, <2>4, <2>5 DEF ServerType
  <2> QED BY <2>2, <2>3, <2>6
<1> QED BY <1>1, <1>2, <1>3, <1>4

LEMMA TypeKept == ASSUME TypeInv, [Next]_vars PROVE TypeInv'
<1>1. CASE UNCHANGED vars
  <2>1. AttemptType /\ ClientType /\ ServerType BY Typing
  <2>2. AttemptType' /\ ClientType' /\ ServerType'
    BY <1>1, <2>1 DEF vars, client, server, AttemptType, ClientType, ServerType, Gates
  <2> QED BY <2>2, Typing, PTL
<1>2. CASE Next
  <2>1. AttemptType' /\ ClientType' /\ ServerType'
    BY <1>2, ClientStepTyped, ServerStepTyped, ProcessStepTyped DEF Next, Serve
  <2> QED BY <2>1, Typing, PTL
<1> QED BY <1>1, <1>2

-----------------------------------------------------------------------------
(* The receipts. *)

(* A step that leaves the service as it is and tells no client of a new job. *)
LEMMA QuietReceipts ==
    ASSUME ReceiptInv, UNCHANGED <<up, store, known, jobs, fatal>>,
           \A b \in Attempts : /\ attempt'[b].at \in {"sent", "asked"} => up
                               /\ attempt'[b].at = "answered" /\ attempt'[b].answer = "job" =>
                                     Told(b) /\ attempt'[b].key = attempt[b].key,
           \A k \in 1..Keys : settled'[k] = "accepted" => Has(jobs, k)
    PROVE  ReceiptInv'
<1>1. \A k : Has(jobs', k) <=> Has(jobs, k) OBVIOUS
<1>2. \A b \in Attempts : Flying(b)' => up' BY DEF Flying
<1>3. \A b \in Attempts : Told(b)' => Has(jobs', attempt'[b].key)
  BY <1>1 DEF Told, ReceiptInv
<1>4. \A k \in 1..Keys : settled'[k] = "accepted" => Has(jobs', k) BY <1>1
<1>5. /\ up' => \A k \in known' : jobs'[store'][k] > 0
      /\ up' /\ ~fatal' => \A k \in 1..Keys : jobs'[store'][k] > 0 => k \in known'
      /\ \A s \in Stores, k \in 1..Keys : jobs'[s][k] <= 1
  BY DEF ReceiptInv
<1> QED BY <1>2, <1>3, <1>4, <1>5 DEF ReceiptInv

LEMMA ClientReceipts ==
    ASSUME TypeInv, ReceiptInv, NEW a \in Attempts,
           create(a) \/ sendSaved(a) \/ resend(a) \/ giveUp(a) \/ receive(a)
    PROVE  ReceiptInv'
<1>0. /\ \A b \in Attempts : Flying(b) => up
      /\ \A k \in 1..Keys : settled[k] = "accepted" => Has(jobs, k)
      /\ \A b \in Attempts : Told(b) => Has(jobs, attempt[b].key)
      /\ settled \in [1..Keys -> {"open", "accepted", "rejected"}]
      /\ AttemptType /\ ClientType
  BY Typing DEF ReceiptInv, ClientType
<1>1. CASE create(a) \/ sendSaved(a) \/ resend(a)
  <2>1. PICK key \in 1..Keys : Send(a, key)
    <3>1. CASE create(a)
      <4>1. last' = last + 1 /\ last + 1 \in 1..Keys /\ Send(a, last')
        BY <1>0, <3>1, Constants DEF create, ClientType
      <4> QED BY <4>1
    <3>2. CASE sendSaved(a) \/ resend(a)
      <4>1. pending.key \in 1..Keys /\ Send(a, pending.key)
        BY <1>0, <3>2, Constants DEF sendSaved, resend, ClientType
      <4> QED BY <4>1
    <3> QED BY <1>1, <3>1, <3>2
  <2>2. UNCHANGED <<server, settled>> BY <1>1 DEF create, sendSaved, resend
  <2>3. \A b \in Attempts : /\ attempt'[b].at \in {"sent", "asked"} => up
                            /\ attempt'[b].at = "answered" /\ attempt'[b].answer = "job" =>
                                  Told(b) /\ attempt'[b].key = attempt[b].key
    <3>1. /\ \/ attempt'[a].at = "sent" /\ up
             \/ attempt'[a].at = "answered" /\ attempt'[a].answer = "unreachable"
          /\ \A b \in Attempts \ {a} : attempt'[b] = attempt[b]
      BY <2>1, SendEffect
    <3> QED BY <1>0, <3>1 DEF Flying, Told
  <2> QED BY <1>0, <2>2, <2>3, QuietReceipts DEF server
<1>2. CASE giveUp(a)
  <2>1. attempt' = [attempt EXCEPT ![a].ctx = ~Prompt] /\ UNCHANGED <<server, settled>> /\ (~Prompt) \in BOOLEAN
    BY <1>2 DEF giveUp, Prompt
  <2>2. \A b \in Attempts : /\ attempt'[b].at = attempt[b].at /\ attempt'[b].key = attempt[b].key
                            /\ attempt'[b].answer = attempt[b].answer
    BY <2>1, CtxEffect
  <2>3. \A b \in Attempts : /\ attempt'[b].at \in {"sent", "asked"} => up
                            /\ attempt'[b].at = "answered" /\ attempt'[b].answer = "job" =>
                                  Told(b) /\ attempt'[b].key = attempt[b].key
    BY <1>0, <2>2 DEF Flying, Told
  <2> QED BY <1>0, <2>1, <2>3, QuietReceipts DEF server
<1>3. CASE receive(a)
  <2>1. attempt' = [attempt EXCEPT ![a] = Free] /\ UNCHANGED server /\ attempt[a].at = "answered"
    BY <1>3 DEF receive
  <2>2. attempt'[a].at = "free" /\ \A b \in Attempts \ {a} : attempt'[b] = attempt[b]
    BY <2>1, FreeEffect
  <2>3. \A b \in Attempts : /\ attempt'[b].at \in {"sent", "asked"} => up
                            /\ attempt'[b].at = "answered" /\ attempt'[b].answer = "job" =>
                                  Told(b) /\ attempt'[b].key = attempt[b].key
    BY <1>0, <2>2 DEF Flying, Told
  <2>4. \A k \in 1..Keys : settled'[k] = "accepted" => Has(jobs, k)
    <3>1. CASE settled' = settled BY <1>0, <3>1
    <3>2. CASE settled' = [settled EXCEPT ![attempt[a].key] = "rejected"] BY <1>0, <3>2
    <3>3. CASE attempt[a].answer = "job" /\ settled' = [settled EXCEPT ![attempt[a].key] = "accepted"]
      <4>1. Has(jobs, attempt[a].key) BY <1>0, <2>1, <3>3 DEF Told
      <4> QED BY <1>0, <3>3, <4>1
    <3> QED BY <1>3, <3>1, <3>2, <3>3 DEF receive
  <2> QED BY <2>1, <2>3, <2>4, QuietReceipts DEF server
<1> QED BY <1>1, <1>2, <1>3

(* The commit of a job, or the end of a worker that may have written one. *)
LEMMA ExecuteReceipts ==
    ASSUME TypeInv, ReceiptInv, NEW a \in Attempts, execute(a)
    PROVE  ReceiptInv'
<1> DEFINE key == attempt[a].key
<1>0. /\ key \in 1..Keys /\ store \in Stores /\ up
      /\ attempt[a].at = "asked"
      /\ UNCHANGED <<up, store, settled>>
      /\ jobs \in [Stores -> [1..Keys -> Nat]]
  BY Typing DEF execute, client, ReceiptInv, Flying, AttemptType, ServerType
<1>1. PICK answer \in Answers :
        /\ Put(a, "answered", answer)
        /\ \/ /\ answerOf(a) # "none" /\ answer = answerOf(a)
              /\ UNCHANGED <<known, jobs, fatal>>
           \/ /\ answerOf(a) = "none" /\ Made(key) /\ known' = known \cup {key}
              /\ fatal' = fatal
           \/ /\ answerOf(a) = "none" /\ answer # "job" /\ fatal' = TRUE /\ known' = known
              /\ Made(key) \/ UNCHANGED jobs
  BY AnswerCases DEF execute, Answers
<1>2. /\ attempt'[a].at = "answered" /\ attempt'[a].answer = answer /\ attempt'[a].key = key
      /\ \A b \in Attempts \ {a} : attempt'[b] = attempt[b]
  BY <1>1, PutEffect DEF Places
<1>3. /\ answerOf(a) = "none" => ~fatal /\ key \notin known
      /\ answerOf(a) = "job" => key \in known
  BY AnswerCases
<1>4. Made(key) \/ UNCHANGED jobs BY <1>1
<1>5. \A s \in Stores, k \in 1..Keys : jobs'[s][k] >= jobs[s][k] /\ jobs'[s][k] \in Nat
  <2>1. CASE UNCHANGED jobs
    <3>1. \A s \in Stores, k \in 1..Keys : jobs[s][k] \in Nat BY <1>0
    <3>2. \A s \in Stores, k \in 1..Keys : jobs'[s][k] = jobs[s][k] BY <2>1
    <3>3. \A n \in Nat : n >= n OBVIOUS
    <3> QED BY <3>1, <3>2, <3>3
  <2>2. CASE Made(key)
    <3>1. /\ jobs'[store][key] = jobs[store][key] + 1
          /\ \A s \in Stores, k \in 1..Keys : s # store \/ k # key => jobs'[s][k] = jobs[s][k]
      BY <1>0, <2>2, MadeEffect
    <3>2. \A s \in Stores, k \in 1..Keys : jobs[s][k] \in Nat BY <1>0
    <3> QED BY <1>0, <3>1, <3>2
  <2> QED BY <1>4, <2>1, <2>2
<1>6. \A k \in 1..Keys : Has(jobs, k) => Has(jobs', k)
  <2>1. \A s \in Stores, k \in 1..Keys : jobs[s][k] \in Nat BY <1>0
  <2> QED BY <1>5, <2>1 DEF Has
<1>7. \A s \in Stores, k \in 1..Keys : jobs'[s][k] <= 1
  <2>1. CASE UNCHANGED jobs BY <2>1 DEF ReceiptInv
  <2>2. CASE Made(key) /\ answerOf(a) = "none"
    <3>1. /\ jobs'[store][key] = jobs[store][key] + 1
          /\ \A s \in Stores, k \in 1..Keys : s # store \/ k # key => jobs'[s][k] = jobs[s][k]
      BY <1>0, <2>2, MadeEffect
    <3>2. ~(jobs[store][key] > 0) BY <1>0, <1>3, <2>2 DEF ReceiptInv
    <3>3. jobs[store][key] \in Nat BY <1>0
    <3>4. jobs'[store][key] <= 1 BY <3>1, <3>2, <3>3
    <3> QED BY <3>1, <3>4 DEF ReceiptInv
  <2> QED BY <1>1, <2>1, <2>2
<1>8. \A k \in known' : jobs'[store][k] > 0
  <2>1. ASSUME NEW k \in known PROVE jobs'[store][k] > 0
    <3>1. jobs[store][k] > 0 /\ k \in 1..Keys BY <1>0, <2>1, Typing DEF ReceiptInv, ServerType
    <3>2. jobs'[store][k] >= jobs[store][k] /\ jobs'[store][k] \in Nat BY <1>0, <1>5, <3>1
    <3>3. jobs[store][k] \in Nat BY <1>0, <3>1
    <3> QED BY <3>1, <3>2, <3>3
  <2>2. ASSUME Made(key) PROVE jobs'[store][key] > 0
    <3>1. jobs'[store][key] = jobs[store][key] + 1 BY <1>0, <2>2, MadeEffect
    <3>2. jobs[store][key] \in Nat BY <1>0
    <3> QED BY <3>1, <3>2
  <2> QED BY <1>1, <2>1, <2>2
<1>9. ~fatal' => \A k \in 1..Keys : jobs'[store][k] > 0 => k \in known'
  <2>0. fatal \in BOOLEAN BY Typing DEF ServerType
  <2>1. CASE UNCHANGED <<known, jobs, fatal>> BY <1>0, <2>1 DEF ReceiptInv
  <2>2. CASE Made(key) /\ known' = known \cup {key} /\ fatal' = fatal
    <3>1. \A k \in 1..Keys : k # key => jobs'[store][k] = jobs[store][k] BY <1>0, <2>2, MadeEffect
    <3> QED BY <1>0, <2>2, <3>1 DEF ReceiptInv
  <2>3. CASE fatal' = TRUE BY <2>3
  <2> QED BY <1>1, <2>1, <2>2, <2>3
<1>10. \A b \in Attempts : Told(b)' => Has(jobs', attempt'[b].key)
  <2>1. ASSUME answer = "job" PROVE Has(jobs', key)
    <3>1. key \in known' BY <1>1, <1>3, <2>1
    <3>2. jobs'[store][key] > 0 BY <1>8, <3>1
    <3> QED BY <1>0, <3>2 DEF Has
  <2>2. ASSUME NEW b \in Attempts, b # a, Told(b)' PROVE Has(jobs', attempt'[b].key)
    <3>1. attempt'[b] = attempt[b] BY <1>2, <2>2
    <3>2. Told(b) /\ attempt[b].key \in 1..Keys BY <2>2, <3>1, Typing DEF Told, AttemptType
    <3>3. Has(jobs, attempt[b].key) BY <3>2 DEF ReceiptInv
    <3>4. Has(jobs', attempt[b].key) BY <1>6, <3>2, <3>3
    <3> QED BY <3>1, <3>4
  <2> QED BY <1>2, <2>1, <2>2 DEF Told
<1>11. \A b \in Attempts : Flying(b)' => up' BY <1>0, <1>2 DEF Flying, ReceiptInv
<1>12. \A k \in 1..Keys : settled'[k] = "accepted" => Has(jobs', k) BY <1>0, <1>6 DEF ReceiptInv
<1> QED BY <1>0, <1>7, <1>8, <1>9, <1>10, <1>11, <1>12 DEF ReceiptInv

LEMMA ReceiptKept == ASSUME TypeInv, ReceiptInv, [Next]_vars PROVE ReceiptInv'
<1>0. /\ \A b \in Attempts : Flying(b) => up
      /\ \A k \in 1..Keys : settled[k] = "accepted" => Has(jobs, k)
      /\ \A b \in Attempts : Told(b) => Has(jobs, attempt[b].key)
  BY DEF ReceiptInv
<1>1. ASSUME NEW a \in Attempts, create(a) \/ sendSaved(a) \/ resend(a) \/ giveUp(a) \/ receive(a)
      PROVE  ReceiptInv'
  BY <1>1, ClientReceipts
<1>2. ASSUME NEW a \in Attempts, execute(a) PROVE ReceiptInv' BY <1>2, ExecuteReceipts
<1>3. ASSUME NEW a \in Attempts, arrive(a) \/ spoil(a)
      PROVE  ReceiptInv'
  <2>1. /\ UNCHANGED <<client, server>> /\ attempt[a].at \in {"sent", "answered"}
        /\ \/ attempt[a].at = "sent" /\ Put(a, "asked", "none")
           \/ \E answer \in {"unreachable", "unavailable", "unreadable"} : Put(a, "answered", answer)
    BY <1>3 DEF arrive, spoil
  <2>2. /\ \/ attempt'[a].at = "asked" /\ attempt[a].at = "sent"
           \/ attempt'[a].at = "answered" /\ attempt'[a].answer # "job"
        /\ \A b \in Attempts \ {a} : attempt'[b] = attempt[b]
    BY <2>1, PutEffect DEF Places, Answers
  <2>3. \A b \in Attempts : /\ attempt'[b].at \in {"sent", "asked"} => up
                            /\ attempt'[b].at = "answered" /\ attempt'[b].answer = "job" =>
                                  Told(b) /\ attempt'[b].key = attempt[b].key
    BY <1>0, <2>2 DEF Flying, Told
  <2> QED BY <1>0, <2>1, <2>3, QuietReceipts DEF client, server
<1>4. ASSUME NEW a \in Attempts, notice(a) \/ discard(a) PROVE ReceiptInv'
  <2>1. /\ UNCHANGED <<client, server>>
        /\ attempt' = [attempt EXCEPT ![a].ctx = FALSE] \/ attempt' = [attempt EXCEPT ![a] = Free]
    BY <1>4 DEF notice, discard
  <2>2. \A b \in Attempts :
           \/ attempt'[b].at = "free"
           \/ /\ attempt'[b].at = attempt[b].at /\ attempt'[b].key = attempt[b].key
              /\ attempt'[b].answer = attempt[b].answer
    BY <2>1, CtxEffect, FreeEffect
  <2>3. \A b \in Attempts : /\ attempt'[b].at \in {"sent", "asked"} => up
                            /\ attempt'[b].at = "answered" /\ attempt'[b].answer = "job" =>
                                  Told(b) /\ attempt'[b].key = attempt[b].key
    BY <1>0, <2>2 DEF Flying, Told
  <2> QED BY <1>0, <2>1, <2>3, QuietReceipts DEF client, server
<1>5. CASE synchronize \/ disconnect \/ (\E g \in Gates : change(g)) \/ UNCHANGED vars
  <2>1. UNCHANGED <<up, store, known, jobs, fatal, settled, attempt>>
    BY <1>5 DEF synchronize, disconnect, change, vars, client, server
  <2>2. \A b \in Attempts : /\ attempt'[b].at \in {"sent", "asked"} => up
                            /\ attempt'[b].at = "answered" /\ attempt'[b].answer = "job" =>
                                  Told(b) /\ attempt'[b].key = attempt[b].key
    BY <1>0, <2>1 DEF Flying, Told
  <2> QED BY <1>0, <2>1, <2>2, QuietReceipts
<1>6. CASE crash \/ stop
  <2>1. Down BY <1>6 DEF crash, stop
  <2>2. up' = FALSE /\ UNCHANGED <<settled, jobs>> BY <2>1 DEF Down, client
  <2>3. \A b \in Attempts :
           /\ attempt'[b].at \notin {"sent", "asked"}
           /\ attempt'[b] = attempt[b] \/ attempt'[b].answer = "unreachable"
    BY <2>1, DownEffect
  <2>4. \A b \in Attempts : ~Flying(b)' /\ (Told(b)' => Has(jobs', attempt'[b].key))
    <3>1. ASSUME NEW b \in Attempts, Told(b)' PROVE Has(jobs', attempt'[b].key)
      <4>1. attempt'[b] = attempt[b] BY <2>3, <3>1 DEF Told
      <4>2. Told(b) BY <3>1, <4>1 DEF Told
      <4> QED BY <1>0, <2>2, <4>1, <4>2
    <3> QED BY <2>3, <3>1 DEF Flying
  <2> QED BY <1>0, <2>2, <2>4 DEF ReceiptInv
<1>7. ASSUME NEW s \in Stores, restart(s) PROVE ReceiptInv'
  <2>1. /\ ~up /\ store' = s /\ known' = {k \in 1..Keys : jobs[s][k] > 0}
        /\ UNCHANGED <<settled, jobs, attempt>>
    BY <1>7 DEF restart, client
  <2>2. \A b \in Attempts : ~Flying(b)' /\ (Told(b)' => Has(jobs', attempt'[b].key))
    BY <1>0, <2>1 DEF Flying, Told
  <2> QED BY <1>0, <2>1, <2>2 DEF ReceiptInv
<1> QED BY <1>1, <1>2, <1>3, <1>4, <1>5, <1>6, <1>7 DEF Next, Serve

-----------------------------------------------------------------------------
(* The page. *)

(* What a rejection says to the page. *)
LEMMA PageRejects == ASSUME role = "page" PROVE \A x : Rejects(x) <=> x \in {"queue_full", "limit_exceeded"}
BY DEF Rejects

(* A step that leaves the command, its jobs and the client's wait as they are. *)
LEMMA QuietPage ==
    ASSUME PageInv, role = "page", UNCHANGED <<role, pending, last, busy, settled, store, jobs>>,
           view' \in {view, store, NoStore},
           \A b \in Attempts : /\ attempt'[b].at \in {"sent", "asked"} /\ attempt'[b].ctx =>
                                     Flying(b) /\ attempt[b].ctx
                               /\ attempt'[b].at = "answered" /\ Rejects(attempt'[b].answer) =>
                                     attempt[b].at = "answered" /\ attempt'[b].answer = attempt[b].answer,
           busy \in Attempts \cup {NoAttempt}
    PROVE  PageInv'
<1>1. view' # NoStore => view' = store' BY DEF PageInv
<1>2. \A b \in Attempts : Flying(b)' /\ attempt'[b].ctx => b = busy' /\ pending'.store = store'
  BY DEF PageInv, Flying
<1>3. \A x : Rejects(x)' <=> Rejects(x) BY DEF Rejects
<1>4. busy' # NoAttempt /\ attempt'[busy'].at = "answered" /\ Rejects(attempt'[busy'].answer) =>
         Lacks(jobs', pending'.key)
  BY <1>3 DEF PageInv
<1>5. Rejects(attempt'[busy'].answer) <=> (Rejects(attempt[busy].answer))' BY DEF Rejects
<1>6. /\ pending'.key # 0 => pending'.store \in Stores
      /\ \A s \in Stores, k \in 1..Keys :
            jobs'[s][k] > 0 => k <= last' /\ (k = pending'.key => s = pending'.store)
      /\ \A s, t \in Stores, k \in 1..Keys : jobs'[s][k] > 0 /\ jobs'[t][k] > 0 => s = t
      /\ \A k \in 1..Keys : settled'[k] # "open" => k <= last' /\ k # pending'.key
      /\ \A k \in 1..Keys : settled'[k] = "rejected" => Lacks(jobs', k)
  BY DEF PageInv
<1> QED BY <1>1, <1>2, <1>4, <1>5, <1>6 DEF PageInv

(* A send finds no other attempt that may still make a job. *)
LEMMA SendPage ==
    ASSUME TypeInv, PageInv, role = "page", NEW a \in Attempts, create(a) \/ sendSaved(a)
    PROVE  PageInv'
<1>0. AttemptType /\ ClientType BY Typing
<1>1. PICK key \in 1..Keys :
        /\ Send(a, key) /\ pending'.key = key /\ pending'.store = store /\ store \in Stores
        /\ \/ key = last + 1 /\ last' = last + 1
           \/ key = pending.key /\ pending' = pending /\ last' = last
  <2>0. store \in Stores /\ NoStore \notin Stores BY Typing, Constants DEF ServerType
  <2>1. CASE create(a)
    <3>1. /\ last' = last + 1 /\ last + 1 \in 1..Keys /\ Send(a, last')
          /\ pending' = [key |-> last', store |-> view] /\ view # NoStore
      BY <1>0, <2>1, Constants DEF create, ClientType
    <3>2. view = store BY <3>1 DEF PageInv
    <3> QED BY <2>0, <3>1, <3>2
  <2>2. CASE sendSaved(a)
    <3>1. /\ pending.key \in 1..Keys /\ Send(a, pending.key) /\ view = pending.store
          /\ pending' = pending /\ last' = last
      BY <1>0, <2>2, Constants DEF sendSaved, ClientType
    <3>2. view # NoStore BY <2>0, <3>1, Constants DEF PageInv
    <3>3. view = store BY <3>2 DEF PageInv
    <3> QED BY <2>0, <3>1, <3>3
  <2> QED BY <2>1, <2>2
<1>2. UNCHANGED <<role, view, settled, server>> BY DEF create, sendSaved
<1>3. UNCHANGED <<store, jobs>> BY <1>2 DEF server
<1>4. /\ busy = NoAttempt /\ busy' = a
      /\ \/ attempt'[a].at = "sent"
         \/ attempt'[a].at = "answered" /\ attempt'[a].answer = "unreachable"
      /\ \A b \in Attempts \ {a} : attempt'[b] = attempt[b]
  BY <1>1, SendEffect
<1>5. \A b \in Attempts : ~(Flying(b) /\ attempt[b].ctx) BY <1>4, Constants DEF PageInv
<1>6. \A b \in Attempts : Flying(b)' /\ attempt'[b].ctx => b = busy' /\ pending'.store = store'
  BY <1>1, <1>3, <1>4, <1>5 DEF Flying
<1>7. ~(attempt'[a].at = "answered" /\ (Rejects(attempt[busy].answer))')
  BY <1>4 DEF Rejects
<1>8. view' # NoStore => view' = store' BY <1>2, <1>3 DEF PageInv
<1>9. last \in Nat /\ pending.key \in Nat /\ Keys \in Nat BY <1>0, Constants DEF ClientType
<1>10. \A s \in Stores, k \in 1..Keys :
         jobs'[s][k] > 0 => k <= last' /\ (k = pending'.key => s = pending'.store)
  <2>1. ASSUME NEW s \in Stores, NEW k \in 1..Keys, jobs[s][k] > 0
        PROVE  k <= last' /\ (k = pending'.key => s = pending'.store)
    <3>1. k <= last /\ (k = pending.key => s = pending.store) BY <2>1 DEF PageInv
    <3>2. CASE key = last + 1 /\ last' = last + 1 BY <1>1, <1>9, <3>1, <3>2
    <3>3. CASE key = pending.key /\ pending' = pending /\ last' = last BY <1>1, <3>1, <3>3
    <3> QED BY <1>1, <3>2, <3>3
  <2> QED BY <1>3, <2>1
<1>11. \A k \in 1..Keys : settled'[k] # "open" => k <= last' /\ k # pending'.key
  <2>1. ASSUME NEW k \in 1..Keys, settled[k] # "open" PROVE k <= last' /\ k # pending'.key
    <3>1. k <= last /\ k # pending.key BY <2>1 DEF PageInv
    <3>2. CASE key = last + 1 /\ last' = last + 1 BY <1>1, <1>9, <3>1, <3>2
    <3>3. CASE key = pending.key /\ pending' = pending /\ last' = last BY <1>1, <3>1, <3>3
    <3> QED BY <1>1, <3>2, <3>3
  <2> QED BY <1>2, <2>1
<1>12. /\ \A s, t \in Stores, k \in 1..Keys : jobs'[s][k] > 0 /\ jobs'[t][k] > 0 => s = t
       /\ \A k \in 1..Keys : settled'[k] = "rejected" => Lacks(jobs', k)
  BY <1>2, <1>3 DEF PageInv
<1> QED BY <1>1, <1>4, <1>6, <1>7, <1>8, <1>10, <1>11, <1>12 DEF PageInv

(* The end of a wait: no attempt is left that may still make a job. *)
LEMMA WaitOver ==
    ASSUME PageInv, NEW a \in Attempts, busy = a, busy' = NoAttempt,
           \A b \in Attempts \ {a} : attempt'[b] = attempt[b],
           attempt'[a].at = "free" \/ attempt'[a].ctx = FALSE,
           view' = view, store' = store, jobs' = jobs, last' = last, pending' \in {pending, Nothing},
           \A k \in 1..Keys : settled'[k] # "open" => k <= last /\ k # pending'.key,
           \A k \in 1..Keys : settled'[k] = "rejected" => Lacks(jobs, k)
    PROVE  PageInv'
<1>1. \A b \in Attempts : ~(Flying(b)' /\ attempt'[b].ctx) BY DEF PageInv, Flying
<1>2. view' # NoStore => view' = store' BY DEF PageInv
<1>3. /\ pending'.key # 0 => pending'.store \in Stores
      /\ \A s \in Stores, k \in 1..Keys :
            jobs'[s][k] > 0 => k <= last' /\ (k = pending'.key => s = pending'.store)
  <2>1. CASE pending' = pending BY <2>1 DEF PageInv
  <2>2. CASE pending' = Nothing
    <3>1. pending'.key = 0 BY <2>2 DEF Nothing
    <3>2. \A k \in 1..Keys : k # 0 BY Constants
    <3> QED BY <3>1, <3>2 DEF PageInv
  <2> QED BY <2>1, <2>2
<1>4. \A s, t \in Stores, k \in 1..Keys : jobs'[s][k] > 0 /\ jobs'[t][k] > 0 => s = t BY DEF PageInv
<1> QED BY <1>1, <1>2, <1>3, <1>4 DEF PageInv

LEMMA WaitPage ==
    ASSUME TypeInv, PageInv, PagePrompt, NEW a \in Attempts, receive(a) \/ giveUp(a)
    PROVE  PageInv'
<1>0. AttemptType /\ ClientType /\ role = "page" /\ Prompt BY Typing DEF PagePrompt
<1>1. busy = a /\ busy' = NoAttempt /\ UNCHANGED <<view, store, jobs, last>>
  BY DEF receive, giveUp, server
<1>2. a # NoAttempt BY Constants
<1>3. attempt[a].key = pending.key /\ pending.key \in 1..Keys BY <1>0, <1>1, <1>2 DEF AttemptType
<1>4. CASE giveUp(a)
  <2>1. attempt' = [attempt EXCEPT ![a].ctx = FALSE] /\ UNCHANGED <<pending, settled>>
    BY <1>0, <1>4 DEF giveUp
  <2>2. attempt'[a].ctx = FALSE /\ \A b \in Attempts \ {a} : attempt'[b] = attempt[b]
    BY <2>1, CtxEffect
  <2>3. /\ \A k \in 1..Keys : settled'[k] # "open" => k <= last /\ k # pending'.key
        /\ \A k \in 1..Keys : settled'[k] = "rejected" => Lacks(jobs, k)
    BY <2>1 DEF PageInv
  <2> QED BY <1>1, <2>1, <2>2, <2>3, WaitOver
<1>5. CASE receive(a)
  <2>1. /\ attempt[a].at = "answered" /\ attempt' = [attempt EXCEPT ![a] = Free]
        /\ \/ pending' = pending /\ settled' = settled
           \/ /\ pending' = Nothing
              /\ \/ attempt[a].answer = "job" /\ settled' = [settled EXCEPT ![pending.key] = "accepted"]
                 \/ /\ Rejects(attempt[a].answer)
                    /\ settled' = [settled EXCEPT ![pending.key] = "rejected"]
    BY <1>3, <1>5 DEF receive
  <2>2. attempt'[a].at = "free" /\ \A b \in Attempts \ {a} : attempt'[b] = attempt[b]
    BY <2>1, FreeEffect
  <2>3. settled \in [1..Keys -> {"open", "accepted", "rejected"}] /\ pending.key <= last
    BY <1>0 DEF ClientType
  <2>4. /\ \A k \in 1..Keys : settled[k] # "open" => k <= last /\ k # pending.key
        /\ \A k \in 1..Keys : settled[k] = "rejected" => Lacks(jobs, k)
    BY DEF PageInv
  <2>5. \A k \in 1..Keys : settled'[k] # "open" => k <= last /\ k # pending'.key
    <3>1. \A k \in 1..Keys : k # 0 BY Constants
    <3>2. CASE pending' = pending /\ settled' = settled BY <2>4, <3>2
    <3>3. CASE pending' = Nothing
      <4>1. \A k \in 1..Keys : settled'[k] = settled[k] \/ k = pending.key BY <1>3, <2>1, <2>3
      <4> QED BY <2>3, <2>4, <3>1, <3>3, <4>1 DEF Nothing
    <3> QED BY <2>1, <3>2, <3>3
  <2>6. \A k \in 1..Keys : settled'[k] = "rejected" => Lacks(jobs, k)
    <3>1. CASE pending' = pending /\ settled' = settled BY <2>4, <3>1
    <3>2. CASE attempt[a].answer = "job" /\ settled' = [settled EXCEPT ![pending.key] = "accepted"]
      BY <1>3, <2>3, <2>4, <3>2
    <3>3. CASE Rejects(attempt[a].answer) /\ settled' = [settled EXCEPT ![pending.key] = "rejected"]
      <4>1. Lacks(jobs, pending.key) BY <1>1, <1>2, <2>1, <3>3 DEF PageInv
      <4> QED BY <1>3, <2>3, <2>4, <3>3, <4>1
    <3> QED BY <2>1, <3>1, <3>2, <3>3
  <2>7. pending' \in {pending, Nothing} BY <2>1
  <2> QED BY <1>1, <2>2, <2>5, <2>6, <2>7, WaitOver
<1> QED BY <1>4, <1>5

(* A job is made only for the command that is waited for, on the store it was made for; and a
   rejection was given where a job would have been made. *)
LEMMA ExecutePage ==
    ASSUME TypeInv, ReceiptInv, PageInv, PagePrompt, NEW a \in Attempts, execute(a)
    PROVE  PageInv'
<1> DEFINE key == attempt[a].key
<1>0. /\ AttemptType /\ ClientType /\ ServerType /\ role = "page"
      /\ key \in 1..Keys /\ store \in Stores /\ up /\ attempt[a].at = "asked" /\ Flying(a)
      /\ UNCHANGED <<role, pending, last, busy, view, settled, store>>
  BY Typing DEF PagePrompt, execute, client, ReceiptInv, Flying, AttemptType, ServerType
<1>1. PICK answer \in Answers :
        /\ Put(a, "answered", answer)
        /\ \/ answerOf(a) # "none" /\ answer = answerOf(a) /\ UNCHANGED jobs
           \/ /\ answerOf(a) = "none" /\ answer \in {"job", "unavailable", "storage_failure"}
              /\ Made(key) \/ UNCHANGED jobs
  BY AnswerCases DEF execute, Answers
<1>2. /\ attempt'[a].at = "answered" /\ attempt'[a].answer = answer
      /\ \A b \in Attempts \ {a} : attempt'[b] = attempt[b]
  BY <1>1, PutEffect DEF Places
<1>3. ASSUME attempt[a].ctx PROVE a = busy /\ key = pending.key /\ pending.store = store
  <2>1. a = busy /\ pending.store = store BY <1>0, <1>3 DEF PageInv
  <2>2. a # NoAttempt BY Constants
  <2> QED BY <1>0, <2>1, <2>2 DEF AttemptType
<1>4. \/ UNCHANGED jobs
      \/ Made(key) /\ a = busy /\ key = pending.key /\ pending.store = store
  BY <1>1, <1>3, AnswerCases
<1>5. \A s \in Stores, k \in 1..Keys :
         jobs'[s][k] = jobs[s][k] \/ (s = store /\ k = pending.key /\ pending.store = store)
  <2>1. CASE UNCHANGED jobs BY <2>1
  <2>2. CASE Made(key) /\ a = busy /\ key = pending.key /\ pending.store = store
    <3>1. \A s \in Stores, k \in 1..Keys : s # store \/ k # key => jobs'[s][k] = jobs[s][k]
      BY <1>0, <2>2, MadeEffect
    <3> QED BY <2>2, <3>1
  <2> QED BY <1>4, <2>1, <2>2
<1>6. \A s \in Stores, k \in 1..Keys : jobs'[s][k] > 0 => k <= last /\ (k = pending.key => s = pending.store)
  <2>1. pending.key <= last BY <1>0 DEF ClientType
  <2> QED BY <1>5, <2>1 DEF PageInv
<1>7. \A s, t \in Stores, k \in 1..Keys : jobs'[s][k] > 0 /\ jobs'[t][k] > 0 => s = t
  <2>1. ASSUME NEW s \in Stores, NEW t \in Stores, NEW k \in 1..Keys, jobs'[s][k] > 0, jobs'[t][k] > 0
        PROVE  s = t
    <3>1. CASE k = pending.key BY <1>6, <2>1, <3>1
    <3>2. CASE k # pending.key
      <4>1. jobs'[s][k] = jobs[s][k] /\ jobs'[t][k] = jobs[t][k] BY <1>5, <3>2
      <4> QED BY <2>1, <4>1 DEF PageInv
    <3> QED BY <3>1, <3>2
  <2> QED BY <2>1
<1>8. \A b \in Attempts : Flying(b)' /\ attempt'[b].ctx => b = busy /\ pending.store = store
  BY <1>2 DEF Flying, PageInv
<1>9. ASSUME busy # NoAttempt, attempt'[busy].at = "answered", Rejects(attempt'[busy].answer)
      PROVE  Lacks(jobs', pending.key)
  <2>0. busy \in Attempts BY <1>0, <1>9 DEF AttemptType
  <2>1. CASE busy = a
    <3>1. Rejects(answer) BY <1>2, <1>9, <2>1
    <3>2. answer \in {"queue_full", "limit_exceeded"} BY <1>0, <3>1, PageRejects
    <3>3. answerOf(a) = answer /\ UNCHANGED jobs BY <1>1, <3>2
    <3>4. attempt[a].ctx /\ ~fatal /\ key \notin known BY <3>1, <3>3, AnswerCases
    <3>5. key = pending.key /\ pending.store = store BY <1>3, <3>4
    <3>6. ~(jobs[store][key] > 0) BY <1>0, <3>4 DEF ReceiptInv
    <3>7. \A s \in Stores : ~(jobs[s][key] > 0) BY <1>0, <3>5, <3>6 DEF PageInv
    <3>8. \A s \in Stores : jobs[s][key] \in Nat BY <1>0 DEF ServerType
    <3>9. \A s \in Stores : jobs[s][key] = 0 BY <3>7, <3>8
    <3> QED BY <3>3, <3>5, <3>9 DEF Lacks
  <2>2. CASE busy # a
    <3>1. UNCHANGED jobs BY <1>4, <2>2
    <3>2. attempt'[busy] = attempt[busy] BY <1>2, <2>0, <2>2
    <3> QED BY <1>9, <3>1, <3>2 DEF PageInv
  <2> QED BY <2>1, <2>2
<1>10. \A x : Rejects(x)' <=> Rejects(x) BY <1>0 DEF Rejects
<1>11. Rejects(attempt'[busy'].answer) <=> (Rejects(attempt[busy].answer))' BY <1>0 DEF Rejects
<1>12. \A k \in 1..Keys : settled[k] = "rejected" => Lacks(jobs', k)
  <2>1. ASSUME NEW k \in 1..Keys, settled[k] = "rejected" PROVE Lacks(jobs', k)
    <3>1. Lacks(jobs, k) /\ k # pending.key BY <2>1 DEF PageInv
    <3>2. \A s \in Stores : jobs'[s][k] = jobs[s][k] BY <1>5, <3>1
    <3> QED BY <3>1, <3>2 DEF Lacks
  <2> QED BY <2>1
<1>13. /\ view' # NoStore => view' = store'
       /\ pending'.key # 0 => pending'.store \in Stores
       /\ \A k \in 1..Keys : settled'[k] # "open" => k <= last' /\ k # pending'.key
  BY <1>0 DEF PageInv
<1>14. busy' # NoAttempt /\ attempt'[busy'].at = "answered" /\ (Rejects(attempt[busy].answer))'
          => Lacks(jobs', pending'.key)
  BY <1>0, <1>9, <1>11
<1> QED BY <1>0, <1>6, <1>7, <1>8, <1>12, <1>13, <1>14 DEF PageInv

LEMMA PageKept == ASSUME TypeInv, ReceiptInv, PageInv, PagePrompt, [Next]_vars PROVE PageInv'
<1>0. /\ role = "page" /\ Prompt /\ busy \in Attempts \cup {NoAttempt}
  BY DEF PagePrompt, TypeInv, TypeOK
<1>1. ASSUME NEW a \in Attempts, create(a) \/ sendSaved(a) PROVE PageInv' BY <1>0, <1>1, SendPage
<1>2. ASSUME NEW a \in Attempts, receive(a) \/ giveUp(a) PROVE PageInv' BY <1>2, WaitPage
<1>3. ASSUME NEW a \in Attempts, execute(a) PROVE PageInv' BY <1>3, ExecutePage
<1>4. ASSUME NEW a \in Attempts, resend(a) PROVE PageInv' BY <1>0, <1>4 DEF resend
<1>5. ASSUME NEW a \in Attempts, arrive(a) \/ spoil(a) \/ notice(a) \/ discard(a) PROVE PageInv'
  <2>1. UNCHANGED <<client, server>> BY <1>5 DEF arrive, spoil, notice, discard
  <2>2. \A b \in Attempts \ {a} : attempt'[b] = attempt[b]
    <3>1. CASE notice(a) BY <3>1, CtxEffect DEF notice
    <3>2. CASE discard(a) BY <3>2, FreeEffect DEF discard
    <3>3. CASE arrive(a) BY <3>3, PutEffect DEF arrive, Places, Answers
    <3>4. CASE spoil(a) BY <3>4, PutEffect DEF spoil, Places, Answers
    <3> QED BY <1>5, <3>1, <3>2, <3>3, <3>4
  <2>3. /\ attempt'[a].at \in {"sent", "asked"} /\ attempt'[a].ctx => Flying(a) /\ attempt[a].ctx
        /\ attempt'[a].at = "answered" /\ Rejects(attempt'[a].answer) =>
              attempt[a].at = "answered" /\ attempt'[a].answer = attempt[a].answer
    <3>1. CASE notice(a)
      <4>1. attempt'[a].ctx = FALSE /\ attempt'[a].at = attempt[a].at /\ attempt'[a].answer = attempt[a].answer
        BY <3>1, CtxEffect DEF notice
      <4> QED BY <4>1
    <3>2. CASE discard(a)
      <4>1. attempt'[a].at = "free" BY <3>2, FreeEffect DEF discard
      <4> QED BY <4>1
    <3>3. CASE arrive(a)
      <4>1. attempt[a].at = "sent" /\ attempt'[a].at = "asked" /\ attempt'[a].ctx = attempt[a].ctx
        BY <3>3, PutEffect DEF arrive, Places, Answers
      <4> QED BY <4>1 DEF Flying
    <3>4. CASE spoil(a)
      <4>1. attempt'[a].at = "answered" /\ attempt'[a].answer \in {"unreachable", "unavailable", "unreadable"}
        BY <3>4, PutEffect DEF spoil, Places, Answers
      <4>2. ~Rejects(attempt'[a].answer) BY <1>0, <4>1, PageRejects
      <4> QED BY <4>1, <4>2
    <3> QED BY <1>5, <3>1, <3>2, <3>3, <3>4
  <2>4. \A b \in Attempts :
           /\ attempt'[b].at \in {"sent", "asked"} /\ attempt'[b].ctx => Flying(b) /\ attempt[b].ctx
           /\ attempt'[b].at = "answered" /\ Rejects(attempt'[b].answer) =>
                 attempt[b].at = "answered" /\ attempt'[b].answer = attempt[b].answer
    BY <2>2, <2>3 DEF Flying
  <2> QED BY <1>0, <2>1, <2>4, QuietPage DEF client, server
<1>6. CASE synchronize \/ disconnect \/ (\E g \in Gates : change(g)) \/ UNCHANGED vars
  <2>1. /\ UNCHANGED <<role, pending, last, busy, settled, store, jobs, attempt>>
        /\ view' \in {view, store, NoStore}
    BY <1>6 DEF synchronize, disconnect, change, vars, client, server
  <2>2. \A b \in Attempts :
           /\ attempt'[b].at \in {"sent", "asked"} /\ attempt'[b].ctx => Flying(b) /\ attempt[b].ctx
           /\ attempt'[b].at = "answered" /\ Rejects(attempt'[b].answer) =>
                 attempt[b].at = "answered" /\ attempt'[b].answer = attempt[b].answer
    BY <2>1 DEF Flying
  <2> QED BY <1>0, <2>1, <2>2, QuietPage
<1>7. CASE crash \/ stop
  <2>1. Down /\ UNCHANGED <<role, pending, last, busy, view, settled, store, jobs>>
    BY <1>7 DEF crash, stop, Down, client
  <2>2. \A b \in Attempts :
           /\ attempt'[b].at \notin {"sent", "asked"}
           /\ attempt'[b] = attempt[b] \/ attempt'[b].answer = "unreachable"
    BY <2>1, DownEffect
  <2>3. \A b \in Attempts :
           /\ attempt'[b].at \in {"sent", "asked"} /\ attempt'[b].ctx => Flying(b) /\ attempt[b].ctx
           /\ attempt'[b].at = "answered" /\ Rejects(attempt'[b].answer) =>
                 attempt[b].at = "answered" /\ attempt'[b].answer = attempt[b].answer
    BY <1>0, <2>2, PageRejects
  <2> QED BY <1>0, <2>1, <2>3, QuietPage
<1>8. ASSUME NEW s \in Stores, restart(s) PROVE PageInv'
  <2>1. /\ ~up /\ view = NoStore
        /\ UNCHANGED <<role, pending, last, busy, view, settled, jobs, attempt>>
    BY <1>0, <1>8 DEF restart, client, Prompt
  <2>2. \A b \in Attempts : ~Flying(b)' BY <2>1 DEF Flying, ReceiptInv
  <2>3. (Rejects(attempt[busy].answer))' <=> Rejects(attempt[busy].answer) BY <2>1 DEF Rejects
  <2> QED BY <2>1, <2>2, <2>3 DEF PageInv
<1> QED BY <1>1, <1>2, <1>3, <1>4, <1>5, <1>6, <1>7, <1>8 DEF Next, Serve

-----------------------------------------------------------------------------
(* The theorems. *)

(* In every state of the page, of an agent and of the service they send to, the inductive invariant
   holds: types, receipts, and for a page which of its attempts can still make a job. *)
THEOREM DeliveryInvariant == Spec => []Inv
<1>1. Init => Inv
  <2> SUFFICES ASSUME Init PROVE Inv OBVIOUS
  <2>1. AttemptType
    <3>1. Free \in Attempt BY Constants DEF Free, Attempt, Places, Answers
    <3> QED BY <3>1 DEF Init, AttemptType, Free
  <2>2. ClientType
    <3>1. 0 \in 0..Keys /\ 0 \in 0..0 BY Constants
    <3>2. Nothing \in [key : 0..Keys, store : Stores \cup {NoStore}] /\ Nothing.key = 0
      BY <3>1 DEF Nothing
    <3>3. settled \in [1..Keys -> {"open", "accepted", "rejected"}] BY DEF Init
    <3> QED BY <3>1, <3>2, <3>3 DEF Init, ClientType
  <2>3. ServerType
    <3>1. jobs \in [Stores -> [1..Keys -> Nat]] BY DEF Init
    <3>2. faults \in 0..MaxFaults /\ changes \in 0..MaxChanges BY Constants DEF Init
    <3>3. gate \in Gates BY DEF Init, Gates
    <3> QED BY <3>1, <3>2, <3>3 DEF Init, ServerType
  <2>4. TypeInv BY <2>1, <2>2, <2>3, Typing
  <2>5. \A s \in Stores, k \in 1..Keys : jobs[s][k] = 0 BY DEF Init
  <2>6. \A a \in Attempts : ~Flying(a) /\ ~Told(a) BY DEF Init, Flying, Told, Free
  <2>7. \A k \in 1..Keys : settled[k] = "open" BY DEF Init
  <2>8. ReceiptInv BY <2>5, <2>6, <2>7 DEF Init, ReceiptInv
  <2>9. PageInv BY <2>5, <2>6, <2>7 DEF Init, PageInv, Nothing
  <2> QED BY <2>4, <2>8, <2>9 DEF Inv
<1>2. Inv /\ [Next]_vars => Inv'
  <2> SUFFICES ASSUME Inv, [Next]_vars PROVE Inv' OBVIOUS
  <2>1. TypeInv /\ ReceiptInv BY DEF Inv
  <2>2. TypeInv' /\ ReceiptInv' BY <2>1, TypeKept, ReceiptKept
  <2>3. role' = role
    BY DEF Next, Serve, create, sendSaved, resend, giveUp, spoil, notice, arrive, execute, receive, discard,
           synchronize, disconnect, crash, stop, restart, change, Down, vars, client
  <2>4. PagePrompt' <=> PagePrompt BY <2>3 DEF PagePrompt, Prompt
  <2>5. PagePrompt => PageInv' BY <2>1, PageKept DEF Inv
  <2> QED BY <2>2, <2>4, <2>5 DEF Inv
<1> QED BY <1>1, <1>2, PTL DEF Spec

(* An intent makes one job in a store, and of a page in one store, however often it is sent and
   whatever fails or restarts between (the receipts of create, the store of the saved command). *)
THEOREM OneJobTheorem == Spec => []OneJobPerIntent
<1>1. Inv => OneJobPerIntent
  <2> SUFFICES ASSUME Inv PROVE OneJobPerIntent OBVIOUS
  <2>1. TypeOK /\ \A s \in Stores, k \in 1..Keys : jobs[s][k] <= 1
    BY DEF Inv, TypeInv, ReceiptInv
  <2>2. ASSUME PagePrompt, NEW k \in 1..Keys PROVE Cardinality({s \in Stores : jobs[s][k] > 0}) <= 1
    <3> DEFINE S == {s \in Stores : jobs[s][k] > 0}
    <3>1. \A s, t \in S : s = t BY <2>2 DEF Inv, PageInv
    <3>2. CASE S = {} BY <3>2, FS_EmptySet
    <3>3. CASE S # {}
      <4> PICK s \in S : TRUE BY <3>3
      <4>1. S = {s} BY <3>1
      <4>2. Cardinality({s}) = 1 BY FS_Singleton
      <4>3. Cardinality(S) = 1 BY <4>1, <4>2
      <4> QED BY <4>3
    <3> QED BY <3>2, <3>3
  <2> QED BY <2>1, <2>2 DEF OneJobPerIntent
<1> QED BY <1>1, DeliveryInvariant, PTL

(* What a client holds of an intent it no longer retries is true for good: an accepted intent has
   its job, and one that the page saw rejected has none in any store and gets none. *)
THEOREM SettledTheorem == Spec => []SettledIsTrue
<1>1. Inv => SettledIsTrue BY DEF Inv, ReceiptInv, PageInv, Has, Lacks, SettledIsTrue
<1> QED BY <1>1, DeliveryInvariant, PTL

-----------------------------------------------------------------------------
(* Projection. *)

LogEvent == [kind : {"accepted", "output"}, job : Jobs, offset : Nat]
Cursors == [store : Nat, seq : Nat]
Copies == UNION {[J -> Nat] : J \in SUBSET Jobs}
Frames == [kind : {"snapshot"}, cursor : Cursors, jobs : Copies]
          \cup [kind : {"event"}, cursor : Cursors, event : LogEvent]
LoopPlaces == {"none", "connecting", "fetching", "streaming", "broken", "invalid"}

(* A log of the service: output is of accepted jobs. *)
LogOf(l) ==
    /\ l \in Seq(LogEvent) /\ Len(l) <= MaxLog
    /\ \A i \in 1..Len(l) : l[i].kind = "output" => l[i].job \in Accepted(l, i - 1)

(* A frame holds what it should of the log l of the store s. *)
FrameOf(l, s, f) ==
    /\ f.cursor.store = s /\ f.cursor.seq <= Len(l)
    /\ f.kind = "snapshot" => f.jobs = StateAt(l, f.cursor.seq)
    /\ f.kind = "event" => f.cursor.seq >= 1 /\ f.event = l[f.cursor.seq]

(* A cursor marks a place in a log there is or was. *)
Marks(c, ls, s) == c \in Cursors /\ c.store \in 1..s /\ c.seq <= Len(ls[c.store])

PageTyped ==
    /\ current \in 1..MaxStores /\ generation \in Loops /\ shown \in BOOLEAN
    /\ logs \in [1..MaxStores -> Seq(LogEvent)]
    /\ at \in [Loops -> LoopPlaces] /\ fresh \in [Loops -> BOOLEAN]
    /\ after \in [Loops -> Cursors \cup {NoCursor}] /\ stream \in [Loops -> Seq(Frames)]

Logged == \A s \in 1..MaxStores : LogOf(logs[s])

(* The frames on the way to a loop are of the store that runs; a snapshot comes first, and only to a
   loop that asked for it; one that asks with a cursor has one. *)
FramesOf(q, l, s, needs) ==
    \A i \in 1..Len(q) : FrameOf(l, s, q[i]) /\ (q[i].kind = "snapshot" => i = 1 /\ needs)
LoopOf(g) ==
    /\ stream[g] # <<>> => at[g] = "streaming"
    /\ FramesOf(stream[g], logs[current], current, fresh[g])
    /\ after[g] # NoCursor => Marks(after[g], logs, current)
    /\ at[g] = "fetching" /\ after[g] = NoCursor => fresh[g]
    /\ ~fresh[g] => cursor # NoCursor
    /\ g > generation \/ (g = generation /\ ~shown) => at[g] = "none"

(* The copy is the state of its cursor. *)
Copied ==
    /\ cursor # NoCursor => Marks(cursor, logs, current) /\ copy = StateAt(logs[cursor.store], cursor.seq)
    /\ cursor = NoCursor => copy = <<>>

(* A snapshot on the way to the current loop is no older than the copy. *)
Ahead ==
    LET q == stream[generation]
    IN  q # <<>> /\ q[1].kind = "snapshot" /\ cursor # NoCursor /\ cursor.store = current =>
            cursor.seq <= q[1].cursor.seq

CopyInv == PageTyped /\ Logged /\ (\A g \in Loops : LoopOf(g)) /\ Copied /\ Ahead

LEMMA PageConstants ==
    /\ MaxLog \in Nat /\ MaxStores \in Nat /\ MaxStores >= 1 /\ MaxLoops \in Nat /\ MaxLoops >= 1
    /\ NoCursor \notin Cursors
BY PageAssumption DEF Cursors

Outputs(l, n, j) == {i \in 1..n : l[i].kind = "output" /\ l[i].job = j}

(* How many bytes there are is a number, no greater than the events there are. *)
LEMMA BytesCount ==
    ASSUME NEW l, NEW n \in Nat, NEW j
    PROVE  /\ IsFiniteSet(Outputs(l, n, j))
           /\ Bytes(l, n, j) \in Nat /\ Bytes(l, n, j) <= n
<1> DEFINE S == {i \in 1..n : l[i].kind = "output" /\ l[i].job = j}
<1>1. IsFiniteSet(1..n) /\ Cardinality(1..n) = n
    BY FS_Interval
<1>2. S \subseteq 1..n
    OBVIOUS
<1>3. IsFiniteSet(S) /\ Cardinality(S) <= Cardinality(1..n)
    BY <1>1, <1>2, FS_Subset
<1>4. Cardinality(S) \in Nat
    BY <1>3, FS_CardinalityType
<1> QED BY <1>1, <1>3, <1>4 DEF Bytes, Outputs

(* A log that grows keeps its past. *)
LEMMA PastStays ==
    ASSUME NEW l \in Seq(LogEvent), NEW e \in LogEvent, NEW n \in Nat, n <= Len(l)
    PROVE  /\ StateAt(Append(l, e), n) = StateAt(l, n)
           /\ Accepted(Append(l, e), n) = Accepted(l, n)
<1> DEFINE m == Append(l, e)
<1>1. \A i \in 1..n : m[i] = l[i]
    OBVIOUS
<1> HIDE DEF m
<1>2. {i \in 1..n : m[i].kind = "accepted"} = {i \in 1..n : l[i].kind = "accepted"}
    BY <1>1
<1>3. Accepted(m, n) = Accepted(l, n)
    BY <1>1, <1>2 DEF Accepted
<1>4. ASSUME NEW j PROVE Bytes(m, n, j) = Bytes(l, n, j)
    <2>1. {i \in 1..n : m[i].kind = "output" /\ m[i].job = j} = {i \in 1..n : l[i].kind = "output" /\ l[i].job = j}
        BY <1>1
    <2> QED BY <2>1 DEF Bytes
<1>5. StateAt(m, n) = StateAt(l, n)
    BY <1>3, <1>4 DEF StateAt
<1> QED BY <1>3, <1>5 DEF m

(* What the first events make is a copy the page can hold. *)
LEMMA StateTyped ==
    ASSUME NEW l, LogOf(l), NEW n \in Nat, n <= Len(l)
    PROVE  /\ StateAt(l, n) \in Copies
           /\ DOMAIN StateAt(l, n) \subseteq Jobs
           /\ \A j \in DOMAIN StateAt(l, n) : StateAt(l, n)[j] \in 0..MaxLog
<1>1. Accepted(l, n) \subseteq Jobs
    <2> SUFFICES ASSUME NEW i \in 1..n PROVE l[i].job \in Jobs
        BY DEF Accepted
    <2>1. l \in Seq(LogEvent) /\ i \in 1..Len(l)
        BY DEF LogOf
    <2>2. l[i] \in LogEvent
        BY <2>1
    <2> QED BY <2>2 DEF LogEvent
<1>2. ASSUME NEW j PROVE Bytes(l, n, j) \in Nat /\ Bytes(l, n, j) \in 0..MaxLog
    <2>1. Bytes(l, n, j) \in Nat /\ Bytes(l, n, j) <= n
        BY BytesCount
    <2>2. Len(l) <= MaxLog /\ Len(l) \in Nat
        BY DEF LogOf
    <2> DEFINE b == Bytes(l, n, j)
    <2> HIDE DEF b
    <2>3. b \in Nat /\ b <= n
        BY <2>1 DEF b
    <2>4. b \in 0..MaxLog
        BY <2>2, <2>3, PageConstants
    <2> QED BY <2>3, <2>4 DEF b
<1>3. StateAt(l, n) \in [Accepted(l, n) -> Nat]
    BY <1>2 DEF StateAt
<1> QED BY <1>1, <1>2, <1>3 DEF StateAt, Copies

(* An event that was accepted makes a job without output; output adds to its job. *)
LEMMA StateNext ==
    ASSUME NEW l, LogOf(l), NEW n \in Nat, n + 1 <= Len(l),
           l[n + 1].kind = "accepted" => l[n + 1].job \notin Accepted(l, n)
    PROVE  StateAt(l, n + 1) =
             [j \in Accepted(l, n) \cup {l[n + 1].job} |->
                IF j # l[n + 1].job THEN StateAt(l, n)[j]
                ELSE IF l[n + 1].kind = "accepted" THEN 0 ELSE StateAt(l, n)[j] + 1]
<1> DEFINE e == l[n + 1]
           A(m) == {i \in 1..m : l[i].kind = "accepted"}
<1>0. e \in LogEvent /\ (e.kind = "output" => e.job \in Accepted(l, n))
    <2>1. l \in Seq(LogEvent) /\ n + 1 \in 1..Len(l) /\ (n + 1) - 1 = n
        BY DEF LogOf
    <2> QED BY <2>1 DEF LogOf
<1>k. e.kind = "accepted" \/ e.kind = "output"
    BY <1>0 DEF LogEvent
<1>i. 1..n + 1 = 1..n \cup {n + 1} /\ n + 1 \notin 1..n
    OBVIOUS
<1>a. Accepted(l, n) = {l[i].job : i \in A(n)} /\ Accepted(l, n + 1) = {l[i].job : i \in A(n + 1)}
    BY DEF Accepted
<1>1. Accepted(l, n + 1) = Accepted(l, n) \cup {e.job}
    <2>1. CASE e.kind = "accepted"
        <3>1. A(n + 1) = A(n) \cup {n + 1}
            BY <2>1, <1>i
        <3> QED BY <3>1, <1>a
    <2>2. CASE e.kind # "accepted"
        <3>1. A(n + 1) = A(n)
            BY <2>2, <1>i
        <3> QED BY <3>1, <1>a, <1>0, <1>k, <2>2
    <2> QED BY <2>1, <2>2
<1>2. ASSUME NEW j, ~(e.kind = "output" /\ j = e.job) PROVE Bytes(l, n + 1, j) = Bytes(l, n, j)
    <2>1. Outputs(l, n + 1, j) = Outputs(l, n, j)
        BY <1>2, <1>i DEF Outputs
    <2> QED BY <2>1 DEF Bytes, Outputs
<1>3. ASSUME e.kind = "output" PROVE Bytes(l, n + 1, e.job) = Bytes(l, n, e.job) + 1
    <2>0. \A i \in 1..n + 1 : i \in 1..n \/ i = n + 1
        BY <1>i
    <2>1. Outputs(l, n + 1, e.job) = Outputs(l, n, e.job) \cup {n + 1} /\ n + 1 \notin Outputs(l, n, e.job)
        <3>1. Outputs(l, n + 1, e.job) \subseteq Outputs(l, n, e.job) \cup {n + 1}
            BY <2>0 DEF Outputs
        <3>2. n + 1 \in Outputs(l, n + 1, e.job)
            BY <1>3 DEF Outputs
        <3>3. Outputs(l, n, e.job) \subseteq Outputs(l, n + 1, e.job)
            BY <1>i DEF Outputs
        <3> QED BY <3>1, <3>2, <3>3, <1>i DEF Outputs
    <2>2. IsFiniteSet(Outputs(l, n, e.job))
        BY BytesCount
    <2>3. Cardinality(Outputs(l, n + 1, e.job)) = Cardinality(Outputs(l, n, e.job)) + 1
        BY <2>1, <2>2, FS_AddElement
    <2> QED BY <2>3 DEF Bytes, Outputs
<1>4. ASSUME e.kind = "accepted" PROVE Bytes(l, n, e.job) = 0
    <2>1. ASSUME NEW i \in Outputs(l, n, e.job) PROVE FALSE
        <3>1. i \in 1..Len(l) /\ l[i].kind = "output" /\ l[i].job = e.job /\ i - 1 \in Nat /\ i - 1 <= n
            BY <2>1 DEF LogOf, Outputs
        <3>2. e.job \in Accepted(l, i - 1)
            BY <3>1 DEF LogOf
        <3>3. A(i - 1) \subseteq A(n)
            BY <3>1
        <3>4. Accepted(l, i - 1) \subseteq Accepted(l, n)
            BY <3>3 DEF Accepted
        <3> QED BY <1>4, <3>2, <3>4
    <2>2. Outputs(l, n, e.job) = {}
        BY <2>1
    <2> QED BY <2>2, FS_EmptySet DEF Bytes, Outputs
<1>5. \A j \in Accepted(l, n) : StateAt(l, n)[j] = Bytes(l, n, j)
    BY DEF StateAt
<1> HIDE DEF e
<1>6. ASSUME NEW j \in Accepted(l, n) \cup {e.job}
      PROVE  Bytes(l, n + 1, j) = IF j # e.job THEN StateAt(l, n)[j]
                                  ELSE IF e.kind = "accepted" THEN 0 ELSE StateAt(l, n)[j] + 1
    <2>1. CASE j # e.job
        BY <2>1, <1>2, <1>5
    <2>2. CASE j = e.job /\ e.kind = "accepted"
        BY <2>2, <1>2, <1>4
    <2>3. CASE j = e.job /\ e.kind = "output"
        BY <2>3, <1>3, <1>5, <1>0
    <2> QED BY <2>1, <2>2, <2>3, <1>k
<1>7. StateAt(l, n + 1) = [j \in Accepted(l, n) \cup {e.job} |-> Bytes(l, n + 1, j)]
    BY <1>1 DEF StateAt
<1> QED BY <1>6, <1>7 DEF e

-----------------------------------------------------------------------------
(* Steps of the service. *)

LEMMA FrameParts ==
    ASSUME NEW f \in Frames
    PROVE  /\ f.cursor \in Cursors /\ f.cursor.seq \in Nat /\ f.cursor.store \in Nat
           /\ f.kind \in {"snapshot", "event"}
           /\ f.kind = "event" => f.event \in LogEvent
           /\ f.kind = "snapshot" => f.jobs \in Copies
BY DEF Frames, Cursors

(* A log that grows takes nothing from the frames on the way. *)
LEMMA FrameStays ==
    ASSUME NEW l \in Seq(LogEvent), NEW e \in LogEvent, NEW s, NEW f \in Frames, FrameOf(l, s, f)
    PROVE  FrameOf(Append(l, e), s, f)
<1>1. f.cursor.seq \in Nat /\ f.cursor.seq <= Len(l)
    BY FrameParts DEF FrameOf
<1>2. StateAt(Append(l, e), f.cursor.seq) = StateAt(l, f.cursor.seq)
    BY <1>1, PastStays
<1>3. f.cursor.seq >= 1 => Append(l, e)[f.cursor.seq] = l[f.cursor.seq]
    BY <1>1
<1>4. f.cursor.seq <= Len(Append(l, e))
    BY <1>1
<1> QED BY <1>1, <1>2, <1>3, <1>4 DEF FrameOf

(* A frame more at the end of a stream. *)
LEMMA FramesAppend ==
    ASSUME NEW q \in Seq(Frames), NEW f \in Frames, NEW l, NEW s, NEW needs,
           FramesOf(q, l, s, needs), FrameOf(l, s, f), f.kind = "event"
    PROVE  FramesOf(Append(q, f), l, s, needs)
<1> SUFFICES ASSUME NEW i \in 1..Len(Append(q, f))
             PROVE  FrameOf(l, s, Append(q, f)[i]) /\ (Append(q, f)[i].kind = "snapshot" => i = 1 /\ needs)
    BY DEF FramesOf
<1>1. CASE i \in 1..Len(q)
    <2>1. Append(q, f)[i] = q[i]
        BY <1>1
    <2> QED BY <1>1, <2>1 DEF FramesOf
<1>2. CASE i \notin 1..Len(q)
    <2>1. Append(q, f)[i] = f
        BY <1>2
    <2> QED BY <2>1
<1> QED BY <1>1, <1>2

(* A place in a log stays one when logs grow. *)
LEMMA MarkStays ==
    ASSUME NEW ls, NEW ms, NEW s \in Nat, NEW t \in Nat, s <= t, NEW c, Marks(c, ls, s),
           \A x \in 1..s : Len(ls[x]) \in Nat /\ Len(ms[x]) \in Nat /\ Len(ms[x]) >= Len(ls[x])
    PROVE  Marks(c, ms, t)
<1>1. c \in Cursors /\ c.store \in 1..s /\ c.seq \in Nat /\ c.seq <= Len(ls[c.store])
    BY DEF Marks, Cursors
<1>2. c.store \in 1..t
    BY <1>1
<1>3. c.seq <= Len(ms[c.store])
    BY <1>1
<1> QED BY <1>1, <1>2, <1>3 DEF Marks

(* The event is well formed and of a job it may be of. *)
LEMMA LogGrows ==
    ASSUME NEW l, LogOf(l), NEW e \in LogEvent, Len(l) + 1 <= MaxLog,
           e.kind = "output" => e.job \in Accepted(l, Len(l))
    PROVE  LogOf(Append(l, e))
<1> DEFINE m == Append(l, e)
<1>0. l \in Seq(LogEvent) /\ m \in Seq(LogEvent) /\ Len(l) \in Nat /\ Len(m) = Len(l) + 1 /\ m[Len(l) + 1] = e
      /\ \A i \in 1..Len(l) : m[i] = l[i]
    BY DEF LogOf
<1>1. ASSUME NEW i \in 1..Len(m), m[i].kind = "output" PROVE m[i].job \in Accepted(m, i - 1)
    <2>0. i - 1 \in Nat /\ i - 1 <= Len(l)
        BY <1>0
    <2>1. Accepted(m, i - 1) = Accepted(l, i - 1)
        BY <1>0, <2>0, PastStays
    <2> HIDE DEF m
    <2>2. CASE i \in 1..Len(l)
        <3>1. l[i].kind = "output" /\ m[i] = l[i]
            BY <2>2, <1>0, <1>1
        <3> QED BY <2>1, <2>2, <3>1 DEF LogOf
    <2>3. CASE i = Len(l) + 1
        <3>1. i - 1 = Len(l) /\ m[i] = e
            BY <2>3, <1>0
        <3> QED BY <1>1, <2>1, <3>1
    <2> QED BY <2>2, <2>3, <1>0
<1> HIDE DEF m
<1>2. LogOf(m)
    BY <1>0, <1>1 DEF LogOf
<1> QED BY <1>2 DEF m

LEMMA PublishCopy ==
    ASSUME CopyInv, NEW kind \in {"accepted", "output"}, NEW j \in Jobs, Publish(kind, j)
    PROVE  CopyInv'
<1> DEFINE l == logs[current]
           n == Len(l) + 1
           e == [kind |-> kind, job |-> j, offset |-> Bytes(l, n - 1, j)]
           f == [kind |-> "event", cursor |-> Cursor(current, n), event |-> e]
<1>0. /\ n <= MaxLog /\ (kind = "accepted" <=> j \notin Accepted(l, n - 1))
      /\ logs' = [logs EXCEPT ![current] = Append(l, e)]
      /\ stream' = [g \in Loops |-> IF Open(g) THEN Append(stream[g], f) ELSE stream[g]]
      /\ UNCHANGED <<current, cursor, copy, generation, shown, at, fresh, after>>
    BY DEF Publish, projection
<1>l. /\ l \in Seq(LogEvent) /\ LogOf(l) /\ Len(l) \in Nat /\ n \in Nat /\ n - 1 = Len(l)
      /\ current \in 1..MaxStores /\ current \in Nat
    <2>1. current \in 1..MaxStores /\ current \in Nat
        BY PageConstants DEF CopyInv, PageTyped
    <2>2. l \in Seq(LogEvent) /\ LogOf(l)
        BY <2>1 DEF CopyInv, PageTyped, Logged
    <2>3. Len(l) \in Nat
        BY <2>2
    <2> HIDE DEF l
    <2>4. n \in Nat /\ n - 1 = Len(l)
        BY <2>3
    <2> QED BY <2>1, <2>2, <2>3, <2>4
<1>e. e \in LogEvent
    <2>1. Bytes(l, Len(l), j) \in Nat
        BY <1>l, BytesCount
    <2> QED BY <1>l, <2>1 DEF LogEvent
<1>f. f \in Frames /\ f.kind = "event" /\ FrameOf(Append(l, e), current, f)
    <2>1. f \in Frames
        BY <1>e, <1>l DEF Frames, Cursors, Cursor
    <2>2. Append(l, e)[n] = e /\ Len(Append(l, e)) = n
        BY <1>l, <1>e
    <2> QED BY <2>1, <2>2, <1>l DEF FrameOf, Cursor
<1>g. LogOf(Append(l, e))
    BY <1>0, <1>l, <1>e, LogGrows
<1>n. logs' \in [1..MaxStores -> Seq(LogEvent)] /\ logs'[current] = Append(l, e)
      /\ \A s \in 1..MaxStores : s # current => logs'[s] = logs[s]
    <2>1. Append(l, e) \in Seq(LogEvent)
        BY <1>l, <1>e
    <2> QED BY <1>0, <1>l, <2>1 DEF CopyInv, PageTyped
<1> HIDE DEF l, n, e, f
<1>s. ASSUME NEW g \in Loops
      PROVE  /\ stream'[g] = IF at[g] = "streaming" THEN Append(stream[g], f) ELSE stream[g]
             /\ stream[g] \in Seq(Frames)
    BY <1>0 DEF CopyInv, PageTyped, Open
<1>1. PageTyped'
    <2>1. stream' \in [Loops -> Seq(Frames)]
        <3>1. \A g \in Loops : Append(stream[g], f) \in Seq(Frames)
            BY <1>s, <1>f
        <3> QED BY <3>1, <1>s, <1>0
    <2> QED BY <1>0, <1>n, <2>1 DEF CopyInv, PageTyped
<1>2. Logged'
    BY <1>n, <1>g, <1>0 DEF CopyInv, Logged
<1>m. ASSUME NEW c, Marks(c, logs, current) PROVE Marks(c, logs', current)
    <2>1. \A x \in 1..current : Len(logs[x]) \in Nat /\ Len(logs'[x]) \in Nat /\ Len(logs'[x]) >= Len(logs[x])
        <3> TAKE x \in 1..current
        <3>1. x \in 1..MaxStores
            BY <1>l, PageConstants
        <3>2. logs[x] \in Seq(LogEvent) /\ logs'[x] \in Seq(LogEvent)
            BY <3>1, <1>n DEF CopyInv, PageTyped
        <3>3. CASE x = current
            <4>1. Len(Append(l, e)) = Len(l) + 1 /\ Len(l) \in Nat
                BY <1>l, <1>e
            <4>2. logs[x] = l /\ logs'[x] = Append(l, e)
                BY <3>3, <1>n DEF l
            <4> QED BY <4>1, <4>2
        <3>4. CASE x # current
            BY <3>1, <3>2, <3>4, <1>n
        <3> QED BY <3>3, <3>4
    <2> QED BY <1>m, <1>l, <2>1, MarkStays
<1>3. ASSUME NEW g \in Loops PROVE LoopOf(g)'
    <2>0. LoopOf(g) /\ at[g] = at'[g] /\ fresh'[g] = fresh[g] /\ after'[g] = after[g]
        BY <1>0 DEF CopyInv
    <2>1. FramesOf(stream[g], Append(l, e), current, fresh[g])
        <3> SUFFICES ASSUME NEW i \in 1..Len(stream[g])
                     PROVE  FrameOf(Append(l, e), current, stream[g][i])
            BY <2>0 DEF LoopOf, FramesOf
        <3>1. stream[g][i] \in Frames
            BY <1>s
        <3>2. FrameOf(l, current, stream[g][i])
            BY <2>0 DEF LoopOf, FramesOf, l
        <3> QED BY <3>1, <3>2, <1>l, <1>e, FrameStays
    <2>2. FramesOf(stream'[g], Append(l, e), current, fresh[g])
        <3>1. FramesOf(Append(stream[g], f), Append(l, e), current, fresh[g])
            BY <1>f, <1>s, <2>1, FramesAppend
        <3> QED BY <1>s, <2>1, <3>1
    <2>3. stream'[g] # <<>> => at[g] = "streaming"
        BY <1>s, <2>0 DEF LoopOf
    <2>4. after[g] # NoCursor => Marks(after[g], logs', current)
        BY <2>0, <1>m DEF LoopOf
    <2> QED BY <1>0, <1>n, <2>0, <2>2, <2>3, <2>4 DEF LoopOf
<1>4. Copied'
    <2>1. CASE cursor = NoCursor
        BY <2>1, <1>0 DEF CopyInv, Copied
    <2>2. CASE cursor # NoCursor
        <3>1. Marks(cursor, logs, current) /\ Marks(cursor, logs', current) /\ copy = StateAt(logs[cursor.store], cursor.seq)
            BY <2>2, <1>m DEF CopyInv, Copied
        <3>2. StateAt(logs'[cursor.store], cursor.seq) = StateAt(logs[cursor.store], cursor.seq)
            <4>1. cursor.store \in 1..MaxStores /\ cursor.seq \in Nat /\ cursor.seq <= Len(logs[cursor.store])
                BY <3>1, <1>l, PageConstants DEF Marks, Cursors
            <4>2. CASE cursor.store = current
                <5>1. StateAt(Append(l, e), cursor.seq) = StateAt(l, cursor.seq)
                    BY <4>1, <4>2, <1>l, <1>e, PastStays DEF l
                <5> QED BY <4>2, <5>1, <1>n DEF l
            <4> QED BY <4>1, <4>2, <1>n
        <3> QED BY <2>2, <3>1, <3>2, <1>0 DEF Copied
    <2> QED BY <2>1, <2>2
<1>5. Ahead'
    <2>0. generation \in Loops
        BY DEF CopyInv, PageTyped
    <2> DEFINE q == stream[generation]
    <2>1. q \in Seq(Frames) /\ stream'[generation] \in {q, Append(q, f)}
        BY <2>0, <1>s
    <2>2. CASE q = <<>>
        <3>1. Append(q, f)[1] = f
            BY <2>2
        <3> QED BY <2>1, <2>2, <3>1, <1>0, <1>f DEF Ahead
    <2>3. CASE q # <<>>
        <3>1. Append(q, f)[1] = q[1]
            BY <2>1, <2>3, <1>f
        <3>2. stream'[generation][1] = q[1]
            BY <2>1, <3>1
        <3> QED BY <2>3, <3>2, <1>0 DEF Ahead, CopyInv
    <2> QED BY <2>2, <2>3
<1> QED BY <1>1, <1>2, <1>3, <1>4, <1>5 DEF CopyInv

LEMMA ReplaceCopy ==
    ASSUME CopyInv, Replace
    PROVE  CopyInv'
<1>0. PICK lost \in {"broken", "invalid"} :
        /\ current < MaxStores /\ current' = current + 1
        /\ at' = [g \in Loops |-> IF Open(g) THEN lost ELSE at[g]]
        /\ stream' = [g \in Loops |-> <<>>]
        /\ UNCHANGED <<logs, cursor, copy, generation, shown, fresh, after>>
    BY DEF Replace, projection
<1>t. current \in Nat /\ current \in 1..MaxStores /\ current' \in 1..MaxStores /\ current' \in Nat /\ current <= current'
    BY <1>0, PageConstants DEF CopyInv, PageTyped
<1>m. ASSUME NEW c, Marks(c, logs, current) PROVE Marks(c, logs, current')
    <2>1. \A x \in 1..current : Len(logs[x]) \in Nat
        <3> TAKE x \in 1..current
        <3>1. x \in 1..MaxStores
            BY <1>t, PageConstants
        <3>2. logs[x] \in Seq(LogEvent)
            BY <3>1 DEF CopyInv, PageTyped
        <3> QED BY <3>2
    <2> QED BY <1>m, <1>t, <2>1, MarkStays
<1>1. PageTyped'
    BY <1>0, <1>t DEF CopyInv, PageTyped, LoopPlaces
<1>2. Logged'
    BY <1>0 DEF CopyInv, Logged
<1>3. ASSUME NEW g \in Loops PROVE LoopOf(g)'
    <2>0. /\ LoopOf(g) /\ stream'[g] = <<>> /\ at'[g] \in {at[g], "broken", "invalid"}
          /\ (at[g] # "streaming" => at'[g] = at[g]) /\ after'[g] = after[g] /\ fresh'[g] = fresh[g]
        BY <1>0 DEF CopyInv, Open
    <2>1. FramesOf(<<>>, logs[current'], current', fresh[g])
        BY DEF FramesOf
    <2>2. after[g] # NoCursor => Marks(after[g], logs, current')
        BY <2>0, <1>m DEF LoopOf
    <2> QED BY <1>0, <2>0, <2>1, <2>2 DEF LoopOf
<1>4. Copied'
    BY <1>0, <1>m DEF CopyInv, Copied
<1>5. Ahead'
    BY <1>0 DEF CopyInv, PageTyped, Ahead
<1> QED BY <1>1, <1>2, <1>3, <1>4, <1>5 DEF CopyInv

-----------------------------------------------------------------------------
(* Steps of the loops. *)

(* A loop that nothing happens to keeps what holds of it. *)
LEMMA LoopKeeps ==
    ASSUME NEW g \in Loops, LoopOf(g), UNCHANGED <<logs, current, generation, shown>>,
           cursor # NoCursor => cursor' # NoCursor,
           at'[g] = at[g], fresh'[g] = fresh[g], after'[g] = after[g], stream'[g] = stream[g]
    PROVE  LoopOf(g)'
BY DEF LoopOf

LEMMA CopyKeeps ==
    ASSUME CopyInv, UNCHANGED <<logs, current, cursor, copy>>
    PROVE  Logged' /\ Copied'
BY DEF CopyInv, Logged, Copied

LEMMA ConnectCopy ==
    ASSUME CopyInv, NEW g \in Loops, Connect(g)
    PROVE  CopyInv'
<1>0. /\ UNCHANGED <<logs, current, cursor, copy, generation, shown, fresh, stream>> /\ at[g] = "connecting"
      /\ \/ /\ Current(g) /\ at' = [at EXCEPT ![g] = "fetching"]
            /\ after' = [after EXCEPT ![g] = IF fresh[g] THEN NoCursor ELSE cursor]
         \/ at' = [at EXCEPT ![g] = "none"] /\ after' = after
    BY DEF Connect, service, projection
<1>c. cursor # NoCursor => cursor \in Cursors /\ Marks(cursor, logs, current)
    BY DEF CopyInv, Copied, Marks
<1>1. PageTyped'
    BY <1>0, <1>c DEF CopyInv, PageTyped, LoopPlaces
<1>2. Logged' /\ Copied'
    BY <1>0, CopyKeeps
<1>3. ASSUME NEW h \in Loops PROVE LoopOf(h)'
    <2>0. LoopOf(h)
        BY DEF CopyInv
    <2>1. CASE h # g
        BY <2>0, <2>1, <1>0, LoopKeeps DEF CopyInv, PageTyped
    <2>2. CASE h = g
        <3>1. /\ stream'[g] = stream[g] /\ fresh'[g] = fresh[g] /\ at'[g] \in {"fetching", "none"}
              /\ \/ Current(g) /\ after'[g] = IF fresh[g] THEN NoCursor ELSE cursor
                 \/ at'[g] = "none" /\ after'[g] = after[g]
            BY <1>0 DEF CopyInv, PageTyped
        <3>2. after'[g] # NoCursor => Marks(after'[g], logs, current)
            BY <3>1, <2>0, <2>2, <1>c DEF LoopOf
        <3>3. at'[g] = "fetching" /\ after'[g] = NoCursor => fresh[g]
            BY <3>1, <2>0, <2>2 DEF LoopOf
        <3>4. g > generation \/ (g = generation /\ ~shown) => at'[g] = "none"
            BY <2>0, <2>2, <1>0 DEF LoopOf
        <3> QED BY <2>0, <2>2, <1>0, <3>1, <3>2, <3>3, <3>4 DEF LoopOf
    <2> QED BY <2>1, <2>2
<1>4. Ahead'
    BY <1>0 DEF CopyInv, Ahead
<1> QED BY <1>1, <1>2, <1>3, <1>4 DEF CopyInv

(* A loop other than the current one does not concern Ahead. *)
LEMMA AheadKeeps ==
    ASSUME CopyInv, UNCHANGED <<current, cursor, generation>>, stream'[generation] = stream[generation]
    PROVE  Ahead'
BY DEF CopyInv, Ahead

(* What a stream that begins at a cursor holds. *)
LEMMA FollowingFrames ==
    ASSUME CopyInv, NEW c, Marks(c, logs, current), c.store = current, NEW needs
    PROVE  /\ Following(c.store, c.seq) \in Seq(Frames)
           /\ FramesOf(Following(c.store, c.seq), logs[current], current, needs)
           /\ \A i \in 1..Len(Following(c.store, c.seq)) : Following(c.store, c.seq)[i].kind = "event"
<1> DEFINE l == logs[current]
           n == c.seq
           q == Following(current, n)
<1>1. current \in 1..MaxStores /\ current \in Nat
    BY PageConstants DEF CopyInv, PageTyped
<1>2. l \in Seq(LogEvent) /\ Len(l) \in Nat
    <2>1. l \in Seq(LogEvent)
        BY <1>1 DEF CopyInv, PageTyped
    <2> QED BY <2>1
<1>3. n \in Nat /\ n <= Len(l)
    <2>1. c \in Cursors /\ c.seq <= Len(logs[c.store])
        BY DEF Marks
    <2> QED BY <2>1 DEF Cursors
<1> HIDE DEF n
<1>4. Len(l) - n \in Nat
    BY <1>2, <1>3
<1>5. ASSUME NEW i \in 1..Len(l) - n
      PROVE  /\ Event(current, n + i) \in Frames /\ Event(current, n + i).kind = "event"
             /\ FrameOf(l, current, Event(current, n + i))
    <2>1. n + i \in 1..Len(l) /\ n + i \in Nat
        BY <1>2, <1>3
    <2>2. l[n + i] \in LogEvent
        BY <2>1, <1>2
    <2> QED BY <2>1, <2>2, <1>1 DEF Event, Frames, Cursors, Cursor, FrameOf
<1>6. q = [i \in 1..Len(l) - n |-> Event(current, n + i)]
    BY DEF Following
<1> HIDE DEF q
<1>7. q \in Seq(Frames) /\ Len(q) = Len(l) - n
    BY <1>4, <1>5, <1>6
<1>8. ASSUME NEW i \in 1..Len(q) PROVE FrameOf(l, current, q[i]) /\ q[i].kind = "event"
    BY <1>5, <1>6, <1>7
<1>9. FramesOf(q, l, current, needs)
    BY <1>8 DEF FramesOf
<1> QED BY <1>7, <1>8, <1>9 DEF q, n

LEMMA RespondCopy ==
    ASSUME CopyInv, NEW g \in Loops, Respond(g)
    PROVE  CopyInv'
<1>0. UNCHANGED <<logs, current, cursor, copy, generation, shown, fresh, after>> /\ at[g] = "fetching"
    BY DEF Respond, service, projection
<1>c. LoopOf(g) /\ current \in 1..MaxStores /\ current \in Nat /\ generation \in Loops
    BY PageConstants DEF CopyInv, PageTyped
<1>1. PICK place \in {"streaming", "invalid"}, q \in Seq(Frames) :
        /\ at' = [at EXCEPT ![g] = place] /\ stream' = [stream EXCEPT ![g] = q]
        /\ FramesOf(q, logs[current], current, fresh[g])
        /\ q # <<>> => place = "streaming"
        /\ q # <<>> /\ q[1].kind = "snapshot" => q[1].cursor.seq = Len(logs[current])
    <2>1. CASE after[g] = NoCursor
        <3> DEFINE l == logs[current]
                   n == Len(l)
        <3>1. l \in Seq(LogEvent) /\ n \in Nat /\ LogOf(l)
            <4>1. l \in Seq(LogEvent) /\ LogOf(l)
                BY <1>c DEF CopyInv, PageTyped, Logged
            <4> QED BY <4>1
        <3>2. StateAt(l, n) \in Copies
            BY <3>1, StateTyped
        <3>3. Snapshot \in Frames /\ Snapshot.kind = "snapshot" /\ FrameOf(l, current, Snapshot) /\ Snapshot.cursor.seq = n
            BY <3>1, <3>2, <1>c DEF Snapshot, Frames, Cursors, Cursor, FrameOf
        <3>4. <<Snapshot>> \in Seq(Frames) /\ Len(<<Snapshot>>) = 1 /\ <<Snapshot>>[1] = Snapshot
            <4>1. Snapshot \in Frames
                BY <3>3
            <4> QED BY <4>1
        <3>5. fresh[g]
            BY <2>1, <1>0, <1>c DEF LoopOf
        <3>6. FramesOf(<<Snapshot>>, l, current, fresh[g])
            BY <3>3, <3>4, <3>5 DEF FramesOf
        <3>7. at' = [at EXCEPT ![g] = "streaming"] /\ stream' = [stream EXCEPT ![g] = <<Snapshot>>]
            BY <2>1 DEF Respond
        <3> QED BY <3>3, <3>4, <3>6, <3>7
    <2>2. CASE after[g] # NoCursor /\ after[g].store = current
        <3> DEFINE q == Following(after[g].store, after[g].seq)
        <3>1. Marks(after[g], logs, current)
            BY <2>2, <1>c DEF LoopOf
        <3>2. q \in Seq(Frames) /\ FramesOf(q, logs[current], current, fresh[g]) /\ \A i \in 1..Len(q) : q[i].kind = "event"
            BY <2>2, <3>1, FollowingFrames
        <3>3. at' = [at EXCEPT ![g] = "streaming"] /\ stream' = [stream EXCEPT ![g] = q]
            BY <2>2 DEF Respond
        <3> HIDE DEF q
        <3>4. q # <<>> => 1 \in 1..Len(q)
            BY <3>2
        <3> QED BY <3>2, <3>3, <3>4
    <2>3. CASE after[g] # NoCursor /\ after[g].store # current
        <3>1. at' = [at EXCEPT ![g] = "invalid"] /\ stream' = stream
            BY <2>3 DEF Respond
        <3>2. stream[g] = <<>>
            BY <1>0, <1>c DEF LoopOf
        <3>3. stream = [stream EXCEPT ![g] = <<>>]
            BY <3>2 DEF CopyInv, PageTyped
        <3>4. FramesOf(<<>>, logs[current], current, fresh[g]) /\ <<>> \in Seq(Frames)
            BY DEF FramesOf
        <3> QED BY <3>1, <3>3, <3>4
    <2> QED BY <2>1, <2>2, <2>3
<1>2. PageTyped'
    BY <1>0, <1>1 DEF CopyInv, PageTyped, LoopPlaces
<1>3. Logged' /\ Copied'
    BY <1>0, CopyKeeps
<1>4. ASSUME NEW h \in Loops PROVE LoopOf(h)'
    <2>0. LoopOf(h)
        BY DEF CopyInv
    <2>1. CASE h # g
        BY <2>0, <2>1, <1>0, <1>1, LoopKeeps DEF CopyInv, PageTyped
    <2>2. CASE h = g
        <3>1. stream'[g] = q /\ at'[g] = place
            BY <1>1 DEF CopyInv, PageTyped
        <3> QED BY <2>0, <2>2, <1>0, <1>1, <3>1 DEF LoopOf
    <2> QED BY <2>1, <2>2
<1>5. Ahead'
    <2>1. CASE g # generation
        BY <2>1, <1>0, <1>1, AheadKeeps DEF CopyInv, PageTyped
    <2>2. CASE g = generation
        <3>1. stream'[generation] = q
            BY <2>2, <1>1 DEF CopyInv, PageTyped
        <3>2. cursor # NoCursor /\ cursor.store = current => cursor.seq <= Len(logs[current])
            BY DEF CopyInv, Copied, Marks
        <3> QED BY <1>0, <1>1, <3>1, <3>2 DEF Ahead
    <2> QED BY <2>1, <2>2
<1> QED BY <1>2, <1>3, <1>4, <1>5 DEF CopyInv

(* A loop loses its stream. *)
LEMMA DropCopy ==
    ASSUME CopyInv, NEW g \in Loops, at[g] # "none", NEW place \in LoopPlaces \ {"fetching"},
           at' = [at EXCEPT ![g] = place], stream' = [stream EXCEPT ![g] = <<>>],
           UNCHANGED <<logs, current, cursor, copy, generation, shown, after>>,
           NEW needs \in BOOLEAN, fresh' = [fresh EXCEPT ![g] = needs], fresh[g] => needs
    PROVE  CopyInv'
<1>1. PageTyped'
    BY DEF CopyInv, PageTyped
<1>2. Logged' /\ Copied'
    BY CopyKeeps
<1>3. ASSUME NEW h \in Loops PROVE LoopOf(h)'
    <2>0. LoopOf(h)
        BY DEF CopyInv
    <2>1. CASE h # g
        BY <2>0, <2>1, LoopKeeps DEF CopyInv, PageTyped
    <2>2. CASE h = g
        <3>1. stream'[g] = <<>> /\ at'[g] = place /\ fresh'[g] = needs
            BY DEF CopyInv, PageTyped
        <3>2. FramesOf(<<>>, logs[current], current, needs)
            BY DEF FramesOf
        <3> QED BY <2>0, <2>2, <3>1, <3>2 DEF LoopOf
    <2> QED BY <2>1, <2>2
<1>4. Ahead'
    <2>1. CASE g # generation
        BY <2>1, AheadKeeps DEF CopyInv, PageTyped
    <2>2. CASE g = generation
        BY <2>2 DEF CopyInv, PageTyped, Ahead
    <2> QED BY <2>1, <2>2
<1> QED BY <1>1, <1>2, <1>3, <1>4 DEF CopyInv

LEMMA BreakCopy ==
    ASSUME CopyInv, NEW g \in Loops, Break(g) \/ Catch(g)
    PROVE  CopyInv'
<1>f. fresh = [fresh EXCEPT ![g] = fresh[g]] /\ fresh[g] \in BOOLEAN
    BY DEF CopyInv, PageTyped
<1>1. CASE Break(g)
    BY <1>1, <1>f, DropCopy DEF Break, service, projection, LoopPlaces
<1>2. CASE Catch(g)
    <2>0. UNCHANGED <<logs, current, cursor, copy, generation, shown, after, stream>> /\ at[g] \in {"broken", "invalid"}
        BY <1>2 DEF Catch, service, projection
    <2>1. stream[g] = <<>>
        BY <2>0 DEF CopyInv, LoopOf
    <2>2. stream' = [stream EXCEPT ![g] = <<>>]
        BY <2>0, <2>1 DEF CopyInv, PageTyped
    <2>3. CASE Current(g)
        <3>1. /\ at' = [at EXCEPT ![g] = "connecting"]
              /\ fresh' = [fresh EXCEPT ![g] = fresh[g] \/ at[g] = "invalid"]
            BY <1>2, <2>3 DEF Catch
        <3>2. (fresh[g] \/ at[g] = "invalid") \in BOOLEAN
            OBVIOUS
        <3> QED BY <2>0, <2>2, <3>1, <3>2, DropCopy DEF LoopPlaces
    <2>4. CASE ~Current(g)
        <3>1. at' = [at EXCEPT ![g] = "none"] /\ fresh' = fresh
            BY <1>2, <2>4 DEF Catch
        <3> QED BY <1>f, <2>0, <2>2, <3>1, DropCopy DEF LoopPlaces
    <2> QED BY <2>3, <2>4
<1> QED BY <1>1, <1>2

(* The page is hidden or shown. *)
LEMMA PageCopy ==
    ASSUME CopyInv, Hide \/ Show
    PROVE  CopyInv'
<1>g. generation \in Loops /\ Loops \subseteq Nat /\ generation \in Nat
    BY PageConstants DEF CopyInv, PageTyped, Loops
<1>1. CASE Hide
    <2>0. /\ shown' = FALSE /\ generation' = generation + 1 /\ generation < MaxLoops
          /\ UNCHANGED <<logs, current, cursor, copy, at, fresh, after, stream>>
        BY <1>1 DEF Hide, service, projection, loop
    <2>1. generation' \in Loops
        BY <2>0, <1>g, PageConstants DEF Loops
    <2>2. PageTyped' /\ Logged' /\ Copied'
        BY <2>0, <2>1, CopyKeeps DEF CopyInv, PageTyped
    <2>3. ASSUME NEW h \in Loops PROVE LoopOf(h)'
        <3>1. h \in Nat /\ (h > generation' \/ h = generation' => h > generation)
            BY <2>0, <1>g
        <3>2. h > generation => at[h] = "none"
            BY DEF CopyInv, LoopOf
        <3> QED BY <2>0, <3>1, <3>2 DEF CopyInv, LoopOf
    <2>4. stream[generation'] = <<>>
        <3>1. generation' > generation
            BY <2>0, <1>g
        <3> QED BY <2>1, <3>1 DEF CopyInv, LoopOf
    <2>5. Ahead'
        BY <2>0, <2>4 DEF Ahead
    <2> QED BY <2>2, <2>3, <2>5 DEF CopyInv
<1>2. CASE Show
    <2>0. /\ ~shown /\ shown' = TRUE /\ at' = [at EXCEPT ![generation] = "connecting"]
          /\ UNCHANGED <<logs, current, cursor, copy, generation, fresh, after, stream>>
        BY <1>2 DEF Show, service, projection
    <2>1. PageTyped' /\ Logged' /\ Copied' /\ Ahead'
        BY <2>0, CopyKeeps DEF CopyInv, PageTyped, LoopPlaces, Ahead
    <2>2. ASSUME NEW h \in Loops PROVE LoopOf(h)'
        <3>0. LoopOf(h) /\ h \in Nat
            BY <1>g DEF CopyInv
        <3>1. CASE h # generation
            <4>1. at'[h] = at[h]
                BY <2>0, <3>1, <1>g DEF CopyInv, PageTyped
            <4> QED BY <2>0, <3>0, <3>1, <4>1 DEF LoopOf
        <3>2. CASE h = generation
            <4>1. at'[h] = "connecting" /\ stream[h] = <<>>
                BY <2>0, <3>0, <3>2, <1>g DEF CopyInv, PageTyped, LoopOf
            <4>2. ~(h > generation)
                BY <3>2, <1>g
            <4> QED BY <2>0, <3>0, <3>2, <4>1, <4>2 DEF LoopOf
        <3> QED BY <3>1, <3>2
    <2> QED BY <2>1, <2>2 DEF CopyInv
<1> QED BY <1>1, <1>2

(* What is left of a stream whose first frame is taken: events. *)
LEMMA FramesTail ==
    ASSUME NEW q \in Seq(Frames), q # <<>>, NEW l, NEW s, NEW needs, FramesOf(q, l, s, needs), NEW r,
           r = Tail(q)
    PROVE  /\ r \in Seq(Frames) /\ FramesOf(r, l, s, FALSE)
           /\ r # <<>> => r[1].kind # "snapshot"
<1>1. r \in Seq(Frames) /\ Len(r) = Len(q) - 1 /\ Len(q) \in Nat /\ \A i \in 1..Len(r) : r[i] = q[i + 1]
    OBVIOUS
<1>2. ASSUME NEW i \in 1..Len(r) PROVE FrameOf(l, s, r[i]) /\ r[i].kind # "snapshot"
    <2>1. i + 1 \in 1..Len(q) /\ i + 1 # 1 /\ r[i] = q[i + 1]
        BY <1>1
    <2> QED BY <2>1 DEF FramesOf
<1>3. r # <<>> => 1 \in 1..Len(r)
    BY <1>1
<1> QED BY <1>1, <1>2, <1>3 DEF FramesOf

(* The current loop takes a frame. *)
LEMMA TakeCopy ==
    ASSUME CopyInv, NEW g \in Loops, Current(g), at[g] = "streaming", stream[g] # <<>>, Take(g),
           fresh' = [fresh EXCEPT ![g] = FALSE], UNCHANGED <<logs, current, generation, shown, after, at>>,
           cursor' # NoCursor, Copied'
    PROVE  CopyInv'
<1> DEFINE q == stream[g]
           r == Tail(q)
<1>0. q \in Seq(Frames) /\ LoopOf(g) /\ g = generation /\ stream' = [stream EXCEPT ![g] = r] /\ stream'[g] = r
    BY DEF CopyInv, PageTyped, Current, Take
<1>1. r \in Seq(Frames) /\ FramesOf(r, logs[current], current, FALSE) /\ (r # <<>> => r[1].kind # "snapshot")
    BY <1>0, FramesTail DEF LoopOf
<1> HIDE DEF r
<1>2. PageTyped'
    BY <1>0, <1>1 DEF CopyInv, PageTyped
<1>3. Logged'
    BY DEF CopyInv, Logged
<1>4. ASSUME NEW h \in Loops PROVE LoopOf(h)'
    <2>0. LoopOf(h)
        BY DEF CopyInv
    <2>1. CASE h # g
        BY <2>0, <2>1, <1>0, LoopKeeps DEF CopyInv, PageTyped
    <2>2. CASE h = g
        <3>1. fresh'[g] = FALSE
            BY DEF CopyInv, PageTyped
        <3> QED BY <2>0, <2>2, <1>0, <1>1, <3>1 DEF LoopOf
    <2> QED BY <2>1, <2>2
<1>5. Ahead'
    BY <1>0, <1>1 DEF Ahead
<1> QED BY <1>2, <1>3, <1>4, <1>5 DEF CopyInv

(* The cursor stays or moves on. *)
Forward ==
    cursor # NoCursor =>
        /\ cursor' # NoCursor
        /\ \/ cursor'.store = cursor.store /\ cursor'.seq >= cursor.seq
           \/ cursor'.store > cursor.store

LEMMA CursorStays ==
    ASSUME CopyInv, cursor' = cursor
    PROVE  Forward
BY DEF Forward, CopyInv, Copied, Marks, Cursors

LEMMA ApplyCopy ==
    ASSUME CopyInv, NEW g \in Loops, Apply(g)
    PROVE  CopyInv' /\ Forward
<1> DEFINE f == stream[g][1]
           l == logs[current]
<1>0. at[g] = "streaming" /\ stream[g] # <<>> /\ UNCHANGED <<logs, current, generation, shown, after>>
    BY DEF Apply, service
<1>c. current \in 1..MaxStores /\ current \in Nat
    BY PageConstants DEF CopyInv, PageTyped
<1>1. /\ LoopOf(g) /\ stream[g] \in Seq(Frames) /\ fresh[g] \in BOOLEAN /\ LogOf(l)
      /\ (~fresh[g] => fresh = [fresh EXCEPT ![g] = FALSE])
    BY <1>c DEF CopyInv, PageTyped, Logged
<1>2. 1 \in 1..Len(stream[g]) /\ f \in Frames
    BY <1>0, <1>1
<1>3. FrameOf(l, current, f) /\ (f.kind = "snapshot" => fresh[g])
    BY <1>1, <1>2 DEF LoopOf, FramesOf
<1>f. f.cursor \in Cursors /\ f.cursor # NoCursor /\ f.cursor.store = current /\ f.cursor.seq \in Nat
      /\ f.cursor.seq <= Len(l) /\ f.kind \in {"snapshot", "event"}
    BY <1>2, <1>3, FrameParts, PageConstants DEF FrameOf
<1>m. Marks(f.cursor, logs, current)
    BY <1>f, <1>c DEF Marks
<1>4. CASE Current(g) /\ f.kind = "snapshot" /\ fresh[g]
    <2>1. copy' = f.jobs /\ cursor' = f.cursor /\ fresh' = [fresh EXCEPT ![g] = FALSE] /\ Take(g) /\ at' = at
        BY <1>4 DEF Apply, snapshot
    <2> HIDE DEF f
    <2>2. Copied'
        BY <1>0, <1>3, <1>4, <1>f, <1>m, <2>1 DEF Copied, FrameOf
    <2>3. CopyInv'
        BY <1>0, <1>4, <1>f, <2>1, <2>2, TakeCopy
    <2>4. Forward
        <3> SUFFICES ASSUME cursor # NoCursor
                     PROVE  (cursor'.store = cursor.store /\ cursor'.seq >= cursor.seq) \/ cursor'.store > cursor.store
            BY <1>f, <2>1 DEF Forward
        <3>1. cursor \in Cursors /\ cursor.store \in 1..current
            BY DEF CopyInv, Copied, Marks
        <3>2. cursor.store = current => cursor.seq <= f.cursor.seq
            BY <1>0, <1>4 DEF CopyInv, Ahead, Current, f
        <3> QED BY <1>c, <1>f, <2>1, <3>1, <3>2 DEF Cursors
    <2> QED BY <2>3, <2>4
<1>5. CASE Current(g) /\ ~fresh[g] /\ Old(f)
    <2>1. Take(g) /\ UNCHANGED <<cursor, copy, fresh, at>>
        BY <1>5 DEF Apply, projection
    <2>2. cursor' # NoCursor /\ Copied'
        BY <1>0, <1>5, <2>1, CopyKeeps DEF Old
    <2> QED BY <1>0, <1>1, <1>5, <2>1, <2>2, TakeCopy, CursorStays
<1>6. CASE Current(g) /\ ~fresh[g] /\ ~Old(f) /\ Fits(f)
    <2> DEFINE n == cursor.seq
    <2>1. Take(g) /\ event(f) /\ UNCHANGED <<fresh, at>>
        BY <1>6 DEF Apply
    <2>2. /\ cursor # NoCursor /\ cursor.store = current /\ f.cursor.seq = n + 1 /\ copy = StateAt(l, n)
          /\ cursor \in Cursors /\ n \in Nat
        BY <1>6, <1>f DEF Fits, CopyInv, Copied, Marks, Cursors
    <2>3. f.event = l[n + 1] /\ n + 1 <= Len(l)
        BY <1>3, <1>6, <1>f, <2>2 DEF FrameOf
    <2>4. DOMAIN copy = Accepted(l, n)
        BY <2>2 DEF StateAt
    <2>5. l[n + 1].kind = "accepted" => l[n + 1].job \notin Accepted(l, n)
        BY <1>6, <2>3, <2>4 DEF Fits
    <2>6. StateAt(l, n + 1) =
             [j \in Accepted(l, n) \cup {l[n + 1].job} |->
                IF j # l[n + 1].job THEN StateAt(l, n)[j]
                ELSE IF l[n + 1].kind = "accepted" THEN 0 ELSE StateAt(l, n)[j] + 1]
        <3>1. LogOf(l) /\ n \in Nat /\ n + 1 <= Len(l)
            BY <1>1, <2>2, <2>3
        <3> HIDE DEF l, n
        <3> QED BY <2>5, <3>1, StateNext
    <2>7. copy' = StateAt(l, n + 1) /\ cursor' = f.cursor
        BY <2>1, <2>2, <2>3, <2>4, <2>6 DEF event
    <2> HIDE DEF f, n
    <2>8. Copied' /\ cursor' # NoCursor
        BY <1>0, <1>f, <1>m, <2>2, <2>7 DEF Copied
    <2>9. Forward
        BY <1>f, <2>2, <2>7 DEF Forward, n
    <2> QED BY <1>0, <1>1, <1>6, <2>1, <2>8, <2>9, TakeCopy
<1>7. CASE /\ ~(Current(g) /\ f.kind = "snapshot" /\ fresh[g])
           /\ ~(Current(g) /\ ~fresh[g] /\ Old(f))
           /\ ~(Current(g) /\ ~fresh[g] /\ Fits(f))
    <2>1. /\ at' = [at EXCEPT ![g] = "invalid"] /\ stream' = [stream EXCEPT ![g] = <<>>]
          /\ UNCHANGED <<cursor, copy, fresh>>
        BY <1>7 DEF Apply, projection
    <2>2. fresh' = [fresh EXCEPT ![g] = fresh[g]]
        BY <2>1 DEF CopyInv, PageTyped
    <2> QED BY <1>0, <1>1, <2>1, <2>2, DropCopy, CursorStays DEF LoopPlaces
<1> QED BY <1>4, <1>5, <1>6, <1>7

LEMMA CopyStart == PageInit => CopyInv
<1> SUFFICES ASSUME PageInit PROVE CopyInv
    OBVIOUS
<1>1. PageTyped
    BY PageConstants DEF PageInit, PageTyped, Loops, LoopPlaces
<1>2. Logged
    BY PageConstants DEF PageInit, Logged, LogOf
<1>3. ASSUME NEW g \in Loops PROVE LoopOf(g)
    <2>1. stream[g] = <<>> /\ after[g] = NoCursor /\ fresh[g] = TRUE /\ at[g] = IF g = 1 THEN "connecting" ELSE "none"
        BY DEF PageInit
    <2>2. FramesOf(<<>>, logs[current], current, TRUE)
        BY DEF FramesOf
    <2>3. generation = 1 /\ shown = TRUE /\ g \in Nat
        BY PageConstants DEF PageInit, Loops
    <2>4. g > 1 => at[g] = "none"
        BY <2>1, <2>3
    <2> QED BY <2>1, <2>2, <2>3, <2>4 DEF LoopOf
<1>4. Copied
    BY DEF PageInit, Copied
<1>5. Ahead
    BY <1>1 DEF PageInit, Ahead, PageTyped
<1> QED BY <1>1, <1>2, <1>3, <1>4, <1>5 DEF CopyInv

LEMMA CopyStep == CopyInv /\ [PageNext]_pageVars => CopyInv' /\ Forward
<1> SUFFICES ASSUME CopyInv, [PageNext]_pageVars PROVE CopyInv' /\ Forward
    OBVIOUS
<1>1. CASE UNCHANGED pageVars
    <2>1. UNCHANGED <<current, logs, cursor, copy, generation, shown, at, fresh, after, stream>>
        BY <1>1 DEF pageVars, service, projection, loop
    <2>2. PageTyped' /\ Ahead' /\ Logged' /\ Copied'
        BY <2>1, CopyKeeps DEF CopyInv, PageTyped, Ahead
    <2>3. ASSUME NEW g \in Loops PROVE LoopOf(g)'
        BY <2>1, LoopKeeps DEF CopyInv
    <2> QED BY <2>1, <2>2, <2>3, CursorStays DEF CopyInv
<1>2. ASSUME NEW kind \in {"accepted", "output"}, NEW j \in Jobs, Publish(kind, j) PROVE CopyInv' /\ Forward
    BY <1>2, PublishCopy, CursorStays DEF Publish, projection
<1>3. CASE Replace
    BY <1>3, ReplaceCopy, CursorStays DEF Replace, projection
<1>4. CASE Hide \/ Show
    BY <1>4, PageCopy, CursorStays DEF Hide, Show, projection
<1>5. ASSUME NEW g \in Loops, Step(g) \/ Break(g) PROVE CopyInv' /\ Forward
    <2>1. CASE Connect(g)
        BY <2>1, ConnectCopy, CursorStays DEF Connect, projection
    <2>2. CASE Respond(g)
        BY <2>2, RespondCopy, CursorStays DEF Respond, projection
    <2>3. CASE Break(g) \/ Catch(g)
        BY <2>3, BreakCopy, CursorStays DEF Break, Catch, projection
    <2> QED BY <1>5, <2>1, <2>2, <2>3, ApplyCopy DEF Step
<1> QED BY <1>1, <1>2, <1>3, <1>4, <1>5 DEF PageNext

(* The inductive invariant of the page's copy: what the frames on the way hold, and that the loop
   that applies one has the state it was made for. *)
THEOREM CopyInvariant == PageSpec => []CopyInv
BY CopyStart, CopyStep, PTL DEF PageSpec

(* The page shows the state of its cursor, in every job and byte, whatever breaks, restarts or
   reconnects (Projection.snapshot, Projection.event, synchronize). *)
THEOREM PastTheorem == PageSpec => []ShowsThePast
<1>1. CopyInv => ShowsThePast
    <2> SUFFICES ASSUME CopyInv PROVE ShowsThePast
        OBVIOUS
    <2>1. DOMAIN copy \subseteq Jobs /\ \A j \in DOMAIN copy : copy[j] \in 0..MaxLog
        <3>1. CASE cursor = NoCursor
            BY <3>1 DEF CopyInv, Copied
        <3>2. CASE cursor # NoCursor
            <4> DEFINE l == logs[cursor.store]
            <4>1. Marks(cursor, logs, current) /\ copy = StateAt(l, cursor.seq)
                BY <3>2 DEF CopyInv, Copied
            <4>2. cursor.store \in 1..MaxStores /\ cursor.seq \in Nat /\ cursor.seq <= Len(l)
                BY <4>1, PageConstants DEF Marks, Cursors, CopyInv, PageTyped
            <4>3. LogOf(l)
                BY <4>2 DEF CopyInv, Logged
            <4> QED BY <4>1, <4>2, <4>3, StateTyped
        <3> QED BY <3>1, <3>2
    <2>2. PageTypeOK
        BY <2>1 DEF CopyInv, PageTyped, LoopOf, LoopPlaces, PageTypeOK
    <2> QED BY <2>2 DEF CopyInv, Copied, ShowsThePast
<1> QED BY <1>1, CopyInvariant, PTL

(* The page never goes back to an earlier event or an earlier store, although the loop of before it
   was hidden still has frames on the way (the generation check of synchronize). *)
THEOREM BackTheorem == PageSpec => NeverBack
<1>1. CopyInv /\ [PageNext]_pageVars => [Forward]_pageVars
    BY CopyStep
<1> QED BY <1>1, CopyInvariant, PTL DEF PageSpec, NeverBack, Forward
==============================================================================
