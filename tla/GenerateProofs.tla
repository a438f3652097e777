--------------------------- MODULE GenerateProofs ---------------------------
(***************************************************************************)
(* One inference against a daemon with other users: the prompt goes only   *)
(* to a model it fits, the outcome names its cause and a success is the    *)
(* whole answer, for any models, requests and bounds and however often     *)
(* others change the model.                                                *)
(*                                                                         *)
(* From "Modelfile: pieces of texts" on: no field of a model can hide a    *)
(* directive of its Modelfile, for any texts of any length.  What was      *)
(* written for a value is read as that value, or refused, and the loop is  *)
(* always at the line of a directive.                                      *)
(***************************************************************************)
EXTENDS Generate, Modelfile, SequenceTheorems, WellFoundedInduction, TLAPS

Digests == {m.digest : m \in Models}
Resident == [digest : Digests, allocation : Nat]
Info == [capacity : Nat, estimate : Nat, loaded : Nat]
Codes == {"ok", "invalid_request", "unavailable", "failure", "limit_exceeded", "cancelled",
          "unsupported", "refused"}
Phases == {"version", "tags", "show", "load", "retags", "reshow", "ps", "prompt", "chat", "last",
           "returned"}

(* Where the call is. *)
Chosen == phase \notin {"version", "tags", "returned"}      \* it has a first digest
Loaded == phase \in {"retags", "reshow", "ps", "prompt", "chat", "last"}
Rechecked == phase \in {"ps", "prompt", "chat", "last"}
Budgeted == phase \in {"prompt", "chat", "last"}

(* The types, complete. *)
TypeInv ==
    /\ TypeOK
    /\ resident \in {None} \cup Resident
    /\ changes \in Nat /\ changed \in BOOLEAN /\ faulty \in BOOLEAN
    /\ phase \in Phases /\ outcome \in {None} \cup Codes
    /\ info \in Info
    /\ wire \in Seq(Lines) /\ end \in {"open", "clean", "cut"}
    /\ total \in 0..Len(wire) /\ output \in Nat /\ done \in BOOLEAN /\ emitted \in Seq(Nat)

(* What the call knows of the model is true, unless others changed it meanwhile. *)
ModelInv ==
    /\ changes = 0 => /\ Chosen => first = manifest.digest
                      /\ phase = "reshow" \/ Rechecked => second = manifest.digest
    /\ Rechecked => first = second
    /\ Loaded /\ ~changed =>
          /\ manifest \in Models
          /\ resident # None /\ resident.digest = manifest.digest
          /\ request.requested \in {0, resident.allocation}
          /\ phase = "reshow" \/ Rechecked => second = manifest.digest
          /\ Rechecked => info.capacity = manifest.capacity /\ info.estimate = manifest.estimate
          /\ Budgeted => info.loaded = resident.allocation
    /\ Budgeted => budget(info)

(* An answer as far as it was read: its lines are good, the terminal record is the last of them,
   and their text was emitted. *)
ReadInv ==
    /\ \A i \in 1..total - 1 : ~wire[i].done
    /\ done = (total > 0 /\ wire[total].done)
    /\ output = Len(emitted)
    /\ \A k \in 1..Len(emitted) : emitted[k] \in 1..total /\ wire[emitted[k]].text
    /\ \A i \in 1..total : wire[i].text => \E k \in 1..Len(emitted) : emitted[k] = i
    /\ \A k \in 1..Len(emitted) - 1 : emitted[k] < emitted[k + 1]

StreamInv ==
    /\ Bounded
    /\ phase \in {"chat", "last"} => ReadInv /\ total <= StreamLimit
    /\ phase \notin {"chat", "last", "returned"} =>
          /\ wire = <<>> /\ end = "open"
          /\ total = 0 /\ output = 0 /\ ~done /\ emitted = <<>>
    /\ ~faulty => /\ \A i \in 1..Len(wire) : wire[i].good
                  /\ \A i \in 1..Len(wire) - 1 : ~wire[i].done
                  /\ end # "cut" /\ (end = "clean" => Ended)
    /\ phase = "last" => end = "clean" /\ done /\ total = Len(wire)

Inv == TypeInv /\ ModelInv /\ StreamInv /\ HonestCause /\ WholeAnswer

-----------------------------------------------------------------------------
(* The types. *)

LEMMA Constants ==
    /\ \A m \in Models : m.digest \in Digests /\ m.capacity \in Nat /\ m.estimate \in Nat
                         /\ m.usable \in BOOLEAN
    /\ \A r \in Requests : r.requested \in Nat /\ r.reserve \in Nat
    /\ \A a \in Allocations : a \in Nat
    /\ MaxOutputBytes \in Nat /\ StreamLimit \in Nat /\ Absent \notin Models
    /\ None \notin Resident /\ None \notin Codes
<1>1. \A m \in Models : m.digest \in Digests /\ m.capacity \in Nat /\ m.estimate \in Nat
                        /\ m.usable \in BOOLEAN
  BY ModelAssumption DEF Digests
<1>2. \A r \in Requests : r.requested \in Nat /\ r.reserve \in Nat BY ModelAssumption
<1>3. \A a \in Allocations : a \in Nat BY ModelAssumption
<1>4. MaxOutputBytes \in Nat /\ StreamLimit \in Nat BY ModelAssumption
<1>5. Absent \notin Models /\ None \notin Resident /\ None \notin Codes
  BY NoneAssumption DEF Resident, Digests, Codes
<1> QED BY <1>1, <1>2, <1>3, <1>4, <1>5

(* A model is in memory after Loads, with the size asked for. *)
LEMMA LoadsModel ==
    ASSUME TypeInv, manifest \in Models, Loads
    PROVE  /\ resident' \in Resident /\ resident' # None /\ resident'.digest = manifest.digest
           /\ request.requested \in {0, resident'.allocation}
           /\ resident # None /\ resident.digest = manifest.digest
                 /\ request.requested \in {0, resident.allocation} => resident' = resident
<1>1. manifest.digest \in Digests /\ request.requested \in Nat BY Constants DEF TypeInv, TypeOK
<1>2. CASE /\ resident # None /\ resident.digest = manifest.digest
           /\ request.requested \in {0, resident.allocation}
  BY <1>2 DEF Loads, TypeInv
<1>3. CASE ~(/\ resident # None /\ resident.digest = manifest.digest
             /\ request.requested \in {0, resident.allocation})
  <2>1. PICK a \in IF request.requested # 0 THEN {request.requested} ELSE Allocations :
            resident' = [digest |-> manifest.digest, allocation |-> a]
    BY <1>3 DEF Loads
  <2>2. a \in Nat BY <1>1, <2>1, Constants
  <2>3. resident' \in Resident BY <1>1, <2>1, <2>2 DEF Resident
  <2>4. resident' # None BY <2>3, Constants
  <2>5. request.requested \in {0, a} BY <2>1
  <2> QED BY <1>3, <2>1, <2>3, <2>4, <2>5
<1> QED BY <1>2, <1>3

(* A return has a code. *)
LEMMA ReturnCodes ==
    ASSUME NEW code \in Codes, Return(code)
    PROVE  phase' = "returned" /\ outcome' \in Codes /\ outcome' # None
BY Constants DEF Return, Codes

LEMMA TransportCode == transportError \in Codes BY DEF transportError, Codes

(* What a read does. *)
Line == wire[total + 1]
Size == output + (IF Line.text THEN 1 ELSE 0)

LEMMA ReadCases ==
    ASSUME TypeInv, ReadLine
    PROVE  /\ phase = "chat" /\ UNCHANGED <<daemon, request, ctx, found, wire, end, faulty>>
           /\ total' = total + 1 /\ total' \in 1..Len(wire) /\ Line \in Lines
           /\ \/ /\ \/ Return("limit_exceeded")
                    \/ ctx # "live" /\ Return(transportError)
                    \/ (done \/ ~Line.good) /\ Return("failure")
                 /\ UNCHANGED <<output, done, emitted>>
              \/ /\ Line.text /\ Size <= MaxOutputBytes /\ output' = Size /\ Return("refused")
                 /\ UNCHANGED <<done, emitted>>
              \/ /\ total' <= StreamLimit /\ ~done /\ Line.good /\ Size <= MaxOutputBytes
                 /\ output' = Size /\ done' = Line.done
                 /\ emitted' = IF Line.text THEN Append(emitted, total + 1) ELSE emitted
                 /\ UNCHANGED <<phase, outcome>>
<1>1. total \in Nat /\ Len(wire) \in Nat /\ total < Len(wire) /\ total' = total + 1
      /\ wire \in Seq(Lines)
  BY DEF ReadLine, TypeInv
<1>2. total' \in 1..Len(wire) /\ Line \in Lines BY <1>1 DEF Line
<1>3. output \in Nat /\ Size \in Nat BY DEF TypeInv, Size
<1>4. ~exceeds(Size) => Size <= MaxOutputBytes BY <1>3, Constants DEF exceeds
<1>5. ~(total' > StreamLimit) => total' <= StreamLimit BY <1>1, Constants
<1> HIDE DEF exceeds
<1> QED BY <1>1, <1>2, <1>4, <1>5 DEF ReadLine, Line, Size

LEMMA TypeKept == ASSUME TypeInv, [Next]_vars PROVE TypeInv'
<1>0. TypeOK /\ manifest \in Models \cup {Absent} /\ request \in Requests
  BY DEF TypeInv, TypeOK
<1>p. phase \in Phases /\ (phase = "returned" <=> outcome # None)
  BY DEF TypeInv, TypeOK
<1>1. ASSUME phase # "returned", UNCHANGED <<daemon, request, ctx, wire, end, reader, faulty>>,
             info' \in Info,
             \/ \E next \in Phases \ {"returned"} : To(next)
             \/ \E code \in Codes : Return(code)
      PROVE  TypeInv'
  <2>1. phase' \in Phases /\ outcome' \in {None} \cup Codes /\ (phase' = "returned") = (outcome' # None)
    <3>1. CASE \E next \in Phases \ {"returned"} : To(next) BY <1>1, <1>p, <3>1 DEF To, TypeInv
    <3>2. CASE \E code \in Codes : Return(code)
      <4>1. phase' = "returned" /\ outcome' \in Codes /\ outcome' # None BY <3>2, ReturnCodes
      <4> QED BY <4>1 DEF Phases
    <3> QED BY <1>1, <3>1, <3>2
  <2> QED BY <1>1, <2>1 DEF TypeInv, TypeOK, daemon, reader
<1>2. CASE Version
  <2>1. To("tags") \/ Return("unsupported") BY <1>2 DEF Version
  <2>2. "tags" \in Phases \ {"returned"} /\ "unsupported" \in Codes BY DEF Codes, Phases
  <2>3. info' \in Info BY <1>2 DEF Version, found, TypeInv
  <2> QED BY <1>1, <1>2, <2>1, <2>2, <2>3 DEF Version
<1>3. CASE Tags
  <2>1. To("show") \/ To("reshow") \/ Return("invalid_request") BY <1>3 DEF Tags
  <2>2. {"show", "reshow"} \subseteq Phases \ {"returned"} /\ "invalid_request" \in Codes
    BY DEF Codes, Phases
  <2>3. info' \in Info /\ phase # "returned" BY <1>3 DEF Tags, found, TypeInv
  <2> QED BY <1>1, <1>3, <2>1, <2>2, <2>3 DEF Tags
<1>4. CASE Show \/ Reshow
  <2>1. manifest \in Models => Described(manifest) \in Info
    BY Constants DEF Described, TypeInv, Info
  <2>2. info' \in Info BY <1>0, <1>4, <2>1 DEF Show, Reshow, TypeInv
  <2> QED BY <1>1, <1>4, <2>2 DEF Show, Reshow, Codes, Phases
<1>5. CASE Ps \/ Observe
  <2>1. loaded \in Nat BY DEF loaded, TypeInv, Resident
  <2>2. info' \in Info BY <1>5, <2>1 DEF Ps, Observe, TypeInv, Info
  <2>3. CASE Ps BY <1>1, <2>2, <2>3 DEF Ps, Codes, Phases
  <2>4. CASE Observe BY <1>1, <2>2, <2>4, TransportCode DEF Observe, Codes
  <2> QED BY <1>5, <2>3, <2>4
<1>6. CASE Load \/ Prompt
  <2>1. CASE manifest = Absent
    BY <1>1, <1>6, <2>1 DEF Load, Prompt, daemon, found, TypeInv, Codes
  <2>2. CASE manifest # Absent
    <3>1. Loads /\ manifest \in Models BY <1>0, <1>6, <2>2 DEF Load, Prompt
    <3>2. resident' \in Resident BY <3>1, LoadsModel
    <3>3. phase' \in Phases \ {"returned"} /\ outcome' = outcome /\ changed' \in BOOLEAN
          /\ phase # "returned"
      BY <1>6, <2>2 DEF Load, Prompt, To, Phases, TypeInv
    <3>4. UNCHANGED <<manifest, changes, request, ctx, found, wire, end, reader, faulty>>
      BY <1>6, <2>2 DEF Load, Prompt
    <3> QED BY <1>p, <3>2, <3>3, <3>4 DEF TypeInv, TypeOK, found, reader
  <2> QED BY <2>1, <2>2
<1>7. CASE ReadLine
  <2>1. total \in Nat /\ total' \in 1..Len(wire) /\ total' = total + 1 /\ Len(wire) \in Nat
        /\ Line \in Lines
    BY <1>7, ReadCases DEF TypeInv
  <2>2. output' \in Nat /\ done' \in BOOLEAN /\ emitted' \in Seq(Nat)
    <3>1. output \in Nat /\ done \in BOOLEAN /\ emitted \in Seq(Nat) BY DEF TypeInv
    <3>2. Size \in Nat BY <3>1 DEF Size
    <3>3. Line.done \in BOOLEAN BY <2>1 DEF Lines
    <3>4. Append(emitted, total + 1) \in Seq(Nat) BY <2>1, <3>1
    <3> QED BY <1>7, <3>1, <3>2, <3>3, <3>4, ReadCases
  <2>3. phase' \in Phases /\ outcome' \in {None} \cup Codes /\ (phase' = "returned") = (outcome' # None)
    <3>1. CASE UNCHANGED <<phase, outcome>> BY <1>p, <3>1 DEF TypeInv
    <3>2. CASE \E code \in Codes : Return(code)
      <4>1. phase' = "returned" /\ outcome' \in Codes /\ outcome' # None BY <3>2, ReturnCodes
      <4> QED BY <4>1 DEF Phases
    <3>3. {"limit_exceeded", "failure", "refused", transportError} \subseteq Codes
      BY TransportCode DEF Codes
    <3> QED BY <1>7, <3>1, <3>2, <3>3, ReadCases
  <2>4. UNCHANGED <<daemon, request, ctx, found, wire, end, faulty>> BY <1>7, ReadCases
  <2>5. total' \in 0..Len(wire') BY <2>1, <2>4
  <2> QED BY <2>2, <2>3, <2>4, <2>5 DEF TypeInv, TypeOK, daemon, found
<1>8. CASE ReadEnd BY <1>1, <1>8, TransportCode DEF ReadEnd, found, TypeInv, Codes, Phases
<1>9. CASE Abort BY <1>1, <1>9, TransportCode DEF Abort, Running, found, TypeInv
<1>10. ASSUME NEW code \in {"invalid_request", "unavailable", "failure", "limit_exceeded", "dropped"},
              Fault(code)
       PROVE  TypeInv'
  <2>1. PICK c \in Codes : Return(c)
    <3>1. CASE code = "dropped" BY <1>10, <3>1, TransportCode DEF Fault
    <3>2. CASE code # "dropped" BY <1>10, <3>2 DEF Fault, Codes
    <3> QED BY <3>1, <3>2
  <2>2. phase' = "returned" /\ outcome' \in Codes /\ outcome' # None BY <2>1, ReturnCodes
  <2> QED BY <1>10, <2>2 DEF Fault, TypeInv, TypeOK, daemon, found, reader, Phases
<1>11. CASE Cancel \/ Expire
  BY <1>11 DEF Cancel, Expire, TypeInv, TypeOK, daemon, found, reader
<1>12. CASE Evict \/ \E m \in Models \cup {Absent} : Pull(m)
  <2>1. changes' \in Nat /\ changed' \in BOOLEAN
    <3>1. changes \in Nat BY DEF TypeInv
    <3>2. changes' = changes + 1 /\ changed' = TRUE BY <1>12 DEF Evict, Pull
    <3> QED BY <3>1, <3>2
  <2>2. manifest' \in Models \cup {Absent} /\ resident' \in {None} \cup Resident
    <3>1. resident \in {None} \cup Resident BY DEF TypeInv
    <3>2. CASE Evict BY <1>0, <3>1, <3>2 DEF Evict
    <3>3. ASSUME NEW m \in Models \cup {Absent}, Pull(m)
          PROVE  manifest' \in Models \cup {Absent} /\ resident' \in {None} \cup Resident
      BY <3>1, <3>3 DEF Pull
    <3> QED BY <1>12, <3>2, <3>3
  <2>3. UNCHANGED <<request, phase, ctx, outcome, found, wire, end, reader, faulty>>
    BY <1>12 DEF Evict, Pull
  <2> QED BY <2>1, <2>2, <2>3 DEF TypeInv, TypeOK, found, reader
<1>13. ASSUME NEW line \in Lines, Send(line) PROVE TypeInv'
  <2>1. wire' \in Seq(Lines) /\ Len(wire') = Len(wire) + 1 BY <1>13 DEF Send, TypeInv
  <2>2. total' \in 0..Len(wire') BY <1>13, <2>1 DEF Send, reader, TypeInv
  <2>3. faulty' \in BOOLEAN BY <1>13 DEF Send
  <2> QED BY <1>13, <2>1, <2>2, <2>3 DEF Send, TypeInv, TypeOK, daemon, found, reader
<1>14. ASSUME NEW how \in {"clean", "cut"}, Close(how) PROVE TypeInv'
  BY <1>14 DEF Close, TypeInv, TypeOK, daemon, found, reader
<1>15. CASE UNCHANGED vars BY <1>15 DEF vars, TypeInv, TypeOK, daemon, found, reader
<1> QED BY <1>2, <1>3, <1>4, <1>5, <1>6, <1>7, <1>8, <1>9, <1>10, <1>11, <1>12, <1>13, <1>14, <1>15
        DEF Next, Call

(* What the call knows stays true. *)
LEMMA ModelKept == ASSUME TypeInv, ModelInv, [Next]_vars PROVE ModelInv'
<1>0. /\ manifest \in Models \cup {Absent} /\ Absent \notin Models /\ info \in Info /\ changes \in Nat
      /\ changed \in BOOLEAN /\ phase \in Phases /\ resident \in {None} \cup Resident
  BY Constants DEF TypeInv, TypeOK
<1>1. ASSUME phase' = "returned" PROVE ModelInv'
  BY <1>1 DEF ModelInv, Chosen, Loaded, Rechecked, Budgeted
<1>2. ASSUME UNCHANGED <<daemon, request, phase, found>> PROVE ModelInv'
  BY <1>2 DEF ModelInv, Chosen, Loaded, Rechecked, Budgeted, daemon, found, budget
<1>3. ASSUME changes' # 0, changed', UNCHANGED <<request, phase, found>> PROVE ModelInv'
  BY <1>3 DEF ModelInv, Chosen, Loaded, Rechecked, Budgeted, found, budget
<1>4. CASE Version
  <2>1. CASE phase' = "tags"
    <3>1. ~Chosen' /\ ~Loaded' /\ ~Rechecked' /\ ~Budgeted' /\ phase' # "reshow"
      BY <2>1 DEF Chosen, Loaded, Rechecked, Budgeted
    <3> QED BY <3>1 DEF ModelInv
  <2> QED BY <1>1, <1>4, <2>1 DEF Version, To, Return
<1>5. CASE Tags
  <2>1. CASE phase = "tags" /\ phase' = "show"
    <3>1. ~Loaded' /\ ~Rechecked' /\ ~Budgeted' /\ phase' # "reshow"
      BY <2>1 DEF Loaded, Rechecked, Budgeted
    <3>2. first' = manifest.digest /\ manifest' = manifest BY <1>5, <2>1 DEF Tags, daemon, Return
    <3> QED BY <3>1, <3>2 DEF ModelInv
  <2>2. CASE phase = "retags" /\ phase' = "reshow"
    <3>1. ~Rechecked' /\ ~Budgeted' /\ Loaded /\ Chosen BY <2>2 DEF Loaded, Rechecked, Budgeted, Chosen
    <3>2. second' = manifest.digest /\ first' = first /\ UNCHANGED daemon /\ request' = request
      BY <1>5, <2>2 DEF Tags, Return
    <3> QED BY <3>1, <3>2 DEF ModelInv, daemon
  <2> QED BY <1>1, <1>5, <2>1, <2>2 DEF Tags, To, Return
<1>6. CASE Show
  <2>1. CASE phase' = "load"
    <3>1. ~Loaded' /\ ~Rechecked' /\ ~Budgeted' /\ phase' # "reshow" /\ Chosen
      BY <1>6, <2>1 DEF Show, Loaded, Rechecked, Budgeted, Chosen
    <3>2. UNCHANGED <<daemon, first>> BY <1>6 DEF Show
    <3> QED BY <3>1, <3>2 DEF ModelInv, daemon
  <2> QED BY <1>1, <1>6, <2>1 DEF Show, To, Return
<1>7. CASE Load
  <2>1. CASE phase' = "retags"
    <3>1. ~Rechecked' /\ ~Budgeted' /\ Chosen BY <1>7, <2>1 DEF Load, Rechecked, Budgeted, Chosen
    <3>2. manifest \in Models /\ Loads /\ UNCHANGED <<manifest, changes, request, found>>
      BY <1>0, <1>7, <2>1 DEF Load, Return
    <3>3. /\ resident' # None /\ resident'.digest = manifest.digest
          /\ request.requested \in {0, resident'.allocation}
      BY <3>2, LoadsModel
    <3> QED BY <2>1, <3>1, <3>2, <3>3 DEF ModelInv, found
  <2> QED BY <1>1, <1>7, <2>1 DEF Load, To, Return
<1>8. CASE Reshow
  <2>1. CASE phase' = "ps"
    <3>1. /\ phase = "reshow" /\ Loaded /\ Chosen /\ ~Budgeted' /\ manifest \in Models /\ second = first
          /\ info' = Described(manifest) /\ UNCHANGED <<daemon, request, first, second>>
      BY <1>0, <1>8, <2>1 DEF Reshow, Return, Loaded, Chosen, Budgeted
    <3>2. info'.capacity = manifest.capacity /\ info'.estimate = manifest.estimate
      BY <1>0, <3>1 DEF Described, Info
    <3> QED BY <3>1, <3>2 DEF ModelInv, daemon
  <2> QED BY <1>1, <1>8, <2>1 DEF Reshow, To, Return
<1>9. CASE Ps
  <2>1. CASE phase' = "prompt"
    <3>1. /\ phase = "ps" /\ Loaded /\ Chosen /\ Rechecked
          /\ info' = [info EXCEPT !.loaded = loaded] /\ budget(info')
          /\ UNCHANGED <<daemon, request, first, second>>
      BY <1>9, <2>1 DEF Ps, Return, Loaded, Chosen, Rechecked
    <3>2. info'.capacity = info.capacity /\ info'.estimate = info.estimate /\ info'.loaded = loaded
      BY <1>0, <3>1 DEF Info
    <3>3. ~changed => loaded = resident.allocation BY <3>1 DEF ModelInv, loaded
    <3>4. budget(info)' BY <3>1 DEF budget
    <3> QED BY <3>1, <3>2, <3>3, <3>4 DEF ModelInv, daemon
  <2> QED BY <1>1, <1>9, <2>1 DEF Ps, To, Return
<1>10. CASE Prompt
  <2>1. CASE phase' = "chat"
    <3>1. phase = "prompt" /\ Loaded /\ Chosen /\ Rechecked /\ Budgeted
      BY <1>10 DEF Prompt, Loaded, Chosen, Rechecked, Budgeted
    <3>2. manifest \in Models /\ Loads /\ UNCHANGED <<manifest, changes, changed, request, found>>
      BY <1>0, <1>10, <2>1 DEF Prompt, Return
    <3>3. ~changed => resident' = resident BY <3>1, <3>2, LoadsModel DEF ModelInv
    <3>4. budget(info)' BY <3>1, <3>2 DEF ModelInv, budget, found
    <3> QED BY <3>1, <3>2, <3>3, <3>4 DEF ModelInv, found
  <2> QED BY <1>1, <1>10, <2>1 DEF Prompt, To, Return
<1>11. CASE ReadLine
  BY <1>1, <1>2, <1>11, ReadCases DEF Return
<1>12. CASE ReadEnd
  <2>1. CASE phase' = "last"
    <3>1. phase = "chat" /\ UNCHANGED <<daemon, request, found>> BY <1>12 DEF ReadEnd
    <3>2. Loaded /\ Chosen /\ Rechecked /\ Budgeted BY <3>1 DEF Loaded, Chosen, Rechecked, Budgeted
    <3>3. budget(info)' BY <3>1, <3>2 DEF ModelInv, budget, found
    <3> QED BY <3>1, <3>2, <3>3 DEF ModelInv, daemon, found
  <2> QED BY <1>1, <1>12, <2>1 DEF ReadEnd, To, Return
<1>13. CASE Observe \/ Abort \/ \E code \in {"invalid_request", "unavailable", "failure",
                                          "limit_exceeded", "dropped"} : Fault(code)
  BY <1>1, <1>13 DEF Observe, Abort, Fault, Return
<1>14. CASE \/ Cancel \/ Expire
            \/ \E line \in Lines : Send(line)
            \/ \E how \in {"clean", "cut"} : Close(how)
  BY <1>2, <1>14 DEF Cancel, Expire, Send, Close
<1>15. CASE Evict \/ \E m \in Models \cup {Absent} : Pull(m)
  BY <1>0, <1>3, <1>15 DEF Evict, Pull
<1>16. CASE UNCHANGED vars BY <1>2, <1>16 DEF vars
<1> QED BY <1>4, <1>5, <1>6, <1>7, <1>8, <1>9, <1>10, <1>11, <1>12, <1>13, <1>14, <1>15, <1>16
        DEF Next, Call

(* What was read stays a true account of the lines that were sent. *)
LEMMA StreamKept == ASSUME TypeInv, StreamInv, [Next]_vars PROVE StreamInv'
<1>0. /\ wire \in Seq(Lines) /\ Len(wire) \in Nat /\ total \in 0..Len(wire) /\ total \in Nat
      /\ output \in Nat /\ emitted \in Seq(Nat) /\ Len(emitted) \in Nat
      /\ MaxOutputBytes \in Nat /\ StreamLimit \in Nat /\ done \in BOOLEAN
  BY Constants DEF TypeInv
<1>b. Bounded /\ Len(emitted) <= MaxOutputBytes BY DEF StreamInv, Bounded
<1>1. ASSUME phase # "returned", phase' # "chat", phase' # "last",
             UNCHANGED <<wire, end, reader>>, ~faulty' => ~faulty,
             phase' = "returned" \/ phase \notin {"chat", "last"}
      PROVE  StreamInv'
  BY <1>1 DEF StreamInv, reader, Ended, Bounded
<1>2. ASSUME UNCHANGED <<wire, end, reader, faulty, phase>> PROVE StreamInv'
  BY <1>2 DEF StreamInv, reader, Ended, Bounded, ReadInv
<1>3. CASE Version \/ Tags \/ Show \/ Load \/ Reshow \/ Ps
  <2>1. phase \notin {"chat", "last", "returned"} /\ UNCHANGED <<wire, end, reader, faulty>>
    BY <1>3 DEF Version, Tags, Show, Load, Reshow, Ps
  <2>2. phase' # "chat" /\ phase' # "last"
    BY <1>3 DEF Version, Tags, Show, Load, Reshow, Ps, To, Return
  <2> QED BY <1>1, <2>1, <2>2
<1>4. CASE Prompt
  <2>0. phase = "prompt" /\ UNCHANGED <<wire, end, reader, faulty>> BY <1>4 DEF Prompt
  <2>1. CASE phase' = "returned" BY <1>1, <2>0, <2>1
  <2>2. CASE phase' = "chat"
    <3>1. /\ wire = <<>> /\ end = "open" /\ total = 0 /\ output = 0 /\ ~done /\ emitted = <<>>
      BY <2>0 DEF StreamInv
    <3>2. Len(<<>>) = 0 /\ 1..0 = {} OBVIOUS
    <3>3. ReadInv'
      <4>1. total' = 0 /\ output' = 0 /\ done' = FALSE /\ emitted' = <<>> BY <1>0, <2>0, <3>1 DEF reader
      <4>2. 1..0 - 1 = {} /\ ~(0 > 0) OBVIOUS
      <4> QED BY <3>2, <4>1, <4>2 DEF ReadInv
    <3> QED BY <1>0, <1>b, <2>0, <2>2, <3>1, <3>2, <3>3 DEF StreamInv, Bounded, reader
  <2> QED BY <1>4, <2>1, <2>2 DEF Prompt, To, Return
<1>5. CASE Abort \/ \E code \in {"invalid_request", "unavailable", "failure", "limit_exceeded",
                                 "dropped"} : Fault(code)
  BY <1>1, <1>5 DEF Abort, Fault, Running, Return
<1>6. CASE Cancel \/ Expire \/ Evict \/ \E m \in Models \cup {Absent} : Pull(m)
  BY <1>2, <1>6 DEF Cancel, Expire, Evict, Pull
<1>7. ASSUME NEW line \in Lines, Send(line) PROVE StreamInv'
  <2>0. /\ phase = "chat" /\ end = "open" /\ wire' = Append(wire, line)
        /\ faulty' = (faulty \/ ~line.good \/ Ended)
        /\ UNCHANGED <<phase, end, reader>>
    BY <1>7 DEF Send
  <2>1. /\ wire' \in Seq(Lines) /\ Len(wire') = Len(wire) + 1 /\ wire'[Len(wire) + 1] = line
        /\ \A i \in 1..Len(wire) : wire'[i] = wire[i]
    BY <1>0, <2>0
  <2>2. ReadInv'
    <3>1. ReadInv BY <2>0 DEF StreamInv
    <3>2. \A i \in 1..total : wire'[i] = wire[i] BY <1>0, <2>1
    <3>3. \A i \in 1..total - 1 : ~wire'[i].done
      <4>1. \A i \in 1..total - 1 : i \in 1..total BY <1>0
      <4> QED BY <3>1, <3>2, <4>1 DEF ReadInv
    <3>4. done = (total > 0 /\ wire'[total].done) BY <1>0, <3>1, <3>2 DEF ReadInv
    <3>5. \A k \in 1..Len(emitted) : emitted[k] \in 1..total /\ wire'[emitted[k]].text
      BY <3>1, <3>2 DEF ReadInv
    <3>6. \A i \in 1..total : wire'[i].text => \E k \in 1..Len(emitted) : emitted[k] = i
      BY <3>1, <3>2 DEF ReadInv
    <3>7. UNCHANGED <<total, output, done, emitted>> BY <2>0 DEF reader
    <3> QED BY <3>1, <3>3, <3>4, <3>5, <3>6, <3>7 DEF ReadInv
  <2>3. ASSUME ~faulty' PROVE /\ \A i \in 1..Len(wire') : wire'[i].good
                              /\ \A i \in 1..Len(wire') - 1 : ~wire'[i].done
    <3>1. /\ ~faulty /\ line.good /\ ~Ended
          /\ \A i \in 1..Len(wire) : wire[i].good
          /\ \A i \in 1..Len(wire) - 1 : ~wire[i].done
      BY <2>0, <2>3 DEF StreamInv
    <3>2. \A i \in 1..Len(wire') : wire'[i].good
      <4> TAKE i \in 1..Len(wire')
      <4>1. i \in 1..Len(wire) \/ i = Len(wire) + 1 BY <1>0, <2>1
      <4> QED BY <2>1, <3>1, <4>1
    <3>3. \A i \in 1..Len(wire) : ~wire[i].done
      <4> TAKE i \in 1..Len(wire)
      <4>1. wire # <<>> /\ (i \in 1..Len(wire) - 1 \/ i = Len(wire)) BY <1>0
      <4> QED BY <3>1, <4>1 DEF Ended
    <3>4. 1..Len(wire') - 1 = 1..Len(wire) BY <1>0, <2>1
    <3> QED BY <2>1, <3>2, <3>3, <3>4
  <2> QED BY <1>b, <2>0, <2>2, <2>3 DEF StreamInv, Bounded, reader
<1>8. ASSUME NEW how \in {"clean", "cut"}, Close(how) PROVE StreamInv'
  <2>1. /\ phase = "chat" /\ end' = how /\ faulty' = (faulty \/ how = "cut" \/ ~Ended)
        /\ UNCHANGED <<phase, wire, reader>>
    BY <1>8 DEF Close
  <2>2. ReadInv' BY <2>1 DEF StreamInv, ReadInv, reader
  <2>3. Ended' = Ended BY <2>1 DEF Ended
  <2> QED BY <1>b, <2>1, <2>2, <2>3 DEF StreamInv, Bounded, reader
<1>9. CASE ReadLine
  <2>0. /\ phase = "chat" /\ UNCHANGED <<wire, end, faulty>> /\ total' = total + 1
        /\ total' \in 1..Len(wire) /\ Line \in Lines
    BY <1>9, ReadCases
  <2>1. ReadInv /\ total <= StreamLimit BY <2>0 DEF StreamInv
  <2>2. total' \in 0..StreamLimit + 1 BY <1>0, <2>0, <2>1
  <2>3. Ended' = Ended BY <2>0 DEF Ended
  <2>4. Size \in Nat BY <1>0 DEF Size
  <2>5. CASE phase' = "returned" /\ UNCHANGED emitted
             /\ (output' = output \/ (output' = Size /\ Size <= MaxOutputBytes))
    <3>1. output' \in 0..MaxOutputBytes BY <1>0, <1>b, <2>4, <2>5 DEF Bounded
    <3> QED BY <1>b, <2>0, <2>2, <2>3, <2>5, <3>1 DEF StreamInv, Bounded
  <2>6. CASE /\ total' <= StreamLimit /\ ~done /\ Size <= MaxOutputBytes
             /\ output' = Size /\ done' = Line.done
             /\ emitted' = IF Line.text THEN Append(emitted, total + 1) ELSE emitted
             /\ UNCHANGED phase
    <3>1. \A i \in 1..total' - 1 : ~wire[i].done
      <4> TAKE i \in 1..total' - 1
      <4>1. i \in 1..total - 1 \/ (i = total /\ total > 0) BY <1>0, <2>0
      <4> QED BY <2>1, <2>6, <4>1 DEF ReadInv
    <3>2. done' = (total' > 0 /\ wire[total'].done)
      <4>1. total' > 0 BY <1>0, <2>0
      <4>2. done' = wire[total'].done BY <2>0, <2>6 DEF Line
      <4>3. done' \in BOOLEAN BY <2>0, <2>6 DEF Lines
      <4> QED BY <4>1, <4>2, <4>3
    <3>3. \A k \in 1..Len(emitted) : emitted[k] \in 1..total /\ wire[emitted[k]].text
      BY <2>1 DEF ReadInv
    <3>4. \A i \in 1..total : wire[i].text => \E k \in 1..Len(emitted) : emitted[k] = i
      BY <2>1 DEF ReadInv
    <3>5. ASSUME ~Line.text PROVE ReadInv'
      <4>1. emitted' = emitted /\ output' = output BY <1>0, <2>6, <3>5 DEF Size
      <4>2. \A i \in 1..total' : i \in 1..total \/ i = total + 1 BY <1>0, <2>0
      <4>3. \A i \in 1..total : i \in 1..total' BY <1>0, <2>0
      <4>4. \A k \in 1..Len(emitted) : emitted[k] \in 1..total' /\ wire[emitted[k]].text
        BY <3>3, <4>3
      <4>5. \A i \in 1..total' : wire[i].text => \E k \in 1..Len(emitted) : emitted[k] = i
        BY <3>4, <3>5, <4>2 DEF Line
      <4> QED BY <2>0, <2>1, <3>1, <3>2, <4>1, <4>4, <4>5 DEF ReadInv
    <3>6. ASSUME Line.text PROVE ReadInv'
      <4>1. emitted' = Append(emitted, total + 1) /\ output' = output + 1
        BY <2>6, <3>6 DEF Size
      <4>2. /\ Len(emitted') = Len(emitted) + 1 /\ emitted'[Len(emitted) + 1] = total + 1
            /\ \A k \in 1..Len(emitted) : emitted'[k] = emitted[k]
        BY <1>0, <4>1
      <4>3. \A k \in 1..Len(emitted') : emitted'[k] \in 1..total' /\ wire[emitted'[k]].text
        <5> TAKE k \in 1..Len(emitted')
        <5>1. CASE k \in 1..Len(emitted)
          <6>1. emitted'[k] \in 1..total /\ wire[emitted'[k]].text BY <3>3, <4>2, <5>1
          <6>2. emitted'[k] \in 1..total' BY <1>0, <2>0, <6>1
          <6> QED BY <6>1, <6>2
        <5>2. CASE k = Len(emitted) + 1
          <6>1. emitted'[k] = total' /\ total' \in 1..total' BY <1>0, <2>0, <4>2, <5>2
          <6>2. wire[total'].text BY <2>0, <3>6 DEF Line
          <6> QED BY <6>1, <6>2
        <5> QED BY <1>0, <4>2, <5>1, <5>2
      <4>4. \A i \in 1..total' : wire[i].text => \E k \in 1..Len(emitted') : emitted'[k] = i
        <5> TAKE i \in 1..total'
        <5>1. \A k \in 1..Len(emitted) : k \in 1..Len(emitted') BY <1>0, <4>2
        <5>2. CASE i \in 1..total BY <3>4, <4>2, <5>1, <5>2
        <5>3. CASE i = total + 1
          <6>1. Len(emitted) + 1 \in 1..Len(emitted') BY <1>0, <4>2
          <6> QED BY <4>2, <5>3, <6>1
        <5> QED BY <1>0, <2>0, <5>2, <5>3
      <4>5. \A k \in 1..Len(emitted') - 1 : emitted'[k] < emitted'[k + 1]
        <5> TAKE k \in 1..Len(emitted') - 1
        <5>1. k \in 1..Len(emitted) BY <1>0, <4>2
        <5>2. CASE k = Len(emitted)
          <6>1. emitted'[k] = emitted[k] /\ emitted'[k + 1] = total + 1 BY <4>2, <5>1, <5>2
          <6>2. emitted[k] \in 1..total BY <3>3, <5>1
          <6> QED BY <1>0, <6>1, <6>2
        <5>3. CASE k # Len(emitted)
          <6>1. k \in 1..Len(emitted) - 1 /\ k + 1 \in 1..Len(emitted) BY <1>0, <5>1, <5>3
          <6> QED BY <2>1, <4>2, <5>1, <6>1 DEF ReadInv
        <5> QED BY <5>2, <5>3
      <4>6. output' = Len(emitted') BY <1>0, <2>1, <4>1, <4>2 DEF ReadInv
      <4> QED BY <2>0, <3>1, <3>2, <4>3, <4>4, <4>5, <4>6 DEF ReadInv
    <3>7. ReadInv' BY <3>5, <3>6
    <3>8. output' \in 0..MaxOutputBytes /\ Len(emitted') <= MaxOutputBytes
      <4>1. output' = Len(emitted') BY <3>7 DEF ReadInv
      <4> QED BY <1>0, <2>4, <2>6, <4>1
    <3> QED BY <2>0, <2>2, <2>3, <2>6, <3>7, <3>8 DEF StreamInv, Bounded
  <2> QED BY <1>9, <2>5, <2>6, ReadCases DEF Return
<1>10. CASE ReadEnd
  <2>1. phase = "chat" /\ total = Len(wire) /\ UNCHANGED <<wire, end, reader, faulty>>
    BY <1>10 DEF ReadEnd
  <2>2. CASE phase' = "returned" BY <1>1, <2>1, <2>2
  <2>3. CASE phase' = "last" /\ end = "clean" /\ done
    <3>1. ReadInv' /\ Ended' = Ended BY <2>1 DEF StreamInv, ReadInv, Ended, reader
    <3> QED BY <1>b, <2>1, <2>3, <3>1 DEF StreamInv, Bounded, reader
  <2> QED BY <1>10, <2>2, <2>3 DEF ReadEnd, To, Return
<1>11. CASE Observe BY <1>1, <1>11 DEF Observe, Return
<1>12. CASE UNCHANGED vars BY <1>2, <1>12 DEF vars
<1> QED BY <1>3, <1>4, <1>5, <1>6, <1>7, <1>8, <1>9, <1>10, <1>11, <1>12 DEF Next, Call

(* A code that is honest of the context and of the daemon stays so when the deadline overrules it. *)
LEMMA ReturnHonest ==
    ASSUME NEW code \in Codes, Return(code), ctx' = ctx,
           code \in {"failure", "unavailable"} => faulty' \/ changes' > 0 \/ ctx = "expired",
           code = "cancelled" => ctx = "cancelled", code = "ok" => ctx = "live"
    PROVE  HonestCause'
<1>1. outcome' = code \/ (outcome' = "unavailable" /\ ctx = "expired") BY DEF Return
<1> QED BY <1>1 DEF HonestCause

LEMMA TransportHonest ==
    ASSUME TypeInv, ctx # "live"
    PROVE  /\ transportError = "unavailable" => ctx = "expired"
           /\ transportError = "cancelled" => ctx = "cancelled"
           /\ transportError \in {"unavailable", "cancelled"}
BY DEF transportError, TypeInv, TypeOK

LEMMA HonestKept == ASSUME Inv, [Next]_vars PROVE HonestCause'
<1>0. /\ TypeInv /\ ModelInv /\ StreamInv /\ HonestCause /\ None \notin Codes /\ changes \in Nat
      /\ (phase = "returned" <=> outcome # None)
      /\ Len(wire) \in Nat /\ total \in 0..Len(wire) /\ done \in BOOLEAN
  BY Constants DEF Inv, TypeInv, TypeOK
<1>1. ASSUME outcome' = None PROVE HonestCause' BY <1>0, <1>1 DEF HonestCause, Codes
<1>2. ASSUME phase # "returned", To("chat") \/ UNCHANGED <<phase, outcome>> \/ outcome' = outcome
      PROVE  HonestCause'
  BY <1>0, <1>1, <1>2 DEF To
<1>3. ASSUME NEW code \in {"invalid_request", "unsupported", "limit_exceeded", "refused"},
             Return(code), ctx' = ctx
      PROVE  HonestCause'
  BY <1>3, ReturnHonest DEF Codes
<1>4. ASSUME ctx # "live", Return(transportError), ctx' = ctx PROVE HonestCause'
  BY <1>0, <1>4, ReturnHonest, TransportHonest, TransportCode
<1>5. CASE Version \/ Tags \/ Show \/ Load \/ Ps \/ Prompt
  <2>1. phase # "returned" /\ ctx' = ctx BY <1>5 DEF Version, Tags, Show, Load, Ps, Prompt
  <2>2. \/ outcome' = outcome
        \/ Return("invalid_request") \/ Return("unsupported")
    BY <1>5 DEF Version, Tags, Show, Load, Ps, Prompt, To
  <2> QED BY <1>2, <1>3, <2>1, <2>2
<1>6. CASE Reshow
  <2>1. phase = "reshow" /\ ctx' = ctx /\ changes' = changes BY <1>6 DEF Reshow, daemon
  <2>2. \/ outcome' = outcome
        \/ Return("invalid_request") \/ Return("unsupported")
        \/ second # first /\ Return("failure")
    BY <1>6 DEF Reshow, To
  <2>3. ASSUME second # first, Return("failure") PROVE HonestCause'
    <3>1. changes # 0 BY <1>0, <2>1, <2>3 DEF ModelInv, Chosen
    <3>2. changes' > 0 BY <1>0, <2>1, <3>1
    <3>3. "failure" \in Codes BY DEF Codes
    <3> QED BY <2>1, <2>3, <3>2, <3>3, ReturnHonest
  <2> QED BY <1>2, <1>3, <2>1, <2>2, <2>3
<1>7. CASE ReadLine
  <2>1. /\ phase = "chat" /\ ctx' = ctx /\ faulty' = faulty
        /\ total' \in 1..Len(wire) /\ total' = total + 1
    <3>1. TypeInv /\ ReadLine BY <1>0, <1>7
    <3> QED BY <3>1, ReadCases
  <2>2. \/ outcome' = outcome \/ Return("limit_exceeded") \/ Return("refused")
        \/ ctx # "live" /\ Return(transportError)
        \/ (done \/ ~Line.good) /\ Return("failure")
    BY <1>0, <1>7, ReadCases
  <2>3. ASSUME done \/ ~Line.good, Return("failure") PROVE HonestCause'
    <3>1. ReadInv BY <1>0, <2>1 DEF StreamInv
    <3>2. CASE done
      <4>0. total > 0 /\ wire[total].done BY <3>1, <3>2 DEF ReadInv
      <4>1. total \in 1..Len(wire) - 1 BY <1>0, <2>1, <4>0
      <4>2. faulty BY <1>0, <4>0, <4>1 DEF StreamInv
      <4>3. "failure" \in Codes BY DEF Codes
      <4> QED BY <2>1, <2>3, <4>2, <4>3, ReturnHonest
    <3>3. CASE ~Line.good
      <4>1. faulty BY <1>0, <2>1, <3>3 DEF StreamInv, Line
      <4>2. "failure" \in Codes BY DEF Codes
      <4> QED BY <2>1, <2>3, <4>1, <4>2, ReturnHonest
    <3> QED BY <2>3, <3>2, <3>3
  <2> QED BY <1>2, <1>3, <1>4, <2>1, <2>2, <2>3
<1>8. CASE ReadEnd
  <2>1. /\ phase = "chat" /\ end # "open" /\ total = Len(wire) /\ ctx' = ctx /\ faulty' = faulty
    BY <1>8 DEF ReadEnd
  <2>2. \/ outcome' = outcome
        \/ ctx # "live" /\ Return(transportError)
        \/ ~(end = "clean" /\ done) /\ Return("failure")
    BY <1>8 DEF ReadEnd, To
  <2>3. ASSUME ~(end = "clean" /\ done), Return("failure") PROVE HonestCause'
    <3>1. ReadInv /\ end \in {"open", "clean", "cut"} /\ wire \in Seq(Lines)
      BY <1>0, <2>1 DEF StreamInv, TypeInv
    <3>2. ASSUME ~faulty PROVE FALSE
      <4>1. end = "clean" /\ Ended BY <1>0, <2>1, <3>1, <3>2 DEF StreamInv
      <4>2. Len(wire) > 0 /\ wire[Len(wire)].done BY <3>1, <4>1 DEF Ended
      <4>3. done BY <2>1, <3>1, <4>2 DEF ReadInv
      <4> QED BY <2>3, <4>1, <4>3
    <3>3. "failure" \in Codes BY DEF Codes
    <3> QED BY <2>1, <2>3, <3>2, <3>3, ReturnHonest
  <2> QED BY <1>2, <1>4, <2>1, <2>2, <2>3
<1>9. CASE Observe
  <2>1. phase = "last" /\ ctx' = ctx BY <1>9 DEF Observe
  <2>2. \/ Return("limit_exceeded")
        \/ ctx # "live" /\ Return(transportError)
        \/ ctx = "live" /\ Return("ok")
    BY <1>9 DEF Observe
  <2>3. ASSUME ctx = "live", Return("ok") PROVE HonestCause'
    <3>1. "ok" \in Codes BY DEF Codes
    <3> QED BY <2>1, <2>3, <3>1, ReturnHonest
  <2> QED BY <1>3, <1>4, <2>1, <2>2, <2>3
<1>10. CASE Abort BY <1>4, <1>10 DEF Abort
<1>11. ASSUME NEW code \in {"invalid_request", "unavailable", "failure", "limit_exceeded", "dropped"},
              Fault(code)
       PROVE  HonestCause'
  <2>1. faulty' /\ ctx' = ctx BY <1>11 DEF Fault
  <2>2. CASE code # "dropped"
    <3>1. Return(code) /\ code \in Codes BY <1>11, <2>2 DEF Fault, Codes
    <3> QED BY <1>11, <2>1, <2>2, <3>1, ReturnHonest
  <2>3. CASE code = "dropped"
    <3>1. Return(transportError) /\ transportError \in Codes BY <1>11, <2>3, TransportCode DEF Fault
    <3>2. transportError = "cancelled" => ctx = "cancelled" BY DEF transportError
    <3>3. transportError # "ok" BY DEF transportError
    <3> QED BY <2>1, <3>1, <3>2, <3>3, ReturnHonest
  <2> QED BY <2>2, <2>3
<1>12. CASE \/ Cancel \/ Expire \/ Evict
            \/ \E m \in Models \cup {Absent} : Pull(m)
            \/ \E line \in Lines : Send(line)
            \/ \E how \in {"clean", "cut"} : Close(how)
  <2>1. phase # "returned" /\ outcome' = outcome
    BY <1>12 DEF Cancel, Expire, Evict, Pull, Send, Close, Running
  <2> QED BY <1>2, <2>1
<1>13. CASE UNCHANGED vars BY <1>0, <1>13 DEF vars, daemon, HonestCause
<1> QED BY <1>5, <1>6, <1>7, <1>8, <1>9, <1>10, <1>11, <1>12, <1>13 DEF Next, Call

(* Only the last step returns a success. *)
LEMMA OnlyLastSucceeds ==
    ASSUME TypeInv, [Next]_vars, outcome' = "ok"
    PROVE  \/ outcome = "ok" /\ UNCHANGED vars
           \/ Observe /\ phase = "last" /\ UNCHANGED <<wire, end, reader>>
<1>0. (phase = "returned" <=> outcome # None) /\ None # "ok"
  BY Constants DEF TypeInv, TypeOK, Codes
<1>1. ASSUME NEW code, code # "ok", Return(code) PROVE FALSE BY <1>1 DEF Return
<1>2. transportError # "ok" BY DEF transportError
<1>3. ASSUME phase # "returned", outcome' = outcome PROVE FALSE BY <1>0, <1>3
<1>4. CASE Version \/ Tags \/ Show \/ Load \/ Reshow \/ Ps \/ Prompt
  <2>1. phase # "returned" BY <1>4 DEF Version, Tags, Show, Load, Reshow, Ps, Prompt
  <2>2. \/ outcome' = outcome
        \/ Return("invalid_request") \/ Return("unsupported") \/ Return("failure")
    BY <1>4 DEF Version, Tags, Show, Load, Reshow, Ps, Prompt, To
  <2> QED BY <1>1, <1>3, <2>1, <2>2
<1>5. CASE ReadLine
  <2>1. /\ phase # "returned"
        /\ \/ outcome' = outcome \/ Return("limit_exceeded") \/ Return("refused")
           \/ Return(transportError) \/ Return("failure")
    BY <1>5, ReadCases
  <2> QED BY <1>1, <1>2, <1>3, <2>1
<1>6. CASE ReadEnd
  <2>1. /\ phase # "returned"
        /\ outcome' = outcome \/ Return(transportError) \/ Return("failure")
    BY <1>6 DEF ReadEnd, To
  <2> QED BY <1>1, <1>2, <1>3, <2>1
<1>7. CASE Observe BY <1>7 DEF Observe
<1>8. CASE Abort BY <1>1, <1>2, <1>8 DEF Abort
<1>9. CASE \E code \in {"invalid_request", "unavailable", "failure", "limit_exceeded", "dropped"} :
              Fault(code)
  BY <1>1, <1>2, <1>9 DEF Fault
<1>10. CASE \/ Cancel \/ Expire \/ Evict
            \/ \E m \in Models \cup {Absent} : Pull(m)
            \/ \E line \in Lines : Send(line)
            \/ \E how \in {"clean", "cut"} : Close(how)
  <2>1. phase # "returned" /\ outcome' = outcome
    BY <1>10 DEF Cancel, Expire, Evict, Pull, Send, Close, Running
  <2> QED BY <1>3, <2>1
<1>11. CASE UNCHANGED vars BY <1>11 DEF vars
<1> QED BY <1>4, <1>5, <1>6, <1>7, <1>8, <1>9, <1>10, <1>11 DEF Next, Call

LEMMA WholeKept == ASSUME Inv, StreamInv', [Next]_vars PROVE WholeAnswer'
<1>1. Bounded' BY DEF StreamInv
<1>2. SUFFICES ASSUME outcome' = "ok"
               PROVE  /\ end' = "clean" /\ Ended'
                      /\ \A i \in 1..Len(wire') - 1 : ~wire'[i].done
                      /\ {emitted'[k] : k \in 1..Len(emitted')} = {i \in 1..Len(wire') : wire'[i].text}
                      /\ \A k \in 1..Len(emitted') - 1 : emitted'[k] < emitted'[k + 1]
  BY <1>1 DEF WholeAnswer
<1>3. TypeInv BY DEF Inv
<1>4. CASE outcome = "ok" /\ UNCHANGED vars
  BY <1>4 DEF Inv, WholeAnswer, vars, reader, Ended
<1>5. CASE phase = "last" /\ UNCHANGED <<wire, end, reader>>
  <2>1. /\ end = "clean" /\ done /\ total = Len(wire) /\ ReadInv /\ wire \in Seq(Lines)
    BY <1>3, <1>5 DEF Inv, StreamInv, TypeInv
  <2>2. Len(wire) > 0 /\ wire[Len(wire)].done BY <2>1 DEF ReadInv
  <2>3. Ended BY <2>1, <2>2 DEF Ended
  <2>4. {emitted[k] : k \in 1..Len(emitted)} = {i \in 1..Len(wire) : wire[i].text}
    BY <2>1 DEF ReadInv
  <2>5. /\ \A i \in 1..Len(wire) - 1 : ~wire[i].done
        /\ \A k \in 1..Len(emitted) - 1 : emitted[k] < emitted[k + 1]
    BY <2>1 DEF ReadInv
  <2> QED BY <1>5, <2>1, <2>3, <2>4, <2>5 DEF reader, Ended
<1> QED BY <1>2, <1>3, <1>4, <1>5, OnlyLastSucceeds

-----------------------------------------------------------------------------
(* The theorems. *)

(* In every state of Generate the inductive invariant holds: what each phase knows of the model is
   true unless others changed it, and what was read of the answer is what was emitted. *)
THEOREM GenerateInvariant == Spec => []Inv
<1>1. Init => Inv
  <2> SUFFICES ASSUME Init PROVE Inv OBVIOUS
  <2>0. Len(<<>>) = 0 /\ 1..0 = {} /\ 1..0 - 1 = {} /\ <<>> \in Seq(Lines) /\ <<>> \in Seq(Nat)
    OBVIOUS
  <2>1. manifest \in Models /\ manifest.digest \in Digests BY Constants DEF Init
  <2>2. resident \in {None} \cup Resident
    <3>1. \A a \in Allocations : a \in Nat BY Constants
    <3> QED BY <2>1, <3>1 DEF Init, Resident
  <2>3. TypeInv
    <3>1. TypeOK BY <2>1 DEF Init, TypeOK
    <3>2. phase \in Phases /\ outcome \in {None} \cup Codes BY DEF Init, Phases
    <3>3. info \in Info BY DEF Init, Unknown, Info
    <3>4. wire \in Seq(Lines) /\ total \in 0..Len(wire) /\ emitted \in Seq(Nat)
      <4>1. wire = <<>> /\ emitted = <<>> /\ total = 0 BY DEF Init
      <4>2. Len(wire) = 0 BY <4>1
      <4> QED BY <2>0, <4>1, <4>2
    <3>5. /\ changes \in Nat /\ changed \in BOOLEAN /\ faulty \in BOOLEAN
          /\ end \in {"open", "clean", "cut"} /\ output \in Nat /\ done \in BOOLEAN
      BY DEF Init
    <3> QED BY <2>2, <3>1, <3>2, <3>3, <3>4, <3>5 DEF TypeInv
  <2>4. ModelInv BY DEF Init, ModelInv, Chosen, Loaded, Rechecked, Budgeted
  <2>5. Bounded BY <2>0, Constants DEF Init, Bounded
  <2>6. StreamInv BY <2>0, <2>5 DEF Init, StreamInv, Ended
  <2>7. HonestCause BY Constants DEF Init, HonestCause, Codes
  <2>8. WholeAnswer BY <2>5, Constants DEF Init, WholeAnswer, Codes
  <2> QED BY <2>3, <2>4, <2>6, <2>7, <2>8 DEF Inv
<1>2. Inv /\ [Next]_vars => Inv'
  <2> SUFFICES ASSUME Inv, [Next]_vars PROVE Inv' OBVIOUS
  <2>1. TypeInv /\ ModelInv /\ StreamInv BY DEF Inv
  <2>2. TypeInv' /\ ModelInv' /\ StreamInv' BY <2>1, TypeKept, ModelKept, StreamKept
  <2> QED BY <2>2, HonestKept, WholeKept DEF Inv
<1> QED BY <1>1, <1>2, PTL DEF Spec

(* Unless others changed the model since the load, the prompt is sent to the model that was
   examined, with room for the estimate and the reservation in its context and in its allocation. *)
THEOREM PromptTheorem == Spec => []PromptFits
<1>1. Inv => PromptFits
  <2> SUFFICES ASSUME Inv, phase \in {"chat", "last"}, ~changed
               PROVE  /\ resident.digest = manifest.digest
                      /\ \A n \in {manifest.capacity, resident.allocation} \ {0} :
                            manifest.estimate + request.reserve <= n
    BY DEF PromptFits
  <2>1. Loaded /\ Rechecked /\ Budgeted BY DEF Loaded, Rechecked, Budgeted
  <2>2. /\ manifest \in Models /\ resident # None /\ resident.digest = manifest.digest
        /\ info.capacity = manifest.capacity /\ info.estimate = manifest.estimate
        /\ info.loaded = resident.allocation /\ budget(info)
    BY <2>1 DEF Inv, ModelInv
  <2>3. SUFFICES ASSUME NEW n \in {manifest.capacity, resident.allocation} \ {0}
                 PROVE  manifest.estimate + request.reserve <= n
    BY <2>2
  <2>4. /\ manifest.capacity \in Nat /\ manifest.estimate \in Nat /\ request.reserve \in Nat
        /\ resident.allocation \in Nat
    <3>1. resident \in Resident /\ request \in Requests BY <2>2 DEF Inv, TypeInv, TypeOK
    <3> QED BY <2>2, <3>1, Constants DEF Resident
  <2>5. ~(request.reserve >= n \/ info.estimate > n - request.reserve)
    BY <2>2, <2>3 DEF budget
  <2>6. n \in Nat BY <2>3, <2>4
  <2> QED BY <2>2, <2>4, <2>5, <2>6
<1> QED BY <1>1, GenerateInvariant, PTL

(* Generate blames the daemon only when it was at fault, others changed the model or the deadline
   passed, says cancelled only when it was cancelled and succeeds only within its deadline. *)
THEOREM CauseTheorem == Spec => []HonestCause
<1>1. Inv => HonestCause BY DEF Inv
<1> QED BY <1>1, GenerateInvariant, PTL

(* A success is the whole text the daemon sent, in order and once, with its terminal record; and
   nothing read or emitted exceeds the bounds of an answer. *)
THEOREM AnswerTheorem == Spec => []WholeAnswer
<1>1. Inv => WholeAnswer BY DEF Inv
<1> QED BY <1>1, GenerateInvariant, PTL

-----------------------------------------------------------------------------
(* Modelfile: pieces of texts. *)

Tokens == Words \cup Commands \cup {Space, Break, Quote, "#", "generated", "stop", "qwen"}

LEMMA TextIs ==
    /\ Text = Seq(Tokens) /\ Commands \subseteq Tokens
    /\ {Space, Break, Quote, "#", "generated", "stop", "qwen"} \subseteq Tokens
  BY DEF Text, Tokens

LEMMA PieceOf ==
    ASSUME NEW s \in Text, NEW m \in Nat \ {0}, NEW n \in 0..Len(s)
    PROVE  /\ SubSeq(s, m, n) \in Text /\ Len(SubSeq(s, m, n)) = (IF m <= n THEN n - m + 1 ELSE 0)
           /\ \A i \in 1..n - m + 1 : SubSeq(s, m, n)[i] = s[m + i - 1]
  <1>1. Len(s) \in Nat /\ m \in Int /\ n \in Int /\ \A i \in 1..Len(s) : s[i] \in Tokens  BY TextIs
  <1>2. \A i \in m..n : s[i] \in Tokens
    <2>1. \A i \in m..n : i \in 1..Len(s)  BY <1>1
    <2> QED  BY <1>1, <2>1
  <1> QED  BY <1>1, <1>2, SubSeqProperties, TextIs

LEMMA Joins ==
    ASSUME NEW a \in Text, NEW b \in Text
    PROVE  /\ a \o b \in Text /\ Len(a \o b) = Len(a) + Len(b) /\ Len(a) \in Nat /\ Len(b) \in Nat
           /\ \A i \in 1..Len(a) + Len(b) : (a \o b)[i] = IF i <= Len(a) THEN a[i] ELSE b[i - Len(a)]
           /\ \A i \in 1..Len(a) : (a \o b)[i] = a[i]
           /\ \A i \in 1..Len(b) : (a \o b)[Len(a) + i] = b[i]
  <1>1. /\ a \o b \in Text /\ Len(a \o b) = Len(a) + Len(b)
        /\ \A i \in 1..Len(a) + Len(b) : (a \o b)[i] = IF i <= Len(a) THEN a[i] ELSE b[i - Len(a)]
    BY ConcatProperties DEF Text
  <1>2. Len(a) \in Nat /\ Len(b) \in Nat  BY DEF Text
  <1>3. \A i \in 1..Len(a) : (a \o b)[i] = a[i]
    <2>1. \A i \in 1..Len(a) : i \in 1..Len(a) + Len(b) /\ i <= Len(a)  BY <1>2
    <2> QED  BY <1>1, <2>1
  <1>4. \A i \in 1..Len(b) : (a \o b)[Len(a) + i] = b[i]
    <2>1. \A i \in 1..Len(b) : /\ Len(a) + i \in 1..Len(a) + Len(b) /\ ~(Len(a) + i <= Len(a))
                               /\ (Len(a) + i) - Len(a) = i
      BY <1>2
    <2> QED  BY <1>1, <2>1
  <1> QED  BY <1>1, <1>2, <1>3, <1>4

LEMMA Token ==
    ASSUME NEW t \in Tokens
    PROVE  <<t>> \in Text /\ Len(<<t>>) = 1 /\ <<t>>[1] = t
  BY TextIs

LEMMA SameText ==
    ASSUME NEW s \in Text, NEW t \in Text, Len(s) = Len(t), \A i \in 1..Len(s) : s[i] = t[i]
    PROVE  s = t
  BY SeqEqual DEF Text

LEMMA Pieces ==
    ASSUME NEW a \in Text, NEW b \in Text
    PROVE  SubSeq(a \o b, 1, Len(a)) = a /\ From(a \o b, Len(a) + 1) = b
  <1> DEFINE s == a \o b  l == SubSeq(s, 1, Len(a))  r == SubSeq(s, Len(a) + 1, Len(s))
  <1>1. /\ s \in Text /\ Len(s) = Len(a) + Len(b) /\ Len(a) \in Nat /\ Len(b) \in Nat
        /\ \A i \in 1..Len(a) : s[i] = a[i]
        /\ \A i \in 1..Len(b) : s[Len(a) + i] = b[i]
    BY Joins
  <1> HIDE DEF s
  <1>2. Len(a) \in 0..Len(s) /\ Len(s) \in 0..Len(s) /\ Len(a) + 1 \in Nat \ {0} /\ 1 \in Nat \ {0}  BY <1>1
  <1>3. l = a
    <2>1. /\ l \in Text /\ Len(l) = (IF 1 <= Len(a) THEN Len(a) - 1 + 1 ELSE 0)
          /\ \A i \in 1..Len(a) - 1 + 1 : l[i] = s[1 + i - 1]
      BY <1>1, <1>2, PieceOf
    <2>2. Len(a) - 1 + 1 = Len(a) /\ \A i \in 1..Len(a) : 1 + i - 1 = i  BY <1>1
    <2> HIDE DEF l
    <2>3. Len(l) = Len(a) /\ \A i \in 1..Len(l) : l[i] = a[i]  BY <1>1, <2>1, <2>2
    <2> QED  BY <2>1, <2>3, SameText
  <1>4. r = b
    <2>1. /\ r \in Text /\ Len(r) = (IF Len(a) + 1 <= Len(s) THEN Len(s) - (Len(a) + 1) + 1 ELSE 0)
          /\ \A i \in 1..Len(s) - (Len(a) + 1) + 1 : r[i] = s[(Len(a) + 1) + i - 1]
      BY <1>1, <1>2, PieceOf
    <2>2. Len(s) - (Len(a) + 1) + 1 = Len(b) /\ \A i \in 1..Len(b) : (Len(a) + 1) + i - 1 = Len(a) + i  BY <1>1
    <2> HIDE DEF r
    <2>3. Len(r) = Len(b)  BY <1>1, <2>1, <2>2
    <2>4. \A i \in 1..Len(b) : r[i] = b[i]
      <3> TAKE i \in 1..Len(b)
      <3>1. r[i] = s[(Len(a) + 1) + i - 1]  BY <2>1, <2>2
      <3>2. (Len(a) + 1) + i - 1 = Len(a) + i  BY <2>2
      <3> QED  BY <1>1, <3>1, <3>2
    <2> QED  BY <2>1, <2>3, <2>4, SameText
  <1> QED  BY <1>3, <1>4 DEF From, s

LEMMA LeastNatural ==
    ASSUME NEW T \in SUBSET Nat, T # {}
    PROVE  \E x \in T : \A y \in T : x <= y
  <1> DEFINE R == OpToRel(<, Nat)
  <1>1. PICK x \in T : \A y \in T : <<y, x>> \notin R  BY WFMin, NatLessThanWellFounded
  <1>2. ASSUME NEW y \in T, y < x  PROVE <<y, x>> \in R  BY <1>2 DEF OpToRel
  <1> HIDE DEF R
  <1>3. \A y \in T : x <= y
    <2> TAKE y \in T
    <2>1. ~(y < x)  BY <1>1, <1>2, Zenon
    <2> QED  BY <2>1
  <1> QED  BY <1>3

LEMMA LeastOf ==
    ASSUME NEW S \in SUBSET Nat, NEW x \in S, \A y \in S : x <= y
    PROVE  Min(S) = x
  <1>1. \E z \in S : \A y \in S : z <= y  OBVIOUS
  <1>2. Min(S) \in S /\ \A y \in S : Min(S) <= y  BY <1>1 DEF Min
  <1>3. Min(S) <= x /\ x <= Min(S) /\ x \in Nat /\ Min(S) \in Nat  BY <1>2
  <1> QED  BY <1>3

(* What is found first. *)
LEMMA FirstFound ==
    ASSUME NEW a \in Text, NEW b \in Text, NEW T, \A i \in 1..Len(a) : a[i] \notin T,
           b # <<>> => b[1] \in T
    PROVE  IndexAny(a \o b, T) = Len(a) + 1
  <1> DEFINE s == a \o b  S == {i \in DOMAIN s : s[i] \in T} \cup {Len(s) + 1}
  <1>1. /\ s \in Text /\ Len(s) = Len(a) + Len(b) /\ Len(a) \in Nat /\ Len(b) \in Nat
        /\ \A i \in 1..Len(a) : s[i] = a[i]
        /\ \A i \in 1..Len(b) : s[Len(a) + i] = b[i]
    BY Joins
  <1>2. DOMAIN s = 1..Len(s)  BY <1>1 DEF Text
  <1> HIDE DEF s
  <1>3. S \in SUBSET Nat  BY <1>1, <1>2
  <1>4. Len(a) + 1 \in S
    <2>1. CASE Len(b) = 0  BY <1>1, <2>1
    <2>2. CASE Len(b) # 0
      <3>1. Len(a) + 1 \in DOMAIN s /\ 1 \in 1..Len(b)  BY <1>1, <1>2, <2>2
      <3>2. b # <<>>  BY <2>2
      <3> QED  BY <1>1, <3>1, <3>2
    <2> QED  BY <2>1, <2>2
  <1>5. ASSUME NEW y \in S  PROVE Len(a) + 1 <= y
    <2>1. CASE y = Len(s) + 1  BY <1>1, <2>1
    <2>2. CASE y \in DOMAIN s /\ s[y] \in T
      <3>1. ~(y \in 1..Len(a))  BY <1>1, <2>2
      <3> QED  BY <1>1, <1>2, <2>2, <3>1
    <2> QED  BY <2>1, <2>2
  <1>6. Min(S) = Len(a) + 1
    <2> HIDE DEF S
    <2> QED  BY <1>3, <1>4, <1>5, LeastOf
  <1> QED  BY <1>6 DEF IndexAny, s

(* A line and what is behind it. *)
LEMMA LineIs ==
    ASSUME NEW a \in Text, NEW r \in Text, ~Contains(a, Break)
    PROVE  modelfileLine(a \o (<<Break>> \o r)) = [line |-> a, rest |-> r]
  <1> DEFINE b == <<Break>> \o r  s == a \o b
  <1>1. Break \in Tokens  BY TextIs
  <1>2. <<Break>> \in Text /\ Len(<<Break>>) = 1 /\ <<Break>>[1] = Break  BY <1>1, Token
  <1>3. b \in Text /\ Len(b) = 1 + Len(r) /\ b[1] = Break  BY <1>2, Joins
  <1>4. From(b, 2) = r
    <2>1. From(<<Break>> \o r, Len(<<Break>>) + 1) = r  BY <1>2, Pieces
    <2> QED  BY <1>2, <2>1
  <1> HIDE DEF b
  <1>5. IndexAny(s, {Break}) = Len(a) + 1
    <2>1. \A i \in 1..Len(a) : a[i] \notin {Break}  BY DEF Contains
    <2> QED  BY <1>3, <2>1, FirstFound
  <1>6. SubSeq(s, 1, Len(a)) = a /\ From(s, Len(a) + 2) = r
    <2>1. SubSeq(s, 1, Len(a)) = a  BY <1>3, Pieces
    <2>2. Len(a) \in Nat /\ Len(s) = Len(a) + Len(b) /\ Len(r) \in Nat  BY <1>3, Joins
    <2>3. <<Break>> \in Text /\ a \o <<Break>> \in Text /\ Len(a \o <<Break>>) = Len(a) + 1  BY <1>2, Joins
    <2>4. s = (a \o <<Break>>) \o r  BY <1>2, ConcatAssociative DEF b, Text
    <2>5. From((a \o <<Break>>) \o r, Len(a \o <<Break>>) + 1) = r  BY <2>3, Pieces
    <2> QED  BY <2>1, <2>2, <2>3, <2>4, <2>5, <1>3
  <1>7. modelfileLine(s) = [line |-> SubSeq(s, 1, Len(a)), rest |-> From(s, Len(a) + 2)]
    <2> DEFINE i == IndexAny(s, {Break})
    <2>1. modelfileLine(s) = [line |-> SubSeq(s, 1, i - 1), rest |-> From(s, i + 1)]  BY DEF modelfileLine
    <2>2. i - 1 = Len(a) /\ i + 1 = Len(a) + 2
      <3>1. Len(a) \in Nat  BY DEF Text
      <3> QED  BY <1>5, <3>1
    <2> HIDE DEF i, s
    <2> QED  BY <2>1, <2>2
  <1> QED  BY <1>6, <1>7 DEF b

(* Without the tokens in front. *)
LEMMA TrimmedLeft ==
    ASSUME NEW a \in Text, NEW b \in Text, NEW T, \A i \in 1..Len(a) : a[i] \in T,
           b # <<>> => b[1] \notin T
    PROVE  TrimLeft(a \o b, T) = b
  <1> DEFINE s == a \o b  S == {i \in DOMAIN s : s[i] \notin T} \cup {Len(s) + 1}
  <1>1. /\ s \in Text /\ Len(s) = Len(a) + Len(b) /\ Len(a) \in Nat /\ Len(b) \in Nat
        /\ \A i \in 1..Len(a) : s[i] = a[i]
        /\ \A i \in 1..Len(b) : s[Len(a) + i] = b[i]
    BY Joins
  <1>2. DOMAIN s = 1..Len(s)  BY <1>1 DEF Text
  <1>3. From(s, Len(a) + 1) = b  BY Pieces
  <1> HIDE DEF s
  <1>4. S \in SUBSET Nat  BY <1>1, <1>2
  <1>5. Len(a) + 1 \in S
    <2>1. CASE Len(b) = 0  BY <1>1, <2>1
    <2>2. CASE Len(b) # 0
      <3>1. Len(a) + 1 \in DOMAIN s /\ 1 \in 1..Len(b)  BY <1>1, <1>2, <2>2
      <3>2. b # <<>>  BY <2>2
      <3> QED  BY <1>1, <3>1, <3>2
    <2> QED  BY <2>1, <2>2
  <1>6. ASSUME NEW y \in S  PROVE Len(a) + 1 <= y
    <2>1. CASE y = Len(s) + 1  BY <1>1, <2>1
    <2>2. CASE y \in DOMAIN s /\ s[y] \notin T
      <3>1. ~(y \in 1..Len(a))  BY <1>1, <2>2
      <3> QED  BY <1>1, <1>2, <2>2, <3>1
    <2> QED  BY <2>1, <2>2
  <1>7. Min(S) = Len(a) + 1
    <2> HIDE DEF S
    <2> QED  BY <1>4, <1>5, <1>6, LeastOf
  <1>8. TrimLeft(s, T) = From(s, Min(S))  BY DEF TrimLeft
  <1> HIDE DEF S
  <1> QED  BY <1>3, <1>7, <1>8 DEF s

(* A text is the tokens in front and what is left without them. *)
LEMMA TrimSplit ==
    ASSUME NEW s \in Text, NEW T
    PROVE  \E a \in Text, b \in Text : /\ s = a \o b /\ TrimLeft(s, T) = b
                                       /\ \A i \in 1..Len(a) : a[i] \in T
                                       /\ b # <<>> => b[1] \notin T
  <1> DEFINE S == {i \in DOMAIN s : s[i] \notin T} \cup {Len(s) + 1}
             m == Min(S)
  <1>1. Len(s) \in Nat /\ DOMAIN s = 1..Len(s) /\ s \in Seq(Tokens)  BY TextIs
  <1>2. S \in SUBSET Nat /\ Len(s) + 1 \in S  BY <1>1
  <1>3. PICK x \in S : \A y \in S : x <= y
    <2> HIDE DEF S
    <2> QED  BY <1>2, LeastNatural
  <1>4. m = x
    <2> HIDE DEF S
    <2> QED  BY <1>2, <1>3, LeastOf
  <1>5. m \in 1..Len(s) + 1 /\ \A i \in 1..m - 1 : s[i] \in T
    <2>1. x \in 1..Len(s) + 1  BY <1>1, <1>3
    <2>2. ASSUME NEW i \in 1..x - 1, s[i] \notin T  PROVE FALSE
      <3>1. i \in DOMAIN s  BY <1>1, <2>1
      <3>2. i \in S  BY <2>2, <3>1
      <3> QED  BY <1>3, <2>1, <3>2
    <2> HIDE DEF m
    <2> QED  BY <1>4, <2>1, <2>2
  <1>6. m # Len(s) + 1 => s[m] \notin T  BY <1>3, <1>4
  <1>7. TrimLeft(s, T) = From(s, m)  BY DEF TrimLeft
  <1> HIDE DEF m, S
  <1> DEFINE a == SubSeq(s, 1, m - 1)  b == SubSeq(s, m, Len(s))
  <1>8. /\ a \in Text /\ Len(a) = m - 1 /\ \A i \in 1..m - 1 : a[i] = s[i]
    <2>1. m - 1 \in 0..Len(s) /\ 1 \in Nat \ {0} /\ (m - 1) - 1 + 1 = m - 1  BY <1>1, <1>5
    <2>2. a \in Text /\ Len(a) = (IF 1 <= m - 1 THEN (m - 1) - 1 + 1 ELSE 0)
          /\ \A i \in 1..(m - 1) - 1 + 1 : a[i] = s[1 + i - 1]
      BY <2>1, PieceOf
    <2> HIDE DEF a
    <2> QED  BY <2>1, <2>2, <1>1, <1>5
  <1>9. /\ b \in Text /\ Len(b) = Len(s) - m + 1 /\ \A i \in 1..Len(s) - m + 1 : b[i] = s[m + i - 1]
    <2>1. m \in Nat \ {0} /\ Len(s) \in 0..Len(s)  BY <1>1, <1>5
    <2>2. b \in Text /\ Len(b) = (IF m <= Len(s) THEN Len(s) - m + 1 ELSE 0)
          /\ \A i \in 1..Len(s) - m + 1 : b[i] = s[m + i - 1]
      BY <2>1, PieceOf
    <2> HIDE DEF b
    <2> QED  BY <2>1, <2>2, <1>1, <1>5
  <1> HIDE DEF a, b
  <1>10. s = a \o b
    <2>1. /\ a \o b \in Text /\ Len(a \o b) = Len(a) + Len(b)
          /\ \A i \in 1..Len(a) + Len(b) : (a \o b)[i] = IF i <= Len(a) THEN a[i] ELSE b[i - Len(a)]
      BY <1>8, <1>9, Joins
    <2>2. Len(a) + Len(b) = Len(s)  BY <1>1, <1>5, <1>8, <1>9
    <2>3. ASSUME NEW i \in 1..Len(s)  PROVE s[i] = (a \o b)[i]
      <3>1. CASE i <= Len(a)
        <4>1. i \in 1..m - 1  BY <1>5, <1>8, <3>1
        <4> QED  BY <1>8, <2>1, <2>2, <3>1, <4>1
      <3>2. CASE ~(i <= Len(a))
        <4>1. i - Len(a) \in 1..Len(s) - m + 1 /\ m + (i - Len(a)) - 1 = i  BY <1>1, <1>5, <1>8, <3>2
        <4>2. (a \o b)[i] = b[i - Len(a)]  BY <2>1, <2>2, <3>2
        <4>3. b[i - Len(a)] = s[m + (i - Len(a)) - 1]  BY <1>9, <4>1
        <4> QED  BY <4>1, <4>2, <4>3
      <3> QED  BY <3>1, <3>2
    <2> QED  BY <2>1, <2>2, <2>3, SameText
  <1>11. b # <<>> => b[1] \notin T
    <2> SUFFICES ASSUME b # <<>>  PROVE b[1] \notin T  OBVIOUS
    <2>1. Len(b) # 0  BY <1>9, EmptySeq DEF Text
    <2>2. m # Len(s) + 1 /\ 1 \in 1..Len(s) - m + 1 /\ m + 1 - 1 = m  BY <1>1, <1>5, <1>9, <2>1
    <2>3. b[1] = s[m + 1 - 1]  BY <1>9, <2>2
    <2> QED  BY <1>6, <2>2, <2>3
  <1>12. \A i \in 1..Len(a) : a[i] \in T  BY <1>5, <1>8
  <1>13. TrimLeft(s, T) = b  BY <1>7 DEF From, b
  <1> QED  BY <1>8, <1>9, <1>10, <1>11, <1>12, <1>13

-----------------------------------------------------------------------------
(* Values. *)

LEMMA NoText == <<>> \in Text /\ Len(<<>>) = 0 /\ \A s \in Text : <<>> \o s = s /\ s \o <<>> = s
  BY EmptySeq, ConcatEmptySeq, TextIs

LEMMA NotEmpty ==
    ASSUME NEW s \in Text
    PROVE  /\ Len(s) \in Nat /\ (s = <<>> <=> Len(s) = 0)
           /\ s # <<>> => Head(s) = s[1] /\ Last(s) = s[Len(s)] /\ 1 \in 1..Len(s) /\ Len(s) \in 1..Len(s)
  BY EmptySeq, HeadTailProperties DEF Text, Last

LEMMA NoneInFront ==
    ASSUME NEW t \in Text, NEW T, t # <<>> => t[1] \notin T
    PROVE  TrimLeft(t, T) = t
  <1>1. \A i \in 1..Len(<<>>) : <<>>[i] \in T  BY NoText
  <1>2. TrimLeft(<<>> \o t, T) = t  BY <1>1, NoText, TrimmedLeft
  <1> QED  BY <1>2, NoText

LEMMA TrimNothing ==
    ASSUME NEW s \in Text, NEW T, s # <<>> => s[1] \notin T /\ s[Len(s)] \notin T
    PROVE  Trim(s, T) = s
  <1>2. /\ Reverse(s) \in Text /\ Len(Reverse(s)) = Len(s)
        /\ \A i \in 1..Len(s) : Reverse(s)[i] = s[(Len(s) - i) + 1]
    <2>1. \A i \in 1..Len(s) : s[(Len(s) - i) + 1] \in Tokens
      <3>1. \A i \in 1..Len(s) : (Len(s) - i) + 1 \in 1..Len(s)  BY NotEmpty
      <3> QED  BY <3>1, TextIs
    <2>2. Len(s) \in Nat /\ Reverse(s) = [i \in 1..Len(s) |-> s[(Len(s) - i) + 1]]  BY NotEmpty DEF Reverse
    <2> QED  BY <2>1, <2>2, TextIs
  <1>3. TrimLeft(s, T) = s  BY NoneInFront
  <1>4. TrimLeft(Reverse(s), T) = Reverse(s)
    <2>1. ASSUME Reverse(s) # <<>>  PROVE Reverse(s)[1] \notin T
      <3>1. Len(s) # 0  BY <1>2, <2>1, NotEmpty
      <3>2. s # <<>> /\ 1 \in 1..Len(s) /\ (Len(s) - 1) + 1 = Len(s)  BY <3>1, NotEmpty
      <3>3. Reverse(s)[1] = s[Len(s)]  BY <1>2, <3>2
      <3> QED  BY <3>2, <3>3
    <2> QED  BY <1>2, <2>1, NoneInFront
  <1>5. Reverse(Reverse(s)) = s
    <2> DEFINE r == Reverse(s)
    <2>1. r \in Text /\ Len(r) = Len(s) /\ Len(s) \in Nat  BY <1>2, NotEmpty
    <2>2. Reverse(r) = [i \in 1..Len(s) |-> r[(Len(s) - i) + 1]]  BY <2>1 DEF Reverse
    <2>3. \A i \in 1..Len(s) : r[(Len(s) - i) + 1] = s[i]
      <3>1. \A i \in 1..Len(s) : (Len(s) - i) + 1 \in 1..Len(s) /\ (Len(s) - ((Len(s) - i) + 1)) + 1 = i  BY <2>1
      <3> QED  BY <1>2, <3>1
    <2> HIDE DEF r
    <2>4. Reverse(r) = [i \in 1..Len(s) |-> s[i]]  BY <2>2, <2>3
    <2>5. s = [i \in 1..Len(s) |-> s[i]]  BY DEF Text
    <2> QED  BY <2>4, <2>5 DEF r
  <1> QED  BY <1>3, <1>4, <1>5 DEF Trim

(* Where a delimiter stands behind the first one. *)
Ends(s, q) == {i \in Len(q) + 1..Len(s) - Len(q) + 1 : SubSeq(s, i, i + Len(q) - 1) = q}

LEMMA DelimitedIs ==
    ASSUME NEW s, NEW q
    PROVE  LET after == modelfileLine(From(s, Min(Ends(s, q)) + Len(q)))
           IN  Delimited(s, q) = IF Ends(s, q) = {} \/ Trim(after.line, {Space}) # <<>> THEN Failed
                                 ELSE [value |-> SubSeq(s, Len(q) + 1, Min(Ends(s, q)) - 1),
                                       rest |-> after.rest, ok |-> TRUE]
  BY DEF Delimited, Ends

LEMMA FirstEnd ==
    ASSUME NEW s \in Text, NEW q \in Text, q # <<>>, Ends(s, q) # {}
    PROVE  Min(Ends(s, q)) \in Ends(s, q) /\ \A e \in Ends(s, q) : Min(Ends(s, q)) <= e
  <1>1. Len(s) \in Nat /\ Len(q) \in Nat  BY NotEmpty
  <1>2. Ends(s, q) \in SUBSET Nat  BY <1>1 DEF Ends
  <1>3. PICK x \in Ends(s, q) : \A y \in Ends(s, q) : x <= y  BY <1>2, LeastNatural
  <1>4. Min(Ends(s, q)) = x  BY <1>2, <1>3, LeastOf
  <1> QED  BY <1>3, <1>4

(* A value that is read is what stands before the next delimiter. *)
LEMMA DelimitedValue ==
    ASSUME NEW s \in Text, NEW q \in Text, q # <<>>, Delimited(s, q).ok, Delimited(s, q).value # <<>>
    PROVE  LET v == Delimited(s, q).value
               e == Len(q) + Len(v) + 1
           IN  /\ e \in Ends(s, q) /\ \A y \in Ends(s, q) : e <= y
               /\ v \in Text /\ \A i \in 1..Len(v) : v[i] = s[Len(q) + i]
               /\ Delimited(s, q).rest = modelfileLine(From(s, e + Len(q))).rest
  <1> DEFINE x == Delimited(s, q)  v == x.value  n == Len(q)  e == Min(Ends(s, q))
             after == modelfileLine(From(s, e + n))
  <1>1. Ends(s, q) # {} /\ v = SubSeq(s, n + 1, e - 1) /\ x.rest = after.rest
    <2>1. x = IF Ends(s, q) = {} \/ Trim(after.line, {Space}) # <<>> THEN Failed
              ELSE [value |-> SubSeq(s, n + 1, e - 1), rest |-> after.rest, ok |-> TRUE]
      BY DelimitedIs
    <2>2. Failed.ok = FALSE  BY DEF Failed
    <2> HIDE DEF after, e
    <2>3. x.ok  OBVIOUS
    <2> HIDE DEF x
    <2>4. ~(Ends(s, q) = {} \/ Trim(after.line, {Space}) # <<>>)
      <3> SUFFICES ASSUME Ends(s, q) = {} \/ Trim(after.line, {Space}) # <<>>  PROVE FALSE  OBVIOUS
      <3>1. x = Failed  BY <2>1
      <3> QED  BY <2>2, <2>3, <3>1
    <2>5. x = [value |-> SubSeq(s, n + 1, e - 1), rest |-> after.rest, ok |-> TRUE]  BY <2>1, <2>4
    <2> QED  BY <2>4, <2>5
  <1>2. e \in Ends(s, q) /\ \A y \in Ends(s, q) : e <= y  BY <1>1, FirstEnd
  <1>3. Len(s) \in Nat /\ n \in Nat \ {0}  BY NotEmpty
  <1>4. e \in n + 1..Len(s) - n + 1  BY <1>2 DEF Ends
  <1> HIDE DEF e, x
  <1>5. /\ v \in Text /\ Len(v) = (IF n + 1 <= e - 1 THEN e - 1 - (n + 1) + 1 ELSE 0)
        /\ \A i \in 1..e - 1 - (n + 1) + 1 : v[i] = s[n + 1 + i - 1]
    <2>1. e - 1 \in 0..Len(s) /\ n + 1 \in Nat \ {0}  BY <1>3, <1>4
    <2> QED  BY <1>1, <2>1, PieceOf
  <1>6. Len(v) # 0  BY <1>5, NotEmpty DEF x
  <1>7. Len(v) = e - 1 - n /\ e = n + Len(v) + 1 /\ e - 1 - (n + 1) + 1 = Len(v)  BY <1>3, <1>4, <1>5, <1>6
  <1>8. \A i \in 1..Len(v) : v[i] = s[n + i]
    <2>1. \A i \in 1..Len(v) : n + 1 + i - 1 = n + i  BY <1>3
    <2> HIDE DEF v, n
    <2> QED  BY <1>5, <1>7, <2>1
  <1> QED  BY <1>1, <1>2, <1>5, <1>7, <1>8 DEF x

LEMMA BreakText == <<Break>> \in Text /\ Len(<<Break>>) = 1 /\ <<Break>>[1] = Break
  <1>1. Break \in Tokens  BY TextIs
  <1> QED  BY <1>1, Token

LEMMA BehindIs ==
    ASSUME NEW R \in Text
    PROVE  /\ <<Break>> \o R \in Text /\ (<<Break>> \o R)[1] = Break /\ <<Break>> \o R # <<>>
           /\ modelfileLine(<<Break>> \o R) = [line |-> <<>>, rest |-> R]
  <1>1. <<Break>> \o R \in Text /\ Len(<<Break>> \o R) = 1 + Len(R) /\ Len(R) \in Nat
        /\ (<<Break>> \o R)[1] = Break
    BY BreakText, Joins
  <1>2. ~Contains(<<>>, Break)  BY NoText DEF Contains
  <1>3. modelfileLine(<<>> \o (<<Break>> \o R)) = [line |-> <<>>, rest |-> R]  BY <1>2, NoText, LineIs
  <1>4. <<Break>> \o R # <<>>  BY <1>1, NotEmpty
  <1> QED  BY <1>1, <1>3, <1>4, NoText

(* A value in delimiters, and a text, with a line's end and what is behind it. *)
Wrapped(q, v, R) == ((q \o v) \o q) \o (<<Break>> \o R)
Before(v, R) == v \o (<<Break>> \o R)

LEMMA DelimitedText ==
    ASSUME NEW q \in Text, NEW v \in Text, NEW R \in Text
    PROVE  LET s == Wrapped(q, v, R)
           IN  /\ s \in Text /\ Len(s) = Len(q) + Len(v) + Len(q) + Len(<<Break>> \o R)
               /\ \A i \in 1..Len(q) : s[i] = q[i]
               /\ \A i \in 1..Len(v) : s[Len(q) + i] = v[i]
               /\ \A i \in 1..Len(q) : s[Len(q) + Len(v) + i] = q[i]
               /\ From(s, Len(q) + Len(v) + Len(q) + 1) = <<Break>> \o R
  <1> DEFINE b == <<Break>> \o R  h == q \o v  g == h \o q  s == g \o b
  <1>1. b \in Text /\ Len(q) \in Nat /\ Len(v) \in Nat /\ Len(b) \in Nat  BY BehindIs, NotEmpty
  <1> HIDE DEF b
  <1>2. /\ h \in Text /\ Len(h) = Len(q) + Len(v)
        /\ \A i \in 1..Len(q) : h[i] = q[i]
        /\ \A i \in 1..Len(v) : h[Len(q) + i] = v[i]
    BY Joins
  <1> HIDE DEF h
  <1>3. /\ g \in Text /\ Len(g) = Len(h) + Len(q)
        /\ \A i \in 1..Len(h) : g[i] = h[i]
        /\ \A i \in 1..Len(q) : g[Len(h) + i] = q[i]
    BY <1>2, Joins
  <1> HIDE DEF g
  <1>4. /\ s \in Text /\ Len(s) = Len(g) + Len(b)
        /\ \A i \in 1..Len(g) : s[i] = g[i]
        /\ From(s, Len(g) + 1) = b
    BY <1>1, <1>3, Joins, Pieces
  <1> HIDE DEF s
  <1>5. \A i \in 1..Len(q) : s[i] = q[i]
    <2>1. \A i \in 1..Len(q) : i \in 1..Len(h) /\ i \in 1..Len(g)  BY <1>1, <1>2, <1>3
    <2> QED  BY <1>2, <1>3, <1>4, <2>1
  <1>6. \A i \in 1..Len(v) : s[Len(q) + i] = v[i]
    <2>1. \A i \in 1..Len(v) : Len(q) + i \in 1..Len(h) /\ Len(q) + i \in 1..Len(g)  BY <1>1, <1>2, <1>3
    <2> QED  BY <1>2, <1>3, <1>4, <2>1
  <1>7. \A i \in 1..Len(q) : s[Len(q) + Len(v) + i] = q[i]
    <2>1. \A i \in 1..Len(q) : Len(h) + i \in 1..Len(g)  BY <1>1, <1>2, <1>3
    <2> QED  BY <1>2, <1>3, <1>4, <2>1
  <1>8. Len(g) + 1 = Len(q) + Len(v) + Len(q) + 1 /\ Len(s) = Len(q) + Len(v) + Len(q) + Len(b)
    BY <1>2, <1>3, <1>4
  <1> QED  BY <1>4, <1>5, <1>6, <1>7, <1>8 DEF b, h, g, s, Wrapped

(* The right delimiter is where the value that was written is read. *)
LEMMA DelimitedRead ==
    ASSUME NEW q \in Text, q # <<>>, NEW v \in Text, v # <<>>, NEW R \in Text
    PROVE  LET x == Delimited(Wrapped(q, v, R), q)
           IN  /\ x.ok /\ x.value = v => x.rest = R
               /\ (\A i \in 1..Len(v) : v[i] # q[1]) => x = [value |-> v, rest |-> R, ok |-> TRUE]
  <1> DEFINE s == Wrapped(q, v, R)  n == Len(q)  e == n + Len(v) + 1
  <1>1. /\ s \in Text /\ Len(s) = n + Len(v) + n + Len(<<Break>> \o R)
        /\ \A i \in 1..n : s[i] = q[i]
        /\ \A i \in 1..Len(v) : s[n + i] = v[i]
        /\ \A i \in 1..n : s[n + Len(v) + i] = q[i]
        /\ From(s, n + Len(v) + n + 1) = <<Break>> \o R  BY DelimitedText, ZenonT(40)
  <1> HIDE DEF s
  <1>2. n \in Nat \ {0} /\ Len(v) \in Nat \ {0} /\ Len(<<Break>> \o R) \in Nat  BY BehindIs, NotEmpty
  <1>3. modelfileLine(From(s, e + n)) = [line |-> <<>>, rest |-> R]
    <2>1. e + n = n + Len(v) + n + 1  BY <1>2
    <2> QED  BY <1>1, <2>1, BehindIs
  <1>4. ASSUME Delimited(s, q).ok, Delimited(s, q).value = v  PROVE Delimited(s, q).rest = R
    <2>1. Delimited(s, q).value # <<>>  BY <1>4
    <2>2. LET u == Delimited(s, q).value
          IN  Delimited(s, q).rest = modelfileLine(From(s, Len(q) + Len(u) + 1 + Len(q))).rest
      BY <1>1, <1>4, <2>1, DelimitedValue
    <2>3. Delimited(s, q).rest = modelfileLine(From(s, e + n)).rest  BY <1>4, <2>2
    <2> QED  BY <1>3, <2>3
  <1>5. ASSUME \A i \in 1..Len(v) : v[i] # q[1]
        PROVE  Delimited(s, q) = [value |-> v, rest |-> R, ok |-> TRUE]
    <2>1. \A i \in n + 1..Len(s) - n + 1 :
             /\ SubSeq(s, i, i + n - 1) \in Text /\ Len(SubSeq(s, i, i + n - 1)) = n
             /\ \A j \in 1..n : SubSeq(s, i, i + n - 1)[j] = s[i + j - 1]
      <3> TAKE i \in n + 1..Len(s) - n + 1
      <3>1. /\ i \in Nat \ {0} /\ i + n - 1 \in 0..Len(s) /\ i <= i + n - 1 /\ (i + n - 1) - i + 1 = n
        BY <1>1, <1>2
      <3> DEFINE m == i + n - 1
      <3>2. /\ SubSeq(s, i, m) \in Text /\ Len(SubSeq(s, i, m)) = (IF i <= m THEN m - i + 1 ELSE 0)
            /\ \A j \in 1..m - i + 1 : SubSeq(s, i, m)[j] = s[i + j - 1]
        BY <1>1, <3>1, PieceOf
      <3> QED  BY <3>1, <3>2
    <2>2. e \in Ends(s, q)
      <3>1. e \in n + 1..Len(s) - n + 1
        <4> HIDE DEF n
        <4> QED  BY <1>1, <1>2
      <3>2. \A j \in 1..n : e + j - 1 = n + Len(v) + j  BY <1>2
      <3>3. \A j \in 1..n : SubSeq(s, e, e + n - 1)[j] = q[j]  BY <1>1, <2>1, <3>1, <3>2
      <3>4. SubSeq(s, e, e + n - 1) = q  BY <2>1, <3>1, <3>3, SameText
      <3> HIDE DEF e
      <3> QED  BY <3>1, <3>4 DEF Ends
    <2>3. ASSUME NEW y \in Ends(s, q), y < e  PROVE FALSE
      <3>1. y \in n + 1..Len(s) - n + 1 /\ SubSeq(s, y, y + n - 1) = q  BY <2>3 DEF Ends
      <3>2. 1 \in 1..n /\ y + 1 - 1 = y /\ y - n \in 1..Len(v) /\ n + (y - n) = y  BY <1>2, <2>3, <3>1
      <3>3. q[1] = s[y]  BY <2>1, <3>1, <3>2
      <3>4. s[y] = v[y - n]  BY <1>1, <3>2
      <3> QED  BY <1>5, <3>2, <3>3, <3>4
    <2>4. Ends(s, q) # {} /\ Min(Ends(s, q)) = e
      <3>1. Ends(s, q) \in SUBSET Nat  BY <1>2 DEF Ends
      <3>2. \A y \in Ends(s, q) : e <= y
        <4> TAKE y \in Ends(s, q)
        <4>1. y \in Nat /\ e \in Nat  BY <1>2, <3>1
        <4> HIDE DEF e
        <4> QED  BY <2>3, <4>1
      <3> HIDE DEF e
      <3> QED  BY <2>2, <3>1, <3>2, LeastOf
    <2>5. SubSeq(s, n + 1, e - 1) = v
      <3>1. /\ n + 1 \in Nat \ {0} /\ e - 1 \in 0..Len(s) /\ n + 1 <= e - 1
            /\ (e - 1) - (n + 1) + 1 = Len(v)
        BY <1>1, <1>2
      <3> DEFINE w == SubSeq(s, n + 1, e - 1)
      <3>2. /\ w \in Text /\ Len(w) = (IF n + 1 <= e - 1 THEN (e - 1) - (n + 1) + 1 ELSE 0)
            /\ \A i \in 1..(e - 1) - (n + 1) + 1 : w[i] = s[(n + 1) + i - 1]
        BY <1>1, <3>1, PieceOf
      <3>3. \A i \in 1..Len(v) : (n + 1) + i - 1 = n + i  BY <1>2
      <3> HIDE DEF w
      <3>4. \A i \in 1..Len(v) : w[i] = v[i]  BY <1>1, <3>1, <3>2, <3>3
      <3>5. w = v  BY <3>1, <3>2, <3>4, SameText
      <3> QED  BY <3>5 DEF w
    <2>6. Trim(<<>>, {Space}) = <<>>  BY NoText, TrimNothing
    <2> HIDE DEF e, n
    <2> DEFINE after == modelfileLine(From(s, Min(Ends(s, q)) + Len(q)))
    <2>7. after.line = <<>> /\ after.rest = R  BY <1>3, <2>4 DEF n
    <2>8. Delimited(s, q) = IF Ends(s, q) = {} \/ Trim(after.line, {Space}) # <<>> THEN Failed
                            ELSE [value |-> SubSeq(s, Len(q) + 1, Min(Ends(s, q)) - 1),
                                  rest |-> after.rest, ok |-> TRUE]
      BY DelimitedIs
    <2> HIDE DEF after
    <2>9. ~(Ends(s, q) = {} \/ Trim(after.line, {Space}) # <<>>)  BY <2>4, <2>6, <2>7
    <2>10. SubSeq(s, Len(q) + 1, Min(Ends(s, q)) - 1) = v  BY <2>4, <2>5 DEF n
    <2> QED  BY <2>7, <2>8, <2>9, <2>10
  <1> QED  BY <1>4, <1>5 DEF s

(* A text that starts with a delimiter, and whose value starts as it does, was not delimited. *)
LEMMA NotDelimited ==
    ASSUME NEW s \in Text, NEW q \in Text, q # <<>>, NEW v \in Text,
           Len(q) <= Len(v), \A i \in 1..Len(q) : s[i] = q[i] /\ v[i] = q[i],
           Delimited(s, q).ok, Delimited(s, q).value = v
    PROVE  FALSE
  <1> DEFINE n == Len(q)  e == n + Len(v) + 1  y == n + 1
  <1>1. n \in Nat \ {0} /\ Len(v) \in Nat /\ Len(s) \in Nat /\ v # <<>>  BY NotEmpty
  <1>2. e \in Ends(s, q) /\ (\A z \in Ends(s, q) : e <= z) /\ \A i \in 1..Len(v) : v[i] = s[n + i]
    <2>1. LET u == Delimited(s, q).value
          IN  /\ Len(q) + Len(u) + 1 \in Ends(s, q) /\ \A z \in Ends(s, q) : Len(q) + Len(u) + 1 <= z
              /\ \A i \in 1..Len(u) : u[i] = s[Len(q) + i]
      BY <1>1, DelimitedValue
    <2> QED  BY <2>1
  <1>3. e \in n + 1..Len(s) - n + 1  BY <1>2 DEF Ends
  <1>4. y \in n + 1..Len(s) - n + 1 /\ y \in Nat \ {0} /\ y + n - 1 \in 0..Len(s) /\ y <= y + n - 1
        /\ (y + n - 1) - y + 1 = n
    BY <1>1, <1>3
  <1> DEFINE w == SubSeq(s, y, y + n - 1)
  <1>5. /\ w \in Text /\ Len(w) = (IF y <= y + n - 1 THEN (y + n - 1) - y + 1 ELSE 0)
        /\ \A j \in 1..(y + n - 1) - y + 1 : w[j] = s[y + j - 1]
    BY <1>4, PieceOf
  <1>6. \A j \in 1..n : j \in 1..Len(v) /\ y + j - 1 = n + j  BY <1>1
  <1> HIDE DEF w
  <1>7. Len(w) = n /\ \A j \in 1..n : w[j] = q[j]
    <2>1. Len(w) = n /\ \A j \in 1..n : w[j] = s[y + j - 1]  BY <1>4, <1>5
    <2> QED  BY <1>2, <1>6, <2>1
  <1>8. w = q  BY <1>5, <1>7, SameText
  <1>9. y \in Ends(s, q)  BY <1>4, <1>8 DEF Ends, w
  <1>10. e <= y  BY <1>2, <1>9
  <1> QED  BY <1>1, <1>10

LEMMA QuoteText ==
    /\ Quote \in Tokens /\ <<Quote>> \in Text /\ Len(<<Quote>>) = 1 /\ <<Quote>>[1] = Quote /\ <<Quote>> # <<>>
    /\ Triple \in Text /\ Len(Triple) = 3 /\ Triple # <<>> /\ \A i \in 1..3 : Triple[i] = Quote
  <1>1. Quote \in Tokens  BY TextIs
  <1>2. <<Quote>> \in Text /\ Len(<<Quote>>) = 1 /\ <<Quote>>[1] = Quote /\ <<Quote>> # <<>>  BY <1>1, Token
  <1>3. Triple \in Text /\ Len(Triple) = 3 /\ Triple # <<>>  BY <1>1, TextIs DEF Triple
  <1>4. \A i \in 1..3 : Triple[i] = Quote
    <2>1. \A i \in 1..3 : i = 1 \/ i = 2 \/ i = 3  OBVIOUS
    <2> QED  BY <2>1 DEF Triple
  <1> QED  BY <1>1, <1>2, <1>3, <1>4

LEMMA TripleFirst ==
    ASSUME NEW s \in Text
    PROVE  IsPrefix(Triple, s) <=> Len(s) >= 3 /\ \A i \in 1..3 : s[i] = Quote
  <1>1. Len(Triple) = 3 /\ Len(s) \in Nat /\ Triple \in Text /\ \A i \in 1..3 : Triple[i] = Quote
    BY QuoteText, NotEmpty
  <1>2. SubSeq(Triple, 1, 3) = Triple
    <2> DEFINE w == SubSeq(Triple, 1, 3)
    <2>1. /\ w \in Text /\ Len(w) = (IF 1 <= 3 THEN 3 - 1 + 1 ELSE 0) /\ \A i \in 1..3 - 1 + 1 : w[i] = Triple[1 + i - 1]
      <3>1. 1 \in Nat \ {0} /\ 3 \in 0..Len(Triple)  BY <1>1
      <3> QED  BY <1>1, <3>1, PieceOf
    <2> HIDE DEF w
    <2>2. Len(w) = 3 /\ \A i \in 1..3 : w[i] = Triple[i]
      <3>1. \A i \in 1..3 : 1 + i - 1 = i  OBVIOUS
      <3> QED  BY <2>1, <3>1
    <2>3. w = Triple  BY <1>1, <2>1, <2>2, SameText
    <2> QED  BY <2>3 DEF w
  <1>3. ASSUME Len(s) >= 3  PROVE SubSeq(s, 1, 3) = Triple <=> \A i \in 1..3 : s[i] = Quote
    <2> DEFINE w == SubSeq(s, 1, 3)
    <2>1. /\ w \in Text /\ Len(w) = (IF 1 <= 3 THEN 3 - 1 + 1 ELSE 0) /\ \A i \in 1..3 - 1 + 1 : w[i] = s[1 + i - 1]
      <3>1. 1 \in Nat \ {0} /\ 3 \in 0..Len(s)  BY <1>1, <1>3
      <3> QED  BY <3>1, PieceOf
    <2> HIDE DEF w
    <2>2. Len(w) = 3 /\ \A i \in 1..3 : w[i] = s[i]
      <3>1. \A i \in 1..3 : 1 + i - 1 = i  OBVIOUS
      <3> QED  BY <2>1, <3>1
    <2>3. (\A i \in 1..3 : s[i] = Quote) => w = Triple
      <3> SUFFICES ASSUME \A i \in 1..3 : s[i] = Quote  PROVE w = Triple  OBVIOUS
      <3>1. \A i \in 1..Len(w) : w[i] = Triple[i]  BY <1>1, <2>2
      <3> QED  BY <1>1, <2>1, <2>2, <3>1, SameText
    <2>4. w = Triple => \A i \in 1..3 : s[i] = Quote  BY <1>1, <2>2
    <2> QED  BY <2>3, <2>4 DEF w
  <1>4. IsPrefix(Triple, s) <=> 3 <= Len(s) /\ SubSeq(Triple, 1, 3) = SubSeq(s, 1, 3)  BY <1>1 DEF IsPrefix
  <1>5. Len(s) >= 3 <=> 3 <= Len(s)  BY <1>1
  <1> QED  BY <1>2, <1>3, <1>4, <1>5

(* What is read where a value was written: if it is the value, the rest is what was behind it;
   and a value without quotes is read. *)
LEMMA ValueRead ==
    ASSUME NEW v \in Text, v # <<>>, NEW R \in Text
    PROVE  LET x == modelfileValue(Before(serializedValue(v), R))
           IN  /\ x.ok /\ x.value = v => x.rest = R
               /\ ~Contains(v, Quote) => x = [value |-> v, rest |-> R, ok |-> TRUE]
  <1> DEFINE s == Before(serializedValue(v), R)  x == modelfileValue(s)  b == <<Break>> \o R
             wrapped == Contains(v, Break) \/ Space \in {Head(v), Last(v)}
  <1>1. /\ Len(v) \in Nat \ {0} /\ Head(v) = v[1] /\ Last(v) = v[Len(v)]
        /\ 1 \in 1..Len(v) /\ Len(v) \in 1..Len(v)
    BY NotEmpty
  <1>2. ASSUME wrapped, Contains(v, Quote)
        PROVE  x.ok /\ x.value = v => x.rest = R
    <2> DEFINE q == Triple
    <2>0. q \in Text /\ q # <<>> /\ Len(q) = 3 /\ \A i \in 1..3 : q[i] = Quote  BY QuoteText
    <2> HIDE DEF q
    <2>1. s = Wrapped(q, v, R)  BY <1>2 DEF serializedValue, Wrapped, Before, q
    <2> HIDE DEF s
    <2>2. /\ s \in Text /\ Len(s) = Len(q) + Len(v) + Len(q) + Len(b) /\ \A i \in 1..Len(q) : s[i] = q[i]
      <3> DEFINE z == Wrapped(q, v, R)
      <3>1. /\ z \in Text /\ Len(z) = Len(q) + Len(v) + Len(q) + Len(b) /\ \A i \in 1..Len(q) : z[i] = q[i]
        BY <2>0, DelimitedText, ZenonT(40)
      <3> HIDE DEF z, b
      <3> QED  BY <2>1, <3>1 DEF z
    <2>3. Len(b) \in Nat  BY BehindIs, NotEmpty
    <2>4. Len(s) >= 3 /\ \A i \in 1..3 : s[i] = Quote
      <3> HIDE DEF b
      <3> QED  BY <1>1, <2>0, <2>2, <2>3
    <2>5. IsPrefix(Triple, s)  BY <2>2, <2>4, TripleFirst
    <2>6. s # <<>> /\ Head(s) = Quote
      <3>1. Len(s) # 0  BY <2>4
      <3>2. s # <<>> /\ Head(s) = s[1]  BY <2>2, <3>1, NotEmpty
      <3> QED  BY <2>4, <3>2
    <2>7. x = Delimited(s, q)  BY <2>5, <2>6 DEF modelfileValue, Quote, Break, q
    <2> HIDE DEF x
    <2>8. Delimited(s, q).ok /\ Delimited(s, q).value = v => Delimited(s, q).rest = R
      BY <2>0, <2>1, DelimitedRead
    <2> QED  BY <2>7, <2>8
  <1>3. ASSUME wrapped, ~Contains(v, Quote)
        PROVE  x = [value |-> v, rest |-> R, ok |-> TRUE]
    <2> DEFINE q == <<Quote>>
    <2>0. q \in Text /\ q # <<>> /\ Len(q) = 1 /\ q[1] = Quote /\ 1 \in 1..1  BY QuoteText
    <2> HIDE DEF q
    <2>a. s = Wrapped(q, v, R)  BY <1>3 DEF serializedValue, Wrapped, Before, q
    <2> HIDE DEF s
    <2>1. /\ s \in Text /\ Len(s) = 1 + Len(v) + 1 + Len(b) /\ s[1] = Quote
          /\ \A i \in 1..Len(v) : s[1 + i] = v[i]
      <3> DEFINE z == Wrapped(q, v, R)
      <3>1. /\ z \in Text /\ Len(z) = Len(q) + Len(v) + Len(q) + Len(b)
            /\ \A i \in 1..Len(q) : z[i] = q[i]
            /\ \A i \in 1..Len(v) : z[Len(q) + i] = v[i]
        BY <2>0, DelimitedText, ZenonT(40)
      <3> HIDE DEF z, b
      <3>2. s = z  BY <2>a DEF z
      <3> QED  BY <2>0, <3>1, <3>2
    <2>2. Len(b) \in Nat  BY BehindIs, NotEmpty
    <2>3. \A i \in 1..Len(v) : v[i] # Quote  BY <1>3 DEF Contains
    <2>4. s[2] # Quote
      <3>1. s[1 + 1] = v[1] /\ 1 + 1 = 2  BY <1>1, <2>1
      <3> QED  BY <1>1, <2>3, <3>1
    <2>5. ~IsPrefix(Triple, s)
      <3>1. 2 \in 1..3  OBVIOUS
      <3> QED  BY <2>1, <2>4, <3>1, TripleFirst
    <2>6. s # <<>> /\ Head(s) = Quote
      <3> HIDE DEF b
      <3>1. Len(s) # 0  BY <1>1, <2>1, <2>2
      <3>2. s # <<>> /\ Head(s) = s[1]  BY <2>1, <3>1, NotEmpty
      <3> QED  BY <2>1, <3>2
    <2>7. x = Delimited(s, q)  BY <2>5, <2>6 DEF modelfileValue, Quote, Break, q
    <2> HIDE DEF x
    <2>8. \A i \in 1..Len(v) : v[i] # q[1]  BY <2>0, <2>3
    <2>9. Delimited(s, q) = [value |-> v, rest |-> R, ok |-> TRUE]  BY <2>0, <2>a, <2>8, DelimitedRead
    <2> QED  BY <2>7, <2>9
  <1>4. ASSUME ~wrapped
        PROVE  /\ x.ok /\ x.value = v => x.rest = R
               /\ ~Contains(v, Quote) => x = [value |-> v, rest |-> R, ok |-> TRUE]
    <2>0. s = v \o b /\ ~Contains(v, Break) /\ v[1] # Space /\ v[Len(v)] # Space
      BY <1>1, <1>4 DEF serializedValue, Before
    <2>1. /\ s \in Text /\ Len(s) = Len(v) + Len(b) /\ Len(b) \in Nat /\ b # <<>> /\ b[1] = Break
          /\ \A i \in 1..Len(v) : s[i] = v[i]
          /\ \A i \in 1..Len(b) : s[Len(v) + i] = b[i]
      <3>1. b \in Text /\ Len(b) \in Nat /\ b # <<>> /\ b[1] = Break  BY BehindIs, NotEmpty
      <3> HIDE DEF b, s
      <3>2. /\ v \o b \in Text /\ Len(v \o b) = Len(v) + Len(b)
            /\ \A i \in 1..Len(v) : (v \o b)[i] = v[i]
            /\ \A i \in 1..Len(b) : (v \o b)[Len(v) + i] = b[i]
        BY <3>1, Joins
      <3> QED  BY <2>0, <3>1, <3>2
    <2> HIDE DEF s
    <2>2. s[Len(v) + 1] = Break
      <3>1. 1 \in 1..Len(b)  BY <2>1, BehindIs, NotEmpty
      <3> QED  BY <2>1, <3>1
    <2>3. s # <<>> /\ Head(s) = v[1]
      <3> HIDE DEF b
      <3>1. Len(s) # 0  BY <1>1, <2>1
      <3>2. s # <<>> /\ Head(s) = s[1]  BY <2>1, <3>1, NotEmpty
      <3> QED  BY <1>1, <2>1, <3>2
    <2>4. modelfileLine(s) = [line |-> v, rest |-> R]  BY <2>0, LineIs DEF s
    <2>5. Trim(v, {Space}) = v
      <3>1. v # <<>> => v[1] \notin {Space} /\ v[Len(v)] \notin {Space}  BY <2>0
      <3> QED  BY <3>1, TrimNothing
    <2>6. v[1] # Break  BY <1>1, <2>0 DEF Contains
    <2> DEFINE raw == [value |-> v, rest |-> R, ok |-> TRUE]
    <2>7. CASE IsPrefix(Triple, s)
      <3>1. Len(s) >= 3 /\ \A i \in 1..3 : s[i] = Quote  BY <2>1, <2>7, TripleFirst
      <3>2. x = Delimited(s, Triple)  BY <2>3, <2>6, <2>7 DEF modelfileValue
      <3>3. Len(v) >= 3
        <4>1. SUFFICES ASSUME Len(v) + 1 \in 1..3  PROVE FALSE  BY <1>1
        <4>2. s[Len(v) + 1] = Quote  BY <3>1, <4>1
        <4> QED  BY <2>2, <4>2 DEF Quote, Break
      <3>4. \A i \in 1..3 : i \in 1..Len(v)  BY <1>1, <3>3
      <3>5. \A i \in 1..3 : v[i] = Quote  BY <2>1, <3>1, <3>4
      <3>6. Contains(v, Quote)
        <4>1. 1 \in 1..3  OBVIOUS
        <4> QED  BY <1>1, <3>5, <4>1 DEF Contains
      <3>7. ~(x.ok /\ x.value = v)
        <4> DEFINE q == Triple
        <4>0. q \in Text /\ q # <<>> /\ Len(q) = 3 /\ \A i \in 1..3 : q[i] = Quote  BY QuoteText
        <4> HIDE DEF q
        <4>a. x = Delimited(s, q)  BY <3>2 DEF q
        <4> HIDE DEF x
        <4> SUFFICES ASSUME x.ok, x.value = v  PROVE FALSE  OBVIOUS
        <4>1. \A i \in 1..Len(q) : s[i] = q[i] /\ v[i] = q[i]  BY <3>1, <3>5, <4>0
        <4>2. Len(q) <= Len(v)  BY <1>1, <3>3, <4>0
        <4>3. Delimited(s, q).ok /\ Delimited(s, q).value = v  BY <4>a
        <4> QED  BY <2>1, <4>0, <4>1, <4>2, <4>3, NotDelimited
      <3> QED  BY <3>6, <3>7
    <2>8. CASE ~IsPrefix(Triple, s) /\ v[1] = Quote
      <3>2. x = Delimited(s, <<Quote>>)  BY <2>3, <2>6, <2>8 DEF modelfileValue
      <3>6. Contains(v, Quote)  BY <1>1, <2>8 DEF Contains
      <3>7. ~(x.ok /\ x.value = v)
        <4> DEFINE q == <<Quote>>
        <4>0. q \in Text /\ q # <<>> /\ Len(q) = 1 /\ q[1] = Quote  BY QuoteText
        <4> HIDE DEF q
        <4>a. x = Delimited(s, q)  BY <3>2 DEF q
        <4> HIDE DEF x
        <4> SUFFICES ASSUME x.ok, x.value = v  PROVE FALSE  OBVIOUS
        <4>1. \A i \in 1..Len(q) : s[i] = q[i] /\ v[i] = q[i]
          <5>1. \A i \in 1..Len(q) : i = 1  BY <4>0
          <5>2. s[1] = q[1] /\ v[1] = q[1]  BY <1>1, <2>1, <2>8, <4>0
          <5> QED  BY <5>1, <5>2
        <4>2. Len(q) <= Len(v)  BY <1>1, <4>0
        <4>3. Delimited(s, q).ok /\ Delimited(s, q).value = v  BY <4>a
        <4> QED  BY <2>1, <4>0, <4>1, <4>2, <4>3, NotDelimited
      <3> QED  BY <3>6, <3>7
    <2>9. CASE ~IsPrefix(Triple, s) /\ v[1] # Quote
      <3>1. x = [value |-> Trim(modelfileLine(s).line, {Space}), rest |-> modelfileLine(s).rest, ok |-> TRUE]
        BY <2>3, <2>6, <2>9 DEF modelfileValue
      <3>2. modelfileLine(s).line = v /\ modelfileLine(s).rest = R  BY <2>4
      <3> HIDE DEF x
      <3>3. x = raw  BY <2>5, <3>1, <3>2
      <3>4. x.rest = R  BY <3>3
      <3> QED  BY <3>3, <3>4
    <2> QED  BY <2>7, <2>8, <2>9
  <1> QED
    <2>1. CASE wrapped /\ Contains(v, Quote)  BY <1>2, <2>1
    <2>2. CASE wrapped /\ ~Contains(v, Quote)
      <3>1. x = [value |-> v, rest |-> R, ok |-> TRUE]  BY <1>3, <2>2
      <3> HIDE DEF x
      <3>2. x.rest = R  BY <3>1
      <3>3. /\ x.ok /\ x.value = v => x.rest = R
            /\ ~Contains(v, Quote) => x = [value |-> v, rest |-> R, ok |-> TRUE]
        BY <3>1, <3>2
      <3> QED  BY <3>3 DEF x
    <2>3. CASE ~wrapped  BY <1>4, <2>3
    <2> QED  BY <2>1, <2>2, <2>3

-----------------------------------------------------------------------------
(* Lines. *)

Item == [command : Commands, text : Text]

LEMMA TextAssociates ==
    ASSUME NEW a \in Text, NEW b \in Text, NEW c \in Text
    PROVE  (a \o b) \o c = a \o (b \o c)
  BY ConcatAssociative DEF Text

Cat(a, b) == a \o b

LEMMA CatIs == \A f, g, h \in Text : Cat(f, g) \in Text /\ Cat(Cat(f, g), h) = Cat(f, Cat(g, h))
  <1> TAKE f \in Text, g \in Text, h \in Text
  <1>1. Cat(f, g) \in Text  BY Joins DEF Cat
  <1>2. Cat(Cat(f, g), h) = Cat(f, Cat(g, h))  BY TextAssociates, SMTT(30) DEF Cat
  <1> QED  BY <1>1, <1>2

LEMMA FiveTexts ==
    ASSUME NEW a \in Text, NEW b \in Text, NEW c \in Text, NEW d \in Text, NEW e \in Text
    PROVE  Cat(Cat(Cat(Cat(a, b), c), d), e) = Cat(a, Cat(b, Cat(c, Cat(d, e))))
  <1>1. \A f, g, h \in Text : Cat(f, g) \in Text /\ Cat(Cat(f, g), h) = Cat(f, Cat(g, h))  BY CatIs
  <1>2. Cat(Cat(Cat(Cat(a, b), c), d), e) = Cat(a, Cat(b, Cat(c, Cat(d, e))))
    <2>1. Cat(a, b) \in Text /\ Cat(Cat(a, b), c) \in Text /\ Cat(d, e) \in Text /\ Cat(c, Cat(d, e)) \in Text
      BY <1>1
    <2>2. Cat(Cat(Cat(Cat(a, b), c), d), e) = Cat(Cat(Cat(a, b), c), Cat(d, e))  BY <1>1, <2>1
    <2>3. Cat(Cat(Cat(a, b), c), Cat(d, e)) = Cat(Cat(a, b), Cat(c, Cat(d, e)))  BY <1>1, <2>1
    <2>4. Cat(Cat(a, b), Cat(c, Cat(d, e))) = Cat(a, Cat(b, Cat(c, Cat(d, e))))  BY <1>1, <2>1
    <2> QED  BY <2>2, <2>3, <2>4
  <1> QED  BY <1>2

LEMMA BeforeText ==
    ASSUME NEW v \in Text, NEW R \in Text
    PROVE  /\ Before(v, R) \in Text /\ Before(v, R) # <<>>
           /\ Before(v, R)[1] = IF v = <<>> THEN Break ELSE v[1]
           /\ \A i \in 1..Len(v) : Before(v, R)[i] = v[i]
           /\ ~Contains(v, Break) => modelfileLine(Before(v, R)) = [line |-> v, rest |-> R]
  <1> DEFINE b == <<Break>> \o R
  <1>1. b \in Text /\ b # <<>> /\ b[1] = Break /\ Len(b) \in Nat \ {0} /\ Len(v) \in Nat
    <2>1. b \in Text /\ b # <<>> /\ b[1] = Break  BY BehindIs
    <2> HIDE DEF b
    <2> QED  BY <2>1, NotEmpty
  <1>2. Before(v, R) = v \o b  BY DEF Before
  <1>3. ~Contains(v, Break) => modelfileLine(v \o b) = [line |-> v, rest |-> R]  BY LineIs
  <1> HIDE DEF b
  <1>4. /\ v \o b \in Text /\ Len(v \o b) = Len(v) + Len(b)
        /\ \A i \in 1..Len(v) : (v \o b)[i] = v[i]
        /\ \A i \in 1..Len(b) : (v \o b)[Len(v) + i] = b[i]
    BY <1>1, Joins
  <1>5. v \o b # <<>>
    <2>1. Len(v \o b) # 0  BY <1>1, <1>4
    <2> QED  BY <1>4, <2>1, NotEmpty
  <1>6. (v \o b)[1] = IF v = <<>> THEN Break ELSE v[1]
    <2>1. CASE v = <<>>
      <3>1. v \o b = b  BY <1>1, <2>1, NoText
      <3> QED  BY <1>1, <2>1, <3>1
    <2>2. CASE v # <<>>
      <3>1. 1 \in 1..Len(v)  BY <2>2, NotEmpty
      <3> QED  BY <1>4, <2>2, <3>1
    <2> QED  BY <2>1, <2>2
  <1> QED  BY <1>2, <1>3, <1>4, <1>5, <1>6

LEMMA SpaceText == Space \in Tokens /\ <<Space>> \in Text /\ Len(<<Space>>) = 1 /\ <<Space>>[1] = Space
  <1>1. Space \in Tokens  BY TextIs
  <1> QED  BY <1>1, Token

(* What follows a command, without the spaces in front. *)
LEMMA RestIs ==
    ASSUME NEW t \in Text, NEW R \in Text
    PROVE  \E q \in Text :
              /\ q # <<>> => q[1] # Space
              /\ (t # <<>> => t[1] # Space) => q = t
              /\ \A i \in 1..Len(q) : \E j \in 1..Len(t) : q[i] = t[j]
              /\ TrimLeft(<<Space>> \o Before(t, R), {Space}) = Before(q, R)
  <1>1. PICK a \in Text, q \in Text : /\ t = a \o q
                                      /\ \A i \in 1..Len(a) : a[i] \in {Space}
                                      /\ q # <<>> => q[1] \notin {Space}
    BY TrimSplit
  <1>2. /\ Len(a) \in Nat /\ Len(q) \in Nat /\ Len(t) = Len(a) + Len(q)
        /\ \A i \in 1..Len(a) : t[i] = a[i]
        /\ \A i \in 1..Len(q) : t[Len(a) + i] = q[i]
    BY <1>1, Joins
  <1>3. \A i \in 1..Len(q) : \E j \in 1..Len(t) : q[i] = t[j]
    <2> TAKE i \in 1..Len(q)
    <2>1. Len(a) + i \in 1..Len(t)  BY <1>2
    <2> QED  BY <1>2, <2>1
  <1>4. ASSUME t # <<>> => t[1] # Space  PROVE q = t
    <2>1. CASE a = <<>>  BY <1>1, <2>1, NoText
    <2>2. CASE a # <<>>
      <3>1. 1 \in 1..Len(a) /\ Len(a) # 0  BY <2>2, NotEmpty
      <3>2. Len(t) # 0  BY <1>2, <3>1
      <3>3. t # <<>>  BY <3>2, NotEmpty
      <3>4. t[1] = a[1] /\ a[1] = Space  BY <1>1, <1>2, <3>1
      <3> QED  BY <1>4, <3>3, <3>4
    <2> QED  BY <2>1, <2>2
  <1>5. TrimLeft(<<Space>> \o Before(t, R), {Space}) = Before(q, R)
    <2> DEFINE h == <<Space>> \o a
    <2>1. h \in Text /\ \A i \in 1..Len(h) : h[i] \in {Space}
      <3>1. /\ h \in Text /\ Len(h) = 1 + Len(a)
            /\ \A i \in 1..Len(<<Space>>) + Len(a) :
                  h[i] = IF i <= Len(<<Space>>) THEN <<Space>>[i] ELSE a[i - Len(<<Space>>)]
        BY SpaceText, Joins
      <3> HIDE DEF h
      <3>2. ASSUME NEW i \in 1..Len(h)  PROVE h[i] \in {Space}
        <4>1. CASE i = 1  BY <1>2, <3>1, <4>1, SpaceText
        <4>2. CASE i # 1
          <5>1. i - 1 \in 1..Len(a) /\ ~(i <= 1) /\ i \in 1..1 + Len(a)  BY <1>2, <3>1, <4>2
          <5>2. h[i] = a[i - 1]  BY <3>1, <5>1, SpaceText
          <5> QED  BY <1>1, <5>1, <5>2
        <4> QED  BY <4>1, <4>2
      <3> QED  BY <3>1, <3>2
    <2>2. <<Space>> \o Before(t, R) = h \o Before(q, R)
      <3> DEFINE b == <<Break>> \o R
      <3>1. b \in Text  BY BehindIs
      <3> HIDE DEF b
      <3>2. (a \o q) \o b = a \o (q \o b)  BY <3>1, TextAssociates
      <3>3. q \o b \in Text  BY <3>1, Joins
      <3>4. <<Space>> \o (a \o (q \o b)) = (<<Space>> \o a) \o (q \o b)  BY <3>3, SpaceText, TextAssociates, SMTT(30)
      <3> QED  BY <1>1, <3>2, <3>4 DEF Before, b
    <2> HIDE DEF h
    <2>3. Before(q, R) \in Text /\ Before(q, R)[1] \notin {Space}
      <3>1. Before(q, R) \in Text /\ Before(q, R)[1] = IF q = <<>> THEN Break ELSE q[1]  BY BeforeText
      <3> QED  BY <1>1, <3>1 DEF Space, Break
    <2>4. TrimLeft(h \o Before(q, R), {Space}) = Before(q, R)  BY <2>1, <2>3, TrimmedLeft
    <2> QED  BY <2>2, <2>4
  <1>6. q # <<>> => q[1] # Space  BY <1>1
  <1> QED  BY <1>1, <1>3, <1>4, <1>5, <1>6

LEMMA CommandText ==
    ASSUME NEW c \in Commands
    PROVE  c \in Tokens /\ <<c>> \in Text /\ Len(<<c>>) = 1 /\ <<c>>[1] = c /\ c \notin {Space, Break, "#"}
  <1>1. c \in Tokens  BY TextIs
  <1>2. c \notin {Space, Break, "#"}  BY DEF Commands, Space, Break
  <1> QED  BY <1>1, <1>2, Token

LEMMA LineText ==
    ASSUME NEW d \in Item, NEW R \in Text
    PROVE  LET s == LineOf(d) \o R
           IN  /\ s \in Text /\ s # <<>> /\ s[1] = d.command /\ s[2] = Space /\ Len(s) >= 2
               /\ TrimLeft(s, {Space, Break}) = s /\ IndexAny(s, {Space, Break}) = 2
               /\ From(s, 2) = <<Space>> \o Before(d.text, R)
  <1> DEFINE c == d.command  t == d.text  b == <<Break>> \o R  w == <<Space>> \o Before(t, R)
             s == LineOf(d) \o R
  <1>1. c \in Commands /\ t \in Text  BY DEF Item
  <1>2. <<c>> \in Text /\ Len(<<c>>) = 1 /\ <<c>>[1] = c /\ c \notin {Space, Break}  BY <1>1, CommandText
  <1>3. w \in Text /\ w[1] = Space /\ Len(w) \in Nat \ {0} /\ w # <<>>
    <2>1. Before(t, R) \in Text  BY <1>1, BeforeText
    <2>2. /\ w \in Text /\ Len(w) = 1 + Len(Before(t, R)) /\ Len(Before(t, R)) \in Nat
          /\ \A i \in 1..Len(<<Space>>) : w[i] = <<Space>>[i]
      BY <2>1, SpaceText, Joins
    <2> HIDE DEF w
    <2>3. w[1] = Space /\ Len(w) # 0  BY <2>2, SpaceText
    <2> QED  BY <2>2, <2>3, NotEmpty
  <1>4. s = <<c>> \o w
    <2>1. <<c, Space>> = <<c>> \o <<Space>>
      <3> HIDE DEF c
      <3> QED  OBVIOUS
    <2>2. LineOf(d) = ((<<c>> \o <<Space>>) \o t) \o <<Break>>  BY <2>1 DEF LineOf
    <2> DEFINE p == <<c>>  x == <<Space>>  y == <<Break>>
    <2>3. p \in Text /\ x \in Text /\ y \in Text  BY <1>2, SpaceText, BreakText
    <2>4. Cat(Cat(Cat(Cat(p, x), t), y), R) = Cat(p, Cat(x, Cat(t, Cat(y, R))))
      <3> HIDE DEF p, x, y, t
      <3> QED  BY <1>1, <2>3, FiveTexts
    <2>5. (((p \o x) \o t) \o y) \o R = p \o (x \o (t \o (y \o R)))  BY <2>4, Zenon DEF Cat
    <2> HIDE DEF p
    <2>6. LineOf(d) \o R = (((p \o x) \o t) \o y) \o R  BY <2>2, Zenon DEF p
    <2>7. <<c>> \o w = p \o (x \o (t \o (y \o R)))  BY Zenon DEF Before, p
    <2> QED  BY <2>5, <2>6, <2>7, Zenon
  <1> HIDE DEF w, c, s
  <1> DEFINE p == <<c>>
  <1>5. p \in Text /\ Len(p) = 1 /\ p[1] = c /\ s = p \o w  BY <1>2, <1>4
  <1> HIDE DEF p
  <1>6. /\ s \in Text /\ Len(s) = 1 + Len(w)
        /\ \A i \in 1..Len(p) : s[i] = p[i]
        /\ \A i \in 1..Len(w) : s[Len(p) + i] = w[i]
    <2>1. /\ p \o w \in Text /\ Len(p \o w) = Len(p) + Len(w)
          /\ \A i \in 1..Len(p) : (p \o w)[i] = p[i]
          /\ \A i \in 1..Len(w) : (p \o w)[Len(p) + i] = w[i]
      BY <1>3, <1>5, Joins
    <2> QED  BY <1>5, <2>1
  <1>7. s[1] = c /\ s[2] = Space /\ Len(s) >= 2
    <2>1. 1 \in 1..Len(p) /\ 1 \in 1..Len(w) /\ Len(p) + 1 = 2  BY <1>3, <1>5
    <2>2. s[Len(p) + 1] = w[1]  BY <1>6, <2>1
    <2> QED  BY <1>3, <1>5, <1>6, <2>1, <2>2
  <1>8. s # <<>>  BY <1>7
  <1>9. TrimLeft(s, {Space, Break}) = s
    <2>1. s[1] \notin {Space, Break}  BY <1>2, <1>7
    <2> QED  BY <1>6, <2>1, NoneInFront
  <1>10. IndexAny(s, {Space, Break}) = 2
    <2>1. \A i \in 1..Len(p) : p[i] \notin {Space, Break}
      <3>1. \A i \in 1..Len(p) : i = 1  BY <1>5
      <3> QED  BY <1>2, <1>5, <3>1
    <2>2. w # <<>> => w[1] \in {Space, Break}  BY <1>3
    <2>3. IndexAny(p \o w, {Space, Break}) = Len(p) + 1  BY <1>3, <1>5, <2>1, <2>2, FirstFound
    <2> QED  BY <1>5, <2>3
  <1>11. From(s, 2) = w
    <2>1. From(p \o w, Len(p) + 1) = w  BY <1>3, <1>5, Pieces
    <2> QED  BY <1>5, <2>1
  <1> QED  BY <1>6, <1>7, <1>8, <1>9, <1>10, <1>11 DEF s, w, c

LEMMA QuotesAround ==
    ASSUME NEW q \in Text, q # <<>>, q[1] = Quote, NEW v \in Text
    PROVE  /\ (q \o v) \o q \in Text /\ (q \o v) \o q # <<>> /\ ((q \o v) \o q)[1] = Quote
  <1> DEFINE h == q \o v
  <1>0. Len(q) \in Nat \ {0} /\ 1 \in 1..Len(q) /\ Len(v) \in Nat  BY NotEmpty
  <1>1. h \in Text /\ Len(h) = Len(q) + Len(v) /\ \A i \in 1..Len(q) : h[i] = q[i]  BY Joins
  <1>2. Len(h) \in Nat /\ 1 \in 1..Len(h) /\ h[1] = Quote  BY <1>0, <1>1
  <1> HIDE DEF h
  <1>3. h \o q \in Text /\ Len(h \o q) = Len(h) + Len(q) /\ \A i \in 1..Len(h) : (h \o q)[i] = h[i]
    BY <1>1, Joins
  <1>4. Len(h \o q) # 0 /\ (h \o q)[1] = Quote  BY <1>0, <1>2, <1>3
  <1> QED  BY <1>3, <1>4, NotEmpty DEF h

(* A serialized value is the value, or starts with a quote. *)
LEMMA Serialized ==
    ASSUME NEW v \in Text
    PROVE  /\ serializedValue(v) \in Text
           /\ v = <<>> => serializedValue(v) = <<>>
           /\ v # <<>> => serializedValue(v) # <<>> /\ serializedValue(v)[1] # Space
           /\ \/ /\ serializedValue(v) = v /\ ~Contains(v, Break)
                 /\ v # <<>> => v[1] # Space /\ v[Len(v)] # Space
              \/ serializedValue(v) # <<>> /\ serializedValue(v)[1] = Quote
  <1> DEFINE u == serializedValue(v)
  <1>1. CASE v # <<>> /\ (Contains(v, Break) \/ Space \in {Head(v), Last(v)})
    <2>1. u = (Triple \o v) \o Triple \/ u = (<<Quote>> \o v) \o <<Quote>>  BY <1>1 DEF serializedValue
    <2>2. (Triple \o v) \o Triple \in Text /\ (Triple \o v) \o Triple # <<>> /\ ((Triple \o v) \o Triple)[1] = Quote
      <3> DEFINE q == Triple
      <3>1. q \in Text /\ q # <<>> /\ q[1] = Quote
        <4>1. 1 \in 1..3  OBVIOUS
        <4> QED  BY <4>1, QuoteText
      <3> HIDE DEF q
      <3>2. (q \o v) \o q \in Text /\ (q \o v) \o q # <<>> /\ ((q \o v) \o q)[1] = Quote  BY <3>1, QuotesAround
      <3> QED  BY <3>2 DEF q
    <2>3. /\ (<<Quote>> \o v) \o <<Quote>> \in Text /\ (<<Quote>> \o v) \o <<Quote>> # <<>>
          /\ ((<<Quote>> \o v) \o <<Quote>>)[1] = Quote
      <3> DEFINE q == <<Quote>>
      <3>1. q \in Text /\ q # <<>> /\ q[1] = Quote  BY QuoteText
      <3> HIDE DEF q
      <3>2. (q \o v) \o q \in Text /\ (q \o v) \o q # <<>> /\ ((q \o v) \o q)[1] = Quote  BY <3>1, QuotesAround
      <3> QED  BY <3>2 DEF q
    <2>4. u \in Text /\ u # <<>> /\ u[1] = Quote
      <3> HIDE DEF u
      <3>1. CASE u = (Triple \o v) \o Triple  BY <2>2, <3>1
      <3>2. CASE u = (<<Quote>> \o v) \o <<Quote>>  BY <2>3, <3>2
      <3> QED  BY <2>1, <3>1, <3>2
    <2> HIDE DEF u
    <2>5. u[1] # Space  BY <2>4 DEF Quote, Space
    <2> QED  BY <1>1, <2>4, <2>5 DEF u
  <1>2. CASE v = <<>> \/ ~(Contains(v, Break) \/ Space \in {Head(v), Last(v)})
    <2>1. v = <<>> => ~Contains(v, Break)  BY NoText DEF Contains
    <2>2. u = v /\ ~Contains(v, Break) /\ (v # <<>> => v[1] # Space /\ v[Len(v)] # Space)
      BY <1>2, <2>1, NotEmpty DEF serializedValue
    <2> HIDE DEF u
    <2>3. /\ u \in Text /\ (v = <<>> => u = <<>>) /\ (v # <<>> => u # <<>> /\ u[1] # Space)
          /\ u = v /\ ~Contains(v, Break) /\ (v # <<>> => v[1] # Space /\ v[Len(v)] # Space)
      BY <2>2
    <2> QED  BY <2>3 DEF u
  <1> QED  BY <1>1, <1>2

(* A turn of the loop at the line of a directive. *)
LEMMA TurnAtLine ==
    ASSUME NEW d \in Item, NEW R \in Text, source = LineOf(d) \o R, Turn
    PROVE  /\ verdict = "none" /\ model' = model
           /\ \E q \in Text :
                 /\ q # <<>> => q[1] # Space
                 /\ (d.text # <<>> => d.text[1] # Space) => q = d.text
                 /\ \A i \in 1..Len(q) : \E j \in 1..Len(d.text) : q[i] = d.text[j]
                 /\ IF d.command \in {"FROM", "ADAPTER"} THEN Path(d.command, Before(q, R))
                    ELSE Valued(d.command, Before(q, R))
  <1>1. d.text \in Text /\ d.command \in Commands  BY DEF Item
  <1> DEFINE t == d.text
  <1>a. \E q \in Text :
           /\ q # <<>> => q[1] # Space
           /\ (t # <<>> => t[1] # Space) => q = t
           /\ \A i \in 1..Len(q) : \E j \in 1..Len(t) : q[i] = t[j]
           /\ TrimLeft(<<Space>> \o Before(t, R), {Space}) = Before(q, R)
    <2> HIDE DEF t
    <2> QED  BY <1>1, RestIs DEF t
  <1>2. PICK q \in Text :
           /\ q # <<>> => q[1] # Space
           /\ (d.text # <<>> => d.text[1] # Space) => q = d.text
           /\ \A i \in 1..Len(q) : \E j \in 1..Len(d.text) : q[i] = d.text[j]
           /\ TrimLeft(<<Space>> \o Before(d.text, R), {Space}) = Before(q, R)
    BY <1>a
  <1> DEFINE s == source
  <1>3. /\ s \in Text /\ s # <<>> /\ s[1] = d.command /\ s[2] = Space /\ Len(s) >= 2
        /\ TrimLeft(s, {Space, Break}) = s /\ IndexAny(s, {Space, Break}) = 2
        /\ From(s, 2) = <<Space>> \o Before(d.text, R)
    <2> DEFINE z == LineOf(d) \o R
    <2>1. /\ z \in Text /\ z # <<>> /\ z[1] = d.command /\ z[2] = Space /\ Len(z) >= 2
          /\ TrimLeft(z, {Space, Break}) = z /\ IndexAny(z, {Space, Break}) = 2
          /\ From(z, 2) = <<Space>> \o Before(d.text, R)
      BY LineText
    <2>2. s = z  OBVIOUS
    <2> HIDE DEF z, s
    <2> QED  BY <2>1, <2>2
  <1>4. d.command # "#" /\ Space # Break /\ ~(2 > Len(s))
    <2>1. Len(s) \in Nat  BY <1>3, NotEmpty
    <2>2. Space # Break  BY DEF Space, Break
    <2>3. d.command # "#"  BY <1>1 DEF Commands
    <2> HIDE DEF s
    <2> QED  BY <1>3, <2>1, <2>2, <2>3
  <1>5. /\ verdict = "none" /\ model' = model
        /\ IF d.command \in {"FROM", "ADAPTER"} THEN Path(d.command, Before(q, R))
           ELSE Valued(d.command, Before(q, R))
    <2> DEFINE x == TrimLeft(source, {Space, Break})
               stop == IndexAny(x, {Space, Break})
               rest == TrimLeft(From(x, stop), {Space})
    <2>1. /\ verdict = "none" /\ UNCHANGED model
          /\ IF x[1] = "#" THEN ReadOn(modelfileLine(x).rest) /\ UNCHANGED <<seen, tail>>
             ELSE IF stop # 2 \/ stop > Len(x) \/ x[stop] = Break THEN Reject
             ELSE IF x[1] \in {"FROM", "ADAPTER"} THEN Path(x[1], rest)
             ELSE Valued(x[1], rest)
      BY DEF Turn
    <2>2. x = s /\ stop = 2 /\ rest = Before(q, R)  BY <1>2, <1>3
    <2> HIDE DEF x, stop, rest, s
    <2>3. x[1] = d.command /\ x[stop] = Space /\ Len(x) = Len(s)  BY <1>3, <2>2
    <2>4. ~(x[1] = "#") /\ ~(stop # 2 \/ stop > Len(x) \/ x[stop] = Break)  BY <1>4, <2>2, <2>3
    <2>5. IF x[1] \in {"FROM", "ADAPTER"} THEN Path(x[1], rest) ELSE Valued(x[1], rest)  BY <2>1, <2>4
    <2> QED  BY <2>1, <2>2, <2>3, <2>5
  <1> QED  BY <1>2, <1>5

LEMMA QuoteInLine ==
    ASSUME NEW s \in Text, s # <<>>, s[1] = Quote
    PROVE  Contains(modelfileLine(s).line, Quote)
  <1> DEFINE S == {i \in DOMAIN s : s[i] \in {Break}} \cup {Len(s) + 1}  m == Min(S)
  <1>1. Len(s) \in Nat \ {0} /\ DOMAIN s = 1..Len(s)
    <2>1. s \in Seq(Tokens)  BY TextIs
    <2> QED  BY <2>1, NotEmpty
  <1>2. S \in SUBSET Nat /\ Len(s) + 1 \in S  BY <1>1
  <1>3. m \in S
    <2> HIDE DEF S
    <2>1. PICK x \in S : \A y \in S : x <= y  BY <1>2, LeastNatural
    <2>2. Min(S) = x  BY <1>2, <2>1, LeastOf
    <2> QED  BY <2>2
  <1>4. s[1] # Break  BY DEF Quote, Break
  <1>5. m - 1 \in 1..Len(s)  BY <1>1, <1>3, <1>4
  <1>6. modelfileLine(s).line = SubSeq(s, 1, m - 1)
    <2>1. IndexAny(s, {Break}) = m  BY DEF IndexAny
    <2>2. modelfileLine(s).line = SubSeq(s, 1, IndexAny(s, {Break}) - 1)  BY DEF modelfileLine
    <2> HIDE DEF m, S
    <2> QED  BY <2>1, <2>2
  <1> HIDE DEF m, S
  <1> DEFINE w == SubSeq(s, 1, m - 1)
  <1>7. /\ w \in Text /\ Len(w) = (IF 1 <= m - 1 THEN (m - 1) - 1 + 1 ELSE 0)
        /\ \A i \in 1..(m - 1) - 1 + 1 : w[i] = s[1 + i - 1]
    <2>1. 1 \in Nat \ {0} /\ m - 1 \in 0..Len(s)  BY <1>1, <1>5
    <2> QED  BY <2>1, PieceOf
  <1>8. 1 \in 1..(m - 1) - 1 + 1 /\ 1 + 1 - 1 = 1 /\ 1 <= m - 1  BY <1>5
  <1> HIDE DEF w
  <1>9. w[1] = Quote /\ 1 \in 1..Len(w)  BY <1>7, <1>8
  <1> QED  BY <1>6, <1>9 DEF Contains, w

(* FROM and ADAPTER. *)
LEMMA PathTurn ==
    ASSUME NEW c \in {"FROM", "ADAPTER"}, NEW t \in Text, NEW R \in Text,
           source = LineOf(Directive(c, t)) \o R, Turn,
           ~Contains(t, Break) \/ (t # <<>> /\ t[1] = Quote)
    PROVE  /\ verdict = "none" /\ model' = model /\ verdict' \in {"none", "reject"}
           /\ verdict' = "none" => source' = R /\ seen' = seen \cup ({c} \cap {"FROM"}) /\ tail' = tail
           /\ /\ ~Contains(t, Break) /\ ~Contains(t, Quote) /\ t # <<>> /\ t[1] # Space /\ t[Len(t)] # Space
              /\ "TEMPLATE" \notin seen /\ ~tail /\ (c = "FROM") # ("FROM" \in seen)
              => verdict' = "none"
  <1> DEFINE d == Directive(c, t)
  <1>1. d \in Item /\ d.command = c /\ d.text = t  BY DEF Item, Directive, Commands
  <1> HIDE DEF d
  <1>2. /\ verdict = "none" /\ model' = model
        /\ \E q \in Text :
              /\ q # <<>> => q[1] # Space
              /\ (t # <<>> => t[1] # Space) => q = t
              /\ \A i \in 1..Len(q) : \E j \in 1..Len(t) : q[i] = t[j]
              /\ Path(c, Before(q, R))
    <2>1. source = LineOf(d) \o R  BY DEF d
    <2>2. d.command \in {"FROM", "ADAPTER"}  BY <1>1
    <2>3. /\ verdict = "none" /\ model' = model
          /\ \E q \in Text :
                /\ q # <<>> => q[1] # Space
                /\ (d.text # <<>> => d.text[1] # Space) => q = d.text
                /\ \A i \in 1..Len(q) : \E j \in 1..Len(d.text) : q[i] = d.text[j]
                /\ IF d.command \in {"FROM", "ADAPTER"} THEN Path(d.command, Before(q, R))
                   ELSE Valued(d.command, Before(q, R))
      BY <1>1, <2>1, TurnAtLine
    <2> QED  BY <1>1, <2>2, <2>3
  <1>3. PICK q \in Text :
              /\ q # <<>> => q[1] # Space
              /\ (t # <<>> => t[1] # Space) => q = t
              /\ \A i \in 1..Len(q) : \E j \in 1..Len(t) : q[i] = t[j]
              /\ Path(c, Before(q, R))
    BY <1>2
  <1> DEFINE l == modelfileLine(Before(q, R))
  <1>4. IF \/ Trim(l.line, {Space}) = <<>> \/ Contains(l.line, Quote)
           \/ "TEMPLATE" \in seen \/ tail
           \/ (c = "FROM") = ("FROM" \in seen)
        THEN Reject
        ELSE ReadOn(l.rest) /\ seen' = seen \cup ({c} \cap {"FROM"}) /\ UNCHANGED tail
    BY <1>3 DEF Path
  <1>5. CASE ~Contains(t, Break)
    <2>1. ~Contains(q, Break)  BY <1>3, <1>5 DEF Contains
    <2>2. l = [line |-> q, rest |-> R]  BY <2>1, BeforeText
    <2>3. l.line = q /\ l.rest = R  BY <2>2
    <2> HIDE DEF l
    <2>4. verdict' \in {"none", "reject"}  BY <1>2, <1>4 DEF Reject, ReadOn
    <2>5. verdict' = "none" => source' = R /\ seen' = seen \cup ({c} \cap {"FROM"}) /\ tail' = tail
      BY <1>4, <2>3 DEF Reject, ReadOn
    <2>6. ASSUME ~Contains(t, Quote), t # <<>>, t[1] # Space, t[Len(t)] # Space,
                 "TEMPLATE" \notin seen, ~tail, (c = "FROM") # ("FROM" \in seen)
          PROVE  verdict' = "none"
      <3>1. q = t  BY <1>3, <2>6
      <3>2. t # <<>> => t[1] \notin {Space} /\ t[Len(t)] \notin {Space}  BY <2>6
      <3>3. Trim(t, {Space}) = t  BY <3>2, TrimNothing
      <3>4. Trim(l.line, {Space}) # <<>> /\ ~Contains(l.line, Quote)  BY <2>3, <2>6, <3>1, <3>3
      <3> QED  BY <1>2, <1>4, <2>6, <3>4 DEF ReadOn
    <2> QED  BY <1>2, <2>4, <2>5, <2>6
  <1>6. CASE Contains(t, Break) /\ t # <<>> /\ t[1] = Quote
    <2>1. q = t
      <3>1. t[1] # Space  BY <1>6 DEF Quote, Space
      <3> QED  BY <1>3, <3>1
    <2>2. Before(q, R) \in Text /\ Before(q, R) # <<>> /\ Before(q, R)[1] = Quote
      <3>1. Before(t, R) \in Text /\ Before(t, R) # <<>> /\ Before(t, R)[1] = IF t = <<>> THEN Break ELSE t[1]
        BY BeforeText
      <3> QED  BY <1>6, <2>1, <3>1
    <2>3. Contains(l.line, Quote)  BY <2>2, QuoteInLine
    <2> HIDE DEF l
    <2>4. verdict' = "reject"  BY <1>4, <2>3 DEF Reject
    <2> QED  BY <1>2, <1>6, <2>4
  <1> QED  BY <1>5, <1>6

(* The commands with a value: what Valued does with a text that is read as it was written. *)
LEMMA ValuedRead ==
    ASSUME NEW c, c # "PARAMETER", NEW v \in Text, NEW R \in Text, verdict = "none",
           Valued(c, Before(serializedValue(v), R))
    PROVE  /\ verdict' \in {"none", "reject"}
           /\ verdict' = "none" => /\ Admitted(c)
                                   /\ seen' = seen \cup ({c} \cap {"TEMPLATE", "SYSTEM"})
                                   /\ tail' = (tail \/ c \notin {"TEMPLATE", "SYSTEM"})
           /\ /\ verdict' = "none"
              /\ \/ c = "TEMPLATE" /\ v = model.template
                 \/ c = "SYSTEM" /\ v = model.system
              => source' = R
           /\ v # <<>> /\ ~Contains(v, Quote) /\ Admitted(c) /\ Matches(c, v)
              => verdict' = "none" /\ source' = R
  <1> DEFINE s == Before(serializedValue(v), R)  x == modelfileValue(s)
  <1>1. IF ~Admitted(c) \/ ~x.ok \/ x.value = <<>> \/ ~Matches(c, x.value)
        THEN Reject
        ELSE /\ ReadOn(x.rest)
             /\ seen' = seen \cup ({c} \cap {"TEMPLATE", "SYSTEM"})
             /\ tail' = (tail \/ c \notin {"TEMPLATE", "SYSTEM"})
    BY Zenon DEF Valued
  <1>2. v = <<>> => ~x.ok
    <2> SUFFICES ASSUME v = <<>>  PROVE ~x.ok  OBVIOUS
    <2>1. s = Before(<<>>, R)  BY Serialized
    <2>2. <<>> \in Text  BY NoText
    <2>3. Before(<<>>, R) \in Text /\ Before(<<>>, R) # <<>>
          /\ Before(<<>>, R)[1] = IF <<>> = <<>> THEN Break ELSE <<>>[1]
      BY <2>2, BeforeText
    <2>4. s \in Text /\ s # <<>> /\ s[1] = Break  BY <2>1, <2>3
    <2> HIDE DEF s
    <2>5. Head(s) = Break  BY <2>4, NotEmpty
    <2>6. x = Failed  BY <2>5 DEF modelfileValue
    <2> HIDE DEF x
    <2> QED  BY <2>6 DEF Failed
  <1>3. v # <<>> => /\ x.ok /\ x.value = v => x.rest = R
                    /\ ~Contains(v, Quote) => x = [value |-> v, rest |-> R, ok |-> TRUE]
    BY ValueRead
  <1> HIDE DEF x
  <1>4. verdict' \in {"none", "reject"}  BY <1>1 DEF Reject, ReadOn
  <1>5. verdict' = "none" => /\ Admitted(c) /\ x.ok /\ Matches(c, x.value) /\ source' = x.rest
                             /\ seen' = seen \cup ({c} \cap {"TEMPLATE", "SYSTEM"})
                             /\ tail' = (tail \/ c \notin {"TEMPLATE", "SYSTEM"})
    BY <1>1 DEF Reject, ReadOn
  <1>6. ASSUME verdict' = "none", \/ c = "TEMPLATE" /\ v = model.template
                                  \/ c = "SYSTEM" /\ v = model.system
        PROVE  source' = R
    <2>1. x.value = v  BY <1>5, <1>6 DEF Matches
    <2>2. v # <<>>  BY <1>2, <1>5, <1>6
    <2> QED  BY <1>3, <1>5, <1>6, <2>1, <2>2
  <1>7. ASSUME v # <<>>, ~Contains(v, Quote), Admitted(c), Matches(c, v)
        PROVE  verdict' = "none" /\ source' = R
    <2>1. x = [value |-> v, rest |-> R, ok |-> TRUE]  BY <1>3, <1>7
    <2>2. x.ok /\ x.value = v /\ x.rest = R  BY <2>1
    <2>3. ~(~Admitted(c) \/ ~x.ok \/ x.value = <<>> \/ ~Matches(c, x.value))  BY <1>7, <2>2
    <2>4. ReadOn(x.rest)  BY <1>1, <2>3
    <2> QED  BY <2>2, <2>4 DEF ReadOn
  <1> QED  BY <1>4, <1>5, <1>6, <1>7

(* TEMPLATE, SYSTEM, LICENSE and PARSER. *)
LEMMA ValueTurn ==
    ASSUME NEW c \in Commands \ {"FROM", "ADAPTER", "PARAMETER"}, NEW v \in Text, NEW R \in Text,
           source = LineOf(Directive(c, serializedValue(v))) \o R, Turn
    PROVE  /\ verdict = "none" /\ model' = model /\ verdict' \in {"none", "reject"}
           /\ verdict' = "none" => /\ Admitted(c)
                                   /\ seen' = seen \cup ({c} \cap {"TEMPLATE", "SYSTEM"})
                                   /\ tail' = (tail \/ c \notin {"TEMPLATE", "SYSTEM"})
           /\ /\ verdict' = "none"
              /\ \/ c = "TEMPLATE" /\ v = model.template
                 \/ c = "SYSTEM" /\ v = model.system
              => source' = R
           /\ v # <<>> /\ ~Contains(v, Quote) /\ Admitted(c) /\ Matches(c, v)
              => verdict' = "none" /\ source' = R
  <1> DEFINE t == serializedValue(v)  d == Directive(c, t)
  <1>1. t \in Text /\ (t # <<>> => t[1] # Space)
    <2>1. t \in Text /\ (v = <<>> => t = <<>>) /\ (v # <<>> => t[1] # Space)  BY Serialized
    <2> HIDE DEF t
    <2> QED  BY <2>1
  <1> HIDE DEF t
  <1>2. d \in Item /\ d.command = c /\ d.text = t  BY <1>1 DEF Item, Directive
  <1> HIDE DEF d
  <1>3. verdict = "none" /\ model' = model /\ Valued(c, Before(t, R))
    <2>1. source = LineOf(d) \o R  BY DEF d, t
    <2>2. d.command \notin {"FROM", "ADAPTER"}  BY <1>2
    <2>3. /\ verdict = "none" /\ model' = model
          /\ \E q \in Text :
                /\ q # <<>> => q[1] # Space
                /\ (d.text # <<>> => d.text[1] # Space) => q = d.text
                /\ \A i \in 1..Len(q) : \E j \in 1..Len(d.text) : q[i] = d.text[j]
                /\ IF d.command \in {"FROM", "ADAPTER"} THEN Path(d.command, Before(q, R))
                   ELSE Valued(d.command, Before(q, R))
      BY <1>2, <2>1, TurnAtLine
    <2> QED  BY <1>1, <1>2, <2>2, <2>3
  <1>4. c # "PARAMETER"  OBVIOUS
  <1> QED  BY <1>3, <1>4, ValuedRead DEF t

(* PARAMETER, with its name. *)
LEMMA ParameterTurn ==
    ASSUME NEW v \in Text, v # <<>>, ~Contains(v, Quote), NEW R \in Text,
           source = LineOf(Directive("PARAMETER", <<"stop", Space>> \o serializedValue(v))) \o R, Turn,
           Admitted("PARAMETER")
    PROVE  /\ verdict = "none" /\ model' = model /\ verdict' = "none" /\ source' = R
           /\ seen' = seen \cup ({"PARAMETER"} \cap {"TEMPLATE", "SYSTEM"}) /\ tail' = TRUE
  <1> DEFINE u == serializedValue(v)  p == <<"stop", Space>>  t == p \o u  d == Directive("PARAMETER", t)
             w == <<Space>> \o Before(u, R)  s == Before(t, R)
  <1>1. u \in Text /\ u # <<>> /\ u[1] # Space  BY Serialized
  <1> HIDE DEF u
  <1>2. "stop" \in Tokens /\ <<"stop">> \in Text /\ Len(<<"stop">>) = 1 /\ <<"stop">>[1] = "stop"
    <2>1. "stop" \in Tokens  BY TextIs
    <2> QED  BY <2>1, Token
  <1>3. p \in Text /\ Len(p) = 2 /\ p[1] = "stop" /\ p[2] = Space
    <2>1. p \in Seq(Tokens)  BY <1>2, SpaceText
    <2> QED  BY <2>1, TextIs
  <1> HIDE DEF p
  <1>4. t \in Text /\ t # <<>> /\ t[1] = "stop"
    <2>1. t \in Text /\ Len(t) = Len(p) + Len(u) /\ Len(u) \in Nat /\ \A i \in 1..Len(p) : t[i] = p[i]
      BY <1>1, <1>3, Joins
    <2> HIDE DEF t
    <2>2. Len(t) # 0 /\ t[1] = "stop"  BY <1>3, <2>1
    <2> QED  BY <2>1, <2>2, NotEmpty
  <1>5. "stop" # Space /\ "stop" # Break /\ "stop" # Quote  BY DEF Space, Break, Quote
  <1>6. w \in Text /\ w # <<>> /\ w[1] = Space /\ TrimLeft(w, {Space}) = Before(u, R)
    <2>1. Before(u, R) \in Text /\ Before(u, R)[1] = u[1]  BY <1>1, BeforeText
    <2> DEFINE b == Before(u, R)
    <2> HIDE DEF b
    <2>2. /\ <<Space>> \o b \in Text /\ Len(<<Space>> \o b) = 1 + Len(b) /\ Len(b) \in Nat
          /\ \A i \in 1..Len(<<Space>>) : (<<Space>> \o b)[i] = <<Space>>[i]
      BY <2>1, SpaceText, Joins DEF b
    <2>3. Len(<<Space>> \o b) # 0 /\ (<<Space>> \o b)[1] = Space  BY <2>2, SpaceText
    <2>4. \A i \in 1..Len(<<Space>>) : <<Space>>[i] \in {Space}
      <3>1. \A i \in 1..Len(<<Space>>) : i = 1  BY SpaceText
      <3> QED  BY <3>1, SpaceText
    <2>5. b # <<>> => b[1] \notin {Space}  BY <1>1, <2>1 DEF b
    <2>6. TrimLeft(<<Space>> \o b, {Space}) = b  BY <2>1, <2>4, <2>5, SpaceText, TrimmedLeft DEF b
    <2>7. <<Space>> \o b # <<>>  BY <2>2, <2>3, NotEmpty
    <2> QED  BY <2>2, <2>3, <2>6, <2>7 DEF b
  <1>7. s = <<"stop">> \o w
    <2> DEFINE a == <<"stop">>  x == <<Space>>  y == <<Break>>
    <2>1. a \in Text /\ x \in Text /\ y \in Text  BY <1>2, SpaceText, BreakText
    <2>2. p = Cat(a, x)  BY DEF p, Cat
    <2>3. Cat(Cat(Cat(a, x), u), Cat(y, R)) = Cat(a, Cat(x, Cat(u, Cat(y, R))))
      <3> HIDE DEF a, x, y
      <3>1. \A f, g, h \in Text : Cat(f, g) \in Text /\ Cat(Cat(f, g), h) = Cat(f, Cat(g, h))  BY CatIs
      <3>2. Cat(a, x) \in Text /\ Cat(y, R) \in Text /\ Cat(u, Cat(y, R)) \in Text  BY <1>1, <2>1, <3>1
      <3>3. Cat(Cat(Cat(a, x), u), Cat(y, R)) = Cat(Cat(a, x), Cat(u, Cat(y, R)))  BY <1>1, <3>1, <3>2
      <3>4. Cat(Cat(a, x), Cat(u, Cat(y, R))) = Cat(a, Cat(x, Cat(u, Cat(y, R))))  BY <2>1, <3>1, <3>2
      <3> QED  BY <3>3, <3>4
    <2>4. s = Cat(Cat(p, u), Cat(y, R))  BY Zenon DEF Before, Cat
    <2>5. <<"stop">> \o w = Cat(a, Cat(x, Cat(u, Cat(y, R))))  BY Zenon DEF Before, Cat
    <2> HIDE DEF s, w, y
    <2> QED  BY <2>2, <2>3, <2>4, <2>5
  <1> HIDE DEF w
  <1>8. /\ IndexAny(s, {Space, Break}) = 2 /\ From(s, 2) = w /\ s[1] = "stop" /\ s[2] = Space
        /\ s \in Text /\ Len(s) >= 2
    <2> DEFINE a == <<"stop">>
    <2>1. a \in Text /\ Len(a) = 1 /\ a[1] = "stop" /\ s = a \o w  BY <1>2, <1>7
    <2> HIDE DEF a
    <2>2. \A i \in 1..Len(a) : a[i] \notin {Space, Break}
      <3>1. \A i \in 1..Len(a) : i = 1  BY <2>1
      <3> QED  BY <1>5, <2>1, <3>1
    <2>3. w # <<>> => w[1] \in {Space, Break}  BY <1>6
    <2>4. IndexAny(a \o w, {Space, Break}) = Len(a) + 1  BY <1>6, <2>1, <2>2, <2>3, FirstFound
    <2>5. From(a \o w, Len(a) + 1) = w  BY <1>6, <2>1, Pieces
    <2>6. /\ a \o w \in Text /\ Len(a \o w) = Len(a) + Len(w) /\ Len(w) \in Nat
          /\ \A i \in 1..Len(a) : (a \o w)[i] = a[i]
          /\ \A i \in 1..Len(w) : (a \o w)[Len(a) + i] = w[i]
      BY <1>6, <2>1, Joins
    <2>7. 1 \in 1..Len(w) /\ 1 \in 1..Len(a) /\ Len(a) + 1 = 2  BY <1>6, <2>1, NotEmpty
    <2> HIDE DEF s
    <2>8. s[1] = "stop" /\ s[2] = Space /\ s \in Text  BY <1>6, <2>1, <2>6, <2>7
    <2>9. Len(s) >= 2  BY <2>1, <2>6, <2>7
    <2> QED  BY <2>1, <2>4, <2>5, <2>7, <2>8, <2>9
  <1>9. d \in Item /\ d.command = "PARAMETER" /\ d.text = t  BY <1>4 DEF Item, Directive, Commands
  <1>10. verdict = "none" /\ model' = model /\ Valued("PARAMETER", s)
    <2>1. source = LineOf(d) \o R  BY DEF p, u
    <2> HIDE DEF d, t
    <2>2. d.command \notin {"FROM", "ADAPTER"}  BY <1>9
    <2>3. /\ verdict = "none" /\ model' = model
          /\ \E q \in Text :
                /\ q # <<>> => q[1] # Space
                /\ (d.text # <<>> => d.text[1] # Space) => q = d.text
                /\ \A i \in 1..Len(q) : \E j \in 1..Len(d.text) : q[i] = d.text[j]
                /\ IF d.command \in {"FROM", "ADAPTER"} THEN Path(d.command, Before(q, R))
                   ELSE Valued(d.command, Before(q, R))
      BY <1>9, <2>1, TurnAtLine
    <2> QED  BY <1>4, <1>5, <1>9, <2>2, <2>3
  <1> HIDE DEF s, d, t
  <1>11. ~Contains(SubSeq(s, 1, 1), Quote)
    <2> DEFINE f == SubSeq(s, 1, 1)
    <2>1. f \in Text /\ Len(f) = 1 /\ f[1] = s[1]
      <3>1. Len(s) \in Nat  BY <1>8, NotEmpty
      <3>2. 1 \in Nat \ {0} /\ 1 \in 0..Len(s)  BY <1>8, <3>1
      <3>3. /\ f \in Text /\ Len(f) = (IF 1 <= 1 THEN 1 - 1 + 1 ELSE 0)
            /\ \A i \in 1..1 - 1 + 1 : f[i] = s[1 + i - 1]
        BY <1>8, <3>2, PieceOf
      <3> HIDE DEF f
      <3>4. 1 \in 1..1 - 1 + 1 /\ 1 + 1 - 1 = 1  OBVIOUS
      <3> QED  BY <3>3, <3>4
    <2> HIDE DEF f
    <2>2. \A i \in 1..Len(f) : f[i] = "stop"
      <3>1. \A i \in 1..Len(f) : i = 1  BY <2>1
      <3> QED  BY <1>8, <2>1, <3>1
    <2> QED  BY <1>5, <2>2 DEF Contains, f
  <1> DEFINE i == IndexAny(s, {Space, Break})
             named == i > 1 /\ i <= Len(s) /\ s[i] = Space /\ ~Contains(SubSeq(s, 1, i - 1), Quote)
             x == modelfileValue(TrimLeft(From(s, i), {Space}))
  <1>12. IF ~Admitted("PARAMETER") \/ ~named \/ ~x.ok \/ ~Matches("PARAMETER", x.value)
         THEN Reject
         ELSE /\ ReadOn(x.rest)
              /\ seen' = seen \cup ({"PARAMETER"} \cap {"TEMPLATE", "SYSTEM"})
              /\ tail' = (tail \/ "PARAMETER" \notin {"TEMPLATE", "SYSTEM"})
    BY <1>10 DEF Valued
  <1>13. named
    <2>1. i = 2 /\ i - 1 = 1  BY <1>8
    <2>2. Len(s) \in Nat  BY <1>8, NotEmpty
    <2> HIDE DEF i
    <2> QED  BY <1>8, <1>11, <2>1, <2>2
  <1>14. x = [value |-> v, rest |-> R, ok |-> TRUE]
    <2>1. i = 2  BY <1>8
    <2>2. TrimLeft(From(s, i), {Space}) = Before(u, R)
      <3> HIDE DEF i
      <3> QED  BY <1>6, <1>8, <2>1
    <2>3. modelfileValue(Before(serializedValue(v), R)) = [value |-> v, rest |-> R, ok |-> TRUE]  BY ValueRead
    <2> HIDE DEF i
    <2> QED  BY <2>2, <2>3 DEF u
  <1> HIDE DEF x, named
  <1>15. x.ok /\ x.rest = R  BY <1>14
  <1>16. Matches("PARAMETER", x.value)  BY DEF Matches
  <1>17. ReadOn(x.rest) /\ seen' = seen \cup ({"PARAMETER"} \cap {"TEMPLATE", "SYSTEM"}) /\ tail' = TRUE
    BY <1>12, <1>13, <1>15, <1>16
  <1> QED  BY <1>10, <1>15, <1>17 DEF ReadOn

(* A command that may not stand where it is. *)
LEMMA RefusedTurn ==
    ASSUME NEW d \in Item, d.command \notin {"FROM", "ADAPTER"}, NEW R \in Text,
           source = LineOf(d) \o R, Turn, ~Admitted(d.command)
    PROVE  verdict = "none" /\ model' = model /\ verdict' = "reject"
  <1>1. PICK q \in Text : Valued(d.command, Before(q, R))  BY TurnAtLine
  <1>2. Reject  BY <1>1, Zenon DEF Valued
  <1> QED  BY <1>2, TurnAtLine DEF Reject

-----------------------------------------------------------------------------
(* The text of a sequence of directives. *)

(* What holds at the end, and at a place when it holds at the next one, holds everywhere. *)
LEMMA FromTheEnd ==
    ASSUME NEW n \in Nat, NEW G, n + 1 \in G, \A k \in 1..n : k + 1 \in G => k \in G
    PROVE  \A k \in 1..n + 1 : k \in G
  <1> DEFINE T == {j \in 0..n : n + 1 - j \notin G}
  <1>1. T = {}
    <2> SUFFICES ASSUME T # {}  PROVE FALSE  OBVIOUS
    <2>1. T \in SUBSET Nat  OBVIOUS
    <2>2. PICK m \in T : \A y \in T : m <= y
      <3> HIDE DEF T
      <3> QED  BY <2>1, LeastNatural
    <2>3. m \in 0..n /\ n + 1 - m \notin G  OBVIOUS
    <2>4. m # 0
      <3>1. n + 1 - 0 = n + 1  OBVIOUS
      <3> QED  BY <2>3, <3>1
    <2>5. m - 1 \in 0..n /\ ~(m <= m - 1) /\ n + 1 - (m - 1) = (n + 1 - m) + 1 /\ n + 1 - m \in 1..n
      BY <2>3, <2>4
    <2>6. n + 1 - (m - 1) \in G  BY <2>2, <2>5
    <2> HIDE DEF T
    <2> QED  BY <2>3, <2>5, <2>6
  <1>2. ASSUME NEW k \in 1..n + 1  PROVE k \in G
    <2>1. n + 1 - k \in 0..n /\ n + 1 - (n + 1 - k) = k  OBVIOUS
    <2>2. n + 1 - k \notin T  BY <1>1
    <2> QED  BY <2>1, <2>2
  <1> QED  BY <1>2

OnFrom(ds, g, k) == IF k > Len(ds) THEN <<>> ELSE LineOf(ds[k]) \o g[k + 1]

LEMMA WrittenDefined ==
    ASSUME NEW ds \in Seq(Item)
    PROVE  \E g : g = [k \in 1..Len(ds) + 1 |-> OnFrom(ds, g, k)]
  <1> DEFINE n == Len(ds)  D == 1..n + 1
             Right(g, m) == \A k \in D : k >= m => g[k] = OnFrom(ds, g, k)
             G == {m \in D : \E g : Right(g, m)}
  <1>1. n \in Nat  OBVIOUS
  <1>2. n + 1 \in G
    <2> DEFINE g == [k \in D |-> <<>>]
    <2>1. ASSUME NEW k \in D, k >= n + 1  PROVE g[k] = OnFrom(ds, g, k)
      <3>1. k > n  BY <1>1, <2>1
      <3> QED  BY <3>1 DEF OnFrom
    <2>2. Right(g, n + 1)  BY <2>1
    <2> HIDE DEF Right, g
    <2> QED  BY <1>1, <2>2
  <1>3. ASSUME NEW m \in 1..n, m + 1 \in G  PROVE m \in G
    <2>1. PICK g : Right(g, m + 1)  BY <1>3
    <2> DEFINE f == [k \in D |-> IF k >= m + 1 THEN g[k] ELSE OnFrom(ds, g, k)]
    <2>2. ASSUME NEW k \in D, k >= m  PROVE f[k] = OnFrom(ds, f, k)
      <3>1. f[k] = OnFrom(ds, g, k)  BY <2>1
      <3>2. CASE k > n  BY <3>1, <3>2 DEF OnFrom
      <3>3. CASE ~(k > n)
        <4>1. k + 1 \in D /\ k + 1 >= m + 1  BY <1>1, <2>2, <3>3
        <4>2. f[k + 1] = g[k + 1]  BY <4>1
        <4> QED  BY <3>1, <3>3, <4>2 DEF OnFrom
      <3> QED  BY <3>2, <3>3
    <2>3. Right(f, m)  BY <2>2
    <2> HIDE DEF Right, f
    <2> QED  BY <1>1, <2>3
  <1>4. 1 \in G
    <2> HIDE DEF G
    <2>1. \A k \in 1..n + 1 : k \in G  BY <1>1, <1>2, <1>3, FromTheEnd
    <2> QED  BY <1>1, <2>1
  <1>5. PICK f : Right(f, 1)  BY <1>4
  <1>6. \A k \in D : f[k] = OnFrom(ds, f, k)  BY <1>1, <1>5
  <1> DEFINE e == [k \in D |-> f[k]]
  <1>7. ASSUME NEW k \in D  PROVE e[k] = OnFrom(ds, e, k)
    <2>1. ~(k > n) => k + 1 \in D  BY <1>1
    <2> QED  BY <1>6, <2>1 DEF OnFrom
  <1>8. e = [k \in D |-> OnFrom(ds, e, k)]
    <2>1. e = [k \in D |-> e[k]]  OBVIOUS
    <2> HIDE DEF e, D
    <2> QED  BY <1>7, <2>1
  <1> QED  BY <1>8

LEMMA LineIsText ==
    ASSUME NEW d \in Item
    PROVE  LineOf(d) \in Text
  <1>1. d.command \in Tokens /\ d.text \in Text
    <2>1. d.command \in Commands /\ d.text \in Text  BY DEF Item
    <2> QED  BY <2>1, CommandText
  <1>2. <<d.command, Space>> \in Text
    <2>1. Space \in Tokens  BY TextIs
    <2> QED  BY <1>1, <2>1, TextIs
  <1>3. <<d.command, Space>> \o d.text \in Text  BY <1>1, <1>2, Joins
  <1> DEFINE h == <<d.command, Space>> \o d.text
  <1> HIDE DEF h
  <1>4. h \o <<Break>> \in Text  BY <1>3, BreakText, Joins DEF h
  <1> QED  BY <1>4 DEF LineOf, h

LEMMA WrittenHere ==
    ASSUME NEW ds \in Seq(Item)
    PROVE  /\ Written(ds)[Len(ds) + 1] = <<>>
           /\ \A k \in 1..Len(ds) : Written(ds)[k] = LineOf(ds[k]) \o Written(ds)[k + 1]
           /\ \A k \in 1..Len(ds) + 1 : Written(ds)[k] \in Text
  <1> DEFINE P(g) == g = [k \in 1..Len(ds) + 1 |-> OnFrom(ds, g, k)]
             W == Written(ds)
  <1>0. Len(ds) \in Nat  OBVIOUS
  <1>1. W = CHOOSE g : P(g)  BY DEF Written, OnFrom
  <1>2. \E g : P(g)  BY WrittenDefined
  <1> HIDE DEF P, W
  <1>3. P(W)  BY <1>1, <1>2
  <1>4. \A k \in 1..Len(ds) + 1 : W[k] = OnFrom(ds, W, k)  BY <1>3 DEF P
  <1>5. W[Len(ds) + 1] = <<>>
    <2>1. Len(ds) + 1 \in 1..Len(ds) + 1 /\ Len(ds) + 1 > Len(ds)  BY <1>0
    <2> QED  BY <1>4, <2>1 DEF OnFrom
  <1>6. \A k \in 1..Len(ds) : W[k] = LineOf(ds[k]) \o W[k + 1]
    <2> TAKE k \in 1..Len(ds)
    <2>1. k \in 1..Len(ds) + 1 /\ ~(k > Len(ds))  BY <1>0
    <2> QED  BY <1>4, <2>1 DEF OnFrom
  <1> DEFINE G == {k \in 1..Len(ds) + 1 : W[k] \in Text}
  <1>7. Len(ds) + 1 \in G  BY <1>0, <1>5, NoText
  <1>8. ASSUME NEW k \in 1..Len(ds), k + 1 \in G  PROVE k \in G
    <2>1. k \in 1..Len(ds) + 1 /\ ds[k] \in Item  BY <1>0
    <2>2. LineOf(ds[k]) \in Text  BY <2>1, LineIsText
    <2>3. LineOf(ds[k]) \o W[k + 1] \in Text  BY <1>8, <2>2, Joins
    <2> QED  BY <1>6, <2>1, <2>3
  <1>9. \A k \in 1..Len(ds) + 1 : k \in G
    <2> HIDE DEF G
    <2> QED  BY <1>0, <1>7, <1>8, FromTheEnd
  <1> QED  BY <1>5, <1>6, <1>9 DEF W

LEMMA JoinItems ==
    ASSUME NEW a \in Seq(Item), NEW b \in Seq(Item)
    PROVE  /\ a \o b \in Seq(Item) /\ Len(a \o b) = Len(a) + Len(b) /\ Len(a) \in Nat /\ Len(b) \in Nat
           /\ \A i \in 1..Len(a) : (a \o b)[i] = a[i]
           /\ \A i \in 1..Len(b) : (a \o b)[Len(a) + i] = b[i]
  <1>1. /\ a \o b \in Seq(Item) /\ Len(a \o b) = Len(a) + Len(b) /\ Len(a) \in Nat /\ Len(b) \in Nat
        /\ \A i \in 1..Len(a) + Len(b) : (a \o b)[i] = IF i <= Len(a) THEN a[i] ELSE b[i - Len(a)]
    BY ConcatProperties
  <1>2. \A i \in 1..Len(a) : i \in 1..Len(a) + Len(b) /\ i <= Len(a)  BY <1>1
  <1>3. \A i \in 1..Len(b) : /\ Len(a) + i \in 1..Len(a) + Len(b) /\ ~(Len(a) + i <= Len(a))
                             /\ (Len(a) + i) - Len(a) = i
    BY <1>1
  <1>4. \A i \in 1..Len(a) : (a \o b)[i] = a[i]  BY <1>1, <1>2
  <1>5. \A i \in 1..Len(b) : (a \o b)[Len(a) + i] = b[i]  BY <1>1, <1>3
  <1> QED  BY <1>1, <1>4, <1>5

Entry == [command : {"PARAMETER", "LICENSE", "PARSER", "MESSAGE"}, value : Text]
AfterCommand(e) ==
    (IF e.command = "PARAMETER" THEN <<"stop", Space>> ELSE <<>>) \o serializedValue(e.value)
OfEntry(e) == Directive(e.command, AfterCommand(e))

(* Where the directives up to the renderer end. *)
FrontLen(m) == Len(m.adapters) + 2 + (IF m.system = <<>> THEN 0 ELSE 1)

LEMMA CandidateIs ==
    ASSUME NEW m \in Candidates
    PROVE  /\ m.path \in Text /\ ~Contains(m.path, Break) /\ m.adapters \in Seq(Text) /\ m.template \in Text
           /\ m.system \in Text /\ m.renderer \in BOOLEAN /\ m.suffix \in Seq(Entry)
           /\ \A i \in 1..Len(m.suffix) : m.suffix[i] \in Entry
           /\ \A i \in 1..Len(m.adapters) : m.adapters[i] \in Text
           /\ Len(m.adapters) \in Nat /\ Len(m.suffix) \in Nat /\ FrontLen(m) \in Nat
  <1>1. m \in [path : Text, adapters : Seq(Text), template : Text, system : Text, renderer : BOOLEAN,
               suffix : Seq(Entry)]
    BY ModelfileAssumption DEF Entry
  <1>2. /\ m.path \in Text /\ ~Contains(m.path, Break) /\ m.adapters \in Seq(Text) /\ m.template \in Text
        /\ m.system \in Text /\ m.renderer \in BOOLEAN /\ m.suffix \in Seq(Entry)
    BY <1>1, ModelfileAssumption
  <1>3. Len(m.adapters) \in Nat /\ Len(m.suffix) \in Nat  BY <1>2
  <1>4. \A i \in 1..Len(m.suffix) : m.suffix[i] \in Entry
    <2> TAKE i \in 1..Len(m.suffix)
    <2> QED  BY <1>2, ElementOfSeq
  <1>5. \A i \in 1..Len(m.adapters) : m.adapters[i] \in Text
    <2> TAKE i \in 1..Len(m.adapters)
    <2> QED  BY <1>2, ElementOfSeq
  <1>6. FrontLen(m) \in Nat
    <2> DEFINE n == Len(m.adapters)
    <2>1. n \in Nat  BY <1>3
    <2>2. FrontLen(m) = n + 2 + (IF m.system = <<>> THEN 0 ELSE 1)  BY DEF FrontLen
    <2> HIDE DEF n
    <2> DEFINE e == IF m.system = <<>> THEN 0 ELSE 1
    <2>3. e \in Nat  OBVIOUS
    <2> HIDE DEF e
    <2>4. n + 2 + e \in Nat  BY <2>1, <2>3
    <2> QED  BY <2>2, <2>4 DEF e
  <1> QED  BY <1>2, <1>3, <1>4, <1>5, <1>6

LEMMA EntryIs ==
    ASSUME NEW e \in Entry
    PROVE  /\ e.value \in Text /\ AfterCommand(e) \in Text /\ OfEntry(e) \in Item
           /\ e.command \in {"PARAMETER", "LICENSE", "PARSER", "MESSAGE"}
           /\ e.command # "PARAMETER" => AfterCommand(e) = serializedValue(e.value)
  <1>1. e.value \in Text /\ e.command \in {"PARAMETER", "LICENSE", "PARSER", "MESSAGE"}  BY DEF Entry
  <1> DEFINE u == serializedValue(e.value)
  <1>2. u \in Text  BY <1>1, Serialized
  <1> HIDE DEF u
  <1>3. <<"stop", Space>> \in Text
    <2>1. "stop" \in Tokens /\ Space \in Tokens  BY TextIs
    <2> QED  BY <2>1, TextIs
  <1>4. <<"stop", Space>> \o u \in Text /\ <<>> \o u = u  BY <1>2, <1>3, NoText, Joins
  <1>5. AfterCommand(e) = IF e.command = "PARAMETER" THEN <<"stop", Space>> \o u ELSE <<>> \o u
    BY DEF AfterCommand, u
  <1>6. AfterCommand(e) \in Text /\ (e.command # "PARAMETER" => AfterCommand(e) = u)
    BY <1>2, <1>4, <1>5
  <1>7. OfEntry(e) \in Item  BY <1>1, <1>6 DEF OfEntry, Directive, Item, Commands
  <1> QED  BY <1>1, <1>6, <1>7 DEF u

(* The directives, place by place. *)
LEMMA DirectivesAre ==
    ASSUME NEW m \in Candidates
    PROVE  LET ds == Directives(m)
               a == Len(m.adapters)
               f == FrontLen(m)
               r == f + (IF m.renderer THEN 1 ELSE 0)
           IN  /\ ds \in Seq(Item) /\ Len(ds) = r + Len(m.suffix)
               /\ ds[1] = Directive("FROM", m.path)
               /\ \A i \in 1..a : ds[1 + i] = Directive("ADAPTER", serializedValue(m.adapters[i]))
               /\ ds[a + 2] = Directive("TEMPLATE", serializedValue(m.template))
               /\ m.system # <<>> => f = a + 3 /\ ds[f] = Directive("SYSTEM", serializedValue(m.system))
               /\ m.system = <<>> => f = a + 2
               /\ m.renderer => ds[f + 1].command = "RENDERER"
               /\ \A i \in 1..Len(m.suffix) : ds[r + i] = OfEntry(m.suffix[i])
  <1> DEFINE n == Len(m.adapters)
             A == <<Directive("FROM", m.path)>>
             B == [i \in 1..n |-> Directive("ADAPTER", serializedValue(m.adapters[i]))]
             C == <<Directive("TEMPLATE", serializedValue(m.template))>>
             D == IF m.system = <<>> THEN <<>> ELSE <<Directive("SYSTEM", serializedValue(m.system))>>
             E == IF m.renderer THEN <<Directive("RENDERER", <<"qwen">>)>> ELSE <<>>
             F == [i \in 1..Len(m.suffix) |-> OfEntry(m.suffix[i])]
             AB == A \o B  AC == AB \o C  AD == AC \o D  AE == AD \o E  AF == AE \o F
  <1>1. Directives(m) = AF  BY DEF Directives, OfEntry, AfterCommand
  <1>2. \A c \in Commands, t \in Text : Directive(c, t) \in Item  BY DEF Directive, Item
  <1>3. A \in Seq(Item) /\ Len(A) = 1 /\ A[1] = Directive("FROM", m.path)
    <2>1. Directive("FROM", m.path) \in Item
      <3>1. m.path \in Text /\ "FROM" \in Commands  BY CandidateIs DEF Commands
      <3> QED  BY <1>2, <3>1
    <2> QED  BY <2>1
  <1>4. B \in Seq(Item) /\ Len(B) = n /\ n \in Nat
        /\ \A i \in 1..n : B[i] = Directive("ADAPTER", serializedValue(m.adapters[i]))
    <2>1. n \in Nat /\ \A i \in 1..n : m.adapters[i] \in Text  BY CandidateIs
    <2>2. \A i \in 1..n : Directive("ADAPTER", serializedValue(m.adapters[i])) \in Item
      <3> TAKE i \in 1..n
      <3>1. serializedValue(m.adapters[i]) \in Text /\ "ADAPTER" \in Commands  BY <2>1, Serialized DEF Commands
      <3> QED  BY <1>2, <3>1
    <2> HIDE DEF n
    <2> QED  BY <2>1, <2>2
  <1>5. C \in Seq(Item) /\ Len(C) = 1 /\ C[1] = Directive("TEMPLATE", serializedValue(m.template))
    <2>1. Directive("TEMPLATE", serializedValue(m.template)) \in Item
      <3>1. m.template \in Text  BY CandidateIs
      <3>2. serializedValue(m.template) \in Text /\ "TEMPLATE" \in Commands  BY <3>1, Serialized DEF Commands
      <3> QED  BY <1>2, <3>2
    <2> QED  BY <2>1
  <1>6. D \in Seq(Item) /\ Len(D) = (IF m.system = <<>> THEN 0 ELSE 1)
        /\ (m.system # <<>> => D[1] = Directive("SYSTEM", serializedValue(m.system)))
    <2>1. Directive("SYSTEM", serializedValue(m.system)) \in Item
      <3>1. m.system \in Text  BY CandidateIs
      <3>2. serializedValue(m.system) \in Text /\ "SYSTEM" \in Commands  BY <3>1, Serialized DEF Commands
      <3> QED  BY <1>2, <3>2
    <2> QED  BY <2>1
  <1>7. E \in Seq(Item) /\ Len(E) = (IF m.renderer THEN 1 ELSE 0)
        /\ (m.renderer => E[1].command = "RENDERER")
    <2>1. Directive("RENDERER", <<"qwen">>) \in Item
      <3>1. "qwen" \in Tokens  BY TextIs
      <3>2. <<"qwen">> \in Text /\ "RENDERER" \in Commands  BY <3>1, Token DEF Commands
      <3> QED  BY <1>2, <3>2
    <2>2. Directive("RENDERER", <<"qwen">>).command = "RENDERER"  BY DEF Directive
    <2> QED  BY <2>1, <2>2
  <1>8. F \in Seq(Item) /\ Len(F) = Len(m.suffix) /\ Len(m.suffix) \in Nat
        /\ \A i \in 1..Len(m.suffix) : F[i] = OfEntry(m.suffix[i])
    <2>1. Len(m.suffix) \in Nat /\ \A i \in 1..Len(m.suffix) : m.suffix[i] \in Entry  BY CandidateIs
    <2>2. \A i \in 1..Len(m.suffix) : OfEntry(m.suffix[i]) \in Item  BY <2>1, EntryIs
    <2> QED  BY <2>1, <2>2
  <1> HIDE DEF A, B, C, D, E, F, n
  <1>9. /\ AB \in Seq(Item) /\ Len(AB) = 1 + n
        /\ AB[1] = Directive("FROM", m.path)
        /\ \A i \in 1..n : AB[1 + i] = B[i]
    <2>1. /\ AB \in Seq(Item) /\ Len(AB) = Len(A) + Len(B)
          /\ \A i \in 1..Len(A) : AB[i] = A[i]
          /\ \A i \in 1..Len(B) : AB[Len(A) + i] = B[i]
      BY <1>3, <1>4, JoinItems
    <2> HIDE DEF AB
    <2>2. 1 \in 1..Len(A)  BY <1>3
    <2> QED  BY <1>3, <1>4, <2>1, <2>2
  <1> HIDE DEF AB
  <1>10. /\ AC \in Seq(Item) /\ Len(AC) = n + 2
         /\ \A i \in 1..n + 1 : AC[i] = AB[i]
         /\ AC[n + 2] = C[1]
    <2>1. /\ AC \in Seq(Item) /\ Len(AC) = Len(AB) + Len(C)
          /\ \A i \in 1..Len(AB) : AC[i] = AB[i]
          /\ \A i \in 1..Len(C) : AC[Len(AB) + i] = C[i]
      BY <1>5, <1>9, JoinItems
    <2> HIDE DEF AC
    <2>2. Len(AB) + 1 = n + 2 /\ 1 \in 1..Len(C) /\ Len(AB) = n + 1  BY <1>4, <1>5, <1>9
    <2> QED  BY <1>5, <2>1, <2>2
  <1> HIDE DEF AC
  <1>11. /\ AD \in Seq(Item) /\ Len(AD) = FrontLen(m)
         /\ \A i \in 1..n + 2 : AD[i] = AC[i]
         /\ m.system # <<>> => FrontLen(m) = n + 3 /\ AD[FrontLen(m)] = D[1]
         /\ m.system = <<>> => FrontLen(m) = n + 2
    <2>1. /\ AD \in Seq(Item) /\ Len(AD) = Len(AC) + Len(D)
          /\ \A i \in 1..Len(AC) : AD[i] = AC[i]
          /\ \A i \in 1..Len(D) : AD[Len(AC) + i] = D[i]
      BY <1>6, <1>10, JoinItems
    <2> HIDE DEF AD
    <2>2. FrontLen(m) = n + 2 + Len(D)  BY <1>6 DEF FrontLen, n
    <2>3. m.system # <<>> => FrontLen(m) = n + 3 /\ Len(AC) + 1 = FrontLen(m) /\ 1 \in 1..Len(D)
      BY <1>4, <1>6, <1>10, <2>2
    <2>4. m.system = <<>> => FrontLen(m) = n + 2  BY <1>4, <1>6, <2>2
    <2> QED  BY <1>10, <2>1, <2>2, <2>3, <2>4
  <1> HIDE DEF AD
  <1>12. /\ AE \in Seq(Item) /\ Len(AE) = FrontLen(m) + (IF m.renderer THEN 1 ELSE 0)
         /\ \A i \in 1..FrontLen(m) : AE[i] = AD[i]
         /\ m.renderer => AE[FrontLen(m) + 1] = E[1]
    <2>1. /\ AE \in Seq(Item) /\ Len(AE) = Len(AD) + Len(E)
          /\ \A i \in 1..Len(AD) : AE[i] = AD[i]
          /\ \A i \in 1..Len(E) : AE[Len(AD) + i] = E[i]
      BY <1>7, <1>11, JoinItems
    <2> HIDE DEF AE
    <2>2. m.renderer => 1 \in 1..Len(E)  BY <1>7
    <2> QED  BY <1>7, <1>11, <2>1, <2>2
  <1> HIDE DEF AE
  <1>13. /\ AF \in Seq(Item) /\ Len(AF) = Len(AE) + Len(m.suffix)
         /\ \A i \in 1..Len(AE) : AF[i] = AE[i]
         /\ \A i \in 1..Len(m.suffix) : AF[Len(AE) + i] = F[i]
    <2>1. /\ AF \in Seq(Item) /\ Len(AF) = Len(AE) + Len(F)
          /\ \A i \in 1..Len(AE) : AF[i] = AE[i]
          /\ \A i \in 1..Len(F) : AF[Len(AE) + i] = F[i]
      BY <1>8, <1>12, JoinItems
    <2> HIDE DEF AF
    <2> QED  BY <1>8, <2>1
  <1> HIDE DEF AF
  <1>14. n \in Nat /\ FrontLen(m) \in Nat /\ FrontLen(m) >= n + 2 /\ Len(AE) >= FrontLen(m) /\ Len(AE) \in Nat
    <2>1. FrontLen(m) = n + 3 \/ FrontLen(m) = n + 2  BY <1>11
    <2> QED  BY <1>4, <1>12, <2>1
  <1>15. \A i \in 1..n + 1 : AF[i] = AB[i]
    <2> TAKE i \in 1..n + 1
    <2>1. i \in 1..n + 2 /\ i \in 1..FrontLen(m) /\ i \in 1..Len(AE)  BY <1>14
    <2> QED  BY <1>10, <1>11, <1>12, <1>13, <2>1
  <1>16. AF[1] = Directive("FROM", m.path)
    <2>1. 1 \in 1..n + 1  BY <1>14
    <2> QED  BY <1>9, <1>15, <2>1
  <1>17. \A i \in 1..n : AF[1 + i] = Directive("ADAPTER", serializedValue(m.adapters[i]))
    <2> TAKE i \in 1..n
    <2>1. 1 + i \in 1..n + 1  BY <1>14
    <2>2. AF[1 + i] = AB[1 + i]  BY <1>15, <2>1
    <2> QED  BY <1>4, <1>9, <2>2
  <1>18. AF[n + 2] = Directive("TEMPLATE", serializedValue(m.template))
    <2>1. n + 2 \in 1..n + 2 /\ n + 2 \in 1..FrontLen(m) /\ n + 2 \in 1..Len(AE)  BY <1>14
    <2> QED  BY <1>5, <1>10, <1>11, <1>12, <1>13, <2>1
  <1>19. m.system # <<>> => AF[FrontLen(m)] = Directive("SYSTEM", serializedValue(m.system))
    <2>1. FrontLen(m) \in 1..FrontLen(m) /\ FrontLen(m) \in 1..Len(AE)  BY <1>14
    <2> QED  BY <1>6, <1>11, <1>12, <1>13, <2>1
  <1>20. m.renderer => AF[FrontLen(m) + 1].command = "RENDERER"
    <2> SUFFICES ASSUME m.renderer  PROVE AF[FrontLen(m) + 1].command = "RENDERER"  OBVIOUS
    <2>1. FrontLen(m) + 1 \in 1..Len(AE)  BY <1>12, <1>14
    <2> QED  BY <1>7, <1>12, <1>13, <2>1
  <1>21. \A i \in 1..Len(m.suffix) : AF[Len(AE) + i] = OfEntry(m.suffix[i])  BY <1>8, <1>13
  <1> QED  BY <1>1, <1>11, <1>12, <1>13, <1>16, <1>17, <1>18, <1>19, <1>20, <1>21 DEF n

(* The comment in front of the directives. *)
LEMMA CommentText ==
    ASSUME NEW R \in Text
    PROVE  LET s == Comment \o R
           IN  /\ s \in Text /\ s # <<>> /\ s[1] = "#" /\ TrimLeft(s, {Space, Break}) = s
               /\ modelfileLine(s).rest = R
  <1> DEFINE s == Comment \o R  h == <<"#", "generated">>  b == Before(h, R)
  <1>1. h \in Text /\ h # <<>> /\ h[1] = "#" /\ ~Contains(h, Break) /\ Len(h) = 2
    <2>1. "#" \in Tokens /\ "generated" \in Tokens  BY TextIs
    <2>2. h \in Text /\ Len(h) = 2 /\ h[1] = "#" /\ h[2] = "generated"  BY <2>1, TextIs
    <2> HIDE DEF h
    <2>3. h # <<>>
      <3>1. Len(h) # 0  BY <2>2
      <3> QED  BY <2>2, <3>1, NotEmpty
    <2>4. \A i \in 1..Len(h) : h[i] # Break
      <3>1. \A i \in 1..Len(h) : i = 1 \/ i = 2  BY <2>2
      <3> QED  BY <2>2, <3>1 DEF Break
    <2> QED  BY <2>2, <2>3, <2>4 DEF Contains
  <1>2. Comment = h \o <<Break>>  BY DEF Comment
  <1>3. s = b
    <2>1. <<Break>> \in Text  BY BreakText
    <2> DEFINE y == <<Break>>
    <2>2. (h \o y) \o R = h \o (y \o R)
      <3> HIDE DEF h, y
      <3> QED  BY <1>1, <2>1, TextAssociates DEF y
    <2>3. s = (h \o y) \o R  BY <1>2
    <2>4. b = h \o (y \o R)  BY Zenon DEF Before
    <2> HIDE DEF h, y, b
    <2> QED  BY <2>2, <2>3, <2>4
  <1> HIDE DEF h
  <1>4. /\ b \in Text /\ b # <<>> /\ b[1] = "#" /\ modelfileLine(b) = [line |-> h, rest |-> R]
    <2>1. /\ Before(h, R) \in Text /\ Before(h, R) # <<>>
          /\ Before(h, R)[1] = IF h = <<>> THEN Break ELSE h[1]
          /\ ~Contains(h, Break) => modelfileLine(Before(h, R)) = [line |-> h, rest |-> R]
      BY <1>1, BeforeText
    <2> HIDE DEF b
    <2> QED  BY <1>1, <2>1 DEF b
  <1> HIDE DEF b
  <1>5. TrimLeft(b, {Space, Break}) = b
    <2>1. b[1] \notin {Space, Break}  BY <1>4 DEF Space, Break
    <2> QED  BY <1>4, <2>1, NoneInFront
  <1>6. modelfileLine(b).rest = R  BY <1>4
  <1> QED  BY <1>3, <1>4, <1>5, <1>6

LEMMA CommentTurn ==
    ASSUME NEW R \in Text, source = Comment \o R, Turn
    PROVE  /\ verdict = "none" /\ model' = model /\ verdict' = verdict
           /\ source' = R /\ seen' = seen /\ tail' = tail
  <1>1. source[1] = "#" /\ TrimLeft(source, {Space, Break}) = source /\ modelfileLine(source).rest = R
    <2> DEFINE s == Comment \o R
    <2>1. s[1] = "#" /\ TrimLeft(s, {Space, Break}) = s /\ modelfileLine(s).rest = R  BY CommentText
    <2>2. source = s  OBVIOUS
    <2> HIDE DEF s
    <2> QED  BY <2>1, <2>2
  <1> DEFINE x == TrimLeft(source, {Space, Break})
             stop == IndexAny(x, {Space, Break})
             rest == TrimLeft(From(x, stop), {Space})
  <1>2. /\ verdict = "none" /\ UNCHANGED model
        /\ IF x[1] = "#" THEN ReadOn(modelfileLine(x).rest) /\ UNCHANGED <<seen, tail>>
           ELSE IF stop # 2 \/ stop > Len(x) \/ x[stop] = Break THEN Reject
           ELSE IF x[1] \in {"FROM", "ADAPTER"} THEN Path(x[1], rest)
           ELSE Valued(x[1], rest)
    BY DEF Turn
  <1>3. x = source  BY <1>1
  <1> HIDE DEF x, stop, rest
  <1>4. x[1] = "#" /\ modelfileLine(x).rest = R  BY <1>1, <1>3
  <1> QED  BY <1>2, <1>4 DEF ReadOn

-----------------------------------------------------------------------------
(* Where the loop is in the text of a model. *)

(* What was seen before the k-th directive of m. *)
SeenBefore(m, k, s, t) ==
    LET n == Len(m.adapters)
        f == FrontLen(m)
    IN  /\ "FROM" \in s <=> k > 1
        /\ "TEMPLATE" \in s <=> k > n + 2
        /\ "SYSTEM" \in s <=> m.system # <<>> /\ k > n + 3
        /\ t \in BOOLEAN /\ (t <=> k > f + 1)
        /\ m.renderer => k <= f + 1

AtDirective(k) ==
    /\ k \in 1..Len(Directives(model)) + 1
    /\ source = Written(Directives(model))[k]
    /\ SeenBefore(model, k, seen, tail)

(* A model with a renderer is read up to it, an ordinary one to its end. *)
Watched(m) == m.renderer \/ Ordinary(m)

HiddenInv ==
    /\ model \in Candidates /\ verdict \in {"none", "accept", "reject"}
    /\ verdict = "none" /\ Watched(model) =>
          \/ source = Generated(model) /\ seen = {} /\ tail = FALSE
          \/ \E k \in 1..Len(Directives(model)) + 1 : AtDirective(k)
    /\ NothingHidden

LEMMA SimpleIs ==
    ASSUME NEW t \in Text, Simple(t)
    PROVE  ~Contains(t, Break) /\ ~Contains(t, Quote) /\ t # <<>> /\ t[1] # Space /\ t[Len(t)] # Space
  <1>1. t # <<>> /\ ~Contains(t, Quote) /\ serializedValue(t) = t  BY DEF Simple, Plain
  <1>2. \/ ~Contains(t, Break) /\ t[1] # Space /\ t[Len(t)] # Space
        \/ t[1] = Quote
    BY <1>1, Serialized
  <1>3. 1 \in 1..Len(t)  BY <1>1, NotEmpty
  <1>4. t[1] # Quote  BY <1>1, <1>3 DEF Contains
  <1> QED  BY <1>1, <1>2, <1>4

(* The line at a place, and what kinds of places there are up to the renderer. *)
LEMMA PlaceIs ==
    ASSUME NEW m \in Candidates, NEW k \in 1..Len(Directives(m))
    PROVE  LET ds == Directives(m)
               n == Len(m.adapters)
               f == FrontLen(m)
           IN  /\ ds[k] \in Item /\ Written(ds)[k] = LineOf(ds[k]) \o Written(ds)[k + 1]
               /\ Written(ds)[k + 1] \in Text /\ k \in Nat /\ n \in Nat /\ f \in Nat
               /\ f = (IF m.system = <<>> THEN n + 2 ELSE n + 3)
               /\ \/ k = 1 /\ ds[k] = Directive("FROM", m.path)
                  \/ /\ k \in 2..n + 1 /\ k - 1 \in 1..n
                     /\ ds[k] = Directive("ADAPTER", serializedValue(m.adapters[k - 1]))
                  \/ k = n + 2 /\ ds[k] = Directive("TEMPLATE", serializedValue(m.template))
                  \/ k = n + 3 /\ m.system # <<>> /\ ds[k] = Directive("SYSTEM", serializedValue(m.system))
                  \/ m.renderer /\ k = f + 1 /\ ds[k].command = "RENDERER"
                  \/ m.renderer /\ k > f + 1
                  \/ /\ ~m.renderer /\ k > f /\ k - f \in 1..Len(m.suffix)
                     /\ ds[k] = OfEntry(m.suffix[k - f])
  <1> DEFINE ds == Directives(m)  n == Len(m.adapters)  f == FrontLen(m)  W == Written(ds)
             r == f + (IF m.renderer THEN 1 ELSE 0)  l == Len(m.suffix)
  <1>1. /\ ds \in Seq(Item) /\ Len(ds) = r + l
        /\ ds[1] = Directive("FROM", m.path)
        /\ \A i \in 1..n : ds[1 + i] = Directive("ADAPTER", serializedValue(m.adapters[i]))
        /\ ds[n + 2] = Directive("TEMPLATE", serializedValue(m.template))
        /\ m.system # <<>> => f = n + 3 /\ ds[f] = Directive("SYSTEM", serializedValue(m.system))
        /\ m.system = <<>> => f = n + 2
        /\ m.renderer => ds[f + 1].command = "RENDERER"
        /\ \A i \in 1..l : ds[r + i] = OfEntry(m.suffix[i])
    BY DirectivesAre
  <1>2. n \in Nat /\ l \in Nat /\ f \in Nat  BY CandidateIs
  <1>3. k \in Nat /\ k >= 1 /\ k <= Len(ds) /\ Len(ds) \in Nat
    <2>1. Len(ds) \in Nat  BY <1>1
    <2> QED  BY <2>1
  <1>4. \A j \in 1..Len(ds) : ds[j] \in Item
    <2> TAKE j \in 1..Len(ds)
    <2> HIDE DEF ds
    <2> QED  BY <1>1, ElementOfSeq
  <1>5. ds[k] \in Item  BY <1>4
  <1>6. /\ \A j \in 1..Len(ds) : W[j] = LineOf(ds[j]) \o W[j + 1]
        /\ \A j \in 1..Len(ds) + 1 : W[j] \in Text
    <2> HIDE DEF ds
    <2> QED  BY <1>1, WrittenHere DEF W
  <1>7. W[k] = LineOf(ds[k]) \o W[k + 1]  BY <1>6
  <1>8. W[k + 1] \in Text
    <2>1. k + 1 \in 1..Len(ds) + 1  BY <1>3
    <2> HIDE DEF ds, W
    <2> QED  BY <1>6, <2>1
  <1>9. r = (IF m.renderer THEN f + 1 ELSE f)  BY <1>2
  <1> HIDE DEF ds, n, f, W, r, l
  <1>10. f = (IF m.system = <<>> THEN n + 2 ELSE n + 3)  BY <1>1
  <1>11. k = 1 => ds[k] = Directive("FROM", m.path)  BY <1>1
  <1>12. k \in 2..n + 1 => k - 1 \in 1..n /\ ds[k] = Directive("ADAPTER", serializedValue(m.adapters[k - 1]))
    <2> SUFFICES ASSUME k \in 2..n + 1
                 PROVE  k - 1 \in 1..n /\ ds[k] = Directive("ADAPTER", serializedValue(m.adapters[k - 1]))
      OBVIOUS
    <2>1. k - 1 \in 1..n /\ 1 + (k - 1) = k  BY <1>2, <1>3
    <2> QED  BY <1>1, <2>1
  <1>13. k = n + 2 => ds[k] = Directive("TEMPLATE", serializedValue(m.template))  BY <1>1
  <1>14. k = n + 3 /\ m.system # <<>> => ds[k] = Directive("SYSTEM", serializedValue(m.system))  BY <1>1
  <1>15. m.renderer /\ k = f + 1 => ds[k].command = "RENDERER"  BY <1>1
  <1>16. ~m.renderer /\ k > f => k - f \in 1..l /\ ds[k] = OfEntry(m.suffix[k - f])
    <2> SUFFICES ASSUME ~m.renderer, k > f  PROVE k - f \in 1..l /\ ds[k] = OfEntry(m.suffix[k - f])
      OBVIOUS
    <2>1. k - f \in 1..l /\ r + (k - f) = k  BY <1>1, <1>2, <1>3, <1>9
    <2> QED  BY <1>1, <2>1
  <1>17. \/ k = 1 \/ k \in 2..n + 1 \/ k = n + 2 \/ (k = n + 3 /\ m.system # <<>>)
         \/ (m.renderer /\ k = f + 1) \/ (m.renderer /\ k > f + 1) \/ (~m.renderer /\ k > f)
    <2>1. CASE k <= n + 2  BY <1>2, <1>3, <2>1
    <2>2. CASE k > n + 2 /\ k <= f  BY <1>2, <1>3, <1>10, <2>2
    <2>3. CASE k > f
      <3>1. k = f + 1 \/ k > f + 1  BY <1>2, <1>3, <2>3
      <3>2. CASE m.renderer  BY <3>1, <3>2
      <3>3. CASE ~m.renderer  BY <2>3, <3>3
      <3> QED  BY <3>2, <3>3
    <2> QED  BY <1>2, <1>3, <2>1, <2>2, <2>3
  <1>18. \/ k = 1 /\ ds[k] = Directive("FROM", m.path)
         \/ /\ k \in 2..n + 1 /\ k - 1 \in 1..n
            /\ ds[k] = Directive("ADAPTER", serializedValue(m.adapters[k - 1]))
         \/ k = n + 2 /\ ds[k] = Directive("TEMPLATE", serializedValue(m.template))
         \/ k = n + 3 /\ m.system # <<>> /\ ds[k] = Directive("SYSTEM", serializedValue(m.system))
         \/ m.renderer /\ k = f + 1 /\ ds[k].command = "RENDERER"
         \/ m.renderer /\ k > f + 1
         \/ /\ ~m.renderer /\ k > f /\ k - f \in 1..l
            /\ ds[k] = OfEntry(m.suffix[k - f])
    BY <1>11, <1>12, <1>13, <1>14, <1>15, <1>16, <1>17, Zenon
  <1> QED  BY <1>2, <1>3, <1>5, <1>7, <1>8, <1>10, <1>18 DEF ds, n, f, W, l

(* One turn of the loop before a directive. *)
LEMMA DirectiveTurn ==
    ASSUME model \in Candidates, verdict = "none", Watched(model), Turn,
           NEW k \in 1..Len(Directives(model)), AtDirective(k)
    PROVE  /\ model' = model /\ verdict' \in {"none", "reject"}
           /\ Ordinary(model) => verdict' = "none"
           /\ verdict' = "none" => AtDirective(k + 1)'
  <1> DEFINE ds == Directives(model)  n == Len(model.adapters)  f == FrontLen(model)  W == Written(ds)
             R == W[k + 1]
             a == model.adapters[k - 1]  e == model.suffix[k - f]
  <1>1. /\ ds[k] \in Item /\ W[k] = LineOf(ds[k]) \o R
        /\ R \in Text /\ k \in Nat /\ n \in Nat /\ f \in Nat
        /\ f = (IF model.system = <<>> THEN n + 2 ELSE n + 3)
        /\ \/ k = 1 /\ ds[k] = Directive("FROM", model.path)
           \/ /\ k \in 2..n + 1 /\ k - 1 \in 1..n
              /\ ds[k] = Directive("ADAPTER", serializedValue(a))
           \/ k = n + 2 /\ ds[k] = Directive("TEMPLATE", serializedValue(model.template))
           \/ k = n + 3 /\ model.system # <<>> /\ ds[k] = Directive("SYSTEM", serializedValue(model.system))
           \/ model.renderer /\ k = f + 1 /\ ds[k].command = "RENDERER"
           \/ model.renderer /\ k > f + 1
           \/ /\ ~model.renderer /\ k > f /\ k - f \in 1..Len(model.suffix)
              /\ ds[k] = OfEntry(e)
    BY PlaceIs
  <1>a. \A j, s, t : SeenBefore(model, j, s, t) <=>
          /\ "FROM" \in s <=> j > 1
          /\ "TEMPLATE" \in s <=> j > n + 2
          /\ "SYSTEM" \in s <=> model.system # <<>> /\ j > n + 3
          /\ t \in BOOLEAN /\ (t <=> j > f + 1)
          /\ model.renderer => j <= f + 1
    BY DEF SeenBefore
  <1>b. k \in Nat /\ n \in Nat /\ f \in Nat /\ f = (IF model.system = <<>> THEN n + 2 ELSE n + 3)  BY <1>1
  <1>2. source = W[k] /\ SeenBefore(model, k, seen, tail)  BY DEF AtDirective
  <1>3. /\ model.path \in Text /\ ~Contains(model.path, Break) /\ model.template \in Text
        /\ model.system \in Text /\ model.renderer \in BOOLEAN
        /\ \A i \in 1..Len(model.suffix) : model.suffix[i] \in Entry
        /\ \A i \in 1..n : model.adapters[i] \in Text
        /\ model.adapters \in Seq(Text) /\ model.suffix \in Seq(Entry)
    BY CandidateIs
  <1>4. Ordinary(model) =>
          /\ ~model.renderer /\ Simple(model.path) /\ Plain(model.template) /\ ~Contains(model.system, Quote)
          /\ \A i \in 1..n : Simple(model.adapters[i])
          /\ \A i \in 1..Len(model.suffix) : model.suffix[i].command # "MESSAGE" /\ Plain(model.suffix[i].value)
    <2>1. DOMAIN model.adapters = 1..n /\ DOMAIN model.suffix = 1..Len(model.suffix)  BY <1>3
    <2> QED  BY <2>1 DEF Ordinary
  <1>5. k + 1 \in 1..Len(ds) + 1
    <2>1. Len(ds) \in Nat
      <3>1. ds \in Seq(Item)  BY DirectivesAre
      <3> HIDE DEF ds
      <3> QED  BY <3>1
    <2>2. k \in 1..Len(ds)  OBVIOUS
    <2> HIDE DEF ds
    <2> QED  BY <2>1, <2>2
  (* What a turn leaves behind. *)
  <1>6. ASSUME model' = model, source' = R, SeenBefore(model, k + 1, seen', tail')
        PROVE  AtDirective(k + 1)'
    <2> DEFINE ds1 == Directives(model')
    <2>1. ds1 = ds /\ Written(ds1) = W  BY <1>6
    <2> HIDE DEF ds, ds1, n, f, W
    <2>2. AtDirective(k + 1)' =
             (/\ k + 1 \in 1..Len(ds1) + 1
              /\ source' = Written(ds1)[k + 1]
              /\ SeenBefore(model', k + 1, seen', tail'))
      BY DEF AtDirective, ds1
    <2> QED  BY <1>5, <1>6, <2>1, <2>2 DEF R
  <1> DEFINE Onward == AtDirective(k + 1)'
  <1>7. CASE k = 1 /\ ds[k] = Directive("FROM", model.path)
    <2> DEFINE t == model.path
    <2> HIDE DEF ds, n, f, W, R, t, Onward
    <2>1. source = LineOf(Directive("FROM", t)) \o R  BY <1>1, <1>2, <1>7 DEF t
    <2>2. t \in Text /\ ~Contains(t, Break) /\ R \in Text  BY <1>1, <1>3 DEF t
    <2>3. /\ model' = model /\ verdict' \in {"none", "reject"}
          /\ verdict' = "none" => source' = R /\ seen' = seen \cup ({"FROM"} \cap {"FROM"}) /\ tail' = tail
          /\ /\ ~Contains(t, Break) /\ ~Contains(t, Quote) /\ t # <<>> /\ t[1] # Space /\ t[Len(t)] # Space
             /\ "TEMPLATE" \notin seen /\ ~tail /\ ("FROM" = "FROM") # ("FROM" \in seen)
             => verdict' = "none"
      BY <2>1, <2>2, PathTurn
    <2>4. Ordinary(model) => verdict' = "none"
      <3> SUFFICES ASSUME Ordinary(model)  PROVE verdict' = "none"  OBVIOUS
      <3>1. ~Contains(t, Quote) /\ t # <<>> /\ t[1] # Space /\ t[Len(t)] # Space
        <4>1. Simple(t)  BY <1>4 DEF t
        <4> QED  BY <2>2, <4>1, SimpleIs
      <3>2. "TEMPLATE" \notin seen /\ ~tail /\ "FROM" \notin seen  BY <1>a, <1>b, <1>2, <1>7
      <3> QED  BY <2>2, <2>3, <3>1, <3>2
    <2>5. verdict' = "none" => Onward
      <3> SUFFICES ASSUME verdict' = "none"  PROVE Onward  OBVIOUS
      <3>1. source' = R /\ seen' = seen \cup {"FROM"} /\ tail' = tail  BY <2>3
      <3>2. SeenBefore(model, k + 1, seen', tail')
        <4>1. /\ "FROM" \in seen' <=> k + 1 > 1
              /\ "TEMPLATE" \in seen' <=> k + 1 > n + 2
              /\ "SYSTEM" \in seen' <=> model.system # <<>> /\ k + 1 > n + 3
          BY <1>a, <1>b, <1>2, <1>7, <3>1
        <4>2. ~(k > f + 1) /\ ~(k + 1 > f + 1) /\ k + 1 <= f + 1  BY <1>b, <1>7
        <4>3. tail' \in BOOLEAN /\ ~tail'  BY <1>a, <1>2, <3>1, <4>2
        <4> QED  BY <1>a, <4>1, <4>2, <4>3
      <3> QED  BY <1>6, <2>3, <3>1, <3>2 DEF Onward
    <2> QED  BY <2>3, <2>4, <2>5 DEF Onward
  <1>8. CASE k \in 2..n + 1 /\ k - 1 \in 1..n /\ ds[k] = Directive("ADAPTER", serializedValue(a))
    <2> DEFINE t == serializedValue(a)
    <2> HIDE DEF ds, n, f, W, R, a, Onward
    <2>0. a \in Text  BY <1>3, <1>8 DEF a
    <2>2. t \in Text /\ R \in Text /\ (~Contains(t, Break) \/ (t # <<>> /\ t[1] = Quote))
      <3>1. t \in Text /\ ((t = a /\ ~Contains(a, Break)) \/ (t # <<>> /\ t[1] = Quote))
        BY <2>0, Serialized
      <3> HIDE DEF t
      <3> QED  BY <1>1, <3>1
    <2> HIDE DEF t
    <2>1. source = LineOf(Directive("ADAPTER", t)) \o R  BY <1>1, <1>2, <1>8 DEF t
    <2>3. /\ model' = model /\ verdict' \in {"none", "reject"}
          /\ verdict' = "none" => source' = R /\ seen' = seen \cup ({"ADAPTER"} \cap {"FROM"}) /\ tail' = tail
          /\ /\ ~Contains(t, Break) /\ ~Contains(t, Quote) /\ t # <<>> /\ t[1] # Space /\ t[Len(t)] # Space
             /\ "TEMPLATE" \notin seen /\ ~tail /\ ("ADAPTER" = "FROM") # ("FROM" \in seen)
             => verdict' = "none"
      BY <2>1, <2>2, PathTurn
    <2>4. Ordinary(model) => verdict' = "none"
      <3> SUFFICES ASSUME Ordinary(model)  PROVE verdict' = "none"  OBVIOUS
      <3>1. ~Contains(t, Break) /\ ~Contains(t, Quote) /\ t # <<>> /\ t[1] # Space /\ t[Len(t)] # Space
        <4>1. Simple(a)  BY <1>4, <1>8 DEF a
        <4>2. t = a  BY <4>1 DEF Simple, t
        <4> QED  BY <2>0, <4>1, <4>2, SimpleIs
      <3>2. "TEMPLATE" \notin seen /\ ~tail /\ "FROM" \in seen  BY <1>a, <1>b, <1>2, <1>8
      <3> QED  BY <2>3, <3>1, <3>2
    <2>5. verdict' = "none" => Onward
      <3> SUFFICES ASSUME verdict' = "none"  PROVE Onward  OBVIOUS
      <3>1. source' = R /\ seen' = seen /\ tail' = tail
        <4>1. {"ADAPTER"} \cap {"FROM"} = {}  OBVIOUS
        <4> QED  BY <2>3, <4>1
      <3>2. SeenBefore(model, k + 1, seen', tail')
        <4>1. /\ "FROM" \in seen' <=> k + 1 > 1
              /\ "TEMPLATE" \in seen' <=> k + 1 > n + 2
              /\ "SYSTEM" \in seen' <=> model.system # <<>> /\ k + 1 > n + 3
          BY <1>a, <1>b, <1>2, <1>8, <3>1
        <4>2. ~(k > f + 1) /\ ~(k + 1 > f + 1) /\ k + 1 <= f + 1  BY <1>b, <1>8
        <4>3. tail' \in BOOLEAN /\ ~tail'  BY <1>a, <1>2, <3>1, <4>2
        <4> QED  BY <1>a, <4>1, <4>2, <4>3
      <3> QED  BY <1>6, <2>3, <3>1, <3>2 DEF Onward
    <2> QED  BY <2>3, <2>4, <2>5 DEF Onward
  <1>9. CASE k = n + 2 /\ ds[k] = Directive("TEMPLATE", serializedValue(model.template))
    <2> DEFINE v == model.template
    <2> HIDE DEF ds, n, f, W, R, v, Onward
    <2>1. source = LineOf(Directive("TEMPLATE", serializedValue(v))) \o R  BY <1>1, <1>2, <1>9 DEF v
    <2>2. v \in Text /\ R \in Text /\ "TEMPLATE" \in Commands \ {"FROM", "ADAPTER", "PARAMETER"}
      BY <1>1, <1>3 DEF v, Commands
    <2>3. /\ model' = model /\ verdict' \in {"none", "reject"}
          /\ verdict' = "none" => /\ seen' = seen \cup ({"TEMPLATE"} \cap {"TEMPLATE", "SYSTEM"})
                                  /\ tail' = (tail \/ "TEMPLATE" \notin {"TEMPLATE", "SYSTEM"})
          /\ /\ verdict' = "none"
             /\ \/ "TEMPLATE" = "TEMPLATE" /\ v = model.template
                \/ "TEMPLATE" = "SYSTEM" /\ v = model.system
             => source' = R
          /\ v # <<>> /\ ~Contains(v, Quote) /\ Admitted("TEMPLATE") /\ Matches("TEMPLATE", v) => verdict' = "none"
      BY <2>1, <2>2, ValueTurn
    <2>4. Ordinary(model) => verdict' = "none"
      <3> SUFFICES ASSUME Ordinary(model)  PROVE verdict' = "none"  OBVIOUS
      <3>1. v # <<>> /\ ~Contains(v, Quote)  BY <1>4 DEF v, Plain
      <3>2. Admitted("TEMPLATE")
        <4>1. "FROM" \in seen /\ "TEMPLATE" \notin seen /\ ~tail  BY <1>a, <1>b, <1>2, <1>9
        <4> QED  BY <1>9, <4>1 DEF Admitted
      <3>3. Matches("TEMPLATE", v)  BY DEF Matches, v
      <3> QED  BY <2>3, <3>1, <3>2, <3>3
    <2>5. verdict' = "none" => Onward
      <3> SUFFICES ASSUME verdict' = "none"  PROVE Onward  OBVIOUS
      <3>1. source' = R  BY <2>3 DEF v
      <3>2. seen' = seen \cup {"TEMPLATE"} /\ tail' = tail
        <4>1. tail = TRUE \/ tail = FALSE  BY <1>a, <1>2
        <4>2. "TEMPLATE" \in {"TEMPLATE", "SYSTEM"} /\ {"TEMPLATE"} \cap {"TEMPLATE", "SYSTEM"} = {"TEMPLATE"}  OBVIOUS
        <4>3. tail' = (tail \/ FALSE)  BY <2>3, <4>2
        <4>4. seen' = seen \cup {"TEMPLATE"}  BY <2>3, <4>2
        <4>5. tail' = tail
          <5>1. CASE tail = TRUE  BY <4>3, <5>1
          <5>2. CASE tail = FALSE  BY <4>3, <5>2
          <5> QED  BY <4>1, <5>1, <5>2
        <4> QED  BY <4>4, <4>5
      <3>3. SeenBefore(model, k + 1, seen', tail')
        <4>1. /\ "FROM" \in seen' <=> k + 1 > 1
              /\ "TEMPLATE" \in seen' <=> k + 1 > n + 2
              /\ "SYSTEM" \in seen' <=> model.system # <<>> /\ k + 1 > n + 3
          BY <1>a, <1>b, <1>2, <1>9, <3>2
        <4>2. ~(k > f + 1) /\ ~(k + 1 > f + 1) /\ k + 1 <= f + 1  BY <1>b, <1>9
        <4>3. tail' \in BOOLEAN /\ ~tail'  BY <1>a, <1>2, <3>2, <4>2
        <4> QED  BY <1>a, <4>1, <4>2, <4>3
      <3> QED  BY <1>6, <2>3, <3>1, <3>3 DEF Onward
    <2> QED  BY <2>3, <2>4, <2>5 DEF Onward
  <1>10. CASE k = n + 3 /\ model.system # <<>> /\ ds[k] = Directive("SYSTEM", serializedValue(model.system))
    <2> DEFINE v == model.system
    <2> HIDE DEF ds, n, f, W, R, v, Onward
    <2>1. source = LineOf(Directive("SYSTEM", serializedValue(v))) \o R  BY <1>1, <1>2, <1>10 DEF v
    <2>2. v \in Text /\ R \in Text /\ "SYSTEM" \in Commands \ {"FROM", "ADAPTER", "PARAMETER"}
      BY <1>1, <1>3 DEF v, Commands
    <2>3. /\ model' = model /\ verdict' \in {"none", "reject"}
          /\ verdict' = "none" => /\ seen' = seen \cup ({"SYSTEM"} \cap {"TEMPLATE", "SYSTEM"})
                                  /\ tail' = (tail \/ "SYSTEM" \notin {"TEMPLATE", "SYSTEM"})
          /\ /\ verdict' = "none"
             /\ \/ "SYSTEM" = "TEMPLATE" /\ v = model.template
                \/ "SYSTEM" = "SYSTEM" /\ v = model.system
             => source' = R
          /\ v # <<>> /\ ~Contains(v, Quote) /\ Admitted("SYSTEM") /\ Matches("SYSTEM", v) => verdict' = "none"
      BY <2>1, <2>2, ValueTurn
    <2>4. Ordinary(model) => verdict' = "none"
      <3> SUFFICES ASSUME Ordinary(model)  PROVE verdict' = "none"  OBVIOUS
      <3>1. v # <<>> /\ ~Contains(v, Quote)  BY <1>4, <1>10 DEF v, Plain
      <3>2. Admitted("SYSTEM")
        <4>1. "TEMPLATE" \in seen /\ "SYSTEM" \notin seen /\ ~tail  BY <1>a, <1>b, <1>2, <1>10
        <4> QED  BY <1>10, <4>1 DEF Admitted
      <3>3. Matches("SYSTEM", v)  BY DEF Matches, v
      <3> QED  BY <2>3, <3>1, <3>2, <3>3
    <2>5. verdict' = "none" => Onward
      <3> SUFFICES ASSUME verdict' = "none"  PROVE Onward  OBVIOUS
      <3>1. source' = R  BY <2>3 DEF v
      <3>2. seen' = seen \cup {"SYSTEM"} /\ tail' = tail
        <4>1. tail = TRUE \/ tail = FALSE  BY <1>a, <1>2
        <4>2. "SYSTEM" \in {"TEMPLATE", "SYSTEM"} /\ {"SYSTEM"} \cap {"TEMPLATE", "SYSTEM"} = {"SYSTEM"}  OBVIOUS
        <4>3. tail' = (tail \/ FALSE)  BY <2>3, <4>2
        <4>4. seen' = seen \cup {"SYSTEM"}  BY <2>3, <4>2
        <4>5. tail' = tail
          <5>1. CASE tail = TRUE  BY <4>3, <5>1
          <5>2. CASE tail = FALSE  BY <4>3, <5>2
          <5> QED  BY <4>1, <5>1, <5>2
        <4> QED  BY <4>4, <4>5
      <3>3. SeenBefore(model, k + 1, seen', tail')
        <4>1. /\ "FROM" \in seen' <=> k + 1 > 1
              /\ "TEMPLATE" \in seen' <=> k + 1 > n + 2
              /\ "SYSTEM" \in seen' <=> model.system # <<>> /\ k + 1 > n + 3
          BY <1>a, <1>b, <1>2, <1>10, <3>2
        <4>2. ~(k > f + 1) /\ ~(k + 1 > f + 1) /\ k + 1 <= f + 1  BY <1>b, <1>10
        <4>3. tail' \in BOOLEAN /\ ~tail'  BY <1>a, <1>2, <3>2, <4>2
        <4> QED  BY <1>a, <4>1, <4>2, <4>3
      <3> QED  BY <1>6, <2>3, <3>1, <3>3 DEF Onward
    <2> QED  BY <2>3, <2>4, <2>5 DEF Onward
  <1>11. CASE model.renderer /\ k = f + 1 /\ ds[k].command = "RENDERER"
    <2> DEFINE d == ds[k]
    <2> HIDE DEF ds, n, f, W, R, Onward, d
    <2>1. d \in Item /\ d.command = "RENDERER" /\ R \in Text /\ source = LineOf(d) \o R  BY <1>1, <1>2, <1>11 DEF d
    <2>2. d.command \notin {"FROM", "ADAPTER"} /\ ~Admitted(d.command)  BY <2>1 DEF Admitted
    <2>3. model' = model /\ verdict' = "reject"  BY <2>1, <2>2, RefusedTurn
    <2> QED  BY <1>4, <1>11, <2>3 DEF Onward
  <1>12. CASE /\ ~model.renderer /\ k > f /\ k - f \in 1..Len(model.suffix)
              /\ ds[k] = OfEntry(e)
    <2> DEFINE c == e.command  v == e.value
    <2> HIDE DEF ds, n, f, W, R, Onward, e
    <2>1. Ordinary(model)  BY <1>12 DEF Watched
    <2>2. e \in Entry /\ c # "MESSAGE" /\ Plain(v)  BY <1>3, <1>4, <1>12, <2>1 DEF e
    <2>3. c \in {"PARAMETER", "LICENSE", "PARSER"} /\ v \in Text /\ v # <<>> /\ ~Contains(v, Quote)
      <3>1. v \in Text /\ c \in {"PARAMETER", "LICENSE", "PARSER", "MESSAGE"}  BY <2>2, EntryIs
      <3> QED  BY <2>2, <3>1 DEF Plain
    <2>4. Admitted(c)
      <3>1. "TEMPLATE" \in seen /\ (model.system # <<>> => "SYSTEM" \in seen)  BY <1>a, <1>b, <1>2, <1>12
      <3> QED  BY <2>3, <3>1 DEF Admitted
    <2>5. R \in Text /\ source = LineOf(OfEntry(e)) \o R  BY <1>1, <1>2, <1>12
    <2>6. /\ model' = model /\ verdict' = "none" /\ source' = R
          /\ seen' = seen \cup ({c} \cap {"TEMPLATE", "SYSTEM"}) /\ tail' = TRUE
      <3>1. CASE c = "PARAMETER"
        <4>1. OfEntry(e) = Directive("PARAMETER", <<"stop", Space>> \o serializedValue(v))
          BY <3>1, Zenon DEF OfEntry, AfterCommand
        <4>2. source = LineOf(Directive("PARAMETER", <<"stop", Space>> \o serializedValue(v))) \o R
          BY <2>5, <4>1
        <4>3. Admitted("PARAMETER")  BY <2>4, <3>1
        <4> HIDE DEF v, c
        <4> QED  BY <2>3, <2>5, <3>1, <4>2, <4>3, ParameterTurn
      <3>2. CASE c # "PARAMETER"
        <4>1. OfEntry(e) = Directive(c, serializedValue(v))  BY <2>2, <3>2, EntryIs DEF OfEntry
        <4>2. source = LineOf(Directive(c, serializedValue(v))) \o R  BY <2>5, <4>1
        <4>3. c \in Commands \ {"FROM", "ADAPTER", "PARAMETER"} /\ c \notin {"TEMPLATE", "SYSTEM"} /\ Matches(c, v)
          BY <2>3, <3>2 DEF Commands, Matches
        <4> HIDE DEF v, c
        <4>4. /\ model' = model
              /\ verdict' = "none" => /\ seen' = seen \cup ({c} \cap {"TEMPLATE", "SYSTEM"})
                                      /\ tail' = (tail \/ c \notin {"TEMPLATE", "SYSTEM"})
              /\ v # <<>> /\ ~Contains(v, Quote) /\ Admitted(c) /\ Matches(c, v)
                 => verdict' = "none" /\ source' = R
          BY <2>3, <2>5, <4>2, <4>3, ValueTurn
        <4> QED  BY <2>3, <2>4, <4>3, <4>4
      <3> QED  BY <3>1, <3>2
    <2>7. seen' = seen
      <3>1. {c} \cap {"TEMPLATE", "SYSTEM"} = {}  BY <2>3
      <3> QED  BY <2>6, <3>1
    <2>8. SeenBefore(model, k + 1, seen', tail')
      <3>1. /\ "FROM" \in seen' <=> k + 1 > 1
            /\ "TEMPLATE" \in seen' <=> k + 1 > n + 2
            /\ "SYSTEM" \in seen' <=> model.system # <<>> /\ k + 1 > n + 3
        BY <1>a, <1>b, <1>2, <1>12, <2>7
      <3>2. k + 1 > f + 1  BY <1>b, <1>12
      <3> QED  BY <1>a, <1>12, <2>6, <3>1, <3>2
    <2>9. Onward  BY <1>6, <2>6, <2>8 DEF Onward
    <2> QED  BY <2>6, <2>9 DEF Onward
  <1>13. ~(model.renderer /\ k > f + 1)
    <2> HIDE DEF f
    <2> QED  BY <1>a, <1>b, <1>2
  <1> HIDE DEF ds, n, f, W, R, a, e
  <1> QED  BY <1>1, <1>7, <1>8, <1>9, <1>10, <1>11, <1>12, <1>13

LEMMA TurnVerdict ==
    ASSUME Turn
    PROVE  verdict = "none" /\ model' = model /\ verdict' \in {"none", "reject"}
  <1> DEFINE x == TrimLeft(source, {Space, Break})
             stop == IndexAny(x, {Space, Break})
             rest == TrimLeft(From(x, stop), {Space})
  <1>1. /\ verdict = "none" /\ UNCHANGED model
        /\ IF x[1] = "#" THEN ReadOn(modelfileLine(x).rest) /\ UNCHANGED <<seen, tail>>
           ELSE IF stop # 2 \/ stop > Len(x) \/ x[stop] = Break THEN Reject
           ELSE IF x[1] \in {"FROM", "ADAPTER"} THEN Path(x[1], rest)
           ELSE Valued(x[1], rest)
    BY DEF Turn
  <1>2. \A c, s : Path(c, s) => Reject \/ \E t : ReadOn(t)  BY Zenon DEF Path
  <1>3. \A c, s : Valued(c, s) => Reject \/ \E t : ReadOn(t)  BY Zenon DEF Valued
  <1> HIDE DEF x, stop, rest
  <1>4. Reject \/ \E t : ReadOn(t)  BY <1>1, <1>2, <1>3
  <1> QED  BY <1>1, <1>4 DEF Reject, ReadOn

(* Where a text is read to its end. *)
LEMMA AtEnd ==
    ASSUME HiddenInv, verdict = "none", Watched(model), TrimLeft(source, {Space, Break}) = <<>>
    PROVE  ~model.renderer /\ "FROM" \in seen /\ "TEMPLATE" \in seen /\ (model.system # <<>> => "SYSTEM" \in seen)
  <1> DEFINE ds == Directives(model)  W == Written(ds)  f == FrontLen(model)  n == Len(model.adapters)
             l == Len(model.suffix)
  <1>1. model \in Candidates  BY DEF HiddenInv
  <1>2. ds \in Seq(Item) /\ Len(ds) = f + (IF model.renderer THEN 1 ELSE 0) + l
    BY <1>1, DirectivesAre
  <1>3. n \in Nat /\ f \in Nat /\ l \in Nat  BY <1>1, CandidateIs
  <1>4. f = (IF model.system = <<>> THEN n + 2 ELSE n + 3)
    <2>1. (model.system # <<>> => f = n + 3) /\ (model.system = <<>> => f = n + 2)  BY <1>1, DirectivesAre
    <2> QED  BY <2>1
  <1>5. Len(ds) \in Nat
    <2> HIDE DEF ds
    <2> QED  BY <1>2
  <1>6. 1 \in 1..Len(ds) + 1 /\ W[1] \in Text
    <2> HIDE DEF ds
    <2>1. 1 \in 1..Len(ds) + 1  BY <1>5
    <2> QED  BY <1>2, <2>1, WrittenHere DEF W
  <1>7. source # Generated(model)
    <2> DEFINE R == W[1]
    <2>1. R \in Text  BY <1>6
    <2>2. Generated(model) = Comment \o R  BY DEF Generated
    <2> HIDE DEF R
    <2> DEFINE s == Comment \o R
    <2>3. s # <<>> /\ TrimLeft(s, {Space, Break}) = s  BY <2>1, CommentText
    <2> HIDE DEF s
    <2> QED  BY <2>2, <2>3 DEF s
  <1>8. PICK k \in 1..Len(ds) + 1 : AtDirective(k)  BY <1>7 DEF HiddenInv
  <1>9. ~(k <= Len(ds))
    <2> SUFFICES ASSUME k <= Len(ds)  PROVE FALSE  OBVIOUS
    <2>1. k \in 1..Len(ds)
      <3> HIDE DEF ds
      <3> QED  BY <1>5, <1>8
    <2> DEFINE d == ds[k]  R == W[k + 1]  s == LineOf(d) \o R
    <2>2. d \in Item /\ R \in Text /\ source = s  BY <1>1, <1>8, <2>1, PlaceIs DEF AtDirective
    <2> HIDE DEF d, R
    <2>3. s # <<>> /\ TrimLeft(s, {Space, Break}) = s  BY <2>2, LineText
    <2> HIDE DEF s
    <2> QED  BY <2>2, <2>3
  <1>10. /\ "FROM" \in seen <=> k > 1
         /\ "TEMPLATE" \in seen <=> k > n + 2
         /\ "SYSTEM" \in seen <=> model.system # <<>> /\ k > n + 3
         /\ model.renderer => k <= f + 1
    BY <1>8 DEF AtDirective, SeenBefore
  <1> HIDE DEF ds, W, f, n, l
  <1>11. k = Len(ds) + 1 /\ k \in Nat  BY <1>5, <1>8, <1>9
  <1>12. ~model.renderer
    <2> SUFFICES ASSUME model.renderer  PROVE FALSE  OBVIOUS
    <2>1. Len(ds) = f + 1 + l  BY <1>2
    <2> QED  BY <1>3, <1>10, <1>11, <2>1
  <1>13. Len(ds) = f + l
    <2>1. Len(ds) = f + 0 + l  BY <1>2, <1>12
    <2> QED  BY <1>3, <2>1
  <1>14. k > 1 /\ k > n + 2 /\ (model.system # <<>> => k > n + 3)  BY <1>3, <1>4, <1>11, <1>13, SMTT(30)
  <1> QED  BY <1>10, <1>12, <1>14

LEMMA HiddenInit ==
    ASSUME TextInit
    PROVE  HiddenInv
  BY DEF TextInit, HiddenInv, NothingHidden

LEMMA HiddenTurn ==
    ASSUME HiddenInv, Turn
    PROVE  HiddenInv'
  <1>1. model \in Candidates /\ verdict = "none" /\ model' = model /\ verdict' \in {"none", "reject"}
    BY TurnVerdict DEF HiddenInv
  <1> DEFINE ds == Directives(model)  W == Written(ds)
  <1>2. ds \in Seq(Item) /\ Len(ds) \in Nat /\ W[Len(ds) + 1] = <<>> /\ W[1] \in Text
    <2>1. ds \in Seq(Item)  BY <1>1, DirectivesAre
    <2> HIDE DEF ds
    <2>2. Len(ds) \in Nat  BY <2>1
    <2>3. 1 \in 1..Len(ds) + 1  BY <2>2
    <2> QED  BY <2>1, <2>2, <2>3, WrittenHere DEF W
  <1>3. ASSUME Watched(model)
        PROVE  /\ Ordinary(model) => verdict' = "none"
               /\ verdict' = "none" => \E k \in 1..Len(ds) + 1 : AtDirective(k)'
    <2>1. \/ source = Generated(model) /\ seen = {} /\ tail = FALSE
          \/ \E k \in 1..Len(ds) + 1 : AtDirective(k)
      BY <1>1, <1>3 DEF HiddenInv
    <2>2. CASE source = Generated(model) /\ seen = {} /\ tail = FALSE
      <3> DEFINE R == W[1]
      <3>1. R \in Text /\ source = Comment \o R  BY <1>2, <2>2 DEF Generated
      <3> HIDE DEF R
      <3>2. verdict' = "none" /\ source' = R /\ seen' = seen /\ tail' = tail  BY <1>1, <3>1, CommentTurn
      <3>3. SeenBefore(model, 1, seen', tail')
        <4> DEFINE n == Len(model.adapters)  f == FrontLen(model)
        <4>1. n \in Nat /\ f \in Nat  BY <1>1, CandidateIs
        <4>2. ~(1 > n + 2) /\ ~(1 > n + 3) /\ ~(1 > f + 1) /\ 1 <= f + 1 /\ ~(1 > 1)
          <5> HIDE DEF n, f
          <5> QED  BY <4>1
        <4>3. tail' \in BOOLEAN /\ ~tail' /\ seen' = {}  BY <2>2, <3>2
        <4> QED  BY <4>2, <4>3 DEF SeenBefore
      <3>4. AtDirective(1)'
        <4> DEFINE ds1 == Directives(model')
        <4>1. ds1 = ds /\ Written(ds1) = W  BY <1>1
        <4> HIDE DEF ds, ds1, W
        <4>2. AtDirective(1)' =
                 (/\ 1 \in 1..Len(ds1) + 1
                  /\ source' = Written(ds1)[1]
                  /\ SeenBefore(model', 1, seen', tail'))
          BY DEF AtDirective, ds1
        <4>3. 1 \in 1..Len(ds) + 1  BY <1>2
        <4> QED  BY <1>1, <3>2, <3>3, <4>1, <4>2, <4>3 DEF R
      <3> HIDE DEF ds, W
      <3>5. 1 \in 1..Len(ds) + 1  BY <1>2
      <3> QED  BY <3>2, <3>4, <3>5
    <2>3. CASE \E k \in 1..Len(ds) + 1 : AtDirective(k)
      <3>1. PICK k \in 1..Len(ds) + 1 : AtDirective(k)  BY <2>3
      <3>2. CASE k \in 1..Len(ds)
        <4>1. /\ Ordinary(model) => verdict' = "none"
              /\ verdict' = "none" => AtDirective(k + 1)'
          BY <1>1, <1>3, <3>1, <3>2, DirectiveTurn
        <4> HIDE DEF ds, W
        <4>2. k + 1 \in 1..Len(ds) + 1  BY <1>2, <3>2
        <4> QED  BY <4>1, <4>2
      <3>3. CASE k \notin 1..Len(ds)
        <4>1. source = W[k]  BY <3>1 DEF AtDirective
        <4> HIDE DEF ds, W
        <4>2. source = <<>>  BY <1>2, <3>1, <3>3, <4>1
        <4>3. TrimLeft(source, {Space, Break}) = <<>>
          <5>1. TrimLeft(<<>>, {Space, Break}) = <<>>  BY NoText, NoneInFront
          <5> QED  BY <4>2, <5>1
        <4>4. TrimLeft(source, {Space, Break}) # <<>>  BY DEF Turn
        <4> QED  BY <4>3, <4>4
      <3> QED  BY <3>1, <3>2, <3>3
    <2> QED  BY <2>1, <2>2, <2>3
  <1>4. Watched(model') = Watched(model) /\ Ordinary(model') = Ordinary(model)  BY <1>1
  <1>5. Ordinary(model) => Watched(model)  BY DEF Watched
  <1>6. NothingHidden'
    <2>1. verdict' # "accept"  BY <1>1
    <2>2. Ordinary(model') => verdict' # "reject"  BY <1>3, <1>4, <1>5
    <2> QED  BY <2>1, <2>2 DEF NothingHidden
  <1>7. verdict' = "none" /\ Watched(model') => \E k \in 1..Len(Directives(model')) + 1 : AtDirective(k)'
    <2>1. Directives(model') = ds  BY <1>1
    <2> HIDE DEF ds
    <2> QED  BY <1>3, <1>4, <2>1
  <1> HIDE DEF ds, W
  <1> QED  BY <1>1, <1>6, <1>7 DEF HiddenInv

LEMMA HiddenDecide ==
    ASSUME HiddenInv, Decide
    PROVE  HiddenInv'
  <1>1. /\ model \in Candidates /\ verdict = "none" /\ TrimLeft(source, {Space, Break}) = <<>> /\ model' = model
        /\ verdict' = IF {"FROM", "TEMPLATE"} \subseteq seen /\ (model.system # <<>> => "SYSTEM" \in seen)
                         /\ ~HasMessages
                      THEN "accept" ELSE "reject"
    BY DEF HiddenInv, Decide
  <1>2. Watched(model) => /\ ~model.renderer /\ "FROM" \in seen /\ "TEMPLATE" \in seen
                          /\ (model.system # <<>> => "SYSTEM" \in seen)
    BY <1>1, AtEnd
  <1>3. verdict' = "accept" => ~HasMessages  BY <1>1
  <1>4. ~model.renderer  BY <1>2 DEF Watched
  <1>5. Ordinary(model) => verdict' = "accept"
    <2> SUFFICES ASSUME Ordinary(model)  PROVE verdict' = "accept"  OBVIOUS
    <2>1. Watched(model)  BY DEF Watched
    <2>2. ~HasMessages  BY DEF HasMessages, Ordinary
    <2> QED  BY <1>1, <1>2, <2>1, <2>2
  <1>6. NothingHidden'
    <2>1. HasMessages' = HasMessages  BY <1>1 DEF HasMessages
    <2>2. Ordinary(model') = Ordinary(model) /\ model'.renderer = model.renderer  BY <1>1
    <2>3. verdict' = "accept" => ~model'.renderer /\ ~HasMessages'  BY <1>3, <1>4, <2>1, <2>2
    <2>4. Ordinary(model') => verdict' # "reject"  BY <1>5, <2>2
    <2> QED  BY <2>3, <2>4 DEF NothingHidden
  <1>7. verdict' \in {"none", "accept", "reject"} /\ verdict' # "none"  BY <1>1
  <1> QED  BY <1>1, <1>6, <1>7 DEF HiddenInv

(* No text of any model in the daemon, whatever its fields contain, hides a renderer or stored messages
   from templateOnlyModelfile and usable, and every ordinary model is accepted. *)
THEOREM HiddenTheorem == TextSpec => []NothingHidden
  <1>1. TextInit => HiddenInv  BY HiddenInit
  <1>2. HiddenInv /\ [TextNext]_textVars => HiddenInv'
    <2> SUFFICES ASSUME HiddenInv, [TextNext]_textVars  PROVE HiddenInv'  OBVIOUS
    <2>1. CASE Turn  BY <2>1, HiddenTurn
    <2>2. CASE Decide  BY <2>2, HiddenDecide
    <2>3. CASE UNCHANGED textVars
      <3>1. model' = model /\ source' = source /\ seen' = seen /\ tail' = tail /\ verdict' = verdict
        BY <2>3 DEF textVars
      <3> QED  BY <3>1 DEF HiddenInv, NothingHidden, HasMessages, AtDirective
    <2> QED  BY <2>1, <2>2, <2>3 DEF TextNext
  <1>3. HiddenInv => NothingHidden  BY DEF HiddenInv
  <1> QED  BY <1>1, <1>2, <1>3, PTL DEF TextSpec
=============================================================================
