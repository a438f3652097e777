------------------------------- MODULE MCMcp -------------------------------
(***************************************************************************)
(* Instances of the MCP bridge: its framing (Framer), its calls (Bridge)   *)
(* and what agents read through it, events (EventReader) and output        *)
(* (Paging).  They share no variable, so a property of one is checked in   *)
(* the behaviours in which only it moves: part says which.                 *)
(***************************************************************************)
EXTENDS Bridge, EventReader, Framer, Paging

CONSTANTS
    Wait        \* the call that waits alone

VARIABLE part

-----------------------------------------------------------------------------
(* Lines of a few shapes, with requests, cancellations and reuse of ids; and every shape the SDK
   can decode or the filter must refuse, between few lines. *)
Notification == [object |-> TRUE, version |-> TRUE, method |-> "string", id |-> "absent", error |-> "absent"]
SomeShapes == {Notification, [Notification EXCEPT !.object = FALSE], [Notification EXCEPT !.method = "absent"]}

OddShapes ==
    {m \in AllShapes :
        /\ m.object \/ m \in SomeShapes
        /\ ~(m.object /\ m.version /\ m.method = "string" /\ m.id = "plain")
        /\ m.error # "other"}

F == INSTANCE Framer WITH
        Kinds <- {"call", "cancel", "odd"}, Shapes <- SomeShapes
S == INSTANCE Framer WITH
        Values <- {CHOOSE v \in Values : TRUE}, Kinds <- {"call", "batch", "odd"}, MaxLines <- 2

(* Many calls for few slots, without time; and one wait with every timing. *)
M == INSTANCE Bridge WITH Budgets <- {1}, MaxStart <- 0, MaxTime <- 0
W == INSTANCE Bridge WITH Calls <- {Wait}

ASSUME F!Legal /\ S!Legal /\ F!Agreed /\ S!Agreed /\ Wait \in Calls

-----------------------------------------------------------------------------
MCInit ==
    /\ part \in {"lines", "shapes", "slots", "wait", "events", "output"}
    /\ IF part = "shapes" THEN S!LinesInit ELSE F!LinesInit
    /\ Init /\ ReadInit /\ PageInit
MCNext ==
    \/ part = "lines" /\ F!LinesNext /\ UNCHANGED <<part, vars, readVars, pageVars>>
    \/ part = "shapes" /\ S!LinesNext /\ UNCHANGED <<part, vars, readVars, pageVars>>
    \/ part = "slots" /\ M!Next /\ UNCHANGED <<part, lineVars, readVars, pageVars>>
    \/ part = "wait" /\ W!Next /\ UNCHANGED <<part, lineVars, readVars, pageVars>>
    \/ part = "events" /\ ReadNext /\ UNCHANGED <<part, lineVars, vars, pageVars>>
    \/ part = "output" /\ PageNext /\ UNCHANGED <<part, lineVars, vars, readVars>>
MCSpec == MCInit /\ [][MCNext]_<<part, lineVars, vars, readVars, pageVars>>
==============================================================================
