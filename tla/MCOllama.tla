------------------------------ MODULE MCOllama ------------------------------
(***************************************************************************)
(* Instances of the Ollama adapter: one inference (Generate), among models *)
(* that change and with a stream of several lines, and the test of a       *)
(* model's Modelfile (Modelfile).  They share no variable, so a property   *)
(* of one is checked in the behaviours in which only it moves: part says   *)
(* which.                                                                  *)
(***************************************************************************)
EXTENDS Generate, Modelfile

VARIABLE part

-----------------------------------------------------------------------------
Model(digest, capacity, estimate) ==
    [digest |-> digest, capacity |-> capacity, estimate |-> estimate, usable |-> TRUE]

(* A model that fits, one with a long template, one whose capacity is unknown and one that is not
   usable; requests with a context size and a small reservation, without and with a large one. *)
MCModels == {Model("a", 7, 2), Model("b", 6, 4), Model("c", 0, 2),
             [Model("d", 7, 2) EXCEPT !.usable = FALSE]}
MCRequests == {[requested |-> 6, reserve |-> 2], [requested |-> 0, reserve |-> 5]}
G == INSTANCE Generate WITH MaxOutputBytes <- 1, StreamLimit <- 1

(* One model and one request, and an answer of several lines. *)
S == INSTANCE Generate WITH
        Models <- {Model("a", 7, 2)}, Requests <- {[requested |-> 6, reserve |-> 2]},
        Allocations <- {3}, MaxChanges <- 0

-----------------------------------------------------------------------------
(* Short texts, and texts that look like directives. *)
ShortText == UNION {[1..n -> {Space, Break, Quote, "w"}] : n \in 1..3}
Fake == {<<Break, "RENDERER", Space, "w", Break>>, <<Break, "PARAMETER", Space, "stop", Space>>,
         <<"w", Break, Quote, Quote, Quote, Break, "SYSTEM", Space, Quote>>}
Value == {<<Quote>>, <<Quote, Quote, Quote>>, <<"w">>, <<Break, Quote>>}
Item == [command : {"PARAMETER"}, value : Value]
        \cup [command : {"LICENSE", "MESSAGE", "PARSER"}, value : {<<"w", Break>>, <<Quote>>}]
Suffix == UNION {[1..n -> Item] : n \in 0..2}
Base == [path |-> <<"w">>, adapters |-> <<>>, template |-> <<"w">>, system |-> <<>>,
         renderer |-> TRUE, suffix |-> <<>>]

(* All templates with few systems, all systems, and the paths. *)
Fronts ==
    {[Base EXCEPT !.template = t, !.system = s] : t \in ShortText \cup Fake, s \in {<<>>, <<Quote>>}}
    \cup {[Base EXCEPT !.system = s] : s \in ShortText \cup Fake}
    \cup {[Base EXCEPT !.path = p, !.adapters = a] :
             p \in {<<"w">>, <<"w", Space, "w">>, <<Quote>>, <<Quote, "w">>},
             a \in {<<>>, <<<<"w">>>>, <<<<Quote>>>>, <<<<"w", Break, "w">>>>, <<<<"w", Space, "w">>>>}}
MCCandidates ==
    {[[m EXCEPT !.renderer = r] EXCEPT !.suffix = s] : m \in Fronts, r \in BOOLEAN, s \in Suffix}

B == INSTANCE Modelfile WITH Candidates <- {Base}

-----------------------------------------------------------------------------
MCInit ==
    /\ part \in {"model", "stream", "modelfile"}
    /\ IF part = "model" THEN G!Init ELSE S!Init
    /\ part = "modelfile" => resident = None
    /\ IF part = "modelfile" THEN TextInit ELSE B!TextInit
MCNext ==
    \/ part = "model" /\ G!Next /\ UNCHANGED <<part, textVars>>
    \/ part = "stream" /\ S!Next /\ UNCHANGED <<part, textVars>>
    \/ part = "modelfile" /\ TextNext /\ UNCHANGED <<part, vars>>
MCSpec == MCInit /\ [][MCNext]_<<part, vars, textVars>>

==============================================================================
