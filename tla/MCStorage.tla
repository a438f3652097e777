----------------------------- MODULE MCStorage -----------------------------
(***************************************************************************)
(* Instances of the journal file (Journal) and of the byte accounts around *)
(* it (Reserve).  The two share no variable, so a property of one is       *)
(* checked in the behaviours in which only it moves: part says which.      *)
(***************************************************************************)
EXTENDS Journal, Reserve, TLC

VARIABLE part

(* A small job, one of 12 MiB and the largest CheckJobFits takes; stores found empty, nearly full
   and full to the admission limit, with and without a queue. *)
LargeJobs == {700, 12 * MiB, 16 * MiB - 64 * KiB - 8192}
Stores == {[used |-> u, queued |-> q] : u \in {0, 150 * MiB, 191 * MiB}, q \in {0, 63}}

Symmetric == Permutations(Procs)

MCInit ==
    /\ part \in {"journal", "reserve"}
    /\ Init /\ AccountsInit
    /\ part = "journal" => size = HeaderBytes
    /\ part = "reserve" => device = "ordered"
MCNext ==
    \/ part = "journal" /\ Next /\ UNCHANGED <<part, accounts>>
    \/ part = "reserve" /\ AccountsNext /\ UNCHANGED <<part, vars>>
MCSpec == MCInit /\ [][MCNext]_<<part, vars, accounts>>
==============================================================================
