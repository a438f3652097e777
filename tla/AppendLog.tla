------------------------------ MODULE AppendLog ------------------------------
(***************************************************************************)
(* What the journal promises the worker (the Store port of                 *)
(* internal/core/ports.go): a list of transactions that grows at its end,  *)
(* one whole transaction at a time.  Those a successful Append confirmed   *)
(* stay for ever.  A power failure may take back the others, last first;   *)
(* a device that does not keep the order of writes may also bring back     *)
(* some that were never confirmed.                                         *)
(***************************************************************************)
EXTENDS Naturals, Sequences, SequencesExt

VARIABLES
    log,     \* the transactions a reader of the store finds
    firm,    \* how many of them are confirmed
    ordered  \* whether the device keeps the order of writes

Init == log = <<>> /\ firm = 0

Grow    == Len(log') = Len(log) + 1 /\ IsPrefix(log, log') /\ UNCHANGED firm
Confirm == firm' = Len(log) /\ UNCHANGED log
Lose ==
    /\ firm <= Len(log') /\ \A i \in 1..firm : log'[i] = log[i]
    /\ ordered => IsPrefix(log', log)
    /\ UNCHANGED firm

Next == (Grow \/ Confirm \/ Lose) /\ UNCHANGED ordered

Spec == Init /\ [][Next]_<<log, firm, ordered>>
==============================================================================
