------------------------------- MODULE MCWatch -------------------------------
(***************************************************************************)
(* Small instances of the event streams: one stream alone with all events, *)
(* or several with few, so that one meets the end of another.              *)
(***************************************************************************)
EXTENDS Watch

CONSTANTS MaxShared  \* bound: events while there are several streams
ASSUME MaxShared \in 0..MaxSeq

VARIABLE alone

One == CHOOSE s \in Streams : TRUE

MCInit == alone \in BOOLEAN /\ Init
MCNext ==
    /\ Next /\ UNCHANGED alone
    /\ IF alone THEN \A s \in Streams \ {One} : at'[s] = "none" ELSE seq' <= MaxShared
MCSpec == MCInit /\ [][MCNext]_<<alone, vars>> /\ Fairness
==============================================================================
