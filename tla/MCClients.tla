----------------------------- MODULE MCClients -----------------------------
(***************************************************************************)
(* Instances of what clients do with the service: the delivery of creates  *)
(* by the page and by agents (Delivery), and the page's copy of the state  *)
(* (Projection).  They share no variable, so a property of one is checked  *)
(* in the behaviours in which only it moves: part says which.              *)
(***************************************************************************)
EXTENDS Delivery, Projection, TLC

VARIABLES part

MCInit ==
    /\ part \in {"delivery", "copy"}
    /\ Init /\ PageInit
    /\ part = "copy" => role = "page" /\ store = CHOOSE s \in Stores : TRUE
MCNext ==
    \/ part = "delivery" /\ Next /\ UNCHANGED <<part, pageVars>>
    \/ part = "copy" /\ PageNext /\ UNCHANGED <<part, vars>>

(* The server handles what has arrived, the user resends what is uncertain, and a failed or dead
   service is started again.  The loops of the page go on, and a hidden page is shown again. *)
Page(A) == part = "delivery" /\ role = "page" /\ A
MCSpec ==
    /\ MCInit /\ [][MCNext]_<<part, vars, pageVars>>
    /\ \A a \in Attempts : WF_vars(Page(Serve(a)))
    /\ WF_vars(Page(\E a \in Attempts : sendSaved(a) \/ resend(a)))
    /\ WF_vars(Page(synchronize)) /\ WF_vars(Page(disconnect)) /\ WF_vars(Page(stop))
    /\ WF_vars(Page(\E s \in Stores : restart(s)))
    /\ WF_pageVars(part = "copy" /\ Show)
    /\ \A g \in Loops : WF_pageVars(part = "copy" /\ Step(g))
==============================================================================
