--------------------------- MODULE MCPaymentsManager ---------------------------
(***************************************************************************)
(* Instances of PaymentsManager for TLC.  Payments interact through the    *)
(* lock, the batches and the snapshots, for which two of them are enough:  *)
(* a behaviour is about the payments of one of the groups.                 *)
(***************************************************************************)
EXTENDS PaymentsManager

CONSTANT Groups    \* sets of payments that are looked at together

(* The payments that are known to the backend or on their way there, and   *)
(* those whose invoice has expired.                                        *)
Used == {i \in Ids : db[i] # None \/ op.batch[i] # None}
        \cup expired \cup recvIds

InOneGroup == \E g \in Groups : Used \subseteq g
=============================================================================
