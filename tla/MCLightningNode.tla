---------------------------- MODULE MCLightningNode ----------------------------
(***************************************************************************)
(* Instances of LightningNode for TLC.  A behaviour is about the payments  *)
(* of one of the groups; the others are never begun, and invoices expire   *)
(* only if the group says so.                                              *)
(***************************************************************************)
EXTENDS LightningNode

CONSTANTS
    Groups,    \* sets of payments, and Expiry, that are looked at together
    Expiry

Begun ==
    {h \in LnHashes : htlc[h] # "none" \/ db[h] # None \/ op.batch[h] # None}
        \cup issued \cup preflighted \cup {Expiry : h \in expired}

InOneGroup == \E g \in Groups : Begun \subseteq g
=============================================================================
