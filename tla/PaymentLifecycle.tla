--------------------------- MODULE PaymentLifecycle ---------------------------
(***************************************************************************)
(* What the payments manager promises about the durable record of a        *)
(* payment, and all that an app polling the record may rely on: a payment  *)
(* appears as pending, is decided at most once, and a decision is final.   *)
(* A batch decides several payments in one step.                           *)
(***************************************************************************)
CONSTANT Ids

VARIABLE life   \* id -> the general status of its durable record

Init == life = [i \in Ids |-> "Absent"]

(* How the record of one payment may change in a step. *)
Legal(old, new) ==
    \/ new = old
    \/ old = "Absent" /\ new = "Pending"
    \/ old = "Pending" /\ new \in {"Completed", "Failed"}

Next ==
    /\ life' \in [Ids -> {"Absent", "Pending", "Completed", "Failed"}]
    /\ \A i \in Ids : Legal(life[i], life'[i])

Spec == Init /\ [][Next]_life
=============================================================================
