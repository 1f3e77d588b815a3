-------------------------- MODULE ApprovedVersions --------------------------
(***************************************************************************)
(* The list of node versions that the user has approved                    *)
(* (node/src/approved_versions.rs).  A release is a record                 *)
(* [version, measurement]; versions are numbers in the order of semver     *)
(* precedence.  The list maps the approved versions to measurements.       *)
(***************************************************************************)
EXTENDS Naturals, FiniteSets, SequencesExt

CONSTANTS
    Releases,   \* the releases of the node
    Yanked,     \* release |-> the releases in its YANKED_NODE_* constants
    MAX_SIZE    \* the number of versions that may be approved (3 in the code)

(* const_assert!(MAX_SIZE > 0), and the test cannot_yank_current_version. *)
MaxSizeIsPositive == MAX_SIZE \in Nat \ {0}
CannotYankCurrentVersion ==
    \A r \in Releases : \A y \in Yanked[r] : y.version # r.version

EmptyList == [v \in {} |-> 0]
Ascending(S) == SetToSortSeq(S, <)

(* What approve_and_revoke leaves of the list, which of its two kinds of   *)
(* revocation removes what, and whether all of its checks hold.            *)
Inserted(list, r) == IF r.version \in DOMAIN list THEN list
                     ELSE list @@ (r.version :> r.measurement)
YankedFrom(list, r) == {y.version : y \in Yanked[r]} \cap DOMAIN Inserted(list, r)
TooOld(vs) == {v \in vs : Cardinality({w \in vs : w > v}) >= MAX_SIZE}

approve_and_revoke(list, r) ==
    LET all    == Inserted(list, r)
        yanked == YankedFrom(list, r)
        old    == TooOld(DOMAIN all \ yanked)
        gone   == Ascending(yanked) \o Ascending(old)
    IN  [ok      |-> /\ all[r.version] = r.measurement
                     /\ \A v \in yanked : \E y \in Yanked[r] : y.measurement = all[v]
                     /\ r.version \notin old,
         updated |-> r.version \notin DOMAIN list \/ gone # <<>>,
         list    |-> [v \in DOMAIN all \ (yanked \cup old) |-> all[v]],
         revoked |-> [i \in DOMAIN gone |-> all[gone[i]]]]
=============================================================================
