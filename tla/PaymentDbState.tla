---------------------------- MODULE PaymentDbState ----------------------------
(***************************************************************************)
(* The in-memory state of the app's payment database                       *)
(* (app-rs/src/payments.rs): a vector of payments, oldest first, and three *)
(* bitmaps over positions of the vector.  Positions (`vec_idx`) count from *)
(* 0, as in the code.                                                      *)
(*                                                                         *)
(* A payment's index, its creation time and id, is a number: only the      *)
(* order of indexes matters.  Of the rest is kept what is_junk looks at:   *)
(* whether this is an inbound invoice, and whether it has an amount and a  *)
(* description.                                                            *)
(***************************************************************************)
EXTENDS Naturals, Sequences, FiniteSets, SequencesExt

CONSTANTS None      \* Rust's None

Statuses == {"Pending", "Completed", "Failed"}

(* An empty note is a note, but note_or_description ignores it. *)
EmptyNote == "empty"

is_pending(p)   == p.status = "Pending"
is_finalized(p) == ~is_pending(p)

HasNoteOrDescription(p) == p.note \notin {None, EmptyNote} \/ p.description

is_junk(p) ==
    /\ p.status # "Completed"
    /\ p.inboundInvoice
    /\ ~p.amount \/ ~HasNoteOrDescription(p)

is_pending_not_junk(p)   == is_pending(p) /\ ~is_junk(p)
is_finalized_not_junk(p) == is_finalized(p) /\ ~is_junk(p)

(* IteratorExt::is_strict_total_order_by_key of the payments' indexes. *)
is_strict_total_order(seq) ==
    \A k \in 1..Len(seq)-1 : seq[k].index < seq[k+1].index

build_pending_index(payments) ==
    {v \in 0..Len(payments)-1 : is_pending(payments[v+1])}

build_pending_not_junk_index(payments) ==
    {v \in 0..Len(payments)-1 : is_pending_not_junk(payments[v+1])}

build_finalized_not_junk_index(payments) ==
    {v \in 0..Len(payments)-1 : is_finalized_not_junk(payments[v+1])}

EmptyState == [payments |-> << >>, pending |-> {}, pending_not_junk |-> {},
               finalized_not_junk |-> {}]

(* PaymentDbState::from_unsorted_vec of what is on disk.  File names are   *)
(* indexes, so that no two payments have the same one.                     *)
from_unsorted_vec(ps) ==
    LET payments == SetToSortSeq(ps, LAMBDA x, y : x.index < y.index)
    IN  [payments           |-> payments,
         pending            |-> build_pending_index(payments),
         pending_not_junk   |-> build_pending_not_junk_index(payments),
         finalized_not_junk |-> build_finalized_not_junk_index(payments)]

num_payments(s)  == Len(s.payments)
num_pending(s)   == Cardinality(s.pending)
num_finalized(s) == num_payments(s) - num_pending(s)

(* The index of the newest payment; 0, below all indexes, stands for None, *)
(* which Rust orders below every Some.                                     *)
latest_payment_index(s) ==
    IF s.payments = << >> THEN 0 ELSE Last(s.payments).index

(* A binary search by index, None if there is no such payment. *)
get_vec_idx_by_payment_index(s, index) ==
    LET found == {v \in 0..num_payments(s)-1 : s.payments[v+1].index = index}
    IN  IF found = {} THEN None ELSE CHOOSE v \in found : TRUE

(* The positions of pending payments, ascending.  The code reads           *)
(* payments[vec_idx] for each, and panics where that is out of bounds.     *)
pending_ids(s) ==
    LET vs == SetToSortSeq(s.pending, <)
    IN  [k \in DOMAIN vs |-> s.payments[vs[k]+1].index]

PendingIdsPanic(s) == \E v \in s.pending : v >= num_payments(s)

-----------------------------------------------------------------------------
(* insert_new_payments, of a batch `new`. *)

(* The checks before the loop. *)
BatchAccepted(s, new) ==
    /\ is_strict_total_order(new)
    /\ latest_payment_index(s) < Head(new).index

(* One of the indexes holds the position of the k-th new payment already.  *)
(* The first index that the payment belongs to is then the one that does,  *)
(* so that this payment changes no index.                                  *)
AlreadyIn(s, new, k) ==
    LET v == num_payments(s) + k - 1
    IN  \/ is_pending(new[k]) /\ v \in s.pending
        \/ is_pending_not_junk(new[k]) /\ v \in s.pending_not_junk
        \/ is_finalized_not_junk(new[k]) /\ v \in s.finalized_not_junk

(* The indexes after those of the first n new payments were inserted. *)
InsertIndexes(s, new, n) ==
    LET added(Filter(_)) == {num_payments(s) + k - 1 : k \in {j \in 1..n : Filter(new[j])}}
    IN  [s EXCEPT !.pending            = @ \cup added(is_pending),
                  !.pending_not_junk   = @ \cup added(is_pending_not_junk),
                  !.finalized_not_junk = @ \cup added(is_finalized_not_junk)]

(* The first payment at which the loop stops for an index. *)
StopAt(s, new) ==
    CHOOSE n \in 1..Len(new)+1 :
        /\ n <= Len(new) => AlreadyIn(s, new, n)
        /\ \A k \in 1..n-1 : ~AlreadyIn(s, new, k)

(* The state after the whole batch. *)
Inserted(s, new) ==
    [InsertIndexes(s, new, Len(new)) EXCEPT !.payments = @ \o new]

-----------------------------------------------------------------------------
(* update_pending_payment, for an update `u` whose write succeeded. *)

(* The assertions of the code about the indexes. *)
UpdatePanics(s, v, u) ==
    LET old == s.payments[v+1]
    IN  \/ is_pending(old) /\ ~is_pending(u) /\ v \notin s.pending
        \/ is_pending_not_junk(old) /\ ~is_pending_not_junk(u) /\ v \notin s.pending_not_junk
        \/ ~is_finalized_not_junk(old) /\ is_finalized_not_junk(u) /\ v \in s.finalized_not_junk

(* MUTANT of Updated: the finalized index is forgotten. *)
MutFinalizedForgotten(s, v, u) ==
    [s EXCEPT !.payments[v+1]    = u,
              !.pending          = @ \ {x \in {v} : ~is_pending(u)},
              !.pending_not_junk = @ \ {x \in {v} : ~is_pending_not_junk(u)}]

Updated(s, v, u) ==
    LET old == s.payments[v+1]
    IN  [s EXCEPT
          !.payments[v+1]      = u,
          !.pending            = @ \ {x \in {v} : is_pending(old) /\ ~is_pending(u)},
          !.pending_not_junk   = @ \ {x \in {v} : /\ is_pending_not_junk(old)
                                                  /\ ~is_pending_not_junk(u)},
          !.finalized_not_junk = @ \cup {x \in {v} : /\ ~is_finalized_not_junk(old)
                                                     /\ is_finalized_not_junk(u)}]

-----------------------------------------------------------------------------
(* What the payment list shows: lookups by scroll position, newest first.  *)
(* Each returns a vec_idx, or None.                                        *)

(* RoaringBitmap: the element with `rank` smaller ones, and the number of  *)
(* elements up to x.                                                       *)
select(bitmap, rank) == CHOOSE v \in bitmap : Cardinality({w \in bitmap : w < v}) = rank
rank_of(bitmap, x)   == Cardinality({w \in bitmap : w <= x})

get_payment_by_scroll_idx(s, scroll_idx) ==
    IF scroll_idx >= num_payments(s) THEN None ELSE num_payments(s) - scroll_idx - 1

(* Common to the three lookups that follow. *)
by_reverse_rank(bitmap, scroll_idx) ==
    IF scroll_idx >= Cardinality(bitmap) THEN None
    ELSE select(bitmap, Cardinality(bitmap) - scroll_idx - 1)

get_pending_payment_by_scroll_idx(s, scroll_idx) ==
    by_reverse_rank(s.pending, scroll_idx)
get_pending_not_junk_payment_by_scroll_idx(s, scroll_idx) ==
    by_reverse_rank(s.pending_not_junk, scroll_idx)
get_finalized_not_junk_payment_by_scroll_idx(s, scroll_idx) ==
    by_reverse_rank(s.finalized_not_junk, scroll_idx)

(* The finalized payments have no index of their own: the lookup starts    *)
(* scroll_idx positions from the newest payment and skips as many          *)
(* finalized ones as there are pending payments newer than that.           *)
get_finalized_payment_by_scroll_idx(s, scroll_idx) ==
    IF scroll_idx >= num_finalized(s) THEN None
    ELSE LET rev_idx           == num_payments(s) - scroll_idx - 1
             num_pending_below == num_pending(s) - rank_of(s.pending, rev_idx)
             rest              == {v \in 0..rev_idx : is_finalized(s.payments[v+1])}
         IN  select(rest, Cardinality(rest) - num_pending_below - 1)
=============================================================================
