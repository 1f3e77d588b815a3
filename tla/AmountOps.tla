----------------------------- MODULE AmountOps -----------------------------
(***************************************************************************)
(* Sequences of operations on one amount: it is constructed, added to,     *)
(* subtracted from, scaled and rounded, as by a caller that composes the   *)
(* functions of common/src/ln/amount.rs.                                   *)
(***************************************************************************)
EXTENDS Amounts

CONSTANTS Operands,  \* units that are added and subtracted
          Scalars,
          MaxSteps   \* operations in a sequence

VARIABLES amount, steps

vars == <<amount, steps>>

\* An operation that panics ends the sequence.
Becomes(x) ==
    /\ steps < MaxSteps
    /\ steps' = IF x = Panic THEN MaxSteps ELSE steps + 1
    /\ amount' = IF x = Panic THEN amount ELSE x

Init ==
    /\ steps = 0
    /\ \/ \E n \in 0..MaxMsat : amount = from_msat(n)
       \/ \E n \in 0..sats_u64(MAX) : amount = from_sats_u32(n)
       \/ \E x \in 0..MAX : amount \in {try_from_satoshis(x), try_from_btc(x)}

\* The operators of std::ops are the checked ones, with expect.
Add(b) == Becomes(Expect(checked_add(amount, b)))
Subtract(b) == Becomes(Expect(checked_sub(amount, b)))
Scale(k) == Becomes(Expect(checked_mul(amount, k)))

\* Only quotients that units can express; Decimal has more digits than that.
Divide(k) ==
    /\ k # 0 => amount % k = 0
    /\ Becomes(Expect(checked_div(amount, k)))

\* round_sat does not check what it gives.
Round == Becomes(round_sat(amount))

Next ==
    \/ \E b \in Operands : Add(b) \/ Subtract(b)
    \/ \E k \in Scalars : Scale(k) \/ Divide(k)
    \/ Round

Spec == Init /\ [][Next]_vars

\* How far the invariant that the doc of Amount states holds, in any sequence of
\* operations: an amount is never negative, and at most Amount::MAX unless it is
\* the one amount beyond it, Amount::MAX rounded; msat() panics on that one and
\* on no other.
InRange ==
    /\ amount \in 0..MAX \/ amount = round_sat(MAX)
    /\ msat(amount) = Panic <=> amount > MAX

\* What checked_sub takes away from an amount up to Amount::MAX checked_add puts
\* back, and the other way round: neither saturates nor loses a unit, at any
\* boundary.
OpsInvert ==
    \A b \in Operands :
      LET d == checked_sub(amount, b)
          s == checked_add(amount, b)
      IN  amount <= MAX =>
            /\ d # None => checked_add(d, b) = amount
            /\ s # None => checked_sub(s, b) = amount
            /\ d = None <=> b > amount

\* round_sat gives a whole number of satoshis, at most half a satoshi away, and
\* leaves whole satoshis alone; it rounds as test amount_round_sat_btc expects.
RoundIsNearest ==
    LET r == round_sat(amount)
        d == IF r > amount THEN r - amount ELSE amount - r
    IN  /\ sats_u64(r) * Sat = r
        /\ 2 * d <= Sat
        /\ round_sat(r) = r

\* An amount that invoice_safe_msat lets through can be multiplied by ten in a
\* u64, which LDK's invoice builder does, and stands for the whole amount but
\* for what is finer than a millisatoshi.
InvoiceSafe ==
    LET m == invoice_safe_msat(amount)
    IN  m \notin {None, Panic} =>
            /\ 10 * m <= MaxMsat
            /\ from_msat(m) <= amount /\ amount < from_msat(m + 1)

\* Only rounding leaves the range of amounts, and only to one value; arithmetic
\* inverts where it does not report an error, rounding gives the nearest
\* satoshi, and an amount that counts as safe for an invoice is in the range of
\* an invoice (amount.rs).
AmountsAreExact == InRange /\ OpsInvert /\ RoundIsNearest /\ InvoiceSafe
=============================================================================
