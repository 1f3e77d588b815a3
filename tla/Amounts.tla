------------------------------ MODULE Amounts ------------------------------
(***************************************************************************)
(* Bitcoin amounts (common/src/ln/amount.rs).  The code keeps satoshis in  *)
(* a Decimal; here an amount counts units, of which there are Sub in a     *)
(* millisatoshi, so that values finer than a millisatoshi exist, as they   *)
(* do in the code.  A Decimal that is written in BTC has the same number   *)
(* of units: moving the decimal point is exact.  Values are assumed to fit *)
(* a Decimal.  An error is None, a panic is Panic.                         *)
(***************************************************************************)
EXTENDS Integers

CONSTANTS MsatPerSat,  \* 1000 in the code
          Sub,         \* units in a millisatoshi
          MaxMsat,     \* u64::MAX
          None, Panic

AmountsAssumption ==
    /\ MsatPerSat \in Nat \ {0} /\ Sub \in Nat \ {0}
    /\ MaxMsat \in Nat

Sat == MsatPerSat * Sub

MAX == MaxMsat * Sub

INVOICE_MAX_AMOUNT_MSATS_U64 == MaxMsat \div 10

try_from_inner(x) == IF x < 0 \/ x > MAX THEN None ELSE x

from_msat(msats) == msats * Sub

from_sats_u32(sats) == from_msat(sats * MsatPerSat)

try_from_satoshis(x) == try_from_inner(x)

try_from_btc(x) == try_from_inner(x)

msat(a) == IF a \div Sub > MaxMsat THEN Panic ELSE a \div Sub

MutWholeRange(a) == msat(a)

invoice_safe_msat(a) ==
    LET m == msat(a)
    IN  IF m = Panic THEN Panic
        ELSE IF m <= INVOICE_MAX_AMOUNT_MSATS_U64 THEN m ELSE None

sats_u64(a) == a \div Sat

\* Decimal::round rounds to the nearest integer, and halves to an even one.

round_sat(a) ==
    LET q == a \div Sat
        r == 2 * (a % Sat)
    IN  Sat * (IF r < Sat THEN q ELSE IF r > Sat THEN q + 1 ELSE q + (q % 2))

checked_add(a, b) == try_from_inner(a + b)

checked_sub(a, b) == try_from_inner(a - b)

checked_mul(a, k) == try_from_inner(a * k)

checked_div(a, k) == IF k = 0 THEN None ELSE try_from_inner(a \div k)

Expect(x) == IF x = None THEN Panic ELSE x

\* parse_onchain_btc_amount, given the Decimal that the text denotes, if any.
parse_onchain_btc_amount(x) ==
    IF x = None THEN None
    ELSE LET a == try_from_btc(x) IN IF a = None THEN None ELSE round_sat(a)
=============================================================================
