------------------------------ MODULE AppProofs ------------------------------
(***************************************************************************)
(* Proofs about what the app relies on.                                    *)
(*   AmountOps, the amounts that the app and the node calculate with: for  *)
(*     every width of the millisatoshis, every precision below a           *)
(*     millisatoshi, and any sequence of operations of any length.         *)
(*   Tls, an instance of TlsTrust: for any users, nodes, builds,           *)
(*     measurements and lifetimes of certificates.                         *)
(***************************************************************************)
EXTENDS AmountOps, Sequences, TLAPS

(* None and Panic are no amounts, and operands are units. *)
AmountHypotheses ==
    /\ AmountsAssumption
    /\ None \notin Int /\ Panic \notin Int
    /\ Operands \subseteq Nat /\ Scalars \subseteq Nat

(* The inductive invariant: an amount is in range, or it is Amount::MAX    *)
(* rounded.                                                                *)
InRangeOrRounded == amount \in (0..MAX) \cup {round_sat(MAX)}

-----------------------------------------------------------------------------
(* Division. *)

LEMMA DivMod ==
    ASSUME NEW a \in Nat, NEW d \in Nat \ {0}
    PROVE  /\ a \div d \in Nat /\ a % d \in Nat
           /\ a = d * (a \div d) + (a % d) /\ a % d < d
OBVIOUS

LEMMA Monotone ==
    ASSUME NEW a \in Int, NEW b \in Int, NEW d \in Nat, a <= b
    PROVE  d * a <= d * b
OBVIOUS

LEMMA MultipleDiv ==
    ASSUME NEW k \in Nat, NEW d \in Nat \ {0}
    PROVE  (d * k) \div d = k /\ (d * k) % d = 0
<1> DEFINE q == (d * k) \div d
<1> DEFINE r == (d * k) % d
<1>1. q \in Nat /\ r \in Nat /\ d * k = d * q + r /\ r < d
  <2>1. d * k \in Nat
    OBVIOUS
  <2>2. QED  BY <2>1, DivMod
<1> HIDE DEF q, r
<1>2. k = q
  <2>1. CASE k >= q + 1
    <3>1. d * (q + 1) <= d * k
      BY <1>1, <2>1, Monotone
    <3>2. d * (q + 1) = d * q + d
      BY <1>1
    <3>3. QED  BY <1>1, <3>1, <3>2
  <2>2. CASE q >= k + 1
    <3>1. d * (k + 1) <= d * q
      BY <1>1, <2>2, Monotone
    <3>2. d * (k + 1) = d * k + d
      OBVIOUS
    <3>3. QED  BY <1>1, <3>1, <3>2
  <2>3. QED  BY <1>1, <2>1, <2>2
<1>3. r = 0
  BY <1>1, <1>2
<1>4. QED  BY <1>2, <1>3 DEF q, r

LEMMA Units ==
    ASSUME AmountsAssumption
    PROVE  /\ Sat \in Nat \ {0} /\ MAX \in Nat /\ Sub \in Nat \ {0} /\ MsatPerSat \in Nat \ {0}
           /\ MaxMsat \in Nat
<1>1. \A a, b \in Nat \ {0} : a * b \in Nat \ {0}
  OBVIOUS
<1>2. \A a, b \in Nat : a * b \in Nat
  OBVIOUS
<1>3. QED  BY Zenon, <1>1, <1>2 DEF AmountsAssumption, Sat, MAX

-----------------------------------------------------------------------------
(* Rounding. *)

(* What round_sat gives is a multiple of a satoshi, at most half a satoshi *)
(* away.                                                                   *)
LEMMA Rounded ==
    ASSUME AmountsAssumption, NEW a \in Nat
    PROVE  \E k \in Nat :
              /\ round_sat(a) = Sat * k
              /\ 2 * (a - Sat * k) <= Sat /\ 2 * (Sat * k - a) <= Sat
<1> DEFINE q == a \div Sat
<1> DEFINE m == a % Sat
<1>1. Sat \in Nat \ {0}
  BY Units
<1>2. q \in Nat /\ m \in Nat /\ a = Sat * q + m /\ m < Sat
  BY <1>1, DivMod
<1>3. round_sat(a) = Sat * (IF 2 * m < Sat THEN q ELSE IF 2 * m > Sat THEN q + 1 ELSE q + (q % 2))
  BY Zenon DEF round_sat
<1>4. q % 2 \in {0, 1}
  BY <1>2
<1> HIDE DEF q, m
<1> DEFINE p == Sat * q
<1>5. p \in Nat /\ Sat * (q + 1) = p + Sat
  BY <1>1, <1>2
<1>6. CASE 2 * m <= Sat /\ round_sat(a) = Sat * q
  <2>1. 2 * (a - p) <= Sat /\ 2 * (p - a) <= Sat
    <3> HIDE DEF p
    <3>1. a = p + m
      BY <1>2 DEF p
    <3>2. QED  BY <1>1, <1>2, <1>5, <1>6, <3>1
  <2>2. QED  BY <1>2, <1>6, <2>1
<1>7. CASE 2 * m >= Sat /\ round_sat(a) = Sat * (q + 1)
  <2>1. 2 * (a - (p + Sat)) <= Sat /\ 2 * ((p + Sat) - a) <= Sat
    <3> HIDE DEF p
    <3>1. a = p + m
      BY <1>2 DEF p
    <3>2. QED  BY <1>1, <1>2, <1>5, <1>7, <3>1
  <2>2. QED  BY <1>2, <1>5, <1>7, <2>1
<1>8. QED
  <2>1. \/ 2 * m <= Sat /\ round_sat(a) = Sat * q
        \/ 2 * m >= Sat /\ round_sat(a) = Sat * (q + 1)
    <3>1. CASE 2 * m < Sat
      BY <1>1, <1>2, <1>3, <3>1
    <3>2. CASE 2 * m > Sat
      BY <1>1, <1>2, <1>3, <3>2
    <3>3. CASE 2 * m = Sat
      <4>1. round_sat(a) = Sat * (q + (q % 2))
        BY <1>1, <1>2, <1>3, <3>3
      <4>2. q + (q % 2) = q \/ q + (q % 2) = q + 1
        BY <1>2, <1>4
      <4>3. 2 * m <= Sat /\ 2 * m >= Sat
        BY <1>1, <1>2, <3>3
      <4>4. QED  BY Zenon, <4>1, <4>2, <4>3
    <3>4. QED  BY <1>1, <1>2, <3>1, <3>2, <3>3
  <2>2. QED  BY <1>6, <1>7, <2>1

LEMMA MultipleIsKept ==
    ASSUME AmountsAssumption, NEW k \in Nat
    PROVE  sats_u64(Sat * k) = k /\ round_sat(Sat * k) = Sat * k
<1>1. Sat \in Nat \ {0}
  BY Units
<1>2. (Sat * k) \div Sat = k /\ (Sat * k) % Sat = 0
  BY <1>1, MultipleDiv
<1>3. 2 * 0 < Sat
  BY <1>1
<1>4. QED  BY Zenon, <1>2, <1>3 DEF sats_u64, round_sat

LEMMA RoundsToNearest ==
    ASSUME AmountsAssumption, amount \in Nat
    PROVE  RoundIsNearest
<1> DEFINE r == round_sat(amount)
<1>1. PICK k \in Nat :
         /\ r = Sat * k
         /\ 2 * (amount - Sat * k) <= Sat /\ 2 * (Sat * k - amount) <= Sat
  BY Rounded
<1>2. sats_u64(r) = k /\ round_sat(r) = r
  BY <1>1, MultipleIsKept
<1>3. sats_u64(r) * Sat = r
  BY <1>1, <1>2, Units
<1>4. 2 * (IF r > amount THEN r - amount ELSE amount - r) <= Sat
  BY <1>1
<1> HIDE DEF r
<1>5. QED  BY Zenon, <1>2, <1>3, <1>4 DEF RoundIsNearest, r

-----------------------------------------------------------------------------
(* The other operations. *)

LEMMA Inverts ==
    ASSUME AmountHypotheses, amount \in Nat
    PROVE  OpsInvert
<1>1. SUFFICES ASSUME NEW b \in Operands, amount <= MAX
               PROVE  /\ checked_sub(amount, b) # None =>
                            checked_add(checked_sub(amount, b), b) = amount
                      /\ checked_add(amount, b) # None =>
                            checked_sub(checked_add(amount, b), b) = amount
                      /\ checked_sub(amount, b) = None <=> b > amount
  BY Zenon DEF OpsInvert
<1>2. b \in Nat /\ MAX \in Nat /\ None \notin Int /\ amount \in 0..MAX
  BY <1>1, Units DEF AmountHypotheses
<1>3. checked_sub(amount, b) = IF amount - b < 0 \/ amount - b > MAX THEN None ELSE amount - b
  BY Zenon DEF checked_sub, try_from_inner
<1>4. checked_add(amount, b) = IF amount + b < 0 \/ amount + b > MAX THEN None ELSE amount + b
  BY Zenon DEF checked_add, try_from_inner
<1>5. checked_sub(amount, b) = None <=> b > amount
  BY <1>2, <1>3
<1>6. ASSUME checked_sub(amount, b) # None
      PROVE  checked_add(checked_sub(amount, b), b) = amount
  <2>1. checked_sub(amount, b) = amount - b
    BY <1>3, <1>6
  <2>2. (amount - b) + b = amount /\ ~(amount < 0 \/ amount > MAX)
    BY <1>2
  <2>3. QED  BY <2>1, <2>2 DEF checked_add, try_from_inner
<1>7. ASSUME checked_add(amount, b) # None
      PROVE  checked_sub(checked_add(amount, b), b) = amount
  <2>1. checked_add(amount, b) = amount + b
    BY <1>4, <1>7
  <2>2. (amount + b) - b = amount /\ ~(amount < 0 \/ amount > MAX)
    BY <1>2
  <2>3. QED  BY <2>1, <2>2 DEF checked_sub, try_from_inner
<1>8. QED  BY Zenon, <1>5, <1>6, <1>7

(* An amount in range has as many millisatoshis as a u64 holds. *)
LEMMA MsatIsTotal ==
    ASSUME AmountsAssumption, NEW a \in 0..MAX
    PROVE  /\ msat(a) = a \div Sub /\ a \div Sub \in 0..MaxMsat
           /\ Sub * (a \div Sub) <= a /\ a < Sub * (a \div Sub + 1)
<1> DEFINE q == a \div Sub
<1> DEFINE r == a % Sub
<1>1. Sub \in Nat \ {0} /\ MaxMsat \in Nat /\ MAX \in Nat /\ a \in Nat /\ a <= MAX
  BY Units
<1>2. q \in Nat /\ r \in Nat /\ a = Sub * q + r /\ r < Sub
  BY <1>1, DivMod
<1> HIDE DEF q, r
<1>3. Sub * (q + 1) = Sub * q + Sub
  BY <1>1, <1>2
<1>4. q <= MaxMsat
  <2>1. SUFFICES ASSUME MaxMsat + 1 <= q PROVE FALSE
    BY <1>1, <1>2
  <2>2. Sub * (MaxMsat + 1) <= Sub * q
    BY <1>1, <1>2, <2>1, Monotone
  <2>3. Sub * (MaxMsat + 1) = MAX + Sub
    BY <1>1 DEF MAX
  <2>4. Sub * q \in Nat
    BY <1>1, <1>2
  <2>5. QED  BY <1>1, <1>2, <2>2, <2>3, <2>4
<1>5. Sub * q <= a /\ a < Sub * (q + 1)
  <2>1. Sub * q \in Nat
    BY <1>1, <1>2
  <2>2. QED  BY <1>1, <1>2, <1>3, <2>1
<1>6. msat(a) = q
  <2>1. ~(q > MaxMsat)
    BY <1>1, <1>2, <1>4
  <2>2. QED  BY Zenon, <2>1 DEF msat, q
<1>7. QED  BY <1>1, <1>2, <1>4, <1>5, <1>6 DEF q

LEMMA SafeForInvoices ==
    ASSUME AmountHypotheses, amount \in 0..MAX
    PROVE  InvoiceSafe
<1> DEFINE m == amount \div Sub
<1>1. AmountsAssumption /\ MaxMsat \in Nat /\ Sub \in Nat \ {0}
  BY Units DEF AmountHypotheses
<1>2. msat(amount) = m /\ m \in Nat /\ Sub * m <= amount /\ amount < Sub * (m + 1)
  BY <1>1, MsatIsTotal
<1> HIDE DEF m
<1>3. m <= MaxMsat \div 10 => 10 * m <= MaxMsat
  BY <1>1, <1>2
<1>4. from_msat(m) <= amount /\ amount < from_msat(m + 1)
  BY <1>1, <1>2 DEF from_msat
<1>5. m # Panic
  BY <1>2 DEF AmountHypotheses
<1>6. invoice_safe_msat(amount) = IF m <= MaxMsat \div 10 THEN m ELSE None
  BY Zenon, <1>2, <1>5 DEF invoice_safe_msat, INVOICE_MAX_AMOUNT_MSATS_U64
<1>7. QED  BY <1>3, <1>4, <1>6 DEF InvoiceSafe

-----------------------------------------------------------------------------
(* The range. *)

(* What try_from_inner lets through is in range, so an operation with      *)
(* expect gives an amount in range or panics.                              *)
LEMMA CheckedIsInRange ==
    ASSUME AmountHypotheses, NEW x \in Int
    PROVE  /\ try_from_inner(x) \in (0..MAX) \cup {None}
           /\ Expect(try_from_inner(x)) \in (0..MAX) \cup {Panic}
<1>1. MAX \in Nat /\ None \notin Int
  BY Units DEF AmountHypotheses
<1>2. QED  BY <1>1 DEF try_from_inner, Expect

(* Rounding leads out of the range to one value only: a multiple of a      *)
(* satoshi above MAX, to which an amount up to MAX is rounded, is less than*)
(* a satoshi away from what MAX is rounded to.                             *)
LEMMA RoundedIsInRange ==
    ASSUME AmountsAssumption, NEW a \in 0..MAX
    PROVE  round_sat(a) \in (0..MAX) \cup {round_sat(MAX)}
<1>1. Sat \in Nat \ {0} /\ MAX \in Nat /\ a \in Nat /\ a <= MAX
  BY Units
<1>2. PICK k \in Nat : round_sat(a) = Sat * k /\ 2 * (Sat * k - a) <= Sat
  BY <1>1, Rounded
<1>3. PICK j \in Nat :
         /\ round_sat(MAX) = Sat * j
         /\ 2 * (MAX - Sat * j) <= Sat /\ 2 * (Sat * j - MAX) <= Sat
  BY <1>1, Rounded
<1>4. Sat * k \in Nat /\ Sat * j \in Nat
  BY <1>1
<1>5. SUFFICES ASSUME Sat * k > MAX, a < MAX
               PROVE  k = j
  BY <1>1, <1>2, <1>3, <1>4
<1>6. Sat * k - Sat * j < Sat /\ Sat * j - Sat * k < Sat
  <2> DEFINE x == Sat * k
  <2> DEFINE y == Sat * j
  <2>1. /\ x \in Nat /\ y \in Nat /\ x > MAX
        /\ 2 * (x - a) <= Sat /\ 2 * (MAX - y) <= Sat /\ 2 * (y - MAX) <= Sat
    BY <1>2, <1>3, <1>4, <1>5
  <2> HIDE DEF x, y
  <2>2. x - y < Sat /\ y - x < Sat
    BY <1>1, <1>5, <2>1
  <2>3. QED  BY <2>2 DEF x, y
<1>7. CASE k >= j + 1
  <2>1. Sat * (j + 1) <= Sat * k
    BY <1>1, <1>7, Monotone
  <2>2. Sat * (j + 1) = Sat * j + Sat
    BY <1>1
  <2>3. QED  BY <1>1, <1>4, <1>6, <2>1, <2>2
<1>8. CASE j >= k + 1
  <2>1. Sat * (k + 1) <= Sat * j
    BY <1>1, <1>8, Monotone
  <2>2. Sat * (k + 1) = Sat * k + Sat
    BY <1>1
  <2>3. QED  BY <1>1, <1>4, <1>6, <2>1, <2>2
<1>9. QED  BY <1>7, <1>8

(* What MAX is rounded to is a multiple of a satoshi, so that more than    *)
(* MAX is more millisatoshis than a u64 holds.                             *)
LEMMA RoundedMax ==
    ASSUME AmountHypotheses
    PROVE  /\ round_sat(MAX) \in Nat /\ round_sat(round_sat(MAX)) = round_sat(MAX)
           /\ round_sat(MAX) > MAX => msat(round_sat(MAX)) = Panic
<1>1. /\ AmountsAssumption /\ Sat \in Nat \ {0} /\ MAX \in Nat
      /\ Sub \in Nat \ {0} /\ MsatPerSat \in Nat \ {0} /\ MaxMsat \in Nat
  BY Units DEF AmountHypotheses
<1>2. PICK j \in Nat : round_sat(MAX) = Sat * j
  BY <1>1, Rounded
<1>3. Sat * j \in Nat /\ round_sat(Sat * j) = Sat * j
  <2>1. Sat * j \in Nat
    BY <1>1
  <2>2. round_sat(Sat * j) = Sat * j
    BY Zenon, <1>1, MultipleIsKept
  <2>3. QED  BY Zenon, <2>1, <2>2
<1>4. ASSUME Sat * j > MAX
      PROVE  msat(Sat * j) = Panic
  <2> DEFINE n == MsatPerSat * j
  <2>1. n \in Nat /\ Sat * j = Sub * n
    BY <1>1 DEF Sat
  <2> HIDE DEF n
  <2>2. (Sub * n) \div Sub = n
    BY <1>1, <2>1, MultipleDiv
  <2>3. n > MaxMsat
    <3>1. SUFFICES ASSUME n <= MaxMsat PROVE FALSE
      BY <1>1, <2>1
    <3>2. Sub * n <= Sub * MaxMsat
      BY <1>1, <2>1, <3>1, Monotone
    <3>3. MAX = Sub * MaxMsat
      BY <1>1 DEF MAX
    <3>4. QED  BY <1>1, <1>3, <1>4, <2>1, <3>2, <3>3
  <2>4. QED  BY Zenon, <2>1, <2>2, <2>3 DEF msat
<1>5. QED  BY <1>2, <1>3, <1>4

LEMMA InitInRange ==
    ASSUME AmountHypotheses, Init
    PROVE  amount \in 0..MAX
<1>1. AmountsAssumption /\ MAX \in Nat /\ Sub \in Nat \ {0} /\ MaxMsat \in Nat
      /\ Sat \in Nat \ {0} /\ MsatPerSat \in Nat \ {0}
  BY Units DEF AmountHypotheses
<1>2. CASE \E n \in 0..MaxMsat : amount = from_msat(n)
  <2>1. PICK n \in 0..MaxMsat : amount = from_msat(n)
    BY <1>2
  <2>2. Sub * n <= Sub * MaxMsat
    BY <1>1, Monotone
  <2>3. amount = Sub * n /\ MAX = Sub * MaxMsat /\ Sub * n \in Nat
    BY <1>1, <2>1 DEF from_msat, MAX
  <2>4. QED  BY <1>1, <2>2, <2>3
<1>3. CASE \E n \in 0..sats_u64(MAX) : amount = from_sats_u32(n)
  <2>1. PICK n \in 0..sats_u64(MAX) : amount = from_sats_u32(n)
    BY <1>3
  <2> DEFINE q == MAX \div Sat
  <2> DEFINE r == MAX % Sat
  <2>2. q \in Nat /\ r \in Nat /\ MAX = Sat * q + r /\ n \in 0..q
    BY <1>1, <2>1, DivMod DEF sats_u64
  <2> HIDE DEF q, r
  <2>3. Sat * n <= Sat * q
    BY <1>1, <2>2, Monotone
  <2>4. amount = Sat * n /\ Sat * n \in Nat /\ Sat * q \in Nat
    BY <1>1, <2>1, <2>2 DEF from_sats_u32, from_msat, Sat
  <2>5. QED  BY <1>1, <2>2, <2>3, <2>4
<1>4. CASE \E x \in 0..MAX : amount \in {try_from_satoshis(x), try_from_btc(x)}
  BY <1>1, <1>4 DEF try_from_satoshis, try_from_btc, try_from_inner
<1>5. QED  BY Zenon, <1>2, <1>3, <1>4 DEF Init

LEMMA OperationsStayInRange ==
    ASSUME AmountHypotheses, InRangeOrRounded, [Next]_vars
    PROVE  InRangeOrRounded'
<1> DEFINE Range == (0..MAX) \cup {round_sat(MAX)}
<1>1. /\ amount \in Nat /\ AmountsAssumption
      /\ Operands \subseteq Nat /\ Scalars \subseteq Nat
  BY Units, RoundedMax DEF AmountHypotheses, InRangeOrRounded
<1>2. amount \in Range /\ Range' = Range
  BY DEF InRangeOrRounded, MAX, round_sat, Sat
<1>3. SUFFICES amount' \in Range
  BY Zenon, <1>2 DEF InRangeOrRounded
<1>4. ASSUME NEW x \in Range \cup {Panic}, Becomes(x)
      PROVE  amount' \in Range
  BY Zenon, <1>2, <1>4 DEF Becomes
<1>5. ASSUME NEW x \in Int
      PROVE  Expect(try_from_inner(x)) \in Range \cup {Panic}
  BY Zenon, <1>5, CheckedIsInRange
<1> HIDE DEF Range
<1>6. ASSUME NEW b \in Operands, Add(b) \/ Subtract(b)
      PROVE  amount' \in Range
  <2>1. amount + b \in Int /\ amount - b \in Int
    BY <1>1
  <2>2. QED  BY Zenon, <1>4, <1>5, <1>6, <2>1 DEF Add, Subtract, checked_add, checked_sub
<1>7. ASSUME NEW k \in Scalars, Scale(k)
      PROVE  amount' \in Range
  <2>1. amount * k \in Int
    BY <1>1
  <2>2. QED  BY Zenon, <1>4, <1>5, <1>7, <2>1 DEF Scale, checked_mul
<1>8. ASSUME NEW k \in Scalars, Divide(k)
      PROVE  amount' \in Range
  <2>1. CASE k = 0
    BY Zenon, <1>4, <1>8, <2>1 DEF Divide, checked_div, Expect
  <2>2. CASE k # 0
    <3>1. amount \div k \in Int
      BY <1>1, <2>2
    <3>2. QED  BY Zenon, <1>4, <1>5, <1>8, <2>2, <3>1 DEF Divide, checked_div
  <2>3. QED  BY Zenon, <2>1, <2>2
<1>9. ASSUME Round
      PROVE  amount' \in Range
  <2>1. round_sat(amount) \in Range
    <3>1. CASE amount \in 0..MAX
      BY Zenon, <1>1, <3>1, RoundedIsInRange DEF Range
    <3>2. CASE amount = round_sat(MAX)
      BY Zenon, <3>2, RoundedMax DEF Range
    <3>3. QED  BY Zenon, <1>2, <3>1, <3>2 DEF Range
  <2>2. QED  BY Zenon, <1>4, <1>9, <2>1 DEF Round
<1>10. CASE UNCHANGED vars
  BY Zenon, <1>2, <1>10 DEF vars
<1>11. QED  BY Zenon, <1>6, <1>7, <1>8, <1>9, <1>10 DEF Next

(* Whatever sequence of additions, subtractions, scalings, divisions and   *)
(* roundings an amount goes through, it stays between zero and             *)
(* Amount::MAX, or is what round_sat makes of Amount::MAX, and msat()      *)
(* panics exactly when that is more; checked_add and checked_sub undo each *)
(* other, round_sat gives the nearest whole satoshi, and what              *)
(* invoice_safe_msat lets through is the amount and can be multiplied by   *)
(* ten in a u64.                                                           *)
THEOREM AmountsAreAlwaysExact ==
    ASSUME AmountHypotheses
    PROVE  Spec => []AmountsAreExact
<1>1. Init => InRangeOrRounded
  BY Zenon, InitInRange DEF InRangeOrRounded
<1>2. InRangeOrRounded /\ [Next]_vars => InRangeOrRounded'
  BY Zenon, OperationsStayInRange
<1>3. InRangeOrRounded => AmountsAreExact
  <2>1. SUFFICES ASSUME InRangeOrRounded
                 PROVE  AmountsAreExact
    BY Zenon
  <2>2. AmountsAssumption /\ MAX \in Nat /\ amount \in Nat /\ Panic \notin Int
    BY <2>1, Units, RoundedMax DEF AmountHypotheses, InRangeOrRounded
  <2>3. CASE amount \in 0..MAX
    <3>1. msat(amount) \in Int /\ ~(amount > MAX)
      BY <2>2, <2>3, MsatIsTotal
    <3>2. InRange
      BY Zenon, <2>2, <2>3, <3>1 DEF InRange
    <3>3. QED  BY Zenon, <2>2, <2>3, <3>2, Inverts, RoundsToNearest, SafeForInvoices
               DEF AmountsAreExact
  <2>4. CASE amount \notin 0..MAX
    <3>1. amount = round_sat(MAX) /\ amount > MAX
      BY <2>1, <2>2, <2>4 DEF InRangeOrRounded
    <3>2. msat(amount) = Panic
      BY <3>1, RoundedMax
    <3>3. InRange
      BY Zenon, <3>1, <3>2 DEF InRange
    <3>4. InvoiceSafe
      BY Zenon, <3>2 DEF InvoiceSafe, invoice_safe_msat
    <3>5. QED  BY Zenon, <2>2, <3>3, <3>4, Inverts, RoundsToNearest DEF AmountsAreExact
  <2>5. QED  BY Zenon, <2>3, <2>4
<1>4. QED  BY <1>1, <1>2, <1>3, PTL DEF Spec

-----------------------------------------------------------------------------
(* TlsTrust.                                                               *)

CONSTANTS
    Users, Nodes, Builds, Short, DeployEnv, UseSgx, OtherGateways, AesmMixesUp,
    RunLifetime, ProvisionLifetime, SharedSeedLifetime, GatewayLifetime,
    PckLifetime, RunUptime, ProvisionUptime, AppUptime, RenewBuffer, MaxTime

VARIABLES now, nodes, apps, gateway, conns

Tls == INSTANCE TlsTrust

(* A set of measurements is told from none, and whether a build, and the   *)
(* app, are in SGX is known.  The environments whose gateways may be       *)
(* reached by mistake have another CA than the app's: dev and prod still   *)
(* share a dummy one.                                                      *)
TrustHypotheses ==
    /\ \A m \in Tls!Measurements : {m} # None
    /\ UseSgx \in BOOLEAN /\ \A b \in Builds : b.sgx \in BOOLEAN
    /\ \A env \in OtherGateways \ {DeployEnv} : (env = "staging") # (DeployEnv = "staging")

-----------------------------------------------------------------------------
(* The invariant. *)

(* The attestation certificate of a node is by its own key, and evidence   *)
(* that speaks of that key is of the node's own build.                     *)
AttestAt(n, x) ==
    LET cert == x.attest.cert IN
    /\ cert.pk = <<"attest", n>> /\ cert.issuer = <<"attest", n>>
    /\ cert.quote.kind = IF x.build.sgx THEN "quote" ELSE "report"
    /\ cert.quote.report.reportdata = <<"attest", n>> =>
         cert.quote.report = Tls!Report(x.build, <<"attest", n>>)

(* A running node shows a certificate of its user's seed and no evidence,  *)
(* a provisioning node its attestation certificate.                        *)
ServedAt(x) ==
    /\ Len(x.served.chain) = 1
    /\ x.mode = "run" =>
         /\ x.served.chain[1].issuer = <<"seed", x.user>>
         /\ x.served.chain[1].quote = None
    /\ x.mode = "provision" => x.served.chain[1] = x.attest.cert

NodeAt(n) ==
    /\ nodes[n].mode \in {"run", "provision"} /\ nodes[n].build \in Builds
    /\ AttestAt(n, nodes[n]) /\ ServedAt(nodes[n])

(* The gateway's certificates are of the CA of its environment. *)
GatewayAt(g) ==
    /\ g.env \in OtherGateways \cup {DeployEnv}
    /\ g.cert.issuer = Tls!lexe_ca_cert(g.env, g.gen)
    /\ g.ca # None => g.ca.issuer = Tls!lexe_ca_cert(g.env, "old")

ConnAt(c) ==
    /\ c.node \in Nodes /\ nodes[c.node] # None /\ c.via = DeployEnv
    /\ c.mode = "run" => nodes[c.node].mode = "run" /\ nodes[c.node].user = c.user
    /\ c.mode = "provision" =>
         /\ nodes[c.node].mode = "provision"
         /\ nodes[c.node].build.mrenclave = c.asked
         /\ Tls!Genuine(nodes[c.node].build)

TrustInv ==
    /\ DOMAIN nodes = Nodes
    /\ \A n \in Nodes : nodes[n] # None => NodeAt(n)
    /\ GatewayAt(gateway)
    /\ \A c \in conns : ConnAt(c)

-----------------------------------------------------------------------------
(* Keys. *)

LEMMA KeysDiffer ==
    /\ \A m, n : <<"attest", m>> = <<"attest", n>> => m = n
    /\ \A m, n : <<"seed", m>> = <<"seed", n>> => m = n
    /\ \A m, n : <<"attest", m>> # <<"seed", n>>
OBVIOUS

(* The environments that a gateway may be of have CAs of their own. *)
LEMMA CasDiffer ==
    ASSUME TrustHypotheses, NEW env \in OtherGateways \cup {DeployEnv}, NEW g, NEW h,
           Tls!lexe_ca_cert(env, g) = Tls!lexe_ca_cert(DeployEnv, h)
    PROVE  env = DeployEnv
<1>1. SUFFICES ASSUME env # DeployEnv
               PROVE  FALSE
  OBVIOUS
<1>2. (env = "staging") # (DeployEnv = "staging")
  BY <1>1 DEF TrustHypotheses
<1>3. \A i : <<"lexe", "staging", i>> # <<"lexe", "dummy", "old">>
  OBVIOUS
<1>4. QED  BY Zenon, <1>2, <1>3 DEF Tls!lexe_ca_cert

-----------------------------------------------------------------------------
(* The steps. *)

(* Evidence for a new node, whether or not it is that of another one. *)
LEMMA EvidenceIsOwn ==
    ASSUME TrustInv, NEW node \in Nodes, nodes[node] = None, NEW build, build.sgx \in BOOLEAN,
           NEW quote \in Tls!quote_enclave(build, <<"attest", node>>)
    PROVE  /\ quote.kind = IF build.sgx THEN "quote" ELSE "report"
           /\ quote.report.reportdata = <<"attest", node>> =>
                quote.report = Tls!Report(build, <<"attest", node>>)
<1> DEFINE pk == <<"attest", node>>
<1>1. CASE ~build.sgx
  <2>1. quote \in {Tls!dummy(Tls!Report(build, pk))}
    BY <1>1 DEF Tls!quote_enclave
  <2>2. Tls!dummy(Tls!Report(build, pk)).kind = "report" /\ Tls!dummy(Tls!Report(build, pk)).report = Tls!Report(build, pk)
    BY DEF Tls!dummy
  <2>3. QED  BY Zenon, <1>1, <2>1, <2>2
<1>2. CASE build.sgx
  <2> DEFINE others == {Tls!Report(nodes[n].build, nodes[n].attest.cert.pk) :
                               n \in {k \in Nodes : /\ AesmMixesUp /\ nodes[k] # None
                                                    /\ nodes[k].build.sgx}}
             qes == {q \in Tls!QuotingEnclaves : Tls!PolicyAccepts(Tls!trust_intel_qe, q)}
  <2>0. quote \in {Tls!Quote(qe, report) : qe \in qes, report \in {Tls!Report(build, pk)} \cup others}
    BY <1>2 DEF Tls!quote_enclave
  <2> HIDE DEF others, qes
  <2>1. PICK qe \in qes, report \in {Tls!Report(build, pk)} \cup others : quote = Tls!Quote(qe, report)
    BY <2>0
  <2>2. quote.kind = "quote" /\ quote.report = report
    BY <2>1 DEF Tls!Quote
  <2>3. ASSUME NEW n \in Nodes, nodes[n] # None,
               report = Tls!Report(nodes[n].build, nodes[n].attest.cert.pk)
        PROVE  report.reportdata # pk
    <3>1. nodes[n].attest.cert.pk = <<"attest", n>> /\ n # node
      BY Zenon, <2>3 DEF TrustInv, NodeAt, AttestAt
    <3>2. report.reportdata = nodes[n].attest.cert.pk
      BY <2>3 DEF Tls!Report
    <3>3. QED  BY Zenon, <3>1, <3>2, KeysDiffer
  <2>4. report = Tls!Report(build, pk) \/ report.reportdata # pk
    BY Zenon, <2>1, <2>3 DEF others
  <2>5. QED  BY Zenon, <1>2, <2>2, <2>4
<1>3. QED  BY Zenon, <1>1, <1>2

(* What a new node shows. *)
LEMMA NewNode ==
    ASSUME TrustInv, NEW node \in Nodes, nodes[node] = None, NEW mode \in {"run", "provision"},
           NEW user, NEW build \in Builds, build.sgx \in BOOLEAN, NEW gen,
           NEW quote \in Tls!quote_enclave(build, <<"attest", node>>), NEW attest,
           attest = Tls!get_or_generate_node_attestation_cert(node, mode, build, quote), NEW x,
           x = [mode |-> mode, user |-> user, build |-> build, gen |-> gen,
                born |-> now, attest |-> attest,
                served |-> IF mode = "run"
                           THEN Tls!app_node_run_server_config(node, user)
                           ELSE Tls!app_node_provision_server_config(attest)]
    PROVE  /\ x.mode \in {"run", "provision"} /\ x.build \in Builds
           /\ AttestAt(node, x) /\ ServedAt(x)
<1>1. /\ x.mode = mode /\ x.user = user /\ x.build = build /\ x.attest = attest
      /\ x.served = IF mode = "run"
                    THEN Tls!app_node_run_server_config(node, user)
                    ELSE Tls!app_node_provision_server_config(attest)
  OBVIOUS
<1>2. PICK dns, lifetime :
        attest.cert = Tls!AttestationCert(node, dns, lifetime, quote) /\ attest.ca = None
  <2>1. CASE mode = "provision"
    BY <2>1 DEF Tls!get_or_generate_node_attestation_cert
  <2>2. CASE mode # "provision"
    BY <2>2 DEF Tls!get_or_generate_node_attestation_cert
  <2>3. QED  BY Zenon, <2>1, <2>2
<1>3. /\ attest.cert.pk = <<"attest", node>> /\ attest.cert.issuer = <<"attest", node>>
      /\ attest.cert.quote = quote
  BY <1>2 DEF Tls!AttestationCert, Tls!build_rcgen_cert
<1>4. AttestAt(node, x)
  <2>1. /\ quote.kind = IF build.sgx THEN "quote" ELSE "report"
        /\ quote.report.reportdata = <<"attest", node>> =>
             quote.report = Tls!Report(build, <<"attest", node>>)
    BY EvidenceIsOwn
  <2>2. QED  BY Zenon, <1>1, <1>3, <2>1 DEF AttestAt
<1>5. ServedAt(x)
  <2>1. CASE mode = "run"
    <3>1. x.served.chain = <<Tls!SharedSeedServerCert(node, user)>>
      BY <1>1, <2>1 DEF Tls!app_node_run_server_config
    <3>2. /\ Tls!SharedSeedServerCert(node, user).issuer = <<"seed", user>>
          /\ Tls!SharedSeedServerCert(node, user).quote = None
      BY DEF Tls!SharedSeedServerCert, Tls!build_rcgen_cert, Tls!SharedSeedCaCert,
             Tls!derive_shared_seed_tls_ca_key_pair
    <3>3. Len(x.served.chain) = 1 /\ x.served.chain[1] = Tls!SharedSeedServerCert(node, user)
      BY <3>1
    <3>4. x.mode # "provision"
      BY <1>1, <2>1
    <3>5. QED  BY Zenon, <1>1, <3>2, <3>3, <3>4 DEF ServedAt
  <2>2. CASE mode = "provision"
    <3>1. x.served.chain = Tls!into_chain_and_key(attest)
      BY <1>1, <2>2 DEF Tls!app_node_provision_server_config
    <3>2. Tls!into_chain_and_key(attest) = <<attest.cert>> \o <<>>
      BY Zenon, <1>2 DEF Tls!into_chain_and_key
    <3>3. <<attest.cert>> \o <<>> = <<attest.cert>>
      OBVIOUS
    <3>4. Len(x.served.chain) = 1 /\ x.served.chain[1] = attest.cert
      BY <3>1, <3>2, <3>3
    <3>5. x.mode # "run"
      BY <1>1, <2>2
    <3>6. QED  BY Zenon, <1>1, <3>4, <3>5 DEF ServedAt
  <2>3. QED  BY Zenon, <2>1, <2>2
<1>6. QED  BY Zenon, <1>1, <1>4, <1>5

(* A node starts: nobody is connected to it. *)
LEMMA TrustStartNode ==
    ASSUME TrustHypotheses, TrustInv, NEW node \in Nodes, NEW mode \in {"run", "provision"},
           NEW user, NEW build \in Builds, NEW gen, Tls!StartNode(node, mode, user, build, gen)
    PROVE  TrustInv'
<1>1. /\ nodes[node] = None /\ gateway' = gateway /\ conns' = conns
      /\ build.sgx \in BOOLEAN
  BY Zenon DEF Tls!StartNode, TrustHypotheses
<1>2. PICK quote, attest, x :
        /\ quote \in Tls!quote_enclave(build, <<"attest", node>>)
        /\ attest = Tls!get_or_generate_node_attestation_cert(node, mode, build, quote)
        /\ x = [mode |-> mode, user |-> user, build |-> build, gen |-> gen,
                born |-> now, attest |-> attest,
                served |-> IF mode = "run"
                           THEN Tls!app_node_run_server_config(node, user)
                           ELSE Tls!app_node_provision_server_config(attest)]
        /\ nodes' = [nodes EXCEPT ![node] = x]
  BY Zenon DEF Tls!StartNode
<1>3. /\ x.mode \in {"run", "provision"} /\ x.build \in Builds
      /\ AttestAt(node, x) /\ ServedAt(x)
  BY Zenon, <1>1, <1>2, NewNode
<1>4. /\ DOMAIN nodes' = Nodes /\ nodes'[node] = x
      /\ \A n \in Nodes : n # node => nodes'[n] = nodes[n]
  BY Zenon, <1>2 DEF TrustInv
<1>5. NodeAt(node)'
  BY Zenon, <1>3, <1>4 DEF NodeAt, AttestAt, ServedAt
<1>6. ASSUME NEW n \in Nodes, n # node, nodes'[n] # None
      PROVE  NodeAt(n)'
  <2>1. nodes'[n] = nodes[n] /\ NodeAt(n)
    BY Zenon, <1>4, <1>6 DEF TrustInv
  <2>2. QED  BY Zenon, <2>1 DEF NodeAt, AttestAt, ServedAt
<1>7. ASSUME NEW c \in conns
      PROVE  ConnAt(c)'
  <2>1. ConnAt(c) /\ c.node # node
    BY Zenon, <1>1 DEF TrustInv, ConnAt
  <2>2. nodes'[c.node] = nodes[c.node]
    BY Zenon, <1>4, <2>1 DEF ConnAt
  <2>3. QED  BY Zenon, <2>1, <2>2 DEF ConnAt, Tls!Genuine
<1>8. GatewayAt(gateway)'
  BY Zenon, <1>1 DEF TrustInv, GatewayAt
<1>9. QED  BY Zenon, <1>1, <1>4, <1>5, <1>6, <1>7, <1>8 DEF TrustInv

(* A node stops, and its connections with it. *)
LEMMA TrustStopNode ==
    ASSUME TrustInv, NEW node \in Nodes, Tls!StopNode(node)
    PROVE  TrustInv'
<1>1. /\ nodes' = [nodes EXCEPT ![node] = None] /\ gateway' = gateway
      /\ conns' = {c \in conns : c.node # node}
  BY Zenon DEF Tls!StopNode
<1>2. /\ DOMAIN nodes' = Nodes /\ nodes'[node] = None
      /\ \A n \in Nodes : n # node => nodes'[n] = nodes[n]
  BY Zenon, <1>1 DEF TrustInv
<1>3. ASSUME NEW n \in Nodes, nodes'[n] # None
      PROVE  NodeAt(n)'
  <2>1. nodes'[n] = nodes[n] /\ NodeAt(n)
    BY Zenon, <1>2, <1>3 DEF TrustInv
  <2>2. QED  BY Zenon, <2>1 DEF NodeAt, AttestAt, ServedAt
<1>4. ASSUME NEW c \in conns'
      PROVE  ConnAt(c)'
  <2>1. ConnAt(c) /\ c.node # node
    BY Zenon, <1>1, <1>4 DEF TrustInv
  <2>2. nodes'[c.node] = nodes[c.node]
    BY Zenon, <1>2, <2>1 DEF ConnAt
  <2>3. QED  BY Zenon, <2>1, <2>2 DEF ConnAt, Tls!Genuine
<1>5. GatewayAt(gateway)'
  BY Zenon, <1>1 DEF TrustInv, GatewayAt
<1>6. QED  BY Zenon, <1>2, <1>3, <1>4, <1>5 DEF TrustInv

(* Connections are added or dropped, while the nodes stay. *)
LEMMA TrustConns ==
    ASSUME TrustInv, nodes' = nodes, GatewayAt(gateway'),
           \A c \in conns' : c \in conns \/ ConnAt(c)
    PROVE  TrustInv'
<1>1. ASSUME NEW n \in Nodes, nodes'[n] # None
      PROVE  NodeAt(n)'
  BY Zenon, <1>1 DEF TrustInv, NodeAt, AttestAt, ServedAt
<1>2. ASSUME NEW c \in conns'
      PROVE  ConnAt(c)'
  <2>1. ConnAt(c)
    BY Zenon, <1>2 DEF TrustInv
  <2>2. QED  BY Zenon, <2>1 DEF ConnAt, Tls!Genuine
<1>3. GatewayAt(gateway)'
  BY Zenon DEF GatewayAt
<1>4. DOMAIN nodes' = Nodes
  BY Zenon DEF TrustInv
<1>5. QED  BY Zenon, <1>1, <1>2, <1>3, <1>4 DEF TrustInv

(* Only the gateway of the app's own environment passes. *)
LEMMA GatewayIsLexe ==
    ASSUME TrustHypotheses, TrustInv, NEW gen,
           Tls!lexe_server_verifier(gen, Tls!into_chain_and_key(gateway), Tls!GATEWAY_DNS)
    PROVE  gateway.env = DeployEnv
<1> DEFINE chain == Tls!into_chain_and_key(gateway)
           root == [pk |-> Tls!lexe_ca_cert(DeployEnv, gen), intermediates |-> TRUE]
<1>1. root.pk = Tls!lexe_ca_cert(DeployEnv, gen)
  OBVIOUS
<1>2. chain[1].issuer = root.pk \/ (Len(chain) = 2 /\ chain[2].issuer = root.pk)
  BY Zenon DEF Tls!lexe_server_verifier, Tls!WebPki
<1>3. /\ chain[1] = gateway.cert
      /\ Len(chain) = 2 => gateway.ca # None /\ chain[2] = gateway.ca
  <2>1. CASE gateway.ca = None
    <3>1. chain = <<gateway.cert>> \o <<>>
      BY Zenon, <2>1 DEF Tls!into_chain_and_key
    <3>2. (<<gateway.cert>> \o <<>>)[1] = gateway.cert /\ Len(<<gateway.cert>> \o <<>>) = 1
      OBVIOUS
    <3> HIDE DEF chain
    <3>3. QED  BY <3>1, <3>2
  <2>2. CASE gateway.ca # None
    <3>1. chain = <<gateway.cert>> \o <<gateway.ca>>
      BY Zenon, <2>2 DEF Tls!into_chain_and_key
    <3>2. /\ (<<gateway.cert>> \o <<gateway.ca>>)[1] = gateway.cert
          /\ (<<gateway.cert>> \o <<gateway.ca>>)[2] = gateway.ca
      OBVIOUS
    <3> HIDE DEF chain
    <3>3. QED  BY Zenon, <2>2, <3>1, <3>2
  <2>3. QED  BY Zenon, <2>1, <2>2
<1> HIDE DEF chain, root
<1>4. PICK g : Tls!lexe_ca_cert(gateway.env, g) = Tls!lexe_ca_cert(DeployEnv, gen)
  BY Zenon, <1>1, <1>2, <1>3 DEF TrustInv, GatewayAt
<1>5. gateway.env \in OtherGateways \cup {DeployEnv}
  BY Zenon DEF TrustInv, GatewayAt
<1>6. QED  BY Zenon, <1>4, <1>5, CasDiffer

LEMMA DnsDiffer ==
    Tls!GATEWAY_DNS # Tls!NODE_RUN_DNS /\ ~Tls!IsProvisionDns(Tls!GATEWAY_DNS)
    /\ \A m : Tls!IsProvisionDns(Tls!node_provision_dns(m))
BY DEF Tls!GATEWAY_DNS, Tls!NODE_RUN_DNS, Tls!IsProvisionDns, Tls!node_provision_dns

(* An app that accepts a running node has found its own. *)
LEMMA TrustConnectRun ==
    ASSUME TrustHypotheses, TrustInv, NEW user \in Users, NEW node \in Nodes,
           Tls!ConnectRun(user, node)
    PROVE  TrustInv'
<1> DEFINE chain == nodes[node].served.chain
           c == [mode |-> "run", user |-> user, node |-> node, asked |-> None,
                 via |-> gateway.env]
<1>1. /\ nodes[node] # None /\ nodes' = nodes /\ gateway' = gateway
      /\ conns' = conns \cup {c} /\ Tls!RunHandshake(user, node)
  BY Zenon DEF Tls!ConnectRun
<1>2. gateway.env = DeployEnv
  <2>1. Tls!lexe_server_verifier(apps[user].gen, Tls!into_chain_and_key(gateway), Tls!GATEWAY_DNS)
    BY Zenon, <1>1, DnsDiffer DEF Tls!RunHandshake, Tls!AppNodeRunVerifier
  <2>2. QED  BY Zenon, <2>1, GatewayIsLexe
<1>3. NodeAt(node)
  BY Zenon, <1>1 DEF TrustInv
<1>4. chain[1].issuer = <<"seed", user>>
  <2>1. Tls!WebPki(chain, Tls!SharedSeedCaCert(user), Tls!NODE_RUN_DNS)
    BY Zenon, <1>1 DEF Tls!RunHandshake, Tls!AppNodeRunVerifier
  <2>2. Tls!SharedSeedCaCert(user).pk = <<"seed", user>> /\ Tls!SharedSeedCaCert(user).intermediates = FALSE
    BY DEF Tls!SharedSeedCaCert, Tls!derive_shared_seed_tls_ca_key_pair
  <2>3. QED  BY Zenon, <2>1, <2>2 DEF Tls!WebPki
<1>5. nodes[node].mode = "run" /\ nodes[node].user = user
  <2>1. CASE nodes[node].mode = "run"
    <3>1. chain[1].issuer = <<"seed", nodes[node].user>>
      BY Zenon, <1>3, <2>1 DEF NodeAt, ServedAt
    <3>2. QED  BY Zenon, <1>4, <2>1, <3>1, KeysDiffer
  <2>2. CASE nodes[node].mode = "provision"
    <3>1. chain[1].issuer = <<"attest", node>>
      BY Zenon, <1>3, <2>2 DEF NodeAt, ServedAt, AttestAt
    <3>2. QED  BY Zenon, <1>4, <3>1, KeysDiffer
  <2>3. QED  BY Zenon, <1>3, <2>1, <2>2 DEF NodeAt
<1>6. ConnAt(c)
  <2>1. /\ c.mode = "run" /\ c.user = user /\ c.node = node /\ c.via = gateway.env
        /\ c.mode # "provision"
    OBVIOUS
  <2> HIDE DEF c
  <2>2. QED  BY Zenon, <1>1, <1>2, <1>5, <2>1 DEF ConnAt
<1> HIDE DEF c
<1>7. \A d \in conns' : d \in conns \/ ConnAt(d)
  BY Zenon, <1>1, <1>6
<1>8. GatewayAt(gateway')
  BY Zenon, <1>1 DEF TrustInv
<1>9. QED  BY Zenon, <1>1, <1>7, <1>8, TrustConns

(* An app that accepts a provisioning node has found a genuine one of the  *)
(* measurement that it asked for.                                          *)
LEMMA TrustConnectProvision ==
    ASSUME TrustHypotheses, TrustInv, NEW user \in Users, NEW m \in Tls!Measurements,
           NEW node \in Nodes, Tls!ConnectProvision(user, m, node)
    PROVE  TrustInv'
<1> DEFINE chain == nodes[node].served.chain
           build == nodes[node].build
           quote == chain[1].quote
           policy == Tls!trust_measurements_with_signer({m})
           c == [mode |-> "provision", user |-> user, node |-> node, asked |-> m,
                 via |-> gateway.env]
<1>1. /\ nodes[node] # None /\ nodes' = nodes /\ gateway' = gateway
      /\ conns' = conns \cup {c} /\ Tls!ProvisionHandshake(user, m, node)
  BY Zenon DEF Tls!ConnectProvision
<1>2. gateway.env = DeployEnv
  <2>1. Tls!lexe_server_verifier(apps[user].gen, Tls!into_chain_and_key(gateway), Tls!GATEWAY_DNS)
    BY Zenon, <1>1, DnsDiffer DEF Tls!ProvisionHandshake, Tls!AppNodeProvisionVerifier
  <2>2. QED  BY Zenon, <2>1, GatewayIsLexe
<1>3. NodeAt(node)
  BY Zenon, <1>1 DEF TrustInv
<1>4. Tls!verify_attestation_cert(UseSgx, policy, chain, Tls!node_provision_dns(Short[m]))
  BY Zenon, <1>1, DnsDiffer DEF Tls!ProvisionHandshake, Tls!AppNodeProvisionVerifier
<1>5. /\ quote # None /\ quote.report.reportdata = chain[1].pk
      /\ quote.kind = IF UseSgx THEN "quote" ELSE "report"
      /\ Tls!PolicyAccepts(policy, quote.report)
  <2>1. CASE UseSgx
    BY Zenon, <1>4, <2>1 DEF Tls!verify_attestation_cert, Tls!SgxQuoteVerifier
  <2>2. CASE ~UseSgx
    BY Zenon, <1>4, <2>2 DEF Tls!verify_attestation_cert
  <2>3. QED  BY Zenon, <2>1, <2>2
<1>6. nodes[node].mode = "provision"
  BY Zenon, <1>3, <1>5 DEF NodeAt, ServedAt
<1>7. chain[1] = nodes[node].attest.cert /\ AttestAt(node, nodes[node])
  BY Zenon, <1>3, <1>6 DEF NodeAt, ServedAt
<1>8. /\ quote.report = Tls!Report(build, <<"attest", node>>)
      /\ quote.kind = IF build.sgx THEN "quote" ELSE "report"
  BY Zenon, <1>5, <1>7 DEF AttestAt
<1>9. build.sgx = UseSgx
  <2>1. build.sgx \in BOOLEAN /\ UseSgx \in BOOLEAN
    BY Zenon, <1>3 DEF NodeAt, TrustHypotheses
  <2>2. (IF build.sgx THEN "quote" ELSE "report") = IF UseSgx THEN "quote" ELSE "report"
    BY Zenon, <1>5, <1>8
  <2> HIDE DEF build
  <2>3. QED  BY <2>1, <2>2
<1>10. /\ policy.mrenclaves = {m} /\ policy.mrsigner = Tls!expected_signer(UseSgx, DeployEnv)
       /\ policy.allow_debug = (DeployEnv = "dev")
  BY DEF Tls!trust_measurements_with_signer
<1>11. /\ Tls!Report(build, <<"attest", node>>).mrenclave = build.mrenclave
       /\ Tls!Report(build, <<"attest", node>>).mrsigner = build.mrsigner
       /\ Tls!Report(build, <<"attest", node>>).debug = build.debug
  BY DEF Tls!Report
<1> HIDE DEF build, policy, quote, chain
<1>12. /\ build.mrenclave = m /\ build.mrsigner = Tls!expected_signer(UseSgx, DeployEnv)
       /\ build.debug => DeployEnv = "dev"
  BY Zenon, <1>5, <1>8, <1>10, <1>11 DEF Tls!PolicyAccepts, TrustHypotheses
<1>13. ConnAt(c)
  <2>1. /\ c.mode = "provision" /\ c.asked = m /\ c.node = node /\ c.via = gateway.env
        /\ c.mode # "run"
    OBVIOUS
  <2> HIDE DEF c
  <2>2. QED  BY Zenon, <1>1, <1>2, <1>6, <1>9, <1>12, <2>1 DEF ConnAt, Tls!Genuine, build
<1> HIDE DEF c
<1>14. \A d \in conns' : d \in conns \/ ConnAt(d)
  BY Zenon, <1>1, <1>13
<1>15. GatewayAt(gateway')
  BY Zenon, <1>1 DEF TrustInv
<1>16. QED  BY Zenon, <1>1, <1>14, <1>15, TrustConns

(* A gateway's certificates. *)
LEMMA NewGateway ==
    ASSUME NEW env \in OtherGateways \cup {DeployEnv}, NEW gen
    PROVE  GatewayAt(Tls!GatewayCert(env, gen))
<1> DEFINE g == Tls!GatewayCert(env, gen)
<1>1. /\ g.env = env /\ g.gen = gen /\ g.cert.issuer = Tls!lexe_ca_cert(env, gen)
      /\ g.ca = IF gen = "old" THEN None
                ELSE Tls!build_rcgen_cert(0, MaxTime, Tls!DEFAULT_SUBJECT_ALT_NAME,
                           Tls!lexe_ca_cert(env, "new"), Tls!lexe_ca_cert(env, "old"), TRUE, None)
  BY DEF Tls!GatewayCert, Tls!build_rcgen_cert
<1>2. Tls!build_rcgen_cert(0, MaxTime, Tls!DEFAULT_SUBJECT_ALT_NAME,
            Tls!lexe_ca_cert(env, "new"), Tls!lexe_ca_cert(env, "old"), TRUE, None).issuer
                  = Tls!lexe_ca_cert(env, "old")
  BY DEF Tls!build_rcgen_cert
<1> HIDE DEF g
<1>3. GatewayAt(g)
  BY Zenon, <1>1, <1>2 DEF GatewayAt
<1>4. QED  BY Zenon, <1>3 DEF g

(* Apps come and go, the gateway changes, time passes. *)
LEMMA TrustOther ==
    ASSUME TrustInv,
           \/ \E u \in Users, g \in Tls!Generations : Tls!StartApp(u, g)
           \/ \E u \in Users : Tls!StopApp(u)
           \/ Tls!RotateCa
           \/ \E env \in OtherGateways \cup {DeployEnv} : Tls!ReachGateway(env)
           \/ Tls!RenewGateway
           \/ Tls!Tick
           \/ UNCHANGED Tls!vars
    PROVE  TrustInv'
<1>1. nodes' = nodes /\ \A c \in conns' : c \in conns
  BY Zenon DEF Tls!StartApp, Tls!StopApp, Tls!RotateCa, Tls!ReachGateway, Tls!RenewGateway, Tls!Tick, Tls!vars
<1>2. \/ gateway' = gateway
      \/ \E gen : \E env \in OtherGateways \cup {DeployEnv} : gateway' = Tls!GatewayCert(env, gen)
  BY Zenon DEF Tls!StartApp, Tls!StopApp, Tls!RotateCa, Tls!ReachGateway, Tls!RenewGateway, Tls!Tick, Tls!vars, TrustInv,
               GatewayAt
<1>3. GatewayAt(gateway')
  BY Zenon, <1>2, NewGateway DEF TrustInv
<1>4. QED  BY Zenon, <1>1, <1>3, TrustConns

-----------------------------------------------------------------------------
(* The theorems. *)

(* The invariant holds at the start, before any node or connection. *)
LEMMA TrustInitial ==
    ASSUME Tls!Init
    PROVE  TrustInv
<1>1. gateway = Tls!GatewayCert(DeployEnv, "old") /\ conns = {} /\ nodes = [n \in Nodes |-> None]
  BY Zenon DEF Tls!Init
<1>2. GatewayAt(gateway)
  BY Zenon, <1>1, NewGateway
<1>3. QED  BY Zenon, <1>1, <1>2 DEF TrustInv

(* TrustInv is inductive. *)
LEMMA TrustInductive ==
    ASSUME TrustHypotheses, TrustInv, [Tls!Next]_(Tls!vars)
    PROVE  TrustInv'
<1>1. CASE \/ \E n \in Nodes, u \in Users, b \in Builds, g \in Tls!Generations : Tls!StartRun(n, u, b, g)
           \/ \E n \in Nodes, b \in Builds, g \in Tls!Generations : Tls!StartProvision(n, b, g)
  BY Zenon, <1>1, TrustStartNode DEF Tls!StartRun, Tls!StartProvision
<1>2. CASE \E n \in Nodes : Tls!StopNode(n)
  BY Zenon, <1>2, TrustStopNode
<1>3. CASE \E u \in Users, n \in Nodes : Tls!ConnectRun(u, n)
  BY Zenon, <1>3, TrustConnectRun
<1>4. CASE \E u \in Users, m \in Tls!Measurements, n \in Nodes : Tls!ConnectProvision(u, m, n)
  BY Zenon, <1>4, TrustConnectProvision
<1>5. CASE \/ \E u \in Users, g \in Tls!Generations : Tls!StartApp(u, g)
           \/ \E u \in Users : Tls!StopApp(u)
           \/ Tls!RotateCa
           \/ \E env \in OtherGateways \cup {DeployEnv} : Tls!ReachGateway(env)
           \/ Tls!RenewGateway
           \/ Tls!Tick
           \/ UNCHANGED Tls!vars
  BY Zenon, <1>5, TrustOther
<1>6. QED  BY Zenon, <1>1, <1>2, <1>3, <1>4, <1>5 DEF Tls!Next

(* A connection of an app ends where the app means it to, whichever node   *)
(* the proxy chose and whichever quote AESM mixed up: one to a running     *)
(* node at the node that holds the app's own seed, one to a provisioning   *)
(* node at a genuine enclave of the measurement that was asked for, and    *)
(* both through the gateway of the app's environment.                      *)
THEOREM ConnectionsAreTrusted ==
    ASSUME TrustHypotheses
    PROVE  Tls!Spec => [](Tls!RunConnIsOwn /\ Tls!ProvisionConnIsAttested /\ Tls!ConnsGoThroughLexe)
<1>1. Tls!Init => TrustInv
  BY Zenon, TrustInitial
<1>2. TrustInv /\ [Tls!Next]_(Tls!vars) => TrustInv'
  BY Zenon, TrustInductive
<1>3. TrustInv => Tls!RunConnIsOwn /\ Tls!ProvisionConnIsAttested /\ Tls!ConnsGoThroughLexe
  BY Zenon DEF TrustInv, ConnAt, Tls!Genuine, Tls!RunConnIsOwn, Tls!ProvisionConnIsAttested,
               Tls!ConnsGoThroughLexe
<1>4. QED  BY PTL, <1>1, <1>2, <1>3 DEF Tls!Spec

-----------------------------------------------------------------------------
(* Whom an app and a node reach. *)

(* Every process restarts before one of its certificates expires, and the  *)
(* gateway renews its own a unit of time ahead; no other environment's     *)
(* gateway is reached, and AESM answers with the caller's quote.  None is  *)
(* neither a certificate nor evidence.                                     *)
ReachHypotheses ==
    /\ {RunLifetime, ProvisionLifetime, SharedSeedLifetime, GatewayLifetime, PckLifetime,
        RunUptime, ProvisionUptime, AppUptime, RenewBuffer, MaxTime} \subseteq Nat
    /\ RunUptime <= RunLifetime /\ RunUptime <= SharedSeedLifetime /\ RunUptime <= PckLifetime
    /\ ProvisionUptime <= ProvisionLifetime /\ ProvisionUptime <= PckLifetime
    /\ AppUptime <= SharedSeedLifetime /\ RenewBuffer >= 1
    /\ OtherGateways \subseteq {DeployEnv} /\ ~AesmMixesUp
    /\ UseSgx \in BOOLEAN /\ \A b \in Builds : b.sgx \in BOOLEAN
    /\ \A from, to, dns, pk, issuer, isCa, quote :
         Tls!build_rcgen_cert(from, to, dns, pk, issuer, isCa, quote) # None
    /\ \A report : Tls!dummy(report) # None
    /\ \A kind, to, root, qe, signer, report :
         [kind |-> kind, pck_to |-> to, pck_root |-> root, qe_report |-> qe,
          signer |-> signer, report |-> report] # None

(* The evidence that a node of a build got for its key when it started. *)
EvidenceAt(q, build, pk, born) ==
    /\ q # None /\ q.report = Tls!Report(build, pk)
    /\ q.kind = IF build.sgx THEN "quote" ELSE "report"
    /\ build.sgx =>
         /\ q.pck_root = "intel" /\ q.pck_to = born + PckLifetime
         /\ Tls!PolicyAccepts(Tls!trust_intel_qe, q.qe_report) /\ q.qe_report.reportdata = q.signer

Uptime(mode) == IF mode = "run" THEN RunUptime ELSE ProvisionUptime

(* What a node was given when it started, and how old it may be. *)
MadeAt(n, x) ==
    LET cert == x.attest.cert IN
    /\ x.mode \in {"run", "provision"} /\ x.build \in Builds
    /\ x.attest.ca = None
    /\ cert.from = x.born
    /\ cert.to = x.born + (IF x.mode = "run" THEN RunLifetime ELSE ProvisionLifetime)
    /\ x.mode = "provision" => cert.dns = Tls!node_provision_dns(Short[x.build.mrenclave])
    /\ cert.pk = <<"attest", n>> /\ cert.issuer = <<"attest", n>>
    /\ EvidenceAt(cert.quote, x.build, <<"attest", n>>, x.born)
    /\ x.mode = "run" =>
         /\ x.served.chain[1].from = x.born
         /\ x.served.chain[1].to = x.born + SharedSeedLifetime
         /\ x.served.chain[1].dns = Tls!NODE_RUN_DNS
         /\ x.served.chain[1].issuer = <<"seed", x.user>>
         /\ x.served.client_root = Tls!SharedSeedCaCert(x.user)
    /\ x.mode = "provision" =>
         x.served.chain = <<cert>> /\ x.served.client_root = None

(* How old a process is, and that the gateway's CA is known to it. *)
AgeOf(x, uptime, t, gen) ==
    /\ x.born \in Nat /\ x.born <= t /\ t <= x.born + uptime
    /\ x.gen \in Tls!Generations /\ (x.gen = "new" => gen = "new")

AgeAt(x, uptime) == AgeOf(x, uptime, now, gateway.gen)

AppAt(u, x) ==
    /\ x.client_cert.from = x.born /\ x.client_cert.to = x.born + SharedSeedLifetime
    /\ x.client_cert.issuer = <<"seed", u>>

(* The certificates of the gateway, which are valid now. *)
ShowsAt(g) ==
    /\ g.env = DeployEnv /\ g.gen \in Tls!Generations
    /\ g.cert.from \in Nat /\ g.cert.to \in Nat /\ Tls!IsValidAt(g.cert, now)
    /\ g.cert.dns = Tls!GATEWAY_DNS /\ g.cert.issuer = Tls!lexe_ca_cert(DeployEnv, g.gen)
    /\ g.ca = IF g.gen = "old" THEN None
              ELSE Tls!build_rcgen_cert(0, MaxTime, Tls!DEFAULT_SUBJECT_ALT_NAME,
                         Tls!lexe_ca_cert(DeployEnv, "new"), Tls!lexe_ca_cert(DeployEnv, "old"), TRUE, None)

ReachInv ==
    /\ now \in 0 .. MaxTime /\ DOMAIN nodes = Nodes /\ DOMAIN apps = Users
    /\ ShowsAt(gateway)
    /\ \A n \in Nodes : nodes[n] # None =>
         MadeAt(n, nodes[n]) /\ AgeAt(nodes[n], Uptime(nodes[n].mode))
    /\ \A u \in Users : apps[u] # None =>
         AppAt(u, apps[u]) /\ AgeAt(apps[u], AppUptime)

(* What the invariant gives. *)

LEMMA ChainOfOne ==
    ASSUME NEW a, a.ca = None
    PROVE  Tls!into_chain_and_key(a) = <<a.cert>>
<1>1. Tls!into_chain_and_key(a) = <<a.cert>> \o <<>>
  BY Zenon DEF Tls!into_chain_and_key
<1>2. <<a.cert>> \o <<>> = <<a.cert>>
  OBVIOUS
<1>3. QED  BY Zenon, <1>1, <1>2

(* A build of either generation accepts the gateway. *)
LEMMA GatewayIsAccepted ==
    ASSUME ReachHypotheses, ReachInv, NEW gen \in Tls!Generations, Tls!Released(gen)
    PROVE  Tls!lexe_server_verifier(gen, Tls!into_chain_and_key(gateway), Tls!GATEWAY_DNS)
<1> DEFINE chain == Tls!into_chain_and_key(gateway)
           root == [pk |-> Tls!lexe_ca_cert(DeployEnv, gen), intermediates |-> TRUE]
           ca == Tls!build_rcgen_cert(0, MaxTime, Tls!DEFAULT_SUBJECT_ALT_NAME,
                       Tls!lexe_ca_cert(DeployEnv, "new"), Tls!lexe_ca_cert(DeployEnv, "old"), TRUE, None)
<1>1. root.pk = Tls!lexe_ca_cert(DeployEnv, gen) /\ root.intermediates = TRUE
  OBVIOUS
<1>2. ShowsAt(gateway)
  BY Zenon DEF ReachInv
<1>3. Tls!IsValidAt(gateway.cert, now) /\ Tls!cert_contains_dns(gateway.cert, Tls!GATEWAY_DNS)
  BY Zenon, <1>2 DEF ShowsAt, Tls!cert_contains_dns
<1>4. gen \in {"old", "new"} /\ gateway.gen \in {"old", "new"} /\ "old" # "new"
  BY <1>2 DEF ShowsAt, Tls!Generations
<1>5. CASE gateway.gen = gen
  <2>1. chain[1] = gateway.cert
    <3>1. \A a, b : (<<a>> \o <<b>>)[1] = a /\ (<<a>> \o <<>>)[1] = a
      OBVIOUS
    <3>2. QED  BY Zenon, <3>1 DEF Tls!into_chain_and_key
  <2>2. gateway.cert.issuer = root.pk
    BY Zenon, <1>1, <1>2, <1>5 DEF ShowsAt
  <2> HIDE DEF chain, root
  <2>3. Tls!WebPki(chain, root, Tls!GATEWAY_DNS)
    BY Zenon, <1>3, <2>1, <2>2 DEF Tls!WebPki
  <2>4. QED  BY Zenon, <2>3 DEF Tls!lexe_server_verifier, chain, root
<1>6. CASE gateway.gen = "new" /\ gen = "old"
  <2>1. gateway.ca = ca /\ ca # None
    BY Zenon, <1>2, <1>4, <1>6 DEF ShowsAt, ReachHypotheses
  <2>2. chain = <<gateway.cert>> \o <<ca>>
    BY Zenon, <2>1 DEF Tls!into_chain_and_key
  <2>3. ca.isCa = TRUE /\ ca.from = 0 /\ ca.to = MaxTime
    BY DEF Tls!build_rcgen_cert
  <2>4. ca.pk = Tls!lexe_ca_cert(DeployEnv, "new") /\ ca.issuer = Tls!lexe_ca_cert(DeployEnv, "old")
    BY DEF Tls!build_rcgen_cert
  <2> HIDE DEF ca, chain, root
  <2>5. chain[1] = gateway.cert /\ chain[2] = ca /\ Len(chain) = 2
    BY <2>2
  <2>6. Tls!IsValidAt(ca, now)
    BY <2>3 DEF Tls!IsValidAt, ReachInv, ReachHypotheses
  <2>7. gateway.cert.issuer = ca.pk /\ ca.issuer = root.pk
    BY Zenon, <1>1, <1>2, <1>6, <2>4 DEF ShowsAt
  <2>8. Tls!WebPki(chain, root, Tls!GATEWAY_DNS)
    BY Zenon, <1>1, <1>3, <2>3, <2>5, <2>6, <2>7 DEF Tls!WebPki
  <2>9. QED  BY Zenon, <2>8 DEF Tls!lexe_server_verifier, chain, root
<1>7. gen = "new" => gateway.gen = "new"
  BY Zenon DEF Tls!Released
<1>8. QED  BY Zenon, <1>4, <1>5, <1>6, <1>7

(* A certificate that was made when a process was born is valid for it. *)
LEMMA ValidWhileUp ==
    ASSUME NEW cert, NEW x, NEW lifetime \in Nat, NEW uptime \in Nat, uptime <= lifetime,
           now \in Nat, AgeAt(x, uptime), cert.from = x.born, cert.to = x.born + lifetime
    PROVE  Tls!IsValidAt(cert, now)
BY DEF AgeAt, AgeOf, Tls!IsValidAt

(* A genuine node passes attestation by a policy that accepts its build. *)
LEMMA NodeIsAttested ==
    ASSUME ReachHypotheses, ReachInv, NEW n \in Nodes, nodes[n] # None, Tls!Genuine(nodes[n].build),
           NEW policy, Tls!PolicyAccepts(policy, Tls!Report(nodes[n].build, <<"attest", n>>)),
           NEW dns, dns # None => nodes[n].attest.cert.dns = dns
    PROVE  Tls!verify_attestation_cert(UseSgx, policy, <<nodes[n].attest.cert>>, dns)
<1> DEFINE x == nodes[n]
           cert == x.attest.cert
           chain == <<cert>>
           root == [pk |-> chain[1].pk, intermediates |-> FALSE]
           lifetime == IF x.mode = "run" THEN RunLifetime ELSE ProvisionLifetime
<1>1. MadeAt(n, x) /\ AgeAt(x, Uptime(x.mode))
  BY Zenon DEF ReachInv
<1>2. /\ cert.from = x.born /\ cert.to = x.born + lifetime
      /\ cert.pk = <<"attest", n>> /\ cert.issuer = <<"attest", n>>
      /\ EvidenceAt(cert.quote, x.build, <<"attest", n>>, x.born)
  BY Zenon, <1>1 DEF MadeAt
<1>3. /\ now \in Nat /\ lifetime \in Nat /\ Uptime(x.mode) \in Nat /\ Uptime(x.mode) <= lifetime
      /\ PckLifetime \in Nat /\ Uptime(x.mode) <= PckLifetime
  BY DEF ReachInv, ReachHypotheses, Uptime
<1>4. x.build.sgx = UseSgx
  BY Zenon DEF Tls!Genuine
<1>5. Len(chain) = 1 /\ chain[1] = cert /\ root.pk = chain[1].pk
  OBVIOUS
<1> HIDE DEF x, cert, chain, lifetime, root
<1>6. Tls!IsValidAt(cert, now)
  BY Zenon, <1>1, <1>2, <1>3, ValidWhileUp
<1>7. Tls!WebPki(chain, root, dns)
  BY Zenon, <1>2, <1>5, <1>6 DEF Tls!WebPki, Tls!cert_contains_dns, cert, x
<1>8. /\ cert.quote # None /\ cert.quote.report = Tls!Report(x.build, <<"attest", n>>)
      /\ cert.quote.kind = IF UseSgx THEN "quote" ELSE "report"
  BY Zenon, <1>2, <1>4 DEF EvidenceAt
<1>9. Tls!Report(x.build, <<"attest", n>>).reportdata = <<"attest", n>>
  BY DEF Tls!Report
<1>10. IF UseSgx THEN Tls!SgxQuoteVerifier(cert.quote) ELSE cert.quote.kind = "report"
  <2>1. CASE ~UseSgx
    BY Zenon, <1>8, <2>1
  <2>2. CASE UseSgx
    <3>1. /\ cert.quote.pck_root = "intel" /\ cert.quote.pck_to = x.born + PckLifetime
          /\ Tls!PolicyAccepts(Tls!trust_intel_qe, cert.quote.qe_report)
          /\ cert.quote.qe_report.reportdata = cert.quote.signer /\ cert.quote.kind = "quote"
      BY Zenon, <1>2, <1>4, <1>8, <2>2 DEF EvidenceAt
    <3>2. now <= cert.quote.pck_to
      BY <1>1, <1>3, <3>1 DEF AgeAt, AgeOf
    <3>3. QED  BY Zenon, <2>2, <3>1, <3>2 DEF Tls!SgxQuoteVerifier
  <2>3. QED  BY Zenon, <2>1, <2>2
<1>11. Tls!PolicyAccepts(policy, cert.quote.report)
  BY Zenon, <1>8 DEF x
<1>12. Tls!verify_attestation_cert(UseSgx, policy, chain, dns)
  BY Zenon, <1>2, <1>5, <1>7, <1>8, <1>9, <1>10, <1>11 DEF Tls!verify_attestation_cert, root
<1>13. QED  BY Zenon, <1>12 DEF chain, cert, x

LEMMA ReachGives ==
    ASSUME ReachHypotheses, ReachInv
    PROVE  Tls!OwnNodeIsReachable
<1> SUFFICES ASSUME NEW n \in Nodes, nodes[n] # None, Tls!Genuine(nodes[n].build)
             PROVE  /\ Tls!node_lexe_client_config(n)
                    /\ \A u \in Users : apps[u] # None =>
                         /\ nodes[n].mode = "run" /\ nodes[n].user = u => Tls!RunHandshake(u, n)
                         /\ nodes[n].mode = "provision" =>
                              Tls!ProvisionHandshake(u, nodes[n].build.mrenclave, n)
  BY Zenon DEF Tls!OwnNodeIsReachable
<1> DEFINE x == nodes[n]
           report == Tls!Report(x.build, <<"attest", n>>)
<1>1. MadeAt(n, x) /\ AgeAt(x, Uptime(x.mode))
  BY Zenon DEF ReachInv
<1>2. /\ report.mrenclave = x.build.mrenclave /\ report.mrsigner = x.build.mrsigner
      /\ report.debug = x.build.debug
  BY DEF Tls!Report
<1>3. /\ Tls!trust_expected_signer.mrenclaves = None
      /\ Tls!trust_expected_signer.mrsigner = Tls!expected_signer(UseSgx, DeployEnv)
      /\ Tls!trust_expected_signer.allow_debug = (DeployEnv = "dev")
  BY DEF Tls!trust_expected_signer
<1>4. Tls!node_lexe_client_config(n)
  <2>1. Tls!lexe_server_verifier(x.gen, Tls!into_chain_and_key(gateway), Tls!GATEWAY_DNS)
    BY Zenon, <1>1, GatewayIsAccepted DEF AgeAt, AgeOf, Tls!Released
  <2>2. Tls!into_chain_and_key(x.attest) = <<x.attest.cert>>
    BY Zenon, <1>1, ChainOfOne DEF MadeAt
  <2>3. Tls!PolicyAccepts(Tls!trust_expected_signer, report)
    BY Zenon, <1>2, <1>3 DEF Tls!PolicyAccepts, Tls!Genuine
  <2>4. Tls!verify_attestation_cert(UseSgx, Tls!trust_expected_signer, <<x.attest.cert>>, None)
    BY Zenon, <2>3, NodeIsAttested
  <2>5. QED  BY Zenon, <2>1, <2>2, <2>4 DEF Tls!node_lexe_client_config
<1>5. ASSUME NEW u \in Users, apps[u] # None
      PROVE  Tls!lexe_server_verifier(apps[u].gen, Tls!into_chain_and_key(gateway), Tls!GATEWAY_DNS)
  BY Zenon, <1>5, GatewayIsAccepted DEF ReachInv, AgeAt, AgeOf, Tls!Released
<1>6. ASSUME NEW u \in Users, apps[u] # None, x.mode = "run", x.user = u
      PROVE  Tls!RunHandshake(u, n)
  <2>1. /\ x.served.chain[1].from = x.born
        /\ x.served.chain[1].to = x.born + SharedSeedLifetime
        /\ x.served.chain[1].dns = Tls!NODE_RUN_DNS
        /\ x.served.chain[1].issuer = <<"seed", u>>
        /\ x.served.client_root = Tls!SharedSeedCaCert(u)
    BY Zenon, <1>1, <1>6 DEF MadeAt
  <2>2. Tls!SharedSeedCaCert(u).pk = <<"seed", u>>
    BY DEF Tls!SharedSeedCaCert, Tls!derive_shared_seed_tls_ca_key_pair
  <2>3. /\ now \in Nat /\ SharedSeedLifetime \in Nat /\ RunUptime \in Nat /\ AppUptime \in Nat
        /\ RunUptime <= SharedSeedLifetime /\ AppUptime <= SharedSeedLifetime
    BY DEF ReachInv, ReachHypotheses
  <2>4. Tls!IsValidAt(x.served.chain[1], now)
    <3>1. AgeAt(x, RunUptime)
      BY Zenon, <1>1, <1>6 DEF Uptime
    <3>2. QED  BY Zenon, <2>1, <2>3, <3>1, ValidWhileUp
  <2>5. Tls!WebPki(x.served.chain, Tls!SharedSeedCaCert(u), Tls!NODE_RUN_DNS)
    BY Zenon, <2>1, <2>2, <2>4 DEF Tls!WebPki, Tls!cert_contains_dns
  <2>6. Tls!AppNodeRunVerifier(u, x.served.chain, Tls!NODE_RUN_DNS)
    BY Zenon, <2>5 DEF Tls!AppNodeRunVerifier
  <2>7. Tls!AppNodeRunVerifier(u, Tls!into_chain_and_key(gateway), Tls!GATEWAY_DNS)
    BY Zenon, <1>5, <1>6, DnsDiffer DEF Tls!AppNodeRunVerifier
  <2>8. AppAt(u, apps[u]) /\ AgeAt(apps[u], AppUptime)
    BY Zenon, <1>6 DEF ReachInv
  <2>9. Tls!WebPki(<<apps[u].client_cert>>, Tls!SharedSeedCaCert(u), None)
    <3>1. Tls!IsValidAt(apps[u].client_cert, now)
      BY Zenon, <2>3, <2>8, ValidWhileUp DEF AppAt
    <3>2. apps[u].client_cert.issuer = Tls!SharedSeedCaCert(u).pk
      BY Zenon, <2>2, <2>8 DEF AppAt
    <3>3. <<apps[u].client_cert>>[1] = apps[u].client_cert
      OBVIOUS
    <3>4. QED  BY Zenon, <3>1, <3>2, <3>3 DEF Tls!WebPki
  <2>10. QED  BY Zenon, <2>1, <2>6, <2>7, <2>9 DEF Tls!RunHandshake
<1>7. ASSUME NEW u \in Users, apps[u] # None, x.mode = "provision"
      PROVE  Tls!ProvisionHandshake(u, x.build.mrenclave, n)
  <2> DEFINE m == x.build.mrenclave
             policy == Tls!trust_measurements_with_signer({m})
             dns == Tls!node_provision_dns(Short[m])
  <2>1. x.served.chain = <<x.attest.cert>> /\ x.served.client_root = None /\ x.attest.cert.dns = dns
    BY Zenon, <1>1, <1>7 DEF MadeAt
  <2>2. /\ policy.mrenclaves = {m} /\ policy.mrsigner = Tls!expected_signer(UseSgx, DeployEnv)
        /\ policy.allow_debug = (DeployEnv = "dev")
    BY DEF Tls!trust_measurements_with_signer
  <2> HIDE DEF policy
  <2>3. Tls!PolicyAccepts(policy, report)
    BY Zenon, <1>2, <2>2 DEF Tls!PolicyAccepts, Tls!Genuine
  <2>4. Tls!verify_attestation_cert(UseSgx, policy, <<x.attest.cert>>, dns)
    BY Zenon, <2>1, <2>3, NodeIsAttested
  <2>5. Tls!AppNodeProvisionVerifier(u, m, x.served.chain, dns)
    BY Zenon, <2>1, <2>4, DnsDiffer DEF Tls!AppNodeProvisionVerifier, policy
  <2>6. Tls!AppNodeProvisionVerifier(u, m, Tls!into_chain_and_key(gateway), Tls!GATEWAY_DNS)
    BY Zenon, <1>5, <1>7, DnsDiffer DEF Tls!AppNodeProvisionVerifier
  <2>7. QED  BY Zenon, <2>1, <2>5, <2>6 DEF Tls!ProvisionHandshake
<1>8. QED  BY Zenon, <1>4, <1>6, <1>7

(* The invariant is kept. *)

(* A gateway's new certificates are valid. *)
LEMMA NewGatewayShows ==
    ASSUME ReachHypotheses, now \in Nat, now' = now, NEW gen \in Tls!Generations,
           gateway' = Tls!GatewayCert(DeployEnv, gen)
    PROVE  ShowsAt(gateway)' /\ gateway'.gen = gen
<1> DEFINE cert == Tls!build_rcgen_cert(now, now + GatewayLifetime, Tls!GATEWAY_DNS,
                         <<"gateway", DeployEnv>>, Tls!lexe_ca_cert(DeployEnv, gen), FALSE, None)
           ca == IF gen = "old" THEN None
                 ELSE Tls!build_rcgen_cert(0, MaxTime, Tls!DEFAULT_SUBJECT_ALT_NAME,
                            Tls!lexe_ca_cert(DeployEnv, "new"), Tls!lexe_ca_cert(DeployEnv, "old"),
                            TRUE, None)
<1>1. /\ cert.from = now /\ cert.to = now + GatewayLifetime /\ cert.dns = Tls!GATEWAY_DNS
      /\ cert.issuer = Tls!lexe_ca_cert(DeployEnv, gen)
  BY DEF Tls!build_rcgen_cert
<1>2. gateway' = [env |-> DeployEnv, gen |-> gen, cert |-> cert, ca |-> ca]
  BY Zenon DEF Tls!GatewayCert
<1> HIDE DEF cert, ca
<1>3. gateway'.env = DeployEnv /\ gateway'.gen = gen /\ gateway'.cert = cert /\ gateway'.ca = ca
  BY <1>2
<1>4. cert.from \in Nat /\ cert.to \in Nat /\ cert.from <= now /\ now <= cert.to
  BY <1>1 DEF ReachHypotheses
<1>5. QED  BY Zenon, <1>1, <1>3, <1>4 DEF ShowsAt, Tls!IsValidAt, ca

(* Nodes and apps stay or stop, and the gateway is kept or is new. *)
LEMMA ReachKept ==
    ASSUME ReachInv, now' = now, ShowsAt(gateway)',
           gateway.gen = "new" => gateway'.gen = "new",
           DOMAIN nodes' = Nodes, DOMAIN apps' = Users,
           \A n \in Nodes : nodes'[n] = nodes[n] \/ nodes'[n] = None
                              \/ (MadeAt(n, nodes'[n]) /\ AgeAt(nodes[n], Uptime(nodes[n].mode))'),
           \A u \in Users : apps'[u] = apps[u] \/ apps'[u] = None
                              \/ (AppAt(u, apps'[u]) /\ AgeAt(apps[u], AppUptime)')
    PROVE  ReachInv'
<1>1. ASSUME NEW n \in Nodes, nodes'[n] = nodes[n], nodes[n] # None
      PROVE  MadeAt(n, nodes'[n]) /\ AgeAt(nodes[n], Uptime(nodes[n].mode))'
  <2>1. MadeAt(n, nodes[n]) /\ AgeAt(nodes[n], Uptime(nodes[n].mode))
    BY Zenon, <1>1 DEF ReachInv
  <2>2. QED  BY Zenon, <1>1, <2>1 DEF AgeAt, AgeOf, Uptime
<1>2. ASSUME NEW u \in Users, apps'[u] = apps[u], apps[u] # None
      PROVE  AppAt(u, apps'[u]) /\ AgeAt(apps[u], AppUptime)'
  <2>1. AppAt(u, apps[u]) /\ AgeAt(apps[u], AppUptime)
    BY Zenon, <1>2 DEF ReachInv
  <2>2. QED  BY Zenon, <1>2, <2>1 DEF AgeAt, AgeOf
<1>3. now' \in 0 .. MaxTime
  BY Zenon DEF ReachInv
<1>4. \A n \in Nodes : nodes'[n] # None =>
        MadeAt(n, nodes'[n]) /\ AgeAt(nodes[n], Uptime(nodes[n].mode))'
  BY Zenon, <1>1
<1>5. \A u \in Users : apps'[u] # None => AppAt(u, apps'[u]) /\ AgeAt(apps[u], AppUptime)'
  BY Zenon, <1>2
<1>6. QED  BY Zenon, <1>3, <1>4, <1>5 DEF ReachInv

LEMMA SameGatewayShows ==
    ASSUME ReachInv, now' = now, gateway' = gateway
    PROVE  ShowsAt(gateway)'
BY Zenon DEF ReachInv, ShowsAt, Tls!IsValidAt

(* The evidence is the node's own. *)
LEMMA EvidenceIsMade ==
    ASSUME ReachHypotheses, NEW build, build.sgx \in BOOLEAN, NEW pk,
           NEW quote \in Tls!quote_enclave(build, pk)
    PROVE  EvidenceAt(quote, build, pk, now)
<1>1. CASE ~build.sgx
  <2>1. quote \in {Tls!dummy(Tls!Report(build, pk))}
    BY <1>1 DEF Tls!quote_enclave
  <2>2. Tls!dummy(Tls!Report(build, pk)).kind = "report" /\ Tls!dummy(Tls!Report(build, pk)).report = Tls!Report(build, pk)
    BY DEF Tls!dummy
  <2>3. QED  BY Zenon, <1>1, <2>1, <2>2 DEF EvidenceAt, ReachHypotheses
<1>2. CASE build.sgx
  <2> DEFINE others == {Tls!Report(nodes[n].build, nodes[n].attest.cert.pk) :
                               n \in {k \in Nodes : /\ AesmMixesUp /\ nodes[k] # None
                                                    /\ nodes[k].build.sgx}}
             qes == {q \in Tls!QuotingEnclaves : Tls!PolicyAccepts(Tls!trust_intel_qe, q)}
  <2>1. quote \in {Tls!Quote(qe, report) : qe \in qes, report \in {Tls!Report(build, pk)} \cup others}
    BY <1>2 DEF Tls!quote_enclave
  <2>2. others = {}
    BY Zenon DEF ReachHypotheses
  <2>3. \A qe \in qes : Tls!PolicyAccepts(Tls!trust_intel_qe, qe)
    OBVIOUS
  <2> HIDE DEF others, qes
  <2>4. PICK qe \in qes, report \in {Tls!Report(build, pk)} \cup others : quote = Tls!Quote(qe, report)
    BY <2>1
  <2>5. report = Tls!Report(build, pk)
    BY Zenon, <2>2
  <2>6. /\ quote.kind = "quote" /\ quote.pck_to = now + PckLifetime /\ quote.pck_root = "intel"
        /\ quote.qe_report = Tls!Report(qe, <<"ak", qe.mrsigner>>)
        /\ quote.signer = <<"ak", qe.mrsigner>> /\ quote.report = report
    BY <2>4 DEF Tls!Quote
  <2>7. quote # None
    BY Zenon, <2>4 DEF Tls!Quote, ReachHypotheses
  <2>8. /\ quote.qe_report.mrenclave = qe.mrenclave /\ quote.qe_report.mrsigner = qe.mrsigner
        /\ quote.qe_report.debug = qe.debug /\ quote.qe_report.reportdata = quote.signer
    BY <2>6 DEF Tls!Report
  <2>9. Tls!PolicyAccepts(Tls!trust_intel_qe, quote.qe_report)
    BY Zenon, <2>3, <2>8 DEF Tls!PolicyAccepts
  <2>10. QED  BY Zenon, <1>2, <2>5, <2>6, <2>7, <2>8, <2>9 DEF EvidenceAt
<1>3. QED  BY Zenon, <1>1, <1>2

LEMMA NodeIsMade ==
    ASSUME ReachHypotheses, NEW node, NEW mode \in {"run", "provision"},
           NEW user, NEW build \in Builds, NEW gen,
           NEW quote \in Tls!quote_enclave(build, <<"attest", node>>), NEW attest,
           attest = Tls!get_or_generate_node_attestation_cert(node, mode, build, quote), NEW x,
           x = [mode |-> mode, user |-> user, build |-> build, gen |-> gen,
                born |-> now, attest |-> attest,
                served |-> IF mode = "run"
                           THEN Tls!app_node_run_server_config(node, user)
                           ELSE Tls!app_node_provision_server_config(attest)]
    PROVE  MadeAt(node, x) /\ x.mode = mode /\ x.born = now /\ x.gen = gen
<1>1. /\ x.mode = mode /\ x.user = user /\ x.build = build /\ x.attest = attest /\ x.born = now
      /\ x.gen = gen
      /\ x.served = IF mode = "run"
                    THEN Tls!app_node_run_server_config(node, user)
                    ELSE Tls!app_node_provision_server_config(attest)
  OBVIOUS
<1> DEFINE lifetime == IF mode = "run" THEN RunLifetime ELSE ProvisionLifetime
<1>2. PICK dns :
        /\ attest.cert = Tls!AttestationCert(node, dns, lifetime, quote) /\ attest.ca = None
        /\ mode = "provision" => dns = Tls!node_provision_dns(Short[build.mrenclave])
  <2>1. CASE mode = "provision"
    BY <2>1 DEF Tls!get_or_generate_node_attestation_cert
  <2>2. CASE mode = "run"
    BY <2>2 DEF Tls!get_or_generate_node_attestation_cert
  <2>3. QED  BY Zenon, <2>1, <2>2
<1> HIDE DEF lifetime
<1>3. /\ attest.cert.from = now /\ attest.cert.to = now + lifetime /\ attest.cert.dns = dns
      /\ attest.cert.pk = <<"attest", node>> /\ attest.cert.issuer = <<"attest", node>>
      /\ attest.cert.quote = quote
  BY <1>2 DEF Tls!AttestationCert, Tls!build_rcgen_cert
<1>4. EvidenceAt(quote, build, <<"attest", node>>, now)
  <2>1. build.sgx \in BOOLEAN
    BY Zenon DEF ReachHypotheses
  <2>2. QED  BY <2>1, EvidenceIsMade
<1>5. mode = "run" =>
        /\ x.served.chain[1].from = now /\ x.served.chain[1].to = now + SharedSeedLifetime
        /\ x.served.chain[1].dns = Tls!NODE_RUN_DNS /\ x.served.chain[1].issuer = <<"seed", user>>
        /\ x.served.client_root = Tls!SharedSeedCaCert(user)
  <2>1. SUFFICES ASSUME mode = "run"
                 PROVE  /\ x.served.chain[1].from = now
                        /\ x.served.chain[1].to = now + SharedSeedLifetime
                        /\ x.served.chain[1].dns = Tls!NODE_RUN_DNS
                        /\ x.served.chain[1].issuer = <<"seed", user>>
                        /\ x.served.client_root = Tls!SharedSeedCaCert(user)
    OBVIOUS
  <2>2. /\ x.served.chain = <<Tls!SharedSeedServerCert(node, user)>>
        /\ x.served.client_root = Tls!SharedSeedCaCert(user)
    BY <1>1, <2>1 DEF Tls!app_node_run_server_config
  <2>3. /\ Tls!SharedSeedServerCert(node, user).from = now
        /\ Tls!SharedSeedServerCert(node, user).to = now + SharedSeedLifetime
        /\ Tls!SharedSeedServerCert(node, user).dns = Tls!NODE_RUN_DNS
        /\ Tls!SharedSeedServerCert(node, user).issuer = <<"seed", user>>
    BY DEF Tls!SharedSeedServerCert, Tls!build_rcgen_cert, Tls!SharedSeedCaCert,
           Tls!derive_shared_seed_tls_ca_key_pair
  <2>4. x.served.chain[1] = Tls!SharedSeedServerCert(node, user)
    BY <2>2
  <2>5. QED  BY Zenon, <2>2, <2>3, <2>4
<1>6. mode = "provision" => x.served.chain = <<attest.cert>> /\ x.served.client_root = None
  <2>1. Tls!into_chain_and_key(attest) = <<attest.cert>>
    BY Zenon, <1>2, ChainOfOne
  <2>2. QED  BY <1>1, <2>1 DEF Tls!app_node_provision_server_config
<1>7. QED  BY Zenon, <1>1, <1>2, <1>3, <1>4, <1>5, <1>6 DEF MadeAt, lifetime

LEMMA ReachStartNode ==
    ASSUME ReachHypotheses, ReachInv, NEW node \in Nodes, NEW mode \in {"run", "provision"},
           NEW user, NEW build \in Builds, NEW gen \in Tls!Generations,
           Tls!StartNode(node, mode, user, build, gen)
    PROVE  ReachInv'
<1>1. now' = now /\ apps' = apps /\ gateway' = gateway /\ Tls!Released(gen)
  BY Zenon DEF Tls!StartNode
<1>2. PICK quote, attest, x :
        /\ quote \in Tls!quote_enclave(build, <<"attest", node>>)
        /\ attest = Tls!get_or_generate_node_attestation_cert(node, mode, build, quote)
        /\ x = [mode |-> mode, user |-> user, build |-> build, gen |-> gen,
                born |-> now, attest |-> attest,
                served |-> IF mode = "run"
                           THEN Tls!app_node_run_server_config(node, user)
                           ELSE Tls!app_node_provision_server_config(attest)]
        /\ nodes' = [nodes EXCEPT ![node] = x]
  BY Zenon DEF Tls!StartNode
<1>3. MadeAt(node, x) /\ x.mode = mode /\ x.born = now /\ x.gen = gen
  BY <1>2, NodeIsMade
<1>4. /\ DOMAIN nodes' = Nodes /\ nodes'[node] = x
      /\ \A n \in Nodes : n # node => nodes'[n] = nodes[n]
  BY Zenon, <1>2 DEF ReachInv
<1>5. AgeAt(nodes[node], Uptime(nodes[node].mode))'
  <2>1. /\ now \in Nat /\ Uptime(mode) \in Nat
    BY DEF ReachInv, ReachHypotheses, Uptime
  <2>2. now <= now /\ now <= now + Uptime(mode)
    BY <2>1
  <2>3. AgeOf(x, Uptime(mode), now, gateway.gen)
    BY Zenon, <1>1, <1>3, <2>1, <2>2 DEF AgeOf, Tls!Released
  <2>4. QED  BY Zenon, <1>1, <1>3, <1>4, <2>3 DEF AgeAt, Uptime
<1>6. \A n \in Nodes : nodes'[n] = nodes[n] \/ nodes'[n] = None
                         \/ (MadeAt(n, nodes'[n]) /\ AgeAt(nodes[n], Uptime(nodes[n].mode))')
  BY Zenon, <1>3, <1>4, <1>5
<1>7. DOMAIN apps' = Users /\ ShowsAt(gateway)'
  BY Zenon, <1>1, SameGatewayShows DEF ReachInv
<1>8. QED  BY Zenon, <1>1, <1>4, <1>6, <1>7, ReachKept

LEMMA ReachStartApp ==
    ASSUME ReachHypotheses, ReachInv, NEW user \in Users, NEW gen \in Tls!Generations,
           Tls!StartApp(user, gen)
    PROVE  ReachInv'
<1> DEFINE x == [gen |-> gen, born |-> now, client_cert |-> Tls!SharedSeedClientCert(user)]
<1>1. /\ now' = now /\ nodes' = nodes /\ gateway' = gateway /\ Tls!Released(gen)
      /\ apps' = [apps EXCEPT ![user] = x]
  BY Zenon DEF Tls!StartApp
<1>2. /\ x.gen = gen /\ x.born = now /\ x.client_cert = Tls!SharedSeedClientCert(user)
  OBVIOUS
<1>3. /\ Tls!SharedSeedClientCert(user).from = now
      /\ Tls!SharedSeedClientCert(user).to = now + SharedSeedLifetime
      /\ Tls!SharedSeedClientCert(user).issuer = <<"seed", user>>
  BY DEF Tls!SharedSeedClientCert, Tls!build_rcgen_cert, Tls!SharedSeedCaCert,
         Tls!derive_shared_seed_tls_ca_key_pair
<1> HIDE DEF x
<1>4. /\ DOMAIN apps' = Users /\ apps'[user] = x
      /\ \A u \in Users : u # user => apps'[u] = apps[u]
  BY Zenon, <1>1 DEF ReachInv
<1>5. AppAt(user, x)
  BY Zenon, <1>2, <1>3 DEF AppAt
<1>6. AgeAt(apps[user], AppUptime)'
  <2>1. now \in Nat /\ AppUptime \in Nat
    BY DEF ReachInv, ReachHypotheses
  <2>2. now <= now /\ now <= now + AppUptime
    BY <2>1
  <2>3. AgeOf(x, AppUptime, now, gateway.gen)
    BY Zenon, <1>1, <1>2, <2>1, <2>2 DEF AgeOf, Tls!Released
  <2>4. QED  BY Zenon, <1>1, <1>4, <2>3 DEF AgeAt
<1>7. \A u \in Users : apps'[u] = apps[u] \/ apps'[u] = None
                         \/ (AppAt(u, apps'[u]) /\ AgeAt(apps[u], AppUptime)')
  BY Zenon, <1>4, <1>5, <1>6
<1>8. DOMAIN nodes' = Nodes /\ ShowsAt(gateway)'
  BY Zenon, <1>1, SameGatewayShows DEF ReachInv
<1>9. QED  BY Zenon, <1>1, <1>4, <1>7, <1>8, ReachKept

LEMMA ReachStop ==
    ASSUME ReachInv, \/ \E n \in Nodes : Tls!StopNode(n)
                     \/ \E u \in Users : Tls!StopApp(u)
                     \/ \E u \in Users, n \in Nodes : Tls!ConnectRun(u, n)
                     \/ \E u \in Users, m \in Tls!Measurements, n \in Nodes : Tls!ConnectProvision(u, m, n)
                     \/ UNCHANGED Tls!vars
    PROVE  ReachInv'
<1>1. /\ now' = now /\ gateway' = gateway
      /\ nodes' = nodes \/ \E n \in Nodes : nodes' = [nodes EXCEPT ![n] = None]
      /\ apps' = apps \/ \E u \in Users : apps' = [apps EXCEPT ![u] = None]
  BY Zenon DEF Tls!StopNode, Tls!StopApp, Tls!ConnectRun, Tls!ConnectProvision, Tls!vars
<1>2. DOMAIN nodes' = Nodes /\ \A n \in Nodes : nodes'[n] = nodes[n] \/ nodes'[n] = None
  BY Zenon, <1>1 DEF ReachInv
<1>3. DOMAIN apps' = Users /\ \A u \in Users : apps'[u] = apps[u] \/ apps'[u] = None
  BY Zenon, <1>1 DEF ReachInv
<1>4. ShowsAt(gateway)'
  BY Zenon, <1>1, SameGatewayShows
<1>5. QED  BY Zenon, <1>1, <1>2, <1>3, <1>4, ReachKept

LEMMA ReachNewGateway ==
    ASSUME ReachHypotheses, ReachInv,
           \/ Tls!RotateCa \/ Tls!RenewGateway
           \/ \E env \in OtherGateways \cup {DeployEnv} : Tls!ReachGateway(env)
    PROVE  ReachInv'
<1>1. now \in Nat /\ ShowsAt(gateway) /\ DOMAIN nodes = Nodes /\ DOMAIN apps = Users
  BY DEF ReachInv, ReachHypotheses
<1>2. now' = now /\ nodes' = nodes /\ apps' = apps
  BY Zenon DEF Tls!RotateCa, Tls!RenewGateway, Tls!ReachGateway
<1>3. PICK gen \in Tls!Generations :
        gateway' = Tls!GatewayCert(DeployEnv, gen) /\ (gateway.gen = "new" => gen = "new")
  <2>1. CASE Tls!RotateCa
    <3>1. "new" \in Tls!Generations
      BY DEF Tls!Generations
    <3>2. QED  BY Zenon, <2>1, <3>1 DEF Tls!RotateCa
  <2>2. CASE Tls!RenewGateway
    BY Zenon, <1>1, <2>2 DEF Tls!RenewGateway, ShowsAt
  <2>3. CASE \E env \in OtherGateways \cup {DeployEnv} : Tls!ReachGateway(env)
    BY Zenon, <1>1, <2>3 DEF Tls!ReachGateway, ShowsAt, ReachHypotheses
  <2>4. QED  BY Zenon, <2>1, <2>2, <2>3
<1>4. ShowsAt(gateway)' /\ gateway'.gen = gen
  BY Zenon, <1>1, <1>2, <1>3, NewGatewayShows
<1>5. QED  BY Zenon, <1>1, <1>2, <1>3, <1>4, ReachKept

(* Time passes only while every process may grow older, and the gateway's  *)
(* certificate is still valid after it.                                    *)
LEMMA ReachTick ==
    ASSUME ReachHypotheses, ReachInv, Tls!Tick
    PROVE  ReachInv'
<1>1. /\ nodes' = nodes /\ apps' = apps /\ gateway' = gateway /\ now' = now + 1 /\ now < MaxTime
      /\ Tls!cert_is_valid_for_at_least(gateway.cert, RenewBuffer)
  BY Zenon DEF Tls!Tick, Tls!RenewalIsDue
<1>2. /\ now \in Nat /\ MaxTime \in Nat /\ now' \in 0 .. MaxTime /\ RenewBuffer \in Nat
      /\ RenewBuffer >= 1 /\ RunUptime \in Nat /\ ProvisionUptime \in Nat /\ AppUptime \in Nat
  BY <1>1 DEF ReachInv, ReachHypotheses
<1>3. ShowsAt(gateway)'
  <2>1. ShowsAt(gateway)
    BY Zenon DEF ReachInv
  <2>2. gateway.cert.from <= now + 1 /\ now + 1 <= gateway.cert.to
    <3>1. gateway.cert.from \in Nat /\ gateway.cert.to \in Nat
      BY Zenon, <2>1 DEF ShowsAt
    <3>2. gateway.cert.from <= now /\ now + RenewBuffer <= gateway.cert.to
      BY Zenon, <1>1 DEF Tls!cert_is_valid_for_at_least, Tls!IsValidAt
    <3>3. QED  BY <1>2, <3>1, <3>2
  <2>3. QED  BY Zenon, <1>1, <2>1, <2>2 DEF ShowsAt, Tls!IsValidAt
<1>4. \A x : \A up \in Nat : AgeOf(x, up, now, gateway.gen) /\ now - x.born < up
                               => AgeOf(x, up, now + 1, gateway.gen)
  BY <1>2 DEF AgeOf
<1>5. ASSUME NEW n \in Nodes, nodes'[n] # None
      PROVE  MadeAt(n, nodes'[n]) /\ AgeAt(nodes[n], Uptime(nodes[n].mode))'
  <2>1. MadeAt(n, nodes[n]) /\ AgeOf(nodes[n], Uptime(nodes[n].mode), now, gateway.gen)
    BY Zenon, <1>1, <1>5 DEF ReachInv, AgeAt
  <2>2. now - nodes[n].born < Uptime(nodes[n].mode)
    BY Zenon, <1>1, <1>5 DEF Tls!Tick, Uptime
  <2>3. Uptime(nodes[n].mode) \in Nat
    BY <1>2 DEF Uptime
  <2>4. AgeOf(nodes[n], Uptime(nodes[n].mode), now + 1, gateway.gen)
    BY Zenon, <1>4, <2>1, <2>2, <2>3
  <2>5. QED  BY Zenon, <1>1, <2>1, <2>4 DEF AgeAt, Uptime
<1>6. ASSUME NEW u \in Users, apps'[u] # None
      PROVE  AppAt(u, apps'[u]) /\ AgeAt(apps[u], AppUptime)'
  <2>1. AppAt(u, apps[u]) /\ AgeOf(apps[u], AppUptime, now, gateway.gen)
    BY Zenon, <1>1, <1>6 DEF ReachInv, AgeAt
  <2>2. now - apps[u].born < AppUptime
    BY Zenon, <1>1, <1>6 DEF Tls!Tick
  <2>3. QED  BY Zenon, <1>1, <1>2, <1>4, <2>1, <2>2 DEF AgeAt
<1>7. DOMAIN nodes' = Nodes /\ DOMAIN apps' = Users
  BY Zenon, <1>1 DEF ReachInv
<1>8. QED  BY Zenon, <1>2, <1>3, <1>5, <1>6, <1>7 DEF ReachInv

LEMMA ReachInitial ==
    ASSUME ReachHypotheses, Tls!Init
    PROVE  ReachInv
<1>1. /\ now = 0 /\ nodes = [n \in Nodes |-> None] /\ apps = [u \in Users |-> None]
      /\ gateway = Tls!GatewayCert(DeployEnv, "old")
  BY Zenon DEF Tls!Init
<1>2. 0 \in 0 .. MaxTime /\ GatewayLifetime \in Nat
  BY DEF ReachHypotheses
<1>3. /\ gateway.env = DeployEnv /\ gateway.gen = "old" /\ gateway.ca = None
      /\ gateway.cert.from = now /\ gateway.cert.to = now + GatewayLifetime
      /\ gateway.cert.dns = Tls!GATEWAY_DNS /\ gateway.cert.issuer = Tls!lexe_ca_cert(DeployEnv, "old")
  BY <1>1 DEF Tls!GatewayCert, Tls!build_rcgen_cert
<1>4. Tls!IsValidAt(gateway.cert, now) /\ gateway.cert.from \in Nat /\ gateway.cert.to \in Nat
  BY <1>1, <1>2, <1>3 DEF Tls!IsValidAt
<1>5. "old" \in Tls!Generations
  BY DEF Tls!Generations
<1>6. ShowsAt(gateway)
  BY Zenon, <1>3, <1>4, <1>5 DEF ShowsAt
<1>7. QED  BY Zenon, <1>1, <1>2, <1>6 DEF ReachInv

LEMMA ReachInductive ==
    ASSUME ReachHypotheses, ReachInv, [Tls!Next]_(Tls!vars)
    PROVE  ReachInv'
<1>1. CASE \/ \E n \in Nodes, u \in Users, b \in Builds, g \in Tls!Generations : Tls!StartRun(n, u, b, g)
           \/ \E n \in Nodes, b \in Builds, g \in Tls!Generations : Tls!StartProvision(n, b, g)
  BY Zenon, <1>1, ReachStartNode DEF Tls!StartRun, Tls!StartProvision
<1>2. CASE \E u \in Users, g \in Tls!Generations : Tls!StartApp(u, g)
  BY Zenon, <1>2, ReachStartApp
<1>3. CASE \/ \E n \in Nodes : Tls!StopNode(n)
           \/ \E u \in Users : Tls!StopApp(u)
           \/ \E u \in Users, n \in Nodes : Tls!ConnectRun(u, n)
           \/ \E u \in Users, m \in Tls!Measurements, n \in Nodes : Tls!ConnectProvision(u, m, n)
           \/ UNCHANGED Tls!vars
  BY Zenon, <1>3, ReachStop
<1>4. CASE \/ Tls!RotateCa \/ Tls!RenewGateway
           \/ \E env \in OtherGateways \cup {DeployEnv} : Tls!ReachGateway(env)
  BY Zenon, <1>4, ReachNewGateway
<1>5. CASE Tls!Tick
  BY Zenon, <1>5, ReachTick
<1>6. QED  BY Zenon, <1>1, <1>2, <1>3, <1>4, <1>5 DEF Tls!Next

(* While processes restart within the lifetimes of their certificates, an  *)
(* app reaches its own running node and a provisioning node of the         *)
(* measurement that it asks for, and both reach Lexe, before, during and   *)
(* after a rotation of the CA, for any lifetimes that cover the uptimes.   *)
THEOREM OwnNodesAreReachable ==
    ASSUME ReachHypotheses
    PROVE  Tls!Spec => []Tls!OwnNodeIsReachable
<1>1. Tls!Init => ReachInv
  BY Zenon, ReachInitial
<1>2. ReachInv /\ [Tls!Next]_(Tls!vars) => ReachInv'
  BY Zenon, ReachInductive
<1>3. ReachInv => Tls!OwnNodeIsReachable
  BY Zenon, ReachGives
<1>4. QED  BY PTL, <1>1, <1>2, <1>3 DEF Tls!Spec

=============================================================================
