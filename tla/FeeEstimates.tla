---------------------------- MODULE FeeEstimates ----------------------------
(***************************************************************************)
(* The cached fee rates of LexeEsplora (lexe-ln/src/esplora.rs): initial   *)
(* refresh, periodic refresh, and the quotes that preflight_pay_onchain    *)
(* computes from them (lexe-ln/src/wallet/mod.rs).                         *)
(*                                                                         *)
(* Rates are whole sat/vB.  A quote is the fee of a tx that BDK builds at a*)
(* rate: the rate times the weight, which depends on the coins selected,   *)
(* plus the change, where that is too little to be an output.              *)
(***************************************************************************)
EXTENDS Integers, Sequences, FiniteSets, SequencesExt

CONSTANTS
    Estimates,    \* what get_fee_estimates may return: functions from numbers of blocks to rates
    Balances,     \* what the wallet may hold, in fee units
    Weights,      \* what a tx may weigh
    DustChange,   \* the change that may be left to the fee, 0 with an output
    None

VARIABLES
    fees,      \* the four AtomicU32s, in sats per 1000 weight
    latest,    \* the estimates of the last successful refresh, or None
    task,      \* the refresh task: "unborn", "ticking", "refreshing", "ended"
    balance,   \* the wallet's balance beyond the amount to be sent
    preflight, \* "idle", "locking", "answered", "failed"
    rates,     \* what the preflight read before it waited for the wallet
    quotes     \* its answer: the tx per priority, None for one that was left out

vars == <<fees, latest, task, balance, preflight, rates, quotes>>

FloorSatsPerKw   == 253        \* FEERATE_FLOOR_SATS_PER_KW, LDK
ConfirmationTargets == {"HighPriority", "Normal", "Background", "MempoolMinimum"}
Priorities == {"HighPriority", "Normal", "Background"}

NumBlocksTarget ==
    [HighPriority |-> 1, Normal |-> 3, Background |-> 72, MempoolMinimum |-> 1008]

(* Sorts the pairs by descending target and takes the first that fits. *)
convert_fee_rate(target, estimates) ==
    LET pairs == SetToSortSeq(DOMAIN estimates, >)
        fit   == SelectSeq(pairs, LAMBDA k : k <= target)
    IN  IF fit = <<>> THEN 1 ELSE estimates[Head(fit)]

(* refresh_single_fee_estimate: 1000 weight are 250 vbytes. *)
SatsPerKw(conf_target, estimates) ==
    LET rate == 250 * convert_fee_rate(NumBlocksTarget[conf_target], estimates)
    IN  IF rate < FloorSatsPerKw THEN FloorSatsPerKw ELSE rate

refresh_all_fee_estimates(estimates) ==
    /\ fees' = [c \in ConfirmationTargets |-> SatsPerKw(c, estimates)]
    /\ latest' = estimates

Tx == [rate : {250 * r : r \in 1..20} \cup {FloorSatsPerKw}, weight : Weights, dust : DustChange]
FeeOf(tx) == tx.rate * tx.weight + tx.dust

-----------------------------------------------------------------------------
TypeOK ==
    /\ DOMAIN fees = ConfirmationTargets
    /\ \A c \in ConfirmationTargets : fees[c] \in Nat /\ fees[c] >= FloorSatsPerKw
    /\ latest = None \/ latest \in Estimates
    /\ task \in {"unborn", "ticking", "refreshing", "ended"}
    /\ balance \in Balances
    /\ preflight \in {"idle", "locking", "answered", "failed"}
    /\ rates \in [Priorities -> Nat]
    /\ quotes \in [Priorities -> Tx \cup {None}]

NoRates  == [p \in Priorities |-> 0]
NoQuotes == [p \in Priorities |-> None]

(* The "sane default values" of LexeEsplora::init. *)
Init ==
    /\ fees = [HighPriority |-> 13000, Normal |-> 6000,
               Background |-> 1000, MempoolMinimum |-> FloorSatsPerKw]
    /\ latest = None
    /\ task = "unborn"
    /\ balance \in Balances
    /\ preflight = "idle" /\ rates = NoRates /\ quotes = NoQuotes

(* LexeEsplora::init returns only after a successful refresh, and then     *)
(* there is a task; an error is an error of the node's init.               *)
InitEsplora ==
    /\ task = "unborn"
    /\ \/ \E e \in Estimates : refresh_all_fee_estimates(e) /\ task' = "ticking"
       \/ task' = "ended" /\ UNCHANGED <<fees, latest>>
    /\ UNCHANGED <<balance, preflight, rates, quotes>>

(* spawn_refresh_fees_task *)
Tick ==
    /\ task = "ticking" /\ task' = "refreshing"
    /\ UNCHANGED <<fees, latest, balance, preflight, rates, quotes>>

RefreshDone ==
    /\ task = "refreshing" /\ task' = "ticking"
    /\ \/ \E e \in Estimates : refresh_all_fee_estimates(e)
       \/ UNCHANGED <<fees, latest>>
    /\ UNCHANGED <<balance, preflight, rates, quotes>>

ShutdownSeen ==
    /\ task \in {"ticking", "refreshing"} /\ task' = "ended"
    /\ UNCHANGED <<fees, latest, balance, preflight, rates, quotes>>

(* A sync, or another send, changes what the wallet can spend. *)
BalanceChanges ==
    /\ balance' \in Balances
    /\ UNCHANGED <<fees, latest, task, preflight, rates, quotes>>

-----------------------------------------------------------------------------
(* get_bdk_feerate and get_est_sat_per_1000_weight: one atomic load. *)
get_bdk_feerate(conf_target) == fees[conf_target]

(* preflight_pay_onchain reads the three rates, then waits for the wallet. *)
PreflightStarts ==
    /\ preflight \in {"idle", "answered", "failed"} /\ latest # None
    /\ rates' = [p \in Priorities |-> get_bdk_feerate(p)]
    /\ preflight' = "locking" /\ quotes' = NoQuotes
    /\ UNCHANGED <<fees, latest, task, balance>>

(* preflight_pay_onchain_inner: a build selects its own coins, and fails if*)
(* the wallet cannot pay.                                                  *)
preflight_pay_onchain_inner(rate) ==
    {IF FeeOf(tx) <= balance THEN tx ELSE None :
        tx \in [rate : {rate}, weight : Weights, dust : DustChange]}

(* MUTANT of PreflightAnswers: the high rate is read under the lock. *)
MutReadsHighLate ==
    /\ preflight = "locking"
    /\ \E high \in preflight_pay_onchain_inner(get_bdk_feerate("HighPriority")),
          normal \in preflight_pay_onchain_inner(rates["Normal"]),
          background \in preflight_pay_onchain_inner(rates["Background"]) :
        IF None \in {normal, background}
        THEN preflight' = "failed" /\ UNCHANGED quotes
        ELSE /\ preflight' = "answered"
             /\ quotes' = [HighPriority |-> high, Normal |-> normal, Background |-> background]
    /\ rates' = NoRates
    /\ UNCHANGED <<fees, latest, task, balance>>

(* Under the lock: normal and background must be affordable; high priority *)
(* is left out if it is not.                                               *)
PreflightAnswers ==
    /\ preflight = "locking"
    /\ \E high \in preflight_pay_onchain_inner(rates["HighPriority"]),
          normal \in preflight_pay_onchain_inner(rates["Normal"]),
          background \in preflight_pay_onchain_inner(rates["Background"]) :
        IF None \in {normal, background}
        THEN preflight' = "failed" /\ UNCHANGED quotes
        ELSE /\ preflight' = "answered"
             /\ quotes' = [HighPriority |-> high, Normal |-> normal, Background |-> background]
    /\ rates' = NoRates
    /\ UNCHANGED <<fees, latest, task, balance>>

Next ==
    \/ InitEsplora \/ Tick \/ RefreshDone \/ ShutdownSeen
    \/ BalanceChanges \/ PreflightStarts \/ PreflightAnswers

Spec == Init /\ [][Next]_vars

-----------------------------------------------------------------------------
(* Properties                                                              *)

(* The doc of convert_fee_rate, as a definition: the rate of the largest   *)
(* target that is at most the desired one, or 1 if there is none.          *)
ReferenceRate(target, e) ==
    IF \E k \in DOMAIN e : k <= target
    THEN e[CHOOSE k \in DOMAIN e : k <= target /\ \A j \in DOMAIN e : j <= target => j <= k]
    ELSE 1

(* Whatever Esplora leaves out, each cached rate is that of the reference, *)
(* raised to the floor that LDK requires.                                  *)
CacheIsReference ==
    latest # None =>
        \A c \in ConfirmationTargets :
            LET r == 250 * ReferenceRate(NumBlocksTarget[c], latest)
            IN  fees[c] = IF r < FloorSatsPerKw THEN FloorSatsPerKw ELSE r

(* The quotes of one answer are for rates of one refresh, although rates   *)
(* are refreshed while the call waits for the wallet.  If Esplora's        *)
(* estimates do not rise with the number of blocks, and name a rate for the*)
(* next block, a lower priority is therefore quoted more only if its tx    *)
(* happens to be heavier or to leave more change to the fee.               *)
QuotesAreOrdered ==
    preflight = "answered" =>
        /\ quotes["Normal"] # None /\ quotes["Background"] # None
        /\ \E e \in Estimates :
              \A p \in Priorities : quotes[p] # None => quotes[p].rate = SatsPerKw(p, e)
        /\ \A x \in {<<"HighPriority", "Normal">>, <<"Normal", "Background">>} :
              LET hi == quotes[x[1]]
                  lo == quotes[x[2]]
              IN  hi # None /\ FeeOf(lo) > FeeOf(hi) => lo.weight > hi.weight \/ lo.dust > hi.dust
=============================================================================
