------------------------------ MODULE MCWallet ------------------------------
(***************************************************************************)
(* The onchain wallet: OnchainSends, and instances of WalletDb and         *)
(* FeeEstimates. A behaviour is one of the instance that `scenario` names; *)
(* the variables of OnchainSends are otherwise as they are initially,      *)
(* those of the other components None.                                     *)
(***************************************************************************)
EXTENDS OnchainSends, TLC

CONSTANTS
    Scenarios,   \* the scenarios that a run looks at
    t1, t2, c1, c2, t3, c3, s1, o1

VARIABLES
    scenario,    \* the component, and its instance, that a behaviour is about
    d, notifs, task, snapshot, file, db_node, wallet, unsaved, fees, latest,
    task_fee, balance, preflight, rates, quotes

Symmetry == Permutations({t1, t2}) \cup Permutations({c1, c2})

-----------------------------------------------------------------------------
(* Onchain sends: two that may replace each other; with failing requests;  *)
(* with reorgs and expiry.                                                 *)
Sends == INSTANCE OnchainSends WITH
    Coins <- {c1, c2}, Expiry <- FALSE, MaxReorgs <- 0, MaxFaults <- 0
SendFaults == INSTANCE OnchainSends WITH
    Coins <- {c3}, Expiry <- FALSE, MaxReorgs <- 0
SendReorgs == INSTANCE OnchainSends WITH
    Coins <- {c3}, MaxHeight <- 2, Bursts <- {1}, MaxFaults <- 0

-----------------------------------------------------------------------------
(* The wallet database: the batches of a sync; and batches of the          *)
(* operations that a sync does not need.                                   *)
dbVars == <<d, notifs, task, snapshot, file, db_node, wallet, unsaved>>

External(n) == [keychain |-> "External", child |-> n]
Internal(n) == [keychain |-> "Internal", child |-> n]
TwoPaths   == {External(0), Internal(0)}

LOCAL D == INSTANCE WalletDb WITH
    Paths <- {External(0)}, Scripts <- {s1}, Outpoints <- {}, Txids <- {t3},
    Times <- {}, Batches <- {}, DirectOps <- {}, MaxIndex <- 0,
    ChannelSize <- 1, PersistErrors <- FALSE, Crashes <- FALSE,
    node <- db_node
(* The batches of a wallet sync: they add a transaction and its output, or *)
(* remove them.  The sync time is set outside of a batch.                  *)
SetTx == [op |-> "SetTx", tx |-> [txid |-> t3, conf |-> c3, raw |-> TRUE]]
SyncBatches ==
    {D!begin_batch,
     D!queue(D!queue(D!begin_batch, SetTx), [op |-> "SetUtxo", outpoint |-> o1]),
     D!queue(D!queue(D!begin_batch, [op |-> "DelUtxo", outpoint |-> o1]),
             [op |-> "DelTx", txid |-> t3, include_raw |-> FALSE])}
SyncTimeOps == {[op |-> "SetSyncTime", time |-> c3]}

Db == INSTANCE WalletDb WITH
    Scripts <- {s1}, Outpoints <- {o1}, Txids <- {t3}, Times <- {c3},
    MaxIndex <- 1, Paths <- TwoPaths, Batches <- SyncBatches,
    DirectOps <- SyncTimeOps, ChannelSize <- 2, PersistErrors <- TRUE,
    Crashes <- TRUE, node <- db_node
DbOps == INSTANCE WalletDb WITH
    Scripts <- {s1}, Outpoints <- {}, Txids <- {t3}, Times <- {},
    MaxIndex <- 0, Paths <- {External(0)},
    Batches <- {D!queue(D!begin_batch, o) : o \in D!DbOp}, DirectOps <- {},
    ChannelSize <- 1, PersistErrors <- FALSE, Crashes <- FALSE,
    node <- db_node

NoDb ==
    /\ d = None /\ notifs = None /\ task = None /\ snapshot = None
    /\ file = None /\ db_node = None /\ wallet = None /\ unsaved = None

-----------------------------------------------------------------------------
(* Fee estimates: any that Esplora may answer; quotes from those that do   *)
(* not rise.                                                               *)
feeVars == <<fees, latest, task_fee, balance, preflight, rates, quotes>>

AnyEstimates == UNION {[S -> {1, 20}] : S \in SUBSET {1, 3, 25, 144}}
FallingEstimates ==
    {e \in UNION {[S -> {1, 2, 20}] : S \in SUBSET {1, 3, 25}} :
        1 \in DOMAIN e /\ \A j, k \in DOMAIN e : j < k => e[j] >= e[k]}

Fees == INSTANCE FeeEstimates WITH
    Estimates <- AnyEstimates, Balances <- {6000}, Weights <- {1},
    DustChange <- {0}, task <- task_fee
Quotes == INSTANCE FeeEstimates WITH
    Estimates <- FallingEstimates, Balances <- {600, 12000},
    Weights <- {1, 2}, DustChange <- {0, 300}, task <- task_fee

NoFee ==
    /\ fees = None /\ latest = None /\ task_fee = None /\ balance = None
    /\ preflight = None /\ rates = None /\ quotes = None

-----------------------------------------------------------------------------
mcVars == <<scenario, vars, dbVars, feeVars>>

notOnchain == <<scenario, dbVars, feeVars>>
notDb == <<scenario, vars, feeVars>>
notFee == <<scenario, vars, dbVars>>

MCInit ==
    /\ scenario \in Scenarios /\ Init
    /\ \/ scenario \in {"sends", "send_faults", "send_reorgs"}
       \/ scenario = "wallet_db" /\ Db!Init
       \/ scenario = "wallet_ops" /\ DbOps!Init
       \/ scenario = "fees" /\ Fees!Init
       \/ scenario = "quotes" /\ Quotes!Init
    /\ scenario \in {"wallet_db", "wallet_ops"} \/ NoDb
    /\ scenario \in {"fees", "quotes"} \/ NoFee

MCNext ==
    \/ scenario = "sends" /\ Sends!Next /\ UNCHANGED notOnchain
    \/ scenario = "send_faults" /\ SendFaults!Next /\ UNCHANGED notOnchain
    \/ scenario = "send_reorgs" /\ SendReorgs!Next /\ UNCHANGED notOnchain
    \/ scenario = "wallet_db" /\ Db!Next /\ UNCHANGED notDb
    \/ scenario = "wallet_ops" /\ DbOps!Next /\ UNCHANGED notDb
    \/ scenario = "fees" /\ Fees!Next /\ UNCHANGED notFee
    \/ scenario = "quotes" /\ Quotes!Next /\ UNCHANGED notFee

MCSpec == MCInit /\ [][MCNext]_mcVars

-----------------------------------------------------------------------------
(* Properties. *)

(* Every committed batch is in the file, or a notification is waiting, or  *)
(* a persist of it is under way: a batch that is committed while the       *)
(* persister task writes, or while its channel is full, is not forgotten   *)
(* (wallet/mod.rs, wallet/db/mod.rs).                                      *)
CommitsAreNoticed ==
    /\ scenario = "wallet_db" => Db!TypeOK /\ Db!CommitsAreNoticed
    /\ scenario = "wallet_ops" => DbOps!CommitsAreNoticed

(* Whatever Esplora leaves out, each cached rate is that of the largest    *)
(* target within the desired one; and the quotes of one answer are for the *)
(* rates of one refresh, so that a lower priority is quoted more only      *)
(* because of the tx that coin selection built for it (esplora.rs,         *)
(* wallet/mod.rs).                                                         *)
FeesAreOrdered ==
    /\ scenario = "fees" => Fees!TypeOK /\ Fees!CacheIsReference
    /\ scenario = "quotes" => Quotes!QuotesAreOrdered
=============================================================================
