---------------------------- MODULE OnchainSends ----------------------------
(***************************************************************************)
(* An onchain send from pay_onchain to its final record, against a chain   *)
(* that changes between any two requests.                                  *)
(*                                                                         *)
(*   pay_onchain       lexe-ln/src/command.rs                              *)
(*   the wallet        lexe-ln/src/wallet/mod.rs, coins as of the last     *)
(*                     sync of BDK                                         *)
(*   the confs checker PaymentsManager::check_onchain_confs with           *)
(*                     LexeEsplora::get_tx_conf_statuses, request by       *)
(*                     request                                             *)
(*                                                                         *)
(* The state machine of one record is that of module Payments.  Locking    *)
(* and persisting of records is the subject of PaymentsManager: here a     *)
(* record changes in one step, or the step fails.                          *)
(***************************************************************************)
EXTENDS Payments, Integers

CONSTANTS
    Coins,        \* the outputs of the wallet
    MaxHeight,    \* bound: height of the chain
    Bursts,       \* bound: how many blocks may be found at once
    Expiry,       \* whether 14 days may go by (an instance without is smaller)
    MaxReorgs,    \* bound: how often the last block is replaced
    MaxFaults     \* bound: failed requests, lost replies and crashes

Txs == RpTxids    \* every send has one tx; sends that share a coin replace one another

VARIABLES
    call,      \* per send: how far pay_onchain has got
    inputs,    \* per send: the coins its tx spends
    rec,       \* per send: its record, or None
    seen,      \* the txs that BDK knew of at its last sync
    aged,      \* the sends made more than BITCOIN_CORE_MEMPOOL_EXPIRY ago
    mempool,   \* Esplora: unconfirmed txs
    height,    \* Esplora: per tx, the height of its block, or 0
    tip,       \* Esplora: height of the best block
    check,     \* the confs checker: "idle", "height", "queries"
    ids,       \* the checker: sends it queries
    now,       \* the checker: which of them were aged when it started
    best,      \* the checker: best_height
    todo,      \* the checker: per send, requests that are not answered yet
    spenders,  \* the checker: per send, answers about spent inputs
    result,    \* the checker: per send, its TxConfStatus, or None
    reorgs, faults

chain   == <<mempool, height, tip, reorgs>>
node    == <<call, inputs, rec, seen, aged>>
checker == <<check, ids, now, best, todo, spenders, result>>
vars    == <<chain, node, checker, faults>>

Heights == 1..MaxHeight
Spender == [txid : Txs, height : Heights]
Status  == "tx status"       \* the request GET /tx/:txid/status

TypeOK ==
    /\ call \in [Txs -> {"idle", "created", "registered", "sent", "done", "failed"}]
    /\ inputs \in [Txs -> SUBSET Coins]
    /\ \A t \in Txs : rec[t] = None \/ rec[t] \in Payment
    /\ seen \subseteq Txs /\ aged \subseteq Txs /\ mempool \subseteq Txs
    /\ height \in [Txs -> 0..MaxHeight] /\ tip \in 0..MaxHeight
    /\ check \in {"idle", "height", "queries"}
    /\ ids \subseteq Txs /\ now \subseteq Txs /\ best \in 0..MaxHeight
    /\ todo \in [Txs -> SUBSET (Coins \cup {Status})]
    /\ spenders \in [Txs -> SUBSET Spender]
    /\ \A t \in Txs : result[t] = None \/ result[t] \in TxConfStatus(Heights)
    /\ reorgs \in 0..MaxReorgs /\ faults \in 0..MaxFaults

Init ==
    /\ call = [t \in Txs |-> "idle"]
    /\ inputs = [t \in Txs |-> {}]
    /\ rec = [t \in Txs |-> None]
    /\ seen = {} /\ aged = {} /\ mempool = {}
    /\ height = [t \in Txs |-> 0] /\ tip = 0
    /\ check = "idle" /\ ids = {} /\ now = {} /\ best = 0
    /\ todo = [t \in Txs |-> {}]
    /\ spenders = [t \in Txs |-> {}]
    /\ result = [t \in Txs |-> None]
    /\ reorgs = 0 /\ faults = 0

Conflict(t, u)  == t # u /\ inputs[t] \cap inputs[u] # {}
InChain(t)      == height[t] > 0
Confs(t)        == IF InChain(t) THEN tip - height[t] + 1 ELSE 0

-----------------------------------------------------------------------------
(* The chain, as Esplora serves it.                                        *)

(* Esplora takes the tx if the chain does not spend its coins; what it     *)
(* replaces leaves the mempool, since every tx is built with RBF enabled.  *)
EsploraAccepts(t) ==
    /\ \A u \in Txs : Conflict(t, u) => ~InChain(u)
    /\ mempool' = {u \in mempool : ~Conflict(t, u)} \cup {t}

Includes(S, h) ==
    /\ \A t, u \in S : ~Conflict(t, u)
    /\ height' = [t \in Txs |-> IF t \in S THEN h ELSE height[t]]
    /\ mempool' = {u \in mempool \ S : \A t \in S : ~Conflict(t, u)}

MineBlocks ==
    /\ \E n \in Bursts : \E S \in SUBSET mempool :
          tip + n <= MaxHeight /\ tip' = tip + n /\ Includes(S, tip + 1)
    /\ UNCHANGED <<node, checker, reorgs, faults>>

(* The last block is replaced by one with other transactions. *)
Reorg ==
    LET out == {t \in Txs : InChain(t) /\ height[t] = tip} IN
    /\ reorgs < MaxReorgs /\ tip > 0 /\ reorgs' = reorgs + 1
    /\ \E S \in SUBSET (mempool \cup out) :
        /\ \A t, u \in S : ~Conflict(t, u)
        /\ height' = [t \in Txs |-> IF t \in S THEN tip ELSE IF t \in out THEN 0 ELSE height[t]]
        /\ mempool' = {u \in (mempool \cup out) \ S : \A t \in S : ~Conflict(t, u)}
    /\ UNCHANGED <<node, checker, tip, faults>>

-----------------------------------------------------------------------------
(* pay_onchain                                                             *)

Fault == faults < MaxFaults /\ faults' = faults + 1

(* LexeWallet::sync. *)
SyncWallet ==
    /\ seen' = mempool \cup {t \in Txs : InChain(t)}
    /\ seen' # seen
    /\ UNCHANGED <<chain, call, inputs, rec, aged, checker, faults>>

(* create_onchain_send: BDK selects among the coins that it has not seen   *)
(* spent; building a tx does not mark its inputs as spent.                 *)
Unspent == Coins \ UNION {inputs[t] : t \in seen}

create_onchain_send(t) ==
    /\ call[t] = "idle"
    /\ \E S \in SUBSET Unspent \ {{}} :
          inputs' = [inputs EXCEPT ![t] = S]
    /\ call' = [call EXCEPT ![t] = "created"]
    /\ UNCHANGED <<chain, rec, seen, aged, checker, faults>>

(* payments_manager.new_payment, the first of two writes. *)
RegisterSend(t) ==
    /\ call[t] = "created"
    /\ rec' = [rec EXCEPT ![t] = NewOnchainSend(None)]
    /\ call' = [call EXCEPT ![t] = "registered"]
    /\ UNCHANGED <<chain, inputs, seen, aged, checker, faults>>

(* esplora.broadcast_tx. *)
BroadcastTx(t) ==
    /\ call[t] = "registered"
    /\ EsploraAccepts(t)
    /\ \/ call' = [call EXCEPT ![t] = "sent"] /\ UNCHANGED faults
       \/ call' = [call EXCEPT ![t] = "failed"] /\ Fault   \* the reply is lost
    /\ UNCHANGED <<inputs, rec, seen, aged, height, tip, reorgs, checker>>

(* payments_manager.onchain_send_broadcasted, which may also reject. *)
RegisterBroadcast(t) ==
    /\ call[t] = "sent"
    /\ IF broadcasted(rec[t]) = None
       THEN call' = [call EXCEPT ![t] = "failed"] /\ UNCHANGED rec
       ELSE call' = [call EXCEPT ![t] = "done"]
              /\ rec' = [rec EXCEPT ![t] = broadcasted(rec[t])]
    /\ UNCHANGED <<chain, inputs, seen, aged, checker, faults>>

(* A step of pay_onchain fails without an effect: a refused tx, or a       *)
(* record that could not be persisted.                                     *)
PayOnchainFails(t) ==
    /\ call[t] \in {"created", "registered", "sent"}
    /\ call' = [call EXCEPT ![t] = "failed"]
    /\ IF call[t] = "registered" THEN UNCHANGED faults ELSE Fault
    /\ UNCHANGED <<chain, inputs, rec, seen, aged, checker>>

(* 14 days go by. *)
Age(t) ==
    /\ Expiry /\ rec[t] # None /\ t \notin aged
    /\ aged' = aged \cup {t}
    /\ UNCHANGED <<chain, call, inputs, rec, seen, checker, faults>>

-----------------------------------------------------------------------------
(* check_onchain_confs and get_tx_conf_statuses                            *)

CheckerIdles ==
    /\ check' = "idle" /\ ids' = {} /\ now' = {} /\ best' = 0
    /\ todo' = [t \in Txs |-> {}]
    /\ spenders' = [t \in Txs |-> {}]
    /\ result' = [t \in Txs |-> None]

(* Snapshot of the pending sends under the lock, then the current time. *)
StartCheck ==
    /\ check = "idle"
    /\ ids' = {t \in Txs : rec[t] # None /\ IsPending(rec[t])} /\ ids' # {}
    /\ now' = aged \cap ids'
    /\ check' = "height"
    /\ UNCHANGED <<chain, node, best, todo, spenders, result, faults>>

(* MUTANT of GetHeight: the height of a block that is still to come. *)
MutHeightAhead ==
    /\ check = "height"
    /\ check' = "queries" /\ best' = IF tip < MaxHeight THEN tip + 1 ELSE tip
    /\ todo' = [t \in Txs |-> IF t \in ids THEN {Status} ELSE {}]
    /\ UNCHANGED <<chain, node, ids, now, spenders, result, faults>>

GetHeight ==
    /\ check = "height"
    /\ check' = "queries" /\ best' = tip
    /\ todo' = [t \in Txs |-> IF t \in ids THEN {Status} ELSE {}]
    /\ UNCHANGED <<chain, node, ids, now, spenders, result, faults>>

(* get_tx_status.  In a block: the number of confirmations, or the whole   *)
(* check fails (checked_sub).  Not in a block: ask for the inputs.         *)
GetTxStatus(t) ==
    /\ check = "queries" /\ Status \in todo[t]
    /\ IF InChain(t) /\ height[t] > best
       THEN CheckerIdles
       ELSE /\ todo' = [todo EXCEPT ![t] = IF InChain(t) THEN {} ELSE inputs[t]]
            /\ result' = [result EXCEPT ![t] =
                  IF InChain(t) THEN [type |-> "InBestChain", confs |-> best - height[t] + 1]
                  ELSE None]
            /\ UNCHANGED <<check, ids, now, best, spenders>>
    /\ UNCHANGED <<chain, node, faults>>

(* The confirmed replacements; a spender above best_height is filtered out. *)
Replacements(found, best_height) ==
    {[type |-> "HasReplacement", rp_txid |-> s.txid, confs |-> best_height - s.height + 1] :
        s \in {x \in found : x.height <= best_height}}

(* What get_tx_conf_status may return for a tx that was not in a block:    *)
(* the most confirmed replacement (any of several), Dropped, or ZeroConf.  *)
ConfStatusOf(t, found) ==
    LET rs == Replacements(found, best) IN
    IF rs # {} THEN {r \in rs : \A s \in rs : r.confs >= s.confs}
    ELSE IF t \in now THEN {[type |-> "Dropped"]} ELSE {[type |-> "ZeroConf"]}

(* get_output_status of one input, answered with its spender if that is in *)
(* a block; the last answer decides.                                       *)
GetOutputStatus(t, c) ==
    LET by == {u \in Txs : InChain(u) /\ c \in inputs[u]}
        found == spenders[t] \cup {[txid |-> u, height |-> height[u]] : u \in by}
    IN
    /\ check = "queries" /\ c \in todo[t] \ {Status}
    /\ todo' = [todo EXCEPT ![t] = @ \ {c}]
    /\ spenders' = [spenders EXCEPT ![t] = found]
    /\ IF todo'[t] = {} THEN \E r \in ConfStatusOf(t, found) : result' = [result EXCEPT ![t] = r]
       ELSE UNCHANGED result
    /\ UNCHANGED <<chain, node, check, ids, now, best, faults>>

(* PaymentsData::check_onchain_confs, persist_payment_batch, commit. *)
ApplyConfs ==
    /\ check = "queries" /\ \A t \in ids : result[t] # None
    /\ rec' = [t \in Txs |->
          IF t \notin ids \/ CheckOnchainConf(rec[t], result[t]) = None THEN rec[t]
          ELSE CheckOnchainConf(rec[t], result[t])]
    /\ CheckerIdles
    /\ UNCHANGED <<chain, call, inputs, seen, aged, faults>>

(* Any request of the checker, or the persist of its batch, fails. *)
CheckFails ==
    /\ check # "idle" /\ Fault
    /\ CheckerIdles
    /\ UNCHANGED <<chain, node>>

(* Calls and the checker are gone; records and the wallet were persisted. *)
Crash ==
    /\ Fault
    /\ call' = [t \in Txs |->
          IF call[t] \in {"created", "registered", "sent"} THEN "failed" ELSE call[t]]
    /\ CheckerIdles
    /\ UNCHANGED <<chain, inputs, rec, seen, aged>>

PayOnchain(t) ==
    \/ create_onchain_send(t) \/ RegisterSend(t) \/ BroadcastTx(t)
    \/ RegisterBroadcast(t) \/ PayOnchainFails(t) \/ Age(t)

Checker ==
    \/ StartCheck \/ GetHeight \/ ApplyConfs
    \/ \E t \in Txs : GetTxStatus(t) \/ \E c \in Coins : GetOutputStatus(t, c)

Next ==
    \/ MineBlocks \/ Reorg \/ SyncWallet
    \/ \E t \in Txs : PayOnchain(t)
    \/ Checker \/ CheckFails \/ Crash

Spec == Init /\ [][Next]_vars

-----------------------------------------------------------------------------
(* Properties                                                              *)

(* command.rs, NOTE in pay_onchain: no tx was sent of which the node has   *)
(* no record, whatever fails or crashes.                                   *)
SentIsRecorded ==
    \A t \in Txs : (t \in mempool \/ InChain(t)) => rec[t] # None

(* The checker runs while pay_onchain waits for Esplora, and may find the  *)
(* tx confirmed or replaced before the broadcast is registered.  The       *)
(* record is then still one for which `broadcasted` does not bail.         *)
BroadcastIsAccepted ==
    \A t \in Txs : call[t] = "sent" => broadcasted(rec[t]) # None

(* Until a reorg, a final record is true for the chain: FullyConfirmed     *)
(* has its confirmations, FullyReplaced a replacement that has them.       *)
FinalIsTrue ==
    \A t \in Txs : rec[t] # None =>
        /\ rec[t].status = "FullyConfirmed" => Confs(t) >= ConfirmationThreshold
        /\ rec[t].status = "FullyReplaced" =>
              \E u \in Txs : Conflict(t, u) /\ Confs(u) >= ConfirmationThreshold

(* esplora.rs, doc of HasReplacement: the input is "being spent by another *)
(* tx".  Holds without reorgs, although the tx may be mined between the    *)
(* request for its status and the ones for its inputs.                     *)
ReplacementIsAnother ==
    \A t \in Txs : rec[t] # None => rec[t].replacement # t

(* onchain.rs, doc of Created: "hasn't been broadcasted yet".  Unless its  *)
(* pay_onchain still runs, a Created record has no tx on the network.      *)
CreatedIsUnsent ==
    \A t \in Txs :
        (rec[t] # None /\ call[t] \notin {"registered", "sent"} /\ rec[t].status = "Created")
            => t \notin mempool /\ ~InChain(t)

(* esplora.rs, get_tx_conf_status: a spender above best_height is "a rare  *)
(* but acceptable race; try again later".  A check that met one must not   *)
(* end in the final status Dropped.                                        *)
RaceIsTriedAgain ==
    \A t \in Txs :
        (result[t] # None /\ spenders[t] # {}) => result[t].type # "Dropped"

(* The records of onchain sends are true for a chain that moves between    *)
(* the requests of a check: nothing is sent without a record, a record     *)
(* that the checker changed meanwhile still accepts the broadcast, and     *)
(* until a reorg, a final status has its confirmations and a replacement   *)
(* is another tx (command.rs, esplora.rs, onchain.rs).                     *)
RecordsAreTrue ==
    /\ TypeOK /\ SentIsRecorded /\ BroadcastIsAccepted
    /\ reorgs = 0 => FinalIsTrue /\ ReplacementIsAnother
=============================================================================
