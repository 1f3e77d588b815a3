----------------------------- MODULE WalletProofs -----------------------------
(***************************************************************************)
(* Proofs about the onchain wallet.  OnchainSends: for any sends and       *)
(* coins, chains of any height, and any number of failed requests, lost    *)
(* replies and crashes.  WalletDb, as the instance Db: for any operations  *)
(* and batches of BDK, any capacity of the channel, and any failed         *)
(* persists and crashes.                                                   *)
(***************************************************************************)
EXTENDS OnchainSends, TLAPS

(* The request for the status of a tx is not one for an output. *)
StatusIsNoCoin == Status \notin Coins

(* Blocks are found one or several at a time. *)
BlocksAreCounted == Bursts \subseteq Nat \ {0}

(* The types, without the bounds of TypeOK. *)
Types ==
    /\ call \in [Txs -> {"idle", "created", "registered", "sent", "done", "failed"}]
    /\ inputs \in [Txs -> SUBSET Coins]
    /\ rec \in [Txs -> Payment \cup {None}]
    /\ mempool \subseteq Txs /\ ids \subseteq Txs
    /\ height \in [Txs -> Nat] /\ tip \in Nat /\ best \in Nat /\ reorgs \in Nat
    /\ todo \in [Txs -> SUBSET (Coins \cup {Status})]
    /\ spenders \in [Txs -> SUBSET [txid : Txs, height : Nat]]
    /\ result \in [Txs -> TxConfStatus(Nat) \cup {None}]

(* The calls: a send is on record before its tx leaves the node, and is    *)
(* Created until pay_onchain has registered its broadcast.                 *)
CallAt(t) ==
    /\ call[t] = "idle" => inputs[t] = {}
    /\ call[t] \in {"idle", "created"} => rec[t] = None
    /\ call[t] \in {"idle", "created", "registered"} => t \notin mempool /\ height[t] = 0
    /\ call[t] \in {"registered", "sent"} => rec[t] # None /\ rec[t].status = "Created"
    /\ t \in mempool \/ height[t] > 0 => rec[t] # None
    /\ rec[t] # None => rec[t].kind = "OnchainSend"

(* The checker is about records that are pending, and nobody else makes    *)
(* them final.                                                             *)
CheckAt(t) ==
    t \in ids => rec[t] # None /\ IsPending(rec[t])

(* What holds of every send, with reorgs too. *)
SendInv == Types /\ \A t \in Txs : CallAt(t) /\ CheckAt(t)

(* Until a reorg: a tx is in the mempool or in the chain, and stays where  *)
(* it is in the chain.                                                     *)
ChainAt(t) ==
    /\ height[t] <= tip
    /\ t \in mempool => height[t] = 0

(* What the checker has been told is still true. *)
AnswersAt(t) ==
    /\ Status \in todo[t] => todo[t] = {Status} /\ result[t] = None /\ spenders[t] = {}
    /\ Status \notin todo[t] => todo[t] \subseteq inputs[t]
    /\ todo[t] # {} \/ spenders[t] # {} \/ result[t] # None => t \in ids /\ check = "queries"
    /\ Status \notin todo[t] /\ (todo[t] # {} \/ spenders[t] # {}) =>
          height[t] = 0 \/ height[t] > best
    /\ \A s \in spenders[t] :
          s.height > 0 /\ s.height = height[s.txid] /\ inputs[s.txid] \cap inputs[t] # {}

(* What it concludes from the answers is true of the chain. *)
ResultAt(t) ==
    result[t] # None =>
        /\ result[t].type = "InBestChain" =>
              0 < height[t] /\ height[t] <= best /\ result[t].confs = best - height[t] + 1
        /\ result[t].type = "HasReplacement" =>
              LET u == result[t].rp_txid IN
              /\ u \in Txs /\ Conflict(t, u)
              /\ 0 < height[u] /\ height[u] <= best /\ result[t].confs = best - height[u] + 1

ChainInv ==
    /\ SendInv
    /\ best <= tip
    /\ \A t \in Txs : ChainAt(t) /\ AnswersAt(t) /\ ResultAt(t)
    /\ FinalIsTrue /\ ReplacementIsAnother

-----------------------------------------------------------------------------
(* The transitions of one record. *)

LEMMA SendStatuses ==
    {"Created", "Broadcasted", "ReplacementBroadcasted", "PartiallyConfirmed",
     "PartiallyReplaced", "FullyConfirmed", "FullyReplaced", "Dropped"} \subseteq Statuses
BY Zenon DEF Statuses, OnchainSendStatus

LEMMA Created ==
    /\ NewOnchainSend(None) \in Payment /\ NewOnchainSend(None).kind = "OnchainSend"
    /\ NewOnchainSend(None).status = "Created" /\ NewOnchainSend(None).replacement = None
<1>1. "OnchainSend" \in Kinds /\ "Created" \in Statuses
  BY Zenon, SendStatuses DEF Kinds
<1>2. QED  BY Zenon, <1>1 DEF NewOnchainSend, NewPayment, Payment

LEMMA Broadcasted ==
    ASSUME NEW p \in Payment
    PROVE  broadcasted(p) # None =>
              /\ broadcasted(p) \in Payment /\ broadcasted(p).kind = "OnchainSend"
              /\ broadcasted(p).status = "Broadcasted"
              /\ broadcasted(p).replacement = p.replacement
<1>1. /\ To(p, "Broadcasted") \in Payment /\ To(p, "Broadcasted").kind = p.kind
      /\ To(p, "Broadcasted").status = "Broadcasted"
      /\ To(p, "Broadcasted").replacement = p.replacement
  BY Zenon, SendStatuses DEF To, Payment
<1>2. QED  BY Zenon, <1>1 DEF broadcasted

(* A conf status leaves a Created send alone, and makes a record final     *)
(* only with enough confirmations.                                         *)
LEMMA ConfTransition ==
    ASSUME NEW p \in Payment, p.kind = "OnchainSend", NEW conf \in TxConfStatus(Nat),
           CheckOnchainConf(p, conf) # None
    PROVE  LET q == CheckOnchainConf(p, conf) IN
           /\ q \in Payment /\ q.kind = "OnchainSend" /\ p.status # "Created"
           /\ q.status = "FullyConfirmed" =>
                 conf.type = "InBestChain" /\ conf.confs >= ConfirmationThreshold
           /\ q.status = "FullyReplaced" =>
                 conf.type = "HasReplacement" /\ conf.confs >= ConfirmationThreshold
           /\ q.replacement = IF conf.type = "HasReplacement" THEN conf.rp_txid ELSE None
<1> DEFINE status == ConfirmedStatus(p, conf)
<1> DEFINE rp == IF conf.type = "HasReplacement" THEN conf.rp_txid ELSE None
<1> DEFINE clone == [p EXCEPT !.status = status, !.replacement = rp]
<1> DEFINE q == [clone EXCEPT !.finalized_at = ~IsPending(clone)]
<1>1. /\ conf.type \in {"ZeroConf", "Dropped", "InBestChain", "HasReplacement"}
      /\ conf.type = "HasReplacement" => conf.rp_txid \in RpTxids
      /\ conf.type \in {"InBestChain", "HasReplacement"} => conf.confs \in Nat
  BY Zenon DEF TxConfStatus
<1>2. CheckOnchainConf(p, conf) = q /\ p.status # "Created"
  BY Zenon DEF CheckOnchainConf
<1>3. /\ status \in Statuses
      /\ status = "FullyConfirmed" =>
            conf.type = "InBestChain" /\ conf.confs >= ConfirmationThreshold
      /\ status = "FullyReplaced" =>
            conf.type = "HasReplacement" /\ conf.confs >= ConfirmationThreshold
  <2>1. CASE conf.type = "ZeroConf"
    <3>1. status \in {"ReplacementBroadcasted", "Broadcasted"}
      BY Zenon, <2>1 DEF ConfirmedStatus
    <3>2. QED  BY Zenon, <3>1, SendStatuses
  <2>2. CASE conf.type = "InBestChain"
    <3>1. status = IF conf.confs < ConfirmationThreshold
                   THEN "PartiallyConfirmed" ELSE "FullyConfirmed"
      BY Zenon, <2>2 DEF ConfirmedStatus
    <3>2. status = "FullyConfirmed" => conf.confs >= ConfirmationThreshold
      BY <1>1, <2>2, <3>1 DEF ConfirmationThreshold
    <3>3. QED  BY Zenon, <2>2, <3>1, <3>2, SendStatuses
  <2>3. CASE conf.type = "HasReplacement"
    <3>1. status = IF conf.confs < ConfirmationThreshold
                   THEN "PartiallyReplaced" ELSE "FullyReplaced"
      BY Zenon, <2>3 DEF ConfirmedStatus
    <3>2. status = "FullyReplaced" => conf.confs >= ConfirmationThreshold
      BY <1>1, <2>3, <3>1 DEF ConfirmationThreshold
    <3>3. QED  BY Zenon, <2>3, <3>1, <3>2, SendStatuses
  <2>4. CASE conf.type = "Dropped"
    <3>1. status = "Dropped"
      BY Zenon, <2>4 DEF ConfirmedStatus
    <3>2. QED  BY Zenon, <3>1, SendStatuses
  <2>5. QED  BY Zenon, <1>1, <2>1, <2>2, <2>3, <2>4
<1>4. rp \in RpTxids \cup {None}
  BY Zenon, <1>1
<1> HIDE DEF status, rp
<1>5. /\ clone \in Payment /\ clone.kind = p.kind /\ clone.status = status
      /\ clone.replacement = rp
  BY Zenon, <1>3, <1>4 DEF Payment
<1> HIDE DEF clone
<1>6. (~IsPending(clone)) \in BOOLEAN
  BY Zenon DEF IsPending
<1>7. /\ q \in Payment /\ q.kind = clone.kind /\ q.status = clone.status
      /\ q.replacement = clone.replacement
  BY Zenon, <1>5, <1>6 DEF Payment
<1> HIDE DEF q
<1>8. QED  BY Zenon, <1>2, <1>3, <1>5, <1>7 DEF rp

-----------------------------------------------------------------------------
(* The invariant of the sends, with reorgs too. *)

(* The chain takes its transactions from the mempool or from the block it  *)
(* replaces, and these are on record.                                      *)
LEMMA ChainSteps ==
    ASSUME BlocksAreCounted, SendInv, MineBlocks \/ Reorg
    PROVE  SendInv'
<1>1. /\ UNCHANGED <<call, inputs, rec, ids, best, todo, spenders, result>>
      /\ reorgs' \in Nat /\ mempool' \subseteq Txs /\ tip' \in Nat /\ height' \in [Txs -> Nat]
      /\ \A t \in Txs : t \in mempool' \/ height'[t] > 0 => t \in mempool \/ height[t] > 0
  <2>1. CASE MineBlocks
    <3>1. PICK n \in Bursts, S \in SUBSET mempool : tip' = tip + n /\ Includes(S, tip + 1)
      BY Zenon, <2>1 DEF MineBlocks
    <3>2. tip' \in Nat
      BY <3>1 DEF BlocksAreCounted, SendInv, Types
    <3>3. height' \in [Txs -> Nat] /\ mempool' \subseteq mempool
      BY <3>1 DEF Includes, SendInv, Types
    <3>4. \A t \in Txs : height'[t] > 0 => t \in mempool \/ height[t] > 0
      BY Zenon, <3>1 DEF Includes
    <3>5. QED  BY Zenon, <2>1, <3>2, <3>3, <3>4 DEF MineBlocks, node, checker, SendInv, Types
  <2>2. CASE Reorg
    <3> DEFINE out == {t \in Txs : InChain(t) /\ height[t] = tip}
    <3>1. PICK S \in SUBSET (mempool \cup out) :
             /\ height' = [t \in Txs |->
                   IF t \in S THEN tip ELSE IF t \in out THEN 0 ELSE height[t]]
             /\ mempool' = {u \in (mempool \cup out) \ S : \A t \in S : ~Conflict(t, u)}
      BY Zenon, <2>2 DEF Reorg
    <3>2. \A t \in out : t \in Txs /\ height[t] > 0
      BY Zenon DEF InChain
    <3>3. height' \in [Txs -> Nat] /\ mempool' \subseteq mempool \cup out
      BY Zenon, <3>1 DEF SendInv, Types
    <3>4. \A t \in Txs : height'[t] > 0 => t \in mempool \/ t \in out \/ height[t] > 0
      <4> HIDE DEF out
      <4>1. QED  BY Zenon, <3>1
    <3>5. UNCHANGED <<node, checker, tip>>
      BY Zenon, <2>2 DEF Reorg
    <3> HIDE DEF out
    <3>6. reorgs' \in Nat
      BY <2>2 DEF Reorg, SendInv, Types
    <3>7. QED  BY Zenon, <3>2, <3>3, <3>4, <3>5, <3>6 DEF node, checker, SendInv, Types
  <2>3. QED  BY Zenon, <2>1, <2>2
<1>2. Types'
  BY Zenon, <1>1 DEF SendInv, Types
<1>3. ASSUME NEW t \in Txs PROVE CallAt(t)' /\ CheckAt(t)'
  <2>1. CallAt(t) /\ CheckAt(t)
    BY Zenon DEF SendInv
  <2>2. height[t] \in Nat /\ height'[t] \in Nat
    BY Zenon, <1>1 DEF SendInv, Types
  <2>3. CheckAt(t)'
    BY Zenon, <1>1, <2>1 DEF CheckAt
  <2>4. (t \in mempool' \/ height'[t] > 0) => (t \in mempool \/ height[t] > 0)
    BY Zenon, <1>1
  <2>5. QED  BY <1>1, <2>1, <2>2, <2>3, <2>4 DEF CallAt
<1>4. QED  BY Zenon, <1>2, <1>3 DEF SendInv

(* pay_onchain registers the send before it broadcasts the tx; a failure   *)
(* leaves the record where it is.                                          *)
LEMMA PayOnchainSteps ==
    ASSUME SendInv, NEW s \in Txs, PayOnchain(s)
    PROVE  SendInv'
<1>1. CallAt(s) /\ CheckAt(s) /\ Types
  BY Zenon DEF SendInv
<1>2. /\ UNCHANGED <<height, tip, reorgs, ids, best, todo, spenders, result>>
      /\ mempool' \subseteq mempool \cup {s}
      /\ \A t \in Txs \ {s} : call'[t] = call[t] /\ inputs'[t] = inputs[t] /\ rec'[t] = rec[t]
      /\ Types'
  <2>1. CASE create_onchain_send(s)
    <3>1. PICK S \in SUBSET Unspent : inputs' = [inputs EXCEPT ![s] = S]
      BY Zenon, <2>1 DEF create_onchain_send
    <3>2. S \subseteq Coins
      BY Zenon DEF Unspent
    <3>3. QED  BY Zenon, <1>1, <2>1, <3>1, <3>2 DEF create_onchain_send, Types, chain, checker
  <2>2. CASE RegisterSend(s)
    BY Zenon, <1>1, <2>2, Created DEF RegisterSend, Types, chain, checker
  <2>3. CASE BroadcastTx(s)
    BY Zenon, <1>1, <2>3 DEF BroadcastTx, EsploraAccepts, Types, checker
  <2>4. CASE RegisterBroadcast(s)
    <3>1. rec[s] \in Payment
      BY Zenon, <1>1, <2>4 DEF RegisterBroadcast, CallAt, Types
    <3>2. broadcasted(rec[s]) # None => broadcasted(rec[s]) \in Payment
      BY Zenon, <3>1, Broadcasted
    <3>3. QED  BY <1>1, <2>4, <3>2 DEF RegisterBroadcast, Types, chain, checker
  <2>5. CASE PayOnchainFails(s)
    BY Zenon, <1>1, <2>5 DEF PayOnchainFails, Types, chain, checker
  <2>6. CASE Age(s)
    BY Zenon, <1>1, <2>6 DEF Age, Types, chain, checker
  <2>7. QED  BY Zenon, <2>1, <2>2, <2>3, <2>4, <2>5, <2>6 DEF PayOnchain
<1>3. CallAt(s)' /\ CheckAt(s)'
  <2>1. CASE create_onchain_send(s)
    BY Zenon, <1>1, <2>1 DEF create_onchain_send, CallAt, CheckAt, Types, chain, checker
  <2>2. CASE RegisterSend(s)
    <3>1. rec'[s] = NewOnchainSend(None) /\ call'[s] = "registered"
      BY Zenon, <1>1, <2>2 DEF RegisterSend, Types
    <3>2. rec'[s] # None /\ rec'[s].kind = "OnchainSend" /\ rec'[s].status = "Created"
      BY Zenon, <3>1, Created, NoneIsNoValue
    <3>3. s \notin ids
      BY Zenon, <1>1, <2>2 DEF RegisterSend, CallAt, CheckAt
    <3>4. QED  BY Zenon, <1>1, <2>2, <3>1, <3>2, <3>3 DEF RegisterSend, CallAt, CheckAt, chain, checker
  <2>3. CASE BroadcastTx(s)
    BY Zenon, <1>1, <2>3 DEF BroadcastTx, CallAt, CheckAt, Types, checker
  <2>4. CASE RegisterBroadcast(s)
    <3>1. rec[s] \in Payment
      BY Zenon, <1>1, <2>4 DEF RegisterBroadcast, CallAt, Types
    <3>2. CASE broadcasted(rec[s]) = None
      BY Zenon, <1>1, <2>4, <3>2 DEF RegisterBroadcast, CallAt, CheckAt, Types, chain, checker
    <3>3. CASE broadcasted(rec[s]) # None
      <4>1. rec'[s] = broadcasted(rec[s]) /\ call'[s] = "done"
        BY Zenon, <1>1, <2>4, <3>3 DEF RegisterBroadcast, Types
      <4>2. rec'[s].kind = "OnchainSend" /\ rec'[s].status = "Broadcasted" /\ rec'[s] # None
        BY Zenon, <3>1, <3>3, <4>1, Broadcasted
      <4>3. IsPending(rec'[s])
        BY Zenon, <4>2 DEF IsPending, PaymentStatus, CompletedStatuses, FailedStatuses
      <4>4. QED  BY Zenon, <4>1, <4>2, <4>3 DEF CallAt, CheckAt
    <3>4. QED  BY Zenon, <3>2, <3>3
  <2>5. CASE PayOnchainFails(s)
    BY Zenon, <1>1, <2>5 DEF PayOnchainFails, CallAt, CheckAt, Types, chain, checker
  <2>6. CASE Age(s)
    BY Zenon, <1>1, <2>6 DEF Age, CallAt, CheckAt, chain, checker
  <2>7. QED  BY Zenon, <2>1, <2>2, <2>3, <2>4, <2>5, <2>6 DEF PayOnchain
<1>4. ASSUME NEW t \in Txs \ {s} PROVE CallAt(t)' /\ CheckAt(t)'
  <2>1. CallAt(t) /\ CheckAt(t)
    BY Zenon DEF SendInv
  <2>2. QED  BY Zenon, <1>2, <2>1 DEF CallAt, CheckAt
<1>5. QED  BY Zenon, <1>2, <1>3, <1>4 DEF SendInv

(* What GetTxStatus and GetOutputStatus conclude is a conf status. *)
LEMMA InBestChainType ==
    ASSUME NEW b \in Nat, NEW h \in Nat, 0 < h, h <= b
    PROVE  [type |-> "InBestChain", confs |-> b - h + 1] \in TxConfStatus(Nat)
BY DEF TxConfStatus

LEMMA ReplacementType ==
    ASSUME NEW u \in Txs, NEW n \in Nat
    PROVE  [type |-> "HasReplacement", rp_txid |-> u, confs |-> n] \in TxConfStatus(Nat)
<1>1. u \in RpTxids
  BY Zenon DEF Txs
<1>2. QED  BY Zenon, <1>1 DEF TxConfStatus

LEMMA NoReplacementType ==
    [type |-> "Dropped"] \in TxConfStatus(Nat) /\ [type |-> "ZeroConf"] \in TxConfStatus(Nat)
BY Zenon DEF TxConfStatus

(* The answers about the inputs come to no status, or to one that stands   *)
(* for a spender at or below best_height.                                  *)
LEMMA ConfStatus ==
    ASSUME best \in Nat, NEW t, NEW found \in SUBSET [txid : Txs, height : Nat],
           NEW r \in ConfStatusOf(t, found)
    PROVE  /\ r \in TxConfStatus(Nat)
           /\ r.type # "InBestChain"
           /\ r.type = "HasReplacement" =>
                 \E s \in found : /\ s.height <= best
                                  /\ r.rp_txid = s.txid /\ r.confs = best - s.height + 1
<1> DEFINE rs == Replacements(found, best)
<1>1. CASE rs # {}
  <2>1. r \in rs
    BY Zenon, <1>1 DEF ConfStatusOf
  <2>2. PICK s \in found :
           /\ s.height <= best
           /\ r = [type |-> "HasReplacement", rp_txid |-> s.txid,
                   confs |-> best - s.height + 1]
    BY Zenon, <2>1 DEF Replacements
  <2>3. s.txid \in Txs /\ best - s.height + 1 \in Nat
    BY <2>2
  <2>4. r \in TxConfStatus(Nat)
    BY Zenon, <2>2, <2>3, ReplacementType
  <2>5. QED  BY Zenon, <2>2, <2>4
<1>2. CASE rs = {}
  <2>1. r = [type |-> "Dropped"] \/ r = [type |-> "ZeroConf"]
    BY Zenon, <1>2 DEF ConfStatusOf
  <2>2. QED  BY <2>1, NoReplacementType
<1>3. QED  BY Zenon, <1>1, <1>2

(* The checker writes only the records it started from, and never one that *)
(* pay_onchain has yet to register as broadcasted.                         *)
LEMMA IdleTypes ==
    ASSUME CheckerIdles
    PROVE  /\ ids' = {} /\ best' \in Nat
           /\ todo' \in [Txs -> SUBSET (Coins \cup {Status})]
           /\ spenders' \in [Txs -> SUBSET [txid : Txs, height : Nat]]
           /\ result' \in [Txs -> TxConfStatus(Nat) \cup {None}]
BY Zenon DEF CheckerIdles

LEMMA ApplyTypes ==
    ASSUME SendInv, ApplyConfs
    PROVE  /\ rec' \in [Txs -> Payment \cup {None}]
           /\ \A t \in Txs : rec'[t] # rec[t] =>
                 /\ t \in ids /\ rec[t] \in Payment /\ rec[t].kind = "OnchainSend"
                 /\ result[t] \in TxConfStatus(Nat)
                 /\ CheckOnchainConf(rec[t], result[t]) # None
                 /\ rec'[t] = CheckOnchainConf(rec[t], result[t])
<1>1. ASSUME NEW t \in ids
      PROVE  /\ rec[t] \in Payment /\ rec[t].kind = "OnchainSend"
             /\ result[t] \in TxConfStatus(Nat)
  BY Zenon, <1>1 DEF ApplyConfs, SendInv, Types, CheckAt, CallAt
<1>2. ASSUME NEW t \in Txs
      PROVE  rec'[t] = IF t \notin ids \/ CheckOnchainConf(rec[t], result[t]) = None
                       THEN rec[t] ELSE CheckOnchainConf(rec[t], result[t])
  BY Zenon DEF ApplyConfs
<1>3. ASSUME NEW t \in Txs, rec'[t] # rec[t]
      PROVE  /\ t \in ids /\ CheckOnchainConf(rec[t], result[t]) # None
             /\ rec'[t] = CheckOnchainConf(rec[t], result[t])
  BY Zenon, <1>2, <1>3
<1>4. ASSUME NEW t \in Txs PROVE rec'[t] \in Payment \cup {None}
  <2>1. CASE rec'[t] = rec[t]
    BY Zenon, <2>1 DEF SendInv, Types
  <2>2. CASE rec'[t] # rec[t]
    BY Zenon, <2>2, <1>1, <1>3, ConfTransition
  <2>3. QED  BY Zenon, <2>1, <2>2
<1>5. \E f : rec' = [t \in Txs |-> f[t]]
  <2>1. rec' = [t \in Txs |-> rec'[t]]
    BY Zenon DEF ApplyConfs
  <2>2. QED  BY Zenon, <2>1
<1>6. QED  BY Zenon, <1>1, <1>3, <1>4, <1>5

LEMMA CheckerSteps ==
    ASSUME SendInv, Checker \/ CheckFails
    PROVE  SendInv'
<1>1. UNCHANGED <<call, inputs, mempool, height, tip, reorgs>>
  BY Zenon DEF Checker, CheckFails, StartCheck, GetHeight, ApplyConfs, GetTxStatus,
         GetOutputStatus, chain, node
<1>2. CASE UNCHANGED rec
  <2> DEFINE StillTyped ==
        /\ ids' \subseteq Txs /\ best' \in Nat
        /\ todo' \in [Txs -> SUBSET (Coins \cup {Status})]
        /\ spenders' \in [Txs -> SUBSET [txid : Txs, height : Nat]]
        /\ result' \in [Txs -> TxConfStatus(Nat) \cup {None}]
        /\ \A t \in ids' : t \in ids \/ (rec[t] # None /\ IsPending(rec[t]))
  <2>1. StillTyped
    <3>1. CASE CheckerIdles
      BY Zenon, <3>1, IdleTypes
    <3>2. CASE StartCheck
      BY Zenon, <3>2 DEF StartCheck, SendInv, Types
    <3>3. CASE GetHeight
      BY Zenon, <3>3 DEF GetHeight, SendInv, Types, chain
    <3>4. ASSUME NEW s \in Txs, GetTxStatus(s), ~CheckerIdles
          PROVE  StillTyped
      <4>1. /\ ~(InChain(s) /\ height[s] > best)
            /\ todo' = [todo EXCEPT ![s] = IF InChain(s) THEN {} ELSE inputs[s]]
            /\ result' = [result EXCEPT ![s] =
                  IF InChain(s) THEN [type |-> "InBestChain", confs |-> best - height[s] + 1]
                  ELSE None]
            /\ UNCHANGED <<ids, best, spenders>>
        BY Zenon, <3>4 DEF GetTxStatus
      <4>2. height[s] \in Nat /\ best \in Nat /\ inputs[s] \subseteq Coins
        BY Zenon DEF SendInv, Types
      <4>3. InChain(s) =>
               [type |-> "InBestChain", confs |-> best - height[s] + 1] \in TxConfStatus(Nat)
        <5>1. SUFFICES ASSUME InChain(s)
                       PROVE  0 < height[s] /\ height[s] <= best
          BY Zenon, <4>2, InBestChainType
        <5>2. QED  BY <4>1, <4>2, <5>1 DEF InChain
      <4>4. QED  BY Zenon, <4>1, <4>2, <4>3 DEF SendInv, Types
    <3>5. ASSUME NEW s \in Txs, NEW c \in Coins, GetOutputStatus(s, c)
          PROVE  StillTyped
      <4> DEFINE by == {u \in Txs : InChain(u) /\ c \in inputs[u]}
      <4> DEFINE found == spenders[s] \cup {[txid |-> u, height |-> height[u]] : u \in by}
      <4>1. /\ todo' = [todo EXCEPT ![s] = @ \ {c}]
            /\ spenders' = [spenders EXCEPT ![s] = found]
            /\ (\E r \in ConfStatusOf(s, found) : result' = [result EXCEPT ![s] = r])
                  \/ result' = result
            /\ UNCHANGED <<ids, best>>
        BY Zenon, <3>5 DEF GetOutputStatus
      <4>2. found \in SUBSET [txid : Txs, height : Nat]
        BY DEF SendInv, Types
      <4> HIDE DEF found
      <4>3. best \in Nat
        BY Zenon DEF SendInv, Types
      <4>4. \A r \in ConfStatusOf(s, found) : r \in TxConfStatus(Nat)
        BY Zenon, <4>2, <4>3, ConfStatus
      <4>5. result' \in [Txs -> TxConfStatus(Nat) \cup {None}]
        BY Zenon, <4>1, <4>4 DEF SendInv, Types
      <4>6. QED  BY Zenon, <4>1, <4>2, <4>3, <4>5 DEF SendInv, Types
    <3>6. ApplyConfs => CheckerIdles
      BY Zenon DEF ApplyConfs
    <3>7. CheckFails => CheckerIdles
      BY Zenon DEF CheckFails
    <3>8. QED  BY Zenon, <3>1, <3>2, <3>3, <3>4, <3>5, <3>6, <3>7 DEF Checker
  <2>2. Types'
    BY Zenon, <1>1, <1>2, <2>1 DEF SendInv, Types
  <2>3. ASSUME NEW t \in Txs PROVE CallAt(t)' /\ CheckAt(t)'
    BY Zenon, <1>1, <1>2, <2>1 DEF SendInv, CallAt, CheckAt
  <2>4. QED  BY Zenon, <2>2, <2>3 DEF SendInv
<1>3. CASE ApplyConfs
  <2>1. CheckerIdles
    BY Zenon, <1>3 DEF ApplyConfs
  <2>2. Types'
    BY Zenon, <1>1, <1>3, <2>1, IdleTypes, ApplyTypes DEF SendInv, Types
  <2>3. ASSUME NEW t \in Txs PROVE CallAt(t)' /\ CheckAt(t)'
    <3>1. CheckAt(t)'
      BY Zenon, <2>1, IdleTypes DEF CheckAt
    <3>2. CallAt(t)
      BY Zenon DEF SendInv
    <3>3. CASE rec'[t] = rec[t]
      BY Zenon, <1>1, <3>1, <3>2, <3>3 DEF CallAt
    <3>4. CASE rec'[t] # rec[t]
      <4>1. /\ rec[t] \in Payment /\ rec[t].kind = "OnchainSend"
            /\ result[t] \in TxConfStatus(Nat)
            /\ CheckOnchainConf(rec[t], result[t]) # None
            /\ rec'[t] = CheckOnchainConf(rec[t], result[t])
        BY Zenon, <1>3, <3>4, ApplyTypes
      <4>2. rec'[t].kind = "OnchainSend" /\ rec[t].status # "Created" /\ rec'[t] # None
        BY <4>1, ConfTransition
      <4>3. rec[t] # None
        BY Zenon, <4>1, NoneIsNoValue
      <4>4. QED  BY Zenon, <1>1, <3>1, <3>2, <4>2, <4>3 DEF CallAt
    <3>5. QED  BY Zenon, <3>3, <3>4
  <2>4. QED  BY Zenon, <2>2, <2>3 DEF SendInv
<1>4. (Checker \/ CheckFails) => UNCHANGED rec \/ ApplyConfs
  BY Zenon DEF Checker, CheckFails, StartCheck, GetHeight, GetTxStatus, GetOutputStatus, node
<1>5. QED  BY Zenon, <1>2, <1>3, <1>4

LEMMA OtherSteps ==
    ASSUME SendInv, SyncWallet \/ Crash \/ UNCHANGED vars
    PROVE  SendInv'
<1>1. CASE SyncWallet \/ UNCHANGED vars
  <2>1. UNCHANGED <<call, inputs, rec, chain, checker>>
    BY Zenon, <1>1 DEF SyncWallet, vars, node
  <2>2. QED  BY Zenon, <2>1 DEF SendInv, Types, CallAt, CheckAt, chain, checker
<1>2. CASE Crash
  <2>1. /\ UNCHANGED <<inputs, rec, mempool, height, tip, reorgs>>
        /\ call' = [t \in Txs |->
              IF call[t] \in {"created", "registered", "sent"} THEN "failed" ELSE call[t]]
        /\ CheckerIdles
    BY Zenon, <1>2 DEF Crash, chain
  <2>2. Types'
    BY Zenon, <2>1, IdleTypes DEF SendInv, Types
  <2>3. ASSUME NEW t \in Txs PROVE CallAt(t)' /\ CheckAt(t)'
    <3>1. CheckAt(t)'
      BY Zenon, <2>1, IdleTypes DEF CheckAt
    <3>2. CallAt(t)
      BY Zenon DEF SendInv
    <3>3. QED  BY Zenon, <2>1, <3>1, <3>2 DEF CallAt
  <2>4. QED  BY Zenon, <2>2, <2>3 DEF SendInv
<1>3. QED  BY Zenon, <1>1, <1>2

LEMMA SendInitially == Init => SendInv
<1>1. SUFFICES ASSUME Init PROVE SendInv
  OBVIOUS
<1>2. Types
  BY Zenon, <1>1 DEF Init, Types
<1>3. ASSUME NEW t \in Txs PROVE CallAt(t) /\ CheckAt(t)
  BY <1>1 DEF Init, CallAt, CheckAt
<1>4. QED  BY Zenon, <1>2, <1>3 DEF SendInv

LEMMA SendInductive ==
    ASSUME BlocksAreCounted, SendInv, [Next]_vars
    PROVE  SendInv'
<1>1. ASSUME NEW s \in Txs, PayOnchain(s) PROVE SendInv'
  BY Zenon, <1>1, PayOnchainSteps
<1>2. QED  BY Zenon, <1>1, ChainSteps, CheckerSteps, OtherSteps DEF Next

(* OnchainSends keeps its invariant through reorgs, failures and crashes. *)
THEOREM SendInvariance ==
    ASSUME BlocksAreCounted
    PROVE  Spec => []SendInv
<1>1. SendInv /\ [Next]_vars => SendInv'
  BY Zenon, SendInductive
<1>2. QED  BY SendInitially, <1>1, PTL DEF Spec

(* pay_onchain writes the record before it broadcasts: for every chain,    *)
(* with any reorgs, failures and crashes, no tx is on the network of which *)
(* the node has no record.                                                 *)
THEOREM SendsAreRecorded ==
    ASSUME BlocksAreCounted
    PROVE  Spec => []SentIsRecorded
<1>1. SendInv => SentIsRecorded
  BY Zenon DEF SendInv, CallAt, SentIsRecorded, InChain
<1>2. QED  BY <1>1, SendInvariance, PTL

(* OnchainSend::broadcasted never bails when pay_onchain registers the     *)
(* broadcast, whatever the confirmation checker has applied meanwhile: it  *)
(* skips a record that is still Created.                                   *)
THEOREM BroadcastsAreAccepted ==
    ASSUME BlocksAreCounted
    PROVE  Spec => []BroadcastIsAccepted
<1>1. SendInv => BroadcastIsAccepted
  <2>1. SUFFICES ASSUME SendInv, NEW t \in Txs, call[t] = "sent"
                 PROVE  broadcasted(rec[t]) # None
    BY Zenon DEF BroadcastIsAccepted
  <2>2. /\ rec[t] \in Payment
        /\ rec[t].status = "Created" /\ rec[t].kind = "OnchainSend"
    BY Zenon, <2>1 DEF SendInv, Types, CallAt
  <2>3. To(rec[t], "Broadcasted") \in Payment
    BY Zenon, <2>2, SendStatuses DEF To, Payment
  <2>4. QED  BY Zenon, <2>2, <2>3, NoneIsNoValue DEF broadcasted
<1>2. QED  BY <1>1, SendInvariance, PTL

-----------------------------------------------------------------------------
(* The invariant of the chain, until a reorg. *)

(* Blocks are appended: a tx keeps its height, and one that gets a height  *)
(* gets one above every height that was answered before.                   *)
LEMMA MineGrows ==
    ASSUME BlocksAreCounted, ChainInv, MineBlocks
    PROVE  /\ UNCHANGED <<node, checker>>
           /\ tip' \in Nat /\ tip <= tip' /\ mempool' \subseteq mempool
           /\ \A t \in Txs :
                 /\ height'[t] \in Nat /\ height'[t] <= tip'
                 /\ height[t] > 0 => height'[t] = height[t]
                 /\ height'[t] = height[t] \/ height'[t] > tip
                 /\ t \in mempool' => height'[t] = 0
<1>1. PICK n \in Bursts, S \in SUBSET mempool : tip' = tip + n /\ Includes(S, tip + 1)
  BY Zenon DEF MineBlocks
<1>2. n \in Nat /\ n > 0 /\ tip \in Nat
  BY DEF BlocksAreCounted, ChainInv, SendInv, Types
<1>3. mempool' \subseteq mempool \ S
  BY Zenon, <1>1 DEF Includes
<1>4. ASSUME NEW t \in Txs
      PROVE  /\ height'[t] \in Nat /\ height'[t] <= tip'
             /\ height[t] > 0 => height'[t] = height[t]
             /\ height'[t] = height[t] \/ height'[t] > tip
             /\ t \in mempool' => height'[t] = 0
  <2>1. height[t] \in Nat /\ height[t] <= tip /\ (t \in mempool => height[t] = 0)
    BY Zenon DEF ChainInv, ChainAt, SendInv, Types
  <2>2. height'[t] = IF t \in S THEN tip + 1 ELSE height[t]
    BY Zenon, <1>1 DEF Includes
  <2>3. QED  BY <1>1, <1>2, <1>3, <2>1, <2>2
<1>5. QED  BY <1>1, <1>2, <1>3, <1>4 DEF MineBlocks

LEMMA MineSteps ==
    ASSUME BlocksAreCounted, ChainInv, MineBlocks
    PROVE  ChainInv'
<1>1. /\ UNCHANGED <<rec, inputs, check, ids, now, best, todo, spenders, result>>
      /\ tip' \in Nat /\ tip <= tip'
      /\ \A t \in Txs :
            /\ height'[t] \in Nat /\ height'[t] <= tip'
            /\ height[t] > 0 => height'[t] = height[t]
            /\ height'[t] = height[t] \/ height'[t] > tip
            /\ t \in mempool' => height'[t] = 0
  BY Zenon, MineGrows DEF node, checker
<1>2. SendInv'
  BY Zenon, ChainSteps DEF ChainInv
<1>3. Types /\ best <= tip
  BY Zenon DEF ChainInv, SendInv
<1>4. (best <= tip)'
  BY <1>1, <1>3 DEF Types
<1>5. ASSUME NEW t \in Txs PROVE ChainAt(t)' /\ AnswersAt(t)' /\ ResultAt(t)'
  <2>1. ChainAt(t) /\ AnswersAt(t) /\ ResultAt(t)
    BY Zenon DEF ChainInv
  <2>2. ChainAt(t)'
    BY Zenon, <1>1 DEF ChainAt
  <2>3. height[t] \in Nat /\ best \in Nat /\ tip \in Nat
    BY Zenon, <1>3 DEF Types
  <2>4. height[t] = 0 \/ height[t] > best => height'[t] = 0 \/ height'[t] > best
    BY <1>1, <1>3, <2>3
  <2>5. ASSUME NEW s \in spenders[t]
        PROVE  s.height > 0 /\ s.height = height'[s.txid] /\ inputs[s.txid] \cap inputs[t] # {}
    <3>1. s.txid \in Txs
      BY <1>3 DEF Types
    <3>2. s.height > 0 /\ s.height = height[s.txid] /\ inputs[s.txid] \cap inputs[t] # {}
      BY Zenon, <2>1 DEF AnswersAt
    <3>3. QED  BY Zenon, <1>1, <3>1, <3>2
  <2>6. AnswersAt(t)'
    BY Zenon, <1>1, <2>1, <2>4, <2>5 DEF AnswersAt
  <2>7. ResultAt(t)'
    BY Zenon, <1>1, <2>1 DEF ResultAt, Conflict
  <2>8. QED  BY Zenon, <2>2, <2>6, <2>7
<1>6. \A u \in Txs : Confs(u) >= ConfirmationThreshold => Confs(u)' >= ConfirmationThreshold
  <2>1. ASSUME NEW u \in Txs, Confs(u) >= ConfirmationThreshold
        PROVE  Confs(u)' >= ConfirmationThreshold
    <3>1. height[u] \in Nat /\ tip \in Nat
      BY Zenon, <1>3 DEF Types
    <3>2. height[u] > 0
      BY <2>1, <3>1 DEF Confs, InChain, ConfirmationThreshold
    <3>3. height'[u] = height[u]
      BY Zenon, <1>1, <3>2
    <3>4. QED  BY <1>1, <2>1, <3>1, <3>2, <3>3 DEF Confs, InChain, ConfirmationThreshold
  <2>2. QED  BY Zenon, <2>1
<1>7. FinalIsTrue'
  BY Zenon, <1>1, <1>6 DEF ChainInv, FinalIsTrue, Conflict
<1>8. ReplacementIsAnother'
  BY Zenon, <1>1 DEF ChainInv, ReplacementIsAnother
<1>9. QED  BY Zenon, <1>2, <1>4, <1>5, <1>7, <1>8 DEF ChainInv

(* A step of pay_onchain changes its own send, and the coins of a tx only  *)
(* before it is on record.                                                 *)
LEMMA PayOnchainFrame ==
    ASSUME SendInv, NEW s \in Txs, PayOnchain(s)
    PROVE  /\ UNCHANGED <<height, tip, reorgs, checker>>
           /\ mempool' \subseteq mempool \cup {s}
           /\ s \in mempool' => s \in mempool \/ height[s] = 0
           /\ \A t \in Txs \ {s} : inputs'[t] = inputs[t] /\ rec'[t] = rec[t]
           /\ inputs'[s] = inputs[s] \/ (rec[s] = None /\ rec'[s] = None /\ height[s] = 0)
           /\ rec'[s] = rec[s]
                \/ (rec'[s].status \in {"Created", "Broadcasted"} /\ rec'[s].replacement = None)
                \/ (rec[s] # None /\ rec'[s].status \in {"Created", "Broadcasted"}
                      /\ rec'[s].replacement = rec[s].replacement)
<1>1. CallAt(s) /\ CheckAt(s) /\ Types
  BY Zenon DEF SendInv
<1>2. CASE create_onchain_send(s)
  BY Zenon, <1>1, <1>2 DEF create_onchain_send, CallAt, Types, chain
<1>3. CASE RegisterSend(s)
  <2>1. rec'[s] = NewOnchainSend(None)
    BY Zenon, <1>1, <1>3 DEF RegisterSend, Types
  <2>2. QED  BY Zenon, <1>1, <1>3, <2>1, Created DEF RegisterSend, Types, chain
<1>4. CASE BroadcastTx(s)
  BY Zenon, <1>1, <1>4 DEF BroadcastTx, EsploraAccepts, CallAt, Types
<1>5. CASE RegisterBroadcast(s)
  <2>1. rec[s] \in Payment /\ rec[s] # None
    BY Zenon, <1>1, <1>5 DEF RegisterBroadcast, CallAt, Types
  <2>2. CASE broadcasted(rec[s]) = None
    BY Zenon, <1>1, <1>5, <2>2 DEF RegisterBroadcast, Types, chain
  <2>3. CASE broadcasted(rec[s]) # None
    <3>1. rec'[s] = broadcasted(rec[s])
      BY Zenon, <1>1, <1>5, <2>3 DEF RegisterBroadcast, Types
    <3>2. rec'[s].status = "Broadcasted" /\ rec'[s].replacement = rec[s].replacement
      BY Zenon, <2>1, <2>3, <3>1, Broadcasted
    <3>3. QED  BY Zenon, <1>1, <1>5, <2>1, <2>3, <3>2 DEF RegisterBroadcast, Types, chain
  <2>4. QED  BY Zenon, <2>2, <2>3
<1>6. CASE PayOnchainFails(s)
  BY Zenon, <1>1, <1>6 DEF PayOnchainFails, Types, chain
<1>7. CASE Age(s)
  BY Zenon, <1>1, <1>7 DEF Age, Types, chain
<1>8. QED  BY Zenon, <1>2, <1>3, <1>4, <1>5, <1>6, <1>7 DEF PayOnchain

LEMMA PayOnchainInChain ==
    ASSUME ChainInv, NEW s \in Txs, PayOnchain(s)
    PROVE  ChainInv'
<1>1. SendInv /\ Types /\ CallAt(s)
  BY Zenon DEF ChainInv, SendInv
<1>2. SendInv'
  BY Zenon, <1>1, PayOnchainSteps
<1>3. /\ UNCHANGED <<height, tip, check, ids, best, todo, spenders, result>>
      /\ mempool' \subseteq mempool \cup {s}
      /\ s \in mempool' => s \in mempool \/ height[s] = 0
      /\ \A t \in Txs \ {s} : inputs'[t] = inputs[t] /\ rec'[t] = rec[t]
      /\ inputs'[s] = inputs[s] \/ (rec[s] = None /\ rec'[s] = None /\ height[s] = 0)
  BY Zenon, <1>1, PayOnchainFrame DEF checker
<1>4. \A t \in Txs : rec[t] # None \/ height[t] > 0 => inputs'[t] = inputs[t]
  BY <1>3
<1>5. ASSUME NEW t \in Txs PROVE ChainAt(t)' /\ AnswersAt(t)' /\ ResultAt(t)'
  <2>1. ChainAt(t) /\ AnswersAt(t) /\ ResultAt(t) /\ CheckAt(t)
    BY Zenon DEF ChainInv, SendInv
  <2>2. ChainAt(t)'
    BY Zenon, <1>3, <2>1 DEF ChainAt
  <2>3. CASE t \notin ids
    <3>1. todo[t] = {} /\ spenders[t] = {} /\ result[t] = None
      BY Zenon, <2>1, <2>3 DEF AnswersAt
    <3>2. AnswersAt(t)' /\ ResultAt(t)'
      BY Zenon, <1>3, <3>1 DEF AnswersAt, ResultAt
    <3>3. QED  BY Zenon, <2>2, <3>2
  <2>4. CASE t \in ids
    <3>1. inputs'[t] = inputs[t]
      BY Zenon, <1>4, <2>1, <2>4 DEF CheckAt
    <3>2. ASSUME NEW x \in spenders[t]
          PROVE  /\ x.height > 0 /\ x.height = height[x.txid]
                 /\ inputs'[x.txid] \cap inputs'[t] # {}
      <4>1. x.txid \in Txs
        BY <1>1 DEF Types
      <4>2. x.height > 0 /\ x.height = height[x.txid] /\ inputs[x.txid] \cap inputs[t] # {}
        BY Zenon, <2>1 DEF AnswersAt
      <4>3. QED  BY Zenon, <1>4, <3>1, <4>1, <4>2
    <3>3. AnswersAt(t)'
      BY Zenon, <1>3, <2>1, <3>1, <3>2 DEF AnswersAt
    <3>4. ResultAt(t)'
      BY Zenon, <1>3, <1>4, <2>1, <3>1 DEF ResultAt, Conflict
    <3>5. QED  BY Zenon, <2>2, <3>3, <3>4
  <2>5. QED  BY Zenon, <2>3, <2>4
<1>6. \/ rec'[s] = rec[s]
      \/ rec'[s].status \in {"Created", "Broadcasted"} /\ rec'[s].replacement = None
      \/ /\ rec[s] # None /\ rec'[s].status \in {"Created", "Broadcasted"}
         /\ rec'[s].replacement = rec[s].replacement
  BY Zenon, <1>1, PayOnchainFrame
<1>7. FinalIsTrue'
  <2>1. SUFFICES ASSUME NEW t \in Txs, rec'[t] # None
        PROVE  /\ rec'[t].status = "FullyConfirmed" => Confs(t)' >= ConfirmationThreshold
               /\ rec'[t].status = "FullyReplaced" =>
                     \E u \in Txs : Conflict(t, u)' /\ Confs(u)' >= ConfirmationThreshold
    BY Zenon DEF FinalIsTrue
  <2>2. CASE rec'[t] # rec[t]
    BY Zenon, <1>3, <1>6, <2>2
  <2>3. CASE rec'[t] = rec[t]
    <3>1. /\ rec[t].status = "FullyConfirmed" => Confs(t) >= ConfirmationThreshold
          /\ rec[t].status = "FullyReplaced" =>
                \E u \in Txs : Conflict(t, u) /\ Confs(u) >= ConfirmationThreshold
      BY Zenon, <2>1, <2>3 DEF ChainInv, FinalIsTrue
    <3>2. \A u \in Txs : Confs(u)' = Confs(u)
      BY Zenon, <1>3 DEF Confs, InChain
    <3>3. \A u \in Txs : Confs(u) >= ConfirmationThreshold => height[u] > 0
      BY DEF Confs, InChain, ConfirmationThreshold
    <3>4. \A u \in Txs : Conflict(t, u) /\ Confs(u) >= ConfirmationThreshold => Conflict(t, u)'
      BY Zenon, <1>4, <2>1, <2>3, <3>3 DEF Conflict
    <3>5. QED  BY Zenon, <2>3, <3>1, <3>2, <3>4
  <2>4. QED  BY Zenon, <2>2, <2>3
<1>8. ReplacementIsAnother'
  <2>1. SUFFICES ASSUME NEW t \in Txs, rec'[t] # None PROVE rec'[t].replacement # t
    BY Zenon DEF ReplacementIsAnother
  <2>2. None # t
    BY Zenon, NoneIsNoValue DEF Txs
  <2>3. rec[t] # None => rec[t].replacement # t
    BY Zenon DEF ChainInv, ReplacementIsAnother
  <2>4. QED  BY <1>3, <1>6, <2>1, <2>2, <2>3
<1>9. QED  BY Zenon, <1>2, <1>3, <1>5, <1>7, <1>8 DEF ChainInv

(* A checker that has gone idle has no answers. *)
LEMMA IdleAnswers ==
    ASSUME CheckerIdles, UNCHANGED <<height, mempool, tip>>, ChainInv
    PROVE  (best <= tip)' /\ \A t \in Txs : ChainAt(t)' /\ AnswersAt(t)' /\ ResultAt(t)'
<1>1. best' <= tip'
  BY DEF CheckerIdles, ChainInv, SendInv, Types
<1>2. ASSUME NEW t \in Txs PROVE ChainAt(t)' /\ AnswersAt(t)' /\ ResultAt(t)'
  <2>1. todo'[t] = {} /\ spenders'[t] = {} /\ result'[t] = None
    BY Zenon DEF CheckerIdles
  <2>2. ChainAt(t)'
    BY Zenon DEF ChainInv, ChainAt
  <2>3. QED  BY Zenon, <2>1, <2>2 DEF AnswersAt, ResultAt
<1>3. QED  BY Zenon, <1>1, <1>2

(* While no answer is in, the checker may pick its sends and its height. *)
LEMMA BeforeQueries ==
    ASSUME ChainInv, StartCheck \/ GetHeight
    PROVE  (best <= tip)' /\ \A t \in Txs : ChainAt(t)' /\ AnswersAt(t)' /\ ResultAt(t)'
<1>1. check # "queries" /\ UNCHANGED <<height, mempool, tip, inputs, spenders, result>>
  BY Zenon DEF StartCheck, GetHeight, chain, node
<1>2. (best <= tip)'
  BY DEF ChainInv, SendInv, Types, StartCheck, GetHeight, chain
<1>3. ASSUME NEW t \in Txs PROVE ChainAt(t)' /\ AnswersAt(t)' /\ ResultAt(t)'
  <2>1. ChainAt(t) /\ AnswersAt(t)
    BY Zenon DEF ChainInv
  <2>2. todo[t] = {} /\ spenders[t] = {} /\ result[t] = None
    BY Zenon, <1>1, <2>1 DEF AnswersAt
  <2>3. ChainAt(t)' /\ ResultAt(t)'
    BY Zenon, <1>1, <2>1, <2>2 DEF ChainAt, ResultAt
  <2>4. AnswersAt(t)'
    <3>1. CASE StartCheck
      <4>1. todo'[t] = {} /\ spenders'[t] = {} /\ result'[t] = None
        BY Zenon, <2>2, <3>1, <1>1 DEF StartCheck
      <4>2. QED  BY Zenon, <4>1 DEF AnswersAt
    <3>2. CASE GetHeight
      <4>1. /\ todo'[t] = IF t \in ids THEN {Status} ELSE {}
            /\ ids' = ids /\ check' = "queries" /\ spenders'[t] = {} /\ result'[t] = None
        BY Zenon, <1>1, <2>2, <3>2 DEF GetHeight
      <4>2. QED  BY Zenon, <4>1 DEF AnswersAt
    <3>3. QED  BY Zenon, <3>1, <3>2
  <2>5. QED  BY Zenon, <2>3, <2>4
<1>4. QED  BY Zenon, <1>2, <1>3

(* get_tx_status: the confirmations are counted from best_height, below    *)
(* the height at which the tx is found, or the check fails.                *)
LEMMA TxStatusAnswers ==
    ASSUME ChainInv, StatusIsNoCoin, NEW s \in Txs, GetTxStatus(s), ~CheckerIdles
    PROVE  (best <= tip)' /\ \A t \in Txs : ChainAt(t)' /\ AnswersAt(t)' /\ ResultAt(t)'
<1>1. /\ check = "queries" /\ Status \in todo[s] /\ ~(InChain(s) /\ height[s] > best)
      /\ todo' = [todo EXCEPT ![s] = IF InChain(s) THEN {} ELSE inputs[s]]
      /\ result' = [result EXCEPT ![s] =
            IF InChain(s) THEN [type |-> "InBestChain", confs |-> best - height[s] + 1]
            ELSE None]
      /\ UNCHANGED <<check, ids, now, best, spenders, height, mempool, tip, inputs>>
  BY Zenon DEF GetTxStatus, chain, node
<1>2. Types /\ best <= tip
  BY Zenon DEF ChainInv, SendInv
<1>3. height[s] \in Nat /\ best \in Nat /\ Status \notin inputs[s]
  BY Zenon, <1>2 DEF Types, StatusIsNoCoin
<1>4. ASSUME NEW t \in Txs PROVE ChainAt(t)' /\ AnswersAt(t)' /\ ResultAt(t)'
  <2>1. ChainAt(t) /\ AnswersAt(t) /\ ResultAt(t)
    BY Zenon DEF ChainInv
  <2>2. ChainAt(t)'
    BY Zenon, <1>1, <2>1 DEF ChainAt
  <2>3. CASE t # s
    <3>1. todo'[t] = todo[t] /\ result'[t] = result[t]
      BY Zenon, <1>1, <1>2, <2>3 DEF Types
    <3>2. AnswersAt(t)' /\ ResultAt(t)'
      BY Zenon, <1>1, <2>1, <3>1 DEF AnswersAt, ResultAt, Conflict
    <3>3. QED  BY Zenon, <2>2, <3>2
  <2>4. CASE t = s
    <3>1. s \in ids /\ spenders[s] = {}
      BY Zenon, <1>1, <2>1, <2>4 DEF AnswersAt
    <3>2. CASE InChain(s)
      <4>1. /\ todo'[s] = {}
            /\ result'[s] = [type |-> "InBestChain", confs |-> best - height[s] + 1]
        BY Zenon, <1>1, <1>2, <3>2 DEF Types
      <4>2. 0 < height[s] /\ height[s] <= best
        BY <1>1, <1>3, <3>2 DEF InChain
      <4>3. AnswersAt(s)'
        BY Zenon, <1>1, <3>1, <4>1 DEF AnswersAt
      <4>4. ResultAt(s)'
        BY <1>1, <4>1, <4>2 DEF ResultAt
      <4>5. QED  BY Zenon, <2>2, <2>4, <4>3, <4>4
    <3>3. CASE ~InChain(s)
      <4>1. todo'[s] = inputs[s] /\ result'[s] = None
        BY Zenon, <1>1, <1>2, <3>3 DEF Types
      <4>2. height[s] = 0
        BY <1>3, <3>3 DEF InChain
      <4>3. AnswersAt(s)'
        BY Zenon, <1>1, <1>3, <3>1, <4>1, <4>2 DEF AnswersAt
      <4>4. ResultAt(s)'
        BY Zenon, <4>1 DEF ResultAt
      <4>5. QED  BY Zenon, <2>2, <2>4, <4>3, <4>4
    <3>4. QED  BY Zenon, <3>2, <3>3
  <2>5. QED  BY Zenon, <2>3, <2>4
<1>5. QED  BY Zenon, <1>1, <1>2, <1>4

(* get_output_status: the tx itself may have been mined since its own      *)
(* status was answered, but then above best_height, where it is filtered   *)
(* out of its own replacements.                                            *)
LEMMA OutputStatusAnswers ==
    ASSUME ChainInv, NEW s \in Txs, NEW c \in Coins, GetOutputStatus(s, c)
    PROVE  (best <= tip)' /\ \A t \in Txs : ChainAt(t)' /\ AnswersAt(t)' /\ ResultAt(t)'
<1> DEFINE by == {u \in Txs : InChain(u) /\ c \in inputs[u]}
<1> DEFINE found == spenders[s] \cup {[txid |-> u, height |-> height[u]] : u \in by}
<1>1. /\ check = "queries" /\ c \in todo[s] /\ c # Status
      /\ todo' = [todo EXCEPT ![s] = @ \ {c}]
      /\ spenders' = [spenders EXCEPT ![s] = found]
      /\ \/ \E r \in ConfStatusOf(s, found) : result' = [result EXCEPT ![s] = r]
         \/ result' = result
      /\ UNCHANGED <<check, ids, now, best, height, mempool, tip, inputs>>
  BY Zenon DEF GetOutputStatus, chain, node
<1>2. Types /\ best <= tip /\ AnswersAt(s) /\ ResultAt(s)
  BY Zenon DEF ChainInv, SendInv
<1>3. /\ Status \notin todo[s] /\ c \in inputs[s] /\ s \in ids
      /\ height[s] = 0 \/ height[s] > best
  BY Zenon, <1>1, <1>2 DEF AnswersAt
<1>4. found \in SUBSET [txid : Txs, height : Nat]
  BY <1>2 DEF Types
<1>5. ASSUME NEW x \in found
      PROVE  /\ x.height > 0 /\ x.height = height[x.txid] /\ x.txid \in Txs
             /\ inputs[x.txid] \cap inputs[s] # {}
  <2>1. CASE x \in spenders[s]
    BY Zenon, <1>2, <1>4, <2>1 DEF AnswersAt
  <2>2. CASE x \notin spenders[s]
    <3>1. PICK u \in by : x = [txid |-> u, height |-> height[u]]
      BY Zenon, <2>2
    <3>2. u \in Txs /\ height[u] > 0 /\ c \in inputs[u]
      BY Zenon DEF InChain
    <3>3. QED  BY Zenon, <1>3, <3>1, <3>2
  <2>3. QED  BY Zenon, <2>1, <2>2
<1> HIDE DEF found
<1>6. /\ todo'[s] = todo[s] \ {c} /\ spenders'[s] = found
      /\ \A t \in Txs \ {s} : /\ todo'[t] = todo[t] /\ spenders'[t] = spenders[t]
                              /\ result'[t] = result[t]
  BY Zenon, <1>1, <1>2 DEF Types
<1>7. AnswersAt(s)'
  BY Zenon, <1>1, <1>2, <1>3, <1>5, <1>6 DEF AnswersAt
<1>8. ResultAt(s)'
  <2>1. CASE result' = result
    BY Zenon, <1>1, <1>2, <2>1 DEF ResultAt, Conflict
  <2>2. CASE result' # result
    <3>1. PICK r \in ConfStatusOf(s, found) : result' = [result EXCEPT ![s] = r]
      BY Zenon, <1>1, <2>2
    <3>2. result'[s] = r
      BY Zenon, <1>2, <3>1 DEF Types
    <3>3. best \in Nat /\ height[s] \in Nat
      BY Zenon, <1>2 DEF Types
    <3>4. /\ r.type # "InBestChain"
          /\ r.type = "HasReplacement" =>
                \E x \in found : /\ x.height <= best
                                 /\ r.rp_txid = x.txid /\ r.confs = best - x.height + 1
      BY Zenon, <1>4, <3>1, <3>3, ConfStatus
    <3>5. ASSUME r.type = "HasReplacement"
          PROVE  /\ r.rp_txid \in Txs /\ Conflict(s, r.rp_txid)
                 /\ 0 < height[r.rp_txid] /\ height[r.rp_txid] <= best
                 /\ r.confs = best - height[r.rp_txid] + 1
      <4>1. PICK x \in found : /\ x.height <= best
                               /\ r.rp_txid = x.txid /\ r.confs = best - x.height + 1
        BY Zenon, <3>4, <3>5
      <4>2. /\ x.height > 0 /\ x.height = height[x.txid] /\ x.txid \in Txs
            /\ inputs[x.txid] \cap inputs[s] # {}
        BY Zenon, <1>5
      <4>3. x.height \in Nat
        BY Zenon, <1>4
      <4>4. x.txid # s
        BY <1>3, <3>3, <4>1, <4>2, <4>3
      <4>5. QED  BY Zenon, <4>1, <4>2, <4>3, <4>4 DEF Conflict
    <3>6. QED  BY Zenon, <1>1, <3>2, <3>4, <3>5 DEF ResultAt, Conflict
  <2>3. QED  BY Zenon, <2>1, <2>2
<1>9. ASSUME NEW t \in Txs PROVE ChainAt(t)' /\ AnswersAt(t)' /\ ResultAt(t)'
  <2>1. ChainAt(t) /\ AnswersAt(t) /\ ResultAt(t)
    BY Zenon DEF ChainInv
  <2>2. ChainAt(t)'
    BY Zenon, <1>1, <2>1 DEF ChainAt
  <2>3. CASE t # s
    BY Zenon, <1>1, <1>6, <2>1, <2>2, <2>3 DEF AnswersAt, ResultAt, Conflict
  <2>4. QED  BY Zenon, <1>7, <1>8, <2>2, <2>3
<1>10. QED  BY Zenon, <1>1, <1>2, <1>9

(* What the checker makes final is final on the chain: best_height is no   *)
(* more than the tip, so that a tx has at least the confirmations counted. *)
LEMMA ApplySteps ==
    ASSUME ChainInv, ApplyConfs
    PROVE  FinalIsTrue' /\ ReplacementIsAnother'
<1>1. UNCHANGED <<inputs, height, tip>> /\ SendInv /\ Types /\ best <= tip
  BY Zenon DEF ApplyConfs, chain, ChainInv, SendInv
<1>2. \A u \in Txs : Confs(u)' = Confs(u) /\ \A t \in Txs : Conflict(t, u)' = Conflict(t, u)
  BY Zenon, <1>1 DEF Confs, InChain, Conflict
<1>3. ASSUME NEW t \in Txs, rec'[t] # None
      PROVE  /\ rec'[t].status = "FullyConfirmed" => Confs(t) >= ConfirmationThreshold
             /\ rec'[t].status = "FullyReplaced" =>
                   \E u \in Txs : Conflict(t, u) /\ Confs(u) >= ConfirmationThreshold
             /\ rec'[t].replacement # t
  <2>1. CASE rec'[t] = rec[t]
    BY Zenon, <1>3, <2>1 DEF ChainInv, FinalIsTrue, ReplacementIsAnother
  <2>2. CASE rec'[t] # rec[t]
    <3>1. /\ rec[t] \in Payment /\ rec[t].kind = "OnchainSend"
          /\ result[t] \in TxConfStatus(Nat)
          /\ CheckOnchainConf(rec[t], result[t]) # None
          /\ rec'[t] = CheckOnchainConf(rec[t], result[t])
      BY Zenon, <1>1, <2>2, ApplyTypes
    <3> DEFINE conf == result[t]
    <3>2. /\ rec'[t].status = "FullyConfirmed" =>
                conf.type = "InBestChain" /\ conf.confs >= ConfirmationThreshold
          /\ rec'[t].status = "FullyReplaced" =>
                conf.type = "HasReplacement" /\ conf.confs >= ConfirmationThreshold
          /\ rec'[t].replacement = IF conf.type = "HasReplacement" THEN conf.rp_txid ELSE None
      BY <3>1, ConfTransition
    <3>3. conf # None
      BY Zenon, <1>1, <2>2, ApplyTypes DEF ApplyConfs
    <3>4. ResultAt(t)
      BY Zenon DEF ChainInv
    <3>5. \A u \in Txs :
             0 < height[u] /\ best - height[u] + 1 >= ConfirmationThreshold
                => Confs(u) >= ConfirmationThreshold
      BY <1>1 DEF Types, Confs, InChain, ConfirmationThreshold
    <3>6. rec'[t].status = "FullyConfirmed" => Confs(t) >= ConfirmationThreshold
      BY Zenon, <3>2, <3>3, <3>4, <3>5 DEF ResultAt
    <3>7. rec'[t].status = "FullyReplaced" =>
             \E u \in Txs : Conflict(t, u) /\ Confs(u) >= ConfirmationThreshold
      BY Zenon, <3>2, <3>3, <3>4, <3>5 DEF ResultAt
    <3>8. rec'[t].replacement # t
      <4>1. None # t
        BY Zenon, NoneIsNoValue DEF Txs
      <4>2. conf.type = "HasReplacement" => conf.rp_txid # t
        BY Zenon, <3>3, <3>4 DEF ResultAt, Conflict
      <4>3. QED  BY Zenon, <3>2, <4>1, <4>2
    <3>9. QED  BY Zenon, <3>6, <3>7, <3>8
  <2>3. QED  BY Zenon, <2>1, <2>2
<1>4. FinalIsTrue'
  BY <1>2, <1>3 DEF FinalIsTrue
<1>5. QED  BY Zenon, <1>3, <1>4 DEF ReplacementIsAnother

LEMMA CheckerInChain ==
    ASSUME ChainInv, StatusIsNoCoin, Checker \/ CheckFails \/ Crash
    PROVE  ChainInv'
<1>1. SendInv /\ SendInv'
  BY Zenon, CheckerSteps, OtherSteps DEF ChainInv
<1>2. UNCHANGED <<inputs, mempool, height, tip>>
  BY Zenon DEF Checker, CheckFails, Crash, StartCheck, GetHeight, ApplyConfs, GetTxStatus,
         GetOutputStatus, chain, node
<1> DEFINE Answered ==
        /\ (best <= tip)'
        /\ \A t \in Txs : ChainAt(t)' /\ AnswersAt(t)' /\ ResultAt(t)'
<1>3. Answered
  <2>1. CASE CheckerIdles
    BY Zenon, <1>2, <2>1, IdleAnswers
  <2>2. CASE StartCheck \/ GetHeight
    BY Zenon, <2>2, BeforeQueries
  <2>3. ASSUME NEW s \in Txs, GetTxStatus(s), ~CheckerIdles PROVE Answered
    BY Zenon, <2>3, TxStatusAnswers
  <2>4. ASSUME NEW s \in Txs, NEW c \in Coins, GetOutputStatus(s, c) PROVE Answered
    BY Zenon, <2>4, OutputStatusAnswers
  <2>5. ApplyConfs \/ CheckFails \/ Crash => CheckerIdles
    BY Zenon DEF ApplyConfs, CheckFails, Crash
  <2>6. QED  BY Zenon, <2>1, <2>2, <2>3, <2>4, <2>5 DEF Checker
<1>4. FinalIsTrue' /\ ReplacementIsAnother'
  <2>1. CASE ApplyConfs
    BY Zenon, <2>1, ApplySteps
  <2>2. CASE UNCHANGED rec
    <3>1. \A u \in Txs : Confs(u)' = Confs(u) /\ \A t \in Txs : Conflict(t, u)' = Conflict(t, u)
      BY Zenon, <1>2 DEF Confs, InChain, Conflict
    <3>2. QED  BY Zenon, <2>2, <3>1 DEF ChainInv, FinalIsTrue, ReplacementIsAnother
  <2>3. UNCHANGED rec \/ ApplyConfs
    BY Zenon DEF Checker, CheckFails, Crash, StartCheck, GetHeight, GetTxStatus, GetOutputStatus, node
  <2>4. QED  BY Zenon, <2>1, <2>2, <2>3
<1>5. QED  BY Zenon, <1>1, <1>3, <1>4 DEF ChainInv

LEMMA OthersInChain ==
    ASSUME ChainInv, SyncWallet \/ UNCHANGED vars
    PROVE  ChainInv'
<1>1. SendInv'
  BY Zenon, OtherSteps DEF ChainInv
<1>2. UNCHANGED <<inputs, rec, mempool, height, tip, check, ids, best, todo, spenders, result>>
  BY Zenon DEF SyncWallet, vars, chain, node, checker
<1>3. QED  BY <1>1, <1>2 DEF ChainInv, ChainAt, AnswersAt, ResultAt, Conflict, FinalIsTrue,
              ReplacementIsAnother, Confs, InChain

LEMMA ChainInitially == Init => ChainInv
<1>1. SUFFICES ASSUME Init PROVE ChainInv
  OBVIOUS
<1>2. SendInv
  BY Zenon, <1>1, SendInitially
<1>3. ASSUME NEW t \in Txs PROVE ChainAt(t) /\ AnswersAt(t) /\ ResultAt(t)
  BY <1>1 DEF Init, ChainAt, AnswersAt, ResultAt
<1>4. best <= tip /\ FinalIsTrue /\ ReplacementIsAnother
  BY <1>1 DEF Init, FinalIsTrue, ReplacementIsAnother
<1>5. QED  BY Zenon, <1>2, <1>3, <1>4 DEF ChainInv

(* Until the first reorg the chain only grows. *)
UntilReorg == SendInv /\ (reorgs = 0 => ChainInv)

LEMMA ChainInductive ==
    ASSUME BlocksAreCounted, StatusIsNoCoin, UntilReorg, [Next]_vars
    PROVE  UntilReorg'
<1>1. SendInv'
  BY Zenon, SendInductive DEF UntilReorg
<1>2. SUFFICES ASSUME reorgs' = 0 PROVE ChainInv'
  BY Zenon, <1>1 DEF UntilReorg
<1>3. reorgs \in Nat
  BY Zenon DEF UntilReorg, SendInv, Types
<1>4. ~Reorg
  BY <1>2, <1>3 DEF Reorg
<1>5. UNCHANGED reorgs
  BY Zenon, <1>4 DEF Next, MineBlocks, SyncWallet, PayOnchain, create_onchain_send,
     RegisterSend, BroadcastTx, RegisterBroadcast, PayOnchainFails, Age, Checker, StartCheck,
     GetHeight, ApplyConfs, GetTxStatus, GetOutputStatus, CheckFails, Crash, vars, chain
<1>6. ChainInv
  BY Zenon, <1>2, <1>5 DEF UntilReorg
<1>7. CASE MineBlocks
  BY Zenon, <1>6, <1>7, MineSteps
<1>8. ASSUME NEW s \in Txs, PayOnchain(s) PROVE ChainInv'
  BY Zenon, <1>6, <1>8, PayOnchainInChain
<1>9. CASE Checker \/ CheckFails \/ Crash
  BY Zenon, <1>6, <1>9, CheckerInChain
<1>10. CASE SyncWallet \/ UNCHANGED vars
  BY Zenon, <1>6, <1>10, OthersInChain
<1>11. QED  BY Zenon, <1>4, <1>7, <1>8, <1>9, <1>10 DEF Next

LEMMA ChainInvariance ==
    ASSUME BlocksAreCounted, StatusIsNoCoin
    PROVE  Spec => []UntilReorg
<1>1. Init => UntilReorg
  BY Zenon, ChainInitially DEF UntilReorg, ChainInv
<1>2. UntilReorg /\ [Next]_vars => UntilReorg'
  BY Zenon, ChainInductive
<1>3. QED  BY <1>1, <1>2, PTL DEF Spec

(* The confirmation checker asks for one height and for each tx and each   *)
(* input in turn, while blocks are found.  Until a block is replaced, a    *)
(* record it makes final is true: FullyConfirmed has its confirmations,    *)
(* FullyReplaced a conflicting tx that has them.                           *)
THEOREM FinalRecordsAreTrue ==
    ASSUME BlocksAreCounted, StatusIsNoCoin
    PROVE  Spec => [](reorgs = 0 => FinalIsTrue)
<1>1. UntilReorg => (reorgs = 0 => FinalIsTrue)
  BY Zenon DEF UntilReorg, ChainInv
<1>2. QED  BY <1>1, ChainInvariance, PTL

(* get_tx_conf_status takes no tx for its own replacement, although it     *)
(* does not compare the spender of an input with the tx: a tx mined        *)
(* between the two requests is above best_height.                          *)
THEOREM ReplacementsAreOthers ==
    ASSUME BlocksAreCounted, StatusIsNoCoin
    PROVE  Spec => [](reorgs = 0 => ReplacementIsAnother)
<1>1. UntilReorg => (reorgs = 0 => ReplacementIsAnother)
  BY Zenon DEF UntilReorg, ChainInv
<1>2. QED  BY <1>1, ChainInvariance, PTL

-----------------------------------------------------------------------------
(* The types of TypeOK, with the bounds of the model. *)

BoundsAreNumbers == MaxHeight \in Nat /\ MaxReorgs \in Nat /\ MaxFaults \in Nat

(* What TypeOK says and Types does not. *)
Bounded ==
    /\ seen \subseteq Txs /\ aged \subseteq Txs /\ now \subseteq Txs
    /\ check \in {"idle", "height", "queries"}
    /\ tip \in 0..MaxHeight /\ height \in [Txs -> 0..MaxHeight]
    /\ best \in 0..MaxHeight
    /\ spenders \in [Txs -> SUBSET Spender]
    /\ result \in [Txs -> TxConfStatus(Heights) \cup {None}]
    /\ reorgs \in 0..MaxReorgs /\ faults \in 0..MaxFaults

LEMMA ChainStaysBounded ==
    ASSUME BoundsAreNumbers, BlocksAreCounted, Types, Bounded, MineBlocks \/ Reorg
    PROVE  Bounded'
<1>1. UNCHANGED <<seen, aged, now, check, best, spenders, result, faults>>
  BY Zenon DEF MineBlocks, Reorg, node, checker
<1>2. CASE MineBlocks
  <2>1. PICK n \in Bursts, S \in SUBSET mempool :
           tip + n <= MaxHeight /\ tip' = tip + n /\ Includes(S, tip + 1)
    BY Zenon, <1>2 DEF MineBlocks
  <2>2. tip' \in 0..MaxHeight /\ tip + 1 \in 0..MaxHeight
    BY <2>1 DEF BlocksAreCounted, BoundsAreNumbers, Bounded
  <2>3. height' \in [Txs -> 0..MaxHeight]
    BY Zenon, <2>1, <2>2 DEF Includes, Bounded
  <2>4. reorgs' = reorgs
    BY Zenon, <1>2 DEF MineBlocks
  <2>5. QED  BY Zenon, <1>1, <2>2, <2>3, <2>4 DEF Bounded
<1>3. CASE Reorg
  <2> DEFINE out == {t \in Txs : InChain(t) /\ height[t] = tip}
  <2>1. PICK S \in SUBSET (mempool \cup out) :
           height' = [t \in Txs |-> IF t \in S THEN tip ELSE IF t \in out THEN 0 ELSE height[t]]
    BY Zenon, <1>3 DEF Reorg
  <2> HIDE DEF out
  <2>2. 0 \in 0..MaxHeight
    BY DEF BoundsAreNumbers
  <2>3. height' \in [Txs -> 0..MaxHeight]
    BY Zenon, <2>1, <2>2 DEF Bounded
  <2>4. tip' = tip /\ reorgs < MaxReorgs /\ reorgs' = reorgs + 1
    BY Zenon, <1>3 DEF Reorg
  <2>5. reorgs' \in 0..MaxReorgs
    BY <2>4 DEF Bounded, BoundsAreNumbers
  <2>6. QED  BY Zenon, <1>1, <2>3, <2>4, <2>5 DEF Bounded
<1>4. QED  BY Zenon, <1>2, <1>3

(* A failure is counted. *)
LEMMA FaultsAreBounded ==
    ASSUME BoundsAreNumbers, faults \in 0..MaxFaults, Fault \/ UNCHANGED faults
    PROVE  faults' \in 0..MaxFaults
BY DEF BoundsAreNumbers, Fault

LEMMA SendsStayBounded ==
    ASSUME BoundsAreNumbers, Types, Bounded, NEW s \in Txs, PayOnchain(s)
    PROVE  Bounded'
<1>1. UNCHANGED <<seen, height, tip, reorgs, checker>>
  BY Zenon DEF PayOnchain, create_onchain_send, RegisterSend, BroadcastTx,
     RegisterBroadcast, PayOnchainFails, Age, chain
<1>2. aged' \subseteq aged \cup {s}
  BY Zenon DEF PayOnchain, create_onchain_send, RegisterSend, BroadcastTx,
     RegisterBroadcast, PayOnchainFails, Age
<1>3. Fault \/ UNCHANGED faults
  BY Zenon DEF PayOnchain, create_onchain_send, RegisterSend, BroadcastTx,
     RegisterBroadcast, PayOnchainFails, Age
<1>4. faults' \in 0..MaxFaults
  BY Zenon, <1>3, FaultsAreBounded DEF Bounded
<1>5. QED  BY Zenon, <1>1, <1>2, <1>4 DEF Bounded, checker

LEMMA IdleIsBounded ==
    ASSUME BoundsAreNumbers, CheckerIdles
    PROVE  /\ now' = {} /\ check' = "idle" /\ best' \in 0..MaxHeight
           /\ spenders' \in [Txs -> SUBSET Spender]
           /\ result' \in [Txs -> TxConfStatus(Heights) \cup {None}]
<1>1. 0 \in 0..MaxHeight
  BY DEF BoundsAreNumbers
<1>2. QED  BY Zenon, <1>1 DEF CheckerIdles

(* The number of confirmations of a block of the chain. *)
LEMMA ConfsAreHeights ==
    ASSUME BoundsAreNumbers, best \in 0..MaxHeight, NEW h \in Nat, 0 < h, h <= best
    PROVE  best - h + 1 \in Heights
BY DEF BoundsAreNumbers, Heights

LEMMA StatusIsBounded ==
    ASSUME BoundsAreNumbers, best \in 0..MaxHeight, NEW t, NEW found \in SUBSET Spender,
           NEW r \in ConfStatusOf(t, found)
    PROVE  r \in TxConfStatus(Heights)
<1> DEFINE rs == Replacements(found, best)
<1>1. CASE rs # {}
  <2>1. r \in rs
    BY Zenon, <1>1 DEF ConfStatusOf
  <2>2. PICK s \in found :
           /\ s.height <= best
           /\ r = [type |-> "HasReplacement", rp_txid |-> s.txid,
                   confs |-> best - s.height + 1]
    BY Zenon, <2>1 DEF Replacements
  <2>3. s.txid \in RpTxids /\ s.height \in Nat /\ 0 < s.height
    BY DEF Spender, Heights, Txs, BoundsAreNumbers
  <2>4. best - s.height + 1 \in Heights
    BY <2>2, <2>3, ConfsAreHeights
  <2>5. QED  BY Zenon, <2>2, <2>3, <2>4 DEF TxConfStatus
<1>2. CASE rs = {}
  <2>1. r = [type |-> "Dropped"] \/ r = [type |-> "ZeroConf"]
    BY Zenon, <1>2 DEF ConfStatusOf
  <2>2. /\ [type |-> "Dropped"] \in TxConfStatus(Heights)
        /\ [type |-> "ZeroConf"] \in TxConfStatus(Heights)
    BY Zenon DEF TxConfStatus
  <2>3. QED  BY <2>1, <2>2
<1>3. QED  BY Zenon, <1>1, <1>2

LEMMA CheckerStaysBounded ==
    ASSUME BoundsAreNumbers, Types, Bounded, Checker \/ CheckFails \/ Crash
    PROVE  Bounded'
<1>1. UNCHANGED <<seen, aged, height, tip, reorgs>> /\ (Fault \/ UNCHANGED faults)
  BY Zenon DEF Checker, CheckFails, Crash, StartCheck, GetHeight, ApplyConfs, GetTxStatus,
     GetOutputStatus, chain, node
<1> DEFINE StillBounded ==
      /\ now' \subseteq Txs /\ check' \in {"idle", "height", "queries"}
      /\ best' \in 0..MaxHeight
      /\ spenders' \in [Txs -> SUBSET Spender]
      /\ result' \in [Txs -> TxConfStatus(Heights) \cup {None}]
<1>2. ASSUME CheckerIdles PROVE StillBounded
  BY Zenon, <1>2, IdleIsBounded
<1>3. ASSUME StartCheck PROVE StillBounded
  BY Zenon, <1>3 DEF StartCheck, Bounded
<1>4. ASSUME GetHeight PROVE StillBounded
  BY Zenon, <1>4 DEF GetHeight, Bounded
<1>5. ASSUME NEW s \in Txs, GetTxStatus(s), ~CheckerIdles PROVE StillBounded
  <2>1. /\ ~(InChain(s) /\ height[s] > best)
        /\ result' = [result EXCEPT ![s] =
              IF InChain(s) THEN [type |-> "InBestChain", confs |-> best - height[s] + 1]
              ELSE None]
        /\ UNCHANGED <<check, now, best, spenders>>
    BY Zenon, <1>5 DEF GetTxStatus
  <2>2. height[s] \in Nat /\ best \in Nat
    BY Zenon DEF Types
  <2>3. ASSUME InChain(s) PROVE best - height[s] + 1 \in Heights
    <3>1. 0 < height[s] /\ height[s] <= best
      BY <2>1, <2>2, <2>3 DEF InChain
    <3>2. QED  BY Zenon, <2>2, <3>1, ConfsAreHeights DEF Bounded
  <2>4. InChain(s) =>
           [type |-> "InBestChain", confs |-> best - height[s] + 1] \in TxConfStatus(Heights)
    BY Zenon, <2>3 DEF TxConfStatus
  <2>5. QED  BY Zenon, <2>1, <2>4 DEF Bounded
<1>6. ASSUME NEW s \in Txs, NEW c \in Coins, GetOutputStatus(s, c) PROVE StillBounded
  <2> DEFINE by == {u \in Txs : InChain(u) /\ c \in inputs[u]}
  <2> DEFINE found == spenders[s] \cup {[txid |-> u, height |-> height[u]] : u \in by}
  <2>1. /\ spenders' = [spenders EXCEPT ![s] = found]
        /\ (\E r \in ConfStatusOf(s, found) : result' = [result EXCEPT ![s] = r])
              \/ result' = result
        /\ UNCHANGED <<check, now, best>>
    BY Zenon, <1>6 DEF GetOutputStatus
  <2>2. \A u \in by : u \in Txs /\ height[u] \in Heights
    BY DEF Bounded, BoundsAreNumbers, Heights, InChain
  <2>3. spenders[s] \in SUBSET Spender
    BY Zenon DEF Bounded
  <2> HIDE DEF by
  <2>4. found \in SUBSET Spender
    <3>1. \A u \in by : [txid |-> u, height |-> height[u]] \in Spender
      BY Zenon, <2>2 DEF Spender
    <3>2. QED  BY Zenon, <2>3, <3>1
  <2> HIDE DEF found
  <2>5. \A r \in ConfStatusOf(s, found) : r \in TxConfStatus(Heights)
    BY Zenon, <2>4, StatusIsBounded DEF Bounded
  <2>6. result' \in [Txs -> TxConfStatus(Heights) \cup {None}]
    BY Zenon, <2>1, <2>5 DEF Bounded
  <2>7. QED  BY Zenon, <2>1, <2>4, <2>6 DEF Bounded
<1>7. ApplyConfs \/ CheckFails \/ Crash => CheckerIdles
  BY Zenon DEF ApplyConfs, CheckFails, Crash
<1>8. StillBounded
  BY Zenon, <1>2, <1>3, <1>4, <1>5, <1>6, <1>7 DEF Checker
<1>9. faults' \in 0..MaxFaults
  BY Zenon, <1>1, FaultsAreBounded DEF Bounded
<1>10. QED  BY Zenon, <1>1, <1>8, <1>9 DEF Bounded

LEMMA StaysBounded ==
    ASSUME BoundsAreNumbers, BlocksAreCounted, SendInv, Bounded, [Next]_vars
    PROVE  Bounded'
<1>1. Types
  BY Zenon DEF SendInv
<1>2. CASE MineBlocks \/ Reorg
  BY Zenon, <1>1, <1>2, ChainStaysBounded
<1>3. ASSUME NEW s \in Txs, PayOnchain(s) PROVE Bounded'
  BY Zenon, <1>1, <1>3, SendsStayBounded
<1>4. CASE Checker \/ CheckFails \/ Crash
  BY Zenon, <1>1, <1>4, CheckerStaysBounded
<1>5. CASE SyncWallet
  <2>1. UNCHANGED <<chain, aged, checker, faults>> /\ seen' = mempool \cup {t \in Txs : InChain(t)}
    BY Zenon, <1>5 DEF SyncWallet
  <2>2. seen' \subseteq Txs
    BY Zenon, <1>1, <2>1 DEF Types
  <2>3. QED  BY Zenon, <2>1, <2>2 DEF Bounded, chain, checker
<1>6. CASE UNCHANGED vars
  BY Zenon, <1>6 DEF Bounded, vars, chain, node, checker
<1>7. QED  BY Zenon, <1>2, <1>3, <1>4, <1>5, <1>6 DEF Next

LEMMA InitiallyBounded == ASSUME BoundsAreNumbers, Init PROVE Bounded
<1>1. 0 \in 0..MaxHeight /\ 0 \in 0..MaxReorgs /\ 0 \in 0..MaxFaults
  BY DEF BoundsAreNumbers
<1>2. QED  BY Zenon, <1>1 DEF Init, Bounded

(* The records of onchain sends are true, for any sends and coins and a    *)
(* chain that moves between the requests of a check: pay_onchain records   *)
(* before it broadcasts, `broadcasted` never bails, and until a block is   *)
(* replaced what check_onchain_confs made final is final.                  *)
THEOREM RecordsAreAlwaysTrue ==
    ASSUME BoundsAreNumbers, BlocksAreCounted, StatusIsNoCoin
    PROVE  Spec => []RecordsAreTrue
<1>1. Init => Bounded
  BY Zenon, InitiallyBounded
<1>2. SendInv /\ Bounded /\ [Next]_vars => Bounded'
  BY Zenon, StaysBounded
<1>3. SendInv /\ Bounded => TypeOK
  BY Zenon DEF SendInv, Types, Bounded, TypeOK
<1>4. TypeOK /\ SentIsRecorded /\ BroadcastIsAccepted /\ (reorgs = 0 => FinalIsTrue)
        /\ (reorgs = 0 => ReplacementIsAnother) => RecordsAreTrue
  BY Zenon DEF RecordsAreTrue
<1>5. QED
  BY <1>1, <1>2, <1>3, <1>4, SendInvariance, SendsAreRecorded, BroadcastsAreAccepted,
     FinalRecordsAreTrue, ReplacementsAreOthers, PTL DEF Spec

-----------------------------------------------------------------------------
(* The wallet database. *)
CONSTANTS
    Paths, Scripts, Outpoints, Txids, Times, Batches, DirectOps, MaxIndex,
    ChannelSize, PersistErrors, Crashes
VARIABLES d, notifs, task, snapshot, file, db_node, wallet, unsaved

Db == INSTANCE WalletDb WITH node <- db_node

(* tokio's channels hold at least one message. *)
ChannelHolds == ChannelSize \in Nat \ {0}

(* What the persister task is about to write, if nobody has notified it    *)
(* since it took its snapshot.                                             *)
SnapshotIsCurrent ==
    (db_node = "up" /\ task = "persisting" /\ notifs = 0 /\ ~unsaved) => d = snapshot

(* The task of a running node receives; a node that is down has no sync.   *)
DbInv ==
    /\ notifs \in 0..ChannelSize
    /\ task \in {"idle", "persisting", "ended"}
    /\ db_node \in {"up", "shutdown", "down"} /\ wallet \in {"free", "syncing"}
    /\ db_node = "up" => task # "ended"
    /\ db_node = "down" => wallet = "free"
    /\ SnapshotIsCurrent
    /\ Db!CommitsAreNoticed

LEMMA DbInitially ==
    ASSUME ChannelHolds
    PROVE  Db!Init => DbInv
BY DEF ChannelHolds, Db!Init, DbInv, SnapshotIsCurrent, Db!CommitsAreNoticed

(* read_wallet_db: a database is unsaved unless it is what the file holds. *)
LEMMA BootSteps ==
    ASSUME ChannelHolds, DbInv, Db!Boot
    PROVE  DbInv'
<1> DEFINE read == IF file = None THEN Db!NewDbData ELSE file
<1> DEFINE checked == Db!check_descriptor_checksum(
                       Db!check_descriptor_checksum(read, "External", "ext"), "Internal", "int")
<1>1. /\ d' = checked /\ db_node' = "up" /\ task' = "idle" /\ notifs' = 0 /\ wallet' = "free"
      /\ unsaved' = (checked # read \/ file = None) /\ file' = file
  BY Zenon DEF Db!Boot
<1>2. ~unsaved' => d' = file'
  <2> HIDE DEF checked
  <2>1. QED  BY Zenon, <1>1
<1>3. QED  BY <1>1, <1>2 DEF ChannelHolds, DbInv, SnapshotIsCurrent, Db!CommitsAreNoticed

(* commit_batch changes the data first; try_send then leaves at least one  *)
(* message for a task that still receives, whether or not the channel was  *)
(* full.                                                                   *)
LEMMA CommitSteps ==
    ASSUME ChannelHolds, DbInv, NEW b, Db!SyncCommit(b)
    PROVE  DbInv'
<1>1. /\ UNCHANGED <<task, snapshot, file, db_node, unsaved>> /\ wallet' = "free"
      /\ notifs' = IF task = "ended" \/ notifs = ChannelSize THEN notifs ELSE notifs + 1
  BY Zenon DEF Db!SyncCommit, Db!commit_batch, Db!Notify
<1>2. notifs' \in 0..ChannelSize
  BY <1>1 DEF DbInv, ChannelHolds
<1>3. db_node = "up" => notifs' > 0
  BY <1>1 DEF DbInv, ChannelHolds
<1>4. QED  BY <1>1, <1>2, <1>3 DEF DbInv, SnapshotIsCurrent, Db!CommitsAreNoticed

(* What BDK writes without a batch is marked as unsaved. *)
LEMMA WalletSteps ==
    ASSUME DbInv,
           \/ Db!SyncStart \/ Db!SyncFails \/ Db!get_address \/ Db!create_onchain_send
           \/ Db!create_and_sign_funding_tx \/ \E o \in DirectOps : Db!DirectOp(o)
    PROVE  DbInv'
<1>1. CASE Db!SyncStart \/ Db!SyncFails
  BY Zenon, <1>1 DEF Db!SyncStart, Db!SyncFails, DbInv, SnapshotIsCurrent, Db!CommitsAreNoticed
<1>2. ASSUME UNCHANGED <<notifs, task, snapshot, file, db_node, wallet>>, unsaved' = TRUE
      PROVE  DbInv'
  BY Zenon, <1>2 DEF DbInv, SnapshotIsCurrent, Db!CommitsAreNoticed
<1>3. QED  BY Zenon, <1>1, <1>2 DEF Db!get_address, Db!create_onchain_send, Db!create_and_sign_funding_tx,
              Db!NewAddress, Db!DirectOp

(* The task drains the channel before it serializes. *)
LEMMA TaskSteps ==
    ASSUME ChannelHolds, DbInv, Db!TaskRecv \/ Db!PersistOk \/ Db!PersistFails
    PROVE  DbInv'
<1>1. CASE Db!TaskRecv
  BY <1>1 DEF ChannelHolds, Db!TaskRecv, DbInv, SnapshotIsCurrent, Db!CommitsAreNoticed
<1>2. CASE Db!PersistOk
  BY Zenon, <1>2 DEF Db!PersistOk, DbInv, SnapshotIsCurrent, Db!CommitsAreNoticed
<1>3. CASE Db!PersistFails
  BY Zenon, <1>3 DEF Db!PersistFails, DbInv, SnapshotIsCurrent, Db!CommitsAreNoticed
<1>4. QED  BY Zenon, <1>1, <1>2, <1>3

LEMMA StopSteps ==
    ASSUME DbInv, Db!SendShutdown \/ Db!TaskShutdown \/ Db!Exit \/ Db!Crash \/ UNCHANGED Db!vars
    PROVE  DbInv'
<1>1. CASE Db!SendShutdown
  BY Zenon, <1>1 DEF Db!SendShutdown, DbInv, SnapshotIsCurrent, Db!CommitsAreNoticed
<1>2. CASE Db!TaskShutdown
  BY Zenon, <1>2 DEF Db!TaskShutdown, DbInv, SnapshotIsCurrent, Db!CommitsAreNoticed
<1>3. CASE Db!Exit
  BY Zenon, <1>3 DEF Db!Exit, DbInv, SnapshotIsCurrent, Db!CommitsAreNoticed
<1>4. CASE Db!Crash
  BY Zenon, <1>4 DEF Db!Crash, DbInv, SnapshotIsCurrent, Db!CommitsAreNoticed
<1>5. CASE UNCHANGED Db!vars
  BY Zenon, <1>5 DEF Db!vars, DbInv, SnapshotIsCurrent, Db!CommitsAreNoticed
<1>6. QED  BY Zenon, <1>1, <1>2, <1>3, <1>4, <1>5

LEMMA DbInvariance ==
    ASSUME ChannelHolds
    PROVE  Db!Spec => []DbInv
<1>1. ASSUME DbInv, [Db!Next]_(Db!vars) PROVE DbInv'
  <2>1. ASSUME NEW b \in Batches, Db!SyncCommit(b) PROVE DbInv'
    BY Zenon, <1>1, <2>1, CommitSteps
  <2>2. QED  BY Zenon, <1>1, <2>1, BootSteps, WalletSteps, TaskSteps, StopSteps DEF Db!Next
<1>2. DbInv /\ [Db!Next]_(Db!vars) => DbInv'
  BY Zenon, <1>1
<1>3. QED  BY DbInitially, <1>2, PTL DEF Db!Spec

(* commit_batch and spawn_wallet_db_persister_task: for every capacity of  *)
(* the channel and every batch, a batch committed while the task persists, *)
(* or while the channel is full, is in the file or will be noticed.        *)
THEOREM CommitsAreAlwaysNoticed ==
    ASSUME ChannelHolds
    PROVE  Db!Spec => []Db!CommitsAreNoticed
<1>1. DbInv => Db!CommitsAreNoticed
  BY Zenon DEF DbInv
<1>2. QED  BY <1>1, DbInvariance, PTL
=============================================================================
