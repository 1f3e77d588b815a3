------------------------------- MODULE MCApp --------------------------------
(***************************************************************************)
(* The app: AmountOps, and instances of AppPaymentDb, AppAccount and       *)
(* PaymentUri. A behaviour is one of the component that `scenario` names;  *)
(* the amount stays at zero and the variables of the other components at   *)
(* None.                                                                   *)
(***************************************************************************)
EXTENDS AmountOps, Sequences, TLC

CONSTANTS
    Scenarios,   \* the scenarios that a run looks at
    Torn, s1, s2, c1, c2

VARIABLES
    scenario,    \* the component, and its instance, that a behaviour is about
    node, app, db, disk, sync, noteReq, up, h, sealed, creds, root, backup,
    approved, faults, app_acc, store, latest, env, signups, signedUp, release,
    shown, text, network, uri, best

Symmetry == Permutations({s1, s2}) \cup Permutations({c1, c2})

-----------------------------------------------------------------------------
(* The payments of the app: deleted, with notes, synced by two callers,    *)
(* with failing writes and crashes.                                        *)
dbVars == <<node, app, db, disk, sync, noteReq>>

(* <<inboundInvoice, amount, description>>.  With empty notes only, the    *)
(* payments of StableShapes are junk until they complete, or never.        *)
StableShapes == {<<FALSE, TRUE, FALSE>>, <<TRUE, FALSE, FALSE>>}
AllShapes    == {<<FALSE, TRUE, FALSE>>} \cup ({TRUE} \X BOOLEAN \X BOOLEAN)

Db == INSTANCE AppPaymentDb WITH
    Shapes <- StableShapes, BatchSize <- 2, InOrder <- TRUE,
    RequestErrors <- TRUE, MaxIndex <- 2, Notes <- {"empty"},
    Callers <- {"c"}, WriteErrors <- FALSE, Crashes <- FALSE,
    MayDelete <- TRUE
DbNotes == INSTANCE AppPaymentDb WITH
    Shapes <- AllShapes, BatchSize <- 2, InOrder <- TRUE,
    RequestErrors <- TRUE, MaxIndex <- 1, Notes <- {"empty", "text"},
    Callers <- {"c"}, WriteErrors <- FALSE, Crashes <- FALSE,
    MayDelete <- FALSE
DbPair == INSTANCE AppPaymentDb WITH
    Shapes <- {<<FALSE, TRUE, FALSE>>, <<TRUE, TRUE, FALSE>>},
    BatchSize <- 2, InOrder <- TRUE, RequestErrors <- TRUE, MaxIndex <- 2,
    Notes <- {"text"}, Callers <- {"c"}, WriteErrors <- FALSE,
    Crashes <- FALSE, MayDelete <- FALSE
DbSync == INSTANCE AppPaymentDb WITH
    Shapes <- StableShapes, BatchSize <- 2, InOrder <- TRUE,
    RequestErrors <- TRUE, MaxIndex <- 3, Notes <- {}, Callers <- {c1, c2},
    WriteErrors <- FALSE, Crashes <- FALSE, MayDelete <- FALSE
DbFaults == INSTANCE AppPaymentDb WITH
    Shapes <- {<<FALSE, TRUE, FALSE>>}, BatchSize <- 2, InOrder <- TRUE,
    RequestErrors <- TRUE, MaxIndex <- 2, Notes <- {"empty"},
    Callers <- {"c"}, WriteErrors <- TRUE, Crashes <- TRUE, MayDelete <- FALSE

NoDb ==
    /\ node = None /\ app = None /\ db = None /\ disk = None /\ sync = None
    /\ noteReq = None

-----------------------------------------------------------------------------
(* Accounts: signup and upgrades over three releases; other requests to    *)
(* the provision node.                                                     *)
accVars == <<up, h, sealed, creds, root, backup, approved, faults, app_acc,
    store, latest, env, signups, signedUp, release>>

Rel(v, m) == [version |-> v, measurement |-> m]
R1 == Rel(1, "a")
R2 == Rel(2, "b")
R3 == Rel(3, "c")
Rebuilt == Rel(2, "d")
Yanked == [r \in {R1, R2, R3, Rebuilt} |-> IF r = R3 THEN {R1} ELSE {}]
Env(d, n) == [deploy_env |-> d, network |-> n]
Staging == Env("staging", "testnet")
AllEnvs ==
    {Staging, Env("dev", "testnet"), Env("prod", "mainnet"), Env("prod", "testnet")}
Replication ==
    {[allow |-> FALSE, enc |-> FALSE], [allow |-> FALSE, enc |-> TRUE]}

Account == INSTANCE AppAccount WITH
    MAX_SIZE <- 2, Seeds <- {s1, s2}, NodeEnv <- Staging, Orphans <- FALSE,
    Releases <- {R1, R2, R3}, Yanked <- Yanked, Handlers <- {1},
    MaxFaults <- 2, AppEnvs <- {Staging}, Passwords <- {TRUE}, Others <- {},
    FileStore <- FALSE, MaxSignups <- 2, Rollbacks <- TRUE, app <- app_acc
Others == INSTANCE AppAccount WITH
    MAX_SIZE <- 2, Seeds <- {s1, s2}, NodeEnv <- Staging, Orphans <- FALSE,
    Releases <- {R2, Rebuilt}, Yanked <- Yanked, Handlers <- {1, 2},
    MaxFaults <- 1, AppEnvs <- AllEnvs, Passwords <- BOOLEAN,
    Others <- Replication, FileStore <- TRUE, MaxSignups <- 1,
    Rollbacks <- FALSE, app <- app_acc

NoAcc ==
    /\ up = None /\ h = None /\ sealed = None /\ creds = None
    /\ root = None /\ backup = None /\ approved = None /\ faults = None
    /\ app_acc = None /\ store = None /\ latest = None /\ env = None
    /\ signups = None /\ signedUp = None /\ release = None

-----------------------------------------------------------------------------
(* The amounts are AmountOps itself, with a narrow integer for u64 and     *)
(* 10 msat for a satoshi.                                                  *)
NoAmt ==
    /\ amount = 0 /\ steps = 0

-----------------------------------------------------------------------------
(* Payment URIs, as sequences of tokens. *)
uriVars == <<shown, text, network, uri, best>>

Addresses == {"bc1", "tb1"}
Invoices == {"lnbc", "lntb"}
Offers == {"lno"}
LowercaseOf == ("BITCOIN" :> "bitcoin") @@ ("LIGHTNING" :> "lightning")
                 @@ ("BC1" :> "bc1") @@ ("LNBC" :> "lnbc")

\* bc1 is a mainnet address, tb1 one of both test networks.  The invoice of
\* testnet has a fallback that is valid on signet too.
ValidOn ==
    ("bc1" :> {"main"}) @@ ("tb1" :> {"test", "sig"}) @@ ("lnbc" :> {"main"})
      @@ ("lntb" :> {"test"}) @@ ("lno" :> {"main"})
FallbacksOf == ("lnbc" :> <<>>) @@ ("lntb" :> <<"tb1">>)
InvoiceAmount == ("lnbc" :> None) @@ ("lntb" :> 30)
InvoiceText == ("lnbc" :> <<"hi">>) @@ ("lntb" :> None)

\* 1, 2, 1.5, 2.5, -1 satoshis and more than Amount::MAX.
DecimalsOf == ("1" :> 20) @@ ("2" :> 40) @@ ("1.5" :> 30) @@ ("2.5" :> 50)
                @@ ("-1" :> -20) @@ ("huge" :> 300)

Pieces ==
    {<<"amount", "=", d>> : d \in {"1", "1.5", "2.5", "-1", "huge", "hi"}}
      \cup {<<"label", "=", "hi">>, <<"label", "=">>, <<"label", "=", "%FF">>,
            <<"message", "=", "%20", "=">>, <<"message">>}
      \cup {<<"lightning", "=", w>> : w \in {"LNBC", "lntb", "lno", "hi"}}
      \cup {<<"b12", "=", "lno">>, <<"b12", "=", "lnbc">>, <<"req-", "hi", "=">>,
            <<>>}

Queries == {<<"?">> \o p : p \in Pieces}
             \cup {<<"?">> \o p \o <<"&">> \o q : p, q \in Pieces}

SomeTexts ==
    {<<s, ":">> \o b \o q :
        s \in {"BITCOIN", "lightning"}, q \in Queries,
        b \in {<<>>, <<"BC1">>, <<"tb1">>, <<"lntb">>, <<"lno">>}}
      \cup {<<s, ":", "bc1">> : s \in {"http", "longerthantwelve"}}
      \cup {<<" ", w, " ">> : w \in {"BC1", "tb1", "LNBC", "lntb", "lno", "hi"}}
      \cup {<<>>}

Labels == {None, <<>>, <<" ", "hi">>, <<"&", "label", "=">>, <<"%", ":">>, <<"?">>}

SomeOnchain == [address : Addresses, amount : {None, 20, 40}, label : Labels,
              message : Labels]

SomeUris ==
    [variant : {"Address"}, of : Addresses]
      \cup [variant : {"Invoice"}, of : Invoices]
      \cup [variant : {"Offer"}, of : Offers]
      \cup [variant : {"LightningUri"},
            of : [invoice : Invoices \cup {None}, offer : Offers \cup {None}]]
      \cup [variant : {"Bip21Uri"},
            of : [onchain : SomeOnchain \cup {None}, invoice : Invoices \cup {None},
                  offer : Offers \cup {None}]]

Uri == INSTANCE PaymentUri WITH
    Addresses <- Addresses, Invoices <- Invoices, Offers <- Offers,
    Lowercase <- LowercaseOf, Networks <- {"main", "test", "sig"},
    NetworksOf <- ValidOn, Fallbacks <- FallbacksOf,
    AmountOf <- InvoiceAmount, Description <- InvoiceText,
    Decimals <- DecimalsOf, LongWords <- {"longerthantwelve"},
    Texts <- SomeTexts, Uris <- SomeUris

NoUri ==
    /\ shown = None /\ text = None /\ network = None /\ uri = None
    /\ best = None

-----------------------------------------------------------------------------
(* The constants of the instances are as their modules require. *)
ASSUME InstancesAreProper ==
    /\ Db!ConstantsAssumption
    /\ DbNotes!ConstantsAssumption /\ DbPair!ConstantsAssumption
    /\ DbSync!ConstantsAssumption /\ DbFaults!ConstantsAssumption
    /\ Account!MaxSizeIsPositive /\ Account!CannotYankCurrentVersion
    /\ AmountsAssumption

mcVars == <<scenario, dbVars, accVars, vars, uriVars>>

notDb == <<scenario, accVars, vars, uriVars>>
notAcc == <<scenario, dbVars, vars, uriVars>>
notAmt == <<scenario, dbVars, accVars, uriVars>>
notUri == <<scenario, dbVars, accVars, vars>>

MCInit ==
    /\ scenario \in Scenarios
    /\ \/ scenario = "db" /\ Db!Init
       \/ scenario = "db_notes" /\ DbNotes!Init
       \/ scenario = "db_pair" /\ DbPair!Init
       \/ scenario = "db_sync" /\ DbSync!Init
       \/ scenario = "db_faults" /\ DbFaults!Init
       \/ scenario = "account" /\ Account!Init
       \/ scenario = "account_others" /\ Others!Init
       \/ scenario = "amounts" /\ Init
       \/ scenario = "uris" /\ Uri!Init
    /\ scenario \in {"db", "db_notes", "db_pair", "db_sync", "db_faults"} \/ NoDb
    /\ scenario \in {"account", "account_others"} \/ NoAcc
    /\ scenario \in {"amounts"} \/ NoAmt
    /\ scenario \in {"uris"} \/ NoUri

MCNext ==
    \/ scenario = "db" /\ Db!Next /\ UNCHANGED notDb
    \/ scenario = "db_notes" /\ DbNotes!Next /\ UNCHANGED notDb
    \/ scenario = "db_pair" /\ DbPair!Next /\ UNCHANGED notDb
    \/ scenario = "db_sync" /\ DbSync!Next /\ UNCHANGED notDb
    \/ scenario = "db_faults" /\ DbFaults!Next /\ UNCHANGED notDb
    \/ scenario = "account" /\ Account!Next /\ UNCHANGED notAcc
    \/ scenario = "account_others" /\ Others!Next /\ UNCHANGED notAcc
    \/ scenario = "amounts" /\ Next /\ UNCHANGED notAmt
    \/ scenario = "uris" /\ Uri!Next /\ UNCHANGED notUri

MCSpec == MCInit /\ [][MCNext]_mcVars

-----------------------------------------------------------------------------
(* Properties. *)

(* Where no payment changes between junk and not junk while it is pending, *)
(* the app's indexes are those that its payments define, its files are     *)
(* what memory says, scrolling finds each payment at its place, and no     *)
(* panic of a sync poisons the lock.  With inbound invoices and notes of   *)
(* any kind, this holds of all but these invoices; a panic is always due   *)
(* to one of them; and the outcome that the app shows is the node's        *)
(* (app-rs/src/payments.rs).                                               *)
CopyIsConsistent ==
    /\ scenario = "db" => Db!TypeOK /\ Db!IndexInvariants /\ Db!DiskMatchesMemory
    /\ scenario = "db_notes" => DbNotes!ConsistentButForInvoices
    /\ scenario = "db_pair" => DbPair!ConsistentButForInvoices
    /\ scenario = "db_sync" =>
         DbSync!ScrollLookup /\ DbSync!ScrollNotJunk /\ DbSync!NeverPoisoned

(* No update of a pending payment panics while it holds the lock of the    *)
(* payment db, whichever notes the user writes: the assertion at           *)
(* app-rs/src/payments.rs:334 and the invariant at 91 that it rests on.    *)
NotesPoisonNothing == scenario = "db_notes" => DbNotes!NeverPoisoned

(* The app's copy of the payments has no gap below its newest payment,     *)
(* whichever write fails or is torn, and never replaces a final outcome by *)
(* an older response (app-rs/src/payments.rs, ffs.rs).                     *)
CopyMissesNothing ==
    /\ [](scenario = "db_faults" => DbFaults!NoGaps)
    /\ [][scenario = "db_sync" => DbSync!KeepsOutcomes]_mcVars

(* Whichever step of signup or provisioning stops: each approved version   *)
(* has its sealed seed; a release as new as the one that the app recorded  *)
(* can run, also when the record is missing or torn; the committed seed is *)
(* known to the backend, and it or the seed of an earlier signup is backed *)
(* up; neither a backup nor a newer version is given up (provision.rs,     *)
(* approved_versions.rs, app.rs).  Whether the app can be loaded is another*)
(* matter: see ReachesLatest.                                              *)
AccountIsKept ==
    /\ [](scenario = "account" =>
            Account!TypeOK /\ Account!ApprovedIsSealed /\ Account!LatestProvisionedRuns)
    /\ [](scenario = "account_others" =>
            Others!CommittedSeedIsKnown /\ Others!BackupIsOfASignup)
    /\ [][scenario = "account" => Account!KeepsNewest /\ Account!KeepsBackup]_mcVars

(* A URI that is displayed parses to what it was made from, parsing and    *)
(* displaying again changes nothing, the best method is one that can be    *)
(* paid, and an onchain method is what the URI asks for (payment-          *)
(* uri/src/lib.rs).                                                        *)
UrisAreFaithful ==
    scenario = "uris" =>
        Uri!RoundTrip /\ Uri!ParseIsStable /\ Uri!BestIsPayable /\ Uri!OnchainIsAsAsked
=============================================================================
