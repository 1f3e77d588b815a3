----------------------------- MODULE MCStorage ------------------------------
(***************************************************************************)
(* What the node stores, and where: EncryptedFiles, and instances of       *)
(* GoogleVfs, GDriveCredentials and SealedSeeds. A behaviour is one of the *)
(* instance that `scenario` names; the variables of EncryptedFiles are     *)
(* otherwise as they are initially, those of the other components None.    *)
(***************************************************************************)
EXTENDS EncryptedFiles, TLC

CONSTANTS
    Scenarios,   \* the scenarios that a run looks at
    c1, c2, c3, v1, v2, a, b, m1, m2, p, q

VARIABLES
    scenario,    \* the component, and its instance, that a behaviour is about
    drive, stored, pc, given, lexe, root, cache, op, allowed, faults, now,
    expiry, code, stored_cred, cred, holder, req, chan, task, faults_cred,
    platform, backend, keyid, node, sealed, refused

Symmetry == Permutations({c1, c2}) \cup Permutations({a, b})

-----------------------------------------------------------------------------
(* The Google VFS: two clients of one directory; the scan of several       *)
(* directories; lost replies.                                              *)
vfsVars == <<drive, stored, pc, given, lexe, root, cache, op, allowed, faults>>

Vfs == INSTANCE GoogleVfs WITH
    Files <- {<<1, 1>>, <<1, 2>>}, Data <- {v1, v2}, Clients <- {c1, c2},
    Lossy <- FALSE, MaxGids <- 6, MaxFaults <- 1
VfsDirs == INSTANCE GoogleVfs WITH
    Files <- {<<0, 1>>, <<1, 1>>, <<1, 2>>, <<2, 1>>}, Data <- {v1},
    Clients <- {c3}, Lossy <- FALSE, MaxGids <- 6, MaxFaults <- 0
VfsLossy == INSTANCE GoogleVfs WITH
    Files <- {<<0, 1>>}, Data <- {v1}, Clients <- {c3}, Lossy <- TRUE,
    MaxGids <- 5, MaxFaults <- 4

NoVfs ==
    /\ drive = None /\ stored = None /\ pc = None /\ given = None
    /\ lexe = None /\ root = None /\ cache = None /\ op = None
    /\ allowed = None /\ faults = None

-----------------------------------------------------------------------------
(* The credentials of the Google Drive client. *)
credVars == <<now, expiry, code, stored_cred, cred, holder, req, chan, task,
    faults_cred>>

Cred == INSTANCE GDriveCredentials WITH
    Clients <- {c1, c2}, Lifetime <- 7, MinLifetime <- 4, Timeout <- 1,
    MaxTime <- 8, MaxFaults <- 1, stored <- stored_cred, faults <- faults_cred

NoCred ==
    /\ now = None /\ expiry = None /\ code = None /\ stored_cred = None
    /\ cred = None /\ holder = None /\ req = None /\ chan = None
    /\ task = None /\ faults_cred = None

-----------------------------------------------------------------------------
(* Sealed seeds: releases built for different CPUSVNs and a debug build;   *)
(* and outside of SGX.                                                     *)
sealVars == <<platform, backend, keyid, node, sealed, refused>>

Enclave(mr, signer, debug, current) ==
    [measurement |-> mr, signer |-> signer, debug |-> debug, current |-> current]
Releases ==
    {Enclave("v1", "lexe", FALSE, 1), Enclave("v1", "dummy", TRUE, 1),
     Enclave("v2", "lexe", FALSE, 2)}
MockReleases == {Enclave("v1", "lexe", FALSE, 1), Enclave("v2", "lexe", FALSE, 1)}
Config(env, network) == [env |-> env, network |-> network]

Seeds == INSTANCE SealedSeeds WITH
    Users <- {a, b}, Machines <- {m1, m2}, Enclaves <- Releases,
    Configs <- {Config("Prod", "mainnet"), Config("Dev", "mainnet")},
    UseSgx <- TRUE, MaxEpoch <- 1, MaxSvn <- 2, MaxSeals <- 2
SeedsMock == INSTANCE SealedSeeds WITH
    Users <- {a, b}, Machines <- {m1}, Enclaves <- MockReleases,
    Configs <- {Config("Dev", "regtest"), Config("Dev", "testnet")},
    UseSgx <- FALSE, MaxEpoch <- 0, MaxSvn <- 1, MaxSeals <- 3

NoSeal ==
    /\ platform = None /\ backend = None /\ keyid = None /\ node = None
    /\ sealed = None /\ refused = None

-----------------------------------------------------------------------------
(* Encrypted files and payments; backups under passwords at and beyond the *)
(* length limits.                                                          *)
SomePasswords == {[text |-> "a", len |-> 11], [text |-> "b", len |-> 12],
                  [text |-> "c", len |-> 512], [text |-> "d", len |-> 513]}

FilesOnly == INSTANCE EncryptedFiles WITH Passwords <- {}, MaxWrites <- 2
BackupsOnly == INSTANCE EncryptedFiles WITH
    Singletons <- {}, Required <- {}, Monitors <- {}, PaymentIds <- {}

-----------------------------------------------------------------------------
(* The constants of the instances are as their modules require. *)
ASSUME InstancesAreProper ==
    /\ Cred!TimesAssumption /\ Cred!TimeoutIsShort
    /\ Seeds!EnclavesAssumption /\ SeedsMock!EnclavesAssumption

mcVars == <<scenario, vfsVars, credVars, sealVars, vars>>

notVfs == <<scenario, credVars, sealVars, vars>>
notCred == <<scenario, vfsVars, sealVars, vars>>
notSeal == <<scenario, vfsVars, credVars, vars>>
notFile == <<scenario, vfsVars, credVars, sealVars>>

MCInit ==
    /\ scenario \in Scenarios /\ Init
    /\ \/ scenario = "vfs" /\ Vfs!Init
       \/ scenario = "vfs_dirs" /\ VfsDirs!Init
       \/ scenario = "vfs_lossy" /\ VfsLossy!Init
       \/ scenario = "credentials" /\ Cred!Init
       \/ scenario = "seeds" /\ Seeds!Init
       \/ scenario = "seeds_mock" /\ SeedsMock!Init
       \/ scenario \in {"files", "backup"}
    /\ scenario \in {"vfs", "vfs_dirs", "vfs_lossy"} \/ NoVfs
    /\ scenario \in {"credentials"} \/ NoCred
    /\ scenario \in {"seeds", "seeds_mock"} \/ NoSeal

MCNext ==
    \/ scenario = "vfs" /\ Vfs!Next /\ UNCHANGED notVfs
    \/ scenario = "vfs_dirs" /\ VfsDirs!Next /\ UNCHANGED notVfs
    \/ scenario = "vfs_lossy" /\ VfsLossy!Next /\ UNCHANGED notVfs
    \/ scenario = "credentials" /\ Cred!Next /\ UNCHANGED notCred
    \/ scenario = "seeds" /\ Seeds!Next /\ UNCHANGED notSeal
    \/ scenario = "seeds_mock" /\ SeedsMock!Next /\ UNCHANGED notSeal
    \/ scenario = "files" /\ FilesOnly!Next /\ UNCHANGED notFile
    \/ scenario = "backup" /\ BackupsOnly!Next /\ UNCHANGED notFile

MCSpec == MCInit /\ [][MCNext]_mcVars

-----------------------------------------------------------------------------
(* Properties. *)

(* The Google VFS is the store that the persister takes it for (gvfs.rs):  *)
(* its cache is complete, a reader finds what was last written, also after *)
(* failures and restarts, a directory that is read file by file is a       *)
(* snapshot, its scan finds the files of that directory, and there is      *)
(* never a second root.                                                    *)
VfsIsAStore ==
    /\ scenario = "vfs" =>
          /\ Vfs!TypeOK /\ Vfs!CacheIsComplete
          /\ Vfs!ReadsWhatWasWritten /\ Vfs!DirectoryIsSnapshot
    /\ scenario = "vfs_dirs" => VfsDirs!ScanIsDirectory
    /\ scenario = "vfs_lossy" => VfsLossy!OneRoot

(* A token is alive as long as the request that carries it may be under    *)
(* way, however it was obtained, and clients that find the token stale     *)
(* share one refresh (oauth2.rs).                                          *)
TokenOutlivesRequest ==
    scenario = "credentials" =>
        Cred!TypeOK /\ Cred!OneRefreshAtATime /\ Cred!TokenOutlivesRequest

(* A node runs with the seed of its own user, sealed for its measurement,  *)
(* machine, environment and network, whatever the database returned; and   *)
(* where the machine id promises that a seed can be unsealed it can        *)
(* (enclave.rs).                                                           *)
OwnSeedUnseals ==
    /\ scenario = "seeds" =>
          Seeds!TypeOK /\ Seeds!RunsOwnSeed /\ Seeds!MachineIdMeansUnsealable
    /\ scenario = "seeds_mock" => SeedsMock!RunsOwnSeed
=============================================================================
