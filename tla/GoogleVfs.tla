----------------------------- MODULE GoogleVfs ------------------------------
(***************************************************************************)
(* The Google VFS (gdrive/src/gvfs.rs, lexe_dir.rs, api.rs): finding or    *)
(* creating the LexeData dir and the GVFS root, the cache of Google file   *)
(* ids and its reader-writer lock, and the five file operations.           *)
(*                                                                         *)
(* Google Drive is external: objects with unique ids, which may share a    *)
(* name.  Ids are numbers in the order of creation.  One GoogleVfs is      *)
(* alive at a time, as the doc of the struct demands.                      *)
(***************************************************************************)
EXTENDS Integers, FiniteSets, Sequences, SequencesExt

CONSTANTS
    Files,        \* VfsFileIds: pairs of numbers <<dirname, filename>>, ordered like the strings
    Data,         \* file contents
    Clients,      \* tasks of the node that use the VFS
    Lossy,        \* whether the reply to an applied request may be lost
    MaxGids,      \* bound: objects created in Google Drive
    MaxFaults,    \* bound: failed requests and crashes
    None

SingletonDirectory == 0
Gids == 1..MaxGids

VARIABLES
    drive,     \* Google Drive: per gid, the object or None
    stored,    \* the GvfsRoot that was persisted in Lexe's DB, or None
    pc,        \* GoogleVfs::init: next request; "down" and "up" before and after
    given,     \* init: whether it was supplied with a root
    lexe,      \* init: gid of the LexeData dir, or None
    root,      \* gid of the GVFS root, or None
    cache,     \* gid_cache: per file, its gid or None
    op,        \* per client: the operation it waits for or performs
    allowed,   \* per file: contents that a reader may find
    faults

vars == <<drive, stored, pc, given, lexe, root, cache, op, allowed, faults>>
initVars == <<pc, given, lexe, root, stored>>

Object == [kind : {"lexe", "root"}, parent : Gids \cup {None}]
            \cup [kind : {"file"}, parent : Gids, name : Files, data : Data]
Idle    == [kind |-> "idle"]
NoCache == [f \in Files |-> None]

Existing == {g \in Gids : drive[g] # None}
NextGid  == Cardinality(Existing) + 1     \* deleted ids are kept as tombstones
Tombstone == [kind |-> "deleted"]

Objects(kind, parent) ==
    {g \in Existing : drive[g].kind = kind /\ drive[g].parent = parent}

Holders(kinds) == {c \in Clients : op[c].kind \in kinds /\ op[c].held}
ReadOps  == {"get_file", "get_directory"}
WriteOps == {"create_file", "upsert_file", "delete_file"}

TypeOK ==
    /\ \A g \in Gids : drive[g] = None \/ drive[g] = Tombstone \/ drive[g] \in Object
    /\ stored \in Gids \cup {None}
    /\ pc \in {"down", "find_lexe", "create_lexe", "find_root", "create_root",
               "list", "persist_root", "up"}
    /\ given \in BOOLEAN
    /\ lexe \in Gids \cup {None} /\ root \in Gids \cup {None}
    /\ cache \in [Files -> Gids \cup {None}]
    /\ \A c \in Clients : op[c].kind \in {"idle"} \cup ReadOps \cup WriteOps
    /\ Cardinality(Holders(WriteOps)) <= 1
    /\ allowed \in [Files -> SUBSET (Data \cup {None})]
    /\ faults \in 0..MaxFaults

Init ==
    /\ drive = [g \in Gids |-> None]
    /\ stored = None /\ pc = "down" /\ given = FALSE /\ lexe = None /\ root = None
    /\ cache = NoCache
    /\ op = [c \in Clients |-> Idle]
    /\ allowed = [f \in Files |-> {None}]
    /\ faults = 0

Fault == faults < MaxFaults /\ faults' = faults + 1

-----------------------------------------------------------------------------
(* GoogleVfs::init, with the caller's persist of a new root at the end.    *)

Create(object) == NextGid \in Gids /\ drive' = [drive EXCEPT ![NextGid] = object]

InitStarts ==
    /\ pc = "down"
    /\ given' = (stored # None) /\ root' = stored /\ lexe' = None
    /\ pc' = IF stored # None THEN "list" ELSE "find_lexe"
    /\ UNCHANGED <<drive, stored, cache, op, allowed, faults>>

(* find_lexe_dir: of several, the one that was created first. *)
FindLexeDir ==
    LET found == Objects("lexe", None) IN
    /\ pc = "find_lexe"
    /\ IF found = {} THEN pc' = "create_lexe" /\ UNCHANGED lexe
       ELSE /\ pc' = "find_root"
            /\ lexe' = CHOOSE g \in found : \A h \in found : g <= h
    /\ UNCHANGED <<drive, stored, given, root, cache, op, allowed, faults>>

CreateLexeDir ==
    /\ pc = "create_lexe" /\ Create([kind |-> "lexe", parent |-> None])
    /\ lexe' = NextGid /\ pc' = "find_root"
    /\ UNCHANGED <<stored, given, root, cache, op, allowed, faults>>

(* The cache is built from a complete listing, by name: of two files with  *)
(* one name, either may win.                                               *)
Listing(r) == Objects("file", r)
CachesOf(r) ==
    {c \in [Files -> Listing(r) \cup {None}] :
        \A f \in Files :
            LET named == {g \in Listing(r) : drive[g].name = f}
            IN  IF named = {} THEN c[f] = None ELSE c[f] \in named}

Up(r) == cache' \in CachesOf(r) /\ given' = FALSE /\ lexe' = None

(* search_direct_children and get_or_create_gvfs_root.  Two roots are an   *)
(* error.  If the given root was right all along, its listing is used.     *)
FindRoot ==
    LET found == Objects("root", lexe) IN
    /\ pc = "find_root" /\ Cardinality(found) <= 1
    /\ IF found = {} THEN pc' = "create_root" /\ UNCHANGED <<root, cache, given, lexe>>
       ELSE \E g \in found :
              IF given /\ g = root THEN pc' = "up" /\ Up(g) /\ UNCHANGED root
              ELSE pc' = "list" /\ root' = g /\ given' = FALSE /\ UNCHANGED <<cache, lexe>>
    /\ UNCHANGED <<drive, stored, op, allowed, faults>>

CreateRoot ==
    /\ pc = "create_root" /\ Create([kind |-> "root", parent |-> lexe])
    /\ root' = NextGid /\ given' = FALSE /\ pc' = "list"
    /\ UNCHANGED <<stored, lexe, cache, op, allowed, faults>>

(* list_direct_children of the given root (searched for if it is empty),   *)
(* or of the one that was found, which the caller then persists.           *)
ListChildren ==
    /\ pc = "list"
    /\ IF given /\ Listing(root) = {}
       THEN pc' = "find_lexe" /\ UNCHANGED <<cache, given, lexe>>
       ELSE pc' = (IF given THEN "up" ELSE "persist_root") /\ Up(root)
    /\ UNCHANGED <<drive, stored, root, op, allowed, faults>>

PersistRoot ==
    /\ pc = "persist_root" /\ stored' = root /\ pc' = "up"
    /\ UNCHANGED <<drive, given, lexe, root, cache, op, allowed, faults>>

(* A request of init fails, after taking effect or not.  A failed listing  *)
(* of a given root leads to a search; if that finds the same root, the     *)
(* error is returned after all.                                            *)
InitFails ==
    /\ pc \notin {"down", "up"} /\ Fault
    /\ \/ UNCHANGED <<drive, stored>>
       \/ pc = "create_lexe" /\ Create([kind |-> "lexe", parent |-> None]) /\ UNCHANGED stored
       \/ pc = "create_root" /\ Create([kind |-> "root", parent |-> lexe]) /\ UNCHANGED stored
       \/ pc = "persist_root" /\ stored' = root /\ UNCHANGED drive
    /\ pc' = "down" /\ given' = FALSE /\ lexe' = None /\ root' = None /\ cache' = NoCache
    /\ UNCHANGED <<op, allowed>>

-----------------------------------------------------------------------------
(* File operations: a client calls, gets the lock, and its request ends.   *)

(* Bound: a write is called only if there is an id left for it. *)
HasRoom == Cardinality({c \in Clients : op[c].kind \in WriteOps}) + NextGid <= MaxGids

Call(c) ==
    /\ pc = "up" /\ op[c] = Idle
    /\ \/ \E f \in Files :
            \/ op' = [op EXCEPT ![c] = [kind |-> "get_file", held |-> FALSE, file |-> f]]
            \/ op' = [op EXCEPT ![c] = [kind |-> "delete_file", held |-> FALSE, file |-> f]]
            \/ \E k \in {"create_file", "upsert_file"}, d \in Data :
                 /\ HasRoom
                 /\ op' = [op EXCEPT ![c] = [kind |-> k, held |-> FALSE, file |-> f, data |-> d]]
       \/ \E v \in {f[1] : f \in Files} \ {SingletonDirectory} :
            op' = [op EXCEPT ![c] = [kind |-> "get_directory", held |-> FALSE, dir |-> v]]
    /\ UNCHANGED <<drive, initVars, cache, allowed, faults>>

(* MUTANT of CanLock: upsert_file takes the read lock, as for a known gid. *)
MutUpsertSharesLock(c) ==
    IF op[c].kind \in ReadOps \cup {"upsert_file"} THEN Holders(WriteOps \ {"upsert_file"}) = {}
    ELSE Holders(WriteOps \cup ReadOps) = {}

(* tokio::sync::RwLock *)
CanLock(c) ==
    IF op[c].kind \in ReadOps THEN Holders(WriteOps) = {}
    ELSE Holders(WriteOps \cup ReadOps) = {}

Less(f, g) == f[1] < g[1] \/ (f[1] = g[1] /\ f[2] < g[2])

(* get_directory: from the lower bound <dirname>/"" in the order of the    *)
(* BTreeMap, until the dirname changes.                                    *)
subdir(known, dir) ==
    LET from == SetToSortSeq({f \in known : ~Less(f, <<dir, 0>>)}, Less)
        stop == {i \in 1..Len(from) : from[i][1] # dir}
        n    == IF stop = {} THEN Len(from) ELSE (CHOOSE i \in stop : \A j \in stop : i <= j) - 1
    IN  {from[i] : i \in 1..n}

(* The files that a reader asks for and the cache knows. *)
WantedBy(o) ==
    LET known == {f \in Files : cache[f] # None}
    IN  IF o.kind = "get_file" THEN {o.file} \cap known ELSE subdir(known, o.dir)

Reading(o, files) ==
    [kind |-> o.kind, held |-> TRUE, todo |-> files, got |-> [f \in {} |-> None],
     gid |-> [f \in files |-> cache[f]]]

(* A reader looks up its gids under the lock and starts the downloads. *)
StartRead(c) ==
    /\ op[c].kind \in ReadOps /\ ~op[c].held /\ CanLock(c)
    /\ op' = [op EXCEPT ![c] =
          IF WantedBy(@) = {} THEN Idle ELSE Reading(@, WantedBy(@))]
    /\ UNCHANGED <<drive, initVars, cache, allowed, faults>>

(* One download; the last one ends the operation. *)
Download(c, f) ==
    /\ c \in Holders(ReadOps) /\ f \in op[c].todo
    /\ drive[op[c].gid[f]] # Tombstone
    /\ op' = [op EXCEPT ![c] =
          IF op[c].todo = {f} THEN Idle
          ELSE [@ EXCEPT !.todo = @ \ {f},
                         !.got = [x \in DOMAIN @ \cup {f} |->
                                    IF x = f THEN drive[op[c].gid[f]].data ELSE @[x]]]]
    /\ UNCHANGED <<drive, initVars, cache, allowed, faults>>

DownloadFails(c) ==
    /\ c \in Holders(ReadOps)
    /\ IF \E f \in op[c].todo : drive[op[c].gid[f]] = Tombstone THEN UNCHANGED faults ELSE Fault
    /\ op' = [op EXCEPT ![c] = Idle]
    /\ UNCHANGED <<drive, initVars, cache, allowed>>

(* create_file of a known file and delete_file of an unknown one return an *)
(* error under the lock, before any request.                               *)
Refused(o) ==
    \/ o.kind = "create_file" /\ cache[o.file] # None
    \/ o.kind = "delete_file" /\ cache[o.file] = None

StartWrite(c) ==
    /\ op[c].kind \in WriteOps /\ ~op[c].held /\ CanLock(c)
    /\ op' = [op EXCEPT ![c] = IF Refused(op[c]) THEN Idle ELSE [@ EXCEPT !.held = TRUE]]
    /\ UNCHANGED <<drive, initVars, cache, allowed, faults>>

(* What Google does on a write: update or delete by gid, or create.  An    *)
(* unknown gid is refused.                                                 *)
GoogleApplies(o) ==
    LET g == cache[o.file] IN
    IF o.kind = "create_file" \/ g = None
    THEN Create([kind |-> "file", parent |-> root, name |-> o.file, data |-> o.data])
    ELSE /\ drive[g] # Tombstone
         /\ drive' = [drive EXCEPT ![g] =
              IF o.kind = "delete_file" THEN Tombstone ELSE [@ EXCEPT !.data = o.data]]

Wanted(o) == IF o.kind = "delete_file" THEN None ELSE o.data

(* The reply arrives, and the cache follows. *)
WriteDone(c) ==
    LET o == op[c] IN
    /\ c \in Holders(WriteOps)
    /\ GoogleApplies(o)
    /\ cache' = [cache EXCEPT ![o.file] =
          IF o.kind = "delete_file" THEN None ELSE IF @ = None THEN NextGid ELSE @]
    /\ allowed' = [allowed EXCEPT ![o.file] = {Wanted(o)}]
    /\ op' = [op EXCEPT ![c] = Idle]
    /\ UNCHANGED <<initVars, faults>>

(* The request fails, or its reply is lost. *)
WriteFails(c) ==
    LET o == op[c] IN
    /\ c \in Holders(WriteOps)
    /\ \/ UNCHANGED <<drive, allowed>> /\ (IF cache[o.file] # None /\ drive[cache[o.file]] = Tombstone
                                           THEN UNCHANGED faults ELSE Fault)
       \/ Lossy /\ GoogleApplies(o) /\ Fault
            /\ allowed' = [allowed EXCEPT ![o.file] = @ \cup {Wanted(o)}]
    /\ op' = [op EXCEPT ![c] = Idle]
    /\ UNCHANGED <<initVars, cache>>

(* The node stops; a request that is under way may still be applied. *)
Crash ==
    /\ pc = "up" /\ Fault
    /\ \/ UNCHANGED <<drive, allowed>>
       \/ \E c \in Holders(WriteOps) :
            GoogleApplies(op[c])
              /\ allowed' = [allowed EXCEPT ![op[c].file] = @ \cup {Wanted(op[c])}]
    /\ pc' = "down" /\ root' = None /\ cache' = NoCache
    /\ op' = [c \in Clients |-> Idle]
    /\ UNCHANGED <<stored, given, lexe>>

(* The user deletes the GVFS root, with its files, in Google Drive. *)
RootDeleted ==
    /\ pc = "down" /\ Fault
    /\ \E g \in Existing : drive[g].kind = "root"
    /\ drive' = [g \in Gids |->
          IF drive[g] # None /\ drive[g].kind \in {"root", "file"} THEN Tombstone ELSE drive[g]]
    /\ allowed' = [f \in Files |-> {None}]
    /\ UNCHANGED <<initVars, cache, op>>

InitSteps ==
    \/ InitStarts \/ FindLexeDir \/ CreateLexeDir \/ FindRoot \/ CreateRoot
    \/ ListChildren \/ PersistRoot

Operate(c) ==
    \/ StartRead(c) \/ StartWrite(c) \/ WriteDone(c)
    \/ \E f \in Files : Download(c, f)

Next ==
    \/ InitSteps \/ InitFails \/ Crash \/ RootDeleted
    \/ \E c \in Clients : Call(c) \/ Operate(c) \/ DownloadFails(c) \/ WriteFails(c)

Spec == Init /\ [][Next]_vars

(* Requests end, and a crashed node is started again. *)
Fairness == WF_vars(InitSteps) /\ \A c \in Clients : SF_vars(Operate(c))
FairSpec == Spec /\ Fairness

-----------------------------------------------------------------------------
(* Properties                                                              *)

(* gvfs.rs, "Cache invariants": the cache is complete, so that it may be   *)
(* used to determine that a file does not exist; and every gid in it is    *)
(* that of a file with this name.  While no writer holds the lock.         *)
CacheIsComplete ==
    pc = "up" /\ Holders(WriteOps) = {} =>
        \A f \in Files : {g \in Listing(root) : drive[g].name = f}
                            = (IF cache[f] = None THEN {} ELSE {cache[f]})

(* What a reader finds, now or after any number of restarts, is what was   *)
(* last acknowledged, or a write whose outcome nobody learned.             *)
ReadsWhatWasWritten ==
    pc = "up" /\ Holders(WriteOps) = {} =>
        \A f \in Files :
            (IF cache[f] = None THEN None
             ELSE IF drive[cache[f]] = Tombstone THEN None ELSE drive[cache[f]].data) \in allowed[f]

(* get_directory downloads file after file: what it has got is still what  *)
(* is there, and what it will get exists.                                  *)
DirectoryIsSnapshot ==
    \A c \in Holders(ReadOps) :
        /\ \A f \in op[c].todo : drive[op[c].gid[f]] # Tombstone
        /\ \A f \in DOMAIN op[c].got :
              drive[op[c].gid[f]] # Tombstone /\ drive[op[c].gid[f]].data = op[c].got[f]

(* The scan of get_directory finds exactly the known files of its          *)
(* directory, whatever else is cached.                                     *)
ScanIsDirectory ==
    LET known == {f \in Files : cache[f] # None} IN
    \A d \in {f[1] : f \in Files} : subdir(known, d) = {f \in known : f[1] = d}

(* Failed requests and crashes during init never make a second root: the   *)
(* root that was persisted, or is in use, is the only one.                 *)
OneRoot ==
    /\ Cardinality({g \in Existing : drive[g].kind = "root"}) <= 1
    /\ pc = "up" => drive[root].kind = "root" /\ stored \in {root, None}
=============================================================================
