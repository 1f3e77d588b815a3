--------------------------- MODULE EncryptedFiles ---------------------------
(***************************************************************************)
(* What the node and the app store encrypted, and what they accept when    *)
(* they read it back: files and payments under the user's VFS master key   *)
(* (lexe-ln/src/persister.rs, lexe-ln/src/payments/mod.rs,                 *)
(* node/src/persister.rs, common/src/aes.rs), and the backup of the root   *)
(* seed under a password (common/src/{root_seed,password}.rs).             *)
(*                                                                         *)
(* Encryption is symbolic: a ciphertext carries the key and the additional *)
(* authenticated data (AAD) it was made with, and opens only under equal   *)
(* ones.  The storage is not trusted to return what was asked for: it may  *)
(* return older versions, other files, other users' files, parts of two    *)
(* ciphertexts joined, or nothing.                                         *)
(***************************************************************************)
EXTENDS Integers

CONSTANTS Users, Values,
          Singletons,   \* files in the "." directory that a node may start without
          Required,     \* the ones it cannot start without: "gdrive_credentials"
          Monitors,     \* channel monitors, named by their funding outpoint
          PaymentIds,
          Passwords,    \* passwords with their number of characters
          MaxWrites,    \* bound on the number of encryptions
          None

SINGLETON_DIRECTORY == "."
CHANNEL_MONITORS_DIRECTORY == "channel_monitors"
MIN_PASSWORD_LENGTH == 12
MAX_PASSWORD_LENGTH == 512

VARIABLES key_ids,   \* random key ids and salts drawn so far
          files,     \* stored VfsFiles, all versions
          payments,  \* stored DbPayments, all versions
          backups,   \* stored password-encrypted root seeds
          written,   \* history: who wrote what where
          last       \* the last read: what was asked for, and the outcome

vars == <<key_ids, files, payments, backups, written, last>>

(***************************************************************************)
(* AesMasterKey.  Every encryption draws a new key id, from which and from *)
(* the master key a single-use key is derived.                             *)
(***************************************************************************)
derive_unbound_key(master, key_id) == <<master, key_id>>

Aad(version, key_id, aad) == [version |-> version, key_id |-> key_id, aad |-> aad]

encrypt_in_place(key, aad, data) == [key |-> key, aad |-> aad, data |-> data]

decrypt_in_place(key, aad, box) ==
    IF box.key # key \/ box.aad # aad THEN None ELSE box.data

encrypt(master, key_id, aad, data) ==
    [version |-> 0, key_id |-> key_id,
     box |-> encrypt_in_place(derive_unbound_key(master, key_id),
                              Aad(0, key_id, aad), data)]

decrypt(master, aad, blob) ==
    IF blob.version # 0 THEN None
    ELSE decrypt_in_place(derive_unbound_key(master, blob.key_id),
                          Aad(blob.version, blob.key_id, aad), blob.box)

(***************************************************************************)
(* RootSeed: child secrets by label.  A seed is named by its user.         *)
(***************************************************************************)
derive(seed, label) == <<seed, label>>

derive_vfs_master_key(seed) == derive(seed, "vfs master key")

(***************************************************************************)
(* Files: the AAD is the path.                                             *)
(***************************************************************************)
FileAad(id) == <<id.dirname, id.filename>>

encrypt_file(master, key_id, file_id, value) ==
    [id |-> file_id, data |-> encrypt(master, key_id, FileAad(file_id), value)]

MutIdNotChecked(master, expected, returned) ==
    decrypt(master, FileAad(returned.id), returned.data)

decrypt_file(master, expected, returned) ==
    IF returned.id # expected THEN None
    ELSE decrypt(master, FileAad(expected), returned.data)

(***************************************************************************)
(* Payments: there is no AAD.                                              *)
(***************************************************************************)
encrypt_payment(master, key_id, payment) ==
    [id |-> payment.id, data |-> encrypt(master, key_id, <<>>, payment)]

decrypt_payment(master, db_payment) == decrypt(master, <<>>, db_payment.data)

(***************************************************************************)
(* The password-encrypted backup: a random salt, and the seed under a key  *)
(* derived from password and salt, with the salt as AAD.                   *)
(***************************************************************************)
validate_password_len(pw) == pw.len \in MIN_PASSWORD_LENGTH..MAX_PASSWORD_LENGTH

derive_aes_key(pw, salt) == <<pw, salt>>

password_encrypt(pw, salt, key_id, seed) ==
    IF ~validate_password_len(pw) THEN None
    ELSE [salt |-> salt,
          data |-> encrypt(derive_aes_key(pw, salt), key_id, <<salt>>, seed)]

password_decrypt(pw, combined) ==
    IF ~validate_password_len(pw) THEN None
    ELSE decrypt(derive_aes_key(pw, combined.salt), <<combined.salt>>, combined.data)

(***************************************************************************)
(* What a storage that keeps every version may return: each ciphertext     *)
(* with its own or another header, or of a later format version.           *)
(***************************************************************************)
Joined(blobs) ==
    {[b EXCEPT !.key_id = c.key_id] : b, c \in blobs} \union
    {[b EXCEPT !.version = 1] : b \in blobs}

Blobs == {f.data : f \in files} \union {p.data : p \in payments}

FileAnswers == {None} \union
    [id : {f.id : f \in files}, data : Joined(Blobs)]

PaymentAnswers == {None} \union
    [id : {p.id : p \in payments}, data : Joined(Blobs)]

(***************************************************************************)
(* Writers.                                                                *)
(***************************************************************************)
FileIds == [dirname : {SINGLETON_DIRECTORY}, filename : Singletons \union Required]
             \union [dirname : {CHANNEL_MONITORS_DIRECTORY}, filename : Monitors]

\* persist_file, persist_graph, persist_scorer, persist_gvfs_root, ...: encrypt
\* under the node's own key and upsert.  A monitor's contents name its outpoint.
Persist(u, id, v) ==
    /\ key_ids < MaxWrites
    /\ key_ids' = key_ids + 1
    /\ files' = files \union
         {encrypt_file(derive_vfs_master_key(u), key_ids', id,
                       [funding_txo |-> id.filename, value |-> v])}
    /\ written' = written \union {<<u, id, v>>}
    /\ UNCHANGED <<payments, backups, last>>

PersistPayment(u, i, v) ==
    /\ key_ids < MaxWrites
    /\ key_ids' = key_ids + 1
    /\ payments' = payments \union
         {encrypt_payment(derive_vfs_master_key(u), key_ids', [id |-> i, value |-> v])}
    /\ written' = written \union {<<u, i, v>>}
    /\ UNCHANGED <<files, backups, last>>

\* The app encrypts its seed before it provisions; an error ends the signup.
BackUp(u, pw) ==
    LET combined == password_encrypt(pw, key_ids + 1, key_ids + 1, u)
    IN  /\ key_ids < MaxWrites
        /\ key_ids' = key_ids + 1
        /\ combined # None
        /\ backups' = backups \union {combined}
        /\ written' = written \union {<<pw, u>>}
        /\ UNCHANGED <<files, payments, last>>

(***************************************************************************)
(* Readers.  The outcome is a value, "new" if the reader goes on without   *)
(* the file, or an error.                                                  *)
(***************************************************************************)
Ok(v)  == [kind |-> "ok", value |-> v]
New    == [kind |-> "new"]
Failed == [kind |-> "error"]

Read(op, u, asked, given, outcome) ==
    /\ last' = [op |-> op, user |-> u, asked |-> asked, given |-> given, outcome |-> outcome]
    /\ UNCHANGED <<key_ids, files, payments, backups, written>>

\* read_wallet_db, read_scorer, read_network_graph and read_gvfs_root go on
\* without the file; read_gdrive_credentials does not.
ReadSingleton(u, name, file) ==
    LET id   == [dirname |-> SINGLETON_DIRECTORY, filename |-> name]
        data == decrypt_file(derive_vfs_master_key(u), id, file)
    IN  Read("file", u, id, file,
             IF file = None THEN (IF name \in Required THEN Failed ELSE New)
             ELSE IF data = None THEN Failed
             ELSE Ok(data.value))

\* read_channel_monitors decrypts each file of the listing under the name that
\* the listing gives, and then compares that name with the contents.
ReadMonitor(u, file) ==
    LET id   == [dirname |-> CHANNEL_MONITORS_DIRECTORY, filename |-> file.id.filename]
        data == decrypt_file(derive_vfs_master_key(u), id, file)
    IN  /\ file # None
        /\ Read("file", u, id, file,
                IF data = None THEN Failed
                ELSE IF data.funding_txo # id.filename THEN Failed
                ELSE Ok(data.value))

get_payment(u, i, p) ==
    LET payment == decrypt_payment(derive_vfs_master_key(u), p)
    IN  Read("payment", u, i, p,
             IF p = None THEN New
             ELSE IF payment = None THEN Failed
             ELSE IF payment.id # i THEN Failed
             ELSE Ok(payment.value))

Restore(pw, combined) ==
    LET seed == password_decrypt(pw, combined)
    IN  Read("backup", pw, "root seed", combined,
             IF seed = None THEN Failed ELSE Ok(seed))

Init ==
    /\ key_ids = 0
    /\ files = {} /\ payments = {} /\ backups = {} /\ written = {}
    /\ last = [op |-> "none"]

Next ==
    \/ \E u \in Users, v \in Values :
         \/ \E id \in FileIds : Persist(u, id, v)
         \/ \E i \in PaymentIds : PersistPayment(u, i, v)
    \/ \E u \in Users, pw \in Passwords : BackUp(u, pw)
    \/ \E u \in Users :
         \/ \E name \in Singletons \union Required, f \in FileAnswers :
              ReadSingleton(u, name, f)
         \/ \E f \in FileAnswers : ReadMonitor(u, f)
         \/ \E i \in PaymentIds, p \in PaymentAnswers : get_payment(u, i, p)
    \/ \E pw \in Passwords :
         \E b, c \in backups : Restore(pw, [salt |-> b.salt, data |-> c.data])

Spec == Init /\ [][Next]_vars

(***************************************************************************)
(* Properties.                                                             *)
(***************************************************************************)

\* What is stored is well formed: files lie under known paths, and a key id is
\* drawn for each encryption (KeyId::gen).
TypeOK ==
    /\ key_ids \in 0..MaxWrites
    /\ \A f \in files : f.id \in FileIds /\ f.data.key_id \in 1..key_ids
    /\ \A p \in payments : p.id \in PaymentIds /\ p.data.key_id \in 1..key_ids
    /\ \A b \in backups : b.salt \in 1..key_ids

\* What a node accepts as the contents of a file, a channel monitor or a payment
\* was written by this user in this place, whatever the storage returned
\* (decrypt_file, read_channel_monitors, get_payment).  It may be an older
\* version: encrypt_file's comment says that roll-backs are not detected.
ReadIsOwnWrite ==
    (/\ last.op \in {"file", "payment"}
     /\ last.outcome.kind = "ok")
      => <<last.user, last.asked, last.outcome.value>> \in written

\* A reader that is given what this user stored in this place is never refused,
\* and only a storage that returns nothing makes it go on without the file.
StoredIsReadable ==
    last.op \in {"file", "payment"} =>
      /\ last.outcome.kind = "new" => last.given = None
      /\ (/\ last.given \in (IF last.op = "file" THEN files ELSE payments)
          /\ last.given.id = last.asked
          /\ last.given.data.box.key[1] = derive_vfs_master_key(last.user))
           => last.outcome.kind = "ok"

\* password_decrypt of a stored backup succeeds exactly under the password it
\* was made with, and gives back the seed that was backed up with it.
BackupRestores ==
    last.op = "backup" =>
      /\ last.outcome.kind = "ok" => <<last.user, last.outcome.value>> \in written
      /\ last.given \in backups =>
           (last.outcome.kind = "ok" <=>
              last.given.data.box.key[1] = derive_aes_key(last.user, last.given.salt))

\* What a node accepts as a file, a payment or a backup is what its user wrote in
\* this place, whatever the storage returned; and what the user stored is never
\* refused (persister.rs, root_seed.rs).
FilesReadBack ==
    TypeOK /\ ReadIsOwnWrite /\ StoredIsReadable /\ BackupRestores
=============================================================================
