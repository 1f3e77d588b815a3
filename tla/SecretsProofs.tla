----------------------------- MODULE SecretsProofs -----------------------------
(***************************************************************************)
(* Proofs about what a node keeps secret in storage that it does not trust.*)
(*   EncryptedFiles: for any users, files, payments and passwords, any     *)
(*     number of writes, and any answer that the storage makes up from the *)
(*     ciphertexts it holds.                                               *)
(*   Seeds, an instance of SealedSeeds: for any users, machines, enclaves  *)
(*     and configurations, any history of owner epochs and CPUSVNs, and    *)
(*     any answer that the database makes up from the records it holds.    *)
(***************************************************************************)
EXTENDS EncryptedFiles, TLAPS

-----------------------------------------------------------------------------
(* EncryptedFiles.                                                         *)

(* None is none of the records that are stored or decrypted. *)
FileHypotheses ==
    /\ None \notin Users
    /\ \A i, d : None # [id |-> i, data |-> d]
    /\ \A t, v : None # [funding_txo |-> t, value |-> v]
    /\ \A i, v : None # [id |-> i, value |-> v]
    /\ \A s, d : None # [salt |-> s, data |-> d]

(* What user u stores: a file, a payment, a backup of the seed. *)
FileOf(u, k, id, v) ==
    encrypt_file(derive_vfs_master_key(u), k, id, [funding_txo |-> id.filename, value |-> v])

PaymentOf(u, k, i, v) ==
    encrypt_payment(derive_vfs_master_key(u), k, [id |-> i, value |-> v])

BackupOf(u, k, pw) ==
    [salt |-> k, data |-> encrypt(derive_aes_key(pw, k), k, <<k>>, u)]

(* What was given to the last reader was encrypted before it read. *)
GivenIsOld == last.op = "none" \/ last.given = None \/ last.given.data.box.key[2] \in 1..key_ids

(* Everything in the storage was encrypted by a user under a key id of its *)
(* own, and is in the history.                                             *)
FilesInv ==
    /\ key_ids \in Nat
    /\ \A f \in files : \E u \in Users, k \in 1..key_ids, id \in FileIds, v \in Values :
          f = FileOf(u, k, id, v) /\ <<u, id, v>> \in written
    /\ \A p \in payments : \E u \in Users, k \in 1..key_ids, i \in PaymentIds, v \in Values :
          p = PaymentOf(u, k, i, v) /\ <<u, i, v>> \in written
    /\ \A b \in backups : \E u \in Users, k \in 1..key_ids, pw \in Passwords :
          b = BackupOf(u, k, pw) /\ <<pw, u>> \in written /\ validate_password_len(pw)
    /\ last.op \in {"none", "file", "payment", "backup"}
    /\ GivenIsOld
    /\ ReadIsOwnWrite /\ StoredIsReadable /\ BackupRestores

-----------------------------------------------------------------------------
(* Encryption. *)

LEMMA EncryptFields ==
    ASSUME NEW master, NEW k, NEW aad, NEW data, NEW x, x = encrypt(master, k, aad, data)
    PROVE  /\ x.version = 0 /\ x.key_id = k
           /\ x.box.key = <<master, k>> /\ x.box.aad = Aad(0, k, aad) /\ x.box.data = data
           /\ x.box.key[1] = master /\ x.box.key[2] = k
           /\ x = [version |-> 0, key_id |-> k, box |-> x.box]
<1>1. /\ x.version = 0 /\ x.key_id = k
      /\ x.box = [key |-> <<master, k>>, aad |-> Aad(0, k, aad), data |-> data]
      /\ x = [version |-> 0, key_id |-> k, box |-> x.box]
  BY DEF encrypt, encrypt_in_place, derive_unbound_key
<1>2. x.box.key = <<master, k>> /\ x.box.aad = Aad(0, k, aad) /\ x.box.data = data
  BY <1>1
<1>3. x.box.key[1] = master /\ x.box.key[2] = k
  BY <1>2
<1>4. QED  BY Zenon, <1>1, <1>2, <1>3

(* What opens was made with this key and this AAD ... *)
LEMMA Opened ==
    ASSUME NEW master, NEW aad, NEW x, decrypt(master, aad, x) # None
    PROVE  /\ x.box.key = <<master, x.key_id>> /\ x.box.aad = Aad(0, x.key_id, aad)
           /\ decrypt(master, aad, x) = x.box.data
BY Zenon DEF decrypt, decrypt_in_place, derive_unbound_key

(* ... and what was made with them opens. *)
LEMMA Opens ==
    ASSUME NEW master, NEW aad, NEW data, NEW k, NEW x, x = encrypt(master, k, aad, data)
    PROVE  decrypt(master, aad, x) = data
<1>1. /\ x.version = 0 /\ x.key_id = k
      /\ x.box.key = <<master, k>> /\ x.box.aad = Aad(0, k, aad) /\ x.box.data = data
  BY EncryptFields
<1>2. QED  BY Zenon, <1>1 DEF decrypt, decrypt_in_place, derive_unbound_key

LEMMA AadIsInjective ==
    ASSUME NEW k, NEW j, NEW a, NEW b, Aad(0, k, a) = Aad(0, j, b)
    PROVE  a = b
BY DEF Aad

LEMMA MasterIsInjective ==
    ASSUME NEW u, NEW w, NEW k, NEW j,
           <<derive_vfs_master_key(u), k>> = <<derive_vfs_master_key(w), j>>
    PROVE  u = w
BY DEF derive_vfs_master_key, derive

LEMMA FileFields ==
    ASSUME NEW u, NEW k, NEW id, NEW v, NEW f, f = FileOf(u, k, id, v)
    PROVE  /\ f.id = id
           /\ f.data = encrypt(derive_vfs_master_key(u), k, FileAad(id),
                               [funding_txo |-> id.filename, value |-> v])
           /\ f = [id |-> f.id, data |-> f.data]
BY DEF FileOf, encrypt_file

LEMMA PaymentFields ==
    ASSUME NEW u, NEW k, NEW i, NEW v, NEW p, p = PaymentOf(u, k, i, v)
    PROVE  /\ p.id = i
           /\ p.data = encrypt(derive_vfs_master_key(u), k, <<>>, [id |-> i, value |-> v])
           /\ p = [id |-> p.id, data |-> p.data]
<1> DEFINE payment == [id |-> i, value |-> v]
<1>1. payment.id = i
  OBVIOUS
<1>2. p = [id |-> payment.id, data |-> encrypt(derive_vfs_master_key(u), k, <<>>, payment)]
  BY Zenon DEF PaymentOf, encrypt_payment
<1> HIDE DEF payment
<1>3. p.id = i /\ p.data = encrypt(derive_vfs_master_key(u), k, <<>>, payment)
      /\ p = [id |-> p.id, data |-> p.data]
  BY <1>1, <1>2
<1>4. QED  BY Zenon, <1>3 DEF payment

LEMMA BackupFields ==
    ASSUME NEW u, NEW k, NEW pw, NEW b, b = BackupOf(u, k, pw)
    PROVE  b.salt = k /\ b.data = encrypt(derive_aes_key(pw, k), k, <<k>>, u)
BY DEF BackupOf

(* Two paths with the same AAD are the same path; a payment has none. *)
LEMMA PathsDiffer ==
    ASSUME NEW id \in FileIds, NEW jd \in FileIds, FileAad(id) = FileAad(jd)
    PROVE  id = jd
<1>1. id.dirname = jd.dirname /\ id.filename = jd.filename
  BY DEF FileAad
<1>2. /\ id = [dirname |-> id.dirname, filename |-> id.filename]
      /\ jd = [dirname |-> jd.dirname, filename |-> jd.filename]
  BY DEF FileIds
<1>3. QED  BY Zenon, <1>1, <1>2

LEMMA PaymentHasNoPath ==
    ASSUME NEW id
    PROVE  FileAad(id) # <<>>
BY DEF FileAad

-----------------------------------------------------------------------------
(* What the storage returns. *)

(* A ciphertext that is stored, as a file or as a payment. *)
StoredBox(box) ==
    \/ \E u \in Users, k \in 1..key_ids, id \in FileIds, v \in Values :
         /\ <<u, id, v>> \in written
         /\ box.key = <<derive_vfs_master_key(u), k>> /\ box.aad = Aad(0, k, FileAad(id))
         /\ box.data = [funding_txo |-> id.filename, value |-> v]
    \/ \E u \in Users, k \in 1..key_ids, i \in PaymentIds, v \in Values :
         /\ <<u, i, v>> \in written
         /\ box.key = <<derive_vfs_master_key(u), k>> /\ box.aad = Aad(0, k, <<>>)
         /\ box.data = [id |-> i, value |-> v]

LEMMA BlobsAreStored ==
    ASSUME FilesInv, NEW b \in Blobs
    PROVE  /\ StoredBox(b.box) /\ b.box.key[2] \in 1..key_ids
           /\ \E k : b = [version |-> 0, key_id |-> k, box |-> b.box]
<1>1. CASE b \in {f.data : f \in files}
  <2>1. PICK f \in files : b = f.data
    BY Zenon, <1>1
  <2>2. PICK u \in Users, k \in 1..key_ids, id \in FileIds, v \in Values :
          f = FileOf(u, k, id, v) /\ <<u, id, v>> \in written
    BY Zenon DEF FilesInv
  <2>3. b = encrypt(derive_vfs_master_key(u), k, FileAad(id),
                    [funding_txo |-> id.filename, value |-> v])
    BY <2>1, <2>2, FileFields
  <2>4. /\ b.box.key = <<derive_vfs_master_key(u), k>> /\ b.box.aad = Aad(0, k, FileAad(id))
        /\ b.box.data = [funding_txo |-> id.filename, value |-> v]
        /\ b.box.key[2] = k /\ b = [version |-> 0, key_id |-> k, box |-> b.box]
    BY <2>3, EncryptFields
  <2>5. QED  BY Zenon, <2>2, <2>4 DEF StoredBox
<1>2. CASE b \in {p.data : p \in payments}
  <2>1. PICK p \in payments : b = p.data
    BY Zenon, <1>2
  <2>2. PICK u \in Users, k \in 1..key_ids, i \in PaymentIds, v \in Values :
          p = PaymentOf(u, k, i, v) /\ <<u, i, v>> \in written
    BY Zenon DEF FilesInv
  <2>3. b = encrypt(derive_vfs_master_key(u), k, <<>>, [id |-> i, value |-> v])
    BY <2>1, <2>2, PaymentFields
  <2>4. /\ b.box.key = <<derive_vfs_master_key(u), k>> /\ b.box.aad = Aad(0, k, <<>>)
        /\ b.box.data = [id |-> i, value |-> v]
        /\ b.box.key[2] = k /\ b = [version |-> 0, key_id |-> k, box |-> b.box]
    BY <2>3, EncryptFields
  <2>5. QED  BY Zenon, <2>2, <2>4 DEF StoredBox
<1>3. QED  BY Zenon, <1>1, <1>2 DEF Blobs

LEMMA AnswersAreStored ==
    ASSUME FilesInv, NEW x \in Joined(Blobs)
    PROVE  StoredBox(x.box) /\ x.box.key[2] \in 1..key_ids
<1>1. CASE x \in {[b EXCEPT !.key_id = c.key_id] : b, c \in Blobs}
  <2>1. PICK b \in Blobs, c \in Blobs : x = [b EXCEPT !.key_id = c.key_id]
    BY <1>1
  <2>2. x.box = b.box
    <3>1. PICK k : b = [version |-> 0, key_id |-> k, box |-> b.box]
      BY Zenon, BlobsAreStored
    <3>2. QED  BY <2>1, <3>1
  <2>3. QED  BY Zenon, <2>2, BlobsAreStored
<1>2. CASE x \in {[b EXCEPT !.version = 1] : b \in Blobs}
  <2>1. PICK b \in Blobs : x = [b EXCEPT !.version = 1]
    BY <1>2
  <2>2. x.box = b.box
    <3>1. PICK k : b = [version |-> 0, key_id |-> k, box |-> b.box]
      BY Zenon, BlobsAreStored
    <3>2. QED  BY <2>1, <3>1
  <2>3. QED  BY Zenon, <2>2, BlobsAreStored
<1>3. QED  BY <1>1, <1>2 DEF Joined

(* What opens as the file of user u at a path was written by u there ... *)
LEMMA FileIsOwn ==
    ASSUME FilesInv, NEW x \in Joined(Blobs), NEW u, NEW id \in FileIds,
           decrypt(derive_vfs_master_key(u), FileAad(id), x) # None
    PROVE  \E v : /\ <<u, id, v>> \in written
                  /\ decrypt(derive_vfs_master_key(u), FileAad(id), x) =
                        [funding_txo |-> id.filename, value |-> v]
<1>1. /\ x.box.key = <<derive_vfs_master_key(u), x.key_id>>
      /\ x.box.aad = Aad(0, x.key_id, FileAad(id))
      /\ decrypt(derive_vfs_master_key(u), FileAad(id), x) = x.box.data
  BY ZenonT(30), Opened
<1>2. CASE \E w \in Users, k \in 1..key_ids, jd \in FileIds, v \in Values :
             /\ <<w, jd, v>> \in written
             /\ x.box.key = <<derive_vfs_master_key(w), k>> /\ x.box.aad = Aad(0, k, FileAad(jd))
             /\ x.box.data = [funding_txo |-> jd.filename, value |-> v]
  <2>1. PICK w \in Users, k \in 1..key_ids, jd \in FileIds, v \in Values :
             /\ <<w, jd, v>> \in written
             /\ x.box.key = <<derive_vfs_master_key(w), k>> /\ x.box.aad = Aad(0, k, FileAad(jd))
             /\ x.box.data = [funding_txo |-> jd.filename, value |-> v]
    BY Zenon, <1>2
  <2>2. <<derive_vfs_master_key(u), x.key_id>> = <<derive_vfs_master_key(w), k>>
        /\ Aad(0, x.key_id, FileAad(id)) = Aad(0, k, FileAad(jd))
    BY Zenon, <1>1, <2>1
  <2>3. w = u /\ jd = id
    <3>1. u = w
      BY Zenon, <2>2, MasterIsInjective
    <3>2. FileAad(id) = FileAad(jd)
      BY Zenon, <2>2, AadIsInjective
    <3>3. QED  BY Zenon, <3>1, <3>2, PathsDiffer
  <2>4. QED  BY Zenon, <1>1, <2>1, <2>3
<1>3. CASE \E w \in Users, k \in 1..key_ids, i \in PaymentIds, v \in Values :
             /\ <<w, i, v>> \in written
             /\ x.box.key = <<derive_vfs_master_key(w), k>> /\ x.box.aad = Aad(0, k, <<>>)
             /\ x.box.data = [id |-> i, value |-> v]
  <2>1. PICK k : Aad(0, x.key_id, FileAad(id)) = Aad(0, k, <<>>)
    BY Zenon, <1>1, <1>3
  <2>2. FileAad(id) = <<>>
    BY Zenon, <2>1, AadIsInjective
  <2>3. QED  BY Zenon, <2>2, PaymentHasNoPath
<1>4. QED  BY Zenon, <1>2, <1>3, AnswersAreStored DEF StoredBox

(* ... and what opens as a payment of u is one. *)
LEMMA PaymentIsOwn ==
    ASSUME FilesInv, NEW x \in Joined(Blobs), NEW u,
           decrypt(derive_vfs_master_key(u), <<>>, x) # None
    PROVE  \E i, v : /\ <<u, i, v>> \in written
                     /\ decrypt(derive_vfs_master_key(u), <<>>, x) = [id |-> i, value |-> v]
<1>1. /\ x.box.key = <<derive_vfs_master_key(u), x.key_id>>
      /\ x.box.aad = Aad(0, x.key_id, <<>>)
      /\ decrypt(derive_vfs_master_key(u), <<>>, x) = x.box.data
  BY ZenonT(30), Opened
<1>2. CASE \E w \in Users, k \in 1..key_ids, jd \in FileIds, v \in Values :
             /\ <<w, jd, v>> \in written
             /\ x.box.key = <<derive_vfs_master_key(w), k>> /\ x.box.aad = Aad(0, k, FileAad(jd))
             /\ x.box.data = [funding_txo |-> jd.filename, value |-> v]
  <2>1. PICK k, jd : Aad(0, x.key_id, <<>>) = Aad(0, k, FileAad(jd))
    BY Zenon, <1>1, <1>2
  <2>2. FileAad(jd) = <<>>
    BY Zenon, <2>1, AadIsInjective
  <2>3. QED  BY Zenon, <2>2, PaymentHasNoPath
<1>3. CASE \E w \in Users, k \in 1..key_ids, i \in PaymentIds, v \in Values :
             /\ <<w, i, v>> \in written
             /\ x.box.key = <<derive_vfs_master_key(w), k>> /\ x.box.aad = Aad(0, k, <<>>)
             /\ x.box.data = [id |-> i, value |-> v]
  <2>1. PICK w \in Users, k \in 1..key_ids, i \in PaymentIds, v \in Values :
             /\ <<w, i, v>> \in written
             /\ x.box.key = <<derive_vfs_master_key(w), k>> /\ x.box.aad = Aad(0, k, <<>>)
             /\ x.box.data = [id |-> i, value |-> v]
    BY Zenon, <1>3
  <2>2. u = w
    <3>1. <<derive_vfs_master_key(u), x.key_id>> = <<derive_vfs_master_key(w), k>>
      BY Zenon, <1>1, <2>1
    <3>2. QED  BY Zenon, <3>1, MasterIsInjective
  <2>3. QED  BY Zenon, <1>1, <2>1, <2>2
<1>4. QED  BY Zenon, <1>2, <1>3, AnswersAreStored DEF StoredBox

-----------------------------------------------------------------------------
(* Readers. *)

LEMMA ReadPreserves ==
    ASSUME FilesInv, NEW op \in {"file", "payment", "backup"}, NEW u, NEW asked, NEW given,
           NEW outcome, Read(op, u, asked, given, outcome),
           given = None \/ given.data.box.key[2] \in 1..key_ids,
           op \in {"file", "payment"} =>
             /\ outcome.kind = "ok" => <<u, asked, outcome.value>> \in written
             /\ outcome.kind = "new" => given = None
             /\ (/\ given \in (IF op = "file" THEN files ELSE payments)
                 /\ given.id = asked
                 /\ given.data.box.key[1] = derive_vfs_master_key(u)) => outcome.kind = "ok",
           op = "backup" =>
             /\ outcome.kind = "ok" => <<u, outcome.value>> \in written
             /\ given \in backups =>
                  (outcome.kind = "ok" <=>
                     given.data.box.key[1] = derive_aes_key(u, given.salt))
    PROVE  FilesInv'
<1>1. /\ UNCHANGED <<key_ids, files, payments, backups, written>>
      /\ last' = [op |-> op, user |-> u, asked |-> asked, given |-> given, outcome |-> outcome]
  BY Zenon DEF Read
<1>2. /\ last'.op = op /\ last'.user = u /\ last'.asked = asked /\ last'.given = given
      /\ last'.outcome = outcome
  BY <1>1
<1>3. ReadIsOwnWrite'
  BY Zenon, <1>1, <1>2 DEF ReadIsOwnWrite
<1>4. StoredIsReadable'
  <2>1. CASE op = "file"
    BY Zenon, <1>1, <1>2, <2>1 DEF StoredIsReadable
  <2>2. CASE op = "payment"
    BY Zenon, <1>1, <1>2, <2>2 DEF StoredIsReadable
  <2>3. CASE op = "backup"
    BY Zenon, <1>2, <2>3 DEF StoredIsReadable
  <2>4. QED  BY Zenon, <2>1, <2>2, <2>3
<1>5. BackupRestores'
  BY Zenon, <1>1, <1>2 DEF BackupRestores
<1>6. last'.op \in {"none", "file", "payment", "backup"} /\ GivenIsOld'
  BY Zenon, <1>1, <1>2 DEF GivenIsOld
<1>7. QED  BY Zenon, <1>1, <1>3, <1>4, <1>5, <1>6 DEF FilesInv

LEMMA OutcomeKinds ==
    /\ \A v : Ok(v).kind = "ok" /\ Ok(v).value = v
    /\ New.kind = "new" /\ Failed.kind = "error"
BY DEF Ok, New, Failed

LEMMA FilesAreRecords ==
    ASSUME FilesInv, NEW f \in files
    PROVE  f.id \in FileIds /\ f = [id |-> f.id, data |-> f.data]
<1>1. PICK u \in Users, k \in 1..key_ids, id \in FileIds, v \in Values :
        f = FileOf(u, k, id, v) /\ <<u, id, v>> \in written
  BY Zenon DEF FilesInv
<1> DEFINE data == encrypt(derive_vfs_master_key(u), k, FileAad(id),
                           [funding_txo |-> id.filename, value |-> v])
<1>2. f = [id |-> id, data |-> data]
  BY Zenon, <1>1 DEF FileOf, encrypt_file
<1> HIDE DEF data
<1>3. QED  BY <1>2

(* An answer for a file or a payment is nothing, or names an id and joins  *)
(* stored ciphertexts.                                                     *)
LEMMA AnswerFields ==
    ASSUME FilesInv, NEW f, f \in FileAnswers \/ f \in PaymentAnswers
    PROVE  \/ f = None
           \/ /\ f.data \in Joined(Blobs) /\ f.data.box.key[2] \in 1..key_ids
              /\ f \in FileAnswers => f.id \in FileIds \/ f = None
<1> DEFINE ids == {g.id : g \in files}
           jds == {p.id : p \in payments}
           joined == Joined(Blobs)
<1>1. \A i \in ids : i \in FileIds
  BY Zenon, FilesAreRecords
<1>2. /\ f \in FileAnswers => f = None \/ f \in [id : ids, data : joined]
      /\ f \in PaymentAnswers => f = None \/ f \in [id : jds, data : joined]
  BY Zenon DEF FileAnswers, PaymentAnswers
<1> HIDE DEF ids, jds
<1>3. f = None \/ f.data \in joined
  <2> HIDE DEF joined
  <2>1. QED  BY <1>2
<1>4. f \in FileAnswers => f = None \/ f.id \in FileIds
  <2> HIDE DEF joined
  <2>1. QED  BY <1>1, <1>2
<1>5. QED  BY Zenon, <1>3, <1>4, AnswersAreStored

(* A file that this user stored opens. *)
LEMMA StoredFileOpens ==
    ASSUME FilesInv, FileHypotheses, NEW f \in files, NEW u,
           f.data.box.key[1] = derive_vfs_master_key(u)
    PROVE  \E v : decrypt(derive_vfs_master_key(u), FileAad(f.id), f.data) =
                    [funding_txo |-> f.id.filename, value |-> v]
<1>1. PICK w \in Users, k \in 1..key_ids, id \in FileIds, v \in Values :
        f = FileOf(w, k, id, v) /\ <<w, id, v>> \in written
  BY Zenon DEF FilesInv
<1> DEFINE data == [funding_txo |-> id.filename, value |-> v]
<1>2. f.id = id /\ f.data = encrypt(derive_vfs_master_key(w), k, FileAad(id), data)
  BY <1>1, FileFields
<1> HIDE DEF data
<1>3. f.data.box.key[1] = derive_vfs_master_key(w)
  BY <1>2, EncryptFields
<1>4. decrypt(derive_vfs_master_key(w), FileAad(id), f.data) = data
  BY <1>2, Opens
<1>5. QED  BY Zenon, <1>2, <1>3, <1>4 DEF data

LEMMA StoredPaymentOpens ==
    ASSUME FilesInv, FileHypotheses, NEW p \in payments, NEW u,
           p.data.box.key[1] = derive_vfs_master_key(u)
    PROVE  \E v : decrypt(derive_vfs_master_key(u), <<>>, p.data) = [id |-> p.id, value |-> v]
<1>1. PICK w \in Users, k \in 1..key_ids, i \in PaymentIds, v \in Values :
        p = PaymentOf(w, k, i, v) /\ <<w, i, v>> \in written
  BY Zenon DEF FilesInv
<1> DEFINE data == [id |-> i, value |-> v]
<1>2. p.id = i /\ p.data = encrypt(derive_vfs_master_key(w), k, <<>>, data)
  BY <1>1, PaymentFields
<1> HIDE DEF data
<1>3. p.data.box.key[1] = derive_vfs_master_key(w)
  BY <1>2, EncryptFields
<1>4. decrypt(derive_vfs_master_key(w), <<>>, p.data) = data
  BY <1>2, Opens
<1>5. QED  BY Zenon, <1>2, <1>3, <1>4 DEF data

(* decrypt_file of an answer. *)
LEMMA FileReads ==
    ASSUME FilesInv, FileHypotheses, NEW u, NEW id, NEW f \in FileAnswers, f # None,
           NEW data, data = decrypt_file(derive_vfs_master_key(u), id, f)
    PROVE  /\ data # None => \E v : /\ data = [funding_txo |-> id.filename, value |-> v]
                                    /\ <<u, id, v>> \in written
           /\ (/\ f \in files /\ f.id = id
               /\ f.data.box.key[1] = derive_vfs_master_key(u)) => data # None
<1>1. f.data \in Joined(Blobs) /\ f.id \in FileIds
  BY Zenon, AnswerFields
<1>2. data # None => /\ data = decrypt(derive_vfs_master_key(u), FileAad(id), f.data)
                     /\ id \in FileIds
  BY Zenon, <1>1 DEF decrypt_file
<1>3. data # None => \E v : /\ data = [funding_txo |-> id.filename, value |-> v]
                            /\ <<u, id, v>> \in written
  BY Zenon, <1>1, <1>2, FileIsOwn
<1>4. ASSUME f \in files, f.id = id, f.data.box.key[1] = derive_vfs_master_key(u)
      PROVE  data # None
  <2>1. data = decrypt(derive_vfs_master_key(u), FileAad(f.id), f.data)
    BY Zenon, <1>4 DEF decrypt_file
  <2>2. PICK v : decrypt(derive_vfs_master_key(u), FileAad(f.id), f.data) =
                   [funding_txo |-> f.id.filename, value |-> v]
    BY Zenon, <1>4, StoredFileOpens
  <2>3. QED  BY Zenon, <2>1, <2>2 DEF FileHypotheses
<1>5. QED  BY Zenon, <1>3, <1>4

LEMMA SingletonSteps ==
    ASSUME FilesInv, FileHypotheses, NEW u \in Users, NEW name \in Singletons \union Required,
           NEW f \in FileAnswers, ReadSingleton(u, name, f)
    PROVE  FilesInv'
<1> DEFINE id == [dirname |-> SINGLETON_DIRECTORY, filename |-> name]
           data == decrypt_file(derive_vfs_master_key(u), id, f)
           outcome == IF f = None THEN (IF name \in Required THEN Failed ELSE New)
                      ELSE IF data = None THEN Failed
                      ELSE Ok(data.value)
<1>1. Read("file", u, id, f, outcome)
  BY Zenon DEF ReadSingleton
<1> HIDE DEF id
<1>3. f # None =>
        /\ data # None => \E v : /\ data = [funding_txo |-> id.filename, value |-> v]
                                 /\ <<u, id, v>> \in written
        /\ (/\ f \in files /\ f.id = id
            /\ f.data.box.key[1] = derive_vfs_master_key(u)) => data # None
  BY Zenon, FileReads
<1> HIDE DEF data
<1>4. f = None \/ f.data.box.key[2] \in 1..key_ids
  BY Zenon, AnswerFields
<1>5. None \notin files
  BY Zenon, FilesAreRecords DEF FileHypotheses
<1>6. data # None /\ f # None => <<u, id, data.value>> \in written
  <2>1. SUFFICES ASSUME data # None, f # None PROVE <<u, id, data.value>> \in written
    OBVIOUS
  <2>2. PICK v : data = [funding_txo |-> id.filename, value |-> v] /\ <<u, id, v>> \in written
    BY Zenon, <1>3, <2>1
  <2>3. data.value = v
    BY <2>2
  <2>4. QED  BY Zenon, <2>2, <2>3
<1>7. /\ outcome.kind = "ok" => f # None /\ data # None /\ outcome.value = data.value
      /\ outcome.kind = "new" => f = None
      /\ f # None /\ data # None => outcome.kind = "ok"
  BY OutcomeKinds
<1> HIDE DEF outcome
<1>8. /\ outcome.kind = "ok" => <<u, id, outcome.value>> \in written
      /\ (/\ f \in files /\ f.id = id
          /\ f.data.box.key[1] = derive_vfs_master_key(u)) => outcome.kind = "ok"
  BY Zenon, <1>3, <1>5, <1>6, <1>7
<1>9. QED
  <2>1. "file" # "backup" /\ "file" \in {"file", "payment", "backup"}
    OBVIOUS
  <2>2. QED  BY Zenon, <1>1, <1>4, <1>7, <1>8, <2>1, ReadPreserves

LEMMA MonitorSteps ==
    ASSUME FilesInv, FileHypotheses, NEW u \in Users, NEW f \in FileAnswers, ReadMonitor(u, f)
    PROVE  FilesInv'
<1> DEFINE id == [dirname |-> CHANNEL_MONITORS_DIRECTORY, filename |-> f.id.filename]
           data == decrypt_file(derive_vfs_master_key(u), id, f)
           outcome == IF data = None THEN Failed
                      ELSE IF data.funding_txo # id.filename THEN Failed
                      ELSE Ok(data.value)
<1>1. f # None /\ Read("file", u, id, f, outcome)
  BY Zenon DEF ReadMonitor
<1> HIDE DEF id
<1>2. /\ data # None => \E v : /\ data = [funding_txo |-> id.filename, value |-> v]
                               /\ <<u, id, v>> \in written
      /\ (/\ f \in files /\ f.id = id
          /\ f.data.box.key[1] = derive_vfs_master_key(u)) => data # None
  BY Zenon, <1>1, FileReads
<1> HIDE DEF data
<1>3. f = None \/ f.data.box.key[2] \in 1..key_ids
  BY Zenon, AnswerFields
<1>4. data # None => <<u, id, data.value>> \in written /\ data.funding_txo = id.filename
  <2>1. SUFFICES ASSUME data # None
                 PROVE  <<u, id, data.value>> \in written /\ data.funding_txo = id.filename
    OBVIOUS
  <2>2. PICK v : data = [funding_txo |-> id.filename, value |-> v] /\ <<u, id, v>> \in written
    BY Zenon, <1>2, <2>1
  <2>3. data.value = v /\ data.funding_txo = id.filename
    BY <2>2
  <2>4. QED  BY Zenon, <2>2, <2>3
<1>5. /\ outcome.kind = "ok" => data # None /\ outcome.value = data.value
      /\ outcome.kind # "new"
      /\ data # None => outcome.kind = "ok"
  BY <1>4, OutcomeKinds
<1> HIDE DEF outcome
<1>6. /\ outcome.kind = "ok" => <<u, id, outcome.value>> \in written
      /\ (/\ f \in files /\ f.id = id
          /\ f.data.box.key[1] = derive_vfs_master_key(u)) => outcome.kind = "ok"
  BY Zenon, <1>2, <1>4, <1>5
<1>7. QED
  <2>1. "file" # "backup" /\ "file" \in {"file", "payment", "backup"}
    OBVIOUS
  <2>2. QED  BY Zenon, <1>1, <1>3, <1>5, <1>6, <2>1, ReadPreserves

LEMMA PaymentSteps ==
    ASSUME FilesInv, FileHypotheses, NEW u \in Users, NEW i \in PaymentIds,
           NEW p \in PaymentAnswers, get_payment(u, i, p)
    PROVE  FilesInv'
<1> DEFINE data == decrypt_payment(derive_vfs_master_key(u), p)
           outcome == IF p = None THEN New
                      ELSE IF data = None THEN Failed
                      ELSE IF data.id # i THEN Failed
                      ELSE Ok(data.value)
<1>1. Read("payment", u, i, p, outcome)
  BY Zenon DEF get_payment
<1>2. data = decrypt(derive_vfs_master_key(u), <<>>, p.data)
  BY Zenon DEF decrypt_payment
<1> HIDE DEF data
<1>3. p = None \/ (p.data \in Joined(Blobs) /\ p.data.box.key[2] \in 1..key_ids)
  BY Zenon, AnswerFields
<1>4. p # None /\ data # None => <<u, data.id, data.value>> \in written
  <2>1. SUFFICES ASSUME p # None, data # None PROVE <<u, data.id, data.value>> \in written
    OBVIOUS
  <2>2. PICK j, v : <<u, j, v>> \in written /\ data = [id |-> j, value |-> v]
    BY Zenon, <1>2, <1>3, <2>1, PaymentIsOwn
  <2>3. data.id = j /\ data.value = v
    BY <2>2
  <2>4. QED  BY Zenon, <2>2, <2>3
<1>5. ASSUME p \in payments, p.id = i, p.data.box.key[1] = derive_vfs_master_key(u)
      PROVE  p # None /\ data # None /\ data.id = i
  <2>1. PICK v : data = [id |-> p.id, value |-> v]
    BY Zenon, <1>2, <1>5, StoredPaymentOpens
  <2>2. data # None /\ data.id = i
    <3>1. data # None
      BY Zenon, <2>1 DEF FileHypotheses
    <3>2. data.id = i
      BY <1>5, <2>1
    <3>3. QED  BY Zenon, <3>1, <3>2
  <2>3. PICK w \in Users, k \in 1..key_ids, j \in PaymentIds, x \in Values :
          p = PaymentOf(w, k, j, x) /\ <<w, j, x>> \in written
    BY Zenon, <1>5 DEF FilesInv
  <2>4. \E d : p = [id |-> j, data |-> d]
    <3> DEFINE payment == [id |-> j, value |-> x]
    <3>1. payment.id = j
      OBVIOUS
    <3> HIDE DEF payment
    <3>2. p = [id |-> payment.id, data |-> encrypt(derive_vfs_master_key(w), k, <<>>, payment)]
      BY Zenon, <2>3 DEF PaymentOf, encrypt_payment, payment
    <3>3. QED  BY Zenon, <3>1, <3>2
  <2>5. QED  BY Zenon, <2>2, <2>4 DEF FileHypotheses
<1>6. /\ outcome.kind = "ok" => p # None /\ data # None /\ data.id = i /\ outcome.value = data.value
      /\ outcome.kind = "new" => p = None
      /\ p # None /\ data # None /\ data.id = i => outcome.kind = "ok"
  BY OutcomeKinds
<1> HIDE DEF outcome
<1>7. /\ outcome.kind = "ok" => <<u, i, outcome.value>> \in written
      /\ (/\ p \in payments /\ p.id = i
          /\ p.data.box.key[1] = derive_vfs_master_key(u)) => outcome.kind = "ok"
  BY Zenon, <1>4, <1>5, <1>6
<1>8. QED
  <2>1. /\ "payment" # "backup" /\ "payment" # "file"
        /\ "payment" \in {"file", "payment", "backup"}
    OBVIOUS
  <2>2. QED  BY Zenon, <1>1, <1>3, <1>6, <1>7, <2>1, ReadPreserves

LEMMA PasswordIsInjective ==
    ASSUME NEW pw, NEW qw, NEW s, NEW t, derive_aes_key(pw, s) = derive_aes_key(qw, t)
    PROVE  pw = qw /\ s = t
BY DEF derive_aes_key

(* password_decrypt of the joined parts of two backups. *)
LEMMA RestoreReads ==
    ASSUME FilesInv, FileHypotheses, NEW pw, NEW b \in backups, NEW c \in backups,
           NEW x, x = [salt |-> b.salt, data |-> c.data],
           NEW seed, seed = password_decrypt(pw, x)
    PROVE  /\ x.data.box.key[2] \in 1..key_ids
           /\ seed # None => <<pw, seed>> \in written
           /\ x \in backups =>
                (seed # None <=> x.data.box.key[1] = derive_aes_key(pw, x.salt))
<1>1. x.salt = b.salt /\ x.data = c.data
  OBVIOUS
<1>2. PICK u \in Users, k \in 1..key_ids, qw \in Passwords :
        c = BackupOf(u, k, qw) /\ <<qw, u>> \in written /\ validate_password_len(qw)
  BY Zenon DEF FilesInv
<1>3. c.salt = k /\ x.data = encrypt(derive_aes_key(qw, k), k, <<k>>, u)
  BY <1>1, <1>2, BackupFields
<1>4. /\ x.data.box.key = <<derive_aes_key(qw, k), k>> /\ x.data.box.data = u
      /\ x.data.box.key[1] = derive_aes_key(qw, k) /\ x.data.box.key[2] = k
  BY <1>3, EncryptFields
<1>5. seed # None =>
        /\ x.data.box.key = <<derive_aes_key(pw, x.salt), x.data.key_id>>
        /\ seed = x.data.box.data
  <2>1. seed # None => seed = decrypt(derive_aes_key(pw, x.salt), <<x.salt>>, x.data)
    BY Zenon DEF password_decrypt
  <2>2. QED  BY <2>1, Opened
<1>6. seed # None => derive_aes_key(pw, x.salt) = derive_aes_key(qw, k) /\ seed = u
  <2>1. SUFFICES ASSUME seed # None
                 PROVE  derive_aes_key(pw, x.salt) = derive_aes_key(qw, k) /\ seed = u
    OBVIOUS
  <2>2. <<derive_aes_key(pw, x.salt), x.data.key_id>> = <<derive_aes_key(qw, k), k>>
    BY Zenon, <1>4, <1>5, <2>1
  <2>3. derive_aes_key(pw, x.salt) = derive_aes_key(qw, k)
    BY <2>2
  <2>4. QED  BY Zenon, <1>4, <1>5, <2>1, <2>3
<1>7. seed # None => pw = qw
  BY <1>6, PasswordIsInjective
<1>8. ASSUME x \in backups, x.data.box.key[1] = derive_aes_key(pw, x.salt)
      PROVE  seed # None
  <2>1. pw = qw /\ x.salt = k
    <3>1. derive_aes_key(pw, x.salt) = derive_aes_key(qw, k)
      BY Zenon, <1>4, <1>8
    <3>2. QED  BY <3>1 DEF derive_aes_key
  <2>2. seed = decrypt(derive_aes_key(pw, x.salt), <<x.salt>>, x.data)
    BY Zenon, <1>2, <2>1 DEF password_decrypt
  <2>3. decrypt(derive_aes_key(qw, k), <<k>>, x.data) = u
    BY <1>3, Opens
  <2>4. QED  BY Zenon, <2>1, <2>2, <2>3 DEF FileHypotheses
<1>9. QED  BY Zenon, <1>2, <1>4, <1>6, <1>7, <1>8

LEMMA RestoreSteps ==
    ASSUME FilesInv, FileHypotheses, NEW pw, NEW b \in backups, NEW c \in backups,
           Restore(pw, [salt |-> b.salt, data |-> c.data])
    PROVE  FilesInv'
<1> DEFINE x == [salt |-> b.salt, data |-> c.data]
           seed == password_decrypt(pw, x)
           outcome == IF seed = None THEN Failed ELSE Ok(seed)
<1>1. Read("backup", pw, "root seed", x, outcome)
  BY Zenon DEF Restore
<1>2. /\ x.data.box.key[2] \in 1..key_ids
      /\ seed # None => <<pw, seed>> \in written
      /\ x \in backups => (seed # None <=> x.data.box.key[1] = derive_aes_key(pw, x.salt))
  BY RestoreReads
<1> HIDE DEF x, seed
<1>3. outcome.kind = "ok" <=> seed # None
  BY OutcomeKinds
<1>4. seed # None => outcome.value = seed
  BY OutcomeKinds
<1> HIDE DEF outcome
<1>5. /\ outcome.kind = "ok" => <<pw, outcome.value>> \in written
      /\ x \in backups =>
           (outcome.kind = "ok" <=> x.data.box.key[1] = derive_aes_key(pw, x.salt))
  BY Zenon, <1>2, <1>3, <1>4
<1>6. QED
  <2>1. /\ "backup" \notin {"file", "payment"} /\ "backup" \in {"file", "payment", "backup"}
    OBVIOUS
  <2>2. QED  BY Zenon, <1>1, <1>2, <1>5, <2>1, ReadPreserves

-----------------------------------------------------------------------------
(* Writers. *)

(* What is written now was not given to the last reader. *)
LEMMA WritePreserves ==
    ASSUME FilesInv, last' = last, key_ids' = key_ids + 1,
           \A x \in written : x \in written',
           \A y : (\/ y \in files' /\ y \notin files
                   \/ y \in payments' /\ y \notin payments
                   \/ y \in backups' /\ y \notin backups)
                    => y # None /\ y.data.box.key[2] = key_ids + 1
    PROVE  /\ last'.op \in {"none", "file", "payment", "backup"}
           /\ GivenIsOld' /\ ReadIsOwnWrite' /\ StoredIsReadable' /\ BackupRestores'
<1>1. key_ids \in Nat
  BY Zenon DEF FilesInv
<1>2. key_ids + 1 \notin 1..key_ids /\ \A k \in 1..key_ids : k \in 1..key_ids'
  BY <1>1
<1>3. last.op = "none" \/ last.given = None \/ last.given.data.box.key[2] \in 1..key_ids
  BY Zenon DEF FilesInv, GivenIsOld
<1>4. last.op # "none" =>
        /\ last.given \in files' => last.given \in files
        /\ last.given \in payments' => last.given \in payments
        /\ last.given \in backups' => last.given \in backups
  BY Zenon, <1>2, <1>3
<1>5. GivenIsOld'
  BY Zenon, <1>2, <1>3 DEF GivenIsOld
<1>6. ReadIsOwnWrite'
  BY Zenon DEF FilesInv, ReadIsOwnWrite
<1>7. StoredIsReadable'
  <2>1. "file" # "none" /\ "payment" # "none" /\ "payment" # "file"
    OBVIOUS
  <2>2. CASE last.op = "file"
    BY Zenon, <1>4, <2>1, <2>2 DEF FilesInv, StoredIsReadable
  <2>3. CASE last.op = "payment"
    BY Zenon, <1>4, <2>1, <2>3 DEF FilesInv, StoredIsReadable
  <2>4. QED  BY Zenon, <2>2, <2>3 DEF StoredIsReadable
<1>8. BackupRestores'
  <2>1. "backup" # "none"
    OBVIOUS
  <2>2. QED  BY Zenon, <1>4, <2>1 DEF FilesInv, BackupRestores
<1>9. QED  BY Zenon, <1>5, <1>6, <1>7, <1>8 DEF FilesInv

LEMMA PersistSteps ==
    ASSUME FilesInv, FileHypotheses, NEW u \in Users, NEW id \in FileIds, NEW v \in Values,
           Persist(u, id, v)
    PROVE  FilesInv'
<1> DEFINE f == FileOf(u, key_ids', id, v)
<1>1. /\ key_ids' = key_ids + 1 /\ files' = files \union {f}
      /\ written' = written \union {<<u, id, v>>}
      /\ payments' = payments /\ backups' = backups /\ last' = last
  BY Zenon DEF Persist, FileOf
<1>2. key_ids' \in Nat /\ key_ids' \in 1..key_ids' /\ \A k \in 1..key_ids : k \in 1..key_ids'
  BY <1>1 DEF FilesInv
<1>3. f # None /\ f.data.box.key[2] = key_ids + 1
  <2>1. /\ f = [id |-> f.id, data |-> f.data]
        /\ f.data = encrypt(derive_vfs_master_key(u), key_ids', FileAad(id),
                            [funding_txo |-> id.filename, value |-> v])
    BY FileFields
  <2>2. f.data.box.key[2] = key_ids'
    BY <2>1, EncryptFields
  <2>3. QED  BY Zenon, <1>1, <2>1, <2>2 DEF FileHypotheses
<1>4. \A x \in written : x \in written'
  BY Zenon, <1>1
<1>5. \A y : (\/ y \in files' /\ y \notin files
              \/ y \in payments' /\ y \notin payments
              \/ y \in backups' /\ y \notin backups) => y = f
  BY Zenon, <1>1
<1>6. \A g \in files' : \E w \in Users, k \in 1..key_ids', jd \in FileIds, x \in Values :
         g = FileOf(w, k, jd, x) /\ <<w, jd, x>> \in written'
  <2>1. SUFFICES ASSUME NEW g \in files'
                 PROVE  \E w \in Users, k \in 1..key_ids', jd \in FileIds, x \in Values :
                          g = FileOf(w, k, jd, x) /\ <<w, jd, x>> \in written'
    OBVIOUS
  <2>2. CASE g \in files
    <3>1. PICK w \in Users, k \in 1..key_ids, jd \in FileIds, x \in Values :
             g = FileOf(w, k, jd, x) /\ <<w, jd, x>> \in written
      BY Zenon, <2>2 DEF FilesInv
    <3>2. k \in 1..key_ids' /\ <<w, jd, x>> \in written'
      BY Zenon, <1>2, <1>4, <3>1
    <3>3. QED  BY Zenon, <3>1, <3>2
  <2>3. CASE g = f
    BY Zenon, <1>1, <1>2, <2>3
  <2>4. QED  BY Zenon, <1>1, <2>2, <2>3
<1> HIDE DEF f
<1>7. /\ last'.op \in {"none", "file", "payment", "backup"}
      /\ GivenIsOld' /\ ReadIsOwnWrite' /\ StoredIsReadable' /\ BackupRestores'
  BY Zenon, <1>1, <1>3, <1>4, <1>5, WritePreserves
<1>8. \A q \in payments' : \E w \in Users, k \in 1..key_ids', j \in PaymentIds, x \in Values :
         q = PaymentOf(w, k, j, x) /\ <<w, j, x>> \in written'
  BY Zenon, <1>1, <1>2, <1>4 DEF FilesInv
<1>9. \A c \in backups' : \E w \in Users, k \in 1..key_ids', qw \in Passwords :
         c = BackupOf(w, k, qw) /\ <<qw, w>> \in written' /\ validate_password_len(qw)
  BY Zenon, <1>1, <1>2, <1>4 DEF FilesInv
<1>10. QED  BY Zenon, <1>2, <1>6, <1>7, <1>8, <1>9 DEF FilesInv

LEMMA PersistPaymentSteps ==
    ASSUME FilesInv, FileHypotheses, NEW u \in Users, NEW i \in PaymentIds, NEW v \in Values,
           PersistPayment(u, i, v)
    PROVE  FilesInv'
<1> DEFINE p == PaymentOf(u, key_ids', i, v)
<1>1. /\ key_ids' = key_ids + 1 /\ payments' = payments \union {p}
      /\ written' = written \union {<<u, i, v>>}
      /\ files' = files /\ backups' = backups /\ last' = last
  BY Zenon DEF PersistPayment, PaymentOf
<1>2. key_ids' \in Nat /\ key_ids' \in 1..key_ids' /\ \A k \in 1..key_ids : k \in 1..key_ids'
  BY <1>1 DEF FilesInv
<1>3. p # None /\ p.data.box.key[2] = key_ids + 1
  <2>1. /\ p = [id |-> p.id, data |-> p.data]
        /\ p.data = encrypt(derive_vfs_master_key(u), key_ids', <<>>, [id |-> i, value |-> v])
    BY PaymentFields
  <2>2. p.data.box.key[2] = key_ids'
    BY <2>1, EncryptFields
  <2>3. QED  BY Zenon, <1>1, <2>1, <2>2 DEF FileHypotheses
<1>4. \A x \in written : x \in written'
  BY Zenon, <1>1
<1>5. \A y : (\/ y \in files' /\ y \notin files
              \/ y \in payments' /\ y \notin payments
              \/ y \in backups' /\ y \notin backups) => y = p
  BY Zenon, <1>1
<1>6. \A q \in payments' : \E w \in Users, k \in 1..key_ids', j \in PaymentIds, x \in Values :
         q = PaymentOf(w, k, j, x) /\ <<w, j, x>> \in written'
  <2>1. SUFFICES ASSUME NEW q \in payments'
                 PROVE  \E w \in Users, k \in 1..key_ids', j \in PaymentIds, x \in Values :
                          q = PaymentOf(w, k, j, x) /\ <<w, j, x>> \in written'
    OBVIOUS
  <2>2. CASE q \in payments
    <3>1. PICK w \in Users, k \in 1..key_ids, j \in PaymentIds, x \in Values :
             q = PaymentOf(w, k, j, x) /\ <<w, j, x>> \in written
      BY Zenon, <2>2 DEF FilesInv
    <3>2. k \in 1..key_ids' /\ <<w, j, x>> \in written'
      BY Zenon, <1>2, <1>4, <3>1
    <3>3. QED  BY Zenon, <3>1, <3>2
  <2>3. CASE q = p
    BY Zenon, <1>1, <1>2, <2>3
  <2>4. QED  BY Zenon, <1>1, <2>2, <2>3
<1> HIDE DEF p
<1>7. /\ last'.op \in {"none", "file", "payment", "backup"}
      /\ GivenIsOld' /\ ReadIsOwnWrite' /\ StoredIsReadable' /\ BackupRestores'
  BY Zenon, <1>1, <1>3, <1>4, <1>5, WritePreserves
<1>8. \A g \in files' : \E w \in Users, k \in 1..key_ids', jd \in FileIds, x \in Values :
         g = FileOf(w, k, jd, x) /\ <<w, jd, x>> \in written'
  BY Zenon, <1>1, <1>2, <1>4 DEF FilesInv
<1>9. \A c \in backups' : \E w \in Users, k \in 1..key_ids', qw \in Passwords :
         c = BackupOf(w, k, qw) /\ <<qw, w>> \in written' /\ validate_password_len(qw)
  BY Zenon, <1>1, <1>2, <1>4 DEF FilesInv
<1>10. QED  BY Zenon, <1>2, <1>6, <1>7, <1>8, <1>9 DEF FilesInv

LEMMA BackUpSteps ==
    ASSUME FilesInv, FileHypotheses, NEW u \in Users, NEW pw \in Passwords, BackUp(u, pw)
    PROVE  FilesInv'
<1> DEFINE b == BackupOf(u, key_ids', pw)
<1>1. /\ key_ids' = key_ids + 1 /\ backups' = backups \union {b}
      /\ written' = written \union {<<pw, u>>} /\ validate_password_len(pw)
      /\ files' = files /\ payments' = payments /\ last' = last
  <2>1. /\ key_ids' = key_ids + 1 /\ password_encrypt(pw, key_ids + 1, key_ids + 1, u) # None
        /\ backups' = backups \union {password_encrypt(pw, key_ids + 1, key_ids + 1, u)}
        /\ written' = written \union {<<pw, u>>}
        /\ files' = files /\ payments' = payments /\ last' = last
    BY Zenon DEF BackUp
  <2>2. QED  BY Zenon, <2>1 DEF BackupOf, password_encrypt
<1>2. key_ids' \in Nat /\ key_ids' \in 1..key_ids' /\ \A k \in 1..key_ids : k \in 1..key_ids'
  BY <1>1 DEF FilesInv
<1>3. b # None /\ b.data.box.key[2] = key_ids + 1
  <2>1. b.data = encrypt(derive_aes_key(pw, key_ids'), key_ids', <<key_ids'>>, u)
    BY BackupFields
  <2>2. b.data.box.key[2] = key_ids'
    BY <2>1, EncryptFields
  <2>3. QED  BY Zenon, <1>1, <2>2 DEF FileHypotheses, BackupOf
<1>4. \A x \in written : x \in written'
  BY Zenon, <1>1
<1>5. \A y : (\/ y \in files' /\ y \notin files
              \/ y \in payments' /\ y \notin payments
              \/ y \in backups' /\ y \notin backups) => y = b
  BY Zenon, <1>1
<1>6. \A c \in backups' : \E w \in Users, k \in 1..key_ids', qw \in Passwords :
         c = BackupOf(w, k, qw) /\ <<qw, w>> \in written' /\ validate_password_len(qw)
  <2>1. SUFFICES ASSUME NEW c \in backups'
                 PROVE  \E w \in Users, k \in 1..key_ids', qw \in Passwords :
                          c = BackupOf(w, k, qw) /\ <<qw, w>> \in written' /\ validate_password_len(qw)
    OBVIOUS
  <2>2. CASE c \in backups
    <3>1. PICK w \in Users, k \in 1..key_ids, qw \in Passwords :
             c = BackupOf(w, k, qw) /\ <<qw, w>> \in written /\ validate_password_len(qw)
      BY Zenon, <2>2 DEF FilesInv
    <3>2. k \in 1..key_ids' /\ <<qw, w>> \in written'
      BY Zenon, <1>2, <1>4, <3>1
    <3>3. QED  BY Zenon, <3>1, <3>2
  <2>3. CASE c = b
    BY Zenon, <1>1, <1>2, <2>3
  <2>4. QED  BY Zenon, <1>1, <2>2, <2>3
<1> HIDE DEF b
<1>7. /\ last'.op \in {"none", "file", "payment", "backup"}
      /\ GivenIsOld' /\ ReadIsOwnWrite' /\ StoredIsReadable' /\ BackupRestores'
  BY Zenon, <1>1, <1>3, <1>4, <1>5, WritePreserves
<1>8. \A g \in files' : \E w \in Users, k \in 1..key_ids', jd \in FileIds, x \in Values :
         g = FileOf(w, k, jd, x) /\ <<w, jd, x>> \in written'
  BY Zenon, <1>1, <1>2, <1>4 DEF FilesInv
<1>9. \A q \in payments' : \E w \in Users, k \in 1..key_ids', j \in PaymentIds, x \in Values :
         q = PaymentOf(w, k, j, x) /\ <<w, j, x>> \in written'
  BY Zenon, <1>1, <1>2, <1>4 DEF FilesInv
<1>10. QED  BY Zenon, <1>2, <1>6, <1>7, <1>8, <1>9 DEF FilesInv

-----------------------------------------------------------------------------
LEMMA FilesInvInitially == Init => FilesInv
<1>1. SUFFICES ASSUME Init PROVE FilesInv
  OBVIOUS
<1>2. last.op = "none" /\ key_ids = 0
  BY <1>1 DEF Init
<1>3. /\ "none" \notin {"file", "payment"} /\ "none" # "backup" /\ 0 \in Nat
      /\ "none" \in {"none", "file", "payment", "backup"}
  OBVIOUS
<1>4. files = {} /\ payments = {} /\ backups = {}
  BY Zenon, <1>1 DEF Init
<1>5. QED
  BY Zenon, <1>2, <1>3, <1>4
     DEF FilesInv, GivenIsOld, ReadIsOwnWrite, StoredIsReadable, BackupRestores

LEMMA FilesInvPreserved == FileHypotheses /\ FilesInv /\ [Next]_vars => FilesInv'
<1>1. SUFFICES ASSUME FileHypotheses, FilesInv, [Next]_vars PROVE FilesInv'
  OBVIOUS
<1>2. CASE \E u \in Users, v \in Values : \E id \in FileIds : Persist(u, id, v)
  BY Zenon, <1>1, <1>2, PersistSteps
<1>3. CASE \E u \in Users, v \in Values : \E i \in PaymentIds : PersistPayment(u, i, v)
  BY Zenon, <1>1, <1>3, PersistPaymentSteps
<1>4. CASE \E u \in Users, pw \in Passwords : BackUp(u, pw)
  BY Zenon, <1>1, <1>4, BackUpSteps
<1>5. CASE \E u \in Users : \E name \in Singletons \union Required, f \in FileAnswers :
             ReadSingleton(u, name, f)
  BY Zenon, <1>1, <1>5, SingletonSteps
<1>6. CASE \E u \in Users : \E f \in FileAnswers : ReadMonitor(u, f)
  BY Zenon, <1>1, <1>6, MonitorSteps
<1>7. CASE \E u \in Users : \E i \in PaymentIds, p \in PaymentAnswers : get_payment(u, i, p)
  BY Zenon, <1>1, <1>7, PaymentSteps
<1>8. CASE \E pw \in Passwords : \E b, c \in backups :
             Restore(pw, [salt |-> b.salt, data |-> c.data])
  BY Zenon, <1>1, <1>8, RestoreSteps
<1>9. CASE UNCHANGED vars
  BY ZenonT(30), <1>1, <1>9
     DEF vars, FilesInv, GivenIsOld, ReadIsOwnWrite, StoredIsReadable, BackupRestores
<1>10. QED
  BY Zenon, <1>1, <1>2, <1>3, <1>4, <1>5, <1>6, <1>7, <1>8, <1>9 DEF Next

(* FilesInv is an invariant: what is in the storage was encrypted by a user *)
(* under a key id of its own (AesMasterKey::encrypt, password::encrypt).    *)
THEOREM FilesInvariance == ASSUME FileHypotheses PROVE Spec => []FilesInv
<1>1. Init => FilesInv
  BY FilesInvInitially
<1>2. FilesInv /\ [Next]_vars => FilesInv'
  BY FilesInvPreserved
<1>3. QED  BY <1>1, <1>2, PTL DEF Spec

(* What decrypt_file, read_channel_monitors and get_payment accept was      *)
(* written by this user in this place, whatever the storage returns; and    *)
(* what the user stored there is never refused.                             *)
THEOREM ReadsAreOwnWrites ==
    ASSUME FileHypotheses PROVE Spec => [](ReadIsOwnWrite /\ StoredIsReadable)
<1>1. FilesInv => ReadIsOwnWrite /\ StoredIsReadable
  BY DEF FilesInv
<1>2. QED  BY <1>1, FilesInvariance, PTL

(* password_decrypt of a stored backup succeeds exactly under the password  *)
(* it was made with, and gives back the seed that was backed up with it.    *)
THEOREM BackupsRestore == ASSUME FileHypotheses PROVE Spec => []BackupRestores
<1>1. FilesInv => BackupRestores
  BY DEF FilesInv
<1>2. QED  BY <1>1, FilesInvariance, PTL

(* The bound on the encryptions is kept. *)
LEMMA WritesAreBounded ==
    ASSUME MaxWrites \in Nat, key_ids \in 0..MaxWrites, [Next]_vars
    PROVE  key_ids' \in 0..MaxWrites
<1>1. CASE key_ids < MaxWrites /\ key_ids' = key_ids + 1
  BY <1>1
<1>2. CASE UNCHANGED key_ids
  BY <1>2
<1>3. (key_ids < MaxWrites /\ key_ids' = key_ids + 1) \/ UNCHANGED key_ids
  BY ZenonT(30) DEF Next, Persist, PersistPayment, BackUp, ReadSingleton, ReadMonitor,
     get_payment, Restore, Read, vars
<1>4. QED  BY Zenon, <1>1, <1>2, <1>3

LEMMA StoredIsWellFormed ==
    ASSUME FilesInv, key_ids \in 0..MaxWrites PROVE TypeOK
<1>1. ASSUME NEW f \in files PROVE f.id \in FileIds /\ f.data.key_id \in 1..key_ids
  <2>1. PICK u \in Users, k \in 1..key_ids, id \in FileIds, v \in Values :
            f = FileOf(u, k, id, v) /\ <<u, id, v>> \in written
    BY Zenon DEF FilesInv
  <2>2. f.id = id /\ f.data = encrypt(derive_vfs_master_key(u), k, FileAad(id),
                               [funding_txo |-> id.filename, value |-> v])
    BY <2>1, FileFields
  <2>3. f.data.key_id = k
    BY <2>2, EncryptFields
  <2>4. QED  BY Zenon, <2>2, <2>3
<1>2. ASSUME NEW p \in payments PROVE p.id \in PaymentIds /\ p.data.key_id \in 1..key_ids
  <2>1. PICK u \in Users, k \in 1..key_ids, i \in PaymentIds, v \in Values :
            p = PaymentOf(u, k, i, v) /\ <<u, i, v>> \in written
    BY Zenon DEF FilesInv
  <2>2. p.id = i /\ p.data.key_id = k
    BY <2>1 DEF PaymentOf, encrypt_payment, encrypt
  <2>3. QED  BY Zenon, <2>2
<1>3. ASSUME NEW b \in backups PROVE b.salt \in 1..key_ids
  <2>1. PICK u \in Users, k \in 1..key_ids, pw \in Passwords :
            b = BackupOf(u, k, pw) /\ <<pw, u>> \in written /\ validate_password_len(pw)
    BY Zenon DEF FilesInv
  <2>2. QED  BY <2>1 DEF BackupOf
<1>4. QED  BY Zenon, <1>1, <1>2, <1>3 DEF TypeOK

(* Files, payments and backups together: whatever the storage returns, what *)
(* is accepted is what its user wrote in this place, and what the user      *)
(* stored is never refused (persister.rs, root_seed.rs).                    *)
THEOREM StoredReadsBack ==
    ASSUME FileHypotheses, MaxWrites \in Nat PROVE Spec => []FilesReadBack
<1>1. Init => key_ids \in 0..MaxWrites
  BY DEF Init
<1>2. key_ids \in 0..MaxWrites /\ [Next]_vars => (key_ids \in 0..MaxWrites)'
  BY WritesAreBounded
<1>3. FilesInv /\ key_ids \in 0..MaxWrites => FilesReadBack
  BY Zenon, StoredIsWellFormed DEF FilesInv, FilesReadBack
<1>4. QED  BY <1>1, <1>2, <1>3, FilesInvariance, PTL DEF Spec

-----------------------------------------------------------------------------
(* SealedSeeds.                                                            *)

CONSTANTS Machines, Enclaves, Configs, UseSgx, MaxEpoch, MaxSvn, MaxSeals

VARIABLES platform, backend, keyid, node, sealed, refused

Seeds == INSTANCE SealedSeeds

(* What the constants are: SVNs are numbers, a configuration is a pair,    *)
(* None is none of the records, and whoever signs a build fixes whether    *)
(* its enclave may be debugged.                                            *)
SealHypotheses ==
    /\ UseSgx \in BOOLEAN /\ MaxEpoch \in Nat /\ MaxSvn \in Nat
    /\ \A e \in Enclaves : e.current \in Nat /\ e.debug \in BOOLEAN
    /\ \A d, e \in Enclaves :
          d.measurement = e.measurement /\ d.signer = e.signer => d.debug = e.debug
    /\ Configs \subseteq [env : STRING, network : STRING]
    /\ None # Seeds!MOCK /\ None \notin Users
    /\ \A r, i, d, c, k : None # [machine |-> r, epoch |-> i, request |-> d,
                                  identity |-> c, debug |-> k]
    /\ \A r : None # [request |-> r]
    /\ \A r, i, d : None # [root_seed |-> r, deploy_env |-> i, network |-> d]
    /\ \A r, i, d, c, k : None # [user |-> r, seed |-> i, measurement |-> d,
                                  epoch |-> c, config |-> k]

(* The key material and the machine id of enclave e on a machine, under an *)
(* owner epoch.                                                            *)
MaterialOf(m, epoch, e, request) ==
    IF UseSgx
    THEN [machine |-> m, epoch |-> epoch, request |-> request,
          identity |-> e.measurement, debug |-> e.debug]
    ELSE [request |-> request]

IdOf(m, epoch, e) ==
    IF UseSgx
    THEN [machine |-> m, epoch |-> epoch,
          request |-> [keypolicy |-> "MRSIGNER", cpusvn |-> e.current,
                       bindsDebug |-> FALSE, keyid |-> 0],
          identity |-> e.signer, debug |-> FALSE]
    ELSE Seeds!MOCK

(* A record of the backend is what enclave e sealed as b. *)
SealedAs(t, b, e) ==
    /\ t.blob.keyrequest = [keypolicy |-> "MRENCLAVE", cpusvn |-> e.current,
                            bindsDebug |-> TRUE, keyid |-> t.blob.keyrequest.keyid]
    /\ t.blob.ciphertext.key =
          Seeds!derive_aesgcm_key(MaterialOf(b.machine, b.epoch, e, t.blob.keyrequest), Seeds!LABEL)
    /\ t.blob.ciphertext.data =
          [root_seed |-> b.user, deploy_env |-> b.config.env, network |-> b.config.network]
    /\ Seeds!validate_network(b.config.env, b.config.network)
    /\ b.measurement = e.measurement
    /\ t.id = [user_pk |-> b.user, measurement |-> e.measurement,
               machine_id |-> IdOf(b.machine, b.epoch, e)]

(* x, which runs on machine m, has the seed of its user, sealed as one of  *)
(* the sealings in S for what it is.                                       *)
OwnSeedIn(S, m, x) ==
    /\ x.seed = x.user
    /\ \E b \in S :
         /\ b.user = x.user /\ b.config = x.config
         /\ UseSgx => /\ b.measurement = x.measurement /\ b.machine = m /\ b.epoch = x.epoch

(* Every record was sealed by an enclave, here or elsewhere, for the       *)
(* identity that its id names.                                             *)
SealInv ==
    /\ platform \in [Machines -> [epoch : 0..MaxEpoch, cpusvn : 0..MaxSvn]]
    /\ DOMAIN node = Machines
    /\ \A b \in sealed : b.user \in Users /\ b.config \in Configs
    /\ \A t \in backend : \E b \in sealed, e \in Enclaves : SealedAs(t, b, e)
    /\ \A m \in Machines : node[m] # None => OwnSeedIn(sealed, m, node[m])
    /\ refused = FALSE

-----------------------------------------------------------------------------
(* Keys. *)

(* The machine id of an enclave is that of the sealings that it makes now. *)
LEMMA MachineIdNow ==
    ASSUME SealHypotheses, NEW m, NEW e \in Enclaves, Seeds!machine_id(m, e) # None
    PROVE  Seeds!machine_id(m, e) = IdOf(m, platform[m].epoch, e)
<1> DEFINE request == [keypolicy |-> "MRSIGNER", cpusvn |-> e.current,
                       bindsDebug |-> FALSE, keyid |-> 0]
<1>1. CASE UseSgx
  <2>1. Seeds!machine_id(m, e) = Seeds!egetkey(m, e, request)
    BY Zenon, <1>1 DEF Seeds!machine_id
  <2>2. request.keypolicy = "MRSIGNER" /\ request.bindsDebug = FALSE
    OBVIOUS
  <2> HIDE DEF request
  <2>3. Seeds!egetkey(m, e, request) =
          [machine |-> m, epoch |-> platform[m].epoch, request |-> request,
           identity |-> e.signer, debug |-> FALSE]
    BY Zenon, <2>1, <2>2 DEF Seeds!egetkey
  <2>4. QED  BY Zenon, <1>1, <2>1, <2>3 DEF IdOf, request
<1>2. CASE ~UseSgx
  BY Zenon, <1>2 DEF Seeds!machine_id, IdOf
<1>3. QED  BY Zenon, <1>1, <1>2 DEF SealHypotheses

(* The key material that an enclave derives for a request by measurement. *)
LEMMA MaterialNow ==
    ASSUME SealHypotheses, NEW m, NEW e \in Enclaves, NEW request,
           request.keypolicy = "MRENCLAVE", request.bindsDebug = TRUE,
           Seeds!derive_key_material(m, e, request) # None
    PROVE  Seeds!derive_key_material(m, e, request) = MaterialOf(m, platform[m].epoch, e, request)
<1>1. CASE UseSgx
  <2>1. Seeds!derive_key_material(m, e, request) = Seeds!egetkey(m, e, request) /\ e.debug \in BOOLEAN
    BY Zenon, <1>1 DEF Seeds!derive_key_material, SealHypotheses
  <2>2. Seeds!egetkey(m, e, request) =
          [machine |-> m, epoch |-> platform[m].epoch, request |-> request,
           identity |-> e.measurement, debug |-> e.debug]
    BY <2>1 DEF Seeds!egetkey
  <2>3. QED  BY Zenon, <1>1, <2>1, <2>2 DEF MaterialOf
<1>2. CASE ~UseSgx
  BY Zenon, <1>2 DEF Seeds!derive_key_material, MaterialOf
<1>3. QED  BY Zenon, <1>1, <1>2 DEF SealHypotheses

(* seal_from_root_seed seals as the record says. *)
LEMMA SealSeals ==
    ASSUME SealHypotheses, NEW m \in Machines, NEW e \in Enclaves, NEW u, NEW c, NEW id,
           Seeds!machine_id(m, e) # None,
           NEW s, s = Seeds!seal_from_root_seed(m, e, id, u, c), s # None,
           NEW b, b = [user |-> u, machine |-> m, epoch |-> platform[m].epoch,
                       measurement |-> e.measurement, config |-> c]
    PROVE  SealedAs(s, b, e)
<1>1. /\ b.user = u /\ b.machine = m /\ b.epoch = platform[m].epoch
      /\ b.measurement = e.measurement /\ b.config = c
  OBVIOUS
<1> DEFINE request == Seeds!gen_sealing_request(m, e, id)
           data == [root_seed |-> u, deploy_env |-> c.env, network |-> c.network]
           material == Seeds!derive_key_material(m, e, request)
           blob == Seeds!seal(m, e, id, Seeds!LABEL, data)
<1>2. /\ Seeds!validate_network(c.env, c.network) /\ blob # None
      /\ s = [id |-> Seeds!SealedSeedId(u, e, m), blob |-> blob]
  BY Zenon DEF Seeds!seal_from_root_seed
<1>3. /\ material # None
      /\ blob = [keyrequest |-> request,
                 ciphertext |-> [key |-> Seeds!derive_aesgcm_key(material, Seeds!LABEL), data |-> data]]
  BY Zenon, <1>2 DEF Seeds!seal
<1>4. /\ request = [keypolicy |-> "MRENCLAVE", cpusvn |-> e.current,
                    bindsDebug |-> TRUE, keyid |-> id]
      /\ request.keypolicy = "MRENCLAVE" /\ request.bindsDebug = TRUE /\ request.keyid = id
  BY DEF Seeds!gen_sealing_request
<1> HIDE DEF request, data
<1>5. material = MaterialOf(m, platform[m].epoch, e, request)
  BY Zenon, <1>3, <1>4, MaterialNow
<1> HIDE DEF material, blob
<1>6. /\ s.id = Seeds!SealedSeedId(u, e, m) /\ s.blob = blob
      /\ blob.keyrequest = request /\ blob.ciphertext.data = data
      /\ blob.ciphertext.key = Seeds!derive_aesgcm_key(material, Seeds!LABEL)
  BY <1>2, <1>3
<1>7. s.id = [user_pk |-> u, measurement |-> e.measurement, machine_id |-> IdOf(m, platform[m].epoch, e)]
  BY Zenon, <1>6, MachineIdNow DEF Seeds!SealedSeedId
<1>8. QED  BY Zenon, <1>1, <1>2, <1>4, <1>5, <1>6, <1>7 DEF SealedAs, data

(* What enclave e on machine m can unseal, it sealed itself, or another    *)
(* copy of it did, here and under this owner epoch.                        *)
LEMMA UnsealGives ==
    ASSUME SealHypotheses, NEW m, NEW e \in Enclaves, NEW t, NEW b, NEW d \in Enclaves,
           SealedAs(t, b, d), Seeds!unseal(m, e, t.blob, Seeds!LABEL) # None
    PROVE  /\ Seeds!unseal(m, e, t.blob, Seeds!LABEL) = t.blob.ciphertext.data
           /\ UseSgx => /\ b.machine = m /\ b.epoch = platform[m].epoch
                        /\ b.measurement = e.measurement
<1> DEFINE request == t.blob.keyrequest
           material == Seeds!derive_key_material(m, e, request)
<1>1. /\ material # None /\ t.blob.ciphertext.key = Seeds!derive_aesgcm_key(material, Seeds!LABEL)
      /\ Seeds!unseal(m, e, t.blob, Seeds!LABEL) = t.blob.ciphertext.data
  BY Zenon DEF Seeds!unseal
<1>2. request.keypolicy = "MRENCLAVE" /\ request.bindsDebug = TRUE
  BY DEF SealedAs
<1> HIDE DEF request
<1>4. material = MaterialOf(m, platform[m].epoch, e, request)
  BY Zenon, <1>1, <1>2, MaterialNow
<1> HIDE DEF material
<1>5. Seeds!derive_aesgcm_key(material, Seeds!LABEL) =
        Seeds!derive_aesgcm_key(MaterialOf(b.machine, b.epoch, d, request), Seeds!LABEL)
  BY Zenon, <1>1 DEF SealedAs, request
<1>6. material = MaterialOf(b.machine, b.epoch, d, request)
  BY <1>5 DEF Seeds!derive_aesgcm_key
<1>7. UseSgx => b.machine = m /\ b.epoch = platform[m].epoch /\ d.measurement = e.measurement
  <2>1. ASSUME UseSgx
        PROVE  [machine |-> b.machine, epoch |-> b.epoch, request |-> request,
                identity |-> d.measurement, debug |-> d.debug] =
               [machine |-> m, epoch |-> platform[m].epoch, request |-> request,
                identity |-> e.measurement, debug |-> e.debug]
    BY Zenon, <1>4, <1>6, <2>1 DEF MaterialOf
  <2>2. QED  BY <2>1
<1>8. QED  BY Zenon, <1>1, <1>7 DEF SealedAs

-----------------------------------------------------------------------------
(* Starting a node. *)

(* Whatever the database answers, the sealed bytes are those of a record. *)
LEMMA AnswersAreSealed ==
    ASSUME NEW id, NEW s \in Seeds!Answers(id), s # None
    PROVE  \E t \in backend : s.blob = t.blob
<1>1. CASE s = Seeds!Honest(id)
  <2>1. \E t \in backend : t.id = id
    BY Zenon, <1>1 DEF Seeds!Honest
  <2>2. Seeds!Honest(id) \in backend
    BY Zenon, <2>1 DEF Seeds!Honest
  <2>3. QED  BY Zenon, <1>1, <2>2
<1>2. CASE s \in {[id |-> r.id, blob |-> t.blob] : r, t \in backend}
  BY <1>2
<1>3. QED  BY <1>1, <1>2 DEF Seeds!Answers

(* A node that starts has unsealed the seed of its user. *)
LEMMA StartedOwnSeed ==
    ASSUME SealHypotheses, SealInv, NEW m \in Machines, NEW e \in Enclaves, NEW u,
           NEW c, NEW row, NEW id, NEW s \in Seeds!Answers(id), NEW x,
           x = Seeds!UserNodeInit(m, e, u, c, row, s), x # None
    PROVE  OwnSeedIn(sealed, m, x)
<1> DEFINE data == Seeds!fetch_provisioned_secrets(u, m, e, row, s)
           plain == Seeds!unseal(m, e, s.blob, Seeds!LABEL)
<1>1. /\ data # None
      /\ x = [user |-> u, seed |-> data.root_seed, measurement |-> e.measurement,
              epoch |-> platform[m].epoch,
              config |-> [env |-> data.deploy_env, network |-> data.network]]
  BY Zenon DEF Seeds!UserNodeInit
<1>2. s # None /\ data = Seeds!unseal_and_validate(s, m, e) /\ data.root_seed = u
  BY Zenon, <1>1 DEF Seeds!fetch_provisioned_secrets
<1>3. plain # None /\ data = plain
  BY Zenon, <1>1, <1>2 DEF Seeds!unseal_and_validate
<1> HIDE DEF data
<1>4. PICK t \in backend : s.blob = t.blob
  BY Zenon, <1>2, AnswersAreSealed
<1>5. PICK b \in sealed, d \in Enclaves : SealedAs(t, b, d)
  BY Zenon DEF SealInv
<1>6. /\ plain = t.blob.ciphertext.data
      /\ UseSgx => /\ b.machine = m /\ b.epoch = platform[m].epoch
                   /\ b.measurement = e.measurement
  <2>1. Seeds!unseal(m, e, t.blob, Seeds!LABEL) # None
    BY Zenon, <1>3, <1>4
  <2>2. /\ Seeds!unseal(m, e, t.blob, Seeds!LABEL) = t.blob.ciphertext.data
        /\ UseSgx => /\ b.machine = m /\ b.epoch = platform[m].epoch
                     /\ b.measurement = e.measurement
    <3> HIDE DEF plain
    <3>1. QED  BY ONLY SealHypotheses, <1>5, <2>1, UnsealGives, SMTT(30)
  <2>3. QED  BY Zenon, <1>4, <2>2
<1>7. /\ data.root_seed = b.user /\ data.deploy_env = b.config.env
      /\ data.network = b.config.network
  <2>1. data = [root_seed |-> b.user, deploy_env |-> b.config.env,
                network |-> b.config.network]
    BY Zenon, <1>3, <1>5, <1>6 DEF SealedAs
  <2>2. QED  BY <2>1
<1>8. b.config = [env |-> b.config.env, network |-> b.config.network]
  <2>1. b.config \in [env : STRING, network : STRING]
    BY Zenon DEF SealInv, SealHypotheses
  <2>2. QED  BY <2>1
<1>9. /\ x.user = u /\ x.seed = data.root_seed /\ x.measurement = e.measurement
      /\ x.epoch = platform[m].epoch
      /\ x.config = [env |-> data.deploy_env, network |-> data.network]
  BY <1>1
<1>10. QED  BY ZenonT(30), <1>2, <1>6, <1>7, <1>8, <1>9 DEF OwnSeedIn

(* A record under the machine id that the enclave has now was sealed by an *)
(* enclave that derives the same key: the platform can still give it.      *)
LEMMA SealedIsUnsealable ==
    ASSUME SealHypotheses, SealInv, NEW m \in Machines, NEW e \in Enclaves, NEW u,
           Seeds!machine_id(m, e) # None, NEW t, NEW b, NEW d \in Enclaves, SealedAs(t, b, d),
           t.id = Seeds!SealedSeedId(u, e, m)
    PROVE  /\ Seeds!unseal(m, e, t.blob, Seeds!LABEL) = t.blob.ciphertext.data
           /\ b.user = u
<1> DEFINE request == t.blob.keyrequest
           material == Seeds!derive_key_material(m, e, request)
<1>2. Seeds!machine_id(m, e) = IdOf(m, platform[m].epoch, e)
  BY Zenon, MachineIdNow
<1>3. [user_pk |-> b.user, measurement |-> d.measurement,
       machine_id |-> IdOf(b.machine, b.epoch, d)] =
      [user_pk |-> u, measurement |-> e.measurement,
       machine_id |-> IdOf(m, platform[m].epoch, e)]
  BY Zenon, <1>2 DEF SealedAs, Seeds!SealedSeedId
<1>4. /\ b.user = u /\ d.measurement = e.measurement
      /\ IdOf(b.machine, b.epoch, d) = IdOf(m, platform[m].epoch, e)
  BY <1>3
<1>5. request.keypolicy = "MRENCLAVE" /\ request.bindsDebug = TRUE
      /\ request.cpusvn = d.current
  BY DEF SealedAs
<1>6. UseSgx => /\ b.machine = m /\ b.epoch = platform[m].epoch
                /\ d.current = e.current /\ d.signer = e.signer /\ d.debug = e.debug
  <2>1. ASSUME UseSgx
        PROVE  [machine |-> b.machine, epoch |-> b.epoch,
                request |-> [keypolicy |-> "MRSIGNER", cpusvn |-> d.current,
                             bindsDebug |-> FALSE, keyid |-> 0],
                identity |-> d.signer, debug |-> FALSE] =
               [machine |-> m, epoch |-> platform[m].epoch,
                request |-> [keypolicy |-> "MRSIGNER", cpusvn |-> e.current,
                             bindsDebug |-> FALSE, keyid |-> 0],
                identity |-> e.signer, debug |-> FALSE]
    BY Zenon, <1>4, <2>1 DEF IdOf
  <2>2. UseSgx => /\ b.machine = m /\ b.epoch = platform[m].epoch
                  /\ d.current = e.current /\ d.signer = e.signer
    BY <2>1
  <2>3. QED  BY Zenon, <1>4, <2>2 DEF SealHypotheses
<1>7. material # None
  <2>1. CASE UseSgx
    <3>1. e.current <= platform[m].cpusvn
      <4>1. ~(e.current > platform[m].cpusvn)
        <5> DEFINE r == [keypolicy |-> "MRSIGNER", cpusvn |-> e.current,
                         bindsDebug |-> FALSE, keyid |-> 0]
        <5>1. Seeds!egetkey(m, e, r) # None
          BY Zenon, <2>1 DEF Seeds!machine_id
        <5>2. r.cpusvn = e.current
          OBVIOUS
        <5> HIDE DEF r
        <5>3. QED  BY Zenon, <5>1, <5>2 DEF Seeds!egetkey
      <4>2. platform[m].cpusvn \in Nat /\ e.current \in Nat
        BY DEF SealInv, SealHypotheses
      <4>3. QED  BY <4>1, <4>2
    <3>2. ~(request.cpusvn > platform[m].cpusvn)
      <4>1. platform[m].cpusvn \in Nat /\ e.current \in Nat
        BY DEF SealInv, SealHypotheses
      <4>2. request.cpusvn = e.current
        BY Zenon, <1>5, <1>6, <2>1
      <4>3. QED  BY <3>1, <4>1, <4>2
    <3> HIDE DEF request
    <3>3. Seeds!egetkey(m, e, request) # None
      BY ZenonT(30), <3>2 DEF Seeds!egetkey, SealHypotheses
    <3>4. QED  BY Zenon, <2>1, <3>3 DEF Seeds!derive_key_material
  <2>2. CASE ~UseSgx
    BY Zenon, <2>2 DEF Seeds!derive_key_material, SealHypotheses
  <2>3. QED  BY Zenon, <2>1, <2>2 DEF SealHypotheses
<1>8. material = MaterialOf(m, platform[m].epoch, e, request)
  <2> HIDE DEF request
  <2>1. QED  BY Zenon, <1>5, <1>7, MaterialNow
<1>9. MaterialOf(m, platform[m].epoch, e, request) = MaterialOf(b.machine, b.epoch, d, request)
  BY Zenon, <1>4, <1>6 DEF MaterialOf
<1>10. t.blob.ciphertext.key = Seeds!derive_aesgcm_key(material, Seeds!LABEL)
  BY Zenon, <1>8, <1>9 DEF SealedAs
<1>11. Seeds!unseal(m, e, t.blob, Seeds!LABEL) = t.blob.ciphertext.data
  BY Zenon, <1>7, <1>10 DEF Seeds!unseal
<1>12. QED  BY Zenon, <1>4, <1>11

(* A start with the right inputs is not refused. *)
LEMMA RightStartSucceeds ==
    ASSUME SealHypotheses, SealInv, NEW m \in Machines, NEW e \in Enclaves, NEW u \in Users,
           NEW c \in Configs, Seeds!machine_id(m, e) # None, NEW s, s # None,
           s = Seeds!Honest(Seeds!SealedSeedId(u, e, m)),
           s.blob.ciphertext.data.deploy_env = c.env,
           s.blob.ciphertext.data.network = c.network
    PROVE  Seeds!UserNodeInit(m, e, u, c, u, s) # None
<1> DEFINE id == Seeds!SealedSeedId(u, e, m)
           data == s.blob.ciphertext.data
<1>1. s \in backend /\ s.id = id
  <2> HIDE DEF id
  <2>1. \E t \in backend : t.id = id
    BY Zenon DEF Seeds!Honest, id
  <2>2. Seeds!Honest(id) \in backend /\ Seeds!Honest(id).id = id
    BY Zenon, <2>1 DEF Seeds!Honest
  <2>3. QED  BY Zenon, <2>2 DEF id
<1>2. PICK b \in sealed, d \in Enclaves : SealedAs(s, b, d)
  BY Zenon, <1>1 DEF SealInv
<1>3. Seeds!unseal(m, e, s.blob, Seeds!LABEL) = data /\ b.user = u
  BY <1>1, <1>2, SealedIsUnsealable
<1>4. /\ data = [root_seed |-> b.user, deploy_env |-> b.config.env,
                 network |-> b.config.network]
      /\ Seeds!validate_network(b.config.env, b.config.network)
  BY Zenon, <1>2 DEF SealedAs
<1>5. data # None
  <2> HIDE DEF data
  <2>1. QED  BY Zenon, <1>4 DEF SealHypotheses
<1>6. /\ data.root_seed = u /\ data.deploy_env = b.config.env /\ data.network = b.config.network
  BY <1>3, <1>4
<1>7. /\ s.id.user_pk = u /\ s.id.measurement = e.measurement
      /\ s.id.machine_id = Seeds!machine_id(m, e)
  BY <1>1 DEF Seeds!SealedSeedId
<1> HIDE DEF id, data
<1>8. Seeds!unseal_and_validate(s, m, e) = data
  BY Zenon, <1>3, <1>4, <1>5, <1>6, <1>7 DEF Seeds!unseal_and_validate
<1>9. Seeds!fetch_provisioned_secrets(u, m, e, u, s) = data
  BY Zenon, <1>5, <1>6, <1>8 DEF Seeds!fetch_provisioned_secrets, SealHypotheses
<1>10. data.deploy_env = c.env /\ data.network = c.network
  BY Zenon DEF data
<1> DEFINE config == [env |-> data.deploy_env, network |-> data.network]
<1>11. Seeds!UserNodeInit(m, e, u, c, u, s) =
        [user |-> u, seed |-> data.root_seed, measurement |-> e.measurement,
         epoch |-> platform[m].epoch, config |-> config]
  BY Zenon, <1>5, <1>9, <1>10 DEF Seeds!UserNodeInit
<1> HIDE DEF config
<1>12. None # [user |-> u, seed |-> data.root_seed, measurement |-> e.measurement,
               epoch |-> platform[m].epoch, config |-> config]
  BY Zenon DEF SealHypotheses
<1>13. QED  BY Zenon, <1>11, <1>12

-----------------------------------------------------------------------------
(* The invariant. *)

LEMMA SealInitial ==
    ASSUME SealHypotheses, Seeds!Init
    PROVE  SealInv
<1>1. platform \in [Machines -> [epoch : 0..MaxEpoch, cpusvn : 0..MaxSvn]]
  <2>1. platform \in [Machines -> [epoch : {0}, cpusvn : 0..MaxSvn]] /\ 0 \in 0..MaxEpoch
    BY DEF Seeds!Init, SealHypotheses
  <2>2. QED  BY <2>1
<1>2. QED  BY Zenon, <1>1 DEF Seeds!Init, SealInv

(* The machine changes its epoch or its CPUSVN, or stops its node. *)
LEMMA MachineSteps ==
    ASSUME SealHypotheses, SealInv, NEW m \in Machines,
           \/ Seeds!BumpOwnerEpoch(m) \/ Seeds!Stop(m) \/ UNCHANGED Seeds!vars
           \/ \E svn \in 0..MaxSvn : Seeds!ChangeCpusvn(m, svn)
    PROVE  SealInv'
<1>1. /\ backend' = backend /\ sealed' = sealed /\ refused' = refused
      /\ node' = node \/ node' = [node EXCEPT ![m] = None]
  BY Zenon DEF Seeds!BumpOwnerEpoch, Seeds!Stop, Seeds!ChangeCpusvn, Seeds!vars
<1>2. platform' \in [Machines -> [epoch : 0..MaxEpoch, cpusvn : 0..MaxSvn]]
  <2>1. platform \in [Machines -> [epoch : 0..MaxEpoch, cpusvn : 0..MaxSvn]] /\ MaxEpoch \in Nat
    BY Zenon DEF SealInv, SealHypotheses
  <2>2. CASE Seeds!BumpOwnerEpoch(m)
    BY <2>1, <2>2 DEF Seeds!BumpOwnerEpoch
  <2>3. CASE \E svn \in 0..MaxSvn : Seeds!ChangeCpusvn(m, svn)
    BY <2>1, <2>3 DEF Seeds!ChangeCpusvn
  <2>4. CASE Seeds!Stop(m) \/ UNCHANGED Seeds!vars
    BY Zenon, <2>1, <2>4 DEF Seeds!Stop, Seeds!vars
  <2>5. QED  BY Zenon, <2>2, <2>3, <2>4
<1>3. DOMAIN node' = Machines /\ \A k \in Machines : node'[k] = node[k] \/ node'[k] = None
  BY Zenon, <1>1 DEF SealInv
<1>4. \A k \in Machines : node'[k] # None => OwnSeedIn(sealed', k, node'[k])
  BY Zenon, <1>1, <1>3 DEF SealInv
<1>5. QED  BY Zenon, <1>1, <1>2, <1>3, <1>4 DEF SealInv

LEMMA ProvisionSteps ==
    ASSUME SealHypotheses, SealInv, NEW m \in Machines, NEW e \in Enclaves,
           NEW u \in Users, NEW c \in Configs, Seeds!Provision(m, e, u, c)
    PROVE  SealInv'
<1> DEFINE s == Seeds!seal_from_root_seed(m, e, keyid + 1, u, c)
           new == [user |-> u, machine |-> m, epoch |-> platform[m].epoch,
                   measurement |-> e.measurement, config |-> c]
<1>1. /\ Seeds!machine_id(m, e) # None /\ platform' = platform /\ node' = node /\ refused' = refused
      /\ \/ backend' = backend /\ sealed' = sealed
         \/ /\ s # None /\ backend' = {t \in backend : t.id # s.id} \union {s}
            /\ sealed' = sealed \union {new}
  BY Zenon DEF Seeds!Provision, Seeds!create_sealed_seed
<1>2. new.user = u /\ new.config = c
  OBVIOUS
<1>3. s # None => SealedAs(s, new, e)
  <2>1. SUFFICES ASSUME s # None PROVE SealedAs(s, new, e)
    OBVIOUS
  <2>2. QED  BY <1>1, <2>1, SealSeals
<1> HIDE DEF s, new
<1>4. sealed \subseteq sealed' /\ \A b \in sealed' : b.user \in Users /\ b.config \in Configs
  BY Zenon, <1>1, <1>2 DEF SealInv
<1>5. \A t \in backend' : \E b \in sealed', d \in Enclaves : SealedAs(t, b, d)
  <2>1. SUFFICES ASSUME NEW t \in backend'
                 PROVE  \E b \in sealed', d \in Enclaves : SealedAs(t, b, d)
    OBVIOUS
  <2>2. CASE t \in backend
    BY Zenon, <1>4, <2>2 DEF SealInv
  <2>3. CASE t \notin backend
    <3>1. t = s /\ s # None /\ new \in sealed'
      BY Zenon, <1>1, <2>1, <2>3
    <3>2. QED  BY Zenon, <1>3, <3>1
  <2>4. QED  BY Zenon, <2>2, <2>3
<1>6. \A k \in Machines : node'[k] # None => OwnSeedIn(sealed', k, node'[k])
  <2>1. \A k, x : OwnSeedIn(sealed, k, x) => OwnSeedIn(sealed', k, x)
    BY Zenon, <1>4 DEF OwnSeedIn
  <2>2. QED  BY Zenon, <1>1, <2>1 DEF SealInv
<1>7. QED  BY Zenon, <1>1, <1>4, <1>5, <1>6 DEF SealInv

LEMMA StartSteps ==
    ASSUME SealHypotheses, SealInv, NEW m \in Machines, NEW e \in Enclaves,
           NEW u \in Users, NEW c \in Configs, NEW row, NEW s, Seeds!Start(m, e, u, c, row, s)
    PROVE  SealInv'
<1> DEFINE x == Seeds!UserNodeInit(m, e, u, c, row, s)
           right == /\ row = u /\ s # None
                    /\ s = Seeds!Honest(Seeds!SealedSeedId(u, e, m))
                    /\ s.blob.ciphertext.data.deploy_env = c.env
                    /\ s.blob.ciphertext.data.network = c.network
<1>1. /\ Seeds!machine_id(m, e) # None /\ s \in Seeds!Answers(Seeds!SealedSeedId(u, e, m))
      /\ node' = [node EXCEPT ![m] = x]
      /\ refused' = (refused \/ (right /\ x = None))
      /\ platform' = platform /\ backend' = backend /\ sealed' = sealed
  BY Zenon DEF Seeds!Start
<1>2. ~(right /\ x = None)
  <2>1. SUFFICES ASSUME right PROVE x # None
    OBVIOUS
  <2>2. QED  BY Zenon, <1>1, <2>1, RightStartSucceeds
<1>3. x # None => OwnSeedIn(sealed, m, x)
  BY <1>1, StartedOwnSeed
<1> HIDE DEF x, right
<1>4. refused' = FALSE
  BY Zenon, <1>1, <1>2 DEF SealInv
<1>5. /\ DOMAIN node' = Machines /\ node'[m] = x
      /\ \A k \in Machines : k # m => node'[k] = node[k]
  BY Zenon, <1>1 DEF SealInv
<1>6. \A k \in Machines : node'[k] # None => OwnSeedIn(sealed', k, node'[k])
  BY Zenon, <1>1, <1>3, <1>5 DEF SealInv
<1>7. QED  BY Zenon, <1>1, <1>4, <1>5, <1>6 DEF SealInv

(* Every record in the backend opens only where it was sealed. *)
THEOREM SealInvariance ==
    ASSUME SealHypotheses
    PROVE  Seeds!Spec => []SealInv
<1>1. Seeds!Init => SealInv
  BY Zenon, SealInitial
<1>2. ASSUME SealInv, [Seeds!Next]_(Seeds!vars) PROVE SealInv'
  <2>1. CASE UNCHANGED Seeds!vars
    BY Zenon, <2>1, <1>2 DEF Seeds!vars, SealInv
  <2>2. ASSUME NEW m \in Machines,
               \/ Seeds!BumpOwnerEpoch(m) \/ Seeds!Stop(m)
               \/ \E svn \in 0..MaxSvn : Seeds!ChangeCpusvn(m, svn)
        PROVE  SealInv'
    BY Zenon, <1>2, <2>2, MachineSteps
  <2>3. ASSUME NEW m \in Machines,
               \E e \in Enclaves, u \in Users, c \in Configs : Seeds!Provision(m, e, u, c)
        PROVE  SealInv'
    BY Zenon, <1>2, <2>3, ProvisionSteps
  <2>4. ASSUME NEW m \in Machines,
               \E e \in Enclaves, u \in Users, c \in Configs, row \in Users \union {None} :
                 \E s \in Seeds!Answers(Seeds!SealedSeedId(u, e, m)) : Seeds!Start(m, e, u, c, row, s)
        PROVE  SealInv'
    BY Zenon, <1>2, <2>4, StartSteps
  <2>5. QED  BY Zenon, <1>2, <2>1, <2>2, <2>3, <2>4 DEF Seeds!Next
<1>3. SealInv /\ [Seeds!Next]_(Seeds!vars) => SealInv'
  BY Zenon, <1>2
<1>4. QED  BY PTL, <1>1, <1>3 DEF Seeds!Spec

(* UserNode::init: whatever records, rows or mixtures of records the       *)
(* database returns, a node runs with the seed of its own user, sealed for *)
(* its configuration, and in SGX by its measurement, on its machine and    *)
(* under its owner epoch.                                                  *)
THEOREM NodesRunOwnSeed ==
    ASSUME SealHypotheses
    PROVE  Seeds!Spec => []Seeds!RunsOwnSeed
<1>1. SealInv => Seeds!RunsOwnSeed
  BY Zenon DEF SealInv, Seeds!RunsOwnSeed, OwnSeedIn
<1>2. QED  BY PTL, <1>1, SealInvariance

(* MachineId: a record that is found under the machine id that an enclave  *)
(* has now can be unsealed by it, whatever happened to the platform.       *)
THEOREM MachineIdsMeanUnsealable ==
    ASSUME SealHypotheses
    PROVE  Seeds!Spec => []Seeds!MachineIdMeansUnsealable
<1>1. SealInv => Seeds!MachineIdMeansUnsealable
  BY Zenon DEF SealInv, Seeds!MachineIdMeansUnsealable
<1>2. QED  BY PTL, <1>1, SealInvariance
================================================================================
