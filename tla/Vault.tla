------------------------------- MODULE Vault -------------------------------
(***************************************************************************)
(* Encrypted fields (edge/encryption.rs) and compressed blobs              *)
(* (edge/compression.rs).  The functions are pure: callers keep the row of *)
(* the table encryption_keys, the encrypted fields and the blobs, between  *)
(* whose reading and writing other callers come.  Encryption is symbolic:  *)
(* what was encrypted with a key only that key decrypts.                   *)
(***************************************************************************)
EXTENDS Parts, Integers, FiniteSets

CONSTANTS
  KeyHolder,    \* callers
  Password,
  First,        \* the password of the setup
  Field, Text,  \* sensitive fields, and what is written to them
  Blob, Data,   \* blobs, and what they are of
  Compressible, \* the data that lz4 makes smaller
  MaxVault      \* bound: the calls

ASSUME VaultAssumption ==
  First \in Password /\ Compressible \subseteq Data /\ MaxVault \in Nat

VARIABLES
  keyRow,    \* the row: the wrapped DEK (the salt never changes)
  fields,    \* field -> its encryption
  held,      \* holder -> the DEK it has unwrapped, or the row it is to store
  password,  \* the password whose change was last stored (history)
  written,   \* field -> what was last written (history)
  blobs,     \* blob -> as stored
  kept,      \* blob -> the data it was made of (history)
  answer,    \* the last reading of a blob
  vaultCalls

vaultVars ==
  <<keyRow, fields, held, password, written, blobs, kept, answer, vaultCalls>>

-----------------------------------------------------------------------------
Failed == [failed |-> TRUE]

(* encrypt_bytes and decrypt_bytes; the nonce, always a new one, is left    *)
(* out.                                                                    *)
Encrypt(plain, key) == [key |-> key, of |-> plain]
Decrypt(cipher, key) == IF cipher.key = key THEN cipher.of ELSE Failed

(* derive_kek, with the one salt; generate_dek. *)
DeriveKek(pw) == [kek |-> pw]
Dek(n) == [dek |-> n]

WrapDek(dek, kek) == Encrypt(dek, kek)
UnwrapDek(wrapped, kek) == Decrypt(wrapped, kek)

(* Mutant: the DEK is wrapped with the key it was unwrapped with. *)
RewrappedOld(wrapped, old, new) ==
  WrapDek(UnwrapDek(wrapped, DeriveKek(old)), DeriveKek(old))

(* change_password: the DEK is unwrapped with the old key and wrapped with  *)
(* the new one.                                                            *)
Rewrapped(wrapped, old, new) ==
  WrapDek(UnwrapDek(wrapped, DeriveKek(old)), DeriveKek(new))

VaultCalled == vaultCalls < MaxVault /\ vaultCalls' = vaultCalls + 1
fieldVars == <<keyRow, fields, held, password, written>>
blobVars == <<blobs, kept, answer>>

(* The setup that the module describes, done again: a new DEK. *)
Setup(pw) ==
  /\ VaultCalled
  /\ Risk("setup_again")
  /\ keyRow' = WrapDek(Dek(vaultCalls + 1), DeriveKek(pw))
  /\ password' = pw
  /\ UNCHANGED <<fields, held, written, blobVars>>

(* A caller with the right password gets the DEK. *)
Unlock(h, pw) ==
  /\ VaultCalled
  /\ UnwrapDek(keyRow, DeriveKek(pw)) # Failed
  /\ held' = [held EXCEPT ![h] = [dek |-> UnwrapDek(keyRow, DeriveKek(pw))]]
  /\ UNCHANGED <<keyRow, fields, password, written, blobVars>>

(* encrypt_field, with the DEK; FieldEncryptor's callers may still use the  *)
(* key derived from the password itself.                                   *)
Write(f, text, key) ==
  /\ fields' = [fields EXCEPT ![f] = Encrypt(text, key)]
  /\ written' = [written EXCEPT ![f] = text]
  /\ UNCHANGED <<keyRow, held, password, blobVars>>

EncryptField(h, f, text) ==
  VaultCalled /\ "dek" \in DOMAIN held[h] /\ Write(f, text, held[h].dek)

EncryptWithKek(f, text) ==
  VaultCalled /\ Risk("legacy") /\ Write(f, text, DeriveKek(password))

(* A caller of change_password, whose old password is right, has read the   *)
(* row, and stores what it got in a step of its own; or never.             *)
ChangePassword(h, old, new) ==
  /\ VaultCalled
  /\ UnwrapDek(keyRow, DeriveKek(old)) # Failed
  /\ held' = [held EXCEPT ![h] = [row |-> Rewrapped(keyRow, old, new), new |-> new]]
  /\ UNCHANGED <<keyRow, fields, password, written, blobVars>>

StoreRewrapped(h) ==
  /\ "row" \in DOMAIN held[h]
  /\ keyRow' = held[h].row
  /\ password' = held[h].new
  /\ held' = [held EXCEPT ![h] = Failed]
  /\ UNCHANGED <<fields, written, blobVars, vaultCalls>>

GivesUp(h) ==
  /\ held[h] # Failed
  /\ held' = [held EXCEPT ![h] = Failed]
  /\ UNCHANGED <<keyRow, fields, password, written, blobVars, vaultCalls>>

-----------------------------------------------------------------------------
(* lz4, external: block::compress without the size before the block, which  *)
(* block::decompress without a size expects; from anything else it makes   *)
(* an error or whatever.                                                   *)
Lz4Compress(d, prefix) == [form |-> "lz4", of |-> d, prefix |-> prefix]
Lz4Decompress(payload) ==
  IF payload.form = "lz4" /\ payload.prefix THEN {payload.of}
  ELSE {Failed} \cup (Data \ {payload.of})
Raw(d) == [form |-> "raw", of |-> d]

(* Mutant: the flag says compressed whatever was stored. *)
CompressBlobFlagged(d) == [flag |-> 1, crc |-> d, payload |-> Raw(d)]

(* compress_blob; the checksum tells data apart. *)
CompressBlob(d) ==
  IF d \in Compressible
  THEN [flag |-> 1, crc |-> d, payload |-> Lz4Compress(d, FALSE)]
  ELSE [flag |-> 0, crc |-> d, payload |-> Raw(d)]

(* What the payload is recovered to, by the flag. *)
Recovered(b) ==
  CASE b.flag = 0 -> IF b.payload.form = "raw" THEN {b.payload.of} ELSE {Failed}
    [] b.flag = 1 -> Lz4Decompress(b.payload)
    [] OTHER -> {Failed}

(* Mutant: the checksum is not compared. *)
CheckedNot(b, d) == d

Checked(b, d) == IF d # Failed /\ b.crc = d THEN d ELSE Failed

(* decompress_blob *)
DecompressBlob(b) == {Checked(b, d) : d \in Recovered(b)}

PutBlob(x, d) ==
  /\ VaultCalled
  /\ blobs' = [blobs EXCEPT ![x] = CompressBlob(d)]
  /\ kept' = [kept EXCEPT ![x] = d]
  /\ UNCHANGED <<answer, fieldVars>>

(* A blob is damaged where it is stored: its flag, or its payload. *)
DamageBlob(x) ==
  /\ VaultCalled
  /\ blobs[x] # Failed
  /\ Risk("damage")
  /\ \/ \E flag \in 0 .. 2 : blobs' = [blobs EXCEPT ![x].flag = flag]
     \/ \E d \in Data : blobs' = [blobs EXCEPT ![x].payload.of = d]
  /\ UNCHANGED <<kept, answer, fieldVars>>

GetBlob(x) ==
  /\ VaultCalled
  /\ blobs[x] # Failed
  /\ \E d \in DecompressBlob(blobs[x]) : answer' = [blob |-> x, data |-> d, of |-> kept[x]]
  /\ UNCHANGED <<blobs, kept, fieldVars>>

NoReading == [data |-> Failed]

VaultInit ==
  /\ keyRow = WrapDek(Dek(0), DeriveKek(First)) /\ password = First
  /\ fields = [f \in Field |-> Failed] /\ written = [f \in Field |-> Failed]
  /\ held = [h \in KeyHolder |-> Failed]
  /\ blobs = [x \in Blob |-> Failed] /\ kept = [x \in Blob |-> Failed]
  /\ answer = NoReading
  /\ vaultCalls = 0

FieldNext ==
  \/ \E pw \in Password : Setup(pw)
  \/ \E h \in KeyHolder :
       \/ StoreRewrapped(h) \/ GivesUp(h)
       \/ \E pw \in Password : Unlock(h, pw)
       \/ \E f \in Field, text \in Text : EncryptField(h, f, text)
       \/ \E old, new \in Password : ChangePassword(h, old, new)
  \/ \E f \in Field, text \in Text : EncryptWithKek(f, text)

BlobNext ==
  \E x \in Blob : DamageBlob(x) \/ GetBlob(x) \/ \E d \in Data : PutBlob(x, d)

VaultNext ==
  /\ UNCHANGED mix
  /\ \/ Moves("fields") /\ FieldNext
     \/ Moves("blobs") /\ BlobNext

VaultTypeOK ==
  /\ password \in Password
  /\ \A f \in Field : written[f] \in Text \cup {Failed}
  /\ \A x \in Blob : kept[x] \in Data \cup {Failed}

-----------------------------------------------------------------------------
(* decrypt_field of a caller that knows a password. *)
ReadWith(pw, f) == Decrypt(fields[f], UnwrapDek(keyRow, DeriveKek(pw)))

(* After any changes of the password, stored, lost or overlapping, the last *)
(* one that was stored opens every field, though none was encrypted again; *)
(* unless the setup was done again, or a field was encrypted without DEK.  *)
FieldsReadable ==
  Safe({"setup_again", "legacy"}) =>
    \A f \in Field : written[f] # Failed => ReadWith(password, f) = written[f]

(* The other passwords open none. *)
OthersShut ==
  \A pw \in Password \ {password} : UnwrapDek(keyRow, DeriveKek(pw)) = Failed

(* "Corrupted data is never returned." *)
BlobsTrue == answer.data # Failed => answer.data = answer.of

(* A blob that was not damaged comes back, but not one that was compressed. *)
BlobsReturn ==
  (Safe({"damage"}) /\ answer # NoReading /\ answer.of \notin Compressible) =>
    answer.data = answer.of
=============================================================================
