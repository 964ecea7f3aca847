---------------------------- MODULE ProtocolStore ----------------------------
(***************************************************************************)
(* The store of the WhatsApp protocol client                               *)
(* (integrations/whatsapp/store.rs, crypto.rs): what its tables keep, for  *)
(* how long, and what a redelivery, a retry or a quit in the middle of a   *)
(* batch does to them.  The client that calls it is external; a behaviour  *)
(* is about one area of the store.                                         *)
(*                                                                         *)
(* A row is found by a keyed digest of its key and holds a sealed value    *)
(* that opens only where it was put; digests that differ are digests of    *)
(* different keys.                                                         *)
(***************************************************************************)
EXTENDS Naturals, FiniteSets, FiniteSetsExt

CONSTANTS
  Areas,        \* the areas of this instance
  Spaces,       \* namespaces of the table that holds keyed blobs
  Names,        \* addresses, ids of pre-keys, messages, indexes, devices: what rows are named by
  Groups,       \* groups, phone numbers: what rows are also found by
  Day,          \* how long a retry payload is kept at most
  MaxTime,      \* bound: the clock
  MaxOps        \* bound: calls of the client

VARIABLES
  area,
  clock,
  table,        \* the rows of the area: a set of records [at, val] and, by area, their other columns
  upload,       \* ids of an upload under way that are not marked yet
  gone,         \* names used up, taken or forgotten, and not stored since
  purged,       \* the time of the last purge of retry payloads, 0 for none
  batch,        \* the batch under way: [todo, all, before, version]
  written,      \* what the client has put last: <<space, name>> |-> value, for the area of the blobs
  ops

psVars == <<area, clock, table, upload, gone, purged, batch, written, ops>>

\* The tables of keyed blobs, and those of their own that do no more.
SignalBlobs == {"identity", "session"}
SyncBlobs == {"sync_key", "app_version"}
RetryBlobs == {"base_key", "device_list"}
TokenBlobs == {"tc_token"}
DeviceBlob == {"device"}
Blobs == SignalBlobs \cup SyncBlobs \cup RetryBlobs \cup TokenBlobs \cup DeviceBlob \cup {"sender_key", "signed_prekey"}

Values == {"v1", "v2"}
NoBatch == [todo |-> {}, all |-> {}, before |-> {}, version |-> 0]

TypeOK ==
  /\ Spaces \subseteq Blobs
  /\ area \in Areas \cup {"none"} /\ clock \in 1..MaxTime /\ upload \cup gone \subseteq Names /\ purged \in 0..MaxTime
  /\ batch.todo \subseteq Names /\ batch.version \in 0..MaxOps /\ ops \in 0..MaxOps
  /\ \A r, q \in table : r.at = q.at => r = q

Init ==
  /\ area = "none" /\ clock = 1 /\ table = {} /\ upload = {} /\ gone = {} /\ purged = 0
  /\ batch = NoBatch /\ written = [p \in Spaces \X Names |-> "none"] /\ ops = 0

ChooseArea(a) ==
  /\ area = "none" /\ area' = a
  /\ UNCHANGED <<clock, table, upload, gone, purged, batch, written, ops>>

Advance ==
  /\ clock < MaxTime /\ area \in {"retry", "secrets"} /\ clock' = clock + 1
  /\ UNCHANGED <<area, table, upload, gone, purged, batch, written, ops>>

\* with_conn: one closure at a time has the connection, and a batch keeps it until it commits.
Call(a) == area = a /\ batch = NoBatch /\ ops < MaxOps /\ ops' = ops + 1

\* ON CONFLICT DO UPDATE: the row at the key, whatever stood there.
Put(rows, row) == {r \in rows : r.at # row.at} \cup {row}
Without(rows, at) == {r \in rows : r.at # at}
At(at) == {r \in table : r.at = at}

-----------------------------------------------------------------------------
(* Blobs by namespace and key: identities, sessions, sender keys,          *)
(* app-state versions, device lists, base keys, and the tables of their    *)
(* own that do no more (signed pre-keys, sync keys, trusted tokens).       *)

\* Mutant: one digest of a key for all namespaces, and no namespace in the row's key.
PlaceOfKey(s, n) == <<n>>

\* digest: namespaces separate; row_aad: the place a sealed value is bound to.
Place(s, n) == <<s, n>>
Seal(at, v) == [at |-> at, val |-> v]
Open(at, envelope) == IF envelope.at = at THEN envelope.val ELSE "error"

BlobPut(s, n, v) ==
  /\ Call("blobs") /\ table' = Put(table, [at |-> Place(s, n), val |-> Seal(Place(s, n), v)])
  /\ written' = [written EXCEPT ![<<s, n>>] = v]
  /\ UNCHANGED <<area, clock, upload, gone, purged, batch>>

BlobDelete(s, n) ==
  /\ Call("blobs") /\ table' = Without(table, Place(s, n)) /\ written' = [written EXCEPT ![<<s, n>>] = "none"]
  /\ UNCHANGED <<area, clock, upload, gone, purged, batch>>

BlobGet(s, n) == IF At(Place(s, n)) = {} THEN "none" ELSE Open(Place(s, n), (CHOOSE r \in At(Place(s, n)) : TRUE).val)

-----------------------------------------------------------------------------
(* Pre-keys: stored, uploaded, used up by whoever writes first.            *)

StorePrekey(n) ==
  /\ Call("prekeys") /\ \E val \in {"stored", "uploaded"} : table' = Put(table, [at |-> n, val |-> val])
  /\ gone' = gone \ {n}
  /\ UNCHANGED <<area, clock, upload, purged, batch, written>>

\* The client takes the keys it will upload, and a message may use one up meanwhile.
BeginUpload ==
  /\ Call("prekeys") /\ upload = {} /\ upload' = {r.at : r \in {q \in table : q.val = "stored"}} /\ upload' # {}
  /\ UNCHANGED <<area, clock, table, gone, purged, batch, written>>

RemovePrekey(n) ==
  /\ Call("prekeys") /\ table' = Without(table, n) /\ gone' = gone \cup {n}
  /\ UNCHANGED <<area, clock, upload, purged, batch, written>>

\* Mutant: the row is written, there or not.
MarkedAnyway(n) == Put(table, [at |-> n, val |-> "uploaded"])

\* UPDATE, never upsert.
Marked(n) == IF At(n) = {} THEN table ELSE Put(table, [at |-> n, val |-> "uploaded"])

\* One update after the other, with no transaction: a quit leaves the rest unmarked.
MarkUploaded(n) ==
  /\ area = "prekeys" /\ n \in upload
  /\ \/ table' = Marked(n) /\ upload' = upload \ {n}
     \/ upload' = {} /\ UNCHANGED table
  /\ UNCHANGED <<area, clock, gone, purged, batch, written, ops>>

-----------------------------------------------------------------------------
(* Retry payloads of sent messages.                                        *)

StoreSent(n) ==
  /\ Call("retry") /\ table' = Put(table, [at |-> n, val |-> clock]) /\ gone' = gone \ {n}
  /\ UNCHANGED <<area, clock, upload, purged, batch, written>>

\* Found and deleted in one transaction: a second receipt finds nothing.
TakeSent(n) ==
  /\ Call("retry") /\ At(n) # {} /\ table' = Without(table, n) /\ gone' = gone \cup {n}
  /\ UNCHANGED <<area, clock, upload, purged, batch, written>>

\* Mutant: the caller's cutoff as it is.
CallersCutoff(c) == c

\* A caller that asks to keep payloads longer than a day is not heard.
Cutoff(c) == LET hard == IF clock > Day THEN clock - Day ELSE 0 IN IF c > hard THEN c ELSE hard

\* delete_expired_sent_messages; purge_expired asks with the time it is.
PurgeSent(c) ==
  /\ Call("retry") /\ table' = {r \in table : r.val > Cutoff(c)} /\ purged' = clock
  /\ UNCHANGED <<area, clock, upload, gone, batch, written>>

-----------------------------------------------------------------------------
(* Message secrets: expiry 0 is never, time 0 is not known.                *)

\* wacore's merge rules, as the tests of the store use them.
MergedExpiry(old, new) == IF old = 0 \/ new = 0 THEN 0 ELSE Max({old, new})
MergedTs(old, new) == IF new = 0 THEN old ELSE new

\* Mutant: a redelivery overwrites the columns it brings.
RowAsDelivered(n, expires, ts) == [at |-> n, expires |-> expires, ts |-> ts]

SecretRow(n, expires, ts) ==
  IF At(n) = {} THEN [at |-> n, expires |-> expires, ts |-> ts]
  ELSE LET old == CHOOSE r \in At(n) : TRUE IN [at |-> n, expires |-> MergedExpiry(old.expires, expires), ts |-> MergedTs(old.ts, ts)]

PutSecret(n) ==
  /\ Call("secrets") /\ \E e \in 0..MaxTime, ts \in 0..1 : table' = Put(table, SecretRow(n, e, ts))
  /\ UNCHANGED <<area, clock, upload, gone, purged, batch, written>>

PurgeSecrets ==
  /\ Call("secrets") /\ table' = {r \in table : r.expires = 0 \/ r.expires > clock}
  /\ UNCHANGED <<area, clock, upload, gone, purged, batch, written>>

-----------------------------------------------------------------------------
(* Mutation MACs of the app state: a version's MACs are one batch.         *)

BeginBatch(S) ==
  /\ Call("macs") /\ S # {} /\ batch' = [todo |-> S, all |-> S, before |-> table, version |-> ops']
  /\ UNCHANGED <<area, clock, table, upload, gone, purged, written>>

\* Statement by statement, and the commit with the last.  A row's "of" is what its batch still has.
PutMac(n) ==
  /\ n \in batch.todo /\ table' = Put(table, [at |-> n, version |-> batch.version, of |-> batch.all])
  /\ batch' = IF batch.todo = {n} THEN NoBatch ELSE [batch EXCEPT !.todo = @ \ {n}]
  /\ UNCHANGED <<area, clock, upload, gone, purged, written, ops>>

\* Mutant: every statement is its own transaction.
RowsSoFar == table

\* A statement that fails, or a quit: SQLite rolls the transaction back.
RolledBack == batch.before

BreakOff ==
  /\ batch # NoBatch /\ table' = RolledBack /\ batch' = NoBatch
  /\ UNCHANGED <<area, clock, upload, gone, purged, written, ops>>

DeleteMacs(S) ==
  /\ Call("macs") /\ table' = {[r EXCEPT !.of = @ \ S] : r \in {q \in table : q.at \notin S}}
  /\ UNCHANGED <<area, clock, upload, gone, purged, batch, written>>

-----------------------------------------------------------------------------
(* LID and phone number, and the devices a group's sender key went to.     *)

\* Mutant: the phone number a row is found by stays what it was.
PhoneAtFirst(n, g) == IF At(n) = {} THEN g ELSE (CHOOSE r \in At(n) : TRUE).phone

PhoneColumn(n, g) == g

\* put_lid_mapping(s): the sealed entry, and the columns it is found by.
PutLid(n, g) ==
  /\ Call("lids") /\ table' = Put(table, [at |-> n, phone |-> PhoneColumn(n, g), entry |-> g, when |-> ops'])
  /\ UNCHANGED <<area, clock, upload, gone, purged, batch, written>>

\* get_pn_mapping: the newest row with the phone number.
PhoneRow(g) == {q \in table : q.phone = g /\ \A o \in table : o.phone = g => o.when <= q.when}

\* set_sender_key_status.
SetDevice(g, n, has) ==
  /\ Call("devices") /\ table' = Put(table, [at |-> <<g, n>>, has |-> has]) /\ gone' = gone \ {n}
  /\ UNCHANGED <<area, clock, upload, purged, batch, written>>

ClearDevices(g) ==
  /\ Call("devices") /\ table' = {r \in table : r.at[1] # g}
  /\ UNCHANGED <<area, clock, upload, gone, purged, batch, written>>

\* By device, in every group.
ForgetDevice(n) ==
  /\ Call("devices") /\ table' = {r \in table : r.at[2] # n} /\ gone' = gone \cup {n}
  /\ UNCHANGED <<area, clock, upload, purged, batch, written>>

-----------------------------------------------------------------------------
Next ==
  \/ \E a \in Areas : ChooseArea(a)
  \/ Advance \/ BeginUpload \/ PurgeSecrets \/ BreakOff \/ \E c \in 0..MaxTime : PurgeSent(c)
  \/ \E S \in SUBSET Names : BeginBatch(S) \/ DeleteMacs(S)
  \/ \E n \in Names :
       \/ StorePrekey(n) \/ RemovePrekey(n) \/ MarkUploaded(n) \/ StoreSent(n) \/ TakeSent(n) \/ PutSecret(n) \/ PutMac(n)
       \/ ForgetDevice(n)
       \/ \E s \in Spaces : BlobDelete(s, n) \/ \E v \in Values : BlobPut(s, n, v)
       \/ \E g \in Groups : PutLid(n, g) \/ \E has \in BOOLEAN : SetDevice(g, n, has)
  \/ \E g \in Groups : ClearDevices(g)

Spec == Init /\ [][Next]_psVars

-----------------------------------------------------------------------------
(* Properties.                                                             *)

\* What is used up, taken or forgotten stays so until it is stored again: a pre-key a message used between an
\* upload and its mark (mark_prekeys_uploaded), a payload a retry receipt took, a device of all groups.
GoneStaysGone ==
  \A n \in gone : IF area = "devices" THEN \A r \in table : r.at[2] # n ELSE At(n) = {}

\* A blob is read as it was last put under its namespace and key, however other namespaces use the same key
\* (digest, row_aad, kv_get).
ReadIsWritten == area = "blobs" => \A s \in Spaces, n \in Names : BlobGet(s, n) = written[s, n]

\* After a purge no retry payload is a day old, whatever the caller asked to keep (delete_expired_sent_messages).
RetriesAreShort == (area = "retry" /\ purged # 0) => \A r \in table : r.val + Day > purged

\* A redelivery never shortens how long a secret is kept nor forgets when its message was sent, and no purge
\* takes a secret before it expires (put_msg_secrets, delete_expired_msg_secrets).
SecretsLiveOn ==
  area = "secrets" =>
    \A r \in table :
      \/ \E q \in table' : q.at = r.at /\ (q.expires = 0 \/ (r.expires # 0 /\ q.expires >= r.expires)) /\ (r.ts # 0 => q.ts # 0)
      \/ r.expires # 0 /\ r.expires <= clock

\* The MACs of a version are stored together: between two batches, wherever a batch's row stands the others of the
\* batch stand too, or newer ones, unless they were deleted (put_mutation_macs).
BatchesAreWhole ==
  (area = "macs" /\ batch = NoBatch) => \A r \in table : \A n \in r.of : \E q \in table : q.at = n /\ q.version >= r.version

\* What is found by a phone number is a mapping of that number (put_lid_mappings, get_pn_mapping).
PhoneAgrees == area = "lids" => \A g \in Groups : \A r \in PhoneRow(g) : r.entry = g
=============================================================================
