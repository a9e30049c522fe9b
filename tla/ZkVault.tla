------------------------------ MODULE ZkVault ------------------------------
(***************************************************************************)
(* One zero-knowledge profile, its items and the clients that hold its     *)
(* root key.  The server handlers (profiles.bootstrap, changePassword,     *)
(* setupRecovery, rotateKey, items.create, update, delete) run one SQL     *)
(* statement at a time under READ COMMITTED, so another request may commit *)
(* between any two statements of a handler; the last write of a handler    *)
(* and its COMMIT are one step.  The clients (dashboard and daemon) build  *)
(* their requests from rows they read earlier.                             *)
(*                                                                         *)
(* Cryptography is abstracted to what it distinguishes: a wrapped root key *)
(* opens only under the key version bound as its AAD and under the salt    *)
(* its KEK was derived from; an item key opens only under the root that    *)
(* wrapped it; a ciphertext opens only under its own DEK and at the        *)
(* content version bound as its AAD.  The user always types the right      *)
(* password.                                                               *)
(***************************************************************************)
EXTENDS Naturals

CONSTANTS
  Clients,        \* dashboards and daemons of admins of the organization
  Items,          \* UUIDs the clients generate for items
  NoClient,       \* holder of a free advisory lock
  NoItem,         \* the item of a request about no item
  MaxKeyVersion,  \* bound on the profile's key version
  MaxContent,     \* bound on an item's content version
  MaxSalt         \* bound on the KDF salts generated

ASSUME ZkConstants ==
  /\ NoClient \notin Clients
  /\ NoItem \notin Items
  /\ MaxKeyVersion \in Nat /\ MaxContent \in Nat /\ MaxSalt \in Nat

VARIABLES
  profile,    \* the profiles row
  item,       \* the items rows of the profile
  lock,       \* holder of pg_advisory_xact_lock(hashtext(profileId))
  memory,     \* the wrap each client unlocked its root key from
  req,        \* the request each client has in flight
  tx,         \* what the handler of that request has read so far
  stage,      \* where that handler is
  salts,      \* salts generated so far
  installed   \* history: the root the last bootstrap or rotation installed

vars == <<profile, item, lock, memory, req, tx, stage, salts, installed>>
serverVars == <<profile, item, lock, tx, installed>>

-----------------------------------------------------------------------------
(* Keys, wraps and ciphertexts *)

\* A random value is named by who generated it and for which version.
Secret == [by : Clients \cup {NoClient}, version : Nat]
NoSecret == [by |-> NoClient, version |-> 0]

\* wrapRootKey: a root key sealed under AAD (profile, keyVersion) and the
\* KEK of a salt.  Salt 0 stands for the recovery key.
Wrap == [root : Secret, keyVersion : Nat, salt : Nat]
NoWrap == [root |-> NoSecret, keyVersion |-> 0, salt |-> 0]

\* encryptedItemKey: the item's DEK under a root key.
ItemKey == [root : Secret, dek : Secret]
NoKey == [root |-> NoSecret, dek |-> NoSecret]

\* ciphertext: content under a DEK, AAD (profile, item, contentVersion).
Ciphertext == [dek : Secret, contentVersion : Nat]
NoCiphertext == [dek |-> NoSecret, contentVersion |-> 0]

\* unwrapRootKey succeeds: the AAD is the row's keyVersion, the KEK comes
\* from the row's salt.
Opens(wrap, keyVersion, salt) ==
  wrap # NoWrap /\ wrap.keyVersion = keyVersion /\ wrap.salt = salt

ProfileOpens == Opens(profile.wrappedRootKey, profile.keyVersion, profile.kdfSalt)

Live(i) == item[i].state = "live"
LiveItems == {i \in Items : Live(i)}

NoRow == [state |-> "absent", encryptedItemKey |-> NoKey, ciphertext |-> NoCiphertext,
          contentVersion |-> 0, cryptoVersion |-> 0]

\* What a client sends.  rekeyed[i] = NoKey when a rotation does not name i.
Request ==
  [item : Items \cup {NoItem}, wrap : Wrap, recovery : Wrap, key : ItemKey,
   ciphertext : Ciphertext, rekeyed : [Items -> ItemKey],
   expectedKeyVersion : Nat, contentVersion : Nat]
NoRequest ==
  [item |-> NoItem, wrap |-> NoWrap, recovery |-> NoWrap, key |-> NoKey,
   ciphertext |-> NoCiphertext, rekeyed |-> [i \in Items |-> NoKey],
   expectedKeyVersion |-> 0, contentVersion |-> 0]

\* What a handler has read.
Snapshot == [keyVersion : Nat, recovery : Wrap, contentVersion : Nat]
NoSnapshot == [keyVersion |-> 0, recovery |-> NoWrap, contentVersion |-> 0]

Holding == {"createLocked", "rotateLocked", "rotateRead", "rotateChecked"}
Stages == Holding \cup
  {"idle", "bootstrap", "password", "passwordRoot", "daemonPassword", "recovery",
   "create", "update", "updateLoaded", "rotate"}

TypeOK ==
  /\ profile \in [wrappedRootKey : Wrap, recoveryWrappedRootKey : Wrap,
                  keyVersion : Nat, kdfSalt : Nat]
  /\ item \in [Items -> [state : {"absent", "live", "deleted"},
                         encryptedItemKey : ItemKey, ciphertext : Ciphertext,
                         contentVersion : Nat, cryptoVersion : Nat]]
  /\ lock \in Clients \cup {NoClient}
  /\ memory \in [Clients -> Wrap]
  /\ req \in [Clients -> Request]
  /\ tx \in [Clients -> Snapshot]
  /\ stage \in [Clients -> Stages]
  /\ salts \in Nat
  /\ installed \in Secret

Init ==
  /\ profile = [wrappedRootKey |-> NoWrap, recoveryWrappedRootKey |-> NoWrap,
                keyVersion |-> 1, kdfSalt |-> 0]
  /\ item = [i \in Items |-> NoRow]
  /\ lock = NoClient
  /\ memory = [c \in Clients |-> NoWrap]
  /\ req = [c \in Clients |-> NoRequest]
  /\ tx = [c \in Clients |-> NoSnapshot]
  /\ stage = [c \in Clients |-> "idle"]
  /\ salts = 1
  /\ installed = NoSecret

-----------------------------------------------------------------------------
(* Requests and transactions *)

Goto(c, s) == stage' = [stage EXCEPT ![c] = s]

\* The client sends a request; its handler has not run a statement yet.
Send(c, s, request) ==
  /\ Goto(c, s)
  /\ req' = [req EXCEPT ![c] = request]

\* The handler answers, with success or an error, and its transaction ends.
Finish(c) ==
  /\ Goto(c, "idle")
  /\ req' = [req EXCEPT ![c] = NoRequest]
  /\ tx' = [tx EXCEPT ![c] = NoSnapshot]
  /\ lock' = IF lock = c THEN NoClient ELSE lock

\* Mutant: pg_try_advisory_xact_lock with its answer ignored.
AdvisoryLockUnwaited(c) == lock' = c

\* pg_advisory_xact_lock: waits until no transaction holds the lock.
AdvisoryLock(c) == lock = NoClient /\ lock' = c

\* A client gives up, a request is lost or the worker dies: the transaction
\* rolls back and Postgres releases its locks.
Abort(c) ==
  /\ stage[c] # "idle"
  /\ Finish(c)
  /\ UNCHANGED <<profile, item, memory, salts, installed>>

-----------------------------------------------------------------------------
(* Unlocking *)

\* profiles.get and unwrapRootKey; the client keeps the root key in memory.
Unlock(c) ==
  /\ stage[c] = "idle" /\ memory[c] = NoWrap
  /\ ProfileOpens
  /\ memory' = [memory EXCEPT ![c] = profile.wrappedRootKey]
  /\ UNCHANGED <<profile, item, lock, req, tx, stage, salts, installed>>

\* The user locks the vault, or the auto-lock timer fires.
Lock(c) ==
  /\ memory[c] # NoWrap
  /\ memory' = [memory EXCEPT ![c] = NoWrap]
  /\ UNCHANGED <<profile, item, lock, req, tx, stage, salts, installed>>

-----------------------------------------------------------------------------
(* profiles.bootstrap *)

\* A wrap of a fresh root is bound to key version 1 whatever the row says; at
\* most one bootstrap ever lands, so its salt is the first.
SendBootstrap(c) ==
  /\ stage[c] = "idle"
  /\ profile.wrappedRootKey = NoWrap
  /\ LET root == [by |-> c, version |-> 1] IN
     Send(c, "bootstrap",
       [NoRequest EXCEPT
          !.wrap = [root |-> root, keyVersion |-> 1, salt |-> 1],
          !.recovery = [root |-> root, keyVersion |-> 1, salt |-> 0]])
  /\ UNCHANGED <<serverVars, memory, salts>>

Unbootstrapped == profile.wrappedRootKey = NoWrap

\* UPDATE ... WHERE wrapped_root_key IS NULL; the dashboard then sets up
\* recovery, the loser of two bootstraps gets PROFILE_ALREADY_EXISTS.
BootstrapProfile(c) ==
  /\ stage[c] = "bootstrap"
  /\ \/ /\ Unbootstrapped
        /\ profile' = [profile EXCEPT !.wrappedRootKey = req[c].wrap,
                                      !.kdfSalt = req[c].wrap.salt]
        /\ installed' = req[c].wrap.root
        /\ Goto(c, "recovery")
        /\ UNCHANGED <<lock, req, tx>>
     \/ /\ ~Unbootstrapped
        /\ Finish(c)
        /\ UNCHANGED <<profile, installed>>
  /\ UNCHANGED <<item, memory, salts>>

-----------------------------------------------------------------------------
(* profiles.changePassword and profiles.setupRecovery *)

\* A re-wrap of root for key version kv under a fresh salt, and the recovery
\* wrap the dashboard sends after it.
Rewrap(root, kv) ==
  [NoRequest EXCEPT
     !.wrap = [root |-> root, keyVersion |-> kv, salt |-> salts + 1],
     !.recovery = [root |-> root, keyVersion |-> kv, salt |-> 0]]

\* Dashboard: unlockProfile reads the profile a first time ...
ReadRootForPassword(c) ==
  /\ stage[c] = "idle" /\ salts < MaxSalt
  /\ ProfileOpens
  /\ Send(c, "passwordRoot", [NoRequest EXCEPT !.wrap = profile.wrappedRootKey])
  /\ UNCHANGED <<serverVars, memory, salts>>

\* ... and the profile is read again for the key version to bind.
SendPassword(c) ==
  /\ stage[c] = "passwordRoot" /\ salts < MaxSalt
  /\ salts' = salts + 1
  /\ Send(c, "password", Rewrap(req[c].wrap.root, profile.keyVersion))
  /\ UNCHANGED <<serverVars, memory>>

\* Daemon: the old password is verified against a fresh row, and the root key
\* held in memory since the unlock is what is wrapped again.
SendDaemonPassword(c) ==
  /\ stage[c] = "idle" /\ salts < MaxSalt
  /\ memory[c] # NoWrap /\ ProfileOpens
  /\ salts' = salts + 1
  /\ Send(c, "daemonPassword", Rewrap(memory[c].root, profile.keyVersion))
  /\ UNCHANGED <<serverVars, memory>>

\* Dashboard: recoverProfile opens the recovery wrap and sets a new password.
SendRecover(c) ==
  /\ stage[c] = "idle" /\ salts < MaxSalt
  /\ Opens(profile.recoveryWrappedRootKey, profile.keyVersion, 0)
  /\ salts' = salts + 1
  /\ Send(c, "password", Rewrap(profile.recoveryWrappedRootKey.root, profile.keyVersion))
  /\ UNCHANGED <<serverVars, memory>>

\* The UPDATE matches the row by id alone.
ChangeProfilePassword(c) ==
  /\ stage[c] \in {"password", "daemonPassword"}
  /\ profile' = [profile EXCEPT !.wrappedRootKey = req[c].wrap,
                                !.kdfSalt = req[c].wrap.salt]
  /\ IF stage[c] = "password"
       THEN Goto(c, "recovery") /\ UNCHANGED <<lock, req, tx>>
       ELSE Finish(c)
  /\ UNCHANGED <<item, memory, salts, installed>>

SetupProfileRecovery(c) ==
  /\ stage[c] = "recovery"
  /\ profile' = [profile EXCEPT !.recoveryWrappedRootKey = req[c].recovery]
  /\ Finish(c)
  /\ UNCHANGED <<item, memory, salts, installed>>

-----------------------------------------------------------------------------
(* items.create, items.update, items.delete *)


\* encryptItem: a fresh DEK, wrapped by the root key in the client's memory,
\* and the content bound to the version the row will take.
Encrypt(c, contentVersion) ==
  LET dek == [by |-> c, version |-> contentVersion] IN
  [NoRequest EXCEPT
     !.key = [root |-> memory[c].root, dek |-> dek],
     !.ciphertext = [dek |-> dek, contentVersion |-> contentVersion]]

\* expectedKeyVersion is optional: 0 when the caller leaves it out.
SendCreate(c, i) ==
  /\ stage[c] = "idle" /\ memory[c] # NoWrap
  /\ item[i].state = "absent"
  /\ \E expected \in {0, memory[c].keyVersion} :
       Send(c, "create", [Encrypt(c, 1) EXCEPT !.item = i,
                                               !.expectedKeyVersion = expected])
  /\ UNCHANGED <<serverVars, memory, salts>>

LockForCreate(c) ==
  /\ stage[c] = "create"
  /\ AdvisoryLock(c)
  /\ Goto(c, "createLocked")
  /\ UNCHANGED <<profile, item, memory, req, tx, salts, installed>>

\* Under the lock: re-read keyVersion, CAS on expectedKeyVersion, INSERT.
\* A taken id is ITEM_ALREADY_EXISTS.
InsertZeroKnowledgeItem(c) ==
  /\ stage[c] = "createLocked"
  /\ LET i == req[c].item
         admitted == /\ req[c].expectedKeyVersion \in {0, profile.keyVersion}
                     /\ item[i].state = "absent"
     IN IF admitted
          THEN item' = [item EXCEPT ![i] =
                 [state |-> "live", encryptedItemKey |-> req[c].key,
                  ciphertext |-> req[c].ciphertext, contentVersion |-> 1,
                  cryptoVersion |-> profile.keyVersion]]
          ELSE UNCHANGED item
  /\ Finish(c)
  /\ UNCHANGED <<profile, memory, salts, installed>>

\* The client edits version cv of the item and binds cv + 1.
SendUpdate(c, i) ==
  /\ stage[c] = "idle" /\ memory[c] # NoWrap
  /\ Live(i) /\ item[i].contentVersion < MaxContent
  /\ LET cv == item[i].contentVersion IN
     Send(c, "update", [Encrypt(c, cv + 1) EXCEPT !.item = i, !.contentVersion = cv])
  /\ UNCHANGED <<serverVars, memory, salts>>

\* loadOwnedItem: a soft-deleted row is ITEM_NOT_FOUND.
LoadForUpdate(c) ==
  /\ stage[c] = "update"
  /\ IF req[c].item \in LiveItems
       THEN /\ tx' = [tx EXCEPT ![c] =
                 [NoSnapshot EXCEPT !.contentVersion = item[req[c].item].contentVersion]]
            /\ Goto(c, "updateLoaded")
            /\ UNCHANGED <<lock, req>>
       ELSE Finish(c)
  /\ UNCHANGED <<profile, item, memory, salts, installed>>

\* Mutant: the UPDATE matches the row by id alone.
VersionUnchecked(c) == TRUE

\* The row is still at the version the client edited (STALE_VERSION otherwise).
VersionMatches(c) == item[req[c].item].contentVersion = req[c].contentVersion

\* UPDATE ... WHERE content_version = input; the new version is the one loaded
\* plus one; cryptoVersion is left alone and deletedAt is not consulted.
UpdateItem(c) ==
  /\ stage[c] = "updateLoaded"
  /\ IF VersionMatches(c)
       THEN item' = [item EXCEPT
              ![req[c].item].encryptedItemKey = req[c].key,
              ![req[c].item].ciphertext = req[c].ciphertext,
              ![req[c].item].contentVersion = tx[c].contentVersion + 1]
       ELSE UNCHANGED item
  /\ Finish(c)
  /\ UNCHANGED <<profile, memory, salts, installed>>

\* Soft delete; the row stays.
DeleteItem(i) ==
  /\ Live(i)
  /\ item' = [item EXCEPT ![i].state = "deleted"]
  /\ UNCHANGED <<profile, lock, memory, req, tx, stage, salts, installed>>

-----------------------------------------------------------------------------
(* profiles.rotateKey *)

\* The client unwraps the DEK of every item it lists with the root key it
\* holds (rekeyItem throws on any other), wraps them under a fresh root, and
\* wraps that root for the key version it read plus one under the KEK of the
\* salt it read.  The recovery wrap is optional.
SendRotate(c) ==
  /\ stage[c] = "idle" /\ memory[c] # NoWrap
  /\ profile.keyVersion < MaxKeyVersion
  /\ \A i \in LiveItems : item[i].encryptedItemKey.root = memory[c].root
  /\ LET next == profile.keyVersion + 1
         root == [by |-> c, version |-> next]
     IN \E recovery \in {NoWrap, [root |-> root, keyVersion |-> next, salt |-> 0]} :
          Send(c, "rotate",
            [NoRequest EXCEPT
               !.wrap = [root |-> root, keyVersion |-> next, salt |-> profile.kdfSalt],
               !.recovery = recovery,
               !.rekeyed = [i \in Items |->
                  IF Live(i) THEN [root |-> root, dek |-> item[i].encryptedItemKey.dek]
                             ELSE NoKey]])
  /\ UNCHANGED <<serverVars, memory, salts>>

LockForRotate(c) ==
  /\ stage[c] = "rotate"
  /\ AdvisoryLock(c)
  /\ Goto(c, "rotateLocked")
  /\ UNCHANGED <<profile, item, memory, req, tx, salts, installed>>

\* Re-read keyVersion and the recovery wrap under the lock.
ReadLocked(c) ==
  /\ stage[c] = "rotateLocked"
  /\ tx' = [tx EXCEPT ![c] =
       [NoSnapshot EXCEPT !.keyVersion = profile.keyVersion,
                          !.recovery = profile.recoveryWrappedRootKey]]
  /\ Goto(c, "rotateRead")
  /\ UNCHANGED <<profile, item, lock, memory, req, salts, installed>>

Provided(c) == {i \in Items : req[c].rekeyed[i] # NoKey}

\* Mutant: the rotation trusts the client's list of items.
CoveredUnchecked(c) == TRUE

Covered(c) == LiveItems \subseteq Provided(c)

\* The coverage check: ROTATE_KEY_INCOMPLETE when a live item is missing.
CheckCoverage(c) ==
  /\ stage[c] = "rotateRead"
  /\ IF Covered(c)
       THEN Goto(c, "rotateChecked") /\ UNCHANGED <<lock, req, tx>>
       ELSE Finish(c)
  /\ UNCHANGED <<profile, item, memory, salts, installed>>

NextKeyVersion(c) == tx[c].keyVersion + 1

\* CAS on keyVersion, then the profile and every provided item in one commit.
RotateProfileKey(c) ==
  /\ stage[c] = "rotateChecked"
  /\ IF profile.keyVersion = tx[c].keyVersion
       THEN /\ profile' = [profile EXCEPT
                 !.wrappedRootKey = req[c].wrap,
                 !.recoveryWrappedRootKey =
                    IF req[c].recovery # NoWrap THEN req[c].recovery ELSE tx[c].recovery,
                 !.keyVersion = NextKeyVersion(c)]
            /\ item' = [i \in Items |->
                 IF i \in Provided(c)
                   THEN [item[i] EXCEPT !.encryptedItemKey = req[c].rekeyed[i],
                                        !.cryptoVersion = NextKeyVersion(c)]
                   ELSE item[i]]
            /\ installed' = req[c].wrap.root
       ELSE UNCHANGED <<profile, item, installed>>
  /\ Finish(c)
  /\ UNCHANGED <<memory, salts>>

-----------------------------------------------------------------------------

ClientStep(c) ==
  \/ Unlock(c) \/ Lock(c) \/ SendBootstrap(c)
  \/ ReadRootForPassword(c) \/ SendPassword(c) \/ SendDaemonPassword(c)
  \/ SendRecover(c) \/ SendRotate(c) \/ Abort(c)
  \/ \E i \in Items : SendCreate(c, i) \/ SendUpdate(c, i)

ServerStep(c) ==
  \/ BootstrapProfile(c) \/ ChangeProfilePassword(c) \/ SetupProfileRecovery(c)
  \/ LockForCreate(c) \/ InsertZeroKnowledgeItem(c)
  \/ LoadForUpdate(c) \/ UpdateItem(c)
  \/ LockForRotate(c) \/ ReadLocked(c) \/ CheckCoverage(c) \/ RotateProfileKey(c)

Next ==
  \/ \E c \in Clients : ClientStep(c) \/ ServerStep(c)
  \/ \E i \in Items : DeleteItem(i)

Spec == Init /\ [][Next]_vars

-----------------------------------------------------------------------------
(* Properties *)

\* No item is left behind by a rotation: every live item carries the
\* cryptoVersion of the profile's current keyVersion, although creates,
\* deletes and rotations of several clients overlap (profiles.ts, the advisory
\* lock of rotateProfileKey and insertZeroKnowledgeItem).
LiveItemsAtKeyVersion ==
  \A i \in LiveItems : item[i].cryptoVersion = profile.keyVersion

\* What a rotation read and checked under the advisory lock is still true when
\* it writes: the lock has one holder, the key version cannot have moved and no
\* live item can have appeared since the coverage check (profiles.ts, "TOCTOU").
Checked(c) ==
  /\ stage[c] \in Holding <=> lock = c
  /\ stage[c] \in {"rotateRead", "rotateChecked"} => tx[c].keyVersion = profile.keyVersion
  /\ stage[c] = "rotateChecked" => LiveItems \subseteq Provided(c)
CheckedUnderLock == \A c \in Clients : Checked(c)

\* The version a client bound into a ciphertext is the version of the row it
\* was stored in, although the client guessed it before the server loaded the
\* row (items.ts updateItem; crypto-client.ts binds contentVersion + 1).
ContentBoundToRow ==
  \A i \in Items : item[i].state # "absent" =>
    item[i].ciphertext.contentVersion = item[i].contentVersion

\* An update replaces exactly the version its author edited: no edit is lost
\* under two concurrent items.update.
NoLostUpdate ==
  [][\A i \in Items :
       item[i].state # "absent" /\ item'[i].ciphertext # item[i].ciphertext =>
         /\ item'[i].contentVersion = item[i].contentVersion + 1
         /\ \E c \in Clients :
              /\ req[c].item = i
              /\ req[c].contentVersion = item[i].contentVersion
              /\ item'[i].ciphertext = req[c].ciphertext]_vars

\* A root key in use is only ever replaced by a rotation that takes the next
\* key version: neither a second bootstrap nor a second rotation at the same
\* version overwrites it.
RootReplacedOncePerVersion ==
  [][installed # NoSecret /\ installed' # installed =>
       profile'.keyVersion = profile.keyVersion + 1]_vars

\* When a rotation commits, no live item stays under an older root, whatever
\* was created, updated or deleted since its client listed the items.
RotationRewrapsLiveItems ==
  [][profile'.keyVersion # profile.keyVersion =>
       \A i \in Items : item'[i].state = "live" =>
         item'[i].encryptedItemKey.root = profile'.wrappedRootKey.root]_vars

\* profiles.ts says of a password change that overlaps a rotation that "the
\* mismatch then fails loudly on the next unlock rather than silently": a wrap
\* that opens holds the root the items were rekeyed to.
MismatchFailsLoudly ==
  ProfileOpens => profile.wrappedRootKey.root = installed

\* THREAT_MODEL.md: rotation rewraps DEKs and leaves content alone, so the
\* DEK beside a live item's content is the one that opens it.
DekOpensContent ==
  \A i \in LiveItems : item[i].encryptedItemKey.dek = item[i].ciphertext.dek
=============================================================================
