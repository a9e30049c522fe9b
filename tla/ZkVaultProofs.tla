--------------------------- MODULE ZkVaultProofs ---------------------------
(***************************************************************************)
(* Proofs about ZkVault for any number of clients, items, key versions and *)
(* content versions.                                                       *)
(*                                                                         *)
(* IInv is the inductive invariant.  LiveItemsAtKeyVersion is not          *)
(* inductive: that a rotation leaves no item behind depends on the         *)
(* coverage it checked still holding when it writes (CheckedUnderLock),    *)
(* and ContentBoundToRow depends on what the request in flight was built   *)
(* from (Requests).                                                        *)
(*                                                                         *)
(* The second half is about ServerProfile, which the run of ZkVault checks *)
(* beside it: its inductive invariant is StorageInv.                       *)
(***************************************************************************)
EXTENDS VaultAndStorage, TLAPS

\* A request in flight carries what its client put there: an item for a create
\* or an update, a ciphertext bound to the version after the one edited, which
\* the row has reached; a wrap; and item keys under the root it installs.
Bootstrapping == {"bootstrap", "password", "daemonPassword"}
Rotating == {"rotate", "rotateLocked", "rotateRead", "rotateChecked"}

RequestOf(c) ==
  /\ stage[c] \in {"create", "createLocked", "update", "updateLoaded"} =>
       req[c].item \in Items
  /\ stage[c] \in {"create", "createLocked"} => req[c].ciphertext.contentVersion = 1
  /\ stage[c] \in {"update", "updateLoaded"} =>
       /\ item[req[c].item].state # "absent"
       /\ req[c].ciphertext.contentVersion = req[c].contentVersion + 1
       /\ req[c].contentVersion <= item[req[c].item].contentVersion
  /\ stage[c] = "updateLoaded" =>
       /\ req[c].contentVersion <= tx[c].contentVersion
       /\ tx[c].contentVersion <= item[req[c].item].contentVersion
  /\ stage[c] \in Bootstrapping \cup Rotating => req[c].wrap # NoWrap
  /\ stage[c] \in Rotating =>
       \A i \in Provided(c) : req[c].rekeyed[i].root = req[c].wrap.root
Requests == \A c \in Clients : RequestOf(c)

\* A root was installed only in a profile that has a wrapped root key.
Installed == installed # NoSecret => profile.wrappedRootKey # NoWrap

IInv ==
  /\ TypeOK
  /\ CheckedUnderLock
  /\ Requests
  /\ Installed
  /\ LiveItemsAtKeyVersion
  /\ ContentBoundToRow

-----------------------------------------------------------------------------
(* Types *)

\* The constants of the model's records belong to the types it gives them.
LEMMA Empties ==
  /\ NoSecret \in Secret /\ NoWrap \in Wrap /\ NoKey \in ItemKey
  /\ NoCiphertext \in Ciphertext /\ NoRequest \in Request
  /\ NoSnapshot \in Snapshot
BY DEF NoSecret, Secret, NoWrap, Wrap, NoKey, ItemKey, NoCiphertext, Ciphertext,
       NoRequest, Request, NoSnapshot, Snapshot

\* A handler that answers leaves its transaction and the lock well typed.
LEMMA FinishType ==
  ASSUME NEW c \in Clients, Finish(c),
         stage \in [Clients -> Stages], req \in [Clients -> Request],
         tx \in [Clients -> Snapshot], lock \in Clients \cup {NoClient}
  PROVE  /\ stage' \in [Clients -> Stages] /\ req' \in [Clients -> Request]
         /\ tx' \in [Clients -> Snapshot] /\ lock' \in Clients \cup {NoClient}
BY Empties DEF Finish, Goto, Stages

\* A request whose parts are well typed is well typed once sent.
LEMMA SendType ==
  ASSUME NEW c \in Clients, NEW s \in Stages, NEW r \in Request, Send(c, s, r),
         stage \in [Clients -> Stages], req \in [Clients -> Request]
  PROVE  stage' \in [Clients -> Stages] /\ req' \in [Clients -> Request]
BY DEF Send, Goto

\* The re-wrap of a root key is a request.
LEMMA RewrapType ==
  ASSUME NEW root \in Secret, NEW kv \in Nat, salts \in Nat
  PROVE  /\ Rewrap(root, kv) \in Request
         /\ Rewrap(root, kv).wrap # NoWrap
<1>1. [root |-> root, keyVersion |-> kv, salt |-> salts + 1] \in Wrap
  BY DEF Wrap
<1>2. [root |-> root, keyVersion |-> kv, salt |-> 0] \in Wrap
  BY DEF Wrap
<1>3. [root |-> root, keyVersion |-> kv, salt |-> salts + 1] # NoWrap
  BY DEF NoWrap
<1>. QED  BY <1>1, <1>2, <1>3, Empties DEF Rewrap, NoRequest, Request

\* An encrypted item is a request about no item yet.
LEMMA EncryptType ==
  ASSUME NEW c \in Clients, NEW cv \in Nat, memory \in [Clients -> Wrap]
  PROVE  /\ Encrypt(c, cv) \in Request
         /\ Encrypt(c, cv).ciphertext.contentVersion = cv
<1>1. [by |-> c, version |-> cv] \in Secret
  BY DEF Secret
<1>2. memory[c].root \in Secret
  BY DEF Wrap
<1>. QED  BY <1>1, <1>2, Empties DEF Encrypt, NoRequest, Request, ItemKey, Ciphertext

\* Every action keeps every variable in its type.
LEMMA TypeStep == TypeOK /\ [Next]_vars => TypeOK'
<1>. SUFFICES ASSUME TypeOK, [Next]_vars PROVE TypeOK'
  OBVIOUS
<1>. USE DEF TypeOK
<1>s. Stages = Holding \cup
        {"idle", "bootstrap", "password", "passwordRoot", "daemonPassword", "recovery",
         "create", "update", "updateLoaded", "rotate"}
  BY DEF Stages
<1>1. ASSUME NEW c \in Clients, Unlock(c) PROVE TypeOK'
  BY <1>1 DEF Unlock
<1>2. ASSUME NEW c \in Clients, Lock(c) PROVE TypeOK'
  BY <1>2, Empties DEF Lock
<1>3. ASSUME NEW c \in Clients, Abort(c) PROVE TypeOK'
  BY <1>3, FinishType DEF Abort
<1>4. ASSUME NEW c \in Clients, SendBootstrap(c) PROVE TypeOK'
  <2>. DEFINE root == [by |-> c, version |-> 1]
              wrap == [root |-> root, keyVersion |-> 1, salt |-> 1]
              recovery == [root |-> root, keyVersion |-> 1, salt |-> 0]
              r == [NoRequest EXCEPT !.wrap = wrap, !.recovery = recovery]
  <2>1. wrap \in Wrap /\ recovery \in Wrap
    BY DEF Wrap, Secret
  <2>2. r \in Request
    BY <2>1, Empties DEF Request, NoRequest
  <2>3. Send(c, "bootstrap", r)
    BY <1>4 DEF SendBootstrap
  <2>4. stage' \in [Clients -> Stages] /\ req' \in [Clients -> Request]
    BY <2>2, <2>3, SendType DEF Stages
  <2>. QED  BY <1>4, <2>4 DEF SendBootstrap, serverVars
<1>5. ASSUME NEW c \in Clients, BootstrapProfile(c) PROVE TypeOK'
  <2>1. req[c] \in Request /\ req[c].wrap \in Wrap
    BY DEF Request
  <2>2. CASE profile.wrappedRootKey = NoWrap
    BY <1>5, <2>1, <2>2 DEF BootstrapProfile, Unbootstrapped, Goto, Stages, Wrap
  <2>3. CASE profile.wrappedRootKey # NoWrap
    BY <1>5, <2>3, FinishType DEF BootstrapProfile, Unbootstrapped
  <2>. QED  BY <2>2, <2>3
<1>6. ASSUME NEW c \in Clients, ReadRootForPassword(c) PROVE TypeOK'
  <2>1. [NoRequest EXCEPT !.wrap = profile.wrappedRootKey] \in Request
    BY Empties DEF Request
  <2>2. Send(c, "passwordRoot", [NoRequest EXCEPT !.wrap = profile.wrappedRootKey])
    BY <1>6 DEF ReadRootForPassword
  <2>3. stage' \in [Clients -> Stages] /\ req' \in [Clients -> Request]
    BY <2>1, <2>2, SendType DEF Stages
  <2>. QED  BY <1>6, <2>3 DEF ReadRootForPassword, serverVars
<1>7. ASSUME NEW c \in Clients, SendPassword(c) PROVE TypeOK'
  <2>1. req[c].wrap.root \in Secret
    BY DEF Request, Wrap
  <2>2. Rewrap(req[c].wrap.root, profile.keyVersion) \in Request
    BY <2>1, RewrapType
  <2>3. Send(c, "password", Rewrap(req[c].wrap.root, profile.keyVersion))
    BY <1>7 DEF SendPassword
  <2>4. stage' \in [Clients -> Stages] /\ req' \in [Clients -> Request]
    BY <2>2, <2>3, SendType DEF Stages
  <2>. QED  BY <1>7, <2>4 DEF SendPassword, serverVars
<1>8. ASSUME NEW c \in Clients, SendDaemonPassword(c) PROVE TypeOK'
  <2>1. memory[c].root \in Secret
    BY DEF Wrap
  <2>2. Rewrap(memory[c].root, profile.keyVersion) \in Request
    BY <2>1, RewrapType
  <2>3. Send(c, "daemonPassword", Rewrap(memory[c].root, profile.keyVersion))
    BY <1>8 DEF SendDaemonPassword
  <2>4. stage' \in [Clients -> Stages] /\ req' \in [Clients -> Request]
    BY <2>2, <2>3, SendType DEF Stages
  <2>. QED  BY <1>8, <2>4 DEF SendDaemonPassword, serverVars
<1>9. ASSUME NEW c \in Clients, SendRecover(c) PROVE TypeOK'
  <2>1. profile.recoveryWrappedRootKey.root \in Secret
    BY DEF Wrap
  <2>2. Rewrap(profile.recoveryWrappedRootKey.root, profile.keyVersion) \in Request
    BY <2>1, RewrapType
  <2>3. Send(c, "password", Rewrap(profile.recoveryWrappedRootKey.root, profile.keyVersion))
    BY <1>9 DEF SendRecover
  <2>4. stage' \in [Clients -> Stages] /\ req' \in [Clients -> Request]
    BY <2>2, <2>3, SendType DEF Stages
  <2>. QED  BY <1>9, <2>4 DEF SendRecover, serverVars
<1>10. ASSUME NEW c \in Clients, ChangeProfilePassword(c) PROVE TypeOK'
  <2>1. req[c].wrap \in Wrap /\ req[c].wrap.salt \in Nat
    BY DEF Request, Wrap
  <2>2. CASE stage[c] = "password"
    BY <1>10, <2>1, <2>2 DEF ChangeProfilePassword, Goto, Stages
  <2>3. CASE stage[c] # "password"
    BY <1>10, <2>1, <2>3, FinishType DEF ChangeProfilePassword
  <2>. QED  BY <2>2, <2>3
<1>11. ASSUME NEW c \in Clients, SetupProfileRecovery(c) PROVE TypeOK'
  <2>1. req[c].recovery \in Wrap
    BY DEF Request
  <2>. QED  BY <1>11, <2>1, FinishType DEF SetupProfileRecovery
<1>12. ASSUME NEW c \in Clients, NEW i \in Items, SendCreate(c, i) PROVE TypeOK'
  <2>1. PICK e \in {0, memory[c].keyVersion} :
          Send(c, "create", [Encrypt(c, 1) EXCEPT !.item = i, !.expectedKeyVersion = e])
    BY <1>12 DEF SendCreate
  <2>2. e \in Nat
    BY DEF Wrap
  <2>3. [Encrypt(c, 1) EXCEPT !.item = i, !.expectedKeyVersion = e] \in Request
    <3>1. Encrypt(c, 1) \in Request
      BY EncryptType
    <3>. QED  BY <2>2, <3>1 DEF Request
  <2>4. stage' \in [Clients -> Stages] /\ req' \in [Clients -> Request]
    BY <2>1, <2>3, SendType DEF Stages
  <2>. QED  BY <1>12, <2>4 DEF SendCreate, serverVars
<1>13. ASSUME NEW c \in Clients, LockForCreate(c) PROVE TypeOK'
  BY <1>13 DEF LockForCreate, AdvisoryLock, Goto, Stages, Holding
<1>14. ASSUME NEW c \in Clients, InsertZeroKnowledgeItem(c) PROVE TypeOK'
  <2>1. req[c].key \in ItemKey /\ req[c].ciphertext \in Ciphertext
    BY DEF Request
  <2>. QED  BY <1>14, <2>1, FinishType DEF InsertZeroKnowledgeItem
<1>15. ASSUME NEW c \in Clients, NEW i \in Items, SendUpdate(c, i) PROVE TypeOK'
  <2>. DEFINE cv == item[i].contentVersion
              r == [Encrypt(c, cv + 1) EXCEPT !.item = i, !.contentVersion = cv]
  <2>1. r \in Request
    <3>1. cv \in Nat /\ Encrypt(c, cv + 1) \in Request
      BY EncryptType
    <3>. QED  BY <3>1 DEF Request
  <2>2. Send(c, "update", r)
    BY <1>15 DEF SendUpdate
  <2>3. stage' \in [Clients -> Stages] /\ req' \in [Clients -> Request]
    BY <2>1, <2>2, SendType DEF Stages
  <2>. QED  BY <1>15, <2>3 DEF SendUpdate, serverVars
<1>16. ASSUME NEW c \in Clients, LoadForUpdate(c) PROVE TypeOK'
  <2>1. CASE req[c].item \in LiveItems
    <3>1. item[req[c].item].contentVersion \in Nat
      BY <2>1 DEF LiveItems
    <3>2. [NoSnapshot EXCEPT !.contentVersion = item[req[c].item].contentVersion]
            \in Snapshot
      BY <3>1, Empties DEF Snapshot
    <3>. QED  BY <1>16, <2>1, <3>2 DEF LoadForUpdate, Goto, Stages
  <2>2. CASE req[c].item \notin LiveItems
    BY <1>16, <2>2, FinishType DEF LoadForUpdate
  <2>. QED  BY <2>1, <2>2
<1>17. ASSUME NEW c \in Clients, UpdateItem(c) PROVE TypeOK'
  <2>1. req[c].key \in ItemKey /\ req[c].ciphertext \in Ciphertext
    BY DEF Request
  <2>2. tx[c].contentVersion \in Nat
    BY DEF Snapshot
  <2>. QED  BY <1>17, <2>1, <2>2, FinishType DEF UpdateItem
<1>18. ASSUME NEW i \in Items, DeleteItem(i) PROVE TypeOK'
  BY <1>18 DEF DeleteItem
<1>19. ASSUME NEW c \in Clients, SendRotate(c) PROVE TypeOK'
  <2>. DEFINE next == profile.keyVersion + 1
              root == [by |-> c, version |-> next]
              wrap == [root |-> root, keyVersion |-> next, salt |-> profile.kdfSalt]
              r(recovery) ==
                [NoRequest EXCEPT
                   !.wrap = wrap, !.recovery = recovery,
                   !.rekeyed = [i \in Items |->
                      IF Live(i) THEN [root |-> root, dek |-> item[i].encryptedItemKey.dek]
                                 ELSE NoKey]]
  <2>1. PICK recovery \in {NoWrap, [root |-> root, keyVersion |-> next, salt |-> 0]} :
          Send(c, "rotate", r(recovery))
    BY <1>19 DEF SendRotate
  <2>2. root \in Secret
    BY DEF Secret
  <2>3. wrap \in Wrap /\ recovery \in Wrap
    BY <2>2, Empties DEF Wrap
  <2>4. \A i \in Items : [root |-> root, dek |-> item[i].encryptedItemKey.dek] \in ItemKey
    BY <2>2 DEF ItemKey
  <2>5. r(recovery) \in Request
    BY <2>3, <2>4, Empties DEF Request
  <2>6. stage' \in [Clients -> Stages] /\ req' \in [Clients -> Request]
    BY <2>1, <2>5, SendType DEF Stages
  <2>. QED  BY <1>19, <2>6 DEF SendRotate, serverVars
<1>20. ASSUME NEW c \in Clients, LockForRotate(c) PROVE TypeOK'
  BY <1>20 DEF LockForRotate, AdvisoryLock, Goto, Stages, Holding
<1>21. ASSUME NEW c \in Clients, ReadLocked(c) PROVE TypeOK'
  <2>1. [NoSnapshot EXCEPT !.keyVersion = profile.keyVersion,
                           !.recovery = profile.recoveryWrappedRootKey] \in Snapshot
    BY Empties DEF Snapshot
  <2>. QED  BY <1>21, <2>1 DEF ReadLocked, Goto, Stages, Holding
<1>22. ASSUME NEW c \in Clients, CheckCoverage(c) PROVE TypeOK'
  <2>1. CASE LiveItems \subseteq Provided(c)
    BY <1>22, <2>1 DEF CheckCoverage, Covered, Goto, Stages, Holding
  <2>2. CASE ~(LiveItems \subseteq Provided(c))
    BY <1>22, <2>2, FinishType DEF CheckCoverage, Covered
  <2>. QED  BY <2>1, <2>2
<1>23. ASSUME NEW c \in Clients, RotateProfileKey(c) PROVE TypeOK'
  <2>1. /\ req[c].wrap \in Wrap /\ req[c].recovery \in Wrap
        /\ req[c].wrap.root \in Secret
        /\ \A i \in Items : req[c].rekeyed[i] \in ItemKey
    BY DEF Request, Wrap
  <2>2. tx[c].recovery \in Wrap /\ NextKeyVersion(c) \in Nat
    BY DEF Snapshot, NextKeyVersion
  <2>3. CASE profile.keyVersion = tx[c].keyVersion
    <3>1. profile' \in [wrappedRootKey : Wrap, recoveryWrappedRootKey : Wrap,
                        keyVersion : Nat, kdfSalt : Nat]
      BY <1>23, <2>1, <2>2, <2>3 DEF RotateProfileKey
    <3>2. item' \in [Items -> [state : {"absent", "live", "deleted"},
                               encryptedItemKey : ItemKey, ciphertext : Ciphertext,
                               contentVersion : Nat, cryptoVersion : Nat]]
      <4>1. item' = [i \in Items |->
               IF i \in Provided(c)
                 THEN [item[i] EXCEPT !.encryptedItemKey = req[c].rekeyed[i],
                                      !.cryptoVersion = NextKeyVersion(c)]
                 ELSE item[i]]
        BY <1>23, <2>3 DEF RotateProfileKey
      <4>2. ASSUME NEW i \in Items
            PROVE  item'[i] \in [state : {"absent", "live", "deleted"},
                                 encryptedItemKey : ItemKey, ciphertext : Ciphertext,
                                 contentVersion : Nat, cryptoVersion : Nat]
        BY <2>1, <2>2, <4>1
      <4>. QED  BY <4>1, <4>2
    <3>. QED  BY <1>23, <2>1, <2>3, <3>1, <3>2, FinishType DEF RotateProfileKey
  <2>4. CASE profile.keyVersion # tx[c].keyVersion
    BY <1>23, <2>4, FinishType DEF RotateProfileKey
  <2>. QED  BY <2>3, <2>4
<1>24. CASE UNCHANGED vars
  BY <1>24 DEF vars
<1>. QED
  BY <1>1, <1>2, <1>3, <1>4, <1>5, <1>6, <1>7, <1>8, <1>9, <1>10, <1>11, <1>12,
     <1>13, <1>14, <1>15, <1>16, <1>17, <1>18, <1>19, <1>20, <1>21, <1>22, <1>23,
     <1>24 DEF Next, ClientStep, ServerStep

-----------------------------------------------------------------------------
(* What each way of moving a handler does to the other handlers *)

\* A handler that ends goes idle, lets go of the lock if it held it, and moves
\* no other handler.
LEMMA FinishEffect ==
  ASSUME TypeOK, NEW c \in Clients, Finish(c)
  PROVE  /\ stage'[c] = "idle"
         /\ \A d \in Clients \ {c} :
              stage'[d] = stage[d] /\ req'[d] = req[d] /\ tx'[d] = tx[d]
         /\ \A d \in Clients \ {c} : lock' = d <=> lock = d
         /\ lock' # c
BY ZkConstants DEF Finish, Goto, TypeOK

\* A request sent by one client moves that client's handler alone.
LEMMA SendEffect ==
  ASSUME TypeOK, NEW c \in Clients, NEW s, NEW r, Send(c, s, r)
  PROVE  /\ stage'[c] = s /\ req'[c] = r
         /\ \A d \in Clients \ {c} : stage'[d] = stage[d] /\ req'[d] = req[d]
BY DEF Send, Goto, TypeOK

\* A handler that goes on to its next statement moves no other handler.
LEMMA GotoEffect ==
  ASSUME TypeOK, NEW c \in Clients, NEW s, Goto(c, s)
  PROVE  /\ stage'[c] = s
         /\ \A d \in Clients \ {c} : stage'[d] = stage[d]
BY DEF Goto, TypeOK

\* The rows a coverage check reads and the version it is made for.
SameRows == profile'.keyVersion = profile.keyVersion /\ LiveItems' \subseteq LiveItems

\* A handler that ends without moving the key version or adding a live item
\* leaves what the others checked true.
LEMMA CheckedFinish ==
  ASSUME TypeOK, CheckedUnderLock, NEW c \in Clients, Finish(c), SameRows
  PROVE  CheckedUnderLock'
<1>. SUFFICES ASSUME NEW d \in Clients PROVE Checked(d)'
  BY DEF CheckedUnderLock
<1>1. CASE d = c
  BY <1>1, FinishEffect DEF Checked, Holding
<1>2. CASE d # c
  BY <1>2, FinishEffect DEF Checked, CheckedUnderLock, Holding, SameRows, Provided
<1>. QED  BY <1>1, <1>2

\* Sending a request takes no lock.
LEMMA CheckedSend ==
  ASSUME TypeOK, CheckedUnderLock, NEW c \in Clients, NEW s, NEW r, Send(c, s, r),
         s \notin Holding, stage[c] \notin Holding,
         UNCHANGED <<profile, item, lock, tx>>
  PROVE  CheckedUnderLock'
<1>. SUFFICES ASSUME NEW d \in Clients PROVE Checked(d)'
  BY DEF CheckedUnderLock
<1>1. CASE d = c
  BY <1>1, SendEffect DEF Checked, CheckedUnderLock, Holding
<1>2. CASE d # c
  BY <1>2, SendEffect DEF Checked, CheckedUnderLock, Holding, Provided, LiveItems, Live
<1>. QED  BY <1>1, <1>2

-----------------------------------------------------------------------------
(* What is checked under the lock stays true until the lock is released *)

\* No statement of any handler disturbs what another handler checked while it
\* holds the advisory lock.
LEMMA CheckedStep ==
  TypeOK /\ CheckedUnderLock /\ [Next]_vars => CheckedUnderLock'
<1>. SUFFICES ASSUME TypeOK, CheckedUnderLock, [Next]_vars PROVE CheckedUnderLock'
  OBVIOUS
<1>. DEFINE Frame == UNCHANGED <<profile, item, lock, req, tx, stage>>
<1>f. ASSUME Frame PROVE CheckedUnderLock'
  BY <1>f DEF CheckedUnderLock, Checked, LiveItems, Live, Provided
<1>1. ASSUME NEW c \in Clients, Unlock(c) \/ Lock(c) PROVE CheckedUnderLock'
  BY <1>1, <1>f DEF Unlock, Lock
<1>2. ASSUME NEW c \in Clients, Abort(c) PROVE CheckedUnderLock'
  BY <1>2, CheckedFinish DEF Abort, SameRows, LiveItems, Live
<1>3. ASSUME NEW c \in Clients, SendBootstrap(c) PROVE CheckedUnderLock'
  BY <1>3, CheckedSend DEF SendBootstrap, serverVars, Holding
<1>4. ASSUME NEW c \in Clients, BootstrapProfile(c) PROVE CheckedUnderLock'
  <2>1. CASE profile.wrappedRootKey = NoWrap
    <3>1. /\ profile'.keyVersion = profile.keyVersion /\ Goto(c, "recovery")
          /\ UNCHANGED <<item, lock, req, tx>> /\ stage[c] \notin Holding
      BY <1>4, <2>1 DEF BootstrapProfile, Unbootstrapped, TypeOK, Holding
    <3>. QED  BY <3>1, GotoEffect
              DEF CheckedUnderLock, Checked, Holding, LiveItems, Live, Provided
  <2>2. CASE profile.wrappedRootKey # NoWrap
    BY <1>4, <2>2, CheckedFinish DEF BootstrapProfile, Unbootstrapped, SameRows, LiveItems, Live
  <2>. QED  BY <2>1, <2>2
<1>5. ASSUME NEW c \in Clients, ReadRootForPassword(c) PROVE CheckedUnderLock'
  BY <1>5, CheckedSend DEF ReadRootForPassword, serverVars, Holding
<1>6. ASSUME NEW c \in Clients, SendPassword(c) PROVE CheckedUnderLock'
  BY <1>6, CheckedSend DEF SendPassword, serverVars, Holding
<1>7. ASSUME NEW c \in Clients, SendDaemonPassword(c) PROVE CheckedUnderLock'
  BY <1>7, CheckedSend DEF SendDaemonPassword, serverVars, Holding
<1>8. ASSUME NEW c \in Clients, SendRecover(c) PROVE CheckedUnderLock'
  BY <1>8, CheckedSend DEF SendRecover, serverVars, Holding
<1>9. ASSUME NEW c \in Clients, ChangeProfilePassword(c) PROVE CheckedUnderLock'
  <2>1. /\ profile'.keyVersion = profile.keyVersion /\ UNCHANGED item
        /\ stage[c] \notin Holding
    BY <1>9 DEF ChangeProfilePassword, TypeOK, Holding
  <2>2. CASE stage[c] = "password"
    BY <1>9, <2>1, <2>2, GotoEffect
    DEF ChangeProfilePassword, CheckedUnderLock, Checked, Holding, LiveItems, Live, Provided
  <2>3. CASE stage[c] # "password"
    BY <1>9, <2>1, <2>3, CheckedFinish
    DEF ChangeProfilePassword, SameRows, LiveItems, Live
  <2>. QED  BY <2>2, <2>3
<1>10. ASSUME NEW c \in Clients, SetupProfileRecovery(c) PROVE CheckedUnderLock'
  BY <1>10, CheckedFinish DEF SetupProfileRecovery, SameRows, LiveItems, Live, TypeOK
<1>11. ASSUME NEW c \in Clients, NEW i \in Items, SendCreate(c, i)
       PROVE  CheckedUnderLock'
  BY <1>11, CheckedSend DEF SendCreate, serverVars, Holding
<1>12. ASSUME NEW c \in Clients, LockForCreate(c) PROVE CheckedUnderLock'
  BY <1>12, GotoEffect, ZkConstants
  DEF LockForCreate, AdvisoryLock, CheckedUnderLock, Checked, Holding, LiveItems,
      Live, Provided
<1>13. ASSUME NEW c \in Clients, InsertZeroKnowledgeItem(c) PROVE CheckedUnderLock'
  <2>1. \A d \in Clients \ {c} : stage[d] \notin Holding
    BY <1>13 DEF InsertZeroKnowledgeItem, CheckedUnderLock, Checked, Holding
  <2>2. Finish(c) /\ UNCHANGED profile
    BY <1>13 DEF InsertZeroKnowledgeItem
  <2>. QED  BY <2>1, <2>2, FinishEffect DEF CheckedUnderLock, Checked, Holding
<1>14. ASSUME NEW c \in Clients, NEW i \in Items, SendUpdate(c, i)
       PROVE  CheckedUnderLock'
  BY <1>14, CheckedSend DEF SendUpdate, serverVars, Holding
<1>15. ASSUME NEW c \in Clients, LoadForUpdate(c) PROVE CheckedUnderLock'
  <2>1. CASE req[c].item \in LiveItems
    <3>1. /\ Goto(c, "updateLoaded") /\ UNCHANGED <<profile, item, lock, req>>
          /\ stage[c] \notin Holding
          /\ \A d \in Clients \ {c} : tx'[d] = tx[d]
      BY <1>15, <2>1 DEF LoadForUpdate, TypeOK, Holding
    <3>. QED  BY <3>1, GotoEffect
              DEF CheckedUnderLock, Checked, Holding, LiveItems, Live, Provided
  <2>2. CASE req[c].item \notin LiveItems
    BY <1>15, <2>2, CheckedFinish DEF LoadForUpdate, SameRows, LiveItems, Live
  <2>. QED  BY <2>1, <2>2
<1>16. ASSUME NEW c \in Clients, UpdateItem(c) PROVE CheckedUnderLock'
  <2>1. LiveItems' \subseteq LiveItems
    BY <1>16 DEF UpdateItem, LiveItems, Live, TypeOK
  <2>. QED  BY <1>16, <2>1, CheckedFinish DEF UpdateItem, SameRows
<1>17. ASSUME NEW i \in Items, DeleteItem(i) PROVE CheckedUnderLock'
  <2>1. LiveItems' \subseteq LiveItems
    BY <1>17 DEF DeleteItem, LiveItems, Live, TypeOK
  <2>. QED  BY <1>17, <2>1 DEF DeleteItem, CheckedUnderLock, Checked, Provided
<1>18. ASSUME NEW c \in Clients, SendRotate(c) PROVE CheckedUnderLock'
  BY <1>18, CheckedSend DEF SendRotate, serverVars, Holding
<1>19. ASSUME NEW c \in Clients, LockForRotate(c) PROVE CheckedUnderLock'
  BY <1>19, GotoEffect, ZkConstants
  DEF LockForRotate, AdvisoryLock, CheckedUnderLock, Checked, Holding, LiveItems,
      Live, Provided
<1>20. ASSUME NEW c \in Clients, ReadLocked(c) PROVE CheckedUnderLock'
  <2>1. /\ Goto(c, "rotateRead") /\ UNCHANGED <<profile, item, lock, req>>
        /\ tx'[c].keyVersion = profile.keyVersion
        /\ stage[c] = "rotateLocked"
        /\ \A d \in Clients \ {c} : tx'[d] = tx[d]
    BY <1>20 DEF ReadLocked, TypeOK, NoSnapshot
  <2>. QED  BY <2>1, GotoEffect
            DEF CheckedUnderLock, Checked, Holding, LiveItems, Live, Provided
<1>21. ASSUME NEW c \in Clients, CheckCoverage(c) PROVE CheckedUnderLock'
  <2>1. CASE LiveItems \subseteq Provided(c)
    BY <1>21, <2>1, GotoEffect
    DEF CheckCoverage, Covered, CheckedUnderLock, Checked, Holding, LiveItems, Live, Provided
  <2>2. CASE ~(LiveItems \subseteq Provided(c))
    BY <1>21, <2>2, CheckedFinish DEF CheckCoverage, Covered, SameRows, LiveItems, Live
  <2>. QED  BY <2>1, <2>2
<1>22. ASSUME NEW c \in Clients, RotateProfileKey(c) PROVE CheckedUnderLock'
  <2>1. \A d \in Clients \ {c} : stage[d] \notin Holding
    BY <1>22 DEF RotateProfileKey, CheckedUnderLock, Checked, Holding
  <2>2. Finish(c)
    BY <1>22 DEF RotateProfileKey
  <2>. QED  BY <2>1, <2>2, FinishEffect DEF CheckedUnderLock, Checked, Holding
<1>23. CASE UNCHANGED vars
  BY <1>23, <1>f DEF vars
<1>. QED
  BY <1>1, <1>2, <1>3, <1>4, <1>5, <1>6, <1>7, <1>8, <1>9, <1>10, <1>11, <1>12,
     <1>13, <1>14, <1>15, <1>16, <1>17, <1>18, <1>19, <1>20, <1>21, <1>22, <1>23
  DEF Next, ClientStep, ServerStep

-----------------------------------------------------------------------------
(* A request in flight stays what its client built *)

\* A row is never removed and its content version never goes back.
RowsGrow ==
  \A i \in Items : item[i].state # "absent" =>
    item'[i].state # "absent" /\ item[i].contentVersion <= item'[i].contentVersion

\* A step that leaves the items alone lets no row go away.
LEMMA RowsUnchanged == ASSUME TypeOK, UNCHANGED item PROVE RowsGrow
BY DEF RowsGrow, TypeOK

\* The request of a handler that does not move is still well formed.
LEMMA RequestKept ==
  ASSUME TypeOK, TypeOK', RowsGrow, NEW d \in Clients, RequestOf(d),
         stage'[d] = stage[d], req'[d] = req[d], tx'[d] = tx[d]
  PROVE  RequestOf(d)'
<1>1. req[d] \in Request /\ tx[d] \in Snapshot
  BY DEF TypeOK
<1>2. req[d].contentVersion \in Nat /\ tx[d].contentVersion \in Nat
  BY <1>1 DEF Request, Snapshot
<1>3. \A i \in Items : item[i].contentVersion \in Nat /\ item'[i].contentVersion \in Nat
  BY DEF TypeOK
<1>. QED  BY <1>2, <1>3 DEF RequestOf, RowsGrow, Provided

\* A handler that ends leaves the other requests well formed.
LEMMA RequestsFinish ==
  ASSUME TypeOK, TypeOK', Requests, RowsGrow, NEW c \in Clients, Finish(c)
  PROVE  Requests'
<1>. SUFFICES ASSUME NEW d \in Clients PROVE RequestOf(d)'
  BY DEF Requests
<1>1. CASE d = c
  BY <1>1, FinishEffect DEF RequestOf, Bootstrapping, Rotating
<1>2. CASE d # c
  BY <1>2, FinishEffect, RequestKept DEF Requests
<1>. QED  BY <1>1, <1>2

\* A well formed request joins the others in flight.
LEMMA RequestsSend ==
  ASSUME TypeOK, TypeOK', Requests, UNCHANGED <<item, tx>>, NEW c \in Clients,
         NEW s, NEW r, Send(c, s, r), RequestOf(c)'
  PROVE  Requests'
<1>. SUFFICES ASSUME NEW d \in Clients PROVE RequestOf(d)'
  BY DEF Requests
<1>1. CASE d = c
  BY <1>1
<1>2. CASE d # c
  BY <1>2, SendEffect, RequestKept, RowsUnchanged DEF Requests
<1>. QED  BY <1>1, <1>2

\* A handler goes on with the request it has.
LEMMA RequestsGoto ==
  ASSUME TypeOK, TypeOK', Requests, UNCHANGED <<item, req>>, NEW c \in Clients,
         NEW s, Goto(c, s), \A d \in Clients \ {c} : tx'[d] = tx[d], RequestOf(c)'
  PROVE  Requests'
<1>. SUFFICES ASSUME NEW d \in Clients PROVE RequestOf(d)'
  BY DEF Requests
<1>1. CASE d = c
  BY <1>1
<1>2. CASE d # c
  BY <1>2, GotoEffect, RequestKept, RowsUnchanged DEF Requests
<1>. QED  BY <1>1, <1>2

\* Every request in flight stays consistent with what its handler read: a
\* client cannot change what it sent, and rows never go back.
LEMMA RequestsStep ==
  TypeOK /\ TypeOK' /\ Requests /\ [Next]_vars => Requests'
<1>. SUFFICES ASSUME TypeOK, TypeOK', Requests, [Next]_vars PROVE Requests'
  OBVIOUS
<1>. USE DEF Bootstrapping, Rotating
<1>f. ASSUME UNCHANGED <<item, req, tx, stage>> PROVE Requests'
  BY <1>f, RequestKept, RowsUnchanged DEF Requests
<1>1. ASSUME NEW c \in Clients, Unlock(c) \/ Lock(c) PROVE Requests'
  BY <1>1, <1>f DEF Unlock, Lock
<1>2. ASSUME NEW c \in Clients, Abort(c) PROVE Requests'
  BY <1>2, RequestsFinish, RowsUnchanged DEF Abort
<1>3. ASSUME NEW c \in Clients, SendBootstrap(c) PROVE Requests'
  <2>. DEFINE root == [by |-> c, version |-> 1]
              r == [NoRequest EXCEPT
                      !.wrap = [root |-> root, keyVersion |-> 1, salt |-> 1],
                      !.recovery = [root |-> root, keyVersion |-> 1, salt |-> 0]]
  <2>1. Send(c, "bootstrap", r) /\ UNCHANGED <<item, tx>>
    BY <1>3 DEF SendBootstrap, serverVars
  <2>2. r.wrap # NoWrap
    BY DEF NoRequest, NoWrap
  <2>. HIDE DEF r
  <2>3. RequestOf(c)'
    BY <2>1, <2>2, SendEffect DEF RequestOf
  <2>. QED  BY <2>1, <2>3, RequestsSend
<1>4. ASSUME NEW c \in Clients, BootstrapProfile(c) PROVE Requests'
  <2>1. CASE profile.wrappedRootKey = NoWrap
    <3>1. Goto(c, "recovery") /\ UNCHANGED <<item, req, tx>>
      BY <1>4, <2>1 DEF BootstrapProfile, Unbootstrapped
    <3>2. RequestOf(c)'
      BY <3>1, GotoEffect DEF RequestOf
    <3>. QED  BY <3>1, <3>2, RequestsGoto
  <2>2. CASE profile.wrappedRootKey # NoWrap
    BY <1>4, <2>2, RequestsFinish, RowsUnchanged DEF BootstrapProfile, Unbootstrapped
  <2>. QED  BY <2>1, <2>2
<1>5. ASSUME NEW c \in Clients, ReadRootForPassword(c) PROVE Requests'
  <2>1. /\ Send(c, "passwordRoot", [NoRequest EXCEPT !.wrap = profile.wrappedRootKey])
        /\ UNCHANGED <<item, tx>>
    BY <1>5 DEF ReadRootForPassword, serverVars
  <2>2. RequestOf(c)'
    BY <2>1, SendEffect DEF RequestOf
  <2>. QED  BY <2>1, <2>2, RequestsSend
<1>6. ASSUME NEW c \in Clients, NEW s \in {"password", "daemonPassword"},
             NEW root \in Secret, Send(c, s, Rewrap(root, profile.keyVersion)),
             UNCHANGED <<item, tx>>
      PROVE  Requests'
  <2>1. Rewrap(root, profile.keyVersion).wrap # NoWrap
    BY RewrapType DEF TypeOK
  <2>2. RequestOf(c)'
    BY <1>6, <2>1, SendEffect DEF RequestOf
  <2>. QED  BY <1>6, <2>2, RequestsSend
<1>7. ASSUME NEW c \in Clients, SendPassword(c) PROVE Requests'
  <2>1. req[c].wrap.root \in Secret
    BY DEF TypeOK, Request, Wrap
  <2>. QED  BY <1>6, <1>7, <2>1 DEF SendPassword, serverVars
<1>8. ASSUME NEW c \in Clients, SendDaemonPassword(c) PROVE Requests'
  <2>1. memory[c].root \in Secret
    BY DEF TypeOK, Wrap
  <2>. QED  BY <1>6, <1>8, <2>1 DEF SendDaemonPassword, serverVars
<1>9. ASSUME NEW c \in Clients, SendRecover(c) PROVE Requests'
  <2>1. profile.recoveryWrappedRootKey.root \in Secret
    BY DEF TypeOK, Wrap
  <2>. QED  BY <1>6, <1>9, <2>1 DEF SendRecover, serverVars
<1>10. ASSUME NEW c \in Clients, ChangeProfilePassword(c) PROVE Requests'
  <2>1. CASE stage[c] = "password"
    <3>1. Goto(c, "recovery") /\ UNCHANGED <<item, req, tx>>
      BY <1>10, <2>1 DEF ChangeProfilePassword
    <3>2. RequestOf(c)'
      BY <3>1, GotoEffect DEF RequestOf
    <3>. QED  BY <3>1, <3>2, RequestsGoto
  <2>2. CASE stage[c] # "password"
    BY <1>10, <2>2, RequestsFinish, RowsUnchanged DEF ChangeProfilePassword
  <2>. QED  BY <2>1, <2>2
<1>11. ASSUME NEW c \in Clients, SetupProfileRecovery(c) PROVE Requests'
  BY <1>11, RequestsFinish, RowsUnchanged DEF SetupProfileRecovery
<1>12. ASSUME NEW c \in Clients, NEW i \in Items, SendCreate(c, i) PROVE Requests'
  <2>. DEFINE r(e) == [Encrypt(c, 1) EXCEPT !.item = i, !.expectedKeyVersion = e]
  <2>1. PICK e \in {0, memory[c].keyVersion} : Send(c, "create", r(e))
    BY <1>12 DEF SendCreate
  <2>2. Encrypt(c, 1) \in Request /\ Encrypt(c, 1).ciphertext.contentVersion = 1
    BY EncryptType DEF TypeOK
  <2>3. r(e).item = i /\ r(e).ciphertext.contentVersion = 1
    BY <2>2 DEF Request
  <2>. HIDE DEF r
  <2>4. RequestOf(c)'
    BY <2>1, <2>3, SendEffect DEF RequestOf
  <2>. QED  BY <1>12, <2>1, <2>4, RequestsSend DEF SendCreate, serverVars
<1>13. ASSUME NEW c \in Clients, LockForCreate(c) PROVE Requests'
  <2>1. Goto(c, "createLocked") /\ UNCHANGED <<item, req, tx>> /\ stage[c] = "create"
    BY <1>13 DEF LockForCreate
  <2>2. RequestOf(c)'
    BY <2>1, GotoEffect DEF RequestOf, Requests
  <2>. QED  BY <2>1, <2>2, RequestsGoto
<1>14. ASSUME NEW c \in Clients, InsertZeroKnowledgeItem(c) PROVE Requests'
  <2>1. RowsGrow
    <3>. SUFFICES ASSUME NEW i \in Items, item[i].state # "absent"
                  PROVE  item'[i] = item[i]
      BY DEF RowsGrow, TypeOK
    <3>. QED  BY <1>14 DEF InsertZeroKnowledgeItem, TypeOK
  <2>. QED  BY <1>14, <2>1, RequestsFinish DEF InsertZeroKnowledgeItem
<1>15. ASSUME NEW c \in Clients, NEW i \in Items, SendUpdate(c, i) PROVE Requests'
  <2>. DEFINE cv == item[i].contentVersion
              r == [Encrypt(c, cv + 1) EXCEPT !.item = i, !.contentVersion = cv]
  <2>1. Send(c, "update", r) /\ Live(i) /\ UNCHANGED <<item, tx>>
    BY <1>15 DEF SendUpdate, serverVars
  <2>2. cv \in Nat
    BY DEF TypeOK
  <2>3. /\ Encrypt(c, cv + 1) \in Request
        /\ Encrypt(c, cv + 1).ciphertext.contentVersion = cv + 1
    BY <2>2, EncryptType DEF TypeOK
  <2>4. r.item = i /\ r.contentVersion = cv /\ r.ciphertext.contentVersion = cv + 1
    BY <2>3 DEF Request
  <2>. HIDE DEF r
  <2>5. RequestOf(c)'
    BY <2>1, <2>2, <2>4, SendEffect DEF RequestOf, Live
  <2>. QED  BY <2>1, <2>5, RequestsSend
<1>16. ASSUME NEW c \in Clients, LoadForUpdate(c) PROVE Requests'
  <2>1. CASE req[c].item \in LiveItems
    <3>1. /\ Goto(c, "updateLoaded") /\ UNCHANGED <<item, req>>
          /\ tx'[c].contentVersion = item[req[c].item].contentVersion
          /\ \A d \in Clients \ {c} : tx'[d] = tx[d]
          /\ stage[c] = "update"
      BY <1>16, <2>1 DEF LoadForUpdate, TypeOK, NoSnapshot
    <3>2. item[req[c].item].contentVersion \in Nat
      BY <2>1 DEF LiveItems, TypeOK
    <3>3. RequestOf(c)'
      BY <3>1, <3>2, GotoEffect DEF RequestOf, Requests
    <3>. QED  BY <3>1, <3>3, RequestsGoto
  <2>2. CASE req[c].item \notin LiveItems
    BY <1>16, <2>2, RequestsFinish, RowsUnchanged DEF LoadForUpdate
  <2>. QED  BY <2>1, <2>2
<1>17. ASSUME NEW c \in Clients, UpdateItem(c) PROVE Requests'
  <2>1. RowsGrow
    <3>1. tx[c].contentVersion \in Nat /\ req[c].contentVersion \in Nat
      BY DEF TypeOK, Snapshot, Request
    <3>2. /\ stage[c] = "updateLoaded" /\ req[c].item \in Items
          /\ req[c].contentVersion <= tx[c].contentVersion
      BY <1>17 DEF UpdateItem, RequestOf, Requests
    <3>3. CASE VersionMatches(c)
      <4>1. /\ item'[req[c].item].state = item[req[c].item].state
            /\ item'[req[c].item].contentVersion = tx[c].contentVersion + 1
            /\ \A i \in Items \ {req[c].item} : item'[i] = item[i]
        BY <1>17, <3>2, <3>3 DEF UpdateItem, TypeOK
      <4>. QED  BY <3>1, <3>2, <3>3, <4>1 DEF VersionMatches, RowsGrow, TypeOK
    <3>4. CASE ~VersionMatches(c)
      BY <1>17, <3>4, RowsUnchanged DEF UpdateItem
    <3>. QED  BY <3>3, <3>4
  <2>. QED  BY <1>17, <2>1, RequestsFinish DEF UpdateItem
<1>18. ASSUME NEW i \in Items, DeleteItem(i) PROVE Requests'
  <2>1. RowsGrow
    BY <1>18 DEF DeleteItem, RowsGrow, TypeOK
  <2>. QED  BY <1>18, <2>1, RequestKept DEF DeleteItem, Requests
<1>19. ASSUME NEW c \in Clients, SendRotate(c) PROVE Requests'
  <2>. DEFINE next == profile.keyVersion + 1
              root == [by |-> c, version |-> next]
              wrap == [root |-> root, keyVersion |-> next, salt |-> profile.kdfSalt]
              rekeyed == [i \in Items |->
                 IF Live(i) THEN [root |-> root, dek |-> item[i].encryptedItemKey.dek]
                            ELSE NoKey]
              r(recovery) == [NoRequest EXCEPT !.wrap = wrap, !.recovery = recovery,
                                               !.rekeyed = rekeyed]
  <2>1. PICK recovery \in {NoWrap, [root |-> root, keyVersion |-> next, salt |-> 0]} :
          Send(c, "rotate", r(recovery))
    BY <1>19 DEF SendRotate
  <2>2. r(recovery).wrap = wrap /\ r(recovery).rekeyed = rekeyed
    BY DEF NoRequest
  <2>3. wrap # NoWrap /\ wrap.root = root
    BY DEF NoWrap, TypeOK
  <2>4. \A i \in Items : rekeyed[i] # NoKey => rekeyed[i].root = root
    OBVIOUS
  <2>. HIDE DEF wrap, rekeyed, root, r
  <2>5. /\ stage'[c] = "rotate" /\ req'[c].wrap = wrap /\ req'[c].rekeyed = rekeyed
    BY <2>1, <2>2, SendEffect
  <2>6. RequestOf(c)'
    BY <2>3, <2>4, <2>5 DEF RequestOf, Provided
  <2>. QED  BY <1>19, <2>1, <2>6, RequestsSend DEF SendRotate, serverVars
<1>20. ASSUME NEW c \in Clients, LockForRotate(c) PROVE Requests'
  <2>1. Goto(c, "rotateLocked") /\ UNCHANGED <<item, req, tx>> /\ stage[c] = "rotate"
    BY <1>20 DEF LockForRotate
  <2>2. RequestOf(c)'
    BY <2>1, GotoEffect DEF RequestOf, Requests, Provided
  <2>. QED  BY <2>1, <2>2, RequestsGoto
<1>21. ASSUME NEW c \in Clients, ReadLocked(c) PROVE Requests'
  <2>1. /\ Goto(c, "rotateRead") /\ UNCHANGED <<item, req>> /\ stage[c] = "rotateLocked"
        /\ \A d \in Clients \ {c} : tx'[d] = tx[d]
    BY <1>21 DEF ReadLocked, TypeOK
  <2>2. RequestOf(c)'
    BY <2>1, GotoEffect DEF RequestOf, Requests, Provided
  <2>. QED  BY <2>1, <2>2, RequestsGoto
<1>22. ASSUME NEW c \in Clients, CheckCoverage(c) PROVE Requests'
  <2>1. CASE LiveItems \subseteq Provided(c)
    <3>1. /\ Goto(c, "rotateChecked") /\ UNCHANGED <<item, req, tx>>
          /\ stage[c] = "rotateRead"
      BY <1>22, <2>1 DEF CheckCoverage, Covered
    <3>2. RequestOf(c)'
      BY <3>1, GotoEffect DEF RequestOf, Requests, Provided
    <3>. QED  BY <3>1, <3>2, RequestsGoto
  <2>2. CASE ~(LiveItems \subseteq Provided(c))
    BY <1>22, <2>2, RequestsFinish, RowsUnchanged DEF CheckCoverage, Covered
  <2>. QED  BY <2>1, <2>2
<1>23. ASSUME NEW c \in Clients, RotateProfileKey(c) PROVE Requests'
  <2>1. RowsGrow
    <3>1. ASSUME NEW i \in Items
          PROVE  /\ item'[i].state = item[i].state
                 /\ item'[i].contentVersion = item[i].contentVersion
      <4>1. CASE UNCHANGED item
        BY <4>1
      <4>2. CASE item' = [j \in Items |->
               IF j \in Provided(c)
                 THEN [item[j] EXCEPT !.encryptedItemKey = req[c].rekeyed[j],
                                      !.cryptoVersion = NextKeyVersion(c)]
                 ELSE item[j]]
        BY <4>2 DEF TypeOK
      <4>. QED  BY <1>23, <4>1, <4>2 DEF RotateProfileKey
    <3>. QED  BY <3>1 DEF RowsGrow, TypeOK
  <2>. QED  BY <1>23, <2>1, RequestsFinish DEF RotateProfileKey
<1>24. CASE UNCHANGED vars
  BY <1>24, <1>f DEF vars
<1>. QED
  BY <1>1, <1>2, <1>3, <1>4, <1>5, <1>7, <1>8, <1>9, <1>10, <1>11, <1>12, <1>13,
     <1>14, <1>15, <1>16, <1>17, <1>18, <1>19, <1>20, <1>21, <1>22, <1>23, <1>24
  DEF Next, ClientStep, ServerStep

-----------------------------------------------------------------------------
(* The safety properties *)

\* The steps that write neither the profile nor an item.
Quiet(c) ==
  \/ Unlock(c) \/ Lock(c) \/ Abort(c) \/ SendBootstrap(c)
  \/ ReadRootForPassword(c) \/ SendPassword(c) \/ SendDaemonPassword(c)
  \/ SendRecover(c) \/ SendRotate(c)
  \/ \E i \in Items : SendCreate(c, i) \/ SendUpdate(c, i)
  \/ LockForCreate(c) \/ LoadForUpdate(c) \/ LockForRotate(c)
  \/ ReadLocked(c) \/ CheckCoverage(c)

\* The steps that only read, wait or send change no row and no key.
LEMMA QuietUnchanged ==
  ASSUME NEW c \in Clients, Quiet(c)
  PROVE  UNCHANGED <<profile, item, installed>>
BY DEF Quiet, Unlock, Lock, Abort, SendBootstrap, ReadRootForPassword, SendPassword,
    SendDaemonPassword, SendRecover, SendRotate, SendCreate, SendUpdate, LockForCreate,
    LoadForUpdate, LockForRotate, ReadLocked, CheckCoverage, Covered, serverVars

\* A step either is quiet or is one of the writes of a handler.
LEMMA NextCases ==
  ASSUME [Next]_vars
  PROVE  \/ UNCHANGED <<profile, item, installed>>
         \/ \E c \in Clients :
              \/ BootstrapProfile(c) \/ ChangeProfilePassword(c)
              \/ SetupProfileRecovery(c) \/ InsertZeroKnowledgeItem(c)
              \/ UpdateItem(c) \/ RotateProfileKey(c)
         \/ \E i \in Items : DeleteItem(i)
BY QuietUnchanged DEF Next, ClientStep, ServerStep, Quiet, vars

\* The key version only moves when a rotation commits; that rotation rewrapped
\* every live item.  A create takes the version it read under the lock.
LEMMA KeyVersionStep ==
  TypeOK /\ CheckedUnderLock /\ LiveItemsAtKeyVersion /\ [Next]_vars
    => LiveItemsAtKeyVersion'
<1>. SUFFICES ASSUME TypeOK, CheckedUnderLock, LiveItemsAtKeyVersion, [Next]_vars
              PROVE  LiveItemsAtKeyVersion'
  OBVIOUS
<1>. USE DEF LiveItemsAtKeyVersion, LiveItems, Live
<1>f. ASSUME UNCHANGED item, profile'.keyVersion = profile.keyVersion
      PROVE  LiveItemsAtKeyVersion'
  BY <1>f
<1>1. CASE UNCHANGED <<profile, item, installed>>
  BY <1>1, <1>f
<1>2. ASSUME NEW c \in Clients,
             \/ BootstrapProfile(c) \/ ChangeProfilePassword(c)
             \/ SetupProfileRecovery(c)
      PROVE  LiveItemsAtKeyVersion'
  <2>1. UNCHANGED item /\ profile'.keyVersion = profile.keyVersion
    BY <1>2 DEF BootstrapProfile, Unbootstrapped, ChangeProfilePassword, SetupProfileRecovery, TypeOK
  <2>. QED  BY <2>1, <1>f
<1>3. ASSUME NEW c \in Clients, InsertZeroKnowledgeItem(c) PROVE LiveItemsAtKeyVersion'
  BY <1>3 DEF InsertZeroKnowledgeItem, TypeOK
<1>4. ASSUME NEW c \in Clients, UpdateItem(c) PROVE LiveItemsAtKeyVersion'
  <2>1. ASSUME NEW i \in Items
        PROVE  item'[i].state = item[i].state /\ item'[i].cryptoVersion = item[i].cryptoVersion
    BY <1>4 DEF UpdateItem, TypeOK
  <2>. QED  BY <1>4, <2>1 DEF UpdateItem
<1>5. ASSUME NEW i \in Items, DeleteItem(i) PROVE LiveItemsAtKeyVersion'
  BY <1>5 DEF DeleteItem, TypeOK
<1>6. ASSUME NEW c \in Clients, RotateProfileKey(c) PROVE LiveItemsAtKeyVersion'
  <2>1. LiveItems \subseteq Provided(c) /\ profile.keyVersion = tx[c].keyVersion
    BY <1>6 DEF RotateProfileKey, CheckedUnderLock, Checked
  <2>2. profile'.keyVersion = NextKeyVersion(c)
    BY <1>6, <2>1 DEF RotateProfileKey, TypeOK
  <2>3. ASSUME NEW i \in Items
        PROVE  /\ item'[i].state = item[i].state
               /\ i \in Provided(c) => item'[i].cryptoVersion = NextKeyVersion(c)
    <3>1. item' = [j \in Items |->
             IF j \in Provided(c)
               THEN [item[j] EXCEPT !.encryptedItemKey = req[c].rekeyed[j],
                                    !.cryptoVersion = NextKeyVersion(c)]
               ELSE item[j]]
      BY <1>6, <2>1 DEF RotateProfileKey
    <3>. QED  BY <3>1 DEF TypeOK
  <2>. QED  BY <2>1, <2>2, <2>3
<1>. QED  BY <1>1, <1>2, <1>3, <1>4, <1>5, <1>6, NextCases

\* A ciphertext and the content version of its row move together.
LEMMA ContentStep ==
  TypeOK /\ Requests /\ ContentBoundToRow /\ [Next]_vars => ContentBoundToRow'
<1>. SUFFICES ASSUME TypeOK, Requests, ContentBoundToRow, [Next]_vars
              PROVE  ContentBoundToRow'
  OBVIOUS
<1>. USE DEF ContentBoundToRow
<1>1. ASSUME UNCHANGED item PROVE ContentBoundToRow'
  BY <1>1
<1>2. ASSUME NEW c \in Clients, InsertZeroKnowledgeItem(c) PROVE ContentBoundToRow'
  <2>1. req[c].ciphertext.contentVersion = 1
    BY <1>2 DEF InsertZeroKnowledgeItem, Requests, RequestOf
  <2>. QED  BY <1>2, <2>1 DEF InsertZeroKnowledgeItem, TypeOK
<1>3. ASSUME NEW c \in Clients, UpdateItem(c) PROVE ContentBoundToRow'
  <2>1. CASE VersionMatches(c)
    <3>1. /\ req[c].item \in Items
          /\ req[c].ciphertext.contentVersion = req[c].contentVersion + 1
          /\ req[c].contentVersion <= tx[c].contentVersion
          /\ tx[c].contentVersion <= req[c].contentVersion
      BY <1>3, <2>1 DEF UpdateItem, VersionMatches, Requests, RequestOf
    <3>2. tx[c].contentVersion \in Nat /\ req[c].contentVersion \in Nat
      BY DEF TypeOK, Snapshot, Request
    <3>3. /\ item'[req[c].item].ciphertext = req[c].ciphertext
          /\ item'[req[c].item].contentVersion = tx[c].contentVersion + 1
          /\ \A i \in Items \ {req[c].item} : item'[i] = item[i]
      BY <1>3, <2>1, <3>1 DEF UpdateItem, TypeOK
    <3>. QED  BY <3>1, <3>2, <3>3
  <2>2. CASE ~VersionMatches(c)
    BY <1>3, <2>2 DEF UpdateItem
  <2>. QED  BY <2>1, <2>2
<1>4. ASSUME NEW i \in Items, DeleteItem(i) PROVE ContentBoundToRow'
  BY <1>4 DEF DeleteItem, TypeOK, Live
<1>5. ASSUME NEW c \in Clients, RotateProfileKey(c) PROVE ContentBoundToRow'
  <2>1. CASE item' = [j \in Items |->
             IF j \in Provided(c)
               THEN [item[j] EXCEPT !.encryptedItemKey = req[c].rekeyed[j],
                                    !.cryptoVersion = NextKeyVersion(c)]
               ELSE item[j]]
    BY <2>1 DEF TypeOK
  <2>. QED  BY <1>1, <1>5, <2>1 DEF RotateProfileKey
<1>6. ASSUME NEW c \in Clients,
             BootstrapProfile(c) \/ ChangeProfilePassword(c) \/ SetupProfileRecovery(c)
      PROVE  UNCHANGED item
  BY <1>6 DEF BootstrapProfile, Unbootstrapped, ChangeProfilePassword, SetupProfileRecovery
<1>. QED  BY <1>1, <1>2, <1>3, <1>4, <1>5, <1>6, NextCases

\* A wrap is never taken out of a profile that has one.
LEMMA InstalledStep == TypeOK /\ Requests /\ Installed /\ [Next]_vars => Installed'
<1>. SUFFICES ASSUME TypeOK, Requests, Installed, [Next]_vars PROVE Installed'
  OBVIOUS
<1>. USE DEF Installed
<1>1. CASE UNCHANGED <<profile, item, installed>>
  BY <1>1
<1>2. ASSUME NEW c \in Clients, BootstrapProfile(c) PROVE Installed'
  BY <1>2 DEF BootstrapProfile, Unbootstrapped, TypeOK, Requests, RequestOf, Bootstrapping
<1>3. ASSUME NEW c \in Clients, ChangeProfilePassword(c) PROVE Installed'
  BY <1>3 DEF ChangeProfilePassword, TypeOK, Requests, RequestOf, Bootstrapping
<1>4. ASSUME NEW c \in Clients, SetupProfileRecovery(c) PROVE Installed'
  BY <1>4 DEF SetupProfileRecovery, TypeOK
<1>5. ASSUME NEW c \in Clients, InsertZeroKnowledgeItem(c) \/ UpdateItem(c)
      PROVE  Installed'
  BY <1>5 DEF InsertZeroKnowledgeItem, UpdateItem
<1>6. ASSUME NEW c \in Clients, RotateProfileKey(c) PROVE Installed'
  <2>1. req[c].wrap # NoWrap
    BY <1>6 DEF RotateProfileKey, Requests, RequestOf, Rotating
  <2>. QED  BY <1>6, <2>1 DEF RotateProfileKey, TypeOK
<1>7. ASSUME NEW i \in Items, DeleteItem(i) PROVE Installed'
  BY <1>7 DEF DeleteItem
<1>. QED  BY <1>1, <1>2, <1>3, <1>4, <1>5, <1>6, <1>7, NextCases

-----------------------------------------------------------------------------
(* The theorems *)

\* Before the profile is bootstrapped nothing is stored and nobody holds a lock.
LEMMA InitIInv == Init => IInv
<1>. SUFFICES ASSUME Init PROVE IInv
  OBVIOUS
<1>1. TypeOK
  <2>1. NoRow \in [state : {"absent", "live", "deleted"}, encryptedItemKey : ItemKey,
                   ciphertext : Ciphertext, contentVersion : Nat, cryptoVersion : Nat]
    BY Empties DEF NoRow
  <2>. QED  BY <2>1, Empties DEF Init, TypeOK, Stages
<1>2. CheckedUnderLock
  BY ZkConstants DEF Init, CheckedUnderLock, Checked, Holding
<1>3. Requests
  BY DEF Init, Requests, RequestOf, Bootstrapping, Rotating
<1>4. Installed
  BY DEF Init, Installed
<1>5. LiveItemsAtKeyVersion /\ ContentBoundToRow
  BY DEF Init, LiveItemsAtKeyVersion, ContentBoundToRow, LiveItems, Live, NoRow
<1>. QED  BY <1>1, <1>2, <1>3, <1>4, <1>5 DEF IInv

\* The conjuncts of IInv are preserved together.
LEMMA StepIInv == IInv /\ [Next]_vars => IInv'
BY TypeStep, CheckedStep, RequestsStep, InstalledStep, KeyVersionStep, ContentStep
DEF IInv

\* The inductive invariant holds in every reachable state.
THEOREM Invariance == Spec => []IInv
BY InitIInv, StepIInv, PTL DEF Spec

\* Every variable keeps its type, for every set of clients and items.
THEOREM TypeCorrect == Spec => []TypeOK
<1>1. IInv => TypeOK
  BY DEF IInv
<1>. QED  BY <1>1, Invariance, PTL

\* The advisory lock protects what was read and checked under it.
THEOREM LockProtectsRotation == Spec => []CheckedUnderLock
<1>1. IInv => CheckedUnderLock
  BY DEF IInv
<1>. QED  BY <1>1, Invariance, PTL

\* No interleaving of creates, deletes and rotations leaves a live item at a
\* key version other than its profile's.
THEOREM NoItemLeftBehind == Spec => []LiveItemsAtKeyVersion
<1>1. IInv => LiveItemsAtKeyVersion
  BY DEF IInv
<1>. QED  BY <1>1, Invariance, PTL

\* Every stored ciphertext is bound to the content version of its row.
THEOREM CiphertextMatchesRow == Spec => []ContentBoundToRow
<1>1. IInv => ContentBoundToRow
  BY DEF IInv
<1>. QED  BY <1>1, Invariance, PTL

\* Only a rotation, at the next key version, replaces a root key in use.
THEOREM RootReplacement == Spec => RootReplacedOncePerVersion
<1>1. IInv /\ [Next]_vars =>
        [installed # NoSecret /\ installed' # installed =>
           profile'.keyVersion = profile.keyVersion + 1]_vars
  <2>. SUFFICES ASSUME IInv, [Next]_vars, installed # NoSecret, installed' # installed
                PROVE  profile'.keyVersion = profile.keyVersion + 1
    OBVIOUS
  <2>1. profile.wrappedRootKey # NoWrap
    BY DEF IInv, Installed
  <2>2. PICK c \in Clients : RotateProfileKey(c)
    BY <2>1, NextCases
    DEF BootstrapProfile, Unbootstrapped, ChangeProfilePassword, SetupProfileRecovery,
        InsertZeroKnowledgeItem, UpdateItem, DeleteItem
  <2>. QED  BY <2>2 DEF RotateProfileKey, NextKeyVersion, IInv, TypeOK
<1>. QED  BY <1>1, Invariance, PTL DEF Spec, RootReplacedOncePerVersion

\* The rotation that commits rewrapped every item that is live at its commit.
THEOREM RotationComplete == Spec => RotationRewrapsLiveItems
<1>1. IInv /\ [Next]_vars =>
        [profile'.keyVersion # profile.keyVersion =>
           \A i \in Items : item'[i].state = "live" =>
             item'[i].encryptedItemKey.root = profile'.wrappedRootKey.root]_vars
  <2>. SUFFICES ASSUME IInv, [Next]_vars, profile'.keyVersion # profile.keyVersion,
                       NEW i \in Items, item'[i].state = "live"
                PROVE  item'[i].encryptedItemKey.root = profile'.wrappedRootKey.root
    OBVIOUS
  <2>1. PICK c \in Clients : RotateProfileKey(c)
    BY NextCases
    DEF BootstrapProfile, Unbootstrapped, ChangeProfilePassword, SetupProfileRecovery,
        InsertZeroKnowledgeItem, UpdateItem, DeleteItem, IInv, TypeOK
  <2>2. profile.keyVersion = tx[c].keyVersion
    BY <2>1 DEF RotateProfileKey
  <2>3. item' = [j \in Items |->
           IF j \in Provided(c)
             THEN [item[j] EXCEPT !.encryptedItemKey = req[c].rekeyed[j],
                                  !.cryptoVersion = NextKeyVersion(c)]
             ELSE item[j]]
    BY <2>1, <2>2 DEF RotateProfileKey
  <2>4. item[i].state = "live"
    BY <2>3 DEF IInv, TypeOK
  <2>5. i \in Provided(c)
    BY <2>1, <2>4 DEF RotateProfileKey, IInv, CheckedUnderLock, Checked, LiveItems, Live
  <2>6. req[c].rekeyed[i].root = req[c].wrap.root
    BY <2>1, <2>5 DEF RotateProfileKey, IInv, Requests, RequestOf, Rotating
  <2>7. profile'.wrappedRootKey = req[c].wrap
    BY <2>1, <2>2 DEF RotateProfileKey, IInv, TypeOK
  <2>8. item'[i].encryptedItemKey = req[c].rekeyed[i]
    BY <2>3, <2>5 DEF IInv, TypeOK
  <2>. QED  BY <2>6, <2>7, <2>8
<1>. QED  BY <1>1, Invariance, PTL DEF Spec, RotationRewrapsLiveItems

\* Of two updates of the same version of an item, one is refused.
THEOREM UpdatesNeverLost == Spec => NoLostUpdate
<1>1. IInv /\ [Next]_vars =>
        [\A i \in Items :
           item[i].state # "absent" /\ item'[i].ciphertext # item[i].ciphertext =>
             /\ item'[i].contentVersion = item[i].contentVersion + 1
             /\ \E c \in Clients :
                  /\ req[c].item = i
                  /\ req[c].contentVersion = item[i].contentVersion
                  /\ item'[i].ciphertext = req[c].ciphertext]_vars
  <2>. SUFFICES ASSUME IInv, [Next]_vars, NEW i \in Items, item[i].state # "absent",
                       item'[i].ciphertext # item[i].ciphertext
                PROVE  /\ item'[i].contentVersion = item[i].contentVersion + 1
                       /\ \E c \in Clients :
                            /\ req[c].item = i
                            /\ req[c].contentVersion = item[i].contentVersion
                            /\ item'[i].ciphertext = req[c].ciphertext
    OBVIOUS
  <2>. USE DEF IInv, TypeOK
  <2>1. ASSUME NEW c \in Clients, InsertZeroKnowledgeItem(c) PROVE FALSE
    BY <2>1 DEF InsertZeroKnowledgeItem
  <2>2. ASSUME NEW c \in Clients, RotateProfileKey(c) PROVE FALSE
    <3>1. CASE item' = [j \in Items |->
             IF j \in Provided(c)
               THEN [item[j] EXCEPT !.encryptedItemKey = req[c].rekeyed[j],
                                    !.cryptoVersion = NextKeyVersion(c)]
               ELSE item[j]]
      BY <3>1
    <3>. QED  BY <2>2, <3>1 DEF RotateProfileKey
  <2>3. ASSUME NEW j \in Items, DeleteItem(j) PROVE FALSE
    BY <2>3 DEF DeleteItem
  <2>4. PICK c \in Clients : UpdateItem(c)
    BY <2>1, <2>2, <2>3, NextCases
    DEF BootstrapProfile, Unbootstrapped, ChangeProfilePassword, SetupProfileRecovery
  <2>5. VersionMatches(c) /\ req[c].item = i
    BY <2>4 DEF UpdateItem
  <2>6. /\ item'[i].ciphertext = req[c].ciphertext
        /\ item'[i].contentVersion = tx[c].contentVersion + 1
    BY <2>4, <2>5 DEF UpdateItem
  <2>7. /\ req[c].contentVersion <= tx[c].contentVersion
        /\ tx[c].contentVersion <= item[i].contentVersion
        /\ item[i].contentVersion = req[c].contentVersion
    BY <2>4, <2>5 DEF UpdateItem, VersionMatches, Requests, RequestOf
  <2>8. tx[c].contentVersion \in Nat /\ req[c].contentVersion \in Nat
    BY DEF Snapshot, Request
  <2>. QED  BY <2>5, <2>6, <2>7, <2>8
<1>. QED  BY <1>1, Invariance, PTL DEF Spec, NoLostUpdate

-----------------------------------------------------------------------------
(* Server-managed profiles and items: proofs about ServerProfile for any    *)
(* number of requests and of rows that exist at the start, whatever the     *)
(* requests are asked to do.  Nothing above is used below.                  *)


\* Who has ended well, and so which profiles were ever there.
Done == {r \in Calls : at[r] = "done"}
Born == OldProfiles \cup {r \in Done : op[r] = "createProfile"}
Writing(r) == at[r] \in {"resolved", "provision", "count", "write"}
Deletes(r) == at[r] \in {"empty", "snapshot"}
Updating(r) == Writing(r) /\ op[r] = "update"

\* A request is at a stage of its own operation.
Placed(r) ==
  /\ Writing(r) => SP!Writes(r)
  /\ Deletes(r) => op[r] = "deleteProfile"
  /\ at[r] = "cap" => op[r] = "createProfile"
  /\ at[r] = "bind" => op[r] = "backfill"

\* A profile that never was has no data key and no encryptions; an item's profile is there;
\* and every row and data key was made by a request that has ended, or is of old.
Rows ==
  /\ live \subseteq Born
  /\ \A p \in SP!ProfileIds \ Born : dek[p] = None /\ sealed[p] = 0
  /\ \A p \in SP!ProfileIds : dek[p] \in {None} \cup OldProfiles \cup Done
  /\ \A i \in SP!ItemIds :
       /\ stored[i].profile \in live \cup {None}
       /\ stored[i].state # "none" => i \in OldItems \cup Done

\* What a request has read was there when it read it.
Reads(r) ==
  /\ Writing(r) =>
       /\ read[r].profile \in Born \cup {None}
       /\ at[r] # "write" \/ op[r] = "create" => read[r].profile # None
  /\ Updating(r) =>
       /\ on[r] \in SP!ItemIds /\ stored[on[r]].state # "none"
       /\ read[r].version < MaxVersion
  /\ \A row \in listed[r] : stored[row[1]].state # "none"

\* Who seals under a data key of its own making has the row of its profile locked.
Keyed(r) ==
  at[r] \in {"count", "write"} /\ read[r].profile # None =>
    /\ read[r].dek # None
    /\ read[r].profile \in live =>
         dek[read[r].profile] = read[r].dek \/ (dek[read[r].profile] = None /\ read[r].dek = r)

OneLock == \A r, s \in Calls, p \in SP!ProfileIds : SP!Locks(r, p) /\ SP!Locks(s, p) => r = s

\* What a deletion has not seen came late.
Emptied(r) ==
  /\ Deletes(r) => SP!ActiveIn(on[r]) \subseteq late
  /\ at[r] = "snapshot" => SP!GrantsOn(on[r]) \subseteq picked[r] \cup late

\* While the version an update has read is the row's, so is the content, unless the script
\* put an older one back (crossed).
Based(r) ==
  Updating(r) =>
    LET i == on[r] IN
    /\ SP!Active(i) /\ i \notin late \cup crossed => stored[i].profile = read[r].profile
    /\ stored[i].version >= read[r].version
    /\ stored[i].version = read[r].version => stored[i].text = read[r].text \/ i \in crossed

\* A personal account has one profile at most, and one creation past the cap, which then
\* finds none.
Capped ==
  personal =>
    /\ \A p, q \in live : p = q
    /\ \A r \in Calls : at[r] = "cap" =>
         live = {} /\ \A s \in Calls : at[s] = "cap" => s = r

RequestInv(r) == Placed(r) /\ Reads(r) /\ Keyed(r) /\ Emptied(r) /\ Based(r)

StorageInv ==
  /\ SP!TypeOK /\ Rows /\ OneLock /\ Capped
  /\ \A r \in Calls : RequestInv(r)
  /\ SP!ActiveItemOpens /\ SP!BudgetCoversEncryptions

\* A step of another request leaves this one alone.
Same(s) ==
  /\ at'[s] = at[s] /\ op'[s] = op[s] /\ on'[s] = on[s] /\ read'[s] = read[s]
  /\ picked'[s] = picked[s] /\ listed'[s] = listed[s]

LocalTypes ==
  /\ op \in [Calls -> SP!Ops]
  /\ at \in [Calls -> SP!Stages]
  /\ on \in [Calls -> SP!ProfileIds \cup SP!ItemIds]
  /\ read \in [Calls -> [profile : SP!ProfileIds \cup {None}, dek : SP!ProfileIds \cup {None},
                            text : SP!Texts, version : 0..MaxVersion]]
  /\ picked \in [Calls -> SUBSET SP!GrantIds]
  /\ listed \in [Calls -> SUBSET (SP!ItemIds \X SP!Texts)]

RowTypes ==
  /\ personal \in BOOLEAN
  /\ live \subseteq SP!ProfileIds
  /\ dek \in [SP!ProfileIds -> SP!ProfileIds \cup {None}]
  /\ count \in [SP!ProfileIds -> Nat]
  /\ stored \in [SP!ItemIds -> SP!Item]
  /\ grant \in [SP!GrantIds -> SP!ProfileIds \cup {None}]
  /\ audited \subseteq SP!GrantIds
  /\ sealed \in [SP!ProfileIds -> Nat]
  /\ late \subseteq SP!ItemIds \cup SP!GrantIds
  /\ crossed \subseteq SP!ItemIds

\* TypeOK apart: what belongs to a request, and the rows.
LEMMA Types == SP!TypeOK <=> LocalTypes /\ RowTypes
BY DEF SP!TypeOK, LocalTypes, RowTypes

\* The record of what a request read: its type and its fields.
LEMMA ReadingTypes ==
  ASSUME NEW p \in SP!ProfileIds \cup {None}, NEW d \in SP!ProfileIds \cup {None},
         NEW t \in SP!Texts, NEW v \in 0..MaxVersion
  PROVE  /\ SP!Reading(p, d, t, v) \in [profile : SP!ProfileIds \cup {None}, dek : SP!ProfileIds \cup {None},
                                     text : SP!Texts, version : 0..MaxVersion]
         /\ SP!Reading(p, d, t, v).profile = p /\ SP!Reading(p, d, t, v).dek = d
         /\ SP!Reading(p, d, t, v).text = t /\ SP!Reading(p, d, t, v).version = v
BY DEF SP!Reading

\* A row made of well typed parts is an item.
LEMMA RowTypesOf ==
  ASSUME NEW st \in {"none", "active", "deleted"}, NEW p \in SP!ProfileIds \cup {None}, NEW k \in SP!Keys,
         NEW a \in SP!ProfileIds \cup {None}, NEW t \in SP!Texts, NEW v \in 0..MaxVersion
  PROVE  SP!Row(st, p, k, a, t, v) \in SP!Item
BY DEF SP!Row, SP!Item

\* The fields of a row.
LEMMA RowIs ==
  ASSUME NEW st, NEW p, NEW k, NEW a, NEW t, NEW v
  PROVE  /\ SP!Row(st, p, k, a, t, v).state = st /\ SP!Row(st, p, k, a, t, v).profile = p
         /\ SP!Row(st, p, k, a, t, v).key = k /\ SP!Row(st, p, k, a, t, v).aad = a
         /\ SP!Row(st, p, k, a, t, v).text = t /\ SP!Row(st, p, k, a, t, v).version = v
BY DEF SP!Row

\* A step moves one request, which had not ended, and leaves it well typed.
LEMMA LocalStep ==
  ASSUME LocalTypes, RowTypes, SP!ServerProfileConstants, NEW r \in Calls, SP!Step(r)
  PROVE  /\ UNCHANGED personal /\ at[r] \notin {"done", "refused"}
         /\ \A s \in Calls \ {r} : Same(s)
         /\ LocalTypes'
<1>. USE DEF LocalTypes, Same, SP!Goto
<1>0. /\ Calls \subseteq SP!ProfileIds /\ Calls \subseteq SP!ItemIds /\ Calls \subseteq SP!Texts
      /\ SP!ItemIds \subseteq SP!Texts /\ 0 \in 0..MaxVersion /\ live \subseteq SP!ProfileIds
      /\ dek \in [SP!ProfileIds -> SP!ProfileIds \cup {None}]
      /\ \A i \in SP!ItemIds : stored[i] \in SP!Item
  BY DEF SP!ProfileIds, SP!ItemIds, SP!Texts, RowTypes, SP!ServerProfileConstants
<1>. DEFINE Goal == /\ UNCHANGED personal /\ at[r] \notin {"done", "refused"}
                    /\ \A s \in Calls \ {r} : Same(s)
                    /\ LocalTypes'
<1>1. CASE SP!ResolveTargetProfile(r)
  <2>1. PICK p \in live : SP!Sends(r, "create", p) /\ read' = [read EXCEPT ![r] = SP!Reading(p, None, r, 0)]
    BY <1>1 DEF SP!ResolveTargetProfile
  <2>2. SP!Reading(p, None, r, 0) \in [profile : SP!ProfileIds \cup {None}, dek : SP!ProfileIds \cup {None},
                                    text : SP!Texts, version : 0..MaxVersion]
    BY <1>0, ReadingTypes
  <2>. QED  BY <1>0, <1>1, <2>1, <2>2 DEF SP!ResolveTargetProfile, SP!Sends, SP!Ops, SP!Stages,
               SP!rows
<1>2. CASE SP!LoadOwnedItem(r)
  <2>1. PICK i \in SP!ItemIds :
          /\ SP!Sends(r, "update", i)
          /\ read' = [read EXCEPT ![r] = SP!Reading(stored[i].profile, None, stored[i].text, stored[i].version)]
          /\ SP!Goto(r, IF stored[i].profile = None THEN "write" ELSE "resolved")
          /\ UNCHANGED <<SP!rows, picked, listed, SP!history>>
    BY <1>2 DEF SP!LoadOwnedItem
  <2>2. SP!Reading(stored[i].profile, None, stored[i].text, stored[i].version)
          \in [profile : SP!ProfileIds \cup {None}, dek : SP!ProfileIds \cup {None},
               text : SP!Texts, version : 0..MaxVersion]
    BY <1>0, ReadingTypes DEF SP!Item
  <2>. QED  BY <1>0, <2>1, <2>2 DEF SP!Sends, SP!Ops, SP!Stages, SP!rows
<1>3. CASE SP!LoadWrappedDek(r) \/ SP!EnsureProfileDek(r)
  <2>1. \A d \in SP!ProfileIds \cup {None} :
          SP!WithDek(r, d) \in [profile : SP!ProfileIds \cup {None}, dek : SP!ProfileIds \cup {None},
                             text : SP!Texts, version : 0..MaxVersion]
    BY ReadingTypes DEF SP!WithDek
  <2>2. read[r].profile \in live => dek[read[r].profile] \in SP!ProfileIds \cup {None}
    BY <1>0
  <2>3. UNCHANGED <<SP!rows, op, on, picked, listed>> /\ at[r] \in {"resolved", "provision"}
    BY <1>3 DEF SP!LoadWrappedDek, SP!EnsureProfileDek
  <2>4. /\ at' \in [Calls -> SP!Stages] /\ \A s \in Calls \ {r} : at'[s] = at[s]
        /\ read' = read \/ \E d \in SP!ProfileIds \cup {None} : read' = [read EXCEPT ![r] = SP!WithDek(r, d)]
    BY <1>0, <1>3, <2>2 DEF SP!LoadWrappedDek, SP!EnsureProfileDek, SP!Stages
  <2>. QED  BY <2>1, <2>3, <2>4 DEF SP!rows
<1>4. CASE SP!CountEncryption(r) \/ SP!Abort(r) \/ SP!EndBackfill(r)
  BY <1>4 DEF SP!CountEncryption, SP!Abort, SP!EndBackfill, SP!Stages, SP!rows
<1>5. CASE SP!CommitCreate(r) \/ SP!CommitUpdate(r)
  BY <1>5 DEF SP!CommitCreate, SP!CommitUpdate, SP!Stages
<1>6. CASE SP!DeleteItem(r)
  BY <1>0, <1>6 DEF SP!DeleteItem, SP!Sends, SP!Ops, SP!Stages
<1>7. CASE SP!AssertPersonalProfileCap(r)
  BY <1>0, <1>7 DEF SP!AssertPersonalProfileCap, SP!Sends, SP!Ops, SP!Stages, SP!rows
<1>8. CASE SP!CheckEmpty(r)
  BY <1>0, <1>8 DEF SP!CheckEmpty, SP!Sends, SP!Ops, SP!Stages, SP!rows
<1>9. CASE SP!InsertProfile(r) \/ SP!CommitDeletion(r)
  BY <1>9 DEF SP!InsertProfile, SP!CommitDeletion, SP!Stages
<1>10. CASE SP!SnapshotGrants(r)
  BY <1>10 DEF SP!SnapshotGrants, SP!Stages, SP!GrantsOn, SP!rows
<1>11. CASE SP!Grant(r)
  BY <1>0, <1>11 DEF SP!Grant, SP!Sends, SP!Ops, SP!Stages
<1>12. CASE SP!ListUnbound(r)
  <2>1. {<<i, stored[i].text>> : i \in {j \in SP!ActiveIn(None) : SP!Opens(j)}} \subseteq SP!ItemIds \X SP!Texts
    BY <1>0 DEF SP!ActiveIn, SP!Item
  <2>. QED  BY <1>0, <1>12, <2>1 DEF SP!ListUnbound, SP!Sends, SP!Ops, SP!Stages, SP!rows
<1>13. CASE SP!Bind(r)
  BY <1>13 DEF SP!Bind
<1>. QED
  BY <1>1, <1>2, <1>3, <1>4, <1>5, <1>6, <1>7, <1>8, <1>9, <1>10, <1>11, <1>12, <1>13 DEF SP!Step

-----------------------------------------------------------------------------
Kept == UNCHANGED <<SP!rows, SP!history>>
Inserted(r) == SP!CommitCreate(r) /\ read[r].profile \in live
Replaced(r) == SP!CommitUpdate(r) /\ SP!SameVersion(r)
Bound(r) ==
  \E row \in listed[r] : LET i == row[1] IN
    /\ at[r] = "bind" /\ on[r] \in live /\ stored[i].profile = None
    /\ stored' = [stored EXCEPT ![i] = SP!Row(stored[i].state, on[r], Master, on[r], row[2], stored[i].version)]
    /\ crossed' = IF SP!InFlight(i) THEN crossed \cup {i} ELSE crossed
    /\ late' = IF SP!Active(i) /\ SP!Deleting(on[r], {"empty", "snapshot"}) THEN late \cup {i} ELSE late
    /\ UNCHANGED <<personal, live, dek, count, grant, audited, op, at, on, read, picked, sealed>>

\* What a step does to the rows of items and profiles: one of eight things.
LEMMA RowCases ==
  ASSUME NEW r \in Calls, SP!Step(r)
  PROVE  \/ Kept \/ Inserted(r) \/ Replaced(r) \/ SP!DeleteItem(r) \/ SP!InsertProfile(r)
         \/ SP!CommitDeletion(r) \/ SP!Grant(r) \/ Bound(r)
<1>1. CASE SP!CommitCreate(r)
  BY <1>1 DEF SP!CommitCreate, Kept, Inserted, SP!rows, SP!history
<1>2. CASE SP!CommitUpdate(r)
  BY <1>2 DEF SP!CommitUpdate, Kept, Replaced, SP!rows, SP!history
<1>3. CASE SP!Bind(r)
  BY <1>3 DEF SP!Bind, Kept, Bound, SP!rows, SP!history
<1>4. CASE SP!ResolveTargetProfile(r) \/ SP!LoadOwnedItem(r) \/ SP!LoadWrappedDek(r) \/ SP!EnsureProfileDek(r)
           \/ SP!CountEncryption(r) \/ SP!Abort(r) \/ SP!ListUnbound(r) \/ SP!EndBackfill(r)
  BY <1>4 DEF SP!ResolveTargetProfile, SP!LoadOwnedItem, SP!LoadWrappedDek, SP!EnsureProfileDek,
              SP!CountEncryption, SP!Abort, SP!ListUnbound, SP!EndBackfill, Kept
<1>5. CASE SP!AssertPersonalProfileCap(r) \/ SP!CheckEmpty(r) \/ SP!SnapshotGrants(r)
  BY <1>5 DEF SP!AssertPersonalProfileCap, SP!CheckEmpty, SP!SnapshotGrants, Kept
<1>. QED
  BY <1>1, <1>2, <1>3, <1>4, <1>5 DEF SP!Step

\* Requests name rows that none of old has, and None and Master name no row.
LEMMA Names ==
  ASSUME SP!ServerProfileConstants
  PROVE  /\ Calls \subseteq SP!ProfileIds /\ Calls \subseteq SP!ItemIds /\ Calls \subseteq SP!GrantIds
         /\ Calls \subseteq SP!Texts /\ SP!ItemIds \subseteq SP!Texts /\ SP!ProfileIds \subseteq SP!Keys
         /\ Calls \cap OldProfiles = {} /\ Calls \cap OldItems = {}
         /\ Calls \cap OldGrants = {}
         /\ None \notin SP!ProfileIds /\ None \notin SP!ItemIds /\ None \notin SP!GrantIds
         /\ Master \notin SP!ProfileIds /\ Master \in SP!Keys /\ None # Master /\ MaxVersion \in Nat
BY DEF SP!ServerProfileConstants, SP!ProfileIds, SP!ItemIds, SP!GrantIds, SP!Texts, SP!Keys

\* What a request that writes has read, and seals under.
LEMMA WriteTypes ==
  ASSUME SP!TypeOK, SP!ServerProfileConstants, NEW r \in Calls, RequestInv(r), at[r] = "write"
  PROVE  /\ read[r].profile \in Born \cup {None} /\ read[r].text \in SP!Texts
         /\ read[r].profile # None => read[r].dek \in SP!ProfileIds
         /\ op[r] = "create" \/ op[r] = "update"
         /\ op[r] = "create" => read[r].profile # None
         /\ op[r] = "update" =>
              /\ on[r] \in SP!ItemIds /\ stored[on[r]] \in SP!Item /\ stored[on[r]].state # "none"
              /\ read[r].version + 1 \in 0..MaxVersion
  BY Names, Types DEF LocalTypes, RowTypes, RequestInv, Reads, Keyed, Placed, Writing,
     SP!Writes, Updating

\* The types of the fields of an item's row.
LEMMA RowFields ==
  ASSUME RowTypes, NEW i \in SP!ItemIds
  PROVE  /\ stored[i].state \in {"none", "active", "deleted"} /\ stored[i].profile \in SP!ProfileIds \cup {None}
         /\ stored[i].key \in SP!Keys /\ stored[i].aad \in SP!ProfileIds \cup {None}
         /\ stored[i].text \in SP!Texts /\ stored[i].version \in 0..MaxVersion
BY DEF RowTypes, SP!Item

\* A step leaves the rows well typed.
LEMMA RowTypesStep ==
  ASSUME SP!TypeOK, SP!ServerProfileConstants, NEW r \in Calls, RequestInv(r), SP!Step(r)
  PROVE  RowTypes'
<1>. USE Names
<1>0. RowTypes /\ LocalTypes
  BY Types
<1>1. CASE Kept
  BY <1>0, <1>1 DEF Kept, SP!rows, SP!history, RowTypes
<1>2. CASE Inserted(r) \/ Replaced(r)
  <2>1. at[r] = "write"
    BY <1>2 DEF Inserted, Replaced, SP!CommitCreate, SP!CommitUpdate
  <2>2. /\ dek' = SP!Provisioned(r) /\ count' = SP!Counted(r) /\ sealed' = SP!SealedUnder(r)
        /\ UNCHANGED <<personal, live, grant, audited>>
        /\ late' \subseteq late \cup {r} /\ crossed' = crossed
    BY <1>2 DEF Inserted, Replaced, SP!CommitCreate, SP!CommitUpdate
  <2>3. SP!Provisioned(r) \in [SP!ProfileIds -> SP!ProfileIds \cup {None}]
    BY <1>0, <2>1, WriteTypes DEF SP!Provisioned, RowTypes
  <2>4. SP!Counted(r) \in [SP!ProfileIds -> Nat] /\ SP!SealedUnder(r) \in [SP!ProfileIds -> Nat]
    BY <1>0 DEF SP!Counted, SP!SealedUnder, RowTypes
  <2>5. stored' \in [SP!ItemIds -> SP!Item]
    <3>1. CASE Inserted(r)
      <4>1. stored' = [stored EXCEPT ![r] = SP!Row("active", read[r].profile, read[r].dek, read[r].profile, r, 0)]
        BY <3>1 DEF Inserted, SP!CommitCreate
      <4>2. SP!Row("active", read[r].profile, read[r].dek, read[r].profile, r, 0) \in SP!Item
        <5>1. /\ read[r].profile \in SP!ProfileIds /\ read[r].dek \in SP!Keys
          BY <1>0, <2>1, <3>1, WriteTypes DEF Inserted, RowTypes
        <5>2. 0 \in 0..MaxVersion
          OBVIOUS
        <5>. QED  BY <5>1, <5>2, RowTypesOf
      <4>. QED  BY <1>0, <4>1, <4>2 DEF RowTypes
    <3>2. CASE Replaced(r)
      <4>. DEFINE k == IF read[r].profile = None THEN Master ELSE read[r].dek
                  row == SP!Row(stored[on[r]].state, stored[on[r]].profile, k, read[r].profile, r,
                             read[r].version + 1)
      <4>1. stored' = [stored EXCEPT ![on[r]] = row]
        BY <3>2 DEF Replaced, SP!CommitUpdate
      <4>2. /\ read[r].profile \in SP!ProfileIds \cup {None} /\ k \in SP!Keys
            /\ stored[on[r]] \in SP!Item /\ on[r] \in SP!ItemIds /\ read[r].version + 1 \in 0..MaxVersion
        BY <1>0, <2>1, <3>2, WriteTypes DEF Replaced, SP!CommitUpdate, LocalTypes
      <4>3. stored[on[r]].state \in {"none", "active", "deleted"}
            /\ stored[on[r]].profile \in SP!ProfileIds \cup {None}
        BY <4>2 DEF SP!Item
      <4>4. row \in SP!Item
        <5>. HIDE DEF k
        <5>. QED  BY <4>2, <4>3, RowTypesOf
      <4>. HIDE DEF row
      <4>. QED  BY <1>0, <4>1, <4>2, <4>4 DEF RowTypes
    <3>. QED  BY <1>2, <3>1, <3>2
  <2>. QED  BY <1>0, <2>2, <2>3, <2>4, <2>5 DEF RowTypes
<1>3. CASE SP!DeleteItem(r)
  <2>1. PICK i \in SP!ItemIds :
          /\ stored' = [stored EXCEPT ![i] = SP!Row("deleted", stored[i].profile, stored[i].key, stored[i].aad,
                                             stored[i].text, stored[i].version)]
          /\ UNCHANGED <<personal, live, dek, count, grant, audited, SP!history>>
    BY <1>3 DEF SP!DeleteItem
  <2>2. SP!Row("deleted", stored[i].profile, stored[i].key, stored[i].aad, stored[i].text, stored[i].version) \in SP!Item
    BY <1>0, RowFields, RowTypesOf
  <2>. QED  BY <1>0, <2>1, <2>2 DEF RowTypes, SP!history
<1>4. CASE SP!InsertProfile(r)
  BY <1>0, <1>4 DEF SP!InsertProfile, RowTypes, SP!history
<1>5. CASE SP!CommitDeletion(r)
  <2>1. \A i \in SP!ItemIds : SP!Orphan(i) \in SP!Item
    BY <1>0, RowFields, RowTypesOf DEF SP!Orphan
  <2>. QED  BY <1>0, <1>5, <2>1 DEF SP!CommitDeletion, RowTypes, LocalTypes, SP!history
<1>6. CASE SP!Grant(r)
  BY <1>0, <1>6 DEF SP!Grant, RowTypes
<1>7. CASE Bound(r)
  <2>1. PICK row \in listed[r] :
          /\ on[r] \in live
          /\ stored' = [stored EXCEPT ![row[1]] = SP!Row(stored[row[1]].state, on[r], Master, on[r], row[2],
                                                  stored[row[1]].version)]
          /\ crossed' \subseteq crossed \cup {row[1]} /\ late' \subseteq late \cup {row[1]}
          /\ UNCHANGED <<personal, live, dek, count, grant, audited, sealed>>
    BY <1>7 DEF Bound
  <2>2. row[1] \in SP!ItemIds /\ row[2] \in SP!Texts
    BY <1>0 DEF LocalTypes
  <2>3. SP!Row(stored[row[1]].state, on[r], Master, on[r], row[2], stored[row[1]].version) \in SP!Item
    <3>1. on[r] \in SP!ProfileIds \cup {None} /\ Master \in SP!Keys
      BY <1>0, <2>1 DEF RowTypes
    <3>. QED  BY <1>0, <2>2, <3>1, RowFields, RowTypesOf
  <2>. QED  BY <1>0, <2>1, <2>2, <2>3 DEF RowTypes
<1>. QED  BY <1>1, <1>2, <1>3, <1>4, <1>5, <1>6, <1>7, RowCases

-----------------------------------------------------------------------------
(* What a step changes *)

\* A request ends once: until then it has made no row.
LEMMA Monotone ==
  ASSUME SP!TypeOK, SP!ServerProfileConstants, NEW r \in Calls, SP!Step(r)
  PROVE  /\ Done \subseteq Done' /\ Done' \subseteq Done \cup {r} /\ Born \subseteq Born'
         /\ r \notin Done /\ r \notin Born /\ r \notin OldItems
<1>1. /\ at[r] \notin {"done", "refused"} /\ \A s \in Calls \ {r} : Same(s)
  BY LocalStep, Types
<1>. QED  BY <1>1, Names DEF Same, Done, Born

\* Which handler a stage comes from.
LEMMA StageOf ==
  ASSUME SP!TypeOK, SP!ServerProfileConstants, NEW r \in Calls, SP!Step(r)
  PROVE  /\ at'[r] \in {"resolved", "provision", "count", "write"} =>
              \/ SP!ResolveTargetProfile(r) \/ SP!LoadOwnedItem(r) \/ SP!LoadWrappedDek(r)
              \/ SP!EnsureProfileDek(r) \/ SP!CountEncryption(r)
         /\ at'[r] = "empty" => SP!CheckEmpty(r)
         /\ at'[r] = "snapshot" => SP!SnapshotGrants(r)
         /\ at'[r] = "cap" => SP!AssertPersonalProfileCap(r)
         /\ at'[r] = "bind" => SP!ListUnbound(r) \/ SP!Bind(r)
<1>0. at \in [Calls -> SP!Stages]
  BY DEF SP!TypeOK
<1>. USE DEF SP!Goto
<1>1. CASE SP!ResolveTargetProfile(r) \/ SP!LoadOwnedItem(r) \/ SP!LoadWrappedDek(r) \/ SP!EnsureProfileDek(r)
           \/ SP!CountEncryption(r)
  BY <1>0, <1>1 DEF SP!ResolveTargetProfile, SP!LoadOwnedItem, SP!LoadWrappedDek,
     SP!EnsureProfileDek, SP!CountEncryption
<1>2. CASE SP!CommitCreate(r) \/ SP!CommitUpdate(r)
  BY <1>0, <1>2 DEF SP!CommitCreate, SP!CommitUpdate
<1>3. CASE SP!DeleteItem(r) \/ SP!Grant(r)
  BY <1>0, <1>3 DEF SP!DeleteItem, SP!Grant
<1>4. CASE SP!AssertPersonalProfileCap(r) \/ SP!InsertProfile(r)
  BY <1>0, <1>4 DEF SP!AssertPersonalProfileCap, SP!InsertProfile
<1>5. CASE SP!CheckEmpty(r) \/ SP!SnapshotGrants(r) \/ SP!CommitDeletion(r)
  BY <1>0, <1>5 DEF SP!CheckEmpty, SP!SnapshotGrants, SP!CommitDeletion
<1>6. CASE SP!Abort(r) \/ SP!EndBackfill(r) \/ SP!ListUnbound(r)
  BY <1>0, <1>6 DEF SP!Abort, SP!EndBackfill, SP!ListUnbound
<1>7. CASE SP!Bind(r)
  BY <1>7 DEF SP!Bind
<1>. QED  BY <1>1, <1>2, <1>3, <1>4, <1>5, <1>6, <1>7 DEF SP!Step

\* A commit of a sealed text, in one form for the insertion and the update.
Sealing(r) == Inserted(r) \/ Replaced(r)

\* A commit that seals changes nothing else of the organization but items.
LEMMA SealingIs ==
  ASSUME SP!TypeOK, NEW r \in Calls, Sealing(r)
  PROVE  /\ at[r] = "write" /\ SP!Writes(r) /\ at'[r] = "done"
         /\ dek' = SP!Provisioned(r) /\ count' = SP!Counted(r) /\ sealed' = SP!SealedUnder(r)
         /\ UNCHANGED <<personal, live, grant, audited, op, on, read, picked, listed, crossed>>
         /\ Inserted(r) \/ late' = late
  BY DEF Sealing, Inserted, Replaced, SP!CommitCreate, SP!CommitUpdate, SP!Goto, SP!Writes,
     SP!TypeOK

\* The row that a create inserts, late if its profile is being deleted.
LEMMA InsertedIs ==
  ASSUME SP!TypeOK, SP!ServerProfileConstants, NEW r \in Calls, Inserted(r)
  PROVE  /\ stored'[r] = SP!Row("active", read[r].profile, read[r].dek, read[r].profile, r, 0)
         /\ late' = IF SP!Deleting(read[r].profile, {"empty", "snapshot"}) THEN late \cup {r} ELSE late
         /\ read[r].profile \in live
BY Names DEF Inserted, SP!CommitCreate, SP!TypeOK

\* What the script does to the row of an item, if anything.
LEMMA BoundItems ==
  ASSUME SP!TypeOK, NEW r \in Calls, Bound(r), NEW i \in SP!ItemIds
  PROVE  \/ stored'[i] = stored[i]
         \/ /\ \E t \in SP!Texts : stored'[i] = SP!Row(stored[i].state, on[r], Master, on[r], t, stored[i].version)
            /\ stored[i].profile = None /\ on[r] \in live
            /\ SP!InFlight(i) => i \in crossed'
            /\ SP!Active(i) /\ SP!Deleting(on[r], {"empty", "snapshot"}) => i \in late'
<1>0. stored \in [SP!ItemIds -> SP!Item] /\ listed[r] \subseteq SP!ItemIds \X SP!Texts
  BY DEF SP!TypeOK
<1>1. PICK row \in listed[r] :
        /\ on[r] \in live /\ stored[row[1]].profile = None
        /\ stored' = [stored EXCEPT ![row[1]] = SP!Row(stored[row[1]].state, on[r], Master, on[r], row[2],
                                                stored[row[1]].version)]
        /\ SP!InFlight(row[1]) => row[1] \in crossed'
        /\ SP!Active(row[1]) /\ SP!Deleting(on[r], {"empty", "snapshot"}) => row[1] \in late'
  BY DEF Bound
<1>2. row[1] \in SP!ItemIds /\ row[2] \in SP!Texts
  BY <1>0
<1>. QED  BY <1>0, <1>1, <1>2

\* A grant loses its profile only when that profile goes.
LEMMA GrantsAfter ==
  ASSUME SP!TypeOK, NEW r \in Calls, SP!Step(r), ~SP!Grant(r), NEW g \in SP!GrantIds
  PROVE  grant'[g] = grant[g] \/ (SP!CommitDeletion(r) /\ grant'[g] = None /\ grant[g] = on[r])
<1>1. CASE Kept
  BY <1>1 DEF Kept, SP!rows
<1>2. CASE Inserted(r) \/ Replaced(r)
  BY <1>2 DEF Inserted, Replaced, SP!CommitCreate, SP!CommitUpdate
<1>3. CASE SP!CommitDeletion(r)
  BY <1>3 DEF SP!CommitDeletion
<1>4. CASE SP!DeleteItem(r) \/ SP!InsertProfile(r) \/ Bound(r)
  BY <1>4 DEF SP!DeleteItem, SP!InsertProfile, Bound
<1>. QED  BY <1>1, <1>2, <1>3, <1>4, RowCases

\* The rows of items after a step, field by field.
LEMMA ItemsAfter ==
  ASSUME SP!TypeOK, SP!ServerProfileConstants, NEW r \in Calls, RequestInv(r), SP!Step(r), NEW i \in SP!ItemIds
  PROVE  \/ Kept /\ stored'[i] = stored[i]
         \/ Inserted(r) /\ stored'[i] = IF i = r THEN SP!Row("active", read[r].profile, read[r].dek,
                                                        read[r].profile, r, 0) ELSE stored[i]
         \/ Replaced(r) /\ stored'[i] = IF i = on[r]
              THEN SP!Row(stored[i].state, stored[i].profile,
                       IF read[r].profile = None THEN Master ELSE read[r].dek,
                       read[r].profile, r, read[r].version + 1)
              ELSE stored[i]
         \/ /\ SP!DeleteItem(r)
            /\ \/ stored'[i] = stored[i]
               \/ /\ SP!Active(i)
                  /\ stored'[i] = SP!Row("deleted", stored[i].profile, stored[i].key, stored[i].aad,
                                    stored[i].text, stored[i].version)
         \/ SP!InsertProfile(r) /\ stored'[i] = stored[i]
         \/ SP!CommitDeletion(r) /\ stored'[i] = IF stored[i].profile = on[r] THEN SP!Orphan(i) ELSE stored[i]
         \/ SP!Grant(r) /\ stored'[i] = stored[i]
         \/ /\ Bound(r)
            /\ \/ stored'[i] = stored[i]
               \/ /\ \E t \in SP!Texts : stored'[i] = SP!Row(stored[i].state, on[r], Master, on[r], t, stored[i].version)
                  /\ stored[i].profile = None /\ on[r] \in live
                  /\ SP!InFlight(i) => i \in crossed'
                  /\ SP!Active(i) /\ SP!Deleting(on[r], {"empty", "snapshot"}) => i \in late'
<1>0. stored \in [SP!ItemIds -> SP!Item] /\ r \in SP!ItemIds
  BY Names DEF SP!TypeOK
<1>1. CASE Kept
  BY <1>1 DEF Kept, SP!rows
<1>2. CASE Inserted(r)
  BY <1>0, <1>2 DEF Inserted, SP!CommitCreate
<1>3. CASE Replaced(r)
  BY <1>0, <1>3 DEF Replaced, SP!CommitUpdate
<1>4. CASE SP!DeleteItem(r)
  BY <1>0, <1>4 DEF SP!DeleteItem
<1>5. CASE SP!InsertProfile(r) \/ SP!CommitDeletion(r) \/ SP!Grant(r)
  BY <1>5 DEF SP!InsertProfile, SP!CommitDeletion, SP!Grant
<1>6. CASE Bound(r)
  BY <1>6, BoundItems
<1>. QED  BY <1>1, <1>2, <1>3, <1>4, <1>5, <1>6, RowCases

\* The history only grows.
LEMMA Grown ==
  ASSUME NEW r \in Calls, SP!Step(r)
  PROVE  late \subseteq late' /\ crossed \subseteq crossed'
<1>1. CASE Kept
  BY <1>1 DEF Kept, SP!history
<1>2. CASE Inserted(r) \/ Replaced(r)
  BY <1>2 DEF Inserted, Replaced, SP!CommitCreate, SP!CommitUpdate
<1>3. CASE SP!DeleteItem(r) \/ SP!InsertProfile(r) \/ SP!CommitDeletion(r) \/ SP!Grant(r)
  BY <1>3 DEF SP!DeleteItem, SP!InsertProfile, SP!CommitDeletion, SP!Grant, SP!history
<1>4. CASE Bound(r)
  BY <1>4 DEF Bound
<1>. QED  BY <1>1, <1>2, <1>3, <1>4, RowCases

\* A row that is there stays, and is not told to have been sealed under an older version.
LEMMA ItemsStay ==
  ASSUME SP!TypeOK, SP!ServerProfileConstants, NEW r \in Calls, RequestInv(r), SP!Step(r),
         NEW i \in SP!ItemIds, stored[i].state # "none", r # i
  PROVE  /\ stored'[i].state # "none"
         /\ SP!Active(i)' => SP!Active(i)
  BY ItemsAfter, RowIs DEF SP!Orphan, SP!Active

\* Whoever seals has the data key of the row, or finds the row without one and locked by itself.
LEMMA SealsUnder ==
  ASSUME SP!TypeOK, SP!ServerProfileConstants, Rows, NEW r \in Calls, RequestInv(r), Sealing(r)
  PROVE  /\ read[r].profile \in live =>
              /\ read[r].dek \in OldProfiles \cup Done \cup {r}
              /\ dek'[read[r].profile] = read[r].dek
              /\ dek[read[r].profile] = None => SP!Locks(r, read[r].profile)
         /\ \A p \in SP!ProfileIds : p # read[r].profile \/ p \notin live => dek'[p] = dek[p]
         /\ \A p \in SP!ProfileIds : dek[p] # None => dek'[p] = dek[p]
<1>1. at[r] = "write" /\ SP!Writes(r) /\ dek' = SP!Provisioned(r)
  BY SealingIs
<1>2. /\ live \subseteq SP!ProfileIds /\ None \notin SP!ProfileIds
      /\ \A p \in SP!ProfileIds : dek[p] \in {None} \cup OldProfiles \cup Done
  BY Names DEF SP!TypeOK, Rows
<1>3. Keyed(r)
  BY DEF RequestInv
<1>4. read[r].profile \in live =>
        /\ read[r].dek # None
        /\ dek[read[r].profile] = read[r].dek \/ (dek[read[r].profile] = None /\ read[r].dek = r)
  BY <1>1, <1>2, <1>3 DEF Keyed
<1>5. SP!Locks(r, read[r].profile)
  BY <1>1 DEF SP!Locks
<1>6. \A p \in SP!ProfileIds : dek'[p] = IF p \in live /\ p = read[r].profile THEN read[r].dek ELSE dek[p]
  BY <1>1 DEF SP!Provisioned
<1>. QED  BY <1>2, <1>4, <1>5, <1>6

\* Only a commit that seals writes a data key.
LEMMA DekKept ==
  ASSUME NEW r \in Calls, SP!Step(r)
  PROVE  Sealing(r) \/ dek' = dek
<1>1. CASE Kept
  BY <1>1 DEF Kept, SP!rows
<1>2. CASE SP!DeleteItem(r) \/ SP!InsertProfile(r) \/ SP!CommitDeletion(r) \/ SP!Grant(r) \/ Bound(r)
  BY <1>2 DEF SP!DeleteItem, SP!InsertProfile, SP!CommitDeletion, SP!Grant, Bound
<1>. QED  BY <1>1, <1>2, RowCases DEF Sealing

\* A profile comes by InsertProfile and goes by CommitDeletion.
LEMMA LiveAfter ==
  ASSUME NEW r \in Calls, SP!Step(r)
  PROVE  \/ live' = live
         \/ SP!InsertProfile(r) /\ live' = live \cup {r}
         \/ SP!CommitDeletion(r) /\ live' = live \ {on[r]}
<1>1. CASE Kept
  BY <1>1 DEF Kept, SP!rows
<1>2. CASE Inserted(r) \/ Replaced(r)
  BY <1>2 DEF Inserted, Replaced, SP!CommitCreate, SP!CommitUpdate
<1>3. CASE SP!DeleteItem(r) \/ SP!InsertProfile(r) \/ SP!CommitDeletion(r) \/ SP!Grant(r) \/ Bound(r)
  BY <1>3 DEF SP!DeleteItem, SP!InsertProfile, SP!CommitDeletion, SP!Grant, Bound
<1>. QED  BY <1>1, <1>2, <1>3, RowCases

\* Only a commit that seals counts.
LEMMA SealedSame ==
  ASSUME NEW r \in Calls, SP!Step(r), ~Sealing(r)
  PROVE  sealed' = sealed /\ count' = count
<1>1. CASE Kept
  BY <1>1 DEF Kept, SP!history, SP!rows
<1>2. CASE SP!DeleteItem(r) \/ SP!InsertProfile(r) \/ SP!CommitDeletion(r) \/ SP!Grant(r) \/ Bound(r)
  BY <1>2 DEF SP!DeleteItem, SP!InsertProfile, SP!CommitDeletion, SP!Grant, Bound, SP!history
<1>. QED  BY <1>1, <1>2, RowCases DEF Sealing

\* A step preserves Rows.
LEMMA RowsStep ==
  ASSUME SP!TypeOK, SP!ServerProfileConstants, Rows, NEW r \in Calls, RequestInv(r), SP!Step(r)
  PROVE  Rows'
<1>. USE Names
<1>0. /\ Done \subseteq Done' /\ Born \subseteq Born' /\ r \notin Born
  BY Monotone
<1>1. live' \subseteq Born'
  <2>1. CASE SP!InsertProfile(r)
    <3>1. at[r] = "cap" /\ at'[r] = "done" /\ op'[r] = op[r] /\ live' = live \cup {r}
      BY <2>1 DEF SP!InsertProfile, SP!Goto, SP!TypeOK
    <3>2. op[r] = "createProfile"
      BY <3>1 DEF RequestInv, Placed
    <3>. QED  BY <1>0, <3>1, <3>2 DEF Rows, Born, Done
  <2>2. CASE live' \subseteq live
    BY <1>0, <2>2 DEF Rows
  <2>. QED  BY <2>1, <2>2, LiveAfter
<1>2. ASSUME Sealing(r)
      PROVE  /\ r \in Done'
             /\ \A p \in SP!ProfileIds : sealed'[p] = IF p = read[r].profile THEN sealed[p] + 1 ELSE sealed[p]
             /\ read[r].profile \in Born \cup {None}
  BY <1>2, SealingIs, WriteTypes DEF Done, SP!SealedUnder
<1>3. \A p \in SP!ProfileIds \ Born' : dek'[p] = None /\ sealed'[p] = 0
  <2>1. CASE Sealing(r)
    BY <1>0, <1>2, <2>1, SealsUnder DEF Rows
  <2>2. CASE ~Sealing(r)
    <3>1. sealed' = sealed
      BY <2>2, SealedSame
    <3>. QED  BY <1>0, <2>2, <3>1, DekKept DEF Rows
  <2>. QED  BY <2>1, <2>2
<1>4. \A p \in SP!ProfileIds : dek'[p] \in {None} \cup OldProfiles \cup Done'
  <2>1. CASE Sealing(r)
    BY <1>0, <1>2, <2>1, SealsUnder DEF Rows
  <2>2. CASE ~Sealing(r)
    BY <1>0, <2>2, DekKept DEF Rows
  <2>. QED  BY <2>1, <2>2
<1>5. ASSUME NEW i \in SP!ItemIds
      PROVE  /\ stored'[i].profile \in live' \cup {None}
             /\ stored'[i].state # "none" => i \in OldItems \cup Done'
  <2>0. /\ stored[i].profile \in live \cup {None}
        /\ stored[i].state # "none" => i \in OldItems \cup Done'
    BY <1>0 DEF Rows
  <2>1. CASE SP!CommitDeletion(r)
    <3>1. /\ stored'[i] = IF stored[i].profile = on[r] THEN SP!Orphan(i) ELSE stored[i]
          /\ live' = live \ {on[r]}
      BY <2>1 DEF SP!CommitDeletion
    <3>. QED  BY <2>0, <3>1, RowIs DEF SP!Orphan
  <2>2. CASE Inserted(r)
    <3>1. r \in Done' /\ live' = live /\ read[r].profile \in live
      BY <1>2, <2>2, SealingIs DEF Sealing, Inserted
    <3>2. stored'[i] = IF i = r THEN SP!Row("active", read[r].profile, read[r].dek, read[r].profile, r, 0)
                     ELSE stored[i]
      <4>1. stored \in [SP!ItemIds -> SP!Item]
        BY DEF SP!TypeOK
      <4>. QED  BY <2>2, <4>1 DEF Inserted, SP!CommitCreate
    <3>. QED  BY <2>0, <3>1, <3>2, RowIs
  <2>3. CASE ~SP!CommitDeletion(r) /\ ~Inserted(r)
    <3>1. live \subseteq live'
      BY <2>3, LiveAfter
    <3>2. /\ stored'[i].profile = stored[i].profile \/ stored'[i].profile \in live
          /\ stored'[i].state = stored[i].state \/ stored[i].state = "active"
      BY <2>3, ItemsAfter, RowIs DEF SP!Active
    <3>. QED  BY <2>0, <3>1, <3>2
  <2>. QED  BY <2>1, <2>2, <2>3
<1>. QED  BY <1>1, <1>3, <1>4, <1>5 DEF Rows

-----------------------------------------------------------------------------
(* Where a request is, and what it has locked *)

\* A step preserves Placed.
LEMMA PlacedStep ==
  ASSUME SP!TypeOK, SP!ServerProfileConstants, NEW r \in Calls, Placed(r), SP!Step(r)
  PROVE  Placed(r)'
<1>0. /\ op \in [Calls -> SP!Ops] /\ at \in [Calls -> SP!Stages]
  BY DEF SP!TypeOK
<1>. USE DEF SP!Goto, SP!Sends
<1>1. Writing(r)' => SP!Writes(r)'
  <2>1. CASE SP!ResolveTargetProfile(r) \/ SP!LoadOwnedItem(r)
    BY <1>0, <2>1 DEF SP!ResolveTargetProfile, SP!LoadOwnedItem, SP!Writes
  <2>2. CASE SP!LoadWrappedDek(r) \/ SP!EnsureProfileDek(r) \/ SP!CountEncryption(r)
    BY <2>2 DEF SP!LoadWrappedDek, SP!EnsureProfileDek, SP!CountEncryption, SP!Writes, Placed,
       Writing
  <2>. QED  BY <2>1, <2>2, StageOf DEF Writing
<1>2. Deletes(r)' => op'[r] = "deleteProfile"
  <2>1. CASE SP!CheckEmpty(r)
    BY <1>0, <2>1 DEF SP!CheckEmpty
  <2>2. CASE SP!SnapshotGrants(r)
    BY <2>2 DEF SP!SnapshotGrants, Placed, Deletes
  <2>. QED  BY <2>1, <2>2, StageOf DEF Deletes
<1>3. at'[r] = "cap" => op'[r] = "createProfile"
  BY <1>0, StageOf DEF SP!AssertPersonalProfileCap
<1>4. at'[r] = "bind" => op'[r] = "backfill"
  <2>1. CASE SP!ListUnbound(r)
    BY <1>0, <2>1 DEF SP!ListUnbound
  <2>2. CASE SP!Bind(r)
    BY <2>2 DEF SP!Bind, Placed
  <2>. QED  BY <2>1, <2>2, StageOf
<1>. QED  BY <1>1, <1>2, <1>3, <1>4 DEF Placed

\* A request that does not move keeps its locks.
LEMMA LocksSame ==
  ASSUME NEW s, Same(s), NEW p
  PROVE  SP!Locks(s, p)' <=> SP!Locks(s, p)
BY DEF Same, SP!Locks, SP!Writes

\* A request locks a row that nobody else has locked.
LEMMA LocksOwn ==
  ASSUME SP!TypeOK, SP!ServerProfileConstants, Rows, NEW r \in Calls, RequestInv(r), SP!Step(r),
         NEW p \in SP!ProfileIds, SP!Locks(r, p)'
  PROVE  SP!Locks(r, p) \/ ~SP!Locked(r, p)
<1>. USE DEF SP!Goto
<1>0. /\ at \in [Calls -> SP!Stages] /\ None \notin SP!ProfileIds
      /\ \A q \in SP!ProfileIds : dek[q] \in {None} \cup OldProfiles \cup Done
      /\ r \notin Done /\ r \notin OldProfiles /\ read[r].profile \in SP!ProfileIds \cup {None}
      /\ live \subseteq SP!ProfileIds /\ r # None
  BY Monotone, Names DEF SP!TypeOK, Rows
<1>1. /\ at'[r] \in {"count", "write"} /\ read'[r].profile = p
      /\ at'[r] = "count" => read'[r].dek = r
  BY DEF SP!Locks
<1>2. CASE SP!ResolveTargetProfile(r)
  BY <1>0, <1>1, <1>2 DEF SP!ResolveTargetProfile
<1>3. CASE SP!LoadOwnedItem(r)
  <2>1. PICK i \in SP!ItemIds : 
          /\ read' = [read EXCEPT ![r] = SP!Reading(stored[i].profile, None, stored[i].text, stored[i].version)]
          /\ at' = [at EXCEPT ![r] = IF stored[i].profile = None THEN "write" ELSE "resolved"]
    BY <1>3 DEF SP!LoadOwnedItem
  <2>2. read'[r].profile = stored[i].profile
    BY <2>1 DEF SP!Reading, SP!TypeOK
  <2>. QED  BY <1>0, <1>1, <2>1, <2>2
<1>4. CASE SP!LoadWrappedDek(r)
  <2>1. /\ at'[r] = "count"
        /\ \E d \in {None} \cup OldProfiles \cup Done : read'[r] = SP!WithDek(r, d) /\ d # None
    BY <1>0, <1>1, <1>4 DEF SP!LoadWrappedDek, SP!TypeOK
  <2>. QED  BY <1>0, <1>1, <2>1 DEF SP!WithDek, SP!Reading
<1>5. CASE SP!EnsureProfileDek(r)
  <2>1. read'[r].profile = read[r].profile /\ ~SP!Locked(r, read[r].profile)
    BY <1>0, <1>1, <1>5 DEF SP!EnsureProfileDek, SP!WithDek, SP!Reading, SP!TypeOK
  <2>. QED  BY <1>1, <2>1
<1>6. CASE SP!CountEncryption(r)
  BY <1>1, <1>6 DEF SP!CountEncryption
<1>. QED  BY <1>1, <1>2, <1>3, <1>4, <1>5, <1>6, StageOf

\* A step preserves OneLock.
LEMMA OneLockStep ==
  ASSUME SP!TypeOK, SP!ServerProfileConstants, Rows, OneLock, NEW r \in Calls, RequestInv(r), SP!Step(r)
  PROVE  OneLock'
<1>1. \A s \in Calls \ {r} : Same(s)
  BY LocalStep, Types
<1>2. \A s \in Calls \ {r}, p \in SP!ProfileIds : SP!Locks(s, p)' => SP!Locks(s, p)
  BY <1>1, LocksSame
<1>3. SUFFICES ASSUME NEW s \in Calls \ {r}, NEW p \in SP!ProfileIds, SP!Locks(r, p)', SP!Locks(s, p)'
               PROVE  FALSE
  BY <1>2 DEF OneLock
<1>4. SP!Locks(s, p)
  BY <1>2, <1>3
<1>5. SP!Locked(r, p)
  BY <1>4 DEF SP!Locked
<1>6. SP!Locks(r, p)
  BY <1>3, <1>5, LocksOwn
<1>. QED  BY <1>4, <1>6 DEF OneLock

-----------------------------------------------------------------------------
(* What a request has read *)

\* How the reading and the data key of a request that goes on writing come about.
LEMMA WritingAfter ==
  ASSUME SP!TypeOK, SP!ServerProfileConstants, NEW r \in Calls, Placed(r), SP!Step(r), Writing(r)'
  PROVE  /\ Kept
         /\ \/ /\ at'[r] = "resolved" /\ op'[r] = "create" /\ read'[r].profile \in live
            \/ /\ op'[r] = "update" /\ on'[r] \in SP!ItemIds /\ SP!Active(on'[r])
               /\ at'[r] = IF read'[r].profile = None THEN "write" ELSE "resolved"
               /\ read'[r].profile = stored[on'[r]].profile
               /\ read'[r].text = stored[on'[r]].text /\ read'[r].version = stored[on'[r]].version
               /\ read'[r].version < MaxVersion
            \/ /\ Writing(r) /\ at[r] # "write" /\ op'[r] = op[r] /\ on'[r] = on[r]
               /\ read'[r].profile = read[r].profile /\ read'[r].text = read[r].text
               /\ read'[r].version = read[r].version
               /\ \/ at'[r] = "provision"
                  \/ /\ at'[r] = "count" /\ read[r].profile \in live
                     /\ read'[r].dek \in {r, dek[read[r].profile]} \ {None}
                     /\ read'[r].dek # dek[read[r].profile] => dek[read[r].profile] = None
                  \/ at[r] = "count" /\ at'[r] = "write" /\ read'[r] = read[r]
<1>. USE DEF SP!Goto, SP!Sends
<1>0. /\ op \in [Calls -> SP!Ops] /\ at \in [Calls -> SP!Stages] /\ on \in [Calls -> SP!ProfileIds \cup SP!ItemIds]
      /\ read \in [Calls -> [profile : SP!ProfileIds \cup {None}, dek : SP!ProfileIds \cup {None},
                                text : SP!Texts, version : 0..MaxVersion]]
      /\ None \notin SP!ProfileIds /\ r \in SP!ProfileIds /\ live \subseteq SP!ProfileIds
      /\ dek \in [SP!ProfileIds -> SP!ProfileIds \cup {None}]
  BY Names DEF SP!TypeOK
<1>1. CASE SP!ResolveTargetProfile(r)
  <2>1. PICK p \in live : /\ op' = [op EXCEPT ![r] = "create"]
                          /\ read' = [read EXCEPT ![r] = SP!Reading(p, None, r, 0)]
    BY <1>1 DEF SP!ResolveTargetProfile
  <2>2. at'[r] = "resolved" /\ UNCHANGED <<SP!rows, SP!history>>
    BY <1>0, <1>1 DEF SP!ResolveTargetProfile
  <2>. QED  BY <1>0, <2>1, <2>2 DEF SP!Reading, Kept
<1>2. CASE SP!LoadOwnedItem(r)
  <2>1. PICK i \in SP!ItemIds :
          /\ SP!Active(i) /\ stored[i].version < MaxVersion
          /\ op' = [op EXCEPT ![r] = "update"] /\ on' = [on EXCEPT ![r] = i]
          /\ read' = [read EXCEPT ![r] = SP!Reading(stored[i].profile, None, stored[i].text, stored[i].version)]
          /\ at' = [at EXCEPT ![r] = IF stored[i].profile = None THEN "write" ELSE "resolved"]
          /\ UNCHANGED <<SP!rows, SP!history>>
    BY <1>2 DEF SP!LoadOwnedItem
  <2>2. op'[r] = "update" /\ on'[r] = i
        /\ read'[r] = SP!Reading(stored[i].profile, None, stored[i].text, stored[i].version)
        /\ at'[r] = IF stored[i].profile = None THEN "write" ELSE "resolved"
    BY <1>0, <2>1
  <2>. QED  BY <2>1, <2>2 DEF SP!Reading, Kept
<1>3. CASE SP!LoadWrappedDek(r)
  <2>. DEFINE found == IF read[r].profile \in live THEN dek[read[r].profile] ELSE None
  <2>1. /\ at[r] = "resolved" /\ UNCHANGED <<SP!rows, op, on, SP!history>>
        /\ read'[r] = SP!WithDek(r, found)
        /\ at'[r] = IF found = None THEN "provision" ELSE "count"
    BY <1>0, <1>3 DEF SP!LoadWrappedDek
  <2>. QED  BY <1>0, <2>1 DEF SP!WithDek, SP!Reading, Kept, Writing
<1>4. CASE SP!EnsureProfileDek(r)
  <2>1. /\ at[r] = "provision" /\ UNCHANGED <<SP!rows, op, on, SP!history>>
        /\ \/ at'[r] = "refused"
           \/ /\ at'[r] = "count" /\ read[r].profile \in live
              /\ read'[r] = SP!WithDek(r, IF dek[read[r].profile] = None THEN r ELSE dek[read[r].profile])
    BY <1>0, <1>4 DEF SP!EnsureProfileDek, SP!FirstWriter
  <2>. QED  BY <1>0, <2>1 DEF SP!WithDek, SP!Reading, Kept, Writing
<1>5. CASE SP!CountEncryption(r)
  BY <1>0, <1>5 DEF SP!CountEncryption, Kept, Writing
<1>. QED  BY <1>1, <1>2, <1>3, <1>4, <1>5, StageOf DEF Writing

\* After ListUnbound the script only ticks its list off.
LEMMA ListedShrinks ==
  ASSUME SP!TypeOK, NEW r \in Calls, SP!Step(r), ~SP!ListUnbound(r)
  PROVE  listed'[r] \subseteq listed[r]
<1>1. CASE SP!Bind(r)
  BY <1>1 DEF SP!Bind, SP!TypeOK
<1>2. CASE SP!ResolveTargetProfile(r) \/ SP!LoadOwnedItem(r) \/ SP!LoadWrappedDek(r) \/ SP!EnsureProfileDek(r)
           \/ SP!CountEncryption(r) \/ SP!CommitCreate(r) \/ SP!CommitUpdate(r) \/ SP!DeleteItem(r)
  BY <1>2 DEF SP!ResolveTargetProfile, SP!LoadOwnedItem, SP!LoadWrappedDek, SP!EnsureProfileDek,
              SP!CountEncryption, SP!CommitCreate, SP!CommitUpdate, SP!DeleteItem
<1>3. CASE SP!AssertPersonalProfileCap(r) \/ SP!InsertProfile(r) \/ SP!CheckEmpty(r) \/ SP!SnapshotGrants(r)
           \/ SP!CommitDeletion(r) \/ SP!Grant(r) \/ SP!Abort(r) \/ SP!EndBackfill(r)
  BY <1>3 DEF SP!AssertPersonalProfileCap, SP!InsertProfile, SP!CheckEmpty, SP!SnapshotGrants,
     SP!CommitDeletion,
              SP!Grant, SP!Abort, SP!EndBackfill
<1>. QED  BY <1>1, <1>2, <1>3 DEF SP!Step

\* A step of any request preserves Reads of each.
LEMMA ReadsStep ==
  ASSUME SP!TypeOK, SP!ServerProfileConstants, Rows, NEW r \in Calls, RequestInv(r), SP!Step(r),
         NEW s \in Calls, Reads(s)
  PROVE  Reads(s)'
<1>0. /\ Born \subseteq Born' /\ r \notin Born /\ r \notin OldItems /\ r \notin Done
      /\ \A q \in Calls \ {r} : Same(q)
  BY Monotone, LocalStep, Types
<1>1. \A i \in SP!ItemIds : stored[i].state # "none" => stored'[i].state # "none"
  BY <1>0, ItemsStay DEF Rows
<1>2. listed[s] \subseteq SP!ItemIds \X SP!Texts
  BY DEF SP!TypeOK
<1>3. CASE s # r
  <2>1. Same(s)
    BY <1>0, <1>3
  <2>. QED  BY <1>0, <1>1, <1>2, <2>1 DEF Reads, Same, Writing, Updating
<1>4. CASE s = r
  <2>1. ASSUME Writing(r)'
        PROVE  /\ read'[r].profile \in Born' \cup {None}
               /\ at'[r] # "write" \/ op'[r] = "create" => read'[r].profile # None
               /\ op'[r] = "update" =>
                    /\ on'[r] \in SP!ItemIds /\ stored'[on'[r]].state # "none"
                    /\ read'[r].version < MaxVersion
    <3>1. Kept
      BY <2>1, WritingAfter DEF RequestInv
    <3>2. /\ live \subseteq Born /\ None \notin live /\ stored' = stored
          /\ \A i \in SP!ItemIds : stored[i].profile \in live \cup {None}
      BY <3>1, Names DEF Rows, Kept, SP!rows, SP!TypeOK
    <3>3. CASE at'[r] = "resolved" /\ op'[r] = "create" /\ read'[r].profile \in live
      BY <1>0, <3>2, <3>3
    <3>4. CASE /\ op'[r] = "update" /\ on'[r] \in SP!ItemIds /\ SP!Active(on'[r])
               /\ at'[r] = IF read'[r].profile = None THEN "write" ELSE "resolved"
               /\ read'[r].profile = stored[on'[r]].profile
               /\ read'[r].version < MaxVersion
      BY <1>0, <3>2, <3>4 DEF SP!Active
    <3>5. CASE /\ Writing(r) /\ at[r] # "write" /\ op'[r] = op[r] /\ on'[r] = on[r]
               /\ read'[r].profile = read[r].profile /\ read'[r].version = read[r].version
      BY <1>0, <3>2, <3>5 DEF RequestInv, Reads, Updating
    <3>. QED  BY <2>1, <3>3, <3>4, <3>5, WritingAfter DEF RequestInv
  <2>2. \A row \in listed'[r] : stored'[row[1]].state # "none"
    <3>1. CASE SP!ListUnbound(r)
      <4>1. PICK p \in live :
              /\ listed' = [listed EXCEPT ![r] = {<<i, stored[i].text>> : i \in {j \in SP!ActiveIn(None) : SP!Opens(j)}}]
              /\ stored' = stored
        BY <3>1 DEF SP!ListUnbound, SP!rows
      <4>2. listed'[r] = {<<i, stored[i].text>> : i \in {j \in SP!ActiveIn(None) : SP!Opens(j)}}
        BY <4>1 DEF SP!TypeOK
      <4>. QED  BY <4>1, <4>2 DEF SP!ActiveIn, SP!Active
    <3>2. CASE listed'[r] \subseteq listed[r]
      BY <1>1, <1>2, <1>4, <3>2 DEF Reads
    <3>. QED  BY <3>1, <3>2, ListedShrinks
  <2>. QED  BY <1>4, <2>1, <2>2 DEF Reads, Updating
<1>. QED  BY <1>3, <1>4

\* A step preserves Keyed: the lock of a data key of one's own excludes the other writers.
LEMMA KeyedStep ==
  ASSUME SP!TypeOK, SP!ServerProfileConstants, Rows, OneLock, NEW r \in Calls, RequestInv(r), SP!Step(r),
         NEW s \in Calls, RequestInv(s)
  PROVE  Keyed(s)'
<1>0. /\ r \notin Born /\ \A q \in Calls \ {r} : Same(q)
      /\ live \subseteq Born /\ None \notin SP!ProfileIds
      /\ Born \subseteq SP!ProfileIds
  BY Monotone, LocalStep, Types, Names DEF Rows, Born, Done, SP!ProfileIds
<1>1. CASE s # r
  <2>. DEFINE p == read[s].profile
  <2>1. SUFFICES ASSUME at[s] \in {"count", "write"}, p # None
                 PROVE  /\ read[s].dek # None
                        /\ p \in live' =>
                             dek'[p] = read[s].dek \/ (dek'[p] = None /\ read[s].dek = s)
    <3>1. Same(s)
      BY <1>0, <1>1
    <3>. QED  BY <2>1, <3>1 DEF Keyed, Same
  <2>2. p \in Born /\ SP!Writes(s)
    BY <2>1 DEF RequestInv, Reads, Placed, Writing
  <2>3. p \in live' => p \in live
    BY <1>0, <2>2, LiveAfter
  <2>4. /\ read[s].dek # None
        /\ p \in live => dek[p] = read[s].dek \/ (dek[p] = None /\ read[s].dek = s)
    BY <2>1 DEF RequestInv, Keyed
  <2>5. CASE ~Sealing(r)
    BY <2>3, <2>4, <2>5, DekKept
  <2>6. CASE Sealing(r)
    <3>1. p \in live /\ dek[p] = None => SP!Locks(s, p)
      BY <2>1, <2>2, <2>4 DEF SP!Locks
    <3>2. p \in live /\ dek[p] = None => dek'[p] = None
      BY <1>0, <1>1, <2>2, <2>6, <3>1, SealsUnder DEF OneLock
    <3>3. p \in live /\ dek[p] # None => dek'[p] = dek[p]
      BY <1>0, <2>2, <2>6, SealsUnder
    <3>. QED  BY <2>3, <2>4, <3>2, <3>3
  <2>. QED  BY <2>5, <2>6
<1>2. CASE s = r
  <2>1. SUFFICES ASSUME at'[r] \in {"count", "write"}, read'[r].profile # None
                 PROVE  /\ read'[r].dek # None
                        /\ read'[r].profile \in live' =>
                             \/ dek'[read'[r].profile] = read'[r].dek
                             \/ dek'[read'[r].profile] = None /\ read'[r].dek = r
    BY <1>2 DEF Keyed
  <2>2. Kept
    BY <2>1, WritingAfter DEF Writing, RequestInv
  <2>3. live' = live /\ dek' = dek
    BY <2>2 DEF Kept, SP!rows
  <2>4. CASE /\ at'[r] = "count" /\ read[r].profile \in live
             /\ read'[r].profile = read[r].profile
             /\ read'[r].dek \in {r, dek[read[r].profile]} \ {None}
             /\ read'[r].dek # dek[read[r].profile] => dek[read[r].profile] = None
    BY <2>3, <2>4
  <2>5. CASE at[r] = "count" /\ at'[r] = "write" /\ read'[r] = read[r]
    BY <2>1, <2>3, <2>5 DEF RequestInv, Keyed
  <2>. QED  BY <2>1, <2>4, <2>5, WritingAfter DEF Writing, RequestInv
<1>. QED  BY <1>1, <1>2

-----------------------------------------------------------------------------
(* Deletions of profiles, and updates *)

\* A step preserves Emptied: what is committed behind a deletion's readings is late.
LEMMA EmptiedStep ==
  ASSUME SP!TypeOK, SP!ServerProfileConstants, Rows, NEW r \in Calls, RequestInv(r), SP!Step(r),
         NEW s \in Calls, RequestInv(s)
  PROVE  Emptied(s)'
<1>0. /\ \A q \in Calls \ {r} : Same(q)
      /\ late \subseteq late' /\ None \notin SP!ProfileIds \cup SP!ItemIds /\ r \in SP!ItemIds /\ r \in SP!GrantIds
      /\ on[s] \in SP!ProfileIds \cup SP!ItemIds
  BY LocalStep, Types, Grown, Names DEF SP!TypeOK
<1>1. CASE s # r
  <2>0. Same(s)
    BY <1>0, <1>1
  <2>1. ASSUME Deletes(s), NEW i \in SP!ItemIds, SP!Active(i)', stored'[i].profile = on[s]
        PROVE  i \in late'
    <3>1. op[s] = "deleteProfile"
      BY <2>1 DEF RequestInv, Placed
    <3>2. SP!Deleting(on[s], {"empty", "snapshot"})
      BY <2>1, <3>1 DEF Deletes, SP!Deleting
    <3>3. SP!Active(i) /\ stored[i].profile = on[s] => i \in late
      BY <2>1 DEF RequestInv, Emptied, SP!ActiveIn
    <3>4. CASE Inserted(r) /\ i = r
      <4>1. stored'[r].profile = read[r].profile
        BY <1>0, <3>4, ItemsAfter, InsertedIs, RowIs
      <4>2. late' = late \cup {r}
        BY <2>1, <3>2, <3>4, <4>1, InsertedIs
      <4>. QED  BY <3>4, <4>2
    <3>5. CASE ~(Inserted(r) /\ i = r) /\ ~Bound(r)
      <4>1. SP!Active(i) /\ stored[i].profile = on[s]
        BY <1>0, <2>1, <3>5, ItemsAfter, RowIs DEF SP!Active, SP!Orphan
      <4>. QED  BY <1>0, <3>3, <4>1
    <3>6. CASE Bound(r)
      <4>1. CASE stored'[i] = stored[i]
        BY <1>0, <2>1, <3>3, <4>1 DEF SP!Active
      <4>2. CASE /\ \E t \in SP!Texts : stored'[i] = SP!Row(stored[i].state, on[r], Master, on[r], t, stored[i].version)
                 /\ SP!Active(i) /\ SP!Deleting(on[r], {"empty", "snapshot"}) => i \in late'
        BY <2>1, <3>2, <4>2, RowIs DEF SP!Active
      <4>. QED  BY <3>6, <4>1, <4>2, BoundItems
    <3>. QED  BY <3>4, <3>5, <3>6
  <2>2. ASSUME at[s] = "snapshot", NEW g \in SP!GrantIds, grant'[g] = on[s]
        PROVE  g \in picked[s] \cup late'
    <3>1. op[s] = "deleteProfile" /\ SP!Deleting(on[s], {"snapshot"})
      BY <2>2 DEF RequestInv, Placed, Deletes, SP!Deleting
    <3>2. grant[g] = on[s] => g \in picked[s] \cup late
      BY <2>2 DEF RequestInv, Emptied, SP!GrantsOn
    <3>3. CASE SP!Grant(r)
      <4>1. PICK p \in live :
              /\ grant' = [grant EXCEPT ![r] = p]
              /\ late' = IF SP!Deleting(p, {"snapshot"}) THEN late \cup {r} ELSE late
        BY <3>3 DEF SP!Grant
      <4>2. CASE g = r
        BY <1>0, <2>2, <3>1, <4>1, <4>2 DEF SP!TypeOK
      <4>3. CASE g # r
        BY <1>0, <2>2, <3>2, <4>1, <4>3 DEF SP!TypeOK
      <4>. QED  BY <4>2, <4>3
    <3>4. CASE ~SP!Grant(r)
      <4>1. grant'[g] = grant[g] \/ grant'[g] = None
        BY <3>4, GrantsAfter
      <4>. QED  BY <1>0, <2>2, <3>2, <4>1
    <3>. QED  BY <3>3, <3>4
  <2>. QED  BY <2>0, <2>1, <2>2 DEF Emptied, SP!ActiveIn, SP!GrantsOn, Deletes, Same
<1>2. CASE s = r
  <2>1. CASE SP!CheckEmpty(r)
    <3>1. PICK p \in live : SP!Sends(r, "deleteProfile", p) /\ SP!Goto(r, IF SP!ActiveIn(p) = {} THEN "empty" ELSE "refused")
                            /\ stored' = stored
      BY <2>1 DEF SP!CheckEmpty, SP!rows
    <3>2. on'[r] = p /\ at'[r] = IF SP!ActiveIn(p) = {} THEN "empty" ELSE "refused"
      BY <3>1 DEF SP!Sends, SP!Goto, SP!TypeOK
    <3>3. SP!ActiveIn(p)' = SP!ActiveIn(p)
      BY <3>1 DEF SP!ActiveIn, SP!Active
    <3>. QED  BY <1>2, <3>2, <3>3 DEF Emptied, Deletes, SP!ActiveIn, SP!Active
  <2>2. CASE SP!SnapshotGrants(r)
    <3>1. /\ at[r] = "empty" /\ UNCHANGED <<stored, grant, late, on>> /\ picked'[r] = SP!GrantsOn(on[r])
      BY <2>2 DEF SP!SnapshotGrants, SP!rows, SP!history, SP!TypeOK
    <3>2. SP!ActiveIn(on[r]) \subseteq late
      BY <3>1 DEF RequestInv, Emptied, Deletes
    <3>. QED  BY <1>2, <3>1, <3>2 DEF Emptied, Deletes, SP!ActiveIn, SP!Active, SP!GrantsOn
  <2>. QED  BY <1>2, <2>1, <2>2, StageOf DEF Emptied, Deletes
<1>. QED  BY <1>1, <1>2

\* A step preserves Based: the version tells every content but those the script put back.
LEMMA BasedStep ==
  ASSUME SP!TypeOK, SP!ServerProfileConstants, Rows, NEW r \in Calls, RequestInv(r), SP!Step(r),
         NEW s \in Calls, RequestInv(s)
  PROVE  Based(s)'
<1>0. /\ \A q \in Calls \ {r} : Same(q)
      /\ late \subseteq late' /\ crossed \subseteq crossed' /\ r \notin Done /\ r \notin OldItems
  BY LocalStep, Types, Grown, Monotone
<1>1. CASE s # r
  <2>. DEFINE i == on[s]
  <2>1. SUFFICES ASSUME Updating(s)
                 PROVE  /\ stored'[i].state = "active" /\ i \notin late' \cup crossed' =>
                             stored'[i].profile = read[s].profile
                        /\ stored'[i].version >= read[s].version
                        /\ stored'[i].version = read[s].version =>
                             stored'[i].text = read[s].text \/ i \in crossed'
    <3>1. Same(s)
      BY <1>0, <1>1
    <3>. QED  BY <2>1, <3>1 DEF Based, Updating, Writing, SP!Active, Same
  <2>2. /\ i \in SP!ItemIds /\ stored[i].state # "none" /\ i # r
        /\ stored[i].version \in Nat /\ read[s].version \in Nat
    <3>1. i \in SP!ItemIds /\ stored[i].state # "none"
      BY <2>1 DEF RequestInv, Reads
    <3>. QED  BY <1>0, <2>1, <3>1, RowFields, Types DEF Rows, LocalTypes
  <2>3. /\ SP!Active(i) /\ i \notin late \cup crossed => stored[i].profile = read[s].profile
        /\ stored[i].version >= read[s].version
        /\ stored[i].version = read[s].version => stored[i].text = read[s].text \/ i \in crossed
    BY <2>1 DEF RequestInv, Based
  <2>4. CASE stored'[i] = stored[i]
    BY <1>0, <2>3, <2>4 DEF SP!Active
  <2>5. CASE Replaced(r)
    <3>1. CASE i = on[r]
      <4>1. stored'[i] = SP!Row(stored[i].state, stored[i].profile,
                           IF read[r].profile = None THEN Master ELSE read[r].dek,
                           read[r].profile, r, read[r].version + 1)
            /\ stored[i].version = read[r].version
        <5>1. stored \in [SP!ItemIds -> SP!Item]
          BY DEF SP!TypeOK
        <5>. QED  BY <2>2, <2>5, <3>1, <5>1 DEF Replaced, SP!CommitUpdate, SP!SameVersion
      <4>2. /\ stored'[i].version = stored[i].version + 1 /\ stored'[i].profile = stored[i].profile
            /\ stored'[i].state = stored[i].state
        BY <4>1, RowIs
      <4>3. stored'[i].version > read[s].version
        BY <2>2, <2>3, <4>2
      <4>4. /\ stored'[i].version >= read[s].version /\ stored'[i].version # read[s].version
        BY <2>2, <4>2, <4>3
      <4>. QED  BY <1>0, <2>3, <4>2, <4>4 DEF SP!Active
    <3>2. CASE i # on[r]
      <4>1. stored'[i] = stored[i]
        <5>1. stored \in [SP!ItemIds -> SP!Item]
          BY DEF SP!TypeOK
        <5>. QED  BY <2>2, <2>5, <3>2, <5>1 DEF Replaced, SP!CommitUpdate
      <4>. QED  BY <2>4, <4>1
    <3>. QED  BY <3>1, <3>2
  <2>6. CASE stored'[i] = SP!Row("deleted", stored[i].profile, stored[i].key, stored[i].aad,
                            stored[i].text, stored[i].version)
    BY <1>0, <2>3, <2>6, RowIs DEF SP!Active
  <2>7. CASE SP!CommitDeletion(r)
    <3>1. stored'[i] = IF stored[i].profile = on[r] THEN SP!Orphan(i) ELSE stored[i]
      BY <2>2, <2>7 DEF SP!CommitDeletion
    <3>2. CASE stored[i].profile = on[r]
      <4>1. SP!Active(i) => i \in late
        BY <2>2, <2>7, <3>2 DEF SP!CommitDeletion, RequestInv, Emptied, Deletes, SP!ActiveIn
      <4>2. /\ stored'[i].state = stored[i].state /\ stored'[i].version = stored[i].version
            /\ stored'[i].text = stored[i].text
        BY <3>1, <3>2, RowIs DEF SP!Orphan
      <4>. QED  BY <1>0, <2>3, <4>1, <4>2 DEF SP!Active
    <3>. QED  BY <2>4, <3>1, <3>2
  <2>8. CASE Bound(r)
    <3>1. SP!InFlight(i)
      BY <2>1 DEF SP!InFlight, Updating, Writing
    <3>2. CASE /\ \E t \in SP!Texts : stored'[i] = SP!Row(stored[i].state, on[r], Master, on[r], t, stored[i].version)
               /\ SP!InFlight(i) => i \in crossed'
      BY <2>3, <3>1, <3>2, RowIs
    <3>. QED  BY <2>2, <2>4, <2>8, <3>2, BoundItems
  <2>. QED  BY <2>2, <2>4, <2>5, <2>6, <2>7, <2>8, ItemsAfter
<1>2. CASE s = r
  <2>1. SUFFICES ASSUME Writing(r)', op'[r] = "update"
                 PROVE  /\ SP!Active(on'[r]) /\ on'[r] \notin late \cup crossed =>
                             stored[on'[r]].profile = read'[r].profile
                        /\ stored[on'[r]].version >= read'[r].version
                        /\ stored[on'[r]].version = read'[r].version =>
                             stored[on'[r]].text = read'[r].text \/ on'[r] \in crossed
    <3>1. ASSUME Updating(r)'
          PROVE  Kept
      BY <3>1, WritingAfter DEF RequestInv, Updating
    <3>2. ASSUME Updating(r)'
          PROVE  stored' = stored /\ late' = late /\ crossed' = crossed
      BY <3>1, <3>2 DEF Kept, SP!rows, SP!history
    <3>. QED  BY <1>2, <2>1, <3>2 DEF Based, Updating, SP!Active
  <2>2. CASE /\ on'[r] \in SP!ItemIds
             /\ read'[r].profile = stored[on'[r]].profile
             /\ read'[r].text = stored[on'[r]].text /\ read'[r].version = stored[on'[r]].version
    <3>1. stored[on'[r]].version \in Nat
      BY <2>2, RowFields, Types
    <3>. QED  BY <2>2, <3>1
  <2>3. CASE /\ Writing(r) /\ op'[r] = op[r] /\ on'[r] = on[r]
             /\ read'[r].profile = read[r].profile /\ read'[r].text = read[r].text
             /\ read'[r].version = read[r].version
    BY <2>1, <2>3 DEF RequestInv, Based, Updating
  <2>. QED  BY <2>1, <2>2, <2>3, WritingAfter DEF RequestInv
<1>. QED  BY <1>1, <1>2

\* A step preserves Capped: of a personal account, one creation is past the cap at a time.
LEMMA CappedStep ==
  ASSUME SP!TypeOK, SP!ServerProfileConstants, Capped, NEW r \in Calls, Placed(r), SP!Step(r)
  PROVE  Capped'
<1>0. /\ \A q \in Calls \ {r} : Same(q) /\ personal' = personal
  BY LocalStep, Types
<1>1. SUFFICES ASSUME personal
               PROVE  /\ \A p, q \in live' : p = q
                      /\ \A s \in Calls : at'[s] = "cap" =>
                           live' = {} /\ \A q \in Calls : at'[q] = "cap" => q = s
  <2>1. personal' = personal
    BY LocalStep, Types
  <2>. QED  BY <1>1, <2>1 DEF Capped
<1>2. /\ \A p, q \in live : p = q
      /\ \A s \in Calls : at[s] = "cap" =>
           live = {} /\ \A q \in Calls : at[q] = "cap" => q = s
  BY <1>1 DEF Capped
<1>3. \A q \in Calls \ {r} : at'[q] = at[q]
  BY <1>0 DEF Same
<1>4. CASE SP!InsertProfile(r)
  <2>1. at[r] = "cap" /\ live' = live \cup {r} /\ at'[r] = "done"
    BY <1>4 DEF SP!InsertProfile, SP!Goto, SP!TypeOK
  <2>. QED  BY <1>2, <1>3, <2>1
<1>5. CASE SP!AssertPersonalProfileCap(r)
  <2>1. /\ SP!HasOrgLock(r) /\ live' = live
        /\ at'[r] = IF live = {} THEN "cap" ELSE "refused"
    BY <1>1, <1>5 DEF SP!AssertPersonalProfileCap, SP!Goto, SP!TypeOK, SP!rows
  <2>. QED  BY <1>2, <1>3, <2>1 DEF SP!HasOrgLock
<1>6. CASE ~SP!InsertProfile(r) /\ ~SP!AssertPersonalProfileCap(r)
  <2>1. at'[r] # "cap" /\ live' \subseteq live
    BY <1>6, StageOf, LiveAfter
  <2>. QED  BY <1>2, <1>3, <2>1
<1>. QED  BY <1>4, <1>5, <1>6

-----------------------------------------------------------------------------
(* What is stored *)

\* A step preserves ActiveItemOpens.
LEMMA OpensStep ==
  ASSUME SP!TypeOK, SP!ServerProfileConstants, Rows, SP!ActiveItemOpens,
         NEW r \in Calls, RequestInv(r), SP!Step(r)
  PROVE  SP!ActiveItemOpens'
<1>. SUFFICES ASSUME NEW i \in SP!ItemIds, i \notin late', i \notin crossed', SP!Active(i)'
              PROVE  SP!Opens(i)'
  BY DEF SP!ActiveItemOpens
<1>0. /\ i \notin late /\ i \notin crossed /\ stored[i].key \in SP!ProfileIds \cup {Master}
      /\ None \notin SP!ProfileIds /\ None # Master
  BY Grown, RowFields, Types, Names DEF SP!Keys
<1>1. \A p \in SP!ProfileIds : dek[p] # None => dek'[p] = dek[p]
  BY DekKept, SealsUnder
<1>2. ASSUME SP!Active(i)
      PROVE  /\ SP!Opens(i) /\ stored[i].profile \in SP!ProfileIds \cup {None}
             /\ stored[i].key # Master => dek'[stored[i].profile] = dek[stored[i].profile]
  <2>1. SP!Opens(i) /\ stored[i].profile \in SP!ProfileIds \cup {None}
    BY <1>0, <1>2, RowFields, Types DEF SP!ActiveItemOpens
  <2>. QED  BY <1>0, <1>1, <2>1 DEF SP!Opens
<1>3. CASE Sealing(r) /\ stored'[i] # stored[i]
  <2>. DEFINE p == read[r].profile
  <2>1. /\ stored'[i].profile = p /\ stored'[i].aad = p
        /\ stored'[i].key = IF p = None THEN Master ELSE read[r].dek
        /\ p \in live \cup {None}
    <3>1. CASE Inserted(r)
      <4>1. i = r
        BY <1>3, <3>1 DEF Inserted, SP!CommitCreate, SP!TypeOK
      <4>2. stored'[i] = SP!Row("active", p, read[r].dek, p, r, 0) /\ p \in live /\ p # None
        BY <1>0, <3>1, <4>1, InsertedIs DEF SP!TypeOK
      <4>. QED  BY <4>2, RowIs
    <3>2. CASE Replaced(r)
      <4>1. /\ i = on[r]
            /\ stored'[i] = SP!Row(stored[i].state, stored[i].profile,
                              IF p = None THEN Master ELSE read[r].dek, p, r, read[r].version + 1)
            /\ at[r] = "write" /\ op[r] = "update"
        BY <1>3, <3>2 DEF Replaced, SP!CommitUpdate, SP!TypeOK
      <4>2. SP!Active(i)
        BY <4>1, RowIs DEF SP!Active
      <4>3. stored[i].profile = p
        BY <1>0, <4>1, <4>2 DEF RequestInv, Based, Updating, Writing
      <4>4. stored[i].profile \in live \cup {None}
        BY DEF Rows
      <4>. QED  BY <4>1, <4>3, <4>4, RowIs
    <3>. QED  BY <1>3, <3>1, <3>2 DEF Sealing
  <2>2. p \in live => dek'[p] = read[r].dek
    BY <1>3, SealsUnder
  <2>. QED  BY <2>1, <2>2 DEF SP!Opens
<1>4. CASE stored'[i] = stored[i]
  BY <1>2, <1>4 DEF SP!Active, SP!Opens
<1>5. CASE SP!CommitDeletion(r)
  <2>1. stored'[i] = IF stored[i].profile = on[r] THEN SP!Orphan(i) ELSE stored[i]
    BY <1>5 DEF SP!CommitDeletion
  <2>2. stored[i].profile # on[r]
    <3>1. SP!Active(i)
      BY <2>1, RowIs DEF SP!Active, SP!Orphan
    <3>. QED  BY <1>0, <1>5, <3>1 DEF SP!CommitDeletion, RequestInv, Emptied, Deletes, SP!ActiveIn
  <2>. QED  BY <1>4, <2>1, <2>2
<1>6. CASE stored'[i] = SP!Row("deleted", stored[i].profile, stored[i].key, stored[i].aad,
                          stored[i].text, stored[i].version)
  BY <1>6, RowIs DEF SP!Active
<1>7. CASE \E t \in SP!Texts : stored'[i] = SP!Row(stored[i].state, on[r], Master, on[r], t, stored[i].version)
  BY <1>7, RowIs DEF SP!Opens
<1>. QED  BY <1>3, <1>4, <1>5, <1>6, <1>7, ItemsAfter DEF Sealing

\* A step preserves BudgetCoversEncryptions.
LEMMA BudgetStep ==
  ASSUME SP!TypeOK, SP!ServerProfileConstants, Rows, SP!BudgetCoversEncryptions,
         NEW r \in Calls, RequestInv(r), SP!Step(r)
  PROVE  SP!BudgetCoversEncryptions'
<1>. SUFFICES ASSUME NEW p \in live' PROVE sealed'[p] <= count'[p]
  BY DEF SP!BudgetCoversEncryptions
<1>0. /\ count \in [SP!ProfileIds -> Nat] /\ sealed \in [SP!ProfileIds -> Nat] /\ live \subseteq SP!ProfileIds
      /\ r \in SP!ProfileIds /\ \A q \in live : sealed[q] <= count[q]
  BY Names DEF SP!TypeOK, SP!BudgetCoversEncryptions
<1>1. CASE Sealing(r)
  <2>1. live' = live /\ sealed' = SP!SealedUnder(r) /\ count' = SP!Counted(r)
    BY <1>1, SealingIs
  <2>. QED  BY <1>0, <2>1 DEF SP!SealedUnder, SP!Counted
<1>2. CASE ~Sealing(r)
  <2>1. sealed' = sealed /\ count' = count
    BY <1>2, SealedSame
  <2>2. sealed[r] = 0
    BY <1>0, Monotone DEF Rows
  <2>. QED  BY <1>0, <2>1, <2>2, LiveAfter
<1>. QED  BY <1>1, <1>2

-----------------------------------------------------------------------------

\* Types, of the next state.
LEMMA TypesNext == SP!TypeOK' <=> LocalTypes' /\ RowTypes'
BY DEF SP!TypeOK, LocalTypes, RowTypes

\* An update ends by CommitUpdate, at the version that it read.
LEMMA CommitsUpdate ==
  ASSUME SP!TypeOK, NEW r \in Calls, SP!Step(r),
         op[r] = "update", at[r] = "write", at'[r] = "done"
  PROVE  SP!CommitUpdate(r) /\ SP!SameVersion(r)
<1>0. at \in [Calls -> SP!Stages]
  BY DEF SP!TypeOK
<1>. USE DEF SP!Goto, SP!Sends
<1>1. ~(SP!ResolveTargetProfile(r) \/ SP!LoadOwnedItem(r) \/ SP!LoadWrappedDek(r) \/ SP!EnsureProfileDek(r)
        \/ SP!CountEncryption(r) \/ SP!CommitCreate(r) \/ SP!DeleteItem(r))
  BY DEF SP!ResolveTargetProfile, SP!LoadOwnedItem, SP!LoadWrappedDek, SP!EnsureProfileDek,
     SP!CountEncryption,
         SP!CommitCreate, SP!DeleteItem
<1>2. ~(SP!AssertPersonalProfileCap(r) \/ SP!InsertProfile(r) \/ SP!CheckEmpty(r) \/ SP!SnapshotGrants(r)
        \/ SP!CommitDeletion(r) \/ SP!Grant(r) \/ SP!ListUnbound(r) \/ SP!Bind(r) \/ SP!EndBackfill(r))
  BY DEF SP!AssertPersonalProfileCap, SP!InsertProfile, SP!CheckEmpty, SP!SnapshotGrants,
     SP!CommitDeletion, SP!Grant,
         SP!ListUnbound, SP!Bind, SP!EndBackfill
<1>3. ~SP!Abort(r)
  BY <1>0 DEF SP!Abort
<1>4. SP!CommitUpdate(r)
  BY <1>1, <1>2, <1>3 DEF SP!Step
<1>. QED  BY <1>0, <1>4 DEF SP!CommitUpdate

\* The invariant holds initially, whatever rows of old there are.
LEMMA InitStorageInv ==
  ASSUME SP!ServerProfileConstants, SP!Init
  PROVE  StorageInv
<1>. USE Names
<1>a. PICK there \in SUBSET OldProfiles : \E keyed \in SUBSET there :
        /\ personal => \A p, q \in there : p = q
        /\ live = there
        /\ dek = [p \in SP!ProfileIds |-> IF p \in keyed THEN p ELSE None]
        /\ \E old \in [OldItems -> UNION {SP!OldRows(i, there, keyed) : i \in OldItems}] :
             /\ \A i \in OldItems : old[i].text = i
             /\ stored = [i \in SP!ItemIds |-> IF i \in OldItems THEN old[i] ELSE SP!NoItemRow(i)]
        /\ \E gave \in [OldGrants -> there \cup {None}] :
             grant = [g \in SP!GrantIds |-> IF g \in OldGrants THEN gave[g] ELSE None]
  BY DEF SP!Init
<1>1. PICK keyed \in SUBSET there :
        /\ personal => \A p, q \in there : p = q
        /\ live = there
        /\ dek = [p \in SP!ProfileIds |-> IF p \in keyed THEN p ELSE None]
        /\ \E old \in [OldItems -> UNION {SP!OldRows(i, there, keyed) : i \in OldItems}] :
             /\ \A i \in OldItems : old[i].text = i
             /\ stored = [i \in SP!ItemIds |-> IF i \in OldItems THEN old[i] ELSE SP!NoItemRow(i)]
        /\ \E gave \in [OldGrants -> there \cup {None}] :
             grant = [g \in SP!GrantIds |-> IF g \in OldGrants THEN gave[g] ELSE None]
  BY <1>a
<1>2. PICK old \in [OldItems -> UNION {SP!OldRows(i, there, keyed) : i \in OldItems}] :
        /\ \A i \in OldItems : old[i].text = i
        /\ stored = [i \in SP!ItemIds |-> IF i \in OldItems THEN old[i] ELSE SP!NoItemRow(i)]
  BY <1>1
<1>0. /\ OldProfiles \subseteq SP!ProfileIds /\ OldItems \subseteq SP!ItemIds /\ OldGrants \subseteq SP!GrantIds
      /\ 0 \in 0..MaxVersion
  BY DEF SP!ProfileIds, SP!ItemIds, SP!GrantIds
<1>3. \A i \in SP!ItemIds :
        \/ stored[i] = SP!NoItemRow(i)
        \/ i \in OldItems /\ \E j \in OldItems : stored[i] \in SP!OldRows(j, there, keyed)
  BY <1>2
<1>4. ASSUME NEW i \in SP!ItemIds
      PROVE  /\ stored[i] \in SP!Item
             /\ stored[i].profile \in live \cup {None}
             /\ stored[i].state # "none" => i \in OldItems
             /\ SP!Opens(i)
  <2>1. \E j \in SP!ItemIds :
          \/ stored[i] = SP!NoItemRow(j)
          \/ i \in OldItems /\ stored[i] = SP!Row("active", None, Master, None, j, 0)
          \/ i \in OldItems /\ \E p \in there : stored[i] = SP!Row("active", p, Master, p, j, 0)
          \/ i \in OldItems /\ \E p \in keyed : stored[i] = SP!Row("active", p, p, p, j, 0)
    BY <1>0, <1>3 DEF SP!OldRows
  <2>2. \A p \in keyed : p \in there /\ dek[p] = p
    BY <1>0, <1>1
  <2>3. \A j \in SP!ItemIds :
          /\ SP!NoItemRow(j) \in SP!Item
          /\ SP!Row("active", None, Master, None, j, 0) \in SP!Item
          /\ \A p \in there : /\ SP!Row("active", p, Master, p, j, 0) \in SP!Item
                              /\ SP!Row("active", p, p, p, j, 0) \in SP!Item
    BY <1>0, RowTypesOf DEF SP!NoItemRow
  <2>4. stored[i] \in SP!Item
    BY <2>1, <2>2, <2>3
  <2>5. /\ stored[i].profile \in live \cup {None}
        /\ stored[i].state # "none" => i \in OldItems
    <3>1. i \in OldItems \/ \E j \in SP!ItemIds : stored[i] = SP!NoItemRow(j)
      BY <2>1
    <3>2. \E p \in there \cup {None} : stored[i].profile = p
      BY <2>1, <2>2, RowIs DEF SP!NoItemRow
    <3>3. live = there
      BY <1>1
    <3>4. stored[i].profile \in live \cup {None}
      BY <3>2, <3>3
    <3>5. (\E j \in SP!ItemIds : stored[i] = SP!NoItemRow(j)) => stored[i].state = "none"
      BY RowIs DEF SP!NoItemRow
    <3>. QED  BY <3>1, <3>4, <3>5
  <2>6. SP!Opens(i)
    <3>1. CASE stored[i].key = Master /\ stored[i].aad = stored[i].profile
      BY <3>1 DEF SP!Opens
    <3>2. CASE \E j \in SP!ItemIds : \E p \in keyed : stored[i] = SP!Row("active", p, p, p, j, 0)
      <4>1. PICK p \in keyed : stored[i].profile = p /\ stored[i].aad = p /\ stored[i].key = p
        BY <3>2, RowIs
      <4>2. dek[p] = p /\ p # None
        BY <1>0, <2>2
      <4>. QED  BY <4>1, <4>2 DEF SP!Opens
    <3>. QED  BY <2>1, <3>1, <3>2, RowIs DEF SP!NoItemRow
  <2>. QED  BY <2>4, <2>5, <2>6
<1>5. SP!TypeOK
  <2>1. \A r \in Calls : SP!Reading(None, None, r, 0)
          \in [profile : SP!ProfileIds \cup {None}, dek : SP!ProfileIds \cup {None},
               text : SP!Texts, version : 0..MaxVersion]
    BY <1>0, ReadingTypes
  <2>2. /\ personal \in BOOLEAN /\ live \subseteq SP!ProfileIds
        /\ dek \in [SP!ProfileIds -> SP!ProfileIds \cup {None}]
        /\ grant \in [SP!GrantIds -> SP!ProfileIds \cup {None}]
    BY <1>0, <1>1 DEF SP!Init
  <2>3. stored \in [SP!ItemIds -> SP!Item]
    BY <1>2, <1>4
  <2>4. /\ count \in [SP!ProfileIds -> Nat] /\ sealed \in [SP!ProfileIds -> Nat]
        /\ audited \subseteq SP!GrantIds /\ late \subseteq SP!ItemIds \cup SP!GrantIds /\ crossed \subseteq SP!ItemIds
        /\ op \in [Calls -> SP!Ops] /\ at \in [Calls -> SP!Stages]
        /\ on \in [Calls -> SP!ProfileIds \cup SP!ItemIds]
        /\ picked \in [Calls -> SUBSET SP!GrantIds]
        /\ listed \in [Calls -> SUBSET (SP!ItemIds \X SP!Texts)]
    BY DEF SP!Init, SP!Ops, SP!Stages
  <2>5. read \in [Calls -> [profile : SP!ProfileIds \cup {None}, dek : SP!ProfileIds \cup {None},
                               text : SP!Texts, version : 0..MaxVersion]]
    BY <2>1 DEF SP!Init
  <2>. QED  BY <2>2, <2>3, <2>4, <2>5 DEF SP!TypeOK
<1>6. /\ \A r \in Calls : at[r] = "unsent" /\ listed[r] = {}
      /\ \A p \in SP!ProfileIds : count[p] = 0 /\ sealed[p] = 0
  BY DEF SP!Init
<1>7. Rows
  BY <1>1, <1>4, <1>6 DEF Rows, Born
<1>8. OneLock
  BY <1>6 DEF OneLock, SP!Locks
<1>9. Capped
  <2>1. ASSUME personal PROVE \A p, q \in live : p = q
    BY <1>1, <2>1
  <2>. QED  BY <1>6, <2>1 DEF Capped
<1>10. ASSUME NEW r \in Calls PROVE RequestInv(r)
  BY <1>6 DEF RequestInv, Placed, Reads, Keyed, Emptied, Based, Writing, Deletes, Updating
<1>11. SP!ActiveItemOpens /\ SP!BudgetCoversEncryptions
  BY <1>1, <1>0, <1>4, <1>6 DEF SP!ActiveItemOpens, SP!BudgetCoversEncryptions
<1>. QED  BY <1>5, <1>7, <1>8, <1>9, <1>10, <1>11 DEF StorageInv

\* Every step preserves the invariant.
LEMMA StepStorageInv ==
  ASSUME SP!ServerProfileConstants, StorageInv, [SP!Next]_SP!vars
  PROVE  StorageInv'
<1>1. CASE UNCHANGED SP!vars
  <2>. USE <1>1 DEF StorageInv, SP!vars, SP!rows, SP!local, SP!history
  <2>1. SP!TypeOK' /\ Rows' /\ OneLock' /\ Capped'
    BY DEF SP!TypeOK, Rows, OneLock, Capped, SP!Locks, SP!Writes, Born, Done
  <2>2. \A r \in Calls : RequestInv(r)'
    BY DEF RequestInv, Placed, Reads, Keyed, Emptied, Based, Writing, SP!Writes, Deletes,
       Updating,
           SP!ActiveIn, SP!Active, SP!GrantsOn, Born, Done
  <2>3. SP!ActiveItemOpens' /\ SP!BudgetCoversEncryptions'
    BY DEF SP!ActiveItemOpens, SP!BudgetCoversEncryptions, SP!Active, SP!Opens
  <2>. QED  BY <2>1, <2>2, <2>3
<1>2. CASE SP!Next
  <2>1. PICK r \in Calls : SP!Step(r)
    BY <1>2 DEF SP!Next
  <2>2. RequestInv(r) /\ Placed(r) /\ SP!TypeOK /\ Rows /\ OneLock /\ Capped
    BY DEF StorageInv, RequestInv
  <2>3. SP!TypeOK'
    BY <2>1, <2>2, Types, LocalStep, RowTypesStep, TypesNext
  <2>4. Rows' /\ OneLock' /\ Capped' /\ SP!ActiveItemOpens' /\ SP!BudgetCoversEncryptions'
    BY <2>1, <2>2, RowsStep, OneLockStep, CappedStep, OpensStep, BudgetStep DEF StorageInv
  <2>5. ASSUME NEW s \in Calls
        PROVE  RequestInv(s)'
    <3>1. RequestInv(s) /\ Reads(s)
      BY DEF StorageInv, RequestInv
    <3>2. Placed(s)'
      <4>1. CASE s = r
        BY <2>1, <2>2, <4>1, PlacedStep
      <4>2. CASE s # r
        <5>1. Same(s)
          BY <2>1, <2>2, <4>2, LocalStep, Types
        <5>. QED  BY <3>1, <5>1 DEF RequestInv, Placed, Same, Writing, SP!Writes, Deletes
      <4>. QED  BY <4>1, <4>2
    <3>3. Reads(s)' /\ Keyed(s)' /\ Emptied(s)' /\ Based(s)'
      BY <2>1, <2>2, <3>1, ReadsStep, KeyedStep, EmptiedStep, BasedStep
    <3>. QED  BY <3>2, <3>3 DEF RequestInv
  <2>. QED  BY <2>3, <2>4, <2>5 DEF StorageInv
<1>. QED  BY <1>1, <1>2

\* The inductive invariant holds in every reachable state.
THEOREM StorageInvariance == SP!Spec => []StorageInv
<1>1. SP!Init => StorageInv
  BY StorageConstants, InitStorageInv
<1>2. StorageInv /\ [SP!Next]_SP!vars => StorageInv'
  BY StorageConstants, StepStorageInv
<1>. QED  BY <1>1, <1>2, PTL DEF SP!Spec

\* The same in the behaviours of either kind.
LEMMA EitherInvariance == Either => [](part = "storage" => StorageInv)
<1>1. InitEither => (part = "storage" => StorageInv)
  BY StorageConstants, InitStorageInv DEF InitEither
<1>2. (part = "storage" => StorageInv) /\ [NextEither]_<<part, vars, storage>>
        => (part = "storage" => StorageInv)'
  <2>. SUFFICES ASSUME part = "storage" => StorageInv, [NextEither]_<<part, vars, storage>>,
                       part' = "storage"
                PROVE  StorageInv'
    OBVIOUS
  <2>1. part = "storage" /\ [SP!Next]_SP!vars
    BY DEF NextEither, storage, SP!vars, SP!rows, SP!local, SP!history
  <2>. QED  BY <2>1, StorageConstants, StepStorageInv
<1>. QED  BY <1>1, <1>2, PTL DEF Either

\* Every active item opens, but those that a deletion or the script crossed.
THEOREM ItemsOpen == Either => []ActiveItemOpens
<1>1. (part = "storage" => StorageInv) => ActiveItemOpens
  BY DEF StorageInv, ActiveItemOpens
<1>. QED  BY <1>1, EitherInvariance, PTL

\* The count of a profile is never below the encryptions under its data key.
THEOREM BudgetIsCounted == SP!Spec => []SP!BudgetCoversEncryptions
<1>1. StorageInv => SP!BudgetCoversEncryptions
  BY DEF StorageInv
<1>. QED  BY <1>1, StorageInvariance, PTL

\* A personal account never has two profiles.
THEOREM CapHolds == SP!Spec => []SP!PersonalCap
<1>1. StorageInv => SP!PersonalCap
  BY DEF StorageInv, Capped, SP!PersonalCap
<1>. QED  BY <1>1, StorageInvariance, PTL

\* Only the deletion of its profile takes a grant, and writes the audit row of one it listed.
LEMMA AuditedStep ==
  ASSUME StorageInv, SP!Next
  PROVE  SP!AuditedOrLate
<1>. SUFFICES ASSUME NEW g \in SP!GrantIds \ late, grant[g] # None, grant'[g] = None
              PROVE  g \in audited'
  BY DEF SP!AuditedOrLate
<1>1. PICK r \in Calls : SP!Step(r)
  BY DEF SP!Next
<1>2. SP!TypeOK /\ Emptied(r)
  BY DEF StorageInv, RequestInv
<1>3. CASE SP!Grant(r)
  <2>1. PICK p \in live : grant' = [grant EXCEPT ![r] = p]
    BY <1>3 DEF SP!Grant
  <2>2. p # None
    BY StorageConstants, Names, <1>2 DEF SP!TypeOK
  <2>. QED  BY <1>2, <2>1, <2>2 DEF SP!TypeOK
<1>4. CASE ~SP!Grant(r)
  <2>1. SP!CommitDeletion(r) /\ grant[g] = on[r]
    BY <1>1, <1>2, <1>4, GrantsAfter
  <2>2. g \in picked[r]
    BY <1>2, <2>1 DEF SP!CommitDeletion, Emptied, SP!GrantsOn
  <2>. QED  BY <2>1, <2>2 DEF SP!CommitDeletion
<1>. QED  BY <1>3, <1>4

\* A grant that goes with its profile has its audit row, or was inserted late.
THEOREM GrantsAudited == Either => LostGrantsAudited
<1>1. /\ part = "storage" => StorageInv
      /\ [NextEither]_<<part, vars, storage>>
      => [part = "storage" => SP!AuditedOrLate]_storage
  BY AuditedStep DEF NextEither
<1>. QED  BY <1>1, EitherInvariance, PTL DEF Either, LostGrantsAudited

\* An update that is acknowledged replaces the content it was based on, unless the script
\* put an older one back meanwhile.
THEOREM UpdatesAreBased == SP!Spec => SP!NoBlindUpdate
<1>1. StorageInv /\ [SP!Next]_SP!vars => [SP!SeenOrCrossed]_SP!vars
  <2>. SUFFICES ASSUME StorageInv, SP!Next, NEW s \in Calls,
                       op[s] = "update", at[s] = "write", at'[s] = "done"
                PROVE  stored[on[s]].text = read[s].text \/ on[s] \in crossed
    BY DEF SP!SeenOrCrossed
  <2>1. PICK r \in Calls : SP!Step(r)
    BY DEF SP!Next
  <2>2. SP!TypeOK /\ Based(s)
    BY DEF StorageInv, RequestInv
  <2>3. s = r
    BY <2>1, <2>2, LocalStep, Types, StorageConstants DEF Same
  <2>4. SP!CommitUpdate(r) /\ SP!SameVersion(r)
    BY <2>1, <2>2, <2>3, CommitsUpdate, StorageConstants
  <2>. QED  BY <2>2, <2>3, <2>4 DEF Based, Updating, Writing, SP!SameVersion
<1>. QED  BY <1>1, StorageInvariance, PTL DEF SP!Spec, SP!NoBlindUpdate

\* The data key of a profile is written once ("Only the first writer wins").
THEOREM DataKeyIsFinal == SP!Spec => [][\A p \in SP!ProfileIds : dek[p] # None => dek'[p] = dek[p]]_SP!vars
<1>1. StorageInv /\ [SP!Next]_SP!vars => [\A p \in SP!ProfileIds : dek[p] # None => dek'[p] = dek[p]]_SP!vars
  BY StorageConstants, DekKept, SealsUnder DEF StorageInv, SP!Next, SP!vars, SP!rows
<1>. QED  BY <1>1, StorageInvariance, PTL DEF SP!Spec
=============================================================================
