--------------------------- MODULE VaultAndStorage ---------------------------
(***************************************************************************)
(* A profile is zero-knowledge (ZkVault) or server-managed (ServerProfile) *)
(* from its creation on: a behaviour is of the one kind or of the other,   *)
(* which have no variable in common.                                       *)
(***************************************************************************)
EXTENDS ZkVault

CONSTANTS
  Calls, OldProfiles, OldItems, OldGrants, Mixes, MaxVersion, None, Master  \* ServerProfile's

VARIABLES
  part,                               \* which of the two the behaviour is of
  personal, live, dek, count, stored, grant, audited, op, at, on, read, picked, listed, sealed,
  late, crossed                       \* ServerProfile's

storage == <<personal, live, dek, count, stored, grant, audited, op, at, on, read, picked,
             listed, sealed, late, crossed>>

SP == INSTANCE ServerProfile WITH Requests <- Calls, item <- stored, stage <- at
ASSUME StorageConstants == SP!ServerProfileConstants

StorageRests ==
  /\ personal = None /\ live = None /\ dek = None /\ count = None /\ stored = None
  /\ grant = None /\ audited = None /\ op = None /\ at = None /\ on = None /\ read = None
  /\ picked = None /\ listed = None /\ sealed = None /\ late = None /\ crossed = None

InitEither ==
  /\ Init
  /\ \/ part = "storage" /\ SP!Init
     \/ part = "vault" /\ StorageRests
NextEither ==
  \/ part = "vault" /\ Next /\ UNCHANGED <<part, storage>>
  \/ part = "storage" /\ SP!Next /\ UNCHANGED <<part, vars>>
Either == InitEither /\ [][NextEither]_<<part, vars, storage>>

\* Every active server-managed item opens, but those that a deletion or the script
\* crossed (ServerProfile).
ActiveItemOpens == part = "storage" => SP!ActiveItemOpens

\* A grant that goes with its profile has its audit row, or came late (ServerProfile).
LostGrantsAudited == [][part = "storage" => SP!AuditedOrLate]_storage
=============================================================================
