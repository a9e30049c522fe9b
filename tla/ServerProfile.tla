---------------------------- MODULE ServerProfile ----------------------------
(***************************************************************************)
(* The server-managed profiles of one organization and the items sealed    *)
(* under their data keys: creation and deletion of profiles, creation,     *)
(* update and deletion of items, profile grants, and the script that binds *)
(* the items of old that have no profile.                                  *)
(*                                                                         *)
(* A request runs in one READ COMMITTED transaction: each statement sees   *)
(* what is committed then, a row it wrote stays locked until it commits,   *)
(* and what it wrote is seen at the commit.  The script runs on the pool.  *)
(*                                                                         *)
(* A row, a data key and a content are known by the request that made      *)
(* them, or by a name of their own for those that exist at the start.      *)
(***************************************************************************)
EXTENDS Naturals

CONSTANTS
  Requests,
  OldProfiles, OldItems, OldGrants,  \* the rows that may exist at the start
  Mixes,                             \* which operations are asked of which request, together
  MaxVersion,                        \* bounds contentVersion
  None, Master                       \* no profile; ENCRYPTION_KEY

Ops == {"create", "update", "deleteItem", "createProfile", "deleteProfile", "grant", "backfill"}

ServerProfileConstants ==
  /\ {None, Master} \cap (Requests \cup OldProfiles \cup OldItems \cup OldGrants) = {}
  /\ Requests \cap (OldProfiles \cup OldItems \cup OldGrants) = {}
  /\ Mixes \subseteq [Requests -> SUBSET Ops]
  /\ MaxVersion \in Nat /\ None # Master

ProfileIds == OldProfiles \cup Requests
ItemIds == OldItems \cup Requests
GrantIds == OldGrants \cup Requests
Keys == ProfileIds \cup {Master}
Texts == ItemIds   \* who wrote a content

VARIABLES
  personal,  \* organization.metadata marks a personal account
  live,      \* the profile rows
  dek,       \* profiles.server_wrapped_dek
  count,     \* profiles.server_encryption_count
  item,      \* the item rows
  grant,     \* permissions: the profile each is given for
  audited,   \* grants with a permission.revoke_cascade audit row
  op,        \* what each request does
  stage,     \* where it is
  on,        \* the profile or the item it was asked for
  read,      \* the profile, data key, version and content it read
  picked,    \* the grants it listed
  listed,    \* the items it listed, with their contents
  sealed,    \* history: committed encryptions under each profile's data key
  late,      \* history: rows committed behind a deletion that had read already
  crossed    \* history: items that the script bound under an update in flight

rows == <<personal, live, dek, count, item, grant, audited>>
local == <<op, stage, on, read, picked, listed>>
history == <<sealed, late, crossed>>
vars == <<rows, local, history>>

Item == [state : {"none", "active", "deleted"}, profile : ProfileIds \cup {None},
         key : Keys, aad : ProfileIds \cup {None}, text : Texts, version : 0..MaxVersion]

Stages == {"unsent", "resolved", "provision", "count", "write", "empty", "snapshot", "cap",
           "bind", "done", "refused"}

TypeOK ==
  /\ personal \in BOOLEAN
  /\ live \subseteq ProfileIds
  /\ dek \in [ProfileIds -> ProfileIds \cup {None}]
  /\ count \in [ProfileIds -> Nat]
  /\ item \in [ItemIds -> Item]
  /\ grant \in [GrantIds -> ProfileIds \cup {None}]
  /\ audited \subseteq GrantIds
  /\ op \in [Requests -> Ops]
  /\ stage \in [Requests -> Stages]
  /\ on \in [Requests -> ProfileIds \cup ItemIds]
  /\ read \in [Requests -> [profile : ProfileIds \cup {None}, dek : ProfileIds \cup {None},
                            text : Texts, version : 0..MaxVersion]]
  /\ picked \in [Requests -> SUBSET GrantIds]
  /\ listed \in [Requests -> SUBSET (ItemIds \X Texts)]
  /\ sealed \in [ProfileIds -> Nat]
  /\ late \subseteq ItemIds \cup GrantIds
  /\ crossed \subseteq ItemIds

Row(state, profile, key, aad, text, version) ==
  [state |-> state, profile |-> profile, key |-> key, aad |-> aad, text |-> text,
   version |-> version]
NoItemRow(i) == Row("none", None, Master, None, i, 0)

\* An item of old: without a profile, bound by an earlier run of the script, or
\* sealed under the profile's data key.
OldRows(i, there, keyed) ==
  {NoItemRow(i), Row("active", None, Master, None, i, 0)}
  \cup {Row("active", p, Master, p, i, 0) : p \in there}
  \cup {Row("active", p, p, p, i, 0) : p \in keyed}

Reading(profile, wrapped, text, version) ==
  [profile |-> profile, dek |-> wrapped, text |-> text, version |-> version]

Init ==
  /\ personal \in BOOLEAN
  /\ \E there \in SUBSET OldProfiles : \E keyed \in SUBSET there :
       /\ personal => \A p, q \in there : p = q
       /\ live = there
       /\ dek = [p \in ProfileIds |-> IF p \in keyed THEN p ELSE None]
       /\ \E old \in [OldItems -> UNION {OldRows(i, there, keyed) : i \in OldItems}] :
            /\ \A i \in OldItems : old[i].text = i
            /\ item = [i \in ItemIds |-> IF i \in OldItems THEN old[i] ELSE NoItemRow(i)]
       /\ \E gave \in [OldGrants -> there \cup {None}] :
            grant = [g \in GrantIds |-> IF g \in OldGrants THEN gave[g] ELSE None]
  /\ count = [p \in ProfileIds |-> 0]
  /\ audited = {}
  /\ op = [r \in Requests |-> "create"]
  /\ stage = [r \in Requests |-> "unsent"]
  /\ on = [r \in Requests |-> r]
  /\ read = [r \in Requests |-> Reading(None, None, r, 0)]
  /\ picked = [r \in Requests |-> {}]
  /\ listed = [r \in Requests |-> {}]
  /\ sealed = [p \in ProfileIds |-> 0]
  /\ late = {} /\ crossed = {}

Goto(r, s) == stage' = [stage EXCEPT ![r] = s]

Sent == {r \in Requests : stage[r] # "unsent"}

\* r is asked for o, on x: it fits a mix with what the others were asked.
Sends(r, o, x) ==
  /\ stage[r] = "unsent"
  /\ \E mix \in Mixes : o \in mix[r] /\ \A s \in Sent : op[s] \in mix[s]
  /\ op' = [op EXCEPT ![r] = o]
  /\ on' = [on EXCEPT ![r] = x]

Writes(r) == op[r] \in {"create", "update"}

\* The row of profile p is locked by a request that provisioned its data key, or
\* that counted its encryption, and has not committed yet.
Locks(r, p) ==
  /\ Writes(r) /\ read[r].profile = p
  /\ \/ stage[r] = "count" /\ read[r].dek = r
     \/ stage[r] = "write"
Locked(r, p) == \E s \in Requests \ {r} : Locks(s, p)

Active(i) == item[i].state = "active"

\* decryptServerEnvelope: under the data key of the row's profile, or the master
\* key, and bound to that profile.
Opens(i) ==
  /\ item[i].aad = item[i].profile
  /\ item[i].key # Master => item[i].profile # None /\ dek[item[i].profile] = item[i].key

ActiveIn(p) == {i \in ItemIds : Active(i) /\ item[i].profile = p}

-----------------------------------------------------------------------------
(* Items *)

\* resolveTargetProfile: the profile named, the default one or the oldest one.
ResolveTargetProfile(r) ==
  /\ \E p \in live : /\ Sends(r, "create", p)
                     /\ read' = [read EXCEPT ![r] = Reading(p, None, r, 0)]
  /\ Goto(r, "resolved")
  /\ UNCHANGED <<rows, picked, listed, history>>

\* loadOwnedItem.  An item without a profile is sealed under the master key.
LoadOwnedItem(r) ==
  \E i \in ItemIds :
    /\ Active(i) /\ item[i].version < MaxVersion
    /\ Sends(r, "update", i)
    /\ read' = [read EXCEPT ![r] = Reading(item[i].profile, None, item[i].text, item[i].version)]
    /\ Goto(r, IF item[i].profile = None THEN "write" ELSE "resolved")
    /\ UNCHANGED <<rows, picked, listed, history>>

WithDek(r, wrapped) == Reading(read[r].profile, wrapped, read[r].text, read[r].version)

LoadWrappedDek(r) ==
  /\ stage[r] = "resolved"
  /\ LET p == read[r].profile
         found == IF p \in live THEN dek[p] ELSE None IN
     /\ read' = [read EXCEPT ![r] = WithDek(r, found)]
     /\ Goto(r, IF found = None THEN "provision" ELSE "count")
  /\ UNCHANGED <<rows, op, on, picked, listed, history>>

\* Mutant: the UPDATE has no IS NULL.
AlwaysFirst(p) == p \in live

FirstWriter(p) == p \in live /\ dek[p] = None

\* ensureProfileDek: UPDATE ... WHERE server_wrapped_dek IS NULL, which waits for
\* the row, and the data key read again.  It throws when the profile is gone.
EnsureProfileDek(r) ==
  /\ stage[r] = "provision"
  /\ LET p == read[r].profile IN
     /\ ~Locked(r, p)
     /\ IF p \in live
          THEN /\ read' = [read EXCEPT ![r] = WithDek(r, IF FirstWriter(p) THEN r ELSE dek[p])]
               /\ Goto(r, "count")
          ELSE Goto(r, "refused") /\ UNCHANGED read
  /\ UNCHANGED <<rows, op, on, picked, listed, history>>

\* The increment waits for the row and locks it; without the row it does nothing.
CountEncryption(r) ==
  /\ stage[r] = "count"
  /\ ~Locked(r, read[r].profile)
  /\ Goto(r, "write")
  /\ UNCHANGED <<rows, op, on, read, picked, listed, history>>

\* What the commit leaves in the profile's row, if it is still there.
Counted(r) ==
  [p \in ProfileIds |-> IF p \in live /\ p = read[r].profile THEN count[p] + 1 ELSE count[p]]

Provisioned(r) ==
  [p \in ProfileIds |-> IF p \in live /\ p = read[r].profile THEN read[r].dek ELSE dek[p]]

SealedUnder(r) ==
  [p \in ProfileIds |-> IF p = read[r].profile THEN sealed[p] + 1 ELSE sealed[p]]

\* Deletions of p that have already looked for its items.
Deleting(p, past) ==
  \E d \in Requests : op[d] = "deleteProfile" /\ on[d] = p /\ stage[d] \in past

\* INSERT and COMMIT; the foreign key fails once the profile is gone.
CommitCreate(r) ==
  /\ stage[r] = "write" /\ op[r] = "create"
  /\ LET p == read[r].profile IN
     IF p \in live
       THEN /\ item' = [item EXCEPT ![r] = Row("active", p, read[r].dek, p, r, 0)]
            /\ dek' = Provisioned(r) /\ count' = Counted(r) /\ sealed' = SealedUnder(r)
            /\ late' = IF Deleting(p, {"empty", "snapshot"}) THEN late \cup {r} ELSE late
            /\ Goto(r, "done")
       ELSE Goto(r, "refused") /\ UNCHANGED <<item, dek, count, sealed, late>>
  /\ UNCHANGED <<personal, live, grant, audited, op, on, read, picked, listed, crossed>>

SameVersion(r) == item[on[r]].version = read[r].version

\* UPDATE ... WHERE content_version is the one read, and COMMIT.
CommitUpdate(r) ==
  /\ stage[r] = "write" /\ op[r] = "update"
  /\ LET i == on[r] p == read[r].profile IN
     IF SameVersion(r)
       THEN /\ item' = [item EXCEPT ![i] = Row(item[i].state, item[i].profile,
                                             IF p = None THEN Master ELSE read[r].dek, p, r,
                                             read[r].version + 1)]
            /\ dek' = Provisioned(r) /\ count' = Counted(r) /\ sealed' = SealedUnder(r)
            /\ Goto(r, "done")
       ELSE Goto(r, "refused") /\ UNCHANGED <<item, dek, count, sealed>>
  /\ UNCHANGED <<personal, live, grant, audited, op, on, read, picked, listed, late, crossed>>

\* The row is marked; its own grants, which are none of the profile's, go with it.
DeleteItem(r) ==
  \E i \in ItemIds :
    /\ Active(i) /\ Sends(r, "deleteItem", i)
    /\ item' = [item EXCEPT ![i] = Row("deleted", item[i].profile, item[i].key, item[i].aad,
                                         item[i].text, item[i].version)]
    /\ Goto(r, "done")
    /\ UNCHANGED <<personal, live, dek, count, grant, audited, read, picked, listed, history>>

-----------------------------------------------------------------------------
(* Profiles *)

\* pg_advisory_xact_lock on the organization.
HasOrgLock(r) == \A s \in Requests \ {r} : stage[s] # "cap"

\* assertPersonalProfileCap: under the lock, a personal account has no profile yet.
AssertPersonalProfileCap(r) ==
  /\ Sends(r, "createProfile", r)
  /\ IF personal
       THEN HasOrgLock(r) /\ Goto(r, IF live = {} THEN "cap" ELSE "refused")
       ELSE Goto(r, "cap")
  /\ UNCHANGED <<rows, read, picked, listed, history>>

InsertProfile(r) ==
  /\ stage[r] = "cap"
  /\ live' = live \cup {r}
  /\ Goto(r, "done")
  /\ UNCHANGED <<personal, dek, count, item, grant, audited, op, on, read, picked, listed, history>>

\* deleteProfile looks for one active item ...
CheckEmpty(r) ==
  \E p \in live :
    /\ Sends(r, "deleteProfile", p)
    /\ Goto(r, IF ActiveIn(p) = {} THEN "empty" ELSE "refused")
    /\ UNCHANGED <<rows, read, picked, listed, history>>

\* Mutant: the grants are read with the limit of the check for items.
OneGrantOn(p) ==
  IF \E g \in GrantIds : grant[g] = p THEN {CHOOSE g \in GrantIds : grant[g] = p} ELSE {}

GrantsOn(p) == {g \in GrantIds : grant[g] = p}

\* ... lists the grants, for their audit rows ...
SnapshotGrants(r) ==
  /\ stage[r] = "empty"
  /\ picked' = [picked EXCEPT ![r] = GrantsOn(on[r])]
  /\ Goto(r, "snapshot")
  /\ UNCHANGED <<rows, op, on, read, listed, history>>

Orphan(i) == Row(item[i].state, None, item[i].key, item[i].aad, item[i].text, item[i].version)

\* ... and deletes the row, which waits for its lock: the items lose their profile
\* (ON DELETE SET NULL), the grants go (CASCADE).
CommitDeletion(r) ==
  /\ stage[r] = "snapshot"
  /\ ~Locked(r, on[r])
  /\ live' = live \ {on[r]}
  /\ item' = [i \in ItemIds |-> IF item[i].profile = on[r] THEN Orphan(i) ELSE item[i]]
  /\ grant' = [g \in GrantIds |-> IF grant[g] = on[r] THEN None ELSE grant[g]]
  /\ audited' = audited \cup picked[r]
  /\ Goto(r, "done")
  /\ UNCHANGED <<personal, dek, count, op, on, read, picked, listed, history>>

\* createPermission for a profile: one transaction with its audit row.
Grant(r) ==
  \E p \in live :
    /\ Sends(r, "grant", p)
    /\ grant' = [grant EXCEPT ![r] = p]
    /\ late' = IF Deleting(p, {"snapshot"}) THEN late \cup {r} ELSE late
    /\ Goto(r, "done")
    /\ UNCHANGED <<personal, live, dek, count, item, audited, read, picked, listed, sealed, crossed>>

\* A statement fails, or the Worker stops: the transaction is rolled back.
Abort(r) ==
  /\ stage[r] \in {"resolved", "provision", "count", "write", "empty", "snapshot", "cap"}
  /\ Goto(r, "refused")
  /\ UNCHANGED <<rows, op, on, read, picked, listed, history>>

-----------------------------------------------------------------------------
(* scripts/backfill-server-item-profiles.ts *)

\* The default profile, and the active items without one that open: the others
\* make the run stop when it comes to them.
ListUnbound(r) ==
  \E p \in live :
    /\ Sends(r, "backfill", p)
    /\ listed' = [listed EXCEPT ![r] = {<<i, item[i].text>> : i \in {j \in ActiveIn(None) : Opens(j)}}]
    /\ Goto(r, "bind")
    /\ UNCHANGED <<rows, read, picked, history>>

InFlight(i) == \E u \in Requests : op[u] = "update" /\ on[u] = i /\ stage[u] \in
                                     {"resolved", "provision", "count", "write"}

\* UPDATE ... WHERE profile_id IS NULL, of the content that was listed.
Bind(r) ==
  /\ stage[r] = "bind" /\ on[r] \in live
  /\ \E row \in listed[r] : LET i == row[1] IN
       /\ listed' = [listed EXCEPT ![r] = listed[r] \ {row}]
       /\ IF item[i].profile = None
            THEN /\ item' = [item EXCEPT ![i] = Row(item[i].state, on[r], Master, on[r], row[2],
                                                 item[i].version)]
                 /\ crossed' = IF InFlight(i) THEN crossed \cup {i} ELSE crossed
                 /\ late' = IF Active(i) /\ Deleting(on[r], {"empty", "snapshot"})
                              THEN late \cup {i} ELSE late
            ELSE UNCHANGED <<item, crossed, late>>
  /\ UNCHANGED <<personal, live, dek, count, grant, audited, op, stage, on, read, picked, sealed>>

\* All are bound; or a row does not open, the profile is gone, or the script is stopped.
EndBackfill(r) ==
  /\ stage[r] = "bind"
  /\ Goto(r, "done")
  /\ UNCHANGED <<rows, op, on, read, picked, listed, history>>

-----------------------------------------------------------------------------

Step(r) ==
  \/ ResolveTargetProfile(r) \/ LoadOwnedItem(r) \/ LoadWrappedDek(r) \/ EnsureProfileDek(r)
  \/ CountEncryption(r) \/ CommitCreate(r) \/ CommitUpdate(r) \/ DeleteItem(r)
  \/ AssertPersonalProfileCap(r) \/ InsertProfile(r)
  \/ CheckEmpty(r) \/ SnapshotGrants(r) \/ CommitDeletion(r) \/ Grant(r) \/ Abort(r)
  \/ ListUnbound(r) \/ Bind(r) \/ EndBackfill(r)

Next == \E r \in Requests : Step(r)

Spec == Init /\ [][Next]_vars

-----------------------------------------------------------------------------
(* Properties *)

\* ensureProfileDek, "Only the first writer wins": however many requests seal the
\* first items of a profile together, every active item opens, except one
\* committed behind the check of a profile deletion and one that the script bound
\* while an update of it was under way.
ActiveItemOpens == \A i \in ItemIds \ (late \cup crossed) : Active(i) => Opens(i)

\* items.ts updateItem, STALE_VERSION: an update that is acknowledged replaces the
\* content it was based on and no other, except where the script put an older
\* content back, or bound the row, while it was under way.
SeenOrCrossed ==
  \A r \in Requests : op[r] = "update" /\ stage[r] = "write" /\ stage'[r] = "done" =>
    \/ item[on[r]].text = read[r].text
    \/ on[r] \in crossed
NoBlindUpdate == [][SeenOrCrossed]_vars

\* encryptServerEnvelope, "under-counting - the dangerous direction for a budget":
\* the count of a profile is never below the encryptions made with its data key.
BudgetCoversEncryptions == \A p \in live : sealed[p] <= count[p]

\* profiles.ts assertPersonalProfileCap: a personal account never has two profiles,
\* whatever is created and deleted at the same time.
PersonalCap == personal => \A p, q \in live : p = q

\* profiles.ts deleteProfile: a grant that is gone with its profile has its audit
\* row, except one inserted after the deletion had listed the grants.
AuditedOrLate == \A g \in GrantIds \ late : grant[g] # None /\ grant'[g] = None => g \in audited'
LostGrantsAudited == [][AuditedOrLate]_vars

\* backfill-server-item-profiles.ts:101, "a concurrent write is never clobbered".
\* Refuted: an update of a row without a profile leaves it without one, and the
\* script writes the content it had listed over it.
BindKeepsWrites ==
  [][ \A i \in ItemIds : Active(i) /\ item'[i].profile # item[i].profile =>
        item'[i].text = item[i].text ]_vars
=============================================================================
