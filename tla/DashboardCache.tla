--------------------------- MODULE DashboardCache ---------------------------
(***************************************************************************)
(* The lists that the pages of the dashboard show: fetched from the API,   *)
(* cached under a key that names the organization, and read again when a   *)
(* change made in this tab has invalidated them.                           *)
(*                                                                         *)
(* The cache treats every kind of list alike and one never waits for       *)
(* another, so the module follows one kind, whichever, and the answers to  *)
(* one change at a time.  Rows are abstracted to the organization they are *)
(* of, and to how many of this tab's changes they show.                    *)
(***************************************************************************)
EXTENDS Naturals

CONSTANTS
  Orgs,
  MaxChanges,  \* bound: changes that this tab makes
  Followed,    \* the kinds of list that are followed, one at a time
  None

CacheConstants == MaxChanges \in Nat

-----------------------------------------------------------------------------
\* What the pages read, and what can be done on them.

OverviewPage == [reads |-> {"profiles", "items", "agents", "permissions", "recent"}, does |-> {}]
ItemsPage == [reads |-> {"items", "permissions", "profiles"}, does |-> {"createItem"}]
ItemPage ==
  [reads |-> {"item", "permissions", "agents", "recent"},
   does |-> {"updateItem", "deleteItem", "revokeGrant"}]
AgentsPage == [reads |-> {"agents"}, does |-> {"createAgent"}]
AgentPage ==
  [reads |-> {"agent", "permissions", "items", "recent"}, does |-> {"revokeAgent", "revokeGrant"}]
ProfilesPage == [reads |-> {"profiles"}, does |-> {"createProfile"}]
ProfilePage ==
  [reads |-> {"profile", "items", "agents", "permissions"}, does |-> {"deleteProfile"}]
PermissionsPage ==
  [reads |-> {"permissions", "agents", "items", "profiles", "pair"},
   does |-> {"grant", "revokeGrant"}]
AuditPage == [reads |-> {"audit", "agents", "items", "profiles"}, does |-> {}]
SettingsPage ==
  [reads |-> {"organization", "members", "items", "apiKeys"},
   does |-> {"renameOrg", "removeMember", "createKey", "revokeKey"}]

Pages ==
  [overview |-> OverviewPage, items |-> ItemsPage, item |-> ItemPage, agents |-> AgentsPage,
   agent |-> AgentPage, profiles |-> ProfilesPage, profile |-> ProfilePage,
   permissions |-> PermissionsPage, audit |-> AuditPage, settings |-> SettingsPage]

\* A change: the lists it changes on the server, those it has the cache read again, and
\* whether useMutation runs its handler (which then knows the organization of the last
\* rendering, not that of the click).
CreateItem == [changes |-> {"items"}, tells |-> {"items"}, hook |-> FALSE]
UpdateItem == [changes |-> {"items", "item"}, tells |-> {"items", "item"}, hook |-> FALSE]
DeleteItem ==
  [changes |-> {"items", "item", "permissions", "pair"}, tells |-> {"items"}, hook |-> TRUE]
CreateAgent == [changes |-> {"agents"}, tells |-> {"agents"}, hook |-> TRUE]
RevokeAgent == [changes |-> {"agents", "agent"}, tells |-> {"agents", "agent"}, hook |-> TRUE]
Grant == [changes |-> {"permissions", "pair"}, tells |-> {"permissions"}, hook |-> TRUE]
\* On the page of the grants, of an agent and of an item.
RevokeGrant == [changes |-> {"permissions", "pair"}, tells |-> {"permissions"}, hook |-> TRUE]
CreateProfile == [changes |-> {"profiles"}, tells |-> {"profiles"}, hook |-> FALSE]
DeleteProfile ==
  [changes |-> {"profiles", "profile", "permissions", "pair"}, tells |-> {"profiles", "profile"},
   hook |-> TRUE]
RenameOrg == [changes |-> {"organization"}, tells |-> {"organization"}, hook |-> TRUE]
RemoveMember ==
  [changes |-> {"members", "agents", "permissions", "pair"}, tells |-> {"members"}, hook |-> TRUE]
CreateKey == [changes |-> {"apiKeys"}, tells |-> {"apiKeys"}, hook |-> TRUE]
\* Mutant: the list is not invalidated.
SilentRevoke == [changes |-> {"apiKeys"}, tells |-> {}, hook |-> TRUE]
RevokeKey == [changes |-> {"apiKeys"}, tells |-> {"apiKeys"}, hook |-> TRUE]

Changes ==
  [createItem |-> CreateItem, updateItem |-> UpdateItem, deleteItem |-> DeleteItem,
   createAgent |-> CreateAgent, revokeAgent |-> RevokeAgent, grant |-> Grant,
   revokeGrant |-> RevokeGrant, createProfile |-> CreateProfile,
   deleteProfile |-> DeleteProfile, renameOrg |-> RenameOrg, removeMember |-> RemoveMember,
   createKey |-> CreateKey, revokeKey |-> RevokeKey]

\* The lists that show what a change is about; the others follow within a minute.
Main ==
  [items |-> {"createItem", "updateItem", "deleteItem"}, item |-> {"updateItem"},
   agents |-> {"createAgent", "revokeAgent"}, agent |-> {"revokeAgent"},
   permissions |-> {"grant", "revokeGrant"}, profiles |-> {"createProfile", "deleteProfile"},
   profile |-> {"deleteProfile"}, organization |-> {"renameOrg"}, members |-> {"removeMember"},
   apiKeys |-> {"createKey", "revokeKey"}]

Kinds == UNION {Pages[p].reads : p \in DOMAIN Pages}

\* Read page by page, until the server has no more.
Drained == {"items", "agents", "permissions"}
\* The request names the organization; every other goes by the header.
Named == {"profiles", "organization", "members"}
\* Of one thing, under a key of its id.
Details == {"item", "agent", "profile"}
\* The audit pages stay as they are until the user refreshes them.
KeepsForEver == {"audit"}
\* What the sidebar reads ahead for the page under the pointer.
Prefetched(p) ==
  CASE p = "overview" -> {"profiles", "items", "agents", "permissions"}
    [] p = "profiles" -> {"profiles"}
    [] p = "items" -> {"items", "permissions"}
    [] p = "agents" -> {"agents"}
    [] p = "permissions" -> {"permissions", "items", "agents"}
    [] p = "audit" -> {"agents", "items"}
    [] p = "settings" -> {"organization", "members"}
    [] OTHER -> {}

-----------------------------------------------------------------------------
VARIABLES
  kind,     \* the kind of list that is followed
  page,     \* the page that is shown
  org,      \* activeOrgId of the store
  thing,    \* the organization of the thing that a page of one thing is about
  count,    \* this tab's changes that the server has made, in each organization
  cache,    \* the list under each organization's key
  fetch,    \* the request for it that is in flight
  change,   \* the change that is under way
  owed,     \* history: how many changes the list must show, by what was told
  left      \* history: organizations that were left while their list was being read

vars == <<kind, page, org, thing, count, cache, fetch, change, owed, left>>

Absent == [rows |-> None, stale |-> FALSE]
Idle == [phase |-> "idle", header |-> None, of |-> {}, shows |-> 0]
Request ==
  {Idle} \cup [phase : {"sent", "served"}, header : Orgs, of : SUBSET Orgs, shows : 0..MaxChanges]
Quiet == [of |-> None, org |-> None, page |-> None, phase |-> "idle"]

\* The rows of a list: of whom, and how many changes they show.
Rows == [of : SUBSET Orgs, shows : 0..MaxChanges]
Entry == [rows : Rows \cup {None}, stale : BOOLEAN]

TypeOK ==
  /\ kind \in Followed /\ page \in DOMAIN Pages
  /\ {org, thing} \subseteq Orgs
  /\ count \in [Orgs -> 0..MaxChanges] /\ owed \in [Orgs -> 0..MaxChanges]
  /\ cache \in [Orgs -> Entry] /\ fetch \in [Orgs -> Request]
  /\ \/ change = Quiet
     \/ change \in [of : DOMAIN Changes, org : Orgs, page : DOMAIN Pages, phase : {"sent", "served"}]
  /\ left \subseteq Orgs

Init ==
  /\ kind \in Followed
  /\ page = "overview"
  /\ org \in Orgs /\ thing = org
  /\ count = [o \in Orgs |-> 0] /\ owed = count
  /\ cache = [o \in Orgs |-> Absent]
  /\ fetch = [o \in Orgs |-> Idle]
  /\ change = Quiet
  /\ left = {}

\* Mutant: keys that forget the organization.
OneKey(o) == CHOOSE any \in Orgs : TRUE
\* dashboardQueryKeys: the entry of an organization's list.
KeyOf(o) == o

IsMain(c) == kind \in DOMAIN Main /\ c \in Main[kind]
Shown(p) == kind \in Pages[p].reads
\* The key that the page that is shown reads.
Reads == KeyOf(IF kind \in Details THEN thing ELSE org)

Sent(o) == [phase |-> "sent", header |-> o, of |-> {}, shows |-> 0]
Stale(entry) == [rows |-> entry.rows, stale |-> entry.rows # None]

\* A query comes on, or is read ahead: fetched when it is not there, or stale.
NeedsFetch(k) ==
  /\ fetch[k].phase = "idle"
  /\ cache[k].rows = None \/ (cache[k].stale /\ kind \notin KeepsForEver)
ComesOn(k, o) == IF NeedsFetch(k) THEN [fetch EXCEPT ![k] = Sent(o)] ELSE fetch

-----------------------------------------------------------------------------
\* Moving about.

\* A link: the page comes on; one of a single thing is about a thing of the organization.
Go(p) ==
  /\ p # page
  /\ page' = p /\ thing' = org
  /\ fetch' = IF Shown(p) THEN ComesOn(KeyOf(org), org) ELSE fetch
  /\ UNCHANGED <<kind, org, count, cache, change, owed, left>>

\* The pointer over a link of the sidebar.
Hover(p) ==
  /\ kind \in Prefetched(p)
  /\ NeedsFetch(KeyOf(org))
  /\ fetch' = ComesOn(KeyOf(org), org)
  /\ UNCHANGED <<kind, page, org, thing, count, cache, change, owed, left>>

\* The switcher, or the gate: the page stays, and reads the keys of the other organization.
SwitchOrg(o) ==
  /\ o # org
  /\ org' = o
  /\ fetch' = IF Shown(page) /\ kind \notin Details THEN ComesOn(KeyOf(o), o) ELSE fetch
  /\ left' = left \cup {k \in Orgs : fetch[k].phase # "idle"}
  /\ UNCHANGED <<kind, page, thing, count, cache, change, owed>>

\* A minute has passed since a list arrived.
Ages(k) ==
  /\ cache[k].rows # None /\ ~cache[k].stale
  /\ cache' = [cache EXCEPT ![k] = Stale(@)]
  /\ UNCHANGED <<kind, page, org, thing, count, fetch, change, owed, left>>

\* "Refresh" of the audit page drops its entries; the page reads again when it renders.
RefreshAudit ==
  /\ kind = "audit" /\ page = "audit" /\ cache[Reads].rows # None
  /\ cache' = [cache EXCEPT ![Reads] = Absent]
  /\ fetch' = [fetch EXCEPT ![Reads] = Idle]
  /\ UNCHANGED <<kind, page, org, thing, count, change, owed, left>>

Renders ==
  /\ Shown(page) /\ cache[Reads].rows = None /\ fetch[Reads].phase = "idle"
  /\ fetch' = ComesOn(Reads, org)
  /\ UNCHANGED <<kind, page, org, thing, count, cache, change, owed, left>>

-----------------------------------------------------------------------------
\* Reading.

\* Whose rows a request for key k gets: it names its organization, or its thing, or goes
\* by the header that the store had when it was sent.
ServedFor(k) ==
  CASE kind \in Named -> {k}
    [] kind \in Details -> IF fetch[k].header = k THEN {k} ELSE {}
    [] OTHER -> {fetch[k].header}

Serve(k) ==
  /\ fetch[k].phase = "sent"
  /\ fetch' = [fetch EXCEPT ![k] =
       [phase |-> "served", header |-> @.header, of |-> @.of \cup ServedFor(k),
        shows |-> IF @.of = {} THEN count[k] ELSE @.shows]]
  /\ UNCHANGED <<kind, page, org, thing, count, cache, change, owed, left>>

\* A list of several pages is read on, under the header that the store has by then.
ReadsOn(k) ==
  /\ kind \in Drained /\ fetch[k].phase = "served"
  /\ fetch' = [fetch EXCEPT ![k] =
       [phase |-> "sent", header |-> org, of |-> @.of, shows |-> @.shows]]
  /\ UNCHANGED <<kind, page, org, thing, count, cache, change, owed, left>>

Arrives(k) ==
  /\ fetch[k].phase = "served" /\ fetch[k].of # {}
  /\ cache' = [cache EXCEPT ![k] =
       [rows |-> [of |-> fetch[k].of, shows |-> fetch[k].shows], stale |-> FALSE]]
  /\ fetch' = [fetch EXCEPT ![k] = Idle]
  /\ UNCHANGED <<kind, page, org, thing, count, change, owed, left>>

\* No answer, or a refusal: what was there stays, stale as it was; it is not tried again.
Fails(k) ==
  /\ fetch[k].phase # "idle"
  /\ fetch' = [fetch EXCEPT ![k] = Idle]
  /\ UNCHANGED <<kind, page, org, thing, count, cache, change, owed, left>>

-----------------------------------------------------------------------------
\* Changing.

Click(c) ==
  /\ change = Quiet /\ c \in Pages[page].does
  /\ kind \in Changes[c].changes
  /\ change' = [of |-> c, org |-> org, page |-> page, phase |-> "sent"]
  /\ UNCHANGED <<kind, page, org, thing, count, cache, fetch, owed, left>>

ServerChanges ==
  /\ change.phase = "sent" /\ count[change.org] < MaxChanges
  /\ count' = [count EXCEPT ![change.org] = @ + 1]
  /\ change' = [change EXCEPT !.phase = "served"]
  /\ UNCHANGED <<kind, page, org, thing, cache, fetch, owed, left>>

ChangeFails ==
  /\ change.phase = "sent"
  /\ change' = Quiet
  /\ UNCHANGED <<kind, page, org, thing, count, cache, fetch, owed, left>>

\* The organization whose list the handler has read again.
Told == IF Changes[change.of].hook /\ page = change.page THEN org ELSE change.org

\* invalidateQueries: the list is stale, and where it is shown it is read anew, past an
\* answer on its way; a first load on its way is left alone.
Invalidates(k) ==
  /\ cache' = [cache EXCEPT ![k] = Stale(@)]
  /\ fetch' = IF Shown(page) /\ k = Reads /\ (cache[k].rows # None \/ fetch[k].phase = "idle")
                THEN [fetch EXCEPT ![k] = Sent(org)] ELSE fetch

\* The handler goes by the click or by the rendering, and tells the cache, or does not.
Succeeds ==
  /\ change.phase = "served"
  /\ change' = Quiet
  /\ LET k == KeyOf(Told) IN
     /\ IF kind \in Changes[change.of].tells
          THEN Invalidates(k)
          ELSE UNCHANGED <<cache, fetch>>
     /\ owed' = IF IsMain(change.of) /\ Told = change.org /\ Shown(page) /\ k = Reads
                    /\ cache[k].rows # None
                  THEN [owed EXCEPT ![Told] = count[Told]] ELSE owed
  /\ UNCHANGED <<kind, page, org, thing, count, left>>

-----------------------------------------------------------------------------
Next ==
  \/ \E p \in DOMAIN Pages : Go(p) \/ Hover(p)
  \/ \E o \in Orgs : SwitchOrg(o)
  \/ \E k \in Orgs : Ages(k) \/ Serve(k) \/ ReadsOn(k) \/ Arrives(k) \/ Fails(k)
  \/ RefreshAudit \/ Renders
  \/ \E c \in DOMAIN Changes : Click(c)
  \/ ServerChanges \/ ChangeFails \/ Succeeds

Spec == Init /\ [][Next]_vars

-----------------------------------------------------------------------------
\* A page that shows a list when its change has succeeded never goes on with the list of
\* before: whatever was on its way then, the list is stale, is being read, or shows it.
OwnWritesShown ==
  \A o \in Orgs :
    LET k == KeyOf(o) IN
    cache[k].rows # None /\ fetch[k].phase = "idle"
      => cache[k].stale \/ cache[k].rows.shows >= owed[o]

\* Under an organization's key there are only its own rows, but for a list that was being
\* read, page after page, while the user left the organization.
ForeignRowsAreLate ==
  \A o \in Orgs :
    cache[KeyOf(o)].rows # None /\ o \notin left => cache[KeyOf(o)].rows.of \subseteq {o}
=============================================================================
