------------------------------- MODULE Grants -------------------------------
(***************************************************************************)
(* Granting capabilities to agents and revoking them: the panel of the     *)
(* dashboard, with the lists it has loaded and the dialog it asks in, and  *)
(* the procedures permissions.create and revoke, which the panel, the CLI  *)
(* and the SDK call.  Each call runs in one transaction under READ         *)
(* COMMITTED; the rows of a batch are inserted one after the other, and an *)
(* insert waits for whoever has an uncommitted row in its place.           *)
(*                                                                         *)
(* A permissions row is named by the call that created it and its          *)
(* capability.  Expiries are left out: the access path reads them.         *)
(***************************************************************************)
EXTENDS Naturals, SequencesExt

CONSTANTS
  Agents,
  Remote,         \* agents that are not on a machine of their owner
  Items,
  ZeroKnowledge,  \* items with storageMode "zero_knowledge"
  Profiles,
  ProfileOf,      \* the profile each item is in
  Managed,        \* agents that the callers may manage, by role or as their creator
  Requests,
  Batches,        \* lists of capabilities that the CLI and the SDK send
  None

Targets == Items \cup Profiles

ASSUME GrantsConstants ==
  /\ Remote \subseteq Agents /\ Managed \subseteq Agents
  /\ ZeroKnowledge \subseteq Items
  /\ ProfileOf \in [Items -> Profiles]
  /\ Items \cap Profiles = {}
  /\ None \notin Agents \cup Targets \cup Requests

Canonical == {"read", "use"}
Legacy == {"read_ciphertext", "reveal_plaintext", "mount_env", "mount_file"}
Capabilities == Canonical \cup Legacy

\* CAPABILITY_MATRIX, which knows the legacy names only.
AllowedFor(a, zk) ==
  (IF a \in Remote THEN {} ELSE {"mount_env", "mount_file"}) \cup
  (IF ~zk THEN {"reveal_plaintext"} ELSE IF a \in Remote THEN {} ELSE {"read_ciphertext"})
Allowed(a, i) == AllowedFor(a, i \in ZeroKnowledge)

Ids == Requests \X Capabilities

\* CreatePermissionCapabilities: not empty, and without duplicates.
ASSUME BatchesAreLists ==
  \A b \in Batches : /\ b \in Seq(Capabilities) /\ b # <<>>
                     /\ \A i, j \in DOMAIN b : b[i] = b[j] => i = j

VARIABLES
  items,    \* items that exist
  live,     \* permissions rows, by their ids
  log,      \* permission.create and permission.revoke, allowed, of audit_logs
  call,     \* what each call asks
  stage,    \* where it is
  left,     \* the capabilities it has still to insert
  rows,     \* what its transaction has inserted
  gone,     \* ... and deleted
  open,     \* the panel of one tab is open
  form,     \* what is selected in it
  known,    \* the items of the list it has loaded
  pair,     \* the capabilities it takes for granted already
  confirm,  \* what its dialog asks about
  sent      \* the call it waits for

calls == <<call, stage, left, rows, gone>>
panel == <<open, form, known, pair, confirm, sent>>
vars == <<items, live, log, calls, panel>>

NoCall == [kind |-> "none", agent |-> None, target |-> None, caps |-> <<>>, id |-> None,
           asked |-> None, panel |-> FALSE]
CreateOf(a, t, caps, asked, fromPanel) ==
  [kind |-> "create", agent |-> a, target |-> t, caps |-> caps, id |-> None,
   asked |-> asked, panel |-> fromPanel]
RevokeOf(id) ==
  [kind |-> "revoke", agent |-> None, target |-> None, caps |-> <<>>, id |-> id,
   asked |-> None, panel |-> FALSE]

Triple(id) == <<call[id[1]].agent, call[id[1]].target, id[2]>>
Created == {e.id : e \in {l \in log : l.event = "create"}}
Revoked == {e.id : e \in {l \in log : l.event = "revoke"}}

Blank == [type |-> "item", agent |-> None, target |-> None, caps |-> {}]
Stages == {"unsent", "agent", "target", "existing", "insert", "read", "delete", "commit",
           "ok", "refused"}

Someone == Agents \cup {None}
Something == Targets \cup {None}
Call ==
  [kind : {"none", "create", "revoke"}, agent : Someone, target : Something,
   caps : Seq(Capabilities), id : Ids \cup {None},
   asked : (Someone \X Something) \cup {None}, panel : BOOLEAN]
Form == [type : {"item", "profile"}, agent : Someone, target : Something, caps : SUBSET Canonical]
Confirm == [agent : Someone, target : Something, caps : SUBSET Canonical]

TypeOK ==
  /\ items \subseteq Items /\ live \subseteq Ids
  /\ log \subseteq [event : {"create", "revoke"}, id : Ids, by : Requests]
  /\ call \in [Requests -> Call] /\ stage \in [Requests -> Stages]
  /\ left \in [Requests -> Seq(Capabilities)]
  /\ rows \in [Requests -> SUBSET Ids] /\ gone \in [Requests -> SUBSET Ids]
  /\ open \in BOOLEAN /\ form \in Form /\ known \in {None} \cup SUBSET Items
  /\ pair \in {None} \cup SUBSET Capabilities /\ confirm \in {None} \cup Confirm
  /\ sent \in Requests \cup {None}

Init ==
  /\ items \in SUBSET Items
  /\ live = {} /\ log = {}
  /\ call = [r \in Requests |-> NoCall] /\ stage = [r \in Requests |-> "unsent"]
  /\ left = [r \in Requests |-> <<>>]
  /\ rows = [r \in Requests |-> {}] /\ gone = [r \in Requests |-> {}]
  /\ open = FALSE /\ form = Blank
  /\ known = None /\ pair = None /\ confirm = None /\ sent = None

-----------------------------------------------------------------------------
(* permissions.create *)

Open(r) == stage[r] \in {"agent", "target", "existing", "insert", "read", "delete", "commit"}
Goto(r, s) == stage' = [stage EXCEPT ![r] = s] /\ UNCHANGED <<left, rows, gone>>

\* A call is over, and with it its transaction.
Ends(r, s) ==
  /\ stage' = [stage EXCEPT ![r] = s]
  /\ rows' = [rows EXCEPT ![r] = {}] /\ gone' = [gone EXCEPT ![r] = {}]
  /\ UNCHANGED left

\* A domain error, or one of SQL: the transaction has written nothing to speak of, or
\* rolls it back.
Refuses(r) == Ends(r, "refused")

\* The agent must be one of the organization, and the caller's to manage.
LoadAgent(r) ==
  /\ stage[r] = "agent"
  /\ IF call[r].agent \in Managed THEN Goto(r, "target") ELSE Refuses(r)
  /\ UNCHANGED <<items, live, log, call, panel>>

\* Of a profile only its existence is checked.
ProfileAdmits(r) == call[r].target \in Profiles

\* On an item, canonical capabilities are refused, and those the matrix does not have.
ItemAdmits(r) ==
  /\ call[r].target \in items
  /\ ToSet(call[r].caps) \cap Canonical = {}
  /\ ToSet(call[r].caps) \subseteq Allowed(call[r].agent, call[r].target)

LoadTarget(r) ==
  /\ stage[r] = "target"
  /\ IF ProfileAdmits(r) \/ ItemAdmits(r) THEN Goto(r, "existing") ELSE Refuses(r)
  /\ UNCHANGED <<items, live, log, call, panel>>

Wanted(r) == {<<call[r].agent, call[r].target, c>> : c \in ToSet(call[r].caps)}

FindExisting(r) ==
  /\ stage[r] = "existing"
  /\ IF \E id \in live : Triple(id) \in Wanted(r) THEN Refuses(r) ELSE Goto(r, "insert")
  /\ UNCHANGED <<items, live, log, call, panel>>

NextId(r) == <<r, Head(left[r])>>
\* The calls that an insert or a delete of r has to wait for.
WaitsFor(r, q) ==
  /\ q # r /\ Open(q)
  /\ \/ /\ stage[r] = "insert" /\ left[r] # <<>>
        /\ \E id \in rows[q] \cup gone[q] : Triple(id) = Triple(NextId(r))
     \/ stage[r] = "delete" /\ call[r].id \in gone[q]

Inserts(r, new) ==
  /\ left' = [left EXCEPT ![r] = Tail(@)] /\ rows' = [rows EXCEPT ![r] = @ \cup new]
  /\ UNCHANGED <<stage, gone>>
Taken(r) == \E id \in live : Triple(id) = Triple(NextId(r))

\* Mutant: rows that are there already are skipped.
InsertMissing(r) ==
  /\ stage[r] = "insert" /\ \A q \in Requests : ~WaitsFor(r, q)
  /\ IF left[r] = <<>> THEN Goto(r, "commit")
     ELSE Inserts(r, IF Taken(r) THEN {} ELSE {NextId(r)})
  /\ UNCHANGED <<items, live, log, call, panel>>

\* The unique index has the last word.
Insert(r) ==
  /\ stage[r] = "insert" /\ \A q \in Requests : ~WaitsFor(r, q)
  /\ IF left[r] = <<>> THEN Goto(r, "commit")
     ELSE IF Taken(r) THEN Refuses(r)
     ELSE Inserts(r, {NextId(r)})
  /\ UNCHANGED <<items, live, log, call, panel>>

\* PostgreSQL breaks a circle of waiting transactions.
DeadlockVictim(r) ==
  /\ \E S \in SUBSET Requests : r \in S /\ \A q \in S : \E s \in S : WaitsFor(q, s)
  /\ Refuses(r)
  /\ UNCHANGED <<items, live, log, call, panel>>

\* The Worker is gone, or the connection: nothing is committed.
Crash(r) ==
  /\ Open(r)
  /\ Refuses(r)
  /\ UNCHANGED <<items, live, log, call, panel>>

-----------------------------------------------------------------------------
(* permissions.revoke, and the end of both *)

ReadPermission(r) ==
  /\ stage[r] = "read"
  /\ IF call[r].id \in live /\ Triple(call[r].id)[1] \in Managed
       THEN Goto(r, "delete") ELSE Refuses(r)
  /\ UNCHANGED <<items, live, log, call, panel>>

\* Whether or not the row is still there.
DeletePermission(r) ==
  /\ stage[r] = "delete" /\ \A q \in Requests : ~WaitsFor(r, q)
  /\ stage' = [stage EXCEPT ![r] = "commit"]
  /\ gone' = [gone EXCEPT ![r] = {call[r].id} \cap live]
  /\ UNCHANGED <<left, rows>>
  /\ UNCHANGED <<items, live, log, call, panel>>

\* Mutant: a revocation is logged on a connection of its own, and that fails.
CommitUnlogged(r) ==
  /\ stage[r] = "commit"
  /\ live' = (live \cup rows[r]) \ gone[r]
  /\ log' = log \cup [event : {"create"}, id : rows[r], by : {r}]
  /\ Ends(r, "ok")
  /\ UNCHANGED <<items, call, panel>>

\* A row of the log for each row created, and for the revocation.
Commit(r) ==
  /\ stage[r] = "commit"
  /\ live' = (live \cup rows[r]) \ gone[r]
  /\ log' = log \cup (IF call[r].kind = "create"
                        THEN [event : {"create"}, id : rows[r], by : {r}]
                        ELSE {[event |-> "revoke", id |-> call[r].id, by |-> r]})
  /\ Ends(r, "ok")
  /\ UNCHANGED <<items, call, panel>>

-----------------------------------------------------------------------------
(* Callers other than the panel *)

Starts(r, c, first) ==
  /\ stage[r] = "unsent"
  /\ call' = [call EXCEPT ![r] = c] /\ stage' = [stage EXCEPT ![r] = first]
  /\ left' = [left EXCEPT ![r] = c.caps]
  /\ UNCHANGED <<rows, gone>>

\* abadge permission create: canonical names for a profile, legacy ones for an item.
CliCreates(r, a, t, caps) ==
  /\ t \in Profiles <=> ToSet(caps) \subseteq Canonical
  /\ t \in Items <=> ToSet(caps) \subseteq Legacy
  /\ Starts(r, CreateOf(a, t, caps, None, FALSE), "agent")
  /\ UNCHANGED <<items, live, log, panel>>

\* The page of the grants, an agent's, an item's, or the CLI.
Revokes(r, id) ==
  /\ id \in Created
  /\ Starts(r, RevokeOf(id), "read")
  /\ UNCHANGED <<items, live, log, panel>>

CreateItem(i) ==
  /\ i \notin items
  /\ items' = items \cup {i}
  /\ UNCHANGED <<live, log, calls, panel>>

-----------------------------------------------------------------------------
(* The panel *)

\* The capabilities that can be chosen; with none, there is a message instead.
Offered(f, listed) ==
  IF f.agent = None \/ f.target = None THEN Canonical
  ELSE IF f.type = "item" THEN Canonical \cap Allowed(f.agent, f.target)
  ELSE LET inside == {i \in listed : ProfileOf[i] = f.target} IN
       IF inside = {} THEN IF f.agent \in Remote THEN {"read"} ELSE Canonical
       ELSE {c \in Canonical : \A i \in inside : c \in Allowed(f.agent, i)}

\* What the form lets the user choose from, given what is selected.
Choosable ==
  [targets |-> IF form.type = "profile" THEN Profiles ELSE known,
   caps |-> Offered(form, known) \ (IF pair = None THEN {} ELSE pair)]
Enabled(c) == known # None /\ c \in Choosable.caps

Selected(type, a, t, caps) == [type |-> type, agent |-> a, target |-> t, caps |-> caps]
Chooses(f) == form' = f /\ pair' = None /\ UNCHANGED <<open, known, confirm, sent>>
\* The form can be used: the panel is open, and its dialog is not.
Usable == open /\ confirm = None

OpenPanel ==
  /\ ~open /\ open' = TRUE
  /\ UNCHANGED <<items, live, log, calls, form, known, pair, confirm, sent>>

\* handleClose: a submission under way goes on.
ClosePanel ==
  /\ Usable
  /\ open' = FALSE /\ form' = Blank /\ pair' = None
  /\ UNCHANGED <<items, live, log, calls, known, confirm, sent>>

ListsArrive ==
  /\ open /\ known' = items
  /\ UNCHANGED <<items, live, log, calls, open, form, pair, confirm, sent>>

\* The query of a profile's grants is refused: the procedure takes no profileId.
PairArrives ==
  /\ open /\ form.agent # None /\ form.target # None
  /\ pair' = IF form.type = "profile" THEN {}
             ELSE {c \in Capabilities : \E x \in live : Triple(x) = <<form.agent, form.target, c>>}
  /\ UNCHANGED <<items, live, log, calls, open, form, known, confirm, sent>>

ChooseType(type) ==
  /\ Usable
  /\ Chooses(Selected(type, form.agent, None, {}))
  /\ UNCHANGED <<items, live, log, calls>>

ChooseAgent(a) ==
  /\ Usable
  /\ Chooses(Selected(form.type, a, form.target, {}))
  /\ UNCHANGED <<items, live, log, calls>>

ChooseTarget(t) ==
  /\ Usable /\ known # None /\ t \in Choosable.targets
  /\ Chooses(Selected(form.type, form.agent, t, {}))
  /\ UNCHANGED <<items, live, log, calls>>

Toggle(c) ==
  /\ Usable /\ Enabled(c)
  /\ form' = Selected(form.type, form.agent, form.target,
                      IF c \in form.caps THEN form.caps \ {c} ELSE form.caps \cup {c})
  /\ UNCHANGED <<items, live, log, calls, open, known, pair, confirm, sent>>

\* In the order of CANONICAL_CAPABILITIES.
Ordered(caps) ==
  IF caps = Canonical THEN <<"read", "use">>
  ELSE IF "read" \in caps THEN <<"read">>
  ELSE IF "use" \in caps THEN <<"use">> ELSE <<>>
Input == [agent |-> form.agent, target |-> form.target, caps |-> form.caps]
Sends(r, input, asked) ==
  /\ Starts(r, CreateOf(input.agent, input.target, Ordered(input.caps), asked, TRUE), "agent")
  /\ sent' = r /\ UNCHANGED <<open, form, known, pair, confirm>>

CanSubmit ==
  /\ Usable /\ form.agent # None /\ form.target # None /\ form.caps # {}
  /\ sent = None /\ known # None /\ pair # None

Asks == confirm' = Input /\ UNCHANGED <<calls, open, form, known, pair, sent>>

\* Mutant: only a grant of read alone is asked about.
SubmitReadAlone(r) ==
  /\ CanSubmit
  /\ IF form.type = "profile" /\ form.caps = {"read"} THEN Asks ELSE Sends(r, Input, None)
  /\ UNCHANGED <<items, live, log>>

Submit(r) ==
  /\ CanSubmit
  /\ IF form.type = "profile" /\ "read" \in form.caps THEN Asks ELSE Sends(r, Input, None)
  /\ UNCHANGED <<items, live, log>>

\* The dialog names what is selected, and sends what was submitted.
GrantAnyway(r) ==
  /\ confirm # None /\ sent = None
  /\ Sends(r, confirm, <<form.agent, form.target>>)
  /\ UNCHANGED <<items, live, log>>

CancelDialog ==
  /\ confirm # None /\ confirm' = None
  /\ UNCHANGED <<items, live, log, calls, open, form, known, pair, sent>>

\* Granted: the form is emptied and the panel closed, whatever has become of it.
Granted ==
  /\ sent # None /\ stage[sent] = "ok"
  /\ open' = FALSE /\ form' = Blank /\ pair' = None /\ confirm' = None /\ sent' = None
  /\ UNCHANGED <<items, live, log, calls, known>>

\* Refused, or the answer is lost while the call goes on.
NotGranted ==
  /\ sent # None
  /\ confirm' = None /\ sent' = None
  /\ UNCHANGED <<items, live, log, calls, open, form, known, pair>>

-----------------------------------------------------------------------------
Server(r) ==
  \/ LoadAgent(r) \/ LoadTarget(r) \/ FindExisting(r) \/ Insert(r)
  \/ ReadPermission(r) \/ DeletePermission(r) \/ Commit(r)
  \/ DeadlockVictim(r) \/ Crash(r)

Person ==
  \/ OpenPanel \/ ClosePanel \/ CancelDialog
  \/ \E type \in {"item", "profile"} : ChooseType(type)
  \/ \E a \in Agents : ChooseAgent(a)
  \/ \E t \in Targets : ChooseTarget(t)
  \/ \E c \in Canonical : Toggle(c)
  \/ \E r \in Requests : Submit(r) \/ GrantAnyway(r)

Next ==
  \/ \E r \in Requests :
       \/ Server(r)
       \/ \E a \in Agents, t \in Targets, caps \in Batches : CliCreates(r, a, t, caps)
       \/ \E id \in Ids : Revokes(r, id)
  \/ \E i \in Items : CreateItem(i)
  \/ Person \/ ListsArrive \/ PairArrives \/ Granted \/ NotGranted

Spec == Init /\ [][Next]_vars

-----------------------------------------------------------------------------
\* The log replays to the table: a permission is there exactly if its creation is logged
\* and no revocation of it is (permissions.ts: the "1:1 invariant between permission rows
\* and permission.create events").
LogTellsGrants == live = Created \ Revoked

\* A batch that is answered with success has created all its permissions, and any other
\* none of them (docs/dashboard/permissions.mdx: "The whole batch lands atomically").
AllOrNothing ==
  \A r \in Requests : call[r].kind = "create" =>
    {id \in Created : id[1] = r} =
      IF stage[r] = "ok" THEN {<<r, c>> : c \in ToSet(call[r].caps)} ELSE {}

\* An agent has each capability on a target at most once, however calls overlap.
OneRowEach == \A x, y \in live : Triple(x) = Triple(y) => x = y

\* The panel sends no grant of "read" on a profile that the user was not asked about, by
\* the names of that agent and that profile.
ReadIsConfirmed ==
  \A r \in Requests :
    call[r].panel /\ call[r].target \in Profiles /\ "read" \in ToSet(call[r].caps) =>
      call[r].asked = <<call[r].agent, call[r].target>>

\* What the panel says of an item it has no capabilities to offer for: "Remote agents
\* cannot access zero-knowledge items." (create-permission-panel.tsx).
MessageIsTrue ==
  open /\ known # None /\ form.agent # None /\ form.type = "item"
    /\ form.target # None /\ Offered(form, known) = {}
      => form.agent \in Remote /\ form.target \in ZeroKnowledge

\* docs/dashboard/permissions.mdx: "Invalid combinations (for example, a remote agent +
\* use) are rejected at create time".
InvalidRejected == \A id \in live : id[2] = "use" => Triple(id)[1] \notin Remote
=============================================================================
