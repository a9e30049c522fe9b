---------------------------- MODULE AgentAccess ----------------------------
(***************************************************************************)
(* Agents reading and mounting the items of one profile.  Each request     *)
(* resolves its agent from the session token on the pooled connection,     *)
(* then opens one transaction (withOrgContext), runs the handler of its    *)
(* endpoint a statement at a time under READ COMMITTED and commits; what   *)
(* it writes is visible to others at its commit.  Meanwhile admins grant   *)
(* and revoke permissions, delete items and revoke agents, and sessions,   *)
(* permissions and mount handles expire.                                   *)
(*                                                                         *)
(* The legacy item capabilities are collapsed to the canonical action they *)
(* map to and env and file delivery to one; whether an item can be         *)
(* delivered once it is found (its envelope is there and decrypts) is a    *)
(* choice made at each attempt.                                            *)
(***************************************************************************)
EXTENDS Naturals, FiniteSets

CONSTANTS
  Agents, Items, Requests,
  Profile,        \* the profile all the items are in
  ZeroKnowledge,  \* items with storageMode "zero_knowledge"
  Endpoints,      \* procedures of the access router that each request may call
  BulkLimit,      \* MAX_PROFILE_USE_ITEMS and BULK_MOUNT_ENV_MAX_ITEMS
  Actions,        \* canonical actions that permissions are granted for
  MaxGrants,      \* bound on the permissions rows ever inserted
  NoItem, NoHandle, NoRequest

Canonical == {"read", "use"}
SingleItem == Canonical \cup {"reveal", "ciphertext", "mount"}
AllEndpoints == SingleItem \cup {"useProfile", "bulkMountEnv", "redeem"}

Targets == Items \cup {Profile}
Grants == Agents \X Targets \X Actions

\* A mount handle is named by the request that minted it and its item.
Handles == Requests \X Items

ASSUME AccessConstants ==
  /\ ZeroKnowledge \subseteq Items
  /\ Actions \subseteq Canonical
  /\ Endpoints \in [Requests -> SUBSET AllEndpoints]
  /\ Profile \notin Items /\ NoItem \notin Items
  /\ NoRequest \notin Requests /\ NoHandle \notin Handles
  /\ BulkLimit \in Nat /\ MaxGrants \in Nat

VARIABLES
  agent,      \* agents rows: locality and revokedAt
  session,    \* the session token each agent holds
  grant,      \* permissions rows
  live,       \* items whose deletedAt is null
  mount,      \* mount_reservations rows
  redeemer,   \* consumedAt: the request that consumed each handle
  audit,      \* committed audit_logs rows of access events
  sink,       \* rows mirrored to the append-only log
  call,       \* what each request asks
  stage,      \* where it is
  todo,       \* items of a bulk request still to resolve
  resolved,   \* items it may deliver
  write,      \* audit rows it still has to insert
  tx,         \* what its transaction has written
  verdict,    \* what its handler will answer
  history     \* what held when it was sent, and grants that held since

database == <<agent, session, grant, live, mount, redeemer, audit>>
handler == <<todo, resolved, write, tx, verdict>>
vars == <<database, sink, call, stage, handler, history>>

-----------------------------------------------------------------------------
(* Requests *)

Results == {"allowed", "denied", "expired"}
Row == [request : Requests, item : Items \cup {NoItem}, result : Results]


RowOf(r, i, result) == [request |-> r, item |-> i, result |-> result]

Call == [agent : Agents, endpoint : AllEndpoints, item : Items \cup {NoItem},
         handle : Handles \cup {NoHandle}, badField : BOOLEAN]

ActionOf(c) == IF c.endpoint \in {"read", "reveal", "ciphertext"} THEN "read" ELSE "use"

\* What a transaction has written so far; healthy is FALSE once a statement
\* has failed in it.
Transaction == [audit : SUBSET Row, mounts : SUBSET Handles,
                consumed : Handles \cup {NoHandle}, healthy : BOOLEAN]
Begun == [audit |-> {}, mounts |-> {}, consumed |-> NoHandle, healthy |-> TRUE]

InHandler == {"load", "permission", "reserve", "redeem", "insert", "commit"}
Stages == InHandler \cup {"unsent", "authenticate", "rejected", "committed", "rolledBack"}

Open(r) == stage[r] \in InHandler
Answered(r, v) == stage[r] = "committed" /\ verdict[r] = v

NothingYet == [items |-> {}, targets |-> {}]

TypeOK ==
  /\ agent \in [Agents -> [locality : {"local", "remote"}, revoked : BOOLEAN]]
  /\ session \in [Agents -> {"live", "expired", "revoked"}]
  /\ grant \in [Grants -> {"none", "fresh", "expired", "deleted"}]
  /\ live \in SUBSET Items
  /\ mount \in [Handles -> {"none", "fresh", "expired"}]
  /\ redeemer \in [Handles -> Requests \cup {NoRequest}]
  /\ audit \in SUBSET Row /\ sink \in SUBSET Row
  /\ call \in [Requests -> Call]
  /\ stage \in [Requests -> Stages]
  /\ todo \in [Requests -> SUBSET Items]
  /\ resolved \in [Requests -> SUBSET Items]
  /\ write \in [Requests -> SUBSET Row]
  /\ tx \in [Requests -> Transaction]
  /\ verdict \in [Requests -> {"ok", "error"}]
  /\ history \in [Requests -> [items : SUBSET Items, targets : SUBSET Targets]]

\* What a client may send: an item, a handle or neither, as the endpoint wants.
Calls == {c \in Call :
  /\ c.endpoint \in SingleItem <=> c.item # NoItem
  /\ c.endpoint = "redeem" <=> c.handle # NoHandle
  /\ c.badField => c.endpoint \in {"read", "reveal", "mount"}}

\* A handle that is presented is one that some request may have minted.
Mints(c, i) == c.endpoint = "useProfile" \/ (c.endpoint = "use" /\ c.item = i)

Init ==
  /\ agent \in [Agents -> [locality : {"local", "remote"}, revoked : {FALSE}]]
  /\ session = [a \in Agents |-> "live"]
  /\ grant = [g \in Grants |-> "none"]
  /\ live = Items
  /\ mount = [h \in Handles |-> "none"]
  /\ redeemer = [h \in Handles |-> NoRequest]
  /\ audit = {} /\ sink = {}
  /\ call \in {c \in [Requests -> Calls] : \A r \in Requests :
       /\ c[r].endpoint \in Endpoints[r]
       /\ c[r].endpoint = "redeem" => Mints(c[c[r].handle[1]], c[r].handle[2])}
  /\ stage = [r \in Requests |-> "unsent"]
  /\ todo = [r \in Requests |-> {}]
  /\ resolved = [r \in Requests |-> {}]
  /\ write = [r \in Requests |-> {}]
  /\ tx = [r \in Requests |-> Begun]
  /\ verdict = [r \in Requests |-> "error"]
  /\ history = [r \in Requests |-> NothingYet]

Goto(r, s) == stage' = [stage EXCEPT ![r] = s]

\* The handler raises a domain error after inserting rows: a domain error
\* leaves the transaction healthy, so it will commit.
FailWith(r, rows) ==
  /\ verdict' = [verdict EXCEPT ![r] = "error"]
  /\ write' = [write EXCEPT ![r] = rows]
  /\ Goto(r, IF rows = {} THEN "commit" ELSE "insert")
  /\ UNCHANGED <<todo, resolved, tx>>

\* Mutant: the refusal is not logged.
DenyQuietly(r, i, result) == FailWith(r, {})

Deny(r, i, result) == FailWith(r, {RowOf(r, i, result)})
Fail(r) == FailWith(r, {})

\* The handler will deliver the items, and inserts an allowed row for each.
Allow(r, items) ==
  /\ verdict' = [verdict EXCEPT ![r] = "ok"]
  /\ resolved' = [resolved EXCEPT ![r] = items]
  /\ write' = [write EXCEPT ![r] = {RowOf(r, i, "allowed") : i \in items}]
  /\ Goto(r, IF items = {} THEN "commit" ELSE "insert")
  /\ UNCHANGED <<todo, tx>>

-----------------------------------------------------------------------------
(* resolveAgentIdentity, before the transaction *)

\* A permissions row is there and has not expired.
Granted(a, t, act) == act \in Actions /\ grant[<<a, t, act>>] = "fresh"

\* The targets that a request's agent has a permission on, for what it asks.
Covered(r) == {t \in Targets : Granted(call[r].agent, t, ActionOf(call[r]))}

\* The caller is turned away; an expired session or a revoked agent leaves a
\* row written outside any transaction.
Reject(r, rows) ==
  /\ Goto(r, "rejected")
  /\ audit' = audit \cup rows
  /\ UNCHANGED <<agent, session, grant, live, mount, redeemer, sink, handler>>

\* The session row is looked up by the hash of its token, revoked rows excluded.
ReadSession(r) ==
  /\ stage[r] = "unsent"
  /\ LET a == call[r].agent IN
     \/ /\ session[a] = "live"
        /\ Goto(r, "authenticate")
        /\ UNCHANGED <<database, sink, handler>>
     \/ session[a] = "expired" /\ Reject(r, {RowOf(r, NoItem, "expired")})
     \/ session[a] = "revoked" /\ Reject(r, {})
  /\ history' = [history EXCEPT ![r] =
       IF call[r].endpoint = "redeem" \/ agent[call[r].agent].revoked THEN NothingYet
       ELSE [items |-> live, targets |-> Covered(r)]]
  /\ UNCHANGED call

\* The agent row is read next; the identity is not checked again after it.
ReadAgent(r) ==
  /\ stage[r] = "authenticate"
  /\ \/ /\ ~agent[call[r].agent].revoked
        /\ Goto(r, "load")
        /\ UNCHANGED <<database, sink, handler>>
     \/ /\ agent[call[r].agent].revoked
        /\ Reject(r, {RowOf(r, NoItem, "denied")})
  /\ UNCHANGED <<call, history>>

-----------------------------------------------------------------------------
(* One item: access.read, use, reveal, ciphertext, mount *)

IsRemote(c) == agent[c.agent].locality = "remote"

\* checkActionConstraint: no zero-knowledge item and no use for a remote agent.
Constrained(c, i) ==
  IsRemote(c) /\ (i \in ZeroKnowledge \/ ActionOf(c) = "use")

\* The legacy endpoints check locality before the item is loaded ...
RemoteRefused(c) == c.endpoint \in {"ciphertext", "mount"} /\ IsRemote(c)

\* ... and the storage mode after it.
WrongStorageMode(c) ==
  \/ c.endpoint = "reveal" /\ c.item \in ZeroKnowledge
  \/ c.endpoint = "ciphertext" /\ c.item \notin ZeroKnowledge

\* Only the canonical endpoints leave a row for an item that is not found.
LoadItem(r) ==
  /\ stage[r] = "load" /\ call[r].endpoint \in SingleItem
  /\ LET c == call[r]
         missing == c.item \notin live
         canonical == c.endpoint \in Canonical
         refused == \/ RemoteRefused(c)
                    \/ IF canonical THEN missing \/ Constrained(c, c.item)
                                    ELSE ~missing /\ WrongStorageMode(c)
     IN \/ refused /\ Deny(r, c.item, "denied")
        \/ ~refused /\ missing /\ Fail(r)
        \/ ~refused /\ ~missing /\ Goto(r, "permission") /\ UNCHANGED handler
  /\ UNCHANGED <<database, sink, call, history>>

\* The permissions rows that cover an item: lookupPermission takes those of the
\* item and of the profile, checkPermission knows the item's alone.
Rows(c, i) ==
  {g \in Grants : /\ g[1] = c.agent /\ g[3] = ActionOf(c)
                  /\ g[2] = i \/ (g[2] = Profile /\ c.endpoint \in Canonical \cup {"useProfile"})
                  /\ grant[g] \in {"fresh", "expired"}}

\* Mutant: expiresAt is not compared with the clock.
PermissionEver(c, i) == IF Rows(c, i) = {} THEN "none" ELSE "fresh"

\* A row that has not expired is preferred to one that has.
Permission(c, i) ==
  IF Rows(c, i) = {} THEN "none"
  ELSE IF \E g \in Rows(c, i) : grant[g] = "fresh" THEN "fresh" ELSE "expired"

\* access.use goes on to reserve a handle; the others deliver.  The legacy
\* endpoints return a zero-knowledge envelope as it is.
FindPermission(r) ==
  /\ stage[r] = "permission" /\ call[r].endpoint \in SingleItem
  /\ LET c == call[r]
         found == Permission(c, c.item)
         decrypts == c.item \notin ZeroKnowledge
         checksEnvelope == decrypts \/ c.endpoint = "read"
         noField == decrypts /\ c.badField
     IN \/ found = "none" /\ Deny(r, c.item, "denied")
        \/ found = "expired" /\ Deny(r, c.item, "expired")
        \/ /\ found = "fresh" /\ c.endpoint = "use"
           /\ resolved' = [resolved EXCEPT ![r] = {c.item}]
           /\ Goto(r, "reserve")
           /\ UNCHANGED <<todo, write, tx, verdict>>
        \/ /\ found = "fresh" /\ c.endpoint # "use"
           /\ \/ checksEnvelope /\ Deny(r, c.item, "denied")
              \/ noField /\ c.endpoint = "read" /\ Fail(r)
              \/ noField /\ c.endpoint # "read" /\ Deny(r, c.item, "denied")
              \/ ~noField /\ Allow(r, {c.item})
  /\ UNCHANGED <<database, sink, call, history>>

-----------------------------------------------------------------------------
(* A whole profile: access.useProfile, bulkMountEnv *)

\* access.useProfile reads every live item ...
LoadProfile(r) ==
  /\ stage[r] = "load" /\ call[r].endpoint = "useProfile"
  /\ \/ Cardinality(live) > BulkLimit /\ Fail(r)
     \/ live = {} /\ Allow(r, {})
     \/ /\ live # {} /\ Cardinality(live) <= BulkLimit
        /\ todo' = [todo EXCEPT ![r] = live]
        /\ Goto(r, "permission")
        /\ UNCHANGED <<resolved, write, tx, verdict>>
  /\ UNCHANGED <<database, sink, call, history>>

\* ... and looks up a permission for one after the other; the first refusal
\* ends the request.
FindNextPermission(r) ==
  /\ stage[r] = "permission" /\ call[r].endpoint = "useProfile"
  /\ \E i \in todo[r] :
       LET c == call[r]
           found == Permission(c, i)
       IN \/ (Constrained(c, i) \/ found = "none") /\ Deny(r, i, "denied")
          \/ ~Constrained(c, i) /\ found = "expired" /\ Deny(r, i, "expired")
          \/ /\ ~Constrained(c, i) /\ found = "fresh"
             /\ resolved' = [resolved EXCEPT ![r] = @ \cup {i}]
             /\ todo' = [todo EXCEPT ![r] = @ \ {i}]
             /\ Goto(r, IF todo[r] = {i} THEN "reserve" ELSE "permission")
             /\ UNCHANGED <<write, tx, verdict>>
  /\ UNCHANGED <<database, sink, call, history>>

\* bulkMountEnv joins the live items with the agent's own rows in one query,
\* then decrypts one after the other.
Mountable(a) == {i \in live : Granted(a, i, "use")}

\* The allowed rows of the items decrypted before a failure are discarded.
Staged(r, items) == {}

MountAll(r) ==
  /\ stage[r] = "load" /\ call[r].endpoint = "bulkMountEnv"
  /\ LET items == Mountable(call[r].agent)
         refused == IsRemote(call[r]) \/ Cardinality(items) > BulkLimit
     IN \/ refused /\ Fail(r)
        \/ /\ ~refused
           /\ \E i \in items : \E before \in SUBSET (items \ {i}) :
                FailWith(r, Staged(r, before) \cup {RowOf(r, i, "denied")})
        \/ ~refused /\ Allow(r, items)
  /\ UNCHANGED <<database, sink, call, history>>

\* ROLLBACK TO SAVEPOINT.
Undo(before, after) == before

\* The mount reservations and their allowed rows are one nested transaction:
\* a failed statement rolls back to its savepoint.
Reserve(r) ==
  /\ stage[r] = "reserve"
  /\ LET reserved == [tx[r] EXCEPT !.mounts = {r} \X resolved[r],
                                   !.audit = {RowOf(r, i, "allowed") : i \in resolved[r]}]
     IN \/ tx' = [tx EXCEPT ![r] = reserved] /\ verdict' = [verdict EXCEPT ![r] = "ok"]
        \/ tx' = [tx EXCEPT ![r] = Undo(tx[r], reserved)] /\ UNCHANGED verdict
  /\ Goto(r, "commit")
  /\ UNCHANGED <<database, sink, call, todo, resolved, write, history>>

-----------------------------------------------------------------------------
(* access.redeemMount *)

\* Mutant: consumed_at IS NULL is not in the WHERE clause.
RedeemableTwice(r, h) == mount[h] = "fresh" /\ call[h[1]].agent = call[r].agent

\* The WHERE clause of consumeReservation.
Redeemable(r, h) ==
  /\ mount[h] = "fresh" /\ redeemer[h] = NoRequest
  /\ call[h[1]].agent = call[r].agent

\* The row lock of an UPDATE that has not committed.
Locked(h) == \E q \in Requests : Open(q) /\ tx[q].consumed = h

\* UPDATE ... SET consumed_at WHERE own agent, unconsumed, unexpired: a second
\* request waits for the first, then sees what it committed.
ConsumeReservation(r) ==
  /\ stage[r] = "load" /\ call[r].endpoint = "redeem"
  /\ LET h == call[r].handle IN
     \/ ~Redeemable(r, h) /\ Deny(r, NoItem, "denied")
     \/ /\ Redeemable(r, h) /\ ~Locked(h)
        /\ tx' = [tx EXCEPT ![r].consumed = h]
        /\ Goto(r, "redeem")
        /\ UNCHANGED <<todo, resolved, write, verdict>>
  /\ UNCHANGED <<database, sink, call, history>>

\* The item is loaded again, its permission is not looked up again; a refusal
\* commits, and the handle stays consumed.
RedeemItem(r) ==
  /\ stage[r] = "redeem"
  /\ LET i == call[r].handle[2] IN
     \/ i \in live /\ Allow(r, {i})
     \/ Deny(r, i, "denied")
  /\ UNCHANGED <<database, sink, call, history>>

-----------------------------------------------------------------------------
(* Audit rows, COMMIT and ROLLBACK *)

\* logAgentAudit: a row that was inserted is mirrored to the sink; an INSERT
\* that fails is only a warning, but every later statement fails with it.
InsertAudit(r) ==
  /\ stage[r] = "insert"
  /\ \E row \in write[r] :
       \/ /\ tx' = [tx EXCEPT ![r].audit = @ \cup {row}]
          /\ sink' = sink \cup {row}
          /\ write' = [write EXCEPT ![r] = @ \ {row}]
          /\ Goto(r, IF write[r] = {row} THEN "commit" ELSE "insert")
       \/ /\ tx' = [tx EXCEPT ![r].healthy = FALSE]
          /\ write' = [write EXCEPT ![r] = {}]
          /\ Goto(r, "commit")
          /\ UNCHANGED sink
  /\ UNCHANGED <<database, call, todo, resolved, verdict, history>>

\* Mutant: the driver commits what it can.
CommittableAnyway(r) == TRUE

\* Postgres answers COMMIT with ROLLBACK once a statement has failed, and the
\* driver rejects.
Committable(r) == tx[r].healthy

\* The handler has answered; a transaction in which a statement failed cannot
\* commit, and its caller gets an error whatever the handler answered.
Commit(r) ==
  /\ stage[r] = "commit" /\ Committable(r)
  /\ audit' = audit \cup tx[r].audit
  /\ mount' = [h \in Handles |-> IF h \in tx[r].mounts THEN "fresh" ELSE mount[h]]
  /\ redeemer' = [h \in Handles |-> IF h = tx[r].consumed THEN r ELSE redeemer[h]]
  /\ tx' = [tx EXCEPT ![r] = Begun]
  /\ Goto(r, "committed")
  /\ UNCHANGED <<agent, session, grant, live, sink, call, todo, resolved, write, verdict, history>>

\* A failed transaction, a statement or COMMIT that fails, a lost connection or
\* a worker that dies.
Rollback(r) ==
  /\ Open(r)
  /\ todo' = [todo EXCEPT ![r] = {}] /\ resolved' = [resolved EXCEPT ![r] = {}]
  /\ write' = [write EXCEPT ![r] = {}] /\ tx' = [tx EXCEPT ![r] = Begun]
  /\ verdict' = [verdict EXCEPT ![r] = "error"]
  /\ Goto(r, "rolledBack")
  /\ UNCHANGED <<database, sink, call, history>>

-----------------------------------------------------------------------------
(* Admins and time *)

\* permissions.create: a row per (agent, target, capability), not inserted again
\* once it is deleted (a bound); for an item the capability must fit the agent's
\* locality and the item's storage mode.
CreatePermission(g) ==
  /\ grant[g] = "none"
  /\ Cardinality({k \in Grants : grant[k] # "none"}) < MaxGrants
  /\ agent[g[1]].locality = "remote" /\ g[2] # Profile => g[2] \notin ZeroKnowledge /\ g[3] = "read"
  /\ grant' = [grant EXCEPT ![g] = "fresh"]
  /\ UNCHANGED <<agent, session, live, mount, redeemer, audit, sink, call, stage, handler>>
  /\ history' = [r \in Requests |->
       IF (Open(r) \/ stage[r] = "authenticate") /\ call[r].endpoint # "redeem"
       THEN [history[r] EXCEPT !.targets = @ \cup Covered(r)'] ELSE history[r]]

RevokePermission(g) ==
  /\ grant[g] \in {"fresh", "expired"}
  /\ grant' = [grant EXCEPT ![g] = "deleted"]
  /\ UNCHANGED <<agent, session, live, mount, redeemer, audit, sink, call, stage, handler, history>>

\* items.delete: the soft delete and onItemDeleted in one transaction.
DeleteItem(i) ==
  /\ i \in live
  /\ live' = live \ {i}
  /\ grant' = [g \in Grants |-> IF g[2] = i /\ grant[g] # "none" THEN "deleted" ELSE grant[g]]
  /\ UNCHANGED <<agent, session, mount, redeemer, audit, sink, call, stage, handler, history>>

\* agents.revoke: the agent row and onAgentRevoked in one transaction.
RevokeAgent(a) ==
  /\ ~agent[a].revoked
  /\ agent' = [agent EXCEPT ![a].revoked = TRUE]
  /\ session' = [session EXCEPT ![a] = IF @ = "live" THEN "revoked" ELSE @]
  /\ UNCHANGED <<grant, live, mount, redeemer, audit, sink, call, stage, handler, history>>

Expire ==
  /\ \/ /\ \E a \in Agents :
             session[a] = "live" /\ session' = [session EXCEPT ![a] = "expired"]
        /\ UNCHANGED <<grant, mount>>
     \/ /\ \E g \in Grants :
             grant[g] = "fresh" /\ grant' = [grant EXCEPT ![g] = "expired"]
        /\ UNCHANGED <<session, mount>>
     \/ /\ \E h \in Handles :
             mount[h] = "fresh" /\ mount' = [mount EXCEPT ![h] = "expired"]
        /\ UNCHANGED <<session, grant>>
  /\ UNCHANGED <<agent, live, redeemer, audit, sink, call, stage, handler, history>>

-----------------------------------------------------------------------------

RequestStep(r) ==
  \/ ReadSession(r) \/ ReadAgent(r)
  \/ LoadItem(r) \/ FindPermission(r)
  \/ LoadProfile(r) \/ FindNextPermission(r) \/ MountAll(r) \/ Reserve(r)
  \/ ConsumeReservation(r) \/ RedeemItem(r)
  \/ InsertAudit(r) \/ Commit(r) \/ Rollback(r)

AdminStep ==
  \/ \E g \in Grants : CreatePermission(g) \/ RevokePermission(g)
  \/ \E i \in Items : DeleteItem(i)
  \/ \E a \in Agents : RevokeAgent(a)

Next == (\E r \in Requests : RequestStep(r)) \/ AdminStep \/ Expire

Spec == Init /\ [][Next]_vars

-----------------------------------------------------------------------------
(* Properties *)

\* No secret without a trace: an item that was delivered, or whose handle was
\* handed out, has its allowed row in the committed audit log (SECURITY.md,
\* "Audit the attempt (before returning any data)"; init.ts withOrgContext).
DeliveryIsAudited ==
  \A r \in Requests : Answered(r, "ok") =>
    \A i \in resolved[r] : RowOf(r, i, "allowed") \in audit

\* No phantom: a committed allowed row belongs to a request whose handler
\* succeeded on every item, never to one that failed half-way through a profile
\* (access.ts "phantom-audit fix", pipeline.ts "flush only after the full set").
NoPhantomAllow ==
  \A row \in audit : row.result = "allowed" =>
    Answered(row.request, "ok") /\ row.item \in resolved[row.request]

\* A mount reservation and its allowed row exist together or not at all, and
\* the handles of a profile exist all or none (pipeline.ts 485-519, 719-731).
ReservedIffAudited ==
  \A r \in Requests : call[r].endpoint \in {"use", "useProfile"} =>
    \A i \in Items : /\ mount[<<r, i>>] # "none" <=> RowOf(r, i, "allowed") \in audit
                     /\ mount[<<r, i>>] # "none" => Answered(r, "ok")

\* An agent gets an item only if it was active when it asked (when it asked for
\* the handle itself, for a redeemed one), the item was live then, and a permission that
\* had not expired covered the item at some moment until it was answered; however
\* revocations, deletions and expiries fall between the reads of the handler.
DeliveryWasAllowed ==
  \A r \in Requests : Answered(r, "ok") =>
    LET asked == IF call[r].endpoint = "redeem" THEN call[r].handle[1] ELSE r
        since == history[asked]
    IN /\ call[asked].agent = call[r].agent
       /\ \A i \in resolved[r] : i \in since.items /\ since.targets \cap {i, Profile} # {}

\* A request that was refused: it answered an error and did not go on to
\* reserve, read or deliver anything.
Refused(r) == Answered(r, "error") /\ resolved[r] = {}

\* A refusal that can be told to the caller has been written down first: no
\* request at a canonical endpoint is answered with an error that the audit log
\* does not show (pipeline.ts, redeemMount), even though an INSERT that fails is
\* swallowed.  A field the item lacks is the one refusal read does not log.
RefusalIsAudited ==
  \A r \in Requests :
    Refused(r) /\ call[r].endpoint \in {"read", "use", "redeem"} /\ ~call[r].badField
      => \E row \in audit : row.request = r /\ row.result \in {"denied", "expired"}

\* docs/decisions/002-hyperdrive-authz-cache-disabled.md:38, "revocations and
\* expirations take effect immediately": a handle is exchanged for its item only
\* while a permission covers it.  Refuted: redeemMount does not look it up again.
RevocationIsImmediate ==
  [][\A r \in Requests : stage[r] = "load" /\ stage'[r] = "redeem" =>
       \E t \in {call[r].handle[2], Profile} : Granted(call[r].agent, t, "use")]_vars

\* audit.ts:146, "a row that never committed must not appear in the sink".
\* Refuted: the row is mirrored after its INSERT, before the COMMIT.
SinkRowsCommitted ==
  \A row \in sink : stage[row.request] = "rolledBack" => row \in audit

Token == INSTANCE OneTimeToken WITH
  Tokens <- Handles, Holders <- Requests, Nobody <- NoRequest,
  issued <- {h \in Handles : mount[h] # "none"}, spentBy <- redeemer

\* A mount handle is redeemed once, however many requests present it at once
\* and even when one of them is rolled back.
HandleWorksOnce == Token!Spec
=============================================================================
