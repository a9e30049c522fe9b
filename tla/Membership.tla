----------------------------- MODULE Membership -----------------------------
(***************************************************************************)
(* One organization: its members and their roles, invitations, the agents  *)
(* its members made and the grants they gave, and what the removal of a    *)
(* member takes with it.  The procedures of organizations.ts run on the    *)
(* pool, one statement per step; createAgent, grants and their revocation  *)
(* check the membership on the pool and then run in a transaction of their *)
(* own, so what they insert is seen when they commit.                      *)
(*                                                                         *)
(* A member row, an agent and a grant are known by the request that made   *)
(* them, or by their user for those that exist at the start.               *)
(***************************************************************************)
EXTENDS Naturals, FiniteSets

CONSTANTS
  Users, Requests,
  InitialRoles,  \* the memberships the organization may start with
  InitialGrants, \* the grants its members may have given: to the agent of whom
  Mixes,         \* which operations are asked of which request, together
  MaxAgents,     \* MAX_AGENTS_PER_ORG
  Nobody

Roles == {"owner", "admin", "member"}
Ops == {"invite", "revokeInvite", "accept", "remove", "setRole", "leave", "deleteOrg",
        "createAgent", "revokeAgent", "grant", "revokeGrant"}

ASSUME MembershipConstants ==
  /\ Users \cap Requests = {} /\ Nobody \notin Users \cup Requests
  /\ InitialRoles \subseteq [Users -> Roles \cup {"none"}]
  /\ \A f \in InitialRoles : \E u \in Users : f[u] = "owner"
  /\ InitialGrants \subseteq [Users -> Users \cup {Nobody}]
  /\ Mixes \subseteq [Requests -> SUBSET Ops]
  /\ MaxAgents \in Nat

Ids == Users \cup Requests

VARIABLES
  org,       \* the organization row exists
  member,    \* the role of each member row
  invite,    \* invitations
  usedBy,    \* invitation.usedBy: the request that claimed it
  agent,     \* agents.enabled
  grant,     \* permissions: the agent each is given to
  cascaded,  \* grants with a permission.revoke_cascade audit row
  call,      \* what each request asks
  stage,     \* where it is
  held,      \* the role requireOrgRole returned
  seen,      \* the role of the target, or of the invitation, as it was read
  others,    \* the other owners that were counted
  picked,    \* the agents and grants a cascade selected
  given,     \* history: the request that gave a member row its role
  late,      \* history: agents and grants inserted after the cascade of their maker
  unswept    \* history: users whose cascade failed in the hook

rows == <<org, member, invite, usedBy, agent, grant, cascaded>>
local == <<call, stage, held, seen, others, picked>>
history == <<given, late, unswept>>
vars == <<rows, local, history>>

-----------------------------------------------------------------------------

Call == [op : Ops, by : Users, on : Ids, role : Roles]
Invite == [state : {"none", "pending", "used", "deleted"}, role : Roles, expired : BOOLEAN]
Stages == {"unsent", "checked", "target", "write", "cascade", "agents", "grants",
           "load", "claim", "join", "hook", "done", "refused"}

TypeOK ==
  /\ org \in BOOLEAN
  /\ member \in [Ids -> Roles \cup {"none"}]
  /\ invite \in [Requests -> Invite]
  /\ usedBy \in [Requests -> Requests \cup {Nobody}]
  /\ agent \in [Ids -> {"none", "enabled", "revoked"}]
  /\ grant \in [Ids -> Ids \cup {Nobody}]
  /\ cascaded \subseteq Ids
  /\ call \in [Requests -> Call]
  /\ stage \in [Requests -> Stages]
  /\ held \in [Requests -> Roles]
  /\ seen \in [Requests -> Roles]
  /\ others \in [Requests -> SUBSET Ids]
  /\ picked \in [Requests -> [agents : SUBSET Ids, grants : SUBSET Ids]]
  /\ given \in [Ids -> Ids]
  /\ late \subseteq Ids /\ unswept \subseteq Users

\* The user of a member row, the maker of an agent and the giver of a grant.
Maker(x) == IF x \in Users THEN x ELSE call[x].by

RowsOf(u) == {x \in Ids : member[x] # "none" /\ Maker(x) = u}
IsMember(u) == RowsOf(u) # {}
Owners == {x \in Ids : member[x] = "owner"}
Agents == {a \in Ids : agent[a] # "none"}

Rank == [owner |-> 3, admin |-> 2, member |-> 1]

Needs(op) ==
  CASE op \in {"invite", "revokeInvite", "remove"} -> "admin"
    [] op \in {"setRole", "deleteOrg"} -> "owner"
    [] OTHER -> "member"

AnyCall == CHOOSE c \in Call : TRUE

\* An organization in use: each member has an agent, and may have given a grant.
Init ==
  /\ org = TRUE
  /\ \E roles \in InitialRoles :
       /\ member = [x \in Ids |-> IF x \in Users THEN roles[x] ELSE "none"]
       /\ agent = [x \in Ids |-> IF x \in Users /\ roles[x] # "none" THEN "enabled" ELSE "none"]
       /\ \E gave \in InitialGrants :
            /\ \A u \in Users : gave[u] # Nobody =>
                 /\ roles[u] # "none" /\ roles[gave[u]] # "none"
                 /\ u = gave[u] \/ roles[u] # "member"
            /\ grant = [x \in Ids |-> IF x \in Users THEN gave[x] ELSE Nobody]
  /\ invite = [r \in Requests |-> [state |-> "none", role |-> "member", expired |-> FALSE]]
  /\ usedBy = [r \in Requests |-> Nobody]
  /\ cascaded = {}
  /\ call = [r \in Requests |-> AnyCall]
  /\ stage = [r \in Requests |-> "unsent"]
  /\ held = [r \in Requests |-> "member"]
  /\ seen = [r \in Requests |-> "member"]
  /\ others = [r \in Requests |-> {}]
  /\ picked = [r \in Requests |-> [agents |-> {}, grants |-> {}]]
  /\ given = [x \in Ids |-> x]
  /\ late = {} /\ unswept = {}

Goto(r, s) == stage' = [stage EXCEPT ![r] = s]

\* What a handler read is gone when it returns.
Forget(r) ==
  /\ seen' = [seen EXCEPT ![r] = "member"]
  /\ others' = [others EXCEPT ![r] = {}]
  /\ picked' = [picked EXCEPT ![r] = [agents |-> {}, grants |-> {}]]

Sent == {r \in Requests : stage[r] \notin {"unsent", "refused"}}

\* The operations that may still be asked of r: they fit a mix with the others.
Offered(r) ==
  UNION {mix[r] : mix \in {m \in Mixes : \A s \in Sent : call[s].op \in m[s]}}

\* What a request can name: rows that are there when it is sent.  An unknown id
\* is refused at once.
Named(op, by) ==
  CASE op \in {"remove", "setRole"} -> {x \in Ids : member[x] # "none"}
    [] op = "leave" -> {x \in RowsOf(by) : member[x] # "owner"}
    [] op \in {"revokeInvite", "accept"} -> {i \in Requests : invite[i].state # "none"}
    [] op \in {"revokeAgent", "grant"} -> Agents
    [] op = "revokeGrant" -> {g \in Ids : grant[g] # Nobody}
    [] OTHER -> {by}

RolesOf(op) == IF op \in {"invite", "setRole"} THEN Roles ELSE {"member"}

Sends(r, op, by, on, role) ==
  /\ stage[r] = "unsent"
  /\ call' = [call EXCEPT ![r] = [op |-> op, by |-> by, on |-> on, role |-> role]]

\* The row lock of a removal whose transaction is open.
Removing(r) == call[r].op = "remove" /\ stage[r] \in {"cascade", "agents", "grants"}
RowLocked(x) == \E r \in Requests : Removing(r) /\ call[r].on = x

\* The user whose membership a removal ends.
Leaver(r) == Maker(call[r].on)

-----------------------------------------------------------------------------
(* The role of the caller *)

\* requireOrgRole, on one of the caller's rows.
Refused(r) ==
  /\ stage[r] = "unsent"
  /\ \E op \in Offered(r) \ {"accept", "leave"}, by \in Users :
       \/ ~IsMember(by)
       \/ \E x \in RowsOf(by) : Rank[member[x]] < Rank[Needs(op)]
  /\ Goto(r, "refused")
  /\ UNCHANGED <<rows, call, held, seen, others, picked, history>>

CheckRole(r) ==
  \E op \in Offered(r) \ {"accept", "leave"}, by \in Users :
    /\ \E on \in Named(op, by), role \in RolesOf(op) : Sends(r, op, by, on, role)
    /\ \E x \in RowsOf(by) : /\ Rank[member[x]] >= Rank[Needs(op)]
                             /\ held' = [held EXCEPT ![r] = member[x]]
    /\ Goto(r, "checked")
    /\ UNCHANGED <<rows, seen, others, picked, history>>

-----------------------------------------------------------------------------
(* Invitations *)

\* Mutant: the invited role is not capped.
AnyRoleAssignable(held_, role) == TRUE

CanAssignRole(held_, role) == Rank[role] <= Rank[held_]

CreateInvite(r) ==
  /\ stage[r] = "checked" /\ call[r].op = "invite"
  /\ IF org /\ CanAssignRole(held[r], call[r].role)
       THEN /\ invite' = [invite EXCEPT ![r] =
                           [state |-> "pending", role |-> call[r].role, expired |-> FALSE]]
            /\ Goto(r, "done")
       ELSE Goto(r, "refused") /\ UNCHANGED invite
  /\ UNCHANGED <<org, member, usedBy, agent, grant, cascaded, call, held, seen, others, picked,
                 history>>

\* The invitation, its role and its expiry, in a state.
Turned(i, state) == [state |-> state, role |-> invite[i].role, expired |-> invite[i].expired]

\* DELETE ... WHERE used_at IS NULL.
RevokeInvite(r) ==
  /\ stage[r] = "checked" /\ call[r].op = "revokeInvite"
  /\ LET i == call[r].on IN
     IF invite[i].state = "pending"
       THEN invite' = [invite EXCEPT ![i] = Turned(i, "deleted")] /\ Goto(r, "done")
       ELSE Goto(r, "refused") /\ UNCHANGED invite
  /\ UNCHANGED <<org, member, usedBy, agent, grant, cascaded, call, held, seen, others, picked,
                 history>>

\* acceptInvite loads the invitation: unused, not expired.
LoadInvite(r) ==
  \E op \in Offered(r) \cap {"accept"}, by \in Users : \E i \in Named(op, by) :
    /\ Sends(r, op, by, i, "member")
    /\ IF invite[i].state = "pending" /\ ~invite[i].expired
         THEN Goto(r, "load") /\ seen' = [seen EXCEPT ![r] = invite[i].role]
         ELSE Goto(r, "refused") /\ UNCHANGED seen
    /\ UNCHANGED <<rows, held, others, picked, history>>

RefuseMember(r) ==
  /\ stage[r] = "load"
  /\ Goto(r, IF IsMember(call[r].by) THEN "refused" ELSE "claim")
  /\ UNCHANGED <<rows, call, held, seen, others, picked, history>>

\* Mutant: used_at IS NULL is left out of the WHERE clause.
ClaimableTwice(i) == invite[i].state \in {"pending", "used"}

\* The WHERE clause: neither the expiry nor the inviter is looked at again.
Claimable(i) == invite[i].state = "pending"

ClaimInvite(r) ==
  /\ stage[r] = "claim"
  /\ LET i == call[r].on IN
     IF Claimable(i)
       THEN /\ invite' = [invite EXCEPT ![i] = Turned(i, "used")]
            /\ usedBy' = [usedBy EXCEPT ![i] = r]
            /\ Goto(r, "join")
       ELSE Goto(r, "refused") /\ UNCHANGED <<invite, usedBy>>
  /\ UNCHANGED <<org, member, agent, grant, cascaded, call, held, seen, others, picked, history>>

\* A statement of its own, after the claim; it fails once the organization is gone.
Join(r) ==
  /\ stage[r] = "join"
  /\ IF org
       THEN /\ member' = [member EXCEPT ![r] = seen[r]]
            /\ given' = [given EXCEPT ![r] = call[r].on]
            /\ Goto(r, "done")
       ELSE Goto(r, "refused") /\ UNCHANGED <<member, given>>
  /\ UNCHANGED <<org, invite, usedBy, agent, grant, cascaded, call, held, seen, others, picked,
                 late, unswept>>

\* The INSERT fails: the invitation stays used and nobody has joined.
JoinFails(r) ==
  /\ stage[r] = "join" /\ Goto(r, "refused")
  /\ UNCHANGED <<rows, call, held, seen, others, picked, history>>

-----------------------------------------------------------------------------
(* Roles and removal *)

\* removeMember and updateMemberRole load the target; only an owner removes an owner.
LoadTarget(r) ==
  /\ stage[r] = "checked" /\ call[r].op \in {"remove", "setRole"}
  /\ LET role == member[call[r].on] IN
     IF role = "none" \/ (call[r].op = "remove" /\ role = "owner" /\ held[r] # "owner")
       THEN Goto(r, "refused") /\ UNCHANGED seen
       ELSE Goto(r, "target") /\ seen' = [seen EXCEPT ![r] = role]
  /\ UNCHANGED <<rows, call, held, others, picked, history>>

\* Mutant: the target itself is counted.
OwnersCounted(r) == Owners

\* countOwners without the row that changes.
OtherOwners(r) == Owners \ {call[r].on}

\* assertOwnersRemainAfterChange, on the role that was read.
CountOwners(r) ==
  /\ stage[r] = "target"
  /\ LET stops == seen[r] = "owner" /\ (call[r].op = "remove" \/ call[r].role # "owner") IN
     /\ others' = [others EXCEPT ![r] = IF stops THEN OtherOwners(r) ELSE {}]
     /\ Goto(r, IF stops /\ OtherOwners(r) = {} THEN "refused"
                ELSE IF call[r].op = "remove" THEN "cascade" ELSE "write")
  /\ UNCHANGED <<rows, call, held, seen, picked, history>>

\* UPDATE by id: waits for a removal of the row, and then writes nothing.
SetRole(r) ==
  /\ stage[r] = "write" /\ call[r].op = "setRole" /\ ~RowLocked(call[r].on)
  /\ LET x == call[r].on IN
     IF member[x] # "none"
       THEN /\ member' = [member EXCEPT ![x] = call[r].role]
            /\ given' = [given EXCEPT ![x] = r]
       ELSE UNCHANGED <<member, given>>
  /\ Goto(r, "done") /\ Forget(r)
  /\ UNCHANGED <<org, invite, usedBy, agent, grant, cascaded, call, held, late, unswept>>

\* better-auth removes a member that is not an owner; the cascade is left to the hook.
PluginRemove(r) ==
  \E op \in Offered(r) \cap {"leave"}, by \in Users : \E x \in Named(op, by) :
    /\ Sends(r, op, by, x, "member") /\ ~RowLocked(x)
    /\ member' = [member EXCEPT ![x] = "none"]
    /\ Goto(r, "hook")
    /\ UNCHANGED <<org, invite, usedBy, agent, grant, cascaded, held, seen, others, picked, history>>

\* afterRemoveMember opens its own transaction, or fails and only says so.
HookRuns(r) ==
  /\ stage[r] = "hook"
  /\ \/ Goto(r, "cascade") /\ UNCHANGED unswept
     \/ Goto(r, "done") /\ unswept' = unswept \cup {Leaver(r)}
  /\ UNCHANGED <<rows, call, held, seen, others, picked, given, late>>

\* onMemberRemoved, in an open transaction: the agents the user made ...
SelectAgents(r) ==
  /\ stage[r] = "cascade"
  /\ \A s \in Requests \ {r} : Removing(s) /\ stage[s] # "cascade" => call[s].on # call[r].on
  /\ picked' = [picked EXCEPT ![r].agents =
                  {a \in Ids : agent[a] = "enabled" /\ Maker(a) = Leaver(r)}]
  /\ Goto(r, "agents")
  /\ UNCHANGED <<rows, call, held, seen, others, history>>

\* Mutant: only the grants to the user's own agents.
OwnGrantsOf(u) == {g \in Ids : grant[g] # Nobody /\ Maker(g) = u /\ Maker(grant[g]) = u}

\* ... and the grants the user gave, to any agent.
GrantsOf(u) == {g \in Ids : grant[g] # Nobody /\ Maker(g) = u}

SelectGrants(r) ==
  /\ stage[r] = "agents"
  /\ picked' = [picked EXCEPT ![r].grants = GrantsOf(Leaver(r))]
  /\ Goto(r, "grants")
  /\ UNCHANGED <<rows, call, held, seen, others, history>>

\* COMMIT: the row, the agents, the grants and their audit rows together.
CommitRemoval(r) ==
  /\ stage[r] = "grants"
  /\ member' = IF call[r].op = "remove" THEN [member EXCEPT ![call[r].on] = "none"] ELSE member
  /\ agent' = [a \in Ids |-> IF a \in picked[r].agents /\ agent[a] # "none" THEN "revoked"
                             ELSE agent[a]]
  /\ grant' = [g \in Ids |-> IF g \in picked[r].grants THEN Nobody ELSE grant[g]]
  /\ cascaded' = cascaded \cup picked[r].grants
  /\ Goto(r, "done") /\ Forget(r)
  /\ UNCHANGED <<org, invite, usedBy, call, held, history>>

\* A statement of the transaction fails: nothing of it happened.
RollBack(r) ==
  /\ stage[r] \in {"cascade", "agents", "grants"}
  /\ unswept' = IF call[r].op = "leave" THEN unswept \cup {Leaver(r)} ELSE unswept
  /\ Goto(r, "refused") /\ Forget(r)
  /\ UNCHANGED <<rows, call, held, given, late>>

\* The name and the password are checked first; the rows go with the organization.
DeleteOrg(r) ==
  /\ stage[r] = "checked" /\ call[r].op = "deleteOrg"
  /\ \/ Goto(r, "refused") /\ UNCHANGED rows
     \/ /\ \A s \in Requests : ~Removing(s)
        /\ org' = FALSE
        /\ member' = [x \in Ids |-> "none"]
        /\ agent' = [x \in Ids |-> "none"]
        /\ grant' = [x \in Ids |-> Nobody]
        /\ invite' = [i \in Requests |-> IF invite[i].state = "none" THEN invite[i]
                                         ELSE Turned(i, "deleted")]
        /\ Goto(r, "done")
        /\ UNCHANGED <<usedBy, cascaded>>
  /\ UNCHANGED <<call, held, seen, others, picked, history>>

-----------------------------------------------------------------------------
(* Agents and grants of members *)

\* A member manages the agents the member made, an admin every agent.
Owns(r, a) ==
  /\ a \in Agents
  /\ \E x \in RowsOf(call[r].by) : Rank[member[x]] >= Rank["admin"] \/ Maker(a) = call[r].by

\* createAgent counts the agents of the organization.
CountAgents(r) ==
  /\ stage[r] = "checked" /\ call[r].op = "createAgent"
  /\ Goto(r, IF Cardinality(Agents) >= MaxAgents THEN "refused" ELSE "write")
  /\ UNCHANGED <<rows, call, held, seen, others, picked, history>>

\* createPermission and revokeAgent check the agent, the role and the ownership again.
CheckAgent(r) ==
  /\ stage[r] = "checked" /\ call[r].op \in {"grant", "revokeAgent"}
  /\ Goto(r, IF Owns(r, call[r].on) THEN "write" ELSE "refused")
  /\ UNCHANGED <<rows, call, held, seen, others, picked, history>>

\* revokePermission loads the grant, then its agent.
CheckGrant(r) ==
  /\ stage[r] = "checked" /\ call[r].op = "revokeGrant"
  /\ LET g == call[r].on IN
     Goto(r, IF grant[g] # Nobody /\ Owns(r, grant[g]) THEN "write" ELSE "refused")
  /\ UNCHANGED <<rows, call, held, seen, others, picked, history>>

\* What is inserted behind a cascade that has read already.
Behind(u, past) ==
  \/ ~IsMember(u)
  \/ \E s \in Requests : call[s].op \in {"remove", "leave"} /\ stage[s] \in past /\ Leaver(s) = u

InsertAgent(r) ==
  /\ stage[r] = "write" /\ call[r].op = "createAgent"
  /\ IF org
       THEN /\ agent' = [agent EXCEPT ![r] = "enabled"]
            /\ late' = IF Behind(call[r].by, {"agents", "grants"}) THEN late \cup {r} ELSE late
            /\ Goto(r, "done")
       ELSE Goto(r, "refused") /\ UNCHANGED <<agent, late>>
  /\ UNCHANGED <<org, member, invite, usedBy, grant, cascaded, call, held, seen, others, picked,
                 given, unswept>>

\* The unique index on agent, target and capability refuses what was granted already.
InsertGrant(r) ==
  /\ stage[r] = "write" /\ call[r].op = "grant"
  /\ LET a == call[r].on IN
     \/ /\ agent[a] # "none"
        /\ grant' = [grant EXCEPT ![r] = a]
        /\ late' = IF Behind(call[r].by, {"grants"}) THEN late \cup {r} ELSE late
        /\ Goto(r, "done")
     \/ /\ agent[a] = "none" \/ \E g \in Ids : grant[g] = a
        /\ Goto(r, "refused") /\ UNCHANGED <<grant, late>>
  /\ UNCHANGED <<org, member, invite, usedBy, agent, cascaded, call, held, seen, others, picked,
                 given, unswept>>

\* UPDATE by id and onAgentRevoked: the grants stay, for an agent that is refused.
RevokeAgent(r) ==
  /\ stage[r] = "write" /\ call[r].op = "revokeAgent"
  /\ LET a == call[r].on IN
     agent' = IF agent[a] = "none" THEN agent ELSE [agent EXCEPT ![a] = "revoked"]
  /\ Goto(r, "done")
  /\ UNCHANGED <<org, member, invite, usedBy, grant, cascaded, call, held, seen, others, picked,
                 history>>

RevokeGrant(r) ==
  /\ stage[r] = "write" /\ call[r].op = "revokeGrant"
  /\ grant' = [grant EXCEPT ![call[r].on] = Nobody]
  /\ Goto(r, "done")
  /\ UNCHANGED <<org, member, invite, usedBy, agent, cascaded, call, held, seen, others, picked,
                 history>>

-----------------------------------------------------------------------------

Expire ==
  /\ \E i \in Requests :
       /\ invite[i].state = "pending"
       /\ invite' = [invite EXCEPT ![i] =
                       [state |-> "pending", role |-> invite[i].role, expired |-> TRUE]]
  /\ UNCHANGED <<org, member, usedBy, agent, grant, cascaded, local, history>>

Step(r) ==
  \/ Refused(r) \/ CheckRole(r) \/ CreateInvite(r) \/ RevokeInvite(r)
  \/ LoadInvite(r) \/ RefuseMember(r) \/ ClaimInvite(r) \/ Join(r) \/ JoinFails(r)
  \/ LoadTarget(r) \/ CountOwners(r) \/ SetRole(r)
  \/ PluginRemove(r) \/ HookRuns(r) \/ SelectAgents(r) \/ SelectGrants(r)
  \/ CommitRemoval(r) \/ RollBack(r) \/ DeleteOrg(r)
  \/ CountAgents(r) \/ CheckAgent(r) \/ CheckGrant(r)
  \/ InsertAgent(r) \/ InsertGrant(r) \/ RevokeAgent(r) \/ RevokeGrant(r)

Next == Expire \/ \E r \in Requests : Step(r)

Spec == Init /\ [][Next]_vars

-----------------------------------------------------------------------------
(* Properties *)

Token == INSTANCE OneTimeToken WITH
  Tokens <- Requests, Holders <- Requests, spentBy <- usedBy,
  issued <- {i \in Requests : call[i].op = "invite" /\ stage[i] = "done"}

\* organizations.ts:926, "prevents double-accept race": an invitation admits one
\* person, however many accept it, revoke it or see it expire at the same time.
InviteWorksOnce == Token!Spec

\* owner-guards.ts:31, "cannot invite/assign a role higher than their own": nobody
\* holds a role above the one its giver held when the giver was checked, even
\* after the giver was demoted or removed and others accepted.
NoRoleAboveGiver ==
  \A x \in Ids : member[x] # "none" /\ given[x] \in Requests =>
    Rank[member[x]] <= Rank[held[given[x]]]

\* cascades.ts (db) onMemberRemoved: what a former member leaves behind alive was
\* written after the cascade had read, by a request that was already under way,
\* or its cascade failed in the better-auth hook.
RemovalSweeps ==
  LET pending == {Leaver(r) : r \in {s \in Requests : call[s].op = "leave"
                    /\ stage[s] \in {"hook", "cascade", "agents", "grants"}}} IN
  \A x \in Ids \ late : ~IsMember(Maker(x)) /\ Maker(x) \notin unswept \cup pending =>
    agent[x] # "enabled" /\ grant[x] = Nobody

\* owner-guards.ts:48: the step that takes the last owner was checked against a
\* membership that another request has changed since: its target was no owner
\* then, or the owners it counted are gone.  Alone, no request can do it.
LastOwnerOnlyLostToRace ==
  [][ org' /\ Owners # {} /\ Owners' = {} =>
        \E r \in Requests : /\ stage[r] \in {"write", "grants"} /\ stage'[r] = "done"
                            /\ \/ seen[r] # "owner"
                               \/ others[r] \ {call[r].on} # {} ]_vars

\* owner-guards.ts:48, "the org must not be left with zero owners after a remove
\* or demote operation".  Refuted: the count is not the write.
OwnersRemain == org => Owners # {}
=============================================================================
