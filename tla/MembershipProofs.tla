-------------------------- MODULE MembershipProofs --------------------------
(***************************************************************************)
(* Proofs about Membership for any number of users and requests, whatever  *)
(* operations are asked of them together.                                  *)
(*                                                                         *)
(* IInv is the inductive invariant.  It follows what a request carries     *)
(* from the statement that read it to the one that writes: the role of an  *)
(* invitation on its way to a member row (Joining), the owner's leave to   *)
(* set roles (SettersAreOwners), the owners that were counted (Counted),   *)
(* and what a cascade selected (Selected).  Selected is what RemovalSweeps *)
(* rests on: whoever is inserted behind the selection is in late.          *)
(*                                                                         *)
(* HandedOn and Displayed are those of the pages that lead to an           *)
(* invitation (Arrival): the link is in hand until its form is found, and  *)
(* what a token's lookup shows is its offer.                               *)
(***************************************************************************)
EXTENDS PeopleAndPages, TLAPS

\* A row is made by the last step of its request.
Bare ==
  \A r \in Requests : stage[r] # "done" =>
    member[r] = "none" /\ agent[r] = "none" /\ grant[r] = Nobody

\* A row whose maker is settled.
Known(x) == x \in Users \/ stage[x] = "done"

Cascading == {"hook", "cascade", "agents", "grants"}

\* The member that goes is a row that existed.
Targeted(r) ==
  /\ stage[r] \in {"checked", "target"} \cup Cascading /\ call[r].op \in {"remove", "leave"} =>
       Known(call[r].on)
  /\ stage[r] = "hook" => call[r].op = "leave"
Targets == \A r \in Requests : Targeted(r)

\* An invitation offers no more than its inviter held.
InvitesCapped ==
  \A i \in Requests : invite[i].state # "none" =>
    /\ stage[i] = "done" /\ call[i].op = "invite"
    /\ Rank[invite[i].role] <= Rank[held[i]]

Joining ==
  \A r \in Requests : stage[r] \in {"load", "claim", "join"} =>
    /\ call[r].on \in Requests
    /\ invite[call[r].on].state # "none"
    /\ seen[r] = invite[call[r].on].role

SettersAreOwners ==
  \A r \in Requests : call[r].op = "setRole" /\ stage[r] \in {"checked", "target", "write"} =>
    held[r] = "owner"

GiversAreDone ==
  \A x \in Ids : member[x] # "none" /\ given[x] \in Requests => stage[given[x]] = "done"

Unclaimed ==
  \A i \in Requests : invite[i].state \in {"none", "pending"} => usedBy[i] = Nobody

\* About to remove an owner, or to make it none.
Ousting(r) ==
  \/ call[r].op = "remove" /\ stage[r] \in {"cascade", "agents", "grants"}
  \/ call[r].op = "setRole" /\ call[r].role # "owner" /\ stage[r] = "write"

Counted ==
  \A r \in Requests : Ousting(r) /\ seen[r] = "owner" =>
    others[r] # {} /\ call[r].on \notin others[r]

\* What is not selected was inserted later.
Selected ==
  \A r \in Requests : call[r].op \in {"remove", "leave"} =>
    /\ stage[r] \in {"agents", "grants"} =>
         \A a \in Ids \ late : agent[a] = "enabled" /\ Maker(a) = Leaver(r) =>
           a \in picked[r].agents
    /\ stage[r] = "grants" =>
         \A g \in Ids \ late : grant[g] # Nobody /\ Maker(g) = Leaver(r) =>
           g \in picked[r].grants

\* RemovalSweeps, in parts.
Leaving(u) ==
  \E r \in Requests : call[r].op = "leave" /\ stage[r] \in Cascading /\ Leaver(r) = u
Answerable(u) == IsMember(u) \/ u \in unswept \/ Leaving(u)
Sweeps ==
  \A x \in Ids \ late : agent[x] = "enabled" \/ grant[x] # Nobody => Answerable(Maker(x))

IInv ==
  /\ TypeOK
  /\ Bare
  /\ Targets
  /\ InvitesCapped
  /\ Joining
  /\ SettersAreOwners
  /\ GiversAreDone
  /\ NoRoleAboveGiver
  /\ Unclaimed
  /\ Counted
  /\ Selected
  /\ Sweeps

-----------------------------------------------------------------------------
(* What the steps do *)

\* Only r moves, from a stage it is not done in; who it is for is settled when it is sent.
Alone(r) ==
  /\ stage[r] \notin {"done", "refused"} /\ stage'[r] # "unsent"
  /\ stage[r] # "unsent" => call'[r] = call[r] /\ held'[r] = held[r]
  /\ \A s \in Requests \ {r} :
       /\ call'[s] = call[s] /\ stage'[s] = stage[s] /\ held'[s] = held[s]
       /\ seen'[s] = seen[s] /\ others'[s] = others[s] /\ picked'[s] = picked[s]

\* There is a call: the choice in AnyCall is of one.
LEMMA CallExists == ASSUME NEW u \in Users PROVE AnyCall \in Call
<1>. [op |-> "leave", by |-> u, on |-> u, role |-> "member"] \in Call
  BY DEF Call, Ops, Ids, Roles
<1>. QED  BY DEF AnyCall

\* The ranks of the three roles; only an owner has the highest.
LEMMA RoleRank ==
  /\ Rank["owner"] = 3 /\ Rank["admin"] = 2 /\ Rank["member"] = 1
  /\ \A role \in Roles : Rank[role] \in Nat /\ Rank[role] <= 3
  /\ \A role \in Roles : Rank[role] >= 3 => role = "owner"
BY DEF Rank, Roles

\* A step of a request changes the stage of that request only.
LEMMA StepAlone ==
  ASSUME TypeOK, NEW r \in Requests, Step(r)
  PROVE  Alone(r)
<1>. USE DEF Alone, Goto, TypeOK
<1>1. CASE Refused(r) \/ CheckRole(r) \/ LoadInvite(r) \/ PluginRemove(r)
  BY <1>1 DEF Refused, CheckRole, LoadInvite, PluginRemove, Sends
<1>2. CASE CreateInvite(r) \/ RevokeInvite(r) \/ RefuseMember(r) \/ ClaimInvite(r)
  BY <1>2 DEF CreateInvite, RevokeInvite, RefuseMember, ClaimInvite
<1>3. CASE Join(r) \/ JoinFails(r) \/ LoadTarget(r) \/ CountOwners(r)
  BY <1>3 DEF Join, JoinFails, LoadTarget, CountOwners
<1>4. CASE SetRole(r) \/ CommitRemoval(r) \/ RollBack(r)
  BY <1>4 DEF SetRole, CommitRemoval, RollBack, Forget
<1>5. CASE HookRuns(r) \/ SelectAgents(r) \/ SelectGrants(r) \/ DeleteOrg(r)
  BY <1>5 DEF HookRuns, SelectAgents, SelectGrants, DeleteOrg
<1>6. CASE CountAgents(r) \/ CheckAgent(r) \/ CheckGrant(r)
  BY <1>6 DEF CountAgents, CheckAgent, CheckGrant
<1>7. CASE InsertAgent(r) \/ InsertGrant(r) \/ RevokeAgent(r) \/ RevokeGrant(r)
  BY <1>7 DEF InsertAgent, InsertGrant, RevokeAgent, RevokeGrant
<1>. QED  BY <1>1, <1>2, <1>3, <1>4, <1>5, <1>6, <1>7 DEF Step

\* Every step is one request's, or none moves.
LEMMA StepCases ==
  ASSUME TypeOK, [Next]_vars
  PROVE  \/ UNCHANGED vars
         \/ Expire
         \/ \E r \in Requests : Step(r) /\ Alone(r)
BY StepAlone DEF Next

\* What is done stays so, and so does what it asked and by which role.
LEMMA DoneIsFinal ==
  ASSUME TypeOK, [Next]_vars, NEW r \in Requests, stage[r] = "done"
  PROVE  stage'[r] = "done" /\ call'[r] = call[r] /\ held'[r] = held[r]
BY StepCases DEF Alone, vars, local, Expire

\* An id that is in a table keeps its maker.
LEMMA KnownIsFinal ==
  ASSUME TypeOK, [Next]_vars, NEW x \in Ids, Known(x)
  PROVE  Known(x)' /\ Maker(x)' = Maker(x)
BY DoneIsFinal DEF Known, Maker, Ids

\* A member row appears where somebody joins, an agent and a grant where they are inserted.
LEMMA Appears ==
  ASSUME TypeOK, NEW r \in Requests, Step(r), NEW x \in Ids
  PROVE  /\ member[x] = "none" /\ member'[x] # "none" => x = r /\ Join(r) /\ org
         /\ agent[x] # agent'[x] /\ agent'[x] # "none" =>
              \/ agent[x] # "none" /\ agent'[x] = "revoked"
              \/ x = r /\ InsertAgent(r) /\ org
         /\ grant[x] # grant'[x] /\ grant'[x] # Nobody =>
              x = r /\ InsertGrant(r) /\ stage'[r] = "done"
<1>. USE DEF TypeOK
<1>1. CASE UNCHANGED <<member, agent, grant>>
  BY <1>1
<1>2. CASE Join(r)
  BY <1>2 DEF Join
<1>3. CASE SetRole(r)
  BY <1>3 DEF SetRole
<1>4. CASE PluginRemove(r)
  BY <1>4 DEF PluginRemove
<1>5. CASE CommitRemoval(r)
  BY <1>5 DEF CommitRemoval
<1>6. CASE DeleteOrg(r)
  BY <1>6 DEF DeleteOrg, rows
<1>7. CASE InsertAgent(r)
  BY <1>7 DEF InsertAgent
<1>8. CASE InsertGrant(r)
  BY <1>8 DEF InsertGrant, Goto
<1>9. CASE RevokeAgent(r)
  BY <1>9 DEF RevokeAgent
<1>10. CASE RevokeGrant(r)
  BY <1>10 DEF RevokeGrant
<1>. QED
  BY <1>1, <1>2, <1>3, <1>4, <1>5, <1>6, <1>7, <1>8, <1>9, <1>10
  DEF Step, rows, Refused, CheckRole, CreateInvite, RevokeInvite, LoadInvite, RefuseMember,
      ClaimInvite, JoinFails, LoadTarget, CountOwners, HookRuns, SelectAgents, SelectGrants,
      RollBack, CountAgents, CheckAgent, CheckGrant

\* The organization goes, with its agents and grants.
Razed == ~org' /\ agent' = [a \in Ids |-> "none"] /\ grant' = [g \in Ids |-> Nobody]

\* A member row goes by a removal, by its user's leaving, or with the organization.
LEMMA Disappears ==
  ASSUME TypeOK, NEW r \in Requests, Step(r), NEW x \in Ids,
         member[x] # "none", member'[x] = "none"
  PROVE  \/ PluginRemove(r) /\ call'[r].on = x /\ call'[r].op = "leave" /\ stage'[r] = "hook"
         \/ CommitRemoval(r) /\ call[r].on = x /\ call[r].op = "remove"
         \/ Razed
<1>. USE DEF TypeOK
<1>1. CASE UNCHANGED member
  BY <1>1
<1>2. CASE Join(r)
  BY <1>2 DEF Join, Roles
<1>3. CASE SetRole(r)
  <2>1. call[r].role \in Roles
    BY DEF Call
  <2>. QED  BY <1>3, <2>1 DEF SetRole, Roles
<1>4. CASE PluginRemove(r)
  <2>1. PICK op \in Offered(r) \cap {"leave"}, by \in Users : \E y \in Named(op, by) :
          /\ Sends(r, op, by, y, "member")
          /\ member' = [member EXCEPT ![y] = "none"]
          /\ Goto(r, "hook")
    BY <1>4 DEF PluginRemove
  <2>2. PICK y \in Named(op, by) :
          /\ Sends(r, op, by, y, "member")
          /\ member' = [member EXCEPT ![y] = "none"]
          /\ Goto(r, "hook")
    BY <2>1
  <2>3. x = y
    BY <2>2
  <2>4. call'[r].on = y /\ call'[r].op = op /\ stage'[r] = "hook"
    BY <2>2 DEF Sends, Goto
  <2>. QED  BY <1>4, <2>1, <2>3, <2>4
<1>5. CASE CommitRemoval(r)
  BY <1>5 DEF CommitRemoval
<1>6. CASE DeleteOrg(r)
  BY <1>6 DEF DeleteOrg, rows, Razed
<1>. QED
  BY <1>1, <1>2, <1>3, <1>4, <1>5, <1>6
  DEF Step, rows, Refused, CheckRole, CreateInvite, RevokeInvite, LoadInvite, RefuseMember,
      ClaimInvite, JoinFails, LoadTarget, CountOwners, HookRuns, SelectAgents, SelectGrants,
      RollBack, CountAgents, CheckAgent, CheckGrant, InsertAgent, InsertGrant, RevokeAgent,
      RevokeGrant

-----------------------------------------------------------------------------
(* Each conjunct of the invariant is preserved *)

\* What becomes of the invitations.
Made(r) == [state |-> "pending", role |-> call[r].role, expired |-> FALSE]

\* What creating an invitation does to the invitations.
LEMMA InviteMade ==
  ASSUME NEW r \in Requests, CreateInvite(r)
  PROVE  \/ UNCHANGED invite
         \/ /\ invite' = [invite EXCEPT ![r] = Made(r)]
            /\ Goto(r, "done")
BY DEF CreateInvite, Made

\* What revoking an invitation does to the invitations.
LEMMA InviteRevoked ==
  ASSUME NEW r \in Requests, RevokeInvite(r)
  PROVE  \/ UNCHANGED invite
         \/ invite' = [invite EXCEPT ![call[r].on] = Turned(call[r].on, "deleted")]
BY DEF RevokeInvite

\* What claiming an invitation does: it was pending and is used by this request.
LEMMA InviteClaimed ==
  ASSUME NEW r \in Requests, ClaimInvite(r)
  PROVE  \/ UNCHANGED <<invite, usedBy>>
         \/ /\ invite[call[r].on].state = "pending"
            /\ invite' = [invite EXCEPT ![call[r].on] = Turned(call[r].on, "used")]
            /\ usedBy' = [usedBy EXCEPT ![call[r].on] = r]
BY DEF ClaimInvite, Claimable

\* The steps about invitations keep their type.
LEMMA InvitesTyped ==
  ASSUME TypeOK, NEW r \in Requests
  PROVE  /\ CreateInvite(r) => invite' \in [Requests -> Invite]
         /\ RevokeInvite(r) => invite' \in [Requests -> Invite]
         /\ ClaimInvite(r) => invite' \in [Requests -> Invite]
         /\ DeleteOrg(r) => invite' \in [Requests -> Invite]
<1>1. Made(r) \in Invite
  BY DEF TypeOK, Call, Invite, Made
<1>2. \A i, state : state \in {"used", "deleted"} =>
        [invite EXCEPT ![i] = Turned(i, state)] \in [Requests -> Invite]
  BY DEF TypeOK, Invite, Turned
<1>3. DeleteOrg(r) => invite' \in [Requests -> Invite]
  BY DEF TypeOK, DeleteOrg, rows, Invite, Turned
<1>4. CreateInvite(r) => invite' \in [Requests -> Invite]
  BY <1>1, InviteMade DEF TypeOK
<1>5. RevokeInvite(r) => invite' \in [Requests -> Invite]
  BY <1>2, InviteRevoked DEF TypeOK
<1>6. ClaimInvite(r) => invite' \in [Requests -> Invite]
  BY <1>2, InviteClaimed DEF TypeOK
<1>. QED  BY <1>3, <1>4, <1>5, <1>6

\* Every step keeps the type of every variable.
LEMMA TypeStep == TypeOK /\ [Next]_vars => TypeOK'
<1>. SUFFICES ASSUME TypeOK, [Next]_vars PROVE TypeOK'
  OBVIOUS
<1>. USE DEF TypeOK, Goto, Stages
<1>1. CASE UNCHANGED vars
  BY <1>1 DEF vars, rows, local, history
<1>2. CASE Expire
  BY <1>2 DEF Expire, local, history, Invite
<1>3. ASSUME NEW r \in Requests, Step(r) PROVE TypeOK'
  <2>. USE DEF rows, history
  <2>1. CASE Refused(r)
    BY <2>1 DEF Refused
  <2>2. ASSUME NEW op \in Ops, NEW by \in Users, NEW on \in Named(op, by),
               NEW role \in RolesOf(op), Sends(r, op, by, on, role)
        PROVE  call' \in [Requests -> Call]
    <3>1. on \in Ids /\ role \in Roles
      BY DEF Named, RolesOf, Agents, RowsOf, Ids, Roles
    <3>. QED  BY <2>2, <3>1 DEF Sends, Call
  <2>3. Offered(r) \subseteq Ops
    BY MembershipConstants DEF Offered
  <2>4. CASE CheckRole(r)
    <3>1. call' \in [Requests -> Call]
      BY <2>2, <2>3, <2>4 DEF CheckRole
    <3>2. PICK by \in Users : \E x \in RowsOf(by) : held' = [held EXCEPT ![r] = member[x]]
      BY <2>4 DEF CheckRole
    <3>3. held' \in [Requests -> Roles]
      BY <3>2 DEF RowsOf
    <3>. QED  BY <2>4, <3>1, <3>3 DEF CheckRole
  <2>5. CASE LoadInvite(r)
    <3>1. PICK op \in Offered(r) \cap {"accept"}, by \in Users : \E i \in Named(op, by) :
            /\ Sends(r, op, by, i, "member")
            /\ stage' \in [Requests -> Stages]
            /\ seen' \in {seen, [seen EXCEPT ![r] = invite[i].role]}
            /\ UNCHANGED <<rows, held, others, picked, history>>
      BY <2>5 DEF LoadInvite
    <3>2. "member" \in RolesOf(op) /\ Named(op, by) \subseteq Requests
      BY DEF RolesOf, Named
    <3>3. call' \in [Requests -> Call]
      BY <2>2, <2>3, <3>1, <3>2
    <3>. QED  BY <3>1, <3>2, <3>3 DEF Invite
  <2>6. CASE PluginRemove(r)
    <3>1. PICK op \in Offered(r) \cap {"leave"}, by \in Users : \E x \in Named(op, by) :
            /\ Sends(r, op, by, x, "member")
            /\ member' = [member EXCEPT ![x] = "none"]
      BY <2>6 DEF PluginRemove
    <3>2. "member" \in RolesOf(op)
      BY DEF RolesOf
    <3>3. call' \in [Requests -> Call]
      BY <2>2, <2>3, <3>1, <3>2
    <3>4. member' \in [Ids -> Roles \cup {"none"}]
      BY <3>1
    <3>5. stage' \in [Requests -> Stages]
      BY <2>6 DEF PluginRemove
    <3>6. UNCHANGED <<org, invite, usedBy, agent, grant, cascaded, held, seen, others, picked,
                      history>>
      BY <2>6 DEF PluginRemove
    <3>. QED  BY <3>3, <3>4, <3>5, <3>6
  <2>7. CASE CreateInvite(r)
    <3>1. invite' \in [Requests -> Invite]
      BY <2>7, InvitesTyped
    <3>2. stage' \in [Requests -> Stages]
      <4>1. Goto(r, "done") \/ Goto(r, "refused")
        BY <2>7 DEF CreateInvite
      <4>. QED  BY <4>1
    <3>3. UNCHANGED <<org, member, usedBy, agent, grant, cascaded, call, held, seen,
                      others, picked, history>>
      BY <2>7 DEF CreateInvite
    <3>. QED  BY <3>1, <3>2, <3>3
  <2>8. CASE RevokeInvite(r)
    <3>1. invite' \in [Requests -> Invite]
      BY <2>8, InvitesTyped
    <3>2. stage' \in [Requests -> Stages]
      BY <2>8 DEF RevokeInvite
    <3>3. UNCHANGED <<org, member, usedBy, agent, grant, cascaded, call, held, seen,
                      others, picked, history>>
      BY <2>8 DEF RevokeInvite
    <3>. QED  BY <3>1, <3>2, <3>3
  <2>9. CASE RefuseMember(r)
    BY <2>9 DEF RefuseMember
  <2>10. CASE ClaimInvite(r)
    <3>1. /\ invite' \in [Requests -> Invite]
          /\ usedBy' \in [Requests -> Requests \cup {Nobody}]
      BY <2>10, InvitesTyped, InviteClaimed
    <3>2. stage' \in [Requests -> Stages]
      <4>1. Goto(r, "join") \/ Goto(r, "refused")
        BY <2>10 DEF ClaimInvite
      <4>. QED  BY <4>1
    <3>3. UNCHANGED <<org, member, agent, grant, cascaded, call, held, seen, others, picked,
                      history>>
      BY <2>10 DEF ClaimInvite
    <3>. QED  BY <3>1, <3>2, <3>3
  <2>11. CASE Join(r)
    <3>1. call[r].on \in Ids /\ r \in Ids
      BY DEF Call, Ids
    <3>. QED  BY <2>11, <3>1 DEF Join
  <2>12. CASE JoinFails(r)
    BY <2>12 DEF JoinFails
  <2>13. CASE LoadTarget(r)
    <3>1. call[r].on \in Ids
      BY DEF Call
    <3>. QED  BY <2>13, <3>1 DEF LoadTarget
  <2>14. CASE CountOwners(r)
    BY <2>14 DEF CountOwners, OtherOwners, Owners
  <2>15. CASE SetRole(r)
    <3>1. call[r].role \in Roles /\ r \in Ids
      BY DEF Call, Ids
    <3>. QED  BY <2>15, <3>1 DEF SetRole, Forget, Roles
  <2>16. ASSUME Leaver(r) \notin Users PROVE FALSE
    BY <2>16 DEF Leaver, Maker, Call, Ids
  <2>17. CASE HookRuns(r)
    BY <2>16, <2>17 DEF HookRuns
  <2>18. CASE SelectAgents(r)
    BY <2>18 DEF SelectAgents
  <2>19. CASE SelectGrants(r)
    BY <2>19 DEF SelectGrants, GrantsOf
  <2>20. CASE CommitRemoval(r)
    BY <2>20 DEF CommitRemoval, Forget, Roles
  <2>21. CASE RollBack(r)
    BY <2>16, <2>21 DEF RollBack, Forget, Roles
  <2>22. CASE DeleteOrg(r)
    <3>1. /\ invite' \in [Requests -> Invite] /\ org' \in BOOLEAN
          /\ member' \in [Ids -> Roles \cup {"none"}]
          /\ agent' \in [Ids -> {"none", "enabled", "revoked"}]
          /\ grant' \in [Ids -> Ids \cup {Nobody}]
      <4>1. invite' \in [Requests -> Invite]
        BY <2>22, InvitesTyped
      <4>2. \/ UNCHANGED rows
            \/ /\ org' = FALSE
               /\ member' = [x \in Ids |-> "none"]
               /\ agent' = [x \in Ids |-> "none"]
               /\ grant' = [x \in Ids |-> Nobody]
        BY <2>22 DEF DeleteOrg
      <4>. QED  BY <4>1, <4>2
    <3>2. stage' \in [Requests -> Stages]
      BY <2>22 DEF DeleteOrg
    <3>3. UNCHANGED <<usedBy, cascaded, call, held, seen, others, picked, history>>
      BY <2>22 DEF DeleteOrg
    <3>. QED  BY <3>1, <3>2, <3>3
  <2>23. CASE CountAgents(r) \/ CheckAgent(r) \/ CheckGrant(r)
    BY <2>23 DEF CountAgents, CheckAgent, CheckGrant
  <2>24. CASE InsertAgent(r)
    <3>1. r \in Ids
      BY DEF Ids
    <3>2. agent' \in [Ids -> {"none", "enabled", "revoked"}] /\ late' \subseteq Ids
      BY <2>24, <3>1 DEF InsertAgent
    <3>3. stage' \in [Requests -> Stages]
      BY <2>24 DEF InsertAgent
    <3>4. UNCHANGED <<org, member, invite, usedBy, grant, cascaded, call, held, seen, others,
                      picked, given, unswept>>
      BY <2>24 DEF InsertAgent
    <3>. QED  BY <3>2, <3>3, <3>4
  <2>25. CASE InsertGrant(r)
    <3>1. call[r].on \in Ids /\ r \in Ids
      BY DEF Call, Ids
    <3>. QED  BY <2>25, <3>1 DEF InsertGrant
  <2>26. CASE RevokeAgent(r)
    BY <2>26 DEF RevokeAgent
  <2>27. CASE RevokeGrant(r)
    BY <2>27 DEF RevokeGrant
  <2>. QED
    BY <1>3, <2>1, <2>4, <2>5, <2>6, <2>7, <2>8, <2>9, <2>10, <2>11, <2>12, <2>13, <2>14, <2>15,
       <2>17, <2>18, <2>19, <2>20, <2>21, <2>22, <2>23, <2>24, <2>25, <2>26, <2>27
    DEF Step
<1>. QED  BY <1>1, <1>2, <1>3 DEF Next

\* A request that has not come to its last step has made no row.
LEMMA BareStep == TypeOK /\ Bare /\ [Next]_vars => Bare'
<1>. SUFFICES ASSUME TypeOK, Bare, [Next]_vars, NEW s \in Requests, stage'[s] # "done"
              PROVE  member'[s] = "none" /\ agent'[s] = "none" /\ grant'[s] = Nobody
  BY DEF Bare
<1>1. member[s] = "none" /\ agent[s] = "none" /\ grant[s] = Nobody
  BY DoneIsFinal DEF Bare
<1>2. ASSUME NEW r \in Requests, Step(r)
      PROVE  member'[s] = "none" /\ agent'[s] = "none" /\ grant'[s] = Nobody
  <2>1. s \in Ids
    BY DEF Ids
  <2>2. Join(r) /\ org => stage'[r] = "done"
    BY DEF Join, Goto, TypeOK
  <2>3. InsertAgent(r) /\ org => stage'[r] = "done"
    BY DEF InsertAgent, Goto, TypeOK
  <2>. QED  BY <1>1, <1>2, <2>1, <2>2, <2>3, Appears
<1>. QED  BY <1>1, <1>2, StepCases DEF vars, rows, Expire

\* A removal under way stays about a member whose maker is settled.
LEMMA TargetsStep == TypeOK /\ Bare /\ Targets /\ [Next]_vars => Targets'
<1>. SUFFICES ASSUME TypeOK, Bare, Targets, [Next]_vars PROVE Targets'
  OBVIOUS
<1>1. ASSUME NEW s \in Requests, call'[s] = call[s],
             \/ stage'[s] = stage[s]
             \/ stage'[s] \notin {"checked", "target"} \cup Cascading
             \/ stage[s] \in {"checked", "target"} \cup Cascading /\ stage'[s] # "hook"
      PROVE  Targeted(s)'
  <2>1. call[s].on \in Ids
    BY DEF TypeOK, Call
  <2>2. Known(call[s].on) => Known(call[s].on)'
    BY <1>1, <2>1, KnownIsFinal DEF Known
  <2>3. Targeted(s)
    BY DEF Targets
  <2>. QED  BY <1>1, <2>2, <2>3 DEF Targeted, Cascading
<1>2. ASSUME UNCHANGED <<call, stage>> PROVE Targets'
  BY <1>1, <1>2 DEF Targets
<1>3. ASSUME NEW r \in Requests, Step(r), Alone(r) PROVE Targets'
  <2>1. CASE CheckRole(r)
    <3>1. PICK op \in Offered(r) \ {"accept", "leave"}, by \in Users :
            \E on \in Named(op, by), role \in RolesOf(op) : Sends(r, op, by, on, role)
      BY <2>1 DEF CheckRole
    <3>2. PICK on \in Named(op, by), role \in RolesOf(op) : Sends(r, op, by, on, role)
      BY <3>1
    <3>3. call'[r].op = op /\ call'[r].on = on /\ stage'[r] = "checked"
      BY <2>1, <3>2 DEF Sends, CheckRole, Goto, TypeOK
    <3>4. op = "remove" => Known(on)
      BY DEF Named, Bare, Known, Ids
    <3>5. op = "remove" => Known(on)'
      BY <3>4, KnownIsFinal DEF Named
    <3>6. Targeted(r)'
      BY <3>1, <3>3, <3>5 DEF Targeted, Known
    <3>. QED  BY <1>1, <1>3, <3>6 DEF Targets, Alone
  <2>2. CASE PluginRemove(r)
    <3>1. PICK op \in Offered(r) \cap {"leave"}, by \in Users : \E on \in Named(op, by) :
            Sends(r, op, by, on, "member")
      BY <2>2 DEF PluginRemove
    <3>2. PICK on \in Named(op, by) : Sends(r, op, by, on, "member")
      BY <3>1
    <3>3. call'[r].op = "leave" /\ call'[r].on = on
      BY <3>1, <3>2 DEF Sends, TypeOK
    <3>4. Known(on) /\ on \in Ids
      BY <3>1 DEF Named, RowsOf, Bare, Known, Ids
    <3>5. Known(on)'
      BY <3>4, KnownIsFinal
    <3>6. Targeted(r)'
      BY <3>3, <3>5 DEF Targeted, Known
    <3>. QED  BY <1>1, <1>3, <3>6 DEF Targets, Alone
  <2>3. CASE ~CheckRole(r) /\ ~PluginRemove(r)
    <3>1. \/ stage'[r] \notin {"checked", "target"} \cup Cascading
          \/ stage[r] \in {"checked", "target"} \cup Cascading /\ stage'[r] # "hook"
      BY <1>3, <2>3
      DEF Step, TypeOK, Goto, Cascading, Refused, CreateInvite, RevokeInvite, LoadInvite,
          RefuseMember, ClaimInvite, Join, JoinFails, LoadTarget, CountOwners, SetRole, HookRuns,
          SelectAgents, SelectGrants, CommitRemoval, RollBack, DeleteOrg, CountAgents,
          CheckAgent, CheckGrant, InsertAgent, InsertGrant, RevokeAgent, RevokeGrant
    <3>2. stage'[r] \in {"checked", "target"} \cup Cascading => call'[r] = call[r]
      BY <1>3, <3>1 DEF Alone, Cascading
    <3>3. Targeted(r)'
      <4>1. CASE stage'[r] \in {"checked", "target"} \cup Cascading
        BY <1>1, <3>1, <3>2, <4>1
      <4>2. CASE stage'[r] \notin {"checked", "target"} \cup Cascading
        BY <4>2 DEF Targeted, Cascading
      <4>. QED  BY <4>1, <4>2
    <3>. QED  BY <1>1, <1>3, <3>3 DEF Targets, Alone
  <2>. QED  BY <2>1, <2>2, <2>3
<1>. QED  BY <1>2, <1>3, StepCases DEF vars, local, Expire

\* An invitation is as its making left it, but for its state and its expiry.
InviteKept(i) ==
  /\ invite'[i].state # "none" => invite[i].state # "none" /\ invite'[i].role = invite[i].role
  /\ invite[i].state # "none" => invite'[i].state # "none"
  /\ invite'[i].state = "pending" => invite[i].state = "pending"

Invites(i) == CreateInvite(i) /\ stage'[i] = "done" /\ invite'[i].role = call[i].role

\* An invitation is kept, or is made by its request, or is turned.
LEMMA InviteSteps ==
  ASSUME TypeOK, [Next]_vars, NEW i \in Requests
  PROVE  InviteKept(i) \/ Invites(i)
<1>. USE DEF TypeOK, Invite, InviteKept, Turned
<1>1. CASE UNCHANGED invite
  BY <1>1
<1>2. CASE Expire
  BY <1>2 DEF Expire
<1>3. ASSUME NEW r \in Requests, CreateInvite(r)
      PROVE  InviteKept(i) \/ Invites(i)
  <2>1. CASE invite' = [invite EXCEPT ![r] = Made(r)] /\ Goto(r, "done")
    <3>1. CASE r = i
      <4>1. invite'[i].role = call[i].role /\ stage'[i] = "done"
        BY <2>1, <3>1 DEF Made, Goto
      <4>. QED  BY <1>3, <3>1, <4>1 DEF Invites
    <3>2. CASE r # i
      BY <2>1, <3>2
    <3>. QED  BY <3>1, <3>2
  <2>. QED  BY <1>1, <1>3, <2>1, InviteMade
<1>4. ASSUME NEW r \in Requests, RevokeInvite(r) PROVE InviteKept(i)
  <2>1. CASE invite' = [invite EXCEPT ![call[r].on] = Turned(call[r].on, "deleted")]
    BY <1>4, <2>1 DEF RevokeInvite
  <2>. QED  BY <1>1, <1>4, <2>1, InviteRevoked
<1>5. ASSUME NEW r \in Requests, ClaimInvite(r) PROVE InviteKept(i)
  <2>1. CASE /\ invite[call[r].on].state = "pending"
             /\ invite' = [invite EXCEPT ![call[r].on] = Turned(call[r].on, "used")]
    BY <2>1
  <2>. QED  BY <1>1, <1>5, <2>1, InviteClaimed
<1>6. ASSUME NEW r \in Requests, DeleteOrg(r) PROVE InviteKept(i)
  BY <1>6 DEF DeleteOrg, rows
<1>7. ASSUME NEW r \in Requests, Step(r),
             ~CreateInvite(r), ~RevokeInvite(r), ~ClaimInvite(r), ~DeleteOrg(r)
      PROVE  UNCHANGED invite
  BY <1>7
  DEF Step, rows, Refused, CheckRole, LoadInvite, RefuseMember, Join, JoinFails, LoadTarget,
      CountOwners, SetRole, PluginRemove, HookRuns, SelectAgents, SelectGrants, CommitRemoval,
      RollBack, CountAgents, CheckAgent, CheckGrant, InsertAgent, InsertGrant, RevokeAgent,
      RevokeGrant
<1>. QED  BY <1>1, <1>2, <1>3, <1>4, <1>5, <1>6, <1>7 DEF Next, vars, rows

\* No step makes an invitation offer more than its inviter held.
LEMMA InvitesCappedStep == TypeOK /\ InvitesCapped /\ [Next]_vars => InvitesCapped'
<1>. SUFFICES ASSUME TypeOK, InvitesCapped, [Next]_vars,
                     NEW i \in Requests, invite'[i].state # "none"
              PROVE  /\ stage'[i] = "done" /\ call'[i].op = "invite"
                     /\ Rank[invite'[i].role] <= Rank[held'[i]]
  BY DEF InvitesCapped
<1>1. CASE InviteKept(i)
  BY <1>1, DoneIsFinal DEF InviteKept, InvitesCapped
<1>2. CASE Invites(i)
  \* The role was compared with the one that the check of the caller returned.
  BY <1>2 DEF Invites, CreateInvite, CanAssignRole, Goto, TypeOK
<1>. QED  BY <1>1, <1>2, InviteSteps

\* An acceptance under way carries the role of its invitation.
LEMMA JoiningStep == TypeOK /\ InvitesCapped /\ Joining /\ [Next]_vars => Joining'
<1>. SUFFICES ASSUME TypeOK, InvitesCapped, Joining, [Next]_vars,
                     NEW s \in Requests, stage'[s] \in {"load", "claim", "join"}
              PROVE  /\ call'[s].on \in Requests
                     /\ invite'[call'[s].on].state # "none"
                     /\ seen'[s] = invite'[call'[s].on].role
  BY DEF Joining
<1>1. \A i \in Requests : invite[i].state # "none" =>
        invite'[i].state # "none" /\ invite'[i].role = invite[i].role
  <2>. SUFFICES ASSUME NEW i \in Requests, invite[i].state # "none" PROVE InviteKept(i)
    BY DEF InviteKept
  <2>1. stage[i] = "done"
    BY DEF InvitesCapped
  <2>. QED  BY <2>1, InviteSteps DEF Invites, CreateInvite
<1>2. CASE stage[s] \in {"load", "claim", "join"} /\ call'[s] = call[s] /\ seen'[s] = seen[s]
  BY <1>1, <1>2 DEF Joining
<1>3. CASE LoadInvite(s)
  <2>1. PICK op \in Offered(s) \cap {"accept"}, by \in Users : \E i \in Named(op, by) :
          /\ Sends(s, op, by, i, "member")
          /\ IF invite[i].state = "pending" /\ ~invite[i].expired
               THEN Goto(s, "load") /\ seen' = [seen EXCEPT ![s] = invite[i].role]
               ELSE Goto(s, "refused") /\ UNCHANGED seen
    BY <1>3 DEF LoadInvite
  <2>2. PICK i \in Named(op, by) :
          /\ Sends(s, op, by, i, "member")
          /\ IF invite[i].state = "pending" /\ ~invite[i].expired
               THEN Goto(s, "load") /\ seen' = [seen EXCEPT ![s] = invite[i].role]
               ELSE Goto(s, "refused") /\ UNCHANGED seen
    BY <2>1
  <2>3. i \in Requests /\ invite[i].state # "none"
    BY <2>1 DEF Named
  <2>4. call'[s].on = i /\ seen'[s] = invite[i].role
    BY <2>2 DEF Sends, Goto, TypeOK
  <2>. QED  BY <1>1, <2>3, <2>4
<1>4. ASSUME NEW r \in Requests, Step(r), Alone(r), ~LoadInvite(s)
      PROVE  stage[s] \in {"load", "claim", "join"} /\ call'[s] = call[s] /\ seen'[s] = seen[s]
  <2>1. CASE r # s
    BY <1>4, <2>1 DEF Alone
  <2>2. CASE r = s
    <3>1. RefuseMember(s) \/ ClaimInvite(s)
      BY <1>4, <2>2
      DEF Step, TypeOK, Goto, Refused, CheckRole, CreateInvite, RevokeInvite, Join, JoinFails,
          LoadTarget, CountOwners, SetRole, PluginRemove, HookRuns, SelectAgents,
          SelectGrants, CommitRemoval, RollBack, DeleteOrg, CountAgents, CheckAgent, CheckGrant,
          InsertAgent, InsertGrant, RevokeAgent, RevokeGrant
    <3>. QED  BY <3>1 DEF RefuseMember, ClaimInvite
  <2>. QED  BY <2>1, <2>2
<1>. QED  BY <1>2, <1>3, <1>4, StepCases DEF vars, local, Expire

\* Who sets a role was an owner when that was checked.
LEMMA SettersStep == TypeOK /\ SettersAreOwners /\ [Next]_vars => SettersAreOwners'
<1>. SUFFICES ASSUME TypeOK, SettersAreOwners, [Next]_vars, NEW s \in Requests,
                     call'[s].op = "setRole", stage'[s] \in {"checked", "target", "write"}
              PROVE  held'[s] = "owner"
  BY DEF SettersAreOwners
<1>1. CASE stage[s] \in {"checked", "target"} /\ call'[s] = call[s] /\ held'[s] = held[s]
  BY <1>1 DEF SettersAreOwners
<1>2. CASE UNCHANGED <<call[s], stage[s], held[s]>>
  BY <1>2 DEF SettersAreOwners
<1>3. CASE CheckRole(s)
  <2>1. PICK op \in Offered(s) \ {"accept", "leave"}, by \in Users :
          /\ \E on \in Named(op, by), role \in RolesOf(op) : Sends(s, op, by, on, role)
          /\ \E x \in RowsOf(by) : /\ Rank[member[x]] >= Rank[Needs(op)]
                                   /\ held' = [held EXCEPT ![s] = member[x]]
    BY <1>3 DEF CheckRole
  <2>2. op = "setRole"
    BY <2>1 DEF Sends, TypeOK
  <2>3. Needs(op) = "owner"
    BY <2>2 DEF Needs
  <2>4. PICK x \in RowsOf(by) : /\ Rank[member[x]] >= Rank["owner"]
                                /\ held' = [held EXCEPT ![s] = member[x]]
    BY <2>1, <2>3
  <2>5. member[x] \in Roles
    BY <2>4 DEF RowsOf, TypeOK
  <2>6. member[x] = "owner"
    BY <2>4, <2>5, RoleRank
  <2>. QED  BY <2>4, <2>6 DEF TypeOK
<1>4. ASSUME NEW r \in Requests, Step(r), Alone(r), ~CheckRole(s)
      PROVE  \/ stage[s] \in {"checked", "target"} /\ call'[s] = call[s] /\ held'[s] = held[s]
             \/ UNCHANGED <<call[s], stage[s], held[s]>>
  <2>1. CASE r # s
    BY <1>4, <2>1 DEF Alone
  <2>2. CASE r = s
    <3>1. stage[s] \in {"checked", "target"}
      BY <1>4, <2>2
      DEF Step, TypeOK, Goto, Refused, CreateInvite, RevokeInvite, LoadInvite, RefuseMember,
          ClaimInvite, Join, JoinFails, LoadTarget, CountOwners, SetRole, PluginRemove,
          HookRuns, SelectAgents, SelectGrants, CommitRemoval, RollBack, DeleteOrg,
          CountAgents, CheckAgent, CheckGrant, InsertAgent, InsertGrant, RevokeAgent, RevokeGrant
    <3>. QED  BY <1>4, <2>2, <3>1 DEF Alone
  <2>. QED  BY <2>1, <2>2
<1>. QED  BY <1>1, <1>2, <1>3, <1>4, StepCases DEF vars, local, Expire

\* Who gives a member row its role, and which.
Giving(x) ==
  \/ \E r \in Requests : Join(r) /\ org /\ x = r /\ given'[x] = call[r].on
                         /\ member'[x] = seen[r] /\ stage[r] = "join"
  \/ \E r \in Requests : SetRole(r) /\ given'[x] = r /\ member'[x] = call[r].role
                         /\ stage'[r] = "done" /\ stage[r] = "write" /\ call[r].op = "setRole"

\* A role that changes is given by the request that gives it.
LEMMA RolesAreGiven ==
  ASSUME TypeOK, [Next]_vars, NEW x \in Ids, member'[x] # "none"
  PROVE  UNCHANGED <<member[x], given[x]>> \/ Giving(x)
<1>. USE DEF TypeOK
<1>1. CASE UNCHANGED <<member, given>>
  BY <1>1
<1>2. ASSUME NEW r \in Requests, Join(r) PROVE UNCHANGED <<member[x], given[x]>> \/ Giving(x)
  BY <1>2 DEF Join, Giving
<1>3. ASSUME NEW r \in Requests, SetRole(r) PROVE UNCHANGED <<member[x], given[x]>> \/ Giving(x)
  BY <1>3 DEF SetRole, Giving, Goto
<1>4. ASSUME NEW r \in Requests, PluginRemove(r) PROVE UNCHANGED <<member[x], given[x]>>
  BY <1>4 DEF PluginRemove, history
<1>5. ASSUME NEW r \in Requests, CommitRemoval(r) PROVE UNCHANGED <<member[x], given[x]>>
  BY <1>5 DEF CommitRemoval, history
<1>6. ASSUME NEW r \in Requests, DeleteOrg(r) PROVE UNCHANGED <<member[x], given[x]>>
  BY <1>6 DEF DeleteOrg, history, rows
<1>7. ASSUME NEW r \in Requests, Step(r),
             ~Join(r), ~SetRole(r), ~PluginRemove(r), ~CommitRemoval(r), ~DeleteOrg(r)
      PROVE  UNCHANGED <<member, given>>
  BY <1>7
  DEF Step, rows, history, Refused, CheckRole, CreateInvite, RevokeInvite, LoadInvite,
      RefuseMember, ClaimInvite, JoinFails, LoadTarget, CountOwners, HookRuns, SelectAgents,
      SelectGrants, RollBack, CountAgents, CheckAgent, CheckGrant, InsertAgent, InsertGrant,
      RevokeAgent, RevokeGrant
<1>. QED  BY <1>1, <1>2, <1>3, <1>4, <1>5, <1>6, <1>7 DEF Next, vars, rows, history, Expire

\* Whoever gives a role is done then, and gives none above the one it held.
LEMMA GivenStep ==
  TypeOK /\ InvitesCapped /\ Joining /\ SettersAreOwners /\ GiversAreDone /\ NoRoleAboveGiver
    /\ [Next]_vars => GiversAreDone' /\ NoRoleAboveGiver'
<1>. SUFFICES ASSUME TypeOK, InvitesCapped, Joining, SettersAreOwners, GiversAreDone,
                     NoRoleAboveGiver, [Next]_vars,
                     NEW x \in Ids, member'[x] # "none", given'[x] \in Requests
              PROVE  /\ stage'[given'[x]] = "done"
                     /\ Rank[member'[x]] <= Rank[held'[given'[x]]]
  BY DEF GiversAreDone, NoRoleAboveGiver
<1>1. CASE UNCHANGED <<member[x], given[x]>>
  BY <1>1, DoneIsFinal DEF GiversAreDone, NoRoleAboveGiver
<1>2. ASSUME NEW r \in Requests, stage[r] = "join", given'[x] = call[r].on,
             member'[x] = seen[r]
      PROVE  /\ stage'[given'[x]] = "done"
             /\ Rank[member'[x]] <= Rank[held'[given'[x]]]
  <2>1. /\ invite[call[r].on].state # "none" /\ call[r].on \in Requests
        /\ seen[r] = invite[call[r].on].role
    BY <1>2 DEF Joining
  <2>2. stage[call[r].on] = "done" /\ Rank[seen[r]] <= Rank[held[call[r].on]]
    BY <2>1 DEF InvitesCapped
  <2>. QED  BY <1>2, <2>1, <2>2, DoneIsFinal
<1>3. ASSUME NEW r \in Requests, SetRole(r), given'[x] = r, member'[x] = call[r].role,
             stage'[r] = "done", stage[r] = "write", call[r].op = "setRole"
      PROVE  /\ stage'[given'[x]] = "done"
             /\ Rank[member'[x]] <= Rank[held'[given'[x]]]
  <2>1. held'[r] = "owner"
    BY <1>3 DEF SettersAreOwners, SetRole
  <2>2. call[r].role \in Roles
    BY DEF TypeOK, Call
  <2>. QED  BY <1>3, <2>1, <2>2, RoleRank
<1>. QED  BY <1>1, <1>2, <1>3, RolesAreGiven DEF Giving

\* An invitation that nobody has claimed stays without a user.
LEMMA UnclaimedStep ==
  TypeOK /\ InvitesCapped /\ Unclaimed /\ [Next]_vars => Unclaimed'
<1>. SUFFICES ASSUME TypeOK, InvitesCapped, Unclaimed, [Next]_vars PROVE Unclaimed'
  OBVIOUS
<1>1. ASSUME UNCHANGED usedBy PROVE Unclaimed'
  <2>. SUFFICES ASSUME NEW i \in Requests, invite'[i].state \in {"none", "pending"}
                PROVE  usedBy[i] = Nobody
    BY <1>1 DEF Unclaimed
  <2>1. CASE InviteKept(i)
    BY <2>1 DEF InviteKept, Unclaimed
  <2>2. CASE Invites(i)
    \* An invitation that was made is done: this one was not there.
    <3>1. invite[i].state = "none"
      BY <2>2 DEF Invites, CreateInvite, InvitesCapped
    <3>. QED  BY <3>1 DEF Unclaimed
  <2>. QED  BY <2>1, <2>2, InviteSteps
<1>2. ASSUME NEW r \in Requests, ClaimInvite(r) PROVE Unclaimed'
  <2>1. CASE /\ invite' = [invite EXCEPT ![call[r].on] = Turned(call[r].on, "used")]
             /\ usedBy' = [usedBy EXCEPT ![call[r].on] = r]
    BY <2>1 DEF Unclaimed, TypeOK, Turned
  <2>. QED  BY <1>1, <1>2, <2>1, InviteClaimed
<1>3. ASSUME NEW r \in Requests, Step(r), ~ClaimInvite(r) PROVE UNCHANGED usedBy
  BY <1>3
  DEF Step, rows, Refused, CheckRole, CreateInvite, RevokeInvite, LoadInvite, RefuseMember, Join,
      JoinFails, LoadTarget, CountOwners, SetRole, PluginRemove, HookRuns, SelectAgents,
      SelectGrants, CommitRemoval, RollBack, DeleteOrg, CountAgents, CheckAgent, CheckGrant,
      InsertAgent, InsertGrant, RevokeAgent, RevokeGrant
<1>. QED  BY <1>1, <1>2, <1>3 DEF Next, vars, rows, Expire

\* What a guard has counted stays about others than the target.
LEMMA CountedStep == TypeOK /\ Targets /\ Counted /\ [Next]_vars => Counted'
<1>. SUFFICES ASSUME TypeOK, Targets, Counted, [Next]_vars,
                     NEW s \in Requests, Ousting(s)', seen'[s] = "owner"
              PROVE  others'[s] # {} /\ call'[s].on \notin others'[s]
  BY DEF Counted
<1>1. CASE Ousting(s) /\ UNCHANGED <<seen[s], others[s], call[s]>>
  BY <1>1 DEF Counted
<1>2. CASE CountOwners(s)
  <2>1. /\ stage[s] = "target" /\ call'[s] = call[s] /\ seen[s] = "owner"
        /\ LET stops == seen[s] = "owner" /\ (call[s].op = "remove" \/ call[s].role # "owner") IN
           /\ others'[s] = IF stops THEN OtherOwners(s) ELSE {}
           /\ stage'[s] = IF stops /\ OtherOwners(s) = {} THEN "refused"
                          ELSE IF call[s].op = "remove" THEN "cascade" ELSE "write"
    BY <1>2 DEF CountOwners, Goto, TypeOK
  <2>2. call[s].op = "remove" \/ call[s].role # "owner"
    BY <2>1 DEF Ousting
  <2>3. OtherOwners(s) # {} /\ others'[s] = OtherOwners(s)
    BY <2>1, <2>2 DEF Ousting
  <2>. QED  BY <2>1, <2>3 DEF OtherOwners
<1>3. ASSUME NEW r \in Requests, Step(r), Alone(r), ~CountOwners(s)
      PROVE  Ousting(s) /\ UNCHANGED <<seen[s], others[s], call[s]>>
  <2>1. CASE r # s
    BY <1>3, <2>1 DEF Alone, Ousting
  <2>2. CASE r = s
    <3>1. SelectAgents(s) \/ SelectGrants(s)
      <4>1. stage'[s] \in {"cascade", "agents", "grants", "write"}
        BY DEF Ousting
      <4>2. HookRuns(s) => call'[s].op = "leave"
        BY DEF HookRuns, Targets, Targeted
      <4>3. CheckAgent(s) \/ CountAgents(s) => call'[s].op \notin {"remove", "setRole"}
        BY DEF CheckAgent, CountAgents
      <4>4. CheckGrant(s) => call'[s].op \notin {"remove", "setRole"}
        BY DEF CheckGrant
      <4>. QED
        BY <1>3, <2>2, <4>1, <4>2, <4>3, <4>4
        DEF Ousting, Step, TypeOK, Goto, Refused, CheckRole, CreateInvite, RevokeInvite, LoadInvite,
            RefuseMember, ClaimInvite, Join, JoinFails, LoadTarget, SetRole, PluginRemove,
            CommitRemoval, RollBack, DeleteOrg, InsertAgent, InsertGrant, RevokeAgent,
            RevokeGrant
    <3>. QED  BY <3>1 DEF SelectAgents, SelectGrants, Ousting, Goto, TypeOK
  <2>. QED  BY <2>1, <2>2
<1>. QED  BY <1>1, <1>2, <1>3, StepCases DEF vars, local, Expire, Ousting

\* Whoever is inserted once the agents, or the grants, of its maker are selected is late.
LEMMA InsertedLate ==
  ASSUME TypeOK, Bare, NEW r \in Requests, Step(r), NEW x \in Ids, x \notin late',
         NEW s \in Requests, call[s].op \in {"remove", "leave"}, Maker(x)' = Leaver(s)
  PROVE  /\ agent'[x] = "enabled" /\ stage[s] \in {"agents", "grants"} =>
              agent[x] = "enabled" /\ Maker(x) = Leaver(s)
         /\ grant'[x] # Nobody /\ stage[s] = "grants" =>
              grant[x] # Nobody /\ Maker(x) = Leaver(s)
<1>1. ASSUME agent'[x] = "enabled", agent[x] # "enabled", stage[s] \in {"agents", "grants"}
      PROVE  FALSE
  <2>1. x = r /\ InsertAgent(r) /\ org
    BY <1>1, Appears
  <2>2. ~Behind(call[r].by, {"agents", "grants"})
    BY <2>1 DEF InsertAgent, TypeOK
  <2>3. Leaver(s) # call[r].by
    BY <1>1, <2>2 DEF Behind
  <2>. QED  BY <2>1, <2>3, MembershipConstants DEF InsertAgent, Maker
<1>2. ASSUME grant'[x] # Nobody, grant[x] = Nobody, stage[s] = "grants"
      PROVE  FALSE
  <2>1. x = r /\ InsertGrant(r) /\ stage'[r] = "done"
    BY <1>2, Appears
  <2>2. ~Behind(call[r].by, {"grants"})
    BY <2>1 DEF InsertGrant, TypeOK, Goto
  <2>3. Leaver(s) # call[r].by
    BY <1>2, <2>2 DEF Behind
  <2>. QED  BY <2>1, <2>3, MembershipConstants DEF InsertGrant, Maker
<1>3. agent[x] = "enabled" \/ grant[x] # Nobody => Maker(x)' = Maker(x)
  <2>1. agent[x] = "enabled" \/ grant[x] # Nobody => Known(x)
    BY DEF Bare, Known, Ids
  <2>. QED  BY <2>1, KnownIsFinal DEF Next
<1>. QED  BY <1>1, <1>2, <1>3

\* late and unswept only grow.
LEMMA HistoryGrows == ASSUME [Next]_vars PROVE late \subseteq late' /\ unswept \subseteq unswept'
<1>1. ASSUME NEW r \in Requests, Step(r) PROVE late \subseteq late' /\ unswept \subseteq unswept'
  BY <1>1
  DEF Step, history, Refused, CheckRole, CreateInvite, RevokeInvite, LoadInvite, RefuseMember,
      ClaimInvite, Join, JoinFails, LoadTarget, CountOwners, SetRole, PluginRemove, HookRuns,
      SelectAgents, SelectGrants, CommitRemoval, RollBack, DeleteOrg, CountAgents,
      CheckAgent, CheckGrant, InsertAgent, InsertGrant, RevokeAgent, RevokeGrant
<1>. QED  BY <1>1 DEF Next, vars, history, Expire

\* What a cascade has not selected came late.
LEMMA SelectedStep == TypeOK /\ Bare /\ Targets /\ Selected /\ [Next]_vars => Selected'
<1>. SUFFICES ASSUME TypeOK, Bare, Targets, Selected, [Next]_vars,
                     NEW s \in Requests, call'[s].op \in {"remove", "leave"}
              PROVE  /\ stage'[s] \in {"agents", "grants"} =>
                          \A a \in Ids \ late' : agent'[a] = "enabled" /\ Maker(a)' = Leaver(s)' =>
                            a \in picked'[s].agents
                     /\ stage'[s] = "grants" =>
                          \A g \in Ids \ late' : grant'[g] # Nobody /\ Maker(g)' = Leaver(s)' =>
                            g \in picked'[s].grants
  BY DEF Selected
<1>1. CASE UNCHANGED <<agent, grant, late, local>>
  BY <1>1 DEF Selected, local, Maker, Leaver
<1>2. ASSUME NEW r \in Requests, Step(r), Alone(r), stage'[s] \in {"agents", "grants"}
      PROVE  /\ \A a \in Ids \ late' : agent'[a] = "enabled" /\ Maker(a)' = Leaver(s)' =>
                  a \in picked'[s].agents
             /\ stage'[s] = "grants" =>
                  \A g \in Ids \ late' : grant'[g] # Nobody /\ Maker(g)' = Leaver(s)' =>
                    g \in picked'[s].grants
  <2>1. stage[s] \in Cascading /\ call'[s] = call[s]
    <3>1. CASE r # s
      BY <1>2, <3>1 DEF Alone, Cascading
    <3>2. CASE r = s
      BY <1>2, <3>2
      DEF Cascading, Step, TypeOK, Goto, Refused, CheckRole, CreateInvite, RevokeInvite,
          LoadInvite, RefuseMember, ClaimInvite, Join, JoinFails, LoadTarget, CountOwners,
          SetRole, PluginRemove, HookRuns, SelectAgents, SelectGrants, CommitRemoval,
          RollBack, DeleteOrg, CountAgents, CheckAgent, CheckGrant, InsertAgent, InsertGrant,
          RevokeAgent, RevokeGrant
    <3>. QED  BY <3>1, <3>2
  <2>2. Known(call[s].on) /\ call[s].on \in Ids
    BY <2>1 DEF Targets, Targeted, TypeOK, Call
  <2>3. Leaver(s)' = Leaver(s)
    BY <2>1, <2>2, KnownIsFinal DEF Leaver
  <2>4. CASE stage[s] = stage'[s] /\ picked'[s] = picked[s]
    \* What is there now and was selected then was there then.
    <3>1. ASSUME NEW a \in Ids \ late', agent'[a] = "enabled", Maker(a)' = Leaver(s)
          PROVE  a \in picked[s].agents
      <4>1. agent[a] = "enabled" /\ Maker(a) = Leaver(s)
        BY <1>2, <2>1, <2>4, <3>1, InsertedLate
      <4>. QED  BY <1>2, <2>1, <2>4, <4>1, HistoryGrows DEF Selected
    <3>2. ASSUME NEW g \in Ids \ late', grant'[g] # Nobody, Maker(g)' = Leaver(s),
                 stage'[s] = "grants"
          PROVE  g \in picked[s].grants
      <4>1. grant[g] # Nobody /\ Maker(g) = Leaver(s)
        BY <1>2, <2>1, <2>4, <3>2, InsertedLate
      <4>. QED  BY <1>2, <2>1, <2>4, <3>2, <4>1, HistoryGrows DEF Selected
    <3>. QED  BY <2>3, <2>4, <3>1, <3>2
  <2>5. CASE SelectAgents(s)
    <3>1. /\ picked'[s].agents = {a \in Ids : agent[a] = "enabled" /\ Maker(a) = Leaver(s)}
          /\ stage'[s] = "agents" /\ UNCHANGED <<agent, call>>
      BY <2>5 DEF SelectAgents, Goto, TypeOK, rows
    <3>2. \A a \in Ids : Maker(a)' = Maker(a)
      BY <3>1 DEF Maker
    <3>. QED  BY <2>3, <3>1, <3>2
  <2>6. CASE SelectGrants(s)
    <3>1. /\ picked'[s].grants = GrantsOf(Leaver(s)) /\ picked'[s].agents = picked[s].agents
          /\ stage[s] = "agents" /\ UNCHANGED <<agent, grant, call, late>>
      BY <2>6 DEF SelectGrants, Goto, TypeOK, rows, history
    <3>2. \A a \in Ids : Maker(a)' = Maker(a)
      BY <3>1 DEF Maker
    <3>. QED  BY <2>1, <2>3, <3>1, <3>2 DEF Selected, GrantsOf
  <2>7. CASE r # s
    BY <1>2, <2>4, <2>7 DEF Alone
  <2>8. CASE r = s /\ ~SelectAgents(s) /\ ~SelectGrants(s)
    BY <1>2, <2>8
    DEF Step, TypeOK, Goto, Refused, CheckRole, CreateInvite, RevokeInvite, LoadInvite,
        RefuseMember, ClaimInvite, Join, JoinFails, LoadTarget, CountOwners, SetRole,
        PluginRemove, HookRuns, CommitRemoval, RollBack, DeleteOrg, CountAgents, CheckAgent,
        CheckGrant, InsertAgent, InsertGrant, RevokeAgent, RevokeGrant
  <2>. QED  BY <2>5, <2>6, <2>7, <2>8
<1>. QED  BY <1>1, <1>2, StepCases DEF vars, rows, history, Expire

\* Whoever answered for a user still does, or a cascade that is over now has read what
\* was there.
LEMMA AnswerableStays ==
  ASSUME TypeOK, Bare, Targets, Selected, NEW r \in Requests, Step(r), Alone(r),
         NEW u \in Users, Answerable(u), ~Answerable(u)'
  PROVE  \/ Razed
         \/ /\ CommitRemoval(r) /\ stage[r] = "grants"
            /\ call[r].op \in {"remove", "leave"} /\ Leaver(r) = u
<1>. [Next]_vars
  BY DEF Next
<1>1. ASSUME IsMember(u)
      PROVE  \/ Razed
             \/ CommitRemoval(r) /\ call[r].op = "remove" /\ Leaver(r) = u
  <2>1. PICK y \in Ids : member[y] # "none" /\ Maker(y) = u
    BY <1>1 DEF IsMember, RowsOf
  <2>2. Known(y)
    BY <2>1 DEF Bare, Known, Ids
  <2>3. Maker(y)' = u
    BY <2>1, <2>2, KnownIsFinal
  <2>4. member'[y] = "none"
    BY <2>3 DEF Answerable, IsMember, RowsOf
  <2>5. ASSUME call'[r].on = y, call'[r].op = "leave", stage'[r] = "hook" PROVE FALSE
    BY <2>3, <2>5 DEF Answerable, Leaving, Leaver, Cascading
  <2>. QED  BY <2>1, <2>4, <2>5, Disappears DEF Leaver
<1>2. ASSUME u \in unswept PROVE FALSE
  BY <1>2, HistoryGrows DEF Answerable
<1>3. ASSUME Leaving(u) PROVE CommitRemoval(r) /\ call[r].op = "leave" /\ Leaver(r) = u
  <2>1. PICK s \in Requests : call[s].op = "leave" /\ stage[s] \in Cascading /\ Leaver(s) = u
    BY <1>3 DEF Leaving
  <2>2. call[s].on \in Ids /\ Known(call[s].on) /\ call'[s] = call[s]
    BY <2>1 DEF Targets, Targeted, TypeOK, Call, Alone, Cascading
  <2>3. Leaver(s)' = u
    BY <2>1, <2>2, KnownIsFinal DEF Leaver
  <2>4. stage'[s] \notin Cascading
    BY <2>1, <2>2, <2>3 DEF Answerable, Leaving
  <2>5. r = s
    BY <2>1, <2>4 DEF Alone
  <2>6. u \notin unswept'
    BY DEF Answerable
  <2>7. CommitRemoval(s)
    <3>1. ~HookRuns(s) /\ ~RollBack(s)
      BY <2>1, <2>4, <2>6 DEF HookRuns, RollBack, Goto, TypeOK, Cascading
    <3>2. ~SelectAgents(s) /\ ~SelectGrants(s)
      BY <2>4 DEF SelectAgents, SelectGrants, Goto, TypeOK, Cascading
    <3>. QED
      BY <2>1, <2>5, <3>1, <3>2
      DEF Cascading, Step, Refused, CheckRole, Sends, CreateInvite, RevokeInvite, LoadInvite,
          RefuseMember, ClaimInvite, Join, JoinFails, LoadTarget, CountOwners, SetRole,
          PluginRemove, DeleteOrg, CountAgents, CheckAgent, CheckGrant, InsertAgent,
          InsertGrant, RevokeAgent, RevokeGrant
  <2>. QED  BY <2>1, <2>5, <2>7
<1>. QED  BY <1>1, <1>2, <1>3 DEF Answerable, CommitRemoval

\* An agent or grant that is left has a member, or a leave under way, to answer for it.
LEMMA SweepsStep ==
  TypeOK /\ Bare /\ Targets /\ Selected /\ Sweeps /\ [Next]_vars => Sweeps'
<1>. SUFFICES ASSUME TypeOK, Bare, Targets, Selected, Sweeps, [Next]_vars,
                     NEW x \in Ids \ late', agent'[x] = "enabled" \/ grant'[x] # Nobody,
                     ~Answerable(Maker(x))'
              PROVE  FALSE
  BY DEF Sweeps
<1>. x \notin late
  BY HistoryGrows
<1>1. ASSUME UNCHANGED <<org, member, agent, grant, late, unswept, local>> PROVE FALSE
  BY <1>1 DEF Sweeps, Answerable, IsMember, RowsOf, Leaving, Leaver, Maker, local
<1>2. ASSUME NEW r \in Requests, Step(r), Alone(r) PROVE FALSE
  <2>1. CASE \/ agent[x] = "enabled" /\ agent'[x] = "enabled"
             \/ grant[x] # Nobody /\ grant'[x] # Nobody
    <3>1. Known(x) /\ Maker(x)' = Maker(x)
      <4>1. Known(x)
        BY <2>1 DEF Bare, Known, Ids
      <4>. QED  BY <4>1, KnownIsFinal
    <3>2. Maker(x) \in Users
      BY DEF Maker, TypeOK, Call, Ids
    <3>3. Answerable(Maker(x)) /\ ~Answerable(Maker(x))'
      BY <2>1 DEF Sweeps
    <3>4. PICK u \in Users : u = Maker(x) /\ Answerable(u) /\ ~Answerable(u)'
      BY <3>1, <3>2, <3>3 DEF Answerable, Leaving
    <3>5. CASE Razed
      BY <2>1, <3>5 DEF Razed
    <3>6. CASE CommitRemoval(r) /\ stage[r] = "grants" /\ call[r].op \in {"remove", "leave"}
                 /\ Leaver(r) = u
      \* The cascade had selected it, and takes it along.
      <4>1. /\ agent[x] = "enabled" => x \in picked[r].agents
            /\ grant[x] # Nobody => x \in picked[r].grants
        BY <3>4, <3>6 DEF Selected
      <4>. QED  BY <2>1, <3>6, <4>1 DEF CommitRemoval, TypeOK
    <3>. QED  BY <1>2, <3>4, <3>5, <3>6, AnswerableStays
  <2>2. CASE agent'[x] = "enabled" /\ agent[x] # "enabled"
    <3>1. x = r /\ InsertAgent(r) /\ org
      BY <1>2, <2>2, Appears
    <3>2. IsMember(call[r].by) /\ UNCHANGED <<member, call>>
      BY <3>1 DEF InsertAgent, TypeOK, Behind
    <3>3. Maker(x)' = call[r].by
      BY <3>1, <3>2, MembershipConstants DEF Maker
    <3>. QED  BY <3>2, <3>3 DEF Answerable, IsMember, RowsOf, Maker
  <2>3. CASE grant'[x] # Nobody /\ grant[x] = Nobody
    <3>1. x = r /\ InsertGrant(r) /\ stage'[r] = "done"
      BY <1>2, <2>3, Appears
    <3>2. IsMember(call[r].by) /\ UNCHANGED <<member, call>>
      BY <2>3, <3>1 DEF InsertGrant, TypeOK, Behind, Goto
    <3>3. Maker(x)' = call[r].by
      BY <3>1, <3>2, MembershipConstants DEF Maker
    <3>. QED  BY <3>2, <3>3 DEF Answerable, IsMember, RowsOf, Maker
  <2>. QED  BY <2>1, <2>2, <2>3
<1>. QED  BY <1>1, <1>2, StepCases DEF vars, rows, history, Expire

-----------------------------------------------------------------------------
(* The theorems *)

LEMMA InitIInv == Init => IInv
<1>. SUFFICES ASSUME Init PROVE IInv
  OBVIOUS
<1>. USE MembershipConstants DEF Init
<1>1. PICK roles \in InitialRoles :
        /\ member = [x \in Ids |-> IF x \in Users THEN roles[x] ELSE "none"]
        /\ agent = [x \in Ids |-> IF x \in Users /\ roles[x] # "none" THEN "enabled" ELSE "none"]
        /\ \E gave \in InitialGrants :
             /\ \A u \in Users : gave[u] # Nobody => roles[u] # "none" /\ roles[gave[u]] # "none"
             /\ grant = [x \in Ids |-> IF x \in Users THEN gave[x] ELSE Nobody]
  OBVIOUS
<1>2. PICK gave \in InitialGrants :
        /\ \A u \in Users : gave[u] # Nobody => roles[u] # "none" /\ roles[gave[u]] # "none"
        /\ grant = [x \in Ids |-> IF x \in Users THEN gave[x] ELSE Nobody]
  BY <1>1
<1>3. roles \in [Users -> Roles \cup {"none"}] /\ gave \in [Users -> Users \cup {Nobody}]
  OBVIOUS
<1>4. PICK u \in Users : roles[u] = "owner"
  OBVIOUS
<1>5. AnyCall \in Call
  BY <1>4, CallExists
<1>6. TypeOK
  BY <1>1, <1>2, <1>3, <1>5 DEF TypeOK, Invite, Roles, Stages, Ids
<1>7. Bare /\ GiversAreDone /\ NoRoleAboveGiver
  BY <1>1, <1>2 DEF Bare, GiversAreDone, NoRoleAboveGiver, Ids
<1>8. Targets /\ InvitesCapped /\ Joining /\ SettersAreOwners /\ Unclaimed /\ Counted /\ Selected
  BY DEF Targets, Targeted, InvitesCapped, Joining, SettersAreOwners, Unclaimed, Counted, Ousting,
         Selected, Cascading
<1>9. Sweeps
  BY <1>1, <1>2, <1>3 DEF Sweeps, Answerable, IsMember, RowsOf, Maker, Ids
<1>. QED  BY <1>6, <1>7, <1>8, <1>9 DEF IInv

\* IInv holds at first and every step preserves it.
THEOREM Invariance == Spec => []IInv
<1>1. IInv /\ [Next]_vars => IInv'
  BY TypeStep, BareStep, TargetsStep, InvitesCappedStep, JoiningStep, SettersStep, GivenStep,
     UnclaimedStep, CountedStep, SelectedStep, SweepsStep
  DEF IInv
<1>. QED  BY <1>1, InitIInv, PTL DEF Spec

\* Every value stays of its type.
THEOREM TypeCorrect == Spec => []TypeOK
BY Invariance, PTL DEF IInv

\* Nobody holds a role above the one its giver held when the giver was checked, however
\* invitations, their acceptance and changes of roles interleave (owner-guards.ts:31).
THEOREM RolesAreCapped == Spec => []NoRoleAboveGiver
BY Invariance, PTL DEF IInv

\* A former member leaves nothing alive behind that was there when the cascade read
\* (cascades.ts onMemberRemoved), but where the cascade of the hook failed.
THEOREM RemovalsSweep == Spec => []RemovalSweeps
<1>1. IInv => RemovalSweeps
  BY DEF IInv, Sweeps, Answerable, Leaving, Cascading, RemovalSweeps, TypeOK
<1>. QED  BY <1>1, Invariance, PTL

\* The organization loses its last owner only to a step whose check another request has
\* outdated (owner-guards.ts:48).
THEOREM LastOwnerIsRaced == Spec => LastOwnerOnlyLostToRace
<1>. DEFINE Lost == org' /\ Owners # {} /\ Owners' = {}
            Raced(r) == /\ stage[r] \in {"write", "grants"} /\ stage'[r] = "done"
                        /\ \/ seen[r] # "owner"
                           \/ others[r] \ {call[r].on} # {}
<1>1. IInv /\ [Next]_vars => [Lost => \E r \in Requests : Raced(r)]_vars
  <2>. SUFFICES ASSUME IInv, [Next]_vars, Lost PROVE \E r \in Requests : Raced(r)
    OBVIOUS
  <2>. USE DEF IInv, TypeOK
  <2>1. PICK y \in Ids : member[y] = "owner" /\ member'[y] # "owner"
    BY DEF Owners
  <2>2. ASSUME NEW r \in Requests, SetRole(r) PROVE Raced(r)
    <3>1. y = call[r].on /\ call[r].role # "owner"
      BY <2>1, <2>2 DEF SetRole
    <3>2. Ousting(r) /\ stage[r] = "write" /\ stage'[r] = "done"
      BY <2>2, <3>1 DEF SetRole, Ousting, Goto
    <3>. QED  BY <3>2 DEF Counted
  <2>3. ASSUME NEW r \in Requests, CommitRemoval(r) PROVE Raced(r)
    <3>1. call[r].op = "remove"
      BY <2>1, <2>3 DEF CommitRemoval
    <3>2. Ousting(r) /\ stage[r] = "grants" /\ stage'[r] = "done"
      BY <2>3, <3>1 DEF CommitRemoval, Ousting, Goto
    <3>. QED  BY <3>2 DEF Counted
  <2>4. ASSUME NEW r \in Requests, Step(r), ~SetRole(r), ~CommitRemoval(r)
        PROVE  \E q \in Requests : Raced(q)
    <3>1. CASE member'[y] = "none"
      <4>1. PluginRemove(r) /\ call'[r].on = y
        BY <2>1, <2>4, <3>1, Disappears DEF Razed
      <4>2. PICK op \in Offered(r) \cap {"leave"}, by \in Users : \E x \in Named(op, by) :
              Sends(r, op, by, x, "member")
        BY <4>1 DEF PluginRemove
      <4>3. PICK x \in Named(op, by) : Sends(r, op, by, x, "member")
        BY <4>2
      <4>4. x = y /\ member[x] # "owner"
        BY <4>1, <4>2, <4>3 DEF Sends, Named
      <4>. QED  BY <2>1, <4>4
    <3>2. CASE member'[y] # "none"
      BY <2>1, <2>2, <3>2, RolesAreGiven DEF Giving, Bare, Ids
    <3>. QED  BY <3>1, <3>2
  <2>. QED  BY <2>1, <2>2, <2>3, <2>4 DEF Next, vars, rows, Expire
<1>. QED  BY <1>1, Invariance, PTL DEF Spec, LastOwnerOnlyLostToRace

\* Invitations implement one-time tokens (organizations.ts:926).
THEOREM InvitesWorkOnce == Spec => InviteWorksOnce
<1>. DEFINE issued == {i \in Requests : call[i].op = "invite" /\ stage[i] = "done"}
<1>1. Init => Token!Init
  BY DEF Init, Token!Init
<1>2. IInv /\ [Next]_vars => [Token!Next]_<<issued, usedBy>>
  <2>. SUFFICES ASSUME IInv, [Next]_vars, <<issued, usedBy>>' # <<issued, usedBy>>
                PROVE  Token!Next
    OBVIOUS
  <2>1. ASSUME NEW r \in Requests, ClaimInvite(r) PROVE Token!Next
    <3>1. stage[r] = "claim" /\ call' = call
          /\ \A s \in Requests : (stage'[s] = "done" <=> stage[s] = "done")
      BY <2>1 DEF ClaimInvite, Goto, IInv, TypeOK
    <3>2. issued' = issued
      BY <3>1
    <3>3. usedBy' = [usedBy EXCEPT ![call[r].on] = r] /\ invite[call[r].on].state = "pending"
      BY <2>1, <3>2 DEF ClaimInvite, Claimable
    <3>4. call[r].on \in Requests
      BY <3>1 DEF IInv, Joining
    <3>5. call[r].on \in issued /\ usedBy[call[r].on] = Nobody
      BY <3>3, <3>4 DEF IInv, InvitesCapped, Unclaimed
    <3>. QED  BY <3>2, <3>3, <3>4, <3>5 DEF Token!Next, Token!Spend
  <2>2. ASSUME UNCHANGED usedBy PROVE Token!Next
    <3>1. issued \subseteq issued' /\ issued' \subseteq Requests
      BY DoneIsFinal DEF IInv
    <3>2. issued' \ issued \in SUBSET (Requests \ issued) /\ issued' = issued \cup (issued' \ issued)
      BY <3>1
    <3>. QED  BY <2>2, <3>1, <3>2 DEF Token!Next, Token!Issue
  <2>3. ASSUME NEW r \in Requests, Step(r), ~ClaimInvite(r) PROVE UNCHANGED usedBy
    BY <2>3
    DEF Step, rows, Refused, CheckRole, CreateInvite, RevokeInvite, LoadInvite, RefuseMember,
        Join, JoinFails, LoadTarget, CountOwners, SetRole, PluginRemove, HookRuns, SelectAgents,
        SelectGrants, CommitRemoval, RollBack, DeleteOrg, CountAgents, CheckAgent, CheckGrant,
        InsertAgent, InsertGrant, RevokeAgent, RevokeGrant
  <2>. QED  BY <2>1, <2>2, <2>3 DEF Next, vars, rows, Expire
<1>. QED  BY <1>1, <1>2, Invariance, PTL DEF Spec, InviteWorksOnce, Token!Spec

-----------------------------------------------------------------------------
(* Arriving by an invitation: proofs about Arrival for any number of invitations, *)
(* whatever they offer.                                                           *)

\* Who came by a link and took no way around has it in hand on the pages before the form,
\* and so has each mail that was sent then.
HandedOn ==
  /\ carried \in Tokens \cup {None} /\ \A m \in mails : m.to \in Tokens \cup {None}
  /\ page \in {"login", "register", "inbox"} /\ came # None /\ ~detour => carried = came
  /\ \A m \in mails : m.came # None /\ ~m.detour => m.to = m.came

\* What is displayed under a token is its offer, and the form accepts what it displays.
Displayed ==
  /\ info \in [Tokens -> [state : {"none", "failed", "shown"}, offer : {None} \cup {Offer[t] : t \in Tokens}]]
  /\ asked \in [Tokens -> [phase : {"idle", "sent", "valid", "invalid"}, of : Tokens \cup {None}]]
  /\ field \in Tokens \cup {None}
  /\ \A k \in Tokens : info[k].state = "shown" => info[k].offer = Offer[k]
  /\ \A k \in Tokens : asked[k].phase # "idle" => asked[k].of = k
  /\ accept.phase # "idle" => accept.shown = Offer[accept.token]
  /\ \A s \in seats : s.shown = s.offer

\* Every step hands the link on, and a sign-in leads to its form.
LEMMA HandedOnStep ==
  ASSUME HandedOn, [Pages!Next]_pages
  PROVE  HandedOn' /\ Pages!FindsTheForm
<1>1. CASE UNCHANGED <<page, carried, mails, came, detour, session>>
  BY <1>1 DEF HandedOn, Pages!FindsTheForm, Pages!SignedIn
<1>2. ASSUME NEW t \in Tokens, Pages!OpenLink(t)
      PROVE  HandedOn' /\ Pages!FindsTheForm
  BY <1>2 DEF HandedOn, Pages!FindsTheForm, Pages!SignedIn, Pages!OpenLink, Pages!Lands
<1>3. ASSUME NEW t \in Tokens, Pages!Paste(t)
      PROVE  HandedOn' /\ Pages!FindsTheForm
  BY <1>3 DEF HandedOn, Pages!FindsTheForm, Pages!SignedIn, Pages!Paste
<1>4. CASE Pages!SignUp
  BY <1>4 DEF HandedOn, Pages!FindsTheForm, Pages!SignedIn, Pages!SignUp
<1>5. CASE Pages!Resend
  BY <1>5 DEF HandedOn, Pages!FindsTheForm, Pages!SignedIn, Pages!Resend
<1>6. ASSUME NEW m \in mails, Pages!Verify(m)
      PROVE  HandedOn' /\ Pages!FindsTheForm
  BY <1>6 DEF HandedOn, Pages!FindsTheForm, Pages!SignedIn, Pages!Verify
<1>7. CASE Pages!ToRegister \/ Pages!LeaveInbox
  BY <1>7 DEF HandedOn, Pages!FindsTheForm, Pages!SignedIn, Pages!ToRegister, Pages!LeaveInbox
<1>8. CASE Pages!ForgetLink \/ Pages!SocialFails
  BY <1>8 DEF HandedOn, Pages!FindsTheForm, Pages!SignedIn, Pages!ForgetLink, Pages!SocialFails
<1>9. CASE Pages!SignIn \/ Pages!SocialSignIn
  BY <1>9 DEF HandedOn, Pages!FindsTheForm, Pages!SignedIn, Pages!SignIn, Pages!SocialSignIn,
              Pages!Lands, Pages!Looks
<1>10. CASE Pages!SessionEnds
  BY <1>10 DEF HandedOn, Pages!FindsTheForm, Pages!SignedIn, Pages!SessionEnds
<1>11. CASE Pages!AcceptArrives
  BY <1>11 DEF HandedOn, Pages!FindsTheForm, Pages!SignedIn, Pages!AcceptArrives
<1>12. ASSUME NEW t \in Tokens, Pages!LookupServed(t) \/ Pages!LookupArrives(t) \/ Pages!Spoil(t)
       PROVE  HandedOn' /\ Pages!FindsTheForm
  BY <1>1, <1>12 DEF Pages!LookupServed, Pages!LookupArrives, Pages!Spoil, Pages!signs
<1>13. CASE Pages!Clear \/ Pages!Join \/ Pages!AcceptServed
  BY <1>1, <1>13 DEF Pages!Clear, Pages!Join, Pages!AcceptServed, Pages!signs
<1>. QED  BY <1>1, <1>2, <1>3, <1>4, <1>5, <1>6, <1>7, <1>8, <1>9, <1>10, <1>11, <1>12, <1>13
          DEF Pages!Next, pages

\* Every step displays what is offered.
LEMMA DisplayedStep ==
  ASSUME Displayed, carried \in Tokens \cup {None}, [Pages!Next]_pages
  PROVE  Displayed'
<1>1. CASE UNCHANGED <<info, asked, field, accept, seats>>
  BY <1>1 DEF Displayed
<1>2. ASSUME NEW t \in Tokens \cup {None}, Pages!Looks(t), UNCHANGED seats PROVE Displayed'
  <2>1. asked' \in [Tokens -> [phase : {"idle", "sent", "valid", "invalid"}, of : Tokens \cup {None}]]
        /\ \A k \in Tokens : asked'[k] = asked[k] \/ (asked'[k].phase = "sent" /\ asked'[k].of = k)
    <3>1. CASE UNCHANGED asked
      BY <3>1 DEF Displayed
    <3>2. CASE t # None /\ asked' = [asked EXCEPT ![t] = [phase |-> "sent", of |-> t]]
      BY <3>2 DEF Displayed
    <3>. QED  BY <1>2, <3>1, <3>2 DEF Pages!Looks, Pages!Key
  <2>2. field' = t /\ UNCHANGED <<info, accept>>
    BY <1>2 DEF Pages!Looks
  <2>. QED  BY <1>2, <2>1, <2>2 DEF Displayed
<1>3. CASE Pages!Unmounts /\ UNCHANGED seats
  BY <1>3 DEF Displayed, Pages!Unmounts
<1>4. ASSUME NEW t \in Tokens, Pages!OpenLink(t) \/ Pages!Paste(t) PROVE Displayed'
  BY <1>2, <1>3, <1>4 DEF Pages!OpenLink, Pages!Paste, Pages!Lands
<1>5. CASE \E m \in mails : Pages!Verify(m)
  BY <1>1, <1>3, <1>5 DEF Pages!Verify, Pages!form
<1>6. CASE Pages!SessionEnds
  BY <1>3, <1>6 DEF Pages!SessionEnds
<1>7. CASE Pages!SignIn \/ Pages!SocialSignIn
  <2>1. Pages!Looks(carried) /\ UNCHANGED seats
    BY <1>7 DEF Pages!SignIn, Pages!SocialSignIn, Pages!Lands
  <2>. QED  BY <1>2, <2>1
<1>8. ASSUME NEW k \in Tokens, Pages!LookupServed(k) PROVE Displayed'
  <2>1. /\ UNCHANGED <<info, field, accept, seats>> /\ asked[k].phase = "sent"
        /\ \E ph \in {"valid", "invalid"} :
             asked' = [asked EXCEPT ![k] = [phase |-> ph, of |-> asked[k].of]]
    BY <1>8 DEF Pages!LookupServed, Displayed
  <2>. QED  BY <2>1 DEF Displayed
<1>9. ASSUME NEW k \in Tokens, Pages!LookupArrives(k) PROVE Displayed'
  <2>1. /\ UNCHANGED <<field, accept, seats>> /\ asked[k].of = k
        /\ asked' = [asked EXCEPT ![k] = Pages!Unasked]
    BY <1>9 DEF Pages!LookupArrives, Displayed
  <2>2. \/ info' = [info EXCEPT ![k] = [state |-> "failed", offer |-> None]]
        \/ info' = [info EXCEPT ![k] = [state |-> "shown", offer |-> Offer[k]]]
    BY <1>9, <2>1 DEF Pages!LookupArrives
  <2>. QED  BY <2>1, <2>2 DEF Displayed, Pages!Unasked
<1>10. CASE Pages!Clear
  BY <1>10 DEF Pages!Clear, Displayed
<1>11. CASE Pages!Join
  BY <1>11 DEF Pages!Join, Displayed, Pages!Key
<1>12. CASE Pages!AcceptServed
  BY <1>12 DEF Pages!AcceptServed, Displayed, Pages!Answered
<1>13. CASE Pages!AcceptArrives
  BY <1>13 DEF Pages!AcceptArrives, Displayed, Pages!Idle
<1>. QED  BY <1>1, <1>4, <1>5, <1>6, <1>7, <1>8, <1>9, <1>10, <1>11, <1>12, <1>13
          DEF Pages!Next, pages, Pages!Spoil, Pages!form, Pages!ToRegister, Pages!SignUp, Pages!Resend,
              Pages!LeaveInbox, Pages!ForgetLink, Pages!SocialFails

\* The invariants, of the behaviours in which somebody arrives.
LEMMA ArrivalInvariance == Either => [](part = "pages" => HandedOn /\ Displayed)
<1>1. InitEither => (part = "pages" => HandedOn /\ Displayed)
  BY DEF InitEither, Pages!Init, HandedOn, Displayed, Pages!Unseen, Pages!Unasked, Pages!Idle
<1>2. (part = "pages" => HandedOn /\ Displayed) /\ [NextEither]_<<part, vars, pages>>
        => (part = "pages" => HandedOn /\ Displayed)'
  <2>. SUFFICES ASSUME part = "pages" => HandedOn /\ Displayed, [NextEither]_<<part, vars, pages>>,
                       part' = "pages"
                PROVE  (HandedOn /\ Displayed)'
    OBVIOUS
  <2>1. part = "pages" /\ [Pages!Next]_pages
    BY DEF NextEither, pages
  <2>. QED  BY <2>1, HandedOnStep, DisplayedStep DEF HandedOn
<1>. QED  BY <1>1, <1>2, PTL DEF Either

\* The link of an invitation is handed on from page to page and through the mail, and
\* who signs in finds its form.
THEOREM LinksArrive == Either => InvitedArrives
<1>1. /\ part = "pages" => HandedOn /\ Displayed
      /\ [NextEither]_<<part, vars, pages>>
      => [part = "pages" => Pages!FindsTheForm]_pages
  BY HandedOnStep DEF NextEither
<1>. QED  BY <1>1, ArrivalInvariance, PTL DEF Either, InvitedArrives

\* Whoever joins joins what was on display, however late which lookup was answered.
THEOREM JoinersSaw == Either => []JoinsWhatWasShown
<1>1. (part = "pages" => HandedOn /\ Displayed) => JoinsWhatWasShown
  BY DEF Displayed, JoinsWhatWasShown, Pages!JoinsWhatWasShown
<1>. QED  BY <1>1, ArrivalInvariance, PTL
===============================================================================
