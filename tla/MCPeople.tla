------------------------------ MODULE MCPeople ------------------------------
(* Three users and three requests: an invitation that is accepted, revoked  *)
(* and accepted again; changes of roles and removals; and a removal that    *)
(* meets what the member is creating.  Or a person with two invitations at  *)
(* the pages that lead to them.                                             *)
EXTENDS PeopleAndPages, TLC

CONSTANTS u1, u2, u3, r1, r2, r3, t1, t2

Staffing ==
  {[u \in Users |-> IF u = u1 THEN "owner" ELSE IF u = u2 THEN "admin" ELSE "none"],
   [u \in Users |-> IF u = u1 THEN "owner" ELSE IF u = u2 THEN "owner" ELSE "member"]}

\* The second user's grant to the first user's agent, and the third's to its own.
Granted == {[u \in Users |-> IF u = u2 THEN u1 ELSE Nobody],
            [u \in Users |-> IF u = u3 THEN u3 ELSE Nobody]}

Mixed ==
  {[r \in Requests |-> IF r = r1 THEN {"invite"}
                       ELSE IF r = r2 THEN {"accept"} ELSE {"accept", "revokeInvite"}],
   [r \in Requests |-> IF r = r1 THEN {"remove", "setRole"} ELSE {"setRole"}],
   [r \in Requests |-> IF r = r1 THEN {"remove", "leave", "deleteOrg"}
                       ELSE IF r = r2 THEN {"createAgent", "grant"}
                       ELSE {"revokeAgent", "revokeGrant"}]}

\* Of two that set roles beside a third the one is the first user's.  Beside the pages
\* the members rest in one of their initial states.
Setting ==
  /\ stage[r3] \notin {"unsent", "refused"} /\ call[r3].op = "setRole" => call[r3].by = u1
  /\ part = "pages" => member[u2] = "admin"

\* Each invitation is to an organization of its own, named like it.
Offers == [t \in Tokens |-> [org |-> t, role |-> "member"]]
Alike == Permutations(Tokens)
=============================================================================
