------------------------------ MODULE MCAccess ------------------------------
(* One request against an item or the profile, or a handle and two redeems *)
(* of it: no other handler writes a row that another request reads.        *)
EXTENDS AgentAccess, TLC

CONSTANTS i1, i2, i3, r1, r2, r3

EndpointsOf == [r \in Requests |-> IF r = r1 THEN AllEndpoints \ {"redeem"} ELSE {"read", "redeem"}]

Inserted == {g \in Grants : grant[g] # "none"}

\* One request, whose handles nobody redeems.  That of a single item meets its
\* permissions and the profile's, a legacy one only those of its action; that of
\* the whole profile, where i1 and i2 are alike, finds i1 granted before i2, and
\* i2 is not deleted.
OneRequest ==
  /\ \A r \in Requests \ {r1} : stage[r] = "unsent" /\ call[r].item = i1 /\ ~call[r].badField
  /\ \A h \in Handles : mount[h] # "expired"
  /\ call[r1].endpoint \in SingleItem =>
       /\ call[r1].item # i2 /\ Items \ {call[r1].item} \subseteq live
       /\ \A g \in Inserted :
            /\ g[2] \in {call[r1].item, Profile}
            /\ call[r1].endpoint \notin Canonical => g[3] = ActionOf(call[r1])
  /\ call[r1].endpoint \notin SingleItem =>
       /\ i2 \in live
       /\ \A g \in Inserted : g[3] = "use"
       /\ \A g \in Inserted : g[2] = i2 => \E k \in Inserted : k[2] = i1

\* One request mints, the others present the handle of i1.
MintAndRedeem ==
  /\ \A r \in Requests \ {r1} : call[r].handle = <<r1, i1>>
  /\ call[r1].endpoint = "use" => call[r1].item = i1
  /\ {i2, i3} \subseteq live
  /\ \A g \in Inserted : g[2] = i1 /\ g[3] = "use"

Scenario == OneRequest \/ MintAndRedeem

Redeemers == Permutations(Requests \ {r1})
=============================================================================
