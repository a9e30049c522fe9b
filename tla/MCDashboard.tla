---------------------------- MODULE MCDashboard ----------------------------
(* Two profiles of one organization and one of another, three requests, two *)
(* submissions under way at a time.  Or the lists that the pages show of    *)
(* two organizations, and a change made on one of them.  The organizations of *)
(* the lists are named like the submissions.                                *)
EXTENDS VaultAndLists, TLC

CONSTANTS p1, p2, q1, o1, o2, n1, n2

Belongs == p1 :> o1 @@ p2 :> o1 @@ q1 :> o2
Alike == Permutations({n1, n2})

\* Two pages are one to the list that is followed when both show it, or neither does, and
\* the same of their changes are about it.
View ==
  IF part = "vault" THEN vars
  ELSE <<kind, Lists!Shown(page), {c \in Lists!Pages[page].does : kind \in Lists!Changes[c].changes},
         change.of, change.org, change.phase, change.page = page, shownOrg,
         IF kind \in Lists!Details THEN thing ELSE None, count, cache, fetch, owed, left>>
============================================================================
