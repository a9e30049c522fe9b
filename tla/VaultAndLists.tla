---------------------------- MODULE VaultAndLists ----------------------------
(***************************************************************************)
(* The keys of a tab of the dashboard (WebVault), or the lists that its    *)
(* pages show (DashboardCache).  The two have no variable in common.       *)
(***************************************************************************)
EXTENDS WebVault

CONSTANTS ListOrgs, MaxChanges, Followed   \* DashboardCache's

VARIABLES
  part,                                    \* which of the two the behaviour is of
  kind, page, shownOrg, thing, count, cache, fetch, change, owed, left

lists == <<kind, page, shownOrg, thing, count, cache, fetch, change, owed, left>>

Lists == INSTANCE DashboardCache WITH Orgs <- ListOrgs, org <- shownOrg
ASSUME ListConstants == Lists!CacheConstants

ListsRest ==
  /\ kind = None /\ page = None /\ shownOrg = None /\ thing = None /\ count = None
  /\ cache = None /\ fetch = None /\ change = None /\ owed = None /\ left = None

InitEither ==
  \/ part = "vault" /\ Init /\ ListsRest
  \/ part = "lists" /\ Lists!Init /\ Init
NextEither ==
  \/ part = "vault" /\ Next /\ UNCHANGED <<part, lists>>
  \/ part = "lists" /\ Lists!Next /\ UNCHANGED <<part, vars>>
Either == InitEither /\ [][NextEither]_<<part, vars, lists>>

\* What the last change on a page has made is shown, or is being read (DashboardCache).
OwnWritesShown == part = "lists" => Lists!OwnWritesShown

\* Rows of another organization came while the user left it (DashboardCache).
ForeignRowsAreLate == part = "lists" => Lists!ForeignRowsAreLate
==============================================================================
