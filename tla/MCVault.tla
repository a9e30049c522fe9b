------------------------------ MODULE MCVault ------------------------------
(* Two admins' clients, one zero-knowledge profile and one item; or a      *)
(* profile that the server encrypts, an item and two grants of old, and    *)
(* four requests.                                                          *)
EXTENDS VaultAndStorage, TLC

CONSTANTS c1, c2, p1, i1, r1, r2, r3, r4

\* Items created and updated together; and every three operations together with one that
\* creates or deletes a profile.
Mixed ==
  {[r \in Calls |-> IF r = r4 THEN {"deleteProfile"} ELSE {"create", "update"}],
   [r \in Calls |->
      IF r = r4 THEN {"createProfile"}
      ELSE {"create", "update", "deleteItem", "createProfile", "deleteProfile", "grant", "backfill"}]}

Alike == Permutations({r1, r2, r3}) \cup Permutations({c1, c2})

BudgetCoversEncryptions == part = "storage" => SP!BudgetCoversEncryptions
NoBlindUpdate == [][part = "storage" => SP!SeenOrCrossed]_storage
=============================================================================
