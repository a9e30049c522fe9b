------------------------ MODULE MCAgentCredentials ------------------------
(* Two tokens and two enrollments compete for an agent's key, two exchanges  *)
(* for its challenges.  Or two calls of a client with the lifetime, the      *)
(* margin and the retry schedule of the code in units of 30 seconds, mounts  *)
(* and the sweep in units of 5 minutes.  Or two accounts and two addresses:  *)
(* two codes are mailed and two completions race, for one account or for one *)
(* address.                                                                  *)
EXTENDS AgentsAndAccounts, TLC

Schedule == <<1, 2, 4, 8, 10>>

\* Bounds: what a call of an application does makes no difference to the client,
\* and a wrong guess at a code is the code of another claim.
Scenario ==
  /\ part = "client" /\ host = "app" => op = [c \in Calls |-> "use"]
  /\ part = "account" => \A x \in Completes : asked[x].code # NoCode

View == CASE part = "credentials" -> vars [] part = "client" -> client [] OTHER -> accounts

\* The model values of exchanges also stand for calls of a client, and those of
\* keys, tokens, enrollments and challenges for accounts, claims, completions and
\* addresses: they never meet.
Interchangeable ==
  Permutations(Agents) \cup Permutations(Keys) \cup Permutations(Tokens)
    \cup Permutations(Challenges) \cup Permutations(Enrolls) \cup Permutations(Exchanges)
=============================================================================
