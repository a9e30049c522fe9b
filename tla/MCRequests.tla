------------------------------ MODULE MCRequests ------------------------------
(* A person with two keys and two requests; or two addresses and an account,  *)
(* a call a window and ticks of half a second; or two tabs and two slugs.  The *)
(* tabs are named like the addresses, what they make like the organizations.   *)
EXTENDS RequestsAndTabs, TLC

CONSTANTS u1, o1, o2, k1, k2, r1, r2, a1, a2, s1, s2, l1, l2

AskedOf ==
  [r \in Requests |-> IF r = r1 THEN Procedures \X {"cookie", "token", "key"} ELSE {<<"list", "key">>}]

\* One request, while everything around it changes.
OneRequest ==
  /\ stage[r2] = "unsent"
  /\ stage[r1] # "unsent" /\ request[r1].cred[1] # "cookie" => cached[u1] = 0
  /\ stage[r1] # "unsent" /\ request[r1].cred[1] = "key" => ended[u1] = Live

\* Two requests with keys; nothing else changes.
TwoKeys ==
  /\ cached[u1] = 0 /\ ended[u1] = Live /\ member = {<<u1, o1>>}
  /\ \A r \in Requests : stage[r] = "unsent" \/ (request[r].cred[1] = "key" /\ request[r].proc = "list")

\* Calls, or strangers' tokens.
CallsOrProbes ==
  \/ bucket = [b \in RL!Buckets |-> [count |-> 0, resetAt |-> 0]]
  \/ seen = [a \in Addresses |-> 0]

\* One tab does whatever it likes while the other waits at the start, or has an
\* organization; or both want the slug s1, and do one thing at a time.
Still(t) == mode[t] \in {"choose", "left"} /\ job[t] = [k \in NO!Kinds |-> NO!NoJob]
Racing(t) ==
  /\ slug[t] \in {s1, None} /\ job[t]["personal"] = NO!NoJob
  /\ checks[t][l2] = None /\ (timer[t] => checks[t][l1] = None)
TwoTabs ==
  /\ (\E t \in Tabs : Still(t)) \/ (\A t \in Tabs : Racing(t))
  /\ \A t \in Tabs : active[t] # None => mode[t] = "left"

Scenario ==
  CASE part = "requests" -> OneRequest \/ TwoKeys
    [] part = "limits" -> CallsOrProbes
    [] part = "tabs" -> TwoTabs

Alike == Permutations(Orgs) \cup Permutations({a1, a2})

RetryAfterIsHonest == part = "limits" => RL!RetryAfterIsHonest
NeverStuckChecking == part = "tabs" => NO!NeverStuckChecking
===============================================================================
