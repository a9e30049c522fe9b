------------------------------- MODULE MCLive -------------------------------
(* What must happen at last: two calls of an agent client (the lifetime, the   *)
(* margin and the retry schedule of the code in units of 30 seconds; mounts    *)
(* and the sweep in units of 5 minutes), and the tab of a dashboard with two   *)
(* users and three organizations.  A behaviour is about one part; the other    *)
(* rests in a state where it owes nothing.                                     *)
EXTENDS AgentClient, TLC

CONSTANTS c1, c2, u1, u2, o1, o2, o3

Schedule == <<1, 2, 4, 8, 10>>

VARIABLES part, user, live, seats, activeOrg, route, list, fetch, probe, job, leaving, made

Tab == INSTANCE DashboardShell
  WITH active <- activeOrg, Users <- {u1, u2}, Orgs <- {o1, o2, o3}, Bare <- {o1},
       Joined <- u1 :> <<o1>> @@ u2 :> <<o2>>

tab == <<user, live, seats, activeOrg, route, list, fetch, probe, job, leaving, made>>
all == <<part, vars, tab>>

\* What a call of an application does makes no difference to the client.
ClientInit == Init /\ (host = "app" => op = [c \in Calls |-> "use"])
ClientRest == ClientInit /\ host = "app"

TabRest ==
  /\ user = None /\ live = FALSE /\ seats = (u1 :> <<o1>> @@ u2 :> <<o2>>) /\ activeOrg = None
  /\ route = "login" /\ list = Tab!NoList /\ fetch = Tab!Idle /\ probe = Tab!Idle
  /\ job = Tab!NoJob /\ leaving = FALSE /\ made = None

MCInit ==
  \/ part = "client" /\ ClientInit /\ TabRest
  \/ part = "tab" /\ ClientRest /\ Tab!Init

MCNext ==
  \/ part = "client" /\ Next /\ UNCHANGED <<part, tab>>
  \/ part = "tab" /\ Tab!Next /\ UNCHANGED <<part, vars>>

MCSpec == MCInit /\ [][MCNext]_all /\ Fairness /\ Tab!Fairness

GateSettles == Tab!GateSettles
=============================================================================
