--------------------------- MODULE DashboardShell ---------------------------
(***************************************************************************)
(* Which page, and which organization, one tab of the dashboard is on: the *)
(* gate of the layout, the triage of /onboarding, the organization that    *)
(* the store persists, and the cached list of the user's organizations,    *)
(* that the gate decides on.                                               *)
(*                                                                         *)
(* An action is one event of the tab or one step of the server.  React     *)
(* renders, and runs the effects of the gate, before the next event.       *)
(***************************************************************************)
EXTENDS Sequences, SequencesExt

CONSTANTS
  Users, Orgs,
  Joined,   \* the organizations each user starts with, oldest membership first
  Bare,     \* organizations whose profiles were all deleted
  None      \* no user, no organization, no rows

VARIABLES
  user,     \* whose session the tab believes it has (useSession)
  live,     \* the server still honours that session
  seats,    \* each user's organizations on the server, oldest membership first
  active,   \* activeOrgId, as persisted
  route,    \* login, onboarding or dashboard
  list,     \* the cached organizations.list: its rows, stale or not, failed or not
  fetch,    \* the request for it: in which phase, with which rows
  probe,    \* the request that /onboarding makes on its own
  job,      \* an organization being created, joined, renamed or deleted
  leaving,  \* a sign-out is under way
  made      \* history: the organization just created or joined, until the user moves on

vars == <<user, live, seats, active, route, list, fetch, probe, job, leaving, made>>

Routes == {"login", "onboarding", "dashboard"}
Rows == SeqOf(Orgs, Len(Joined[CHOOSE u \in Users : TRUE]) + 2)

NoList == [rows |-> None, stale |-> FALSE, failed |-> FALSE]
Idle == [phase |-> "idle", rows |-> None]
Sent == [phase |-> "sent", rows |-> None]
NoJob == [kind |-> "none", org |-> None, phase |-> "idle", dialog |-> FALSE]

Init ==
  /\ user \in Users /\ live = TRUE
  /\ seats = Joined
  /\ active \in Orgs \cup {None}
  /\ route = "dashboard"
  /\ list = NoList /\ fetch = Sent
  /\ probe = Idle
  /\ job = NoJob
  /\ leaving = FALSE
  /\ made = None

-----------------------------------------------------------------------------
\* The gate, from what the tab knows.

Succeeded == list.rows # None /\ ~list.failed
Known(o) == o \in ToSet(list.rows)

\* Mutant: an organization without a profile is sent to onboarding, as once it was.
GateWantsProfile ==
  CASE user = None -> "login"
    [] user # None /\ ~Succeeded -> "wait"
    [] user # None /\ Succeeded /\ ToSet(list.rows) \subseteq Bare -> "onboarding"
    [] user # None /\ Succeeded /\ ~(ToSet(list.rows) \subseteq Bare) ->
         IF active # None /\ Known(active) THEN "ready" ELSE "adopt"

\* decideLayoutAction.
GateDecision ==
  CASE user = None -> "login"
    [] user # None /\ ~Succeeded -> "wait"
    [] user # None /\ Succeeded /\ list.rows = <<>> -> "onboarding"
    [] user # None /\ Succeeded /\ list.rows # <<>> ->
         IF active # None /\ Known(active) THEN "ready" ELSE "adopt"

Rendered == route = "dashboard" => GateDecision \in {"wait", "ready"}

\* What a page that comes on does with the list: fetched when it is not there or stale.
Mounted(l, f) ==
  IF user # None /\ (l.rows = None \/ l.stale) /\ f.phase = "idle" THEN Sent ELSE f

Goes(to) ==
  /\ route' = to
  /\ probe' = IF to = "onboarding" THEN Sent ELSE Idle

GateRedirects ==
  /\ route = "dashboard" /\ GateDecision \in {"login", "onboarding"}
  /\ Goes(GateDecision)
  /\ UNCHANGED <<user, live, seats, active, list, fetch, job, leaving, made>>

\* The stored organization is none of the list: the first of the list is taken up.
GateAdopts ==
  /\ route = "dashboard" /\ GateDecision = "adopt"
  /\ active' = Head(list.rows)
  /\ UNCHANGED <<user, live, seats, route, list, fetch, probe, job, leaving, made>>

-----------------------------------------------------------------------------
\* organizations.list.

\* The server reads the memberships; without a session it refuses.
ListServed ==
  /\ fetch.phase = "sent"
  /\ fetch' = [phase |-> "served", rows |-> IF live THEN seats[user] ELSE None]
  /\ UNCHANGED <<user, live, seats, active, route, list, probe, job, leaving, made>>

\* finishDeleted awaits the list that it invalidated, and then leaves for /onboarding.
AfterList == job.phase = "relisting"

ListArrives ==
  /\ Rendered /\ fetch.phase = "served"
  /\ list' = IF fetch.rows = None
               THEN [list EXCEPT !.failed = TRUE]
               ELSE [rows |-> fetch.rows, stale |-> FALSE, failed |-> FALSE]
  /\ fetch' = Idle
  /\ IF AfterList THEN Goes("onboarding") /\ job' = NoJob
                  ELSE UNCHANGED <<route, probe, job>>
  /\ UNCHANGED <<user, live, seats, active, leaving, made>>

\* The network fails it.
ListLost ==
  /\ Rendered /\ fetch.phase # "idle"
  /\ list' = [list EXCEPT !.failed = TRUE]
  /\ fetch' = Idle
  /\ IF AfterList THEN Goes("onboarding") /\ job' = NoJob
                  ELSE UNCHANGED <<route, probe, job>>
  /\ UNCHANGED <<user, live, seats, active, leaving, made>>

\* The card "We couldn't load your organizations" offers to try again.
Retry ==
  /\ Rendered /\ route = "dashboard" /\ list.failed /\ fetch.phase = "idle" /\ user # None
  /\ fetch' = Sent
  /\ UNCHANGED <<user, live, seats, active, route, list, probe, job, leaving, made>>

\* A minute after it arrived the list is stale; nothing is fetched until a page comes on.
ListAges ==
  /\ list.rows # None /\ ~list.stale
  /\ list' = [list EXCEPT !.stale = TRUE]
  /\ UNCHANGED <<user, live, seats, active, route, fetch, probe, job, leaving, made>>

\* invalidateQueries: stale, and fetched anew where it is shown.  A first load that is
\* under way is not sent again.
Invalidated(shown) ==
  /\ list' = [list EXCEPT !.stale = list.rows # None]
  /\ fetch' = IF shown /\ user # None /\ ~(list.rows = None /\ fetch.phase # "idle")
                THEN Sent ELSE fetch

-----------------------------------------------------------------------------
\* /onboarding: on every visit the organizations are asked for, past the cache.

ProbeServed ==
  /\ probe.phase = "sent"
  /\ probe' = [phase |-> "served", rows |-> IF live THEN seats[user] ELSE None]
  /\ UNCHANGED <<user, live, seats, active, route, list, fetch, job, leaving, made>>

\* decideResumeAction: any organization at all leads to the dashboard.
ResumesDashboard(rows) == rows # None /\ rows # <<>>

ProbeArrives ==
  /\ probe.phase = "served"
  /\ IF ResumesDashboard(probe.rows)
       THEN /\ Goes("dashboard")
            /\ fetch' = Mounted(list, fetch)
       ELSE /\ probe' = [phase |-> "open", rows |-> None]
            /\ UNCHANGED <<route, fetch>>
  /\ UNCHANGED <<user, live, seats, active, list, job, leaving, made>>

-----------------------------------------------------------------------------
\* Organizations: the switcher and its dialogs, the forms of /onboarding, the settings.

AtRest == Rendered /\ ~leaving /\ job = NoJob /\ user # None

Ready == route = "dashboard" /\ GateDecision = "ready"
Choosing == route = "onboarding" /\ probe.phase = "open"

\* handleSelect of the switcher.
Switch(o) ==
  /\ AtRest /\ Ready /\ Known(o) /\ o # active
  /\ active' = o /\ made' = None
  /\ UNCHANGED <<user, live, seats, route, list, fetch, probe, job, leaving>>

Begins(kind, o) ==
  /\ AtRest
  /\ job' = [kind |-> kind, org |-> o, phase |-> "sent", dialog |-> route = "dashboard"]
  /\ UNCHANGED <<user, live, seats, active, route, list, fetch, probe, leaving, made>>

\* A new organization, a personal account, or an invitation to one of somebody else's.
Create(o) == (Ready \/ Choosing) /\ (\A u \in Users : o \notin ToSet(seats[u])) /\ Begins("create", o)
Join(o) ==
  /\ Ready \/ Choosing
  /\ \E u \in Users : o \in ToSet(seats[u])
  /\ o \notin ToSet(seats[user]) /\ Begins("join", o)
Rename(o) == Ready /\ o = active /\ Begins("rename", o)
Delete(o) == Ready /\ o = active /\ Begins("delete", o)

JobServed ==
  /\ job.phase = "sent"
  /\ job' = [job EXCEPT !.phase = "served"]
  /\ seats' = CASE job.kind \in {"create", "join"} ->
                     [seats EXCEPT ![user] = Append(@, job.org)]
                [] job.kind = "delete" -> [u \in Users |-> Remove(seats[u], job.org)]
                [] OTHER -> seats
  /\ UNCHANGED <<user, live, active, route, list, fetch, probe, leaving, made>>

\* The form sets the active organization, then invalidates the list.
Entered(o) == active' = o /\ made' = o

\* From the dialog the user stays where he is; the page /onboarding goes on to the dashboard.
JobEnters ==
  /\ Rendered /\ job.phase = "served" /\ job.kind \in {"create", "join"}
  /\ Entered(job.org)
  /\ job' = NoJob
  /\ IF job.dialog
       THEN Invalidated(route = "dashboard") /\ UNCHANGED <<route, probe>>
       ELSE /\ Goes("dashboard")
            /\ Invalidated(TRUE)
  /\ UNCHANGED <<user, live, seats, leaving>>

\* A rename stores what the settings were rendered for: the organization of its request if
\* the settings have been left, else the active one.
JobRenames ==
  /\ Rendered /\ job.phase = "served" /\ job.kind = "rename"
  /\ active' \in {active, job.org}
  /\ job' = NoJob
  /\ Invalidated(route = "dashboard")
  /\ UNCHANGED <<user, live, seats, route, probe, leaving, made>>

JobDeletes ==
  /\ Rendered /\ job.phase = "served" /\ job.kind = "delete"
  /\ Invalidated(TRUE)
  /\ job' = [job EXCEPT !.phase = "relisting"]
  /\ made' = None
  /\ UNCHANGED <<user, live, seats, active, route, probe, leaving>>

JobFails ==
  /\ Rendered /\ job.phase = "sent"
  /\ job' = NoJob
  /\ UNCHANGED <<user, live, seats, active, route, list, fetch, probe, leaving, made>>

-----------------------------------------------------------------------------
\* Signing out and in.

\* handleSignOut clears the store and the cache first.  The list, which the shell still
\* shows for a session that lives, is asked for again.
SignOut ==
  /\ AtRest /\ route = "dashboard"
  /\ leaving' = TRUE
  /\ active' = None /\ made' = None
  /\ list' = NoList /\ fetch' = Sent
  /\ UNCHANGED <<user, live, seats, route, probe, job>>

SignOutServed ==
  /\ leaving /\ live
  /\ live' = FALSE
  /\ UNCHANGED <<user, seats, active, route, list, fetch, probe, job, leaving, made>>

SignOutArrives ==
  /\ Rendered /\ leaving /\ ~live
  /\ leaving' = FALSE /\ user' = None
  /\ Goes("login")
  /\ UNCHANGED <<live, seats, active, list, fetch, job, made>>

\* With a password: the tab goes on with the cache it has.
SignIn(u) ==
  /\ route = "login" /\ user = None /\ fetch.phase = "idle"
  /\ user' = u /\ live' = TRUE
  /\ Goes("dashboard")
  /\ fetch' = IF list.rows = None \/ list.stale THEN Sent ELSE fetch
  /\ UNCHANGED <<seats, active, list, job, leaving, made>>

-----------------------------------------------------------------------------
\* What happens of itself: effects of a render, the server, the network.
Effects == GateRedirects \/ GateAdopts
Answers ==
  \/ ListServed \/ ListArrives \/ ProbeServed \/ ProbeArrives
  \/ JobServed \/ JobEnters \/ JobRenames \/ JobDeletes
  \/ SignOutServed \/ SignOutArrives

Next ==
  \/ Effects \/ Answers
  \/ ListLost \/ Retry \/ ListAges \/ JobFails \/ SignOut
  \/ \E o \in Orgs : Switch(o) \/ Create(o) \/ Join(o) \/ Rename(o) \/ Delete(o)
  \/ \E u \in Users : SignIn(u)

\* React runs its effects, the server and the event loop get to every answer, to that of the
\* list however often a redirect comes first, and the minute of a cached list passes; what
\* the user does is under no obligation.
Fairness ==
  /\ WF_vars(Effects)
  /\ WF_vars(ListServed) /\ SF_vars(ListArrives) /\ WF_vars(ListAges)
  /\ WF_vars(ProbeServed) /\ WF_vars(ProbeArrives)
  /\ WF_vars(JobServed) /\ WF_vars(JobEnters \/ JobRenames \/ JobDeletes)
  /\ WF_vars(SignOutServed) /\ WF_vars(SignOutArrives)

Spec == Init /\ [][Next]_vars /\ Fairness

-----------------------------------------------------------------------------
TypeOK ==
  /\ user \in Users \cup {None} /\ {live, leaving} \subseteq BOOLEAN
  /\ seats \in [Users -> Rows]
  /\ {active, made} \subseteq Orgs \cup {None}
  /\ route \in Routes
  /\ list.rows \in Rows \cup {None} /\ {list.stale, list.failed} \subseteq BOOLEAN
  /\ fetch.phase \in {"idle", "sent", "served"} /\ fetch.rows \in Rows \cup {None}
  /\ probe.phase \in {"idle", "sent", "served", "open"}
  /\ job.phase \in {"idle", "sent", "served", "relisting"}

\* Where the user can see, and do, something: signed out, on a page, before a card that
\* says what failed, or at the choice of /onboarding.
Settled ==
  \/ route = "login" \/ Choosing \/ Ready
  \/ route = "dashboard" /\ user # None /\ list.failed

\* The dashboard and /onboarding never send the user to each other for ever, and neither
\* stays at its loader, though one decides on a cache and the other past it.
GateSettles == []<>Settled

\* The gate opens on no organization that this tab has deleted, not even while the list
\* that still has it could not be fetched again.
NotInDeleted ==
  Ready /\ job = NoJob /\ fetch.phase = "idle" => \E u \in Users : active \in ToSet(seats[u])

\* Who has created or joined an organization is in it, until he moves on himself (refuted:
\* the gate does not find it in the list of before, and takes up the first one).
LandsInNewOrg == Ready /\ job = NoJob /\ fetch.phase = "idle" /\ made # None => active = made

\* Who signs in finds nothing of the user before (refuted: the list can be fetched again
\* between the clearing and the end of the session).
NothingInherited ==
  [][user = None /\ user' # None =>
       /\ list'.rows # None => ToSet(list'.rows) \subseteq ToSet(seats[user'])
       /\ active' # None => active' \in ToSet(seats[user'])]_vars
=============================================================================
