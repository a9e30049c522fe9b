-------------------------------- MODULE NewOrg --------------------------------
(***************************************************************************)
(* Making an organization: the form that checks the slug while it is       *)
(* typed, the one-click personal account beside it, and the server, which  *)
(* looks the slug up, seeds the organization with its owner and a default  *)
(* profile in one transaction, and has only the unique index on the slug   *)
(* to stop the loser of a race.                                            *)
(*                                                                         *)
(* A tab may have a submission of the form and one of the personal account *)
(* under way at once: "Back" is not disabled while the form is submitting. *)
(***************************************************************************)

CONSTANTS
  Tabs,     \* each of a person of their own
  Slugs,    \* what may be typed, two characters or more; a name without any gives None
  Ids,      \* the organizations that can come to be
  Lookups,  \* the checks of slugs that a tab may have in flight at once
  None

Org == [slug : Slugs \cup Ids, owner : Tabs, profile : BOOLEAN, logo : BOOLEAN]

NewOrgConstants == None \notin Ids \cup Slugs \cup Org

VARIABLES
  org,      \* the organizations: None, or slug, owner, profile and logo
  mode,     \* what the tab shows: choose, create (the form) or left
  slug,     \* the slug in the form
  status,   \* the form's verdict on it: idle, checking, available or taken
  timer,    \* the check that waits for the typing to pause
  checks,   \* the checks in flight, with the answer once it is given
  job,      \* the two kinds of submission, each in which phase, with which result
  active    \* the organization the tab is on

tab == <<mode, slug, status, timer, checks, active>>
vars == <<org, job, tab>>

Kinds == {"create", "personal"}
Phases == {"idle", "sent", "free", "made", "logo", "dressed", "failed"}
Job(phase, name, o) == [phase |-> phase, slug |-> name, org |-> o]
NoJob == Job("idle", None, None)

Init ==
  /\ org = [o \in Ids |-> None]
  /\ mode = [t \in Tabs |-> "choose"]
  /\ slug = [t \in Tabs |-> None]
  /\ status = [t \in Tabs |-> "idle"]
  /\ timer = [t \in Tabs |-> FALSE]
  /\ checks = [t \in Tabs |-> [c \in Lookups |-> None]]
  /\ job = [t \in Tabs |-> [k \in Kinds |-> NoJob]]
  /\ active = [t \in Tabs |-> None]

TypeOK ==
  /\ org \in [Ids -> Org \cup {None}]
  /\ mode \in [Tabs -> {"choose", "create", "left"}]
  /\ slug \in [Tabs -> Slugs \cup {None}]
  /\ status \in [Tabs -> {"idle", "checking", "available", "taken"}]
  /\ timer \in [Tabs -> BOOLEAN]
  /\ active \in [Tabs -> Ids \cup {None}]
  /\ job \in [Tabs -> [Kinds -> [phase : Phases, slug : Slugs \cup {None}, org : Ids \cup {None}]]]

Exists(o) == org[o] # None
Has(s) == \E o \in Ids : Exists(o) /\ org[o].slug = s
Loading(t, k) == job[t][k].phase # "idle"

\* The submission comes to a phase; or is of an organization by now.
Becomes(t, k, j) == job' = [job EXCEPT ![t] = [@ EXCEPT ![k] = j]]
Goes(t, k, phase) == Becomes(t, k, Job(phase, job[t][k].slug, job[t][k].org))
Made(t, k, o) == Becomes(t, k, Job("made", job[t][k].slug, o))

-----------------------------------------------------------------------------
\* The form.

\* The form, with what it knows, is gone; what it has under way is not.
Unmounts(t) ==
  /\ slug' = [slug EXCEPT ![t] = None]
  /\ status' = [status EXCEPT ![t] = "idle"]
  /\ timer' = [timer EXCEPT ![t] = FALSE]
  /\ checks' = [checks EXCEPT ![t] = [c \in Lookups |-> None]]

\* The form is mounted, from /onboarding or from the organization switcher.
OpenForm(t) ==
  /\ mode[t] # "create"
  /\ mode[t] = "choose" => ~Loading(t, "personal")
  /\ mode' = [mode EXCEPT ![t] = "create"]
  /\ UNCHANGED <<org, job, slug, status, timer, checks, active>>

\* "Back".
Back(t) ==
  /\ mode[t] = "create"
  /\ mode' = [mode EXCEPT ![t] = "choose"]
  /\ Unmounts(t)
  /\ UNCHANGED <<org, job, active>>

\* The slug changes: the timer of the one before is cleared, its request is not.
Type(t, s) ==
  /\ mode[t] = "create" /\ s # slug[t]
  /\ slug' = [slug EXCEPT ![t] = s]
  /\ status' = [status EXCEPT ![t] = IF s = None THEN "idle" ELSE "checking"]
  /\ timer' = [timer EXCEPT ![t] = s # None]
  /\ UNCHANGED <<org, job, mode, checks, active>>

\* 400 ms without a change.
Check(t) ==
  /\ timer[t]
  /\ \E c \in Lookups :
       /\ checks[t][c] = None
       /\ checks' = [checks EXCEPT ![t][c] = [slug |-> slug[t], answer |-> "none"]]
  /\ timer' = [timer EXCEPT ![t] = FALSE]
  /\ UNCHANGED <<org, job, mode, slug, status, active>>

\* checkSlug: one look at the organizations.
CheckServed(t, c) ==
  /\ checks[t][c] # None /\ checks[t][c].answer = "none"
  /\ checks' = [checks EXCEPT ![t][c].answer = IF Has(checks[t][c].slug) THEN "taken" ELSE "available"]
  /\ UNCHANGED <<org, job, mode, slug, status, timer, active>>

\* The verdict is the answer's, whatever slug is in the form by now; a failure
\* leaves no verdict.
CheckArrives(t, c) ==
  /\ checks[t][c] # None
  /\ \/ /\ checks[t][c].answer # "none"
        /\ status' = [status EXCEPT ![t] = checks[t][c].answer]
     \/ status' = [status EXCEPT ![t] = "idle"]
  /\ checks' = [checks EXCEPT ![t][c] = None]
  /\ UNCHANGED <<org, job, mode, slug, timer, active>>

\* handleSubmit.
Submit(t) ==
  /\ mode[t] = "create" /\ ~Loading(t, "create")
  /\ status[t] \notin {"taken", "checking"}
  /\ Becomes(t, "create", Job("sent", slug[t], None))
  /\ UNCHANGED <<org, mode, slug, status, timer, checks, active>>

\* handleCreatePersonal: the choice is offered while none of it is under way.
SubmitPersonal(t) ==
  /\ mode[t] = "choose" /\ ~Loading(t, "personal")
  /\ Becomes(t, "personal", Job("free", None, None))
  /\ UNCHANGED <<org, mode, slug, status, timer, checks, active>>

-----------------------------------------------------------------------------
\* The server.

\* createOrg looks the slug up; one it generates itself is nobody's.
LookUp(t) ==
  /\ job[t]["create"].phase = "sent"
  /\ Goes(t, "create",
          IF job[t]["create"].slug # None /\ Has(job[t]["create"].slug) THEN "failed" ELSE "free")
  /\ UNCHANGED <<org, tab>>

\* A slug of the server's making is as good as the organization's id.
SlugFor(t, k, o) == IF job[t][k].slug = None THEN o ELSE job[t][k].slug

Seeded(t, k, o) ==
  [slug |-> SlugFor(t, k, o), owner |-> t, profile |-> TRUE,
   logo |-> k = "create" /\ job[t][k].slug # None]

\* Mutant: the loser of the race is given the organization that has the slug.
SeedOrAdopt(t, k) ==
  /\ job[t][k].phase = "free"
  /\ \/ \E o \in Ids :
          /\ ~Exists(o) /\ ~Has(SlugFor(t, k, o))
          /\ org' = [org EXCEPT ![o] = Seeded(t, k, o)]
          /\ Made(t, k, o)
     \/ \E o \in Ids :
          /\ Exists(o) /\ org[o].slug = job[t][k].slug
          /\ Made(t, k, o)
          /\ UNCHANGED org
  /\ UNCHANGED tab

\* seedOrgWithOwnerProfile: the organization, its owner and its profile are
\* inserted together, or none is: the slug may be taken by now, or the database fail.
Seed(t, k) ==
  /\ job[t][k].phase = "free"
  /\ \/ \E o \in Ids :
          /\ ~Exists(o) /\ ~Has(SlugFor(t, k, o))
          /\ org' = [org EXCEPT ![o] = Seeded(t, k, o)]
          /\ Made(t, k, o)
     \/ /\ Goes(t, k, "failed")
        /\ UNCHANGED org
  /\ UNCHANGED tab

\* organizations.update, that the form calls for an organization without a logo.
Dress(t) ==
  /\ job[t]["create"].phase = "logo"
  /\ \/ /\ org' = [org EXCEPT ![job[t]["create"].org] = [@ EXCEPT !.logo = TRUE]]
        /\ Goes(t, "create", "dressed")
     \/ /\ Goes(t, "create", "failed")
        /\ UNCHANGED org
  /\ UNCHANGED tab

-----------------------------------------------------------------------------
\* The answers.

\* The organization is made the active one, and the tab moves to the dashboard.
Enter(t, k) ==
  /\ active' = [active EXCEPT ![t] = job[t][k].org]
  /\ Becomes(t, k, NoJob)
  /\ mode' = [mode EXCEPT ![t] = "left"]
  /\ Unmounts(t)
  /\ UNCHANGED org

Arrives(t, k) ==
  \/ /\ job[t][k].phase = "made" /\ (k = "create" => org[job[t][k].org].logo)
     /\ Enter(t, k)
  \/ /\ job[t][k].phase = "dressed"
     /\ Enter(t, k)
  \/ /\ job[t][k].phase = "made" /\ k = "create" /\ ~org[job[t][k].org].logo
     /\ Goes(t, k, "logo")
     /\ UNCHANGED <<org, tab>>

\* An error is shown: a refusal, a failure, or an answer that is lost.
Fails(t, k) ==
  /\ job[t][k].phase \in {"made", "dressed", "failed"}
  /\ Becomes(t, k, NoJob)
  /\ UNCHANGED <<org, mode, slug, status, timer, checks, active>>

Next ==
  \E t \in Tabs :
    \/ OpenForm(t) \/ Back(t) \/ Check(t) \/ Submit(t) \/ SubmitPersonal(t)
    \/ \E s \in Slugs \cup {None} : Type(t, s)
    \/ \E c \in Lookups : CheckServed(t, c) \/ CheckArrives(t, c)
    \/ LookUp(t) \/ Dress(t)
    \/ \E k \in Kinds : Seed(t, k) \/ Arrives(t, k) \/ Fails(t, k)

Spec == Init /\ [][Next]_vars

-----------------------------------------------------------------------------
\* The organization a tab is on after making one is its person's own and ready
\* for use, although another tab asked for the slug between the check, the look-up
\* and the insertion, and answers come in any order
\* (organizations.ts:278, "the slug-race loser's unique violation").
ActiveIsOwn ==
  \A t \in Tabs : active[t] # None =>
    Exists(active[t]) /\ org[active[t]].owner = t /\ org[active[t]].profile

\* "Slug availability is still being checked" blocks the form only while a check
\* of that slug is on its way: no order of typing, late answers and failures
\* leaves it blocked (create-org-form.tsx:145).
NeverStuckChecking ==
  \A t \in Tabs : mode[t] = "create" /\ status[t] = "checking" =>
    timer[t] \/ \E c \in Lookups : checks[t][c] # None /\ checks[t][c].slug = slug[t]

\* Once no check is on its way, a slug that is called taken is taken ("This slug is
\* already taken", create-org-form.tsx:142).  Refuted: the request of an earlier
\* slug is not cancelled, its answer may come last, and no organization goes away.
TakenIsTaken ==
  \A t \in Tabs :
    /\ mode[t] = "create" /\ status[t] = "taken"
    /\ ~timer[t] /\ \A c \in Lookups : checks[t][c] = None
    => slug[t] # None /\ Has(slug[t])

=============================================================================
