------------------------------- MODULE WebVault -------------------------------
(***************************************************************************)
(* The root keys that the dashboard holds in one tab (VaultProvider), the  *)
(* dialog that asks for a profile's password, and the panels that ask for  *)
(* a key: to reveal an item, or to seal a new or an edited one.            *)
(*                                                                         *)
(* An action is one event of the tab: a click, the answer to a request, a  *)
(* timer.  React has rendered before the next one comes.  Who awaits a key *)
(* goes on, and uses it, in the event that resolves it.                    *)
(***************************************************************************)
CONSTANTS
  Profiles, Orgs,
  OrgOf,      \* the organization of each profile
  Requests,   \* calls of requestUnlock
  Rounds,     \* submissions of the password
  None        \* no organization (signed out), no request, no profile, no key

ASSUME WebVaultConstants ==
  /\ OrgOf \in [Profiles -> Orgs]
  /\ None \notin Profiles \cup Orgs \cup Requests
  /\ {"unsettled", "rejected"} \cap Profiles = {}

VARIABLES
  mounted,   \* the provider is on the page
  org,       \* useOrgStore: activeOrgId
  keys,      \* profileKeys: under each profile, whose root key
  timers,    \* profileTimers: the profiles with a timer armed
  pending,   \* pendingProfileUnlock: the request that is waited for
  target,    \* profileUnlockTarget: the profile the dialog is open for
  asked,     \* the profile each request is for, once made
  fetching,  \* requests whose profiles.get for the dialog is in flight
  submitted, \* submissions in flight: [profile, sent]: sent under which organization
  loading,   \* the dialog that is open waits for its submission
  outcome,   \* each request: unsettled, rejected, or the root key it got
  late       \* history: profiles with a submission in flight when everything was locked

vars == <<mounted, org, keys, timers, pending, target, asked, fetching, submitted, loading,
          outcome, late>>

Submission == [profile : Profiles, sent : Orgs \cup {None}]

TypeOK ==
  /\ {mounted, loading} \subseteq BOOLEAN
  /\ org \in Orgs \cup {None}
  /\ keys \in [Profiles -> Profiles \cup {None}]
  /\ timers \subseteq Profiles
  /\ pending \in Requests \cup {None}
  /\ target \in Profiles \cup {None}
  /\ asked \in [Requests -> Profiles \cup {None}]
  /\ fetching \subseteq Requests
  /\ submitted \in [Rounds -> Submission \cup {None}]
  /\ outcome \in [Requests -> {"unsettled", "rejected"} \cup Profiles]
  /\ late \subseteq Profiles

Init ==
  /\ mounted = TRUE
  /\ org \in Orgs
  /\ keys = [p \in Profiles |-> None]
  /\ timers = {}
  /\ pending = None /\ target = None
  /\ asked = [r \in Requests |-> None]
  /\ fetching = {}
  /\ submitted = [n \in Rounds |-> None]
  /\ loading = FALSE
  /\ outcome = [r \in Requests |-> "unsettled"]
  /\ late = {}

Settled(r, how) == IF r = None THEN outcome ELSE [outcome EXCEPT ![r] = how]

-----------------------------------------------------------------------------
\* requestUnlock, as called by a panel for an item or a profile of the organization.

\* A key that is held is handed out, and its timer starts anew.
RequestHeld(r, p) ==
  /\ keys[p] # None
  /\ outcome' = [outcome EXCEPT ![r] = keys[p]]
  /\ timers' = timers \cup {p}
  /\ UNCHANGED <<pending, fetching>>

\* The request that waits is rejected: superseded by a newer one.
Supersedes == Settled(pending, "rejected")

RequestPrompt(r, p) ==
  /\ keys[p] = None
  /\ outcome' = Supersedes
  /\ pending' = r
  /\ fetching' = fetching \cup {r}
  /\ UNCHANGED timers

RequestUnlock(r, p) ==
  /\ mounted /\ OrgOf[p] = org
  /\ asked[r] = None
  /\ asked' = [asked EXCEPT ![r] = p]
  /\ RequestHeld(r, p) \/ RequestPrompt(r, p)
  /\ UNCHANGED <<mounted, org, keys, target, submitted, loading, late>>

\* profiles.get answers: the dialog opens for that request's profile, whichever
\* request is pending now; or it fails, and the pending one is rejected.
DialogOpens(r) ==
  /\ r \in fetching
  /\ fetching' = fetching \ {r}
  /\ target' = IF mounted THEN asked[r] ELSE target
  /\ UNCHANGED <<mounted, org, keys, timers, pending, asked, submitted, loading, outcome, late>>

FetchFails(r) ==
  /\ r \in fetching
  /\ fetching' = fetching \ {r}
  /\ outcome' = Settled(pending, "rejected")
  /\ pending' = None
  /\ UNCHANGED <<mounted, org, keys, timers, target, asked, submitted, loading, late>>

-----------------------------------------------------------------------------
\* The dialog.

\* handleSubmit reads the profile again, under the organization of now.
Submit(n) ==
  /\ mounted /\ target # None /\ ~loading
  /\ submitted[n] = None
  /\ submitted' = [submitted EXCEPT ![n] = [profile |-> target, sent |-> org]]
  /\ loading' = TRUE
  /\ UNCHANGED <<mounted, org, keys, timers, pending, target, asked, fetching, outcome, late>>

\* Mutant: the profile that the dialog shows now.
CurrentTarget(p) == target
\* The profile that onSuccess stores the key for: the one of its own rendering.
OwnTarget(p) == p

\* setProfileKey arms the timer.
Armed(p) == timers \cup {p}

\* handleProfileUnlockSuccess: what is pending gets the key, whatever it asked for.
\* After an unmount the state is gone, but the promise can still be resolved.
UnlockSucceeds(n) ==
  /\ submitted[n] # None
  /\ OrgOf[submitted[n].profile] = submitted[n].sent
  /\ LET p == submitted[n].profile IN
     /\ IF mounted /\ OwnTarget(p) # None
          THEN keys' = [keys EXCEPT ![OwnTarget(p)] = p] /\ timers' = Armed(OwnTarget(p))
          ELSE UNCHANGED <<keys, timers>>
     /\ outcome' = Settled(pending, p)
  /\ submitted' = [submitted EXCEPT ![n] = None]
  /\ target' = None /\ pending' = None /\ loading' = FALSE
  /\ UNCHANGED <<mounted, org, asked, fetching, late>>

\* A wrong password, a profile of another organization, or no answer: the dialog,
\* if it is the one that asked, shows the error and takes another submission.
UnlockFails(n) ==
  /\ submitted[n] # None
  /\ submitted' = [submitted EXCEPT ![n] = None]
  /\ loading' \in IF loading /\ \E m \in Rounds \ {n} : submitted[m] # None
                    THEN BOOLEAN ELSE {FALSE}
  /\ UNCHANGED <<mounted, org, keys, timers, pending, target, asked, fetching, outcome, late>>

Cancel ==
  /\ mounted /\ target # None
  /\ target' = None /\ loading' = FALSE
  /\ outcome' = Settled(pending, "rejected")
  /\ pending' = None
  /\ UNCHANGED <<mounted, org, keys, timers, asked, fetching, submitted, late>>

-----------------------------------------------------------------------------
\* Locking.

LockAll ==
  /\ keys' = [p \in Profiles |-> None]
  /\ timers' = {}
  /\ outcome' = Settled(pending, "rejected")
  /\ pending' = None
  /\ target' = None /\ loading' = FALSE
  /\ late' = late \cup {submitted[n].profile : n \in {m \in Rounds : submitted[m] # None}}
  /\ UNCHANGED <<mounted, asked, fetching, submitted>>

\* The user's "Lock".
Lock ==
  /\ mounted /\ org # None /\ (\E p \in Profiles : keys[p] # None)
  /\ LockAll
  /\ UNCHANGED org

\* Before the first organization, and after a sign-out, nothing is locked.
\* (Mutant of LeavesOrg: the keys stay.)
KeepsAll == UNCHANGED <<mounted, keys, timers, pending, target, asked, fetching, submitted,
                        loading, outcome, late>>
\* The effect on activeOrgId.
LeavesOrg == LockAll

\* Another organization is chosen, adopted after a sign-in, or none is left: sign-out.
SwitchOrg(o) ==
  /\ mounted /\ o # org
  /\ org' = o
  /\ IF org = None THEN KeepsAll ELSE LeavesOrg

\* Thirty minutes after the key was last asked for.
TimerFires(p) ==
  /\ p \in timers
  /\ keys' = [keys EXCEPT ![p] = None]
  /\ timers' = timers \ {p}
  /\ UNCHANGED <<mounted, org, pending, target, asked, fetching, submitted, loading, outcome, late>>

\* The provider leaves the page: the keys are scrubbed, promises and requests stay.
Unmount ==
  /\ mounted
  /\ mounted' = FALSE
  /\ keys' = [p \in Profiles |-> None] /\ timers' = {}
  /\ target' = None /\ loading' = FALSE
  /\ UNCHANGED <<org, pending, asked, fetching, submitted, outcome, late>>

-----------------------------------------------------------------------------
Next ==
  \/ \E r \in Requests, p \in Profiles : RequestUnlock(r, p)
  \/ \E r \in Requests : DialogOpens(r) \/ FetchFails(r)
  \/ \E n \in Rounds : Submit(n) \/ UnlockSucceeds(n) \/ UnlockFails(n)
  \/ Cancel \/ Lock \/ Unmount
  \/ \E o \in Orgs \cup {None} : SwitchOrg(o)
  \/ \E p \in Profiles : TimerFires(p)

Spec == Init /\ [][Next]_vars

-----------------------------------------------------------------------------
Waiting(r) == asked[r] # None /\ outcome[r] = "unsettled"

\* No panel waits for ever: of the requests made only the pending one is unsettled, and
\* then its dialog is on the way, or a dialog is open that the user can answer.
OnlyPendingWaits ==
  mounted => \A r \in Requests : Waiting(r) => r = pending /\ (r \in fetching \/ target # None)

\* Under a profile only its own root key is held, however dialogs and their answers
\* overtake each other.
HeldKeyIsOwn == \A p \in Profiles : keys[p] \in {None, p}

\* A key that is held has a timer that will lock it: none outstays its thirty minutes.
KeysAreTimed == \A p \in Profiles : keys[p] # None => p \in timers

\* The only key of an organization other than the active one is one whose password was
\* on its way when the organization was left.
ForeignKeysAreLate == \A p \in Profiles : keys[p] # None /\ OrgOf[p] # org => p \in late

\* A panel that got a key got that of the profile it asked for (refuted: the dialog's
\* answer goes to whichever request is pending then).
ResolvesWithOwnKey == \A r \in Requests : outcome[r] \in {"unsettled", "rejected", asked[r]}
=============================================================================
