---------------------------- MODULE WebVaultProofs ----------------------------
(***************************************************************************)
(* Proofs about WebVault for any number of profiles, organizations,        *)
(* requests for a key and submissions of a password.                       *)
(*                                                                         *)
(* KeysInv is inductive for what is held.  That a foreign key is a late    *)
(* one rests on the submissions that are still in flight: those sent under *)
(* an organization that is not active now were there when it was locked    *)
(* (SentElsewhereIsLate), also across a sign-out, which locks, and the     *)
(* sign-in after it, which does not.  PromptInv is inductive for who       *)
(* waits: a dialog that is on its way is for some profile (FetchesAsked).  *)
(*                                                                         *)
(* ListInv is that of the lists beside them (DashboardCache): what a       *)
(* change has made is in the list, or the list is stale; and a request is  *)
(* for the organization it began with until that is left.                  *)
(***************************************************************************)
EXTENDS VaultAndLists, Naturals, TLAPS

SentElsewhereIsLate ==
  \A n \in Rounds : submitted[n] # None /\ submitted[n].sent \notin {org, None} =>
    submitted[n].profile \in late

KeysInv ==
  /\ TypeOK
  /\ HeldKeyIsOwn
  /\ KeysAreTimed
  /\ SentElsewhereIsLate
  /\ ForeignKeysAreLate

FetchesAsked == \A r \in fetching : asked[r] # None

PromptInv ==
  /\ TypeOK
  /\ FetchesAsked
  /\ OnlyPendingWaits

-----------------------------------------------------------------------------
(* What the steps do *)

\* Settling changes the outcome of the request that is pending, and of no other.
LEMMA SettledOutcome ==
  ASSUME TypeOK, NEW how \in {"unsettled", "rejected"} \cup Profiles
  PROVE  /\ Settled(pending, how) \in [Requests -> {"unsettled", "rejected"} \cup Profiles]
         /\ \A r \in Requests : Settled(pending, how)[r] = IF r = pending THEN how ELSE outcome[r]
BY WebVaultConstants DEF Settled, TypeOK

\* Leaving an organization and locking by hand are the same step but for the organization.
Locking ==
  \/ Lock
  \/ \E o \in Orgs \cup {None} : SwitchOrg(o) /\ org # None

Adopting == \E o \in Orgs \cup {None} : SwitchOrg(o) /\ org = None

\* What a step may be: of a request, a submission, the person, the organization or a timer.
LEMMA StepCases ==
  ASSUME [Next]_vars
  PROVE  \/ UNCHANGED vars
         \/ \E r \in Requests, p \in Profiles : RequestUnlock(r, p)
         \/ \E r \in Requests : DialogOpens(r) \/ FetchFails(r)
         \/ \E n \in Rounds : Submit(n) \/ UnlockSucceeds(n) \/ UnlockFails(n)
         \/ Cancel
         \/ Locking /\ LockAll /\ org' \in Orgs \cup {None, org}
         \/ Adopting /\ KeepsAll /\ org' \in Orgs
         \/ Unmount
         \/ \E p \in Profiles : TimerFires(p)
BY DEF Next, Locking, Adopting, Lock, SwitchOrg, LeavesOrg

\* A step that stores or drops no key, or drops some with their timers.
KeysOnlyGo ==
  /\ keys' \in [Profiles -> Profiles \cup {None}] /\ timers' \subseteq Profiles
  /\ \A p \in Profiles : keys'[p] # None => keys'[p] = keys[p] /\ (p \in timers => p \in timers')

-----------------------------------------------------------------------------
\* Every step keeps the type of every variable.
LEMMA TypeStep == TypeOK /\ [Next]_vars => TypeOK'
<1>. SUFFICES ASSUME TypeOK, [Next]_vars PROVE TypeOK'
  OBVIOUS
<1>1. CASE UNCHANGED vars
  BY <1>1 DEF vars, TypeOK
<1>2. ASSUME NEW r \in Requests, NEW p \in Profiles, RequestUnlock(r, p) PROVE TypeOK'
  <2>. asked' \in [Requests -> Profiles \cup {None}]
    BY <1>2 DEF RequestUnlock, TypeOK
  <2>1. CASE RequestHeld(r, p)
    BY <1>2, <2>1 DEF RequestHeld, RequestUnlock, TypeOK
  <2>2. CASE RequestPrompt(r, p)
    <3>. outcome' \in [Requests -> {"unsettled", "rejected"} \cup Profiles]
      BY <2>2, SettledOutcome DEF RequestPrompt, Supersedes
    <3>. QED  BY <1>2, <2>2 DEF RequestPrompt, RequestUnlock, TypeOK
  <2>. QED  BY <1>2, <2>1, <2>2 DEF RequestUnlock
<1>3. ASSUME NEW r \in Requests, DialogOpens(r) PROVE TypeOK'
  BY <1>3 DEF DialogOpens, TypeOK
<1>4. ASSUME NEW r \in Requests, FetchFails(r) PROVE TypeOK'
  BY <1>4, SettledOutcome DEF FetchFails, TypeOK
<1>5. ASSUME NEW n \in Rounds, Submit(n) PROVE TypeOK'
  <2>. [profile |-> target, sent |-> org] \in Submission
    BY <1>5 DEF Submit, Submission, TypeOK
  <2>. QED  BY <1>5 DEF Submit, TypeOK
<1>6. ASSUME NEW n \in Rounds, UnlockSucceeds(n) PROVE TypeOK'
  <2>. DEFINE p == submitted[n].profile
  <2>1. p \in Profiles
    BY <1>6 DEF UnlockSucceeds, TypeOK, Submission
  <2>2. outcome' \in [Requests -> {"unsettled", "rejected"} \cup Profiles]
    BY <1>6, <2>1, SettledOutcome DEF UnlockSucceeds
  <2>3. keys' \in [Profiles -> Profiles \cup {None}] /\ timers' \subseteq Profiles
    BY <1>6, <2>1 DEF UnlockSucceeds, OwnTarget, Armed, TypeOK
  <2>. QED  BY <1>6, <2>2, <2>3 DEF UnlockSucceeds, TypeOK
<1>7. ASSUME NEW n \in Rounds, UnlockFails(n) PROVE TypeOK'
  BY <1>7 DEF UnlockFails, TypeOK
<1>8. CASE Cancel
  BY <1>8, SettledOutcome DEF Cancel, TypeOK
<1>9. CASE LockAll /\ org' \in Orgs \cup {None, org}
  <2>1. outcome' \in [Requests -> {"unsettled", "rejected"} \cup Profiles]
    BY <1>9, SettledOutcome DEF LockAll
  <2>2. late' \subseteq Profiles
    BY <1>9 DEF LockAll, TypeOK, Submission
  <2>. QED  BY <1>9, <2>1, <2>2 DEF LockAll, TypeOK
<1>10. CASE KeepsAll /\ org' \in Orgs
  BY <1>10 DEF KeepsAll, TypeOK
<1>11. CASE Unmount
  BY <1>11 DEF Unmount, TypeOK
<1>12. ASSUME NEW p \in Profiles, TimerFires(p) PROVE TypeOK'
  BY <1>12 DEF TimerFires, TypeOK
<1>. QED
  BY <1>1, <1>2, <1>3, <1>4, <1>5, <1>6, <1>7, <1>8, <1>9, <1>10, <1>11, <1>12, StepCases

-----------------------------------------------------------------------------
(* What is held *)

\* Every step but a submission that succeeds stores no key.
LEMMA KeysGo ==
  ASSUME TypeOK, [Next]_vars, \A n \in Rounds : ~UnlockSucceeds(n)
  PROVE  KeysOnlyGo
<1>1. keys' \in [Profiles -> Profiles \cup {None}] /\ timers' \subseteq Profiles
  BY TypeStep DEF TypeOK
<1>2. CASE keys' = keys /\ timers \subseteq timers'
  BY <1>1, <1>2 DEF KeysOnlyGo
<1>3. CASE keys' = [p \in Profiles |-> None]
  BY <1>1, <1>3 DEF KeysOnlyGo
<1>4. ASSUME NEW p \in Profiles, TimerFires(p) PROVE KeysOnlyGo
  BY <1>1, <1>4 DEF TimerFires, KeysOnlyGo, TypeOK
<1>. QED
  BY <1>2, <1>3, <1>4, StepCases
  DEF vars, RequestUnlock, RequestHeld, RequestPrompt, DialogOpens, FetchFails, Submit,
      UnlockFails, Cancel, LockAll, KeepsAll, Unmount

\* A submission that was sent for another organization stays one that was under way.
LEMMA SentElsewhereStep ==
  TypeOK /\ SentElsewhereIsLate /\ [Next]_vars => SentElsewhereIsLate'
<1>. SUFFICES ASSUME TypeOK, SentElsewhereIsLate, [Next]_vars PROVE SentElsewhereIsLate'
  OBVIOUS
<1>. USE DEF SentElsewhereIsLate
<1>1. CASE UNCHANGED <<org, submitted, late>>
  BY <1>1
<1>2. ASSUME NEW n \in Rounds, Submit(n) PROVE SentElsewhereIsLate'
  BY <1>2 DEF Submit, TypeOK
<1>3. ASSUME NEW n \in Rounds, submitted' = [submitted EXCEPT ![n] = None],
             UNCHANGED <<org, late>>
      PROVE  SentElsewhereIsLate'
  BY <1>3 DEF TypeOK
<1>4. CASE LockAll
  \* Whatever is in flight is late from here on.
  BY <1>4 DEF LockAll
<1>5. CASE Adopting /\ KeepsAll
  \* What was sent under an organization is late already: none is active.
  BY <1>5 DEF Adopting, KeepsAll
<1>. QED
  BY <1>1, <1>2, <1>3, <1>4, <1>5, StepCases
  DEF vars, RequestUnlock, DialogOpens, FetchFails, UnlockSucceeds, UnlockFails, Cancel,
      Unmount, TimerFires

\* The key that a submission stores is that of its profile, with its timer; and it is late
\* unless its organization is the active one.
LEMMA StoredKey ==
  ASSUME KeysInv, NEW n \in Rounds, UnlockSucceeds(n)
  PROVE  /\ HeldKeyIsOwn' /\ KeysAreTimed' /\ ForeignKeysAreLate'
<1>. DEFINE p == submitted[n].profile
<1>1. p \in Profiles /\ submitted[n].sent = OrgOf[p] /\ OrgOf[p] \in Orgs
  BY WebVaultConstants DEF KeysInv, UnlockSucceeds, TypeOK, Submission
<1>2. OrgOf[p] # org => p \in late
  BY <1>1, WebVaultConstants DEF KeysInv, SentElsewhereIsLate, UnlockSucceeds
<1>3. UNCHANGED <<org, late>>
  BY DEF UnlockSucceeds
<1>4. \/ UNCHANGED <<keys, timers>>
      \/ keys' = [keys EXCEPT ![p] = p] /\ timers' = timers \cup {p}
  BY DEF UnlockSucceeds, OwnTarget, Armed
<1>. QED
  BY <1>1, <1>2, <1>3, <1>4
  DEF KeysInv, TypeOK, HeldKeyIsOwn, KeysAreTimed, ForeignKeysAreLate

\* A key that stays under a change of the organization is late: the organization that is
\* left is none at all, since any other locks its keys.
LEMMA KeptKeys ==
  ASSUME KeysInv, KeysOnlyGo, [Next]_vars, \A n \in Rounds : ~UnlockSucceeds(n)
  PROVE  ForeignKeysAreLate'
<1>. USE DEF KeysInv, KeysOnlyGo, ForeignKeysAreLate
<1>1. CASE UNCHANGED <<org, late>>
  BY <1>1
<1>2. CASE LockAll
  BY <1>2 DEF LockAll
<1>3. CASE Adopting /\ KeepsAll
  <2>. \A p \in Profiles : OrgOf[p] # org
    BY <1>3, WebVaultConstants DEF Adopting
  <2>. QED  BY <1>3 DEF KeepsAll
<1>. QED
  BY <1>1, <1>2, <1>3, StepCases
  DEF vars, RequestUnlock, DialogOpens, FetchFails, Submit, UnlockFails, Cancel, Unmount,
      TimerFires

\* KeysInv holds at first and every step preserves it.
THEOREM KeysInvariance == Spec => []KeysInv
<1>1. Init => KeysInv
  BY WebVaultConstants
  DEF Init, KeysInv, TypeOK, HeldKeyIsOwn, KeysAreTimed, SentElsewhereIsLate, ForeignKeysAreLate
<1>2. KeysInv /\ [Next]_vars => KeysInv'
  <2>. SUFFICES ASSUME KeysInv, [Next]_vars PROVE KeysInv'
    OBVIOUS
  <2>1. TypeOK' /\ SentElsewhereIsLate'
    BY TypeStep, SentElsewhereStep DEF KeysInv
  <2>2. HeldKeyIsOwn' /\ KeysAreTimed' /\ ForeignKeysAreLate'
    <3>1. CASE \E n \in Rounds : UnlockSucceeds(n)
      BY <3>1, StoredKey
    <3>2. CASE \A n \in Rounds : ~UnlockSucceeds(n)
      <4>1. KeysOnlyGo
        BY <3>2, KeysGo DEF KeysInv
      <4>2. HeldKeyIsOwn' /\ KeysAreTimed'
        BY <4>1 DEF KeysInv, KeysOnlyGo, HeldKeyIsOwn, KeysAreTimed
      <4>. QED  BY <3>2, <4>1, <4>2, KeptKeys
    <3>. QED  BY <3>1, <3>2
  <2>. QED  BY <2>1, <2>2 DEF KeysInv
<1>. QED  BY <1>1, <1>2, PTL DEF Spec

\* Under a profile the tab only ever holds that profile's own root key.
THEOREM HeldKeysAreOwn == Spec => []HeldKeyIsOwn
BY KeysInvariance, PTL DEF KeysInv

\* Every key that is held has a timer that will lock it.
THEOREM EveryKeyIsTimed == Spec => []KeysAreTimed
BY KeysInvariance, PTL DEF KeysInv

\* A key of an organization that is not active comes from a password that was on its way
\* when everything was locked.
THEOREM ForeignKeysCameLate == Spec => []ForeignKeysAreLate
BY KeysInvariance, PTL DEF KeysInv

-----------------------------------------------------------------------------
(* Who waits *)

LEMMA FetchesStep == TypeOK /\ FetchesAsked /\ [Next]_vars => FetchesAsked'
<1>. SUFFICES ASSUME TypeOK, FetchesAsked, [Next]_vars PROVE FetchesAsked'
  OBVIOUS
<1>1. CASE UNCHANGED asked /\ fetching' \subseteq fetching
  BY <1>1 DEF FetchesAsked
<1>2. ASSUME NEW r \in Requests, NEW p \in Profiles, RequestUnlock(r, p) PROVE FetchesAsked'
  BY <1>2, WebVaultConstants DEF RequestUnlock, RequestHeld, RequestPrompt, FetchesAsked, TypeOK
<1>. QED
  BY <1>1, <1>2, StepCases
  DEF vars, DialogOpens, FetchFails, Submit, UnlockSucceeds, UnlockFails, Cancel, LockAll,
      KeepsAll, Unmount, TimerFires

\* Once what was pending is settled, nobody waits but a request that is just made.
LEMMA NobodyWaits ==
  ASSUME PromptInv, mounted, NEW how \in {"rejected"} \cup Profiles,
         outcome' = Settled(pending, how), NEW r \in Requests,
         asked'[r] = asked[r]
  PROVE  ~Waiting(r)'
<1>1. how # "unsettled"
  BY WebVaultConstants
<1>2. outcome'[r] = IF r = pending THEN how ELSE outcome[r]
  BY SettledOutcome DEF PromptInv
<1>. QED  BY <1>1, <1>2 DEF PromptInv, OnlyPendingWaits, Waiting

\* A request for a password supersedes the one that was pending.
LEMMA RequestStep ==
  ASSUME PromptInv, NEW r \in Requests, NEW p \in Profiles, RequestUnlock(r, p)
  PROVE  OnlyPendingWaits'
<1>. mounted
  BY DEF RequestUnlock
<1>1. \A s \in Requests \ {r} : asked'[s] = asked[s]
  BY DEF RequestUnlock, PromptInv, TypeOK
<1>2. CASE RequestHeld(r, p)
  <2>1. ~Waiting(r)'
    BY <1>2, WebVaultConstants DEF RequestHeld, Waiting, PromptInv, TypeOK
  <2>2. \A s \in Requests \ {r} : Waiting(s)' => Waiting(s)
    BY <1>1, <1>2 DEF RequestHeld, Waiting, PromptInv, TypeOK
  <2>. QED
    BY <1>2, <2>1, <2>2 DEF RequestHeld, RequestUnlock, PromptInv, OnlyPendingWaits
<1>3. CASE RequestPrompt(r, p)
  <2>1. \A s \in Requests \ {r} : ~Waiting(s)'
    BY <1>1, <1>3, NobodyWaits DEF RequestPrompt, Supersedes
  <2>2. pending' = r /\ r \in fetching'
    BY <1>3 DEF RequestPrompt
  <2>. QED  BY <2>1, <2>2 DEF OnlyPendingWaits
<1>. QED  BY <1>2, <1>3 DEF RequestUnlock

\* After every step only the request that is pending waits.
LEMMA WaitingStep == PromptInv /\ [Next]_vars => OnlyPendingWaits'
<1>. SUFFICES ASSUME PromptInv, [Next]_vars PROVE OnlyPendingWaits'
  OBVIOUS
<1>1. CASE ~mounted'
  BY <1>1 DEF OnlyPendingWaits
<1>2. CASE mounted
  <2>1. CASE UNCHANGED <<mounted, asked, fetching, pending, target, outcome>>
    BY <2>1 DEF PromptInv, OnlyPendingWaits, Waiting
  <2>2. ASSUME NEW r \in Requests, NEW p \in Profiles, RequestUnlock(r, p)
        PROVE  OnlyPendingWaits'
    BY <2>2, RequestStep
  <2>3. ASSUME NEW r \in Requests, DialogOpens(r) PROVE OnlyPendingWaits'
    \* Whoever waits, the dialog that is open now is for some profile.
    BY <1>2, <2>3 DEF DialogOpens, PromptInv, FetchesAsked, OnlyPendingWaits, Waiting
  <2>4. ASSUME outcome' = Settled(pending, "rejected"), UNCHANGED asked
        PROVE  OnlyPendingWaits'
    BY <1>2, <2>4, NobodyWaits DEF OnlyPendingWaits
  <2>5. ASSUME NEW n \in Rounds, UnlockSucceeds(n) PROVE OnlyPendingWaits'
    <3>1. submitted[n].profile \in Profiles
      BY <2>5 DEF UnlockSucceeds, PromptInv, TypeOK, Submission
    <3>. QED  BY <1>2, <2>5, <3>1, NobodyWaits DEF UnlockSucceeds, OnlyPendingWaits
  <2>. QED
    BY <1>1, <2>1, <2>2, <2>3, <2>4, <2>5, StepCases
    DEF vars, FetchFails, Submit, UnlockFails, Cancel, LockAll, KeepsAll, Unmount, TimerFires
<1>3. mounted' => mounted
  BY StepCases
  DEF vars, RequestUnlock, DialogOpens, FetchFails, Submit, UnlockSucceeds, UnlockFails,
      Cancel, LockAll, KeepsAll, Unmount, TimerFires
<1>. QED  BY <1>1, <1>2, <1>3

\* Of the panels that asked for a key only the last one waits, and a dialog for it is open or
\* on its way, whatever order answers, cancels and locks come in.
THEOREM PanelsAreAnswered == Spec => []OnlyPendingWaits
<1>1. Init => PromptInv
  BY WebVaultConstants DEF Init, PromptInv, TypeOK, FetchesAsked, OnlyPendingWaits, Waiting
<1>2. PromptInv /\ [Next]_vars => PromptInv'
  BY TypeStep, FetchesStep, WaitingStep DEF PromptInv
<1>. QED  BY <1>1, <1>2, PTL DEF Spec, PromptInv

-----------------------------------------------------------------------------
(* The lists that the pages show: proofs about DashboardCache for any number of *)
(* organizations and changes, and whichever lists are followed.                 *)

Counts == 0 .. MaxChanges

\* The state of the lists, by what it is made of.
ListTypes ==
  /\ shownOrg \in ListOrgs /\ thing \in ListOrgs
  /\ count \in [ListOrgs -> Counts] /\ owed \in [ListOrgs -> Counts]
  /\ cache \in [ListOrgs -> Lists!Entry] /\ fetch \in [ListOrgs -> Lists!Request]
  /\ left \subseteq ListOrgs

\* A change that is under way is one of those there are.
ChangeIs ==
  change.phase # "idle" =>
    change \in [of : DOMAIN Lists!Changes, org : ListOrgs, page : {change.page},
                phase : {"sent", "served"}]

\* What is owed is there; the list is stale or shows it, and a request that has read
\* its first page will show it.
Owes(k) ==
  /\ owed[k] <= count[k]
  /\ cache[k].rows # None => cache[k].stale \/ cache[k].rows.shows >= owed[k]
  /\ fetch[k].of # {} => fetch[k].shows >= owed[k]

\* While no organization was left under a request for its list, the list and the request
\* have its rows only, and the request goes on under its name.
Own(k) ==
  k \notin left =>
    /\ cache[k].rows # None => cache[k].rows.of \subseteq {k}
    /\ fetch[k].of \subseteq {k}
    /\ fetch[k].phase # "idle" /\ kind \notin Lists!Details =>
         fetch[k].header = k /\ shownOrg = k

ListInv == ListTypes /\ ChangeIs /\ \A k \in ListOrgs : Owes(k) /\ Own(k)

\* A change has the cache read again the lists that are mainly about it.
LEMMA MainIsTold ==
  ASSUME NEW c \in DOMAIN Lists!Changes, Lists!IsMain(c)
  PROVE  kind \in Lists!Changes[c].tells
BY DEF Lists!Changes, Lists!IsMain, Lists!Main, Lists!CreateItem, Lists!UpdateItem, Lists!DeleteItem,
   Lists!CreateAgent, Lists!RevokeAgent, Lists!Grant, Lists!RevokeGrant, Lists!CreateProfile,
   Lists!DeleteProfile, Lists!RenameOrg, Lists!RemoveMember, Lists!CreateKey, Lists!RevokeKey

\* A request that is sent has read nothing.
LEMMA SentIs ==
  ASSUME NEW o \in ListOrgs
  PROVE  /\ Lists!Sent(o) \in Lists!Request /\ Lists!Idle \in Lists!Request
         /\ Lists!Sent(o).of = {} /\ Lists!Sent(o).header = o /\ Lists!Sent(o).phase = "sent"
         /\ Lists!Idle.of = {} /\ Lists!Idle.phase = "idle"
         /\ Lists!Absent \in Lists!Entry /\ Lists!Absent.rows = None
BY ListConstants DEF Lists!Sent, Lists!Idle, Lists!Absent, Lists!Request, Lists!Entry,
       Lists!CacheConstants

\* A list that is stale is the list it was.
LEMMA StaleIs ==
  ASSUME NEW e \in Lists!Entry
  PROVE  /\ Lists!Stale(e) \in Lists!Entry /\ Lists!Stale(e).rows = e.rows
         /\ e.rows # None => Lists!Stale(e).stale
BY DEF Lists!Stale, Lists!Entry

\* What the types say of one list, its request and its counts.
LEMMA RowTypes ==
  ASSUME ListTypes, NEW k \in ListOrgs
  PROVE  /\ count[k] \in Nat /\ owed[k] \in Nat /\ count[k] <= MaxChanges
         /\ cache[k] \in Lists!Entry /\ fetch[k] \in Lists!Request
         /\ cache[k].rows # None => cache[k].rows \in Lists!Rows /\ cache[k].rows.shows \in Nat
         /\ fetch[k].shows \in Nat /\ fetch[k].of \in SUBSET ListOrgs
         /\ {count[k], fetch[k].shows} \subseteq Counts
BY ListConstants DEF ListTypes, Counts, Lists!Entry, Lists!Request, Lists!Idle, Lists!Rows,
                     Lists!CacheConstants

\* One request, or none, is begun or given up; the lists stay as they are, or become stale.
LEMMA FetchStep ==
  ASSUME ListTypes, NEW k \in ListOrgs, Owes(k), Own(k),
         \/ fetch'[k] = fetch[k]
         \/ fetch'[k] = Lists!Idle
         \/ fetch'[k] = Lists!Sent(shownOrg) /\ (kind \in Lists!Details \/ k = shownOrg),
         cache'[k] \in {cache[k], Lists!Stale(cache[k]), Lists!Absent},
         UNCHANGED <<kind, shownOrg, count, owed, left>>
  PROVE  Owes(k)' /\ Own(k)'
<1>. USE SentIs, StaleIs, RowTypes
<1>1. shownOrg \in ListOrgs
  BY DEF ListTypes
<1>2. /\ cache'[k].rows # None => cache'[k].rows = cache[k].rows /\ cache[k].rows # None
      /\ cache'[k].rows # None /\ cache[k].stale => cache'[k].stale
  BY <1>1
<1>3. fetch'[k] = fetch[k] \/ fetch'[k].of = {}
  BY <1>1
<1>4. Owes(k)'
  <2>1. cache'[k].rows # None => cache'[k].stale \/ cache'[k].rows.shows >= owed[k]
    BY <1>2 DEF Owes
  <2>2. fetch'[k].of # {} => fetch'[k].shows >= owed[k]
    BY <1>3 DEF Owes
  <2>. QED  BY <2>1, <2>2 DEF Owes
<1>5. Own(k)'
  <2>1. fetch'[k] = fetch[k] \/ fetch'[k].phase = "idle" \/
          (fetch'[k].header = shownOrg /\ (kind \in Lists!Details \/ k = shownOrg))
    BY <1>1
  <2>. QED  BY <1>2, <1>3, <2>1 DEF Own, Lists!Details
<1>. QED  BY <1>4, <1>5

\* The key that a page reads.
LEMMA ReadsIs ==
  ASSUME ListTypes
  PROVE  Lists!Reads \in ListOrgs /\ (kind \notin Lists!Details => Lists!Reads = shownOrg)
BY DEF ListTypes, Lists!Reads, Lists!KeyOf

\* A query that comes on is sent, or nothing is.
LEMMA ComesOnIs ==
  ASSUME ListTypes, NEW k \in ListOrgs, NEW o \in ListOrgs, fetch' = Lists!ComesOn(k, o)
  PROVE  /\ \A j \in ListOrgs : fetch'[j] = fetch[j] \/ (j = k /\ fetch'[j] = Lists!Sent(o))
         /\ fetch' \in [ListOrgs -> Lists!Request]
BY SentIs DEF ListTypes, Lists!ComesOn

\* Moving about, giving up and asking change one request, and no list.
Moving ==
  \/ \E p \in DOMAIN Lists!Pages : Lists!Go(p) \/ Lists!Hover(p)
  \/ \E k \in ListOrgs : Lists!Ages(k) \/ Lists!Fails(k)
  \/ Lists!RefreshAudit \/ Lists!Renders
  \/ \E c \in DOMAIN Lists!Changes : Lists!Click(c)
  \/ Lists!ChangeFails

\* Steps that send, give up or age a request preserve the invariant of the lists.
LEMMA MovingStep ==
  ASSUME ListInv, Moving
  PROVE  ListInv'
<1>1. ListTypes /\ ChangeIs /\ shownOrg \in ListOrgs
  BY DEF ListInv, ListTypes
<1>2. UNCHANGED <<kind, shownOrg, count, owed, left>> /\ ChangeIs'
  <2>1. \/ change' = change \/ change' = Lists!Quiet
        \/ \E c \in DOMAIN Lists!Changes :
             change' = [of |-> c, org |-> shownOrg, page |-> page, phase |-> "sent"]
    BY DEF Moving, Lists!Go, Lists!Hover, Lists!Ages, Lists!Fails, Lists!RefreshAudit, Lists!Renders,
           Lists!Click, Lists!ChangeFails
  <2>2. ChangeIs'
    BY <1>1, <2>1 DEF ChangeIs, Lists!Quiet
  <2>3. UNCHANGED <<kind, shownOrg, count, owed, left>>
    BY DEF Moving, Lists!Go, Lists!Hover, Lists!Ages, Lists!Fails, Lists!RefreshAudit, Lists!Renders,
           Lists!Click, Lists!ChangeFails
  <2>. QED  BY <2>2, <2>3
<1>. DEFINE FetchMoved ==
              /\ thing' \in ListOrgs
              /\ fetch' \in [ListOrgs -> Lists!Request]
              /\ \A j \in ListOrgs :
                   \/ fetch'[j] = fetch[j]
                   \/ fetch'[j] = Lists!Idle
                   \/ fetch'[j] = Lists!Sent(shownOrg) /\ (kind \in Lists!Details \/ j = shownOrg)
            CacheMoved ==
              /\ cache' \in [ListOrgs -> Lists!Entry]
              /\ \A j \in ListOrgs :
                   cache'[j] \in {cache[j], Lists!Stale(cache[j]), Lists!Absent}
<1>3. FetchMoved
  <2>1. ASSUME NEW p \in DOMAIN Lists!Pages, Lists!Go(p) \/ Lists!Hover(p)
        PROVE  FetchMoved
    <3>1. fetch' = fetch \/ fetch' = Lists!ComesOn(shownOrg, shownOrg)
      BY <2>1 DEF Lists!Go, Lists!Hover, Lists!KeyOf
    <3>2. thing' \in ListOrgs
      BY <1>1, <2>1 DEF Lists!Go, Lists!Hover, ListTypes
    <3>. QED  BY <1>1, <3>1, <3>2, ComesOnIs DEF ListTypes
  <2>2. CASE Lists!Renders
    <3>1. fetch' = Lists!ComesOn(Lists!Reads, shownOrg) /\ thing' = thing
      BY <2>2 DEF Lists!Renders
    <3>. QED  BY <1>1, <3>1, ReadsIs, ComesOnIs DEF ListTypes
  <2>3. CASE \/ UNCHANGED <<fetch, thing>>
             \/ \E k \in ListOrgs : fetch' = [fetch EXCEPT ![k] = Lists!Idle] /\ thing' = thing
    BY <1>1, <2>3, SentIs DEF ListTypes
  <2>4. CASE Lists!RefreshAudit
    BY <1>1, <2>3, <2>4, ReadsIs DEF Lists!RefreshAudit
  <2>. QED  BY <2>1, <2>2, <2>3, <2>4 DEF Moving, Lists!Ages, Lists!Fails, Lists!Click, Lists!ChangeFails
<1>4. CacheMoved
  <2>1. CASE cache' = cache
    BY <1>1, <2>1 DEF ListTypes
  <2>2. ASSUME NEW k \in ListOrgs, cache' = [cache EXCEPT ![k] = Lists!Stale(@)]
        PROVE  CacheMoved
    BY <1>1, <2>2, StaleIs DEF ListTypes
  <2>3. ASSUME NEW k \in ListOrgs, cache' = [cache EXCEPT ![k] = Lists!Absent]
        PROVE  CacheMoved
    BY <1>1, <2>3, SentIs DEF ListTypes
  <2>. QED  BY <1>1, <2>1, <2>2, <2>3, ReadsIs DEF Moving, Lists!Go, Lists!Hover, Lists!Ages,
               Lists!Fails, Lists!RefreshAudit, Lists!Renders, Lists!Click, Lists!ChangeFails
<1>5. ASSUME NEW k \in ListOrgs PROVE Owes(k)' /\ Own(k)'
  <2>1. Owes(k) /\ Own(k)
    BY DEF ListInv
  <2>. QED  BY <1>1, <1>2, <1>3, <1>4, <2>1, FetchStep
<1>6. ListTypes'
  BY <1>1, <1>2, <1>3, <1>4 DEF ListTypes
<1>. QED  BY <1>2, <1>5, <1>6 DEF ListInv

\* The server makes one change more; nothing that was owed is more.
LEMMA ServerChangesStep ==
  ASSUME ListInv, Lists!ServerChanges
  PROVE  ListInv'
<1>1. ListTypes /\ ChangeIs
  BY DEF ListInv
<1>2. PICK o \in ListOrgs : count[o] < MaxChanges /\ count' = [count EXCEPT ![o] = @ + 1]
  BY <1>1 DEF Lists!ServerChanges, ChangeIs
<1>3. UNCHANGED <<kind, shownOrg, thing, cache, fetch, owed, left>>
  BY DEF Lists!ServerChanges
<1>4. count' \in [ListOrgs -> Counts] /\ \A k \in ListOrgs : count'[k] >= count[k]
  <2>1. count[o] + 1 \in Counts
    BY <1>1, <1>2, RowTypes, ListConstants DEF Counts, Lists!CacheConstants
  <2>2. \A k \in ListOrgs : count'[k] = IF k = o THEN count[o] + 1 ELSE count[k]
    BY <1>1, <1>2 DEF ListTypes
  <2>3. \A k \in ListOrgs : count'[k] >= count[k]
    BY <1>1, <2>2, RowTypes
  <2>. QED  BY <1>1, <1>2, <2>1, <2>3 DEF ListTypes
<1>5. ChangeIs'
  <2>1. change' = [change EXCEPT !.phase = "served"] /\ change.phase = "sent"
    BY DEF Lists!ServerChanges
  <2>. QED  BY <1>1, <2>1 DEF ChangeIs
<1>6. ASSUME NEW k \in ListOrgs PROVE Owes(k)' /\ Own(k)'
  <2>1. count'[k] \in Nat
    BY <1>4, ListConstants DEF Counts, Lists!CacheConstants
  <2>. QED  BY <1>1, <1>3, <1>4, <2>1, RowTypes DEF ListInv, Owes, Own
<1>. QED  BY <1>1, <1>3, <1>4, <1>5, <1>6 DEF ListInv, ListTypes

\* Who leaves an organization under a request is remembered; the page reads the other's list.
LEMMA SwitchStep ==
  ASSUME ListInv, NEW o \in ListOrgs, Lists!SwitchOrg(o)
  PROVE  ListInv'
<1>1. ListTypes /\ ChangeIs
  BY DEF ListInv
<1>2. UNCHANGED <<kind, thing, count, cache, change, owed>> /\ shownOrg' = o
  BY DEF Lists!SwitchOrg
<1>3. left' = left \cup {k \in ListOrgs : fetch[k].phase # "idle"}
  BY DEF Lists!SwitchOrg
<1>4. /\ \A k \in ListOrgs : fetch'[k] = fetch[k] \/ (k = o /\ fetch'[k] = Lists!Sent(o))
      /\ fetch' \in [ListOrgs -> Lists!Request]
  <2>1. fetch' = fetch \/ fetch' = Lists!ComesOn(o, o)
    BY DEF Lists!SwitchOrg, Lists!KeyOf
  <2>. QED  BY <1>1, <2>1, ComesOnIs DEF ListTypes
<1>5. ASSUME NEW k \in ListOrgs PROVE Owes(k)' /\ Own(k)'
  <2>1. CASE fetch'[k] = fetch[k]
    BY <1>2, <1>3, <2>1 DEF ListInv, Owes, Own, Lists!Details
  <2>2. CASE k = o /\ fetch'[k] = Lists!Sent(o)
    BY <1>2, <1>3, <2>2, SentIs DEF ListInv, Owes, Own, Lists!Details
  <2>. QED  BY <1>4, <2>1, <2>2
<1>. QED  BY <1>1, <1>2, <1>3, <1>4, <1>5 DEF ListInv, ListTypes, ChangeIs

\* A page of a list is read, or the next is asked for.
LEMMA ServeStep ==
  ASSUME ListInv, NEW k \in ListOrgs, Lists!Serve(k) \/ Lists!ReadsOn(k)
  PROVE  ListInv'
<1>. USE RowTypes
<1>1. ListTypes /\ ChangeIs
  BY DEF ListInv
<1>2. UNCHANGED <<kind, shownOrg, thing, count, cache, change, owed, left>> /\ fetch[k].phase # "idle"
  BY DEF Lists!Serve, Lists!ReadsOn
<1>3. PICK new : fetch' = [fetch EXCEPT ![k] = new] /\
        \/ /\ new = [phase |-> "served", header |-> fetch[k].header,
                     of |-> fetch[k].of \cup Lists!ServedFor(k),
                     shows |-> IF fetch[k].of = {} THEN count[k] ELSE fetch[k].shows]
           /\ Lists!Serve(k)
        \/ /\ new = [phase |-> "sent", header |-> shownOrg, of |-> fetch[k].of, shows |-> fetch[k].shows]
           /\ Lists!ReadsOn(k)
  BY <1>1 DEF Lists!Serve, Lists!ReadsOn, ListTypes
<1>4. new \in Lists!Request /\ Owes(k)' /\ Own(k)'
  <2>1. CASE /\ new = [phase |-> "served", header |-> fetch[k].header,
                       of |-> fetch[k].of \cup Lists!ServedFor(k),
                       shows |-> IF fetch[k].of = {} THEN count[k] ELSE fetch[k].shows]
             /\ Lists!Serve(k)
    <3>1. fetch[k].header \in ListOrgs /\ Lists!ServedFor(k) \subseteq ListOrgs
      BY <1>1, <1>2 DEF Lists!ServedFor, Lists!Request, Lists!Idle
    <3>2. new \in Lists!Request
      BY <1>1, <2>1, <3>1 DEF Lists!Request, Counts
    <3>3. Owes(k)'
      BY <1>1, <1>2, <1>3, <2>1 DEF ListInv, Owes, ListTypes
    <3>4. k \notin left => Lists!ServedFor(k) \subseteq {k}
      BY <1>2 DEF ListInv, Own, Lists!ServedFor
    <3>5. Own(k)'
      BY <1>1, <1>2, <1>3, <2>1, <3>4 DEF ListInv, Own, ListTypes, Lists!Details
    <3>. QED  BY <3>2, <3>3, <3>5
  <2>2. CASE /\ new = [phase |-> "sent", header |-> shownOrg, of |-> fetch[k].of,
                       shows |-> fetch[k].shows]
             /\ Lists!ReadsOn(k)
    <3>1. new \in Lists!Request
      BY <1>1, <2>2 DEF Lists!Request, ListTypes, Counts
    <3>2. Owes(k)'
      BY <1>1, <1>2, <1>3, <2>2 DEF ListInv, Owes, ListTypes
    <3>3. Own(k)'
      BY <1>1, <1>2, <1>3, <2>2 DEF ListInv, Own, ListTypes, Lists!Details
    <3>. QED  BY <3>1, <3>2, <3>3
  <2>. QED  BY <1>3, <2>1, <2>2
<1>5. ASSUME NEW j \in ListOrgs PROVE Owes(j)' /\ Own(j)'
  <2>1. j # k => fetch'[j] = fetch[j]
    BY <1>1, <1>3 DEF ListTypes
  <2>. QED  BY <1>2, <1>4, <2>1 DEF ListInv, Owes, Own, Lists!Details
<1>. QED  BY <1>1, <1>2, <1>3, <1>4, <1>5 DEF ListInv, ListTypes, ChangeIs

\* A list arrives as its request has read it.
LEMMA ArrivesStep ==
  ASSUME ListInv, NEW k \in ListOrgs, Lists!Arrives(k)
  PROVE  ListInv'
<1>. DEFINE new == [rows |-> [of |-> fetch[k].of, shows |-> fetch[k].shows], stale |-> FALSE]
<1>1. ListTypes /\ ChangeIs
  BY DEF ListInv
<1>2. /\ UNCHANGED <<kind, shownOrg, thing, count, change, owed, left>>
      /\ fetch[k].phase = "served" /\ fetch[k].of # {}
      /\ cache' = [cache EXCEPT ![k] = new] /\ fetch' = [fetch EXCEPT ![k] = Lists!Idle]
  BY DEF Lists!Arrives
<1>3. new \in Lists!Entry
  BY <1>1, RowTypes DEF Lists!Entry, Lists!Rows, Counts
<1>4. ASSUME NEW j \in ListOrgs PROVE Owes(j)' /\ Own(j)'
  <2>1. CASE j = k
    <3>1. cache'[k].rows.of = fetch[k].of /\ cache'[k].rows.shows = fetch[k].shows
      BY <1>1, <1>2 DEF ListTypes
    <3>2. fetch'[k] = Lists!Idle
      BY <1>1, <1>2 DEF ListTypes
    <3>. QED  BY <1>1, <1>2, <2>1, <3>1, <3>2, SentIs DEF ListInv, Owes, Own
  <2>2. CASE j # k
    <3>1. cache'[j] = cache[j] /\ fetch'[j] = fetch[j]
      BY <1>1, <1>2, <2>2 DEF ListTypes
    <3>. QED  BY <1>2, <3>1 DEF ListInv, Owes, Own, Lists!Details
  <2>. QED  BY <2>1, <2>2
<1>. QED  BY <1>1, <1>2, <1>3, <1>4, SentIs DEF ListInv, ListTypes, ChangeIs

\* A change that has succeeded: what it comes to owe is stale and being read.
LEMMA SucceedsStep ==
  ASSUME ListInv, Lists!Succeeds
  PROVE  ListInv'
<1>. DEFINE k == Lists!Told
<1>1. ListTypes /\ ChangeIs /\ change.phase = "served"
  BY DEF ListInv, Lists!Succeeds
<1>2. /\ UNCHANGED <<kind, shownOrg, thing, count, left>> /\ change' = Lists!Quiet
      /\ k \in ListOrgs /\ change.of \in DOMAIN Lists!Changes
  BY <1>1 DEF Lists!Succeeds, Lists!Told, ChangeIs, ListTypes
<1>3. /\ IF kind \in Lists!Changes[change.of].tells
           THEN Lists!Invalidates(k) ELSE UNCHANGED <<cache, fetch>>
      /\ owed' = IF /\ Lists!IsMain(change.of) /\ k = change.org /\ Lists!Shown(page)
                    /\ k = Lists!Reads /\ cache[k].rows # None
                   THEN [owed EXCEPT ![k] = count[k]] ELSE owed
  BY DEF Lists!Succeeds, Lists!KeyOf
<1>4. /\ cache' \in [ListOrgs -> Lists!Entry]
      /\ \A j \in ListOrgs : cache'[j] = cache[j] \/ (j = k /\ cache'[j] = Lists!Stale(cache[j]))
  BY <1>1, <1>2, <1>3, StaleIs DEF ListTypes, Lists!Invalidates
<1>5. /\ fetch' \in [ListOrgs -> Lists!Request]
      /\ \A j \in ListOrgs :
           \/ fetch'[j] = fetch[j]
           \/ fetch'[j] = Lists!Sent(shownOrg) /\ (kind \in Lists!Details \/ j = shownOrg)
  BY <1>1, <1>2, <1>3, SentIs, ReadsIs DEF ListTypes, Lists!Invalidates
<1>6. owed' \in [ListOrgs -> Counts]
  BY <1>1, <1>2, <1>3 DEF ListTypes
<1>7. ASSUME NEW j \in ListOrgs PROVE Owes(j)' /\ Own(j)'
  <2>1. Owes(j) /\ Own(j)
    BY DEF ListInv
  <2>2. Own(j)'
    BY <1>1, <1>2, <1>4, <1>5, <2>1, SentIs, StaleIs, RowTypes DEF Own, Lists!Details, ListTypes
  <2>3. CASE owed'[j] = owed[j]
    <3>1. Owes(j)'
      BY <1>1, <1>2, <1>4, <1>5, <2>1, <2>3, SentIs, StaleIs, RowTypes DEF Owes, ListTypes
    <3>. QED  BY <2>2, <3>1
  <2>4. CASE owed'[j] # owed[j]
    <3>1. /\ j = k /\ owed'[j] = count[j] /\ cache[j].rows # None
          /\ Lists!IsMain(change.of) /\ Lists!Shown(page) /\ k = Lists!Reads
      BY <1>1, <1>3, <2>4 DEF ListTypes
    <3>2. Lists!Invalidates(k)
      BY <1>2, <1>3, <3>1, MainIsTold
    <3>3. cache'[j] = Lists!Stale(cache[j]) /\ fetch'[j] = Lists!Sent(shownOrg)
      BY <1>1, <3>1, <3>2 DEF Lists!Invalidates, ListTypes
    <3>4. Owes(j)'
      BY <1>1, <1>2, <3>1, <3>3, SentIs, StaleIs, RowTypes DEF Owes, ListTypes
    <3>. QED  BY <2>2, <3>4
  <2>. QED  BY <2>3, <2>4
<1>. QED  BY <1>1, <1>2, <1>4, <1>5, <1>6, <1>7 DEF ListInv, ListTypes, ChangeIs, Lists!Quiet

\* ListInv holds at first.
LEMMA InitListInv == Lists!Init => ListInv
<1>. SUFFICES ASSUME Lists!Init PROVE ListInv
  OBVIOUS
<1>1. ListTypes
  <2>1. 0 \in Counts
    BY ListConstants DEF Counts, Lists!CacheConstants
  <2>2. PICK o : o \in ListOrgs /\ shownOrg = o
    BY DEF Lists!Init
  <2>. QED  BY <2>1, <2>2, SentIs DEF Lists!Init, ListTypes
<1>2. ChangeIs
  BY DEF Lists!Init, ChangeIs, Lists!Quiet
<1>3. ASSUME NEW k \in ListOrgs PROVE Owes(k) /\ Own(k)
  BY <1>3, SentIs DEF Lists!Init, Owes, Own
<1>. QED  BY <1>1, <1>2, <1>3 DEF ListInv

\* Every step preserves ListInv.
LEMMA ListInvStep == ListInv /\ [Lists!Next]_lists => ListInv'
<1>. SUFFICES ASSUME ListInv, [Lists!Next]_lists PROVE ListInv'
  OBVIOUS
<1>1. CASE UNCHANGED lists
  BY <1>1 DEF lists, ListInv, ListTypes, ChangeIs, Owes, Own
<1>2. CASE Moving
  BY <1>2, MovingStep
<1>3. CASE Lists!ServerChanges
  BY <1>3, ServerChangesStep
<1>4. CASE Lists!Succeeds
  BY <1>4, SucceedsStep
<1>5. ASSUME NEW o \in ListOrgs, Lists!SwitchOrg(o) PROVE ListInv'
  BY <1>5, SwitchStep
<1>6. ASSUME NEW k \in ListOrgs, Lists!Serve(k) \/ Lists!ReadsOn(k) PROVE ListInv'
  BY <1>6, ServeStep
<1>7. ASSUME NEW k \in ListOrgs, Lists!Arrives(k) PROVE ListInv'
  BY <1>7, ArrivesStep
<1>. QED  BY <1>1, <1>2, <1>3, <1>4, <1>5, <1>6, <1>7 DEF Lists!Next, Moving

\* The invariant, of the behaviours in which lists are read.
LEMMA ListInvariance == Either => [](part = "lists" => ListInv)
<1>1. InitEither => (part = "lists" => ListInv)
  BY InitListInv DEF InitEither
<1>2. (part = "lists" => ListInv) /\ [NextEither]_<<part, vars, lists>>
        => (part = "lists" => ListInv)'
  <2>. SUFFICES ASSUME part = "lists" => ListInv, [NextEither]_<<part, vars, lists>>,
                       part' = "lists"
                PROVE  ListInv'
    OBVIOUS
  <2>1. part = "lists" /\ [Lists!Next]_lists
    BY DEF NextEither, lists
  <2>. QED  BY <2>1, ListInvStep
<1>. QED  BY <1>1, <1>2, PTL DEF Either

\* Whatever is read, switched, left and answered around a change, the page that showed its
\* list goes on with the list of before only while that is stale or being read.
THEOREM ChangesAreShown == Either => []OwnWritesShown
<1>1. (part = "lists" => ListInv) => OwnWritesShown
  BY DEF ListInv, Owes, OwnWritesShown, Lists!OwnWritesShown, Lists!KeyOf
<1>. QED  BY <1>1, ListInvariance, PTL

\* Rows of another organization get under a key only through a request that was reading
\* its list while the user left.
THEOREM ForeignRowsCameLate == Either => []ForeignRowsAreLate
<1>1. (part = "lists" => ListInv) => ForeignRowsAreLate
  BY DEF ListInv, Own, ForeignRowsAreLate, Lists!ForeignRowsAreLate, Lists!KeyOf
<1>. QED  BY <1>1, ListInvariance, PTL
===============================================================================
