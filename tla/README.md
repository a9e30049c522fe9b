# abadge: TLA+ models, checks and proofs

abadge is a credential control plane: people store credentials in the profiles
of an organization, grant agents permissions on them, and agents read or mount
what they were granted, with every attempt in an audit log. Zero-knowledge
profiles keep the server unable to decrypt. This directory models the parts of
it in which several requests, clients, processes or clocks meet: TLC checks the
models on small instances, and TLAPS proves most of the safety properties for
every value of the constants.

All paths are relative to the root of the repository.

## Inventory

The dashboard, the SDK, the CLI, the MCP server and the daemon send requests to
one Cloudflare Worker (`apps/api`), which resolves the caller, opens one Postgres
transaction (`withOrgContext`, `packages/trpc/src/server/init.ts`) and runs a
procedure of a tRPC router in it. The database is the only shared state on the
server. READ COMMITTED is its isolation, so between two statements of a handler
anybody else may commit. Public procedures (enrollment, session exchange, account
claim) and most of `organizations` run on the pool, without that transaction. The
daemon, the dashboard, the CLI and the SDK keep keys, tokens, files, caches and
timers of their own.

| Component | State | What is hard, and what makes it correct | Module |
|---|---|---|---|
| Zero-knowledge profile and items (`routers/profiles.ts`, `items.ts`, `crypto/client`) | the wrap of the root key, recovery wrap, key version, salt; item keys, ciphertexts, versions | clients build requests from rows they read earlier, rotation races everything. No item stays under a retired root, no update is lost | `ZkVault` |
| Server-managed items and profiles (`server-envelope.ts`, `profiles.ts`, `scripts/backfill-*`) | profile rows, their data key and its budget, items, grants | the data key is provisioned on first use; deletion checks, then deletes; a script binds old rows. What is active opens | `ServerProfile` |
| Agent access (`routers/access.ts`, `access/pipeline.ts`, `audit.ts`) | permissions, mount reservations, audit log and its sink | checks and deliveries are separate statements, audit INSERTs may fail, two daemons redeem a handle. Nothing is delivered without entitlement and a committed row | `AgentAccess` |
| Agent credentials (`routers/auth.ts`) | public key, bootstrap tokens, challenges, sessions | a check, then a claim, then what it pays for. One key, one use of each token | `AgentCredentials` |
| Agent-made accounts (`routers/agent-registration.ts`) | account_claims, placeholder user and organization | no transaction around the reads, a collection that deletes by id. The owner is who received the code | `AccountClaim` |
| Organizations, members, invitations (`routers/organizations.ts`, `owner-guards.ts`, `cascades.ts`) | members, roles, invitations, agents and grants of members | guards that count rows, a cascade that selects and then updates. Nobody is given more than the giver has; nobody keeps what membership gave | `Membership` |
| Making an organization (`organizations.ts`, `create-org-form.tsx`) | slugs, the form and its late checks | unique index against two tabs. The active organization is one's own | `NewOrg` |
| Arriving by an invitation (`invite/accept`, login, register) | the link, the mail, the form | hand-overs between pages. Who takes the mailed link finds the form | `Arrival` |
| Grants (`routers/permissions.ts`, `create-permission-panel.tsx`) | permissions, audit rows, the panel | batches that overlap and deadlock, a dialog over a form that changes. The log replays to the table | `Grants` |
| Identity of people, personal keys (`trpc/src/server/init.ts`, `auth.ts`) | session cookie cache, key rows, memberships | four reads, each of which may be stale. Served only if entitled since arrival | `Requests` |
| Rate limits (`rate-limit*.ts`, `auth.ts`) | fixed windows, a map that dampens audit rows | the edge of a window, the cap of the map | `RateLimit` |
| Lists and import (`pagination.ts`, `import-cmd.ts`) | keyset pages and cursors | rows that appear behind the cursor. Nothing that was there throughout is missed | `Listing` |
| Daemon (`packages/daemon`) | root key, auto-lock timer, mounted files, pid file, socket | awaits between the check and the act; two processes and one pid file | `Daemon` |
| SDK agent client, MCP server (`sdk/src/client.ts`, `packages/mcp`) | session token, refresh timer, mounted files | a refresh in flight across disconnect; three ways to delete a file | `AgentClient` |
| Running a command with secrets (`cli/run.ts`, `mcp/use-secret.ts`) | handles, payloads, environment, output | one step of several fails. All secrets or none | `SecretRun` |
| CLI (`packages/cli`) | config.json, key files, the session of the daemon | a file that is emptied before it is written | `Cli` |
| Dashboard vault (`vault-context.tsx`) | root keys, timers, the pending unlock | late answers of superseded requests | `WebVault` |
| Dashboard gate and onboarding (`(dashboard)/layout.tsx`) | the active organization, the cached list | redirects that chase each other. The gate settles | `DashboardShell` |
| Dashboard lists (`list-queries.ts`, the pages) | react-query's cache | invalidation against fetches in flight | `DashboardCache` |
| Releases (`scripts/releases`, `install.sh`) | main, the version pull request, releases, binaries | cancelled, failed and repeated runs | `Release` |

Not modelled: better-auth and its audit hooks, the primitives of cryptography
(ideal in every module), the schema as such, schemas and constants, the OpenAPI
and auth.md documents, the documentation site and the examples. `PROJECT.json`
lists every component with its status, and under `hazards` every place in the
code where something hard to test can go wrong, with the properties that would
notice.

## Modules

A component has one module. `MC*` modules instantiate them for TLC, `*Proofs`
hold theorems about the module they are named after. `OneTimeToken` is the
abstract specification of a token that is issued, and spent at most once: mount
handles (`AgentAccess`), bootstrap tokens and session challenges
(`AgentCredentials`), claim tokens (`AccountClaim`) and invitations (`Membership`)
instantiate it with a refinement mapping, and its `Spec` is what `HandleWorksOnce`,
`BootstrapWorksOnce`, `ChallengeWorksOnce`, `ClaimWorksOnce` and `InviteWorksOnce`
say.

A run may hold several models that have no variable in common. Then the MC
module EXTENDS the first and INSTANCEs the others, `part` says which of them a
behaviour is of, and the variables of the others rest: at `None`, or in an initial
state of theirs. Properties of an INSTANCEd part are named as
`part = "..." => M!Property`. Where there are proofs about INSTANCEd parts, the
joint specification is a module of its own, that the MC module and the proof
module both EXTEND: `VaultAndStorage` (`ZkVault` and `ServerProfile`),
`RequestsAndTabs` (`Requests`, `RateLimit` and `NewOrg`), `PeopleAndPages`
(`Membership` and `Arrival`), `VaultAndLists` (`WebVault` and `DashboardCache`) and
`AgentsAndAccounts` (`AgentCredentials`, `AgentClient` and `AccountClaim`). Their
theorems are about `Either` or `Each`, so about the very formula that TLC checks, or
about the specification of one part (`Claims!Spec`, `SP!Spec`).

`CommandRuns` and `ConfigCommands` only give `SecretRun` and `Cli` names that leave them
beside another module. `MCCli` checks the two together; `AgentAccessProofs` proves
about `SecretRun`, as `Command!Spec`, what becomes of the handles that `AgentAccess`
mints, and `HostProofs` about `Cli`, as `Config!Spec`, beside its proofs about `Daemon`:
what runs on the user's host. Each part of the run is one of these specifications
with the variables of the other at rest.

### How the modules correspond to the code

* On the server, a step is one SQL statement together with the code up to the
  next one. Where a transaction makes several statements visible at once, the last
  of them and the COMMIT are one step; what a transaction has written before is in
  a variable of its own (`tx` in `AgentAccess`, `call[r].made` in `Grants`) or
  follows from `stage`.
* In a browser tab, the SDK and the MCP server a step is one event: JavaScript runs
  to the next await, and React renders before the next event comes. In the daemon
  and the CLI it is one system call or one answer.
* `stage` says where each request is; its values name what comes next. A client
  that builds a request from rows it read has steps of its own.
* A row lock is a predicate on the stages of the requests that hold it (`Locked`,
  `TokenLocked`, `AgentLocked`, `WaitsFor`); the advisory lock of `ZkVault` is a
  variable, that of the personal cap a predicate (`HasOrgLock`). An UPDATE that
  waits reads its row when it gets it, so its WHERE clause (`Bindable`,
  `Exchangeable`, `FirstWriter`, `SameVersion`) is evaluated in the step that acts.
* ROLLBACK is possible wherever a transaction is open: a failed statement, a lost
  connection, a Worker that dies. A request that stops elsewhere takes no further
  step. Lost answers are actions of the clients.
* Clocks are either a step that may pass any deadline (`Expire`) or count in units
  of the schedule they drive (`AgentClient`, `Requests`, `RateLimit`).
* A command of `Cli` is a list of steps (`Program`) and the position it is at. What it
  is to write (`Writing`) empties the file first, since `writeFileSync` truncates it.
* Cryptography is ideal. A wrap is a record of the root it holds and of what is
  bound to it, a signature is the key that made it, a hash the value hashed.
* Requests are one-shot: a retry is another element of the set. Which operations
  are asked together is a constant (`Mixes`, `Asked`, `Endpoints`), so that an
  instance can hold many operations without holding all their combinations; the
  theorems are about any value of it.
* Modules share no variables. What one needs of another is the outcome: an agent of
  `AgentAccess` holds a session that `AgentCredentials` says how to earn, each call
  that `SecretRun` makes is one step of its own.

`map` in `PROJECT.json` gives for every definition the lines it stands for.

## Runs

| Run | Instance | Shows |
|---|---|---|
| `vault` | `ZkVault`: 2 clients, 1 item, key versions, contents and salts to 2; `ServerProfile`: 4 requests, 1 profile, item and 2 grants of old | no item under a retired root, no lost update, a rotation takes every live item with it; an active item opens, a grant lost with its profile is audited |
| `access` | one request to any endpoint, or a mint and two redeems; 3 items, bulk limit 2 | what is delivered was allowed and is logged, what is refused is logged, a handle delivers once |
| `credentials` | `AgentCredentials`: 1 agent; 2 keys, tokens, challenges, enrollments, exchanges; `AgentClient`: 2 calls, the schedule of the code in units of 30 s; `AccountClaim`: 2 accounts, codes, completions, addresses; 1 attempt | a session was paid for, a bootstrap token enrolls once; an expiry needs three failures; the owner read the code, no silent merge |
| `people` | `Membership`: 3 users, 3 requests; `Arrival`: 2 invitations | roles are capped by their givers, a removal sweeps, an invitation works once, the last owner is lost to overlaps only; the mailed link ends at the form |
| `requests` | `Requests`: 2 requests, 2 keys, 2 organizations; `RateLimit`: 2 addresses, 1 account; `NewOrg`: 2 tabs, 2 slugs | who is served was entitled; at most twice the limit in a window, unknown tokens are dampened; the active organization is one's own |
| `grants` | `Grants`: 3 calls, or 2 and the panel; `Listing`: 3 rows, pages of 1, a file of 2 entries; `Release`: 2 packages, 3 commits, 3 runs, 2 installations | the log replays to the table, a batch lands whole, read on a profile was confirmed; a walk misses nothing that was there; what is installed was released |
| `dashboard` | `WebVault`: 3 profiles of 2 organizations, 3 requests, 2 submissions; `DashboardCache`: each kind of list, 2 organizations, 1 change | keys are held under their own profile, keys and rows of another organization were under way when it changed, one's own changes are shown |
| `daemon` | 2 profiles, 3 commands | one daemon serves, every mounted file is accounted for, the vault locks at last |
| `cli` | `Cli`: 2 processes, 3 commands; `SecretRun`: 2 items, 1 command | the active profile is of the active organization, a recovery key opens its root; a command has all of its secrets |
| `live` | `AgentClient` as in `credentials`; `DashboardShell`: 2 users, 3 organizations | the client recovers, the gate settles |
| `daemon_root_key` | as `daemon` | refuted: "The root key itself is unchanged" (`docs/cli/profile-security.mdx:69`) |

**Why the bounds are enough.** Every property is about the meeting of two actors
(two clients, a handler and an admin, two holders of a token); two of each kind
give every order of their steps, and a third is there where the environment has to
move as well. Two key versions, contents or salts are one change of each, so that
something is stale. Three items against a limit of two reach both sides of the
limit with an item before the failure; three rows in pages of one put a row before,
at and behind the cursor. With one attempt a guess, a second in flight overshoots
the limit. A rate limit of one call in windows of three and four ticks of half a
second has calls at both edges of a window. The retry schedule, the lifetime of
sessions and the margin are those of the code; only the unit is coarser.

State CONSTRAINTs keep an instance to named scenarios rather than to fewer steps:
`MCAccess!Scenario` (one request, or a mint and its redeems, because no other handler
writes a row that another request reads), `MCRequests!Scenario` (one request while all
else changes, or two requests with keys; one tab at a time, or two that want one
slug), `MCGrants!Scenario` and `OneAtATime`, `MCCli!Bounds`,
`MCAgentCredentials!Scenario` (a completion brings a code that was mailed: that of
another claim is the wrong guess), `MCPeople!Setting` (of two that set roles beside a
third one is the first user). What they leave out is the product of scenarios that do
not touch each other's rows. Each is explained where it is defined. `VIEW`s (`MCCli`,
`MCDashboard`, `MCAgentCredentials`) drop variables that nothing later reads.

**Symmetry** is used for invariants, action properties and refinements without
fairness, over constants that no definition tells apart. The runs with fairness,
`daemon` and `live`, have none.

**Deadlock** is not checked: bounds and one-shot requests bring every model to a
state in which all has been answered.

**Fairness.** `AgentClient!Fairness`: timers fire, answers and file operations come,
clocks tick; nobody has to call, to release, or to bring the API back.
`DashboardShell!Fairness`: React runs its effects, the server answers, the minute of
a cached list passes; `SF` on the arrival of the list, since redirects that unmount
its reader do not cancel the request. `Daemon!FairSpec`: the auto-lock timer of a
running process fires, nothing else. `InvitedArrives` is an action property. That
Postgres serves the waiters of a lock is its own promise and not modelled.

### Further properties

These hold in the same models. They are defined beside the checked ones (the
definition says what each is about) and can be checked by adding the name to the
cfg of the run: `ContentBoundToRow`, `RootReplacedOncePerVersion`, `CheckedUnderLock`
(`ZkVault`); `NoPhantomAllow`, `ReservedIffAudited` (`AgentAccess`);
`SpentTokenEnrolled`, `ChallengeWorksOnce`, `KeyIsFinal` (`AgentCredentials`);
`GuessesCounted`, `OnlyExpiredCollected`, `ClaimWorksOnce` (`AccountClaim`);
`LastUsedNeverGoesBack` (`Requests`); `OneRowEach` (`Grants`); `OnlyPendingWaits`,
`KeysAreTimed` (`WebVault`); `SlotsHaveKeys`, `PinStays` (`Cli`); `SwitchesByOverlapOnly`
(`Daemon`); `LoopAlive`, `ToolsHaveToken`, `MountWindow`, `MountsEnd` (`AgentClient`, the last
one liveness); `BudgetCoversEncryptions`, `NoBlindUpdate` (`MCVault`); `ReportIsTrue`
(`CommandRuns`); `JoinsWhatWasShown` (`PeopleAndPages`);
`RetryAfterIsHonest`, `NeverStuckChecking` (`MCRequests`); `ImportAddsOnlyMissing`,
`ChangelogIsComplete`, `NeverOlder` (`MCGrants`). `PersonalCap` (`ServerProfile`),
`NotInDeleted` (`DashboardShell`), `SlotsHaveKeys` (`Cli`) and those of `AccountClaim` belong
to INSTANCEd parts and have to be named in the MC module first. Most of those of the
modules with proofs are theorems below (of `ServerProfile` and `Cli`, all).

## Proofs

| Module | Theorems (beside `Invariance` and `TypeCorrect`) |
|---|---|
| `ZkVaultProofs` | `LockProtectsRotation`, `NoItemLeftBehind`, `CiphertextMatchesRow`, `UpdatesNeverLost`, `RootReplacement`, `RotationComplete` |
| the same, of `ServerProfile` | `StorageInvariance`, `ItemsOpen`, `GrantsAudited`, `UpdatesAreBased`, `BudgetIsCounted`, `CapHolds`, `DataKeyIsFinal` |
| `AgentAccessProofs` | `DeliveryAudited`, `NoPhantom`, `RefusalAudited`, `ReservationAudited`, `DeliveryAllowed`, `HandlesWorkOnce` |
| the same, of `SecretRun` | `RunsHaveAll`, `ReportsAreTrue` |
| `AgentCredentialsProofs` | `TokensPayForKeys`, `SessionsAreEarned`, `KeysAreFinal`, `BootstrapsWorkOnce`, `ChallengesWorkOnce` |
| the same, of `AgentClient` | `ExpiriesAreEarned`, `LoopsLive`, `ToolsAreConnected`, `MountsHaveFiles` |
| the same, of `AccountClaim` | `OwnersProved`, `NoMerge`, `AllGuessesCounted`, `ExpiredCollected`, `ClaimsWorkOnce` |
| `MembershipProofs` | `RolesAreCapped`, `RemovalsSweep`, `LastOwnerIsRaced`, `InvitesWorkOnce` |
| the same, of `Arrival` | `LinksArrive`, `JoinersSaw` |
| `WebVaultProofs` | `HeldKeysAreOwn`, `EveryKeyIsTimed`, `ForeignKeysCameLate`, `PanelsAreAnswered` |
| the same, of `DashboardCache` | `ChangesAreShown`, `ForeignRowsCameLate` |
| `GrantsProofs` | `LogReplays`, `BatchesLandWhole`, `GrantsAreUnique`, `ReadsAreConfirmed` |
| `RequestsProofs` | `ServedIsEntitled`, `LastUsedAdvances`, `KeysStayRefused` |
| the same, of `RateLimit` and `NewOrg` | `TwiceAtMost`, `ProbesDampened`; `TabsAreOnTheirOwn` |
| `HostProofs`, of `Daemon` | `DaemonsAreSerial`, `FilesAreAccounted`, `SwitchesOverlap` |
| the same, of `Cli` | `ContextStaysAgreed`, `RecoveryStaysRoot`, `SlotsStayKeyed`, `PinIsKept` |

Each is `Spec => ` the property a run checks, or one of the further properties (of a
joint specification, `Either => ` or `Each => `; of `ServerProfile` alone, `SP!Spec =>
`; of `AccountClaim` alone, `Claims!Spec => `; of `SecretRun` and `Cli`, `Command!Spec
=> ` and `Config!Spec => `), from the ASSUMEs on the constants alone: that sentinels
are not members of the sets they stand beside, that sets of requests are disjoint,
that bounds, limits and windows are naturals, that no window is empty, that lists of
capabilities have no duplicates, and of the schedule of retries that its first two
delays fit into the margin and any two that follow each other into the life of a
session (30 s and 60 s into two minutes, 240 s and 300 s into fifteen, in the code).
No set is assumed finite, except the completions of `AccountClaim`, whose guesses are
counted. Five theorems are refinements of `OneTimeToken`.

Of the 40 properties that the passing runs check, 35 are theorems.

The argument is the same everywhere: an inductive invariant (`Invariance`), lemmas
about what one step changes, and one step of the proof for each action (or for
each effect an action can have, where many actions have the same), from which the
invariants follow and the action properties and refinements are proved. None of
the properties is inductive alone. What the strengthening adds:

* `ZkVault`: who is in a stage that holds the lock is the one in `lock`; what a
  handler read under it is the row's value still; after the coverage check no
  live item is missing, because a create needs the lock, a delete only shrinks
  the set and an update does not change it; a request's content is bound to the
  version it says it edits plus one.
* `AgentAccess`: a transaction holds rows of its request only; the rows still to
  insert, those in `tx` and those committed together are what the verdict needs,
  unless the transaction is unhealthy, in which case it cannot commit; the items
  resolved were live when the request was sent and covered by a grant recorded in
  `history`; a handle is consumed in one open transaction at a time.
* `AgentCredentials`: at most one enrollment has the row lock of a token or an
  agent; an enrollment that has claimed a token, or updated the agent's row, found
  it unspent, or without a key, and still does; the challenge an exchange has
  claimed was signed with the key the agent has, since a key never changes.
* `AccountClaim`: the code in a row, and the one a completion has loaded, name who
  they were mailed to; a row that a completion has claimed is held until the COMMIT;
  once an organization is collected nobody can hold it.
* `Membership`: a row appears in the last step of its request (`Bare`), so an id is
  in a table only once its maker is settled; an invitation offers no more than its
  inviter held (`InvitesCapped`), and an acceptance carries that role to the member
  row (`Joining`); who sets a role was an owner when checked (`SettersAreOwners`); a
  count of owners is about others than the target (`Counted`); what a cascade has
  not selected came late (`Selected`), and an agent or grant that is left has a
  member, or a leave under way, to answer for it (`Sweeps`).
* `WebVault`: the keys are proved by `KeysInv` (a submission that was sent for another
  organization is one that was under way when it changed) and the panels by
  `PromptInv` (only who has asked is fetched for, only the pending one waits).
* `DashboardCache`: for every organization, what a page is owed was made, the list
  is stale or shows it, and a request that has read its first page will show it
  (`Owes`); while the organization was not left under a request, list and request have
  its rows only, and the request goes on under its name (`Own`).
* `Arrival`: on the pages of sign-in and in every mail the link is the one the person
  came by, unless a detour was taken (`HandedOn`); an answer is about the token it was
  asked for, so what is shown under a token is its offer, and what is accepted is
  what was shown (`Displayed`).
* `Grants`: what a transaction has inserted and what it has left are its batch
  (`Building`), what it has deleted is what the revocation is about (`Deleting`), the
  rows of the log come from answered calls (`CreatedBy`, `RevokedWereCreated`), so
  that no row comes back behind its revocation; uniqueness extends to what is not
  committed (`Exclusive`). For the panel, the dialog asks about what is selected
  (`DialogIsTrue`): every change of the form drops it.
* `Requests`: a credential that was not good on arrival stays refused (`Earned`,
  which needs `CookiesEnd`: a cached cookie ends with its age whatever the session
  does), and while a request is under way its history holds every organization
  its user belongs to (`Remembered`), so that a role found at any moment names
  one of them (`Entitled`).
* `ServerProfile`: a request about to write has the data key of the row, or made
  one of its own for a profile that has none (`Keyed`), and then has the row locked,
  which one request has at a time (`OneLock`); what is in a profile that its
  deletion has found empty, or is granted on it behind the snapshot, came late
  (`Emptied`); the version an update has read tells the content, unless the script
  put an older one back (`Based`); a creation past the cap of a personal account is
  alone and finds no profile (`Capped`); rows and data keys have makers that have
  ended, so an id that is new is nowhere yet (`Rows`).
* `RateLimit`: of the calls of a bucket that are within a window of now, those of its
  present window are no more than its count and its limit, those of before are
  within the limit as well, and no call is older than both (`Bounded`): when a
  window opens, what was present becomes what was before, and all that was before
  has left the span. The entry of an address outlasts its last row by a window
  (`Entries`).
* `NewOrg`: what a submission has made, in whatever phase its answer is, is its
  person's own, with its profile (`TabInv`), and no step takes that from an
  organization (`OwnStays`); who loses the race for the slug has made nothing.
* `AgentClient`: each refresh to come, with its attempt and the time it has left, is
  reached before the session ends (`Reaches`): as one of the chain that began two
  minutes before, or, when an older chain is still under way after a reconnect, because the
  session was new at the first failure since. For the files, an entry and a file that is being
  written have not outlived the timer (`Mounted`).
* `SecretRun`: what a run has got and what it still waits for are together what it
  was given handles for, and the variables set are those of what it has resolved
  (`Collected`); a command is there only in the stages that follow (`InStep`), and what
  was written is what was kept until the cap is reached (`Reported`).
* `Daemon`: as long as no start or stop crossed another (`raced`), two processes are alive
  only while the second has still to see the first; who is past that check owns the
  pid file, who listens owns the socket (`Serial`), and whoever makes a key pair finds
  none, so the two halves on disk are one daemon's (`OnePair`). `SerialDaemons` is what
  follows for those that listen. `FilesInv` and `VaultInv` hold with races:
  only a process that listens has files, and an unlock that ends over a vault which
  is open already was under way when another ended.
* `Cli`: as long as commands did not mix (`mixed`), the settings there will be once the
  write that is under way is done agree with the session (`Orderly`, of `Coming`), but
  for `org use` between its two writes; commands that save what they read at their
  start hold what is in the file (`Keeping`). `ContextAgrees` speaks of the file at
  rest. An agent named in a slot, in a write or in the hands of a command has its key
  (`SlotsInv`), and a bootstrap stores the recovery key of the root that it stored
  (`RootsInv`), whatever mixes.

`history` (`AgentAccess`), `installed` (`ZkVault`), `given`, `held`, `late` and `unswept`
(`Membership`), `late` (`WebVault`), `since` (`Requests`), `wanted`,
`fails` and `lost` (`AgentClient`), `raced`, `overlap` and `spilt` (`Daemon`) and `mixed`
(`Cli`) are history variables: no guard reads them.

**What stays with TLC.**

* Liveness (`Recovers`, `GateSettles`, `VaultLocks`): fairness and ENABLED are out of
  reach of the prover.
* `WalkComplete` (`Listing`) and `InstalledIsReleased` (`Release`): they are about what a
  walk over a sequence, or a fold over commits, has computed, and need induction
  over data, which the installed provers cannot instantiate.
* Of the further properties, `RetryAfterIsHonest` (`RateLimit`: a wait rounded up to
  seconds), `NeverStuckChecking` (`NewOrg`: a form without an effect on anybody else),
  `NotInDeleted` (`DashboardShell`) and those of `MCGrants` (`Listing` and `Release`).
* The refuted properties are counterexamples of TLC.

## What the refuted run says

`daemon_root_key`: the daemon keeps one root key. `profile.changePassword` opens the
profile the command names and wraps the key in memory for it, whichever profile that
is of. With another profile unlocked, the new password opens a key that none of
the items of the profile is sealed under.

### Further counterexamples

Each of these definitions states a document or a comment of the repository, and
TLC refutes it: add it to the cfg, alone (those of INSTANCEd parts are named in the
MC module first).

| Definition | What happens |
|---|---|
| `ZkVault!MismatchFailsLoudly` | `changePassword` and `rotateKey` overlap; the UPDATE of the wrap matches by id, so a wrap of the retired root bound to the new key version can be stored. It opens, and what it opens no longer unwraps the items |
| `ZkVault!DekOpensContent` | a client lists the items, another updates one, the rotation of the first puts the older DEK beside the newer ciphertext |
| `AgentAccess!RevocationIsImmediate` | a handle is redeemed after the permission it was minted under was revoked |
| `AgentAccess!SinkRowsCommitted` | a row is mirrored after its INSERT; the transaction may roll back |
| `AccountClaim!ClaimedAccountKept` | the collection selects an expired claim, a completion that loaded the row before its expiry binds the owner, the DELETE by id removes the account just claimed |
| `Membership!OwnersRemain` | two owners remove or demote each other; both counts were taken before |
| `ServerProfile!BindKeepsWrites` | an update of an item without a profile leaves it without one, so the script's WHERE still matches and its older content is put back |
| `WebVault!ResolvesWithOwnKey` | the answer to a superseded request goes to whichever request is pending then |
| `DashboardShell!LandsInNewOrg` | the gate does not find the new organization in the list of before and adopts the first (`docs/dashboard/organizations.mdx:20`) |
| `DashboardShell!NothingInherited` | between clearing the cache and the end of the sign-out the list is fetched again (`nav-user.tsx:52`) |
| `Arrival!LinkSurvives` | the mail sent again, the link from registration to sign-in, a reset password and a failed social sign-in forget the invitation (`register/page.tsx:42`) |
| `NewOrg!TakenIsTaken` | the answer about an earlier slug comes last |
| `SecretRun!ServerManagedRunsLocked` | the daemon checks its session and its lock before it runs a command, whatever the items are (`docs/cli/run.mdx:45`) |
| `SecretRun!UngrantedLeftOut` | one item without a grant, and the call for the whole profile is refused instead of leaving it out (`docs/cli/run.mdx`) |
| `Grants!MessageIsTrue` | the panel explains an empty choice by a rule that is not the one that emptied it |
| `Grants!InvalidRejected` | `use` for a remote agent is accepted (`docs/dashboard/permissions.mdx`) |
| `MCGrants!SkippedOnlyIfNoRelease` | more than a hundred releases hide a package from the installer (with `PerPage` at 1) |

Other differences between the code and what is written about it, met while
modelling:

* A rotation that overlaps a password change can also leave a wrap that nobody can
  open, which is the loud case (`ENVELOPE_SPEC.md:101`).
* Legacy endpoints answer ITEM_NOT_FOUND without an audit row
  (`docs/SECURITY.md:335`); `RefusalIsAudited` is about the canonical endpoints. Rows
  written by cascades and by mint transactions are not mirrored (`SECURITY.md:333`).
* An exchange that read its agent before the revocation mints a session row
  afterwards (`routers/auth.ts:733`); every use reads the agent again.
* `account_claims.status` can go back to `otp_sent` on a claimed row.
* The limits of attempts, live challenges and agents are compared with what was read
  before the write, so requests in flight can pass them together. Personal keys
  survive the removal of a member.
* `permissions.create` accepts deleted items and revoked agents; access filters both.
  For profile targets the panel never shows "already granted", and its comments
  (505-509, 518-519) claim a check that `routers/permissions.ts:130-134` says does not
  exist. An answer that comes late resets and closes a panel opened again meanwhile.
  Two revocations of one row at once both log `permission.revoke`.
* `abadge item add` ignores the active profile (`docs/cli/profile.mdx:38`) and seals
  with whichever profile key is unlocked. `logout` saves the settings read at its
  start. A config file that is read while it is written counts as absent.
* `docs/cli/daemon.mdx:68`, "each RPC resets the timer": `exec.env` and `exec.mount` do
  not. The MCP client's `connected` flag is not reset after the session expired.
* A rename answered after switching sets the active organization back;
  `CreateAgentPanel`'s client sends no `X-Abadge-Org-Id` (`docs/dashboard/overview.mdx:22`);
  overview and onboarding can redirect to each other until the list ages.
* A lost answer to an acceptance, or to the creation of a personal account, makes the
  retry fail, or make a second one. A failed upload of a logo is shown as a failure
  to create the organization, which exists.
* The tag of a release is put on the head of `main` at its creation, not on the commit
  that was built; queued runs are cancelled, so a version may never be published.

## Not modelled

Formatting, serialization, routing and the libraries; the primitives of
cryptography; the text of audit rows beyond request, item and result; legacy
null-profile items of zero knowledge; agents that are orphans of a deleted owner;
fields of an item other than whether one is there; purposes and the size limit of
a payload; the dry run of `import`, the filters of the audit log; platforms and
mirrors of the installer, `publish-sdk.yml`; better-auth's routes for organizations;
layout, analytics and the fields of forms.

## Plan

1. *Done*: a module for every component above, their runs, and proofs of seventeen.
2. Left to the model checker: the three liveness properties, `Listing` and `Release`, for
   the reasons given under "What stays with TLC".
