------------------------------- MODULE Daemon -------------------------------
(***************************************************************************)
(* The vault daemon of one host and the commands that use it: the pid file *)
(* and the socket that name the running daemon, its identity on disk, its  *)
(* start and stop, and the calls that unlock, lock and use the profile key *)
(* it holds in memory.                                                     *)
(*                                                                         *)
(* Every file operation of a daemon and of a command is a step of its own, *)
(* except reads and removals of the pid file and the socket that follow    *)
(* each other.  A handler runs until it awaits the API.  `daemon start`    *)
(* spawns a process, which is known by the command.                        *)
(***************************************************************************)
EXTENDS Naturals, FiniteSets

CONSTANTS
  Profiles,
  Requests,   \* commands
  Old,        \* the daemon of the last login
  Mixes,      \* which commands are given together
  None

Ops == {"start", "serve", "stop", "login", "logout", "unlock", "lock", "changePassword", "addItem",
        "decrypt", "exec", "mount", "cleanup"}

ASSUME DaemonConstants ==
  /\ Old \notin Requests /\ None \notin Profiles \cup Requests \cup {Old}
  /\ Mixes \subseteq [Requests -> SUBSET Ops]

Daemons == Requests \cup {Old}

VARIABLES
  pidFile,   \* daemon.pid
  sock,      \* the daemon that created the socket file
  pubFile, keyFile,  \* daemon.pub and daemon.key: the daemon that generated each
  pinned,    \* the fingerprint in the CLI's configuration
  proc,      \* where each daemon process is
  told,      \* processes with a SIGTERM to come
  ident,     \* the keypair each daemon loaded
  auth,      \* daemons that hold a session
  vault,     \* the unlocked profile and the root key in each daemon's memory
  timer,     \* daemons whose auto-lock timer runs
  mounted,   \* mountedFiles of each daemon, by the command that asked
  files,     \* the mounted files on disk
  wraps,     \* the server: the root key that the profile's password opens
  items,     \* the server: the root key each stored item is sealed under
  op, stage, \* what each command does, and where it is
  on,        \* the profile it names
  at,        \* the daemon it is connected to
  seen,      \* the root key in the wrap it fetched, or the key it is about to store
  raced,     \* history: processes started, stopped or cleared while another was coming or going
  overlap,   \* history: unlocks that another unlock completed under
  spilt      \* history: files that a crashed daemon left

host == <<pidFile, sock, pubFile, keyFile, pinned, proc, told, ident>>
memory == <<auth, vault, timer, mounted, files>>
server == <<wraps, items>>
local == <<op, stage, on, at, seen>>
history == <<raced, overlap, spilt>>
vars == <<host, memory, server, local, history>>

-----------------------------------------------------------------------------

Starting == {"check", "clear", "pid", "identity", "pub", "key", "listen"}
Stages == {"unsent", "spawned", "clearing", "verified", "fetched", "put", "done", "refused"}

Keys == Profiles

TypeOK ==
  /\ {pidFile, sock, pubFile, keyFile, pinned} \subseteq Daemons \cup {None}
  /\ proc \in [Daemons -> {"none", "dead", "stranger", "listening"} \cup Starting]
  /\ told \subseteq Daemons
  /\ ident \in [Daemons -> [pub : Daemons \cup {None}, key : Daemons \cup {None}]]
  /\ auth \subseteq Daemons
  /\ vault \in [Daemons -> [profile : Profiles \cup {None}, key : Keys \cup {None}]]
  /\ timer \subseteq Daemons
  /\ mounted \in [Daemons -> SUBSET Requests]
  /\ files \subseteq Requests
  /\ wraps \in [Profiles -> Keys]
  /\ items \in [Requests -> [profile : Profiles \cup {None}, key : Keys \cup {None}]]
  /\ op \in [Requests -> Ops] /\ stage \in [Requests -> Stages]
  /\ on \in [Requests -> Profiles \cup {None}]
  /\ at \in [Requests -> Daemons \cup {None}]
  /\ seen \in [Requests -> Keys \cup {None}]
  /\ raced \in BOOLEAN /\ overlap \subseteq Requests /\ spilt \subseteq Requests

Nothing == [profile |-> None, key |-> None]

\* A home without a daemon, one that crashed, or one that runs.
Init ==
  /\ \E was \in {"none", "dead", "listening"} :
       LET there == IF was = "none" THEN None ELSE Old IN
       /\ pidFile = there /\ sock = there
       /\ pubFile = there /\ keyFile = there /\ pinned = there
       /\ proc = [d \in Daemons |-> IF d = Old THEN was ELSE "none"]
       /\ ident = [d \in Daemons |-> IF d = Old THEN [pub |-> there, key |-> there]
                                     ELSE [pub |-> None, key |-> None]]
       /\ auth = IF was = "listening" THEN {Old} ELSE {}
  /\ told = {}
  /\ vault = [d \in Daemons |-> Nothing]
  /\ timer = {}
  /\ mounted = [d \in Daemons |-> {}] /\ files = {}
  /\ wraps = [p \in Profiles |-> p]
  /\ items = [r \in Requests |-> Nothing]
  /\ op = [r \in Requests |-> "start"]
  /\ stage = [r \in Requests |-> "unsent"]
  /\ on = [r \in Requests |-> None]
  /\ at = [r \in Requests |-> None]
  /\ seen = [r \in Requests |-> None]
  /\ raced = FALSE /\ overlap = {} /\ spilt = {}

Goto(r, s) == stage' = [stage EXCEPT ![r] = s]

Given == {r \in Requests : stage[r] # "unsent"}

Gives(r, o) ==
  /\ stage[r] = "unsent"
  /\ \E mix \in Mixes : o \in mix[r] /\ \A s \in Given : op[s] \in mix[s]
  /\ op' = [op EXCEPT ![r] = o]

\* kill(pid, 0): whatever process has the pid now.
Exists(d) == d # None /\ proc[d] \notin {"none", "dead"}

\* isDaemonRunning
IsDaemonRunning == Exists(pidFile) /\ sock # None

\* daemonStatus answers: somebody listens on the socket.
Answers == sock # None /\ proc[sock] = "listening"

\* Daemons that are coming or going.
Unsettled(d) == proc[d] \in Starting \/ (proc[d] = "listening" /\ d \in told)

\* clearDaemonState
Clear == pidFile' = None /\ sock' = None

-----------------------------------------------------------------------------
(* lifecycle.ts: the daemon process *)

\* The process is gone, with all it held in memory.
Exit(d) ==
  /\ proc' = [proc EXCEPT ![d] = "dead"]
  /\ told' = told \ {d}
  /\ auth' = auth \ {d} /\ timer' = timer \ {d}
  /\ vault' = [vault EXCEPT ![d] = Nothing]
  /\ mounted' = [mounted EXCEPT ![d] = {}]

\* Mutant: the running daemon is not looked for.
StartsAnyway == TRUE

MayStart == ~IsDaemonRunning

\* startDaemon throws when a daemon is running.
CheckRunning(d) ==
  /\ proc[d] = "check"
  /\ proc' = [proc EXCEPT ![d] = IF MayStart THEN "clear" ELSE "dead"]
  /\ UNCHANGED <<pidFile, sock, pubFile, keyFile, pinned, told, ident, memory, server, local, history>>

ClearStale(d) ==
  /\ proc[d] = "clear"
  /\ Clear
  /\ proc' = [proc EXCEPT ![d] = "pid"]
  /\ UNCHANGED <<pubFile, keyFile, pinned, told, ident, memory, server, local, history>>

WritePid(d) ==
  /\ proc[d] = "pid"
  /\ pidFile' = d
  /\ proc' = [proc EXCEPT ![d] = "identity"]
  /\ UNCHANGED <<sock, pubFile, keyFile, pinned, told, ident, memory, server, local, history>>

\* loadOrCreateDaemonIdentity: both files, or a new pair.
LoadIdentity(d) ==
  /\ proc[d] = "identity"
  /\ IF pubFile # None /\ keyFile # None
       THEN /\ ident' = [ident EXCEPT ![d] = [pub |-> pubFile, key |-> keyFile]]
            /\ proc' = [proc EXCEPT ![d] = "listen"]
       ELSE proc' = [proc EXCEPT ![d] = "pub"] /\ UNCHANGED ident
  /\ UNCHANGED <<pidFile, sock, pubFile, keyFile, pinned, told, memory, server, local, history>>

WritePub(d) ==
  /\ proc[d] = "pub"
  /\ pubFile' = d
  /\ proc' = [proc EXCEPT ![d] = "key"]
  /\ UNCHANGED <<pidFile, sock, keyFile, pinned, told, ident, memory, server, local, history>>

WriteKey(d) ==
  /\ proc[d] = "key"
  /\ keyFile' = d
  /\ ident' = [ident EXCEPT ![d] = [pub |-> d, key |-> d]]
  /\ proc' = [proc EXCEPT ![d] = "listen"]
  /\ UNCHANGED <<pidFile, sock, pubFile, pinned, told, memory, server, local, history>>

\* The socket file is removed, whoever listens on it, and created again.
Listen(d) ==
  /\ proc[d] = "listen"
  /\ sock' = d
  /\ proc' = [proc EXCEPT ![d] = "listening"]
  /\ UNCHANGED <<pidFile, pubFile, keyFile, pinned, told, ident, memory, server, local, history>>

\* startServer throws: the state is cleared, whoever it names.
FailToStart(d) ==
  /\ proc[d] \in {"identity", "pub", "key", "listen"}
  /\ Clear /\ Exit(d)
  /\ raced' = (raced \/ \E e \in Daemons \ {d} : Exists(e))
  /\ UNCHANGED <<pubFile, keyFile, pinned, ident, files, server, local, overlap, spilt>>

\* Mutant: close() forgets the mounted files.
LeavesFiles(d) == files

FilesLeft(d) == files \ mounted[d]

\* The handler of SIGTERM; before it is there the process just ends.  The socket
\* and the pid file go, whoever they name by now.
Terminate(d) ==
  /\ d \in told
  /\ Exit(d)
  /\ IF proc[d] = "listening"
       THEN Clear /\ files' = FilesLeft(d)
       ELSE UNCHANGED <<pidFile, sock, files>>
  /\ UNCHANGED <<pubFile, keyFile, pinned, ident, server, local, history>>

\* The daemon crashes; the files it mounted stay.
Crash(d) ==
  /\ proc[d] \in Starting \cup {"listening"}
  /\ Exit(d)
  /\ spilt' = spilt \cup mounted[d]
  /\ UNCHANGED <<pidFile, sock, pubFile, keyFile, pinned, ident, files, server, local, raced,
                 overlap>>

\* An unrelated process gets the pid of the dead daemon.
Recycle ==
  /\ proc[Old] = "dead" /\ pidFile = Old
  /\ proc' = [proc EXCEPT ![Old] = "stranger"]
  /\ UNCHANGED <<pidFile, sock, pubFile, keyFile, pinned, told, ident, memory, server, local, history>>

-----------------------------------------------------------------------------
(* commands/daemon.ts *)

Finds(r) == UNCHANGED <<pubFile, keyFile, pinned, ident, memory, server, on, at, seen, overlap,
                         spilt>>

\* Somebody else is alive, other than the process the command acts on.
Crosses(d) == raced \/ \E e \in Daemons \ {d} : Exists(e) /\ proc[e] # "stranger"

\* ensureDaemonStarted: a daemon that runs and answers is kept.
FindRunning(r) ==
  /\ Gives(r, "start") /\ IsDaemonRunning /\ Answers
  /\ Goto(r, "done")
  /\ UNCHANGED <<pidFile, sock, proc, told, raced>> /\ Finds(r)

\* It runs and does not answer: its state is cleared before another is spawned.
FindSilent(r) ==
  /\ Gives(r, "start") /\ IsDaemonRunning /\ ~Answers
  /\ Goto(r, "clearing")
  /\ UNCHANGED <<pidFile, sock, proc, told, raced>> /\ Finds(r)

\* `daemon serve` runs in the foreground, whatever runs already.
Spawn(r) ==
  /\ \/ Gives(r, "start") /\ ~IsDaemonRunning /\ Goto(r, "spawned")
     \/ Gives(r, "serve") /\ Goto(r, "done")
  /\ proc' = [proc EXCEPT ![r] = "check"]
  /\ raced' = (raced \/ \E e \in Daemons : Unsettled(e))
  /\ UNCHANGED <<pidFile, sock, told>> /\ Finds(r)

ClearAndSpawn(r) ==
  /\ stage[r] = "clearing"
  /\ Clear
  /\ proc' = [proc EXCEPT ![r] = "check"]
  /\ raced' = Crosses(None)
  /\ Goto(r, "spawned")
  /\ UNCHANGED <<op, told>> /\ Finds(r)

\* waitForDaemonReady
Ready(r) ==
  /\ stage[r] = "spawned" /\ IsDaemonRunning /\ Answers
  /\ Goto(r, "done")
  /\ UNCHANGED <<pidFile, sock, proc, told, op, raced>> /\ Finds(r)

Exited(r) ==
  /\ stage[r] = "spawned" /\ ~Exists(r) /\ ~IsDaemonRunning
  /\ Clear /\ Goto(r, "refused")
  /\ raced' = Crosses(r)
  /\ UNCHANGED <<proc, told, op>> /\ Finds(r)

\* Thirty attempts: the child is told to end and the state cleared.
TimesOut(r) ==
  /\ stage[r] = "spawned"
  /\ told' = IF Exists(r) THEN told \cup {r} ELSE told
  /\ Clear /\ Goto(r, "refused")
  /\ raced' = Crosses(r)
  /\ UNCHANGED <<proc, op>> /\ Finds(r)

\* stopDaemon: whatever has the pid is told to end, and the state is cleared.
Stop(r) ==
  /\ Gives(r, "stop")
  /\ told' = IF IsDaemonRunning /\ proc[pidFile] # "stranger" THEN told \cup {pidFile} ELSE told
  /\ proc' = IF IsDaemonRunning /\ proc[pidFile] = "stranger"
               THEN [proc EXCEPT ![pidFile] = "dead"] ELSE proc
  /\ raced' = Crosses(IF IsDaemonRunning THEN pidFile ELSE None)
  /\ Clear /\ Goto(r, "done")
  /\ Finds(r)

-----------------------------------------------------------------------------
(* client.ts: each call is a connection of its own, after a handshake on another *)

Calls == Ops \ {"start", "serve", "stop"}

\* What no secret is sent with is called without a handshake.
Open == {"lock", "logout", "cleanup"}

Call(r) ==
  /\ \E o \in Open : Gives(r, o)
  /\ Goto(r, "verified")
  /\ UNCHANGED <<host, memory, server, on, at, seen, history>>

\* performHandshake: the signature must match the public key that is shown, and
\* that key the one that is pinned.
Accepts(shown) == shown.pub = shown.key /\ pinned \in {None, shown.pub}

\* The commands that name a profile: the active one, or an item's.
Naming == {"unlock", "changePassword", "addItem", "decrypt", "exec"}

\* ensureVerified.  The first key that is shown is pinned.
Verify(r) ==
  /\ \E o \in Calls \ Open :
       /\ Gives(r, o)
       /\ IF o \in Naming THEN \E p \in Profiles : on' = [on EXCEPT ![r] = p] ELSE UNCHANGED on
  /\ IF Answers /\ Accepts(ident[sock])
       THEN Goto(r, "verified") /\ pinned' = ident[sock].pub
       ELSE Goto(r, "refused") /\ UNCHANGED pinned
  /\ UNCHANGED <<pidFile, sock, pubFile, keyFile, proc, told, ident, memory, server, at, seen,
                 history>>

\* The call cannot connect.
Unreached(r) ==
  /\ stage[r] = "verified" /\ ~Answers
  /\ Goto(r, "refused")
  /\ UNCHANGED <<host, memory, server, op, on, at, seen, history>>

\* The daemon of the connection is gone: the call never returns.
Hangs(r) ==
  /\ stage[r] \in {"fetched", "put"} /\ proc[at[r]] # "listening"
  /\ Goto(r, "refused")
  /\ UNCHANGED <<host, memory, server, op, on, at, seen, history>>

Unlocked(d) == vault[d] # Nothing

\* The call o of r reaches the daemon on the socket.
Reaches(r, o) == stage[r] = "verified" /\ op[r] = o /\ Answers

\* A handler that does not await.
Returns(r) == UNCHANGED <<host, server, op, on, at, seen, history>>

SetSession(r) ==
  /\ Reaches(r, "login")
  /\ auth' = auth \cup {sock}
  /\ Goto(r, "done") /\ Returns(r)
  /\ UNCHANGED <<vault, timer, mounted, files>>

\* The session goes; the vault stays as it is.
ClearSession(r) ==
  /\ Reaches(r, "logout")
  /\ auth' = auth \ {sock}
  /\ Goto(r, "done") /\ Returns(r)
  /\ UNCHANGED <<vault, timer, mounted, files>>

SessionExpires ==
  /\ \E d \in auth : auth' = auth \ {d}
  /\ UNCHANGED <<host, vault, timer, mounted, files, server, local, history>>

\* VaultState.lock, by a call or by the timer.
Locks(d) ==
  /\ vault' = [vault EXCEPT ![d] = Nothing]
  /\ timer' = timer \ {d}

Lock(r) ==
  /\ Reaches(r, "lock")
  /\ Locks(sock)
  /\ Goto(r, "done") /\ Returns(r)
  /\ UNCHANGED <<auth, mounted, files>>

AutoLock(d) ==
  /\ d \in timer
  /\ Locks(d)
  /\ UNCHANGED <<host, auth, mounted, files, server, local, history>>

MayUnlock(d) == ~Unlocked(d) /\ d \in auth

\* vault.unlock and vault.changePassword check the vault and the session, then
\* await the profile.
Fetch(r) ==
  /\ \/ Reaches(r, "unlock") /\ MayUnlock(sock)
     \/ Reaches(r, "changePassword") /\ Unlocked(sock) /\ sock \in auth
  /\ at' = [at EXCEPT ![r] = sock]
  /\ seen' = [seen EXCEPT ![r] = wraps[on[r]]]
  /\ Goto(r, "fetched")
  /\ UNCHANGED <<host, memory, server, op, on, history>>

RefuseFetch(r) ==
  /\ \/ Reaches(r, "unlock") /\ ~MayUnlock(sock)
     \/ Reaches(r, "changePassword") /\ ~(Unlocked(sock) /\ sock \in auth)
  /\ Goto(r, "refused")
  /\ UNCHANGED <<host, memory, server, op, on, at, seen, history>>

\* No profile, a password that is wrong, or the API fails.
FetchFails(r) ==
  /\ stage[r] \in {"fetched", "put"}
  /\ Goto(r, "refused")
  /\ UNCHANGED <<host, memory, server, op, on, at, seen, history>>

\* The vault is not looked at again: what another call opened is replaced, and
\* what a lock closed is opened.
Unlock(r) ==
  /\ stage[r] = "fetched" /\ op[r] = "unlock" /\ proc[at[r]] = "listening"
  /\ vault' = [vault EXCEPT ![at[r]] = [profile |-> on[r], key |-> seen[r]]]
  /\ timer' = timer \cup {at[r]}
  /\ overlap' = overlap \cup
       {s \in Requests \ {r} : op[s] = "unlock" /\ stage[s] = "fetched" /\ at[s] = at[r]}
  /\ Goto(r, "done")
  /\ UNCHANGED <<host, auth, mounted, files, server, op, on, at, seen, raced, spilt>>

\* The old password opens the profile that is named; the key that is wrapped is
\* the one in memory.
Rewrap(r) ==
  /\ stage[r] = "fetched" /\ op[r] = "changePassword" /\ proc[at[r]] = "listening"
  /\ LET d == at[r] IN
     IF Unlocked(d)
       THEN /\ seen' = [seen EXCEPT ![r] = vault[d].key]
            /\ timer' = timer \cup {d}
            /\ Goto(r, IF d \in auth THEN "put" ELSE "refused")
       ELSE Goto(r, "refused") /\ UNCHANGED <<seen, timer>>
  /\ UNCHANGED <<host, auth, vault, mounted, files, server, op, on, at, history>>

PutPassword(r) ==
  /\ stage[r] = "put" /\ op[r] = "changePassword"
  /\ wraps' = [wraps EXCEPT ![on[r]] = seen[r]]
  /\ Goto(r, "done")
  /\ UNCHANGED <<host, memory, items, op, on, at, seen, history>>

\* Mutant: the timer is cleared for the use and not started again.
StopsTimer(d) == timer \ {d}

RestartsTimer(d) == timer \cup {d}

\* item.encrypt: with the key in memory, for the first zero-knowledge profile that
\* is listed or the profile of the item that is updated ...
Encrypt(r) ==
  /\ Reaches(r, "addItem")
  /\ IF Unlocked(sock)
       THEN /\ seen' = [seen EXCEPT ![r] = vault[sock].key]
            /\ timer' = RestartsTimer(sock)
            /\ Goto(r, "put")
       ELSE Goto(r, "refused") /\ UNCHANGED <<seen, timer>>
  /\ at' = [at EXCEPT ![r] = sock]
  /\ UNCHANGED <<host, auth, vault, mounted, files, server, op, on, history>>

\* ... and the command stores it.
CreateItem(r) ==
  /\ stage[r] = "put" /\ op[r] = "addItem"
  /\ items' = [items EXCEPT ![r] = [profile |-> on[r], key |-> seen[r]]]
  /\ Goto(r, "done")
  /\ UNCHANGED <<host, memory, wraps, op, on, at, seen, history>>

\* VaultState.decrypt: an item opens to the key of its own profile.
OpensItemsOf(d, p) == vault[d].key = p

\* item.decrypt
Decrypt(r) ==
  /\ Reaches(r, "decrypt")
  /\ IF OpensItemsOf(sock, on[r])
       THEN timer' = RestartsTimer(sock) /\ Goto(r, "done")
       ELSE Goto(r, "refused") /\ UNCHANGED timer
  /\ Returns(r) /\ UNCHANGED <<auth, vault, mounted, files>>

\* exec.env, or a payload that the API decrypted: the vault's timer goes on.
InTheClear(r) == Goto(r, "done") /\ UNCHANGED timer

\* exec.envBulk: every zero-knowledge item is decrypted before the child is started.
AfterDecrypting(r) ==
  IF OpensItemsOf(sock, on[r])
    THEN timer' = RestartsTimer(sock) /\ Goto(r, "done")
    ELSE Goto(r, "refused") /\ UNCHANGED timer

\* exec.expandEnv and the others want a session and an unlocked vault.
Exec(r) ==
  /\ Reaches(r, "exec")
  /\ IF Unlocked(sock) /\ sock \in auth
       THEN InTheClear(r) \/ AfterDecrypting(r)
       ELSE Goto(r, "refused") /\ UNCHANGED timer
  /\ Returns(r) /\ UNCHANGED <<auth, vault, mounted, files>>

\* exec.mount and exec.cleanup want a session and an unlocked vault.
Mount(r) ==
  /\ Reaches(r, "mount")
  /\ IF Unlocked(sock) /\ sock \in auth
       THEN /\ mounted' = [mounted EXCEPT ![sock] = @ \cup {r}]
            /\ files' = files \cup {r}
            /\ Goto(r, "done")
       ELSE Goto(r, "refused") /\ UNCHANGED <<mounted, files>>
  /\ Returns(r) /\ UNCHANGED <<auth, vault, timer>>

Cleanup(r) ==
  /\ Reaches(r, "cleanup")
  /\ IF Unlocked(sock) /\ sock \in auth /\ mounted[sock] # {}
       THEN \E f \in mounted[sock] : /\ mounted' = [mounted EXCEPT ![sock] = @ \ {f}]
                                     /\ files' = files \ {f}
                                     /\ Goto(r, "done")
       ELSE Goto(r, "refused") /\ UNCHANGED <<mounted, files>>
  /\ Returns(r) /\ UNCHANGED <<auth, vault, timer>>

-----------------------------------------------------------------------------

Process(d) ==
  \/ CheckRunning(d) \/ ClearStale(d) \/ WritePid(d) \/ LoadIdentity(d) \/ WritePub(d)
  \/ WriteKey(d) \/ Listen(d) \/ FailToStart(d) \/ Terminate(d) \/ Crash(d) \/ AutoLock(d)

Command(r) ==
  \/ FindRunning(r) \/ FindSilent(r) \/ Spawn(r) \/ ClearAndSpawn(r) \/ Ready(r)
  \/ Exited(r) \/ TimesOut(r) \/ Stop(r)
  \/ Call(r) \/ Verify(r) \/ Unreached(r) \/ Hangs(r) \/ SetSession(r) \/ ClearSession(r) \/ Lock(r)
  \/ Fetch(r) \/ RefuseFetch(r) \/ FetchFails(r) \/ Unlock(r) \/ Rewrap(r) \/ PutPassword(r)
  \/ Encrypt(r) \/ CreateItem(r) \/ Decrypt(r) \/ Exec(r) \/ Mount(r) \/ Cleanup(r)

Next ==
  \/ Recycle \/ SessionExpires
  \/ \E d \in Daemons : Process(d)
  \/ \E r \in Requests : Command(r)

Spec == Init /\ [][Next]_vars

\* The timer of a running process fires.
FairSpec == Spec /\ \A d \in Daemons : WF_vars(AutoLock(d))

-----------------------------------------------------------------------------
(* Properties *)

\* lifecycle.ts startDaemon, "Throws if another daemon is already running": as
\* long as no daemon is started, stopped or cleared while another one is coming
\* or going, every daemon that listens can be reached by the pid file and the
\* socket, and the key pair on disk is one pair that the CLI accepts.
SerialDaemons ==
  ~raced =>
    /\ \A d \in Daemons : proc[d] = "listening" /\ d \notin told => pidFile = d /\ sock = d
    /\ \A d \in Daemons : proc[d] = "listening" =>
         Accepts(ident[d])

\* server.ts vault.unlock, VAULT_ALREADY_UNLOCKED: the daemon goes from one
\* profile's key to another's only through an unlock that was already under way
\* when the other one opened the vault.
SwitchesByOverlapOnly ==
  [][ \A d \in Daemons : vault[d] # Nothing /\ vault'[d] # Nothing /\ vault'[d] # vault[d] =>
        \E r \in overlap : at[r] = d /\ stage[r] = "fetched" /\ stage'[r] = "done" ]_vars

\* cli/daemon.mdx, auto-lock: whatever is unlocked, used, locked and unlocked
\* again, the key does not stay in memory.
VaultLocks == \A d \in Daemons : []<>(vault[d] = Nothing)

\* server.ts close, cli/daemon.mdx:61 "Any mounted secret files are released and
\* deleted": however daemons are stopped, a file on disk is one that a living
\* daemon still knows, or that a crashed one left.
FilesAccounted == files \subseteq spilt \cup UNION {mounted[d] : d \in Daemons}

\* cli/profile-security.mdx:69, "The root key itself is unchanged - every existing
\* item remains decryptable".  Refuted: the password of the active profile is put
\* on the key of the profile that was unlocked.
RootKeyUnchanged == \A p \in Profiles : wraps[p] = p
=============================================================================
