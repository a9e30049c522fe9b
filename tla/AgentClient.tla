------------------------------ MODULE AgentClient ------------------------------
(***************************************************************************)
(* One process that holds an AbadgeAgentClient: an application that        *)
(* connects and disconnects it as it likes, or the MCP server, which       *)
(* connects it at the first tool call and keeps the files that             *)
(* mount_secret wrote until they are released or five minutes old.         *)
(*                                                                         *)
(* JavaScript runs to the next await, so an action is what happens between *)
(* two awaits.  A session exchange is in flight from its first request to  *)
(* its last answer, and anything that does not wait for it may happen      *)
(* meanwhile.                                                              *)
(*                                                                         *)
(* The clocks tick in the units of the retry schedule (sessions) and of    *)
(* the sweep (files).  A tick waits for the timers that are due and for    *)
(* the answers in flight: a request is answered within a unit.             *)
(***************************************************************************)
EXTENDS Naturals, Sequences

CONSTANTS
  Calls,       \* tool calls, or the application's calls
  Ttl,         \* AGENT_SESSION_TTL
  Margin,      \* the two minutes before the expiry
  Delays,      \* REFRESH_RETRY_SCHEDULE_MS
  MountTtl, OrphanAge,  \* when a mount is cleaned up, when a sweep takes a file
  MaxFlights,  \* bounds the refreshes in flight with one attempt number
  MaxCrashes,  \* bounds the crashes of the process
  None         \* no timer armed

Attempts == 0..Len(Delays)

Timer == [attempt : Attempts, due : Nat]

\* The margin is longer than the first two delays, a session than any two that follow
\* each other.
ClientConstants ==
  /\ Delays \in Seq(Nat \ {0}) /\ None \notin Timer
  /\ {Ttl, Margin, MountTtl, OrphanAge, MaxFlights, MaxCrashes} \subseteq Nat
  /\ 0 < Margin /\ Margin < Ttl /\ 0 < MountTtl /\ MountTtl < OrphanAge
  /\ Len(Delays) >= 3 /\ Delays[1] + Delays[2] < Margin
  /\ \A a \in 2..Len(Delays) : Delays[a - 1] + Delays[a] < Ttl
ASSUME AgentClientConstants == ClientConstants

VARIABLES
  host,        \* "app" or "mcp": who holds the client
  up, active,  \* the API answers; the agent is not revoked
  token,       \* the client holds a session token
  left,        \* how long the server still accepts it
  timer,       \* refreshTimer: the attempt it starts and when
  refreshing,  \* how many refreshes are in flight, by attempt
  expired,     \* sessionExpired
  connected,   \* the MCP server's flag
  op, stage,   \* each call: what it does, where it is
  entry,       \* activeMounts: the calls whose file has an entry and a timer
  file,        \* the calls whose file is on disk
  age,         \* and how old it is
  deleting,    \* files whose unlink is under way
  crashes,
  wanted,      \* history: a connect succeeded and no other connect or disconnect came since
  fails,       \* history: exchanges that failed since the last that succeeded
  lost         \* history: files whose process died, or whose write or unlink failed

session == <<up, active, token, left, timer, refreshing, expired, wanted, fails>>
mounts == <<entry, file, age, deleting, lost>>
vars == <<host, session, connected, op, stage, mounts, crashes>>

Stages == {"idle", "connecting", "using", "redeeming", "writing", "registering", "done", "failed"}

TypeOK ==
  /\ host \in {"app", "mcp"}
  /\ {up, active, token, expired, connected, wanted} \subseteq BOOLEAN
  /\ left \in 0..Ttl
  /\ timer \in Timer \cup {None}
  /\ refreshing \in [Attempts -> 0..MaxFlights]
  /\ op \in [Calls -> {"use", "mount"}] /\ stage \in [Calls -> Stages]
  /\ {entry, file, deleting, lost} \subseteq SUBSET Calls
  /\ age \in [Calls -> 0..OrphanAge]
  /\ crashes \in 0..MaxCrashes
  /\ fails \in 0..Len(Delays)

Init ==
  /\ host \in {"app", "mcp"}
  /\ up = TRUE /\ active = TRUE
  /\ token = FALSE /\ left = 0 /\ timer = None /\ expired = FALSE
  /\ refreshing = [a \in Attempts |-> 0]
  /\ connected = FALSE
  /\ op \in [Calls -> {"use", "mount"}] /\ stage = [c \in Calls |-> "idle"]
  /\ entry = {} /\ file = {} /\ deleting = {} /\ lost = {}
  /\ age = [c \in Calls |-> 0]
  /\ crashes = 0
  /\ wanted = FALSE /\ fails = 0

Goto(c, s) == stage' = [stage EXCEPT ![c] = s]

-----------------------------------------------------------------------------
\* The session of the client.

\* Mutant: no margin.
RefreshesAtExpiry == Ttl
\* scheduleRefreshFromExpiry, right after an exchange: the timer of old is replaced.
RefreshDue == Ttl - Margin
Scheduled == [attempt |-> 0, due |-> RefreshDue]

\* exchangeSessionOnce got its two answers.
Exchanged ==
  /\ up /\ active
  /\ token' = TRUE /\ left' = Ttl /\ fails' = 0
  /\ timer' = Scheduled

\* It threw: the API is down, or refuses a revoked agent.
NotExchanged ==
  /\ ~(up /\ active)
  /\ fails' = IF fails < Len(Delays) THEN fails + 1 ELSE fails
  /\ UNCHANGED <<token, left>>

\* connect(): sessionExpired is reset before the exchange is sent.
StartsConnecting(c) ==
  /\ expired' = FALSE
  /\ wanted' = FALSE
  /\ Goto(c, "connecting")
  /\ UNCHANGED <<up, active, token, left, timer, refreshing, fails>>

ConnectSucceeds(c) ==
  /\ stage[c] = "connecting"
  /\ Exchanged
  /\ wanted' = TRUE
  /\ connected' = (host = "mcp")
  /\ Goto(c, IF host = "mcp" THEN "using" ELSE "done")
  /\ UNCHANGED <<host, up, active, refreshing, expired, op, mounts, crashes>>

ConnectFails(c) ==
  /\ stage[c] = "connecting"
  /\ NotExchanged
  /\ Goto(c, "failed")
  /\ UNCHANGED <<host, up, active, timer, refreshing, expired, wanted, connected, op, mounts,
                 crashes>>

\* The application disconnects: the timer is cleared, what is in flight is not.
Disconnect ==
  /\ host = "app" /\ token
  /\ timer' = None
  /\ wanted' = FALSE
  /\ UNCHANGED <<host, up, active, token, left, refreshing, expired, fails, connected, op, stage,
                 mounts, crashes>>

\* The timer fires: refreshOnce(attempt) sends its exchange.
TimerFires ==
  /\ timer # None
  /\ timer.due = 0
  /\ refreshing[timer.attempt] < MaxFlights
  /\ refreshing' = [refreshing EXCEPT ![timer.attempt] = @ + 1]
  /\ timer' = None
  /\ UNCHANGED <<host, up, active, token, left, expired, wanted, fails, connected, op, stage,
                 mounts, crashes>>

Lands(a) ==
  /\ refreshing[a] > 0
  /\ refreshing' = [refreshing EXCEPT ![a] = @ - 1]

RefreshSucceeds(a) ==
  /\ Lands(a)
  /\ Exchanged
  /\ UNCHANGED <<host, up, active, expired, wanted, connected, op, stage, mounts, crashes>>

\* Mutant: a refresh that failed arms nothing.
NoRetry(a) == None
\* The retry that follows a refresh that failed.
RetryAfter(a) == [attempt |-> a + 1, due |-> Delays[a + 1]]

RefreshFails(a) ==
  /\ Lands(a)
  /\ NotExchanged
  /\ IF a < Len(Delays)
       THEN timer' = RetryAfter(a) /\ UNCHANGED expired
       ELSE expired' = TRUE /\ UNCHANGED timer
  /\ UNCHANGED <<host, up, active, wanted, connected, op, stage, mounts, crashes>>

InFlight == (\E a \in Attempts : refreshing[a] > 0) \/ (\E c \in Calls : stage[c] = "connecting")

SessionTick ==
  /\ ~InFlight
  /\ timer # None => timer.due > 0
  /\ left > 0
  /\ left' = left - 1
  /\ timer' = IF timer = None THEN None ELSE [timer EXCEPT !.due = @ - 1]
  /\ UNCHANGED <<host, up, active, token, refreshing, expired, wanted, fails, connected, op, stage,
                 mounts, crashes>>

\* The session is dead: only the retries' clock matters any more.
RetryTick ==
  /\ ~InFlight
  /\ left = 0 /\ timer # None
  /\ timer.due > 0
  /\ timer' = [timer EXCEPT !.due = @ - 1]
  /\ UNCHANGED <<host, up, active, token, left, refreshing, expired, wanted, fails, connected, op,
                 stage, mounts, crashes>>

\* The API goes away and comes back; the agent is revoked, and its sessions with it.
ApiChanges ==
  /\ up' = ~up
  /\ UNCHANGED <<host, active, token, left, timer, refreshing, expired, wanted, fails, connected,
                 op, stage, mounts, crashes>>

AgentRevoked ==
  /\ active
  /\ active' = FALSE /\ left' = 0
  /\ UNCHANGED <<host, up, token, timer, refreshing, expired, wanted, fails, connected, op, stage,
                 mounts, crashes>>

-----------------------------------------------------------------------------
\* The calls.

\* An application's call: a connect, or an operation right away.
AppCall(c) ==
  /\ host = "app" /\ stage[c] = "idle"
  /\ \/ StartsConnecting(c)
     \/ Goto(c, "using") /\ UNCHANGED session
  /\ UNCHANGED <<host, connected, op, mounts, crashes>>

\* getApiClient: the flag is set when connect() has returned.
Ready == connected

ToolCall(c) ==
  /\ host = "mcp" /\ stage[c] = "idle"
  /\ IF Ready THEN Goto(c, "using") /\ UNCHANGED session
              ELSE StartsConnecting(c)
  /\ UNCHANGED <<host, connected, op, mounts, crashes>>

\* authedCall, and the server's answer to the bearer.
Authorized == ~expired /\ up /\ active /\ token /\ left > 0

\* access.use, then access.redeemMount; each may also be denied.  use_secret runs
\* its command with the secret, mount_secret goes on to write it.
Access(c) ==
  /\ stage[c] \in {"using", "redeeming"}
  /\ IF stage[c] = "using"
       THEN Goto(c, "redeeming")
       ELSE Goto(c, IF host = "mcp" /\ op[c] = "mount" THEN "writing" ELSE "done")
  /\ Authorized
  /\ UNCHANGED <<host, session, connected, op, mounts, crashes>>

AccessFails(c) ==
  /\ stage[c] \in {"using", "redeeming"}
  /\ Goto(c, "failed")
  /\ UNCHANGED <<host, session, connected, op, mounts, crashes>>

\* mount_secret: mkdir and writeFile.  A write that fails may leave a part behind.
WriteFile(c) ==
  /\ stage[c] = "writing"
  /\ \/ Goto(c, "registering") /\ file' = file \cup {c} /\ UNCHANGED lost
     \/ Goto(c, "failed") /\ file' = file \cup {c} /\ lost' = lost \cup {c}
     \/ Goto(c, "failed") /\ UNCHANGED <<file, lost>>
  /\ age' = [age EXCEPT ![c] = 0]
  /\ UNCHANGED <<host, session, connected, op, entry, deleting, crashes>>

Register(c) ==
  /\ stage[c] = "registering"
  /\ entry' = entry \cup {c}
  /\ Goto(c, "done")
  /\ UNCHANGED <<host, session, connected, op, file, age, deleting, lost, crashes>>

\* The entry goes, and with it the file: releaseMount, or the five-minute timer.
Ends(c) ==
  /\ c \in entry
  /\ entry' = entry \ {c}
  /\ deleting' = deleting \cup {c}
  /\ UNCHANGED <<host, session, connected, op, stage, file, age, lost, crashes>>

ReleaseMount(c) == Ends(c)

MountTimer(c) == age[c] >= MountTtl /\ Ends(c)

\* cleanupMount ends; an unlink that fails is ignored.
Unlinked(c) ==
  /\ c \in deleting
  /\ deleting' = deleting \ {c}
  /\ \/ file' = file \ {c} /\ UNCHANGED lost
     \/ lost' = lost \cup (file \cap {c}) /\ UNCHANGED file
  /\ UNCHANGED <<host, session, connected, op, stage, entry, age, crashes>>

FileTick ==
  /\ \A c \in Calls : stage[c] # "registering" /\ c \notin deleting
  /\ \A c \in entry : age[c] < MountTtl
  /\ file # {}
  /\ \E c \in file : age[c] < OrphanAge
  /\ age' = [c \in Calls |-> IF c \in file /\ age[c] < OrphanAge THEN age[c] + 1 ELSE age[c]]
  /\ UNCHANGED <<host, session, connected, op, stage, entry, file, deleting, lost, crashes>>

\* cleanupOrphanedMounts, run by each MCP server and each daemon that starts on
\* the machine: it knows a mount only by its name and its age.
Stale == {c \in file : age[c] >= OrphanAge}

Sweep ==
  /\ Stale # {}
  /\ file' = file \ Stale
  /\ lost' = lost \ Stale
  /\ UNCHANGED <<host, session, connected, op, stage, entry, age, deleting, crashes>>

\* The process dies and is started again: what it held in memory is gone.
Restart ==
  /\ crashes < MaxCrashes
  /\ crashes' = crashes + 1
  /\ token' = FALSE /\ left' = 0 /\ timer' = None /\ expired' = FALSE
  /\ refreshing' = [a \in Attempts |-> 0]
  /\ connected' = FALSE
  /\ stage' = [c \in Calls |-> IF stage[c] \in {"idle", "done"} THEN stage[c] ELSE "failed"]
  /\ entry' = {} /\ deleting' = {}
  /\ file' = file \ Stale
  /\ lost' = file \ Stale
  /\ wanted' = FALSE /\ fails' = 0
  /\ UNCHANGED <<host, up, active, op, age>>

-----------------------------------------------------------------------------
Calling(c) ==
  \/ AppCall(c) \/ ToolCall(c) \/ ConnectSucceeds(c) \/ ConnectFails(c)
  \/ Access(c) \/ AccessFails(c)
  \/ WriteFile(c) \/ Register(c) \/ ReleaseMount(c) \/ MountTimer(c) \/ Unlinked(c)

Next ==
  \/ \E c \in Calls : Calling(c)
  \/ \E a \in Attempts : RefreshSucceeds(a) \/ RefreshFails(a)
  \/ TimerFires \/ Disconnect \/ SessionTick \/ RetryTick
  \/ ApiChanges \/ AgentRevoked
  \/ FileTick \/ Sweep \/ Restart

Spec == Init /\ [][Next]_vars

\* Timers fire, answers and file operations come, time passes.  Nobody has to call,
\* to release, or to bring the API back.
Fairness ==
  /\ WF_vars(TimerFires) /\ WF_vars(SessionTick) /\ WF_vars(RetryTick) /\ WF_vars(FileTick)
  /\ \A a \in Attempts : WF_vars(RefreshSucceeds(a) \/ RefreshFails(a))
  /\ \A c \in Calls : WF_vars(ConnectSucceeds(c) \/ ConnectFails(c))
  /\ \A c \in Calls : WF_vars(MountTimer(c)) /\ WF_vars(Unlinked(c)) /\ WF_vars(Register(c))

FairSpec == Spec /\ Fairness

-----------------------------------------------------------------------------
(***************************************************************************)
(* What the client promises.                                               *)
(***************************************************************************)

\* The refresh loop of a client that connected never just stops: a timer is armed,
\* an exchange is in flight, or the client says that its session expired.
LoopAlive ==
  wanted => \/ timer # None \/ expired
            \/ \E a \in Attempts : refreshing[a] > 0

\* Of a client whose agent is active, the session runs out unnoticed only when the
\* refresh two minutes before and the two retries that fit in them all failed.
ExpiryNeedsFailures == wanted /\ active /\ ~expired /\ left = 0 => fails >= 3

\* A tool call uses the MCP server's client only once it holds a session token,
\* whatever other calls are connecting it.
ToolsHaveToken ==
  \A c \in Calls : host = "mcp" /\ stage[c] \in {"using", "redeeming"} => token

\* The file of a mount is there as long as its entry is, whoever sweeps; and past the
\* age of the sweep only files stay that a crash, or a failed write or unlink, left.
MountWindow ==
  /\ entry \subseteq file
  /\ \A c \in file : age[c] > MountTtl => c \in lost

\* A client that connected holds a live session again and again, unless it says that
\* it expired or is disconnected: a refresh loop in an outage does not hang.
Recovers == []<>(~wanted \/ left > 0 \/ expired)

\* A mounted file is deleted at last, unless its process died, or its deletion failed.
MountsEnd == \A c \in Calls : c \in entry ~> c \notin file \/ c \in lost
=============================================================================
