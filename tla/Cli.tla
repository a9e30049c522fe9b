-------------------------------- MODULE Cli --------------------------------
(***************************************************************************)
(* The commands of the CLI on one machine: processes that share            *)
(* ~/.abadge/config.json, the key files of local agents and the session    *)
(* that the daemon holds.                                                  *)
(*                                                                         *)
(* A command is a sequence of steps (Program), each of which ends with a   *)
(* system call or an answer, where another process may come in.  It can be *)
(* interrupted, or fail, at every one of them.                             *)
(***************************************************************************)
EXTENDS Naturals, Sequences

CONSTANTS
  Procs,       \* processes
  Orgs, Profiles, OrgOf,
  Agents,      \* the ids of agents that the server gives out
  MaxCommands, \* bound: commands begun
  None

\* The settings of config.json, and a write of them: to be begun, or with the file emptied.
Setting ==
  [state : {"whole"}, org : Orgs \cup {None}, profile : Profiles \cup {None},
   cli : Agents \cup {None}, mcp : Agents \cup {None}, pin : BOOLEAN]
Writing == Setting \cup [state : {"emptied"}, to : Setting]

Broken == [state |-> "broken"]

CliConstants ==
  /\ OrgOf \in [Profiles -> Orgs] /\ MaxCommands \in Nat
  /\ None \notin Orgs \cup Profiles \cup Agents \cup Writing \cup {Broken}

VARIABLES
  file,    \* config.json: None (absent), Broken (cut short), or its settings
  keys,    \* agents whose private key is on this disk
  agents,  \* agents of the server
  daemon,  \* its organization: Down, SignedOut, or of the session, None included
  wraps,   \* each profile on the server: whose root its password and recovery key open
  codes,   \* the device code that each process polls with
  run,     \* the command of each process
  begun,   \* commands begun so far
  mixed    \* history: commands overlapped, or one was cut off between its writes

vars == <<file, keys, agents, daemon, wraps, codes, run, begun, mixed>>

Down == [daemon |-> "down"]
SignedOut == [daemon |-> "signed out"]
Session(o) == [daemon |-> "session", org |-> o]
Settings(o, p, cli, mcp, pin) ==
  [state |-> "whole", org |-> o, profile |-> p, cli |-> cli, mcp |-> mcp, pin |-> pin]
Fresh == Settings(None, None, None, None, FALSE)
Whole(f) == f # None /\ f # Broken
\* loadConfig: what cannot be parsed is as good as absent.
Loaded == IF Whole(file) THEN file ELSE None

\* at: its next step; held: settings the command goes on with; org: the organization of
\* its client; write: the settings to put on disk; got: what the server gave it.
Idle == [cmd |-> "none", arg |-> None, at |-> 0, held |-> None, org |-> None,
         write |-> None, cut |-> FALSE, got |-> None]

Command ==
  [cmd : {"none", "login", "logout", "useOrg", "useProfile", "agentAddCli", "agentAddMcp",
          "bootstrap"},
   arg : Orgs \cup Profiles \cup {None}, at : Nat, held : Setting \cup {None},
   org : Orgs \cup {None}, write : Writing \cup {None},
   cut : BOOLEAN, got : Agents \cup 0..MaxCommands \cup {None}]

TypeOK ==
  /\ file \in Setting \cup {None, Broken}
  /\ keys \subseteq Agents /\ agents \subseteq Agents
  /\ daemon \in {Down, SignedOut} \cup {Session(o) : o \in Orgs \cup {None}}
  /\ wraps \in [Profiles -> [root : 0..MaxCommands, recovery : 0..MaxCommands]]
  /\ codes \in [Procs -> {"none", "pending", "approved", "denied", "expired"}]
  /\ run \in [Procs -> Command]
  /\ begun \in 0..MaxCommands /\ mixed \in BOOLEAN

\* Before the first command, or logged in, with an active organization.
Init ==
  /\ \/ file = None /\ daemon \in {Down, SignedOut}
     \/ \E o \in Orgs : file = Settings(o, None, None, None, TRUE) /\ daemon = Session(o)
  /\ keys = {} /\ agents = {}
  /\ wraps = [p \in Profiles |-> [root |-> 0, recovery |-> 0]]
  /\ codes = [p \in Procs |-> "none"]
  /\ run = [p \in Procs |-> Idle]
  /\ begun = 0 /\ mixed = FALSE

-----------------------------------------------------------------------------
\* registerKeypairAgent: the server knows the public key, then the key file, then the slot.
AgentAdd == <<"contact", "create", "saveKey", "fillSlot">>

Login == <<"keepConfig", "askCode", "poll", "saveLogin", "start", "contact", "setSession">>
Logout == <<"hold", "contact", "clearSession", "saveHeld">>
\* org use, and use org.
UseOrg == <<"contact", "list", "saveOrg", "contact", "pushOrg">>
\* profile use, and use profile.
UseProfile == <<"hold", "contact", "list", "saveProfile">>
ProfileBootstrap == <<"hold", "contact", "list", "bootstrap", "setRecovery">>

Program ==
  [login |-> Login, logout |-> Logout, useOrg |-> UseOrg, useProfile |-> UseProfile,
   agentAddCli |-> AgentAdd, agentAddMcp |-> AgentAdd, bootstrap |-> ProfileBootstrap]

Running(p) == run[p].cmd # "none"
\* The next step of process p, when it is not writing the file.
At(p, step) ==
  LET r == run[p] IN
  Running(p) /\ r.write = None /\ r.at <= Len(Program[r.cmd]) /\ Program[r.cmd][r.at] = step
Next1(r) == [r EXCEPT !.at = @ + 1]
Goes(p, r) == run' = [run EXCEPT ![p] = Next1(r)]
Ends(p) == run' = [run EXCEPT ![p] = Idle]
\* Steps on, or ends the command with an error.
GoesIf(p, ok, r) == IF ok THEN Goes(p, r) ELSE Ends(p)
Writes(r, settings) == [r EXCEPT !.write = settings]

Args(c) ==
  CASE c = "useOrg" -> Orgs
    [] c \in {"useProfile", "bootstrap"} -> Profiles
    [] OTHER -> {None}

Begin(p, c, a) ==
  /\ ~Running(p) /\ begun < MaxCommands /\ a \in Args(c)
  /\ begun' = begun + 1
  /\ run' = [run EXCEPT ![p] = [Idle EXCEPT !.cmd = c, !.arg = a, !.at = 1]]
  /\ mixed' = (mixed \/ \E q \in Procs : Running(q))
  /\ UNCHANGED <<file, keys, agents, daemon, wraps, codes>>

Finishes(p) ==
  /\ Running(p) /\ run[p].write = None /\ run[p].at > Len(Program[run[p].cmd])
  /\ Ends(p)
  /\ UNCHANGED <<file, keys, agents, daemon, wraps, codes, begun, mixed>>

\* Ctrl-C, or a step that fails: what was done stays.
Dies(p) ==
  /\ Running(p)
  /\ Ends(p)
  /\ codes' = [codes EXCEPT ![p] = "none"]
  /\ mixed' = (mixed \/ run[p].write # None \/ run[p].cut)
  /\ UNCHANGED <<file, keys, agents, daemon, wraps, begun>>

-----------------------------------------------------------------------------
\* config.json.  writeConfig empties the file, and then fills it.

Truncate(p) ==
  /\ run[p].write # None /\ run[p].write.state = "whole"
  /\ file' = Broken
  /\ run' = [run EXCEPT ![p].write = [state |-> "emptied", to |-> run[p].write]]
  /\ UNCHANGED <<keys, agents, daemon, wraps, codes, begun, mixed>>

\* Over what another process has written meanwhile, the longer one shows through.
Fill(p) ==
  /\ run[p].write # None /\ run[p].write.state = "emptied"
  /\ file' \in {run[p].write.to} \cup (IF Whole(file) THEN {Broken} ELSE {})
  /\ run' = [run EXCEPT ![p].write = None]
  /\ UNCHANGED <<keys, agents, daemon, wraps, codes, begun, mixed>>

\* The command goes on with the settings of now.
Hold(p) ==
  /\ At(p, "hold")
  /\ GoesIf(p, run[p].cmd = "logout" \/ (Loaded # None /\ Loaded.org # None),
            [run[p] EXCEPT !.held = Loaded])
  /\ UNCHANGED <<file, keys, agents, daemon, wraps, codes, begun, mixed>>

-----------------------------------------------------------------------------
\* The daemon.

\* A handshake comes before every sensitive call: the first fingerprint is pinned, where
\* there is a file to pin it in.  The session makes the client of the command.
Contact(p) ==
  /\ At(p, "contact")
  /\ LET best == run[p].cmd = "logout" \/ (run[p].cmd = "useOrg" /\ run[p].cut)
         made == [run[p] EXCEPT !.org = IF Loaded = None THEN None ELSE Loaded.org]
         signedIn == daemon \notin {Down, SignedOut} \/ run[p].cmd = "login"
     IN  IF daemon = Down \/ ~signedIn
           THEN GoesIf(p, best, run[p])
           ELSE Goes(p, IF Loaded # None /\ ~Loaded.pin
                          THEN Writes(made, [Loaded EXCEPT !.pin = TRUE]) ELSE made)
  /\ UNCHANGED <<file, keys, agents, daemon, wraps, codes, begun, mixed>>

\* ensureDaemonStarted: needs a config.
Start(p) ==
  /\ At(p, "start")
  /\ daemon' = IF daemon = Down /\ Loaded # None THEN SignedOut ELSE daemon
  /\ GoesIf(p, Loaded # None, run[p])
  /\ UNCHANGED <<file, keys, agents, wraps, codes, begun, mixed>>

\* auth.setSession, with the organization of the config as it is now.
SetSession(p) ==
  /\ At(p, "setSession")
  /\ daemon' = IF daemon = Down THEN Down
               ELSE Session(IF Loaded = None THEN None ELSE Loaded.org)
  /\ Goes(p, run[p])
  /\ UNCHANGED <<file, keys, agents, wraps, codes, begun, mixed>>

ClearSession(p) ==
  /\ At(p, "clearSession")
  /\ daemon' = IF daemon = Down THEN Down ELSE SignedOut
  /\ Goes(p, run[p])
  /\ UNCHANGED <<file, keys, agents, wraps, codes, begun, mixed>>

\* auth.setOrg: only a session has one; without it the daemon refuses, and nobody minds.
PushOrg(p) ==
  /\ At(p, "pushOrg")
  /\ daemon' = IF daemon \in {Down, SignedOut} THEN daemon ELSE Session(run[p].arg)
  /\ Goes(p, [run[p] EXCEPT !.cut = FALSE])
  /\ UNCHANGED <<file, keys, agents, wraps, codes, begun, mixed>>

\* It is stopped, or its machine is: the session was only in its memory.
DaemonStops ==
  /\ daemon # Down
  /\ daemon' = Down
  /\ UNCHANGED <<file, keys, agents, wraps, codes, run, begun, mixed>>

-----------------------------------------------------------------------------
\* login and logout.

\* saveConfig of what there is, before anything is asked for.
KeepConfig(p) ==
  /\ At(p, "keepConfig")
  /\ Goes(p, Writes(run[p], IF Loaded = None THEN Fresh ELSE Loaded))
  /\ UNCHANGED <<file, keys, agents, daemon, wraps, codes, begun, mixed>>

AskCode(p) ==
  /\ At(p, "askCode")
  /\ codes' = [codes EXCEPT ![p] = "pending"]
  /\ Goes(p, run[p])
  /\ UNCHANGED <<file, keys, agents, daemon, wraps, begun, mixed>>

\* The user, on the page /device/approve.
Decide(p, decision) ==
  /\ codes[p] = "pending"
  /\ codes' = [codes EXCEPT ![p] = decision]
  /\ UNCHANGED <<file, keys, agents, daemon, wraps, run, begun, mixed>>

CodeExpires(p) ==
  /\ codes[p] \in {"pending", "approved"}
  /\ codes' = [codes EXCEPT ![p] = "expired"]
  /\ UNCHANGED <<file, keys, agents, daemon, wraps, run, begun, mixed>>

\* pollUntilApproved: a code is good for one token; what is not "pending" ends the command.
Poll(p) ==
  /\ At(p, "poll")
  /\ CASE codes[p] = "pending" -> UNCHANGED <<codes, run>>
       [] codes[p] = "approved" -> codes' = [codes EXCEPT ![p] = "none"] /\ Goes(p, run[p])
       [] OTHER -> codes' = [codes EXCEPT ![p] = "none"] /\ Ends(p)
  /\ UNCHANGED <<file, keys, agents, daemon, wraps, begun, mixed>>

SaveLogin(p) ==
  /\ At(p, "saveLogin")
  /\ Goes(p, Writes(run[p], IF Loaded = None THEN Fresh ELSE Loaded))
  /\ UNCHANGED <<file, keys, agents, daemon, wraps, codes, begun, mixed>>

\* logout puts back the settings of when it began; without any, the file goes.
SaveHeld(p) ==
  /\ At(p, "saveHeld")
  /\ IF run[p].held = None
       THEN file' = None /\ Goes(p, run[p])
       ELSE Goes(p, Writes(run[p], run[p].held)) /\ UNCHANGED file
  /\ UNCHANGED <<keys, agents, daemon, wraps, codes, begun, mixed>>

-----------------------------------------------------------------------------
\* org use, profile use.

\* What is named must be among what the server lists for the organization.
List(p) ==
  /\ At(p, "list")
  /\ GoesIf(p, run[p].cmd = "useOrg" \/ OrgOf[run[p].arg] = run[p].held.org, run[p])
  /\ UNCHANGED <<file, keys, agents, daemon, wraps, codes, begun, mixed>>

\* Mutant: the active profile is kept.
KeepsProfile(p) ==
  /\ At(p, "saveOrg")
  /\ GoesIf(p, Loaded # None, IF Loaded = None THEN run[p] ELSE
       [Writes(run[p], [Loaded EXCEPT !.org = run[p].arg]) EXCEPT !.cut = TRUE])
  /\ UNCHANGED <<file, keys, agents, daemon, wraps, codes, begun, mixed>>

\* updateConfig merges into what it reads; what cannot be read has no apiUrl: an error.
SaveOrg(p) ==
  /\ At(p, "saveOrg")
  /\ GoesIf(p, Loaded # None, IF Loaded = None THEN run[p] ELSE
       [Writes(run[p], [Loaded EXCEPT !.org = run[p].arg, !.profile = None]) EXCEPT !.cut = TRUE])
  /\ UNCHANGED <<file, keys, agents, daemon, wraps, codes, begun, mixed>>

SaveProfile(p) ==
  /\ At(p, "saveProfile")
  /\ GoesIf(p, Loaded # None, IF Loaded = None THEN run[p] ELSE
       Writes(run[p], [Loaded EXCEPT !.profile = run[p].arg]))
  /\ UNCHANGED <<file, keys, agents, daemon, wraps, codes, begun, mixed>>

-----------------------------------------------------------------------------
\* agent add.

\* The server gives a new id; which one does not matter.
Create(p) ==
  /\ At(p, "create") /\ agents # Agents
  /\ LET a == CHOOSE x \in Agents : x \notin agents IN
     /\ agents' = agents \cup {a}
     /\ Goes(p, [run[p] EXCEPT !.got = a])
  /\ UNCHANGED <<file, keys, daemon, wraps, codes, begun, mixed>>

SaveKey(p) ==
  /\ At(p, "saveKey")
  /\ keys' = keys \cup {run[p].got}
  /\ Goes(p, run[p])
  /\ UNCHANGED <<file, agents, daemon, wraps, codes, begun, mixed>>

FillSlot(p) ==
  /\ At(p, "fillSlot")
  /\ GoesIf(p, Loaded # None, IF Loaded = None THEN run[p] ELSE
       Writes(run[p], IF run[p].cmd = "agentAddCli"
                        THEN [Loaded EXCEPT !.cli = run[p].got]
                        ELSE [Loaded EXCEPT !.mcp = run[p].got]))
  /\ UNCHANGED <<file, keys, agents, daemon, wraps, codes, begun, mixed>>

-----------------------------------------------------------------------------
\* profile bootstrap.

\* Mutant: a refusal is overlooked.
GoesOnRefused(p) ==
  /\ At(p, "bootstrap")
  /\ wraps' = [wraps EXCEPT ![run[p].arg].root = IF @ = 0 THEN begun ELSE @]
  /\ Goes(p, [run[p] EXCEPT !.got = begun])
  /\ UNCHANGED <<file, keys, agents, daemon, codes, begun, mixed>>

\* The root that is made here is stored for a profile that has none yet.
Bootstrap(p) ==
  /\ At(p, "bootstrap")
  /\ LET free == wraps[run[p].arg].root = 0 IN
     /\ wraps' = IF free THEN [wraps EXCEPT ![run[p].arg].root = begun] ELSE wraps
     /\ GoesIf(p, free, [run[p] EXCEPT !.got = begun])
  /\ UNCHANGED <<file, keys, agents, daemon, codes, begun, mixed>>

SetRecovery(p) ==
  /\ At(p, "setRecovery")
  /\ wraps' = [wraps EXCEPT ![run[p].arg].recovery = run[p].got]
  /\ Goes(p, run[p])
  /\ UNCHANGED <<file, keys, agents, daemon, codes, begun, mixed>>

-----------------------------------------------------------------------------
Step(p) ==
  \/ Finishes(p) \/ Truncate(p) \/ Fill(p) \/ Hold(p)
  \/ Contact(p) \/ Start(p) \/ SetSession(p) \/ ClearSession(p) \/ PushOrg(p)
  \/ KeepConfig(p) \/ AskCode(p) \/ Poll(p) \/ SaveLogin(p) \/ SaveHeld(p)
  \/ List(p) \/ SaveOrg(p) \/ SaveProfile(p)
  \/ Create(p) \/ SaveKey(p) \/ FillSlot(p)
  \/ Bootstrap(p) \/ SetRecovery(p)

Next ==
  \/ \E p \in Procs :
       \/ Step(p) \/ Dies(p) \/ CodeExpires(p)
       \/ \E c \in DOMAIN Program : \E a \in Args(c) : Begin(p, c, a)
       \/ \E decision \in {"approved", "denied"} : Decide(p, decision)
  \/ DaemonStops

Spec == Init /\ [][Next]_vars

-----------------------------------------------------------------------------
AtRest == \A p \in Procs : ~Running(p)

\* While commands are run one after the other, and none is cut off between the config and
\* the daemon, the daemon's calls go out for the active organization, and the active
\* profile is one of it (org.ts: "so vault.unlock uses the right org scope immediately").
ContextAgrees ==
  AtRest /\ ~mixed /\ Whole(file) =>
    /\ daemon \notin {Down, SignedOut} => daemon.org = file.org
    /\ file.profile # None => OrgOf[file.profile] = file.org

\* Whatever overlaps or is cut off, an agent in a slot of the config is one that the
\* server knows and whose private key is on this disk.
SlotsHaveKeys ==
  Whole(file) => \A a \in {file.cli, file.mcp} \ {None} : a \in keys \cap agents

\* A recovery key that the server keeps opens the root that the password opens, however
\* many commands bootstrap the profile at the same time.
RecoveryOpensRoot ==
  \A p \in Profiles : wraps[p].recovery # 0 => wraps[p].recovery = wraps[p].root

\* The identity of the daemon, once pinned, stays pinned (login.ts: a pin that is dropped
\* would defeat "TOFU's one-shot-attacker guarantee"), as long as commands do not overlap.
PinStays ==
  [][\A p \in Procs : ~mixed /\ Whole(file) /\ file.pin /\ Truncate(p)
       => run[p].write.pin]_vars
=============================================================================
