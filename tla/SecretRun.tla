------------------------------ MODULE SecretRun ------------------------------
(***************************************************************************)
(* Running a command with secrets in its environment: abadge run of the    *)
(* CLI (--item, --expand-env, --all) and use_secret of the MCP server.     *)
(* Each run asks the server for mount handles, redeems them one request    *)
(* each, has zero-knowledge payloads opened by the daemon, and starts the  *)
(* command itself or lets the daemon start it.  Meanwhile the owner edits, *)
(* deletes and revokes, handles expire, and the daemon locks, signs out    *)
(* and stops.  The items are those of one profile; what the server checks  *)
(* and logs is in AgentAccess, here each of its calls is one step.         *)
(***************************************************************************)
EXTENDS Naturals, FiniteSets

CONSTANTS
  Items,
  ZeroKnowledge,  \* items that only the daemon can open
  Labels,
  EnvKey,         \* labelToEnvKey: the variable a label becomes
  Keys,
  Reserved,       \* variables that may not be set, and those that are no names
  FieldSets,      \* the string fields an item may have
  Standard,       \* those its kind prefers
  BulkMax,        \* items of a profile-wide call
  StreamCap,      \* bytes kept of an output stream
  Chunks,         \* sizes of what a command writes at a time
  Runs,
  None,
  MaxVersion, MaxOutput  \* bounds

SecretRunConstants ==
  /\ ZeroKnowledge \subseteq Items
  /\ EnvKey \in [Labels -> Keys] /\ Reserved \subseteq Keys
  /\ FieldSets \subseteq SUBSET Keys /\ Standard \subseteq Keys
  /\ None \notin {"code", "failed"}
  /\ {StreamCap, MaxVersion, MaxOutput} \subseteq Nat /\ Chunks \subseteq Nat \ {0}

VARIABLES
  rows,     \* item -> what the server has of it
  granted,  \* items that the agent may use
  daemon,   \* of the machine: running, with a session, unlocked
  handles,  \* mount_reservations neither consumed nor expired, as <<run, item>>
  run       \* the runs

vars == <<rows, granted, daemon, handles, run>>

There == {i \in Items : rows[i].there}
Single(fields) == Cardinality(fields) = 1
Put(env, e) == {x \in env : x.key # e.key} \cup {e}

Idle == [kind |-> None, stage |-> "idle", item |-> None, key |-> None, field |-> None,
         minted |-> {}, left |-> {}, got |-> {}, now |-> None, env |-> {}, why |-> None,
         proc |-> "none", code |-> None, kept |-> 0, written |-> 0, truncated |-> FALSE,
         answer |-> None]
Bulk == {"all", "mcp all"}
Mcp == {"mcp item", "mcp all"}

Row == [label : Labels, fields : FieldSets, version : 0..MaxVersion, there : BOOLEAN]
Got == [item : Items, label : Labels, fields : FieldSets, version : 0..MaxVersion]
Env == [key : Keys \cup {None}, item : Items, version : 0..MaxVersion]
Run ==
  [kind : Bulk \cup {"item", "expand", "mcp item", None},
   stage : {"idle", "use", "redeem", "resolve", "daemon", "spawn", "running", "done"},
   item : Items \cup {None}, key : Keys \cup {None}, field : Keys \cup {None},
   minted : SUBSET Items, left : SUBSET Items, got : SUBSET Got, now : Got \cup {None},
   env : SUBSET Env,
   why : {None, "flags", "name", "refused", "limit", "unavailable", "unresolved", "label",
          "unreachable", "auth", "locked", "spawn", "lost"},
   proc : {"none", "running", "ended"}, code : {None, 0, 1},
   kept : 0..StreamCap, written : 0..MaxOutput, truncated : BOOLEAN,
   answer : {None, "code", "failed"}]

TypeOK ==
  /\ rows \in [Items -> Row] /\ granted \subseteq Items /\ handles \subseteq Runs \X Items
  /\ daemon \in [up : BOOLEAN, session : BOOLEAN, unlocked : BOOLEAN]
  /\ run \in [Runs -> Run]

Init ==
  /\ rows \in [Items -> [label : Labels, fields : FieldSets, version : {0}, there : {TRUE}]]
  /\ granted = Items
  /\ daemon \in [up : {TRUE}, session : {TRUE}, unlocked : BOOLEAN]
  /\ handles = {}
  /\ run = [r \in Runs |-> Idle]

Set(r, new) == run' = [run EXCEPT ![r] = new]
Fails(r, why) == Set(r, [run[r] EXCEPT !.stage = "done", !.why = why, !.answer = "failed"])

-----------------------------------------------------------------------------
(* Beginning *)

Flags == [all : BOOLEAN, item : BOOLEAN, field : BOOLEAN, envVar : BOOLEAN, expand : BOOLEAN]

ValidFlags(f) ==
  /\ f.all # f.item
  /\ f.all \/ f.expand => ~f.field /\ ~f.envVar
  /\ ~(f.all /\ f.expand)

\* abadge run: the variable named by --env-var is taken as it is.
CliRun(r, f, i, k, field) ==
  /\ run[r].stage = "idle"
  /\ IF ValidFlags(f)
       THEN Set(r, [Idle EXCEPT !.stage = "use",
              !.kind = IF f.all THEN "all" ELSE IF f.expand THEN "expand" ELSE "item",
              !.item = IF f.item THEN i ELSE None,
              !.key = IF f.envVar THEN k ELSE None,
              !.field = IF f.field THEN field ELSE None])
       ELSE Fails(r, "flags")
  /\ UNCHANGED <<rows, granted, daemon, handles>>

\* use_secret: exactly one of itemId and profileId, and a name that may be set.
McpRun(r, i, k, field) ==
  /\ run[r].stage = "idle"
  /\ IF k \in Reserved
       THEN Fails(r, "name")
       ELSE Set(r, [Idle EXCEPT !.stage = "use", !.item = i, !.key = k, !.field = field,
                      !.kind = IF i = None THEN "mcp all" ELSE "mcp item"])
  /\ UNCHANGED <<rows, granted, daemon, handles>>

-----------------------------------------------------------------------------
(* Handles *)

Mints(r, S) ==
  /\ handles' = handles \cup {<<r, i>> : i \in S}
  /\ Set(r, [run[r] EXCEPT !.minted = S, !.left = S,
               !.stage = IF S = {} THEN "spawn" ELSE "redeem"])

UseItem(r) ==
  /\ run[r].stage = "use" /\ run[r].kind \notin Bulk
  /\ IF run[r].item \in There \cap granted THEN Mints(r, {run[r].item})
     ELSE Fails(r, "refused") /\ UNCHANGED handles
  /\ UNCHANGED <<rows, granted, daemon>>

\* One item that may not be used, and the whole call is refused.
UseProfile(r) ==
  /\ run[r].stage = "use" /\ run[r].kind \in Bulk
  /\ IF There \subseteq granted /\ Cardinality(There) <= BulkMax THEN Mints(r, There)
     ELSE Fails(r, IF There \subseteq granted THEN "limit" ELSE "refused") /\ UNCHANGED handles
  /\ UNCHANGED <<rows, granted, daemon>>

\* The item as it is now, whatever became of the grant.
Redeemed(i) ==
  [item |-> i, label |-> rows[i].label, fields |-> rows[i].fields, version |-> rows[i].version]

\* Where a run goes with an item in hand: --all waits for them all.
After(r, i) ==
  IF run[r].kind \in {"item", "mcp item", "mcp all"} THEN "resolve"
  ELSE IF run[r].left = {i} THEN "daemon" ELSE "redeem"

\* Mutant: --all goes on with the items it got.
RedeemWhatIsThere(r, i) ==
  /\ run[r].stage = "redeem" /\ i \in run[r].left
  /\ handles' = handles \ {<<r, i>>}
  /\ Set(r, [run[r] EXCEPT
       !.got = IF <<r, i>> \in handles /\ i \in There THEN @ \cup {Redeemed(i)} ELSE @,
       !.left = @ \ {i}, !.now = Redeemed(i), !.stage = After(r, i)])
  /\ UNCHANGED <<rows, granted, daemon>>

\* A handle is consumed, and then the item is looked for.
Redeem(r, i) ==
  /\ run[r].stage = "redeem" /\ i \in run[r].left
  /\ handles' = handles \ {<<r, i>>}
  /\ IF <<r, i>> \in handles /\ i \in There
       THEN Set(r, [run[r] EXCEPT !.got = @ \cup {Redeemed(i)}, !.now = Redeemed(i),
                                  !.left = @ \ {i}, !.stage = After(r, i)])
       ELSE Fails(r, "unavailable")
  /\ UNCHANGED <<rows, granted, daemon>>

\* The other requests of Promise.all are under way when one has failed.
LateRedeem(r, i) ==
  /\ run[r].kind = "all" /\ run[r].why = "unavailable" /\ <<r, i>> \in handles
  /\ handles' = handles \ {<<r, i>>}
  /\ UNCHANGED <<rows, granted, daemon, run>>

HandleExpires(h) ==
  /\ h \in handles
  /\ handles' = handles \ {h}
  /\ UNCHANGED <<rows, granted, daemon, run>>

-----------------------------------------------------------------------------
(* Payloads *)

Opens(g) == g.item \in ZeroKnowledge => daemon.up /\ daemon.unlocked
\* expandFieldSelection: the fields meant when none is named.
Selected(fields) == IF fields \cap Standard # {} THEN fields \cap Standard ELSE fields
\* payloadToSecret: the field named, or the only one that can be meant.
HasValue(g, field) == IF field = None THEN Single(Selected(g.fields)) ELSE field \in g.fields

Resolves(r) ==
  /\ LET g == run[r].now IN
     IF Opens(g) /\ HasValue(g, run[r].field)
       THEN Set(r, [run[r] EXCEPT !.stage = "spawn",
              !.env = {[key |-> run[r].key, item |-> g.item, version |-> g.version]}])
       ELSE Fails(r, "unresolved")
  /\ UNCHANGED <<rows, granted, daemon, handles>>

\* resolveSecretValue of the CLI and resolveSecret of the MCP server.
ResolveItem(r) == run[r].stage = "resolve" /\ run[r].kind = "item" /\ Resolves(r)
ResolveMcpItem(r) == run[r].stage = "resolve" /\ run[r].kind = "mcp item" /\ Resolves(r)

Var(g) == [key |-> EnvKey[g.label], item |-> g.item, version |-> g.version]

\* run_with_all_secrets: one item after the other.
ResolveNext(r) ==
  /\ run[r].stage = "resolve" /\ run[r].kind = "mcp all"
  /\ LET g == run[r].now
         onward == IF run[r].left = {} THEN "spawn" ELSE "redeem"
     IN \/ ~Opens(g) /\ Fails(r, "unresolved")
        \/ Opens(g) /\ ~Single(g.fields) /\ Set(r, [run[r] EXCEPT !.stage = onward])
        \/ /\ Opens(g) /\ Single(g.fields)
           /\ IF EnvKey[g.label] \in Reserved \cup {e.key : e \in run[r].env}
                THEN Fails(r, "label")
                ELSE Set(r, [run[r] EXCEPT !.stage = onward, !.env = Put(@, Var(g))])
  /\ UNCHANGED <<rows, granted, daemon, handles>>

Vars(got) == {Var(g) : g \in {x \in got : Single(x.fields)}}
Distinct(env) == \A e, f \in env : e.key = f.key => e = f

\* exec.envBulk of the daemon.
ExecBulk(r) ==
  IF \E e \in Vars(run[r].got) : e.key \in Reserved THEN Fails(r, "label")
  ELSE IF ~Distinct(Vars(run[r].got)) THEN Fails(r, "label")
  ELSE Set(r, [run[r] EXCEPT !.stage = "running", !.proc = "running", !.env = Vars(run[r].got)])

\* exec.expandEnv: the fields are the variables.
ExecExpand(r) ==
  LET g == run[r].now
      names == Selected(g.fields)
  IN IF names \cap Reserved # {} THEN Fails(r, "label")
     ELSE Set(r, [run[r] EXCEPT !.stage = "running", !.proc = "running",
            !.env = {[key |-> k, item |-> g.item, version |-> g.version] : k \in names}])

ErrorKind ==
  IF ~daemon.up THEN "unreachable"
  ELSE IF ~daemon.session THEN "auth"
  ELSE IF ~daemon.unlocked THEN "locked" ELSE None

\* The session and the lock are checked whatever the items are.
DaemonRuns(r) ==
  /\ run[r].stage = "daemon"
  /\ IF ErrorKind # None THEN Fails(r, ErrorKind)
     ELSE \/ IF run[r].kind = "all" THEN ExecBulk(r) ELSE ExecExpand(r)
          \/ Fails(r, "spawn")
  /\ UNCHANGED <<rows, granted, daemon, handles>>

-----------------------------------------------------------------------------
(* The command *)

Spawn(r) ==
  /\ run[r].stage = "spawn"
  /\ Set(r, [run[r] EXCEPT !.stage = "running", !.proc = "running"])
  /\ UNCHANGED <<rows, granted, daemon, handles>>

\* No such command: the CLI reports it, the MCP server answers 1.
SpawnFails(r) ==
  /\ run[r].stage = "spawn"
  /\ IF run[r].kind \in Mcp
       THEN Set(r, [run[r] EXCEPT !.stage = "done", !.code = 1, !.answer = "code"])
       ELSE Fails(r, "spawn")
  /\ UNCHANGED <<rows, granted, daemon, handles>>

Smaller(m, n) == IF m < n THEN m ELSE n

\* BoundedCapture.push: what there is no room for is dropped.
Pushed(s, n) ==
  IF s.kept >= StreamCap THEN [s EXCEPT !.written = @ + n, !.truncated = TRUE]
  ELSE [s EXCEPT !.written = @ + n, !.kept = Smaller(@ + n, StreamCap),
                 !.truncated = @ \/ n > StreamCap - s.kept]

Writes(r, n) ==
  /\ run[r].proc = "running" /\ run[r].kind \in Mcp
  /\ run[r].written + n <= MaxOutput
  /\ Set(r, Pushed(run[r], n))
  /\ UNCHANGED <<rows, granted, daemon, handles>>

Exits(r, code) ==
  /\ run[r].proc = "running"
  /\ Set(r, [run[r] EXCEPT !.proc = "ended", !.code = code])
  /\ UNCHANGED <<rows, granted, daemon, handles>>

ViaDaemon(r) == run[r].kind = "expand" \/ (run[r].kind = "all" /\ run[r].minted # {})

Reports(r) ==
  /\ run[r].stage = "running" /\ run[r].proc = "ended"
  /\ ViaDaemon(r) => daemon.up
  /\ Set(r, [run[r] EXCEPT !.stage = "done", !.answer = "code"])
  /\ UNCHANGED <<rows, granted, daemon, handles>>

\* The command lives on.
ConnectionLost(r) ==
  /\ run[r].stage = "running" /\ ViaDaemon(r) /\ ~daemon.up
  /\ Fails(r, "lost")
  /\ UNCHANGED <<rows, granted, daemon, handles>>

-----------------------------------------------------------------------------
(* Meanwhile *)

Edit(i, label, fields) ==
  /\ i \in There /\ rows[i].version < MaxVersion
  /\ rows' = [rows EXCEPT ![i].label = label, ![i].fields = fields, ![i].version = @ + 1]
  /\ UNCHANGED <<granted, daemon, handles, run>>

Delete(i) ==
  /\ i \in There
  /\ rows' = [rows EXCEPT ![i].there = FALSE]
  /\ UNCHANGED <<granted, daemon, handles, run>>

Revoke(i) ==
  /\ i \in granted
  /\ granted' = granted \ {i}
  /\ UNCHANGED <<rows, daemon, handles, run>>

\* Locks itself, loses its session, stops; a stopped one starts locked and signed out.
DaemonChanges(new) ==
  /\ new \in [up : BOOLEAN, session : BOOLEAN, unlocked : BOOLEAN] \ {daemon}
  /\ ~new.up => ~new.session /\ ~new.unlocked
  /\ ~daemon.up => new = [up |-> TRUE, session |-> FALSE, unlocked |-> FALSE]
  /\ new.unlocked /\ ~daemon.unlocked => daemon.session
  /\ daemon' = new
  /\ UNCHANGED <<rows, granted, handles, run>>

-----------------------------------------------------------------------------
Step(r) ==
  \/ UseItem(r) \/ UseProfile(r) \/ ResolveItem(r) \/ ResolveMcpItem(r) \/ ResolveNext(r) \/ DaemonRuns(r)
  \/ Spawn(r) \/ SpawnFails(r) \/ Reports(r) \/ ConnectionLost(r)
  \/ \E i \in Items : Redeem(r, i) \/ LateRedeem(r, i)

Begin(r) ==
  \/ \E f \in Flags, i \in Items, k \in Keys, field \in Keys : CliRun(r, f, i, k, field)
  \/ \E i \in Items \cup {None}, k \in Keys, field \in Keys \cup {None} : McpRun(r, i, k, field)

Next ==
  \/ \E r \in Runs :
       \/ Begin(r) \/ Step(r)
       \/ \E n \in Chunks : Writes(r, n)
       \/ \E code \in {0, 1} : Exits(r, code)
  \/ \E h \in handles : HandleExpires(h)
  \/ \E i \in Items, label \in Labels, fields \in FieldSets : Edit(i, label, fields)
  \/ \E i \in Items : Delete(i) \/ Revoke(i)
  \/ \E new \in [up : BOOLEAN, session : BOOLEAN, unlocked : BOOLEAN] : DaemonChanges(new)

Spec == Init /\ [][Next]_vars

-----------------------------------------------------------------------------
\* A command that is started with a whole profile has every item that was there when the
\* run asked: each one with a single field is in its environment, under its own variable,
\* no variable stands for two of them, and none is one that may not be set.
RunsWithAll ==
  \A r \in Runs : run[r].kind \in Bulk /\ run[r].proc # "none" =>
    /\ {g.item : g \in run[r].got} = run[r].minted
    /\ run[r].env = Vars(run[r].got) /\ Distinct(run[r].env)
    /\ \A e \in run[r].env : e.key \notin Reserved

\* A code that is reported is the command's, or 1 for a command that did not start; a run
\* that is reported to have failed started none, unless the daemon was lost; and the MCP
\* server says that output was dropped exactly if it was.
ReportIsTrue ==
  \A r \in Runs :
    /\ run[r].answer = "code" =>
         run[r].proc = "ended" \/ (run[r].proc = "none" /\ run[r].kind \in Mcp /\ run[r].code = 1)
    /\ run[r].answer = "failed" /\ run[r].proc # "none" => run[r].why = "lost"
    /\ run[r].truncated <=> run[r].written > run[r].kept

\* docs/cli/run.mdx: "server-managed items don't need an unlocked vault but still require
\* the daemon for env injection".
ServerManagedRunsLocked ==
  \A r \in Runs : run[r].why = "locked" => \E g \in run[r].got : g.item \in ZeroKnowledge

\* docs/cli/run.mdx: --all "fetches every item in the active profile that the runtime
\* agent has use on".
UngrantedLeftOut ==
  \A r \in Runs : run[r].kind = "all" /\ run[r].why = "refused" => There \cap granted = {}
=============================================================================
