------------------------------- MODULE MCCli -------------------------------
(* Two processes and three commands on one configuration file.  Or a command *)
(* that runs with the secrets an agent was answered.  The two have no        *)
(* variable in common.                                                       *)
EXTENDS ConfigCommands, CommandRuns, Naturals, FiniteSets, TLC

CONSTANTS q1, q2, o1, o2, p1, a1, a2, i1, i2, r1, A, B, C, la, lb, lc

OrgOfProfile == p1 :> o1
\* Bound: whoever is logged in at first has o1 active.
Scenario == begun = 0 /\ Config!Whole(configFile) => configFile.org = o1

VARIABLE part

config ==
  <<configFile, keyFiles, agentRows, signedIn, rootWraps, deviceCodes, commands, begun, mixed>>
secretRun == <<itemRows, granted, machine, handles, started>>

VarOf == la :> A @@ lb :> B @@ lc :> C

\* The fields and variables that are told apart; i1 begins with one label;
\* one of the two is edited.
OneRun ==
  /\ started[r1].field \in {A, Nothing} /\ started[r1].key \in {A, C, Nothing}
  /\ itemRows[i1].version = 0 => itemRows[i1].label = la
  /\ itemRows[i1].version + itemRows[i2].version <= 1

InitEither ==
  \/ /\ part = "commands" /\ Config!Init
     /\ itemRows = Absent /\ granted = Absent /\ machine = Absent /\ handles = Absent
     /\ started = [r \in Runs |-> Command!Idle]
  \/ part = "run" /\ Command!Init /\ Config!Init /\ configFile = Absent /\ signedIn = Config!Down
NextEither ==
  \/ part = "commands" /\ Config!Next /\ UNCHANGED <<part, secretRun>>
  \/ part = "run" /\ Command!Next /\ UNCHANGED <<part, config>>
Either == InitEither /\ [][NextEither]_<<part, config, secretRun>>

Bounds == Scenario /\ (part = "run" => OneRun)

\* What the rest of a run depends on.
In(stages) == started[r1].stage \in stages
View ==
  IF part = "commands" THEN config
  ELSE <<IF In({"idle", "use"}) THEN granted ELSE {},
         IF In({"idle", "use", "redeem", "resolve"}) THEN itemRows ELSE <<>>,
         IF In({"redeem", "resolve", "done"}) THEN handles ELSE {},
         IF In({"idle", "use", "redeem", "resolve", "daemon", "running"}) THEN machine ELSE <<>>,
         started>>
=============================================================================
