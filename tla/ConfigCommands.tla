--------------------------- MODULE ConfigCommands ---------------------------
(***************************************************************************)
(* Cli under names that leave it beside another module: one run checks its *)
(* commands and the ones that run with secrets (CommandRuns), and one      *)
(* module proves what is so of it and of the Daemon on the same host.      *)
(***************************************************************************)
CONSTANTS
  Procs, Orgs, Agents, OrgOf, MaxCommands,
  CliProfiles,  \* the profiles that commands name
  Absent

VARIABLES configFile, keyFiles, agentRows, signedIn, rootWraps, deviceCodes, commands, begun, mixed

Config ==
  INSTANCE Cli
  WITH Profiles <- CliProfiles, None <- Absent,
       file <- configFile, keys <- keyFiles, agents <- agentRows, daemon <- signedIn,
       wraps <- rootWraps, codes <- deviceCodes, run <- commands
ASSUME CliAssumption == Config!CliConstants

\* The daemon and the active profile are of the active organization (Cli).
ContextAgrees == Config!ContextAgrees

\* A recovery key that the server keeps opens what the password opens (Cli).
RecoveryOpensRoot == Config!RecoveryOpensRoot

\* A pin stays (Cli).
PinStays == Config!PinStays
=============================================================================
