---------------------------- MODULE CommandRuns ----------------------------
(***************************************************************************)
(* SecretRun under names that leave it beside another module: the          *)
(* proofs about AgentAccess end with what becomes of what was delivered,   *)
(* and the run of Cli checks a command with secrets as well.               *)
(***************************************************************************)
CONSTANTS
  RunItems, Sealed,   \* items that commands run with, those that only the daemon can open
  Labels, EnvKey, Keys, Blocked, FieldSets, Standard, BulkMax, StreamCap, Chunks, Runs, Nothing,
  MaxVersion, MaxOutput

VARIABLES itemRows, granted, machine, handles, started

Command ==
  INSTANCE SecretRun
  WITH Items <- RunItems, ZeroKnowledge <- Sealed, Reserved <- Blocked, None <- Nothing,
       rows <- itemRows, daemon <- machine, run <- started
ASSUME RunConstants == Command!SecretRunConstants

\* A command of a whole profile has all of it (SecretRun).
RunsWithAll == Command!RunsWithAll

\* What is reported of a command is so (SecretRun).
ReportIsTrue == Command!ReportIsTrue
=============================================================================
