------------------------------ MODULE MCGrants ------------------------------
(* Three calls about the grants of an agent, or two and the panel that makes *)
(* them.  Or a list of three rows, read a page of one at a time, and an      *)
(* import that walks it.  Or the releases of two packages, and what installs *)
(* them.  None has a variable in common with another.                        *)
EXTENDS Grants, TLC

CONSTANTS a1, a2, i1, i2, p1, r1, r2, r3, a, b, w1, cli, mcp

VARIABLES
  part,                       \* which of the three the behaviour is of
  list, now, row, granted, task, walk, cursor, listed, pages, todo, overwrite, there, ever,
  main, versionPr, waiting, run, failed, releases, bin, inst, runs, installs

listing == <<list, now, row, granted, task, walk, cursor, listed, pages,
             todo, overwrite, there, ever>>
releasing == <<main, versionPr, waiting, run, failed, releases, bin, inst, runs, installs>>

\* Files with two entries, of which one may repeat the other.
Lists ==
  INSTANCE Listing
  WITH MaxRow <- 3, ZkRows <- {2}, Labels <- {a, b}, Files <- {<<a, b>>, <<a, a>>}, Walkers <- {w1},
       Limit <- 1, MaxPages <- 3, MaxTime <- 1, MaxVersion <- 1, stage <- walk
ASSUME Lists!ListingConstants

Releasing ==
  INSTANCE Release
  WITH Packages <- <<cli, mcp>>, PerPage <- 100, MaxCommits <- 3, MaxRuns <- 3, MaxInstalls <- 2

ListsRest ==
  /\ list = None /\ now = None /\ row = None /\ granted = None /\ task = None
  /\ walk = None /\ cursor = None /\ listed = None /\ pages = None /\ todo = None
  /\ overwrite = None /\ there = None /\ ever = None
ReleasesRest ==
  /\ main = None /\ versionPr = None /\ waiting = None /\ run = None /\ failed = None
  /\ releases = None /\ bin = None /\ inst = None /\ runs = None /\ installs = None
GrantsRest == Init /\ items = {}

InitEach ==
  \/ part = "grants" /\ Init /\ ListsRest /\ ReleasesRest
  \/ part = "lists" /\ Lists!Init /\ GrantsRest /\ ReleasesRest
  \/ part = "releases" /\ Releasing!Init /\ GrantsRest /\ ListsRest
NextEach ==
  \/ part = "grants" /\ Next /\ UNCHANGED <<part, listing, releasing>>
  \/ part = "lists" /\ Lists!Next /\ UNCHANGED <<part, vars, releasing>>
  \/ part = "releases" /\ Releasing!Next /\ UNCHANGED <<part, vars, listing>>
Each == InitEach /\ [][NextEach]_<<part, vars, listing, releasing>>

InProfile == [i \in Items |-> p1]
Batchings == {<<"read", "use">>, <<"use", "read">>, <<"mount_env">>}
Alike == Permutations(Requests)

\* Three calls without the panel, or two if it has been opened.
Calls == known = None \/ Cardinality({r \in Requests : stage[r] # "unsent"}) <= 2

\* Nothing is asked any more when the walk is over; one row is deleted or edited,
\* after it has begun; the last row has one label.
Walks ==
  /\ walk[w1] \notin {"done", "failed"}
  /\ Cardinality({i \in 1..3 : row[i].state = "deleted" \/ row[i].version > 0}) <= 1
  /\ row[3].label = Lists!AnyLabel
  /\ walk[w1] = "idle" => \A i \in 1..3 : row[i].state # "deleted" /\ row[i].version = 0

\* Authors name packages they touched, if not all of them; a release is out before anything
\* is installed, and the version that may be asked for is the first; mcp
\* changes once.
Authors ==
  /\ \A c \in Releasing!Tip.pending : \A p \in c.names : c.at \in Releasing!Tip.code[p]
  /\ releases = <<>> => inst.stage = "idle"
  /\ inst.pin \in {None, 1}
  /\ Releasing!Tip.code[mcp] \subseteq {1, 2}

Scenario ==
  CASE part = "grants" -> Calls
    [] part = "lists" -> Walks
    [] part = "releases" -> Authors

\* Something is installed between the runs of the workflow.
OneAtATime ==
  part = "releases" =>
    /\ inst.stage # "idle" => UNCHANGED <<main, versionPr, waiting, run, failed, runs, releases>>
    /\ installs' # installs => run = Releasing!NoRun /\ waiting = 0

WalkComplete == part = "lists" => Lists!WalkComplete
ImportAddsOnlyMissing == [][part = "lists" => Lists!AddsMissing]_listing
ChangelogIsComplete == part = "releases" => Releasing!ChangelogIsComplete
InstalledIsReleased == part = "releases" => Releasing!InstalledIsReleased
NeverOlder == [][part = "releases" => Releasing!InstallsNewer]_releasing
SkippedOnlyIfNoRelease == part = "releases" => Releasing!SkippedOnlyIfNoRelease
==============================================================================
