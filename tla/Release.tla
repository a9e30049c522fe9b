------------------------------- MODULE Release -------------------------------
(***************************************************************************)
(* How a change reaches a machine: pull requests with changesets, the      *)
(* version pull request, the release workflow on every push to main, and   *)
(* install.sh.  A commit of main is the record of what it holds; a change  *)
(* is named by the number of the commit that brought it.  The workflow     *)
(* runs one at a time and remembers one more; a run that failed may be run *)
(* again, on its own commit.                                               *)
(***************************************************************************)
EXTENDS Naturals, Sequences, FiniteSetsExt, Functions

CONSTANTS
  Packages,   \* the release packages, in the order of the registry
  PerPage,    \* releases that the installer is shown
  None,
  MaxCommits, MaxRuns, MaxInstalls  \* bounds

VARIABLES
  main,      \* the commits of main
  versionPr, \* None, or what the version pull request would make of main
  waiting,   \* commit of the run that waits for the group
  run,       \* the run under way
  failed,    \* commits whose run failed
  releases,  \* as they were published
  bin,       \* the machine: package -> what is in the install directory
  inst,      \* the installer
  runs, installs \* how many began, for the bounds

repo == <<main, versionPr>>
workflow == <<waiting, run, failed, runs>>
machine == <<bin, inst, installs>>
vars == <<repo, workflow, releases, machine>>

Names == Range(Packages)
Height == Len(main)
Tip == main[Height]

NoRun == [at |-> 0, next |-> 0, stage |-> "none"]
NoInstall ==
  [left |-> <<>>, explicit |-> FALSE, pin |-> None, pkg |-> None, version |-> 0, asset |-> None,
   sums |-> None, skipped |-> {}, put |-> {}, stage |-> "idle", answer |-> None]
Absent == [version |-> 0, code |-> {}, whole |-> TRUE]

Init ==
  /\ main = <<[version |-> [p \in Names |-> 1], pending |-> {},
               code |-> [p \in Names |-> {}], log |-> [p \in Names |-> {}]]>>
  /\ versionPr = None /\ waiting = 1 /\ run = NoRun /\ failed = {} /\ runs = 0
  /\ releases = <<>>
  /\ bin = [p \in Names |-> Absent] /\ inst = NoInstall /\ installs = 0

Published(p, v) == \E k \in DOMAIN releases : releases[k].pkg = p /\ releases[k].version = v

-----------------------------------------------------------------------------
(* The repository *)

\* A push cancels the run that waits.
Push(tree) ==
  /\ main' = Append(main, tree)
  /\ waiting' = Height + 1
  /\ UNCHANGED <<run, failed, runs, releases, machine>>

\* The check asks for some changeset, and for names that are release packages.
Passes(touched, named) == touched # {} => named # {}

Merge(touched, named) ==
  /\ Height < MaxCommits
  /\ Passes(touched, named)
  /\ Push([Tip EXCEPT
       !.code = [p \in Names |-> IF p \in touched THEN @[p] \cup {Height + 1} ELSE @[p]],
       !.pending = IF named = {} THEN @ ELSE @ \cup {[names |-> named, at |-> Height + 1]}])
  /\ UNCHANGED versionPr

\* changeset version on a commit: the changesets are gone, and what they name is bumped.
Versioned(tree) ==
  [used |-> tree.pending,
   version |-> [p \in Names |->
     IF \E c \in tree.pending : p \in c.names THEN tree.version[p] + 1 ELSE tree.version[p]]]

\* It merges as long as what it removes is there.
MergeVersionPr ==
  /\ versionPr # None /\ Height < MaxCommits
  /\ versionPr.used \subseteq Tip.pending
  /\ Push([Tip EXCEPT
       !.version = versionPr.version,
       !.pending = @ \ versionPr.used,
       !.log = [p \in Names |-> @[p] \cup {c.at : c \in {d \in versionPr.used : p \in d.names}}]])
  /\ versionPr' = None

-----------------------------------------------------------------------------
(* The workflow *)

Begin ==
  /\ waiting # 0 /\ run.stage = "none" /\ runs < MaxRuns
  /\ run' = [at |-> waiting, next |-> 1, stage |-> "checked out"]
  /\ waiting' = 0 /\ runs' = runs + 1
  /\ UNCHANGED <<repo, failed, releases, machine>>

Rerun(n) ==
  /\ n \in failed
  /\ waiting' = n /\ failed' = failed \ {n}
  /\ UNCHANGED <<repo, run, runs, releases, machine>>

Ends == run' = NoRun /\ UNCHANGED failed
Breaks == run' = NoRun /\ failed' = failed \cup {run.at}

\* Any step of a run may fail: a build, a signature, the network.
RunFails ==
  /\ run.stage # "none"
  /\ Breaks
  /\ UNCHANGED <<repo, waiting, runs, releases, machine>>

Tree == main[run.at]

\* hasPendingChangesets, of the commit that is checked out.
MayPublish == Tree.pending = {}

OpenVersionPr ==
  /\ run.stage = "checked out" /\ Tree.pending # {}
  /\ versionPr' = Versioned(Tree)
  /\ Ends
  /\ UNCHANGED <<main, waiting, runs, releases, machine>>

StartPublish ==
  /\ run.stage = "checked out" /\ MayPublish
  /\ run' = [run EXCEPT !.stage = "publish"]
  /\ UNCHANGED <<repo, waiting, failed, runs, releases, machine>>

Package == Packages[run.next]
Onward ==
  IF run.next = Len(Packages) THEN Ends
  ELSE run' = [run EXCEPT !.stage = "publish", !.next = @ + 1] /\ UNCHANGED failed

\* releaseExists; when it cannot tell, it says no.
Skip ==
  /\ run.stage = "publish" /\ Published(Package, Tree.version[Package])
  /\ Onward
  /\ UNCHANGED <<repo, waiting, runs, releases, machine>>

\* Archives for every platform, the SBOM, SHA256SUMS and the signatures.
Build ==
  /\ run.stage = "publish"
  /\ run' = [run EXCEPT !.stage = "built"]
  /\ UNCHANGED <<repo, waiting, failed, runs, releases, machine>>

\* gh release create refuses a tag that has a release; the tag is put on main as it is now.
Create ==
  /\ run.stage = "built"
  /\ IF Published(Package, Tree.version[Package])
       THEN Breaks /\ UNCHANGED releases
       ELSE /\ releases' = Append(releases,
                 [pkg |-> Package, version |-> Tree.version[Package],
                  code |-> Tree.code[Package], log |-> Tree.log[Package], tag |-> Height])
            /\ Onward
  /\ UNCHANGED <<repo, waiting, runs, machine>>

-----------------------------------------------------------------------------
(* install.sh *)

Shown == {k \in DOMAIN releases : Len(releases) - k < PerPage}
VersionsOf(p) == {releases[k].version : k \in {j \in Shown : releases[j].pkg = p}}

\* latest_version_from_releases_json: 0 when there is none.
LatestOf(p) == IF VersionsOf(p) = {} THEN 0 ELSE Max(VersionsOf(p))

\* A version can be asked for when there is one package.
Install(pkgs, pin) ==
  /\ inst.stage = "idle" /\ installs < MaxInstalls
  /\ pin # None => Len(pkgs) = 1
  /\ inst' = [NoInstall EXCEPT !.left = pkgs, !.explicit = Len(pkgs) = 1, !.pin = pin,
                               !.stage = "next"]
  /\ installs' = installs + 1
  /\ UNCHANGED <<repo, workflow, releases, bin>>

Stops(answer) ==
  inst' = [NoInstall EXCEPT !.answer = answer, !.put = inst.put, !.skipped = inst.skipped]

\* A version, or nothing: the failure of curl inside the substitution is not seen.
Resolve ==
  /\ inst.stage = "next" /\ inst.left # <<>>
  /\ \E v \in IF inst.pin # None THEN {inst.pin} ELSE {LatestOf(inst.left[1]), 0} :
       IF v # 0 THEN inst' = [inst EXCEPT !.pkg = inst.left[1], !.version = v, !.stage = "fetch"]
       ELSE IF inst.explicit THEN Stops("failed")
       ELSE inst' = [inst EXCEPT !.left = Tail(@),
                      !.skipped = @ \cup {[pkg |-> inst.left[1], seen |-> Len(releases)]}]
  /\ UNCHANGED <<repo, workflow, releases, bin, installs>>

ReleaseOf(p, v) ==
  LET r == CHOOSE s \in Range(releases) : s.pkg = p /\ s.version = v
  IN [version |-> v, code |-> r.code, whole |-> TRUE]

\* The archive and then the checksums; what arrives may be damaged.
Fetch(got, sums) ==
  /\ inst.stage = "fetch"
  /\ IF Published(inst.pkg, inst.version)
       THEN LET r == ReleaseOf(inst.pkg, inst.version)
                Arrived(whole) == [r EXCEPT !.whole = whole]
            IN inst' = [inst EXCEPT !.asset = Arrived(got), !.sums = Arrived(sums), !.stage = "verify"]
       ELSE Stops("failed")
  /\ UNCHANGED <<repo, workflow, releases, bin, installs>>

\* Mutant: an archive without a checksum is taken.
VerifiedIfListed == inst.sums.whole => inst.asset = inst.sums

\* The line of the archive is there, and it is the archive's.
Verified == inst.sums.whole /\ inst.asset = inst.sums

Verify ==
  /\ inst.stage = "verify"
  /\ IF Verified THEN inst' = [inst EXCEPT !.stage = "copy"] ELSE Stops("failed")
  /\ UNCHANGED <<repo, workflow, releases, bin, installs>>

\* cp writes over the binary that is there.
Copy ==
  /\ inst.stage = "copy"
  /\ bin' = [bin EXCEPT ![inst.pkg] = [inst.asset EXCEPT !.whole = FALSE]]
  /\ inst' = [inst EXCEPT !.stage = "copying"]
  /\ UNCHANGED <<repo, workflow, releases, installs>>

Copied ==
  /\ inst.stage = "copying"
  /\ bin' = [bin EXCEPT ![inst.pkg] = inst.asset]
  /\ inst' = [inst EXCEPT !.stage = "next", !.put = @ \cup {inst.pkg}, !.left = Tail(@),
                          !.version = 0, !.asset = None, !.sums = None]
  /\ UNCHANGED <<repo, workflow, releases, installs>>

Finish ==
  /\ inst.stage = "next" /\ inst.left = <<>>
  /\ Stops("installed")
  /\ UNCHANGED <<repo, workflow, releases, bin, installs>>

\* A command fails under set -e, or the user interrupts.
InstallFails ==
  /\ inst.stage # "idle"
  /\ Stops("failed")
  /\ UNCHANGED <<repo, workflow, releases, bin, installs>>

-----------------------------------------------------------------------------
Selections == {Packages} \cup {<<p>> : p \in Names}

Next ==
  \/ \E touched, named \in SUBSET Names : Merge(touched, named)
  \/ MergeVersionPr
  \/ Begin \/ RunFails \/ OpenVersionPr \/ StartPublish \/ Skip \/ Build \/ Create
  \/ \E n \in failed : Rerun(n)
  \/ \E pkgs \in Selections, pin \in {None} \cup 1..MaxCommits : Install(pkgs, pin)
  \/ \E got, sums \in BOOLEAN : Fetch(got, sums)
  \/ Resolve \/ Verify \/ Copy \/ Copied \/ Finish \/ InstallFails

Spec == Init /\ [][Next]_vars

-----------------------------------------------------------------------------
\* What a release holds is what its changelog tells and changes whose author named only other
\* packages; it never holds a change that the next version will announce.
ChangelogIsComplete ==
  \A k \in DOMAIN releases :
    LET r == releases[k] IN
    /\ r.log \cap Tip.code[r.pkg] \subseteq r.code
    /\ \A c \in Tip.pending : r.pkg \in c.names => c.at \notin r.code
    /\ \A j \in DOMAIN releases :
         releases[j].pkg = r.pkg /\ releases[j].version < r.version => releases[j].code \subseteq r.code

\* A binary that is in place is a release, whole, except while it is written or after an
\* installer that failed while it wrote; and an installer that says so has put every package
\* in place that it did not skip.
InstalledIsReleased ==
  /\ \A p \in Names : bin[p].version # 0 /\ bin[p].whole =>
       Published(p, bin[p].version) /\ bin[p] = ReleaseOf(p, bin[p].version)
  /\ inst.answer = "installed" => \A p \in inst.put : bin[p].whole /\ bin[p].version # 0

\* An installer that was asked for no version never puts an older one in place of a newer one,
\* in whatever order the two were published.
InstallsNewer ==
  \A p \in Names : bin'[p] # bin[p] /\ inst.pin = None => bin'[p].version >= bin[p].version
NeverOlder == [][InstallsNewer]_vars

\* install.sh:286: "skip cleanly when no release exists for this package yet".
SkippedOnlyIfNoRelease ==
  \A s \in inst.skipped : \A k \in 1..s.seen : releases[k].pkg # s.pkg
=============================================================================
