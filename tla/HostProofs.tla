----------------------------- MODULE HostProofs -----------------------------
(***************************************************************************)
(* Proofs about what runs on a user's machine, for any number of commands, *)
(* processes and profiles: the daemon with the commands that use it        *)
(* (Daemon), and the commands of the CLI on its configuration file (Cli,   *)
(* here Config).                                                           *)
(*                                                                         *)
(* Of the daemon, IInv is inductive.  As long as no start or stop crosses  *)
(* another, HostInv says who may be alive (one process, and one more that  *)
(* will find it) and whose the pid file, the socket and the key pair are;  *)
(* FilesInv ties each file to the process that mounted it; VaultInv says   *)
(* that an unlock still under way above an unlocked vault overlapped it.   *)
(*                                                                         *)
(* Of the configuration, CliInv is inductive.  OrderInv, as long as no two *)
(* commands mix, speaks of the settings there will be once a write that is *)
(* under way is done (Coming): at every step of every command they agree   *)
(* with the session, except between the two writes of `org use`.  SlotsInv *)
(* and RootsInv hold whatever mixes.                                       *)
(***************************************************************************)
EXTENDS Daemon, ConfigCommands, Sequences, TLAPS

\* A process that starts or listens; one that answers whoever looks for a daemon.
Alive(d) == proc[d] \in Starting \cup {"listening"}
Serves(d) == proc[d] = "listening" /\ d \notin told

\* Processes come one after the other: a second one has only to see that it is second.
\* Who is past the check has the pid file, and who listens has the socket.
Serial ==
  /\ \A d, e \in Daemons : d # e /\ Alive(d) /\ Alive(e) =>
       (proc[d] = "check" /\ Serves(e)) \/ (proc[e] = "check" /\ Serves(d))
  /\ \A d \in Daemons \ told :
       proc[d] \in {"identity", "pub", "key", "listen", "listening"} => pidFile = d
  /\ \A d \in Daemons \ told : proc[d] = "listening" => sock = d

\* The two halves of the identity on disk are of one daemon, which every daemon that
\* listens has loaded; nobody makes a pair while there is one.
OnePair ==
  /\ keyFile # None => pubFile = keyFile
  /\ \A d \in Daemons : proc[d] \in {"pub", "key"} => keyFile = None
  /\ \A d \in Daemons : proc[d] = "key" => pubFile = d
  /\ \A d \in Daemons : proc[d] \in {"listen", "listening"} =>
       keyFile # None /\ ident[d] = [pub |-> keyFile, key |-> keyFile]
  /\ pinned # None => pinned = keyFile

HostInv == ~raced => Serial /\ OnePair

\* Only a process that listens has mounted anything; a command that has yet to start its
\* process has none.
FilesInv ==
  /\ FilesAccounted
  /\ \A d \in Daemons : mounted[d] # {} => proc[d] = "listening"
  /\ \A d \in told : proc[d] # "none"
  /\ \A r \in Requests : stage[r] \in {"unsent", "clearing"} => proc[r] = "none"

\* An unlock between its fetch and its end, over a vault that is open, was overtaken.
VaultInv ==
  \A r \in Requests :
    stage[r] = "fetched" /\ op[r] = "unlock" /\ vault[at[r]] # Nothing => r \in overlap

\* What a call carries from one step to the next, and a key in memory, are of a profile.
CallsInv ==
  /\ \A d \in Daemons :
       vault[d] # Nothing => vault[d].profile \in Profiles /\ vault[d].key \in Keys
  /\ \A r \in Requests :
       stage[r] \in {"verified", "fetched", "put"} /\ op[r] \in Naming => on[r] \in Profiles
  /\ \A r \in Requests :
       stage[r] \in {"fetched", "put"} => at[r] \in Daemons /\ seen[r] \in Keys
  /\ \A r \in Requests : stage[r] = "fetched" => op[r] \in {"unlock", "changePassword"}
  /\ \A r \in Requests : stage[r] = "put" => op[r] \in {"changePassword", "addItem"}

IInv == TypeOK /\ HostInv /\ FilesInv /\ VaultInv /\ CallsInv

-----------------------------------------------------------------------------
\* None is no daemon and no profile, and the daemon of the last login is no command.
LEMMA Sentinels ==
  /\ None \notin Daemons /\ None \notin Profiles /\ Old \notin Requests
  /\ Requests \subseteq Daemons /\ Old \in Daemons /\ Daemons = Requests \cup {Old}
BY DaemonConstants DEF Daemons

\* A step that leaves the processes and their files alone.
LEMMA HostSame ==
  ASSUME HostInv, UNCHANGED host, raced' = raced
  PROVE  HostInv'
BY DEF HostInv, Serial, OnePair, Alive, Serves, host

\* A call goes on, and nothing is mounted, released or started.
LEMMA FilesSame ==
  ASSUME TypeOK, FilesInv, NEW r \in Requests, NEW s \in Stages \ {"unsent", "clearing"},
         Goto(r, s), UNCHANGED <<proc, told, mounted, files, spilt>>
  PROVE  FilesInv'
BY DEF TypeOK, FilesInv, FilesAccounted, Goto

\* A call goes on, and not to where an unlock waits for its fetch.
LEMMA VaultSame ==
  ASSUME TypeOK, VaultInv, NEW r \in Requests, NEW s \in Stages \ {"fetched"},
         Goto(r, s), UNCHANGED <<vault, overlap>>,
         \A q \in Requests \ {r} : op'[q] = op[q] /\ at'[q] = at[q]
  PROVE  VaultInv'
BY DEF TypeOK, VaultInv, Goto

\* A call that is over, or has yet to be sent.
LEMMA CallsSame ==
  ASSUME TypeOK, CallsInv, NEW r \in Requests,
         NEW s \in Stages \ {"verified", "fetched", "put"}, Goto(r, s),
         \A d \in Daemons : vault'[d] \in {vault[d], Nothing},
         \A q \in Requests \ {r} :
           op'[q] = op[q] /\ on'[q] = on[q] /\ at'[q] = at[q] /\ seen'[q] = seen[q]
  PROVE  CallsInv'
<1>1. \A q \in Requests \ {r} : stage'[q] = stage[q]
  BY DEF TypeOK, Goto
<1>2. stage'[r] = s
  BY DEF TypeOK, Goto
<1>. QED BY <1>1, <1>2 DEF CallsInv

\* A process that was starting goes on or ends: it has mounted nothing.
LEMMA FilesGo ==
  ASSUME TypeOK, FilesInv, NEW d \in Daemons, proc[d] \in Starting,
         NEW s \in {"dead", "listening"} \cup Starting, proc' = [proc EXCEPT ![d] = s],
         UNCHANGED <<told, mounted, files, spilt, stage>>
  PROVE  FilesInv'
<1>1. proc[d] # "listening" /\ proc[d] # "none" /\ s # "none"
  BY DEF Starting
<1>. QED BY <1>1 DEF TypeOK, FilesInv, FilesAccounted

\* A process ends: its files are deleted, or spilt.
LEMMA FilesExit ==
  ASSUME TypeOK, FilesInv, NEW d \in Daemons, proc[d] # "none",
         proc' = [proc EXCEPT ![d] = "dead"], mounted' = [mounted EXCEPT ![d] = {}],
         told' = told \ {d}, files' \subseteq files, spilt \subseteq spilt', stage' = stage,
         \A f \in files' : f \in mounted[d] => f \in spilt'
  PROVE  FilesInv'
<1>1. \A e \in Daemons \ {d} : proc'[e] = proc[e] /\ mounted'[e] = mounted[e]
  BY DEF TypeOK
<1>2. proc'[d] = "dead" /\ mounted'[d] = {}
  BY DEF TypeOK
<1>3. FilesAccounted'
  BY <1>1 DEF FilesInv, FilesAccounted
<1>4. \A e \in Daemons : mounted'[e] # {} => proc'[e] = "listening"
  BY <1>1, <1>2 DEF FilesInv
<1>5. \A e \in told' : proc'[e] # "none"
  BY <1>1 DEF TypeOK, FilesInv
<1>6. \A q \in Requests : stage'[q] \in {"unsent", "clearing"} => proc'[q] = "none"
  <2>1. \A q \in Requests : stage[q] \in {"unsent", "clearing"} => q # d
    BY DEF FilesInv
  <2>. QED BY <1>1, <2>1, Sentinels DEF FilesInv
<1>. QED BY <1>3, <1>4, <1>5, <1>6 DEF FilesInv

\* Whoever is alive afterwards is one process, which starts or is told to end.
LEMMA HostAlone ==
  ASSUME HostInv, NEW x, raced => raced', UNCHANGED <<pubFile, keyFile, pinned, ident>>,
         \A d \in Daemons : proc'[d] \in {"pub", "key", "listen", "listening"} =>
           proc'[d] = proc[d],
         ~raced' => \A d \in Daemons : proc'[d] \in Starting \cup {"listening"} =>
           d = x /\ (proc'[d] = "check" \/ d \in told')
  PROVE  HostInv'
<1>. SUFFICES ASSUME ~raced' PROVE Serial' /\ OnePair'
  BY DEF HostInv
<1>1. OnePair
  BY DEF HostInv
<1>2. OnePair'
  BY <1>1 DEF OnePair
<1>3. Serial'
  BY DEF Serial, Alive, Starting
<1>. QED BY <1>2, <1>3

\* The fingerprint that is pinned is of the pair on disk.
LEMMA PinsTheShown == ASSUME IInv, NEW r \in Requests, Verify(r) PROVE HostInv'
<1>1. /\ UNCHANGED <<pidFile, sock, pubFile, keyFile, proc, told, ident, raced>>
      /\ \/ pinned' = pinned
         \/ Answers /\ pinned' = ident[sock].pub
  BY DEF Verify, history
<1>2. sock \in Daemons \cup {None}
  BY DEF IInv, TypeOK
<1>3. ASSUME ~raced, Answers PROVE keyFile # None /\ ident[sock].pub = keyFile
  BY <1>2, <1>3 DEF IInv, HostInv, OnePair, Answers
<1>. QED BY <1>1, <1>3 DEF IInv, HostInv, Serial, OnePair, Alive, Serves

\* The steps, one lemma each, with one step for each part of the invariant.
LEMMA ListenStep == ASSUME IInv, NEW d \in Daemons, Listen(d) PROVE IInv'
<1>. TypeOK /\ HostInv /\ FilesInv /\ VaultInv /\ CallsInv
  BY DEF IInv
<1>. /\ proc[d] = "listen" /\ sock' = d /\ proc' = [proc EXCEPT ![d] = "listening"]
     /\ UNCHANGED <<pidFile, pubFile, keyFile, pinned, told, ident, memory, server, local, history>>
  BY DEF Listen
<1>1. TypeOK'
  BY DEF TypeOK, memory, server, local, history
<1>2. HostInv'
  BY DEF TypeOK, HostInv, Serial, OnePair, Alive, Serves, history, Starting
<1>3. FilesInv'
  BY DEF TypeOK, FilesInv, FilesAccounted, memory, history, local
<1>4. VaultInv'
  BY DEF VaultInv, memory, history, local
<1>5. CallsInv'
  BY DEF TypeOK, CallsInv, Locks, memory, server, local
<1>. QED BY <1>1, <1>2, <1>3, <1>4, <1>5 DEF IInv

LEMMA UnreachedStep == ASSUME IInv, NEW r \in Requests, Unreached(r) PROVE IInv'
<1>. TypeOK /\ HostInv /\ FilesInv /\ VaultInv /\ CallsInv
  BY DEF IInv
<1>0. /\ UNCHANGED <<host, auth, vault, timer, mounted, files, wraps, items, op, on, at, seen,
         raced, overlap, spilt>>
      /\ Goto(r, "refused")
  BY DEF Unreached, memory, server, history
<1>1. TypeOK'
  BY <1>0 DEF TypeOK, Goto, Stages, host
<1>2. HostInv'
  BY <1>0, HostSame
<1>3. FilesInv'
  BY <1>0, FilesSame DEF host, Stages
<1>4. VaultInv'
  BY <1>0, VaultSame DEF Stages
<1>5. CallsInv'
  BY <1>0, CallsSame DEF TypeOK, Stages
<1>. QED BY <1>1, <1>2, <1>3, <1>4, <1>5 DEF IInv

LEMMA HangsStep == ASSUME IInv, NEW r \in Requests, Hangs(r) PROVE IInv'
<1>. TypeOK /\ HostInv /\ FilesInv /\ VaultInv /\ CallsInv
  BY DEF IInv
<1>0. /\ UNCHANGED <<host, auth, vault, timer, mounted, files, wraps, items, op, on, at, seen,
         raced, overlap, spilt>>
      /\ Goto(r, "refused")
  BY DEF Hangs, memory, server, history
<1>1. TypeOK'
  BY <1>0 DEF TypeOK, Goto, Stages, host
<1>2. HostInv'
  BY <1>0, HostSame
<1>3. FilesInv'
  BY <1>0, FilesSame DEF host, Stages
<1>4. VaultInv'
  BY <1>0, VaultSame DEF Stages
<1>5. CallsInv'
  BY <1>0, CallsSame DEF TypeOK, Stages
<1>. QED BY <1>1, <1>2, <1>3, <1>4, <1>5 DEF IInv

LEMMA RefuseFetchStep == ASSUME IInv, NEW r \in Requests, RefuseFetch(r) PROVE IInv'
<1>. TypeOK /\ HostInv /\ FilesInv /\ VaultInv /\ CallsInv
  BY DEF IInv
<1>0. /\ UNCHANGED <<host, auth, vault, timer, mounted, files, wraps, items, op, on, at, seen,
         raced, overlap, spilt>>
      /\ Goto(r, "refused")
  BY DEF RefuseFetch, memory, server, history
<1>1. TypeOK'
  BY <1>0 DEF TypeOK, Goto, Stages, host
<1>2. HostInv'
  BY <1>0, HostSame
<1>3. FilesInv'
  BY <1>0, FilesSame DEF host, Stages
<1>4. VaultInv'
  BY <1>0, VaultSame DEF Stages
<1>5. CallsInv'
  BY <1>0, CallsSame DEF TypeOK, Stages
<1>. QED BY <1>1, <1>2, <1>3, <1>4, <1>5 DEF IInv

LEMMA FetchFailsStep == ASSUME IInv, NEW r \in Requests, FetchFails(r) PROVE IInv'
<1>. TypeOK /\ HostInv /\ FilesInv /\ VaultInv /\ CallsInv
  BY DEF IInv
<1>0. /\ UNCHANGED <<host, auth, vault, timer, mounted, files, wraps, items, op, on, at, seen,
         raced, overlap, spilt>>
      /\ Goto(r, "refused")
  BY DEF FetchFails, memory, server, history
<1>1. TypeOK'
  BY <1>0 DEF TypeOK, Goto, Stages, host
<1>2. HostInv'
  BY <1>0, HostSame
<1>3. FilesInv'
  BY <1>0, FilesSame DEF host, Stages
<1>4. VaultInv'
  BY <1>0, VaultSame DEF Stages
<1>5. CallsInv'
  BY <1>0, CallsSame DEF TypeOK, Stages
<1>. QED BY <1>1, <1>2, <1>3, <1>4, <1>5 DEF IInv

LEMMA SetSessionStep == ASSUME IInv, NEW r \in Requests, SetSession(r) PROVE IInv'
<1>. TypeOK /\ HostInv /\ FilesInv /\ VaultInv /\ CallsInv
  BY DEF IInv
<1>0. /\ UNCHANGED <<host, vault, timer, mounted, files, wraps, items, op, on, at, seen, raced,
         overlap, spilt>>
      /\ Goto(r, "done") /\ sock \in Daemons /\ auth' \subseteq auth \cup {sock}
  BY DEF SetSession, memory, server, history, Returns, Reaches, Answers, TypeOK
<1>1. TypeOK'
  BY <1>0 DEF TypeOK, Goto, Stages, host
<1>2. HostInv'
  BY <1>0, HostSame
<1>3. FilesInv'
  BY <1>0, FilesSame DEF host, Stages
<1>4. VaultInv'
  BY <1>0, VaultSame DEF Stages
<1>5. CallsInv'
  BY <1>0, CallsSame DEF TypeOK, Stages
<1>. QED BY <1>1, <1>2, <1>3, <1>4, <1>5 DEF IInv

LEMMA ClearSessionStep == ASSUME IInv, NEW r \in Requests, ClearSession(r) PROVE IInv'
<1>. TypeOK /\ HostInv /\ FilesInv /\ VaultInv /\ CallsInv
  BY DEF IInv
<1>0. /\ UNCHANGED <<host, vault, timer, mounted, files, wraps, items, op, on, at, seen, raced,
         overlap, spilt>>
      /\ Goto(r, "done") /\ sock \in Daemons /\ auth' \subseteq auth \cup {sock}
  BY DEF ClearSession, memory, server, history, Returns, Reaches, Answers, TypeOK
<1>1. TypeOK'
  BY <1>0 DEF TypeOK, Goto, Stages, host
<1>2. HostInv'
  BY <1>0, HostSame
<1>3. FilesInv'
  BY <1>0, FilesSame DEF host, Stages
<1>4. VaultInv'
  BY <1>0, VaultSame DEF Stages
<1>5. CallsInv'
  BY <1>0, CallsSame DEF TypeOK, Stages
<1>. QED BY <1>1, <1>2, <1>3, <1>4, <1>5 DEF IInv

LEMMA DecryptStep == ASSUME IInv, NEW r \in Requests, Decrypt(r) PROVE IInv'
<1>. TypeOK /\ HostInv /\ FilesInv /\ VaultInv /\ CallsInv
  BY DEF IInv
<1>0. /\ UNCHANGED <<host, auth, vault, mounted, files, wraps, items, op, on, at, seen, raced,
         overlap, spilt>>
      /\ \E s \in {"done", "refused"} : Goto(r, s)
      /\ sock \in Daemons /\ timer' \subseteq timer \cup {sock}
  BY DEF Decrypt, memory, server, history, Returns, RestartsTimer, InTheClear, AfterDecrypting,
     Reaches, Answers, TypeOK
<1>1. TypeOK'
  BY <1>0 DEF TypeOK, Goto, Stages, host
<1>2. HostInv'
  BY <1>0, HostSame
<1>3. FilesInv'
  BY <1>0, FilesSame DEF host, Stages
<1>4. VaultInv'
  BY <1>0, VaultSame DEF Stages
<1>5. CallsInv'
  BY <1>0, CallsSame DEF TypeOK, Stages
<1>. QED BY <1>1, <1>2, <1>3, <1>4, <1>5 DEF IInv

LEMMA ExecStep == ASSUME IInv, NEW r \in Requests, Exec(r) PROVE IInv'
<1>. TypeOK /\ HostInv /\ FilesInv /\ VaultInv /\ CallsInv
  BY DEF IInv
<1>0. /\ UNCHANGED <<host, auth, vault, mounted, files, wraps, items, op, on, at, seen, raced,
         overlap, spilt>>
      /\ \E s \in {"done", "refused"} : Goto(r, s)
      /\ sock \in Daemons /\ timer' \subseteq timer \cup {sock}
  BY DEF Exec, memory, server, history, Returns, RestartsTimer, InTheClear, AfterDecrypting,
     Reaches, Answers, TypeOK
<1>1. TypeOK'
  BY <1>0 DEF TypeOK, Goto, Stages, host
<1>2. HostInv'
  BY <1>0, HostSame
<1>3. FilesInv'
  BY <1>0, FilesSame DEF host, Stages
<1>4. VaultInv'
  BY <1>0, VaultSame DEF Stages
<1>5. CallsInv'
  BY <1>0, CallsSame DEF TypeOK, Stages
<1>. QED BY <1>1, <1>2, <1>3, <1>4, <1>5 DEF IInv

LEMMA LockStep == ASSUME IInv, NEW r \in Requests, Lock(r) PROVE IInv'
<1>. TypeOK /\ HostInv /\ FilesInv /\ VaultInv /\ CallsInv
  BY DEF IInv
<1>0. /\ UNCHANGED <<host, auth, mounted, files, wraps, items, op, on, at, seen, raced, overlap,
         spilt>>
      /\ Goto(r, "done") /\ timer' \subseteq timer /\ vault' = [vault EXCEPT ![sock] = Nothing]
  BY DEF Lock, memory, server, history, Returns, Locks
<1>1. TypeOK'
  BY <1>0 DEF TypeOK, Goto, Stages, host, Nothing
<1>2. HostInv'
  BY <1>0, HostSame
<1>3. FilesInv'
  BY <1>0, FilesSame DEF host, Stages
<1>4. VaultInv'
  BY <1>0 DEF TypeOK, VaultInv, Goto
<1>5. CallsInv'
  BY <1>0, CallsSame DEF TypeOK, Stages
<1>. QED BY <1>1, <1>2, <1>3, <1>4, <1>5 DEF IInv

LEMMA CallStep == ASSUME IInv, NEW r \in Requests, Call(r) PROVE IInv'
<1>. TypeOK /\ HostInv /\ FilesInv /\ VaultInv /\ CallsInv
  BY DEF IInv
<1>0. /\ UNCHANGED <<host, auth, vault, timer, mounted, files, wraps, items, on, at, seen, raced,
         overlap, spilt>>
      /\ Goto(r, "verified") /\ \E o \in Open : op' = [op EXCEPT ![r] = o]
  BY DEF Call, memory, server, history, Gives
<1>1. TypeOK'
  BY <1>0 DEF TypeOK, Goto, Stages, host, Ops, Open
<1>2. HostInv'
  BY <1>0, HostSame
<1>3. FilesInv'
  BY <1>0, FilesSame DEF host, Stages
<1>4. VaultInv'
  BY <1>0, VaultSame DEF TypeOK, Stages
<1>5. CallsInv'
  BY <1>0 DEF TypeOK, CallsInv, Goto, Open, Naming
<1>. QED BY <1>1, <1>2, <1>3, <1>4, <1>5 DEF IInv

LEMMA PutPasswordStep == ASSUME IInv, NEW r \in Requests, PutPassword(r) PROVE IInv'
<1>. TypeOK /\ HostInv /\ FilesInv /\ VaultInv /\ CallsInv
  BY DEF IInv
<1>0. /\ UNCHANGED <<host, auth, vault, timer, mounted, files, items, op, on, at, seen, raced,
         overlap, spilt>>
      /\ Goto(r, "done") /\ wraps' = [wraps EXCEPT ![on[r]] = seen[r]] /\ seen[r] \in Keys
  BY DEF PutPassword, memory, server, history, CallsInv
<1>1. TypeOK'
  BY <1>0 DEF TypeOK, Goto, Stages, host
<1>2. HostInv'
  BY <1>0, HostSame
<1>3. FilesInv'
  BY <1>0, FilesSame DEF host, Stages
<1>4. VaultInv'
  BY <1>0, VaultSame DEF Stages
<1>5. CallsInv'
  BY <1>0, CallsSame DEF TypeOK, Stages
<1>. QED BY <1>1, <1>2, <1>3, <1>4, <1>5 DEF IInv

LEMMA CreateItemStep == ASSUME IInv, NEW r \in Requests, CreateItem(r) PROVE IInv'
<1>. TypeOK /\ HostInv /\ FilesInv /\ VaultInv /\ CallsInv
  BY DEF IInv
<1>0. /\ UNCHANGED <<host, auth, vault, timer, mounted, files, wraps, op, on, at, seen, raced,
         overlap, spilt>>
      /\ Goto(r, "done") /\ items' = [items EXCEPT ![r] = [profile |-> on[r], key |-> seen[r]]]
  BY DEF CreateItem, memory, server, history
<1>1. TypeOK'
  BY <1>0 DEF TypeOK, Goto, Stages, host
<1>2. HostInv'
  BY <1>0, HostSame
<1>3. FilesInv'
  BY <1>0, FilesSame DEF host, Stages
<1>4. VaultInv'
  BY <1>0, VaultSame DEF Stages
<1>5. CallsInv'
  BY <1>0, CallsSame DEF TypeOK, Stages
<1>. QED BY <1>1, <1>2, <1>3, <1>4, <1>5 DEF IInv

LEMMA UnlockStep == ASSUME IInv, NEW r \in Requests, Unlock(r) PROVE IInv'
<1>. TypeOK /\ HostInv /\ FilesInv /\ VaultInv /\ CallsInv
  BY DEF IInv
<1>0. /\ UNCHANGED <<host, auth, mounted, files, wraps, items, op, on, at, seen, raced, spilt>>
      /\ stage[r] = "fetched" /\ op[r] = "unlock" /\ Goto(r, "done")
      /\ at[r] \in Daemons /\ seen[r] \in Keys /\ on[r] \in Profiles
      /\ vault' = [vault EXCEPT ![at[r]] = [profile |-> on[r], key |-> seen[r]]]
      /\ timer' = timer \cup {at[r]}
      /\ overlap' = overlap \cup {s \in Requests \ {r} :
                                   op[s] = "unlock" /\ stage[s] = "fetched" /\ at[s] = at[r]}
  BY DEF Unlock, memory, server, history, CallsInv, Naming
<1>1. TypeOK'
  BY <1>0 DEF TypeOK, Goto, Stages, host
<1>2. HostInv'
  BY <1>0, HostSame
<1>3. FilesInv'
  BY <1>0, FilesSame DEF host, Stages
<1>4. VaultInv'
  BY <1>0 DEF TypeOK, VaultInv, CallsInv, Goto
<1>5. CallsInv'
  BY <1>0 DEF TypeOK, CallsInv, Goto
<1>. QED BY <1>1, <1>2, <1>3, <1>4, <1>5 DEF IInv

LEMMA FetchStep == ASSUME IInv, NEW r \in Requests, Fetch(r) PROVE IInv'
<1>. TypeOK /\ HostInv /\ FilesInv /\ VaultInv /\ CallsInv
  BY DEF IInv
<1>0. /\ UNCHANGED <<host, auth, vault, timer, mounted, files, wraps, items, op, on, raced,
         overlap, spilt>>
      /\ stage[r] = "verified" /\ op[r] \in {"unlock", "changePassword"} /\ Goto(r, "fetched")
      /\ op[r] = "unlock" => vault[sock] = Nothing
      /\ sock \in Daemons /\ on[r] \in Profiles /\ wraps[on[r]] \in Keys
      /\ at' = [at EXCEPT ![r] = sock] /\ seen' = [seen EXCEPT ![r] = wraps[on[r]]]
  BY DEF Fetch, memory, server, history, Reaches, Answers, MayUnlock, Unlocked, TypeOK, CallsInv,
     Naming
<1>1. TypeOK'
  BY <1>0 DEF TypeOK, Goto, Stages, host
<1>2. HostInv'
  BY <1>0, HostSame
<1>3. FilesInv'
  BY <1>0, FilesSame DEF host, Stages
<1>4. VaultInv'
  BY <1>0 DEF TypeOK, VaultInv, Goto
<1>5. CallsInv'
  BY <1>0 DEF TypeOK, CallsInv, Goto
<1>. QED BY <1>1, <1>2, <1>3, <1>4, <1>5 DEF IInv

LEMMA RewrapStep == ASSUME IInv, NEW r \in Requests, Rewrap(r) PROVE IInv'
<1>. TypeOK /\ HostInv /\ FilesInv /\ VaultInv /\ CallsInv
  BY DEF IInv
<1>0. /\ UNCHANGED <<host, auth, vault, mounted, files, wraps, items, op, on, at, raced, overlap,
         spilt>>
      /\ stage[r] = "fetched" /\ op[r] = "changePassword" /\ at[r] \in Daemons
      /\ timer' \subseteq timer \cup {at[r]}
      /\ \/ seen' = seen /\ Goto(r, "refused")
         \/ /\ vault[at[r]].key \in Keys /\ seen' = [seen EXCEPT ![r] = vault[at[r]].key]
            /\ \E s \in {"put", "refused"} : Goto(r, s)
  BY DEF Rewrap, memory, server, history, Unlocked, CallsInv
<1>1. TypeOK'
  BY <1>0 DEF TypeOK, Goto, Stages, host
<1>2. HostInv'
  BY <1>0, HostSame
<1>3. FilesInv'
  BY <1>0, FilesSame DEF host, Stages
<1>4. VaultInv'
  BY <1>0, VaultSame DEF Stages
<1>5. CallsInv'
  BY <1>0 DEF TypeOK, CallsInv, Goto
<1>. QED BY <1>1, <1>2, <1>3, <1>4, <1>5 DEF IInv

LEMMA EncryptStep == ASSUME IInv, NEW r \in Requests, Encrypt(r) PROVE IInv'
<1>. TypeOK /\ HostInv /\ FilesInv /\ VaultInv /\ CallsInv
  BY DEF IInv
<1>0. /\ UNCHANGED <<host, auth, vault, mounted, files, wraps, items, op, on, raced, overlap,
         spilt>>
      /\ stage[r] = "verified" /\ op[r] = "addItem" /\ sock \in Daemons
      /\ at' = [at EXCEPT ![r] = sock] /\ timer' \subseteq timer \cup {sock}
      /\ \/ seen' = seen /\ Goto(r, "refused")
         \/ /\ vault[sock].key \in Keys /\ seen' = [seen EXCEPT ![r] = vault[sock].key]
            /\ Goto(r, "put")
  BY DEF Encrypt, memory, server, history, Unlocked, CallsInv, RestartsTimer, Reaches, Answers,
     TypeOK
<1>1. TypeOK'
  BY <1>0 DEF TypeOK, Goto, Stages, host
<1>2. HostInv'
  BY <1>0, HostSame
<1>3. FilesInv'
  BY <1>0, FilesSame DEF host, Stages
<1>4. VaultInv'
  BY <1>0, VaultSame DEF TypeOK, Stages
<1>5. CallsInv'
  BY <1>0 DEF TypeOK, CallsInv, Goto
<1>. QED BY <1>1, <1>2, <1>3, <1>4, <1>5 DEF IInv

LEMMA VerifyStep == ASSUME IInv, NEW r \in Requests, Verify(r) PROVE IInv'
<1>. TypeOK /\ HostInv /\ FilesInv /\ VaultInv /\ CallsInv
  BY DEF IInv
<1>0. /\ UNCHANGED <<memory, server, at, seen, history>>
      /\ UNCHANGED <<pidFile, sock, pubFile, keyFile, proc, told, ident>>
      /\ \E o \in Calls \ Open :
           /\ op' = [op EXCEPT ![r] = o]
           /\ \/ on' = on /\ o \notin Naming
              \/ \E p \in Profiles : on' = [on EXCEPT ![r] = p]
      /\ \E s \in {"verified", "refused"} : Goto(r, s)
      /\ pinned' = pinned \/ (Answers /\ pinned' = ident[sock].pub)
  <2>1. PICK o \in Calls \ Open :
          /\ Gives(r, o)
          /\ o \in Naming => \E p \in Profiles : on' = [on EXCEPT ![r] = p]
          /\ o \notin Naming => on' = on
    BY Zenon DEF Verify
  <2>2. op' = [op EXCEPT ![r] = o]
    BY <2>1 DEF Gives
  <2>3. (on' = on /\ o \notin Naming) \/ \E p \in Profiles : on' = [on EXCEPT ![r] = p]
    BY <2>1
  <2>4. \/ Goto(r, "verified") /\ Answers /\ pinned' = ident[sock].pub
        \/ Goto(r, "refused") /\ pinned' = pinned
    BY DEF Verify
  <2>5. /\ UNCHANGED <<memory, server, at, seen, history>>
        /\ UNCHANGED <<pidFile, sock, pubFile, keyFile, proc, told, ident>>
    BY DEF Verify
  <2>6. \E u \in Calls \ Open :
          /\ op' = [op EXCEPT ![r] = u]
          /\ \/ on' = on /\ u \notin Naming
             \/ \E p \in Profiles : on' = [on EXCEPT ![r] = p]
    BY <2>2, <2>3
  <2>. QED BY <2>4, <2>5, <2>6
<1>1. TypeOK'
  BY <1>0 DEF TypeOK, Goto, Stages, Calls, Ops, memory, server, history, Answers
<1>2. HostInv'
  BY PinsTheShown
<1>3. FilesInv'
  BY <1>0, FilesSame DEF memory, history, Stages
<1>4. VaultInv'
  BY <1>0, VaultSame DEF TypeOK, memory, history, Stages
<1>5. CallsInv'
  BY <1>0 DEF TypeOK, CallsInv, Goto, memory
<1>. QED BY <1>1, <1>2, <1>3, <1>4, <1>5 DEF IInv

LEMMA MountStep == ASSUME IInv, NEW r \in Requests, Mount(r) PROVE IInv'
<1>. TypeOK /\ HostInv /\ FilesInv /\ VaultInv /\ CallsInv
  BY DEF IInv
<1>0. /\ UNCHANGED <<host, auth, vault, timer, wraps, items, op, on, at, seen, raced, overlap,
         spilt>>
      /\ sock \in Daemons /\ proc[sock] = "listening"
      /\ \/ mounted' = mounted /\ files' = files /\ Goto(r, "refused")
         \/ /\ mounted' = [mounted EXCEPT ![sock] = mounted[sock] \cup {r}]
            /\ files' = files \cup {r} /\ Goto(r, "done")
  BY DEF Mount, memory, server, history, Reaches, Answers, Returns, TypeOK
<1>1. TypeOK'
  <2>1. mounted' \in [Daemons -> SUBSET Requests]
    <3>1. mounted[sock] \cup {r} \in SUBSET Requests
      BY <1>0 DEF TypeOK
    <3>. QED BY <1>0, <3>1 DEF TypeOK
  <2>2. files' \subseteq Requests
    BY <1>0 DEF TypeOK
  <2>. QED BY <1>0, <2>1, <2>2 DEF TypeOK, Goto, Stages, host
<1>2. HostInv'
  BY <1>0, HostSame
<1>3. FilesInv'
  <2>1. \A d \in Daemons : mounted'[d] \in {mounted[d], mounted[d] \cup {r}}
    BY <1>0 DEF TypeOK
  <2>2. files' # files => r \in mounted'[sock]
    BY <1>0 DEF TypeOK
  <2>3. FilesAccounted'
    BY <1>0, <2>1, <2>2 DEF FilesInv, FilesAccounted
  <2>4. \A d \in Daemons : mounted'[d] # {} => proc[d] = "listening"
    BY <1>0 DEF TypeOK, FilesInv
  <2>. QED BY <1>0, <2>3, <2>4 DEF TypeOK, FilesInv, Goto, host
<1>4. VaultInv'
  BY <1>0, VaultSame DEF Stages
<1>5. CallsInv'
  BY <1>0, CallsSame DEF TypeOK, Stages
<1>. QED BY <1>1, <1>2, <1>3, <1>4, <1>5 DEF IInv

LEMMA CleanupStep == ASSUME IInv, NEW r \in Requests, Cleanup(r) PROVE IInv'
<1>. TypeOK /\ HostInv /\ FilesInv /\ VaultInv /\ CallsInv
  BY DEF IInv
<1>0. /\ UNCHANGED <<host, auth, vault, timer, wraps, items, op, on, at, seen, raced, overlap,
         spilt>>
      /\ sock \in Daemons /\ proc[sock] = "listening"
      /\ \/ mounted' = mounted /\ files' = files /\ Goto(r, "refused")
         \/ \E f \in mounted[sock] :
              /\ mounted' = [mounted EXCEPT ![sock] = mounted[sock] \ {f}]
              /\ files' = files \ {f} /\ Goto(r, "done")
  BY DEF Cleanup, memory, server, history, Reaches, Answers, Returns, TypeOK
<1>1. TypeOK'
  <2>1. mounted' \in [Daemons -> SUBSET Requests]
    <3>1. \A f : mounted[sock] \ {f} \in SUBSET Requests
      BY <1>0 DEF TypeOK
    <3>. QED BY <1>0, <3>1 DEF TypeOK
  <2>2. files' \subseteq Requests
    BY <1>0 DEF TypeOK
  <2>. QED BY <1>0, <2>1, <2>2 DEF TypeOK, Goto, Stages, host
<1>2. HostInv'
  BY <1>0, HostSame
<1>3. FilesInv'
  <2>1. CASE mounted' = mounted /\ files' = files /\ Goto(r, "refused")
    BY <1>0, <2>1, FilesSame DEF host, Stages
  <2>2. ASSUME NEW f \in mounted[sock], mounted' = [mounted EXCEPT ![sock] = mounted[sock] \ {f}],
               files' = files \ {f}, Goto(r, "done")
        PROVE  FilesInv'
    <3>1. \A d \in Daemons : mounted'[d] \in {mounted[d], mounted[d] \ {f}}
      BY <1>0, <2>2 DEF TypeOK
    <3>2. FilesAccounted'
      <4>1. \A g \in files' : g \in files /\ g # f
        BY <2>2
      <4>2. \A d \in Daemons : \A g \in mounted[d] : g # f => g \in mounted'[d]
        BY <3>1
      <4>. QED BY <1>0, <4>1, <4>2 DEF FilesInv, FilesAccounted
    <3>3. \A d \in Daemons : mounted'[d] # {} => mounted[d] # {}
      BY <3>1
    <3>4. \A q \in Requests : stage'[q] \in {"unsent", "clearing"} =>
            stage[q] \in {"unsent", "clearing"}
      BY <2>2 DEF TypeOK, Goto
    <3>. QED BY <1>0, <3>2, <3>3, <3>4 DEF FilesInv, host
  <2>. QED BY <1>0, <2>1, <2>2
<1>4. VaultInv'
  BY <1>0, VaultSame DEF Stages
<1>5. CallsInv'
  BY <1>0, CallsSame DEF TypeOK, Stages
<1>. QED BY <1>1, <1>2, <1>3, <1>4, <1>5 DEF IInv

LEMMA SessionExpiresStep == ASSUME IInv, SessionExpires PROVE IInv'
<1>. TypeOK /\ HostInv /\ FilesInv /\ VaultInv /\ CallsInv
  BY DEF IInv
<1>. UNCHANGED <<host, vault, timer, mounted, files, server, local, history>>
        /\ auth' \subseteq auth
  BY DEF SessionExpires
<1>1. TypeOK'
  BY DEF TypeOK, host, server, local, history
<1>2. HostInv'
  BY HostSame DEF history
<1>3. FilesInv'
  BY DEF FilesInv, FilesAccounted, host, local, history
<1>4. VaultInv'
  BY DEF VaultInv, local, history
<1>5. CallsInv'
  BY DEF TypeOK, CallsInv, Locks, memory, server, local
<1>. QED BY <1>1, <1>2, <1>3, <1>4, <1>5 DEF IInv

LEMMA AutoLockStep == ASSUME IInv, NEW d \in Daemons, AutoLock(d) PROVE IInv'
<1>. TypeOK /\ HostInv /\ FilesInv /\ VaultInv /\ CallsInv
  BY DEF IInv
<1>. UNCHANGED <<host, auth, mounted, files, server, local, history>> /\ Locks(d)
  BY DEF AutoLock
<1>1. TypeOK'
  BY DEF TypeOK, Locks, Nothing, host, server, local, history
<1>2. HostInv'
  BY HostSame DEF history
<1>3. FilesInv'
  BY DEF FilesInv, FilesAccounted, host, local, history
<1>4. VaultInv'
  BY DEF TypeOK, VaultInv, Locks, local, history
<1>5. CallsInv'
  BY DEF TypeOK, CallsInv, Locks, memory, server, local
<1>. QED BY <1>1, <1>2, <1>3, <1>4, <1>5 DEF IInv

LEMMA CheckRunningStep == ASSUME IInv, NEW d \in Daemons, CheckRunning(d) PROVE IInv'
<1>. TypeOK /\ HostInv /\ FilesInv /\ VaultInv /\ CallsInv
  BY DEF IInv
<1>0. /\ UNCHANGED <<pidFile, sock, pubFile, keyFile, pinned, told, ident,
                   auth, vault, timer, mounted, files, server, local, raced, overlap, spilt>>
      /\ proc[d] = "check"
      /\ \/ proc' = [proc EXCEPT ![d] = "clear"] /\ ~(pidFile # None
              /\ proc[pidFile] \notin {"none", "dead"} /\ sock # None)
         \/ proc' = [proc EXCEPT ![d] = "dead"]
  BY DEF CheckRunning, memory, history, MayStart, IsDaemonRunning, Exists
<1>1. TypeOK'
  BY <1>0, Sentinels DEF TypeOK, Starting, server, local
<1>2. HostInv'
  BY <1>0, Sentinels DEF TypeOK, HostInv, Serial, OnePair, Alive, Serves, Starting
<1>3. FilesInv'
  BY <1>0, FilesGo DEF Starting, local
<1>4. VaultInv'
  BY <1>0 DEF VaultInv, local
<1>5. CallsInv'
  BY <1>0 DEF TypeOK, CallsInv, local
<1>. QED BY <1>1, <1>2, <1>3, <1>4, <1>5 DEF IInv

LEMMA ClearStaleStep == ASSUME IInv, NEW d \in Daemons, ClearStale(d) PROVE IInv'
<1>. TypeOK /\ HostInv /\ FilesInv /\ VaultInv /\ CallsInv
  BY DEF IInv
<1>0. /\ UNCHANGED <<pubFile, keyFile, pinned, told, ident,
                   auth, vault, timer, mounted, files, server, local, raced, overlap, spilt>>
      /\ proc[d] = "clear" /\ proc' = [proc EXCEPT ![d] = "pid"]
      /\ pidFile' = None /\ sock' = None
  BY DEF ClearStale, memory, history, Clear
<1>1. TypeOK'
  BY <1>0, Sentinels DEF TypeOK, Starting, server, local
<1>2. HostInv'
  BY <1>0, Sentinels DEF TypeOK, HostInv, Serial, OnePair, Alive, Serves, Starting
<1>3. FilesInv'
  BY <1>0, FilesGo DEF Starting, local
<1>4. VaultInv'
  BY <1>0 DEF VaultInv, local
<1>5. CallsInv'
  BY <1>0 DEF TypeOK, CallsInv, local
<1>. QED BY <1>1, <1>2, <1>3, <1>4, <1>5 DEF IInv

LEMMA WritePidStep == ASSUME IInv, NEW d \in Daemons, WritePid(d) PROVE IInv'
<1>. TypeOK /\ HostInv /\ FilesInv /\ VaultInv /\ CallsInv
  BY DEF IInv
<1>0. /\ UNCHANGED <<sock, pubFile, keyFile, pinned, told, ident,
                   auth, vault, timer, mounted, files, server, local, raced, overlap, spilt>>
      /\ proc[d] = "pid" /\ proc' = [proc EXCEPT ![d] = "identity"]
      /\ pidFile' = d
  BY DEF WritePid, memory, history
<1>1. TypeOK'
  BY <1>0, Sentinels DEF TypeOK, Starting, server, local
<1>2. HostInv'
  BY <1>0, Sentinels DEF TypeOK, HostInv, Serial, OnePair, Alive, Serves, Starting
<1>3. FilesInv'
  BY <1>0, FilesGo DEF Starting, local
<1>4. VaultInv'
  BY <1>0 DEF VaultInv, local
<1>5. CallsInv'
  BY <1>0 DEF TypeOK, CallsInv, local
<1>. QED BY <1>1, <1>2, <1>3, <1>4, <1>5 DEF IInv

LEMMA LoadIdentityStep == ASSUME IInv, NEW d \in Daemons, LoadIdentity(d) PROVE IInv'
<1>. TypeOK /\ HostInv /\ FilesInv /\ VaultInv /\ CallsInv
  BY DEF IInv
<1>0. /\ UNCHANGED <<pidFile, sock, pubFile, keyFile, pinned, told,
                   auth, vault, timer, mounted, files, server, local, raced, overlap, spilt>>
      /\ proc[d] = "identity"
      /\ \/ /\ pubFile # None /\ keyFile # None
            /\ ident' = [ident EXCEPT ![d] = [pub |-> pubFile, key |-> keyFile]]
            /\ proc' = [proc EXCEPT ![d] = "listen"]
         \/ /\ ~(pubFile # None /\ keyFile # None) /\ ident' = ident
            /\ proc' = [proc EXCEPT ![d] = "pub"]
  BY DEF LoadIdentity, memory, history
<1>1. TypeOK'
  <2>1. ident' \in [Daemons -> [pub : Daemons \cup {None}, key : Daemons \cup {None}]]
    <3>1. pubFile \in Daemons \cup {None} /\ keyFile \in Daemons \cup {None}
      BY DEF TypeOK
    <3>2. [pub |-> pubFile, key |-> keyFile] \in [pub : Daemons \cup {None},
            key : Daemons \cup {None}]
      BY <3>1
    <3>3. ident \in [Daemons -> [pub : Daemons \cup {None}, key : Daemons \cup {None}]]
      BY DEF TypeOK
    <3>. QED BY <1>0, <3>2, <3>3
  <2>2. proc' \in [Daemons -> {"none", "dead", "stranger", "listening"} \cup Starting]
    BY <1>0 DEF TypeOK, Starting
  <2>. QED BY <1>0, <2>1, <2>2 DEF TypeOK, server, local
<1>2. HostInv'
  BY <1>0, Sentinels DEF TypeOK, HostInv, Serial, OnePair, Alive, Serves, Starting
<1>3. FilesInv'
  BY <1>0, FilesGo DEF Starting, local
<1>4. VaultInv'
  BY <1>0 DEF VaultInv, local
<1>5. CallsInv'
  BY <1>0 DEF TypeOK, CallsInv, local
<1>. QED BY <1>1, <1>2, <1>3, <1>4, <1>5 DEF IInv

LEMMA WritePubStep == ASSUME IInv, NEW d \in Daemons, WritePub(d) PROVE IInv'
<1>. TypeOK /\ HostInv /\ FilesInv /\ VaultInv /\ CallsInv
  BY DEF IInv
<1>0. /\ UNCHANGED <<pidFile, sock, keyFile, pinned, told, ident,
                   auth, vault, timer, mounted, files, server, local, raced, overlap, spilt>>
      /\ proc[d] = "pub" /\ proc' = [proc EXCEPT ![d] = "key"]
      /\ pubFile' = d
  BY DEF WritePub, memory, history
<1>1. TypeOK'
  BY <1>0, Sentinels DEF TypeOK, Starting, server, local
<1>2. HostInv'
  BY <1>0, Sentinels DEF TypeOK, HostInv, Serial, OnePair, Alive, Serves, Starting
<1>3. FilesInv'
  BY <1>0, FilesGo DEF Starting, local
<1>4. VaultInv'
  BY <1>0 DEF VaultInv, local
<1>5. CallsInv'
  BY <1>0 DEF TypeOK, CallsInv, local
<1>. QED BY <1>1, <1>2, <1>3, <1>4, <1>5 DEF IInv

LEMMA WriteKeyStep == ASSUME IInv, NEW d \in Daemons, WriteKey(d) PROVE IInv'
<1>. TypeOK /\ HostInv /\ FilesInv /\ VaultInv /\ CallsInv
  BY DEF IInv
<1>0. /\ UNCHANGED <<pidFile, sock, pubFile, pinned, told,
                   auth, vault, timer, mounted, files, server, local, raced, overlap, spilt>>
      /\ proc[d] = "key" /\ proc' = [proc EXCEPT ![d] = "listen"]
      /\ keyFile' = d /\ ident' = [ident EXCEPT ![d] = [pub |-> d, key |-> d]]
  BY DEF WriteKey, memory, history
<1>1. TypeOK'
  BY <1>0, Sentinels DEF TypeOK, Starting, server, local
<1>2. HostInv'
  BY <1>0, Sentinels DEF TypeOK, HostInv, Serial, OnePair, Alive, Serves, Starting
<1>3. FilesInv'
  BY <1>0, FilesGo DEF Starting, local
<1>4. VaultInv'
  BY <1>0 DEF VaultInv, local
<1>5. CallsInv'
  BY <1>0 DEF TypeOK, CallsInv, local
<1>. QED BY <1>1, <1>2, <1>3, <1>4, <1>5 DEF IInv

LEMMA FailToStartStep == ASSUME IInv, NEW d \in Daemons, FailToStart(d) PROVE IInv'
<1>. TypeOK /\ HostInv /\ FilesInv /\ VaultInv /\ CallsInv
  BY DEF IInv
<1>0. /\ proc' = [proc EXCEPT ![d] = "dead"] /\ told' = told \ {d}
      /\ auth' \subseteq auth /\ timer' \subseteq timer
      /\ vault' = [vault EXCEPT ![d] = Nothing] /\ mounted' = [mounted EXCEPT ![d] = {}]
      /\ proc[d] \in {"identity", "pub", "key", "listen"}
      /\ pidFile' = None /\ sock' = None
      /\ ~raced' => ~raced /\ \A e \in Daemons \ {d} : e # None => proc[e] \in {"none", "dead"}
      /\ raced' \in BOOLEAN
      /\ UNCHANGED <<pubFile, keyFile, pinned, ident, files, server, local, overlap, spilt>>
  BY DEF FailToStart, Exit, Clear, Exists, TypeOK
<1>1. TypeOK'
  BY <1>0, Sentinels DEF TypeOK, Nothing, server, local
<1>2. HostInv'
  <2>1. \A e \in Daemons : proc'[e] \in {"pub", "key", "listen", "listening"} => proc'[e] = proc[e]
    BY <1>0 DEF TypeOK
  <2>2. ~raced' => \A e \in Daemons : proc'[e] \in {"none", "dead"}
    BY <1>0, Sentinels DEF TypeOK
  <2>. QED BY <1>0, <2>1, <2>2, HostAlone DEF Starting
<1>3. FilesInv'
  <2>1. mounted[d] = {} /\ proc[d] # "none"
    BY <1>0 DEF FilesInv
  <2>. QED BY <1>0, <2>1, FilesExit DEF local
<1>4. VaultInv'
  BY <1>0 DEF TypeOK, VaultInv, local
<1>5. CallsInv'
  BY <1>0 DEF TypeOK, CallsInv, local
<1>. QED BY <1>1, <1>2, <1>3, <1>4, <1>5 DEF IInv

LEMMA TerminateStep == ASSUME IInv, NEW d \in Daemons, Terminate(d) PROVE IInv'
<1>. TypeOK /\ HostInv /\ FilesInv /\ VaultInv /\ CallsInv
  BY DEF IInv
<1>0. /\ proc' = [proc EXCEPT ![d] = "dead"] /\ told' = told \ {d}
      /\ auth' \subseteq auth /\ timer' \subseteq timer
      /\ vault' = [vault EXCEPT ![d] = Nothing] /\ mounted' = [mounted EXCEPT ![d] = {}]
      /\ d \in told
      /\ \/ proc[d] = "listening" /\ pidFile' = None /\ sock' = None /\ files' = files \ mounted[d]
         \/ proc[d] # "listening" /\ UNCHANGED <<pidFile, sock, files>>
      /\ UNCHANGED <<pubFile, keyFile, pinned, ident, server, local, raced, overlap, spilt>>
  BY DEF Terminate, Exit, Clear, FilesLeft, history
<1>1. TypeOK'
  BY <1>0, Sentinels DEF TypeOK, Nothing, server, local
<1>2. HostInv'
  <2>1. CASE proc[d] = "listening"
    <3>1. \A e \in Daemons : proc'[e] \in {"pub", "key", "listen", "listening"}
             => proc'[e] = proc[e]
      BY <1>0 DEF TypeOK
    <3>2. ~raced => \A e \in Daemons \ {d} : ~Alive(e)
      BY <1>0, <2>1 DEF HostInv, Serial, Alive, Serves
    <3>3. ~raced => \A e \in Daemons : proc'[e] \notin Starting \cup {"listening"}
      BY <1>0, <3>2 DEF TypeOK, Alive, Starting
    <3>. QED BY <1>0, <3>1, <3>3, HostAlone
  <2>2. CASE proc[d] # "listening"
    BY <1>0, <2>2 DEF TypeOK, HostInv, Serial, OnePair, Alive, Serves, Starting
  <2>. QED BY <2>1, <2>2
<1>3. FilesInv'
  <2>1. proc[d] # "none" /\ (proc[d] # "listening" => mounted[d] = {})
    BY <1>0 DEF FilesInv
  <2>. QED BY <1>0, <2>1, FilesExit DEF local
<1>4. VaultInv'
  BY <1>0 DEF TypeOK, VaultInv, local
<1>5. CallsInv'
  BY <1>0 DEF TypeOK, CallsInv, local
<1>. QED BY <1>1, <1>2, <1>3, <1>4, <1>5 DEF IInv

LEMMA CrashStep == ASSUME IInv, NEW d \in Daemons, Crash(d) PROVE IInv'
<1>. TypeOK /\ HostInv /\ FilesInv /\ VaultInv /\ CallsInv
  BY DEF IInv
<1>0. /\ proc' = [proc EXCEPT ![d] = "dead"] /\ told' = told \ {d}
      /\ auth' \subseteq auth /\ timer' \subseteq timer
      /\ vault' = [vault EXCEPT ![d] = Nothing] /\ mounted' = [mounted EXCEPT ![d] = {}]
      /\ proc[d] \in Starting \cup {"listening"}
      /\ spilt' = spilt \cup mounted[d]
      /\ UNCHANGED <<pidFile, sock, pubFile, keyFile, pinned, ident, files, server, local, raced,
                     overlap>>
  BY DEF Crash, Exit
<1>1. TypeOK'
  BY <1>0, Sentinels DEF TypeOK, Nothing, server, local
<1>2. HostInv'
  BY <1>0 DEF TypeOK, HostInv, Serial, OnePair, Alive, Serves, Starting
<1>3. FilesInv'
  <2>1. proc[d] # "none"
    BY <1>0 DEF Starting
  <2>. QED BY <1>0, <2>1, FilesExit DEF local
<1>4. VaultInv'
  BY <1>0 DEF TypeOK, VaultInv, local
<1>5. CallsInv'
  BY <1>0 DEF TypeOK, CallsInv, local
<1>. QED BY <1>1, <1>2, <1>3, <1>4, <1>5 DEF IInv

LEMMA FindRunningStep == ASSUME IInv, NEW r \in Requests, FindRunning(r) PROVE IInv'
<1>. TypeOK /\ HostInv /\ FilesInv /\ VaultInv /\ CallsInv
  BY DEF IInv
<1>0. /\ stage[r] = "unsent" /\ \E o \in Ops : op' = [op EXCEPT ![r] = o]
      /\ Goto(r, "done")
      /\ UNCHANGED <<pidFile, sock, proc, told, raced>>
      /\ UNCHANGED <<pubFile, keyFile, pinned, ident, auth, vault, timer, mounted, files,
                     server, on, at, seen, overlap, spilt>>
  BY Sentinels DEF FindRunning, Finds, memory, Gives, Ops
<1>1. TypeOK'
  <2>1. op' \in [Requests -> Ops] /\ stage' \in [Requests -> Stages]
    BY <1>0 DEF TypeOK, Goto, Stages
  <2>2. proc' \in [Daemons -> {"none", "dead", "stranger", "listening"} \cup Starting]
    BY <1>0, Sentinels DEF TypeOK, Starting
  <2>3. told' \subseteq Daemons /\ {pidFile', sock'} \subseteq Daemons \cup {None}
           /\ raced' \in BOOLEAN
    BY <1>0, Sentinels DEF TypeOK
  <2>. QED BY <1>0, <2>1, <2>2, <2>3 DEF TypeOK, server
<1>2. HostInv'
  BY <1>0, HostSame DEF host
<1>3. FilesInv'
  BY <1>0, FilesSame DEF Stages
<1>4. VaultInv'
  BY <1>0 DEF TypeOK, VaultInv, Goto
<1>5. CallsInv'
  BY <1>0 DEF TypeOK, CallsInv, Goto
<1>. QED BY <1>1, <1>2, <1>3, <1>4, <1>5 DEF IInv

LEMMA FindSilentStep == ASSUME IInv, NEW r \in Requests, FindSilent(r) PROVE IInv'
<1>. TypeOK /\ HostInv /\ FilesInv /\ VaultInv /\ CallsInv
  BY DEF IInv
<1>0. /\ stage[r] = "unsent" /\ \E o \in Ops : op' = [op EXCEPT ![r] = o]
      /\ Goto(r, "clearing")
      /\ UNCHANGED <<pidFile, sock, proc, told, raced>>
      /\ UNCHANGED <<pubFile, keyFile, pinned, ident, auth, vault, timer, mounted, files,
                     server, on, at, seen, overlap, spilt>>
  BY Sentinels DEF FindSilent, Finds, memory, Gives, Ops
<1>1. TypeOK'
  <2>1. op' \in [Requests -> Ops] /\ stage' \in [Requests -> Stages]
    BY <1>0 DEF TypeOK, Goto, Stages
  <2>2. proc' \in [Daemons -> {"none", "dead", "stranger", "listening"} \cup Starting]
    BY <1>0, Sentinels DEF TypeOK, Starting
  <2>3. told' \subseteq Daemons /\ {pidFile', sock'} \subseteq Daemons \cup {None}
           /\ raced' \in BOOLEAN
    BY <1>0, Sentinels DEF TypeOK
  <2>. QED BY <1>0, <2>1, <2>2, <2>3 DEF TypeOK, server
<1>2. HostInv'
  BY <1>0, HostSame DEF host
<1>3. FilesInv'
  <2>1. \A q \in Requests : stage'[q] \in {"unsent", "clearing"} =>
           stage[q] \in {"unsent", "clearing"}
    BY <1>0 DEF TypeOK, Goto
  <2>. QED BY <1>0, <2>1 DEF FilesInv, FilesAccounted
<1>4. VaultInv'
  BY <1>0 DEF TypeOK, VaultInv, Goto
<1>5. CallsInv'
  BY <1>0 DEF TypeOK, CallsInv, Goto
<1>. QED BY <1>1, <1>2, <1>3, <1>4, <1>5 DEF IInv

LEMMA ReadyStep == ASSUME IInv, NEW r \in Requests, Ready(r) PROVE IInv'
<1>. TypeOK /\ HostInv /\ FilesInv /\ VaultInv /\ CallsInv
  BY DEF IInv
<1>0. /\ stage[r] = "spawned" /\ op' = op
      /\ Goto(r, "done")
      /\ UNCHANGED <<pidFile, sock, proc, told, raced>>
      /\ UNCHANGED <<pubFile, keyFile, pinned, ident, auth, vault, timer, mounted, files,
                     server, on, at, seen, overlap, spilt>>
  BY Sentinels DEF Ready, Finds, memory
<1>1. TypeOK'
  <2>1. op' \in [Requests -> Ops] /\ stage' \in [Requests -> Stages]
    BY <1>0 DEF TypeOK, Goto, Stages
  <2>2. proc' \in [Daemons -> {"none", "dead", "stranger", "listening"} \cup Starting]
    BY <1>0, Sentinels DEF TypeOK, Starting
  <2>3. told' \subseteq Daemons /\ {pidFile', sock'} \subseteq Daemons \cup {None}
           /\ raced' \in BOOLEAN
    BY <1>0, Sentinels DEF TypeOK
  <2>. QED BY <1>0, <2>1, <2>2, <2>3 DEF TypeOK, server
<1>2. HostInv'
  BY <1>0, HostSame DEF host
<1>3. FilesInv'
  BY <1>0, FilesSame DEF Stages
<1>4. VaultInv'
  BY <1>0 DEF TypeOK, VaultInv, Goto
<1>5. CallsInv'
  BY <1>0 DEF TypeOK, CallsInv, Goto
<1>. QED BY <1>1, <1>2, <1>3, <1>4, <1>5 DEF IInv

LEMMA SpawnStep == ASSUME IInv, NEW r \in Requests, Spawn(r) PROVE IInv'
<1>. TypeOK /\ HostInv /\ FilesInv /\ VaultInv /\ CallsInv
  BY DEF IInv
<1>0. /\ stage[r] = "unsent" /\ \E o \in Ops : op' = [op EXCEPT ![r] = o]
      /\ \E s \in {"spawned", "done"} : Goto(r, s)
      /\ proc' = [proc EXCEPT ![r] = "check"]
      /\ raced' \in BOOLEAN /\ UNCHANGED <<pidFile, sock, told>>
      /\ ~raced' => ~raced /\ \A e \in Daemons : ~(proc[e] \in Starting \/ (proc[e] = "listening"
           /\ e \in told))
      /\ UNCHANGED <<pubFile, keyFile, pinned, ident, auth, vault, timer, mounted, files,
                     server, on, at, seen, overlap, spilt>>
  BY Sentinels DEF Spawn, Finds, memory, Gives, Ops, Unsettled, TypeOK
<1>1. TypeOK'
  <2>1. op' \in [Requests -> Ops] /\ stage' \in [Requests -> Stages]
    BY <1>0 DEF TypeOK, Goto, Stages
  <2>2. proc' \in [Daemons -> {"none", "dead", "stranger", "listening"} \cup Starting]
    BY <1>0, Sentinels DEF TypeOK, Starting
  <2>3. told' \subseteq Daemons /\ {pidFile', sock'} \subseteq Daemons \cup {None}
           /\ raced' \in BOOLEAN
    BY <1>0, Sentinels DEF TypeOK
  <2>. QED BY <1>0, <2>1, <2>2, <2>3 DEF TypeOK, server
<1>2. HostInv'
  <2>. SUFFICES ASSUME ~raced' PROVE Serial' /\ OnePair'
    BY DEF HostInv
  <2>1. Serial /\ OnePair /\ \A e \in Daemons : Alive(e) => Serves(e)
    BY <1>0 DEF HostInv, Alive, Serves, Starting
  <2>2. \A e \in Daemons : e # r => proc'[e] = proc[e]
    BY <1>0 DEF TypeOK
  <2>3. proc'[r] = "check"
    BY <1>0, Sentinels DEF TypeOK
  <2>4. OnePair'
    BY <1>0, <2>1, <2>2, <2>3 DEF OnePair
  <2>5. Serial'
    <3>1. \A d, e \in Daemons : d # e /\ Alive(d)' /\ Alive(e)' =>
            (proc'[d] = "check" /\ Serves(e)') \/ (proc'[e] = "check" /\ Serves(d)')
      BY <1>0, <2>1, <2>2, <2>3 DEF Serial, Alive, Serves
    <3>. QED BY <1>0, <2>1, <2>2, <2>3, <3>1 DEF Serial
  <2>. QED BY <2>4, <2>5
<1>3. FilesInv'
  <2>1. \A q \in Requests : stage'[q] \in {"unsent", "clearing"} =>
          q # r /\ stage[q] \in {"unsent", "clearing"}
    BY <1>0 DEF TypeOK, Goto
  <2>2. \A e \in Daemons : e # r => proc'[e] = proc[e]
    BY <1>0 DEF TypeOK
  <2>3. proc'[r] = "check" /\ mounted[r] = {}
    BY <1>0, Sentinels DEF TypeOK, FilesInv
  <2>. QED BY <1>0, <2>1, <2>2, <2>3, Sentinels DEF TypeOK, FilesInv, FilesAccounted
<1>4. VaultInv'
  BY <1>0 DEF TypeOK, VaultInv, Goto
<1>5. CallsInv'
  BY <1>0 DEF TypeOK, CallsInv, Goto
<1>. QED BY <1>1, <1>2, <1>3, <1>4, <1>5 DEF IInv

LEMMA ClearAndSpawnStep == ASSUME IInv, NEW r \in Requests, ClearAndSpawn(r) PROVE IInv'
<1>. TypeOK /\ HostInv /\ FilesInv /\ VaultInv /\ CallsInv
  BY DEF IInv
<1>0. /\ stage[r] = "clearing" /\ op' = op
      /\ Goto(r, "spawned")
      /\ proc' = [proc EXCEPT ![r] = "check"] /\ told' = told
      /\ pidFile' = None /\ sock' = None /\ raced' \in BOOLEAN
      /\ ~raced' => ~raced /\ \A e \in Daemons : e # None =>
         proc[e] \in {"none", "dead", "stranger"}
      /\ UNCHANGED <<pubFile, keyFile, pinned, ident, auth, vault, timer, mounted, files,
                     server, on, at, seen, overlap, spilt>>
  BY Sentinels DEF ClearAndSpawn, Finds, memory, Clear, Crosses, Exists, TypeOK
<1>1. TypeOK'
  <2>1. op' \in [Requests -> Ops] /\ stage' \in [Requests -> Stages]
    BY <1>0 DEF TypeOK, Goto, Stages
  <2>2. proc' \in [Daemons -> {"none", "dead", "stranger", "listening"} \cup Starting]
    BY <1>0, Sentinels DEF TypeOK, Starting
  <2>3. told' \subseteq Daemons /\ {pidFile', sock'} \subseteq Daemons \cup {None}
           /\ raced' \in BOOLEAN
    BY <1>0, Sentinels DEF TypeOK
  <2>. QED BY <1>0, <2>1, <2>2, <2>3 DEF TypeOK, server
<1>2. HostInv'
  <2>1. \A e \in Daemons : proc'[e] \in {"pub", "key", "listen", "listening"} => proc'[e] = proc[e]
    BY <1>0 DEF TypeOK
  <2>2. ASSUME ~raced', NEW e \in Daemons, proc'[e] \in Starting \cup {"listening"}
        PROVE  e = r /\ (proc'[e] = "check" \/ e \in told')
    <3>1. e # None /\ proc'[e] \notin {"none", "dead", "stranger"}
      BY <2>2, Sentinels DEF Starting
    <3>. QED BY <1>0, <2>2, <3>1, Sentinels DEF TypeOK
  <2>. QED BY <1>0, <2>1, <2>2, HostAlone
<1>3. FilesInv'
  <2>1. \A q \in Requests : stage'[q] \in {"unsent", "clearing"} =>
          q # r /\ stage[q] \in {"unsent", "clearing"}
    BY <1>0 DEF TypeOK, Goto
  <2>2. \A e \in Daemons : e # r => proc'[e] = proc[e]
    BY <1>0 DEF TypeOK
  <2>3. proc'[r] = "check" /\ mounted[r] = {}
    BY <1>0, Sentinels DEF TypeOK, FilesInv
  <2>. QED BY <1>0, <2>1, <2>2, <2>3, Sentinels DEF TypeOK, FilesInv, FilesAccounted
<1>4. VaultInv'
  BY <1>0 DEF TypeOK, VaultInv, Goto
<1>5. CallsInv'
  BY <1>0 DEF TypeOK, CallsInv, Goto
<1>. QED BY <1>1, <1>2, <1>3, <1>4, <1>5 DEF IInv

LEMMA ExitedStep == ASSUME IInv, NEW r \in Requests, Exited(r) PROVE IInv'
<1>. TypeOK /\ HostInv /\ FilesInv /\ VaultInv /\ CallsInv
  BY DEF IInv
<1>0. /\ stage[r] = "spawned" /\ op' = op
      /\ Goto(r, "refused")
      /\ UNCHANGED <<proc, told>> /\ proc[r] \in {"none", "dead"}
      /\ pidFile' = None /\ sock' = None /\ raced' \in BOOLEAN
      /\ ~raced' => ~raced /\ \A e \in Daemons \ {r} : e # None =>
         proc[e] \in {"none", "dead", "stranger"}
      /\ UNCHANGED <<pubFile, keyFile, pinned, ident, auth, vault, timer, mounted, files,
                     server, on, at, seen, overlap, spilt>>
  BY Sentinels DEF Exited, Finds, memory, Clear, Crosses, Exists, TypeOK
<1>1. TypeOK'
  <2>1. op' \in [Requests -> Ops] /\ stage' \in [Requests -> Stages]
    BY <1>0 DEF TypeOK, Goto, Stages
  <2>2. proc' \in [Daemons -> {"none", "dead", "stranger", "listening"} \cup Starting]
    BY <1>0, Sentinels DEF TypeOK, Starting
  <2>3. told' \subseteq Daemons /\ {pidFile', sock'} \subseteq Daemons \cup {None}
           /\ raced' \in BOOLEAN
    BY <1>0, Sentinels DEF TypeOK
  <2>. QED BY <1>0, <2>1, <2>2, <2>3 DEF TypeOK, server
<1>2. HostInv'
  <2>1. \A e \in Daemons : proc'[e] \in {"pub", "key", "listen", "listening"} => proc'[e] = proc[e]
    BY <1>0 DEF TypeOK
  <2>2. ASSUME ~raced', NEW e \in Daemons, proc'[e] \in Starting \cup {"listening"}
        PROVE  e = r /\ (proc'[e] = "check" \/ e \in told')
    <3>1. e # None /\ proc'[e] \notin {"none", "dead", "stranger"}
      BY <2>2, Sentinels DEF Starting
    <3>. QED BY <1>0, <2>2, <3>1, Sentinels DEF TypeOK
  <2>. QED BY <1>0, <2>1, <2>2, HostAlone
<1>3. FilesInv'
  BY <1>0, FilesSame DEF Stages
<1>4. VaultInv'
  BY <1>0 DEF TypeOK, VaultInv, Goto
<1>5. CallsInv'
  BY <1>0 DEF TypeOK, CallsInv, Goto
<1>. QED BY <1>1, <1>2, <1>3, <1>4, <1>5 DEF IInv

LEMMA TimesOutStep == ASSUME IInv, NEW r \in Requests, TimesOut(r) PROVE IInv'
<1>. TypeOK /\ HostInv /\ FilesInv /\ VaultInv /\ CallsInv
  BY DEF IInv
<1>0. /\ stage[r] = "spawned" /\ op' = op
      /\ Goto(r, "refused")
      /\ proc' = proc
      /\ \/ told' = told \cup {r} /\ proc[r] # "none"
         \/ told' = told /\ proc[r] \in {"none", "dead"}
      /\ pidFile' = None /\ sock' = None /\ raced' \in BOOLEAN
      /\ ~raced' => ~raced /\ \A e \in Daemons \ {r} : e # None =>
         proc[e] \in {"none", "dead", "stranger"}
      /\ UNCHANGED <<pubFile, keyFile, pinned, ident, auth, vault, timer, mounted, files,
                     server, on, at, seen, overlap, spilt>>
  BY Sentinels DEF TimesOut, Finds, memory, Clear, Crosses, Exists, TypeOK
<1>1. TypeOK'
  <2>1. op' \in [Requests -> Ops] /\ stage' \in [Requests -> Stages]
    BY <1>0 DEF TypeOK, Goto, Stages
  <2>2. proc' \in [Daemons -> {"none", "dead", "stranger", "listening"} \cup Starting]
    BY <1>0, Sentinels DEF TypeOK, Starting
  <2>3. told' \subseteq Daemons /\ {pidFile', sock'} \subseteq Daemons \cup {None}
           /\ raced' \in BOOLEAN
    BY <1>0, Sentinels DEF TypeOK
  <2>. QED BY <1>0, <2>1, <2>2, <2>3 DEF TypeOK, server
<1>2. HostInv'
  <2>1. \A e \in Daemons : proc'[e] \in {"pub", "key", "listen", "listening"} => proc'[e] = proc[e]
    BY <1>0 DEF TypeOK
  <2>2. ASSUME ~raced', NEW e \in Daemons, proc'[e] \in Starting \cup {"listening"}
        PROVE  e = r /\ (proc'[e] = "check" \/ e \in told')
    <3>1. e # None /\ proc'[e] \notin {"none", "dead", "stranger"}
      BY <2>2, Sentinels DEF Starting
    <3>. QED BY <1>0, <2>2, <3>1, Sentinels DEF TypeOK
  <2>. QED BY <1>0, <2>1, <2>2, HostAlone
<1>3. FilesInv'
  <2>1. \A q \in Requests : stage'[q] \in {"unsent", "clearing"} =>
           stage[q] \in {"unsent", "clearing"}
    BY <1>0 DEF TypeOK, Goto
  <2>. QED BY <1>0, <2>1 DEF FilesInv, FilesAccounted
<1>4. VaultInv'
  BY <1>0 DEF TypeOK, VaultInv, Goto
<1>5. CallsInv'
  BY <1>0 DEF TypeOK, CallsInv, Goto
<1>. QED BY <1>1, <1>2, <1>3, <1>4, <1>5 DEF IInv

LEMMA StopStep == ASSUME IInv, NEW r \in Requests, Stop(r) PROVE IInv'
<1>. TypeOK /\ HostInv /\ FilesInv /\ VaultInv /\ CallsInv
  BY DEF IInv
<1>0. /\ stage[r] = "unsent" /\ \E o \in Ops : op' = [op EXCEPT ![r] = o]
      /\ Goto(r, "done")
      /\ pidFile' = None /\ sock' = None /\ raced' \in BOOLEAN
      /\ \/ /\ pidFile \in Daemons /\ proc[pidFile] = "stranger" /\ told' = told
            /\ proc' = [proc EXCEPT ![pidFile] = "dead"]
            /\ ~raced' => ~raced /\ \A e \in Daemons \ {pidFile} : e # None =>
               proc[e] \in {"none", "dead", "stranger"}
         \/ /\ pidFile \in Daemons /\ proc[pidFile] \notin {"none", "dead", "stranger"}
            /\ told' = told \cup {pidFile} /\ proc' = proc
            /\ ~raced' => ~raced /\ \A e \in Daemons \ {pidFile} : e # None =>
               proc[e] \in {"none", "dead", "stranger"}
         \/ /\ told' = told /\ proc' = proc
            /\ ~raced' => ~raced /\ \A e \in Daemons : e # None =>
               proc[e] \in {"none", "dead", "stranger"}
      /\ UNCHANGED <<pubFile, keyFile, pinned, ident, auth, vault, timer, mounted, files,
                     server, on, at, seen, overlap, spilt>>
  BY Sentinels DEF Stop, Finds, memory, Gives, Ops, Clear, Crosses, IsDaemonRunning, Exists, TypeOK
<1>1. TypeOK'
  <2>1. op' \in [Requests -> Ops] /\ stage' \in [Requests -> Stages]
    BY <1>0 DEF TypeOK, Goto, Stages
  <2>2. proc' \in [Daemons -> {"none", "dead", "stranger", "listening"} \cup Starting]
    BY <1>0, Sentinels DEF TypeOK, Starting
  <2>3. told' \subseteq Daemons /\ {pidFile', sock'} \subseteq Daemons \cup {None}
           /\ raced' \in BOOLEAN
    BY <1>0, Sentinels DEF TypeOK
  <2>. QED BY <1>0, <2>1, <2>2, <2>3 DEF TypeOK, server
<1>2. HostInv'
  <2>1. \A e \in Daemons : proc'[e] \in {"pub", "key", "listen", "listening"} => proc'[e] = proc[e]
    BY <1>0 DEF TypeOK
  <2>2. ASSUME ~raced', NEW e \in Daemons, proc'[e] \in Starting \cup {"listening"}
        PROVE  e = pidFile /\ (proc'[e] = "check" \/ e \in told')
    <3>1. e # None /\ proc'[e] \notin {"none", "dead", "stranger"}
      BY <2>2, Sentinels DEF Starting
    <3>. QED BY <1>0, <2>2, <3>1, Sentinels DEF TypeOK
  <2>. QED BY <1>0, <2>1, <2>2, HostAlone
<1>3. FilesInv'
  <2>1. \A q \in Requests : stage'[q] \in {"unsent", "clearing"} =>
           stage[q] \in {"unsent", "clearing"}
    BY <1>0 DEF TypeOK, Goto
  <2>2. \A e \in Daemons : proc'[e] = proc[e] \/ (proc'[e] = "dead" /\ proc[e] = "stranger")
    BY <1>0 DEF TypeOK
  <2>3. \A e \in told' : e \in told \/ proc[e] # "none"
    BY <1>0
  <2>4. FilesAccounted' /\ \A e \in Daemons : mounted'[e] # {} => proc'[e] = "listening"
    BY <1>0, <2>2 DEF FilesInv, FilesAccounted
  <2>5. \A e \in told' : e \in Daemons /\ proc'[e] # "none"
    BY <1>0, <2>2, <2>3 DEF TypeOK, FilesInv
  <2>6. \A q \in Requests : stage'[q] \in {"unsent", "clearing"} => proc'[q] = "none"
    BY <2>1, <2>2, Sentinels DEF FilesInv
  <2>. QED BY <2>4, <2>5, <2>6 DEF FilesInv
<1>4. VaultInv'
  BY <1>0 DEF TypeOK, VaultInv, Goto
<1>5. CallsInv'
  BY <1>0 DEF TypeOK, CallsInv, Goto
<1>. QED BY <1>1, <1>2, <1>3, <1>4, <1>5 DEF IInv

LEMMA RecycleStep == ASSUME IInv, Recycle PROVE IInv'
<1>. TypeOK /\ HostInv /\ FilesInv /\ VaultInv /\ CallsInv
  BY DEF IInv
<1>0. /\ UNCHANGED <<pidFile, sock, pubFile, keyFile, pinned, told, ident, auth, vault, timer,
                     mounted, files, server, local, raced, overlap, spilt>>
      /\ proc[Old] = "dead" /\ proc' = [proc EXCEPT ![Old] = "stranger"]
  BY DEF Recycle, memory, history
<1>1. TypeOK'
  BY <1>0, Sentinels DEF TypeOK, server, local
<1>2. HostInv'
  BY <1>0, Sentinels DEF TypeOK, HostInv, Serial, OnePair, Alive, Serves, Starting
<1>3. FilesInv'
  BY <1>0, Sentinels DEF TypeOK, FilesInv, FilesAccounted, local
<1>4. VaultInv'
  BY <1>0 DEF VaultInv, local
<1>5. CallsInv'
  BY <1>0 DEF CallsInv, local
<1>. QED BY <1>1, <1>2, <1>3, <1>4, <1>5 DEF IInv

\* No daemon yet, the one of the last login alive, or what it left when it died.
LEMMA InitIInv == ASSUME Init PROVE IInv
<1>. PICK was \in {"none", "dead", "listening"} :
       LET there == IF was = "none" THEN None ELSE Old IN
       /\ pidFile = there /\ sock = there
       /\ pubFile = there /\ keyFile = there /\ pinned = there
       /\ proc = [d \in Daemons |-> IF d = Old THEN was ELSE "none"]
       /\ ident = [d \in Daemons |-> IF d = Old THEN [pub |-> there, key |-> there]
                                     ELSE [pub |-> None, key |-> None]]
       /\ auth = IF was = "listening" THEN {Old} ELSE {}
  BY DEF Init
<1>0. /\ told = {} /\ vault = [d \in Daemons |-> Nothing] /\ timer = {}
      /\ mounted = [d \in Daemons |-> {}] /\ files = {}
      /\ wraps = [p \in Profiles |-> p] /\ items = [r \in Requests |-> Nothing]
      /\ op = [r \in Requests |-> "start"] /\ stage = [r \in Requests |-> "unsent"]
      /\ on = [r \in Requests |-> None] /\ at = [r \in Requests |-> None]
      /\ seen = [r \in Requests |-> None]
      /\ raced = FALSE /\ overlap = {} /\ spilt = {}
  BY DEF Init
<1>1. TypeOK
  BY <1>0, Sentinels DEF TypeOK, Nothing, Ops, Stages, Keys
<1>2. HostInv
  BY <1>0, Sentinels DEF HostInv, Serial, OnePair, Alive, Serves, Starting
<1>3. FilesInv
  BY <1>0, Sentinels DEF FilesInv, FilesAccounted
<1>4. VaultInv /\ CallsInv
  BY <1>0 DEF VaultInv, CallsInv
<1>. QED BY <1>1, <1>2, <1>3, <1>4 DEF IInv

LEMMA ProcessStep == ASSUME IInv, NEW d \in Daemons, Process(d) PROVE IInv'
BY CheckRunningStep, ClearStaleStep, WritePidStep, LoadIdentityStep, WritePubStep, WriteKeyStep,
   ListenStep, FailToStartStep, TerminateStep, CrashStep, AutoLockStep DEF Process

LEMMA CommandStep == ASSUME IInv, NEW r \in Requests, Command(r) PROVE IInv'
<1>1. CASE \/ FindRunning(r) \/ FindSilent(r) \/ Spawn(r) \/ ClearAndSpawn(r) \/ Ready(r)
           \/ Exited(r) \/ TimesOut(r) \/ Stop(r)
  BY <1>1, FindRunningStep, FindSilentStep, SpawnStep, ClearAndSpawnStep, ReadyStep, ExitedStep,
     TimesOutStep, StopStep
<1>2. CASE \/ Call(r) \/ Verify(r) \/ Unreached(r) \/ Hangs(r) \/ SetSession(r) \/ ClearSession(r)
           \/ Lock(r) \/ Fetch(r) \/ RefuseFetch(r) \/ FetchFails(r)
  BY <1>2, CallStep, VerifyStep, UnreachedStep, HangsStep, SetSessionStep, ClearSessionStep,
     LockStep, FetchStep, RefuseFetchStep, FetchFailsStep
<1>3. CASE \/ Unlock(r) \/ Rewrap(r) \/ PutPassword(r) \/ Encrypt(r) \/ CreateItem(r)
           \/ Decrypt(r) \/ Exec(r) \/ Mount(r) \/ Cleanup(r)
  BY <1>3, UnlockStep, RewrapStep, PutPasswordStep, EncryptStep, CreateItemStep, DecryptStep,
     ExecStep, MountStep, CleanupStep
<1>. QED BY <1>1, <1>2, <1>3 DEF Command

LEMMA IInvKept == ASSUME IInv, [Next]_vars PROVE IInv'
<1>1. CASE UNCHANGED vars
  <2>1. UNCHANGED <<pidFile, sock, pubFile, keyFile, pinned, proc, told, ident, auth, vault, timer,
                    mounted, files, wraps, items, op, stage, on, at, seen, raced, overlap, spilt>>
    BY <1>1 DEF vars, host, memory, server, local, history
  <2>2. TypeOK' /\ VaultInv' /\ CallsInv'
    BY <2>1 DEF IInv, TypeOK, VaultInv, CallsInv
  <2>3. HostInv'
    BY <2>1 DEF IInv, HostInv, Serial, OnePair, Alive, Serves
  <2>4. FilesInv'
    BY <2>1 DEF IInv, FilesInv, FilesAccounted
  <2>. QED BY <2>2, <2>3, <2>4 DEF IInv
<1>2. CASE Next
  BY <1>2, RecycleStep, SessionExpiresStep, ProcessStep, CommandStep DEF Next
<1>. QED BY <1>1, <1>2

\* An unlocked vault changes hands in one action.
LEMMA OnlyUnlockReplaces ==
  ASSUME IInv, [Next]_vars, NEW d \in Daemons,
         vault[d] # Nothing, vault'[d] # Nothing, vault'[d] # vault[d]
  PROVE  \E r \in overlap : at[r] = d /\ stage[r] = "fetched" /\ stage'[r] = "done"
<1>1. \A e \in Daemons : ~Process(e)
  BY DEF Process, CheckRunning, ClearStale, WritePid, LoadIdentity, WritePub, WriteKey, Listen,
         FailToStart, Terminate, Crash, AutoLock, Locks, Exit, memory, IInv, TypeOK
<1>2. ~Recycle /\ ~SessionExpires /\ ~UNCHANGED vars
  BY DEF Recycle, SessionExpires, vars, memory
<1>3. PICK r \in Requests : Command(r)
  BY <1>1, <1>2 DEF Next
<1>4. ~(\/ FindRunning(r) \/ FindSilent(r) \/ Spawn(r) \/ ClearAndSpawn(r) \/ Ready(r)
        \/ Exited(r) \/ TimesOut(r) \/ Stop(r))
  BY DEF FindRunning, FindSilent, Spawn, ClearAndSpawn, Ready, Exited, TimesOut, Stop, Finds, memory
<1>5. ~(\/ Call(r) \/ Verify(r) \/ Unreached(r) \/ Hangs(r) \/ SetSession(r) \/ ClearSession(r)
        \/ Lock(r) \/ Fetch(r) \/ RefuseFetch(r) \/ FetchFails(r))
  BY DEF Call, Verify, Unreached, Hangs, SetSession, ClearSession, Lock, Fetch, RefuseFetch,
         FetchFails, Locks, memory, IInv, TypeOK
<1>6. ~(\/ Rewrap(r) \/ PutPassword(r) \/ Encrypt(r) \/ CreateItem(r)
        \/ Decrypt(r) \/ Exec(r) \/ Mount(r) \/ Cleanup(r))
  BY DEF Rewrap, PutPassword, Encrypt, CreateItem, Decrypt, Exec, Mount, Cleanup, memory
<1>7. Unlock(r)
  BY <1>3, <1>4, <1>5, <1>6 DEF Command
<1>8. /\ stage[r] = "fetched" /\ op[r] = "unlock" /\ stage' = [stage EXCEPT ![r] = "done"]
      /\ vault' = [vault EXCEPT ![at[r]] = [profile |-> on[r], key |-> seen[r]]]
  BY <1>7 DEF Unlock, Goto
<1>9. at[r] = d
  BY <1>8 DEF IInv, TypeOK
<1>10. r \in overlap
  BY <1>8, <1>9 DEF IInv, VaultInv
<1>. QED BY <1>8, <1>9, <1>10 DEF IInv, TypeOK

-----------------------------------------------------------------------------
\* Every reachable state satisfies the inductive invariant of the daemon.
THEOREM Invariance == Spec => []IInv
<1>1. Init => IInv
  BY InitIInv
<1>2. IInv /\ [Next]_vars => IInv'
  BY IInvKept
<1>. QED BY <1>1, <1>2, PTL DEF Spec

\* As long as no start or stop crosses another, the daemon that listens is the one that
\* the pid file and the socket name, and its identity is the one the CLI accepts
\* (lifecycle.ts startDaemon, identity.ts): with any number of starts, crashes and pid
\* numbers used again.
THEOREM DaemonsAreSerial == Spec => []SerialDaemons
<1>1. IInv => SerialDaemons
  <2>. SUFFICES ASSUME IInv, ~raced PROVE SerialDaemons
    BY DEF SerialDaemons
  <2>1. Serial /\ OnePair
    BY DEF IInv, HostInv
  <2>2. \A d \in Daemons : proc[d] = "listening" /\ d \notin told => pidFile = d /\ sock = d
    BY <2>1 DEF Serial
  <2>3. \A d \in Daemons : proc[d] = "listening" => Accepts(ident[d])
    BY <2>1 DEF OnePair, Accepts
  <2>. QED BY <2>2, <2>3 DEF SerialDaemons
<1>. QED BY <1>1, Invariance, PTL

\* A file that a daemon mounted is known to a living daemon, or a crash left it (server.ts
\* close), whatever stops a daemon.
THEOREM FilesAreAccounted == Spec => []FilesAccounted
<1>1. IInv => FilesAccounted
  BY DEF IInv, FilesInv
<1>. QED BY <1>1, Invariance, PTL

\* The key in the memory of a daemon is replaced by another only by an unlock that was
\* under way when the vault was opened (server.ts vault.unlock).
THEOREM SwitchesOverlap == Spec => SwitchesByOverlapOnly
<1>1. IInv /\ [Next]_vars => [\A d \in Daemons : vault[d] # Nothing /\ vault'[d] # Nothing
        /\ vault'[d] # vault[d] =>
        \E r \in overlap : at[r] = d /\ stage[r] = "fetched" /\ stage'[r] = "done"]_vars
  BY OnlyUnlockReplaces
<1>. QED BY <1>1, Invariance, PTL DEF Spec, SwitchesByOverlapOnly

-----------------------------------------------------------------------------
\* The commands of the CLI (Config).
Names == {"login", "logout", "useOrg", "useProfile", "agentAddCli", "agentAddMcp", "bootstrap"}

\* A command is at one of its steps, or has taken the last.
InPlace(r) ==
  \/ r = Config!Idle
  \/ /\ r.cmd \in Names /\ r.arg \in Config!Args(r.cmd)
        /\ r.at \in 1..Len(Config!Program[r.cmd]) + 1
     /\ r.cut <=> r.cmd = "useOrg" /\ r.at \in {4, 5}

Places == \A p \in Procs : InPlace(commands[p]) /\ (Config!Running(p) => begun > 0)

\* The agents in the slots of settings s: known to the server, with their key on disk.
HasKey(s) == \A a \in {s.cli, s.mcp} \ {Absent} : a \in keyFiles \cap agentRows
Registering(r, k) == r.cmd \in {"agentAddCli", "agentAddMcp"} /\ r.at = k
\* The settings that a command is to write, in whichever stage of it.
Pending(r) == IF r.write.state = "whole" THEN r.write ELSE r.write.to
\* What a command has in hand, to write or to go on with, has its keys already.
Slotted(r) ==
  /\ r.write # Absent => HasKey(Pending(r))
  /\ r.held # Absent => HasKey(r.held)
  /\ Registering(r, 3) => r.got \in agentRows
  /\ Registering(r, 4) => r.got \in keyFiles \cap agentRows
SlotsInv ==
  /\ Config!Whole(configFile) => HasKey(configFile)
  /\ \A p \in Procs : Slotted(commands[p])

\* A recovery key is stored for the root that the same command stored.
RootsInv ==
  /\ Config!RecoveryOpensRoot
  /\ \A p \in Procs : commands[p].cmd = "bootstrap" /\ commands[p].at = 5 =>
       commands[p].got # 0 /\ commands[p].got = rootWraps[commands[p].arg].root

\* The daemon has a session; a profile is of the organization; the session is of it.
InSession == signedIn \notin {Config!Down, Config!SignedOut}
Agreed(f) == f # Absent /\ f.profile # Absent => OrgOf[f.profile] = f.org
Served(f) == InSession => f # Absent /\ signedIn.org = f.org /\ f.pin

\* The settings there will be, once a write that is under way is done.
Coming(r) == IF r.write = Absent THEN Config!Loaded ELSE Pending(r)
\* Commands that keep what they read at first: nobody writes until they do.
Keeping(r) == r.cmd \in {"logout", "useProfile"} /\ r.at \in 2..4

\* A command that runs alone.
Orderly(r) ==
  /\ configFile = Config!Broken <=> r.write # Absent /\ r.write.state = "emptied"
  /\ Agreed(Coming(r))
  /\ ~r.cut => Served(Coming(r))
  /\ r.cut => Coming(r) # Absent /\ Coming(r).org = r.arg /\ (InSession => Coming(r).pin)
  /\ r.write # Absent /\ Config!Whole(configFile) /\ configFile.pin => r.write.pin
  /\ Keeping(r) => r.write = Absent /\ r.held = Config!Loaded
  /\ Keeping(r) /\ r.cmd = "useProfile" => r.held # Absent
  /\ r.cmd = "useProfile" /\ r.at = 4 => OrgOf[r.arg] = r.held.org
  /\ r.cmd = "logout" /\ r.at \in {4, 5} => ~InSession
  /\ r.cmd = "login" /\ r.at > 1 => Coming(r) # Absent
  /\ r.cmd = "login" /\ r.at = 7 => Coming(r).pin

\* Unless commands mixed, one runs at a time, and when none does all agrees.
OrderInv ==
  ~mixed =>
    /\ \A p, q \in Procs : Config!Running(p) /\ Config!Running(q) => p = q
    /\ Config!AtRest => configFile # Config!Broken /\ Agreed(Config!Loaded) /\ Served(Config!Loaded)
    /\ \A p \in Procs : Config!Running(p) => Orderly(commands[p])

CliInv == Config!TypeOK /\ Places /\ SlotsInv /\ RootsInv /\ OrderInv

-----------------------------------------------------------------------------
\* Absent is no organization, profile, agent or settings.
LEMMA CliSentinels ==
  /\ Absent \notin Orgs /\ Absent \notin CliProfiles /\ Absent \notin Agents
     /\ Absent \notin Config!Setting
  /\ Absent \notin Config!Writing /\ Absent # Config!Broken /\ OrgOf \in [CliProfiles -> Orgs]
     /\ MaxCommands \in Nat
BY CliAssumption DEF Config!CliConstants, Config!Writing

\* Settings, and a write of them in its two stages, are told apart.
LEMMA SettingFacts ==
  /\ Config!Setting \subseteq Config!Writing
  /\ \A s \in Config!Setting : Config!Whole(s) /\ s.state = "whole" /\ s # Absent
     /\ s # Config!Broken
  /\ \A w \in Config!Writing : w.state = "whole" => w \in Config!Setting
  /\ \A w \in Config!Writing : w.state # "whole" => w.state = "emptied" /\ w.to \in Config!Setting
  /\ ~Config!Whole(Absent) /\ ~Config!Whole(Config!Broken)
BY CliSentinels DEF Config!Setting, Config!Writing, Config!Whole, Config!Broken

\* How many steps the commands have.
LEMMA Lengths ==
  /\ Len(Config!Program["login"]) = 7 /\ Len(Config!Program["logout"]) = 4
     /\ Len(Config!Program["useOrg"]) = 5
  /\ Len(Config!Program["useProfile"]) = 4 /\ Len(Config!Program["agentAddCli"]) = 4
  /\ Len(Config!Program["agentAddMcp"]) = 4 /\ Len(Config!Program["bootstrap"]) = 5
BY DEF Config!Program, Config!Login, Config!Logout, Config!UseOrg, Config!UseProfile,
   Config!AgentAdd, Config!ProfileBootstrap

LEMMA Sizes ==
  ASSUME NEW c \in Names
  PROVE  /\ Len(Config!Program[c]) \in Nat
         /\ c = "login" => Len(Config!Program[c]) = 7
         /\ c \in {"logout", "useProfile", "agentAddCli", "agentAddMcp"}
            => Len(Config!Program[c]) = 4
         /\ c \in {"useOrg", "bootstrap"} => Len(Config!Program[c]) = 5
<1>1. CASE c = "login"
  BY <1>1, Lengths
<1>2. CASE c = "logout"
  BY <1>2, Lengths
<1>3. CASE c = "useOrg"
  BY <1>3, Lengths
<1>4. CASE c = "useProfile"
  BY <1>4, Lengths
<1>5. CASE c = "agentAddCli"
  BY <1>5, Lengths
<1>6. CASE c = "agentAddMcp"
  BY <1>6, Lengths
<1>7. CASE c = "bootstrap"
  BY <1>7, Lengths
<1>. QED BY <1>1, <1>2, <1>3, <1>4, <1>5, <1>6, <1>7 DEF Names

\* The steps of each command, by their places.
LEMMA Steps ==
  /\ LET s == Config!Program["login"] IN
     /\ s[1] = "keepConfig" /\ s[2] = "askCode" /\ s[3] = "poll" /\ s[4] = "saveLogin"
     /\ s[5] = "start" /\ s[6] = "contact" /\ s[7] = "setSession"
  /\ LET s == Config!Program["logout"] IN
     s[1] = "hold" /\ s[2] = "contact" /\ s[3] = "clearSession" /\ s[4] = "saveHeld"
  /\ LET s == Config!Program["useOrg"] IN
     s[1] = "contact" /\ s[2] = "list" /\ s[3] = "saveOrg" /\ s[4] = "contact" /\ s[5] = "pushOrg"
  /\ LET s == Config!Program["useProfile"] IN
     s[1] = "hold" /\ s[2] = "contact" /\ s[3] = "list" /\ s[4] = "saveProfile"
  /\ LET s == Config!Program["agentAddCli"] IN
     s[1] = "contact" /\ s[2] = "create" /\ s[3] = "saveKey" /\ s[4] = "fillSlot"
  /\ LET s == Config!Program["agentAddMcp"] IN
     s[1] = "contact" /\ s[2] = "create" /\ s[3] = "saveKey" /\ s[4] = "fillSlot"
  /\ LET s == Config!Program["bootstrap"] IN
     /\ s[1] = "hold" /\ s[2] = "contact" /\ s[3] = "list" /\ s[4] = "bootstrap"
     /\ s[5] = "setRecovery"
BY DEF Config!Program, Config!Login, Config!Logout, Config!UseOrg, Config!UseProfile,
   Config!AgentAdd, Config!ProfileBootstrap

\* The other way round: at which places of which commands a step is.
LEMMA Table ==
  ASSUME NEW c \in Names, NEW k \in 1..Len(Config!Program[c])
  PROVE  /\ c = "login" => k \in 1..7
         /\ c \in {"logout", "useProfile", "agentAddCli", "agentAddMcp"} => k \in 1..4
         /\ c \in {"useOrg", "bootstrap"} => k \in 1..5
         /\ Config!Program[c][k] = "hold" <=> c \in {"logout", "useProfile", "bootstrap"} /\ k = 1
         /\ Config!Program[c][k] = "contact" <=>
              \/ c \in {"useOrg", "agentAddCli", "agentAddMcp"} /\ k = 1
              \/ c \in {"logout", "useProfile", "bootstrap"} /\ k = 2
              \/ c = "login" /\ k = 6
              \/ c = "useOrg" /\ k = 4
         /\ Config!Program[c][k] = "start" <=> c = "login" /\ k = 5
         /\ Config!Program[c][k] = "setSession" <=> c = "login" /\ k = 7
         /\ Config!Program[c][k] = "clearSession" <=> c = "logout" /\ k = 3
         /\ Config!Program[c][k] = "pushOrg" <=> c = "useOrg" /\ k = 5
         /\ Config!Program[c][k] = "keepConfig" <=> c = "login" /\ k = 1
         /\ Config!Program[c][k] = "askCode" <=> c = "login" /\ k = 2
         /\ Config!Program[c][k] = "poll" <=> c = "login" /\ k = 3
         /\ Config!Program[c][k] = "saveLogin" <=> c = "login" /\ k = 4
         /\ Config!Program[c][k] = "saveHeld" <=> c = "logout" /\ k = 4
         /\ Config!Program[c][k] = "list" <=>
              \/ c = "useOrg" /\ k = 2
              \/ c \in {"useProfile", "bootstrap"} /\ k = 3
         /\ Config!Program[c][k] = "saveOrg" <=> c = "useOrg" /\ k = 3
         /\ Config!Program[c][k] = "saveProfile" <=> c = "useProfile" /\ k = 4
         /\ Config!Program[c][k] = "create" <=> c \in {"agentAddCli", "agentAddMcp"} /\ k = 2
         /\ Config!Program[c][k] = "saveKey" <=> c \in {"agentAddCli", "agentAddMcp"} /\ k = 3
         /\ Config!Program[c][k] = "fillSlot" <=> c \in {"agentAddCli", "agentAddMcp"} /\ k = 4
         /\ Config!Program[c][k] = "bootstrap" <=> c = "bootstrap" /\ k = 4
         /\ Config!Program[c][k] = "setRecovery" <=> c = "bootstrap" /\ k = 5
<1>1. CASE c = "login"
  <2>1. k \in {1, 2, 3, 4, 5, 6, 7}
    BY <1>1, Lengths
  <2>. QED BY <1>1, <2>1, Steps
<1>2. CASE c = "logout"
  <2>1. k \in {1, 2, 3, 4}
    BY <1>2, Lengths
  <2>. QED BY <1>2, <2>1, Steps
<1>3. CASE c = "useOrg"
  <2>1. k \in {1, 2, 3, 4, 5}
    BY <1>3, Lengths
  <2>. QED BY <1>3, <2>1, Steps
<1>4. CASE c = "useProfile"
  <2>1. k \in {1, 2, 3, 4}
    BY <1>4, Lengths
  <2>. QED BY <1>4, <2>1, Steps
<1>5. CASE c = "agentAddCli"
  <2>1. k \in {1, 2, 3, 4}
    BY <1>5, Lengths
  <2>. QED BY <1>5, <2>1, Steps
<1>6. CASE c = "agentAddMcp"
  <2>1. k \in {1, 2, 3, 4}
    BY <1>6, Lengths
  <2>. QED BY <1>6, <2>1, Steps
<1>7. CASE c = "bootstrap"
  <2>1. k \in {1, 2, 3, 4, 5}
    BY <1>7, Lengths
  <2>. QED BY <1>7, <2>1, Steps
<1>. QED BY <1>1, <1>2, <1>3, <1>4, <1>5, <1>6, <1>7 DEF Names

\* What a command is given.
LEMMA ArgTable ==
  /\ \A c \in {"login", "logout", "agentAddCli", "agentAddMcp"} : Config!Args(c) = {Absent}
  /\ Config!Args("useOrg") = Orgs
  /\ Config!Args("useProfile") = CliProfiles /\ Config!Args("bootstrap") = CliProfiles
BY DEF Config!Args

\* What is known of a command that is about to take a step.
LEMMA Whereabouts ==
  ASSUME Config!TypeOK, Places, NEW p \in Procs, NEW step, Config!At(p, step), NEW r,
         r = commands[p]
  PROVE  /\ r \in Config!Command /\ r.cmd \in Names /\ Config!Running(p) /\ begun > 0
         /\ r.at \in 1..Len(Config!Program[r.cmd]) /\ Config!Program[r.cmd][r.at] = step
         /\ r.write = Absent /\ r.arg \in Config!Args(r.cmd)
         /\ r.cut <=> r.cmd = "useOrg" /\ r.at \in {4, 5}
<1>1. r \in Config!Command /\ InPlace(r) /\ (Config!Running(p) => begun > 0)
  BY DEF Config!TypeOK, Places
<1>2. Config!Running(p) /\ r.cmd # "none" /\ r.write = Absent
         /\ r.at <= Len(Config!Program[r.cmd]) /\ Config!Program[r.cmd][r.at] = step
  BY DEF Config!At, Config!Running
<1>3. r # Config!Idle
  BY <1>2 DEF Config!Idle
<1>4. r.cmd \in Names /\ r.arg \in Config!Args(r.cmd) /\ r.at \in 1..Len(Config!Program[r.cmd]) + 1
      /\ (r.cut <=> r.cmd = "useOrg" /\ r.at \in {4, 5})
  BY <1>1, <1>3 DEF InPlace
<1>5. Len(Config!Program[r.cmd]) \in Nat
  BY <1>4, Sizes
<1>. QED BY <1>1, <1>2, <1>4, <1>5

\* Nobody has a command: what is then so of the file and the daemon, unless commands mixed.
Rested == configFile # Config!Broken /\ Agreed(Config!Loaded) /\ Served(Config!Loaded)
Settled(s) == IF s.cmd = "none" THEN Rested ELSE Orderly(s)

\* A step of something else than a bootstrap that is to store its recovery key.
LEMMA RootsKept ==
  ASSUME CliInv, NEW p \in Procs, NEW s, commands' = [commands EXCEPT ![p] = s],
         rootWraps' = rootWraps,
         s.cmd = "bootstrap" => s.at # 5
  PROVE  RootsInv'
<1>1. commands'[p] = s /\ \A q \in Procs \ {p} : commands'[q] = commands[q]
  BY DEF CliInv, Config!TypeOK
<1>2. Config!RecoveryOpensRoot'
  BY DEF CliInv, RootsInv, Config!RecoveryOpensRoot
<1>. QED BY <1>1, <1>2 DEF CliInv, RootsInv

\* Enough for the invariant after a step of a command.
LEMMA Moved ==
  ASSUME CliInv, NEW p \in Procs, Config!Running(p), NEW r, r = commands[p],
         NEW s \in Config!Command, InPlace(s), commands' = [commands EXCEPT ![p] = s],
         configFile' \in Config!Setting \cup {Absent, Config!Broken},
         keyFiles \subseteq keyFiles', keyFiles' \subseteq Agents,
         agentRows \subseteq agentRows', agentRows' \subseteq Agents,
         signedIn' \in
           {Config!Down, Config!SignedOut} \cup {Config!Session(o) : o \in Orgs \cup {Absent}},
         deviceCodes' \in [Procs -> {"none", "pending", "approved", "denied", "expired"}],
         begun' = begun, mixed' \in BOOLEAN, mixed => mixed',
         rootWraps' \in [CliProfiles -> [root : 0..MaxCommands, recovery : 0..MaxCommands]],
         RootsInv',
         (Config!Whole(configFile) => HasKey(configFile))', Slotted(s)',
         ~mixed /\ ~mixed' /\ Orderly(r) => Settled(s)'
  PROVE  CliInv'
<1>. USE DEF CliInv
<1>1. r \in Config!Command /\ InPlace(r) /\ r.cmd # "none" /\ begun > 0
  BY DEF Config!TypeOK, Places, Config!Running
<1>2. commands' \in [Procs -> Config!Command] /\ commands'[p] = s
         /\ \A q \in Procs \ {p} : commands'[q] = commands[q]
  BY DEF Config!TypeOK
<1>3. Config!TypeOK'
  BY <1>2 DEF Config!TypeOK
<1>4. Places'
  BY <1>2, <1>1 DEF Places, Config!Running
<1>5. SlotsInv'
  <2>1. \A q \in Procs : Slotted(commands[q])
    BY DEF SlotsInv
  <2>2. \A x : HasKey(x) => HasKey(x)'
    BY DEF HasKey
  <2>3. \A x : Slotted(x) => Slotted(x)'
    BY <2>2 DEF Slotted
  <2>4. (\A q \in Procs : Slotted(commands[q]))'
    <3>. SUFFICES ASSUME NEW q \in Procs PROVE Slotted(commands[q])'
      OBVIOUS
    <3>1. CASE q = p
      BY <3>1, <1>2
    <3>2. CASE q # p
      <4>. PICK x : x = commands[q]
        OBVIOUS
      <4>1. Slotted(x)' /\ commands'[q] = x
        BY <1>2, <2>1, <2>3, <3>2
      <4>. QED BY <4>1
    <3>. QED BY <3>1, <3>2
  <2>. QED BY <2>4 DEF SlotsInv
<1>6. OrderInv'
  <2>. SUFFICES ASSUME ~mixed' PROVE OrderInv'
    BY DEF OrderInv
  <2>1. \A a, b \in Procs : Config!Running(a) /\ Config!Running(b) => a = b
    BY DEF OrderInv
  <2>2. Orderly(r)
    BY DEF OrderInv
  <2>3. Settled(s)'
    BY <2>2
  <2>4. \A q \in Procs \ {p} : ~Config!Running(q) /\ ~Config!Running(q)'
    BY <2>1, <1>2 DEF Config!Running
  <2>5. CASE s.cmd = "none"
    <3>1. Rested'
      BY <2>3, <2>5 DEF Settled
    <3>2. ~Config!Running(p)'
      BY <2>5, <1>2 DEF Config!Running
    <3>. QED BY <3>1, <3>2, <2>4 DEF OrderInv, Rested
  <2>6. CASE s.cmd # "none"
    <3>1. Orderly(s)'
      BY <2>3, <2>6 DEF Settled
    <3>2. Config!Running(p)' /\ Orderly(commands[p])'
      BY <2>6, <1>2, <3>1 DEF Config!Running
    <3>. QED BY <3>2, <2>4 DEF OrderInv, Config!AtRest
  <2>. QED BY <2>5, <2>6
<1>. QED BY <1>3, <1>4, <1>5, <1>6

\* The same for a step that leaves the disk and the server alone.
LEMMA Walked ==
  ASSUME CliInv, NEW p \in Procs, Config!Running(p), NEW r, r = commands[p],
         NEW s \in Config!Command, InPlace(s), commands' = [commands EXCEPT ![p] = s],
         UNCHANGED <<configFile, keyFiles, agentRows, rootWraps, begun, mixed>>,
         signedIn' \in
           {Config!Down, Config!SignedOut} \cup {Config!Session(o) : o \in Orgs \cup {Absent}},
         deviceCodes' \in [Procs -> {"none", "pending", "approved", "denied", "expired"}],
         s.cmd = "bootstrap" => s.at # 5,
         Slotted(s), ~mixed /\ Orderly(r) => Settled(s)'
  PROVE  CliInv'
<1>1. Config!TypeOK /\ SlotsInv
  BY DEF CliInv
<1>2. (Config!Whole(configFile) => HasKey(configFile))'
  BY <1>1 DEF SlotsInv, Config!Whole, HasKey
<1>3. Slotted(s)'
  BY DEF Slotted, HasKey
<1>4. RootsInv'
  BY RootsKept
<1>. QED BY <1>1, <1>2, <1>3, <1>4, Moved DEF Config!TypeOK

\* A step forward changes the place only.
LEMMA NextFields ==
  ASSUME NEW x \in Config!Command
  PROVE  LET s == Config!Next1(x) IN
         /\ s \in Config!Command /\ s.at = x.at + 1
         /\ s.cmd = x.cmd /\ s.arg = x.arg /\ s.held = x.held /\ s.org = x.org
         /\ s.write = x.write /\ s.cut = x.cut /\ s.got = x.got
BY DEF Config!Next1, Config!Command

\* Where a command gets by a step.
LEMMA Advances ==
  ASSUME NEW x \in Config!Command, NEW s, s = Config!Next1(x), x.cmd \in Names,
         x.arg \in Config!Args(x.cmd),
         x.at \in 1..Len(Config!Program[x.cmd]), x.cut <=> x.cmd = "useOrg" /\ x.at \in {3, 4}
  PROVE  /\ s \in Config!Command /\ InPlace(s) /\ s.at = x.at + 1
         /\ s.cmd = x.cmd /\ s.arg = x.arg /\ s.held = x.held /\ s.org = x.org
         /\ s.write = x.write /\ s.cut = x.cut /\ s.got = x.got
<1>1. /\ s \in Config!Command /\ s.at = x.at + 1
      /\ s.cmd = x.cmd /\ s.arg = x.arg /\ s.held = x.held /\ s.org = x.org
      /\ s.write = x.write /\ s.cut = x.cut /\ s.got = x.got
  BY NextFields
<1>2. Len(Config!Program[x.cmd]) \in Nat
  BY Sizes
<1>3. PICK k \in 1..Len(Config!Program[x.cmd]) : k = x.at
  OBVIOUS
<1>4. k + 1 \in 1..Len(Config!Program[x.cmd]) + 1 /\ (k + 1 \in {4, 5} <=> k \in {3, 4})
  BY <1>2
<1>5. s.at \in 1..Len(Config!Program[s.cmd]) + 1 /\ (s.at \in {4, 5} <=> x.at \in {3, 4})
  BY <1>1, <1>3, <1>4
<1>. QED BY <1>1, <1>5 DEF InPlace

\* A process without a command.
LEMMA IdleFields ==
  /\ Config!Idle \in Config!Command /\ InPlace(Config!Idle) /\ Slotted(Config!Idle)
  /\ Config!Idle.cmd = "none" /\ Config!Idle.at = 0 /\ Config!Idle.write = Absent
     /\ Config!Idle.held = Absent /\ ~Config!Idle.cut
<1>1. Config!Idle.cmd = "none" /\ Config!Idle.at = 0 /\ Config!Idle.write = Absent
         /\ Config!Idle.held = Absent /\ ~Config!Idle.cut
  BY DEF Config!Idle
<1>2. Config!Idle \in Config!Command
  BY DEF Config!Idle, Config!Command
<1>. QED BY <1>1, <1>2 DEF InPlace, Slotted, Registering

\* A command that ends, not between two writes.
LEMMA Ended ==
  ASSUME CliInv, NEW p \in Procs, Config!Running(p), commands[p].write = Absent, ~commands[p].cut,
         Config!Ends(p),
         UNCHANGED <<configFile, keyFiles, agentRows, signedIn, rootWraps, begun, mixed>>,
         deviceCodes' \in [Procs -> {"none", "pending", "approved", "denied", "expired"}]
  PROVE  CliInv'
<1>. PICK r : r = commands[p]
  OBVIOUS
<1>. PICK s \in Config!Command : s = Config!Idle
  BY IdleFields
<1>1. Config!TypeOK
  BY DEF CliInv
<1>2. commands' = [commands EXCEPT ![p] = s]
  BY DEF Config!Ends
<1>3. ASSUME Orderly(r) PROVE Settled(s)'
  <2>1. configFile # Config!Broken /\ Agreed(Config!Loaded) /\ Served(Config!Loaded)
    BY <1>3 DEF Orderly, Coming
  <2>2. Rested'
    BY <2>1 DEF Rested, Agreed, Served, Config!Loaded, Config!Whole, InSession
  <2>. QED BY <2>2, IdleFields DEF Settled
<1>. QED BY <1>1, <1>2, <1>3, IdleFields, Walked DEF Config!TypeOK

\* The steps, one lemma each.
LEMMA FinishesStep == ASSUME CliInv, NEW p \in Procs, Config!Finishes(p) PROVE CliInv'
<1>1. Config!TypeOK /\ Places
  BY DEF CliInv
<1>2. commands[p] \in Config!Command /\ commands[p].cmd \in Names /\ InPlace(commands[p])
         /\ commands[p] # Config!Idle
  BY <1>1 DEF Config!TypeOK, Places, Config!Finishes, Config!Running, InPlace, Config!Idle
<1>3. ~commands[p].cut
  <2>1. commands[p].at > Len(Config!Program[commands[p].cmd])
    BY DEF Config!Finishes
  <2>2. commands[p].cmd = "useOrg" => commands[p].at > 5
    BY <2>1, Lengths
  <2>. QED BY <1>2, <2>2 DEF InPlace
<1>. QED BY <1>1, <1>3, Ended DEF Config!Finishes, Config!TypeOK

\* What the steps of the other commands and of the daemon leave as it is.
LEMMA SameFile ==
  ASSUME configFile' = configFile
  PROVE  Config!Loaded' = Config!Loaded /\ (Config!Whole(configFile))' = Config!Whole(configFile)
BY DEF Config!Loaded, Config!Whole

LEMMA HoldStep == ASSUME CliInv, NEW p \in Procs, Config!Hold(p) PROVE CliInv'
<1>. PICK r : r = commands[p]
  OBVIOUS
<1>. DEFINE ok == r.cmd = "logout" \/ (Config!Loaded # Absent /\ Config!Loaded.org # Absent)
<1>. Config!TypeOK /\ Places /\ SlotsInv /\ Config!At(p, "hold")
  BY DEF CliInv, Config!Hold
<1>. UNCHANGED <<configFile, keyFiles, agentRows, signedIn, rootWraps, deviceCodes, begun, mixed>>
  BY DEF Config!Hold
<1>1. /\ r \in Config!Command /\ Config!Running(p) /\ r.write = Absent /\ ~r.cut /\ r.at = 1
      /\ r.arg \in Config!Args(r.cmd) /\ r.cmd \in {"logout", "useProfile", "bootstrap"}
      /\ r.cmd \in Names /\ r.at \in 1..Len(Config!Program[r.cmd])
  BY Whereabouts, Table
<1>2. CASE ~ok
  BY <1>1, <1>2, Ended DEF Config!Hold, Config!GoesIf, Config!TypeOK
<1>3. CASE ok
  <2>0. Config!Loaded \in Config!Setting \cup {Absent}
    BY SettingFacts DEF Config!TypeOK, Config!Loaded, Config!Whole
  <2>1. PICK x : x = [r EXCEPT !.held = Config!Loaded]
    OBVIOUS
  <2>2. /\ x \in Config!Command /\ x.cmd = r.cmd /\ x.arg = r.arg /\ x.at = r.at
           /\ x.held = Config!Loaded
        /\ x.write = Absent /\ x.cut = r.cut
    BY <1>1, <2>0, <2>1 DEF Config!Command
  <2>3. PICK s : s = Config!Next1(x)
    OBVIOUS
  <2>4. commands' = [commands EXCEPT ![p] = s]
    BY <2>1, <2>3, <1>3 DEF Config!Hold, Config!GoesIf, Config!Goes
  <2>5. /\ s \in Config!Command /\ InPlace(s) /\ s.cmd = r.cmd /\ s.arg = r.arg /\ s.at = 2
        /\ s.held = Config!Loaded /\ s.write = Absent /\ ~s.cut
    BY <2>2, <2>3, Advances, <1>1
  <2>6. Slotted(s)
    BY <2>5, <1>1 DEF Slotted, Registering, Config!Loaded, SlotsInv
  <2>7. ASSUME Orderly(r) PROVE Settled(s)'
    BY <2>5, <2>7, <1>1, <1>3, SameFile
    DEF Settled, Orderly, Coming, Keeping, Agreed, Served, InSession
  <2>8. s \in Config!Command /\ InPlace(s) /\ (s.cmd = "bootstrap" => s.at # 5)
    BY <2>5
  <2>9. /\ signedIn' \in
             {Config!Down, Config!SignedOut} \cup {Config!Session(o) : o \in Orgs \cup {Absent}}
        /\ deviceCodes' \in [Procs -> {"none", "pending", "approved", "denied", "expired"}]
    BY DEF Config!TypeOK
  <2>. HIDE DEF ok
  <2>. QED BY <1>1, <2>4, <2>6, <2>7, <2>8, <2>9, Walked
<1>. QED BY <1>2, <1>3

\* Nothing happens to the configuration.
LEMMA Stands == ASSUME CliInv, UNCHANGED (Config!vars) PROVE CliInv'
<1>1. Config!TypeOK' /\ Places'
  BY DEF CliInv, Config!TypeOK, Places, Config!Running, Config!vars
<1>2. SlotsInv' /\ RootsInv'
  BY DEF CliInv, SlotsInv, RootsInv, Config!Whole, HasKey, Slotted, Pending, Registering,
     Config!RecoveryOpensRoot,
         Config!vars
<1>3. OrderInv'
  BY SameFile DEF CliInv, OrderInv, Config!AtRest, Config!Running, Agreed, Served, Orderly, Coming,
     Keeping,
         Pending, InSession, Config!Whole, Config!vars
<1>. QED BY <1>1, <1>2, <1>3 DEF CliInv

\* The organization of a session.
LEMMA Sessions ==
  ASSUME NEW o
  PROVE  Config!Session(o) # Config!Down /\ Config!Session(o) # Config!SignedOut
         /\ Config!Session(o).org = o
BY DEF Config!Session, Config!Down, Config!SignedOut

LEMMA ListStep == ASSUME CliInv, NEW p \in Procs, Config!List(p) PROVE CliInv'
<1>. PICK r : r = commands[p]
  OBVIOUS
<1>. Config!TypeOK /\ Places /\ SlotsInv /\ Config!At(p, "list")
  BY DEF CliInv, Config!List
<1>. UNCHANGED <<configFile, keyFiles, agentRows, signedIn, rootWraps, deviceCodes, begun, mixed>>
  BY DEF Config!List
<1>1. /\ r \in Config!Command /\ Config!Running(p) /\ r.write = Absent /\ ~r.cut
         /\ (r.at = IF r.cmd = "useOrg" THEN 2 ELSE 3)
      /\ r.arg \in Config!Args(r.cmd) /\ r.cmd \in {"useOrg", "useProfile", "bootstrap"}
      /\ r.cmd \in Names /\ r.at \in 1..Len(Config!Program[r.cmd])
  BY Whereabouts, Table
<1>2. CASE ~(r.cmd = "useOrg" \/ OrgOf[r.arg] = r.held.org)
  BY <1>1, <1>2, Ended DEF Config!List, Config!GoesIf, Config!TypeOK
<1>3. CASE r.cmd = "useOrg" \/ OrgOf[r.arg] = r.held.org
  <2>3. PICK s : s = Config!Next1(r)
    OBVIOUS
  <2>4. commands' = [commands EXCEPT ![p] = s]
    BY <2>3, <1>3 DEF Config!List, Config!GoesIf, Config!Goes
  <2>5. /\ s \in Config!Command /\ InPlace(s) /\ s.cmd = r.cmd /\ s.arg = r.arg /\ s.at = r.at + 1
        /\ s.held = r.held /\ s.write = Absent /\ s.cut = r.cut /\ s.got = r.got
    BY <2>3, Advances, <1>1
  <2>6. Slotted(s)
    BY <2>5, <1>1 DEF Slotted, Registering, SlotsInv
  <2>7. ASSUME Orderly(r) PROVE Settled(s)'
    BY <2>5, <2>7, <1>1, <1>3, SameFile
    DEF Settled, Orderly, Coming, Keeping, Agreed, Served, InSession
  <2>8. s \in Config!Command /\ InPlace(s) /\ (s.cmd = "bootstrap" => s.at # 5)
    BY <2>5, <1>1
  <2>9. /\ signedIn' \in
             {Config!Down, Config!SignedOut} \cup {Config!Session(o) : o \in Orgs \cup {Absent}}
        /\ deviceCodes' \in [Procs -> {"none", "pending", "approved", "denied", "expired"}]
    BY DEF Config!TypeOK
  <2>. QED BY <1>1, <2>4, <2>6, <2>7, <2>8, <2>9, Walked
<1>. QED BY <1>2, <1>3

LEMMA AskCodeStep == ASSUME CliInv, NEW p \in Procs, Config!AskCode(p) PROVE CliInv'
<1>. PICK r : r = commands[p]
  OBVIOUS
<1>. Config!TypeOK /\ Places /\ SlotsInv /\ Config!At(p, "askCode")
  BY DEF CliInv, Config!AskCode
<1>. UNCHANGED <<configFile, keyFiles, agentRows, signedIn, rootWraps, begun, mixed>>
  BY DEF Config!AskCode
<1>1. /\ r \in Config!Command /\ Config!Running(p) /\ r.write = Absent /\ ~r.cut /\ r.at = 2
      /\ r.arg \in Config!Args(r.cmd) /\ r.cmd = "login"
      /\ r.cmd \in Names /\ r.at \in 1..Len(Config!Program[r.cmd])
  BY Whereabouts, Table
<1>3. PICK s : s = Config!Next1(r)
  OBVIOUS
<1>4. commands' = [commands EXCEPT ![p] = s]
  BY <1>3 DEF Config!AskCode, Config!Goes
<1>5. /\ s \in Config!Command /\ InPlace(s) /\ s.cmd = r.cmd /\ s.arg = r.arg /\ s.at = 3
      /\ s.held = r.held /\ s.write = Absent /\ s.cut = r.cut /\ s.got = r.got
  BY <1>3, Advances, <1>1
<1>6. Slotted(s)
  BY <1>5, <1>1 DEF Slotted, Registering, SlotsInv
<1>7. ASSUME Orderly(r) PROVE Settled(s)'
  BY <1>5, <1>7, <1>1, SameFile
  DEF Settled, Orderly, Coming, Keeping, Agreed, Served, InSession
<1>8. s \in Config!Command /\ InPlace(s) /\ (s.cmd = "bootstrap" => s.at # 5)
  BY <1>5, <1>1
<1>9. /\ signedIn' \in
           {Config!Down, Config!SignedOut} \cup {Config!Session(o) : o \in Orgs \cup {Absent}}
      /\ deviceCodes' \in [Procs -> {"none", "pending", "approved", "denied", "expired"}]
  BY DEF Config!AskCode, Config!TypeOK
<1>. QED BY <1>1, <1>4, <1>6, <1>7, <1>8, <1>9, Walked

LEMMA PollStep == ASSUME CliInv, NEW p \in Procs, Config!Poll(p) PROVE CliInv'
<1>. PICK r : r = commands[p]
  OBVIOUS
<1>. Config!TypeOK /\ Places /\ SlotsInv /\ Config!At(p, "poll")
  BY DEF CliInv, Config!Poll
<1>. UNCHANGED <<configFile, keyFiles, agentRows, signedIn, rootWraps, begun, mixed>>
  BY DEF Config!Poll
<1>1. /\ r \in Config!Command /\ Config!Running(p) /\ r.write = Absent /\ ~r.cut /\ r.at = 3
      /\ r.arg \in Config!Args(r.cmd) /\ r.cmd = "login"
      /\ r.cmd \in Names /\ r.at \in 1..Len(Config!Program[r.cmd])
  BY Whereabouts, Table
<1>2. \/ UNCHANGED <<deviceCodes, commands>>
      \/ deviceCodes' = [deviceCodes EXCEPT ![p] = "none"] /\ (Config!Goes(p, r) \/ Config!Ends(p))
  BY Zenon DEF Config!Poll
<1>3. CASE UNCHANGED <<deviceCodes, commands>>
  BY <1>3, Stands DEF Config!vars
<1>4. CASE deviceCodes' = [deviceCodes EXCEPT ![p] = "none"] /\ Config!Ends(p)
  BY <1>1, <1>4, Ended DEF Config!TypeOK
<1>5. CASE deviceCodes' = [deviceCodes EXCEPT ![p] = "none"] /\ Config!Goes(p, r)
  <2>3. PICK s : s = Config!Next1(r)
    OBVIOUS
  <2>4. commands' = [commands EXCEPT ![p] = s]
    BY <1>5, <2>3 DEF Config!Goes
  <2>5. /\ s \in Config!Command /\ InPlace(s) /\ s.cmd = r.cmd /\ s.arg = r.arg /\ s.at = 4
        /\ s.held = r.held /\ s.write = Absent /\ s.cut = r.cut /\ s.got = r.got
    BY <2>3, Advances, <1>1
  <2>6. Slotted(s)
    BY <2>5, <1>1 DEF Slotted, Registering, SlotsInv
  <2>7. ASSUME Orderly(r) PROVE Settled(s)'
    BY <2>5, <2>7, <1>1, SameFile
    DEF Settled, Orderly, Coming, Keeping, Agreed, Served, InSession
  <2>8. s \in Config!Command /\ InPlace(s) /\ (s.cmd = "bootstrap" => s.at # 5)
    BY <2>5, <1>1
  <2>9. /\ signedIn' \in
             {Config!Down, Config!SignedOut} \cup {Config!Session(o) : o \in Orgs \cup {Absent}}
        /\ deviceCodes' \in [Procs -> {"none", "pending", "approved", "denied", "expired"}]
    BY <1>5 DEF Config!TypeOK
  <2>. QED BY <1>1, <2>4, <2>6, <2>7, <2>8, <2>9, Walked
<1>. QED BY <1>2, <1>3, <1>4, <1>5

LEMMA StartStep == ASSUME CliInv, NEW p \in Procs, Config!Start(p) PROVE CliInv'
<1>. PICK r : r = commands[p]
  OBVIOUS
<1>. Config!TypeOK /\ Places /\ SlotsInv /\ Config!At(p, "start")
  BY DEF CliInv, Config!Start
<1>. UNCHANGED <<configFile, keyFiles, agentRows, rootWraps, deviceCodes, begun, mixed>>
  BY DEF Config!Start
<1>1. /\ r \in Config!Command /\ Config!Running(p) /\ r.write = Absent /\ ~r.cut /\ r.at = 5
      /\ r.arg \in Config!Args(r.cmd) /\ r.cmd = "login"
      /\ r.cmd \in Names /\ r.at \in 1..Len(Config!Program[r.cmd])
  BY Whereabouts, Table
<1>2. CASE Config!Loaded = Absent
  BY <1>1, <1>2, Ended DEF Config!Start, Config!GoesIf, Config!TypeOK
<1>3. CASE Config!Loaded # Absent
  <2>3. PICK s : s = Config!Next1(r)
    OBVIOUS
  <2>4. commands' = [commands EXCEPT ![p] = s]
    BY <1>3, <2>3 DEF Config!Start, Config!GoesIf, Config!Goes
  <2>5. /\ s \in Config!Command /\ InPlace(s) /\ s.cmd = r.cmd /\ s.arg = r.arg /\ s.at = 6
        /\ s.held = r.held /\ s.write = Absent /\ s.cut = r.cut /\ s.got = r.got
    BY <2>3, Advances, <1>1
  <2>6. Slotted(s)
    BY <2>5, <1>1 DEF Slotted, Registering, SlotsInv
  <2>7. ASSUME Orderly(r) PROVE Settled(s)'
    BY <2>5, <2>7, <1>1, SameFile
    DEF Settled, Orderly, Coming, Keeping, Agreed, Served, InSession, Config!Start
  <2>8. s \in Config!Command /\ InPlace(s) /\ (s.cmd = "bootstrap" => s.at # 5)
    BY <2>5, <1>1
  <2>9. /\ signedIn' \in
             {Config!Down, Config!SignedOut} \cup {Config!Session(o) : o \in Orgs \cup {Absent}}
        /\ deviceCodes' \in [Procs -> {"none", "pending", "approved", "denied", "expired"}]
    BY DEF Config!Start, Config!TypeOK
  <2>. QED BY <1>1, <2>4, <2>6, <2>7, <2>8, <2>9, Walked
<1>. QED BY <1>2, <1>3

LEMMA SetCliSessionStep == ASSUME CliInv, NEW p \in Procs, Config!SetSession(p) PROVE CliInv'
<1>. PICK r : r = commands[p]
  OBVIOUS
<1>. Config!TypeOK /\ Places /\ SlotsInv /\ Config!At(p, "setSession")
  BY DEF CliInv, Config!SetSession
<1>. UNCHANGED <<configFile, keyFiles, agentRows, rootWraps, deviceCodes, begun, mixed>>
  BY DEF Config!SetSession
<1>1. /\ r \in Config!Command /\ Config!Running(p) /\ r.write = Absent /\ ~r.cut /\ r.at = 7
      /\ r.arg \in Config!Args(r.cmd) /\ r.cmd = "login"
      /\ r.cmd \in Names /\ r.at \in 1..Len(Config!Program[r.cmd])
  BY Whereabouts, Table
<1>2. Config!Loaded \in Config!Setting \cup {Absent}
  BY SettingFacts DEF Config!TypeOK, Config!Loaded, Config!Whole
<1>3. PICK s : s = Config!Next1(r)
  OBVIOUS
<1>4. commands' = [commands EXCEPT ![p] = s]
  BY <1>3 DEF Config!SetSession, Config!Goes
<1>5. /\ s \in Config!Command /\ InPlace(s) /\ s.cmd = r.cmd /\ s.arg = r.arg /\ s.at = 8
      /\ s.held = r.held /\ s.write = Absent /\ s.cut = r.cut /\ s.got = r.got
  BY <1>3, Advances, <1>1
<1>6. Slotted(s)
  BY <1>5, <1>1 DEF Slotted, Registering, SlotsInv
<1>7. ASSUME Orderly(r) PROVE Settled(s)'
  <2>1. Config!Loaded # Absent /\ Config!Loaded.pin /\ Agreed(Config!Loaded)
           /\ configFile # Config!Broken
    BY <1>1, <1>7 DEF Orderly, Coming
  <2>2. signedIn' \in {Config!Down, Config!Session(Config!Loaded.org)}
    BY <2>1 DEF Config!SetSession
  <2>3. Served(Config!Loaded)'
    BY <2>1, <2>2, SameFile, Sessions DEF Served, InSession
  <2>. QED BY <2>1, <2>3, <1>5, <1>1, SameFile DEF Settled, Orderly, Coming, Keeping, Agreed
<1>8. s \in Config!Command /\ InPlace(s) /\ (s.cmd = "bootstrap" => s.at # 5)
  BY <1>5, <1>1
<1>9. /\ signedIn' \in
           {Config!Down, Config!SignedOut} \cup {Config!Session(o) : o \in Orgs \cup {Absent}}
      /\ deviceCodes' \in [Procs -> {"none", "pending", "approved", "denied", "expired"}]
  <2>1. Config!Loaded # Absent => Config!Loaded.org \in Orgs \cup {Absent}
    BY <1>2 DEF Config!Setting
  <2>. QED BY <2>1 DEF Config!SetSession, Config!TypeOK
<1>. QED BY <1>1, <1>4, <1>6, <1>7, <1>8, <1>9, Walked

LEMMA ClearCliSessionStep == ASSUME CliInv, NEW p \in Procs, Config!ClearSession(p) PROVE CliInv'
<1>. PICK r : r = commands[p]
  OBVIOUS
<1>. Config!TypeOK /\ Places /\ SlotsInv /\ Config!At(p, "clearSession")
  BY DEF CliInv, Config!ClearSession
<1>. UNCHANGED <<configFile, keyFiles, agentRows, rootWraps, deviceCodes, begun, mixed>>
  BY DEF Config!ClearSession
<1>1. /\ r \in Config!Command /\ Config!Running(p) /\ r.write = Absent /\ ~r.cut /\ r.at = 3
      /\ r.arg \in Config!Args(r.cmd) /\ r.cmd = "logout"
      /\ r.cmd \in Names /\ r.at \in 1..Len(Config!Program[r.cmd])
  BY Whereabouts, Table
<1>2. ~InSession'
  BY DEF Config!ClearSession, InSession
<1>3. PICK s : s = Config!Next1(r)
  OBVIOUS
<1>4. commands' = [commands EXCEPT ![p] = s]
  BY <1>3 DEF Config!ClearSession, Config!Goes
<1>5. /\ s \in Config!Command /\ InPlace(s) /\ s.cmd = r.cmd /\ s.arg = r.arg /\ s.at = 4
      /\ s.held = r.held /\ s.write = Absent /\ s.cut = r.cut /\ s.got = r.got
  BY <1>3, Advances, <1>1
<1>6. Slotted(s)
  BY <1>5, <1>1 DEF Slotted, Registering, SlotsInv
<1>7. ASSUME Orderly(r) PROVE Settled(s)'
  BY <1>2, <1>5, <1>7, <1>1, SameFile
  DEF Settled, Orderly, Coming, Keeping, Agreed, Served
<1>8. s \in Config!Command /\ InPlace(s) /\ (s.cmd = "bootstrap" => s.at # 5)
  BY <1>5, <1>1
<1>9. /\ signedIn' \in
           {Config!Down, Config!SignedOut} \cup {Config!Session(o) : o \in Orgs \cup {Absent}}
      /\ deviceCodes' \in [Procs -> {"none", "pending", "approved", "denied", "expired"}]
  BY DEF Config!ClearSession, Config!TypeOK
<1>. QED BY <1>1, <1>4, <1>6, <1>7, <1>8, <1>9, Walked

LEMMA PushOrgStep == ASSUME CliInv, NEW p \in Procs, Config!PushOrg(p) PROVE CliInv'
<1>. PICK r : r = commands[p]
  OBVIOUS
<1>. Config!TypeOK /\ Places /\ SlotsInv /\ Config!At(p, "pushOrg")
  BY DEF CliInv, Config!PushOrg
<1>. UNCHANGED <<configFile, keyFiles, agentRows, rootWraps, deviceCodes, begun, mixed>>
  BY DEF Config!PushOrg
<1>1. /\ r \in Config!Command /\ Config!Running(p) /\ r.write = Absent /\ r.cut /\ r.at = 5
      /\ r.arg \in Config!Args(r.cmd) /\ r.cmd = "useOrg"
      /\ r.cmd \in Names /\ r.at \in 1..Len(Config!Program[r.cmd])
  BY Whereabouts, Table
<1>2a. PICK x : x = [r EXCEPT !.cut = FALSE]
  OBVIOUS
<1>2. /\ x \in Config!Command /\ x.cmd = r.cmd /\ x.arg = r.arg /\ x.at = r.at /\ x.held = r.held
      /\ x.write = Absent /\ x.got = r.got /\ ~x.cut
  BY <1>1, <1>2a DEF Config!Command
<1>3. PICK s : s = Config!Next1(x)
  OBVIOUS
<1>4. commands' = [commands EXCEPT ![p] = s]
  BY <1>2a, <1>3 DEF Config!PushOrg, Config!Goes
<1>5. /\ s \in Config!Command /\ InPlace(s) /\ s.cmd = r.cmd /\ s.arg = r.arg /\ s.at = 6
      /\ s.held = r.held /\ s.write = Absent /\ ~s.cut /\ s.got = r.got
  BY <1>2, <1>3, Advances, <1>1
<1>6. Slotted(s)
  BY <1>5, <1>1 DEF Slotted, Registering, SlotsInv
<1>7. ASSUME Orderly(r) PROVE Settled(s)'
  <2>1. /\ Config!Loaded # Absent /\ Config!Loaded.org = r.arg /\ (InSession => Config!Loaded.pin)
        /\ Agreed(Config!Loaded) /\ configFile # Config!Broken
    BY <1>1, <1>7 DEF Orderly, Coming
  <2>2. Served(Config!Loaded)'
    BY <2>1, SameFile, Sessions DEF Served, InSession, Config!PushOrg
  <2>. QED BY <2>1, <2>2, <1>5, <1>1, SameFile DEF Settled, Orderly, Coming, Keeping, Agreed
<1>8. s \in Config!Command /\ InPlace(s) /\ (s.cmd = "bootstrap" => s.at # 5)
  BY <1>5, <1>1
<1>9. /\ signedIn' \in
           {Config!Down, Config!SignedOut} \cup {Config!Session(o) : o \in Orgs \cup {Absent}}
      /\ deviceCodes' \in [Procs -> {"none", "pending", "approved", "denied", "expired"}]
  <2>1. r.arg \in Orgs
    BY <1>1, ArgTable
  <2>. QED BY <2>1 DEF Config!PushOrg, Config!TypeOK
<1>. QED BY <1>1, <1>4, <1>6, <1>7, <1>8, <1>9, Walked

\* A command sets out to write settings w.
LEMMA SetsOut ==
  ASSUME CliInv, NEW p \in Procs, Config!Running(p), NEW r, r = commands[p], r.write = Absent,
         NEW w \in Config!Setting, HasKey(w), NEW s \in Config!Command, InPlace(s),
         commands' = [commands EXCEPT ![p] = s],
         UNCHANGED <<configFile, keyFiles, agentRows, signedIn, rootWraps, deviceCodes, begun,
         mixed>>,
         s.cmd # "none", s.cmd = "bootstrap" => s.at # 5, s.held = r.held, s.write = w,
         ~Registering(s, 3), ~Registering(s, 4),
         ~mixed /\ Orderly(r) =>
           /\ ~Keeping(s) /\ Agreed(w)
           /\ ~s.cut => Served(w)
           /\ s.cut => w.org = s.arg /\ (InSession => w.pin)
           /\ Config!Whole(configFile) /\ configFile.pin => w.pin
           /\ s.cmd = "logout" /\ s.at \in {4, 5} => ~InSession
           /\ s.cmd = "login" /\ s.at = 7 => w.pin
  PROVE  CliInv'
<1>1. Config!TypeOK /\ SlotsInv
  BY DEF CliInv
<1>2. w.state = "whole" /\ w # Absent /\ Pending(s) = w /\ s.write # Absent
  BY SettingFacts DEF Pending
<1>3. Slotted(s)
  BY <1>1, <1>2 DEF SlotsInv, Slotted
<1>4. ASSUME ~mixed, Orderly(r) PROVE Settled(s)'
  <2>1. configFile # Config!Broken
    BY <1>4 DEF Orderly
  <2>2. Coming(s) = w /\ Coming(s)' = w
    BY <1>2 DEF Coming, Pending
  <2>3. Orderly(s)'
    BY <1>2, <1>4, <2>1, <2>2, SameFile DEF Orderly, Agreed, Served, Keeping, InSession
  <2>. QED BY <2>3 DEF Settled
<1>5. /\ signedIn' \in
           {Config!Down, Config!SignedOut} \cup {Config!Session(o) : o \in Orgs \cup {Absent}}
      /\ deviceCodes' \in [Procs -> {"none", "pending", "approved", "denied", "expired"}]
  BY <1>1 DEF Config!TypeOK
<1>. QED BY <1>3, <1>4, <1>5, Walked

\* What can be read of the configuration are settings that have their keys.
LEMMA LoadedFacts ==
  ASSUME CliInv
  PROVE  /\ Config!Loaded \in Config!Setting \cup {Absent}
         /\ Config!Loaded # Absent => HasKey(Config!Loaded)
         /\ Config!Whole(configFile) => Config!Loaded = configFile
         /\ Config!Loaded # Absent => Config!Whole(configFile)
BY SettingFacts DEF CliInv, Config!TypeOK, SlotsInv, Config!Loaded, Config!Whole

\* Settings with one of their fields set.
LEMMA SettingWith ==
  ASSUME NEW f \in Config!Setting
  PROVE  /\ LET w == [f EXCEPT !.pin = TRUE] IN
            /\ w \in Config!Setting /\ w.org = f.org /\ w.profile = f.profile /\ w.cli = f.cli
            /\ w.mcp = f.mcp /\ w.pin
         /\ \A o \in Orgs : LET w == [f EXCEPT !.org = o, !.profile = Absent] IN
            /\ w \in Config!Setting /\ w.org = o /\ w.profile = Absent /\ w.cli = f.cli
            /\ w.mcp = f.mcp /\ (w.pin <=> f.pin)
         /\ \A a \in CliProfiles : LET w == [f EXCEPT !.profile = a] IN
            /\ w \in Config!Setting /\ w.org = f.org /\ w.profile = a /\ w.cli = f.cli
            /\ w.mcp = f.mcp /\ (w.pin <=> f.pin)
         /\ \A a \in Agents : LET w == [f EXCEPT !.cli = a] IN
            /\ w \in Config!Setting /\ w.org = f.org /\ w.profile = f.profile /\ w.cli = a
            /\ w.mcp = f.mcp /\ (w.pin <=> f.pin)
         /\ \A a \in Agents : LET w == [f EXCEPT !.mcp = a] IN
            /\ w \in Config!Setting /\ w.org = f.org /\ w.profile = f.profile /\ w.cli = f.cli
            /\ w.mcp = a /\ (w.pin <=> f.pin)
BY DEF Config!Setting

\* The settings of a first login.
LEMMA FreshFacts ==
  Config!Fresh \in Config!Setting /\ Config!Fresh.profile = Absent /\ Config!Fresh.org = Absent
  /\ HasKey(Config!Fresh)
BY DEF Config!Fresh, Config!Settings, Config!Setting, HasKey

\* To set out to write changes nothing else of a command.
LEMMA WritesFields ==
  ASSUME NEW r \in Config!Command, NEW w \in Config!Setting
  PROVE  LET x == Config!Writes(r, w) IN
         /\ x \in Config!Command /\ x.cmd = r.cmd /\ x.arg = r.arg /\ x.at = r.at /\ x.held = r.held
         /\ x.org = r.org /\ x.write = w /\ x.cut = r.cut /\ x.got = r.got
BY SettingFacts DEF Config!Writes, Config!Command

LEMMA KeepConfigStep == ASSUME CliInv, NEW p \in Procs, Config!KeepConfig(p) PROVE CliInv'
<1>. PICK r : r = commands[p]
  OBVIOUS
<1>. Config!TypeOK /\ Places /\ SlotsInv /\ Config!At(p, "keepConfig")
  BY DEF CliInv, Config!KeepConfig
<1>. UNCHANGED <<configFile, keyFiles, agentRows, signedIn, rootWraps, deviceCodes, begun, mixed>>
  BY DEF Config!KeepConfig
<1>1. /\ r \in Config!Command /\ Config!Running(p) /\ r.write = Absent /\ ~r.cut /\ r.at = 1
      /\ r.arg \in Config!Args(r.cmd) /\ r.cmd = "login"
      /\ r.cmd \in Names /\ r.at \in 1..Len(Config!Program[r.cmd])
  BY Whereabouts, Table
<1>2. PICK w \in Config!Setting : w = IF Config!Loaded = Absent THEN Config!Fresh ELSE Config!Loaded
  BY LoadedFacts, FreshFacts
<1>3. PICK x \in Config!Command : x = Config!Writes(r, w)
  BY <1>1, WritesFields
<1>4. /\ x.cmd = r.cmd /\ x.arg = r.arg /\ x.at = r.at /\ x.held = r.held
      /\ x.write = w /\ ~x.cut
  BY <1>1, <1>3, WritesFields
<1>5. PICK s : s = Config!Next1(x)
  OBVIOUS
<1>6. commands' = [commands EXCEPT ![p] = s]
  BY <1>2, <1>3, <1>5 DEF Config!KeepConfig, Config!Goes
<1>7. /\ s \in Config!Command /\ InPlace(s) /\ s.cmd = r.cmd /\ s.arg = r.arg /\ s.at = 2
      /\ s.held = r.held /\ s.write = w /\ ~s.cut
  BY <1>4, <1>5, Advances, <1>1
<1>8. HasKey(w)
  BY <1>2, LoadedFacts, FreshFacts
<1>9. ASSUME Orderly(r)
      PROVE  Agreed(w) /\ Served(w) /\ (Config!Whole(configFile) /\ configFile.pin => w.pin)
  <2>1. Agreed(Config!Loaded) /\ Served(Config!Loaded)
    BY <1>1, <1>9 DEF Orderly, Coming
  <2>2. CASE Config!Loaded = Absent
    BY <1>2, <2>1, <2>2, FreshFacts, LoadedFacts, SettingFacts DEF Agreed, Served
  <2>3. CASE Config!Loaded # Absent
    BY <1>2, <2>1, <2>3, LoadedFacts
  <2>. QED BY <2>2, <2>3
<1>10. ~Registering(s, 3) /\ ~Registering(s, 4) /\ ~Keeping(s)
  BY <1>1, <1>7 DEF Registering, Keeping
<1>11. s.cmd # "none" /\ s.cmd # "bootstrap" /\ s.cmd # "logout" /\ s.at # 7
  BY <1>1, <1>7
<1>. QED BY <1>1, <1>6, <1>7, <1>8, <1>9, <1>10, <1>11, SetsOut

LEMMA SaveLoginStep == ASSUME CliInv, NEW p \in Procs, Config!SaveLogin(p) PROVE CliInv'
<1>. PICK r : r = commands[p]
  OBVIOUS
<1>. Config!TypeOK /\ Places /\ SlotsInv /\ Config!At(p, "saveLogin")
  BY DEF CliInv, Config!SaveLogin
<1>. UNCHANGED <<configFile, keyFiles, agentRows, signedIn, rootWraps, deviceCodes, begun, mixed>>
  BY DEF Config!SaveLogin
<1>1. /\ r \in Config!Command /\ Config!Running(p) /\ r.write = Absent /\ ~r.cut /\ r.at = 4
      /\ r.arg \in Config!Args(r.cmd) /\ r.cmd = "login"
      /\ r.cmd \in Names /\ r.at \in 1..Len(Config!Program[r.cmd])
  BY Whereabouts, Table
<1>2. PICK w \in Config!Setting : w = IF Config!Loaded = Absent THEN Config!Fresh ELSE Config!Loaded
  BY LoadedFacts, FreshFacts
<1>3. PICK x \in Config!Command : x = Config!Writes(r, w)
  BY <1>1, WritesFields
<1>4. /\ x.cmd = r.cmd /\ x.arg = r.arg /\ x.at = r.at /\ x.held = r.held
      /\ x.write = w /\ ~x.cut
  BY <1>1, <1>3, WritesFields
<1>5. PICK s : s = Config!Next1(x)
  OBVIOUS
<1>6. commands' = [commands EXCEPT ![p] = s]
  BY <1>2, <1>3, <1>5 DEF Config!SaveLogin, Config!Goes
<1>7. /\ s \in Config!Command /\ InPlace(s) /\ s.cmd = r.cmd /\ s.arg = r.arg /\ s.at = 5
      /\ s.held = r.held /\ s.write = w /\ ~s.cut
  BY <1>4, <1>5, Advances, <1>1
<1>8. HasKey(w)
  BY <1>2, LoadedFacts, FreshFacts
<1>9. ASSUME Orderly(r)
      PROVE  Agreed(w) /\ Served(w) /\ (Config!Whole(configFile) /\ configFile.pin => w.pin)
  <2>1. Agreed(Config!Loaded) /\ Served(Config!Loaded)
    BY <1>1, <1>9 DEF Orderly, Coming
  <2>2. CASE Config!Loaded = Absent
    BY <1>2, <2>1, <2>2, FreshFacts, LoadedFacts, SettingFacts DEF Agreed, Served
  <2>3. CASE Config!Loaded # Absent
    BY <1>2, <2>1, <2>3, LoadedFacts
  <2>. QED BY <2>2, <2>3
<1>10. ~Registering(s, 3) /\ ~Registering(s, 4) /\ ~Keeping(s)
  BY <1>1, <1>7 DEF Registering, Keeping
<1>11. s.cmd # "none" /\ s.cmd # "bootstrap" /\ s.cmd # "logout" /\ s.at # 7
  BY <1>1, <1>7
<1>. QED BY <1>1, <1>6, <1>7, <1>8, <1>9, <1>10, <1>11, SetsOut

LEMMA SaveOrgStep == ASSUME CliInv, NEW p \in Procs, Config!SaveOrg(p) PROVE CliInv'
<1>. PICK r : r = commands[p]
  OBVIOUS
<1>. Config!TypeOK /\ Places /\ SlotsInv /\ Config!At(p, "saveOrg")
  BY DEF CliInv, Config!SaveOrg
<1>. UNCHANGED <<configFile, keyFiles, agentRows, signedIn, rootWraps, deviceCodes, begun, mixed>>
  BY DEF Config!SaveOrg
<1>1. /\ r \in Config!Command /\ Config!Running(p) /\ r.write = Absent /\ ~r.cut /\ r.at = 3
      /\ r.arg \in Config!Args(r.cmd) /\ r.cmd = "useOrg"
      /\ r.cmd \in Names /\ r.at \in 1..Len(Config!Program[r.cmd])
  BY Whereabouts, Table
<1>2. CASE Config!Loaded = Absent
  BY <1>1, <1>2, Ended DEF Config!SaveOrg, Config!GoesIf, Config!TypeOK
<1>3. CASE Config!Loaded # Absent
  <2>0. Config!Loaded \in Config!Setting /\ r.arg \in Orgs
    BY <1>1, <1>3, LoadedFacts, ArgTable
  <2>1. PICK w \in Config!Setting : w = [Config!Loaded EXCEPT !.org = r.arg, !.profile = Absent]
    BY <2>0, SettingWith
  <2>2. /\ w.org = r.arg /\ w.profile = Absent /\ w.cli = Config!Loaded.cli
           /\ w.mcp = Config!Loaded.mcp
        /\ w.pin <=> Config!Loaded.pin
    BY <2>0, SettingWith, <2>1
  <2>3a. PICK y \in Config!Command : y = Config!Writes(r, w)
    BY <1>1, WritesFields
  <2>3b. /\ y.cmd = r.cmd /\ y.arg = r.arg /\ y.at = r.at /\ y.held = r.held /\ y.write = w
    BY <1>1, <2>3a, WritesFields
  <2>3. PICK x : x = [y EXCEPT !.cut = TRUE]
    OBVIOUS
  <2>4. /\ x \in Config!Command /\ x.cmd = r.cmd /\ x.arg = r.arg /\ x.at = r.at /\ x.held = r.held
        /\ x.write = w /\ x.cut
    BY <2>3, <2>3b DEF Config!Command
  <2>5. PICK s : s = Config!Next1(x)
    OBVIOUS
  <2>6. commands' = [commands EXCEPT ![p] = s]
    BY <1>3, <2>1, <2>3a, <2>3, <2>5 DEF Config!SaveOrg, Config!GoesIf, Config!Goes
  <2>7. /\ s \in Config!Command /\ InPlace(s) /\ s.cmd = r.cmd /\ s.arg = r.arg /\ s.at = 4
        /\ s.held = r.held /\ s.write = w /\ s.cut
    BY <2>4, <2>5, Advances, <1>1
  <2>8. HasKey(w)
    BY <1>3, <2>2, LoadedFacts DEF HasKey
  <2>9. ASSUME Orderly(r)
        PROVE  /\ Agreed(w) /\ (Config!Whole(configFile) /\ configFile.pin => w.pin)
               /\ w.org = s.arg /\ (InSession => w.pin)
    <3>1. Agreed(Config!Loaded) /\ Served(Config!Loaded)
      BY <1>1, <2>9 DEF Orderly, Coming
    <3>. QED BY <2>2, <2>7, <3>1, LoadedFacts DEF Agreed, Served
  <2>10. ~Registering(s, 3) /\ ~Registering(s, 4) /\ ~Keeping(s)
    BY <1>1, <2>7 DEF Registering, Keeping
  <2>11. s.cmd # "none" /\ s.cmd # "bootstrap" /\ s.cmd # "logout" /\ s.cmd # "login"
    BY <1>1, <2>7
  <2>. QED BY <1>1, <2>6, <2>7, <2>8, <2>9, <2>10, <2>11, SetsOut
<1>. QED BY <1>2, <1>3

LEMMA SaveProfileStep == ASSUME CliInv, NEW p \in Procs, Config!SaveProfile(p) PROVE CliInv'
<1>. PICK r : r = commands[p]
  OBVIOUS
<1>. Config!TypeOK /\ Places /\ SlotsInv /\ Config!At(p, "saveProfile")
  BY DEF CliInv, Config!SaveProfile
<1>. UNCHANGED <<configFile, keyFiles, agentRows, signedIn, rootWraps, deviceCodes, begun, mixed>>
  BY DEF Config!SaveProfile
<1>1. /\ r \in Config!Command /\ Config!Running(p) /\ r.write = Absent /\ ~r.cut /\ r.at = 4
      /\ r.arg \in Config!Args(r.cmd) /\ r.cmd = "useProfile"
      /\ r.cmd \in Names /\ r.at \in 1..Len(Config!Program[r.cmd])
  BY Whereabouts, Table
<1>2. CASE Config!Loaded = Absent
  BY <1>1, <1>2, Ended DEF Config!SaveProfile, Config!GoesIf, Config!TypeOK
<1>3. CASE Config!Loaded # Absent
  <2>0. Config!Loaded \in Config!Setting /\ r.arg \in CliProfiles
    BY <1>1, <1>3, LoadedFacts, ArgTable
  <2>1. PICK w \in Config!Setting : w = [Config!Loaded EXCEPT !.profile = r.arg]
    BY <2>0, SettingWith
  <2>2. /\ w.org = Config!Loaded.org /\ w.profile = r.arg /\ w.cli = Config!Loaded.cli
           /\ w.mcp = Config!Loaded.mcp
        /\ w.pin <=> Config!Loaded.pin
    BY <2>0, SettingWith, <2>1
  <2>3. PICK x \in Config!Command : x = Config!Writes(r, w)
    BY <1>1, WritesFields
  <2>4. /\ x.cmd = r.cmd /\ x.arg = r.arg /\ x.at = r.at /\ x.held = r.held
        /\ x.write = w /\ ~x.cut
    BY <1>1, <2>3, WritesFields
  <2>5. PICK s : s = Config!Next1(x)
    OBVIOUS
  <2>6. commands' = [commands EXCEPT ![p] = s]
    BY <1>3, <2>1, <2>3, <2>5 DEF Config!SaveProfile, Config!GoesIf, Config!Goes
  <2>7. /\ s \in Config!Command /\ InPlace(s) /\ s.cmd = r.cmd /\ s.arg = r.arg /\ s.at = 5
        /\ s.held = r.held /\ s.write = w /\ ~s.cut
    BY <2>4, <2>5, Advances, <1>1
  <2>8. HasKey(w)
    BY <1>3, <2>2, LoadedFacts DEF HasKey
  <2>9. ASSUME Orderly(r)
        PROVE  /\ Agreed(w) /\ (Config!Whole(configFile) /\ configFile.pin => w.pin)
               /\ Served(w)
    <3>1. Agreed(Config!Loaded) /\ Served(Config!Loaded)
      BY <1>1, <2>9 DEF Orderly, Coming
    <3>2. OrgOf[r.arg] = Config!Loaded.org
      BY <1>1, <2>9 DEF Orderly, Keeping
    <3>. QED BY <1>1, <1>3, <2>2, <2>9, <3>1, <3>2, LoadedFacts, SettingFacts DEF Agreed, Served
  <2>10. ~Registering(s, 3) /\ ~Registering(s, 4) /\ ~Keeping(s)
    BY <1>1, <2>7 DEF Registering, Keeping
  <2>11. s.cmd # "none" /\ s.cmd # "bootstrap" /\ s.cmd # "logout" /\ s.cmd # "login"
    BY <1>1, <2>7
  <2>. QED BY <1>1, <2>6, <2>7, <2>8, <2>9, <2>10, <2>11, SetsOut
<1>. QED BY <1>2, <1>3

LEMMA FillSlotStep == ASSUME CliInv, NEW p \in Procs, Config!FillSlot(p) PROVE CliInv'
<1>. PICK r : r = commands[p]
  OBVIOUS
<1>. Config!TypeOK /\ Places /\ SlotsInv /\ Config!At(p, "fillSlot")
  BY DEF CliInv, Config!FillSlot
<1>. UNCHANGED <<configFile, keyFiles, agentRows, signedIn, rootWraps, deviceCodes, begun, mixed>>
  BY DEF Config!FillSlot
<1>1. /\ r \in Config!Command /\ Config!Running(p) /\ r.write = Absent /\ ~r.cut /\ r.at = 4
      /\ r.arg \in Config!Args(r.cmd) /\ r.cmd \in {"agentAddCli", "agentAddMcp"}
      /\ r.cmd \in Names /\ r.at \in 1..Len(Config!Program[r.cmd])
  BY Whereabouts, Table
<1>2. CASE Config!Loaded = Absent
  BY <1>1, <1>2, Ended DEF Config!FillSlot, Config!GoesIf, Config!TypeOK
<1>3. CASE Config!Loaded # Absent
  <2>0. Config!Loaded \in Config!Setting /\ r.got \in keyFiles \cap agentRows /\ r.got \in Agents
    BY <1>1, <1>3, LoadedFacts DEF SlotsInv, Slotted, Registering, Config!TypeOK
  <2>1. PICK w \in Config!Setting : w = IF r.cmd = "agentAddCli"
                                    THEN [Config!Loaded EXCEPT !.cli = r.got]
                                    ELSE [Config!Loaded EXCEPT !.mcp = r.got]
    BY <2>0, SettingWith
  <2>2. /\ w.org = Config!Loaded.org /\ w.profile = Config!Loaded.profile
        /\ w.cli \in {Config!Loaded.cli, r.got} /\ w.mcp \in {Config!Loaded.mcp, r.got}
        /\ w.pin <=> Config!Loaded.pin
    <3>1. CASE r.cmd = "agentAddCli"
      <4>1. w = [Config!Loaded EXCEPT !.cli = r.got]
        BY <2>1, <3>1
      <4>. QED BY <2>0, <4>1 DEF Config!Setting
    <3>2. CASE r.cmd # "agentAddCli"
      <4>1. w = [Config!Loaded EXCEPT !.mcp = r.got]
        BY <2>1, <3>2
      <4>. QED BY <2>0, <4>1 DEF Config!Setting
    <3>. QED BY <3>1, <3>2
  <2>3. PICK x \in Config!Command : x = Config!Writes(r, w)
    BY <1>1, WritesFields
  <2>4. /\ x.cmd = r.cmd /\ x.arg = r.arg /\ x.at = r.at /\ x.held = r.held
        /\ x.write = w /\ ~x.cut
    BY <1>1, <2>3, WritesFields
  <2>5. PICK s : s = Config!Next1(x)
    OBVIOUS
  <2>6. commands' = [commands EXCEPT ![p] = s]
    BY <1>3, <2>1, <2>3, <2>5 DEF Config!FillSlot, Config!GoesIf, Config!Goes
  <2>7. /\ s \in Config!Command /\ InPlace(s) /\ s.cmd = r.cmd /\ s.arg = r.arg /\ s.at = 5
        /\ s.held = r.held /\ s.write = w /\ ~s.cut
    BY <2>4, <2>5, Advances, <1>1
  <2>8. HasKey(w)
    BY <1>3, <2>0, <2>2, LoadedFacts DEF HasKey
  <2>9. ASSUME Orderly(r)
        PROVE  /\ Agreed(w) /\ (Config!Whole(configFile) /\ configFile.pin => w.pin)
               /\ Served(w)
    <3>1. Agreed(Config!Loaded) /\ Served(Config!Loaded)
      BY <1>1, <2>9 DEF Orderly, Coming
    <3>. QED BY <1>3, <2>2, <3>1, LoadedFacts, SettingFacts DEF Agreed, Served
  <2>10. ~Registering(s, 3) /\ ~Registering(s, 4) /\ ~Keeping(s)
    BY <1>1, <2>7 DEF Registering, Keeping
  <2>11. s.cmd # "none" /\ s.cmd # "bootstrap" /\ s.cmd # "logout" /\ s.cmd # "login"
    BY <1>1, <2>7
  <2>. QED BY <1>1, <2>6, <2>7, <2>8, <2>9, <2>10, <2>11, SetsOut
<1>. QED BY <1>2, <1>3

LEMMA SaveHeldStep == ASSUME CliInv, NEW p \in Procs, Config!SaveHeld(p) PROVE CliInv'
<1>. PICK r : r = commands[p]
  OBVIOUS
<1>. Config!TypeOK /\ Places /\ SlotsInv /\ Config!At(p, "saveHeld")
  BY DEF CliInv, Config!SaveHeld
<1>. UNCHANGED <<keyFiles, agentRows, signedIn, rootWraps, deviceCodes, begun, mixed>>
  BY DEF Config!SaveHeld
<1>1. /\ r \in Config!Command /\ Config!Running(p) /\ r.write = Absent /\ ~r.cut /\ r.at = 4
      /\ r.arg \in Config!Args(r.cmd) /\ r.cmd = "logout"
      /\ r.cmd \in Names /\ r.at \in 1..Len(Config!Program[r.cmd])
  BY Whereabouts, Table
<1>2. ASSUME Orderly(r)
      PROVE  r.held = Config!Loaded /\ ~InSession /\ Agreed(Config!Loaded)
             /\ configFile # Config!Broken
  BY <1>1, <1>2 DEF Orderly, Keeping, Coming
<1>3. CASE r.held = Absent
  <2>1. PICK s : s = Config!Next1(r)
    OBVIOUS
  <2>2. commands' = [commands EXCEPT ![p] = s] /\ configFile' = Absent
    BY <1>3, <2>1 DEF Config!SaveHeld, Config!Goes
  <2>3. /\ s \in Config!Command /\ InPlace(s) /\ s.cmd = "logout" /\ s.at = 5
        /\ s.held = Absent /\ s.write = Absent /\ ~s.cut
    BY <1>1, <1>3, <2>1, Advances
  <2>4. Config!Loaded' = Absent /\ ~Config!Whole(configFile)' /\ configFile' # Config!Broken
    BY <2>2, CliSentinels DEF Config!Loaded, Config!Whole
  <2>5. Slotted(s)'
    BY <2>3 DEF Slotted, Registering
  <2>6. ASSUME Orderly(r) PROVE Settled(s)'
    <3>1. ~InSession'
      BY <1>2, <2>6 DEF InSession
    <3>. QED BY <2>3, <2>4, <3>1 DEF Settled, Orderly, Coming, Agreed, Served, Keeping
  <2>7. RootsInv'
    BY <2>2, <2>3, RootsKept
  <2>8. s \in Config!Command /\ InPlace(s)
    BY <2>3
  <2>. QED BY <1>1, <2>2, <2>4, <2>5, <2>6, <2>7, <2>8, Moved DEF Config!TypeOK
<1>4. CASE r.held # Absent
  <2>1. PICK w \in Config!Setting : w = r.held
    BY <1>1, <1>4 DEF Config!Command
  <2>2. PICK x \in Config!Command : x = Config!Writes(r, w)
    BY <1>1, WritesFields
  <2>3. /\ x.cmd = r.cmd /\ x.arg = r.arg /\ x.at = r.at /\ x.held = r.held
        /\ x.write = w /\ ~x.cut
    BY <1>1, <2>2, WritesFields
  <2>4. PICK s : s = Config!Next1(x)
    OBVIOUS
  <2>5. commands' = [commands EXCEPT ![p] = s] /\ configFile' = configFile
    BY <1>4, <2>1, <2>2, <2>4 DEF Config!SaveHeld, Config!Goes
  <2>6. /\ s \in Config!Command /\ InPlace(s) /\ s.cmd = "logout" /\ s.at = 5
        /\ s.held = r.held /\ s.write = w /\ ~s.cut
    BY <1>1, <2>3, <2>4, Advances
  <2>7. HasKey(w)
    BY <1>4, <2>1 DEF SlotsInv, Slotted
  <2>8. ~Registering(s, 3) /\ ~Registering(s, 4) /\ ~Keeping(s)
    BY <2>6 DEF Registering, Keeping
  <2>9. ASSUME Orderly(r)
        PROVE  Agreed(w) /\ Served(w) /\ ~InSession /\ (Config!Whole(configFile) /\ configFile.pin
                 => w.pin)
    BY <1>2, <2>1, <2>9, LoadedFacts DEF Served
  <2>10. s.cmd # "none" /\ s.cmd # "bootstrap" /\ s.cmd # "login"
    BY <2>6
  <2>. QED BY <1>1, <2>5, <2>6, <2>7, <2>8, <2>9, <2>10, SetsOut
<1>. QED BY <1>3, <1>4

LEMMA ContactStep == ASSUME CliInv, NEW p \in Procs, Config!Contact(p) PROVE CliInv'
<1>. PICK r : r = commands[p]
  OBVIOUS
<1>. Config!TypeOK /\ Places /\ SlotsInv /\ Config!At(p, "contact")
  BY DEF CliInv, Config!Contact
<1>. UNCHANGED <<configFile, keyFiles, agentRows, signedIn, rootWraps, deviceCodes, begun, mixed>>
  BY DEF Config!Contact
<1>1. /\ r \in Config!Command /\ Config!Running(p) /\ r.write = Absent
      /\ \/ r.cmd \in {"useOrg", "agentAddCli", "agentAddMcp"} /\ r.at = 1
         \/ r.cmd \in {"logout", "useProfile", "bootstrap"} /\ r.at = 2
         \/ r.cmd = "login" /\ r.at = 6
         \/ r.cmd = "useOrg" /\ r.at = 4
      /\ r.cut <=> r.cmd = "useOrg" /\ r.at = 4
      /\ r.arg \in Config!Args(r.cmd) /\ r.cmd \in Names /\ r.at \in 1..Len(Config!Program[r.cmd])
  <2>1. PICK c \in Names, k \in 1..Len(Config!Program[r.cmd]) : c = r.cmd /\ k = r.at
    BY Whereabouts
  <2>2. \/ c \in {"useOrg", "agentAddCli", "agentAddMcp"} /\ k = 1
        \/ c \in {"logout", "useProfile", "bootstrap"} /\ k = 2
        \/ c = "login" /\ k = 6
        \/ c = "useOrg" /\ k = 4
    BY <2>1, Whereabouts, Table
  <2>. QED BY <2>1, <2>2, Whereabouts
<1>2. PICK o : o = IF Config!Loaded = Absent THEN Absent ELSE Config!Loaded.org
  OBVIOUS
<1>3. PICK made : made = [r EXCEPT !.org = o]
  OBVIOUS
<1>4. o \in Orgs \cup {Absent}
  BY <1>2, LoadedFacts DEF Config!Setting
<1>5. /\ made \in Config!Command /\ made.cmd = r.cmd /\ made.arg = r.arg /\ made.at = r.at
      /\ made.held = r.held /\ made.write = Absent /\ made.cut = r.cut /\ made.got = r.got
  BY <1>1, <1>3, <1>4 DEF Config!Command
<1>6. \/ Config!Ends(p) /\ ~r.cut
      \/ Config!Goes(p, r) /\ (signedIn = Config!Down \/ ~InSession) /\ r.cmd # "login"
      \/ Config!Goes(p, made) /\ (r.cmd = "login" => (Config!Loaded = Absent \/ Config!Loaded.pin))
      \/ /\ Config!Goes(p, Config!Writes(made, [Config!Loaded EXCEPT !.pin = TRUE]))
         /\ Config!Loaded # Absent /\ ~Config!Loaded.pin /\ (InSession \/ r.cmd = "login")
  BY <1>1, <1>2, <1>3 DEF Config!Contact, Config!GoesIf, InSession
<1>7. CASE Config!Ends(p) /\ ~r.cut
  BY <1>1, <1>7, Ended DEF Config!TypeOK
<1>8. ASSUME NEW x \in Config!Command, Config!Goes(p, x), x.cmd = r.cmd, x.arg = r.arg, x.at = r.at,
             x.held = r.held, x.write = Absent, x.cut = r.cut,
             r.cmd = "login" => (Config!Loaded = Absent \/ Config!Loaded.pin)
      PROVE  CliInv'
  <2>1. PICK s : s = Config!Next1(x)
    OBVIOUS
  <2>2. commands' = [commands EXCEPT ![p] = s]
    BY <1>8, <2>1 DEF Config!Goes
  <2>3. /\ s \in Config!Command /\ InPlace(s) /\ s.cmd = r.cmd /\ s.arg = r.arg /\ s.at = r.at + 1
        /\ s.held = r.held /\ s.write = Absent /\ s.cut = r.cut
    <3>1. x.cut <=> x.cmd = "useOrg" /\ x.at \in {3, 4}
      BY <1>1, <1>8
    <3>. QED BY <1>1, <1>8, <2>1, <3>1, Advances
  <2>4. Slotted(s)
    BY <1>1, <2>3 DEF Slotted, Registering, SlotsInv
  <2>5. ASSUME Orderly(r) PROVE Settled(s)'
    <3>1. s.cmd # "none"
      BY <1>1, <2>3
    <3>2. Coming(r) = Config!Loaded /\ Coming(s) = Config!Loaded /\ Coming(s)' = Config!Loaded
      BY <1>1, <2>3, SameFile DEF Coming
    <3>3. Orderly(s)'
      BY <1>1, <1>8, <2>3, <2>5, <3>2, SameFile
      DEF Orderly, Agreed, Served, Keeping, InSession
    <3>. QED BY <3>1, <3>3 DEF Settled
  <2>6. s \in Config!Command /\ InPlace(s) /\ (s.cmd = "bootstrap" => s.at # 5)
    BY <1>1, <2>3
  <2>7. /\ signedIn' \in
             {Config!Down, Config!SignedOut} \cup {Config!Session(a) : a \in Orgs \cup {Absent}}
        /\ deviceCodes' \in [Procs -> {"none", "pending", "approved", "denied", "expired"}]
    BY DEF Config!TypeOK
  <2>. QED BY <1>1, <2>2, <2>4, <2>5, <2>6, <2>7, Walked
<1>9. CASE /\ Config!Goes(p, Config!Writes(made, [Config!Loaded EXCEPT !.pin = TRUE]))
           /\ Config!Loaded # Absent /\ ~Config!Loaded.pin /\ (InSession \/ r.cmd = "login")
  <2>1. PICK w \in Config!Setting : w = [Config!Loaded EXCEPT !.pin = TRUE]
    BY <1>9, LoadedFacts, SettingWith
  <2>2. /\ w.org = Config!Loaded.org /\ w.profile = Config!Loaded.profile
           /\ w.cli = Config!Loaded.cli
        /\ w.mcp = Config!Loaded.mcp /\ w.pin
    BY <1>9, <2>1, LoadedFacts, SettingWith
  <2>3. PICK x \in Config!Command : x = Config!Writes(made, w)
    BY <1>5, WritesFields
  <2>4. /\ x.cmd = r.cmd /\ x.arg = r.arg /\ x.at = r.at /\ x.held = r.held
        /\ x.write = w /\ x.cut = r.cut
    BY <1>5, <2>3, WritesFields
  <2>5. PICK s : s = Config!Next1(x)
    OBVIOUS
  <2>6. commands' = [commands EXCEPT ![p] = s]
    BY <1>9, <2>1, <2>3, <2>5 DEF Config!Goes
  <2>7. /\ s \in Config!Command /\ InPlace(s) /\ s.cmd = r.cmd /\ s.arg = r.arg /\ s.at = r.at + 1
        /\ s.held = r.held /\ s.write = w /\ s.cut = r.cut
    <3>1. x.cut <=> x.cmd = "useOrg" /\ x.at \in {3, 4}
      BY <1>1, <2>4
    <3>. QED BY <1>1, <2>4, <2>5, <3>1, Advances
  <2>8. HasKey(w)
    BY <1>9, <2>2, LoadedFacts DEF HasKey
  <2>9. ~Registering(s, 3) /\ ~Registering(s, 4)
    BY <1>1, <2>7 DEF Registering
  <2>10. ASSUME Orderly(r)
         PROVE  /\ ~Keeping(s) /\ Agreed(w) /\ Served(w)
                /\ s.cut => w.org = s.arg
                /\ s.cmd = "logout" /\ s.at \in {4, 5} => ~InSession
    <3>1. Agreed(Config!Loaded) /\ ~InSession /\ (r.cut => Config!Loaded.org = r.arg)
      BY <1>1, <1>9, <2>10 DEF Orderly, Coming, Served
    <3>. QED BY <1>1, <1>9, <2>2, <2>7, <3>1, SettingFacts DEF Keeping, Agreed, Served
  <2>11. s.cmd # "none" /\ (s.cmd = "bootstrap" => s.at # 5)
    BY <1>1, <2>7
  <2>. QED BY <1>1, <2>2, <2>6, <2>7, <2>8, <2>9, <2>10, <2>11, SetsOut
<1>. QED BY <1>1, <1>5, <1>6, <1>7, <1>8, <1>9

LEMMA CreateStep == ASSUME CliInv, NEW p \in Procs, Config!Create(p) PROVE CliInv'
<1>. PICK r : r = commands[p]
  OBVIOUS
<1>. Config!TypeOK /\ Places /\ SlotsInv /\ Config!At(p, "create")
  BY DEF CliInv, Config!Create
<1>. UNCHANGED <<configFile, keyFiles, signedIn, rootWraps, deviceCodes, begun, mixed>>
  BY DEF Config!Create
<1>1. /\ r \in Config!Command /\ Config!Running(p) /\ r.write = Absent /\ ~r.cut /\ r.at = 2
      /\ r.arg \in Config!Args(r.cmd) /\ r.cmd \in {"agentAddCli", "agentAddMcp"}
      /\ r.cmd \in Names /\ r.at \in 1..Len(Config!Program[r.cmd])
  BY Whereabouts, Table
<1>2. PICK a : a = CHOOSE x \in Agents : x \notin agentRows
  OBVIOUS
<1>3. a \in Agents
  BY <1>2 DEF Config!Create, Config!TypeOK
<1>4. PICK x : x = [r EXCEPT !.got = a]
  OBVIOUS
<1>5. /\ x \in Config!Command /\ x.cmd = r.cmd /\ x.arg = r.arg /\ x.at = r.at /\ x.held = r.held
      /\ x.write = Absent /\ ~x.cut /\ x.got = a
  BY <1>1, <1>3, <1>4 DEF Config!Command
<1>6. PICK s : s = Config!Next1(x)
  OBVIOUS
<1>7. commands' = [commands EXCEPT ![p] = s] /\ agentRows' = agentRows \cup {a}
  BY <1>2, <1>4, <1>6 DEF Config!Create, Config!Goes
<1>8. /\ s \in Config!Command /\ InPlace(s) /\ s.cmd = r.cmd /\ s.arg = r.arg /\ s.at = 3
      /\ s.held = r.held /\ s.write = Absent /\ ~s.cut /\ s.got = a
  BY <1>1, <1>5, <1>6, Advances
<1>9. Slotted(s)'
  BY <1>1, <1>7, <1>8 DEF Slotted, Registering, SlotsInv, HasKey
<1>10. (Config!Whole(configFile) => HasKey(configFile))'
  BY <1>7 DEF SlotsInv, HasKey, Config!Whole
<1>11. ASSUME Orderly(r) PROVE Settled(s)'
  BY <1>1, <1>8, <1>11, SameFile
  DEF Settled, Orderly, Coming, Keeping, Agreed, Served, InSession
<1>12. RootsInv'
  BY <1>1, <1>7, <1>8, RootsKept
<1>13. agentRows' \subseteq Agents /\ s \in Config!Command /\ InPlace(s)
  BY <1>3, <1>7, <1>8 DEF Config!TypeOK
<1>. QED BY <1>1, <1>7, <1>9, <1>10, <1>11, <1>12, <1>13, Moved DEF Config!TypeOK

LEMMA SaveKeyStep == ASSUME CliInv, NEW p \in Procs, Config!SaveKey(p) PROVE CliInv'
<1>. PICK r : r = commands[p]
  OBVIOUS
<1>. Config!TypeOK /\ Places /\ SlotsInv /\ Config!At(p, "saveKey")
  BY DEF CliInv, Config!SaveKey
<1>. UNCHANGED <<configFile, agentRows, signedIn, rootWraps, deviceCodes, begun, mixed>>
  BY DEF Config!SaveKey
<1>1. /\ r \in Config!Command /\ Config!Running(p) /\ r.write = Absent /\ ~r.cut /\ r.at = 3
      /\ r.arg \in Config!Args(r.cmd) /\ r.cmd \in {"agentAddCli", "agentAddMcp"}
      /\ r.cmd \in Names /\ r.at \in 1..Len(Config!Program[r.cmd])
  BY Whereabouts, Table
<1>2. r.got \in agentRows /\ r.got \in Agents
  BY <1>1 DEF SlotsInv, Slotted, Registering, Config!TypeOK
<1>3. PICK s : s = Config!Next1(r)
  OBVIOUS
<1>4. commands' = [commands EXCEPT ![p] = s] /\ keyFiles' = keyFiles \cup {r.got}
  BY <1>3 DEF Config!SaveKey, Config!Goes
<1>5. /\ s \in Config!Command /\ InPlace(s) /\ s.cmd = r.cmd /\ s.arg = r.arg /\ s.at = 4
      /\ s.held = r.held /\ s.write = Absent /\ ~s.cut /\ s.got = r.got
  BY <1>1, <1>3, Advances
<1>6. Slotted(s)'
  BY <1>1, <1>2, <1>4, <1>5 DEF Slotted, Registering, SlotsInv, HasKey
<1>7. (Config!Whole(configFile) => HasKey(configFile))'
  BY <1>4 DEF SlotsInv, HasKey, Config!Whole
<1>8. ASSUME Orderly(r) PROVE Settled(s)'
  BY <1>1, <1>5, <1>8, SameFile
  DEF Settled, Orderly, Coming, Keeping, Agreed, Served, InSession
<1>9. RootsInv'
  BY <1>1, <1>4, <1>5, RootsKept
<1>10. keyFiles' \subseteq Agents /\ s \in Config!Command /\ InPlace(s)
  BY <1>2, <1>4, <1>5 DEF Config!TypeOK
<1>. QED BY <1>1, <1>4, <1>6, <1>7, <1>8, <1>9, <1>10, Moved DEF Config!TypeOK

LEMMA BootstrapStep == ASSUME CliInv, NEW p \in Procs, Config!Bootstrap(p) PROVE CliInv'
<1>. PICK r : r = commands[p]
  OBVIOUS
<1>. Config!TypeOK /\ Places /\ SlotsInv /\ RootsInv /\ Config!At(p, "bootstrap")
  BY DEF CliInv, Config!Bootstrap
<1>. UNCHANGED <<configFile, keyFiles, agentRows, signedIn, deviceCodes, begun, mixed>>
  BY DEF Config!Bootstrap
<1>1. /\ r \in Config!Command /\ Config!Running(p) /\ r.write = Absent /\ ~r.cut /\ r.at = 4
         /\ begun > 0
      /\ r.arg \in Config!Args(r.cmd) /\ r.cmd = "bootstrap"
      /\ r.cmd \in Names /\ r.at \in 1..Len(Config!Program[r.cmd])
  BY Whereabouts, Table
<1>2. r.arg \in CliProfiles
  BY <1>1, ArgTable
<1>3. CASE rootWraps[r.arg].root # 0
  <2>1. Config!Ends(p) /\ UNCHANGED rootWraps
    BY <1>3 DEF Config!Bootstrap, Config!GoesIf
  <2>. QED BY <1>1, <2>1, Ended DEF Config!TypeOK
<1>4. CASE rootWraps[r.arg].root = 0
  <2>1. PICK x : x = [r EXCEPT !.got = begun]
    OBVIOUS
  <2>2. /\ x \in Config!Command /\ x.cmd = r.cmd /\ x.arg = r.arg /\ x.at = r.at /\ x.held = r.held
        /\ x.write = Absent /\ ~x.cut /\ x.got = begun
    BY <1>1, <2>1 DEF Config!Command, Config!TypeOK
  <2>3. PICK s : s = Config!Next1(x)
    OBVIOUS
  <2>4. commands' = [commands EXCEPT ![p] = s]
           /\ rootWraps' = [rootWraps EXCEPT ![r.arg].root = begun]
    BY <1>4, <2>1, <2>3 DEF Config!Bootstrap, Config!GoesIf, Config!Goes
  <2>5. /\ s \in Config!Command /\ InPlace(s) /\ s.cmd = r.cmd /\ s.arg = r.arg /\ s.at = 5
        /\ s.held = r.held /\ s.write = Absent /\ ~s.cut /\ s.got = begun
    BY <1>1, <2>2, <2>3, Advances
  <2>6. Slotted(s)'
    BY <1>1, <2>5 DEF Slotted, Registering, SlotsInv, HasKey
  <2>7. (Config!Whole(configFile) => HasKey(configFile))'
    BY DEF SlotsInv, HasKey, Config!Whole
  <2>8. ASSUME Orderly(r) PROVE Settled(s)'
    BY <1>1, <2>5, <2>8, SameFile
    DEF Settled, Orderly, Coming, Keeping, Agreed, Served, InSession
  <2>9. /\ rootWraps' \in [CliProfiles -> [root : 0..MaxCommands, recovery : 0..MaxCommands]]
        /\ rootWraps'[r.arg].root = begun /\ rootWraps'[r.arg].recovery = rootWraps[r.arg].recovery
        /\ \A a \in CliProfiles \ {r.arg} : rootWraps'[a] = rootWraps[a]
    BY <1>2, <2>4 DEF Config!TypeOK
  <2>10. rootWraps[r.arg].recovery = 0
    BY <1>2, <1>4 DEF RootsInv, Config!RecoveryOpensRoot
  <2>11. RootsInv'
    <3>1. Config!RecoveryOpensRoot'
      BY <2>9, <2>10 DEF RootsInv, Config!RecoveryOpensRoot
    <3>2. ASSUME NEW q \in Procs, commands'[q].cmd = "bootstrap", commands'[q].at = 5
          PROVE  commands'[q].got # 0 /\ commands'[q].got = rootWraps'[commands'[q].arg].root
      <4>1. CASE q = p
        BY <1>1, <2>4, <2>5, <2>9, <4>1 DEF Config!TypeOK
      <4>2. CASE q # p
        <5>1. commands'[q] = commands[q]
          BY <2>4, <4>2 DEF Config!TypeOK
        <5>2. commands[q] \in Config!Command /\ commands[q] # Config!Idle /\ InPlace(commands[q])
          BY <3>2, <5>1 DEF Config!TypeOK, Places, Config!Idle
        <5>3. commands[q].arg \in CliProfiles
          BY <3>2, <5>1, <5>2, ArgTable DEF InPlace
        <5>4. commands[q].got # 0 /\ commands[q].got = rootWraps[commands[q].arg].root
          BY <3>2, <5>1 DEF RootsInv
        <5>5. commands[q].arg # r.arg
          BY <1>4, <5>4
        <5>. QED BY <2>9, <5>1, <5>3, <5>4, <5>5
      <4>. QED BY <4>1, <4>2
    <3>. QED BY <3>1, <3>2 DEF RootsInv
  <2>12. s \in Config!Command /\ InPlace(s)
    BY <2>5
  <2>. QED BY <1>1, <2>4, <2>6, <2>7, <2>8, <2>9, <2>11, <2>12, Moved DEF Config!TypeOK
<1>. QED BY <1>3, <1>4

LEMMA SetRecoveryStep == ASSUME CliInv, NEW p \in Procs, Config!SetRecovery(p) PROVE CliInv'
<1>. PICK r : r = commands[p]
  OBVIOUS
<1>. Config!TypeOK /\ Places /\ SlotsInv /\ RootsInv /\ Config!At(p, "setRecovery")
  BY DEF CliInv, Config!SetRecovery
<1>. UNCHANGED <<configFile, keyFiles, agentRows, signedIn, deviceCodes, begun, mixed>>
  BY DEF Config!SetRecovery
<1>1. /\ r \in Config!Command /\ Config!Running(p) /\ r.write = Absent /\ ~r.cut /\ r.at = 5
      /\ r.arg \in Config!Args(r.cmd) /\ r.cmd = "bootstrap"
      /\ r.cmd \in Names /\ r.at \in 1..Len(Config!Program[r.cmd])
  BY Whereabouts, Table
<1>2. r.arg \in CliProfiles
  BY <1>1, ArgTable
<1>3. r.got # 0 /\ r.got = rootWraps[r.arg].root
  BY <1>1 DEF RootsInv
<1>4. PICK s : s = Config!Next1(r)
  OBVIOUS
<1>5. /\ commands' = [commands EXCEPT ![p] = s]
      /\ rootWraps' = [rootWraps EXCEPT ![r.arg].recovery = r.got]
  BY <1>4 DEF Config!SetRecovery, Config!Goes
<1>6. /\ s \in Config!Command /\ InPlace(s) /\ s.cmd = r.cmd /\ s.arg = r.arg /\ s.at = 6
      /\ s.held = r.held /\ s.write = Absent /\ ~s.cut /\ s.got = r.got
  BY <1>1, <1>4, Advances
<1>7. Slotted(s)'
  BY <1>1, <1>6 DEF Slotted, Registering, SlotsInv, HasKey
<1>8. (Config!Whole(configFile) => HasKey(configFile))'
  BY DEF SlotsInv, HasKey, Config!Whole
<1>9. ASSUME Orderly(r) PROVE Settled(s)'
  BY <1>1, <1>6, <1>9, SameFile
  DEF Settled, Orderly, Coming, Keeping, Agreed, Served, InSession
<1>10. /\ rootWraps' \in [CliProfiles -> [root : 0..MaxCommands, recovery : 0..MaxCommands]]
       /\ rootWraps'[r.arg].recovery = r.got
       /\ \A a \in CliProfiles : rootWraps'[a].root = rootWraps[a].root
       /\ \A a \in CliProfiles \ {r.arg} : rootWraps'[a] = rootWraps[a]
  <2>1. r.got \in 0..MaxCommands
    BY <1>2, <1>3 DEF Config!TypeOK
  <2>. QED BY <1>2, <1>5, <2>1 DEF Config!TypeOK
<1>11. RootsInv'
  <2>1. Config!RecoveryOpensRoot'
    BY <1>2, <1>3, <1>10 DEF RootsInv, Config!RecoveryOpensRoot
  <2>2. ASSUME NEW q \in Procs, commands'[q].cmd = "bootstrap", commands'[q].at = 5
        PROVE  commands'[q].got # 0 /\ commands'[q].got = rootWraps'[commands'[q].arg].root
    <3>1. q # p /\ commands'[q] = commands[q]
      BY <1>5, <1>6, <2>2 DEF Config!TypeOK
    <3>2. commands[q] \in Config!Command /\ commands[q] # Config!Idle /\ InPlace(commands[q])
      BY <2>2, <3>1 DEF Config!TypeOK, Places, Config!Idle
    <3>3. commands[q].arg \in CliProfiles
      BY <2>2, <3>1, <3>2, ArgTable DEF InPlace
    <3>. QED BY <1>10, <2>2, <3>1, <3>3 DEF RootsInv
  <2>. QED BY <2>1, <2>2 DEF RootsInv
<1>12. s \in Config!Command /\ InPlace(s)
  BY <1>6
<1>. QED BY <1>1, <1>5, <1>7, <1>8, <1>9, <1>10, <1>11, <1>12, Moved DEF Config!TypeOK

\* What a command that writes is like.
LEMMA Writer ==
  ASSUME Config!TypeOK, Places, SlotsInv, NEW p \in Procs, NEW r, r = commands[p], r.write # Absent
  PROVE  /\ r \in Config!Command /\ Config!Running(p) /\ r.cmd # "none" /\ r # Config!Idle
            /\ InPlace(r)
         /\ r.write \in Config!Writing
         /\ Pending(r) \in Config!Setting /\ HasKey(Pending(r))
<1>1. r \in Config!Command /\ InPlace(r) /\ r # Config!Idle
  BY DEF Config!TypeOK, Places, Config!Idle
<1>2. r.cmd \in Names
  BY <1>1 DEF InPlace
<1>3. Config!Running(p) /\ r.cmd # "none"
  BY <1>2 DEF Config!Running, Names
<1>4. r.write \in Config!Writing
  BY <1>1 DEF Config!Command
<1>5. HasKey(Pending(r))
  BY DEF SlotsInv, Slotted
<1>6. Pending(r) \in Config!Setting
  BY <1>4, SettingFacts DEF Pending
<1>. QED BY <1>1, <1>3, <1>4, <1>5, <1>6

LEMMA TruncateStep == ASSUME CliInv, NEW p \in Procs, Config!Truncate(p) PROVE CliInv'
<1>. PICK r : r = commands[p]
  OBVIOUS
<1>. Config!TypeOK /\ Places /\ SlotsInv
  BY DEF CliInv
<1>. UNCHANGED <<keyFiles, agentRows, signedIn, rootWraps, deviceCodes, begun, mixed>>
        /\ configFile' = Config!Broken
  BY DEF Config!Truncate
<1>0. r.write # Absent /\ r.write.state = "whole"
  BY DEF Config!Truncate
<1>1. /\ r \in Config!Command /\ Config!Running(p) /\ r.cmd # "none" /\ r # Config!Idle
         /\ InPlace(r)
      /\ r.write \in Config!Writing /\ Pending(r) \in Config!Setting /\ HasKey(Pending(r))
  BY <1>0, Writer
<1>2. PICK w : w = [state |-> "emptied", to |-> r.write]
  OBVIOUS
<1>3. w \in Config!Writing /\ w # Absent /\ w.state = "emptied" /\ w.to = Pending(r)
  BY <1>0, <1>1, <1>2, SettingFacts, CliSentinels DEF Config!Writing, Pending
<1>4. PICK s : s = [r EXCEPT !.write = w]
  OBVIOUS
<1>5. /\ s \in Config!Command /\ s.cmd = r.cmd /\ s.arg = r.arg /\ s.at = r.at /\ s.held = r.held
      /\ s.write = w /\ s.cut = r.cut /\ s.got = r.got
  BY <1>1, <1>3, <1>4 DEF Config!Command
<1>6. commands' = [commands EXCEPT ![p] = s]
  BY <1>2, <1>4 DEF Config!Truncate
<1>7. InPlace(s)
  BY <1>1, <1>5 DEF InPlace
<1>8. Pending(s) = Pending(r)
  BY <1>3, <1>5 DEF Pending
<1>9. Slotted(s)'
  BY <1>1, <1>3, <1>5, <1>8 DEF SlotsInv, Slotted, Registering, HasKey, Pending
<1>10. ~Config!Whole(configFile)' /\ Config!Loaded' = Absent
  BY SettingFacts DEF Config!Whole, Config!Loaded
<1>11. ASSUME Orderly(r) PROVE Settled(s)'
  <2>1. Coming(r) = Pending(r) /\ Coming(s)' = Pending(r)
    BY <1>0, <1>3, <1>5 DEF Coming, Pending
  <2>2. ~Keeping(r) /\ ~Keeping(s)
    BY <1>0, <1>5, <1>11 DEF Orderly, Keeping
  <2>3. Orderly(s)'
    BY <1>3, <1>5, <1>10, <1>11, <2>1, <2>2
    DEF Orderly, Agreed, Served, InSession, Keeping
  <2>. QED BY <1>1, <1>5, <2>3 DEF Settled
<1>12. RootsInv'
  <2>1. Config!RecoveryOpensRoot'
    BY DEF CliInv, RootsInv, Config!RecoveryOpensRoot
  <2>2. commands'[p] = s /\ \A q \in Procs \ {p} : commands'[q] = commands[q]
    BY <1>6 DEF Config!TypeOK
  <2>. QED BY <1>5, <2>1, <2>2 DEF CliInv, RootsInv
<1>. QED BY <1>1, <1>5, <1>6, <1>7, <1>9, <1>10, <1>11, <1>12, Moved DEF Config!TypeOK

LEMMA FillStep == ASSUME CliInv, NEW p \in Procs, Config!Fill(p) PROVE CliInv'
<1>. PICK r : r = commands[p]
  OBVIOUS
<1>. Config!TypeOK /\ Places /\ SlotsInv
  BY DEF CliInv
<1>. UNCHANGED <<keyFiles, agentRows, signedIn, rootWraps, deviceCodes, begun, mixed>>
  BY DEF Config!Fill
<1>0. r.write # Absent /\ r.write.state = "emptied"
  BY DEF Config!Fill
<1>1. /\ r \in Config!Command /\ Config!Running(p) /\ r.cmd # "none" /\ r # Config!Idle
         /\ InPlace(r)
      /\ r.write \in Config!Writing /\ Pending(r) \in Config!Setting /\ HasKey(Pending(r))
  BY <1>0, Writer
<1>2. PICK w \in Config!Setting : w = Pending(r)
  BY <1>1
<1>3. configFile' = w \/ (configFile' = Config!Broken /\ Config!Whole(configFile))
  BY <1>0, <1>2 DEF Config!Fill, Pending
<1>4. PICK s : s = [r EXCEPT !.write = Absent]
  OBVIOUS
<1>5. /\ s \in Config!Command /\ s.cmd = r.cmd /\ s.arg = r.arg /\ s.at = r.at /\ s.held = r.held
      /\ s.write = Absent /\ s.cut = r.cut /\ s.got = r.got
  BY <1>1, <1>4 DEF Config!Command
<1>6. commands' = [commands EXCEPT ![p] = s]
  BY <1>4 DEF Config!Fill
<1>7. InPlace(s)
  BY <1>1, <1>5 DEF InPlace
<1>8. Slotted(s)'
  BY <1>5 DEF SlotsInv, Slotted, Registering, HasKey
<1>9. (Config!Whole(configFile) => HasKey(configFile))'
  BY <1>1, <1>2, <1>3, SettingFacts DEF Config!Whole, HasKey
<1>10. ASSUME Orderly(r) PROVE Settled(s)'
  <2>1. configFile = Config!Broken
    BY <1>0, <1>10 DEF Orderly
  <2>2. configFile' = w /\ Config!Loaded' = w /\ configFile' # Config!Broken /\ w # Absent
    BY <1>3, <2>1, SettingFacts DEF Config!Whole, Config!Loaded
  <2>3. Coming(r) = w /\ Coming(s)' = w
    BY <1>0, <1>2, <1>5, <2>2 DEF Coming, Pending
  <2>4. ~Keeping(r) /\ ~Keeping(s)
    BY <1>0, <1>5, <1>10 DEF Orderly, Keeping
  <2>5. Orderly(s)'
    BY <1>5, <1>10, <2>2, <2>3, <2>4
    DEF Orderly, Agreed, Served, InSession, Keeping
  <2>. QED BY <1>1, <1>5, <2>5 DEF Settled
<1>11. RootsInv'
  <2>1. Config!RecoveryOpensRoot'
    BY DEF CliInv, RootsInv, Config!RecoveryOpensRoot
  <2>2. commands'[p] = s /\ \A q \in Procs \ {p} : commands'[q] = commands[q]
    BY <1>6 DEF Config!TypeOK
  <2>. QED BY <1>5, <2>1, <2>2 DEF CliInv, RootsInv
<1>. QED BY <1>1, <1>3, <1>5, <1>6, <1>7, <1>8, <1>9, <1>10, <1>11, Moved DEF Config!TypeOK

LEMMA DiesStep == ASSUME CliInv, NEW p \in Procs, Config!Dies(p) PROVE CliInv'
<1>. PICK r : r = commands[p]
  OBVIOUS
<1>. PICK s \in Config!Command : s = Config!Idle
  BY IdleFields
<1>. Config!TypeOK /\ Places /\ SlotsInv /\ Config!Running(p)
  BY DEF CliInv, Config!Dies
<1>. UNCHANGED <<configFile, keyFiles, agentRows, signedIn, rootWraps, begun>>
  BY DEF Config!Dies
<1>1. r \in Config!Command
  BY DEF Config!TypeOK
<1>2. mixed' = (mixed \/ r.write # Absent \/ r.cut) /\ commands' = [commands EXCEPT ![p] = s]
      /\ deviceCodes' \in [Procs -> {"none", "pending", "approved", "denied", "expired"}]
  BY DEF Config!Dies, Config!Ends, Config!TypeOK
<1>3. mixed' \in BOOLEAN /\ (mixed => mixed')
  BY <1>1, <1>2 DEF Config!TypeOK, Config!Command
<1>4. ASSUME ~mixed', Orderly(r) PROVE Settled(s)'
  <2>1. r.write = Absent /\ ~r.cut
    BY <1>2, <1>4
  <2>2. configFile # Config!Broken /\ Agreed(Config!Loaded) /\ Served(Config!Loaded)
    BY <1>4, <2>1 DEF Orderly, Coming
  <2>3. Rested'
    BY <2>2 DEF Rested, Agreed, Served, Config!Loaded, Config!Whole, InSession
  <2>. QED BY <2>3, IdleFields DEF Settled
<1>5. RootsInv'
  BY <1>2, IdleFields, RootsKept
<1>6. Slotted(s)'
  BY IdleFields DEF Slotted, Registering
<1>7. (Config!Whole(configFile) => HasKey(configFile))'
  BY DEF SlotsInv, HasKey, Config!Whole
<1>. QED BY <1>2, <1>3, <1>4, <1>5, <1>6, <1>7, IdleFields, Moved DEF Config!TypeOK

\* Only a device code changes.
LEMMA CodeStep ==
  ASSUME CliInv, UNCHANGED <<configFile, keyFiles, agentRows, signedIn, rootWraps, commands, begun,
         mixed>>,
         deviceCodes' \in [Procs -> {"none", "pending", "approved", "denied", "expired"}]
  PROVE  CliInv'
<1>1. Config!TypeOK' /\ Places'
  BY DEF CliInv, Config!TypeOK, Places, Config!Running
<1>2. SlotsInv' /\ RootsInv'
  BY DEF CliInv, SlotsInv, RootsInv, Config!Whole, HasKey, Slotted, Pending, Registering,
         Config!RecoveryOpensRoot
<1>3. OrderInv'
  BY SameFile DEF CliInv, OrderInv, Config!AtRest, Config!Running, Agreed, Served, Orderly, Coming,
     Keeping,
         Pending, InSession, Config!Whole
<1>. QED BY <1>1, <1>2, <1>3 DEF CliInv

LEMMA DaemonStopsStep == ASSUME CliInv, Config!DaemonStops PROVE CliInv'
<1>. UNCHANGED <<configFile, keyFiles, agentRows, rootWraps, deviceCodes, commands, begun, mixed>>
        /\ signedIn' = Config!Down
  BY DEF Config!DaemonStops
<1>1. Config!TypeOK' /\ Places'
  BY DEF CliInv, Config!TypeOK, Places, Config!Running
<1>2. SlotsInv' /\ RootsInv'
  BY DEF CliInv, SlotsInv, RootsInv, Config!Whole, HasKey, Slotted, Pending, Registering,
         Config!RecoveryOpensRoot
<1>3. ~InSession'
  BY DEF InSession
<1>4. OrderInv'
  <2>1. \A f : Served(f)'
    BY <1>3 DEF Served
  <2>. QED BY <1>3, <2>1, SameFile DEF CliInv, OrderInv, Config!AtRest, Config!Running, Agreed,
          Orderly, Coming,
           Keeping, Pending, Config!Whole
<1>. QED BY <1>1, <1>2, <1>4 DEF CliInv

LEMMA BeginStep ==
  ASSUME CliInv, NEW p \in Procs, NEW c \in DOMAIN Config!Program, NEW a \in Config!Args(c),
         Config!Begin(p, c, a)
  PROVE  CliInv'
<1>. Config!TypeOK /\ Places /\ SlotsInv /\ RootsInv /\ OrderInv
  BY DEF CliInv
<1>. UNCHANGED <<configFile, keyFiles, agentRows, signedIn, rootWraps, deviceCodes>>
  BY DEF Config!Begin
<1>1. ~Config!Running(p) /\ begun < MaxCommands /\ begun' = begun + 1
      /\ mixed' = (mixed \/ \E q \in Procs : Config!Running(q))
  BY DEF Config!Begin
<1>2. c \in Names
  BY DEF Config!Program, Names
<1>3. a \in Orgs \cup CliProfiles \cup {Absent}
  BY <1>2, ArgTable DEF Names
<1>4. PICK s : s = [Config!Idle EXCEPT !.cmd = c, !.arg = a, !.at = 1]
  OBVIOUS
<1>5. /\ s \in Config!Command /\ s.cmd = c /\ s.arg = a /\ s.at = 1 /\ s.held = Absent
      /\ s.write = Absent /\ ~s.cut
  <2>1. c \in {"none", "login", "logout", "useOrg", "useProfile", "agentAddCli", "agentAddMcp",
               "bootstrap"}
    BY <1>2 DEF Names
  <2>2. Config!Idle \in Config!Command /\ Config!Idle.held = Absent /\ Config!Idle.write = Absent
           /\ ~Config!Idle.cut
    BY IdleFields
  <2>. QED BY <1>3, <1>4, <2>1, <2>2 DEF Config!Command
<1>6. commands' = [commands EXCEPT ![p] = s]
  BY <1>4 DEF Config!Begin
<1>7. commands'[p] = s /\ (\A q \in Procs \ {p} : commands'[q] = commands[q])
         /\ commands' \in [Procs -> Config!Command]
  BY <1>5, <1>6 DEF Config!TypeOK
<1>8. begun' \in 0..MaxCommands /\ begun' > 0
  BY <1>1, CliSentinels DEF Config!TypeOK
<1>9. Config!TypeOK'
  BY <1>1, <1>7, <1>8 DEF Config!TypeOK
<1>10. Places'
  <2>1. Len(Config!Program[c]) \in Nat
    BY <1>2, Sizes
  <2>2. 1 \in 1..Len(Config!Program[c]) + 1
    BY <2>1
  <2>3. InPlace(s)
    BY <1>2, <1>5, <2>2 DEF InPlace
  <2>. QED BY <1>7, <1>8, <2>3 DEF Places, Config!Running
<1>11. SlotsInv'
  <2>1. (Config!Whole(configFile) => HasKey(configFile))'
    BY DEF SlotsInv, HasKey, Config!Whole
  <2>2. \A x : Slotted(x) => Slotted(x)'
    BY DEF Slotted, HasKey
  <2>3. Slotted(s)'
    BY <1>5 DEF Slotted, Registering
  <2>4. (\A q \in Procs : Slotted(commands[q]))'
    <3>. SUFFICES ASSUME NEW q \in Procs PROVE Slotted(commands[q])'
      OBVIOUS
    <3>1. CASE q = p
      BY <3>1, <1>7, <2>3
    <3>2. CASE q # p
      <4>. PICK x : x = commands[q]
        OBVIOUS
      <4>1. Slotted(x)' /\ commands'[q] = x
        BY <1>7, <2>2, <3>2 DEF SlotsInv
      <4>. QED BY <4>1
    <3>. QED BY <3>1, <3>2
  <2>. QED BY <2>1, <2>4 DEF SlotsInv
<1>12. RootsInv'
  <2>1. Config!RecoveryOpensRoot'
    BY DEF RootsInv, Config!RecoveryOpensRoot
  <2>. QED BY <1>5, <1>7, <2>1 DEF RootsInv
<1>13. OrderInv'
  <2>. SUFFICES ASSUME ~mixed' PROVE OrderInv'
    BY DEF OrderInv
  <2>1. \A q \in Procs : ~Config!Running(q)
    BY <1>1
  <2>2. ~mixed
    BY <1>1 DEF Config!TypeOK
  <2>3. configFile # Config!Broken /\ Agreed(Config!Loaded) /\ Served(Config!Loaded)
    BY <2>1, <2>2 DEF OrderInv, Config!AtRest
  <2>4. Orderly(s)'
    BY <1>5, <2>3, SameFile DEF Orderly, Coming, Agreed, Served, InSession, Keeping
  <2>5. Config!Running(p)' /\ \A q \in Procs \ {p} : ~Config!Running(q)'
    BY <1>2, <1>5, <1>7, <2>1 DEF Config!Running, Names
  <2>6. Orderly(commands[p])'
    BY <1>7, <2>4
  <2>. QED BY <2>5, <2>6 DEF OrderInv, Config!AtRest
<1>. QED BY <1>9, <1>10, <1>11, <1>12, <1>13 DEF CliInv

-----------------------------------------------------------------------------
LEMMA CliInvHolds == Config!Init => CliInv
<1>. SUFFICES ASSUME Config!Init PROVE CliInv
  OBVIOUS
<1>1. /\ configFile = Absent \/ \E o \in Orgs : configFile = Config!Settings(o, Absent, Absent,
           Absent, TRUE)
      /\ keyFiles = {} /\ agentRows = {} /\ begun = 0 /\ mixed = FALSE
      /\ rootWraps = [p \in CliProfiles |-> [root |-> 0, recovery |-> 0]]
      /\ deviceCodes = [p \in Procs |-> "none"]
      /\ commands = [p \in Procs |-> Config!Idle]
  BY DEF Config!Init
<1>2. \A o \in Orgs : LET f == Config!Settings(o, Absent, Absent, Absent, TRUE) IN
        f \in Config!Setting /\ f.org = o /\ f.profile = Absent /\ f.cli = Absent
        /\ f.mcp = Absent /\ f.pin
  BY DEF Config!Settings, Config!Setting
<1>3. configFile \in Config!Setting \cup {Absent}
  BY <1>1, <1>2
<1>4. Config!TypeOK
  <2>1. signedIn \in {Config!Down, Config!SignedOut} \cup {Config!Session(o) : o \in Orgs
          \cup {Absent}}
    BY DEF Config!Init
  <2>2. 0 \in 0..MaxCommands
    BY CliSentinels
  <2>3. /\ rootWraps \in [CliProfiles -> [root : 0..MaxCommands, recovery : 0..MaxCommands]]
        /\ deviceCodes \in [Procs -> {"none", "pending", "approved", "denied", "expired"}]
    BY <1>1, <2>2
  <2>4. commands \in [Procs -> Config!Command]
    BY <1>1, IdleFields
  <2>. QED BY <1>1, <1>3, <2>1, <2>2, <2>3, <2>4 DEF Config!TypeOK
<1>5. Places /\ Config!AtRest
  BY <1>1, IdleFields DEF Places, Config!AtRest, Config!Running
<1>6. SlotsInv
  BY <1>1, <1>2, IdleFields, SettingFacts DEF SlotsInv, HasKey, Config!Whole
<1>7. RootsInv
  BY <1>1, IdleFields DEF RootsInv, Config!RecoveryOpensRoot
<1>8. configFile # Config!Broken /\ Agreed(Config!Loaded) /\ Served(Config!Loaded)
  <2>1. CASE configFile = Absent /\ signedIn \in {Config!Down, Config!SignedOut}
    BY <2>1, CliSentinels DEF Config!Loaded, Config!Whole, Agreed, Served, InSession
  <2>2. CASE \E o \in Orgs : configFile = Config!Settings(o, Absent, Absent, Absent, TRUE)
           /\ signedIn = Config!Session(o)
    <3>1. PICK o \in Orgs : configFile = Config!Settings(o, Absent, Absent, Absent, TRUE)
             /\ signedIn = Config!Session(o)
      BY <2>2
    <3>2. /\ configFile \in Config!Setting /\ configFile.org = o /\ configFile.profile = Absent
             /\ configFile.pin
      BY <1>2, <3>1
    <3>3. Config!Loaded = configFile /\ configFile # Config!Broken /\ configFile # Absent
      BY <3>2, SettingFacts DEF Config!Loaded
    <3>. QED BY <3>1, <3>2, <3>3, Sessions DEF Agreed, Served
  <2>. QED BY <2>1, <2>2 DEF Config!Init
<1>9. OrderInv
  BY <1>5, <1>8 DEF OrderInv, Config!AtRest
<1>. QED BY <1>4, <1>5, <1>6, <1>7, <1>9 DEF CliInv

LEMMA CliInvKept == CliInv /\ [Config!Next]_(Config!vars) => CliInv'
<1>. SUFFICES ASSUME CliInv, [Config!Next]_(Config!vars) PROVE CliInv'
  OBVIOUS
<1>1. CASE UNCHANGED (Config!vars)
  BY <1>1, Stands
<1>2. ASSUME NEW p \in Procs, Config!Step(p) PROVE CliInv'
  BY <1>2, FinishesStep, TruncateStep, FillStep, HoldStep, ContactStep, StartStep,
     SetCliSessionStep,
     ClearCliSessionStep, PushOrgStep, KeepConfigStep, AskCodeStep, PollStep, SaveLoginStep,
     SaveHeldStep, ListStep, SaveOrgStep, SaveProfileStep, CreateStep, SaveKeyStep, FillSlotStep,
     BootstrapStep, SetRecoveryStep DEF Config!Step
<1>3. ASSUME NEW p \in Procs, Config!Dies(p) PROVE CliInv'
  BY <1>3, DiesStep
<1>4. ASSUME NEW p \in Procs,
             Config!CodeExpires(p) \/ \E decision \in {"approved", "denied"} : Config!Decide(p,
               decision)
      PROVE  CliInv'
  <2>1. UNCHANGED <<configFile, keyFiles, agentRows, signedIn, rootWraps, commands, begun, mixed>>
    BY <1>4 DEF Config!CodeExpires, Config!Decide
  <2>2. deviceCodes' \in [Procs -> {"none", "pending", "approved", "denied", "expired"}]
    BY <1>4 DEF Config!CodeExpires, Config!Decide, CliInv, Config!TypeOK
  <2>. QED BY <2>1, <2>2, CodeStep
<1>5. ASSUME NEW p \in Procs, NEW c \in DOMAIN Config!Program, NEW a \in Config!Args(c),
             Config!Begin(p, c, a)
      PROVE  CliInv'
  BY <1>5, BeginStep
<1>6. CASE Config!DaemonStops
  BY <1>6, DaemonStopsStep
<1>. QED BY <1>1, <1>2, <1>3, <1>4, <1>5, <1>6 DEF Config!Next

\* Every reachable state satisfies the inductive invariant of the configuration.
THEOREM CliInvariance == Config!Spec => []CliInv
BY CliInvHolds, CliInvKept, PTL DEF Config!Spec

\* While commands are run one after the other, and none is cut off between its writes, the
\* daemon calls for the organization of the configuration and the active profile is of it
\* (org.ts, use.ts): whichever commands, however often, with the daemon stopped anywhere.
THEOREM ContextStaysAgreed == Config!Spec => []ContextAgrees
<1>1. CliInv => ContextAgrees
  <2>. SUFFICES ASSUME CliInv, Config!AtRest, ~mixed, Config!Whole(configFile)
       PROVE  /\ signedIn \notin {Config!Down, Config!SignedOut} => signedIn.org = configFile.org
              /\ configFile.profile # Absent => OrgOf[configFile.profile] = configFile.org
    BY DEF ContextAgrees, Config!ContextAgrees
  <2>1. Agreed(Config!Loaded) /\ Served(Config!Loaded) /\ Config!Loaded = configFile
           /\ configFile # Absent
    BY DEF CliInv, OrderInv, Config!Loaded, Config!Whole
  <2>. QED BY <2>1 DEF Agreed, Served, InSession
<1>. QED BY <1>1, CliInvariance, PTL

\* A recovery key on the server opens the root that the password opens, however many
\* commands bootstrap a profile at once (profile.ts bootstrap).
THEOREM RecoveryStaysRoot == Config!Spec => []RecoveryOpensRoot
<1>1. CliInv => RecoveryOpensRoot
  BY DEF CliInv, RootsInv, RecoveryOpensRoot
<1>. QED BY <1>1, CliInvariance, PTL

\* An agent in a slot of the configuration is known to the server and has its key on this
\* disk (agent.ts registerKeypairAgent), whatever overlaps or is cut off.
THEOREM SlotsStayKeyed == Config!Spec => []Config!SlotsHaveKeys
<1>1. CliInv => Config!SlotsHaveKeys
  BY DEF CliInv, SlotsInv, HasKey, Config!SlotsHaveKeys
<1>. QED BY <1>1, CliInvariance, PTL

\* A command that runs alone never drops the pin of the daemon (login.ts).
THEOREM PinIsKept == Config!Spec => PinStays
<1>1. CliInv /\ [Config!Next]_(Config!vars) =>
        [\A p \in Procs : ~mixed /\ Config!Whole(configFile) /\ configFile.pin
          /\ Config!Truncate(p) => commands[p].write.pin]_(Config!vars)
  <2>. SUFFICES ASSUME CliInv, NEW p \in Procs, ~mixed, Config!Whole(configFile), configFile.pin,
          Config!Truncate(p)
       PROVE  commands[p].write.pin
    OBVIOUS
  <2>1. commands[p].write # Absent
    BY DEF Config!Truncate
  <2>2. Config!Running(p)
    BY <2>1, Writer DEF CliInv
  <2>. QED BY <2>1, <2>2 DEF CliInv, OrderInv, Orderly
<1>. QED BY <1>1, CliInvariance, PTL DEF Config!Spec, PinStays, Config!PinStays
=============================================================================
