------------------------------ MODULE RateLimit ------------------------------
(***************************************************************************)
(* What bounds the traffic of a caller nobody knows yet: the counters of   *)
(* the rate limiter in front of every surface, by address and, for signing *)
(* in, by account; and the map that keeps unknown tokens from flooding the *)
(* audit log.                                                              *)
(***************************************************************************)
EXTENDS Naturals, FiniteSets

CONSTANTS
  Addresses, Accounts,     \* what buckets are named by
  Surfaces,                \* the limited surfaces that are called
  AddressLimit, AddressWindow, AccountLimit, AccountWindow,
  Second,                  \* ticks of the clock in a second
  AuditWindow, AuditCap,   \* UNAUTH_AUDIT_WINDOW_MS, UNAUTH_AUDIT_MAX_ENTRIES
  MaxTime, MaxCount,       \* bounds: the clock, the calls a bucket counts
  None

RateLimitConstants ==
  /\ {AddressLimit, AccountLimit, AuditWindow, AuditCap, MaxCount} \subseteq Nat
  /\ {AddressWindow, AccountWindow, Second, MaxTime} \subseteq Nat \ {0}

VARIABLES
  clock,
  bucket,    \* the RateLimitCounter objects
  seen,      \* unauthBearerAuditCounters of the isolate
  passed,    \* history: calls a bucket let through within its window of now, by time
  told,      \* history: when a refused caller was told to come back, 0 for nobody
  lastRow    \* history: when an address last got an audit row, reset with the map

limiter == <<bucket, passed, told>>
dampener == <<seen, lastRow>>
vars == <<clock, limiter, dampener>>

Time == 0 .. MaxTime

-----------------------------------------------------------------------------
(* The rate limiter *)

\* The counters a surface is behind, in the order of the middleware: its own by
\* address, then for signing in the one of the account named in the body.
AddressBucket(surface, a) == <<IF surface = "sign-in" THEN "/api/auth" ELSE surface, a>>
AccountBucket(account) == <<"signin-email", account>>

Buckets == ({"/trpc", "/api/auth"} \X Addresses) \cup {AccountBucket(c) : c \in Accounts}

LimitOf(b) == IF b[1] = "signin-email" THEN AccountLimit ELSE AddressLimit
WindowOf(b) == IF b[1] = "signin-email" THEN AccountWindow ELSE AddressWindow

\* Mutant: a new window does not count the request that opens it.
CountsFromZero(b) ==
  IF clock >= bucket[b].resetAt
  THEN [count |-> 0, resetAt |-> clock + WindowOf(b)]
  ELSE [bucket[b] EXCEPT !.count = @ + 1]

\* RateLimitCounter.fetch; the object handles one call at a time.
Counted(b) ==
  IF clock >= bucket[b].resetAt
  THEN [count |-> 1, resetAt |-> clock + WindowOf(b)]
  ELSE [bucket[b] EXCEPT !.count = @ + 1]

Admits(b) == Counted(b).count <= LimitOf(b)

\* Retry-After, in seconds.
RetryAfter(b) == (Counted(b).resetAt - clock + Second - 1) \div Second

\* The counters that a call reaches: none behind the first that refuses it.
Reached(surface, a, account) ==
  LET first == AddressBucket(surface, a) IN
  {first} \cup IF surface = "sign-in" /\ account # None /\ Admits(first)
               THEN {AccountBucket(account)} ELSE {}

Refusing(surface, a, account) == {b \in Reached(surface, a, account) : ~Admits(b)}

\* rateLimitMiddleware: 429 with Retry-After, or the next handler.
Count(surface, a, account) ==
  LET reached == Reached(surface, a, account)
      refusing == Refusing(surface, a, account)
  IN /\ bucket' = [b \in Buckets |-> IF b \in reached THEN Counted(b) ELSE bucket[b]]
     /\ passed' = [b \in Buckets |->
          IF b \in reached \ refusing THEN [passed[b] EXCEPT ![clock] = @ + 1] ELSE passed[b]]
     /\ told' = [b \in Buckets |->
          CASE b \in refusing -> clock + Second * RetryAfter(b)
            [] b \in reached /\ clock >= bucket[b].resetAt -> 0
            [] OTHER -> told[b]]

\* A call of somebody else: it only counts.  An account is named in the body of
\* a sign-in, in which it may be missing.
Call(surface, a, account) ==
  /\ \A b \in Buckets : bucket[b].count < MaxCount
  /\ Count(surface, a, account)
  /\ UNCHANGED <<clock, dampener>>

-----------------------------------------------------------------------------
(* Unknown bearer tokens *)

\* Mutant: an entry does not keep the next row from being written.
AlwaysWrites(a) == TRUE

\* shouldWriteUnauthBearerAudit, and the audit row of auditUnrecognizedBearer,
\* whose INSERT may fail.
ShouldWrite(a) == seen[a] < clock

\* The entries, wiped when there are as many as the map may hold.
Full == Cardinality({a \in Addresses : seen[a] > 0}) >= AuditCap
Entered(a) ==
  [x \in Addresses |-> IF x = a THEN clock + AuditWindow ELSE IF Full THEN 0 ELSE seen[x]]

\* A token that no row matches, on the surface of people or of agents: 401.
Probe(a) ==
  /\ \/ /\ ShouldWrite(a)
        /\ seen' = Entered(a)
        /\ lastRow' = [x \in Addresses |-> IF x = a THEN clock ELSE IF Full THEN 0 ELSE lastRow[x]]
     \/ ~ShouldWrite(a) /\ UNCHANGED dampener
  /\ UNCHANGED <<clock, limiter>>

-----------------------------------------------------------------------------

Init ==
  /\ clock = 1
  /\ bucket = [b \in Buckets |-> [count |-> 0, resetAt |-> 0]]
  /\ passed = [b \in Buckets |-> [t \in Time |-> 0]]
  /\ told = [b \in Buckets |-> 0]
  /\ seen = [a \in Addresses |-> 0] /\ lastRow = [a \in Addresses |-> 0]

Tick ==
  /\ clock < MaxTime /\ clock' = clock + 1
  /\ passed' = [b \in Buckets |->
       [t \in Time |-> IF t + WindowOf(b) > clock' THEN passed[b][t] ELSE 0]]
  /\ UNCHANGED <<bucket, told, dampener>>

Next ==
  \/ \E s \in Surfaces, a \in Addresses, c \in Accounts \cup {None} : Call(s, a, c)
  \/ \E a \in Addresses : Probe(a)
  \/ Tick

Spec == Init /\ [][Next]_vars

TypeOK ==
  /\ clock \in 1 .. MaxTime
  /\ \A b \in Buckets : bucket[b] \in [count : Nat, resetAt : Nat]
  /\ passed \in [Buckets -> [Time -> Nat]] /\ told \in [Buckets -> Nat]
  /\ seen \in [Addresses -> Nat] /\ lastRow \in [Addresses -> Nat]

\* In a span as long as its window, wherever that starts, a bucket lets through
\* at most twice its limit; so does an account, over all addresses
\* (RateLimitCounter, accountEmailKey).
AtMostTwicePerWindow ==
  \A b \in Buckets :
    Cardinality(UNION {{t} \X (1 .. passed[b][t]) : t \in Time}) <= 2 * LimitOf(b)

\* A refused caller that waits as long as Retry-After says finds that window
\* over (RateLimitCounter.fetch).
RetryAfterIsHonest ==
  \A b \in Buckets : told[b] # 0 => bucket[b].resetAt <= told[b]

\* An address that sends unknown tokens gets one audit row a window, unless the
\* map was wiped in between (shouldWriteUnauthBearerAudit).
RowIsLater ==
  \A a \in Addresses :
    lastRow'[a] # lastRow[a] /\ lastRow[a] # 0 /\ lastRow'[a] # 0 =>
      lastRow'[a] > lastRow[a] + AuditWindow
UnknownTokensDampened == [][RowIsLater]_vars
=============================================================================
