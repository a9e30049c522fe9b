--------------------------- MODULE RequestsAndTabs ---------------------------
(***************************************************************************)
(* People's requests (Requests); or the calls that a rate limiter counts   *)
(* and the tokens of strangers (RateLimit); or the tabs in which people    *)
(* make organizations (NewOrg).  None has a variable in common with        *)
(* another.                                                                *)
(***************************************************************************)
EXTENDS Requests

CONSTANTS
  Addresses, Accounts, Surfaces, AddressLimit, AddressWindow, AccountLimit, AccountWindow,
  Second, AuditWindow, AuditCap, LastTick, MaxCount,   \* RateLimit's
  Tabs, Slugs, Ids, Lookups                            \* NewOrg's

VARIABLES
  part,                                                \* which of the three the behaviour is of
  clock, bucket, seen, passed, told, lastRow,          \* RateLimit's
  org, mode, slug, status, timer, checks, job, active  \* NewOrg's

limits == <<clock, bucket, seen, passed, told, lastRow>>
tabs == <<org, mode, slug, status, timer, checks, job, active>>

RL == INSTANCE RateLimit WITH MaxTime <- LastTick
NO == INSTANCE NewOrg
ASSUME LimitConstants == RL!RateLimitConstants
ASSUME TabConstants == NO!NewOrgConstants

LimitsRest ==
  /\ clock = None /\ bucket = None /\ seen = None /\ passed = None /\ told = None
  /\ lastRow = None
TabsRest ==
  /\ org = None /\ mode = None /\ slug = None /\ status = None /\ timer = None
  /\ checks = None /\ job = None /\ active = None
\* Nobody has an account.
RequestsRest == Init /\ member = {} /\ \A k \in Keys : key[k] = NoKey

InitEach ==
  \/ part = "requests" /\ Init /\ LimitsRest /\ TabsRest
  \/ part = "limits" /\ RL!Init /\ RequestsRest /\ TabsRest
  \/ part = "tabs" /\ NO!Init /\ RequestsRest /\ LimitsRest
NextEach ==
  \/ part = "requests" /\ Next /\ UNCHANGED <<part, limits, tabs>>
  \/ part = "limits" /\ RL!Next /\ UNCHANGED <<part, vars, tabs>>
  \/ part = "tabs" /\ NO!Next /\ UNCHANGED <<part, vars, limits>>
Each == InitEach /\ [][NextEach]_<<part, vars, limits, tabs>>

\* In a span as long as its window a bucket lets through at most twice its limit (RateLimit).
AtMostTwicePerWindow == part = "limits" => RL!AtMostTwicePerWindow

\* Unknown tokens of an address get one audit row a window (RateLimit).
UnknownTokensDampened == [][part = "limits" => RL!RowIsLater]_limits

\* The organization a tab is on is its person's own and ready for use (NewOrg).
ActiveIsOwn == part = "tabs" => NO!ActiveIsOwn
==============================================================================
