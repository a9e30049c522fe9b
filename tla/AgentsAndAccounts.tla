------------------------- MODULE AgentsAndAccounts -------------------------
(***************************************************************************)
(* How agents earn their sessions (AgentCredentials), the client that      *)
(* keeps one (AgentClient), or how an account that an agent registered     *)
(* becomes its owner's (AccountClaim).  No two of them have a variable in  *)
(* common.                                                                 *)
(***************************************************************************)
EXTENDS AgentCredentials, Sequences

CONSTANTS  \* AgentClient's
  Calls, Ttl, Margin, Delays, MountTtl, OrphanAge, MaxFlights, MaxCrashes, None

CONSTANTS  \* AccountClaim's
  Accounts, Sends, Completes, Emails, MaxAttempts, NoEmail, NoCode

VARIABLES
  part,    \* which of the three the behaviour is of
  host, up, active, holds, left, timer, refreshing, expired, connected, op, at, entry, file, age,
  deleting, crashes, wanted, fails, lost,
  org, user, owner, claim, usedBy, taken, asked, step, loaded, stale, victim

client ==
  <<host, up, active, holds, left, timer, refreshing, expired, connected, op, at, entry, file, age,
    deleting, crashes, wanted, fails, lost>>
accounts == <<org, user, owner, claim, usedBy, taken, asked, step, loaded, stale, victim>>

Client == INSTANCE AgentClient WITH token <- holds, stage <- at
ASSUME ClientConstants == Client!ClientConstants

Claims == INSTANCE AccountClaim WITH call <- asked, stage <- step, seen <- loaded
ASSUME AccountConstants == Claims!ClaimConstants

\* What is not looked at is None.
CredentialsRest ==
  /\ token = [t \in Tokens |-> Unissued] /\ tokenUsedBy = [t \in Tokens |-> Nobody]
  /\ session = [x \in Exchanges |-> "none"] /\ challengeUsedBy = [c \in Challenges |-> Nobody]
  /\ revoked = None /\ publicKey = None /\ challenge = None
  /\ call = None /\ stage = None /\ seen = None

ClientRest ==
  /\ host = None /\ up = None /\ active = None /\ holds = None /\ left = None /\ timer = None
  /\ refreshing = None /\ expired = None /\ connected = None /\ op = None /\ at = None
  /\ entry = None /\ file = None /\ age = None /\ deleting = None /\ crashes = None
  /\ wanted = None /\ fails = None /\ lost = None

AccountsRest ==
  /\ org = None /\ user = None /\ owner = None /\ claim = None /\ usedBy = None /\ taken = None
  /\ asked = None /\ step = None /\ loaded = None /\ stale = None /\ victim = None

InitEither ==
  \/ part = "credentials" /\ Init /\ ClientRest /\ AccountsRest
  \/ part = "client" /\ Client!Init /\ CredentialsRest /\ AccountsRest
  \/ part = "account" /\ Claims!Init /\ CredentialsRest /\ ClientRest
NextEither ==
  \/ part = "credentials" /\ Next /\ UNCHANGED <<part, client, accounts>>
  \/ part = "client" /\ Client!Next /\ UNCHANGED <<part, vars, accounts>>
  \/ part = "account" /\ Claims!Next /\ UNCHANGED <<part, vars, client>>
Either == InitEither /\ [][NextEither]_<<part, vars, client, accounts>>

\* The session of a connected client runs out only after three failures (AgentClient).
ExpiryNeedsFailures == part = "client" => Client!ExpiryNeedsFailures

\* A claimed account is of the address to which its code was mailed (AccountClaim).
OwnerProved == part = "account" => Claims!OwnerProved

\* No two users have one address (AccountClaim).
NoSilentMerge == part = "account" => Claims!NoSilentMerge
=============================================================================
