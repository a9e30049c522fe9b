---------------------------- MODULE AccountClaim ----------------------------
(***************************************************************************)
(* How an account that an agent registered becomes its owner's.  register  *)
(* makes a placeholder user and organization with a claim row, after       *)
(* collecting the claims that expired; claim mails a code to the address   *)
(* it is given; claimComplete checks the code and binds the address.  The  *)
(* procedures are public and run on the pool: only the end of              *)
(* claimComplete is a transaction.                                         *)
(*                                                                         *)
(* An account is known by the register request that makes it and a code by *)
(* the claim request that mails it; two codes are never the same here.     *)
(***************************************************************************)
EXTENDS Naturals, FiniteSets

CONSTANTS
  Accounts,     \* agentAuth.register requests
  Sends,        \* agentAuth.claim requests
  Completes,    \* agentAuth.claimComplete requests
  Emails,
  MaxAttempts,  \* AGENT_CLAIM_OTP_MAX_ATTEMPTS
  NoEmail, NoCode, Nobody

ClaimConstants ==
  /\ Accounts \cap Sends = {} /\ Accounts \cap Completes = {} /\ Sends \cap Completes = {}
  /\ NoEmail \notin Emails /\ NoCode \notin Sends /\ Nobody \notin Completes
  /\ MaxAttempts \in Nat /\ IsFiniteSet(Completes)

VARIABLES
  org, user,    \* the rows of each account that exist
  owner,        \* user.email, once verified
  claim,        \* account_claims rows: the code and where it was mailed
  usedBy,       \* usedAt: the request that claimed the account
  taken,        \* emails of the users that signed up themselves
  call,         \* what a claim or a claimComplete presents
  stage,        \* where each request is
  seen,         \* the claim row a claimComplete loaded
  stale,        \* the claims a register selected and has yet to collect
  victim        \* the one whose organization it has deleted

rows == <<org, user, owner, claim, usedBy, taken>>
vars == <<rows, call, stage, seen, stale, victim>>

-----------------------------------------------------------------------------

Requests == Accounts \cup Sends \cup Completes
SendCall == [account : Accounts, email : Emails]
CompleteCall == [account : Accounts, code : Sends \cup {NoCode}]

Claim == [email : Emails \cup {NoEmail}, code : Sends \cup {NoCode}, attempts : Nat,
          expired : BOOLEAN, codeExpired : BOOLEAN]
FreshClaim == [email |-> NoEmail, code |-> NoCode, attempts |-> 0,
               expired |-> FALSE, codeExpired |-> FALSE]

Stages == {"unsent", "collect", "user", "registered", "update", "sent",
           "miss", "claim", "bind", "missed", "claimed", "refused"}

TypeOK ==
  /\ org \in [Accounts -> BOOLEAN] /\ user \in [Accounts -> BOOLEAN]
  /\ owner \in [Accounts -> Emails \cup {NoEmail}]
  /\ claim \in [Accounts -> Claim]
  /\ usedBy \in [Accounts -> Completes \cup {Nobody}]
  /\ taken \in SUBSET Emails
  /\ call \in [Sends \cup Completes -> SendCall \cup CompleteCall]
  /\ \A s \in Sends : call[s] \in SendCall
  /\ \A x \in Completes : call[x] \in CompleteCall
  /\ stage \in [Requests -> Stages]
  /\ seen \in [Completes -> Claim]
  /\ stale \in [Accounts -> SUBSET Accounts]
  /\ victim \in [Accounts -> Accounts]

Init ==
  /\ org = [a \in Accounts |-> FALSE] /\ user = [a \in Accounts |-> FALSE]
  /\ owner = [a \in Accounts |-> NoEmail]
  /\ claim = [a \in Accounts |-> FreshClaim]
  /\ usedBy = [a \in Accounts |-> Nobody]
  /\ taken = {}
  /\ call \in {c \in [Sends \cup Completes -> SendCall \cup CompleteCall] :
                 /\ \A s \in Sends : c[s] \in SendCall
                 /\ \A x \in Completes : c[x] \in CompleteCall}
  /\ stage = [r \in Requests |-> "unsent"]
  /\ seen = [x \in Completes |-> FreshClaim]
  /\ stale = [a \in Accounts |-> {}]
  /\ victim = [a \in Accounts |-> a]

Goto(r, s) == stage' = [stage EXCEPT ![r] = s]

\* The row cascades from its organization and from its user.
ClaimExists(a) == org[a] /\ user[a]

\* The row lock of a claimComplete whose transaction is open.
Locked(a) == \E x \in Completes : stage[x] = "bind" /\ call[x].account = a

-----------------------------------------------------------------------------
(* register: gcExpiredClaims, then the account *)

Stale(a) == ClaimExists(a) /\ usedBy[a] = Nobody /\ claim[a].expired

SelectStale(r) ==
  /\ stage[r] = "unsent"
  /\ stale' = [stale EXCEPT ![r] = {a \in Accounts : Stale(a)}]
  /\ Goto(r, "collect")
  /\ UNCHANGED <<org, user, owner, claim, usedBy, taken, call, seen, victim>>

\* DELETE FROM organization by id: the claim row goes with it, so it waits for
\* the row; whether the row was claimed meanwhile is not looked at.
DeleteOrg(r, a) ==
  /\ stage[r] = "collect" /\ a \in stale[r] /\ ~Locked(a)
  /\ org' = [org EXCEPT ![a] = FALSE]
  /\ stale' = [stale EXCEPT ![r] = @ \ {a}]
  /\ victim' = [victim EXCEPT ![r] = a]
  /\ Goto(r, "user")
  /\ UNCHANGED <<user, owner, claim, usedBy, taken, call, seen>>

DeleteUser(r) ==
  /\ stage[r] = "user"
  /\ user' = [user EXCEPT ![victim[r]] = FALSE]
  /\ Goto(r, "collect")
  /\ UNCHANGED <<org, owner, claim, usedBy, taken, call, seen, stale, victim>>

\* A failed statement ends the collection and nothing else.
GiveUpCollect(r) ==
  /\ stage[r] \in {"collect", "user"}
  /\ stale' = [stale EXCEPT ![r] = {}]
  /\ Goto(r, "collect")
  /\ UNCHANGED <<org, user, owner, claim, usedBy, taken, call, seen, victim>>

\* User, organization, key and claim row, in one transaction.
Register(r) ==
  /\ stage[r] = "collect" /\ stale[r] = {}
  /\ org' = [org EXCEPT ![r] = TRUE] /\ user' = [user EXCEPT ![r] = TRUE]
  /\ Goto(r, "registered")
  /\ UNCHANGED <<owner, claim, usedBy, taken, call, seen, stale, victim>>

-----------------------------------------------------------------------------
(* claim *)

\* loadClaim.
Loadable(a) == ClaimExists(a) /\ usedBy[a] = Nobody /\ ~claim[a].expired

LoadForSend(s) ==
  /\ stage[s] = "unsent"
  /\ Goto(s, IF Loadable(call[s].account) THEN "update" ELSE "refused")
  /\ UNCHANGED <<org, user, owner, claim, usedBy, taken, call, seen, stale, victim>>

\* UPDATE by id: a row claimed meanwhile is written too, one collected is not.
StoreCode(s) ==
  /\ stage[s] = "update" /\ ~Locked(call[s].account)
  /\ LET a == call[s].account IN
     claim' = IF ClaimExists(a)
                THEN [claim EXCEPT ![a].email = call[s].email, ![a].code = s,
                                   ![a].attempts = 0, ![a].codeExpired = FALSE]
                ELSE claim
  /\ Goto(s, "sent")
  /\ UNCHANGED <<org, user, owner, usedBy, taken, call, seen, stale, victim>>

-----------------------------------------------------------------------------
(* claimComplete *)

\* The row is checked as it was loaded.
Checked(a) ==
  /\ Loadable(a)
  /\ claim[a].code # NoCode /\ ~claim[a].codeExpired
  /\ claim[a].attempts < MaxAttempts

LoadComplete(x) ==
  /\ stage[x] = "unsent"
  /\ LET a == call[x].account IN
     /\ seen' = [seen EXCEPT ![x] = claim[a]]
     /\ \/ ~Checked(a) /\ Goto(x, "refused")
        \/ Checked(a) /\ call[x].code = claim[a].code /\ Goto(x, "claim")
        \/ Checked(a) /\ call[x].code # claim[a].code /\ Goto(x, "miss")
  /\ UNCHANGED <<org, user, owner, claim, usedBy, taken, call, stale, victim>>


\* SET otp_attempts = otp_attempts + 1.
OneMore(x) == claim[call[x].account].attempts + 1

CountMiss(x) ==
  /\ stage[x] = "miss" /\ ~Locked(call[x].account)
  /\ LET a == call[x].account IN
     claim' = IF ClaimExists(a) THEN [claim EXCEPT ![a].attempts = OneMore(x)] ELSE claim
  /\ Goto(x, "missed")
  /\ UNCHANGED <<org, user, owner, usedBy, taken, call, seen, stale, victim>>

\* No user has the address.
Free(e) == e \notin taken /\ \A a \in Accounts : user[a] => owner[a] # e

\* The WHERE clause: neither expiry nor the code is compared again.
Claimable(a) == ClaimExists(a) /\ usedBy[a] = Nobody

\* BEGIN; UPDATE account_claims SET used_at; SELECT the user with the address.
ClaimAccount(x) ==
  /\ stage[x] = "claim" /\ ~Locked(call[x].account)
  /\ Goto(x, IF Claimable(call[x].account) /\ Free(seen[x].email) THEN "bind" ELSE "refused")
  /\ UNCHANGED <<org, user, owner, claim, usedBy, taken, call, seen, stale, victim>>

\* Mutant: the address is the one now in the row.
OwnerInRow(x) == claim[call[x].account].email


OwnerOf(x) == seen[x].email

\* Mutant: the unique index is missing, and only the SELECT before it checked.
UniqueAlready(e) == TRUE

\* The unique index of user.email.
Unique(e) == Free(e)

\* UPDATE user; COMMIT.  A duplicate address rolls the claim back.
BindOwner(x) ==
  /\ stage[x] = "bind" /\ Unique(OwnerOf(x))
  /\ LET a == call[x].account IN
     /\ usedBy' = [usedBy EXCEPT ![a] = x]
     /\ owner' = [owner EXCEPT ![a] = OwnerOf(x)]
  /\ Goto(x, "claimed")
  /\ UNCHANGED <<org, user, claim, taken, call, seen, stale, victim>>

BindRefused(x) ==
  /\ stage[x] = "bind" /\ ~Unique(OwnerOf(x))
  /\ Goto(x, "refused")
  /\ UNCHANGED <<org, user, owner, claim, usedBy, taken, call, seen, stale, victim>>

-----------------------------------------------------------------------------

\* The transaction of a claimComplete is rolled back.  A request that fails
\* elsewhere has committed what it wrote and takes no further step.
Abort(x) ==
  /\ stage[x] = "bind"
  /\ Goto(x, "refused")
  /\ UNCHANGED <<org, user, owner, claim, usedBy, taken, call, seen, stale, victim>>

\* Somebody signs up with the address.
SignUp(e) ==
  /\ Free(e)
  /\ taken' = taken \cup {e}
  /\ UNCHANGED <<org, user, owner, claim, usedBy, call, stage, seen, stale, victim>>

Expire ==
  /\ \E a \in Accounts :
       /\ ClaimExists(a)
       /\ \/ claim' = [claim EXCEPT ![a].expired = TRUE]
          \/ claim[a].code # NoCode /\ claim' = [claim EXCEPT ![a].codeExpired = TRUE]
  /\ UNCHANGED <<org, user, owner, usedBy, taken, call, stage, seen, stale, victim>>

Complete(x) ==
  LoadComplete(x) \/ CountMiss(x) \/ ClaimAccount(x) \/ BindOwner(x) \/ BindRefused(x)

Next ==
  \/ \E r \in Accounts : \/ SelectStale(r) \/ DeleteUser(r) \/ GiveUpCollect(r) \/ Register(r)
                         \/ \E a \in Accounts : DeleteOrg(r, a)
  \/ \E s \in Sends : LoadForSend(s) \/ StoreCode(s)
  \/ \E x \in Completes : Complete(x) \/ Abort(x)
  \/ \E e \in Emails : SignUp(e)
  \/ Expire

Spec == Init /\ [][Next]_vars

-----------------------------------------------------------------------------
(* Properties *)

Token == INSTANCE OneTimeToken WITH
  Tokens <- Accounts, Holders <- Completes,
  issued <- {a \in Accounts : stage[a] = "registered"}, spentBy <- usedBy

\* An account is claimed once (docs/ERRORS.md CLAIM_ALREADY_COMPLETED), although
\* any number of completions hold the right code.
ClaimWorksOnce == Token!Spec

\* The owner is the address to which the code that was presented was mailed, for
\* this account, whatever codes were mailed elsewhere while it was checked.
OwnerProved ==
  \A a \in Accounts : usedBy[a] # Nobody =>
    LET code == call[usedBy[a]].code IN
    code \in Sends /\ call[code].account = a /\ owner[a] = call[code].email

\* docs/SECURITY.md "No silent merge": no two users have one address, though the
\* check for it and the write are separate statements of racing transactions.
NoSilentMerge ==
  \A a \in Accounts : user[a] /\ owner[a] # NoEmail =>
    /\ owner[a] \notin taken
    /\ \A b \in Accounts \ {a} : user[b] => owner[b] # owner[a]

\* Every wrong guess at the code in the row counts towards its limit.
GuessesCounted ==
  \A a \in Accounts : claim[a].code # NoCode /\ ClaimExists(a) =>
    Cardinality({x \in Completes : /\ stage[x] = "missed" /\ call[x].account = a
                                   /\ seen[x].code = claim[a].code}) <= claim[a].attempts

\* Only an account whose claim expired loses anything to the collection.
OnlyExpiredCollected ==
  \A a \in Accounts : stage[a] = "registered" /\ ~ClaimExists(a) => claim[a].expired

\* agent-registration.ts:92, "Claimed records (usedAt set) are excluded, so a
\* real account is never touched".  Refuted: the DELETEs go by id.
ClaimedAccountKept ==
  \A a \in Accounts : usedBy[a] # Nobody => ClaimExists(a)
=============================================================================
