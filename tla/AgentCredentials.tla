------------------------- MODULE AgentCredentials -------------------------
(***************************************************************************)
(* How an agent gets its key and its sessions.  The owner issues bootstrap *)
(* tokens; an enrollment spends one and binds the agent's public key; the  *)
(* agent then asks for challenges and exchanges a signed one for a         *)
(* session.  None of it runs in a request transaction: every SELECT sees   *)
(* what has committed, and only the claim and what it pays for are one     *)
(* transaction.  Agents are revoked and things expire meanwhile.           *)
(*                                                                         *)
(* Tokens, challenges and sessions are rows known by their hash: they are  *)
(* model values here, as are keys; a signature is the key it was made with.*)
(***************************************************************************)
EXTENDS Naturals, FiniteSets

CONSTANTS
  Agents, Keys,
  Tokens,          \* bootstrap tokens (bound: each is issued at most once)
  Challenges,      \* session challenges (bound, likewise)
  Enrolls,         \* auth.enroll requests
  Exchanges,       \* auth.exchangeSession requests; each mints at most a session
  ChallengeLimit,  \* CHALLENGE_RATE_LIMIT
  NoAgent, NoKey, Nobody

ASSUME CredentialConstants ==
  /\ NoAgent \notin Agents /\ NoKey \notin Keys
  /\ Enrolls \cap Exchanges = {} /\ Nobody \notin Enrolls \cup Exchanges
  /\ ChallengeLimit \in Nat

VARIABLES
  revoked,          \* agents rows: revokedAt is set and enabled is false
  publicKey,        \* agents rows: the enrolled key
  token, challenge, \* rows: the agent and how far the row has come
  tokenUsedBy,      \* usedAt: the request whose claim of the row committed
  challengeUsedBy,
  session,          \* agent_sessions rows, by the exchange that mints them
  call,             \* what each request presents
  stage,            \* where it is
  seen              \* the key an exchange read with its agent

rows == <<revoked, publicKey, token, challenge, tokenUsedBy, challengeUsedBy, session>>
vars == <<rows, call, stage, seen>>

-----------------------------------------------------------------------------

EnrollCall == [token : Tokens, key : Keys]
ExchangeCall == [agent : Agents, challenge : Challenges, key : Keys]

\* A row is first checked for by the request that issues it.
Issued == [agent : Agents \cup {NoAgent},
           state : {"none", "checked", "fresh", "expired", "collected"}]
Unissued == [agent |-> NoAgent, state |-> "none"]

EnrollStages == {"unsent", "agent", "claim", "bind", "commit", "refused", "enrolled"}
ExchangeStages == {"unsent", "challenge", "claim", "mint", "refused", "minted"}

TypeOK ==
  /\ revoked \in [Agents -> BOOLEAN]
  /\ publicKey \in [Agents -> Keys \cup {NoKey}]
  /\ token \in [Tokens -> Issued]
  /\ challenge \in [Challenges -> Issued]
  /\ tokenUsedBy \in [Tokens -> Enrolls \cup {Nobody}]
  /\ challengeUsedBy \in [Challenges -> Exchanges \cup {Nobody}]
  /\ session \in [Exchanges -> {"none", "live", "expired", "revoked"}]
  /\ call \in [Enrolls \cup Exchanges -> EnrollCall \cup ExchangeCall]
  /\ \A e \in Enrolls : call[e] \in EnrollCall /\ stage[e] \in EnrollStages
  /\ \A x \in Exchanges : call[x] \in ExchangeCall /\ stage[x] \in ExchangeStages
  /\ stage \in [Enrolls \cup Exchanges -> EnrollStages \cup ExchangeStages]
  /\ seen \in [Exchanges -> Keys \cup {NoKey}]

\* agents.create stores the key it is given, or none when a token is asked for.
Init ==
  /\ revoked = [a \in Agents |-> FALSE]
  /\ publicKey \in [Agents -> Keys \cup {NoKey}]
  /\ token = [t \in Tokens |-> Unissued]
  /\ challenge = [c \in Challenges |-> Unissued]
  /\ tokenUsedBy = [t \in Tokens |-> Nobody]
  /\ challengeUsedBy = [c \in Challenges |-> Nobody]
  /\ session = [x \in Exchanges |-> "none"]
  /\ call \in {c \in [Enrolls \cup Exchanges -> EnrollCall \cup ExchangeCall] :
                 /\ \A e \in Enrolls : c[e] \in EnrollCall
                 /\ \A x \in Exchanges : c[x] \in ExchangeCall}
  /\ stage = [r \in Enrolls \cup Exchanges |-> "unsent"]
  /\ seen = [x \in Exchanges |-> NoKey]

Goto(r, s) == stage' = [stage EXCEPT ![r] = s]

\* A request moves on, or is refused, without writing a row.
Proceed(r, ok, next) ==
  /\ Goto(r, IF ok THEN next ELSE "refused")
  /\ UNCHANGED <<rows, call>>

-----------------------------------------------------------------------------
(* auth.issueBootstrapToken *)

CheckIssue(t, a) ==
  /\ token[t].state = "none"
  /\ ~revoked[a] /\ publicKey[a] = NoKey
  /\ token' = [token EXCEPT ![t] = [agent |-> a, state |-> "checked"]]
  /\ UNCHANGED <<revoked, publicKey, challenge, tokenUsedBy, challengeUsedBy, session,
                 call, stage, seen>>

InsertToken(t) ==
  /\ token[t].state = "checked"
  /\ token' = [token EXCEPT ![t].state = "fresh"]
  /\ UNCHANGED <<revoked, publicKey, challenge, tokenUsedBy, challengeUsedBy, session,
                 call, stage, seen>>

-----------------------------------------------------------------------------
(* auth.enroll *)

ReadToken(e) ==
  /\ stage[e] = "unsent"
  /\ LET t == call[e].token IN
     Proceed(e, token[t].state = "fresh" /\ tokenUsedBy[t] = Nobody, "agent")
  /\ UNCHANGED seen

ReadEnrollAgent(e) ==
  /\ stage[e] = "agent"
  /\ LET a == token[call[e].token].agent IN
     Proceed(e, ~revoked[a] /\ publicKey[a] = NoKey, "claim")
  /\ UNCHANGED seen

\* The row locks that open transactions hold.
TokenLocked(t) == \E e \in Enrolls : stage[e] \in {"bind", "commit"} /\ call[e].token = t
AgentLocked(a) == \E e \in Enrolls : stage[e] = "commit" /\ token[call[e].token].agent = a

\* Mutant: an UPDATE that clears used_at stands in for the ROLLBACK.
Unclaim(e) ==
  /\ Goto(e, "refused")
  /\ tokenUsedBy' = [tokenUsedBy EXCEPT ![call[e].token] = Nobody]
  /\ UNCHANGED <<revoked, publicKey, token, challenge, challengeUsedBy, session, call>>

\* No row was updated: the transaction ends without effect, by a ROLLBACK if it
\* had claimed the token.
GiveUp(e) == Proceed(e, FALSE, "refused")

\* BEGIN; UPDATE agent_enrollment_tokens SET used_at: a second claim waits for
\* the first to end, then sees what it committed.  expires_at is not compared again.
ClaimToken(e) ==
  /\ stage[e] = "claim" /\ ~TokenLocked(call[e].token)
  /\ \/ tokenUsedBy[call[e].token] = Nobody /\ Proceed(e, TRUE, "bind")
     \/ tokenUsedBy[call[e].token] # Nobody /\ GiveUp(e)
  /\ UNCHANGED seen


\* The WHERE clause of the second UPDATE.
Bindable(a) == ~revoked[a] /\ publicKey[a] = NoKey

\* UPDATE agents SET public_key.
BindKey(e) ==
  /\ stage[e] = "bind"
  /\ LET a == token[call[e].token].agent IN
     /\ ~AgentLocked(a)
     /\ \/ Bindable(a) /\ Proceed(e, TRUE, "commit")
        \/ ~Bindable(a) /\ GiveUp(e)
  /\ UNCHANGED seen

CommitEnroll(e) ==
  /\ stage[e] = "commit"
  /\ LET t == call[e].token IN
     /\ tokenUsedBy' = [tokenUsedBy EXCEPT ![t] = e]
     /\ publicKey' = [publicKey EXCEPT ![token[t].agent] = call[e].key]
  /\ Goto(e, "enrolled")
  /\ UNCHANGED <<revoked, token, challenge, challengeUsedBy, session, call, seen>>

-----------------------------------------------------------------------------
(* auth.createChallenge *)

LiveChallenges(a) ==
  {c \in Challenges :
     challenge[c] = [agent |-> a, state |-> "fresh"] /\ challengeUsedBy[c] = Nobody}

\* The live challenges are counted, and nothing holds the count.
CheckChallenge(c, a) ==
  /\ challenge[c].state = "none"
  /\ ~revoked[a] /\ publicKey[a] # NoKey
  /\ Cardinality(LiveChallenges(a)) < ChallengeLimit
  /\ challenge' = [challenge EXCEPT ![c] = [agent |-> a, state |-> "checked"]]
  /\ UNCHANGED <<revoked, publicKey, token, tokenUsedBy, challengeUsedBy, session,
                 call, stage, seen>>

ChallengeLocked(c) == \E x \in Exchanges : stage[x] = "mint" /\ call[x].challenge = c

\* Rows that expired an hour ago are deleted, used or not, whichever agent they
\* are of; a failed DELETE is ignored.
InsertChallenge(c) ==
  /\ challenge[c].state = "checked"
  /\ \E old \in SUBSET {d \in Challenges : challenge[d].state = "expired" /\ ~ChallengeLocked(d)} :
       challenge' = [d \in Challenges |->
         IF d = c THEN [challenge[d] EXCEPT !.state = "fresh"]
         ELSE IF d \in old THEN [challenge[d] EXCEPT !.state = "collected"]
         ELSE challenge[d]]
  /\ UNCHANGED <<revoked, publicKey, token, tokenUsedBy, challengeUsedBy, session,
                 call, stage, seen>>

-----------------------------------------------------------------------------
(* auth.exchangeSession *)

ReadExchangeAgent(x) ==
  /\ stage[x] = "unsent"
  /\ LET a == call[x].agent IN
     /\ Proceed(x, ~revoked[a] /\ publicKey[a] # NoKey, "challenge")
     /\ seen' = [seen EXCEPT ![x] = publicKey[a]]

\* The row of this agent, unused and not expired.
ChallengeFound(x) ==
  /\ challenge[call[x].challenge] = [agent |-> call[x].agent, state |-> "fresh"]
  /\ challengeUsedBy[call[x].challenge] = Nobody

\* The signature is verified with the key that was read first.
ReadChallenge(x) ==
  /\ stage[x] = "challenge"
  /\ Proceed(x, ChallengeFound(x) /\ call[x].key = seen[x], "claim")
  /\ UNCHANGED seen

\* A row that was collected meanwhile is not found; one that expired is.
Exchangeable(c) == challenge[c].state # "collected" /\ challengeUsedBy[c] = Nobody

ClaimChallenge(x) ==
  /\ stage[x] = "claim" /\ ~ChallengeLocked(call[x].challenge)
  /\ Proceed(x, Exchangeable(call[x].challenge), "mint")
  /\ UNCHANGED seen

\* Mutant: the session is inserted outside the transaction of the claim.
MintAlone(x) == UNCHANGED challengeUsedBy


Spend(x) == challengeUsedBy' = [challengeUsedBy EXCEPT ![call[x].challenge] = x]

\* INSERT INTO agent_sessions; COMMIT.  The agent is not looked at again.
MintSession(x) ==
  /\ stage[x] = "mint"
  /\ session' = [session EXCEPT ![x] = "live"]
  /\ Spend(x)
  /\ Goto(x, "minted")
  /\ UNCHANGED <<revoked, publicKey, token, challenge, tokenUsedBy, call, seen>>

-----------------------------------------------------------------------------
(* Revocations, failures and time *)

\* An open transaction is rolled back.  A request that fails elsewhere has written
\* nothing, and takes no further step.
Abort(r) ==
  /\ stage[r] \in {"bind", "commit", "mint"}
  /\ Proceed(r, FALSE, "refused")
  /\ UNCHANGED seen

\* agents.revoke and the removal of its owner: the row and the sessions that
\* are live, in one transaction that waits for the row.  A revoked agent can be
\* revoked again.
RevokeAgent(a) ==
  /\ ~AgentLocked(a)
  /\ revoked' = [revoked EXCEPT ![a] = TRUE]
  /\ session' = [x \in Exchanges |->
       IF call[x].agent = a /\ session[x] = "live" THEN "revoked" ELSE session[x]]
  /\ UNCHANGED <<publicKey, token, challenge, tokenUsedBy, challengeUsedBy, call, stage, seen>>

\* auth.revokeSession.
RevokeSession(x) ==
  /\ session[x] \in {"live", "expired"}
  /\ session' = [session EXCEPT ![x] = "revoked"]
  /\ UNCHANGED <<revoked, publicKey, token, challenge, tokenUsedBy, challengeUsedBy,
                 call, stage, seen>>

Expire ==
  /\ \/ /\ \E t \in Tokens : token[t].state = "fresh"
             /\ token' = [token EXCEPT ![t].state = "expired"]
        /\ UNCHANGED <<challenge, session>>
     \/ /\ \E c \in Challenges : challenge[c].state = "fresh"
             /\ challenge' = [challenge EXCEPT ![c].state = "expired"]
        /\ UNCHANGED <<token, session>>
     \/ /\ \E x \in Exchanges : session[x] = "live"
             /\ session' = [session EXCEPT ![x] = "expired"]
        /\ UNCHANGED <<token, challenge>>
  /\ UNCHANGED <<revoked, publicKey, tokenUsedBy, challengeUsedBy, call, stage, seen>>

Enroll(e) ==
  ReadToken(e) \/ ReadEnrollAgent(e) \/ ClaimToken(e) \/ BindKey(e) \/ CommitEnroll(e)

Exchange(x) ==
  ReadExchangeAgent(x) \/ ReadChallenge(x) \/ ClaimChallenge(x) \/ MintSession(x)

Next ==
  \/ \E t \in Tokens : InsertToken(t) \/ \E a \in Agents : CheckIssue(t, a)
  \/ \E c \in Challenges : InsertChallenge(c) \/ \E a \in Agents : CheckChallenge(c, a)
  \/ \E e \in Enrolls : Enroll(e)
  \/ \E x \in Exchanges : Exchange(x) \/ RevokeSession(x)
  \/ \E r \in Enrolls \cup Exchanges : Abort(r)
  \/ \E a \in Agents : RevokeAgent(a)
  \/ Expire

Spec == Init /\ [][Next]_vars

-----------------------------------------------------------------------------
(* Properties *)

Bootstrap == INSTANCE OneTimeToken WITH
  Tokens <- Tokens, Holders <- Enrolls,
  issued <- {t \in Tokens : token[t].state \notin {"none", "checked"}}, spentBy <- tokenUsedBy

\* A bootstrap token enrolls once (docs/specs/API.md "bootstrap tokens are
\* single-use"), however many enrollments race for it.
BootstrapWorksOnce == Bootstrap!Spec

Login == INSTANCE OneTimeToken WITH
  Tokens <- Challenges, Holders <- Exchanges,
  issued <- {c \in Challenges : challenge[c].state \notin {"none", "checked"}},
  spentBy <- challengeUsedBy

\* A challenge is exchanged once, whatever is collected or rolled back.
ChallengeWorksOnce == Login!Spec

\* The key of an agent is never replaced and never given to a revoked agent,
\* although several tokens may be live and every check precedes the write.
KeyIsFinal ==
  [][\A a \in Agents : publicKey'[a] # publicKey[a] => publicKey[a] = NoKey /\ ~revoked[a]]_vars

\* An enrollment takes effect as a whole: a token is spent only by the request
\* whose key the agent has, so a lost race burns no token.
SpentTokenEnrolled ==
  \A t \in Tokens : tokenUsedBy[t] # Nobody =>
    publicKey[token[t].agent] = call[tokenUsedBy[t]].key

\* A session was minted for a challenge of its agent, spent on it and signed
\* with the key the agent has; and a challenge is not spent for nothing.
SessionIsEarned ==
  \A x \in Exchanges :
    /\ (session[x] # "none") <=> (\E c \in Challenges : challengeUsedBy[c] = x)
    /\ session[x] # "none" =>
         /\ challenge[call[x].challenge].agent = call[x].agent
         /\ challengeUsedBy[call[x].challenge] = x
         /\ publicKey[call[x].agent] = call[x].key
=============================================================================
