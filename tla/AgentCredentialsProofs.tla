---------------------- MODULE AgentCredentialsProofs ----------------------
(***************************************************************************)
(* Proofs about AgentCredentials for any number of agents, keys, tokens,   *)
(* challenges and requests.                                                *)
(*                                                                         *)
(* IInv is the inductive invariant.  That a token or a challenge works     *)
(* once rests on the row lock an open transaction holds (TokenHeld,        *)
(* ChallengeHeld), and that a session is signed with its agent's key on    *)
(* the key an exchange read never being replaced while it runs             *)
(* (Exchanging), which AgentHeld gives.                                    *)
(*                                                                         *)
(* Two sections are about the client that keeps such a session             *)
(* (AgentClient); LoopInv and Mounted are inductive there.  The last one   *)
(* is about accounts that agents made and people claim (AccountClaim, as   *)
(* Claims): ClaimInv is inductive, in which Held says that an account row  *)
(* is locked from its claim to the COMMIT.                                 *)
(***************************************************************************)
EXTENDS AgentsAndAccounts, Naturals, FiniteSetTheorems, TLAPS

IsIssued(row) == row.state \notin {"none", "checked"}

\* The agent an enrollment is for.
AgentOf(e) == token[call[e].token].agent

\* A row that exists, or is about to, is of an agent.
Rows ==
  /\ \A t \in Tokens : token[t].state # "none" => token[t].agent \in Agents
  /\ \A c \in Challenges : challenge[c].state # "none" => challenge[c].agent \in Agents

Enrolling ==
  \A e \in Enrolls : stage[e] \in {"agent", "claim", "bind", "commit"} =>
    IsIssued(token[call[e].token])

\* An enrollment that has updated the token's row is alone with it, and the row
\* is unused; likewise the agent's row, which is still without a key.
TokenHeld ==
  \A e \in Enrolls : stage[e] \in {"bind", "commit"} =>
    /\ tokenUsedBy[call[e].token] = Nobody
    /\ \A f \in Enrolls :
         stage[f] \in {"bind", "commit"} /\ call[f].token = call[e].token => f = e

AgentHeld ==
  \A e \in Enrolls : stage[e] = "commit" =>
    /\ Bindable(AgentOf(e))
    /\ \A f \in Enrolls : stage[f] = "commit" /\ AgentOf(f) = AgentOf(e) => f = e

Spent ==
  \A t \in Tokens : tokenUsedBy[t] # Nobody =>
    /\ IsIssued(token[t])
    /\ publicKey[token[t].agent] = call[tokenUsedBy[t]].key

\* The key that an exchange read is still its agent's, and the challenge it
\* found is its agent's.
KeySeen(x) == seen[x] = publicKey[call[x].agent] /\ seen[x] # NoKey
Matched(x) ==
  /\ IsIssued(challenge[call[x].challenge])
  /\ challenge[call[x].challenge].agent = call[x].agent
  /\ publicKey[call[x].agent] = call[x].key

Exchanging ==
  \A x \in Exchanges :
    /\ stage[x] \in {"challenge", "claim", "mint"} => KeySeen(x)
    /\ stage[x] \in {"claim", "mint", "minted"} => Matched(x)

ChallengeHeld ==
  \A x \in Exchanges : stage[x] = "mint" =>
    /\ challengeUsedBy[call[x].challenge] = Nobody
    /\ \A y \in Exchanges :
         stage[y] = "mint" /\ call[y].challenge = call[x].challenge => y = x

\* A session, its exchange's end and its spent challenge go together.
Minted ==
  /\ \A x \in Exchanges :
       /\ session[x] # "none" <=> stage[x] = "minted"
       /\ stage[x] = "minted" => challengeUsedBy[call[x].challenge] = x
  /\ \A c \in Challenges : challengeUsedBy[c] # Nobody =>
       /\ stage[challengeUsedBy[c]] = "minted"
       /\ call[challengeUsedBy[c]].challenge = c

IInv ==
  /\ TypeOK
  /\ Rows
  /\ Enrolling
  /\ TokenHeld
  /\ AgentHeld
  /\ Spent
  /\ Exchanging
  /\ ChallengeHeld
  /\ Minted

-----------------------------------------------------------------------------
(* What the steps do *)

Requests == Enrolls \cup Exchanges

\* Only r moves, and no row is written.
OnlyMoves(r) ==
  /\ UNCHANGED <<rows, call>>
  /\ stage' = [stage EXCEPT ![r] = stage'[r]]

EnrollEffect(e) ==
  /\ OnlyMoves(e) /\ UNCHANGED seen
  /\ \/ stage'[e] = "agent" /\ IsIssued(token[call[e].token])
     \/ stage'[e] = "claim" /\ stage[e] = "agent"
     \/ /\ stage'[e] = "bind" /\ stage[e] = "claim"
        /\ ~TokenLocked(call[e].token) /\ tokenUsedBy[call[e].token] = Nobody
     \/ /\ stage'[e] = "commit" /\ stage[e] = "bind"
        /\ ~AgentLocked(AgentOf(e)) /\ Bindable(AgentOf(e))
     \/ stage'[e] = "refused"

ExchangeEffect(x) ==
  /\ OnlyMoves(x)
  /\ seen' = [seen EXCEPT ![x] = seen'[x]]
  /\ seen'[x] \in Keys \cup {NoKey}
  /\ \/ /\ stage'[x] = "challenge" /\ stage[x] = "unsent"
        /\ seen'[x] = publicKey[call[x].agent] /\ seen'[x] # NoKey
     \/ /\ stage'[x] = "claim" /\ stage[x] = "challenge" /\ seen'[x] = seen[x]
        /\ IsIssued(challenge[call[x].challenge])
        /\ challenge[call[x].challenge].agent = call[x].agent
        /\ call[x].key = seen[x]
     \/ /\ stage'[x] = "mint" /\ stage[x] = "claim" /\ seen'[x] = seen[x]
        /\ ~ChallengeLocked(call[x].challenge) /\ challengeUsedBy[call[x].challenge] = Nobody
     \/ stage'[x] = "refused" /\ stage[x] # "minted"

\* Rows keep their agent from the moment they exist.
Grows(old, new) ==
  /\ new \in Issued
  /\ new.agent = old.agent \/ (old.state = "none" /\ new.agent \in Agents)
  /\ old.state # "none" => new.state # "none"
  /\ new.state # "none" /\ old.state = "none" => new.agent \in Agents
  /\ IsIssued(old) => IsIssued(new)

OfficeEffect ==
  /\ UNCHANGED <<publicKey, tokenUsedBy, challengeUsedBy, call, stage, seen>>
  /\ revoked' \in [Agents -> BOOLEAN]
  /\ \A a \in Agents : revoked'[a] # revoked[a] => ~AgentLocked(a)
  /\ token' \in [Tokens -> Issued] /\ challenge' \in [Challenges -> Issued]
  /\ \A t \in Tokens : Grows(token[t], token'[t])
  /\ \A c \in Challenges : Grows(challenge[c], challenge'[c])
  /\ session' \in [Exchanges -> {"none", "live", "expired", "revoked"}]
  /\ \A x \in Exchanges : session'[x] = "none" <=> session[x] = "none"

\* A move sets its request's stage and nothing else's.
LEMMA MoveEffect ==
  ASSUME TypeOK, NEW r \in Requests, NEW ok, NEW s, Proceed(r, ok, s)
  PROVE  OnlyMoves(r) /\ stage'[r] = IF ok THEN s ELSE "refused"
BY DEF TypeOK, Proceed, Goto, OnlyMoves, Requests

\* A step of an enrollment moves it by one stage, and what it claims was free.
LEMMA EnrollMoves ==
  ASSUME TypeOK, NEW e \in Enrolls,
         ReadToken(e) \/ ReadEnrollAgent(e) \/ ClaimToken(e) \/ BindKey(e)
  PROVE  EnrollEffect(e)
<1>. e \in Requests
  BY DEF Requests
<1>1. CASE ReadToken(e)
  BY <1>1, MoveEffect DEF ReadToken, EnrollEffect, IsIssued
<1>2. CASE ReadEnrollAgent(e)
  BY <1>2, MoveEffect DEF ReadEnrollAgent, EnrollEffect
<1>3. CASE ClaimToken(e)
  BY <1>3, MoveEffect DEF ClaimToken, GiveUp, EnrollEffect
<1>4. CASE BindKey(e)
  BY <1>4, MoveEffect DEF BindKey, GiveUp, EnrollEffect, AgentOf
<1>. QED  BY <1>1, <1>2, <1>3, <1>4

\* A step of an exchange before it mints moves it by one stage, and what it claims was free.
LEMMA ExchangeMoves ==
  ASSUME TypeOK, NEW x \in Exchanges,
         ReadExchangeAgent(x) \/ ReadChallenge(x) \/ ClaimChallenge(x)
  PROVE  ExchangeEffect(x)
<1>. x \in Requests /\ call[x].agent \in Agents
  BY DEF Requests, TypeOK, ExchangeCall
<1>1. CASE ReadExchangeAgent(x)
  <2>1. seen' = [seen EXCEPT ![x] = publicKey[call[x].agent]]
    BY <1>1 DEF ReadExchangeAgent
  <2>2. stage[x] = "unsent"
    BY <1>1 DEF ReadExchangeAgent
  <2>3. /\ OnlyMoves(x)
        /\ stage'[x] = IF ~revoked[call[x].agent] /\ publicKey[call[x].agent] # NoKey
                         THEN "challenge" ELSE "refused"
    BY <1>1, MoveEffect DEF ReadExchangeAgent
  <2>. QED  BY <2>1, <2>2, <2>3 DEF ExchangeEffect, TypeOK
<1>2. CASE ReadChallenge(x)
  <2>1. /\ OnlyMoves(x)
        /\ stage'[x] = IF ChallengeFound(x) /\ call[x].key = seen[x] THEN "claim" ELSE "refused"
    BY <1>2, MoveEffect DEF ReadChallenge
  <2>. QED  BY <1>2, <2>1 DEF ReadChallenge, ChallengeFound, ExchangeEffect, IsIssued, TypeOK
<1>3. CASE ClaimChallenge(x)
  <2>1. /\ OnlyMoves(x)
        /\ stage'[x] = IF Exchangeable(call[x].challenge) THEN "mint" ELSE "refused"
    BY <1>3, MoveEffect DEF ClaimChallenge
  <2>. QED  BY <1>3, <2>1 DEF ClaimChallenge, Exchangeable, ExchangeEffect, TypeOK
<1>. QED  BY <1>1, <1>2, <1>3

\* A request that is aborted is refused, and nothing else changes.
LEMMA AbortMoves ==
  ASSUME TypeOK, NEW r \in Requests, Abort(r)
  PROVE  OnlyMoves(r) /\ UNCHANGED seen /\ stage'[r] = "refused" /\ stage[r] # "minted"
BY MoveEffect DEF Abort

\* Issuing, revoking and expiring.
Office ==
  \/ \E t \in Tokens : InsertToken(t) \/ \E a \in Agents : CheckIssue(t, a)
  \/ \E c \in Challenges : InsertChallenge(c) \/ \E a \in Agents : CheckChallenge(c, a)
  \/ \E x \in Exchanges : RevokeSession(x)
  \/ \E a \in Agents : RevokeAgent(a)
  \/ Expire

\* What administrators do: tokens and challenges are issued, agents end.
LEMMA OfficeMoves == ASSUME TypeOK, Office PROVE OfficeEffect
<1>. USE DEF Grows, Issued, IsIssued
<1>1. ASSUME NEW t \in Tokens, InsertToken(t) PROVE OfficeEffect
  BY <1>1 DEF InsertToken, OfficeEffect, TypeOK
<1>2. ASSUME NEW t \in Tokens, NEW a \in Agents, CheckIssue(t, a) PROVE OfficeEffect
  BY <1>2 DEF CheckIssue, OfficeEffect, TypeOK
<1>3. ASSUME NEW c \in Challenges, InsertChallenge(c) PROVE OfficeEffect
  <2>1. PICK old \in SUBSET {d \in Challenges : challenge[d].state = "expired"
          /\ ~ChallengeLocked(d)} :
          challenge' = [d \in Challenges |->
            IF d = c THEN [challenge[d] EXCEPT !.state = "fresh"]
            ELSE IF d \in old THEN [challenge[d] EXCEPT !.state = "collected"]
            ELSE challenge[d]]
    BY <1>3 DEF InsertChallenge
  <2>. QED  BY <1>3, <2>1 DEF InsertChallenge, OfficeEffect, TypeOK
<1>4. ASSUME NEW c \in Challenges, NEW a \in Agents, CheckChallenge(c, a) PROVE OfficeEffect
  BY <1>4 DEF CheckChallenge, OfficeEffect, TypeOK
<1>5. ASSUME NEW x \in Exchanges, RevokeSession(x) PROVE OfficeEffect
  BY <1>5 DEF RevokeSession, OfficeEffect, TypeOK
<1>6. ASSUME NEW a \in Agents, RevokeAgent(a) PROVE OfficeEffect
  BY <1>6 DEF RevokeAgent, OfficeEffect, TypeOK
<1>7. ASSUME Expire PROVE OfficeEffect
  <2>. /\ UNCHANGED <<revoked, publicKey, tokenUsedBy, challengeUsedBy, call, stage, seen>>
    BY <1>7 DEF Expire
  <2>1. ASSUME NEW t \in Tokens, token' = [token EXCEPT ![t].state = "expired"],
               token[t].state = "fresh", UNCHANGED <<challenge, session>>
        PROVE  OfficeEffect
    BY <2>1 DEF OfficeEffect, TypeOK
  <2>2. ASSUME NEW c \in Challenges, challenge' = [challenge EXCEPT ![c].state = "expired"],
               challenge[c].state = "fresh", UNCHANGED <<token, session>>
        PROVE  OfficeEffect
    BY <2>2 DEF OfficeEffect, TypeOK
  <2>3. ASSUME NEW x \in Exchanges, session' = [session EXCEPT ![x] = "expired"],
               session[x] = "live", UNCHANGED <<token, challenge>>
        PROVE  OfficeEffect
    BY <2>3 DEF OfficeEffect, TypeOK
  <2>. QED  BY <1>7, <2>1, <2>2, <2>3 DEF Expire
<1>. QED  BY <1>1, <1>2, <1>3, <1>4, <1>5, <1>6, <1>7 DEF Office

\* Every step is one of these, and only two of them write more than a stage.
LEMMA StepCases ==
  ASSUME TypeOK, [Next]_vars
  PROVE  \/ UNCHANGED vars
         \/ \E e \in Enrolls : EnrollEffect(e) \/ CommitEnroll(e)
         \/ \E x \in Exchanges : ExchangeEffect(x) \/ MintSession(x)
         \/ \E r \in Requests : /\ OnlyMoves(r) /\ UNCHANGED seen
                                /\ stage'[r] = "refused" /\ stage[r] # "minted"
         \/ OfficeEffect
BY EnrollMoves, ExchangeMoves, AbortMoves, OfficeMoves
   DEF Next, Enroll, Exchange, Office, Requests

-----------------------------------------------------------------------------
(* Each conjunct of the invariant is preserved *)

LEMMA StagesDiffer == Enrolls \cap Exchanges = {} /\ Nobody \notin Requests
BY CredentialConstants DEF Requests

\* Every step keeps the type of every variable.
LEMMA TypeStep == TypeOK /\ [Next]_vars => TypeOK'
<1>. SUFFICES ASSUME TypeOK, [Next]_vars PROVE TypeOK'
  OBVIOUS
<1>. USE DEF Requests
<1>1. CASE UNCHANGED vars
  BY <1>1 DEF vars, rows, TypeOK
<1>2. ASSUME NEW e \in Enrolls, EnrollEffect(e) PROVE TypeOK'
  <2>1. stage'[e] \in EnrollStages /\ e \notin Exchanges
    BY <1>2, StagesDiffer DEF EnrollEffect, EnrollStages
  <2>. QED  BY <1>2, <2>1 DEF EnrollEffect, OnlyMoves, rows, TypeOK
<1>3. ASSUME NEW x \in Exchanges, ExchangeEffect(x) PROVE TypeOK'
  <2>1. stage'[x] \in ExchangeStages /\ x \notin Enrolls
    BY <1>3, StagesDiffer DEF ExchangeEffect, ExchangeStages
  <2>2. seen' \in [Exchanges -> Keys \cup {NoKey}]
    BY <1>3 DEF ExchangeEffect, TypeOK
  <2>. QED  BY <1>3, <2>1, <2>2 DEF ExchangeEffect, OnlyMoves, rows, TypeOK
<1>4. ASSUME NEW r \in Requests, OnlyMoves(r), UNCHANGED seen, stage'[r] = "refused"
      PROVE  TypeOK'
  <2>1. "refused" \in EnrollStages /\ "refused" \in ExchangeStages
    BY DEF EnrollStages, ExchangeStages
  <2>. QED  BY <1>4, <2>1 DEF OnlyMoves, rows, TypeOK
<1>5. ASSUME NEW e \in Enrolls, CommitEnroll(e) PROVE TypeOK'
  <2>1. "enrolled" \in EnrollStages /\ e \notin Exchanges
    BY StagesDiffer DEF EnrollStages
  <2>2. call[e].key \in Keys
    BY DEF TypeOK, EnrollCall
  <2>. QED  BY <1>5, <2>1, <2>2 DEF CommitEnroll, Goto, TypeOK
<1>6. ASSUME NEW x \in Exchanges, MintSession(x) PROVE TypeOK'
  <2>1. "minted" \in ExchangeStages /\ x \notin Enrolls
    BY StagesDiffer DEF ExchangeStages
  <2>. QED  BY <1>6, <2>1 DEF MintSession, Spend, Goto, TypeOK
<1>7. CASE OfficeEffect
  BY <1>7 DEF OfficeEffect, TypeOK
<1>. QED  BY <1>1, <1>2, <1>3, <1>4, <1>5, <1>6, <1>7, StepCases

\* Every token and every challenge that exists stays one of an agent.
LEMMA RowsStep == TypeOK /\ Rows /\ [Next]_vars => Rows'
<1>. SUFFICES ASSUME TypeOK, Rows, [Next]_vars PROVE Rows'
  OBVIOUS
<1>1. CASE OfficeEffect
  BY <1>1 DEF OfficeEffect, Grows, Rows
<1>2. CASE UNCHANGED <<token, challenge>>
  BY <1>2 DEF Rows
<1>. QED
  BY <1>1, <1>2, StepCases
  DEF vars, rows, EnrollEffect, ExchangeEffect, OnlyMoves, CommitEnroll, MintSession

\* The token that an enrollment has read stays issued.
LEMMA EnrollingStep == TypeOK /\ Enrolling /\ [Next]_vars => Enrolling'
<1>. SUFFICES ASSUME TypeOK, Enrolling, [Next]_vars PROVE Enrolling'
  OBVIOUS
<1>. USE DEF Requests
<1>1. CASE UNCHANGED vars
  BY <1>1 DEF vars, rows, Enrolling
<1>2. ASSUME NEW e \in Enrolls, EnrollEffect(e) PROVE Enrolling'
  BY <1>2 DEF EnrollEffect, OnlyMoves, rows, TypeOK, Enrolling
<1>3. ASSUME NEW x \in Exchanges, ExchangeEffect(x) PROVE Enrolling'
  BY <1>3, StagesDiffer DEF ExchangeEffect, OnlyMoves, rows, TypeOK, Enrolling
<1>4. ASSUME NEW r \in Requests, OnlyMoves(r), stage'[r] = "refused" PROVE Enrolling'
  BY <1>4 DEF OnlyMoves, rows, TypeOK, Enrolling
<1>5. ASSUME NEW e \in Enrolls, CommitEnroll(e) PROVE Enrolling'
  BY <1>5 DEF CommitEnroll, Goto, TypeOK, Enrolling
<1>6. ASSUME NEW x \in Exchanges, MintSession(x) PROVE Enrolling'
  BY <1>6, StagesDiffer DEF MintSession, Goto, TypeOK, Enrolling
<1>7. CASE OfficeEffect
  <2>1. \A e \in Enrolls : call[e].token \in Tokens
    BY DEF TypeOK, EnrollCall
  <2>. QED  BY <1>7, <2>1 DEF OfficeEffect, Grows, Enrolling
<1>. QED  BY <1>1, <1>2, <1>3, <1>4, <1>5, <1>6, <1>7, StepCases

\* At most one enrollment holds the lock of a token.
LEMMA TokenHeldStep == TypeOK /\ TokenHeld /\ [Next]_vars => TokenHeld'
<1>. SUFFICES ASSUME TypeOK, TokenHeld, [Next]_vars PROVE TokenHeld'
  OBVIOUS
<1>. USE DEF Requests
<1>1. CASE UNCHANGED vars
  BY <1>1 DEF vars, rows, TokenHeld
<1>2. ASSUME NEW e \in Enrolls, EnrollEffect(e) PROVE TokenHeld'
  BY <1>2 DEF EnrollEffect, OnlyMoves, rows, TypeOK, TokenHeld, TokenLocked
<1>3. ASSUME NEW x \in Exchanges, ExchangeEffect(x) PROVE TokenHeld'
  BY <1>3, StagesDiffer DEF ExchangeEffect, OnlyMoves, rows, TypeOK, TokenHeld
<1>4. ASSUME NEW r \in Requests, OnlyMoves(r), stage'[r] = "refused" PROVE TokenHeld'
  BY <1>4 DEF OnlyMoves, rows, TypeOK, TokenHeld
<1>5. ASSUME NEW e \in Enrolls, CommitEnroll(e) PROVE TokenHeld'
  BY <1>5 DEF CommitEnroll, Goto, TypeOK, TokenHeld
<1>6. ASSUME NEW x \in Exchanges, MintSession(x) PROVE TokenHeld'
  BY <1>6, StagesDiffer DEF MintSession, Goto, TypeOK, TokenHeld
<1>7. CASE OfficeEffect
  BY <1>7 DEF OfficeEffect, TokenHeld
<1>. QED  BY <1>1, <1>2, <1>3, <1>4, <1>5, <1>6, <1>7, StepCases

\* At most one enrollment holds the lock of an agent.
LEMMA AgentHeldStep == TypeOK /\ Rows /\ Enrolling /\ AgentHeld /\ [Next]_vars => AgentHeld'
<1>. SUFFICES ASSUME TypeOK, Rows, Enrolling, AgentHeld, [Next]_vars PROVE AgentHeld'
  OBVIOUS
<1>. USE DEF Requests, AgentOf, Bindable
<1>1. CASE UNCHANGED vars
  BY <1>1 DEF vars, rows, AgentHeld
<1>2. ASSUME NEW e \in Enrolls, EnrollEffect(e) PROVE AgentHeld'
  BY <1>2 DEF EnrollEffect, OnlyMoves, rows, TypeOK, AgentHeld, AgentLocked
<1>3. ASSUME NEW x \in Exchanges, ExchangeEffect(x) PROVE AgentHeld'
  BY <1>3, StagesDiffer DEF ExchangeEffect, OnlyMoves, rows, TypeOK, AgentHeld
<1>4. ASSUME NEW r \in Requests, OnlyMoves(r), stage'[r] = "refused" PROVE AgentHeld'
  BY <1>4 DEF OnlyMoves, rows, TypeOK, AgentHeld
<1>5. ASSUME NEW e \in Enrolls, CommitEnroll(e) PROVE AgentHeld'
  BY <1>5 DEF CommitEnroll, Goto, TypeOK, AgentHeld
<1>6. ASSUME NEW x \in Exchanges, MintSession(x) PROVE AgentHeld'
  BY <1>6, StagesDiffer DEF MintSession, Goto, TypeOK, AgentHeld
<1>7. CASE OfficeEffect
  <2>1. \A e \in Enrolls : stage[e] = "commit" =>
          token'[call[e].token].agent = token[call[e].token].agent
    BY <1>7 DEF OfficeEffect, Grows, Enrolling, IsIssued, TypeOK, EnrollCall
  <2>2. \A e \in Enrolls : stage[e] = "commit" =>
          revoked'[AgentOf(e)] = revoked[AgentOf(e)]
    <3>1. \A e \in Enrolls : stage[e] = "commit" => AgentOf(e) \in Agents
      BY DEF Enrolling, IsIssued, Rows, TypeOK, EnrollCall
    <3>. QED  BY <1>7, <3>1 DEF OfficeEffect, AgentLocked
  <2>. QED  BY <1>7, <2>1, <2>2 DEF OfficeEffect, AgentHeld
<1>. QED  BY <1>1, <1>2, <1>3, <1>4, <1>5, <1>6, <1>7, StepCases

\* A token that has paid for a key stays spent.
LEMMA SpentStep ==
  TypeOK /\ Rows /\ Enrolling /\ TokenHeld /\ AgentHeld /\ Spent /\ [Next]_vars => Spent'
<1>. SUFFICES ASSUME TypeOK, Rows, Enrolling, TokenHeld, AgentHeld, Spent, [Next]_vars
              PROVE  Spent'
  OBVIOUS
<1>1. CASE UNCHANGED <<token, tokenUsedBy, publicKey, call>>
  BY <1>1 DEF Spent
<1>2. ASSUME NEW e \in Enrolls, CommitEnroll(e) PROVE Spent'
  <2>. DEFINE t == call[e].token
  <2>1. /\ t \in Tokens /\ IsIssued(token[t]) /\ token[t].agent \in Agents
        /\ publicKey[token[t].agent] = NoKey
    BY <1>2 DEF CommitEnroll, TypeOK, EnrollCall, Enrolling, IsIssued, Rows, AgentHeld,
                Bindable, AgentOf
  <2>2. \A s \in Tokens : tokenUsedBy[s] # Nobody =>
          call[tokenUsedBy[s]].key \in Keys /\ token[s].agent # token[t].agent
    BY <2>1, CredentialConstants DEF Spent, TypeOK, EnrollCall
  <2>3. tokenUsedBy' = [tokenUsedBy EXCEPT ![t] = e] /\ UNCHANGED <<token, call>>
    BY <1>2 DEF CommitEnroll
  <2>4. publicKey' = [publicKey EXCEPT ![token[t].agent] = call[e].key]
    BY <1>2 DEF CommitEnroll
  <2>5. publicKey'[token[t].agent] = call[e].key
    BY <2>1, <2>4 DEF TypeOK
  <2>6. \A s \in Tokens : tokenUsedBy[s] # Nobody =>
          publicKey'[token[s].agent] = publicKey[token[s].agent]
    BY <2>2, <2>4 DEF TypeOK
  <2>. QED  BY <2>1, <2>3, <2>5, <2>6 DEF Spent, TypeOK
<1>3. CASE OfficeEffect
  BY <1>3 DEF OfficeEffect, Grows, Spent, IsIssued
<1>. QED
  BY <1>1, <1>2, <1>3, StepCases
  DEF vars, rows, EnrollEffect, ExchangeEffect, OnlyMoves, MintSession

\* An exchange is not disturbed while it runs: its key is its agent's for good.
LEMMA ExchangingStep == TypeOK /\ AgentHeld /\ Exchanging /\ [Next]_vars => Exchanging'
<1>. SUFFICES ASSUME TypeOK, AgentHeld, Exchanging, [Next]_vars PROVE Exchanging'
  OBVIOUS
<1>. USE DEF Requests, KeySeen, Matched
<1>0. \A x \in Exchanges : /\ call[x].agent \in Agents /\ call[x].key \in Keys
                           /\ call[x].challenge \in Challenges
  BY DEF TypeOK, ExchangeCall
<1>1. CASE UNCHANGED vars
  BY <1>1 DEF vars, rows, Exchanging
<1>2. ASSUME NEW e \in Enrolls, EnrollEffect(e) PROVE Exchanging'
  BY <1>2, StagesDiffer DEF EnrollEffect, OnlyMoves, rows, TypeOK, Exchanging
<1>3. ASSUME NEW x \in Exchanges, ExchangeEffect(x) PROVE Exchanging'
  BY <1>0, <1>3 DEF ExchangeEffect, OnlyMoves, rows, TypeOK, Exchanging
<1>4. ASSUME NEW r \in Requests, OnlyMoves(r), UNCHANGED seen, stage'[r] = "refused"
      PROVE  Exchanging'
  BY <1>4 DEF OnlyMoves, rows, TypeOK, Exchanging
<1>5. ASSUME NEW e \in Enrolls, CommitEnroll(e) PROVE Exchanging'
  <2>1. \A a \in Agents : publicKey[a] # NoKey => publicKey'[a] = publicKey[a]
    BY <1>5 DEF CommitEnroll, AgentHeld, Bindable, AgentOf, TypeOK
  <2>2. \A x \in Exchanges : stage'[x] = stage[x]
    BY <1>5, StagesDiffer DEF CommitEnroll, Goto, TypeOK
  <2>. QED  BY <1>0, <1>5, <2>1, <2>2, CredentialConstants DEF CommitEnroll, Exchanging
<1>6. ASSUME NEW x \in Exchanges, MintSession(x) PROVE Exchanging'
  BY <1>6 DEF MintSession, Goto, TypeOK, Exchanging
<1>7. CASE OfficeEffect
  BY <1>0, <1>7 DEF OfficeEffect, Grows, IsIssued, Exchanging
<1>. QED  BY <1>1, <1>2, <1>3, <1>4, <1>5, <1>6, <1>7, StepCases

\* A challenge that an exchange has claimed stays its own.
LEMMA ChallengeHeldStep == TypeOK /\ ChallengeHeld /\ [Next]_vars => ChallengeHeld'
<1>. SUFFICES ASSUME TypeOK, ChallengeHeld, [Next]_vars PROVE ChallengeHeld'
  OBVIOUS
<1>. USE DEF Requests
<1>1. CASE UNCHANGED vars
  BY <1>1 DEF vars, rows, ChallengeHeld
<1>2. ASSUME NEW e \in Enrolls, EnrollEffect(e) PROVE ChallengeHeld'
  BY <1>2, StagesDiffer DEF EnrollEffect, OnlyMoves, rows, TypeOK, ChallengeHeld
<1>3. ASSUME NEW x \in Exchanges, ExchangeEffect(x) PROVE ChallengeHeld'
  BY <1>3 DEF ExchangeEffect, OnlyMoves, rows, TypeOK, ChallengeHeld, ChallengeLocked
<1>4. ASSUME NEW r \in Requests, OnlyMoves(r), stage'[r] = "refused" PROVE ChallengeHeld'
  BY <1>4 DEF OnlyMoves, rows, TypeOK, ChallengeHeld
<1>5. ASSUME NEW e \in Enrolls, CommitEnroll(e) PROVE ChallengeHeld'
  BY <1>5, StagesDiffer DEF CommitEnroll, Goto, TypeOK, ChallengeHeld
<1>6. ASSUME NEW x \in Exchanges, MintSession(x) PROVE ChallengeHeld'
  BY <1>6 DEF MintSession, Spend, Goto, TypeOK, ChallengeHeld
<1>7. CASE OfficeEffect
  BY <1>7 DEF OfficeEffect, ChallengeHeld
<1>. QED  BY <1>1, <1>2, <1>3, <1>4, <1>5, <1>6, <1>7, StepCases

\* A session that was minted stays paid for by a challenge signed with the key of its agent.
LEMMA MintedStep == TypeOK /\ ChallengeHeld /\ Minted /\ [Next]_vars => Minted'
<1>. SUFFICES ASSUME TypeOK, ChallengeHeld, Minted, [Next]_vars PROVE Minted'
  OBVIOUS
<1>. USE DEF Requests
<1>1. CASE UNCHANGED vars
  BY <1>1 DEF vars, rows, Minted
<1>0. \A c \in Challenges : challengeUsedBy[c] # Nobody => challengeUsedBy[c] \in Exchanges
  BY DEF TypeOK
<1>2. ASSUME NEW e \in Enrolls, EnrollEffect(e) PROVE Minted'
  <2>1. \A x \in Exchanges : stage'[x] = stage[x]
    BY <1>2, StagesDiffer DEF EnrollEffect, OnlyMoves, TypeOK
  <2>2. UNCHANGED <<session, challengeUsedBy, call>>
    BY <1>2 DEF EnrollEffect, OnlyMoves, rows
  <2>. QED  BY <1>0, <2>1, <2>2 DEF Minted
<1>3. ASSUME NEW x \in Exchanges, ExchangeEffect(x) PROVE Minted'
  <2>1. stage[x] # "minted" /\ stage'[x] # "minted"
    BY <1>3 DEF ExchangeEffect
  <2>. QED  BY <1>3, <2>1 DEF ExchangeEffect, OnlyMoves, rows, TypeOK, Minted
<1>4. ASSUME NEW r \in Requests, OnlyMoves(r), stage'[r] = "refused", stage[r] # "minted"
      PROVE  Minted'
  BY <1>4 DEF OnlyMoves, rows, TypeOK, Minted
<1>5. ASSUME NEW e \in Enrolls, CommitEnroll(e) PROVE Minted'
  BY <1>5, StagesDiffer DEF CommitEnroll, Goto, TypeOK, Minted
<1>6. ASSUME NEW x \in Exchanges, MintSession(x) PROVE Minted'
  <2>1. call[x].challenge \in Challenges /\ challengeUsedBy[call[x].challenge] = Nobody
    BY <1>6 DEF MintSession, ChallengeHeld, TypeOK, ExchangeCall
  <2>2. stage[x] = "mint" /\ x # Nobody
    BY <1>6, StagesDiffer DEF MintSession
  <2>3. /\ session' = [session EXCEPT ![x] = "live"] /\ call' = call
        /\ challengeUsedBy' = [challengeUsedBy EXCEPT ![call[x].challenge] = x]
        /\ stage' = [stage EXCEPT ![x] = "minted"]
    BY <1>6 DEF MintSession, Spend, Goto
  <2>4. \A y \in Exchanges : y # x => session'[y] = session[y] /\ stage'[y] = stage[y]
    BY <2>3 DEF TypeOK
  <2>5. session'[x] = "live" /\ stage'[x] = "minted"
    BY <2>3 DEF TypeOK
  <2>6. /\ challengeUsedBy'[call[x].challenge] = x
        /\ \A c \in Challenges : c # call[x].challenge => challengeUsedBy'[c] = challengeUsedBy[c]
    BY <2>1, <2>3 DEF TypeOK
  <2>7. \A y \in Exchanges : y # x /\ stage[y] = "minted" => challengeUsedBy'[call[y].challenge] = y
    BY <2>1, <2>6, StagesDiffer DEF Minted, TypeOK, ExchangeCall
  <2>. QED  BY <1>0, <2>2, <2>3, <2>4, <2>5, <2>6, <2>7 DEF Minted
<1>7. CASE OfficeEffect
  BY <1>7 DEF OfficeEffect, Minted
<1>. QED  BY <1>1, <1>2, <1>3, <1>4, <1>5, <1>6, <1>7, StepCases

-----------------------------------------------------------------------------
(* Theorems *)

LEMMA InitIInv == Init => IInv
<1>. SUFFICES ASSUME Init PROVE IInv
  OBVIOUS
<1>1. TypeOK
  BY DEF Init, TypeOK, Issued, Unissued, EnrollStages, ExchangeStages
<1>2. Rows /\ Spent
  BY DEF Init, Rows, Spent, Unissued
<1>3. Enrolling /\ TokenHeld /\ AgentHeld
  BY DEF Init, Enrolling, TokenHeld, AgentHeld
<1>4. Exchanging /\ ChallengeHeld /\ Minted
  BY DEF Init, Exchanging, ChallengeHeld, Minted
<1>. QED  BY <1>1, <1>2, <1>3, <1>4 DEF IInv

\* The inductive invariant of enrollment and session exchange.
THEOREM Invariance == Spec => []IInv
<1>1. IInv /\ [Next]_vars => IInv'
  BY TypeStep, RowsStep, EnrollingStep, TokenHeldStep, AgentHeldStep, SpentStep,
     ExchangingStep, ChallengeHeldStep, MintedStep DEF IInv
<1>. QED  BY <1>1, InitIInv, PTL DEF Spec

\* Every value stays of its type.
THEOREM TypeCorrect == Spec => []TypeOK
<1>1. IInv => TypeOK
  BY DEF IInv
<1>. QED  BY <1>1, Invariance, PTL

\* A bootstrap token is spent only by the enrollment whose key its agent has
\* (auth.ts enrollAgent): a lost race burns no token.
THEOREM TokensPayForKeys == Spec => []SpentTokenEnrolled
<1>1. IInv => SpentTokenEnrolled
  BY DEF IInv, Spent, SpentTokenEnrolled
<1>. QED  BY <1>1, Invariance, PTL

\* Every session was minted for a challenge of its agent, spent on it and signed
\* with the key the agent still has (auth.ts exchangeAgentSession).
THEOREM SessionsAreEarned == Spec => []SessionIsEarned
<1>1. IInv => SessionIsEarned
  <2>. SUFFICES ASSUME IInv, NEW x \in Exchanges
                PROVE  /\ (session[x] # "none") <=> (\E c \in Challenges : challengeUsedBy[c] = x)
                       /\ session[x] # "none" =>
                            /\ challenge[call[x].challenge].agent = call[x].agent
                            /\ challengeUsedBy[call[x].challenge] = x
                            /\ publicKey[call[x].agent] = call[x].key
    BY DEF SessionIsEarned
  <2>1. call[x].challenge \in Challenges /\ x # Nobody
    BY CredentialConstants DEF IInv, TypeOK, ExchangeCall
  <2>. QED  BY <2>1 DEF IInv, Minted, Exchanging, Matched
<1>. QED  BY <1>1, Invariance, PTL

\* The key of an agent is written once, to an agent that is not revoked,
\* although the checks of enrollAgent precede its transaction.
THEOREM KeysAreFinal == Spec => KeyIsFinal
<1>1. IInv /\ [Next]_vars =>
        [\A a \in Agents : publicKey'[a] # publicKey[a] =>
           publicKey[a] = NoKey /\ ~revoked[a]]_vars
  <2>. SUFFICES ASSUME IInv, [Next]_vars, NEW a \in Agents, publicKey'[a] # publicKey[a]
                PROVE  publicKey[a] = NoKey /\ ~revoked[a]
    OBVIOUS
  <2>1. PICK e \in Enrolls : CommitEnroll(e)
    BY StepCases
    DEF IInv, vars, rows, EnrollEffect, ExchangeEffect, OnlyMoves, MintSession, OfficeEffect
  <2>. QED  BY <2>1 DEF CommitEnroll, IInv, AgentHeld, Bindable, AgentOf, TypeOK
<1>. QED  BY <1>1, Invariance, PTL DEF Spec, KeyIsFinal

\* Bootstrap tokens implement one-time tokens.
THEOREM BootstrapsWorkOnce == Spec => BootstrapWorksOnce
<1>. DEFINE issued == {t \in Tokens : token[t].state \notin {"none", "checked"}}
<1>1. Init => Bootstrap!Init
  BY DEF Init, Unissued, Bootstrap!Init
<1>2. IInv /\ [Next]_vars => [Bootstrap!Next]_<<issued, tokenUsedBy>>
  <2>. SUFFICES ASSUME IInv, [Next]_vars,
                       <<issued, tokenUsedBy>>' # <<issued, tokenUsedBy>>
                PROVE  Bootstrap!Next
    OBVIOUS
  <2>1. CASE OfficeEffect
    <3>1. issued \subseteq issued' /\ issued' \subseteq Tokens /\ tokenUsedBy' = tokenUsedBy
      BY <2>1 DEF OfficeEffect, Grows, IsIssued
    <3>2. issued' \ issued \in SUBSET (Tokens \ issued) /\ issued' = issued \cup (issued' \ issued)
      BY <3>1
    <3>. QED  BY <3>1, <3>2 DEF Bootstrap!Next, Bootstrap!Issue
  <2>2. ASSUME NEW e \in Enrolls, CommitEnroll(e) PROVE Bootstrap!Next
    <3>1. /\ call[e].token \in issued /\ tokenUsedBy[call[e].token] = Nobody
          /\ call[e].token \in Tokens
      BY <2>2 DEF CommitEnroll, IInv, Enrolling, TokenHeld, IsIssued, TypeOK, EnrollCall
    <3>2. tokenUsedBy' = [tokenUsedBy EXCEPT ![call[e].token] = e] /\ issued' = issued
      BY <2>2 DEF CommitEnroll
    <3>. QED  BY <3>1, <3>2 DEF Bootstrap!Next, Bootstrap!Spend
  <2>. QED
    BY <2>1, <2>2, StepCases
    DEF IInv, vars, rows, EnrollEffect, ExchangeEffect, OnlyMoves, MintSession
<1>. QED  BY <1>1, <1>2, Invariance, PTL DEF Spec, BootstrapWorksOnce, Bootstrap!Spec

\* Session challenges implement one-time tokens, whatever is collected meanwhile.
THEOREM ChallengesWorkOnce == Spec => ChallengeWorksOnce
<1>. DEFINE issued == {c \in Challenges : challenge[c].state \notin {"none", "checked"}}
<1>1. Init => Login!Init
  BY DEF Init, Unissued, Login!Init
<1>2. IInv /\ [Next]_vars => [Login!Next]_<<issued, challengeUsedBy>>
  <2>. SUFFICES ASSUME IInv, [Next]_vars,
                       <<issued, challengeUsedBy>>' # <<issued, challengeUsedBy>>
                PROVE  Login!Next
    OBVIOUS
  <2>1. CASE OfficeEffect
    <3>1. /\ issued \subseteq issued' /\ issued' \subseteq Challenges
          /\ challengeUsedBy' = challengeUsedBy
      BY <2>1 DEF OfficeEffect, Grows, IsIssued
    <3>2. /\ issued' \ issued \in SUBSET (Challenges \ issued)
          /\ issued' = issued \cup (issued' \ issued)
      BY <3>1
    <3>. QED  BY <3>1, <3>2 DEF Login!Next, Login!Issue
  <2>2. ASSUME NEW x \in Exchanges, MintSession(x) PROVE Login!Next
    <3>1. /\ call[x].challenge \in issued /\ challengeUsedBy[call[x].challenge] = Nobody
          /\ call[x].challenge \in Challenges
      BY <2>2 DEF MintSession, IInv, Exchanging, Matched, ChallengeHeld, IsIssued, TypeOK,
                  ExchangeCall
    <3>2. challengeUsedBy' = [challengeUsedBy EXCEPT ![call[x].challenge] = x] /\ issued' = issued
      BY <2>2 DEF MintSession, Spend
    <3>. QED  BY <3>1, <3>2 DEF Login!Next, Login!Spend
  <2>. QED
    BY <2>1, <2>2, StepCases
    DEF IInv, vars, rows, EnrollEffect, ExchangeEffect, OnlyMoves, CommitEnroll
<1>. QED  BY <1>1, <1>2, Invariance, PTL DEF Spec, ChallengeWorksOnce, Login!Spec
-----------------------------------------------------------------------------
(* The client of the exchanges: proofs about AgentClient for any schedule that *)
(* fits into its margin, any number of calls and of refreshes in flight.       *)

\* A refresh of attempt a, that is due when so much time has passed, comes while the
\* session lives, unless three exchanges have failed.  It follows a failed attempts of
\* the schedule; or it is left over from before the last success, then the session was
\* new when the first attempt after that failed.
Reaches(a, due) ==
  \/ fails >= 3
  \/ a = 0 /\ left >= Margin + due
  \/ a = 1 /\ fails >= 1 /\ left + Delays[1] >= Margin + due
  \/ a = 2 /\ fails >= 2 /\ left + Delays[1] + Delays[2] >= Margin + due
  \/ a > 0 /\ fails = 0 /\ left >= Ttl + due
  \/ a > 1 /\ fails = 1 /\ left + Delays[a] >= Ttl + due
  \/ a > 2 /\ fails = 2 /\ left + Delays[a - 1] + Delays[a] >= Ttl + due

\* The refreshes of a client that is connected all come in time.
InTime ==
  wanted /\ active /\ ~expired =>
    /\ timer # None => Reaches(timer.attempt, timer.due)
    /\ \A a \in Client!Attempts : refreshing[a] > 0 => Reaches(a, 0)

\* The types of what the session is made of.
SessionTypes ==
  /\ left \in 0 .. Ttl /\ fails \in 0 .. Len(Delays)
  /\ timer \in Client!Timer \cup {None}
  /\ refreshing \in [Client!Attempts -> Nat]

LoopInv == SessionTypes /\ Client!LoopAlive /\ InTime

\* The schedule, by its elements.
LEMMA DelaysAre ==
  ASSUME Client!ClientConstants
  PROVE  /\ Len(Delays) \in Nat /\ Len(Delays) >= 3 /\ {Ttl, Margin} \subseteq Nat
         /\ 0 < Margin /\ Margin < Ttl
         /\ Client!Attempts = 0 .. Len(Delays)
         /\ \A a \in 1 .. Len(Delays) : Delays[a] \in Nat /\ Delays[a] > 0
         /\ Delays[1] + Delays[2] < Margin
         /\ \A a \in 2 .. Len(Delays) : Delays[a - 1] + Delays[a] < Ttl
<1>1. Delays \in Seq(Nat \ {0})
  BY DEF Client!ClientConstants
<1>2. Len(Delays) \in Nat
  BY <1>1
<1>3. ASSUME NEW a \in 1 .. Len(Delays)  PROVE  Delays[a] \in Nat \ {0}
  BY <1>1
<1>4. \A a \in 1 .. Len(Delays) : Delays[a] \in Nat /\ Delays[a] > 0
  <2>. SUFFICES ASSUME NEW a \in 1 .. Len(Delays)  PROVE  Delays[a] \in Nat /\ Delays[a] > 0
    OBVIOUS
  <2>. QED  BY <1>3
<1>5. /\ Len(Delays) >= 3 /\ {Ttl, Margin} \subseteq Nat /\ 0 < Margin /\ Margin < Ttl
      /\ Delays[1] + Delays[2] < Margin
      /\ \A a \in 2 .. Len(Delays) : Delays[a - 1] + Delays[a] < Ttl
  BY DEF Client!ClientConstants
<1>6. Client!Attempts = 0 .. Len(Delays)
  BY DEF Client!Attempts
<1>. QED  BY <1>2, <1>4, <1>5, <1>6

\* One failure more, or a shorter wait, and a refresh still comes in time.
LEMMA ReachesStays ==
  ASSUME Client!ClientConstants, SessionTypes, NEW a \in Client!Attempts, NEW due \in Nat,
         NEW sooner \in Nat, sooner <= due, Reaches(a, due), left' = left,
         \/ fails' = fails
         \/ fails' = IF fails < Len(Delays) THEN fails + 1 ELSE fails
  PROVE  Reaches(a, sooner)'
<1>1. left \in Nat /\ fails \in Nat /\ a \in Nat /\ a <= Len(Delays)
  BY DelaysAre DEF SessionTypes
<1>2. fails' = fails \/ fails' = fails + 1 \/ (fails' = fails /\ fails >= 3)
  BY <1>1, DelaysAre
<1>3. Delays[1] \in Nat /\ Delays[2] \in Nat /\ Margin \in Nat /\ Ttl \in Nat /\ Margin < Ttl
      /\ (a >= 1 => Delays[a] \in Nat) /\ (a >= 2 => Delays[a - 1] \in Nat)
  BY <1>1, DelaysAre
<1>4. CASE fails' = fails
  BY <1>1, <1>3, <1>4 DEF Reaches
<1>5. CASE fails' = fails + 1
  <2>1. CASE fails >= 2
    BY <1>1, <1>5, <2>1 DEF Reaches
  <2>2. CASE fails = 1
    BY <1>1, <1>3, <1>5, <2>2 DEF Reaches
  <2>3. CASE fails = 0
    BY <1>1, <1>3, <1>5, <2>3 DEF Reaches
  <2>. QED  BY <1>1, <2>1, <2>2, <2>3
<1>. QED  BY <1>2, <1>4, <1>5

\* Time passes for the session and the timer alike.
LEMMA ReachesTicks ==
  ASSUME Client!ClientConstants, SessionTypes, NEW a \in Client!Attempts, NEW due \in Nat,
         NEW sooner \in Nat, sooner = due - 1, Reaches(a, due), left' = left - 1,
         fails' = fails
  PROVE  Reaches(a, sooner)'
<1>1. left \in Nat /\ fails \in Nat /\ a \in Nat /\ a <= Len(Delays)
  BY DelaysAre DEF SessionTypes
<1>2. Delays[1] \in Nat /\ Delays[2] \in Nat /\ Margin \in Nat /\ Ttl \in Nat
      /\ (a >= 1 => Delays[a] \in Nat) /\ (a >= 2 => Delays[a - 1] \in Nat)
  BY <1>1, DelaysAre
<1>3. CASE fails >= 3
  BY <1>3 DEF Reaches
<1>4. CASE fails = 2
  BY <1>1, <1>2, <1>4 DEF Reaches
<1>5. CASE fails = 1
  BY <1>1, <1>2, <1>5 DEF Reaches
<1>6. CASE fails = 0
  BY <1>1, <1>2, <1>6 DEF Reaches
<1>. QED  BY <1>1, <1>3, <1>4, <1>5, <1>6

\* The retry after a refresh that failed comes in time.
LEMMA RetryReaches ==
  ASSUME Client!ClientConstants, SessionTypes, NEW a \in Client!Attempts, a < Len(Delays),
         Reaches(a, 0), left' = left,
         fails' = IF fails < Len(Delays) THEN fails + 1 ELSE fails
  PROVE  /\ Client!RetryAfter(a) \in Client!Timer
         /\ Reaches(a + 1, Delays[a + 1])'
<1>1. left \in Nat /\ fails \in Nat /\ a \in Nat
  BY DelaysAre DEF SessionTypes
<1>2. fails' = fails + 1 \/ fails' >= 3
  BY <1>1, DelaysAre
<1>3. /\ Delays[1] \in Nat /\ Delays[2] \in Nat /\ Margin \in Nat /\ Ttl \in Nat /\ Margin < Ttl
      /\ Delays[a + 1] \in Nat /\ (a >= 1 => Delays[a] \in Nat)
      /\ a + 1 \in Client!Attempts /\ (a + 1) - 1 = a
  BY <1>1, DelaysAre
<1>6. Client!RetryAfter(a) \in Client!Timer
  BY <1>3 DEF Client!RetryAfter, Client!Timer
<1>. SUFFICES Reaches(a + 1, Delays[a + 1])'
  BY <1>6
<1>4. CASE fails' >= 3
  BY <1>4 DEF Reaches
<1>5. CASE fails' = fails + 1
  <2>1. CASE fails >= 2
    BY <1>1, <1>5, <2>1 DEF Reaches
  <2>2. CASE fails = 1
    <3>1. \/ a = 0 /\ left >= Margin
          \/ a = 1 /\ left + Delays[1] >= Margin
          \/ a > 1 /\ left + Delays[a] >= Ttl
      BY <1>1, <1>3, <2>2 DEF Reaches
    <3>2. CASE a > 1
      BY <1>1, <1>3, <1>5, <2>2, <3>1, <3>2 DEF Reaches
    <3>3. CASE a = 1
      BY <1>1, <1>3, <1>5, <2>2, <3>1, <3>3 DEF Reaches
    <3>4. CASE a = 0
      BY <1>1, <1>3, <1>5, <2>2, <3>1, <3>4 DEF Reaches
    <3>. QED  BY <1>1, <3>2, <3>3, <3>4
  <2>3. CASE fails = 0
    <3>1. (a = 0 /\ left >= Margin) \/ (a > 0 /\ left >= Ttl)
      BY <1>1, <1>3, <2>3 DEF Reaches
    <3>2. CASE a = 0
      BY <1>1, <1>3, <1>5, <2>3, <3>1, <3>2 DEF Reaches
    <3>3. CASE a > 0
      BY <1>1, <1>3, <1>5, <2>3, <3>1, <3>3 DEF Reaches
    <3>. QED  BY <1>1, <3>2, <3>3
  <2>. QED  BY <1>1, <2>1, <2>2, <2>3
<1>. QED  BY <1>2, <1>4, <1>5

\* A step that answers, reads or deletes, and leaves the session as it is.
Aside ==
  \/ \E c \in Calls :
       \/ Client!Access(c) \/ Client!AccessFails(c) \/ Client!WriteFile(c) \/ Client!Register(c)
       \/ Client!ReleaseMount(c) \/ Client!MountTimer(c) \/ Client!Unlinked(c)
  \/ Client!FileTick \/ Client!Sweep

\* A timer that is not due yet ticks.
LEMMA TimerTicks ==
  ASSUME NEW t \in Client!Timer
  PROVE  /\ t.attempt \in Client!Attempts /\ t.due \in Nat
         /\ LET ticked == [t EXCEPT !.due = @ - 1] IN
              /\ ticked.attempt = t.attempt /\ ticked.due = t.due - 1
              /\ t.due > 0 => ticked \in Client!Timer
BY DEF Client!Timer

\* What a step may do to the session.
SessionMoves ==
  \/ UNCHANGED Client!session
  \/ \E c \in Calls : Client!StartsConnecting(c)
  \/ Client!Exchanged /\ wanted' \in {wanted, TRUE} /\ UNCHANGED <<up, active, expired>>
       /\ (UNCHANGED refreshing \/ \E a \in Client!Attempts : Client!Lands(a))
  \/ Client!NotExchanged /\ UNCHANGED <<up, active, timer, refreshing, expired, wanted>>
  \/ Client!Disconnect \/ Client!TimerFires
  \/ \E a \in Client!Attempts : Client!RefreshFails(a)
  \/ Client!SessionTick \/ Client!RetryTick
  \/ Client!ApiChanges \/ Client!AgentRevoked
  \/ Client!Restart

\* Every step is one of these for the session.
LEMMA SessionCases ==
  ASSUME [Client!Next]_(Client!vars)
  PROVE  SessionMoves
<1>. USE DEF SessionMoves
<1>1. CASE UNCHANGED Client!vars
  BY <1>1 DEF Client!vars, Client!session
<1>2. CASE Aside
  BY <1>2 DEF Aside, Client!Access, Client!AccessFails, Client!WriteFile, Client!Register,
              Client!ReleaseMount, Client!MountTimer, Client!Ends, Client!Unlinked,
              Client!FileTick, Client!Sweep
<1>3. ASSUME NEW c \in Calls, Client!AppCall(c) \/ Client!ToolCall(c)
      PROVE  SessionMoves
  BY <1>3 DEF Client!AppCall, Client!ToolCall
<1>4. ASSUME NEW c \in Calls, Client!ConnectSucceeds(c)
      PROVE  SessionMoves
  BY <1>4 DEF Client!ConnectSucceeds
<1>5. ASSUME NEW c \in Calls, Client!ConnectFails(c)
      PROVE  SessionMoves
  BY <1>5 DEF Client!ConnectFails
<1>6. ASSUME NEW a \in Client!Attempts, Client!RefreshSucceeds(a)
      PROVE  SessionMoves
  BY <1>6 DEF Client!RefreshSucceeds
<1>. QED  BY <1>1, <1>2, <1>3, <1>4, <1>5, <1>6 DEF Client!Next, Client!Calling, Aside

\* Every step keeps the types of the session.
LEMMA SessionTypesStep ==
  ASSUME Client!ClientConstants, SessionTypes, SessionMoves
  PROVE  SessionTypes'
<1>. USE DelaysAre DEF SessionTypes, Client!Timer
<1>1. CASE UNCHANGED Client!session
  BY <1>1 DEF Client!session
<1>2. ASSUME NEW c \in Calls, Client!StartsConnecting(c) PROVE SessionTypes'
  BY <1>2 DEF Client!StartsConnecting
<1>3. ASSUME Client!Exchanged, wanted' \in {wanted, TRUE}, UNCHANGED <<up, active, expired>>,
             UNCHANGED refreshing \/ \E a \in Client!Attempts : Client!Lands(a)
      PROVE  SessionTypes'
  <2>1. refreshing' \in [Client!Attempts -> Nat]
    <3>1. CASE \E a \in Client!Attempts : Client!Lands(a)
      <4>1. PICK a \in Client!Attempts : Client!Lands(a)
        BY <3>1
      <4>. QED  BY <4>1 DEF Client!Lands
    <3>. QED  BY <1>3, <3>1
  <2>2. Client!Scheduled \in Client!Timer
    BY DEF Client!Scheduled, Client!RefreshDue
  <2>. QED  BY <1>3, <2>1, <2>2 DEF Client!Exchanged
<1>4. CASE Client!NotExchanged /\ UNCHANGED <<up, active, timer, refreshing, expired, wanted>>
  BY <1>4 DEF Client!NotExchanged
<1>5. CASE Client!Disconnect
  BY <1>5 DEF Client!Disconnect
<1>6. CASE Client!TimerFires
  <2>1. timer \in Client!Timer
    BY <1>6 DEF Client!TimerFires
  <2>. QED  BY <1>6, <2>1 DEF Client!TimerFires
<1>7. ASSUME NEW a \in Client!Attempts, Client!RefreshFails(a) PROVE SessionTypes'
  <2>1. refreshing' \in [Client!Attempts -> Nat]
    BY <1>7 DEF Client!RefreshFails, Client!Lands
  <2>2. a < Len(Delays) => Client!RetryAfter(a) \in Client!Timer
    BY DEF Client!RetryAfter
  <2>3. timer' \in Client!Timer \cup {None}
    BY <1>7, <2>2 DEF Client!RefreshFails
  <2>. QED  BY <1>7, <2>1, <2>3 DEF Client!RefreshFails, Client!NotExchanged
<1>8. CASE Client!SessionTick
  <2>1. timer # None => [timer EXCEPT !.due = @ - 1] \in Client!Timer
    BY <1>8, TimerTicks DEF Client!SessionTick
  <2>. QED  BY <1>8, <2>1 DEF Client!SessionTick
<1>9. CASE Client!RetryTick
  <2>1. [timer EXCEPT !.due = @ - 1] \in Client!Timer
    BY <1>9, TimerTicks DEF Client!RetryTick
  <2>. QED  BY <1>9, <2>1 DEF Client!RetryTick
<1>10. CASE Client!ApiChanges \/ Client!AgentRevoked
  BY <1>10 DEF Client!ApiChanges, Client!AgentRevoked
<1>11. CASE Client!Restart
  BY <1>11 DEF Client!Restart
<1>. QED  BY <1>1, <1>2, <1>3, <1>4, <1>5, <1>6, <1>7, <1>8, <1>9, <1>10, <1>11 DEF SessionMoves

\* Every step keeps the loop alive.
LEMMA LoopAliveStep ==
  ASSUME Client!ClientConstants, LoopInv, SessionMoves
  PROVE  Client!LoopAlive'
<1>. USE DelaysAre DEF Client!LoopAlive, LoopInv, SessionTypes
<1>1. CASE UNCHANGED Client!session
  BY <1>1 DEF Client!session
<1>2. ASSUME NEW c \in Calls, Client!StartsConnecting(c) PROVE Client!LoopAlive'
  BY <1>2 DEF Client!StartsConnecting
<1>3. CASE Client!Exchanged
  <2>1. Client!Scheduled \in Client!Timer
    BY DEF Client!Scheduled, Client!RefreshDue, Client!Timer
  <2>. QED  BY <1>3, <2>1 DEF Client!Exchanged, Client!ClientConstants
<1>4. CASE Client!NotExchanged /\ UNCHANGED <<up, active, timer, refreshing, expired, wanted>>
  BY <1>4
<1>5. CASE Client!Disconnect
  BY <1>5 DEF Client!Disconnect
<1>6. CASE Client!TimerFires
  <2>1. timer.attempt \in Client!Attempts
    BY <1>6 DEF Client!TimerFires, Client!Timer
  <2>2. refreshing'[timer.attempt] > 0
    BY <1>6, <2>1 DEF Client!TimerFires
  <2>. QED  BY <2>1, <2>2
<1>7. ASSUME NEW a \in Client!Attempts, Client!RefreshFails(a) PROVE Client!LoopAlive'
  <2>1. a < Len(Delays) => Client!RetryAfter(a) \in Client!Timer
    BY DEF Client!RetryAfter, Client!Timer
  <2>. QED  BY <1>7, <2>1 DEF Client!RefreshFails, Client!ClientConstants
<1>8. CASE Client!SessionTick
  <2>1. timer # None => [timer EXCEPT !.due = @ - 1] \in Client!Timer
    BY <1>8, TimerTicks DEF Client!SessionTick
  <2>. QED  BY <1>8, <2>1 DEF Client!SessionTick, Client!ClientConstants
<1>9. CASE Client!RetryTick
  <2>1. [timer EXCEPT !.due = @ - 1] \in Client!Timer
    BY <1>9, TimerTicks DEF Client!RetryTick
  <2>. QED  BY <1>9, <2>1 DEF Client!RetryTick, Client!ClientConstants
<1>10. CASE Client!ApiChanges \/ Client!AgentRevoked
  BY <1>10 DEF Client!ApiChanges, Client!AgentRevoked
<1>11. CASE Client!Restart
  BY <1>11 DEF Client!Restart
<1>. QED  BY <1>1, <1>2, <1>3, <1>4, <1>5, <1>6, <1>7, <1>8, <1>9, <1>10, <1>11 DEF SessionMoves

\* Every step leaves the refreshes of a connected client in time.
LEMMA InTimeStep ==
  ASSUME Client!ClientConstants, LoopInv, SessionMoves
  PROVE  InTime'
<1>. USE DelaysAre DEF LoopInv
<1>. DEFINE Due == timer # None => Reaches(timer.attempt, timer.due)
            Flying == \A a \in Client!Attempts : refreshing[a] > 0 => Reaches(a, 0)
<1>1. SessionTypes'
  BY SessionTypesStep
<1>2. timer \in Client!Timer => timer.attempt \in Client!Attempts /\ timer.due \in Nat
  BY DEF Client!Timer
<1>3. ASSUME left' = left, fails' = fails, wanted' => wanted, active' => active,
             ~expired' => ~expired, timer' = timer, refreshing' = refreshing
      PROVE  InTime'
  BY <1>3 DEF InTime, Reaches
<1>4. ASSUME NEW c \in Calls, Client!StartsConnecting(c) PROVE InTime'
  BY <1>4 DEF Client!StartsConnecting, InTime
<1>5. CASE Client!Exchanged
  <2>1. left' = Ttl /\ fails' = 0 /\ timer' = Client!Scheduled
    BY <1>5 DEF Client!Exchanged
  <2>2. Reaches(0, Ttl - Margin)'
    BY <2>1 DEF Reaches
  <2>3. \A a \in Client!Attempts : Reaches(a, 0)'
    BY <2>1 DEF Reaches
  <2>. QED  BY <2>1, <2>2, <2>3 DEF InTime, Client!Scheduled, Client!RefreshDue
<1>6. CASE Client!NotExchanged /\ UNCHANGED <<up, active, timer, refreshing, expired, wanted>>
  <2>1. left' = left /\ fails' = IF fails < Len(Delays) THEN fails + 1 ELSE fails
    BY <1>6 DEF Client!NotExchanged
  <2>2. \A a \in Client!Attempts, due \in Nat : Reaches(a, due) => Reaches(a, due)'
    BY <2>1, ReachesStays
  <2>. QED  BY <1>2, <1>6, <2>2 DEF InTime, SessionTypes
<1>7. CASE Client!Disconnect \/ Client!Restart
  BY <1>7 DEF Client!Disconnect, Client!Restart, InTime
<1>8. CASE Client!TimerFires
  <2>1. timer \in Client!Timer /\ timer.due = 0 /\ left' = left /\ fails' = fails /\ timer' = None
        /\ UNCHANGED <<wanted, active, expired>>
    BY <1>8 DEF Client!TimerFires, SessionTypes
  <2>2. \A a \in Client!Attempts : Reaches(a, 0) => Reaches(a, 0)'
    BY <2>1, ReachesStays
  <2>3. \A a \in Client!Attempts : refreshing'[a] > 0 => refreshing[a] > 0 \/ a = timer.attempt
    BY <1>8 DEF Client!TimerFires, SessionTypes
  <2>. QED  BY <1>2, <1>8, <2>1, <2>2, <2>3 DEF InTime, Client!TimerFires
<1>9. ASSUME NEW b \in Client!Attempts, Client!RefreshFails(b) PROVE InTime'
  <2>1. left' = left /\ fails' = IF fails < Len(Delays) THEN fails + 1 ELSE fails
    BY <1>9 DEF Client!NotExchanged, Client!RefreshFails
  <2>2. \A a \in Client!Attempts : Reaches(a, 0) => Reaches(a, 0)'
    BY <2>1, ReachesStays
  <2>3. \A a \in Client!Attempts : refreshing'[a] > 0 => refreshing[a] > 0
    BY <1>9 DEF Client!RefreshFails, Client!Lands, SessionTypes
  <2>4. refreshing[b] > 0 /\ UNCHANGED <<wanted, active>>
    BY <1>9 DEF Client!RefreshFails, Client!Lands
  <2>5. CASE b < Len(Delays)
    <3>1. timer' = Client!RetryAfter(b) /\ expired' = expired
      BY <1>9, <2>5 DEF Client!RefreshFails
    <3>2. Reaches(b, 0) => Reaches(b + 1, Delays[b + 1])'
      BY <2>1, <2>5, RetryReaches
    <3>. QED  BY <2>2, <2>3, <2>4, <3>1, <3>2 DEF InTime, Client!RetryAfter
  <2>6. CASE ~(b < Len(Delays))
    BY <1>9, <2>6 DEF Client!RefreshFails, InTime
  <2>. QED  BY <2>5, <2>6
<1>10. CASE Client!SessionTick
  <2>1. /\ left > 0 /\ left' = left - 1 /\ UNCHANGED <<fails, wanted, active, expired, refreshing>>
        /\ timer' = IF timer = None THEN None ELSE [timer EXCEPT !.due = @ - 1]
        /\ timer # None => timer.due > 0
    BY <1>10 DEF Client!SessionTick
  <2>2. \A a \in Client!Attempts : ~(refreshing'[a] > 0)
    BY <1>10 DEF Client!SessionTick, Client!InFlight
  <2>3. ASSUME timer # None, wanted, active, ~expired
        PROVE  Reaches(timer.attempt, timer.due)'
    <3>1. timer'.attempt = timer.attempt /\ timer'.due = timer.due - 1
          /\ timer.attempt \in Client!Attempts /\ timer.due \in Nat
      BY <1>2, <2>1, <2>3, TimerTicks DEF SessionTypes
    <3>2. Reaches(timer.attempt, timer.due)
      BY <2>3 DEF InTime
    <3>3. \A a \in Client!Attempts, due, sooner \in Nat :
            sooner = due - 1 /\ Reaches(a, due) => Reaches(a, sooner)'
      BY <2>1, ReachesTicks
    <3>4. timer'.due \in Nat /\ timer'.due = timer.due - 1
      BY <2>1, <2>3, <3>1
    <3>. QED  BY <3>1, <3>2, <3>3, <3>4
  <2>. QED  BY <2>1, <2>2, <2>3 DEF InTime
<1>11. CASE Client!RetryTick
  <2>1. /\ timer # None /\ timer.due > 0 /\ timer' = [timer EXCEPT !.due = @ - 1]
        /\ UNCHANGED <<left, fails, wanted, active, expired, refreshing>>
    BY <1>11 DEF Client!RetryTick
  <2>2. timer'.attempt = timer.attempt /\ timer'.due = timer.due - 1
        /\ timer.attempt \in Client!Attempts /\ timer.due \in Nat /\ timer'.due \in Nat
    BY <1>2, <2>1, TimerTicks DEF SessionTypes
  <2>3. \A a \in Client!Attempts : Reaches(a, 0) => Reaches(a, 0)'
    BY <2>1, ReachesStays
  <2>4. \A a \in Client!Attempts, due, sooner \in Nat :
          sooner <= due /\ Reaches(a, due) => Reaches(a, sooner)'
    BY <2>1, ReachesStays
  <2>. QED  BY <2>1, <2>2, <2>3, <2>4 DEF InTime
<1>12. CASE UNCHANGED Client!session \/ Client!ApiChanges
  BY <1>3, <1>12 DEF Client!session, Client!ApiChanges
<1>13. CASE Client!AgentRevoked
  BY <1>13 DEF Client!AgentRevoked, InTime
<1>. QED
  BY <1>4, <1>5, <1>6, <1>7, <1>8, <1>9, <1>10, <1>11, <1>12, <1>13 DEF SessionMoves

\* A step of the part that the client is in is one of its own, or leaves it.
LEMMA ClientSteps ==
  ASSUME [NextEither]_<<part, vars, client, accounts>>, part' = "client"
  PROVE  part = "client" /\ [Client!Next]_(Client!vars)
BY DEF NextEither, client, Client!vars, Client!session, Client!mounts

\* The invariant of the refresh loop.
LEMMA LoopInvariance == Either => [](part = "client" => LoopInv)
<1>1. InitEither => (part = "client" => LoopInv)
  BY DelaysAre, ClientConstants
  DEF InitEither, Client!Init, LoopInv, SessionTypes, Client!LoopAlive, InTime
<1>2. (part = "client" => LoopInv) /\ [NextEither]_<<part, vars, client, accounts>>
        => (part = "client" => LoopInv)'
  BY ClientSteps, ClientConstants, SessionCases, SessionTypesStep, LoopAliveStep, InTimeStep
  DEF LoopInv
<1>. QED  BY <1>1, <1>2, PTL DEF Either

\* The refresh loop of a client that connected never just stops (sdk/src/client.ts): a
\* timer is armed, an exchange is in flight, or the client says that its session expired.
THEOREM LoopsLive == Either => [](part = "client" => Client!LoopAlive)
<1>1. LoopInv => Client!LoopAlive
  BY DEF LoopInv
<1>. QED  BY <1>1, LoopInvariance, PTL

\* Whatever connects, disconnects, outages and late answers come together, the session of
\* a connected client runs out unnoticed only after three exchanges failed in succession.
THEOREM ExpiriesAreEarned == Either => []ExpiryNeedsFailures
<1>1. LoopInv => Client!ExpiryNeedsFailures
  <2>1. SUFFICES ASSUME LoopInv, wanted, active, ~expired, left = 0
                 PROVE  fails >= 3
    BY DEF Client!ExpiryNeedsFailures
  <2>2. ASSUME NEW a \in Client!Attempts, NEW due \in Nat, Reaches(a, due)
        PROVE  fails >= 3
    <3>1. fails \in Nat /\ a \in Nat /\ a <= Len(Delays) /\ left = 0
      BY <2>1, DelaysAre, ClientConstants DEF LoopInv, SessionTypes
    <3>2. /\ Delays[1] \in Nat /\ Delays[2] \in Nat /\ Margin \in Nat /\ Ttl \in Nat
          /\ Delays[1] + Delays[2] < Margin /\ Margin < Ttl
          /\ a >= 1 => Delays[a] \in Nat
          /\ a >= 2 => Delays[a - 1] \in Nat /\ Delays[a - 1] + Delays[a] < Ttl
      BY <3>1, DelaysAre, ClientConstants
    <3>3. CASE fails >= 3
      BY <3>3
    <3>4. CASE fails = 2
      BY <2>2, <3>1, <3>2, <3>4 DEF Reaches
    <3>5. CASE fails = 1
      BY <2>2, <3>1, <3>2, <3>5 DEF Reaches
    <3>6. CASE fails = 0
      BY <2>2, <3>1, <3>2, <3>6 DEF Reaches
    <3>. QED  BY <3>1, <3>3, <3>4, <3>5, <3>6
  <2>3. timer # None => timer.attempt \in Client!Attempts /\ timer.due \in Nat
    BY <2>1, TimerTicks DEF LoopInv, SessionTypes
  <2>. QED  BY <2>1, <2>2, <2>3 DEF LoopInv, Client!LoopAlive, InTime
<1>2. (part = "client" => LoopInv) => ExpiryNeedsFailures
  BY <1>1 DEF ExpiryNeedsFailures
<1>. QED  BY <1>2, LoopInvariance, PTL

-----------------------------------------------------------------------------
(* The calls and their files *)

\* Who uses the client of the MCP server, or may, finds a token in it.
Tooled ==
  /\ at \in [Calls -> Client!Stages]
  /\ connected => holds
  /\ Client!ToolsHaveToken

\* Every step leaves the client that tools use with a token.
LEMMA TooledStep == Tooled /\ [Client!Next]_(Client!vars) => Tooled'
<1>. USE DEF Tooled, Client!ToolsHaveToken, Client!Stages
<1>. SUFFICES ASSUME Tooled, [Client!Next]_(Client!vars) PROVE Tooled'
  OBVIOUS
<1>1. ASSUME NEW c \in Calls, Client!AppCall(c) \/ Client!ToolCall(c) PROVE Tooled'
  BY <1>1 DEF Client!AppCall, Client!ToolCall, Client!Ready, Client!Goto, Client!StartsConnecting,
              Client!session
<1>2. ASSUME NEW c \in Calls, Client!ConnectSucceeds(c) \/ Client!ConnectFails(c) PROVE Tooled'
  BY <1>2 DEF Client!ConnectSucceeds, Client!ConnectFails, Client!Exchanged, Client!NotExchanged,
              Client!Goto
<1>3. ASSUME NEW c \in Calls, Client!Access(c) \/ Client!AccessFails(c) PROVE Tooled'
  BY <1>3 DEF Client!Access, Client!AccessFails, Client!Goto, Client!session
<1>4. ASSUME NEW c \in Calls,
             \/ Client!WriteFile(c) \/ Client!Register(c) \/ Client!ReleaseMount(c)
             \/ Client!MountTimer(c) \/ Client!Unlinked(c)
      PROVE  Tooled'
  BY <1>4 DEF Client!WriteFile, Client!Register, Client!ReleaseMount, Client!MountTimer,
              Client!Ends, Client!Unlinked, Client!Goto, Client!session
<1>5. ASSUME NEW a \in Client!Attempts, Client!RefreshSucceeds(a) \/ Client!RefreshFails(a)
      PROVE  Tooled'
  BY <1>5 DEF Client!RefreshSucceeds, Client!RefreshFails, Client!Exchanged, Client!NotExchanged
<1>6. CASE \/ Client!TimerFires \/ Client!Disconnect \/ Client!SessionTick \/ Client!RetryTick
           \/ Client!ApiChanges \/ Client!AgentRevoked
  BY <1>6 DEF Client!TimerFires, Client!Disconnect, Client!SessionTick, Client!RetryTick,
              Client!ApiChanges, Client!AgentRevoked
<1>7. CASE Client!FileTick \/ Client!Sweep
  BY <1>7 DEF Client!FileTick, Client!Sweep, Client!session
<1>8. CASE Client!Restart
  BY <1>8 DEF Client!Restart
<1>9. CASE UNCHANGED Client!vars
  BY <1>9 DEF Client!vars, Client!session
<1>. QED
  BY <1>1, <1>2, <1>3, <1>4, <1>5, <1>6, <1>7, <1>8, <1>9 DEF Client!Next, Client!Calling

\* A tool call uses the client of the MCP server (mcp/src/api-client.ts) only once it holds a
\* token, whichever other call is connecting it.
THEOREM ToolsAreConnected == Either => [](part = "client" => Client!ToolsHaveToken)
<1>1. InitEither => (part = "client" => Tooled)
  BY DEF InitEither, Client!Init, Tooled, Client!ToolsHaveToken, Client!Stages
<1>2. (part = "client" => Tooled) /\ [NextEither]_<<part, vars, client, accounts>>
        => (part = "client" => Tooled)'
  BY ClientSteps, TooledStep
<1>3. Tooled => Client!ToolsHaveToken
  BY DEF Tooled
<1>. QED  BY <1>1, <1>2, <1>3, PTL DEF Either

\* A file that is mounted, or about to be, is there and not older than the timer of its
\* mount; what is older was lost by a crash, or by a write or an unlink that failed.
Mounted ==
  /\ at \in [Calls -> Client!Stages] /\ age \in [Calls -> Nat]
  /\ entry \subseteq Calls /\ file \subseteq Calls /\ deleting \subseteq Calls
  /\ \A c \in entry \cup deleting : at[c] = "done" /\ age[c] <= MountTtl
  /\ \A c \in entry : c \in file /\ c \notin deleting
  /\ \A c \in Calls : at[c] = "registering" => c \in file /\ age[c] <= MountTtl
  /\ \A c \in file :
       c \in lost \/ c \in entry \/ c \in deleting \/ at[c] = "registering"

\* Every step keeps account of the files.
LEMMA MountedStep ==
  ASSUME Client!ClientConstants, Mounted, [Client!Next]_(Client!vars)
  PROVE  Mounted'
<1>. USE DEF Mounted, Client!Stages, Client!Goto
<1>0. MountTtl \in Nat /\ OrphanAge \in Nat /\ MountTtl < OrphanAge
  BY DEF Client!ClientConstants
<1>1. ASSUME NEW c \in Calls, Client!AppCall(c) \/ Client!ToolCall(c) PROVE Mounted'
  BY <1>1 DEF Client!AppCall, Client!ToolCall, Client!StartsConnecting, Client!mounts
<1>2. ASSUME NEW c \in Calls, Client!ConnectSucceeds(c) \/ Client!ConnectFails(c) PROVE Mounted'
  BY <1>2 DEF Client!ConnectSucceeds, Client!ConnectFails, Client!mounts
<1>3. ASSUME NEW c \in Calls, Client!Access(c) \/ Client!AccessFails(c) PROVE Mounted'
  BY <1>3 DEF Client!Access, Client!AccessFails, Client!mounts
<1>4. ASSUME NEW c \in Calls, Client!WriteFile(c) PROVE Mounted'
  BY <1>0, <1>4 DEF Client!WriteFile
<1>5. ASSUME NEW c \in Calls, Client!Register(c) PROVE Mounted'
  BY <1>5 DEF Client!Register
<1>6. ASSUME NEW c \in Calls, Client!ReleaseMount(c) \/ Client!MountTimer(c) PROVE Mounted'
  BY <1>6 DEF Client!ReleaseMount, Client!MountTimer, Client!Ends
<1>7. ASSUME NEW c \in Calls, Client!Unlinked(c) PROVE Mounted'
  BY <1>7 DEF Client!Unlinked
<1>8. CASE Client!FileTick
  BY <1>0, <1>8 DEF Client!FileTick
<1>9. CASE Client!Sweep
  BY <1>0, <1>9 DEF Client!Sweep, Client!Stale
<1>10. CASE Client!Restart
  BY <1>10 DEF Client!Restart
<1>11. ASSUME NEW a \in Client!Attempts, Client!RefreshSucceeds(a) \/ Client!RefreshFails(a)
       PROVE  Mounted'
  BY <1>11 DEF Client!RefreshSucceeds, Client!RefreshFails, Client!mounts
<1>12. CASE \/ Client!TimerFires \/ Client!Disconnect \/ Client!SessionTick \/ Client!RetryTick
            \/ Client!ApiChanges \/ Client!AgentRevoked
  BY <1>12 DEF Client!TimerFires, Client!Disconnect, Client!SessionTick, Client!RetryTick,
               Client!ApiChanges, Client!AgentRevoked, Client!mounts
<1>13. CASE UNCHANGED Client!vars
  BY <1>13 DEF Client!vars, Client!mounts
<1>. QED
  BY <1>1, <1>2, <1>3, <1>4, <1>5, <1>6, <1>7, <1>8, <1>9, <1>10, <1>11, <1>12, <1>13
  DEF Client!Next, Client!Calling

\* The file of a mount (mcp/src/tools/mount-secret.ts) is there as long as its entry is,
\* whoever sweeps, and past the age of the timer only files stay that a crash or a failure
\* left.
THEOREM MountsHaveFiles == Either => [](part = "client" => Client!MountWindow)
<1>1. InitEither => (part = "client" => Mounted)
  BY DEF InitEither, Client!Init, Mounted, Client!Stages
<1>2. Mounted => Client!MountWindow
  <2>1. SUFFICES ASSUME Mounted, NEW c \in file, age[c] > MountTtl PROVE c \in lost
    BY DEF Mounted, Client!MountWindow
  <2>2. c \in Calls /\ age[c] \in Nat /\ MountTtl \in Nat /\ ~(age[c] <= MountTtl)
    BY <2>1, ClientConstants DEF Mounted, Client!ClientConstants
  <2>. QED  BY <2>1, <2>2 DEF Mounted
<1>3. (part = "client" => Mounted) /\ [NextEither]_<<part, vars, client, accounts>>
        => (part = "client" => Mounted)'
  BY ClientSteps, ClientConstants, MountedStep
<1>. QED  BY <1>1, <1>2, <1>3, PTL DEF Either

-----------------------------------------------------------------------------
(* The accounts that agents register: proofs about AccountClaim for any number *)
(* of accounts, requests and addresses.                                        *)

Registered(a) == step[a] = "registered"

\* The code in a row was mailed for its account to the address beside it.
MailedFor(code, a, email) ==
  /\ code \in Sends /\ step[code] = "sent"
  /\ asked[code].account = a /\ asked[code].email = email

Existing ==
  \A a \in Accounts : org[a] \/ user[a] => Registered(a)

Mailed ==
  \A a \in Accounts : claim[a].code # NoCode =>
    Registered(a) /\ MailedFor(claim[a].code, a, claim[a].email)

\* A completion that is past its check keeps a code of its account.
Loaded ==
  \A x \in Completes :
    /\ step[x] \in {"claim", "bind", "claimed", "miss", "missed"} =>
         MailedFor(loaded[x].code, asked[x].account, loaded[x].email)
    /\ step[x] \in {"claim", "bind", "claimed"} => asked[x].code = loaded[x].code

\* A completion whose transaction has claimed a row is alone with it.
Held ==
  \A x \in Completes : step[x] = "bind" =>
    /\ Claims!Claimable(asked[x].account)
    /\ \A y \in Completes :
         step[y] = "bind" /\ asked[y].account = asked[x].account => y = x

Collecting ==
  \A r \in Accounts :
    /\ \A a \in stale[r] : Registered(a) /\ claim[a].expired
    /\ step[r] = "user" =>
         Registered(victim[r]) /\ ~org[victim[r]] /\ claim[victim[r]].expired

Owned ==
  \A a \in Accounts :
    /\ usedBy[a] = Nobody => owner[a] = NoEmail
    /\ usedBy[a] # Nobody =>
         /\ Registered(a)
         /\ step[usedBy[a]] = "claimed"
         /\ asked[usedBy[a]].account = a
         /\ owner[a] = loaded[usedBy[a]].email

ClaimInv ==
  /\ Claims!TypeOK
  /\ Existing
  /\ Mailed
  /\ Loaded
  /\ Held
  /\ Collecting
  /\ Owned
  /\ Claims!OnlyExpiredCollected
  /\ Claims!NoSilentMerge
  /\ Claims!GuessesCounted

-----------------------------------------------------------------------------
(* Types *)

LEMMA Disjoint ==
  /\ Accounts \cap Sends = {} /\ Accounts \cap Completes = {} /\ Sends \cap Completes = {}
  /\ NoEmail \notin Emails /\ NoCode \notin Sends /\ Nobody \notin Completes
BY AccountConstants DEF Claims!ClaimConstants

\* What a request presents.
LEMMA Presented ==
  ASSUME Claims!TypeOK
  PROVE  /\ \A s \in Sends : asked[s].account \in Accounts /\ asked[s].email \in Emails
         /\ \A x \in Completes : asked[x].account \in Accounts /\ asked[x].code \in Sends
            \cup {NoCode}
BY DEF Claims!TypeOK, Claims!SendCall, Claims!CompleteCall

\* Every step keeps the type of every variable.
LEMMA ClaimTypeStep == Claims!TypeOK /\ [Claims!Next]_(Claims!vars) => Claims!TypeOK'
<1>. SUFFICES ASSUME Claims!TypeOK, [Claims!Next]_(Claims!vars) PROVE Claims!TypeOK'
  OBVIOUS
<1>. USE DEF Claims!Requests, Claims!Stages
<1>0. /\ \A s \in Sends : asked[s].account \in Accounts /\ asked[s].email \in Emails
      /\ \A x \in Completes : asked[x].account \in Accounts
  BY Presented
<1>1. CASE UNCHANGED (Claims!vars)
  BY <1>1 DEF Claims!vars, Claims!rows, Claims!TypeOK
<1>2. ASSUME NEW r \in Accounts, Claims!SelectStale(r) PROVE Claims!TypeOK'
  BY <1>2 DEF Claims!SelectStale, Claims!Goto, Claims!rows, Claims!TypeOK
<1>3. ASSUME NEW r \in Accounts, NEW a \in Accounts, Claims!DeleteOrg(r, a) PROVE Claims!TypeOK'
  BY <1>3 DEF Claims!DeleteOrg, Claims!Goto, Claims!TypeOK
<1>4. ASSUME NEW r \in Accounts, Claims!DeleteUser(r) PROVE Claims!TypeOK'
  BY <1>4 DEF Claims!DeleteUser, Claims!Goto, Claims!TypeOK
<1>5. ASSUME NEW r \in Accounts, Claims!GiveUpCollect(r) PROVE Claims!TypeOK'
  BY <1>5 DEF Claims!GiveUpCollect, Claims!Goto, Claims!rows, Claims!TypeOK
<1>6. ASSUME NEW r \in Accounts, Claims!Register(r) PROVE Claims!TypeOK'
  BY <1>6 DEF Claims!Register, Claims!Goto, Claims!TypeOK
<1>7. ASSUME NEW s \in Sends, Claims!LoadForSend(s) PROVE Claims!TypeOK'
  BY <1>7 DEF Claims!LoadForSend, Claims!Goto, Claims!rows, Claims!TypeOK
<1>8. ASSUME NEW s \in Sends, Claims!StoreCode(s) PROVE Claims!TypeOK'
  <2>1. claim' \in [Accounts -> Claims!Claim]
    <3>. DEFINE a == asked[s].account
    <3>1. a \in Accounts /\ claim[a] \in Claims!Claim
      BY <1>0 DEF Claims!TypeOK
    <3>2. [claim[a] EXCEPT !.email = asked[s].email, !.code = s, !.attempts = 0,
                           !.codeExpired = FALSE] \in Claims!Claim
      BY <1>0, <3>1 DEF Claims!Claim
    <3>. QED  BY <1>8, <3>1, <3>2 DEF Claims!StoreCode, Claims!TypeOK
  <2>. QED  BY <1>8, <2>1 DEF Claims!StoreCode, Claims!Goto, Claims!TypeOK
<1>9. ASSUME NEW x \in Completes, Claims!LoadComplete(x) PROVE Claims!TypeOK'
  <2>1. loaded' \in [Completes -> Claims!Claim]
    BY <1>0, <1>9 DEF Claims!LoadComplete, Claims!TypeOK
  <2>2. step' \in [Claims!Requests -> Claims!Stages]
    BY <1>9 DEF Claims!LoadComplete, Claims!Goto, Claims!TypeOK
  <2>. QED  BY <1>9, <2>1, <2>2 DEF Claims!LoadComplete, Claims!rows, Claims!TypeOK
<1>10. ASSUME NEW x \in Completes, Claims!CountMiss(x) PROVE Claims!TypeOK'
  <2>1. claim' \in [Accounts -> Claims!Claim]
    <3>. DEFINE a == asked[x].account
    <3>1. a \in Accounts /\ claim[a] \in Claims!Claim
      BY <1>0 DEF Claims!TypeOK
    <3>2. [claim[a] EXCEPT !.attempts = Claims!OneMore(x)] \in Claims!Claim
      BY <3>1 DEF Claims!Claim, Claims!OneMore
    <3>. QED  BY <1>10, <3>1, <3>2 DEF Claims!CountMiss, Claims!TypeOK
  <2>. QED  BY <1>10, <2>1 DEF Claims!CountMiss, Claims!Goto, Claims!TypeOK
<1>11. ASSUME NEW x \in Completes, Claims!ClaimAccount(x) \/ Claims!BindRefused(x)
              \/ Claims!Abort(x) PROVE Claims!TypeOK'
  BY <1>11 DEF Claims!ClaimAccount, Claims!BindRefused, Claims!Abort, Claims!Goto, Claims!rows,
     Claims!TypeOK
<1>12. ASSUME NEW x \in Completes, Claims!BindOwner(x) PROVE Claims!TypeOK'
  BY <1>0, <1>12 DEF Claims!BindOwner, Claims!OwnerOf, Claims!Goto, Claims!TypeOK, Claims!Claim
<1>13. ASSUME NEW e \in Emails, Claims!SignUp(e) PROVE Claims!TypeOK'
  BY <1>13 DEF Claims!SignUp, Claims!TypeOK
<1>14. CASE Claims!Expire
  <2>1. claim' \in [Accounts -> Claims!Claim]
    <3>1. PICK a \in Accounts :
            \/ claim' = [claim EXCEPT ![a].expired = TRUE]
            \/ claim' = [claim EXCEPT ![a].codeExpired = TRUE]
      BY <1>14 DEF Claims!Expire
    <3>2. claim[a] \in Claims!Claim
      BY DEF Claims!TypeOK
    <3>3. /\ [claim[a] EXCEPT !.expired = TRUE] \in Claims!Claim
          /\ [claim[a] EXCEPT !.codeExpired = TRUE] \in Claims!Claim
      BY <3>2 DEF Claims!Claim
    <3>. QED  BY <3>1, <3>3 DEF Claims!TypeOK
  <2>. QED  BY <1>14, <2>1 DEF Claims!Expire, Claims!TypeOK
<1>. QED
  BY <1>1, <1>2, <1>3, <1>4, <1>5, <1>6, <1>7, <1>8, <1>9, <1>10, <1>11, <1>12, <1>13, <1>14
  DEF Claims!Next, Claims!Complete

-----------------------------------------------------------------------------
(* What the steps do *)

\* Only r's stage changes.
MovesOnly(r) == \A q \in Claims!Requests : q # r => step'[q] = step[q]

\* A register that selects, gives up, deletes or registers.
Selects(r) ==
  /\ UNCHANGED <<Claims!rows, asked, loaded, victim>> /\ MovesOnly(r)
  /\ ~Registered(r) /\ step'[r] = "collect"
  /\ \A q \in Accounts : \A a \in stale'[q] : a \in stale[q] \/ Claims!Stale(a)

DeletesOrg(r) ==
  /\ UNCHANGED <<user, owner, claim, usedBy, taken, asked, loaded>> /\ MovesOnly(r)
  /\ ~Registered(r) /\ step'[r] = "user"
  /\ victim'[r] \in stale[r] /\ ~Claims!Locked(victim'[r])
  /\ \A q \in Accounts : stale'[q] \subseteq stale[q] /\ (q # r => victim'[q] = victim[q])
  /\ \A a \in Accounts : org'[a] = (org[a] /\ a # victim'[r])

DeletesUser(r) ==
  /\ UNCHANGED <<org, owner, claim, usedBy, taken, asked, loaded, stale, victim>> /\ MovesOnly(r)
  /\ step[r] = "user" /\ step'[r] = "collect"
  /\ \A a \in Accounts : user'[a] = (user[a] /\ a # victim[r])

Registers(r) ==
  /\ UNCHANGED <<owner, claim, usedBy, taken, asked, loaded, stale, victim>> /\ MovesOnly(r)
  /\ step[r] = "collect" /\ Registered(r)'
  /\ \A a \in Accounts : org'[a] = (org[a] \/ a = r) /\ user'[a] = (user[a] \/ a = r)

\* A claim that is loaded, and one that is stored.
SendsOn(s) ==
  /\ UNCHANGED <<Claims!rows, asked, loaded, stale, victim>> /\ MovesOnly(s)
  /\ step[s] = "unsent"

Stores(s) ==
  /\ UNCHANGED <<org, user, owner, usedBy, taken, asked, loaded, stale, victim>> /\ MovesOnly(s)
  /\ step[s] = "update" /\ step'[s] = "sent"
  /\ \A a \in Accounts :
       \/ claim'[a] = claim[a]
       \/ /\ a = asked[s].account /\ Claims!ClaimExists(a)
          /\ claim'[a].code = s /\ claim'[a].email = asked[s].email
          /\ claim'[a].expired = claim[a].expired

\* A claimComplete that moves without writing a row.
Completing(x) ==
  /\ UNCHANGED <<Claims!rows, asked, stale, victim>> /\ MovesOnly(x)
  /\ \A y \in Completes : y # x => loaded'[y] = loaded[y]
  /\ \/ /\ step[x] = "unsent" /\ step'[x] \in {"refused", "claim", "miss"}
        /\ loaded'[x] = claim[asked[x].account]
        /\ step'[x] # "refused" => claim[asked[x].account].code # NoCode
        /\ step'[x] = "claim" => asked[x].code = claim[asked[x].account].code
     \/ /\ step[x] = "claim" /\ step'[x] = "bind" /\ loaded'[x] = loaded[x]
        /\ ~Claims!Locked(asked[x].account) /\ Claims!Claimable(asked[x].account)
     \/ step[x] \in {"claim", "bind"} /\ step'[x] = "refused" /\ loaded'[x] = loaded[x]

Misses(x) ==
  /\ UNCHANGED <<org, user, owner, usedBy, taken, asked, loaded, stale, victim>> /\ MovesOnly(x)
  /\ step[x] = "miss" /\ step'[x] = "missed"
  /\ \A a \in Accounts :
       /\ claim'[a].code = claim[a].code /\ claim'[a].email = claim[a].email
       /\ claim'[a].expired = claim[a].expired
       /\ claim'[a].attempts = IF a = asked[x].account /\ Claims!ClaimExists(a)
                                 THEN claim[a].attempts + 1 ELSE claim[a].attempts

Binds(x) ==
  /\ UNCHANGED <<org, user, claim, taken, asked, loaded, stale, victim>> /\ MovesOnly(x)
  /\ step[x] = "bind" /\ step'[x] = "claimed"
  /\ Claims!Free(loaded[x].email)
  /\ usedBy' = [usedBy EXCEPT ![asked[x].account] = x]
  /\ owner' = [owner EXCEPT ![asked[x].account] = loaded[x].email]

\* A sign-up, and the clock.
SignsUp(e) ==
  /\ UNCHANGED <<org, user, owner, claim, usedBy, asked, step, loaded, stale, victim>>
  /\ Claims!Free(e) /\ taken' = taken \cup {e}

Expires ==
  /\ UNCHANGED <<org, user, owner, usedBy, taken, asked, step, loaded, stale, victim>>
  /\ \A a \in Accounts :
       /\ claim'[a].code = claim[a].code /\ claim'[a].email = claim[a].email
       /\ claim'[a].attempts = claim[a].attempts
       /\ claim[a].expired => claim'[a].expired

\* What the steps of a registration, and of its collection, do.
LEMMA CollectEffects ==
  ASSUME Claims!TypeOK, NEW r \in Accounts
  PROVE  /\ Claims!SelectStale(r) \/ Claims!GiveUpCollect(r) => Selects(r)
         /\ \A a \in Accounts : Claims!DeleteOrg(r, a) => DeletesOrg(r)
         /\ Claims!DeleteUser(r) => DeletesUser(r)
         /\ Claims!Register(r) => Registers(r)
<1>. USE DEF MovesOnly, Registered, Claims!Goto, Claims!Requests, Claims!rows
<1>1. Claims!SelectStale(r) => Selects(r)
  BY DEF Claims!SelectStale, Selects, Claims!TypeOK
<1>2. Claims!GiveUpCollect(r) => Selects(r)
  BY DEF Claims!GiveUpCollect, Selects, Claims!TypeOK
<1>3. ASSUME NEW a \in Accounts, Claims!DeleteOrg(r, a) PROVE DeletesOrg(r)
  BY <1>3 DEF Claims!DeleteOrg, DeletesOrg, Claims!TypeOK
<1>4. Claims!DeleteUser(r) => DeletesUser(r)
  BY DEF Claims!DeleteUser, DeletesUser, Claims!TypeOK
<1>5. Claims!Register(r) => Registers(r)
  BY DEF Claims!Register, Registers, Claims!TypeOK
<1>. QED  BY <1>1, <1>2, <1>3, <1>4, <1>5

\* What the steps that send a code do.
LEMMA SendEffects ==
  ASSUME Claims!TypeOK, NEW s \in Sends
  PROVE  (Claims!LoadForSend(s) => SendsOn(s)) /\ (Claims!StoreCode(s) => Stores(s))
<1>. USE DEF MovesOnly, Claims!Goto, Claims!Requests, Claims!rows
<1>1. Claims!LoadForSend(s) => SendsOn(s)
  BY DEF Claims!LoadForSend, SendsOn, Claims!TypeOK
<1>2. ASSUME Claims!StoreCode(s) PROVE Stores(s)
  <2>1. asked[s].account \in Accounts
    BY Presented
  <2>2. \A a \in Accounts :
          \/ claim'[a] = claim[a]
          \/ /\ a = asked[s].account /\ Claims!ClaimExists(a)
             /\ claim'[a].code = s /\ claim'[a].email = asked[s].email
             /\ claim'[a].expired = claim[a].expired
    BY <1>2, <2>1 DEF Claims!StoreCode, Claims!TypeOK, Claims!Claim
  <2>. QED  BY <1>2, <2>2 DEF Claims!StoreCode, Stores, Claims!TypeOK
<1>. QED  BY <1>1, <1>2

\* What the steps of a completion do.
LEMMA CompleteEffects ==
  ASSUME Claims!TypeOK, NEW x \in Completes
  PROVE  /\ Claims!LoadComplete(x) \/ Claims!ClaimAccount(x) \/ Claims!BindRefused(x)
            \/ Claims!Abort(x) => Completing(x)
         /\ Claims!CountMiss(x) => Misses(x)
         /\ Claims!BindOwner(x) => Binds(x)
<1>. USE DEF MovesOnly, Claims!Goto, Claims!Requests, Claims!rows
<1>0. asked[x].account \in Accounts
  BY Presented
<1>1. Claims!LoadComplete(x) => Completing(x)
  BY DEF Claims!LoadComplete, Claims!Checked, Completing, Claims!TypeOK
<1>2. Claims!ClaimAccount(x) => Completing(x)
  BY DEF Claims!ClaimAccount, Completing, Claims!TypeOK
<1>3. Claims!BindRefused(x) \/ Claims!Abort(x) => Completing(x)
  BY DEF Claims!BindRefused, Claims!Abort, Completing, Claims!TypeOK
<1>4. ASSUME Claims!CountMiss(x) PROVE Misses(x)
  <2>1. \A a \in Accounts :
          /\ claim'[a].code = claim[a].code /\ claim'[a].email = claim[a].email
          /\ claim'[a].expired = claim[a].expired
          /\ claim'[a].attempts = IF a = asked[x].account /\ Claims!ClaimExists(a)
                                    THEN claim[a].attempts + 1 ELSE claim[a].attempts
    BY <1>0, <1>4 DEF Claims!CountMiss, Claims!OneMore, Claims!TypeOK, Claims!Claim
  <2>. QED  BY <1>4, <2>1 DEF Claims!CountMiss, Misses, Claims!TypeOK
<1>5. Claims!BindOwner(x) => Binds(x)
  BY DEF Claims!BindOwner, Binds, Claims!OwnerOf, Claims!Unique, Claims!TypeOK
<1>. QED  BY <1>1, <1>2, <1>3, <1>4, <1>5

\* What somebody signing up, and time passing, do.
LEMMA OtherEffects ==
  ASSUME Claims!TypeOK
  PROVE  /\ \A e \in Emails : Claims!SignUp(e) => SignsUp(e)
         /\ Claims!Expire => Expires
<1>1. ASSUME Claims!Expire PROVE Expires
  <2>1. PICK b \in Accounts :
          \/ claim' = [claim EXCEPT ![b].expired = TRUE]
          \/ claim' = [claim EXCEPT ![b].codeExpired = TRUE]
    BY <1>1 DEF Claims!Expire
  <2>2. \A a \in Accounts :
          /\ claim'[a].code = claim[a].code /\ claim'[a].email = claim[a].email
          /\ claim'[a].attempts = claim[a].attempts
          /\ claim[a].expired => claim'[a].expired
    <3>. SUFFICES ASSUME NEW a \in Accounts
                  PROVE  /\ claim'[a].code = claim[a].code /\ claim'[a].email = claim[a].email
                         /\ claim'[a].attempts = claim[a].attempts
                         /\ claim[a].expired => claim'[a].expired
      OBVIOUS
    <3>1. claim[a] \in Claims!Claim
      BY DEF Claims!TypeOK
    <3>2. \/ claim'[a] = claim[a]
          \/ claim'[a] = [claim[a] EXCEPT !.expired = TRUE]
          \/ claim'[a] = [claim[a] EXCEPT !.codeExpired = TRUE]
      BY <2>1 DEF Claims!TypeOK
    <3>. QED  BY <3>1, <3>2 DEF Claims!Claim
  <2>. QED  BY <1>1, <2>2 DEF Claims!Expire, Expires
<1>. QED  BY <1>1 DEF Claims!SignUp, SignsUp

\* Every step is one of these.
LEMMA ClaimCases ==
  ASSUME Claims!TypeOK, [Claims!Next]_(Claims!vars)
  PROVE  \/ UNCHANGED (Claims!vars)
         \/ \E r \in Accounts : Selects(r) \/ DeletesOrg(r) \/ DeletesUser(r) \/ Registers(r)
         \/ \E s \in Sends : SendsOn(s) \/ Stores(s)
         \/ \E x \in Completes : Completing(x) \/ Misses(x) \/ Binds(x)
         \/ \E e \in Emails : SignsUp(e)
         \/ Expires
BY CollectEffects, SendEffects, CompleteEffects, OtherEffects DEF Claims!Next, Claims!Complete

-----------------------------------------------------------------------------
(* Each conjunct of the invariant is preserved *)

LEMMA ExistingStep ==
  Claims!TypeOK /\ Existing /\ [Claims!Next]_(Claims!vars) => Existing'
<1>. SUFFICES ASSUME Claims!TypeOK, Existing, [Claims!Next]_(Claims!vars) PROVE Existing'
  OBVIOUS
<1>. USE DEF MovesOnly, Claims!Requests, Registered
<1>1. CASE UNCHANGED (Claims!vars)
  BY <1>1 DEF Claims!vars, Claims!rows, Existing
<1>2. ASSUME NEW r \in Accounts, Selects(r) PROVE Existing'
  BY <1>2 DEF Selects, Claims!rows, Existing
<1>3. ASSUME NEW r \in Accounts, DeletesOrg(r) PROVE Existing'
  BY <1>3 DEF DeletesOrg, Existing
<1>4. ASSUME NEW r \in Accounts, DeletesUser(r) PROVE Existing'
  BY <1>4 DEF DeletesUser, Existing
<1>5. ASSUME NEW r \in Accounts, Registers(r) PROVE Existing'
  BY <1>5 DEF Registers, Existing
<1>6. ASSUME NEW s \in Sends, SendsOn(s) PROVE Existing'
  BY <1>6 DEF SendsOn, Claims!rows, Existing
<1>7. ASSUME NEW s \in Sends, Stores(s) PROVE Existing'
  BY <1>7 DEF Stores, Existing
<1>8. ASSUME NEW x \in Completes, Completing(x) PROVE Existing'
  BY <1>8 DEF Completing, Claims!rows, Existing
<1>9. ASSUME NEW x \in Completes, Misses(x) PROVE Existing'
  BY <1>9 DEF Misses, Existing
<1>10. ASSUME NEW x \in Completes, Binds(x) PROVE Existing'
  BY <1>10 DEF Binds, Existing
<1>11. ASSUME NEW e \in Emails, SignsUp(e) PROVE Existing'
  BY <1>11 DEF SignsUp, Existing
<1>12. CASE Expires
  BY <1>12 DEF Expires, Existing
<1>. QED
  BY <1>1, <1>2, <1>3, <1>4, <1>5, <1>6, <1>7, <1>8, <1>9, <1>10, <1>11, <1>12, ClaimCases

\* A code in a row stays one that was mailed to the address of that row.
LEMMA MailedStep ==
  Claims!TypeOK /\ Existing /\ Mailed /\ [Claims!Next]_(Claims!vars) => Mailed'
<1>. SUFFICES ASSUME Claims!TypeOK, Existing, Mailed, [Claims!Next]_(Claims!vars) PROVE Mailed'
  OBVIOUS
<1>. USE DEF MovesOnly, Claims!Requests, Registered
<1>1. CASE UNCHANGED (Claims!vars)
  BY <1>1 DEF Claims!vars, Claims!rows, Mailed, MailedFor
<1>2. ASSUME NEW r \in Accounts, Selects(r) PROVE Mailed'
  <2>1. claim' = claim /\ asked' = asked /\ \A q \in Claims!Requests : q # r => step'[q] = step[q]
    BY <1>2 DEF Selects, Claims!rows
  <2>2. \A a \in Accounts : Registered(a) => step'[a] = "registered"
    BY <1>2, <2>1 DEF Selects
  <2>3. \A s \in Sends : step'[s] = step[s]
    BY <2>1, Disjoint
  <2>. QED  BY <2>1, <2>2, <2>3 DEF Mailed, MailedFor
<1>3. ASSUME NEW r \in Accounts, DeletesOrg(r) PROVE Mailed'
  BY <1>3, Disjoint DEF DeletesOrg, Mailed, MailedFor
<1>4. ASSUME NEW r \in Accounts, DeletesUser(r) PROVE Mailed'
  BY <1>4 DEF DeletesUser, Mailed, MailedFor
<1>5. ASSUME NEW r \in Accounts, Registers(r) PROVE Mailed'
  <2>1. claim' = claim /\ asked' = asked /\ \A q \in Claims!Requests : q # r => step'[q] = step[q]
    BY <1>5 DEF Registers
  <2>2. \A a \in Accounts : Registered(a) => step'[a] = "registered"
    BY <1>5, <2>1 DEF Registers
  <2>3. \A s \in Sends : step'[s] = step[s]
    BY <2>1, Disjoint
  <2>. QED  BY <2>1, <2>2, <2>3 DEF Mailed, MailedFor
<1>6. ASSUME NEW s \in Sends, SendsOn(s) PROVE Mailed'
  BY <1>6 DEF SendsOn, Claims!rows, Mailed, MailedFor
<1>7. ASSUME NEW s \in Sends, Stores(s) PROVE Mailed'
  BY <1>7 DEF Stores, Mailed, Existing, MailedFor, Claims!ClaimExists
<1>8. ASSUME NEW x \in Completes, Completing(x) PROVE Mailed'
  BY <1>8 DEF Completing, Claims!rows, Mailed, MailedFor
<1>9. ASSUME NEW x \in Completes, Misses(x) PROVE Mailed'
  BY <1>9 DEF Misses, Mailed, MailedFor
<1>10. ASSUME NEW x \in Completes, Binds(x) PROVE Mailed'
  BY <1>10 DEF Binds, Mailed, MailedFor
<1>11. ASSUME NEW e \in Emails, SignsUp(e) PROVE Mailed'
  BY <1>11 DEF SignsUp, Mailed, MailedFor
<1>12. CASE Expires
  BY <1>12 DEF Expires, Mailed, MailedFor
<1>. QED
  BY <1>1, <1>2, <1>3, <1>4, <1>5, <1>6, <1>7, <1>8, <1>9, <1>10, <1>11, <1>12, ClaimCases

\* What a completion has loaded stays what was mailed.
LEMMA LoadedStep ==
  Claims!TypeOK /\ Mailed /\ Loaded /\ [Claims!Next]_(Claims!vars) => Loaded'
<1>. SUFFICES ASSUME Claims!TypeOK, Mailed, Loaded, [Claims!Next]_(Claims!vars) PROVE Loaded'
  OBVIOUS
<1>. USE DEF MovesOnly, Claims!Requests, Registered
<1>0. \A x \in Completes : asked[x].account \in Accounts
  BY Presented
<1>1. CASE UNCHANGED (Claims!vars)
  BY <1>1 DEF Claims!vars, Loaded, MailedFor
<1>2. ASSUME NEW r \in Accounts, Selects(r) PROVE Loaded'
  BY <1>2, Disjoint DEF Selects, Loaded, MailedFor
<1>3. ASSUME NEW r \in Accounts, DeletesOrg(r) PROVE Loaded'
  BY <1>3, Disjoint DEF DeletesOrg, Loaded, MailedFor
<1>4. ASSUME NEW r \in Accounts, DeletesUser(r) PROVE Loaded'
  BY <1>4 DEF DeletesUser, Loaded, MailedFor
<1>5. ASSUME NEW r \in Accounts, Registers(r) PROVE Loaded'
  BY <1>5 DEF Registers, Loaded, MailedFor
<1>6. ASSUME NEW s \in Sends, SendsOn(s) PROVE Loaded'
  BY <1>6, Disjoint DEF SendsOn, Loaded, MailedFor
<1>7. ASSUME NEW s \in Sends, Stores(s) PROVE Loaded'
  BY <1>7 DEF Stores, Loaded, MailedFor
<1>8. ASSUME NEW x \in Completes, Completing(x) PROVE Loaded'
  BY <1>0, <1>8 DEF Completing, Loaded, Mailed, MailedFor
<1>9. ASSUME NEW x \in Completes, Misses(x) PROVE Loaded'
  BY <1>9 DEF Misses, Loaded, MailedFor
<1>10. ASSUME NEW x \in Completes, Binds(x) PROVE Loaded'
  BY <1>10 DEF Binds, Loaded, MailedFor
<1>11. ASSUME NEW e \in Emails, SignsUp(e) PROVE Loaded'
  BY <1>11 DEF SignsUp, Loaded, MailedFor
<1>12. CASE Expires
  BY <1>12 DEF Expires, Loaded, MailedFor
<1>. QED
  BY <1>1, <1>2, <1>3, <1>4, <1>5, <1>6, <1>7, <1>8, <1>9, <1>10, <1>11, <1>12, ClaimCases

\* A completion whose transaction has claimed a row stays alone with it.
LEMMA HeldStep ==
  Claims!TypeOK /\ Existing /\ Collecting /\ Held /\ [Claims!Next]_(Claims!vars) => Held'
<1>. SUFFICES ASSUME Claims!TypeOK, Existing, Collecting, Held, [Claims!Next]_(Claims!vars)
        PROVE Held'
  OBVIOUS
<1>. USE DEF MovesOnly, Claims!Requests, Registered
<1>0. \A x \in Completes : asked[x].account \in Accounts
  BY Presented
<1>1. CASE UNCHANGED (Claims!vars)
  BY <1>1 DEF Claims!vars, Claims!rows, Held, Claims!Claimable, Claims!ClaimExists
<1>2. ASSUME NEW r \in Accounts, Selects(r) PROVE Held'
  BY <1>2 DEF Selects, Claims!rows, Claims!ClaimExists, Held, Claims!Claimable
<1>3. ASSUME NEW r \in Accounts, DeletesOrg(r) PROVE Held'
  BY <1>0, <1>3 DEF DeletesOrg, Held, Claims!Claimable, Claims!ClaimExists, Claims!Locked,
     Claims!TypeOK
<1>4. ASSUME NEW r \in Accounts, DeletesUser(r) PROVE Held'
  <2>1. \A x \in Completes : step'[x] = step[x]
    BY <1>4, Disjoint DEF DeletesUser
  <2>2. ~org[victim[r]]
    BY <1>4 DEF DeletesUser, Collecting
  <2>3. \A a \in Accounts : Claims!Claimable(a) => Claims!Claimable(a)'
    BY <1>4, <2>2 DEF DeletesUser, Claims!Claimable, Claims!ClaimExists
  <2>4. asked' = asked
    BY <1>4 DEF DeletesUser
  <2>. QED  BY <1>0, <2>1, <2>3, <2>4 DEF Held, Claims!Claimable, Claims!ClaimExists
<1>5. ASSUME NEW r \in Accounts, Registers(r) PROVE Held'
  BY <1>0, <1>5, Disjoint DEF Registers, Held, Claims!Claimable, Claims!ClaimExists, Claims!TypeOK
<1>6. ASSUME NEW s \in Sends, SendsOn(s) PROVE Held'
  BY <1>6, Disjoint DEF SendsOn, Claims!rows, Held, Claims!Claimable, Claims!ClaimExists
<1>7. ASSUME NEW s \in Sends, Stores(s) PROVE Held'
  <2>1. \A x \in Completes : step'[x] = step[x]
    BY <1>7, Disjoint DEF Stores
  <2>2. UNCHANGED <<org, user, usedBy, asked>>
    BY <1>7 DEF Stores
  <2>. QED  BY <2>1, <2>2 DEF Held, Claims!Claimable, Claims!ClaimExists
<1>8. ASSUME NEW x \in Completes, Completing(x) PROVE Held'
  BY <1>8 DEF Completing, Claims!rows, Held, Claims!Claimable, Claims!ClaimExists, Claims!Locked
<1>9. ASSUME NEW x \in Completes, Misses(x) PROVE Held'
  BY <1>9 DEF Misses, Held, Claims!Claimable, Claims!ClaimExists
<1>10. ASSUME NEW x \in Completes, Binds(x) PROVE Held'
  BY <1>10 DEF Binds, Held, Claims!Claimable, Claims!ClaimExists
<1>11. ASSUME NEW e \in Emails, SignsUp(e) PROVE Held'
  BY <1>11 DEF SignsUp, Held, Claims!Claimable, Claims!ClaimExists
<1>12. CASE Expires
  BY <1>12 DEF Expires, Held, Claims!Claimable, Claims!ClaimExists
<1>. QED
  BY <1>1, <1>2, <1>3, <1>4, <1>5, <1>6, <1>7, <1>8, <1>9, <1>10, <1>11, <1>12, ClaimCases

\* What a collection has selected stays expired, and its organization gone once deleted.
LEMMA CollectingStep ==
  Claims!TypeOK /\ Existing /\ Collecting /\ [Claims!Next]_(Claims!vars) => Collecting'
<1>. SUFFICES ASSUME Claims!TypeOK, Existing, Collecting, [Claims!Next]_(Claims!vars)
        PROVE Collecting'
  OBVIOUS
<1>. USE DEF MovesOnly, Claims!Requests, Registered
<1>1. CASE UNCHANGED (Claims!vars)
  BY <1>1 DEF Claims!vars, Claims!rows, Collecting
<1>2. ASSUME NEW r \in Accounts, Selects(r) PROVE Collecting'
  <2>1. \A a \in Accounts : Registered(a) => step'[a] = "registered"
    BY <1>2 DEF Selects
  <2>2. \A q \in Accounts : step'[q] = "user" => step[q] = "user"
    BY <1>2 DEF Selects
  <2>3. /\ UNCHANGED <<org, claim, victim>>
        /\ \A q \in Accounts : \A a \in stale'[q] : a \in stale[q] \/ Claims!Stale(a)
    BY <1>2 DEF Selects, Claims!rows
  <2>4. \A a \in Accounts : Claims!Stale(a) => Registered(a) /\ claim[a].expired
    BY DEF Claims!Stale, Claims!ClaimExists, Existing
  <2>5. \A q \in Accounts : stale'[q] \subseteq Accounts /\ victim[q] \in Accounts
    BY ClaimTypeStep DEF Claims!TypeOK
  <2>. QED  BY <2>1, <2>2, <2>3, <2>4, <2>5 DEF Collecting
<1>3. ASSUME NEW r \in Accounts, DeletesOrg(r) PROVE Collecting'
  BY <1>3 DEF DeletesOrg, Collecting, Existing, Claims!TypeOK
<1>4. ASSUME NEW r \in Accounts, DeletesUser(r) PROVE Collecting'
  BY <1>4 DEF DeletesUser, Collecting, Claims!TypeOK
<1>5. ASSUME NEW r \in Accounts, Registers(r) PROVE Collecting'
  BY <1>5 DEF Registers, Collecting, Claims!TypeOK
<1>6. ASSUME NEW s \in Sends, SendsOn(s) PROVE Collecting'
  BY <1>6, Disjoint DEF SendsOn, Claims!rows, Collecting, Claims!TypeOK
<1>7. ASSUME NEW s \in Sends, Stores(s) PROVE Collecting'
  <2>1. \A q \in Accounts : step'[q] = step[q]
    BY <1>7, Disjoint DEF Stores
  <2>2. UNCHANGED <<org, stale, victim>> /\ \A a \in Accounts : claim'[a].expired = claim[a].expired
    BY <1>7 DEF Stores
  <2>3. \A q \in Accounts : stale[q] \subseteq Accounts /\ victim[q] \in Accounts
    BY DEF Claims!TypeOK
  <2>. QED  BY <2>1, <2>2, <2>3 DEF Collecting
<1>8. ASSUME NEW x \in Completes, Completing(x) PROVE Collecting'
  BY <1>8, Disjoint DEF Completing, Claims!rows, Collecting, Claims!TypeOK
<1>9. ASSUME NEW x \in Completes, Misses(x) PROVE Collecting'
  <2>1. \A q \in Accounts : step'[q] = step[q]
    BY <1>9, Disjoint DEF Misses
  <2>2. UNCHANGED <<org, stale, victim>> /\ \A a \in Accounts : claim'[a].expired = claim[a].expired
    BY <1>9 DEF Misses
  <2>3. \A q \in Accounts : stale[q] \subseteq Accounts /\ victim[q] \in Accounts
    BY DEF Claims!TypeOK
  <2>. QED  BY <2>1, <2>2, <2>3 DEF Collecting
<1>10. ASSUME NEW x \in Completes, Binds(x) PROVE Collecting'
  BY <1>10 DEF Binds, Collecting, Claims!TypeOK
<1>11. ASSUME NEW e \in Emails, SignsUp(e) PROVE Collecting'
  BY <1>11 DEF SignsUp, Collecting
<1>12. CASE Expires
  BY <1>12 DEF Expires, Collecting, Claims!TypeOK
<1>. QED
  BY <1>1, <1>2, <1>3, <1>4, <1>5, <1>6, <1>7, <1>8, <1>9, <1>10, <1>11, <1>12, ClaimCases

\* An account that was claimed stays owned by who its completion names.
LEMMA OwnedStep ==
  Claims!TypeOK /\ Existing /\ Held /\ Owned /\ [Claims!Next]_(Claims!vars) => Owned'
<1>. SUFFICES ASSUME Claims!TypeOK, Existing, Held, Owned, [Claims!Next]_(Claims!vars) PROVE Owned'
  OBVIOUS
<1>. USE DEF MovesOnly, Claims!Requests, Registered
<1>0. \A x \in Completes : asked[x].account \in Accounts
  BY Presented
<1>1. CASE UNCHANGED (Claims!vars)
  BY <1>1 DEF Claims!vars, Claims!rows, Owned
<1>2. ASSUME NEW r \in Accounts, Selects(r) PROVE Owned'
  BY <1>2, Disjoint DEF Selects, Claims!rows, Owned, Claims!TypeOK
<1>3. ASSUME NEW r \in Accounts, DeletesOrg(r) PROVE Owned'
  BY <1>3, Disjoint DEF DeletesOrg, Owned, Claims!TypeOK
<1>4. ASSUME NEW r \in Accounts, DeletesUser(r) PROVE Owned'
  BY <1>4 DEF DeletesUser, Owned, Claims!TypeOK
<1>5. ASSUME NEW r \in Accounts, Registers(r) PROVE Owned'
  BY <1>5 DEF Registers, Owned, Claims!TypeOK
<1>6. ASSUME NEW s \in Sends, SendsOn(s) PROVE Owned'
  BY <1>6 DEF SendsOn, Claims!rows, Owned, Claims!TypeOK
<1>7. ASSUME NEW s \in Sends, Stores(s) PROVE Owned'
  BY <1>7 DEF Stores, Owned, Claims!TypeOK
<1>8. ASSUME NEW x \in Completes, Completing(x) PROVE Owned'
  BY <1>8 DEF Completing, Claims!rows, Owned, Claims!TypeOK
<1>9. ASSUME NEW x \in Completes, Misses(x) PROVE Owned'
  <2>1. UNCHANGED <<owner, usedBy, asked, loaded>> /\ \A q \in Claims!Requests : q # x
           => step'[q] = step[q]
    BY <1>9 DEF Misses
  <2>2. step[x] = "miss" /\ x \notin Accounts
    BY <1>9, Disjoint DEF Misses
  <2>3. \A a \in Accounts : usedBy[a] # Nobody => usedBy[a] \in Completes
    BY DEF Claims!TypeOK
  <2>. QED  BY <2>1, <2>2, <2>3 DEF Owned
<1>10. ASSUME NEW x \in Completes, Binds(x) PROVE Owned'
  <2>. DEFINE a == asked[x].account
  <2>1. /\ UNCHANGED <<asked, loaded>> /\ \A q \in Claims!Requests : q # x => step'[q] = step[q]
        /\ step[x] = "bind" /\ step'[x] = "claimed"
    BY <1>10 DEF Binds
  <2>2. /\ usedBy' = [usedBy EXCEPT ![a] = x] /\ owner' = [owner EXCEPT ![a] = loaded[x].email]
        /\ usedBy \in [Accounts -> Completes \cup {Nobody}]
        /\ owner \in [Accounts -> Emails \cup {NoEmail}]
    BY <1>10 DEF Binds, Claims!TypeOK
  <2>3. a \in Accounts /\ Registered(a) /\ x # Nobody /\ x \notin Accounts
    BY <1>0, <2>1, Disjoint DEF Held, Claims!Claimable, Claims!ClaimExists, Existing
  <2>4. ASSUME NEW b \in Accounts, b # a
        PROVE  /\ usedBy'[b] = Nobody => owner'[b] = NoEmail
               /\ usedBy'[b] # Nobody =>
                    /\ Registered(b)' /\ step'[usedBy'[b]] = "claimed"
                    /\ asked'[usedBy'[b]].account = b
                    /\ owner'[b] = loaded'[usedBy'[b]].email
    BY <2>1, <2>2, <2>3, <2>4 DEF Owned
  <2>5. usedBy'[a] = x /\ owner'[a] = loaded[x].email /\ Registered(a)'
    BY <2>1, <2>2, <2>3
  <2>. QED  BY <2>1, <2>3, <2>4, <2>5 DEF Owned
<1>11. ASSUME NEW e \in Emails, SignsUp(e) PROVE Owned'
  BY <1>11 DEF SignsUp, Owned
<1>12. CASE Expires
  BY <1>12 DEF Expires, Owned
<1>. QED
  BY <1>1, <1>2, <1>3, <1>4, <1>5, <1>6, <1>7, <1>8, <1>9, <1>10, <1>11, <1>12, ClaimCases

\* No step collects an account whose claim had not expired.
LEMMA OnlyExpiredCollectedStep ==
  Claims!TypeOK /\ Collecting /\ Claims!OnlyExpiredCollected /\ [Claims!Next]_(Claims!vars)
  => Claims!OnlyExpiredCollected'
<1>. SUFFICES ASSUME Claims!TypeOK, Collecting, Claims!OnlyExpiredCollected,
        [Claims!Next]_(Claims!vars)
              PROVE  Claims!OnlyExpiredCollected'
  OBVIOUS
<1>. USE DEF MovesOnly, Claims!Requests, Registered
<1>1. CASE UNCHANGED (Claims!vars)
  BY <1>1 DEF Claims!vars, Claims!rows, Claims!OnlyExpiredCollected, Claims!ClaimExists
<1>2. ASSUME NEW r \in Accounts, Selects(r) PROVE Claims!OnlyExpiredCollected'
  BY <1>2 DEF Selects, Claims!rows, Claims!ClaimExists, Claims!OnlyExpiredCollected
<1>3. ASSUME NEW r \in Accounts, DeletesOrg(r) PROVE Claims!OnlyExpiredCollected'
  BY <1>3 DEF DeletesOrg, Claims!OnlyExpiredCollected, Collecting, Claims!ClaimExists
<1>4. ASSUME NEW r \in Accounts, DeletesUser(r) PROVE Claims!OnlyExpiredCollected'
  BY <1>4 DEF DeletesUser, Claims!OnlyExpiredCollected, Collecting, Claims!ClaimExists
<1>5. ASSUME NEW r \in Accounts, Registers(r) PROVE Claims!OnlyExpiredCollected'
  BY <1>5 DEF Registers, Claims!OnlyExpiredCollected, Claims!ClaimExists
<1>6. ASSUME NEW s \in Sends, SendsOn(s) PROVE Claims!OnlyExpiredCollected'
  BY <1>6, Disjoint DEF SendsOn, Claims!rows, Claims!OnlyExpiredCollected, Claims!ClaimExists
<1>7. ASSUME NEW s \in Sends, Stores(s) PROVE Claims!OnlyExpiredCollected'
  BY <1>7 DEF Stores, Claims!OnlyExpiredCollected, Claims!ClaimExists
<1>8. ASSUME NEW x \in Completes, Completing(x) PROVE Claims!OnlyExpiredCollected'
  BY <1>8 DEF Completing, Claims!rows, Claims!OnlyExpiredCollected, Claims!ClaimExists
<1>9. ASSUME NEW x \in Completes, Misses(x) PROVE Claims!OnlyExpiredCollected'
  BY <1>9 DEF Misses, Claims!OnlyExpiredCollected, Claims!ClaimExists
<1>10. ASSUME NEW x \in Completes, Binds(x) PROVE Claims!OnlyExpiredCollected'
  BY <1>10 DEF Binds, Claims!OnlyExpiredCollected, Claims!ClaimExists
<1>11. ASSUME NEW e \in Emails, SignsUp(e) PROVE Claims!OnlyExpiredCollected'
  BY <1>11 DEF SignsUp, Claims!OnlyExpiredCollected, Claims!ClaimExists
<1>12. CASE Expires
  BY <1>12 DEF Expires, Claims!OnlyExpiredCollected, Claims!ClaimExists
<1>. QED
  BY <1>1, <1>2, <1>3, <1>4, <1>5, <1>6, <1>7, <1>8, <1>9, <1>10, <1>11, <1>12, ClaimCases

\* No step gives an account the address of somebody else.
LEMMA NoSilentMergeStep ==
  Claims!TypeOK /\ Owned /\ Claims!NoSilentMerge /\ [Claims!Next]_(Claims!vars)
  => Claims!NoSilentMerge'
<1>. SUFFICES ASSUME Claims!TypeOK, Owned, Claims!NoSilentMerge, [Claims!Next]_(Claims!vars)
        PROVE Claims!NoSilentMerge'
  OBVIOUS
<1>. USE DEF MovesOnly, Claims!Requests, Registered
<1>1. CASE UNCHANGED (Claims!vars)
  BY <1>1 DEF Claims!vars, Claims!rows, Claims!NoSilentMerge
<1>2. ASSUME NEW r \in Accounts, Selects(r) PROVE Claims!NoSilentMerge'
  BY <1>2 DEF Selects, Claims!rows, Claims!NoSilentMerge
<1>3. ASSUME NEW r \in Accounts, DeletesOrg(r) PROVE Claims!NoSilentMerge'
  BY <1>3 DEF DeletesOrg, Claims!NoSilentMerge
<1>4. ASSUME NEW r \in Accounts, DeletesUser(r) PROVE Claims!NoSilentMerge'
  BY <1>4 DEF DeletesUser, Claims!NoSilentMerge
<1>5. ASSUME NEW r \in Accounts, Registers(r) PROVE Claims!NoSilentMerge'
  BY <1>5 DEF Registers, Claims!NoSilentMerge, Owned
<1>6. ASSUME NEW s \in Sends, SendsOn(s) PROVE Claims!NoSilentMerge'
  BY <1>6 DEF SendsOn, Claims!rows, Claims!NoSilentMerge
<1>7. ASSUME NEW s \in Sends, Stores(s) PROVE Claims!NoSilentMerge'
  BY <1>7 DEF Stores, Claims!NoSilentMerge
<1>8. ASSUME NEW x \in Completes, Completing(x) PROVE Claims!NoSilentMerge'
  BY <1>8 DEF Completing, Claims!rows, Claims!NoSilentMerge
<1>9. ASSUME NEW x \in Completes, Misses(x) PROVE Claims!NoSilentMerge'
  BY <1>9 DEF Misses, Claims!NoSilentMerge
<1>10. ASSUME NEW x \in Completes, Binds(x) PROVE Claims!NoSilentMerge'
  BY <1>10 DEF Binds, Claims!NoSilentMerge, Claims!Free
<1>11. ASSUME NEW e \in Emails, SignsUp(e) PROVE Claims!NoSilentMerge'
  BY <1>11 DEF SignsUp, Claims!NoSilentMerge, Claims!Free
<1>12. CASE Expires
  BY <1>12 DEF Expires, Claims!NoSilentMerge
<1>. QED
  BY <1>1, <1>2, <1>3, <1>4, <1>5, <1>6, <1>7, <1>8, <1>9, <1>10, <1>11, <1>12, ClaimCases

\* The wrong guesses at the code in a's row.
Guesses(a) == {x \in Completes : /\ step[x] = "missed" /\ asked[x].account = a
                                 /\ loaded[x].code = claim[a].code}

\* Finiteness and cardinality are the same to AccountClaim as here.
LEMMA CompletesFinite == IsFiniteSet(Completes)
<1>1. Claims!IsFiniteSet(Completes)
  BY AccountConstants DEF Claims!ClaimConstants
<1>. QED  BY <1>1, Zenon DEF Claims!IsFiniteSet, IsFiniteSet

LEMMA ClaimsCardinality ==
  ASSUME NEW S
  PROVE  Claims!Cardinality(S) = Cardinality(S)
BY Zenon DEF Claims!Cardinality, Cardinality

\* The guesses are finitely many.
LEMMA GuessesFinite == \A a : IsFiniteSet(Guesses(a))
BY CompletesFinite, FS_Subset DEF Guesses

\* Every wrong guess at the code in the row stays counted.
LEMMA GuessesCountedStep ==
  Claims!TypeOK /\ Existing /\ Mailed /\ Loaded /\ Claims!GuessesCounted
  /\ [Claims!Next]_(Claims!vars) => Claims!GuessesCounted'
<1>. SUFFICES ASSUME Claims!TypeOK, Existing, Mailed, Loaded, Claims!GuessesCounted,
        [Claims!Next]_(Claims!vars),
                     NEW a \in Accounts, claim'[a].code # NoCode, Claims!ClaimExists(a)'
              PROVE  Cardinality(Guesses(a)') <= claim'[a].attempts
  BY ClaimsCardinality DEF Claims!GuessesCounted, Guesses
<1>. USE DEF MovesOnly, Claims!Requests
<1>1. /\ Cardinality(Guesses(a)) \in Nat /\ claim[a].attempts \in Nat /\ claim'[a].attempts \in Nat
      /\ Cardinality(Guesses(a)') \in Nat /\ IsFiniteSet(Guesses(a))
  <2>1. claim[a] \in Claims!Claim /\ claim'[a] \in Claims!Claim
    BY ClaimTypeStep DEF Claims!TypeOK
  <2>2. IsFiniteSet(Guesses(a)')
    BY CompletesFinite, FS_Subset DEF Guesses
  <2>. QED  BY <2>1, <2>2, GuessesFinite, FS_CardinalityType DEF Claims!Claim
<1>2. Claims!ClaimExists(a) /\ claim[a].code # NoCode
         => Cardinality(Guesses(a)) <= claim[a].attempts
  BY ClaimsCardinality DEF Claims!GuessesCounted, Guesses
<1>3. ASSUME Claims!ClaimExists(a), claim[a].code # NoCode, Guesses(a)' \subseteq Guesses(a),
             claim'[a].attempts = claim[a].attempts
      PROVE  Cardinality(Guesses(a)') <= claim'[a].attempts
  BY <1>1, <1>2, <1>3, FS_Subset
\* A step that neither registers nor writes the row.
<1>4. ASSUME claim'[a].code = claim[a].code, claim'[a].attempts = claim[a].attempts,
             asked' = asked, Claims!ClaimExists(a),
             \A x \in Completes : step'[x] = "missed" => step[x] = "missed"
             /\ loaded'[x] = loaded[x]
      PROVE  Cardinality(Guesses(a)') <= claim'[a].attempts
  BY <1>3, <1>4 DEF Guesses
<1>5. CASE UNCHANGED (Claims!vars)
  BY <1>4, <1>5 DEF Claims!vars, Claims!rows, Claims!ClaimExists
<1>6. ASSUME NEW r \in Accounts, Selects(r) \/ DeletesOrg(r) \/ DeletesUser(r)
      PROVE  Cardinality(Guesses(a)') <= claim'[a].attempts
  <2>1. claim' = claim /\ asked' = asked /\ loaded' = loaded /\ Claims!ClaimExists(a)
    BY <1>6 DEF Selects, DeletesOrg, DeletesUser, Claims!rows, Claims!ClaimExists
  <2>2. \A x \in Completes : step'[x] = step[x]
    BY <1>6, Disjoint DEF Selects, DeletesOrg, DeletesUser
  <2>. QED  BY <1>4, <2>1, <2>2
<1>7. ASSUME NEW r \in Accounts, Registers(r)
      PROVE  Cardinality(Guesses(a)') <= claim'[a].attempts
  <2>1. claim' = claim /\ asked' = asked /\ loaded' = loaded
    BY <1>7 DEF Registers
  <2>2. \A x \in Completes : step'[x] = step[x]
    BY <1>7, Disjoint DEF Registers
  <2>3. a # r
    BY <1>7, <2>1 DEF Registers, Mailed, Registered
  <2>4. Claims!ClaimExists(a)
    BY <1>7, <2>3 DEF Registers, Claims!ClaimExists
  <2>. QED  BY <1>4, <2>1, <2>2, <2>4
<1>8. ASSUME NEW s \in Sends, SendsOn(s)
      PROVE  Cardinality(Guesses(a)') <= claim'[a].attempts
  <2>1. claim' = claim /\ asked' = asked /\ loaded' = loaded /\ Claims!ClaimExists(a)
    BY <1>8 DEF SendsOn, Claims!rows, Claims!ClaimExists
  <2>2. \A x \in Completes : step'[x] = step[x]
    BY <1>8, Disjoint DEF SendsOn
  <2>. QED  BY <1>4, <2>1, <2>2
<1>9. ASSUME NEW s \in Sends, Stores(s)
      PROVE  Cardinality(Guesses(a)') <= claim'[a].attempts
  <2>1. asked' = asked /\ loaded' = loaded /\ Claims!ClaimExists(a) /\ step[s] = "update"
    BY <1>9 DEF Stores, Claims!ClaimExists
  <2>2. \A x \in Completes : step'[x] = step[x]
    BY <1>9, Disjoint DEF Stores
  <2>3. CASE claim'[a] = claim[a]
    BY <1>4, <2>1, <2>2, <2>3
  <2>4. CASE claim'[a].code = s
    <3>1. \A x \in Completes : step[x] = "missed" => loaded[x].code # s
      BY <2>1 DEF Loaded, MailedFor
    <3>2. Guesses(a)' = {}
      BY <2>1, <2>2, <2>4, <3>1 DEF Guesses
    <3>. QED  BY <1>1, <3>2, FS_EmptySet
  <2>. QED  BY <1>9, <2>3, <2>4 DEF Stores
<1>10. ASSUME NEW x \in Completes, Completing(x) \/ Binds(x)
       PROVE  Cardinality(Guesses(a)') <= claim'[a].attempts
  <2>1. claim' = claim /\ asked' = asked /\ Claims!ClaimExists(a)
    BY <1>10 DEF Completing, Binds, Claims!rows, Claims!ClaimExists
  <2>2. \A y \in Completes : step'[y] = "missed" => step[y] = "missed" /\ loaded'[y] = loaded[y]
    BY <1>10 DEF Completing, Binds
  <2>. QED  BY <1>4, <2>1, <2>2
<1>11. ASSUME NEW x \in Completes, Misses(x)
       PROVE  Cardinality(Guesses(a)') <= claim'[a].attempts
  <2>1. asked' = asked /\ loaded' = loaded /\ Claims!ClaimExists(a)
           /\ claim'[a].code = claim[a].code
    BY <1>11 DEF Misses, Claims!ClaimExists
  <2>2. \A y \in Completes : y # x => step'[y] = step[y]
    BY <1>11 DEF Misses
  <2>3. CASE asked[x].account = a
    <3>1. Guesses(a)' \subseteq Guesses(a) \cup {x}
      BY <2>1, <2>2 DEF Guesses
    <3>2. claim'[a].attempts = claim[a].attempts + 1
      BY <1>11, <2>1, <2>3 DEF Misses
    <3>3. /\ IsFiniteSet(Guesses(a) \cup {x})
          /\ Cardinality(Guesses(a) \cup {x}) \in Nat
          /\ Cardinality(Guesses(a) \cup {x}) <= Cardinality(Guesses(a)) + 1
      <4>1. /\ IsFiniteSet(Guesses(a) \cup {x})
            /\ \/ Cardinality(Guesses(a) \cup {x}) = Cardinality(Guesses(a))
               \/ Cardinality(Guesses(a) \cup {x}) = Cardinality(Guesses(a)) + 1
        BY <1>1, FS_AddElement
      <4>. QED  BY <1>1, <4>1
    <3>4. Cardinality(Guesses(a)') <= Cardinality(Guesses(a) \cup {x})
      BY <3>1, <3>3, FS_Subset
    <3>. QED  BY <1>1, <1>2, <2>1, <3>2, <3>3, <3>4
  <2>4. CASE asked[x].account # a
    <3>1. Guesses(a)' \subseteq Guesses(a)
      BY <2>1, <2>2, <2>4 DEF Guesses
    <3>2. claim'[a].attempts = claim[a].attempts
      BY <1>11, <2>4 DEF Misses
    <3>. QED  BY <1>3, <2>1, <3>1, <3>2
  <2>. QED  BY <2>3, <2>4
<1>12. ASSUME NEW e \in Emails, SignsUp(e)
       PROVE  Cardinality(Guesses(a)') <= claim'[a].attempts
  BY <1>4, <1>12 DEF SignsUp, Claims!ClaimExists
<1>13. CASE Expires
  BY <1>4, <1>13 DEF Expires, Claims!ClaimExists
<1>. QED
  BY <1>5, <1>6, <1>7, <1>8, <1>9, <1>10, <1>11, <1>12, <1>13, ClaimCases

-----------------------------------------------------------------------------
(* Theorems *)

LEMMA InitClaimInv == Claims!Init => ClaimInv
<1>. SUFFICES ASSUME Claims!Init PROVE ClaimInv
  OBVIOUS
<1>1. Claims!FreshClaim \in Claims!Claim /\ Claims!FreshClaim.code = NoCode
  BY DEF Claims!FreshClaim, Claims!Claim
<1>2. Claims!TypeOK
  BY <1>1 DEF Claims!Init, Claims!TypeOK, Claims!Requests, Claims!Stages
<1>3. /\ \A q \in Claims!Requests : step[q] = "unsent"
      /\ \A a \in Accounts : claim[a].code = NoCode
  BY <1>1 DEF Claims!Init
<1>4. Existing /\ Collecting /\ Owned /\ Claims!NoSilentMerge /\ Claims!OnlyExpiredCollected
  BY <1>3, Disjoint
  DEF Claims!Init, Existing, Collecting, Owned, Claims!NoSilentMerge, Claims!OnlyExpiredCollected,
  Claims!Requests, Registered
<1>5. Mailed /\ Loaded /\ Held /\ Claims!GuessesCounted
  BY <1>3 DEF Mailed, Loaded, Held, Claims!GuessesCounted, Claims!Requests
<1>. QED  BY <1>2, <1>4, <1>5 DEF ClaimInv

\* Every step preserves the inductive invariant.
LEMMA StepClaimInv == ClaimInv /\ [Claims!Next]_(Claims!vars) => ClaimInv'
BY ClaimTypeStep, ExistingStep, MailedStep, LoadedStep, HeldStep, CollectingStep, OwnedStep,
   OnlyExpiredCollectedStep, NoSilentMergeStep, GuessesCountedStep DEF ClaimInv

\* Every reachable state satisfies the inductive invariant: codes name who they
\* were mailed to, a row is held from its claim to the COMMIT, and what the
\* collection has selected is expired.
THEOREM ClaimInvariance == Claims!Spec => []ClaimInv
BY InitClaimInv, StepClaimInv, PTL DEF Claims!Spec

\* Every variable of register, claim and claimComplete keeps its type.
THEOREM ClaimTypes == Claims!Spec => []Claims!TypeOK
BY ClaimInvariance, PTL DEF ClaimInv

\* A step of the part that the accounts are in is one of theirs, or leaves them.
LEMMA AccountSteps ==
  ASSUME [NextEither]_<<part, vars, client, accounts>>, part' = "account"
  PROVE  part = "account" /\ [Claims!Next]_(Claims!vars)
BY DEF NextEither, accounts, Claims!vars, Claims!rows

LEMMA AccountInvariance == Either => [](part = "account" => ClaimInv)
<1>1. InitEither => (part = "account" => ClaimInv)
  BY InitClaimInv DEF InitEither
<1>2. (part = "account" => ClaimInv) /\ [NextEither]_<<part, vars, client, accounts>>
        => (part = "account" => ClaimInv)'
  BY AccountSteps, StepClaimInv
<1>. QED  BY <1>1, <1>2, PTL DEF Either

\* An account goes to the address to which the code that claimed it was mailed,
\* whatever codes are mailed between the check and the transaction.
THEOREM OwnersProved == Either => []OwnerProved
<1>1. (part = "account" => ClaimInv) => OwnerProved
  <2>. SUFFICES ASSUME ClaimInv, NEW a \in Accounts, usedBy[a] # Nobody
                PROVE  LET code == asked[usedBy[a]].code IN
                       code \in Sends /\ asked[code].account = a /\ owner[a] = asked[code].email
    BY DEF OwnerProved, Claims!OwnerProved
  <2>1. usedBy[a] \in Completes
    BY DEF ClaimInv, Claims!TypeOK
  <2>. QED  BY <2>1 DEF ClaimInv, Owned, Loaded, MailedFor
<1>. QED  BY <1>1, AccountInvariance, PTL

\* No two users have one address, however claims and sign-ups race.
THEOREM NoMerge == Either => []NoSilentMerge
<1>1. (part = "account" => ClaimInv) => NoSilentMerge
  BY DEF ClaimInv, NoSilentMerge
<1>. QED  BY <1>1, AccountInvariance, PTL

\* No wrong guess at a code is lost to a racing one.
THEOREM AllGuessesCounted == Claims!Spec => []Claims!GuessesCounted
BY ClaimInvariance, PTL DEF ClaimInv

\* The collection takes nothing from an account whose claim has not expired.
THEOREM ExpiredCollected == Claims!Spec => []Claims!OnlyExpiredCollected
BY ClaimInvariance, PTL DEF ClaimInv

\* The claim of an account implements a one-time token: one completion spends it
\* and no collection, roll back or later completion gives it back.
THEOREM ClaimsWorkOnce == Claims!Spec => Claims!ClaimWorksOnce
<1>. DEFINE issued == {a \in Accounts : step[a] = "registered"}
<1>1. Claims!Init => Claims!Token!Init
  BY DEF Claims!Init, Claims!Requests, Claims!Token!Init
<1>2. ClaimInv /\ [Claims!Next]_(Claims!vars) => [Claims!Token!Next]_<<issued, usedBy>>
  <2>. SUFFICES ASSUME ClaimInv, [Claims!Next]_(Claims!vars) PROVE [Claims!Token!Next]_<<issued,
          usedBy>>
    OBVIOUS
  <2>. USE DEF MovesOnly, Claims!Requests, Registered
  <2>0. Claims!TypeOK
    BY DEF ClaimInv
  <2>1. ASSUME usedBy' = usedBy,
               \A a \in Accounts : Registered(a) => Registered(a)'
        PROVE  [Claims!Token!Next]_<<issued, usedBy>>
    <3>1. issued' = issued \cup (issued' \ issued)
             /\ issued' \ issued \in SUBSET (Accounts \ issued)
      BY <2>1
    <3>. QED  BY <2>1, <3>1 DEF Claims!Token!Next, Claims!Token!Issue
  <2>2. CASE UNCHANGED (Claims!vars)
    BY <2>1, <2>2 DEF Claims!vars, Claims!rows
  <2>3. ASSUME NEW r \in Accounts, Selects(r) \/ DeletesOrg(r) \/ DeletesUser(r) \/ Registers(r)
        PROVE  [Claims!Token!Next]_<<issued, usedBy>>
    BY <2>1, <2>3 DEF Selects, DeletesOrg, DeletesUser, Registers, Claims!rows
  <2>4. ASSUME NEW s \in Sends, SendsOn(s) \/ Stores(s)
        PROVE  [Claims!Token!Next]_<<issued, usedBy>>
    BY <2>1, <2>4, Disjoint DEF SendsOn, Stores, Claims!rows
  <2>5. ASSUME NEW x \in Completes, Completing(x) \/ Misses(x)
        PROVE  [Claims!Token!Next]_<<issued, usedBy>>
    BY <2>1, <2>5, Disjoint DEF Completing, Misses, Claims!rows
  <2>6. ASSUME NEW x \in Completes, Binds(x) PROVE Claims!Token!Next
    <3>. DEFINE a == asked[x].account
    <3>1. a \in Accounts /\ usedBy[a] = Nobody /\ a \in issued
      BY <2>0, <2>6, Presented DEF Binds, ClaimInv, Held, Claims!Claimable, Claims!ClaimExists,
         Existing
    <3>2. usedBy' = [usedBy EXCEPT ![a] = x]
      BY <2>6 DEF Binds
    <3>3. issued' = issued
      BY <2>6, Disjoint DEF Binds
    <3>. QED  BY <3>1, <3>2, <3>3 DEF Claims!Token!Next, Claims!Token!Spend
  <2>7. ASSUME NEW e \in Emails, SignsUp(e) PROVE [Claims!Token!Next]_<<issued, usedBy>>
    BY <2>1, <2>7 DEF SignsUp
  <2>8. CASE Expires
    BY <2>1, <2>8 DEF Expires
  <2>. QED  BY <2>0, <2>2, <2>3, <2>4, <2>5, <2>6, <2>7, <2>8, ClaimCases
<1>. QED  BY <1>1, <1>2, ClaimInvariance, PTL DEF Claims!Spec, Claims!ClaimWorksOnce,
        Claims!Token!Spec
=============================================================================
