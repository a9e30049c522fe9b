---------------------------- MODULE RequestsProofs ----------------------------
(***************************************************************************)
(* Proofs about Requests for any number of requests, users, organizations  *)
(* and keys, any clock, and any age of the cookie cache.                   *)
(*                                                                         *)
(* IInv is inductive.  A request whose credential was not good when it     *)
(* arrived carries one that stays refused (Earned, with CookiesEnd), and   *)
(* as long as a request is under way its history holds every organization  *)
(* its user belongs to (Remembered): a role that is found at any moment    *)
(* names one of them.                                                      *)
(*                                                                         *)
(* LimitInv and TabInv are those of the two other parts of RequestsAndTabs.*)
(* What a bucket let through within a window of now is in its present      *)
(* window, within the limit, or before it, within the limit too; and what  *)
(* a submission has made is an organization of its person.                 *)
(***************************************************************************)
EXTENDS RequestsAndTabs, FiniteSetTheorems, TLAPS

Ended(u) == IF ended[u] = Live THEN now ELSE ended[u]
CookiesEnd == \A u \in Users : cached[u] <= Ended(u) + CacheAge

UnderWay(r) == stage[r] \notin {"unsent", "done"}
Found(r) == stage[r] \in {"organization", "memberships", "role", "handler"}

\* A credential that is refused from now on.
Spent(cred) ==
  \/ cred[1] = "key" /\ ~Usable(cred[2])
  \/ cred[1] = "token" /\ ended[cred[2]] # Live
  \/ cred[1] = "cookie" /\ ended[cred[2]] # Live /\ ~Cached(cred[2])

Known(cred) == cred[1] = "key" => key[cred[2]] # NoKey

Placed(r) ==
  /\ stage[r] # "unsent" => request[r] \in Request /\ Known(request[r].cred)
  /\ UnderWay(r) => (stage[r] = "agent" <=> request[r].proc = "access")
  /\ stage[r] = "memberships" => request[r].proc = "organizations"
  /\ reply[r] = Served => stage[r] = "done"

Earned(r) ==
  /\ stage[r] = "identity" /\ ~request[r].good => Spent(request[r].cred)
  /\ Found(r) \/ reply[r] = Served => request[r].good

Identified(r) == Found(r) => user[r] = Holder(request[r].cred)

Remembered(r) == UnderWay(r) => MemberOf(Holder(request[r].cred)) \subseteq since[r]

Entitled(r) ==
  (stage[r] = "handler" \/ reply[r] = Served) /\ request[r].proc \in Scoped => scope[r] \in since[r]

RequestInv(r) == Placed(r) /\ Earned(r) /\ Identified(r) /\ Remembered(r) /\ Entitled(r)

IInv == TypeOK /\ CookiesEnd /\ \A r \in Requests : RequestInv(r)

-----------------------------------------------------------------------------
(* Statuses *)

\* A refusal is never answered 200.
LEMMA RefusalsAreErrors ==
  ASSUME NEW e \in DOMAIN StatusOf
  PROVE  Answer(e) \in Nat /\ Answer(e) # Served
<1>1. StatusOf[e] \in {400, 401, 403, 404, 409, 429, 500, 503}
  BY DEF StatusOf
<1>2. ToTrpcError(e) \in {"BAD_REQUEST", "UNAUTHORIZED", "FORBIDDEN", "NOT_FOUND", "CONFLICT",
                          "TOO_MANY_REQUESTS", "SERVICE_UNAVAILABLE", "INTERNAL_SERVER_ERROR"}
  BY <1>1 DEF ToTrpcError, TrpcCode
<1>. QED  BY <1>2 DEF Answer, StatusFromCode, Served

-----------------------------------------------------------------------------
(* Credentials *)

CredentialTypes == \A c \in Credentials :
  \/ c[1] = "key" /\ c[2] \in Keys
  \/ c[1] = "token" /\ c[2] \in Users
  \/ c[1] = "cookie" /\ c[2] \in Users

\* A credential is a key, or a token or a cookie of a user.
LEMMA CredentialCases == CredentialTypes
BY DEF CredentialTypes, Credentials

\* A key keeps its user, organization and expiry, and is never revived.
KeyKept(k) ==
  key[k] # NoKey =>
    /\ key'[k] # NoKey
    /\ key'[k].user = key[k].user /\ key'[k].org = key[k].org
    /\ key'[k].expiresAt = key[k].expiresAt
    /\ key'[k].state = "live" => key[k].state = "live"

\* The row of a key is a row.
LEMMA KeyTypes ==
  ASSUME TypeOK, NEW k \in Keys
  PROVE  key[k] \in KeyRow
BY DEF TypeOK

\* The three that write keys.
KeyWritten(k) ==
  \/ \E row \in KeyRow : /\ key[k] = NoKey /\ row.state = "live" /\ row.usedAt = 0
                         /\ key' = [key EXCEPT ![k] = row]
  \/ key[k].state = "live" /\ key' = [key EXCEPT ![k] = [key[k] EXCEPT !.state = "revoked"]]
  \/ \E t \in Time : /\ key[k].usedAt <= t
                     /\ key' = [key EXCEPT ![k] = [key[k] EXCEPT !.usedAt = t]]

\* A step writes the row of at most one key.
LEMMA KeySteps ==
  ASSUME TypeOK, [Next]_vars
  PROVE  UNCHANGED key \/ \E k \in Keys : KeyWritten(k)
<1>1. ASSUME NEW r \in Requests, CreateKey(r) PROVE UNCHANGED key \/ \E k \in Keys : KeyWritten(k)
  <2>. SUFFICES ASSUME key' # key PROVE \E k \in Keys : KeyWritten(k)
    OBVIOUS
  <2>. DEFINE k == request[r].on
              row == NewKey(user[r], scope[r], request[r].expiry)
  <2>1. key[k] = NoKey /\ key' = [key EXCEPT ![k] = row]
    BY <1>1 DEF CreateKey
  <2>2. k \in Keys
    BY <2>1 DEF TypeOK
  <2>3. row \in KeyRow /\ row.state = "live" /\ row.usedAt = 0
    BY DEF NewKey, KeyRow, TypeOK, Request, Unsent, Ask
  <2>. QED  BY <2>1, <2>2, <2>3 DEF KeyWritten
<1>2. ASSUME NEW r \in Requests, RevokeKey(r) PROVE UNCHANGED key \/ \E k \in Keys : KeyWritten(k)
  BY <1>2 DEF RevokeKey, Own, TypeOK, Request, Unsent, Ask, KeyWritten
<1>3. ASSUME NEW k \in Keys, NEW t \in Time, RunTouch(k, t)
      PROVE  UNCHANGED key \/ \E x \in Keys : KeyWritten(x)
  BY <1>3, RequestConstants DEF RunTouch, KeyWritten, Stale, TypeOK, KeyRow, Time
<1>4. CASE UNCHANGED vars
  BY <1>4 DEF vars, tables
<1>5. ASSUME NEW r \in Requests,
             \/ \E proc \in Procedures, cred \in Credentials, header \in Orgs \cup {None},
                   on \in Keys \cup {None}, expiry \in Expiries \cup {0} :
                  Arrive(r, proc, cred, header, on, expiry)
             \/ IdentifyKey(r) \/ IdentifySession(r) \/ RefuseKey(r) \/ RefusePerson(r)
      PROVE  UNCHANGED key
  BY <1>5 DEF tables, Arrive, IdentifyKey, IdentifySession, RefuseKey, RefusePerson
<1>6. ASSUME NEW r \in Requests,
             \/ ResolveOrg(r) \/ ResolveOptionalOrg(r) \/ ListMemberships(r) \/ RequireRole(r)
             \/ Read(r) \/ DatabaseFails(r)
      PROVE  UNCHANGED key
  BY <1>6 DEF tables, ResolveOrg, ResolveOptionalOrg, ListMemberships, RequireRole, Read,
              DatabaseFails
<1>7. ASSUME NEW u \in Users, NEW o \in Orgs, AddMember(u, o) \/ RemoveMember(u, o)
      PROVE  UNCHANGED key
  BY <1>7 DEF AddMember, RemoveMember
<1>8. ASSUME NEW u \in Users, RefreshCookie(u) \/ EndSession(u) PROVE UNCHANGED key
  BY <1>8 DEF RefreshCookie, EndSession
<1>9. ASSUME Tick PROVE UNCHANGED key
  BY <1>9 DEF Tick, tables
<1>. QED
  BY <1>1, <1>2, <1>3, <1>4, <1>5, <1>6, <1>7, <1>8, <1>9 DEF Next

\* A key is never brought back, and when it was last used never goes back.
LEMMA KeyStep ==
  ASSUME TypeOK, [Next]_vars, NEW k \in Keys
  PROVE  KeyKept(k) /\ key'[k].usedAt >= key[k].usedAt /\ key' \in [Keys -> KeyRow]
<1>1. CASE UNCHANGED key
  BY <1>1 DEF KeyKept, TypeOK, KeyRow
<1>2. ASSUME NEW x \in Keys, KeyWritten(x)
      PROVE  KeyKept(k) /\ key'[k].usedAt >= key[k].usedAt /\ key' \in [Keys -> KeyRow]
  <2>0. key \in [Keys -> KeyRow]
    BY DEF TypeOK
  <2>1. PICK row \in KeyRow : /\ key' = [key EXCEPT ![x] = row]
                              /\ \/ key[x] = NoKey /\ row.state = "live" /\ row.usedAt = 0
                                 \/ key[x].state = "live" /\ row = [key[x] EXCEPT !.state = "revoked"]
                                 \/ \E t \in Time : key[x].usedAt <= t /\ row = [key[x] EXCEPT !.usedAt = t]
    BY <1>2, <2>0, RequestConstants DEF KeyWritten, KeyRow, Time
  <2>2. key'[k] = IF k = x THEN row ELSE key[k]
    BY <2>0, <2>1
  <2>3. key[x] # NoKey => /\ row # NoKey /\ row.user = key[x].user /\ row.org = key[x].org
                          /\ row.expiresAt = key[x].expiresAt
                          /\ row.state = "live" => key[x].state = "live"
    BY <2>0, <2>1 DEF KeyRow, NoKey
  <2>4. row.usedAt >= key[x].usedAt
    BY <2>0, <2>1 DEF KeyRow, NoKey, Time
  <2>. QED  BY <2>0, <2>1, <2>2, <2>3, <2>4 DEF KeyKept, KeyRow
<1>. QED  BY <1>1, <1>2, KeySteps

-----------------------------------------------------------------------------
(* What a step does to the request it is of *)

Refusal(r) == UnderWay(r) /\ \E e \in DOMAIN StatusOf : Refuse(r, e)
Service(r) == stage[r] = "handler" /\ Finish(r, Served)
Passage(r) ==
  /\ stage[r] \in {"identity", "organization", "memberships", "role"}
  /\ \E next \in {"organization", "memberships", "role", "handler"}, o \in Orgs \cup {None} :
       LET u == Holder(request[r].cred) IN
       /\ Advance(r, next, u, o)
       /\ u \in Users \cup {None}
       /\ stage[r] = "identity" => ~Spent(request[r].cred)
       /\ next = "memberships" => request[r].proc = "organizations"
       /\ next = "handler" /\ request[r].proc \in Scoped => <<u, o>> \in member

Moves(r) == /\ Refusal(r) \/ Service(r) \/ Passage(r)
            /\ UNCHANGED <<now, member, ended, cached>>
            /\ touches' \subseteq touches \cup (Keys \X {now})

\* Every error a request may end with has a status.
LEMMA Errors == {"Unauthorized", "Forbidden", "BadRequest", "NotFound", "ServiceUnavailable"}
                  \subseteq DOMAIN StatusOf
BY DEF StatusOf

\* The steps that find out who calls move their request only.
LEMMA Identifications ==
  ASSUME TypeOK, NEW r \in Requests, RequestInv(r), IdentifyKey(r) \/ IdentifySession(r)
  PROVE  Moves(r)
<1>. DEFINE cred == request[r].cred
<1>0. stage[r] = "identity" /\ UnderWay(r) /\ request[r] \in Request /\ cred \in Credentials
  BY DEF IdentifyKey, IdentifySession, RequestInv, Placed, UnderWay, Request
<1>1. ASSUME IdentifyKey(r) PROVE Moves(r)
  <2>. DEFINE k == cred[2]
              next == IF request[r].proc \in Scoped THEN "role" ELSE "handler"
  <2>1. /\ cred[1] = "key" /\ k \in Keys /\ UNCHANGED <<now, member, ended, cached>>
        /\ touches' \subseteq touches \cup (Keys \X {now})
    BY <1>0, <1>1, CredentialCases DEF IdentifyKey, CredentialTypes, Touch
  <2>2. CASE Refuse(r, "Unauthorized")
    BY <1>0, <2>1, <2>2, Errors DEF Moves, Refusal
  <2>3. CASE Usable(k) /\ Advance(r, next, key[k].user, key[k].org)
    <3>1. Holder(cred) = key[k].user /\ ~Spent(cred)
      BY <2>1, <2>3 DEF Holder, Spent
    <3>2. key[k].user \in Users \cup {None} /\ key[k].org \in Orgs \cup {None}
      BY <2>1, KeyTypes DEF KeyRow
    <3>3. next \in {"organization", "memberships", "role", "handler"}
          /\ next # "memberships" /\ ~(next = "handler" /\ request[r].proc \in Scoped)
      OBVIOUS
    <3>. HIDE DEF next, k
    <3>4. Passage(r)
      BY <1>0, <2>3, <3>1, <3>2, <3>3 DEF Passage
    <3>. QED  BY <2>1, <3>4 DEF Moves
  <2>. QED  BY <1>1, <2>2, <2>3 DEF IdentifyKey
<1>2. ASSUME IdentifySession(r) PROVE Moves(r)
  <2>. DEFINE u == cred[2]
  <2>1. cred[1] # "key" /\ u \in Users /\ UNCHANGED <<now, member, ended, cached, touches>>
    BY <1>0, <1>2, CredentialCases DEF IdentifySession, CredentialTypes, tables
  <2>2. CASE Refuse(r, "Unauthorized")
    BY <1>0, <2>1, <2>2, Errors DEF Moves, Refusal
  <2>3. CASE /\ ended[u] = Live \/ (cred[1] = "cookie" /\ Cached(u))
             /\ Advance(r, "organization", u, None)
    <3>1. Holder(cred) = u /\ ~Spent(cred)
      BY <1>0, <2>1, <2>3 DEF Holder, Spent
    <3>. HIDE DEF u
    <3>2. Passage(r)
      BY <1>0, <2>1, <2>3, <3>1 DEF Passage
    <3>. QED  BY <2>1, <3>2 DEF Moves
  <2>. QED  BY <1>2, <2>2, <2>3 DEF IdentifySession
<1>. QED  BY <1>1, <1>2

\* The steps that find out the organization and the role move their request only.
LEMMA Resolutions ==
  ASSUME TypeOK, NEW r \in Requests, RequestInv(r),
         ResolveOrg(r) \/ ResolveOptionalOrg(r) \/ ListMemberships(r) \/ RequireRole(r)
  PROVE  Moves(r)
<1>. DEFINE u == user[r]
<1>0. /\ UnderWay(r) /\ request[r] \in Request /\ u = Holder(request[r].cred)
      /\ u \in Users \cup {None} /\ scope[r] \in Orgs \cup {None}
      /\ stage[r] \in {"organization", "memberships", "role"}
      /\ UNCHANGED <<now, member, ended, cached, touches>>
  BY DEF ResolveOrg, ResolveOptionalOrg, ListMemberships, RequireRole, RequestInv, Placed, UnderWay,
         Identified, Found, TypeOK, tables
<1>. HIDE DEF u
<1>1. ASSUME NEW e \in DOMAIN StatusOf, Refuse(r, e) PROVE Moves(r)
  BY <1>0, <1>1 DEF Moves, Refusal
<1>2. ASSUME NEW next \in {"organization", "memberships", "role", "handler"},
             NEW o \in Orgs \cup {None}, Advance(r, next, u, o),
             next = "handler" /\ request[r].proc \in Scoped => <<u, o>> \in member,
             next = "memberships" => request[r].proc = "organizations"
      PROVE  Moves(r)
  BY <1>0, <1>2 DEF Moves, Passage
<1>3. ASSUME NEW x PROVE MemberOf(x) \subseteq Orgs
  BY DEF MemberOf
<1>4. ASSUME ResolveOrg(r) PROVE Moves(r)
  <2>. DEFINE mine == MemberOf(u)
              header == request[r].header
              next == IF request[r].proc \in Scoped THEN "role" ELSE "handler"
  <2>1. next \in {"organization", "memberships", "role", "handler"}
        /\ next # "memberships" /\ ~(next = "handler" /\ request[r].proc \in Scoped)
    OBVIOUS
  <2>2. mine \subseteq Orgs
    BY <1>3
  <2>3. \/ header \in mine /\ Advance(r, next, u, header)
        \/ \E o \in mine : Advance(r, next, u, o)
        \/ \E e \in {"Forbidden", "Unauthorized", "BadRequest"} : Refuse(r, e)
    BY <1>4 DEF ResolveOrg, u
  <2>. HIDE DEF next, mine, header
  <2>. QED  BY <1>1, <1>2, <2>1, <2>2, <2>3, Errors
<1>5. ASSUME ResolveOptionalOrg(r) PROVE Moves(r)
  <2>1. request[r].proc = "organizations" /\ request[r].proc \notin Scoped
    BY <1>5 DEF ResolveOptionalOrg, Scoped
  <2>2. \/ request[r].header \in MemberOf(u) /\ Advance(r, "handler", u, request[r].header)
        \/ Advance(r, "memberships", u, None)
    BY <1>5 DEF ResolveOptionalOrg, u
  <2>. QED  BY <1>2, <1>3, <2>1, <2>2
<1>6. ASSUME ListMemberships(r) PROVE Moves(r)
  <2>1. request[r].proc \notin Scoped
    BY <1>6 DEF ListMemberships, RequestInv, Placed, Scoped
  <2>2. \/ \E o \in MemberOf(u) : Advance(r, "handler", u, o)
        \/ Advance(r, "handler", u, None)
    BY <1>6 DEF ListMemberships, u
  <2>. QED  BY <1>2, <1>3, <2>1, <2>2
<1>7. ASSUME RequireRole(r) PROVE Moves(r)
  BY <1>0, <1>1, <1>2, <1>7, Errors DEF RequireRole, HasRole, u
<1>. QED  BY <1>4, <1>5, <1>6, <1>7

\* The steps that answer move their request only.
LEMMA Answers ==
  ASSUME TypeOK, NEW r \in Requests, RequestInv(r),
         \/ RefuseKey(r) \/ RefusePerson(r) \/ DatabaseFails(r)
         \/ CreateKey(r) \/ RevokeKey(r) \/ Read(r)
  PROVE  Moves(r)
<1>1. UNCHANGED <<now, member, ended, cached, touches>> /\ UnderWay(r)
  BY DEF RefuseKey, RefusePerson, DatabaseFails, CreateKey, RevokeKey, Read, tables, UnderWay
<1>2. \/ stage[r] = "handler" /\ Finish(r, Served)
      \/ \E e \in {"Unauthorized", "Forbidden", "BadRequest", "NotFound", "ServiceUnavailable"} :
           Refuse(r, e)
  BY DEF RefuseKey, RefusePerson, DatabaseFails, CreateKey, RevokeKey, Read
<1>. QED  BY <1>1, <1>2, Errors DEF Moves, Refusal, Service

-----------------------------------------------------------------------------
(* What a step does to everything else *)

Arrives(r) ==
  \E proc \in Procedures, cred \in Credentials, header \in Orgs \cup {None},
     on \in Keys \cup {None}, expiry \in Expiries \cup {0} :
    Arrive(r, proc, cred, header, on, expiry)

World ==
  \/ \E k \in Keys, t \in Time : RunTouch(k, t)
  \/ \E u \in Users, o \in Orgs : AddMember(u, o) \/ RemoveMember(u, o)
  \/ \E u \in Users : RefreshCookie(u) \/ EndSession(u)
  \/ Tick
  \/ UNCHANGED vars

\* A step is of a request, that arrives or moves, or of the world around it.
LEMMA StepCases ==
  ASSUME IInv, [Next]_vars
  PROVE  (\E r \in Requests : Arrives(r) \/ Moves(r)) \/ World
<1>1. ASSUME NEW r \in Requests,
             \/ IdentifyKey(r) \/ IdentifySession(r) \/ RefuseKey(r) \/ RefusePerson(r)
             \/ ResolveOrg(r) \/ ResolveOptionalOrg(r) \/ ListMemberships(r) \/ RequireRole(r)
             \/ CreateKey(r) \/ RevokeKey(r) \/ Read(r) \/ DatabaseFails(r)
      PROVE  Moves(r)
  BY <1>1, Identifications, Resolutions, Answers DEF IInv
<1>. QED  BY <1>1 DEF Next, World, Arrives

SessionStep(u) ==
  /\ ended'[u] = ended[u] \/ (ended[u] = Live /\ ended'[u] = now)
  /\ cached'[u] = cached[u] \/ (ended'[u] = Live /\ ended[u] = Live /\ cached'[u] = now + CacheAge)

\* Time goes on, and sessions that have ended stay so.
LEMMA ClockSteps ==
  ASSUME IInv, [Next]_vars
  PROVE  /\ now' \in 1 .. MaxTime /\ now' >= now
         /\ ended' \in [Users -> 1 .. Live] /\ cached' \in [Users -> Nat]
         /\ \A u \in Users : SessionStep(u)
<1>. USE RequestConstants
<1>0. /\ now \in 1 .. MaxTime /\ ended \in [Users -> 1 .. Live] /\ cached \in [Users -> Nat]
      /\ Live \in Nat
  BY DEF IInv, TypeOK, Live
<1>1. CASE UNCHANGED <<now, ended, cached>>
  BY <1>0, <1>1 DEF SessionStep
<1>2. CASE Tick
  BY <1>0, <1>2 DEF Tick, SessionStep, tables
<1>3. ASSUME NEW u \in Users, RefreshCookie(u)
      PROVE  /\ UNCHANGED <<now, ended>> /\ cached' \in [Users -> Nat]
             /\ \A x \in Users : SessionStep(x)
  BY <1>0, <1>3 DEF RefreshCookie, SessionStep
<1>4. ASSUME NEW u \in Users, EndSession(u)
      PROVE  /\ UNCHANGED <<now, cached>> /\ ended' \in [Users -> 1 .. Live]
             /\ \A x \in Users : SessionStep(x)
  BY <1>0, <1>4 DEF EndSession, SessionStep, Live
<1>5. ASSUME NEW r \in Requests, Arrives(r) \/ Moves(r) PROVE UNCHANGED <<now, ended, cached>>
  BY <1>5 DEF Arrives, Arrive, tables, Moves
<1>6. ASSUME NEW u \in Users, NEW o \in Orgs, AddMember(u, o) \/ RemoveMember(u, o)
      PROVE  UNCHANGED <<now, ended, cached>>
  BY <1>6 DEF AddMember, RemoveMember
<1>7. ASSUME NEW k \in Keys, NEW t \in Time, RunTouch(k, t) PROVE UNCHANGED <<now, ended, cached>>
  BY <1>7 DEF RunTouch
<1>8. CASE UNCHANGED vars
  BY <1>1, <1>8 DEF vars, tables
<1>. QED
  BY <1>0, <1>1, <1>2, <1>3, <1>4, <1>5, <1>6, <1>7, <1>8, StepCases DEF World

\* A cached cookie ends with its age, whatever the session does.
LEMMA CookieStep ==
  ASSUME IInv, [Next]_vars
  PROVE  CookiesEnd'
<1>. SUFFICES ASSUME NEW u \in Users PROVE cached'[u] <= Ended(u)' + CacheAge
  BY DEF CookiesEnd
<1>1. SessionStep(u) /\ cached[u] <= Ended(u) + CacheAge /\ now' >= now
  BY ClockSteps DEF IInv, CookiesEnd
<1>2. /\ now \in Nat /\ now' \in Nat /\ ended[u] \in Nat /\ ended'[u] \in Nat
      /\ cached[u] \in Nat /\ CacheAge \in Nat /\ now < Live /\ Live \in Nat
  BY ClockSteps, RequestConstants DEF IInv, TypeOK, Live
<1>. QED  BY <1>1, <1>2 DEF SessionStep, Ended, Live

\* What is refused once is refused for good.
LEMMA SpentStays ==
  ASSUME IInv, [Next]_vars, NEW cred \in Credentials, Known(cred), Spent(cred)
  PROVE  Spent(cred)'
<1>0. now \in Nat /\ now' \in Nat /\ now' >= now
  BY ClockSteps, RequestConstants DEF IInv, TypeOK
<1>1. CASE cred[1] = "key"
  <2>. DEFINE k == cred[2]
  <2>1. k \in Keys /\ key[k] # NoKey /\ ~Usable(k)
    BY <1>1, CredentialCases DEF CredentialTypes, Known, Spent
  <2>2. KeyKept(k) /\ key[k].expiresAt \in Nat
    BY <2>1, KeyStep, KeyTypes DEF IInv, KeyRow
  <2>. HIDE DEF k
  <2>3. ~Usable(k)'
    BY <1>0, <2>1, <2>2 DEF KeyKept, Usable, Lapsed
  <2>. QED  BY <1>1, <2>3 DEF Spent, k
<1>2. CASE cred[1] # "key"
  <2>. DEFINE u == cred[2]
  <2>1. u \in Users /\ ended[u] # Live
    BY <1>2, CredentialCases DEF CredentialTypes, Spent
  <2>2. SessionStep(u) /\ cached[u] \in Nat
    BY <2>1, ClockSteps DEF IInv, TypeOK
  <2>. HIDE DEF u
  <2>3. ended'[u] # Live /\ cached'[u] = cached[u]
    BY <2>1, <2>2 DEF SessionStep, Live
  <2>4. ~Cached(u) => ~Cached(u)'
    BY <1>0, <2>2, <2>3 DEF Cached
  <2>. QED  BY <1>2, <2>3, <2>4 DEF Spent, u, Live
<1>. QED  BY <1>1, <1>2

\* A credential that is known keeps its holder.
LEMMA HolderStays ==
  ASSUME IInv, [Next]_vars, NEW cred \in Credentials, Known(cred)
  PROVE  Holder(cred)' = Holder(cred) /\ Known(cred)'
<1>1. CASE cred[1] = "key"
  <2>1. KeyKept(cred[2])
    BY <1>1, KeyStep, CredentialCases DEF IInv, CredentialTypes
  <2>. QED  BY <1>1, <2>1 DEF Holder, Known, KeyKept
<1>2. CASE cred[1] # "key"
  BY <1>2 DEF Holder, Known
<1>. QED  BY <1>1, <1>2

-----------------------------------------------------------------------------
(* The invariant of a request *)

\* A request that nothing has happened to, but that its history may have grown.
Still(r) ==
  /\ request'[r] = request[r] /\ stage'[r] = stage[r] /\ user'[r] = user[r]
  /\ scope'[r] = scope[r] /\ reply'[r] = reply[r]
  /\ since[r] \subseteq since'[r]
  /\ UnderWay(r) => \A o \in Orgs : <<Holder(request[r].cred), o>> \in member' =>
       <<Holder(request[r].cred), o>> \in member \/ o \in since'[r]

\* A request that does not move keeps what is true of it.
LEMMA StillStep ==
  ASSUME IInv, [Next]_vars, NEW r \in Requests, Still(r)
  PROVE  RequestInv(r)'
<1>0. RequestInv(r)
  BY DEF IInv
<1>1. stage[r] # "unsent" =>
        /\ request[r] \in Request /\ request[r].cred \in Credentials /\ Known(request[r].cred)
        /\ Holder(request[r].cred)' = Holder(request[r].cred) /\ Known(request[r].cred)'
  BY <1>0, HolderStays DEF RequestInv, Placed, Still, Request
<1>2. Placed(r)'
  BY <1>0, <1>1 DEF Still, RequestInv, Placed, UnderWay, Request, Known
<1>3. Earned(r)'
  <2>1. stage[r] = "identity" /\ ~request[r].good => Spent(request[r].cred)'
    BY <1>0, <1>1, SpentStays DEF RequestInv, Earned, Still
  <2>. QED  BY <1>0, <2>1 DEF Still, RequestInv, Earned, Found, Spent
<1>4. Identified(r)'
  BY <1>0, <1>1 DEF Still, RequestInv, Identified, Found, Holder
<1>5. Remembered(r)'
  <2>. SUFFICES ASSUME UnderWay(r), NEW o \in Orgs, <<Holder(request[r].cred), o>> \in member'
                PROVE  o \in since'[r]
    BY <1>1 DEF Still, Remembered, MemberOf, UnderWay, Holder
  <2>. QED  BY <1>0 DEF Still, RequestInv, Remembered, MemberOf
<1>6. Entitled(r)'
  BY <1>0 DEF Still, RequestInv, Entitled
<1>. QED  BY <1>2, <1>3, <1>4, <1>5, <1>6 DEF RequestInv

\* The types of the variables of the requests.
LEMMA RequestTypes ==
  ASSUME IInv
  PROVE  /\ request \in [Requests -> Request \cup {Unsent}] /\ stage \in [Requests -> Stages]
         /\ user \in [Requests -> Users \cup {None}] /\ scope \in [Requests -> Orgs \cup {None}]
         /\ reply \in [Requests -> Nat] /\ since \in [Requests -> SUBSET Orgs]
BY DEF IInv, TypeOK

\* The credential of a request that has arrived stays known, and its holder the same.
LEMMA KnownStays ==
  ASSUME IInv, [Next]_vars, NEW r \in Requests, stage[r] # "unsent", request'[r] = request[r]
  PROVE  /\ request[r] \in Request /\ Known(request[r].cred)'
         /\ Holder(request[r].cred)' = Holder(request[r].cred)
<1>1. request[r] \in Request /\ Known(request[r].cred)
  BY DEF IInv, RequestInv, Placed
<1>2. request[r].cred \in Credentials
  BY <1>1 DEF Request
<1>. QED  BY <1>1, <1>2, HolderStays

\* What is true of a request is true after it is refused.
LEMMA RefusalStep ==
  ASSUME IInv, [Next]_vars, NEW r \in Requests, Refusal(r)
  PROVE  RequestInv(r)' /\ reply' \in [Requests -> Nat]
<1>1. PICK e \in DOMAIN StatusOf : Finish(r, Answer(e))
  BY DEF Refusal, Refuse
<1>2. /\ stage'[r] = "done" /\ reply'[r] # Served /\ request' = request
      /\ reply' \in [Requests -> Nat]
  BY <1>1, RefusalsAreErrors, RequestTypes DEF Finish
<1>3. RequestInv(r) /\ stage[r] # "unsent"
  BY DEF IInv, Refusal, UnderWay
<1>4. request[r] \in Request /\ Known(request[r].cred)'
  BY <1>2, <1>3, KnownStays
<1>. QED
  BY <1>2, <1>4
  DEF RequestInv, Placed, Earned, Identified, Remembered, Entitled, UnderWay, Found, Known

\* What is true of a request is true after it is served.
LEMMA ServiceStep ==
  ASSUME IInv, [Next]_vars, NEW r \in Requests, Service(r)
  PROVE  RequestInv(r)' /\ reply' \in [Requests -> Nat]
<1>1. /\ stage'[r] = "done" /\ reply'[r] = Served /\ UNCHANGED <<request, scope, since>>
      /\ reply' \in [Requests -> Nat]
  BY RequestTypes DEF Service, Finish, Served
<1>2. RequestInv(r) /\ stage[r] = "handler"
  BY DEF IInv, Service
<1>3. request[r] \in Request /\ Known(request[r].cred)'
  BY <1>1, <1>2, KnownStays
<1>4. request[r].good /\ (request[r].proc \in Scoped => scope[r] \in since[r])
  BY <1>2 DEF RequestInv, Earned, Found, Entitled
<1>. QED
  BY <1>1, <1>3, <1>4
  DEF RequestInv, Placed, Earned, Identified, Remembered, Entitled, UnderWay, Found, Known

\* What is true of a request is true after it has passed a check.
LEMMA PassageStep ==
  ASSUME IInv, [Next]_vars, NEW r \in Requests, Passage(r), UNCHANGED member
  PROVE  /\ RequestInv(r)'
         /\ stage' \in [Requests -> Stages] /\ user' \in [Requests -> Users \cup {None}]
         /\ scope' \in [Requests -> Orgs \cup {None}]
<1>. DEFINE cred == request[r].cred
            u == Holder(cred)
<1>1. PICK next \in {"organization", "memberships", "role", "handler"}, o \in Orgs \cup {None} :
        /\ Advance(r, next, u, o)
        /\ u \in Users \cup {None}
        /\ stage[r] = "identity" => ~Spent(request[r].cred)
        /\ next = "memberships" => request[r].proc = "organizations"
        /\ next = "handler" /\ request[r].proc \in Scoped => <<u, o>> \in member
  BY DEF Passage
<1>2. /\ stage'[r] = next /\ user'[r] = u /\ scope'[r] = o /\ UNCHANGED <<request, reply, since>>
      /\ stage' \in [Requests -> Stages] /\ user' \in [Requests -> Users \cup {None}]
      /\ scope' \in [Requests -> Orgs \cup {None}]
  BY <1>1, RequestTypes DEF Advance, Stages
<1>3. RequestInv(r) /\ stage[r] \in {"identity", "organization", "memberships", "role"}
  BY DEF IInv, Passage
<1>4. request[r] \in Request /\ Known(cred)' /\ Holder(cred)' = u
  BY <1>2, <1>3, KnownStays
<1>. HIDE DEF cred, u
<1>5. request[r].good /\ reply[r] # Served /\ request[r].proc # "access"
  BY <1>1, <1>3 DEF RequestInv, Earned, Found, Placed, UnderWay
<1>6. MemberOf(u) \subseteq since[r]
  BY <1>3 DEF RequestInv, Remembered, UnderWay, u, cred
<1>7. Placed(r)'
  BY <1>1, <1>2, <1>4, <1>5 DEF Placed, UnderWay, Known, cred
<1>8. Earned(r)' /\ Identified(r)'
  BY <1>1, <1>2, <1>4, <1>5 DEF Earned, Identified, Found, Holder, cred
<1>9. Remembered(r)'
  BY <1>1, <1>2, <1>4, <1>6 DEF Remembered, MemberOf, UnderWay, Holder, cred
<1>10. Entitled(r)'
  <2>. SUFFICES ASSUME next = "handler", request[r].proc \in Scoped PROVE o \in since[r]
    BY <1>2, <1>5 DEF Entitled
  <2>1. <<u, o>> \in member
    BY <1>1
  <2>2. o \in MemberOf(u)
    BY <2>1 DEF MemberOf, IInv, TypeOK
  <2>. QED  BY <1>6, <2>2
<1>. QED  BY <1>2, <1>7, <1>8, <1>9, <1>10 DEF RequestInv

\* What is true of a request is true when it arrives.
LEMMA ArriveStep ==
  ASSUME IInv, [Next]_vars, NEW r \in Requests, Arrives(r)
  PROVE  /\ RequestInv(r)'
         /\ request' \in [Requests -> Request \cup {Unsent}] /\ stage' \in [Requests -> Stages]
         /\ since' \in [Requests -> SUBSET Orgs]
<1>1. PICK proc \in Procedures, cred \in Credentials, header \in Orgs \cup {None},
           on \in Keys \cup {None}, expiry \in Expiries \cup {0} :
        Arrive(r, proc, cred, header, on, expiry)
  BY DEF Arrives
<1>. DEFINE q == Ask(proc, cred, header, on, expiry, GoodNow(cred))
<1>2. GoodNow(cred) \in BOOLEAN
  BY DEF GoodNow
<1>3. q \in Request /\ q.cred = cred /\ q.proc = proc /\ q.good = GoodNow(cred)
  BY <1>2, RequestConstants DEF Ask, Request
<1>4. /\ request'[r] = q /\ since'[r] = MemberOf(Holder(cred))
      /\ stage'[r] = IF proc = "access" THEN "agent" ELSE "identity"
      /\ UNCHANGED <<now, member, ended, cached, key, reply>>
      /\ stage[r] = "unsent" /\ Known(cred)
  BY <1>1, RequestTypes DEF Arrive, tables, Known
<1>5. /\ request' \in [Requests -> Request \cup {Unsent}] /\ stage' \in [Requests -> Stages]
      /\ since' \in [Requests -> SUBSET Orgs]
  <2>1. MemberOf(Holder(cred)) \subseteq Orgs
    BY DEF MemberOf
  <2>2. request' = [request EXCEPT ![r] = q]
    BY <1>1 DEF Arrive
  <2>. HIDE DEF q
  <2>. QED  BY <1>1, <1>3, <2>1, <2>2, RequestTypes DEF Arrive, Stages
<1>. HIDE DEF q
<1>6. reply[r] # Served
  BY <1>4 DEF IInv, RequestInv, Placed
<1>7. ~GoodNow(cred) => Spent(cred)'
  <2>1. ~GoodNow(cred) => Spent(cred)
    <3>1. \A u \in Users : cached[u] <= Ended(u) + CacheAge
      BY DEF IInv, CookiesEnd
    <3>2. CASE cred[1] = "key"
      BY <3>2 DEF GoodNow, Spent, Usable
    <3>3. CASE cred[1] = "token"
      BY <3>3 DEF GoodNow, Spent
    <3>4. CASE cred[1] = "cookie"
      <4>1. cred[2] \in Users
        BY <3>4, CredentialCases DEF CredentialTypes
      <4>2. /\ now \in Nat /\ cached[cred[2]] \in Nat /\ ended[cred[2]] \in Nat /\ CacheAge \in Nat
            /\ cached[cred[2]] <= Ended(cred[2]) + CacheAge
        BY <3>1, <4>1, RequestConstants DEF IInv, TypeOK, Live
      <4>. QED  BY <3>4, <4>2 DEF GoodNow, Spent, Cached, Ended
    <3>. QED  BY <3>2, <3>3, <3>4, CredentialCases DEF CredentialTypes
  <2>. QED  BY <1>4, <2>1, SpentStays
<1>8. Known(cred)' /\ Holder(cred)' = Holder(cred)
  BY <1>4, HolderStays
<1>9. Placed(r)'
  BY <1>3, <1>4, <1>6, <1>8 DEF Placed, UnderWay, Known
<1>10. Earned(r)' /\ Identified(r)' /\ Entitled(r)'
  BY <1>3, <1>4, <1>6, <1>7 DEF Earned, Identified, Entitled, Found, Spent
<1>11. Remembered(r)'
  BY <1>3, <1>4, <1>8 DEF Remembered, MemberOf, Holder
<1>. QED  BY <1>5, <1>9, <1>10, <1>11 DEF RequestInv

-----------------------------------------------------------------------------
(* The theorems *)

LEMMA OthersStay ==
  ASSUME IInv, [Next]_vars, NEW r \in Requests, Arrives(r) \/ Moves(r)
  PROVE  \A s \in Requests \ {r} : Still(s)
<1>1. UNCHANGED member
  BY DEF Arrives, Arrive, Moves, tables
<1>2. CASE Arrives(r)
  BY <1>1, <1>2, RequestTypes DEF Arrives, Arrive, Still
<1>3. CASE Moves(r)
  BY <1>1, <1>3, RequestTypes DEF Moves, Refusal, Refuse, Service, Finish, Passage, Advance, Still
<1>. QED  BY <1>2, <1>3

\* What happens in the world moves no request, and its history grows with the memberships.
LEMMA WorldStep ==
  ASSUME IInv, [Next]_vars, World
  PROVE  /\ \A r \in Requests : Still(r)
         /\ UNCHANGED <<request, context>> /\ since' \in [Requests -> SUBSET Orgs]
<1>. USE RequestTypes
<1>1. ASSUME NEW u \in Users, NEW o \in Orgs, AddMember(u, o)
      PROVE  /\ \A r \in Requests : Still(r)
             /\ UNCHANGED <<request, context>> /\ since' \in [Requests -> SUBSET Orgs]
  <2>1. /\ UNCHANGED <<request, stage, user, scope, reply>> /\ member' = member \cup {<<u, o>>}
        /\ since' = [r \in Requests |-> IF r \in InFlight(u) THEN since[r] \cup {o} ELSE since[r]]
    BY <1>1 DEF AddMember, context
  <2>2. \A r \in Requests : since[r] \subseteq since'[r]
    BY <2>1
  <2>3. ASSUME NEW r \in Requests, UnderWay(r), Holder(request[r].cred) = u PROVE o \in since'[r]
    BY <2>1, <2>3 DEF InFlight, UnderWay
  <2>4. since' \in [Requests -> SUBSET Orgs]
    BY <2>1
  <2>. QED  BY <2>1, <2>2, <2>3, <2>4 DEF Still, context
<1>2. ASSUME UNCHANGED <<request, context, since>>, member' \subseteq member
      PROVE  /\ \A r \in Requests : Still(r)
             /\ UNCHANGED <<request, context>> /\ since' \in [Requests -> SUBSET Orgs]
  BY <1>2 DEF Still, context
<1>3. ASSUME NEW u \in Users, RefreshCookie(u) \/ EndSession(u)
      PROVE  UNCHANGED <<request, context, since, member>>
  BY <1>3 DEF RefreshCookie, EndSession
<1>4. ASSUME NEW u \in Users, NEW o \in Orgs, RemoveMember(u, o)
      PROVE  UNCHANGED <<request, context, since>> /\ member' \subseteq member
  BY <1>4 DEF RemoveMember
<1>5. ASSUME NEW k \in Keys, NEW t \in Time, RunTouch(k, t)
      PROVE  UNCHANGED <<request, context, since, member>>
  BY <1>5 DEF RunTouch
<1>6. CASE Tick
  BY <1>2, <1>6 DEF Tick, tables
<1>7. CASE UNCHANGED vars
  BY <1>2, <1>7 DEF vars, tables
<1>. QED
  BY <1>1, <1>2, <1>3, <1>4, <1>5, <1>6, <1>7 DEF World

\* Every step keeps the type of the tables.
LEMMA TableTypes ==
  ASSUME IInv, [Next]_vars
  PROVE  /\ member' \subseteq Users \X Orgs /\ key' \in [Keys -> KeyRow]
         /\ touches' \subseteq Keys \X Time
<1>1. key' \in [Keys -> KeyRow]
  BY KeyStep, KeySteps DEF IInv, TypeOK
<1>2. member' \subseteq Users \X Orgs /\ touches' \subseteq Keys \X Time
  <2>0. /\ member \subseteq Users \X Orgs /\ touches \subseteq Keys \X Time
        /\ now \in Time
    BY RequestConstants DEF IInv, TypeOK, Time
  <2>1. ASSUME NEW r \in Requests, Arrives(r) \/ Moves(r)
        PROVE  UNCHANGED member /\ touches' \subseteq Keys \X Time
    BY <2>0, <2>1 DEF Arrives, Arrive, Moves, tables
  <2>2. ASSUME NEW u \in Users, NEW o \in Orgs, AddMember(u, o) \/ RemoveMember(u, o)
        PROVE  member' \subseteq Users \X Orgs /\ UNCHANGED touches
    BY <2>0, <2>2 DEF AddMember, RemoveMember
  <2>3. ASSUME NEW u \in Users, RefreshCookie(u) \/ EndSession(u)
        PROVE  UNCHANGED <<member, touches>>
    BY <2>3 DEF RefreshCookie, EndSession
  <2>4. ASSUME NEW k \in Keys, NEW t \in Time, RunTouch(k, t)
        PROVE  UNCHANGED member /\ touches' \subseteq touches
    BY <2>4 DEF RunTouch
  <2>5. CASE Tick \/ UNCHANGED vars
    BY <2>0, <2>5 DEF Tick, tables, vars
  <2>. QED  BY <2>0, <2>1, <2>2, <2>3, <2>4, <2>5, StepCases DEF World
<1>. QED  BY <1>1, <1>2

\* Every step preserves the inductive invariant.
LEMMA InvarianceStep ==
  ASSUME IInv, [Next]_vars
  PROVE  IInv'
<1>. DEFINE Types ==
       /\ request \in [Requests -> Request \cup {Unsent}] /\ stage \in [Requests -> Stages]
       /\ user \in [Requests -> Users \cup {None}] /\ scope \in [Requests -> Orgs \cup {None}]
       /\ reply \in [Requests -> Nat] /\ since \in [Requests -> SUBSET Orgs]
<1>1. ASSUME NEW r \in Requests, Arrives(r) PROVE Types' /\ \A s \in Requests : RequestInv(s)'
  <2>1. UNCHANGED <<user, scope, reply>>
    BY <1>1 DEF Arrives, Arrive
  <2>2. Types'
    BY <1>1, <2>1, ArriveStep, RequestTypes
  <2>. QED  BY <1>1, <2>2, ArriveStep, OthersStay, StillStep
<1>2. ASSUME NEW r \in Requests, Moves(r) PROVE Types' /\ \A s \in Requests : RequestInv(s)'
  <2>1. CASE Refusal(r)
    <3>1. UNCHANGED <<request, user, scope, since>> /\ stage' \in [Requests -> Stages]
      BY <2>1, RequestTypes DEF Refusal, Refuse, Finish, Stages
    <3>2. Types' /\ RequestInv(r)'
      BY <2>1, <3>1, RefusalStep, RequestTypes
    <3>. QED  BY <1>2, <3>2, OthersStay, StillStep
  <2>2. CASE Service(r)
    <3>1. UNCHANGED <<request, user, scope, since>> /\ stage' \in [Requests -> Stages]
      BY <2>2, RequestTypes DEF Service, Finish, Stages
    <3>2. Types' /\ RequestInv(r)'
      BY <2>2, <3>1, ServiceStep, RequestTypes
    <3>. QED  BY <1>2, <3>2, OthersStay, StillStep
  <2>3. CASE Passage(r)
    <3>1. UNCHANGED <<request, reply, since, member>>
      BY <1>2, <2>3 DEF Passage, Advance, Moves
    <3>2. Types' /\ RequestInv(r)'
      BY <2>3, <3>1, PassageStep, RequestTypes
    <3>. QED  BY <1>2, <3>2, OthersStay, StillStep
  <2>. QED  BY <1>2, <2>1, <2>2, <2>3 DEF Moves
<1>3. ASSUME World PROVE Types' /\ \A s \in Requests : RequestInv(s)'
  <2>1. Types'
    BY <1>3, WorldStep, RequestTypes DEF context
  <2>. QED  BY <1>3, <2>1, WorldStep, StillStep
<1>4. Types' /\ \A s \in Requests : RequestInv(s)'
  <2>. HIDE DEF Types
  <2>. QED  BY <1>1, <1>2, <1>3, StepCases
<1>. QED  BY <1>4, TableTypes, ClockSteps, CookieStep DEF IInv, TypeOK, Live

\* The inductive invariant holds at first.
LEMMA InitIInv == Init => IInv
<1>. SUFFICES ASSUME Init PROVE IInv
  OBVIOUS
<1>. USE RequestConstants
<1>1. key \in [Keys -> KeyRow]
  BY DEF Init, NoKey, NewKey, KeyRow
<1>2. TypeOK
  <2>1. now \in 1 .. MaxTime /\ ended \in [Users -> 1 .. Live]
    BY DEF Init, Live
  <2>2. cached \in [Users -> Nat] /\ member \subseteq Users \X Orgs /\ touches \subseteq Keys \X Time
    BY DEF Init
  <2>3. request \in [Requests -> Request \cup {Unsent}] /\ stage \in [Requests -> Stages]
    BY DEF Init, Stages
  <2>4. /\ user \in [Requests -> Users \cup {None}] /\ scope \in [Requests -> Orgs \cup {None}]
        /\ reply \in [Requests -> Nat] /\ since \in [Requests -> SUBSET Orgs]
    BY DEF Init
  <2>. QED  BY <1>1, <2>1, <2>2, <2>3, <2>4 DEF TypeOK
<1>3. CookiesEnd
  BY DEF Init, CookiesEnd, Ended, Live
<1>4. ASSUME NEW r \in Requests PROVE RequestInv(r)
  BY DEF Init, RequestInv, Placed, Earned, Identified, Remembered, Entitled, UnderWay, Found, Served
<1>. QED  BY <1>2, <1>3, <1>4 DEF IInv

\* IInv holds at first and every step preserves it.
THEOREM Invariance == Spec => []IInv
BY InitIInv, InvarianceStep, PTL DEF Spec

\* Every value stays of its type.
THEOREM TypeCorrect == Spec => []TypeOK
<1>1. IInv => TypeOK
  BY DEF IInv
<1>. QED  BY <1>1, Invariance, PTL

\* Whatever changes while a request is under way, a scoped procedure answers 200 only to
\* somebody who was in the organization at some moment since the request arrived, with a
\* credential that was good at that moment, but for the age of the cookie cache.
THEOREM ServedIsEntitled == Spec => []ServedWasEntitled
<1>1. IInv => ServedWasEntitled
  BY DEF IInv, RequestInv, Earned, Entitled, ServedWasEntitled
<1>. QED  BY <1>1, Invariance, PTL

\* Updates of last_used_at that run late, in any order, or not at all never put it back.
THEOREM LastUsedAdvances == Spec => LastUsedNeverGoesBack
<1>1. IInv /\ [Next]_vars => [\A k \in Keys : key'[k].usedAt >= key[k].usedAt]_vars
  BY KeyStep DEF IInv
<1>. QED  BY <1>1, Invariance, PTL DEF Spec, LastUsedNeverGoesBack

\* A key that is revoked or has lapsed is never good again.
THEOREM KeysStayRefused ==
  Spec => [][\A k \in Keys : key[k] # NoKey /\ ~Usable(k) => ~Usable(k)']_vars
<1>1. IInv /\ [Next]_vars => [\A k \in Keys : key[k] # NoKey /\ ~Usable(k) => ~Usable(k)']_vars
  <2>. SUFFICES ASSUME IInv, [Next]_vars, NEW k \in Keys, key[k] # NoKey, ~Usable(k)
                PROVE  ~Usable(k)'
    OBVIOUS
  <2>. DEFINE cred == <<"key", k>>
  <2>1. cred \in Credentials /\ Known(cred) /\ Spent(cred)
    BY DEF Credentials, Known, Spent
  <2>2. Spent(cred)'
    BY <2>1, SpentStays
  <2>. QED  BY <2>2 DEF Spent
<1>. QED  BY <1>1, Invariance, PTL DEF Spec

-----------------------------------------------------------------------------
(* The rate limiter: proofs about RateLimit for any limits and windows. *)

\* The calls a bucket let through within its window of now; those of its present
\* window, and those of windows before.
Through(b) == UNION {{t} \X (1 .. passed[b][t]) : t \in RL!Time}
Opened(b) == bucket[b].resetAt - RL!WindowOf(b)
Recent(b) == {x \in Through(b) : x[1] >= Opened(b)}
Earlier(b) == {x \in Through(b) : x[1] < Opened(b)}

\* Each of the two is within the limit.
Bounded(b) ==
  /\ bucket[b].resetAt <= clock + RL!WindowOf(b)
  /\ IsFiniteSet(Through(b))
  /\ Cardinality(Recent(b)) <= bucket[b].count
  /\ Cardinality(Recent(b)) <= RL!LimitOf(b)
  /\ Cardinality(Earlier(b)) <= RL!LimitOf(b)
  /\ \A x \in Through(b) : x[1] < bucket[b].resetAt /\ clock < x[1] + RL!WindowOf(b)

\* The entry of an address outlasts its last row by a window.
Entries == \A a \in Addresses : lastRow[a] # 0 => seen[a] = lastRow[a] + AuditWindow

LimitTypes ==
  /\ clock \in RL!Time
  /\ bucket \in [RL!Buckets -> [count : Nat, resetAt : Nat]]
  /\ passed \in [RL!Buckets -> [RL!Time -> Nat]]
  /\ seen \in [Addresses -> Nat] /\ lastRow \in [Addresses -> Nat]

LimitInv == LimitTypes /\ Entries /\ \A b \in RL!Buckets : Bounded(b)

\* RateLimit's Cardinality is that of FiniteSets.
LEMMA SameCardinality ==
  ASSUME NEW S
  PROVE  RL!Cardinality(S) = Cardinality(S)
BY Zenon DEF RL!Cardinality, Cardinality

\* Limits and windows are numbers, and no window is empty.
LEMMA LimitNumbers ==
  /\ LastTick \in Nat \ {0} /\ AuditWindow \in Nat
  /\ \A b : RL!LimitOf(b) \in Nat /\ RL!WindowOf(b) \in Nat \ {0}
BY LimitConstants DEF RL!RateLimitConstants, RL!LimitOf, RL!WindowOf

\* The calls of Through, one by one.
LEMMA ThroughIs ==
  ASSUME NEW b \in RL!Buckets, NEW x
  PROVE  x \in Through(b) <=> \E t \in RL!Time : \E n \in 1 .. passed[b][t] : x = <<t, n>>
BY DEF Through

\* What a call that passes adds.
LEMMA PassAdds ==
  ASSUME LimitTypes, NEW b \in RL!Buckets,
         passed'[b] = [passed[b] EXCEPT ![clock] = @ + 1]
  PROVE  \E n \in Nat : /\ Through(b)' = Through(b) \cup {<<clock, n>>}
                        /\ <<clock, n>> \notin Through(b)
<1>. DEFINE n == passed[b][clock] + 1
<1>1. /\ passed[b] \in [RL!Time -> Nat] /\ clock \in RL!Time /\ n \in Nat
      /\ \A t \in RL!Time : passed'[b][t] = IF t = clock THEN n ELSE passed[b][t]
  BY DEF LimitTypes
<1>2. \A x : x \in Through(b)' <=> \E t \in RL!Time : \E m \in 1 .. passed'[b][t] : x = <<t, m>>
  BY DEF Through, RL!Time
<1>3. 1 .. n = (1 .. passed[b][clock]) \cup {n} /\ n \notin 1 .. passed[b][clock]
  BY <1>1
<1>4. \A x : x \in Through(b)' <=> x \in Through(b) \/ x = <<clock, n>>
  BY <1>1, <1>2, <1>3, ThroughIs
<1>5. <<clock, n>> \notin Through(b)
  BY <1>3, ThroughIs
<1>. QED  BY <1>1, <1>4, <1>5

\* The types of the counters stay.
LEMMA LimitTypesStep ==
  ASSUME LimitTypes, [RL!Next]_limits
  PROVE  LimitTypes'
<1>. USE LimitNumbers
<1>1. ASSUME NEW s \in Surfaces, NEW a \in Addresses, NEW c \in Accounts \cup {None},
             RL!Call(s, a, c)
      PROVE  LimitTypes'
  <2>1. \A b \in RL!Buckets : RL!Counted(b) \in [count : Nat, resetAt : Nat]
    BY DEF LimitTypes, RL!Counted, RL!Time
  <2>2. bucket' \in [RL!Buckets -> [count : Nat, resetAt : Nat]]
    BY <1>1, <2>1 DEF LimitTypes, RL!Call, RL!Count
  <2>3. \A b \in RL!Buckets : [passed[b] EXCEPT ![clock] = @ + 1] \in [RL!Time -> Nat]
    BY DEF LimitTypes
  <2>4. passed' \in [RL!Buckets -> [RL!Time -> Nat]]
    BY <1>1, <2>3 DEF LimitTypes, RL!Call, RL!Count
  <2>. QED  BY <1>1, <2>2, <2>4 DEF LimitTypes, RL!Call, RL!dampener
<1>2. ASSUME NEW a \in Addresses, RL!Probe(a)
      PROVE  LimitTypes'
  <2>1. clock \in Nat /\ clock + AuditWindow \in Nat
    BY DEF LimitTypes, RL!Time
  <2>2. seen' \in [Addresses -> Nat] /\ lastRow' \in [Addresses -> Nat]
    BY <1>2, <2>1 DEF LimitTypes, RL!Probe, RL!Entered, RL!dampener
  <2>. QED  BY <1>2, <2>2 DEF LimitTypes, RL!Probe, RL!limiter
<1>3. CASE RL!Tick
  <2>1. passed' \in [RL!Buckets -> [RL!Time -> Nat]] /\ clock' \in RL!Time
    BY <1>3 DEF LimitTypes, RL!Tick, RL!Time
  <2>. QED  BY <1>3, <2>1 DEF LimitTypes, RL!Tick, RL!dampener
<1>4. CASE UNCHANGED limits
  BY <1>4 DEF LimitTypes, limits
<1>. QED  BY <1>1, <1>2, <1>3, <1>4 DEF RL!Next

\* The entry of an address is written with its row, which is later than the last by a window.
LEMMA EntriesStep ==
  ASSUME LimitTypes, Entries, [RL!Next]_limits
  PROVE  Entries' /\ RL!RowIsLater
<1>. USE LimitNumbers
<1>1. CASE UNCHANGED <<seen, lastRow>>
  BY <1>1 DEF Entries, RL!RowIsLater
<1>2. ASSUME NEW a \in Addresses, RL!Probe(a), RL!ShouldWrite(a)
      PROVE  Entries' /\ RL!RowIsLater
  <2>1. clock \in Nat /\ seen \in [Addresses -> Nat] /\ lastRow \in [Addresses -> Nat]
    BY DEF LimitTypes, RL!Time
  <2>2. CASE UNCHANGED <<seen, lastRow>>
    BY <2>2, <1>1
  <2>3. CASE ~UNCHANGED <<seen, lastRow>>
    <3>1. /\ seen' = RL!Entered(a)
          /\ lastRow' = [x \in Addresses |-> IF x = a THEN clock ELSE IF RL!Full THEN 0 ELSE lastRow[x]]
      BY <1>2, <2>3 DEF RL!Probe, RL!dampener
    <3>. QED  BY <1>2, <2>1, <3>1 DEF Entries, RL!RowIsLater, RL!Entered, RL!ShouldWrite
  <2>. QED  BY <2>2, <2>3
<1>. QED  BY <1>1, <1>2 DEF RL!Next, RL!Call, RL!Probe, RL!Tick, RL!dampener, limits

\* A call that a bucket counts.
LEMMA CountedStep ==
  ASSUME LimitTypes, NEW b \in RL!Buckets, Bounded(b),
         clock' = clock, bucket'[b] = RL!Counted(b),
         IF RL!Admits(b) THEN passed'[b] = [passed[b] EXCEPT ![clock] = @ + 1]
                         ELSE passed'[b] = passed[b]
  PROVE  Bounded(b)'
<1>. USE LimitNumbers
<1>0. /\ clock \in Nat /\ bucket[b].count \in Nat /\ bucket[b].resetAt \in Nat
      /\ IsFiniteSet(Through(b)) /\ Recent(b) \subseteq Through(b) /\ Earlier(b) \subseteq Through(b)
      /\ \A x \in Through(b) : x[1] \in Nat
  BY ThroughIs DEF LimitTypes, Bounded, Recent, Earlier, RL!Time
<1>1. IsFiniteSet(Recent(b)) /\ IsFiniteSet(Earlier(b))
  BY <1>0, FS_Subset
<1>2. CASE clock >= bucket[b].resetAt
  <2>1. bucket'[b] = [count |-> 1, resetAt |-> clock + RL!WindowOf(b)]
    BY <1>2 DEF RL!Counted
  <2>2. Opened(b)' = clock
    BY <1>0, <2>1 DEF Opened, RL!WindowOf
  <2>3. Earlier(b) = {} /\ Recent(b) = Through(b)
    BY <1>0, <1>2 DEF Bounded, Earlier, Recent, Opened
  <2>4. CASE RL!Admits(b)
    <3>1. PICK n \in Nat : Through(b)' = Through(b) \cup {<<clock, n>>}
      BY <2>4, PassAdds
    <3>2. Earlier(b)' = Through(b) /\ Recent(b)' = {<<clock, n>>}
      BY <1>0, <1>2, <2>2, <3>1 DEF Bounded, Earlier, Recent
    <3>3. IsFiniteSet(Through(b)')
      BY <1>0, <3>1, FS_AddElement
    <3>4. Cardinality(Recent(b)') = 1
      BY <3>2, FS_Singleton
    <3>5. 1 <= RL!LimitOf(b)
      BY <2>4, <1>2 DEF RL!Admits, RL!Counted
    <3>6. \A x \in Through(b)' : x[1] < clock + RL!WindowOf(b) /\ clock < x[1] + RL!WindowOf(b)
      BY <1>0, <1>2, <3>1 DEF Bounded
    <3>. QED  BY <1>0, <2>1, <2>3, <3>2, <3>3, <3>4, <3>5, <3>6 DEF Bounded, RL!LimitOf, RL!WindowOf
  <2>5. CASE ~RL!Admits(b)
    <3>1. Through(b)' = Through(b)
      BY <2>5 DEF Through, RL!Time
    <3>2. Earlier(b)' = Through(b) /\ Recent(b)' = {}
      BY <1>0, <1>2, <2>2, <3>1 DEF Bounded, Earlier, Recent
    <3>3. Cardinality(Recent(b)') = 0
      BY <3>2, FS_EmptySet
    <3>4. \A x \in Through(b)' : x[1] < clock + RL!WindowOf(b) /\ clock < x[1] + RL!WindowOf(b)
      BY <1>0, <1>2, <3>1 DEF Bounded
    <3>. QED  BY <1>0, <2>1, <2>3, <3>1, <3>2, <3>3, <3>4 DEF Bounded, RL!LimitOf, RL!WindowOf
  <2>. QED  BY <2>4, <2>5
<1>3. CASE clock < bucket[b].resetAt
  <2>1. bucket'[b].count = bucket[b].count + 1 /\ bucket'[b].resetAt = bucket[b].resetAt
    BY <1>0, <1>3 DEF RL!Counted, LimitTypes
  <2>2. Opened(b)' = Opened(b)
    BY <2>1 DEF Opened, RL!WindowOf
  <2>3. Cardinality(Recent(b)) \in Nat
    BY <1>1, FS_CardinalityType
  <2>4. CASE RL!Admits(b)
    <3>1. PICK n \in Nat : /\ Through(b)' = Through(b) \cup {<<clock, n>>}
                           /\ <<clock, n>> \notin Through(b)
      BY <2>4, PassAdds
    <3>2. Earlier(b)' = Earlier(b) /\ Recent(b)' = Recent(b) \cup {<<clock, n>>}
      BY <1>0, <2>2, <3>1 DEF Bounded, Earlier, Recent, Opened
    <3>3. /\ IsFiniteSet(Through(b)')
          /\ Cardinality(Recent(b)') = Cardinality(Recent(b)) + 1
      <4>1. <<clock, n>> \notin Recent(b)
        BY <3>1 DEF Recent
      <4>2. Cardinality(Recent(b) \cup {<<clock, n>>}) = Cardinality(Recent(b)) + 1
        BY <1>1, <4>1, FS_AddElement
      <4>3. IsFiniteSet(Through(b) \cup {<<clock, n>>})
        BY <1>0, FS_AddElement
      <4>. QED  BY <3>1, <3>2, <4>2, <4>3
    <3>4. bucket[b].count + 1 <= RL!LimitOf(b)
      BY <2>1, <2>4 DEF RL!Admits
    <3>5. \A x \in Through(b)' : x[1] < bucket[b].resetAt /\ clock < x[1] + RL!WindowOf(b)
      BY <1>0, <1>3, <3>1 DEF Bounded
    <3>. QED  BY <1>0, <2>1, <2>3, <3>2, <3>3, <3>4, <3>5 DEF Bounded, RL!LimitOf, RL!WindowOf
  <2>5. CASE ~RL!Admits(b)
    <3>1. Through(b)' = Through(b)
      BY <2>5 DEF Through, RL!Time
    <3>2. Earlier(b)' = Earlier(b) /\ Recent(b)' = Recent(b)
      BY <2>2, <3>1 DEF Earlier, Recent
    <3>. QED  BY <1>0, <2>1, <2>3, <3>1, <3>2 DEF Bounded, RL!LimitOf, RL!WindowOf
  <2>. QED  BY <2>4, <2>5
<1>. QED  BY <1>0, <1>2, <1>3

\* A call that the bucket is not reached by.
LEMMA UncountedStep ==
  ASSUME LimitTypes, NEW b \in RL!Buckets, Bounded(b),
         clock' = clock, bucket'[b] = bucket[b], passed'[b] = passed[b]
  PROVE  Bounded(b)'
<1>1. /\ Through(b)' = Through(b) /\ Opened(b)' = Opened(b)
  BY DEF Through, Opened, RL!Time, RL!WindowOf
<1>2. Earlier(b)' = Earlier(b) /\ Recent(b)' = Recent(b)
  BY <1>1 DEF Earlier, Recent
<1>. QED  BY <1>1, <1>2 DEF Bounded, RL!LimitOf, RL!WindowOf

\* Calls only leave the span as the clock goes on.
LEMMA TickStep ==
  ASSUME LimitTypes, NEW b \in RL!Buckets, Bounded(b), RL!Tick
  PROVE  Bounded(b)'
<1>. USE LimitNumbers
<1>0. /\ clock \in Nat /\ bucket[b].count \in Nat /\ bucket[b].resetAt \in Nat
      /\ passed[b] \in [RL!Time -> Nat] /\ clock' = clock + 1 /\ bucket' = bucket
      /\ \A t \in RL!Time :
           passed'[b][t] = IF t + RL!WindowOf(b) > clock' THEN passed[b][t] ELSE 0
  BY DEF LimitTypes, RL!Time, RL!Tick
<1>1. \A x : x \in Through(b)' <=> \E t \in RL!Time : \E n \in 1 .. passed'[b][t] : x = <<t, n>>
  BY DEF Through, RL!Time
<1>2. \A t \in RL!Time : 1 .. passed'[b][t] =
          IF t + RL!WindowOf(b) > clock' THEN 1 .. passed[b][t] ELSE {}
  BY <1>0
<1>3. \A x \in Through(b)' : x \in Through(b) /\ x[1] + RL!WindowOf(b) > clock'
  <2>. SUFFICES ASSUME NEW t \in RL!Time, NEW n \in 1 .. passed'[b][t]
                PROVE  <<t, n>> \in Through(b) /\ t + RL!WindowOf(b) > clock'
    BY <1>1
  <2>1. t + RL!WindowOf(b) > clock' /\ n \in 1 .. passed[b][t]
    BY <1>2
  <2>. QED  BY <2>1, ThroughIs
<1>4. Opened(b)' = Opened(b)
  BY <1>0 DEF Opened, RL!WindowOf
<1>5. Recent(b)' \subseteq Recent(b) /\ Earlier(b)' \subseteq Earlier(b)
  BY <1>3, <1>4 DEF Recent, Earlier
<1>6. IsFiniteSet(Recent(b)) /\ IsFiniteSet(Earlier(b)) /\ IsFiniteSet(Through(b)')
  BY <1>3, FS_Subset DEF Bounded, Recent, Earlier
<1>7. /\ IsFiniteSet(Recent(b)') /\ Cardinality(Recent(b)') <= Cardinality(Recent(b))
      /\ IsFiniteSet(Earlier(b)') /\ Cardinality(Earlier(b)') <= Cardinality(Earlier(b))
  BY <1>5, <1>6, FS_Subset
<1>8. /\ Cardinality(Recent(b)) \in Nat /\ Cardinality(Recent(b)') \in Nat
      /\ Cardinality(Earlier(b)) \in Nat /\ Cardinality(Earlier(b)') \in Nat
  BY <1>6, <1>7, FS_CardinalityType
<1>9. \A x \in Through(b)' : x[1] < bucket'[b].resetAt /\ clock' < x[1] + RL!WindowOf(b)
  <2>1. \A x \in Through(b)' : x[1] \in Nat
    BY <1>1 DEF RL!Time
  <2>. QED  BY <1>0, <1>3, <2>1 DEF Bounded
<1>. QED  BY <1>0, <1>6, <1>7, <1>8, <1>9 DEF Bounded, RL!LimitOf, RL!WindowOf

\* LimitInv holds at first.
LEMMA InitLimitInv == RL!Init => LimitInv
<1>. USE LimitNumbers
<1>. SUFFICES ASSUME RL!Init PROVE LimitInv
  OBVIOUS
<1>1. LimitTypes /\ Entries
  <2>1. 1 \in RL!Time
    BY DEF RL!Time
  <2>. QED  BY <2>1 DEF RL!Init, LimitTypes, Entries
<1>2. ASSUME NEW b \in RL!Buckets PROVE Bounded(b)
  <2>1. \A t \in RL!Time : passed[b][t] = 0
    BY DEF RL!Init
  <2>2. Through(b) = {}
    BY <2>1 DEF Through
  <2>3. Recent(b) = {} /\ Earlier(b) = {}
    BY <2>2 DEF Recent, Earlier
  <2>4. bucket[b].count = 0 /\ bucket[b].resetAt = 0 /\ clock = 1
    BY DEF RL!Init
  <2>. QED  BY <2>2, <2>3, <2>4, FS_EmptySet DEF Bounded
<1>. QED  BY <1>1, <1>2 DEF LimitInv

\* Every step preserves LimitInv.
LEMMA LimitInvStep == LimitInv /\ [RL!Next]_limits => LimitInv'
<1>. SUFFICES ASSUME LimitInv, [RL!Next]_limits PROVE LimitInv'
  OBVIOUS
<1>1. LimitTypes' /\ Entries'
  BY LimitTypesStep, EntriesStep DEF LimitInv
<1>2. ASSUME NEW b \in RL!Buckets PROVE Bounded(b)'
  <2>1. LimitTypes /\ Bounded(b)
    BY DEF LimitInv
  <2>2. ASSUME NEW s \in Surfaces, NEW a \in Addresses, NEW c \in Accounts \cup {None},
               RL!Call(s, a, c)
        PROVE  Bounded(b)'
    <3>1. clock' = clock
      BY <2>2 DEF RL!Call
    <3>2. /\ bucket'[b] = IF b \in RL!Reached(s, a, c) THEN RL!Counted(b) ELSE bucket[b]
          /\ passed'[b] = IF b \in RL!Reached(s, a, c) /\ RL!Admits(b)
                            THEN [passed[b] EXCEPT ![clock] = @ + 1] ELSE passed[b]
      BY <2>2 DEF RL!Call, RL!Count, RL!Refusing
    <3>. QED  BY <2>1, <3>1, <3>2, CountedStep, UncountedStep
  <2>3. CASE UNCHANGED <<clock, bucket, passed>>
    BY <2>1, <2>3, UncountedStep
  <2>4. CASE RL!Tick
    BY <2>1, <2>4, TickStep
  <2>. QED  BY <2>2, <2>3, <2>4 DEF RL!Next, RL!Probe, RL!limiter, limits
<1>3. RL!Buckets' = RL!Buckets
  BY DEF RL!Buckets, RL!AccountBucket
<1>. QED  BY <1>1, <1>2, <1>3 DEF LimitInv

\* The invariant, of the behaviours in which calls are counted.
LEMMA LimitInvariance == Each => [](part = "limits" => LimitInv)
<1>1. InitEach => (part = "limits" => LimitInv)
  BY InitLimitInv DEF InitEach
<1>2. (part = "limits" => LimitInv) /\ [NextEach]_<<part, vars, limits, tabs>>
        => (part = "limits" => LimitInv)'
  <2>. SUFFICES ASSUME part = "limits" => LimitInv, [NextEach]_<<part, vars, limits, tabs>>,
                       part' = "limits"
                PROVE  LimitInv'
    OBVIOUS
  <2>1. part = "limits" /\ [RL!Next]_limits
    BY DEF NextEach, limits
  <2>. QED  BY <2>1, LimitInvStep
<1>. QED  BY <1>1, <1>2, PTL DEF Each

\* Of what passed within a window of now, what the present window of the bucket let
\* through is within the limit, and so is the rest.
THEOREM TwiceAtMost == Each => []AtMostTwicePerWindow
<1>1. LimitInv => RL!AtMostTwicePerWindow
  <2>. SUFFICES ASSUME LimitInv, NEW b \in RL!Buckets
                PROVE  RL!Cardinality(Through(b)) <= 2 * RL!LimitOf(b)
    BY DEF RL!AtMostTwicePerWindow, Through
  <2>1. Bounded(b) /\ RL!LimitOf(b) \in Nat
    BY LimitNumbers DEF LimitInv
  <2>2. /\ IsFiniteSet(Recent(b)) /\ IsFiniteSet(Earlier(b))
        /\ Cardinality(Recent(b)) \in Nat /\ Cardinality(Earlier(b)) \in Nat
    BY <2>1, FS_Subset, FS_CardinalityType DEF Bounded, Recent, Earlier
  <2>3. Recent(b) \cup Earlier(b) = Through(b) /\ Recent(b) \cap Earlier(b) = {}
    <3>1. \A x \in Through(b) : x[1] \in Nat
      BY ThroughIs DEF RL!Time
    <3>2. Opened(b) \in Int
      BY LimitNumbers DEF LimitInv, LimitTypes, Opened
    <3>. QED  BY <3>1, <3>2 DEF Recent, Earlier
  <2>4. Cardinality(Through(b)) = Cardinality(Recent(b)) + Cardinality(Earlier(b))
    <3>1. Cardinality(Recent(b) \cup Earlier(b))
            = Cardinality(Recent(b)) + Cardinality(Earlier(b)) - Cardinality(Recent(b) \cap Earlier(b))
      BY <2>2, FS_Union
    <3>2. Cardinality(Recent(b) \cap Earlier(b)) = 0
      BY <2>3, FS_EmptySet
    <3>. QED  BY <2>2, <2>3, <3>1, <3>2
  <2>. QED  BY <2>1, <2>2, <2>4, SameCardinality DEF Bounded
<1>2. (part = "limits" => LimitInv) => AtMostTwicePerWindow
  BY <1>1 DEF AtMostTwicePerWindow
<1>. QED  BY <1>2, LimitInvariance, PTL

\* The entry that keeps an address from another row is written with its last one.
THEOREM ProbesDampened == Each => UnknownTokensDampened
<1>1. /\ part = "limits" => LimitInv
      /\ [NextEach]_<<part, vars, limits, tabs>>
      => [part = "limits" => RL!RowIsLater]_limits
  BY EntriesStep DEF NextEach, LimitInv
<1>. QED  BY <1>1, LimitInvariance, PTL DEF Each, UnknownTokensDampened

-----------------------------------------------------------------------------
(* Making an organization: proofs about NewOrg for any number of tabs and slugs. *)

\* An organization that is there is of a person who may use it.
OwnOrg(t, o) == o \in Ids /\ org[o] # None /\ org[o].owner = t /\ org[o].profile

TabTypes ==
  /\ org \in [Ids -> NO!Org \cup {None}]
  /\ job \in [Tabs -> [NO!Kinds ->
               [phase : NO!Phases, slug : Slugs \cup {None}, org : Ids \cup {None}]]]
  /\ slug \in [Tabs -> Slugs \cup {None}]
  /\ active \in [Tabs -> Ids \cup {None}]

\* What a submission has made, and what a tab is on, is its person's own.
TabInv ==
  /\ TabTypes
  /\ \A t \in Tabs, k \in NO!Kinds :
       job[t][k].phase \in {"made", "logo", "dressed"} => OwnOrg(t, job[t][k].org)
  /\ \A t \in Tabs : active[t] # None => OwnOrg(t, active[t])

\* A submission that moves: the others stay.
LEMMA BecomesIs ==
  ASSUME TabTypes, NEW t \in Tabs, NEW k \in NO!Kinds, NEW j, NO!Becomes(t, k, j)
  PROVE  /\ job'[t][k] = j
         /\ \A u \in Tabs, l \in NO!Kinds : u # t \/ l # k => job'[u][l] = job[u][l]
         /\ j \in [phase : NO!Phases, slug : Slugs \cup {None}, org : Ids \cup {None}] =>
              job' \in [Tabs -> [NO!Kinds ->
                         [phase : NO!Phases, slug : Slugs \cup {None}, org : Ids \cup {None}]]]
BY DEF TabTypes, NO!Becomes

\* The parts of a submission.
LEMMA JobIs ==
  ASSUME NEW ph \in NO!Phases, NEW name \in Slugs \cup {None}, NEW o \in Ids \cup {None}
  PROVE  /\ NO!Job(ph, name, o) \in [phase : NO!Phases, slug : Slugs \cup {None}, org : Ids \cup {None}]
         /\ NO!Job(ph, name, o).phase = ph /\ NO!Job(ph, name, o).slug = name
         /\ NO!Job(ph, name, o).org = o
BY DEF NO!Job

\* An organization is its person's from its making on.
LEMMA OwnStays ==
  ASSUME TabTypes, NO!Next, NEW t \in Tabs, NEW o, OwnOrg(t, o)
  PROVE  OwnOrg(t, o)'
<1>1. CASE org' = org
  BY <1>1 DEF OwnOrg
<1>2. ASSUME NEW u \in Tabs, NEW k \in NO!Kinds, NO!Seed(u, k) PROVE OwnOrg(t, o)'
  <2>1. CASE org' = org
    BY <1>1, <2>1
  <2>2. CASE \E n \in Ids : ~NO!Exists(n) /\ org' = [org EXCEPT ![n] = NO!Seeded(u, k, n)]
    BY <2>2 DEF OwnOrg, NO!Exists, TabTypes
  <2>. QED  BY <1>2, <2>1, <2>2 DEF NO!Seed
<1>3. ASSUME NEW u \in Tabs, NO!Dress(u) PROVE OwnOrg(t, o)'
  <2>1. CASE org' = org
    BY <1>1, <2>1
  <2>2. CASE org' # org
    <3>1. PICK n : org' = [org EXCEPT ![n] = [org[n] EXCEPT !.logo = TRUE]]
      BY <1>3, <2>2 DEF NO!Dress
    <3>2. org[o] \in NO!Org
      BY DEF OwnOrg, TabTypes
    <3>3. [org[o] EXCEPT !.logo = TRUE] \in NO!Org
      BY <3>2 DEF NO!Org
    <3>4. /\ [org[o] EXCEPT !.logo = TRUE].owner = org[o].owner
          /\ [org[o] EXCEPT !.logo = TRUE].profile = org[o].profile
      BY <3>2 DEF NO!Org
    <3>5. [org[o] EXCEPT !.logo = TRUE] # None
      BY <3>3, TabConstants DEF NO!NewOrgConstants
    <3>. QED  BY <3>1, <3>4, <3>5 DEF OwnOrg, TabTypes
  <2>. QED  BY <2>1, <2>2
<1>. QED  BY <1>1, <1>2, <1>3 DEF NO!Next, NO!OpenForm, NO!Back, NO!Check, NO!Submit, NO!SubmitPersonal,
             NO!Type, NO!CheckServed, NO!CheckArrives, NO!LookUp, NO!Arrives, NO!Enter, NO!Fails

\* A step that moves one submission, if it is of an organization of its person's then.
LEMMA JobStep ==
  ASSUME TabInv, NO!Next, NEW t \in Tabs, NEW k \in NO!Kinds, NEW ph \in NO!Phases,
         NEW name \in Slugs \cup {None}, NEW o \in Ids \cup {None},
         NO!Becomes(t, k, NO!Job(ph, name, o)),
         ph \in {"made", "logo", "dressed"} => OwnOrg(t, o)',
         org' \in [Ids -> NO!Org \cup {None}], slug' \in [Tabs -> Slugs \cup {None}],
         active' \in [Tabs -> Ids \cup {None}],
         \A u \in Tabs : active'[u] # active[u] => OwnOrg(u, active'[u])
  PROVE  TabInv'
<1>1. TabTypes
  BY DEF TabInv
<1>2. TabTypes'
  <2>. DEFINE Jobs == [phase : NO!Phases, slug : Slugs \cup {None}, org : Ids \cup {None}]
  <2>1. NO!Job(ph, name, o) \in Jobs
    BY JobIs
  <2>2. job' \in [Tabs -> [NO!Kinds -> Jobs]]
    BY <1>1, <2>1, BecomesIs
  <2>. QED  BY <2>2 DEF TabTypes
<1>3. ASSUME NEW u \in Tabs, NEW l \in NO!Kinds, job'[u][l].phase \in {"made", "logo", "dressed"}
      PROVE  OwnOrg(u, job[u][l].org)'
  <2>0. PICK a \in Ids \cup {None} : a = job'[u][l].org
    BY <1>2 DEF TabTypes
  <2>1. CASE u = t /\ l = k
    <3>1. job'[u][l].org = o /\ job'[u][l].phase = ph
      BY <1>1, <2>1, BecomesIs, JobIs
    <3>2. OwnOrg(t, o)'
      BY <1>3, <3>1
    <3>. QED  BY <2>1, <3>1, <3>2 DEF OwnOrg
  <2>2. CASE u # t \/ l # k
    <3>1. job'[u][l] = job[u][l]
      BY <1>1, <2>2, BecomesIs
    <3>2. OwnOrg(u, a)
      BY <1>3, <2>0, <3>1 DEF TabInv
    <3>3. OwnOrg(u, a)'
      BY <1>1, <3>2, OwnStays
    <3>. QED  BY <2>0, <3>3 DEF OwnOrg
  <2>. QED  BY <2>1, <2>2
<1>4. ASSUME NEW u \in Tabs, active'[u] # None PROVE OwnOrg(u, active[u])'
  <2>0. PICK a : a = active'[u]
    OBVIOUS
  <2>1. OwnOrg(u, a)
    BY <1>4, <2>0 DEF TabInv
  <2>2. OwnOrg(u, a)'
    BY <1>1, <2>1, OwnStays
  <2>. QED  BY <2>0, <2>2 DEF OwnOrg
<1>. QED  BY <1>2, <1>3, <1>4 DEF TabInv, OwnOrg

\* A submission that comes to its next phase with the organization it has.
LEMMA GoesIs ==
  ASSUME TabInv, NO!Next, NEW t \in Tabs, NEW k \in NO!Kinds, NEW ph \in NO!Phases,
         NO!Goes(t, k, ph), ph \in {"logo", "dressed"} => OwnOrg(t, job[t][k].org),
         ph # "made", UNCHANGED <<slug, active>>, org' \in [Ids -> NO!Org \cup {None}]
  PROVE  TabInv'
<1>1. TabTypes
  BY DEF TabInv
<1>2. job[t][k].slug \in Slugs \cup {None} /\ job[t][k].org \in Ids \cup {None}
  BY <1>1 DEF TabTypes
<1>3. PICK o : o = job[t][k].org
  OBVIOUS
<1>4. ph \in {"made", "logo", "dressed"} => OwnOrg(t, o)'
  BY <1>1, <1>3, OwnStays
<1>5. NO!Becomes(t, k, NO!Job(ph, job[t][k].slug, o))
  BY <1>3 DEF NO!Goes
<1>6. slug' \in [Tabs -> Slugs \cup {None}] /\ active' \in [Tabs -> Ids \cup {None}]
      /\ \A u \in Tabs : active'[u] = active[u]
  BY <1>1 DEF TabTypes
<1>7. PICK name : name = job[t][k].slug
  OBVIOUS
<1>. QED  BY <1>2, <1>3, <1>4, <1>5, <1>6, <1>7, JobStep

\* TabInv holds at first.
LEMMA InitTabInv == NO!Init => TabInv
<1>. SUFFICES ASSUME NO!Init PROVE TabInv
  OBVIOUS
<1>1. NO!NoJob \in [phase : NO!Phases, slug : Slugs \cup {None}, org : Ids \cup {None}]
  BY DEF NO!NoJob, NO!Job, NO!Phases
<1>2. NO!NoJob.phase = "idle"
  BY DEF NO!NoJob, NO!Job
<1>. QED  BY <1>1, <1>2 DEF NO!Init, TabInv, TabTypes

\* Every step preserves TabInv.
LEMMA TabInvStep == TabInv /\ [NO!Next]_tabs => TabInv'
<1>. SUFFICES ASSUME TabInv, [NO!Next]_tabs PROVE TabInv'
  OBVIOUS
<1>1. CASE UNCHANGED tabs
  BY <1>1 DEF TabInv, TabTypes, tabs, OwnOrg
<1>2. CASE NO!Next
  <2>0. TabTypes
    BY DEF TabInv
  <2>1. CASE UNCHANGED <<org, job, active>> /\ slug' \in [Tabs -> Slugs \cup {None}]
    BY <2>1 DEF TabInv, TabTypes, OwnOrg
  <2>2. ASSUME NEW t \in Tabs, NO!OpenForm(t) \/ NO!Back(t) \/ NO!Check(t)
                 \/ (\E s \in Slugs \cup {None} : NO!Type(t, s))
                 \/ (\E c \in Lookups : NO!CheckServed(t, c) \/ NO!CheckArrives(t, c))
        PROVE  TabInv'
    <3>1. UNCHANGED <<org, job, active>>
      BY <2>2 DEF NO!OpenForm, NO!Back, NO!Check, NO!Type, NO!CheckServed, NO!CheckArrives
    <3>2. slug' \in [Tabs -> Slugs \cup {None}]
      BY <2>0, <2>2 DEF NO!OpenForm, NO!Back, NO!Check, NO!Type, NO!CheckServed, NO!CheckArrives,
                        NO!Unmounts, TabTypes
    <3>. QED  BY <2>1, <3>1, <3>2
  <2>3. ASSUME NEW t \in Tabs, NO!Submit(t) PROVE TabInv'
    <3>1. "create" \in NO!Kinds /\ "sent" \in NO!Phases /\ slug[t] \in Slugs \cup {None}
      BY <2>0 DEF NO!Kinds, NO!Phases, TabTypes
    <3>. QED  BY <1>2, <2>0, <2>3, <3>1, JobStep DEF NO!Submit, TabTypes
  <2>4. ASSUME NEW t \in Tabs, NO!SubmitPersonal(t) PROVE TabInv'
    <3>1. "personal" \in NO!Kinds /\ "free" \in NO!Phases
      BY DEF NO!Kinds, NO!Phases
    <3>. QED  BY <1>2, <2>0, <2>4, <3>1, JobStep DEF NO!SubmitPersonal, TabTypes
  <2>5. ASSUME NEW t \in Tabs, NO!LookUp(t) PROVE TabInv'
    <3>1. "create" \in NO!Kinds /\ {"failed", "free"} \subseteq NO!Phases
      BY DEF NO!Kinds, NO!Phases
    <3>2. PICK ph \in {"failed", "free"} : NO!Goes(t, "create", ph)
      BY <2>5 DEF NO!LookUp
    <3>. QED  BY <1>2, <2>0, <2>5, <3>1, <3>2, GoesIs DEF NO!LookUp, NO!tab, TabTypes
  <2>6. ASSUME NEW t \in Tabs, NEW k \in NO!Kinds, NO!Seed(t, k) PROVE TabInv'
    <3>0. UNCHANGED <<slug, active>> /\ {"failed", "made"} \subseteq NO!Phases
      BY <2>6 DEF NO!Seed, NO!tab, NO!Phases
    <3>1. CASE NO!Goes(t, k, "failed") /\ UNCHANGED org
      BY <1>2, <2>0, <3>0, <3>1, GoesIs DEF TabTypes
    <3>2. ASSUME NEW o \in Ids, org' = [org EXCEPT ![o] = NO!Seeded(t, k, o)], NO!Made(t, k, o)
          PROVE  TabInv'
      <4>1. job[t][k].slug \in Slugs \cup {None}
        BY <2>0 DEF TabTypes
      <4>2. /\ NO!Seeded(t, k, o) \in NO!Org
            /\ NO!Seeded(t, k, o).owner = t /\ NO!Seeded(t, k, o).profile
        BY <4>1 DEF NO!Seeded, NO!SlugFor, NO!Org
      <4>3. NO!Seeded(t, k, o) # None
        BY <4>2, TabConstants DEF NO!NewOrgConstants
      <4>4. org' \in [Ids -> NO!Org \cup {None}] /\ OwnOrg(t, o)'
        BY <2>0, <3>2, <4>2, <4>3 DEF TabTypes, OwnOrg
      <4>. QED  BY <1>2, <2>0, <3>0, <3>2, <4>1, <4>4, JobStep DEF NO!Made, TabTypes
    <3>. QED  BY <2>6, <3>1, <3>2 DEF NO!Seed
  <2>7. ASSUME NEW t \in Tabs, NO!Dress(t) PROVE TabInv'
    <3>0. /\ UNCHANGED <<slug, active>> /\ {"failed", "dressed"} \subseteq NO!Phases
          /\ "create" \in NO!Kinds /\ job[t]["create"].phase = "logo"
      BY <2>7 DEF NO!Dress, NO!tab, NO!Phases, NO!Kinds
    <3>1. CASE NO!Goes(t, "create", "failed") /\ UNCHANGED org
      BY <1>2, <2>0, <3>0, <3>1, GoesIs DEF TabTypes
    <3>2. CASE /\ org' = [org EXCEPT ![job[t]["create"].org] = [@ EXCEPT !.logo = TRUE]]
               /\ NO!Goes(t, "create", "dressed")
      <4>. DEFINE o == job[t]["create"].org
      <4>1. OwnOrg(t, o)
        BY <3>0 DEF TabInv
      <4>2. [org[o] EXCEPT !.logo = TRUE] \in NO!Org
        BY <2>0, <4>1 DEF TabTypes, OwnOrg, NO!Org
      <4>3. org' \in [Ids -> NO!Org \cup {None}]
        BY <2>0, <3>2, <4>2 DEF TabTypes
      <4>. QED  BY <1>2, <3>0, <3>2, <4>1, <4>3, GoesIs
    <3>. QED  BY <2>7, <3>1, <3>2 DEF NO!Dress
  <2>8. ASSUME NEW t \in Tabs, NEW k \in NO!Kinds, NO!Arrives(t, k) \/ NO!Fails(t, k) PROVE TabInv'
    <3>0. org' = org /\ {"idle", "logo"} \subseteq NO!Phases
      BY <2>8 DEF NO!Arrives, NO!Fails, NO!Enter, NO!Phases
    <3>1. CASE /\ NO!Goes(t, k, "logo") /\ UNCHANGED <<slug, active>>
               /\ job[t][k].phase = "made"
      <4>1. OwnOrg(t, job[t][k].org)
        BY <3>1 DEF TabInv
      <4>. QED  BY <1>2, <2>0, <3>0, <3>1, <4>1, GoesIs DEF TabTypes
    <3>2. CASE NO!Becomes(t, k, NO!NoJob) /\ UNCHANGED <<slug, active>>
      BY <1>2, <2>0, <3>0, <3>2, JobStep DEF NO!NoJob, TabTypes
    <3>3. CASE NO!Enter(t, k) /\ job[t][k].phase \in {"made", "dressed"}
      <4>1. OwnOrg(t, job[t][k].org)
        BY <3>3 DEF TabInv
      <4>2. /\ active' = [active EXCEPT ![t] = job[t][k].org]
            /\ slug' = [slug EXCEPT ![t] = None] /\ NO!Becomes(t, k, NO!NoJob)
        BY <3>3 DEF NO!Enter, NO!Unmounts
      <4>3. /\ active' \in [Tabs -> Ids \cup {None}] /\ slug' \in [Tabs -> Slugs \cup {None}]
            /\ \A u \in Tabs : active'[u] # active[u] => OwnOrg(u, active'[u])
        BY <2>0, <4>1, <4>2 DEF TabTypes, OwnOrg
      <4>. QED  BY <1>2, <2>0, <3>0, <4>2, <4>3, JobStep DEF NO!NoJob, TabTypes
    <3>. QED  BY <2>8, <3>1, <3>2, <3>3 DEF NO!Arrives, NO!Fails, NO!tab
  <2>. QED  BY <1>2, <2>2, <2>3, <2>4, <2>5, <2>6, <2>7, <2>8 DEF NO!Next
<1>. QED  BY <1>1, <1>2

\* The invariant, of the behaviours in which tabs make organizations.
LEMMA TabInvariance == Each => [](part = "tabs" => TabInv)
<1>1. InitEach => (part = "tabs" => TabInv)
  BY InitTabInv DEF InitEach
<1>2. (part = "tabs" => TabInv) /\ [NextEach]_<<part, vars, limits, tabs>>
        => (part = "tabs" => TabInv)'
  <2>. SUFFICES ASSUME part = "tabs" => TabInv, [NextEach]_<<part, vars, limits, tabs>>,
                       part' = "tabs"
                PROVE  TabInv'
    OBVIOUS
  <2>1. part = "tabs" /\ [NO!Next]_tabs
    BY DEF NextEach, tabs
  <2>. QED  BY <2>1, TabInvStep
<1>. QED  BY <1>1, <1>2, PTL DEF Each

\* Whoever loses the race for a slug, and however late the answers come, the organization
\* that a tab comes to be on is the one made for its person, with its profile.
THEOREM TabsAreOnTheirOwn == Each => []ActiveIsOwn
<1>1. (part = "tabs" => TabInv) => ActiveIsOwn
  BY DEF TabInv, OwnOrg, ActiveIsOwn, NO!ActiveIsOwn, NO!Exists
<1>. QED  BY <1>1, TabInvariance, PTL
===============================================================================
