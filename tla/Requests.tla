------------------------------- MODULE Requests -------------------------------
(***************************************************************************)
(* The way of a person's request through the Worker, behind the rate       *)
(* limiter: the credential, the organization, the role, the procedure, the *)
(* status of the answer; and the personal API keys that some of these      *)
(* procedures make and revoke.                                             *)
(*                                                                         *)
(* Each read of the database is a step of its own.  Between two of them a  *)
(* member is removed or added, a session ends, a key is revoked or lapses. *)
(***************************************************************************)
EXTENDS Naturals, FiniteSets

CONSTANTS
  Users, Orgs, Requests,
  Asked,                   \* of each request, which procedures with which kind of credential
  Keys, OldKeys,           \* the rows of user_api_keys, and those there at the start
  Expiries,                \* the expiresAt a key may be made with, 0 for none
  CacheAge,                \* session.cookieCache.maxAge
  Throttle,                \* LAST_USED_THROTTLE_MS
  MaxTime,                 \* bounds the clock
  None

Scoped == {"list", "create", "revoke"}   \* apiKeys: scopedSessionProcedure
Procedures == Scoped \cup {"logout", "organizations", "access"}

ASSUME RequestConstants ==
  /\ {CacheAge, Throttle} \subseteq Nat /\ MaxTime \in Nat \ {0}
  /\ None \notin Orgs \cup Users \cup Keys
  /\ Asked \in [Requests -> SUBSET (Procedures \X {"cookie", "token", "key"})]
  /\ OldKeys \subseteq Keys /\ Expiries \subseteq Nat

VARIABLES
  now,
  member,    \* the member rows, <<user, organization>>
  ended,     \* when the browser session of a user ended, Live until then
  cached,    \* until when the browser's cookie answers for its session
  key,       \* user_api_keys
  touches,   \* UPDATEs of last_used_at under way
  request,   \* what each request asks, and the credential it carries
  stage,     \* where it is
  user,      \* the user it is found to be of
  scope,     \* the organization it is for
  reply,     \* the status it is answered
  since      \* history: organizations its user has been in since it arrived

tables == <<member, ended, cached, key, touches>>
context == <<stage, user, scope, reply>>
vars == <<now, tables, request, context, since>>

Time == 0 .. MaxTime
Live == MaxTime + 1

-----------------------------------------------------------------------------
(* Errors and statuses *)

\* The status of each class of domain error.
StatusOf ==
  [BadRequest |-> 400, Unauthorized |-> 401, Forbidden |-> 403, NotFound |-> 404,
   Conflict |-> 409, RateLimit |-> 429, Integrity |-> 500, ServiceUnavailable |-> 503]

\* mapStatusToTrpcCode.
TrpcCode(status) ==
  CASE status = 400 -> "BAD_REQUEST"
    [] status = 401 -> "UNAUTHORIZED"
    [] status = 403 -> "FORBIDDEN"
    [] status = 404 -> "NOT_FOUND"
    [] status = 409 -> "CONFLICT"
    [] status = 429 -> "TOO_MANY_REQUESTS"
    [] status = 503 -> "SERVICE_UNAVAILABLE"
    [] OTHER -> "INTERNAL_SERVER_ERROR"

\* statusFromError, for a TRPCError.
StatusFromCode(code) ==
  CASE code = "BAD_REQUEST" -> 400
    [] code = "UNAUTHORIZED" -> 401
    [] code = "FORBIDDEN" -> 403
    [] code = "NOT_FOUND" -> 404
    [] code = "CONFLICT" -> 409
    [] code = "TOO_MANY_REQUESTS" -> 429
    [] code = "SERVICE_UNAVAILABLE" -> 503
    [] OTHER -> 500

\* toTrpcError; a failure of the database that may pass is a ServiceUnavailable.
ToTrpcError(error) == TrpcCode(StatusOf[error])

\* handleV1Request.
Answer(error) == StatusFromCode(ToTrpcError(error))

Served == 200

-----------------------------------------------------------------------------
(* Requests *)

Credentials == ({"cookie", "token"} \X Users) \cup ({"key"} \X Keys)

Ask(proc, cred, header, on, expiry, good) ==
  [proc |-> proc, cred |-> cred, header |-> header, on |-> on, expiry |-> expiry, good |-> good]
Unsent == Ask(None, None, None, None, 0, FALSE)

NoKey == [state |-> "none", user |-> None, org |-> None, expiresAt |-> 0, usedAt |-> 0]

NewKey(u, o, t) == [state |-> "live", user |-> u, org |-> o, expiresAt |-> t, usedAt |-> 0]

Lapsed(k) == key[k].expiresAt # 0 /\ key[k].expiresAt <= now
MemberOf(u) == {o \in Orgs : <<u, o>> \in member}
Holder(cred) == IF cred[1] = "key" THEN key[cred[2]].user ELSE cred[2]

Init ==
  /\ now = 1
  /\ member \in SUBSET (Users \X Orgs)
  /\ ended = [u \in Users |-> Live]
  /\ cached = [u \in Users |-> 0]
  /\ key \in [Keys -> {NoKey} \cup {NewKey(u, o, t) : u \in Users, o \in Orgs, t \in Expiries}]
  /\ \A k \in Keys \ OldKeys : key[k] = NoKey
  /\ touches = {}
  /\ request = [r \in Requests |-> Unsent] /\ stage = [r \in Requests |-> "unsent"]
  /\ user = [r \in Requests |-> None] /\ scope = [r \in Requests |-> None]
  /\ reply = [r \in Requests |-> 0] /\ since = [r \in Requests |-> {}]

\* History: whether a credential ought to be good when it arrives: a key that is
\* neither revoked nor lapsed; a session that has not ended, or, in a cookie,
\* has ended less than CacheAge ago.
GoodNow(cred) ==
  CASE cred[1] = "key" -> key[cred[2]].state = "live" /\ ~Lapsed(cred[2])
    [] cred[1] = "token" -> ended[cred[2]] = Live
    [] OTHER -> ended[cred[2]] = Live \/ now < ended[cred[2]] + CacheAge

\* A request arrives; the limiter has let it through.  Nobody has a key that is
\* not made yet; for the rest a key that is unknown is as good as a revoked one.
Arrive(r, proc, cred, header, on, expiry) ==
  /\ stage[r] = "unsent"
  /\ <<proc, cred[1]>> \in Asked[r]
  /\ cred[1] = "key" => key[cred[2]] # NoKey
  /\ proc # "create" => expiry = 0
  /\ on = None <=> proc \notin {"create", "revoke"}
  /\ proc = "create" => key[on] = NoKey
  /\ cred[1] = "key" \/ proc = "access" => header = None
  /\ stage' = [stage EXCEPT ![r] = IF proc = "access" THEN "agent" ELSE "identity"]
  /\ request' = [request EXCEPT ![r] = Ask(proc, cred, header, on, expiry, GoodNow(cred))]
  /\ since' = [since EXCEPT ![r] = MemberOf(Holder(cred))]
  /\ UNCHANGED <<now, tables, user, scope, reply>>

\* A step of a request that is under way.
Finish(r, status) ==
  /\ stage' = [stage EXCEPT ![r] = "done"] /\ reply' = [reply EXCEPT ![r] = status]
  /\ UNCHANGED <<request, user, scope, since>>

Refuse(r, error) == Finish(r, Answer(error))

Advance(r, next, u, o) ==
  /\ stage' = [stage EXCEPT ![r] = next]
  /\ user' = [user EXCEPT ![r] = u] /\ scope' = [scope EXCEPT ![r] = o]
  /\ UNCHANGED <<request, reply, since>>

\* The row a key finds: enabled, not revoked; an expired one is refused, and
\* that is audited.
Usable(k) == key[k].state = "live" /\ ~Lapsed(k)

\* touchUserApiKey: the UPDATE runs on its own, with the clock of now.
Touch(k) == touches' = touches \cup {<<k, now>>}

\* resolveUserApiKeyIdentity: the organization is the key's, the header is not read.
IdentifyKey(r) ==
  LET k == request[r].cred[2] IN
  /\ stage[r] = "identity" /\ request[r].cred[1] = "key"
  /\ request[r].proc # "organizations"
  /\ \/ /\ Usable(k)
        /\ Advance(r, IF request[r].proc \in Scoped THEN "role" ELSE "handler",
                   key[k].user, key[k].org)
        /\ Touch(k)
     \/ ~Usable(k) /\ Refuse(r, "Unauthorized") /\ UNCHANGED touches
  /\ UNCHANGED <<now, member, ended, cached, key>>

\* The signed cookie that spares a read of the session.
Cached(u) == now < cached[u]

\* getSession, and findSession for a bearer token, which no cookie answers for.
IdentifySession(r) ==
  LET u == request[r].cred[2]
      alive == ended[u] = Live \/ (request[r].cred[1] = "cookie" /\ Cached(u))
  IN /\ stage[r] = "identity" /\ request[r].cred[1] # "key"
     /\ \/ alive /\ Advance(r, "organization", u, None)
        \/ ~alive /\ Refuse(r, "Unauthorized")
     /\ UNCHANGED <<now, tables>>

\* userProcedure knows no personal keys.
RefuseKey(r) ==
  /\ stage[r] = "identity" /\ request[r].cred[1] = "key"
  /\ request[r].proc = "organizations"
  /\ Refuse(r, "Unauthorized")
  /\ UNCHANGED <<now, tables>>

\* resolveAgentIdentity: only an agent's session is one.
RefusePerson(r) ==
  /\ stage[r] = "agent"
  /\ Refuse(r, "Unauthorized")
  /\ UNCHANGED <<now, tables>>

\* resolveUserOrgId: the organization of the header, if a member; the only one
\* there is without a header.
ResolveOrg(r) ==
  LET mine == MemberOf(user[r])
      header == request[r].header
      next == IF request[r].proc \in Scoped THEN "role" ELSE "handler"
  IN /\ stage[r] = "organization" /\ request[r].proc # "organizations"
     /\ CASE header # None /\ header \in mine -> Advance(r, next, user[r], header)
          [] header # None /\ header \notin mine -> Refuse(r, "Forbidden")
          [] header = None /\ mine = {} -> Refuse(r, "Unauthorized")
          [] header = None /\ Cardinality(mine) > 1 -> Refuse(r, "BadRequest")
          [] OTHER -> \E o \in mine : Advance(r, next, user[r], o)
     /\ UNCHANGED <<now, tables>>

\* resolveOptionalOrgId looks for the header's organization first; if that is
\* not the user's, the memberships are listed by another statement.
ResolveOptionalOrg(r) ==
  LET mine == MemberOf(user[r]) IN
  /\ stage[r] = "organization" /\ request[r].proc = "organizations"
  /\ IF request[r].header \in mine
     THEN Advance(r, "handler", user[r], request[r].header)
     ELSE Advance(r, "memberships", user[r], None)
  /\ UNCHANGED <<now, tables>>

ListMemberships(r) ==
  LET mine == MemberOf(user[r]) IN
  /\ stage[r] = "memberships"
  /\ IF Cardinality(mine) = 1
     THEN \E o \in mine : Advance(r, "handler", user[r], o)
     ELSE Advance(r, "handler", user[r], None)
  /\ UNCHANGED <<now, tables>>

\* Mutant: the procedures are not behind a role.
AnyRole(r) == TRUE

\* requireOrgRole(..., "member").
HasRole(r) == <<user[r], scope[r]>> \in member

RequireRole(r) ==
  /\ stage[r] = "role"
  /\ \/ HasRole(r) /\ Advance(r, "handler", user[r], scope[r])
     \/ ~HasRole(r) /\ Refuse(r, "Forbidden")
  /\ UNCHANGED <<now, tables>>

\* An Effect that fails becomes a rejected promise, and that a TRPCError.
DatabaseFails(r) ==
  /\ stage[r] \notin {"unsent", "done"}
  /\ Refuse(r, "ServiceUnavailable")
  /\ UNCHANGED <<now, tables>>

-----------------------------------------------------------------------------
(* Personal API keys *)

\* requireInteractiveSession.
Interactive(r) == request[r].cred[1] # "key"

\* apiKeys.create: a row under an id of its own.  An expiry must lie ahead.
CreateKey(r) ==
  LET t == request[r].expiry
      k == request[r].on
  IN /\ stage[r] = "handler" /\ request[r].proc = "create"
     /\ \/ ~Interactive(r) /\ Refuse(r, "Forbidden") /\ UNCHANGED key
        \/ Interactive(r) /\ t # 0 /\ t <= now /\ Refuse(r, "BadRequest") /\ UNCHANGED key
        \/ /\ Interactive(r) /\ (t = 0 \/ t > now) /\ key[k] = NoKey
           /\ key' = [key EXCEPT ![k] = NewKey(user[r], scope[r], t)]
           /\ Finish(r, Served)
     /\ UNCHANGED <<now, member, ended, cached, touches>>

\* The WHERE of the UPDATE: one's own key in the organization, not revoked yet.
Own(r, k) ==
  key[k].state = "live" /\ key[k].org = scope[r] /\ key[k].user = user[r]

\* apiKeys.revoke.
RevokeKey(r) ==
  LET k == request[r].on IN
  /\ stage[r] = "handler" /\ request[r].proc = "revoke"
  /\ \/ ~Interactive(r) /\ Refuse(r, "Forbidden") /\ UNCHANGED key
     \/ Interactive(r) /\ ~Own(r, k) /\ Refuse(r, "NotFound") /\ UNCHANGED key
     \/ /\ Interactive(r) /\ Own(r, k)
        /\ key' = [key EXCEPT ![k] = [key[k] EXCEPT !.state = "revoked"]]
        /\ Finish(r, Served)
  /\ UNCHANGED <<now, member, ended, cached, touches>>

\* apiKeys.list, organizations.list, auth.logout: rows are read, or an audit row
\* is written.
Read(r) ==
  /\ stage[r] = "handler" /\ request[r].proc \in {"list", "organizations", "logout"}
  /\ Finish(r, Served)
  /\ UNCHANGED <<now, tables>>

\* last_used_at IS NULL OR last_used_at < staleBefore.
Stale(k, t) == key[k].usedAt = 0 \/ key[k].usedAt + Throttle < t

\* The UPDATE that touchUserApiKey started runs, late and in any order, or fails.
RunTouch(k, t) ==
  /\ <<k, t>> \in touches
  /\ touches' = touches \ {<<k, t>>}
  /\ \/ Stale(k, t) /\ key' = [key EXCEPT ![k] = [key[k] EXCEPT !.usedAt = t]]
     \/ UNCHANGED key
  /\ UNCHANGED <<now, member, ended, cached, request, context, since>>

-----------------------------------------------------------------------------
(* Everybody else *)

InFlight(u) == {r \in Requests : stage[r] \notin {"unsent", "done"} /\ Holder(request[r].cred) = u}

\* Membership, as the organization's handlers change it.
AddMember(u, o) ==
  /\ member' = member \cup {<<u, o>>}
  /\ since' = [r \in Requests |-> IF r \in InFlight(u) THEN since[r] \cup {o} ELSE since[r]]
  /\ UNCHANGED <<now, ended, cached, key, touches, request, context>>

RemoveMember(u, o) ==
  /\ member' = member \ {<<u, o>>}
  /\ UNCHANGED <<now, ended, cached, key, touches, request, context, since>>

\* A browser's own call of get-session renews its cookie.
RefreshCookie(u) ==
  /\ ended[u] = Live
  /\ cached' = [cached EXCEPT ![u] = now + CacheAge]
  /\ UNCHANGED <<now, member, ended, key, touches, request, context, since>>

\* The session is revoked elsewhere, or lapses: the cookie stays.
EndSession(u) ==
  /\ ended[u] = Live
  /\ ended' = [ended EXCEPT ![u] = now]
  /\ UNCHANGED <<now, member, cached, key, touches, request, context, since>>

Tick ==
  /\ now < MaxTime
  /\ now' = now + 1
  /\ UNCHANGED <<tables, request, context, since>>

Next ==
  \/ \E r \in Requests :
       \/ \E proc \in Procedures, cred \in Credentials, header \in Orgs \cup {None},
             on \in Keys \cup {None}, expiry \in Expiries \cup {0} : Arrive(r, proc, cred, header, on, expiry)
       \/ IdentifyKey(r) \/ IdentifySession(r) \/ RefuseKey(r) \/ RefusePerson(r)
       \/ ResolveOrg(r) \/ ResolveOptionalOrg(r) \/ ListMemberships(r) \/ RequireRole(r)
       \/ CreateKey(r) \/ RevokeKey(r) \/ Read(r) \/ DatabaseFails(r)
  \/ \E k \in Keys, t \in Time : RunTouch(k, t)
  \/ \E u \in Users, o \in Orgs : AddMember(u, o) \/ RemoveMember(u, o)
  \/ \E u \in Users : RefreshCookie(u) \/ EndSession(u)
  \/ Tick

Spec == Init /\ [][Next]_vars

-----------------------------------------------------------------------------
(* Properties *)

KeyRow ==
  [state : {"none", "live", "revoked"}, user : Users \cup {None}, org : Orgs \cup {None},
   expiresAt : Nat, usedAt : Nat]
Request ==
  [proc : Procedures, cred : Credentials, header : Orgs \cup {None}, on : Keys \cup {None},
   expiry : Nat, good : BOOLEAN]
Stages ==
  {"unsent", "agent", "identity", "organization", "memberships", "role", "handler", "done"}

TypeOK ==
  /\ now \in 1 .. MaxTime
  /\ member \subseteq Users \X Orgs
  /\ ended \in [Users -> 1 .. Live] /\ cached \in [Users -> Nat]
  /\ key \in [Keys -> KeyRow] /\ touches \subseteq Keys \X Time
  /\ request \in [Requests -> Request \cup {Unsent}] /\ stage \in [Requests -> Stages]
  /\ user \in [Requests -> Users \cup {None}] /\ scope \in [Requests -> Orgs \cup {None}]
  /\ reply \in [Requests -> Nat] /\ since \in [Requests -> SUBSET Orgs]

\* A scoped procedure answers 200 only to somebody who belonged to the
\* organization at some moment since the request arrived, with a key or session
\* that had not been revoked, had not lapsed and, but for the minute of the
\* cookie cache, had not ended when it arrived: "org add/remove ... takes effect
\* immediately", "the only thing that goes stale is session-validity ... bounded
\* to maxAge" (auth/src/server.ts; resolveUserOrgId, requireOrgRole).
ServedWasEntitled ==
  \A r \in Requests :
    reply[r] = Served =>
      /\ request[r].good
      /\ request[r].proc \in Scoped => scope[r] \in since[r]

\* Updates of last_used_at that started in one order may run in another, and
\* none puts the time back (touchUserApiKey).
LastUsedNeverGoesBack == [][\A k \in Keys : key'[k].usedAt >= key[k].usedAt]_vars
=============================================================================
