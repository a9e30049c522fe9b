------------------------- MODULE AgentAccessProofs -------------------------
(***************************************************************************)
(* Proofs about AgentAccess for any number of agents, items and requests.  *)
(*                                                                         *)
(* The safety properties speak of answered requests and committed rows;    *)
(* none is inductive.  Shape follows a request from its first statement to *)
(* its COMMIT: what it has resolved, what it still has to insert and what  *)
(* its transaction holds.  Entitled keeps what was true since it was sent  *)
(* next to it, and Handles are tied to the request that minted them and to *)
(* the one that holds their row lock.                                      *)
(*                                                                         *)
(* The last section is about the runs of commands that the handles are     *)
(* for (SecretRun, as Command); RunsInv is inductive there.                *)
(***************************************************************************)
EXTENDS AgentAccess, CommandRuns, TLAPS

Redeeming(r) == call[r].endpoint = "redeem"
Minting(r) == call[r].endpoint \in {"use", "useProfile"}

\* A client calls as Init lets it.
WellCalled == \A r \in Requests : call[r] \in Calls

Idle(r) ==
  /\ tx[r] = Begun /\ write[r] = {} /\ todo[r] = {} /\ resolved[r] = {}
  /\ verdict[r] = "error"

\* What the transaction and the handler hold at each stage.
Paced(r) ==
  /\ stage[r] \in {"unsent", "authenticate", "rejected", "load", "rolledBack"} => Idle(r)
  /\ stage[r] \in {"permission", "reserve"} =>
       tx[r] = Begun /\ write[r] = {} /\ verdict[r] = "error" /\ ~Redeeming(r)
  /\ stage[r] = "reserve" => Minting(r) /\ resolved[r] # {}
  /\ stage[r] = "redeem" =>
       /\ Redeeming(r) /\ tx[r] = [Begun EXCEPT !.consumed = call[r].handle]
       /\ write[r] = {} /\ resolved[r] = {} /\ verdict[r] = "error"
  /\ stage[r] = "insert" => tx[r].healthy /\ (Minting(r) => verdict[r] = "error")
  /\ stage[r] = "commit" /\ tx[r].healthy => write[r] = {}
  /\ stage[r] = "committed" => tx[r] = Begun

\* A handle is minted for each resolved item or for none.
Minted(r) ==
  /\ tx[r].mounts # {} => stage[r] = "commit" /\ Minting(r) /\ verdict[r] = "ok"
  /\ stage[r] = "commit" /\ Minting(r) /\ verdict[r] = "ok" =>
       tx[r].mounts = {r} \X resolved[r]

\* Rows, written or still to write, are the request's own; an allowed one names
\* an item it resolved in a handler that succeeded.
Accounted(r) ==
  \A row \in write[r] \cup tx[r].audit :
    /\ row.request = r
    /\ row.result = "allowed" => verdict[r] = "ok" /\ row.item \in resolved[r]

\* A healthy transaction about to answer has, or will insert, the rows it owes.
Owed(r) ==
  stage[r] \in {"insert", "commit"} /\ tx[r].healthy =>
    /\ verdict[r] = "ok" =>
         \A i \in resolved[r] : RowOf(r, i, "allowed") \in write[r] \cup tx[r].audit
    /\ /\ verdict[r] = "error" /\ resolved[r] = {}
       /\ call[r].endpoint \in {"read", "use", "redeem"} /\ ~call[r].badField
       => \E row \in write[r] \cup tx[r].audit : row.result \in {"denied", "expired"}

\* A request locks the handle it presents, and delivers that handle's item.
Consuming(r) ==
  /\ tx[r].consumed # NoHandle => Redeeming(r) /\ tx[r].consumed = call[r].handle /\ Open(r)
  /\ Redeeming(r) /\ verdict[r] = "ok" => resolved[r] = {call[r].handle[2]}

Shape(r) == Paced(r) /\ Minted(r) /\ Accounted(r) /\ Owed(r) /\ Consuming(r)
Shapes == \A r \in Requests : Shape(r)

\* A live session belongs to an agent that is not revoked.
Sessions == \A a \in Agents : session[a] = "live" => ~agent[a].revoked

\* What a handler has found so far was so at some moment since it was sent.
Entitled(r) ==
  ~Redeeming(r) =>
    /\ Open(r) \/ stage[r] = "authenticate" =>
         live \subseteq history[r].items /\ Covered(r) \subseteq history[r].targets
    /\ todo[r] \subseteq history[r].items
    /\ stage[r] = "permission" /\ call[r].endpoint \in SingleItem =>
         call[r].item \in history[r].items
    /\ \A i \in resolved[r] : i \in history[r].items /\ history[r].targets \cap {i, Profile} # {}
AllEntitled == \A r \in Requests : Entitled(r)

\* A handle exists once the request that minted it has committed.
Handed ==
  \A h \in Handles : mount[h] # "none" =>
    Answered(h[1], "ok") /\ Minting(h[1]) /\ h[2] \in resolved[h[1]]

\* Every item of a use that succeeded has its handle.
Reserved ==
  \A r \in Requests : Answered(r, "ok") /\ Minting(r) =>
    \A i \in resolved[r] : mount[<<r, i>>] # "none"

\* A handle that a request has locked, or was answered for, exists and is of its
\* own agent; while it is locked nobody else has consumed it or locks it.
Held(r) ==
  /\ Redeeming(r) /\ (tx[r].consumed # NoHandle \/ verdict[r] = "ok") =>
       mount[call[r].handle] # "none" /\ call[call[r].handle[1]].agent = call[r].agent
  /\ tx[r].consumed # NoHandle =>
       /\ redeemer[tx[r].consumed] = NoRequest
       /\ \A q \in Requests : tx[q].consumed = tx[r].consumed => q = r
AllHeld == \A r \in Requests : Held(r)

IInv ==
  /\ TypeOK /\ WellCalled
  /\ Shapes /\ Sessions /\ AllEntitled /\ Handed /\ Reserved /\ AllHeld
  /\ DeliveryIsAudited /\ NoPhantomAllow /\ RefusalIsAudited

-----------------------------------------------------------------------------
(* Types *)

LEMMA BegunType == Begun \in Transaction
BY DEF Begun, Transaction

\* A row of the log that a request writes is a row.
LEMMA RowType ==
  ASSUME NEW r \in Requests, NEW i \in Items \cup {NoItem}, NEW result \in Results
  PROVE  RowOf(r, i, result) \in Row
BY DEF RowOf, Row

\* The call of a request and what its endpoint makes of it.
LEMMA CallType ==
  ASSUME TypeOK, WellCalled, NEW r \in Requests
  PROVE  /\ call[r].agent \in Agents
         /\ call[r].endpoint \in SingleItem => call[r].item \in Items
         /\ Redeeming(r) => /\ call[r].handle \in Handles
                            /\ call[r].handle[1] \in Requests /\ call[r].handle[2] \in Items
                            /\ call[r].handle # NoHandle
BY DEF TypeOK, WellCalled, Calls, Call, Redeeming, Handles

\* FailWith and Allow, the two ways out of a handler, keep its state typed.
LEMMA FailWithType ==
  ASSUME TypeOK, NEW r \in Requests, NEW rows \in SUBSET Row, FailWith(r, rows)
  PROVE  /\ verdict' \in [Requests -> {"ok", "error"}] /\ write' \in [Requests -> SUBSET Row]
         /\ stage' \in [Requests -> Stages]
         /\ todo' = todo /\ resolved' = resolved /\ tx' = tx
BY DEF TypeOK, FailWith, Goto, Stages, InHandler

\* What allowing a request sets has its type.
LEMMA AllowType ==
  ASSUME TypeOK, NEW r \in Requests, NEW items \in SUBSET Items, Allow(r, items)
  PROVE  /\ verdict' \in [Requests -> {"ok", "error"}] /\ write' \in [Requests -> SUBSET Row]
         /\ resolved' \in [Requests -> SUBSET Items] /\ stage' \in [Requests -> Stages]
         /\ todo' = todo /\ tx' = tx
BY DEF TypeOK, Allow, Goto, Stages, InHandler, RowOf, Row, Results

\* The history is extended with targets that a permission covers.
LEMMA CoveredType == \A r \in Requests : Covered(r) \subseteq Targets
BY DEF Covered

\* A step that writes nothing but the handler's state keeps the types if it
\* keeps those of the handler.
LEMMA HandlerType ==
  ASSUME TypeOK, UNCHANGED <<database, sink, call, history>>,
         stage' \in [Requests -> Stages], todo' \in [Requests -> SUBSET Items],
         resolved' \in [Requests -> SUBSET Items], write' \in [Requests -> SUBSET Row],
         tx' \in [Requests -> Transaction], verdict' \in [Requests -> {"ok", "error"}]
  PROVE  TypeOK'
BY DEF TypeOK, database

\* A transaction stays one when a handle is locked in it or handles are minted.
LEMMA TransactionType ==
  ASSUME NEW t \in Transaction
  PROVE  /\ \A h \in Handles : [t EXCEPT !.consumed = h] \in Transaction
         /\ \A hs \in SUBSET Handles, rows \in SUBSET Row :
              [t EXCEPT !.mounts = hs, !.audit = rows] \in Transaction
         /\ \A row \in Row : [t EXCEPT !.audit = @ \cup {row}] \in Transaction
         /\ [t EXCEPT !.healthy = FALSE] \in Transaction
BY DEF Transaction

\* Every step keeps the type of every variable.
LEMMA TypeStep == TypeOK /\ WellCalled /\ Shapes /\ [Next]_vars => TypeOK'
<1>. SUFFICES ASSUME TypeOK, WellCalled, Shapes, [Next]_vars PROVE TypeOK'
  OBVIOUS
<1>s. Stages = {"load", "permission", "reserve", "redeem", "insert", "commit", "unsent",
                "authenticate", "rejected", "committed", "rolledBack"}
  BY DEF Stages, InHandler
<1>f. ASSUME NEW r \in Requests, NEW rows \in SUBSET Row, FailWith(r, rows),
             UNCHANGED <<database, sink, call, history>>
      PROVE  TypeOK'
  <2>1. todo \in [Requests -> SUBSET Items] /\ resolved \in [Requests -> SUBSET Items]
        /\ tx \in [Requests -> Transaction]
    BY DEF TypeOK
  <2>. QED  BY <1>f, <2>1, FailWithType, HandlerType
<1>a. ASSUME NEW r \in Requests, NEW items \in SUBSET Items, Allow(r, items),
             UNCHANGED <<database, sink, call, history>>
      PROVE  TypeOK'
  <2>1. todo \in [Requests -> SUBSET Items] /\ tx \in [Requests -> Transaction]
    BY DEF TypeOK
  <2>. QED  BY <1>a, <2>1, AllowType, HandlerType
<1>j. ASSUME NEW r \in Requests, NEW rows \in SUBSET Row, Reject(r, rows),
             call' = call, history' \in [Requests -> [items : SUBSET Items, targets : SUBSET Targets]]
      PROVE  TypeOK'
  BY <1>j, <1>s DEF TypeOK, Reject, Goto, handler
<1>0. CASE UNCHANGED vars
  BY <1>0 DEF TypeOK, vars, database, handler
<1>1. ASSUME NEW r \in Requests, ReadSession(r) PROVE TypeOK'
  <2>1. history' \in [Requests -> [items : SUBSET Items, targets : SUBSET Targets]]
    BY <1>1, CoveredType DEF TypeOK, ReadSession, NothingYet
  <2>2. CASE Reject(r, {RowOf(r, NoItem, "expired")}) \/ Reject(r, {})
    BY <1>1, <2>1, <2>2, <1>j, RowType DEF ReadSession, Results
  <2>3. CASE Goto(r, "authenticate") /\ UNCHANGED <<database, sink, handler>>
    BY <1>1, <2>1, <2>3, <1>s DEF TypeOK, ReadSession, Goto, database, handler
  <2>. QED  BY <1>1, <2>2, <2>3 DEF ReadSession
<1>2. ASSUME NEW r \in Requests, ReadAgent(r) PROVE TypeOK'
  <2>1. CASE Reject(r, {RowOf(r, NoItem, "denied")})
    <3>1. history' \in [Requests -> [items : SUBSET Items, targets : SUBSET Targets]]
      BY <1>2 DEF TypeOK, ReadAgent
    <3>. QED  BY <1>2, <2>1, <3>1, <1>j, RowType DEF ReadAgent, Results
  <2>2. CASE Goto(r, "load") /\ UNCHANGED <<database, sink, handler>>
    BY <1>2, <2>2, <1>s DEF TypeOK, ReadAgent, Goto, database, handler
  <2>. QED  BY <1>2, <2>1, <2>2 DEF ReadAgent
<1>3. ASSUME NEW r \in Requests, LoadItem(r) PROVE TypeOK'
  <2>1. {RowOf(r, call[r].item, "denied")} \in SUBSET Row
    BY <1>3, CallType, RowType DEF LoadItem, Results
  <2>2. CASE Deny(r, call[r].item, "denied") \/ Fail(r)
    BY <1>3, <2>1, <2>2, <1>f DEF LoadItem, Deny, Fail
  <2>3. CASE Goto(r, "permission") /\ UNCHANGED handler
    BY <1>3, <2>3, <1>s, HandlerType DEF TypeOK, LoadItem, Goto, handler
  <2>. QED  BY <1>3, <2>2, <2>3 DEF LoadItem
<1>4. ASSUME NEW r \in Requests, FindPermission(r) PROVE TypeOK'
  <2>1. call[r].item \in Items
    BY <1>4, CallType DEF FindPermission
  <2>2. \A result \in Results : {RowOf(r, call[r].item, result)} \in SUBSET Row
    BY <2>1, RowType
  <2>3. CASE Deny(r, call[r].item, "denied") \/ Deny(r, call[r].item, "expired") \/ Fail(r)
    BY <1>4, <2>2, <2>3, <1>f DEF FindPermission, Deny, Fail, Results
  <2>4. CASE Allow(r, {call[r].item})
    BY <1>4, <2>1, <2>4, <1>a DEF FindPermission
  <2>5. CASE /\ resolved' = [resolved EXCEPT ![r] = {call[r].item}]
             /\ Goto(r, "reserve") /\ UNCHANGED <<todo, write, tx, verdict>>
    BY <1>4, <2>1, <2>5, <1>s, HandlerType DEF TypeOK, FindPermission, Goto
  <2>. QED  BY <1>4, <2>3, <2>4, <2>5 DEF FindPermission
<1>5. ASSUME NEW r \in Requests, LoadProfile(r) PROVE TypeOK'
  <2>1. CASE Fail(r) \/ Allow(r, {})
    BY <1>5, <2>1, <1>f, <1>a DEF LoadProfile, Fail
  <2>2. CASE todo' = [todo EXCEPT ![r] = live] /\ Goto(r, "permission")
             /\ UNCHANGED <<resolved, write, tx, verdict>>
    BY <1>5, <2>2, <1>s, HandlerType DEF TypeOK, LoadProfile, Goto
  <2>. QED  BY <1>5, <2>1, <2>2 DEF LoadProfile
<1>6. ASSUME NEW r \in Requests, FindNextPermission(r) PROVE TypeOK'
  <2>1. ASSUME NEW i \in Items, NEW result \in Results, Deny(r, i, result) PROVE TypeOK'
    BY <1>6, <2>1, <1>f, RowType DEF FindNextPermission, Deny
  <2>2. ASSUME NEW i \in Items, NEW s \in {"reserve", "permission"},
               resolved' = [resolved EXCEPT ![r] = @ \cup {i}],
               todo' = [todo EXCEPT ![r] = @ \ {i}], Goto(r, s),
               UNCHANGED <<write, tx, verdict>>
        PROVE  TypeOK'
    BY <1>6, <2>2, <1>s, HandlerType DEF TypeOK, FindNextPermission, Goto
  <2>3. todo[r] \subseteq Items
    BY DEF TypeOK
  <2>. QED  BY <1>6, <2>1, <2>2, <2>3 DEF FindNextPermission, Results
<1>7. ASSUME NEW r \in Requests, MountAll(r) PROVE TypeOK'
  <2>1. Mountable(call[r].agent) \subseteq Items
    BY DEF Mountable, TypeOK
  <2>2. \A i \in Items : \A before \in SUBSET Items :
          Staged(r, before) \cup {RowOf(r, i, "denied")} \in SUBSET Row
    BY RowType DEF Staged, Results
  <2>. QED  BY <1>7, <2>1, <2>2, <1>f, <1>a DEF MountAll, Fail
<1>8. ASSUME NEW r \in Requests, Reserve(r) PROVE TypeOK'
  <2>1. {RowOf(r, i, "allowed") : i \in resolved[r]} \in SUBSET Row
    BY RowType DEF TypeOK, Results
  <2>2. {r} \X resolved[r] \in SUBSET Handles
    BY DEF TypeOK, Handles
  <2>3. tx[r] \in Transaction
    BY DEF TypeOK
  <2>4. \E t \in Transaction : tx' = [tx EXCEPT ![r] = t]
    BY <1>8, <2>1, <2>2, <2>3, TransactionType DEF Reserve, Undo
  <2>5. verdict' \in [Requests -> {"ok", "error"}]
    BY <1>8 DEF TypeOK, Reserve
  <2>. QED  BY <1>8, <2>4, <2>5, <1>s, HandlerType DEF TypeOK, Reserve, Goto
<1>9. ASSUME NEW r \in Requests, ConsumeReservation(r) PROVE TypeOK'
  <2>1. CASE Deny(r, NoItem, "denied")
    BY <1>9, <2>1, <1>f, RowType DEF ConsumeReservation, Deny, Results
  <2>2. CASE tx' = [tx EXCEPT ![r].consumed = call[r].handle]
             /\ Goto(r, "redeem") /\ UNCHANGED <<todo, resolved, write, verdict>>
    <3>1. tx[r] \in Transaction /\ call[r].handle \in Handles
      BY <1>9, CallType DEF TypeOK, ConsumeReservation, Redeeming
    <3>2. tx' \in [Requests -> Transaction]
      BY <2>2, <3>1, TransactionType DEF TypeOK
    <3>. QED  BY <1>9, <2>2, <3>2, <1>s, HandlerType DEF TypeOK, ConsumeReservation, Goto
  <2>. QED  BY <1>9, <2>1, <2>2 DEF ConsumeReservation
<1>10. ASSUME NEW r \in Requests, RedeemItem(r) PROVE TypeOK'
  <2>1. call[r].handle[2] \in Items
    BY <1>10, CallType DEF RedeemItem, Shapes, Shape, Paced
  <2>. QED  BY <1>10, <2>1, <1>f, <1>a, RowType DEF RedeemItem, Deny, Results
<1>11. ASSUME NEW r \in Requests, InsertAudit(r) PROVE TypeOK'
  <2>1. tx[r] \in Transaction /\ write[r] \subseteq Row
    BY DEF TypeOK
  <2>2. ASSUME NEW row \in write[r],
               tx' = [tx EXCEPT ![r].audit = @ \cup {row}],
               sink' = sink \cup {row}, write' = [write EXCEPT ![r] = @ \ {row}],
               Goto(r, IF write[r] = {row} THEN "commit" ELSE "insert")
        PROVE  TypeOK'
    <3>1. [tx[r] EXCEPT !.audit = @ \cup {row}] \in Transaction
      BY <2>1, TransactionType
    <3>2. tx' \in [Requests -> Transaction]
      BY <2>2, <3>1 DEF TypeOK
    <3>3. write' \in [Requests -> SUBSET Row] /\ sink' \in SUBSET Row
      BY <2>1, <2>2 DEF TypeOK
    <3>4. stage' \in [Requests -> Stages]
      BY <2>2, <1>s DEF TypeOK, Goto
    <3>. QED  BY <1>11, <3>2, <3>3, <3>4 DEF TypeOK, InsertAudit, database
  <2>3. ASSUME tx' = [tx EXCEPT ![r].healthy = FALSE],
               write' = [write EXCEPT ![r] = {}], Goto(r, "commit"), UNCHANGED sink
        PROVE  TypeOK'
    <3>1. [tx[r] EXCEPT !.healthy = FALSE] \in Transaction
      BY <2>1, TransactionType
    <3>2. tx' \in [Requests -> Transaction] /\ write' \in [Requests -> SUBSET Row]
          /\ stage' \in [Requests -> Stages]
      BY <2>3, <3>1, <1>s DEF TypeOK, Goto
    <3>. QED  BY <1>11, <2>3, <3>2, HandlerType DEF TypeOK, InsertAudit
  <2>. QED  BY <1>11, <2>2, <2>3 DEF InsertAudit
<1>12. ASSUME NEW r \in Requests, Commit(r) PROVE TypeOK'
  <2>1. tx[r] \in Transaction
    BY DEF TypeOK
  <2>2. audit' \in SUBSET Row
    BY <1>12, <2>1 DEF TypeOK, Commit, Transaction
  <2>3. mount' \in [Handles -> {"none", "fresh", "expired"}]
        /\ redeemer' \in [Handles -> Requests \cup {NoRequest}]
    BY <1>12 DEF TypeOK, Commit
  <2>4. tx' \in [Requests -> Transaction] /\ stage' \in [Requests -> Stages]
    BY <1>12, <1>s, BegunType DEF TypeOK, Commit, Goto
  <2>. QED  BY <1>12, <2>2, <2>3, <2>4 DEF TypeOK, Commit
<1>13. ASSUME NEW r \in Requests, Rollback(r) PROVE TypeOK'
  BY <1>13, <1>s, BegunType, HandlerType DEF TypeOK, Rollback, Goto
<1>14. ASSUME NEW g \in Grants, CreatePermission(g) PROVE TypeOK'
  <2>1. \A r \in Requests : Covered(r)' \subseteq Targets
    BY DEF Covered
  <2>2. history' \in [Requests -> [items : SUBSET Items, targets : SUBSET Targets]]
    BY <1>14, <2>1 DEF TypeOK, CreatePermission
  <2>. QED  BY <1>14, <2>2 DEF TypeOK, CreatePermission, handler
<1>15. ASSUME NEW g \in Grants, RevokePermission(g) PROVE TypeOK'
  BY <1>15 DEF TypeOK, RevokePermission, handler
<1>16. ASSUME NEW i \in Items, DeleteItem(i) PROVE TypeOK'
  BY <1>16 DEF TypeOK, DeleteItem, handler
<1>17. ASSUME NEW a \in Agents, RevokeAgent(a) PROVE TypeOK'
  BY <1>17 DEF TypeOK, RevokeAgent, handler
<1>18. CASE Expire
  BY <1>18 DEF TypeOK, Expire, handler
<1>. QED
  BY <1>0, <1>1, <1>2, <1>3, <1>4, <1>5, <1>6, <1>7, <1>8, <1>9, <1>10, <1>11, <1>12, <1>13,
     <1>14, <1>15, <1>16, <1>17, <1>18 DEF Next, RequestStep, AdminStep

-----------------------------------------------------------------------------
(* What a step leaves alone *)

\* A request's step writes no other request's handler.
LEMMA Elsewhere ==
  ASSUME TypeOK, NEW r \in Requests, RequestStep(r), NEW q \in Requests, q # r
  PROVE  /\ stage'[q] = stage[q] /\ todo'[q] = todo[q] /\ resolved'[q] = resolved[q]
         /\ write'[q] = write[q] /\ tx'[q] = tx[q] /\ verdict'[q] = verdict[q]
         /\ history'[q] = history[q]
<1>. USE DEF Goto, handler
<1>1. ASSUME NEW rows, FailWith(r, rows), UNCHANGED history
      PROVE  /\ stage'[q] = stage[q] /\ todo'[q] = todo[q] /\ resolved'[q] = resolved[q]
             /\ write'[q] = write[q] /\ tx'[q] = tx[q] /\ verdict'[q] = verdict[q]
             /\ history'[q] = history[q]
  BY <1>1 DEF TypeOK, FailWith
<1>2. ASSUME NEW items, Allow(r, items), UNCHANGED history
      PROVE  /\ stage'[q] = stage[q] /\ todo'[q] = todo[q] /\ resolved'[q] = resolved[q]
             /\ write'[q] = write[q] /\ tx'[q] = tx[q] /\ verdict'[q] = verdict[q]
             /\ history'[q] = history[q]
  BY <1>2 DEF TypeOK, Allow
<1>3. CASE ReadSession(r)
  BY <1>3 DEF TypeOK, ReadSession, Reject
<1>4. CASE ReadAgent(r)
  BY <1>4 DEF TypeOK, ReadAgent, Reject
<1>5. CASE LoadItem(r)
  BY <1>5, <1>1 DEF TypeOK, LoadItem, Deny, Fail
<1>6. CASE FindPermission(r)
  BY <1>6, <1>1, <1>2 DEF TypeOK, FindPermission, Deny, Fail
<1>7. CASE LoadProfile(r)
  BY <1>7, <1>1, <1>2 DEF TypeOK, LoadProfile, Fail
<1>8. CASE FindNextPermission(r)
  BY <1>8, <1>1 DEF TypeOK, FindNextPermission, Deny
<1>9. CASE MountAll(r)
  BY <1>9, <1>1, <1>2 DEF MountAll, Fail
<1>10. CASE Reserve(r)
  BY <1>10 DEF TypeOK, Reserve
<1>11. CASE ConsumeReservation(r)
  BY <1>11, <1>1 DEF TypeOK, ConsumeReservation, Deny
<1>12. CASE RedeemItem(r)
  BY <1>12, <1>1, <1>2 DEF RedeemItem, Deny
<1>13. CASE InsertAudit(r)
  BY <1>13 DEF TypeOK, InsertAudit
<1>14. CASE Commit(r)
  BY <1>14 DEF TypeOK, Commit
<1>15. CASE Rollback(r)
  BY <1>15 DEF TypeOK, Rollback
<1>. QED
  BY <1>3, <1>4, <1>5, <1>6, <1>7, <1>8, <1>9, <1>10, <1>11, <1>12, <1>13, <1>14, <1>15
  DEF RequestStep

\* A request that was answered, rolled back or rejected takes no step; only the
\* first step writes the history, and only Commit the mount handles.
LEMMA RequestFrame ==
  ASSUME NEW r \in Requests, RequestStep(r)
  PROVE  /\ stage[r] \in InHandler \cup {"unsent", "authenticate"}
         /\ UNCHANGED <<agent, session, grant, live, call>>
         /\ ReadSession(r) \/ history' = history
         /\ Commit(r) \/ UNCHANGED <<mount, redeemer>>
BY DEF RequestStep, ReadSession, ReadAgent, Reject, LoadItem, FindPermission, LoadProfile,
   FindNextPermission, MountAll, Reserve, ConsumeReservation, RedeemItem, InsertAudit, Commit,
   Rollback, Open, InHandler, database

\* Admins and time leave the requests, the log and the consumed handles alone.
LEMMA AdminFrame ==
  ASSUME AdminStep \/ Expire
  PROVE  UNCHANGED <<call, stage, handler, audit, sink, redeemer>>
BY DEF AdminStep, CreatePermission, RevokePermission, DeleteItem, RevokeAgent, Expire

\* Rows are committed by COMMIT and by the rejections that precede a transaction.
LEMMA AuditFrame ==
  ASSUME NEW r \in Requests, RequestStep(r)
  PROVE  \/ audit' = audit
         \/ Commit(r)
         \/ /\ Goto(r, "rejected") /\ stage[r] \in {"unsent", "authenticate"}
            /\ \E result \in {"denied", "expired"} : audit' = audit \cup {RowOf(r, NoItem, result)}
<1>. DEFINE Rejected(rows) == Goto(r, "rejected") /\ audit' = audit \cup rows
<1>1. ASSUME NEW rows, Reject(r, rows) PROVE Rejected(rows)
  BY <1>1 DEF Reject
<1>. HIDE DEF Rejected
<1>2. CASE ReadSession(r)
  <2>1. audit' = audit \/ Rejected({RowOf(r, NoItem, "expired")}) \/ Rejected({})
    BY <1>2, <1>1 DEF ReadSession, database
  <2>. QED  BY <1>2, <2>1 DEF ReadSession, Rejected
<1>3. CASE ReadAgent(r)
  <2>1. audit' = audit \/ Rejected({RowOf(r, NoItem, "denied")})
    BY <1>3, <1>1 DEF ReadAgent, database
  <2>. QED  BY <1>3, <2>1 DEF ReadAgent, Rejected
<1>. QED
  BY <1>2, <1>3 DEF RequestStep, LoadItem, FindPermission, LoadProfile, FindNextPermission,
     MountAll, Reserve, ConsumeReservation, RedeemItem, InsertAudit, Rollback, database

-----------------------------------------------------------------------------
(* The shape of a request *)

\* A handler that fails owes at most the rows it is about to insert.
LEMMA FailShape ==
  ASSUME TypeOK, NEW r \in Requests, Shape(r), NEW rows \in SUBSET Row,
         FailWith(r, rows), call' = call,
         stage[r] \in {"load", "permission", "redeem"},
         \A row \in rows : row.request = r /\ row.result \in {"denied", "expired"},
         rows # {} \/ call[r].endpoint \notin {"read", "use", "redeem"} \/ call[r].badField
  PROVE  Shape(r)'
<1>1. /\ stage'[r] = (IF rows = {} THEN "commit" ELSE "insert")
      /\ write'[r] = rows /\ verdict'[r] = "error" /\ tx'[r] = tx[r] /\ resolved'[r] = resolved[r]
  BY DEF TypeOK, FailWith, Goto
<1>2. tx[r].healthy /\ tx[r].audit = {} /\ tx[r].mounts = {}
  BY DEF Shape, Paced, Idle, Begun
<1>3. tx[r].consumed # NoHandle => Redeeming(r) /\ tx[r].consumed = call[r].handle
  BY DEF Shape, Consuming
<1>4. Paced(r)' /\ Minted(r)'
  BY <1>1, <1>2 DEF Paced, Minted
<1>5. Accounted(r)'
  BY <1>1, <1>2 DEF Accounted
<1>6. Owed(r)'
  BY <1>1, <1>2 DEF Owed
<1>7. Consuming(r)'
  BY <1>1, <1>3 DEF Consuming, Redeeming, Open, InHandler
<1>. QED  BY <1>4, <1>5, <1>6, <1>7 DEF Shape

\* A handler that succeeds owes an allowed row for each item.
LEMMA AllowShape ==
  ASSUME TypeOK, NEW r \in Requests, Shape(r), NEW items \in SUBSET Items,
         Allow(r, items), call' = call,
         stage[r] \in {"load", "permission", "redeem"},
         Minting(r) => items = {},
         Redeeming(r) => items = {call[r].handle[2]}
  PROVE  Shape(r)'
<1>1. /\ stage'[r] = (IF items = {} THEN "commit" ELSE "insert")
      /\ write'[r] = {RowOf(r, i, "allowed") : i \in items}
      /\ verdict'[r] = "ok" /\ tx'[r] = tx[r] /\ resolved'[r] = items
  BY DEF TypeOK, Allow, Goto
<1>2. tx[r].healthy /\ tx[r].audit = {} /\ tx[r].mounts = {}
  BY DEF Shape, Paced, Idle, Begun
<1>3. tx[r].consumed # NoHandle => Redeeming(r) /\ tx[r].consumed = call[r].handle
  BY DEF Shape, Consuming
<1>4. Paced(r)' /\ Minted(r)'
  BY <1>1, <1>2 DEF Paced, Minted, Minting
<1>5. Accounted(r)'
  BY <1>1, <1>2 DEF Accounted, RowOf
<1>6. Owed(r)'
  BY <1>1, <1>2 DEF Owed
<1>7. Consuming(r)'
  BY <1>1, <1>3 DEF Consuming, Redeeming, Open, InHandler
<1>. QED  BY <1>4, <1>5, <1>6, <1>7 DEF Shape

\* Moving on without having written anything keeps the shape.
LEMMA IdleShape ==
  ASSUME TypeOK, NEW r \in Requests, Idle(r)',
         stage'[r] \in {"unsent", "authenticate", "rejected", "load", "rolledBack"}
  PROVE  Shape(r)'
BY DEF Shape, Idle, Begun, Paced, Minted, Accounted, Owed, Consuming

\* A step of a request leaves it with what its stage calls for.
LEMMA ShapeStep ==
  ASSUME TypeOK, WellCalled, Shapes, NEW r \in Requests, RequestStep(r)
  PROVE  Shape(r)'
<1>. /\ Shape(r) /\ call' = call
     /\ \A i \in Items \cup {NoItem} : \A result \in Results : RowOf(r, i, result) \in Row
  BY RequestFrame, RowType DEF Shapes
<1>1. CASE ReadSession(r) \/ ReadAgent(r)
  <2>1. Idle(r) /\ UNCHANGED handler
    BY <1>1 DEF ReadSession, ReadAgent, Reject, Shape, Paced
  <2>2. stage'[r] \in {"authenticate", "rejected", "load"}
    BY <1>1 DEF ReadSession, ReadAgent, Reject, Goto, TypeOK
  <2>. QED  BY <2>1, <2>2, IdleShape DEF handler, Idle
<1>2. ASSUME NEW i \in Items \cup {NoItem}, NEW result \in {"denied", "expired"},
             Deny(r, i, result), stage[r] \in {"load", "permission", "redeem"}
      PROVE  Shape(r)'
  <2>1. \A row \in {RowOf(r, i, result)} : row.request = r /\ row.result \in {"denied", "expired"}
    BY DEF RowOf
  <2>. QED  BY <1>2, <2>1, FailShape DEF Deny, Results
<1>3. ASSUME Fail(r), stage[r] \in {"load", "permission"},
             call[r].endpoint \notin {"read", "use", "redeem"} \/ call[r].badField
      PROVE  Shape(r)'
  BY <1>3, FailShape DEF Fail
<1>4. CASE LoadItem(r)
  <2>1. call[r].item \in Items /\ Idle(r) /\ ~Redeeming(r)
    BY <1>4, CallType DEF LoadItem, Shape, Paced, Redeeming, SingleItem, Canonical
  <2>2. CASE Fail(r) /\ call[r].endpoint \notin Canonical
    BY <1>4, <2>1, <2>2, <1>3 DEF LoadItem, Canonical, Redeeming
  <2>3. CASE Goto(r, "permission") /\ UNCHANGED handler
    <3>1. Idle(r)' /\ stage'[r] = "permission"
      BY <2>1, <2>3 DEF Idle, handler, Goto, TypeOK
    <3>. QED
      BY <2>1, <3>1 DEF Shape, Idle, Begun, Paced, Minted, Accounted, Owed, Consuming, Redeeming
  <2>. QED  BY <1>4, <2>1, <2>2, <2>3, <1>2 DEF LoadItem
<1>5. CASE FindPermission(r)
  <2>1. call[r].item \in Items /\ ~Redeeming(r) /\ tx[r] = Begun
    BY <1>5, CallType DEF FindPermission, Shape, Paced
  <2>2. CASE Fail(r) /\ call[r].badField
    BY <1>5, <2>1, <2>2, <1>3 DEF FindPermission
  <2>3. CASE Allow(r, {call[r].item}) /\ call[r].endpoint # "use"
    <3>1. ~Minting(r)
      BY <1>5, <2>3 DEF FindPermission, Minting, SingleItem, Canonical
    <3>. QED  BY <1>5, <2>1, <2>3, <3>1, AllowShape DEF FindPermission
  <2>4. CASE /\ resolved' = [resolved EXCEPT ![r] = {call[r].item}] /\ Goto(r, "reserve")
             /\ UNCHANGED <<todo, write, tx, verdict>> /\ call[r].endpoint = "use"
    <3>1. /\ resolved'[r] = {call[r].item} /\ stage'[r] = "reserve"
          /\ write'[r] = {} /\ tx'[r] = Begun /\ verdict'[r] = "error" /\ Minting(r)'
      BY <1>5, <2>1, <2>4 DEF TypeOK, Goto, FindPermission, Shape, Paced, Minting
    <3>. QED
      BY <2>1, <3>1 DEF Shape, Begun, Paced, Minted, Accounted, Owed, Consuming, Redeeming
  <2>5. \/ Deny(r, call[r].item, "denied") \/ Deny(r, call[r].item, "expired")
        \/ Fail(r) /\ call[r].badField
        \/ Allow(r, {call[r].item}) /\ call[r].endpoint # "use"
        \/ /\ resolved' = [resolved EXCEPT ![r] = {call[r].item}] /\ Goto(r, "reserve")
           /\ UNCHANGED <<todo, write, tx, verdict>> /\ call[r].endpoint = "use"
    BY <1>5 DEF FindPermission
  <2>. QED  BY <1>5, <2>1, <2>2, <2>3, <2>4, <2>5, <1>2 DEF FindPermission
<1>6. CASE LoadProfile(r)
  <2>1. Idle(r) /\ ~Redeeming(r) /\ Minting(r)
    BY <1>6 DEF LoadProfile, Shape, Paced, Redeeming, Minting
  <2>2. CASE Fail(r) \/ Allow(r, {})
    BY <1>6, <2>1, <2>2, <1>3, AllowShape DEF LoadProfile
  <2>3. CASE todo' = [todo EXCEPT ![r] = live] /\ Goto(r, "permission")
             /\ UNCHANGED <<resolved, write, tx, verdict>>
    <3>1. /\ resolved'[r] = {} /\ stage'[r] = "permission"
          /\ write'[r] = {} /\ tx'[r] = Begun /\ verdict'[r] = "error"
      BY <2>1, <2>3 DEF TypeOK, Goto, Idle
    <3>. QED
      BY <2>1, <3>1 DEF Shape, Begun, Paced, Minted, Accounted, Owed, Consuming, Redeeming
  <2>. QED  BY <1>6, <2>2, <2>3 DEF LoadProfile
<1>7. CASE FindNextPermission(r)
  <2>1. ~Redeeming(r) /\ Minting(r) /\ tx[r] = Begun /\ write[r] = {} /\ verdict[r] = "error"
    BY <1>7 DEF FindNextPermission, Shape, Paced, Redeeming, Minting
  <2>2. todo[r] \subseteq Items
    BY DEF TypeOK
  <2>3. ASSUME NEW i \in Items, NEW s \in {"reserve", "permission"},
               resolved' = [resolved EXCEPT ![r] = @ \cup {i}], Goto(r, s),
               UNCHANGED <<write, tx, verdict>>
        PROVE  Shape(r)'
    <3>1. /\ resolved'[r] # {} /\ stage'[r] = s
          /\ write'[r] = {} /\ tx'[r] = Begun /\ verdict'[r] = "error"
      BY <2>1, <2>3 DEF TypeOK, Goto
    <3>. QED
      BY <2>1, <3>1
      DEF Shape, Begun, Paced, Minted, Accounted, Owed, Consuming, Redeeming, Minting
  <2>. QED  BY <1>7, <2>2, <2>3, <1>2 DEF FindNextPermission
<1>8. CASE MountAll(r)
  <2>1. Idle(r) /\ ~Redeeming(r) /\ ~Minting(r)
    BY <1>8 DEF MountAll, Shape, Paced, Redeeming, Minting
  <2>2. Mountable(call[r].agent) \subseteq Items
    BY DEF Mountable, TypeOK
  <2>3. CASE Fail(r) \/ Allow(r, Mountable(call[r].agent))
    BY <1>8, <2>1, <2>2, <2>3, <1>3, AllowShape DEF MountAll
  <2>4. ASSUME NEW i \in Items, NEW before,
               FailWith(r, Staged(r, before) \cup {RowOf(r, i, "denied")})
        PROVE  Shape(r)'
    <3>1. Staged(r, before) \cup {RowOf(r, i, "denied")} = {RowOf(r, i, "denied")}
      BY DEF Staged
    <3>. QED  BY <1>8, <2>4, <3>1, <1>2 DEF MountAll, Deny
  <2>. QED  BY <1>8, <2>2, <2>3, <2>4 DEF MountAll
<1>9. CASE Reserve(r)
  <2>1. /\ tx[r] = Begun /\ write[r] = {} /\ verdict[r] = "error"
        /\ ~Redeeming(r) /\ Minting(r) /\ resolved[r] # {}
    BY <1>9 DEF Reserve, Shape, Paced
  <2>2. write'[r] = {} /\ resolved'[r] = resolved[r] /\ stage'[r] = "commit"
    BY <1>9, <2>1 DEF TypeOK, Reserve, Goto
  <2>3. CASE tx'[r] = Begun /\ verdict'[r] = "error"
    BY <2>1, <2>2, <2>3
    DEF Shape, Begun, Paced, Minted, Accounted, Owed, Consuming, Redeeming, Minting
  <2>4. CASE /\ tx'[r] = [Begun EXCEPT !.mounts = {r} \X resolved[r],
                                       !.audit = {RowOf(r, i, "allowed") : i \in resolved[r]}]
             /\ verdict'[r] = "ok"
    <3>1. /\ tx'[r].mounts = {r} \X resolved[r] /\ tx'[r].consumed = NoHandle /\ tx'[r].healthy
          /\ tx'[r].audit = {RowOf(r, i, "allowed") : i \in resolved[r]}
      BY <2>4 DEF Begun
    <3>. QED
      BY <2>1, <2>2, <2>4, <3>1
      DEF Shape, Paced, Minted, Accounted, Owed, Consuming, Redeeming, Minting, RowOf
  <2>. QED  BY <1>9, <2>1, <2>3, <2>4 DEF TypeOK, Reserve, Undo
<1>10. CASE ConsumeReservation(r)
  <2>1. Idle(r) /\ Redeeming(r) /\ call[r].handle # NoHandle
    BY <1>10, CallType DEF ConsumeReservation, Shape, Paced, Redeeming
  <2>2. CASE /\ tx' = [tx EXCEPT ![r].consumed = call[r].handle] /\ Goto(r, "redeem")
             /\ UNCHANGED <<todo, resolved, write, verdict>>
    <3>1. /\ tx'[r] = [Begun EXCEPT !.consumed = call[r].handle] /\ stage'[r] = "redeem"
          /\ write'[r] = {} /\ resolved'[r] = {} /\ verdict'[r] = "error"
      BY <2>1, <2>2 DEF TypeOK, Goto, Idle
    <3>2. tx'[r].mounts = {} /\ tx'[r].audit = {} /\ tx'[r].consumed = call[r].handle
      BY <3>1 DEF Begun
    <3>. QED
      BY <2>1, <3>1, <3>2
      DEF Shape, Paced, Minted, Accounted, Owed, Consuming, Redeeming, Open, InHandler
  <2>. QED  BY <1>10, <2>2, <1>2 DEF ConsumeReservation
<1>11. CASE RedeemItem(r)
  <2>1. Redeeming(r) /\ ~Minting(r) /\ call[r].handle[2] \in Items
    BY <1>11, CallType DEF RedeemItem, Shape, Paced, Redeeming, Minting
  <2>. QED  BY <1>11, <2>1, <1>2, AllowShape DEF RedeemItem
<1>12. CASE InsertAudit(r)
  <2>1. /\ tx[r].healthy /\ (Minting(r) => verdict[r] = "error") /\ tx[r].mounts = {}
        /\ verdict'[r] = verdict[r] /\ resolved'[r] = resolved[r]
    BY <1>12 DEF InsertAudit, Shape, Paced, Minted
  <2>c. /\ tx[r].consumed # NoHandle => Redeeming(r) /\ tx[r].consumed = call[r].handle
        /\ Redeeming(r) /\ verdict[r] = "ok" => resolved[r] = {call[r].handle[2]}
    BY DEF Shape, Consuming
  <2>2. ASSUME NEW row \in write[r], tx' = [tx EXCEPT ![r].audit = @ \cup {row}],
               write' = [write EXCEPT ![r] = @ \ {row}],
               Goto(r, IF write[r] = {row} THEN "commit" ELSE "insert")
        PROVE  Shape(r)'
    <3>1. /\ tx'[r].audit = tx[r].audit \cup {row} /\ tx'[r].mounts = {} /\ tx'[r].healthy
          /\ tx'[r].consumed = tx[r].consumed
      BY <2>1, <2>2 DEF TypeOK, Transaction
    <3>2. /\ write'[r] = write[r] \ {row}
          /\ stage'[r] = (IF write[r] = {row} THEN "commit" ELSE "insert")
      BY <2>2 DEF TypeOK, Goto
    <3>3. write'[r] \cup tx'[r].audit = write[r] \cup tx[r].audit
      BY <2>2, <3>1, <3>2
    <3>4. Paced(r)' /\ Minted(r)'
      BY <2>1, <3>1, <3>2 DEF Paced, Minted, Minting
    <3>5. Accounted(r)'
      BY <2>1, <3>3 DEF Shape, Accounted
    <3>6. Owed(r)'
      BY <1>12, <2>1, <3>3 DEF Shape, Owed, InsertAudit
    <3>7. Consuming(r)'
      BY <2>1, <2>c, <3>1, <3>2 DEF Consuming, Redeeming, Open, InHandler
    <3>. QED  BY <3>4, <3>5, <3>6, <3>7 DEF Shape
  <2>3. ASSUME tx' = [tx EXCEPT ![r].healthy = FALSE], write' = [write EXCEPT ![r] = {}],
               Goto(r, "commit")
        PROVE  Shape(r)'
    <3>1. /\ tx'[r].audit = tx[r].audit /\ tx'[r].mounts = {} /\ ~tx'[r].healthy
          /\ tx'[r].consumed = tx[r].consumed /\ write'[r] = {} /\ stage'[r] = "commit"
      BY <2>1, <2>3 DEF TypeOK, Transaction, Goto
    <3>2. Accounted(r)'
      BY <2>1, <3>1 DEF Shape, Accounted
    <3>. QED
      BY <2>1, <2>c, <3>1, <3>2
      DEF Shape, Paced, Minted, Minting, Owed, Consuming, Redeeming, Open, InHandler
  <2>. QED  BY <1>12, <2>2, <2>3 DEF InsertAudit
<1>13. CASE Commit(r)
  <2>1. /\ tx'[r] = Begun /\ stage'[r] = "committed" /\ write'[r] = {}
        /\ verdict'[r] = verdict[r] /\ resolved'[r] = resolved[r]
    BY <1>13 DEF TypeOK, Commit, Committable, Goto, Shape, Paced
  <2>. QED
    BY <2>1 DEF Shape, Begun, Paced, Minted, Accounted, Owed, Consuming, Redeeming
<1>14. CASE Rollback(r)
  <2>1. Idle(r)' /\ stage'[r] = "rolledBack"
    BY <1>14 DEF TypeOK, Rollback, Goto, Idle
  <2>. QED  BY <2>1, IdleShape
<1>. QED
  BY <1>1, <1>4, <1>5, <1>6, <1>7, <1>8, <1>9, <1>10, <1>11, <1>12, <1>13, <1>14
  DEF RequestStep

\* Every step leaves every request with what its stage calls for.
LEMMA ShapesStep == TypeOK /\ WellCalled /\ Shapes /\ [Next]_vars => Shapes'
<1>. SUFFICES ASSUME TypeOK, WellCalled, Shapes, [Next]_vars, NEW q \in Requests
              PROVE  Shape(q)'
  BY DEF Shapes
<1>1. ASSUME /\ stage'[q] = stage[q] /\ resolved'[q] = resolved[q] /\ todo'[q] = todo[q]
             /\ write'[q] = write[q] /\ tx'[q] = tx[q] /\ verdict'[q] = verdict[q]
             /\ call' = call
      PROVE  Shape(q)'
  BY <1>1
  DEF Shapes, Shape, Idle, Paced, Minted, Accounted, Owed, Consuming, Redeeming, Minting, Open
<1>2. CASE AdminStep \/ Expire \/ UNCHANGED vars
  BY <1>1, <1>2, AdminFrame DEF vars, handler
<1>3. ASSUME NEW r \in Requests, RequestStep(r) PROVE Shape(q)'
  <2>1. CASE r = q
    BY <1>3, <2>1, ShapeStep
  <2>2. CASE r # q
    BY <1>1, <1>3, <2>2, Elsewhere, RequestFrame
  <2>. QED  BY <2>1, <2>2
<1>. QED  BY <1>2, <1>3 DEF Next

\* Every request stays one of the calls there are.
LEMMA WellCalledStep == WellCalled /\ [Next]_vars => WellCalled'
<1>1. [Next]_vars => call' = call
  BY RequestFrame, AdminFrame DEF Next, vars
<1>. QED  BY <1>1 DEF WellCalled

\* A session that is live stays one of an agent that is not revoked.
LEMMA SessionsStep == TypeOK /\ Sessions /\ [Next]_vars => Sessions'
<1>. SUFFICES ASSUME TypeOK, Sessions, [Next]_vars PROVE Sessions'
  OBVIOUS
<1>1. CASE UNCHANGED <<agent, session>>
  BY <1>1 DEF Sessions
<1>2. ASSUME NEW a \in Agents, RevokeAgent(a) PROVE Sessions'
  BY <1>2 DEF TypeOK, Sessions, RevokeAgent
<1>3. CASE Expire
  BY <1>3 DEF TypeOK, Sessions, Expire
<1>. QED
  BY <1>1, <1>2, <1>3, RequestFrame
  DEF Next, AdminStep, CreatePermission, RevokePermission, DeleteItem, vars, database

-----------------------------------------------------------------------------
(* What a request is entitled to *)

\* A permission that is found is one that covers the item.
LEMMA PermissionCovers ==
  ASSUME NEW r \in Requests, NEW i \in Items, Permission(call[r], i) = "fresh"
  PROVE  Covered(r) \cap {i, Profile} # {}
<1>1. PICK g \in Rows(call[r], i) : grant[g] = "fresh"
  BY DEF Permission
<1>2. /\ g \in Grants /\ g[1] = call[r].agent /\ g[3] = ActionOf(call[r])
      /\ g[2] \in {i, Profile}
  BY <1>1 DEF Rows
<1>3. g[2] \in Targets /\ g[3] \in Actions /\ g = <<g[1], g[2], g[3]>>
  BY <1>2 DEF Grants
<1>. QED  BY <1>1, <1>2, <1>3 DEF Covered, Granted

\* The steps that resolve items find them live and covered.
LEMMA EntitledStep ==
  ASSUME TypeOK, Shapes, Sessions, NEW r \in Requests, Entitled(r), RequestStep(r)
  PROVE  Entitled(r)'
<1>. SUFFICES ASSUME ~Redeeming(r)
              PROVE  /\ Open(r)' \/ stage'[r] = "authenticate" =>
                          live \subseteq history'[r].items /\ Covered(r) \subseteq history'[r].targets
                     /\ todo'[r] \subseteq history'[r].items
                     /\ stage'[r] = "permission" /\ call[r].endpoint \in SingleItem =>
                          call[r].item \in history'[r].items
                     /\ \A i \in resolved'[r] :
                          i \in history'[r].items /\ history'[r].targets \cap {i, Profile} # {}
  <2>1. call' = call /\ live' = live /\ grant' = grant
    BY RequestFrame
  <2>2. Covered(r)' = Covered(r)
    BY <2>1 DEF Covered, Granted
  <2>. QED  BY <2>1, <2>2 DEF Entitled, Redeeming
<1>c. ASSUME NEW s, Goto(r, s) PROVE stage'[r] = s
  BY <1>c DEF Goto, TypeOK
<1>1. CASE ReadSession(r)
  <2>1. Idle(r) /\ UNCHANGED handler
    BY <1>1 DEF ReadSession, Reject, Shapes, Shape, Paced
  <2>2. todo'[r] = {} /\ resolved'[r] = {} /\ stage'[r] \in {"authenticate", "rejected"}
    BY <1>1, <2>1, <1>c DEF Idle, handler, ReadSession, Reject
  <2>3. CASE session[call[r].agent] = "live"
    <3>1. ~agent[call[r].agent].revoked
      BY <2>3 DEF Sessions, TypeOK, Call
    <3>2. history'[r] = [items |-> live, targets |-> Covered(r)]
      BY <1>1, <3>1 DEF ReadSession, TypeOK, Redeeming
    <3>. QED  BY <2>2, <3>2
  <2>4. CASE session[call[r].agent] # "live"
    <3>1. stage'[r] = "rejected"
      BY <1>1, <2>4, <1>c DEF ReadSession, Reject
    <3>. QED  BY <2>2, <3>1 DEF Open, InHandler
  <2>. QED  BY <2>3, <2>4
<1>2. CASE ~ReadSession(r)
  <2>1. history' = history /\ (Open(r) \/ stage[r] = "authenticate")
    BY <1>2, RequestFrame DEF RequestStep, ReadAgent, LoadItem, FindPermission, LoadProfile,
       FindNextPermission, MountAll, Reserve, ConsumeReservation, RedeemItem, InsertAudit,
       Commit, Rollback, Open, InHandler
  <2>2. /\ live \subseteq history[r].items /\ Covered(r) \subseteq history[r].targets
        /\ todo[r] \subseteq history[r].items
        /\ stage[r] = "permission" /\ call[r].endpoint \in SingleItem =>
             call[r].item \in history[r].items
        /\ \A i \in resolved[r] :
             i \in history[r].items /\ history[r].targets \cap {i, Profile} # {}
    BY <2>1 DEF Entitled
  <2>3. SUFFICES
          /\ todo'[r] \subseteq history[r].items
          /\ stage'[r] = "permission" /\ call[r].endpoint \in SingleItem =>
               call[r].item \in history[r].items
          /\ \A i \in resolved'[r] :
               i \in history[r].items /\ history[r].targets \cap {i, Profile} # {}
    BY <2>1, <2>2
  <2>f. ASSUME NEW rows, FailWith(r, rows)
        PROVE  todo'[r] = todo[r] /\ resolved'[r] = resolved[r] /\ stage'[r] # "permission"
    BY <2>f, <1>c DEF FailWith
  <2>a. ASSUME NEW items, Allow(r, items)
        PROVE  todo'[r] = todo[r] /\ resolved'[r] = items /\ stage'[r] # "permission"
    BY <2>a, <1>c DEF Allow, TypeOK
  <2>4. CASE ReadAgent(r)
    <3>1. UNCHANGED handler /\ stage'[r] # "permission"
      BY <2>4, <1>c DEF ReadAgent, Reject
    <3>. QED  BY <2>2, <3>1 DEF handler
  <2>5. CASE LoadItem(r)
    <3>1. CASE \E rows : FailWith(r, rows)
      BY <2>2, <2>f, <3>1
    <3>2. CASE UNCHANGED handler /\ call[r].item \in live
      BY <2>2, <3>2 DEF handler
    <3>. QED  BY <2>5, <3>1, <3>2 DEF LoadItem, Deny, Fail
  <2>6. CASE FindPermission(r)
    <3>1. CASE \E rows : FailWith(r, rows)
      BY <2>2, <2>f, <3>1
    <3>2. call[r].item \in history[r].items /\ call[r].item \in Items
      BY <2>2, <2>6 DEF FindPermission, TypeOK
    <3>3. CASE Permission(call[r], call[r].item) = "fresh" /\ Allow(r, {call[r].item})
      BY <2>2, <2>a, <3>2, <3>3, PermissionCovers
    <3>4. CASE /\ Permission(call[r], call[r].item) = "fresh"
               /\ resolved' = [resolved EXCEPT ![r] = {call[r].item}]
               /\ Goto(r, "reserve") /\ UNCHANGED todo
      <4>1. resolved'[r] = {call[r].item} /\ stage'[r] = "reserve"
        BY <3>4, <1>c DEF TypeOK
      <4>. QED  BY <2>2, <3>2, <3>4, <4>1, PermissionCovers
    <3>. QED  BY <2>6, <3>1, <3>3, <3>4 DEF FindPermission, Deny, Fail
  <2>7. CASE LoadProfile(r)
    <3>1. CASE Fail(r) \/ Allow(r, {})
      BY <2>2, <2>f, <2>a, <3>1 DEF Fail
    <3>2. CASE todo' = [todo EXCEPT ![r] = live] /\ UNCHANGED resolved
      BY <2>2, <2>7, <3>2 DEF LoadProfile, TypeOK, SingleItem, Canonical
    <3>. QED  BY <2>7, <3>1, <3>2 DEF LoadProfile
  <2>8. CASE FindNextPermission(r)
    <3>1. CASE \E rows : FailWith(r, rows)
      BY <2>2, <2>f, <3>1
    <3>2. ASSUME NEW i \in todo[r], Permission(call[r], i) = "fresh",
                 resolved' = [resolved EXCEPT ![r] = @ \cup {i}],
                 todo' = [todo EXCEPT ![r] = @ \ {i}]
          PROVE  /\ todo'[r] \subseteq history[r].items
                 /\ stage'[r] = "permission" /\ call[r].endpoint \in SingleItem =>
                      call[r].item \in history[r].items
                 /\ \A j \in resolved'[r] :
                      j \in history[r].items /\ history[r].targets \cap {j, Profile} # {}
      <4>1. resolved'[r] = resolved[r] \cup {i} /\ todo'[r] = todo[r] \ {i} /\ i \in Items
        BY <3>2 DEF TypeOK
      <4>2. history[r].targets \cap {i, Profile} # {}
        BY <2>2, <3>2, <4>1, PermissionCovers
      <4>. QED  BY <2>2, <2>8, <4>1, <4>2 DEF FindNextPermission, SingleItem, Canonical
    <3>. QED  BY <2>8, <3>1, <3>2 DEF FindNextPermission, Deny
  <2>9. CASE MountAll(r)
    <3>1. CASE \E rows : FailWith(r, rows)
      BY <2>2, <2>f, <3>1
    <3>2. CASE Allow(r, Mountable(call[r].agent))
      <4>1. ActionOf(call[r]) = "use"
        BY <2>9 DEF MountAll, ActionOf
      <4>2. \A i \in Mountable(call[r].agent) : i \in live /\ i \in Covered(r)
        BY <4>1 DEF Mountable, Covered, Targets, TypeOK
      <4>. QED  BY <2>2, <2>a, <3>2, <4>2
    <3>. QED  BY <2>9, <3>1, <3>2 DEF MountAll, Fail
  <2>10. CASE Reserve(r)
    BY <2>2, <2>10, <1>c DEF Reserve
  <2>11. CASE ConsumeReservation(r) \/ RedeemItem(r)
    BY <2>11 DEF ConsumeReservation, RedeemItem, Redeeming, Shapes, Shape, Paced
  <2>12. CASE InsertAudit(r)
    <3>1. UNCHANGED <<todo, resolved>> /\ stage'[r] # "permission"
      BY <2>12, <1>c DEF InsertAudit
    <3>. QED  BY <2>2, <3>1
  <2>13. CASE Commit(r)
    BY <2>2, <2>13, <1>c DEF Commit
  <2>14. CASE Rollback(r)
    <3>1. todo'[r] = {} /\ resolved'[r] = {} /\ stage'[r] = "rolledBack"
      BY <2>14, <1>c DEF Rollback, TypeOK
    <3>. QED  BY <3>1
  <2>. QED
    BY <1>2, <2>4, <2>5, <2>6, <2>7, <2>8, <2>9, <2>10, <2>11, <2>12, <2>13, <2>14
    DEF RequestStep
<1>. QED  BY <1>1, <1>2

\* A new permission extends what open requests may deliver; every other step of
\* an admin and of time only narrows what is live and covered.
LEMMA AllEntitledStep ==
  TypeOK /\ Shapes /\ Sessions /\ AllEntitled /\ [Next]_vars => AllEntitled'
<1>. SUFFICES ASSUME TypeOK, Shapes, Sessions, AllEntitled, [Next]_vars, NEW q \in Requests
              PROVE  Entitled(q)'
  BY DEF AllEntitled
<1>. Entitled(q)
  BY DEF AllEntitled
<1>1. ASSUME UNCHANGED <<call, stage, handler>>, live' \subseteq live,
             history'[q].items = history[q].items,
             history[q].targets \subseteq history'[q].targets,
             Open(q) \/ stage[q] = "authenticate" =>
               Redeeming(q) \/ Covered(q)' \subseteq Covered(q) \cup history'[q].targets
      PROVE  Entitled(q)'
  BY <1>1 DEF Entitled, Redeeming, Open, handler
<1>2. ASSUME NEW r \in Requests, RequestStep(r) PROVE Entitled(q)'
  <2>1. CASE r = q
    BY <1>2, <2>1, EntitledStep
  <2>2. CASE r # q
    <3>1. /\ stage'[q] = stage[q] /\ todo'[q] = todo[q] /\ resolved'[q] = resolved[q]
          /\ history'[q] = history[q] /\ UNCHANGED <<agent, session, grant, live, call>>
      BY <1>2, <2>2, Elsewhere, RequestFrame
    <3>2. Covered(q)' = Covered(q)
      BY <3>1 DEF Covered, Granted
    <3>. QED  BY <3>1, <3>2 DEF Entitled, Redeeming, Open
  <2>. QED  BY <2>1, <2>2
<1>3. CASE UNCHANGED vars
  <2>1. Covered(q)' = Covered(q)
    BY <1>3 DEF vars, database, Covered, Granted
  <2>. QED  BY <1>1, <1>3, <2>1 DEF vars, database
<1>4. ASSUME NEW g \in Grants, CreatePermission(g) PROVE Entitled(q)'
  <2>1. CASE (Open(q) \/ stage[q] = "authenticate") /\ ~Redeeming(q)
    <3>1. history'[q] = [history[q] EXCEPT !.targets = @ \cup Covered(q)']
      BY <1>4, <2>1 DEF CreatePermission, Redeeming
    <3>2. /\ history'[q].items = history[q].items
          /\ history'[q].targets = history[q].targets \cup Covered(q)'
      BY <3>1 DEF TypeOK
    <3>. QED  BY <1>1, <1>4, <3>2 DEF CreatePermission
  <2>2. CASE ~((Open(q) \/ stage[q] = "authenticate") /\ ~Redeeming(q))
    <3>1. history'[q] = history[q]
      BY <1>4, <2>2 DEF CreatePermission, Redeeming
    <3>. QED  BY <1>1, <1>4, <2>2, <3>1 DEF CreatePermission
  <2>. QED  BY <2>1, <2>2
<1>5. ASSUME \A k \in Grants : grant'[k] = "fresh" => grant[k] = "fresh", call' = call
      PROVE  Covered(q)' \subseteq Covered(q)
  <2>1. \A t \in Targets, act \in Actions : <<call[q].agent, t, act>> \in Grants
    BY DEF Grants, TypeOK, Call
  <2>. QED  BY <1>5, <2>1 DEF Covered, Granted
<1>6. ASSUME NEW g \in Grants, RevokePermission(g) PROVE Entitled(q)'
  <2>1. \A k \in Grants : grant'[k] = "fresh" => grant[k] = "fresh"
    BY <1>6 DEF RevokePermission, TypeOK
  <2>. QED  BY <1>1, <1>5, <1>6, <2>1 DEF RevokePermission
<1>7. ASSUME NEW i \in Items, DeleteItem(i) PROVE Entitled(q)'
  <2>1. \A k \in Grants : grant'[k] = "fresh" => grant[k] = "fresh"
    BY <1>7 DEF DeleteItem, TypeOK
  <2>. QED  BY <1>1, <1>5, <1>7, <2>1 DEF DeleteItem
<1>8. ASSUME NEW a \in Agents, RevokeAgent(a) PROVE Entitled(q)'
  BY <1>1, <1>5, <1>8 DEF RevokeAgent
<1>9. CASE Expire
  <2>1. \A k \in Grants : grant'[k] = "fresh" => grant[k] = "fresh"
    BY <1>9 DEF Expire, TypeOK
  <2>. QED  BY <1>1, <1>5, <1>9, <2>1 DEF Expire
<1>. QED
  BY <1>2, <1>3, <1>4, <1>6, <1>7, <1>8, <1>9 DEF Next, AdminStep

-----------------------------------------------------------------------------
(* Mount handles *)

\* A request that has been answered stays as it was answered.
LEMMA AnsweredStays ==
  ASSUME TypeOK, [Next]_vars, NEW r \in Requests, NEW v, Answered(r, v)
  PROVE  Answered(r, v)' /\ resolved'[r] = resolved[r] /\ call' = call
<1>1. CASE AdminStep \/ Expire \/ UNCHANGED vars
  BY <1>1, AdminFrame DEF vars, handler, Answered
<1>2. ASSUME NEW q \in Requests, RequestStep(q)
      PROVE  Answered(r, v)' /\ resolved'[r] = resolved[r] /\ call' = call
  <2>1. q # r
    BY <1>2, RequestFrame DEF Answered, InHandler
  <2>. QED  BY <1>2, <2>1, Elsewhere, RequestFrame DEF Answered
<1>. QED  BY <1>1, <1>2 DEF Next

\* What COMMIT does to the handles.
LEMMA CommitMounts ==
  ASSUME TypeOK, NEW r \in Requests, Shape(r), Commit(r)
  PROVE  /\ stage'[r] = "committed" /\ UNCHANGED <<verdict, resolved, call>>
         /\ \A h \in Handles :
              mount'[h] = IF h \in tx[r].mounts THEN "fresh" ELSE mount[h]
         /\ tx[r].mounts # {} => Minting(r) /\ verdict[r] = "ok"
         /\ Minting(r) /\ verdict[r] = "ok" => tx[r].mounts = {r} \X resolved[r]
BY DEF TypeOK, Commit, Goto, Shape, Minted

\* A handle that exists stays one of a request that has committed.
LEMMA HandedStep ==
  TypeOK /\ Shapes /\ Handed /\ [Next]_vars => Handed'
<1>. SUFFICES ASSUME TypeOK, Shapes, Handed, [Next]_vars,
                     NEW h \in Handles, mount'[h] # "none"
              PROVE  (Answered(h[1], "ok") /\ Minting(h[1]) /\ h[2] \in resolved[h[1]])'
  BY DEF Handed
<1>. h[1] \in Requests
  BY DEF Handles
<1>1. CASE mount[h] # "none"
  BY <1>1, AnsweredStays DEF Handed, Minting
<1>2. CASE mount[h] = "none"
  <2>1. PICK r \in Requests : Commit(r)
    BY <1>2, RequestFrame
    DEF Next, AdminStep, CreatePermission, RevokePermission, DeleteItem, RevokeAgent, Expire,
        vars, database, TypeOK
  <2>2. h \in {r} \X resolved[r] /\ Minting(r) /\ verdict[r] = "ok"
    BY <1>2, <2>1, CommitMounts DEF Shapes
  <2>3. h[1] = r /\ h[2] \in resolved[r]
    BY <2>2
  <2>. QED  BY <2>1, <2>2, <2>3, CommitMounts DEF Shapes, Answered, Minting
<1>. QED  BY <1>1, <1>2

\* A handle, once there, expires but is never taken away.
LEMMA MountStays ==
  ASSUME TypeOK, [Next]_vars, NEW h \in Handles, mount[h] # "none"
  PROVE  mount'[h] # "none"
<1>1. CASE mount' = mount
  BY <1>1
<1>2. ASSUME NEW r \in Requests, Commit(r) PROVE mount'[h] # "none"
  BY <1>2 DEF Commit
<1>3. CASE Expire
  BY <1>3 DEF Expire, TypeOK
<1>. QED
  BY <1>1, <1>2, <1>3, RequestFrame
  DEF Next, AdminStep, CreatePermission, RevokePermission, DeleteItem, RevokeAgent, vars, database

\* Nothing but COMMIT answers a request.
LEMMA CommitAnswers ==
  ASSUME TypeOK, [Next]_vars, NEW r \in Requests, stage'[r] = "committed"
  PROVE  stage[r] = "committed" \/ Commit(r)
<1>1. CASE AdminStep \/ Expire \/ UNCHANGED vars
  BY <1>1, AdminFrame DEF vars
<1>2. ASSUME NEW q \in Requests, RequestStep(q), q # r PROVE stage[r] = "committed"
  BY <1>2, Elsewhere
<1>3. ASSUME RequestStep(r), ~Commit(r) PROVE FALSE
  BY <1>3
  DEF RequestStep, ReadSession, ReadAgent, Reject, LoadItem, FindPermission, LoadProfile,
      FindNextPermission, MountAll, Reserve, ConsumeReservation, RedeemItem, InsertAudit,
      Rollback, Deny, Fail, FailWith, Allow, Goto, TypeOK
<1>. QED  BY <1>1, <1>2, <1>3 DEF Next

\* Every item of a use that succeeded keeps its handle.
LEMMA ReservedStep ==
  TypeOK /\ Shapes /\ Reserved /\ [Next]_vars => Reserved'
<1>. SUFFICES ASSUME TypeOK, Shapes, Reserved, [Next]_vars, NEW r \in Requests,
                     (Answered(r, "ok") /\ Minting(r))', NEW i \in resolved'[r]
              PROVE  mount'[<<r, i>>] # "none"
  BY DEF Reserved
<1>1. CASE Commit(r)
  <2>1. i \in resolved[r] /\ Minting(r) /\ verdict[r] = "ok"
    BY <1>1, CommitMounts DEF Shapes, Answered, Minting
  <2>2. <<r, i>> \in tx[r].mounts /\ <<r, i>> \in Handles
    BY <1>1, <2>1, CommitMounts DEF Shapes, TypeOK, Handles
  <2>. QED  BY <1>1, <2>2, CommitMounts DEF Shapes
<1>2. CASE ~Commit(r)
  <2>1. stage[r] = "committed"
    BY <1>2, CommitAnswers DEF Answered
  <2>2. Answered(r, verdict[r])
    BY <2>1 DEF Answered
  <2>3. /\ verdict[r] = verdict'[r] /\ resolved[r] = resolved'[r] /\ call' = call
    BY <2>2, AnsweredStays DEF Answered
  <2>4. mount[<<r, i>>] # "none" /\ <<r, i>> \in Handles
    BY <2>1, <2>3 DEF Reserved, Answered, Minting, TypeOK, Handles
  <2>. QED  BY <2>4, MountStays
<1>. QED  BY <1>1, <1>2

\* A request takes the row lock of a handle that exists, that nobody consumed
\* and nobody else has locked, or keeps what it had.
LEMMA LockStep ==
  ASSUME TypeOK, WellCalled, Shapes, NEW r \in Requests, RequestStep(r), tx'[r].consumed # NoHandle
  PROVE  \/ tx[r].consumed = tx'[r].consumed
         \/ LET h == tx'[r].consumed IN
            /\ Redeeming(r) /\ h = call[r].handle /\ h \in Handles
            /\ mount[h] = "fresh" /\ redeemer[h] = NoRequest
            /\ call[h[1]].agent = call[r].agent
            /\ \A q \in Requests : tx[q].consumed # h
<1>1. CASE ConsumeReservation(r)
  <2>1. Redeeming(r) /\ call[r].handle \in Handles /\ call[r].handle # NoHandle
    BY <1>1, CallType DEF ConsumeReservation, Redeeming
  <2>2. CASE Redeemable(r, call[r].handle) /\ ~Locked(call[r].handle)
             /\ tx' = [tx EXCEPT ![r].consumed = call[r].handle]
    <3>1. tx'[r].consumed = call[r].handle
      BY <2>2 DEF TypeOK, Transaction
    <3>2. \A q \in Requests : tx[q].consumed # call[r].handle
      BY <2>1, <2>2 DEF Locked, Shapes, Shape, Consuming
    <3>. QED  BY <2>1, <2>2, <3>1, <3>2 DEF Redeemable
  <2>3. CASE tx' = tx
    BY <2>3
  <2>. QED  BY <1>1, <2>2, <2>3 DEF ConsumeReservation, Deny, FailWith
<1>2. CASE Reserve(r)
  <2>1. tx[r] \in Transaction
    BY DEF TypeOK
  <2>2. tx'[r].consumed = tx[r].consumed
    <3>1. CASE tx' = [tx EXCEPT ![r] = tx[r]]
      BY <3>1 DEF TypeOK
    <3>2. CASE tx' = [tx EXCEPT ![r] =
                        [tx[r] EXCEPT !.mounts = {r} \X resolved[r],
                                      !.audit = {RowOf(r, i, "allowed") : i \in resolved[r]}]]
      BY <2>1, <3>2 DEF TypeOK, Transaction
    <3>. QED  BY <1>2, <3>1, <3>2 DEF Reserve, Undo
  <2>. QED  BY <2>2
<1>3. CASE InsertAudit(r)
  BY <1>3 DEF TypeOK, InsertAudit, Transaction
<1>4. CASE Commit(r) \/ Rollback(r)
  <2>1. tx'[r] = Begun
    BY <1>4 DEF TypeOK, Commit, Rollback
  <2>. QED  BY <2>1 DEF Begun
<1>5. CASE tx' = tx
  BY <1>5
<1>. QED
  BY <1>1, <1>2, <1>3, <1>4, <1>5
  DEF RequestStep, ReadSession, ReadAgent, Reject, LoadItem, FindPermission, LoadProfile,
      FindNextPermission, MountAll, RedeemItem, Deny, Fail, FailWith, Allow, handler

\* A redeeming request succeeds while it has the handle locked.
LEMMA VerdictStep ==
  ASSUME TypeOK, WellCalled, Shapes, NEW r \in Requests, RequestStep(r), Redeeming(r),
         verdict'[r] = "ok"
  PROVE  verdict[r] = "ok" \/ tx[r].consumed # NoHandle
<1>1. CASE RedeemItem(r)
  <2>1. tx[r] = [Begun EXCEPT !.consumed = call[r].handle] /\ call[r].handle # NoHandle
    BY <1>1, CallType DEF RedeemItem, Shapes, Shape, Paced
  <2>. QED  BY <2>1 DEF Begun
<1>2. CASE verdict' = verdict
  BY <1>2
<1>3. CASE verdict'[r] = "error"
  BY <1>3
<1>4. \A rows : FailWith(r, rows) => verdict'[r] = "error"
  BY DEF TypeOK, FailWith
<1>5. stage[r] # "permission" /\ stage[r] # "reserve"
  BY DEF Shapes, Shape, Paced
<1>. QED
  BY <1>1, <1>2, <1>3, <1>4, <1>5
  DEF RequestStep, ReadSession, ReadAgent, Reject, LoadItem, FindPermission, LoadProfile,
      FindNextPermission, MountAll, Reserve, ConsumeReservation, InsertAudit, Commit, Rollback,
      Redeeming, SingleItem, Canonical, Deny, Fail, handler, TypeOK

\* The row lock of a handle belongs to one request.
LEMMA LockedOnce ==
  ASSUME AllHeld, NEW r \in Requests, NEW q \in Requests,
         tx[r].consumed # NoHandle, tx[q].consumed = tx[r].consumed
  PROVE  q = r
BY DEF AllHeld, Held

\* A handle stays consumed by the one transaction that holds it.
LEMMA HeldStep ==
  TypeOK /\ WellCalled /\ Shapes /\ AllHeld /\ [Next]_vars => AllHeld'
<1>. SUFFICES ASSUME TypeOK, WellCalled, Shapes, AllHeld, [Next]_vars, NEW q \in Requests
              PROVE  Held(q)'
  BY DEF AllHeld
<1>h. Held(q)
  BY DEF AllHeld
<1>c. Redeeming(q) => call[q].handle \in Handles
  BY CallType
<1>1. CASE AdminStep \/ Expire \/ UNCHANGED vars
  <2>1. UNCHANGED <<call, tx, verdict, redeemer>>
    BY <1>1, AdminFrame DEF vars, database, handler
  <2>. QED  BY <1>h, <1>c, <2>1, MountStays DEF Held, Redeeming
<1>2. ASSUME NEW r \in Requests, RequestStep(r) PROVE Held(q)'
  <2>1. call' = call
    BY <1>2, RequestFrame
  <2>2. Redeeming(q) /\ (tx'[q].consumed # NoHandle \/ verdict'[q] = "ok") =>
          mount'[call[q].handle] # "none" /\ call[call[q].handle[1]].agent = call[q].agent
    <3>1. CASE r # q
      BY <1>h, <1>c, <1>2, <3>1, Elsewhere, MountStays DEF Held
    <3>2. CASE r = q /\ (tx[q].consumed # NoHandle \/ verdict[q] = "ok")
      BY <1>h, <1>c, <3>2, MountStays DEF Held
    <3>3. CASE r = q /\ tx[q].consumed = NoHandle /\ verdict[q] # "ok"
      <4>1. SUFFICES ASSUME Redeeming(q), tx'[q].consumed # NoHandle
                     PROVE  /\ mount'[call[q].handle] # "none"
                            /\ call[call[q].handle[1]].agent = call[q].agent
        BY <1>2, <3>3, VerdictStep
      <4>2. mount[call[q].handle] = "fresh" /\ call[call[q].handle[1]].agent = call[q].agent
        BY <1>2, <3>3, <4>1, LockStep
      <4>. QED  BY <1>c, <4>1, <4>2, MountStays
    <3>. QED  BY <3>1, <3>2, <3>3
  <2>3. ASSUME tx'[q].consumed # NoHandle
        PROVE  /\ redeemer'[tx'[q].consumed] = NoRequest
               /\ \A p \in Requests : tx'[p].consumed = tx'[q].consumed => p = q
    <3>. DEFINE h == tx'[q].consumed
    <3>0. h \in Handles
      <4>1. CASE r # q
        BY <1>2, <2>3, <4>1, Elsewhere DEF TypeOK, Transaction
      <4>2. CASE r = q
        BY <1>2, <2>3, <4>2, LockStep DEF TypeOK, Transaction
      <4>. QED  BY <4>1, <4>2
    <3>1. redeemer[h] = NoRequest
      <4>1. CASE tx[q].consumed = h
        BY <1>h, <2>3, <4>1 DEF Held
      <4>2. CASE tx[q].consumed # h
        BY <1>2, <2>3, <4>2, Elsewhere, LockStep
      <4>. QED  BY <4>1, <4>2
    <3>2. CASE r # q
      <4>1. tx[q].consumed = h
        BY <1>2, <3>2, Elsewhere
      <4>2. ASSUME NEW p \in Requests, tx'[p].consumed = h PROVE p = q
        <5>1. CASE tx[p].consumed = h
          BY <2>3, <4>1, <5>1, LockedOnce
        <5>2. CASE tx[p].consumed # h
          <6>1. p = r
            BY <1>2, <4>2, <5>2, Elsewhere
          <6>. QED  BY <1>2, <2>3, <4>1, <4>2, <5>2, <6>1, LockStep
        <5>. QED  BY <5>1, <5>2
      <4>3. redeemer'[h] = NoRequest
        <5>1. CASE Commit(r)
          <6>1. tx[r].consumed # h
            BY <2>3, <3>2, <4>1, LockedOnce
          <6>. QED  BY <3>0, <3>1, <5>1, <6>1 DEF Commit
        <5>. QED  BY <1>2, <3>1, <5>1, RequestFrame
      <4>. QED  BY <4>2, <4>3
    <3>3. CASE r = q
      <4>1. ~Commit(q)
        BY <2>3 DEF Commit, TypeOK, Begun
      <4>2. redeemer'[h] = NoRequest
        BY <1>2, <3>1, <3>3, <4>1, RequestFrame
      <4>3. ASSUME NEW p \in Requests, tx'[p].consumed = h, p # q PROVE FALSE
        <5>1. tx[p].consumed = h
          BY <1>2, <3>3, <4>3, Elsewhere
        <5>2. tx[q].consumed # h
          BY <2>3, <4>3, <5>1, LockedOnce
        <5>. QED  BY <1>2, <2>3, <3>3, <5>1, <5>2, LockStep
      <4>. QED  BY <4>2, <4>3
    <3>. QED  BY <3>2, <3>3
  <2>. QED  BY <2>1, <2>2, <2>3 DEF Held, Redeeming
<1>. QED  BY <1>1, <1>2 DEF Next

-----------------------------------------------------------------------------
(* The audit log *)

\* What COMMIT adds to the log: the request's own rows, an allowed one for each
\* item if it succeeded and a refusal if it owes one.
LEMMA CommitAudit ==
  ASSUME TypeOK, NEW r \in Requests, Shape(r), Commit(r)
  PROVE  /\ audit' = audit \cup tx[r].audit /\ Answered(r, verdict[r])'
         /\ UNCHANGED <<verdict, resolved, call>>
         /\ \A row \in tx[r].audit :
              /\ row.request = r
              /\ row.result = "allowed" => verdict[r] = "ok" /\ row.item \in resolved[r]
         /\ verdict[r] = "ok" => \A i \in resolved[r] : RowOf(r, i, "allowed") \in tx[r].audit
         /\ /\ verdict[r] = "error" /\ resolved[r] = {}
            /\ call[r].endpoint \in {"read", "use", "redeem"} /\ ~call[r].badField
            => \E row \in tx[r].audit : row.result \in {"denied", "expired"}
<1>1. stage[r] = "commit" /\ tx[r].healthy /\ write[r] = {}
  BY DEF Commit, Committable, Shape, Paced
<1>2. stage'[r] = "committed"
  BY DEF TypeOK, Commit, Goto
<1>. QED  BY <1>1, <1>2 DEF Commit, Shape, Accounted, Owed, Answered

\* The log only grows, by rows of requests that commit or were never let in.
LEMMA AuditGrows ==
  ASSUME TypeOK, Shapes, [Next]_vars
  PROVE  /\ audit \subseteq audit'
         /\ \A row \in audit' : \/ row \in audit
                                \/ row.result # "allowed"
                                \/ \E r \in Requests : Commit(r) /\ row \in tx[r].audit
<1>1. CASE AdminStep \/ Expire \/ UNCHANGED vars
  BY <1>1, AdminFrame DEF vars, database
<1>2. ASSUME NEW r \in Requests, RequestStep(r)
      PROVE  /\ audit \subseteq audit'
             /\ \A row \in audit' : \/ row \in audit
                                    \/ row.result # "allowed"
                                    \/ Commit(r) /\ row \in tx[r].audit
  <2>1. \A result \in {"denied", "expired"} : RowOf(r, NoItem, result).result # "allowed"
    BY DEF RowOf
  <2>2. Commit(r) => audit' = audit \cup tx[r].audit
    BY DEF Commit
  <2>3. CASE Commit(r)
    BY <2>2, <2>3
  <2>4. CASE audit' = audit
    BY <2>4
  <2>5. ASSUME NEW result \in {"denied", "expired"}, audit' = audit \cup {RowOf(r, NoItem, result)}
        PROVE  audit \subseteq audit' /\ \A row \in audit' : row \in audit \/ row.result # "allowed"
    BY <2>1, <2>5
  <2>. QED  BY <1>2, <2>3, <2>4, <2>5, AuditFrame
<1>. QED  BY <1>1, <1>2 DEF Next

\* No step delivers without the row that says so.
LEMMA AuditedStep ==
  TypeOK /\ Shapes /\ DeliveryIsAudited /\ [Next]_vars => DeliveryIsAudited'
<1>. SUFFICES ASSUME TypeOK, Shapes, DeliveryIsAudited, [Next]_vars, NEW r \in Requests,
                     Answered(r, "ok")', NEW i \in resolved'[r]
              PROVE  RowOf(r, i, "allowed") \in audit'
  BY DEF DeliveryIsAudited, RowOf
<1>1. CASE Commit(r)
  BY <1>1, CommitAudit DEF Shapes, Answered
<1>2. CASE ~Commit(r)
  <2>1. Answered(r, verdict[r])
    BY <1>2, CommitAnswers DEF Answered
  <2>2. Answered(r, "ok") /\ i \in resolved[r]
    BY <2>1, AnsweredStays DEF Answered
  <2>. QED  BY <2>2, AuditGrows DEF DeliveryIsAudited
<1>. QED  BY <1>1, <1>2

\* No step leaves a row that says allowed of a request that did not succeed.
LEMMA PhantomStep ==
  TypeOK /\ Shapes /\ NoPhantomAllow /\ [Next]_vars => NoPhantomAllow'
<1>. SUFFICES ASSUME TypeOK, Shapes, NoPhantomAllow, [Next]_vars,
                     NEW row \in audit', row.result = "allowed"
              PROVE  Answered(row.request, "ok")' /\ row.item \in resolved'[row.request]
  BY DEF NoPhantomAllow, Answered
<1>1. CASE row \in audit
  <2>1. row.request \in Requests
    BY <1>1 DEF TypeOK, Row
  <2>. QED  BY <1>1, <2>1, AnsweredStays DEF NoPhantomAllow
<1>2. CASE \E r \in Requests : Commit(r) /\ row \in tx[r].audit
  BY <1>2, CommitAudit DEF Shapes, Answered
<1>. QED  BY <1>1, <1>2, AuditGrows

\* No step refuses without the row that says so.
LEMMA RefusalStep ==
  TypeOK /\ Shapes /\ RefusalIsAudited /\ [Next]_vars => RefusalIsAudited'
<1>. SUFFICES ASSUME TypeOK, Shapes, RefusalIsAudited, [Next]_vars, NEW r \in Requests,
                     Refused(r)',
                     (call[r].endpoint \in {"read", "use", "redeem"} /\ ~call[r].badField)'
              PROVE  \E row \in audit' : row.request = r /\ row.result \in {"denied", "expired"}
  BY DEF RefusalIsAudited
<1>1. CASE Commit(r)
  BY <1>1, CommitAudit DEF Shapes, Answered, Refused
<1>2. CASE ~Commit(r)
  <2>1. Answered(r, verdict[r])
    BY <1>2, CommitAnswers DEF Refused, Answered
  <2>2. Refused(r) /\ call' = call
    BY <2>1, AnsweredStays DEF Refused, Answered
  <2>. QED  BY <2>2, AuditGrows DEF RefusalIsAudited
<1>. QED  BY <1>1, <1>2

-----------------------------------------------------------------------------
(* Theorems *)

LEMMA InitIInv == Init => IInv
<1>. SUFFICES ASSUME Init PROVE IInv
  OBVIOUS
<1>1. TypeOK /\ WellCalled
  <2>1. call \in [Requests -> Call] /\ WellCalled
    BY DEF Init, WellCalled, Calls
  <2>2. tx \in [Requests -> Transaction]
    BY BegunType DEF Init
  <2>. QED  BY <2>1, <2>2 DEF Init, TypeOK, Stages, NothingYet
<1>2. \A r \in Requests : Idle(r) /\ stage[r] = "unsent"
  <2>1. /\ tx = [r \in Requests |-> Begun] /\ write = [r \in Requests |-> {}]
        /\ todo = [r \in Requests |-> {}] /\ resolved = [r \in Requests |-> {}]
        /\ verdict = [r \in Requests |-> "error"] /\ stage = [r \in Requests |-> "unsent"]
    BY DEF Init
  <2>. QED  BY <2>1 DEF Idle
<1>3. Shapes
  <2>. SUFFICES ASSUME NEW r \in Requests PROVE Shape(r)
    BY DEF Shapes
  <2>1. /\ tx[r].mounts = {} /\ tx[r].audit = {} /\ tx[r].consumed = NoHandle
        /\ write[r] = {} /\ verdict[r] = "error" /\ stage[r] = "unsent"
    BY <1>2 DEF Idle, Begun
  <2>2. Paced(r)
    BY <1>2, <2>1 DEF Paced
  <2>. QED  BY <2>1, <2>2 DEF Shape, Minted, Accounted, Owed, Consuming
<1>4. Sessions /\ Handed
  BY DEF Init, Sessions, Handed
<1>5. AllEntitled
  BY <1>2 DEF AllEntitled, Entitled, Idle, Open, InHandler
<1>6. AllHeld
  BY <1>2 DEF AllHeld, Held, Idle, Begun
<1>7. Reserved /\ DeliveryIsAudited /\ NoPhantomAllow /\ RefusalIsAudited
  BY <1>2 DEF Init, Reserved, DeliveryIsAudited, NoPhantomAllow, RefusalIsAudited, Refused, Answered
<1>. QED  BY <1>1, <1>3, <1>4, <1>5, <1>6, <1>7 DEF IInv

\* The inductive invariant of the access path, for any number of agents, items
\* and concurrent requests.
THEOREM Invariance == Spec => []IInv
<1>1. IInv /\ [Next]_vars => IInv'
  BY TypeStep, WellCalledStep, ShapesStep, SessionsStep, AllEntitledStep, HandedStep,
     ReservedStep, HeldStep, AuditedStep, PhantomStep, RefusalStep DEF IInv
<1>. QED  BY <1>1, InitIInv, PTL DEF Spec

\* Every value stays of its type.
THEOREM TypeCorrect == Spec => []TypeOK
<1>1. IInv => TypeOK
  BY DEF IInv
<1>. QED  BY <1>1, Invariance, PTL

\* No secret leaves without a committed audit row (pipeline.ts, init.ts
\* withOrgContext): what is answered has been logged.
THEOREM DeliveryAudited == Spec => []DeliveryIsAudited
<1>1. IInv => DeliveryIsAudited
  BY DEF IInv
<1>. QED  BY <1>1, Invariance, PTL

\* No allowed row is left behind by a request that failed half-way through a
\* profile or was rolled back (access.ts, pipeline.ts).
THEOREM NoPhantom == Spec => []NoPhantomAllow
<1>1. IInv => NoPhantomAllow
  BY DEF IInv
<1>. QED  BY <1>1, Invariance, PTL

\* Every refusal of a canonical endpoint that is answered has been logged.
THEOREM RefusalAudited == Spec => []RefusalIsAudited
<1>1. IInv => RefusalIsAudited
  BY DEF IInv
<1>. QED  BY <1>1, Invariance, PTL

\* A mount reservation and its audit row live and die together (the savepoint
\* of pipeline.ts 485-519).
THEOREM ReservationAudited == Spec => []ReservedIffAudited
<1>1. IInv => ReservedIffAudited
  <2>. SUFFICES ASSUME IInv, NEW r \in Requests, Minting(r), NEW i \in Items
                PROVE  /\ mount[<<r, i>>] # "none" <=> RowOf(r, i, "allowed") \in audit
                       /\ mount[<<r, i>>] # "none" => Answered(r, "ok")
    BY DEF ReservedIffAudited, Minting
  <2>1. ASSUME mount[<<r, i>>] # "none" PROVE Answered(r, "ok") /\ i \in resolved[r]
    BY <2>1 DEF IInv, Handed, Handles
  <2>2. ASSUME RowOf(r, i, "allowed") \in audit PROVE Answered(r, "ok") /\ i \in resolved[r]
    BY <2>2 DEF IInv, NoPhantomAllow, RowOf
  <2>. QED  BY <2>1, <2>2 DEF IInv, Reserved, DeliveryIsAudited
<1>. QED  BY <1>1, Invariance, PTL

\* However revocations, deletions and expiries fall between the reads of a
\* handler, an item goes only to an agent that was entitled to it at some moment
\* since it asked.
THEOREM DeliveryAllowed == Spec => []DeliveryWasAllowed
<1>1. IInv => DeliveryWasAllowed
  <2>. SUFFICES ASSUME IInv, NEW r \in Requests, Answered(r, "ok")
                PROVE  LET asked == IF Redeeming(r) THEN call[r].handle[1] ELSE r
                           since == history[asked]
                       IN /\ call[asked].agent = call[r].agent
                          /\ \A i \in resolved[r] :
                               i \in since.items /\ since.targets \cap {i, Profile} # {}
    BY DEF DeliveryWasAllowed, Redeeming
  <2>1. ASSUME NEW q \in Requests, ~Redeeming(q), NEW i \in resolved[q]
        PROVE  i \in history[q].items /\ history[q].targets \cap {i, Profile} # {}
    BY <2>1 DEF IInv, AllEntitled, Entitled
  <2>2. CASE ~Redeeming(r)
    BY <2>1, <2>2
  <2>3. CASE Redeeming(r)
    <3>. DEFINE h == call[r].handle
    <3>1. h \in Handles /\ h[1] \in Requests
      BY <2>3, CallType DEF IInv
    <3>2. resolved[r] = {h[2]}
      BY <2>3 DEF IInv, Shapes, Shape, Consuming, Answered
    <3>3. mount[h] # "none" /\ call[h[1]].agent = call[r].agent
      BY <2>3 DEF IInv, AllHeld, Held, Answered
    <3>4. Minting(h[1]) /\ h[2] \in resolved[h[1]]
      BY <3>1, <3>3 DEF IInv, Handed
    <3>5. ~Redeeming(h[1])
      BY <3>4 DEF Minting, Redeeming
    <3>. QED  BY <2>1, <2>3, <3>1, <3>2, <3>3, <3>4, <3>5
  <2>. QED  BY <2>2, <2>3
<1>. QED  BY <1>1, Invariance, PTL

\* Mount handles implement one-time tokens: of all the requests that present a
\* handle at once, one consumes it and none gives it back.
THEOREM HandlesWorkOnce == Spec => HandleWorksOnce
<1>. DEFINE issued == {h \in Handles : mount[h] # "none"}
<1>1. Init => Token!Init
  BY DEF Init, Token!Init
<1>2. IInv /\ [Next]_vars => [Token!Next]_<<issued, redeemer>>
  <2>. SUFFICES ASSUME IInv, [Next]_vars, <<issued, redeemer>>' # <<issued, redeemer>>
                PROVE  Token!Next
    OBVIOUS
  <2>t. TypeOK /\ WellCalled /\ Shapes /\ AllHeld
    BY DEF IInv
  <2>1. PICK r \in Requests : Commit(r)
    <3>1. ASSUME Expire PROVE issued' = issued /\ redeemer' = redeemer
      BY <2>t, <3>1 DEF Expire, TypeOK
    <3>. QED
      BY <3>1, RequestFrame
      DEF Next, AdminStep, CreatePermission, RevokePermission, DeleteItem, RevokeAgent, vars,
          database
  <2>2. issued' = issued \cup tx[r].mounts /\ tx[r].mounts \subseteq Handles
    BY <2>t, <2>1 DEF Commit, TypeOK, Transaction
  <2>3. CASE tx[r].consumed = NoHandle
    <3>1. redeemer' = redeemer
      BY <2>t, <2>1, <2>3, AccessConstants DEF Commit, TypeOK
    <3>2. \E fresh \in SUBSET (Handles \ issued) : issued' = issued \cup fresh
      <4>1. tx[r].mounts \ issued \in SUBSET (Handles \ issued)
        BY <2>2
      <4>. QED  BY <2>2, <4>1
    <3>. QED  BY <3>1, <3>2 DEF Token!Next, Token!Issue
  <2>4. CASE tx[r].consumed # NoHandle
    <3>. DEFINE h == tx[r].consumed
    <3>1. Redeeming(r) /\ h = call[r].handle /\ h \in Handles
      BY <2>t, <2>4 DEF Shapes, Shape, Consuming, TypeOK, Transaction
    <3>2. tx[r].mounts = {}
      BY <2>t, <3>1 DEF Shapes, Shape, Minted, Minting, Redeeming
    <3>3. h \in issued /\ redeemer[h] = NoRequest
      BY <2>t, <2>4, <3>1 DEF AllHeld, Held
    <3>4. redeemer' = [redeemer EXCEPT ![h] = r]
      BY <2>t, <2>1 DEF Commit, TypeOK
    <3>. QED  BY <2>2, <3>1, <3>2, <3>3, <3>4 DEF Token!Next, Token!Spend
  <2>. QED  BY <2>3, <2>4
<1>. QED  BY <1>1, <1>2, Invariance, PTL DEF Spec, HandleWorksOnce, Token!Spec
-----------------------------------------------------------------------------
(* What becomes of what is delivered: proofs about SecretRun, the runs of commands    *)
(* with the items of this profile, for any number of labels, fields and runs.         *)

ItemsOf(got) == {g.item : g \in got}

\* These are the variables of what was got, each one once, and none that may not be set.
Fits(env, got) ==
  /\ env = Command!Vars(got) /\ Command!Distinct(env)
  /\ \A e \in env : e.key \notin Blocked

\* A run of a whole profile has got what it does not wait for, and set the variables of
\* all that it has resolved.
Collected(x) ==
  x.kind \in Command!Bulk =>
    /\ x.proc # "none" => ItemsOf(x.got) = x.minted /\ Fits(x.env, x.got)
    /\ x.stage \in {"idle", "use"} => x.got = {} /\ x.env = {}
    /\ x.stage \in {"redeem", "resolve", "daemon", "spawn"} =>
         x.left \subseteq x.minted /\ ItemsOf(x.got) = x.minted \ x.left
    /\ x.stage \in {"daemon", "spawn"} => x.left = {}
    /\ x.stage = "spawn" \/ (x.stage = "redeem" /\ x.kind = "mcp all") => Fits(x.env, x.got)
    /\ x.stage = "resolve" =>
         /\ x.kind = "mcp all"
         /\ x.now \in x.got /\ x.now.item \notin ItemsOf(x.got \ {x.now})
         /\ Fits(x.env, x.got \ {x.now})

\* A run answers at its end, and its command is started once it is running.
InStep(x) ==
  /\ x.proc # "none" => x.stage \in {"running", "done"}
  /\ x.stage = "running" => x.proc # "none"
  /\ x.stage # "done" => x.answer = Nothing
  /\ x.stage = "daemon" => x.kind # "mcp all"
  /\ x.stage \in {"resolve", "daemon"} => x.now \in Command!Got

\* What it answers is so, and what was kept of the output is all, or all there is room for.
Reported(x) ==
  /\ x.answer = "code" =>
       x.proc = "ended" \/ (x.proc = "none" /\ x.kind \in Command!Mcp /\ x.code = 1)
  /\ x.answer = "failed" /\ x.proc # "none" => x.why = "lost"
  /\ IF x.truncated THEN x.kept = StreamCap /\ x.written > x.kept ELSE x.written = x.kept

\* A run that goes on says nothing yet and has the same command.
Silent(x, y) ==
  /\ y.kind = x.kind /\ y.proc = x.proc /\ y.code = x.code /\ y.why = x.why
  /\ y.answer = x.answer /\ y.kept = x.kept /\ y.written = x.written
  /\ y.truncated = x.truncated

Sound(x) == x \in Command!Run /\ Collected(x) /\ InStep(x) /\ Reported(x)
RunsInv == Command!TypeOK /\ \A r \in Runs : Sound(started[r])

-----------------------------------------------------------------------------
\* A run that fails before its command has started is as it was.
LEMMA FailsSoundly ==
  ASSUME NEW r \in Runs, Sound(started[r]), NEW why,
         why \in {"flags", "name", "refused", "limit", "unavailable", "unresolved", "label",
                  "unreachable", "auth", "locked", "spawn"},
         started[r].proc = "none", Command!SecretRunConstants
  PROVE  Sound([started[r] EXCEPT !.stage = "done", !.why = why, !.answer = "failed"])
<1>. DEFINE x == started[r]
            y == [x EXCEPT !.stage = "done", !.why = why, !.answer = "failed"]
<1>1. x \in Command!Run
  BY DEF Sound
<1>2. y \in Command!Run
  BY <1>1 DEF Command!Run
<1>3. /\ y.stage = "done" /\ y.answer = "failed" /\ y.proc = "none" /\ y.kind = x.kind
      /\ y.truncated = x.truncated /\ y.kept = x.kept /\ y.written = x.written
  BY <1>1 DEF Command!Run
<1>4. Collected(y)
  BY <1>3 DEF Collected
<1>5. InStep(y) /\ Reported(y)
  BY <1>3 DEF InStep, Reported, Sound
<1>. QED  BY <1>2, <1>4, <1>5 DEF Sound

\* A failure of a run, however the code words it.
LEMMA FailureIsSound ==
  ASSUME RunsInv, Command!SecretRunConstants, NEW r \in Runs, NEW why,
         why \in {"flags", "name", "refused", "limit", "unavailable", "unresolved", "label",
                  "unreachable", "auth", "locked", "spawn"},
         Command!Fails(r, why), started[r].stage \notin {"running", "done"}
  PROVE  \E new : Sound(new) /\ Command!Set(r, new)
<1>1. Sound(started[r]) /\ started[r].proc = "none"
  BY DEF RunsInv, Sound, InStep
<1>2. Sound([started[r] EXCEPT !.stage = "done", !.why = why, !.answer = "failed"])
  BY <1>1, FailsSoundly
<1>. QED  BY <1>2 DEF Command!Fails

\* The run that has not begun.
LEMMA IdleRun ==
  ASSUME Command!SecretRunConstants
  PROVE  /\ Command!Idle \in Command!Run
         /\ Command!Idle.got = {} /\ Command!Idle.env = {} /\ Command!Idle.minted = {}
         /\ Command!Idle.left = {} /\ Command!Idle.stage = "idle" /\ Command!Idle.kind = Nothing
         /\ Command!Idle.proc = "none" /\ Command!Idle.answer = Nothing /\ Command!Idle.kept = 0
         /\ Command!Idle.written = 0 /\ Command!Idle.truncated = FALSE
BY DEF Command!Idle, Command!Run, Command!SecretRunConstants

\* A run that begins, or is refused for its flags.
LEMMA BeginIsSound ==
  ASSUME RunsInv, Command!SecretRunConstants, NEW r \in Runs, Command!Begin(r)
  PROVE  \E new : Sound(new) /\ Command!Set(r, new)
<1>1. started[r].stage = "idle"
  BY DEF Command!Begin, Command!CliRun, Command!McpRun
<1>2. CASE \E why \in {"flags", "name"} : Command!Fails(r, why)
  BY <1>1, <1>2, FailureIsSound
<1>3. ASSUME NEW kind \in Command!Bulk \cup {"item", "expand", "mcp item"},
             NEW item \in RunItems \cup {Nothing}, NEW key \in Keys \cup {Nothing},
             NEW field \in Keys \cup {Nothing}
      PROVE  Sound([Command!Idle EXCEPT !.stage = "use", !.kind = kind, !.item = item,
                                        !.key = key, !.field = field])
  <2>. DEFINE y == [Command!Idle EXCEPT !.stage = "use", !.kind = kind, !.item = item,
                                        !.key = key, !.field = field]
  <2>1. y \in Command!Run
    BY IdleRun DEF Command!Run
  <2>2. /\ y.stage = "use" /\ y.kind = kind /\ y.got = {} /\ y.env = {} /\ y.proc = "none"
        /\ y.answer = Nothing /\ y.kept = 0 /\ y.written = 0 /\ y.truncated = FALSE
    BY IdleRun DEF Command!Run
  <2>3. Collected(y) /\ InStep(y)
    BY <2>2 DEF Collected, InStep
  <2>4. Reported(y)
    BY <2>2 DEF Reported, Command!SecretRunConstants
  <2>. QED  BY <2>1, <2>3, <2>4 DEF Sound
<1>4. ASSUME NEW f \in Command!Flags, NEW i \in RunItems, NEW k \in Keys, NEW field \in Keys,
             Command!CliRun(r, f, i, k, field)
      PROVE  \E new : Sound(new) /\ Command!Set(r, new)
  <2>1. CASE Command!ValidFlags(f)
    <3>. DEFINE kind == IF f.all THEN "all" ELSE IF f.expand THEN "expand" ELSE "item"
                item == IF f.item THEN i ELSE Nothing
                key == IF f.envVar THEN k ELSE Nothing
                fld == IF f.field THEN field ELSE Nothing
    <3>1. kind \in Command!Bulk \cup {"item", "expand", "mcp item"}
      BY DEF Command!Bulk
    <3>2. Command!Set(r, [Command!Idle EXCEPT !.stage = "use", !.kind = kind, !.item = item,
                                              !.key = key, !.field = fld])
      BY <1>4, <2>1 DEF Command!CliRun
    <3>3. /\ item \in RunItems \cup {Nothing} /\ key \in Keys \cup {Nothing}
          /\ fld \in Keys \cup {Nothing}
      OBVIOUS
    <3>. HIDE DEF kind, item, key, fld
    <3>. QED  BY <1>3, <3>1, <3>2, <3>3
  <2>2. CASE ~Command!ValidFlags(f)
    BY <1>2, <1>4, <2>2 DEF Command!CliRun
  <2>. QED  BY <2>1, <2>2
<1>5. ASSUME NEW i \in RunItems \cup {Nothing}, NEW k \in Keys, NEW field \in Keys \cup {Nothing},
             Command!McpRun(r, i, k, field)
      PROVE  \E new : Sound(new) /\ Command!Set(r, new)
  <2>1. CASE k \notin Blocked
    <3>. DEFINE kind == IF i = Nothing THEN "mcp all" ELSE "mcp item"
    <3>1. kind \in Command!Bulk \cup {"item", "expand", "mcp item"}
      BY DEF Command!Bulk
    <3>2. Command!Set(r, [Command!Idle EXCEPT !.stage = "use", !.item = i, !.key = k,
                                              !.field = field, !.kind = kind])
      BY <1>5, <2>1 DEF Command!McpRun
    <3>3. [Command!Idle EXCEPT !.stage = "use", !.item = i, !.key = k, !.field = field,
                               !.kind = kind]
          = [Command!Idle EXCEPT !.stage = "use", !.kind = kind, !.item = i, !.key = k,
                                 !.field = field]
      BY DEF Command!Idle
    <3>. HIDE DEF kind
    <3>. QED  BY <1>3, <3>1, <3>2, <3>3
  <2>2. CASE k \in Blocked
    BY <1>2, <1>5, <2>2 DEF Command!McpRun
  <2>. QED  BY <2>1, <2>2
<1>. QED  BY <1>4, <1>5 DEF Command!Begin

\* Handles are asked for, and given or refused.
LEMMA UseIsSound ==
  ASSUME RunsInv, Command!SecretRunConstants, NEW r \in Runs,
         Command!UseItem(r) \/ Command!UseProfile(r)
  PROVE  \E new : Sound(new) /\ Command!Set(r, new)
<1>. DEFINE x == started[r]
<1>1. Sound(x) /\ x.stage = "use"
  BY DEF RunsInv, Command!UseItem, Command!UseProfile
<1>2. ASSUME NEW why \in {"refused", "limit"}, Command!Fails(r, why)
      PROVE  \E new : Sound(new) /\ Command!Set(r, new)
  BY <1>1, <1>2, FailureIsSound
<1>3. ASSUME NEW S \in SUBSET RunItems, Command!Mints(r, S)
      PROVE  \E new : Sound(new) /\ Command!Set(r, new)
  <2>. DEFINE onward == IF S = {} THEN "spawn" ELSE "redeem"
              y == [x EXCEPT !.minted = S, !.left = S, !.stage = onward]
  <2>1. y \in Command!Run
    <3>1. onward \in {"spawn", "redeem"}
      OBVIOUS
    <3>. HIDE DEF onward
    <3>. QED  BY <1>1, <3>1 DEF Sound, Command!Run
  <2>2. /\ y.stage = IF S = {} THEN "spawn" ELSE "redeem"
        /\ y.minted = S /\ y.left = S /\ y.got = x.got /\ y.env = x.env /\ Silent(x, y)
    BY <1>1 DEF Sound, Command!Run, Silent
  <2>. HIDE DEF y
  <2>3. Collected(y)
    <3>1. x.kind \in Command!Bulk => x.got = {} /\ x.env = {} /\ x.proc = "none"
      BY <1>1 DEF Sound, Collected, InStep
    <3>2. ItemsOf({}) = {} /\ Fits({}, {})
      BY DEF ItemsOf, Fits, Command!Vars, Command!Distinct
    <3>. QED  BY <2>2, <3>1, <3>2 DEF Collected, Silent
  <2>4. InStep(y) /\ Reported(y)
    BY <1>1, <2>2 DEF Sound, InStep, Reported, Silent
  <2>. QED  BY <1>3, <2>1, <2>3, <2>4 DEF Sound, Command!Mints, y
<1>4. x.kind \notin Command!Bulk /\ x.item \in Command!There => {x.item} \in SUBSET RunItems
  BY DEF Command!There
<1>5. Command!There \in SUBSET RunItems
  BY DEF Command!There
<1>. QED  BY <1>2, <1>3, <1>4, <1>5 DEF Command!UseItem, Command!UseProfile

\* One more item, of those that were not got yet.
LEMMA RedeemIsSound ==
  ASSUME RunsInv, Command!SecretRunConstants, NEW r \in Runs, NEW i \in RunItems,
         Command!Redeem(r, i)
  PROVE  \E new : Sound(new) /\ Command!Set(r, new)
<1>. DEFINE x == started[r]
            g == Command!Redeemed(i)
            y == [x EXCEPT !.got = @ \cup {g}, !.now = g, !.left = @ \ {i},
                           !.stage = Command!After(r, i)]
<1>1. Sound(x) /\ x.stage = "redeem" /\ i \in x.left
  BY DEF RunsInv, Command!Redeem
<1>2. CASE Command!Fails(r, "unavailable")
  BY <1>1, <1>2, FailureIsSound
<1>3. CASE Command!Set(r, y)
  <2>1. g \in Command!Got /\ g.item = i
    BY DEF RunsInv, Command!TypeOK, Command!Row, Command!Got, Command!Redeemed
  <2>2. Command!After(r, i) \in {"resolve", "daemon", "redeem"}
    BY DEF Command!After
  <2>. HIDE DEF g
  <2>3. y \in Command!Run
    BY <1>1, <2>1, <2>2 DEF Sound, Command!Run
  <2>4. /\ y.stage = Command!After(r, i) /\ y.now = g
        /\ y.left = x.left \ {i} /\ y.got = x.got \cup {g}
        /\ y.minted = x.minted /\ y.env = x.env /\ Silent(x, y)
    BY <1>1 DEF Sound, Command!Run, Silent
  <2>. HIDE DEF y
  <2>5. ASSUME x.kind \in Command!Bulk
        PROVE  Collected(y)
    <3>1. /\ x.left \subseteq x.minted /\ ItemsOf(x.got) = x.minted \ x.left
          /\ x.proc = "none" /\ (x.kind = "mcp all" => Fits(x.env, x.got))
      BY <1>1, <2>5 DEF Sound, Collected, InStep
    <3>2. ItemsOf(y.got) = ItemsOf(x.got) \cup {i}
      BY <2>1, <2>4 DEF ItemsOf
    <3>3. i \notin ItemsOf(x.got)
      BY <1>1, <3>1
    <3>4. y.got \ {g} = x.got
      BY <2>1, <2>4, <3>3 DEF ItemsOf
    <3>5. y.left \subseteq y.minted /\ ItemsOf(y.got) = y.minted \ y.left
      BY <1>1, <2>4, <3>1, <3>2
    <3>6. x.kind = "all" => y.stage = IF x.left = {i} THEN "daemon" ELSE "redeem"
      BY <2>4 DEF Command!After
    <3>7. x.kind = "mcp all" => y.stage = "resolve"
      BY <2>4 DEF Command!After
    <3>8. x.kind = "all" \/ x.kind = "mcp all"
      BY <2>5 DEF Command!Bulk
    <3>. QED  BY <2>1, <2>4, <3>1, <3>3, <3>4, <3>5, <3>6, <3>7, <3>8 DEF Collected, Silent
  <2>6. InStep(y)
    BY <1>1, <2>1, <2>4 DEF Sound, InStep, Command!After, Silent
  <2>7. Reported(y)
    BY <1>1, <2>4 DEF Sound, Reported, Silent
  <2>. QED  BY <1>3, <2>3, <2>4, <2>5, <2>6, <2>7 DEF Sound, Collected, Silent, y
<1>. QED  BY <1>2, <1>3 DEF Command!Redeem

\* The one item of a run is opened.
LEMMA ResolveIsSound ==
  ASSUME RunsInv, Command!SecretRunConstants, NEW r \in Runs,
         Command!ResolveItem(r) \/ Command!ResolveMcpItem(r)
  PROVE  \E new : Sound(new) /\ Command!Set(r, new)
<1>. DEFINE x == started[r]
            g == x.now
            y == [x EXCEPT !.stage = "spawn",
                    !.env = {[key |-> x.key, item |-> g.item, version |-> g.version]}]
<1>1. Sound(x) /\ x.stage = "resolve" /\ x.kind \notin Command!Bulk /\ Command!Resolves(r)
  BY DEF RunsInv, Command!ResolveItem, Command!ResolveMcpItem, Command!Bulk
<1>2. CASE Command!Fails(r, "unresolved")
  BY <1>1, <1>2, FailureIsSound
<1>3. CASE Command!Set(r, y)
  <2>1. g \in Command!Got
    BY <1>1 DEF Sound, InStep
  <2>2. [key |-> x.key, item |-> g.item, version |-> g.version] \in Command!Env
    BY <1>1, <2>1 DEF Sound, Command!Run, Command!Got, Command!Env
  <2>3. y \in Command!Run
    BY <1>1, <2>2 DEF Sound, Command!Run
  <2>4. y.stage = "spawn" /\ Silent(x, y)
    BY <1>1 DEF Sound, Command!Run, Silent
  <2>. HIDE DEF y
  <2>5. Collected(y) /\ InStep(y) /\ Reported(y)
    BY <1>1, <2>4 DEF Sound, Collected, InStep, Reported, Silent
  <2>. QED  BY <1>3, <2>3, <2>5 DEF Sound, y
<1>. QED  BY <1>1, <1>2, <1>3 DEF Command!Resolves


\* The variables with one item more.
LEMMA FitsWithout ==
  ASSUME NEW env, NEW got, NEW g \in got, Fits(env, got \ {g}), ~Command!Single(g.fields)
  PROVE  Fits(env, got)
<1>1. Command!Vars(got) = Command!Vars(got \ {g})
  BY DEF Command!Vars
<1>. QED  BY <1>1 DEF Fits

LEMMA FitsWith ==
  ASSUME NEW env, NEW got, NEW g \in got, Fits(env, got \ {g}), Command!Single(g.fields),
         EnvKey[g.label] \notin Blocked \cup {e.key : e \in env}
  PROVE  Fits(Command!Put(env, Command!Var(g)), got)
<1>1. Command!Var(g).key = EnvKey[g.label]
  BY DEF Command!Var
<1>. DEFINE v == Command!Var(g)
<1>2. Command!Vars(got) = Command!Vars(got \ {g}) \cup {v}
  BY DEF Command!Vars
<1>. HIDE DEF v
<1>3. Command!Put(env, v) = env \cup {v}
  BY <1>1 DEF Command!Put, v
<1>4. Command!Distinct(env \cup {v})
  BY <1>1 DEF Fits, Command!Distinct, v
<1>5. \A e \in env \cup {v} : e.key \notin Blocked
  BY <1>1 DEF Fits, v
<1>. QED  BY <1>2, <1>3, <1>4, <1>5 DEF Fits, v

\* The item in hand goes into the environment, or is left out, or ends the run.
LEMMA ResolveNextIsSound ==
  ASSUME RunsInv, Command!SecretRunConstants, NEW r \in Runs, Command!ResolveNext(r)
  PROVE  \E new : Sound(new) /\ Command!Set(r, new)
<1>. DEFINE x == started[r]
            g == x.now
            onward == IF x.left = {} THEN "spawn" ELSE "redeem"
<1>1. Sound(x) /\ x.stage = "resolve" /\ x.kind = "mcp all"
  BY DEF RunsInv, Command!ResolveNext
<1>2. ASSUME NEW why \in {"unresolved", "label"}, Command!Fails(r, why)
      PROVE  \E new : Sound(new) /\ Command!Set(r, new)
  BY <1>1, <1>2, FailureIsSound
<1>3. /\ g \in x.got /\ Fits(x.env, x.got \ {g}) /\ x.proc = "none"
      /\ x.left \subseteq x.minted /\ ItemsOf(x.got) = x.minted \ x.left
      /\ g \in Command!Got /\ x.env \subseteq Command!Env
  BY <1>1 DEF Sound, Collected, InStep, Command!Bulk, Command!Run
<1>4. ASSUME NEW env \in SUBSET Command!Env, Fits(env, x.got)
      PROVE  Sound([x EXCEPT !.stage = onward, !.env = env])
  <2>. DEFINE y == [x EXCEPT !.stage = onward, !.env = env]
  <2>1. onward \in {"spawn", "redeem"}
    OBVIOUS
  <2>2. onward = "spawn" => x.left = {}
    OBVIOUS
  <2>. HIDE DEF onward
  <2>3. y \in Command!Run
    BY <1>1, <2>1 DEF Sound, Command!Run
  <2>4. y.stage = onward /\ y.env = env /\ y.got = x.got /\ y.left = x.left
        /\ y.minted = x.minted /\ Silent(x, y)
    BY <1>1 DEF Sound, Command!Run, Silent
  <2>. HIDE DEF y
  <2>5. Collected(y)
    BY <1>3, <1>4, <2>1, <2>2, <2>4 DEF Collected, Silent
  <2>6. InStep(y) /\ Reported(y)
    BY <1>1, <1>3, <2>1, <2>4 DEF Sound, InStep, Reported, Silent
  <2>. QED  BY <2>3, <2>5, <2>6 DEF Sound, y
<1>5. CASE ~Command!Single(g.fields) /\ Command!Set(r, [x EXCEPT !.stage = onward])
  <2>1. Fits(x.env, x.got)
    BY <1>3, <1>5, FitsWithout
  <2>2. [x EXCEPT !.stage = onward] = [x EXCEPT !.stage = onward, !.env = x.env]
    BY <1>1 DEF Sound, Command!Run
  <2>3. Sound([x EXCEPT !.stage = onward])
    BY <1>3, <1>4, <2>1, <2>2
  <2>. QED  BY <1>5, <2>3
<1>6. CASE /\ Command!Single(g.fields)
           /\ EnvKey[g.label] \notin Blocked \cup {e.key : e \in x.env}
           /\ Command!Set(r, [x EXCEPT !.stage = onward,
                                       !.env = Command!Put(@, Command!Var(g))])
  <2>1. Fits(Command!Put(x.env, Command!Var(g)), x.got)
    BY <1>3, <1>6, FitsWith
  <2>2. Command!Var(g) \in Command!Env
    BY <1>3 DEF Command!Var, Command!Env, Command!Got, Command!SecretRunConstants
  <2>3. Command!Put(x.env, Command!Var(g)) \subseteq Command!Env
    BY <1>3, <2>2 DEF Command!Put
  <2>. QED  BY <1>4, <1>6, <2>1, <2>3
<1>. QED  BY <1>2, <1>5, <1>6 DEF Command!ResolveNext

\* The daemon starts the command, with what was got, or the run fails.
LEMMA DaemonIsSound ==
  ASSUME RunsInv, Command!SecretRunConstants, NEW r \in Runs, Command!DaemonRuns(r)
  PROVE  \E new : Sound(new) /\ Command!Set(r, new)
<1>. DEFINE x == started[r]
<1>1. Sound(x) /\ x.stage = "daemon" /\ x.now \in Command!Got /\ x.proc = "none"
      /\ x.kind # "mcp all" /\ x.got \subseteq Command!Got /\ x.answer = Nothing
  BY DEF RunsInv, Command!DaemonRuns, Sound, InStep, Command!Run
<1>2. ASSUME NEW why \in {"unreachable", "auth", "locked", "label", "spawn"},
             Command!Fails(r, why)
      PROVE  \E new : Sound(new) /\ Command!Set(r, new)
  BY <1>1, <1>2, FailureIsSound
<1>3. Command!ErrorKind # Nothing => Command!ErrorKind \in {"unreachable", "auth", "locked"}
  BY DEF Command!ErrorKind
<1>4. ASSUME NEW env \in SUBSET Command!Env, x.kind = "all" => Fits(env, x.got)
      PROVE  Sound([x EXCEPT !.stage = "running", !.proc = "running", !.env = env])
  <2>. DEFINE y == [x EXCEPT !.stage = "running", !.proc = "running", !.env = env]
  <2>1. y \in Command!Run
    <3>1. x \in Command!Run
      BY <1>1 DEF Sound
    <3>. QED  BY <3>1 DEF Command!Run
  <2>2. /\ y.stage = "running" /\ y.proc = "running" /\ y.env = env /\ y.got = x.got
        /\ y.minted = x.minted /\ y.kind = x.kind /\ y.answer = Nothing
        /\ y.kept = x.kept /\ y.written = x.written /\ y.truncated = x.truncated
    BY <1>1 DEF Sound, Command!Run
  <2>. HIDE DEF y
  <2>3. x.kind \in Command!Bulk => x.kind = "all" /\ ItemsOf(x.got) = x.minted
    BY <1>1 DEF Sound, Collected, Command!Bulk
  <2>4. Collected(y)
    BY <1>4, <2>2, <2>3 DEF Collected
  <2>5. InStep(y)
    BY <2>2 DEF InStep
  <2>6. Reported(y)
    BY <1>1, <2>2 DEF Reported, Sound, Command!SecretRunConstants
  <2>. QED  BY <2>1, <2>4, <2>5, <2>6 DEF Sound, y
<1>5. CASE x.kind = "all" /\ Command!ExecBulk(r)
  <2>. DEFINE env == Command!Vars(x.got)
  <2>1. env \subseteq Command!Env
    <3>1. \A g \in Command!Got : Command!Var(g) \in Command!Env
      BY DEF Command!Var, Command!Env, Command!Got, Command!SecretRunConstants
    <3>. QED  BY <1>1, <3>1 DEF Command!Vars
  <2>2. CASE (\A e \in env : e.key \notin Blocked) /\ Command!Distinct(env)
    <3>1. Fits(env, x.got)
      BY <2>2 DEF Fits
    <3>2. Command!Set(r, [x EXCEPT !.stage = "running", !.proc = "running", !.env = env])
      BY <1>5, <2>2 DEF Command!ExecBulk
    <3>. HIDE DEF env
    <3>. QED  BY <1>4, <2>1, <3>1, <3>2
  <2>3. CASE ~((\A e \in env : e.key \notin Blocked) /\ Command!Distinct(env))
    BY <1>2, <1>5, <2>3 DEF Command!ExecBulk
  <2>. QED  BY <2>2, <2>3
<1>6. CASE x.kind # "all" /\ Command!ExecExpand(r)
  <2>. DEFINE g == x.now
              names == Command!Selected(g.fields)
              env == {[key |-> k, item |-> g.item, version |-> g.version] : k \in names}
  <2>1. names \subseteq Keys
    BY <1>1 DEF Command!Got, Command!Selected, Command!SecretRunConstants
  <2>2. env \subseteq Command!Env
    <3>1. \A k \in Keys : [key |-> k, item |-> g.item, version |-> g.version] \in Command!Env
      BY <1>1 DEF Command!Env, Command!Got
    <3>. QED  BY <2>1, <3>1
  <2>3. CASE names \cap Blocked = {}
    <3>1. Command!Set(r, [x EXCEPT !.stage = "running", !.proc = "running", !.env = env])
      BY <1>6, <2>3 DEF Command!ExecExpand
    <3>. HIDE DEF env
    <3>. QED  BY <1>4, <1>6, <2>2, <3>1
  <2>4. CASE names \cap Blocked # {}
    BY <1>2, <1>6, <2>4 DEF Command!ExecExpand
  <2>. QED  BY <2>3, <2>4
<1>. QED  BY <1>2, <1>3, <1>5, <1>6 DEF Command!DaemonRuns


\* A command that starts, or does not.
LEMMA SpawnIsSound ==
  ASSUME RunsInv, Command!SecretRunConstants, NEW r \in Runs,
         Command!Spawn(r) \/ Command!SpawnFails(r)
  PROVE  \E new : Sound(new) /\ Command!Set(r, new)
<1>. DEFINE x == started[r]
<1>1. Sound(x) /\ x.stage = "spawn" /\ x.proc = "none" /\ x.answer = Nothing
  BY DEF RunsInv, Command!Spawn, Command!SpawnFails, Sound, InStep
<1>2. x \in Command!Run
  BY <1>1 DEF Sound
<1>3. x.kind \in Command!Bulk => ItemsOf(x.got) = x.minted /\ Fits(x.env, x.got)
  BY <1>1 DEF Sound, Collected
<1>4. CASE Command!Fails(r, "spawn")
  BY <1>1, <1>4, FailureIsSound
<1>5. CASE Command!Spawn(r)
  <2>. DEFINE y == [x EXCEPT !.stage = "running", !.proc = "running"]
  <2>1. y \in Command!Run
    BY <1>2 DEF Command!Run
  <2>2. /\ y.stage = "running" /\ y.proc = "running" /\ y.env = x.env /\ y.got = x.got
        /\ y.minted = x.minted /\ y.kind = x.kind /\ y.answer = x.answer
        /\ y.kept = x.kept /\ y.written = x.written /\ y.truncated = x.truncated
    BY <1>2 DEF Command!Run
  <2>. HIDE DEF y
  <2>3. Collected(y) /\ InStep(y)
    BY <1>1, <1>3, <2>2 DEF Collected, InStep
  <2>4. Reported(y)
    BY <1>1, <2>2 DEF Reported, Sound, Command!SecretRunConstants
  <2>. QED  BY <1>5, <2>1, <2>3, <2>4 DEF Sound, Command!Spawn, y
<1>6. CASE /\ x.kind \in Command!Mcp
           /\ Command!Set(r, [x EXCEPT !.stage = "done", !.code = 1, !.answer = "code"])
  <2>. DEFINE y == [x EXCEPT !.stage = "done", !.code = 1, !.answer = "code"]
  <2>1. y \in Command!Run
    BY <1>2 DEF Command!Run
  <2>2. /\ y.stage = "done" /\ y.proc = "none" /\ y.kind = x.kind /\ y.answer = "code"
        /\ y.code = 1
        /\ y.kept = x.kept /\ y.written = x.written /\ y.truncated = x.truncated
    BY <1>1, <1>2 DEF Command!Run
  <2>. HIDE DEF y
  <2>3. Collected(y) /\ InStep(y) /\ Reported(y)
    BY <1>1, <1>6, <2>2 DEF Collected, InStep, Reported, Sound
  <2>. QED  BY <1>6, <2>1, <2>3 DEF Sound, y
<1>. QED  BY <1>4, <1>5, <1>6 DEF Command!SpawnFails

\* What the command writes, up to the cap.
LEMMA WritesIsSound ==
  ASSUME RunsInv, Command!SecretRunConstants, NEW r \in Runs, NEW n \in Chunks,
         Command!Writes(r, n)
  PROVE  \E new : Sound(new) /\ Command!Set(r, new)
<1>. DEFINE x == started[r]
            y == Command!Pushed(x, n)
<1>1. Sound(x) /\ x.proc = "running" /\ x.written + n <= MaxOutput /\ Command!Set(r, y)
  BY DEF RunsInv, Command!Writes
<1>2. x \in Command!Run
  BY <1>1 DEF Sound
<1>3. n \in Nat /\ n > 0 /\ StreamCap \in Nat /\ MaxOutput \in Nat
  BY DEF Command!SecretRunConstants
<1>4. /\ x.kept \in Nat /\ x.kept <= StreamCap /\ x.written \in Nat /\ x.truncated \in BOOLEAN
      /\ x.written + n \in 0 .. MaxOutput
  <2>1. x.kept \in 0 .. StreamCap /\ x.written \in 0 .. MaxOutput /\ x.truncated \in BOOLEAN
    BY <1>2 DEF Command!Run
  <2>. QED  BY <1>1, <1>3, <2>1
<1>5. PICK kept \in 0 .. StreamCap, truncated \in BOOLEAN :
        /\ y = [x EXCEPT !.written = x.written + n, !.kept = kept, !.truncated = truncated]
        /\ IF truncated THEN kept = StreamCap /\ x.written + n > kept ELSE x.written + n = kept
  <2>1. IF x.truncated THEN x.kept = StreamCap /\ x.written > x.kept ELSE x.written = x.kept
    BY <1>1 DEF Sound, Reported
  <2>2. CASE x.kept >= StreamCap
    <3>1. y = [x EXCEPT !.written = x.written + n, !.truncated = TRUE]
      BY <2>2 DEF Command!Pushed
    <3>2. y = [x EXCEPT !.written = x.written + n, !.kept = x.kept, !.truncated = TRUE]
      BY <1>2, <3>1 DEF Command!Run
    <3>3. x.kept \in 0 .. StreamCap /\ x.kept = StreamCap /\ x.written + n > x.kept
      BY <1>3, <1>4, <2>1, <2>2
    <3>. QED  BY <3>2, <3>3
  <2>3. CASE ~(x.kept >= StreamCap)
    <3>. DEFINE kept == Command!Smaller(x.kept + n, StreamCap)
                truncated == x.truncated \/ n > StreamCap - x.kept
    <3>1. y = [x EXCEPT !.written = x.written + n, !.kept = kept, !.truncated = truncated]
      BY <2>3 DEF Command!Pushed
    <3>2. ~x.truncated /\ x.written = x.kept
      BY <1>3, <1>4, <2>1, <2>3
    <3>3. kept \in 0 .. StreamCap
      BY <1>3, <1>4 DEF Command!Smaller
    <3>4. IF truncated THEN kept = StreamCap /\ x.written + n > kept ELSE x.written + n = kept
      BY <1>3, <1>4, <3>2 DEF Command!Smaller
    <3>5. truncated \in BOOLEAN
      BY <1>4
    <3>. HIDE DEF kept, truncated
    <3>. QED  BY <3>1, <3>3, <3>4, <3>5
  <2>. QED  BY <2>2, <2>3
<1>. HIDE DEF y
<1>6. y \in Command!Run
  BY <1>2, <1>4, <1>5 DEF Command!Run
<1>7. /\ y.kind = x.kind /\ y.stage = x.stage /\ y.proc = x.proc /\ y.got = x.got
      /\ y.minted = x.minted /\ y.left = x.left /\ y.env = x.env /\ y.now = x.now
      /\ y.answer = x.answer /\ y.code = x.code /\ y.why = x.why
      /\ y.written = x.written + n /\ y.kept = kept /\ y.truncated = truncated
  BY <1>2, <1>5 DEF Command!Run
<1>8. Collected(y)
  BY <1>1, <1>7 DEF Sound, Collected
<1>9. InStep(y) /\ Reported(y)
  BY <1>1, <1>5, <1>7 DEF Sound, InStep, Reported
<1>. QED  BY <1>1, <1>6, <1>8, <1>9 DEF Sound

\* The end of a command and what is said of it, or its daemon is gone.
LEMMA EndIsSound ==
  ASSUME RunsInv, Command!SecretRunConstants, NEW r \in Runs,
         \/ \E code \in {0, 1} : Command!Exits(r, code)
         \/ Command!Reports(r) \/ Command!ConnectionLost(r)
  PROVE  \E new : Sound(new) /\ Command!Set(r, new)
<1>. DEFINE x == started[r]
<1>1. Sound(x) /\ x \in Command!Run
  BY DEF RunsInv, Sound
<1>2. ASSUME NEW code \in {0, 1}, Command!Exits(r, code)
      PROVE  \E new : Sound(new) /\ Command!Set(r, new)
  <2>. DEFINE y == [x EXCEPT !.proc = "ended", !.code = code]
  <2>1. x.proc = "running" /\ Command!Set(r, y)
    BY <1>2 DEF Command!Exits
  <2>2. y \in Command!Run
    BY <1>1 DEF Command!Run
  <2>3. /\ y.kind = x.kind /\ y.stage = x.stage /\ y.proc = "ended" /\ y.got = x.got
        /\ y.minted = x.minted /\ y.left = x.left /\ y.env = x.env /\ y.now = x.now
        /\ y.answer = x.answer /\ y.why = x.why
        /\ y.kept = x.kept /\ y.written = x.written /\ y.truncated = x.truncated
    BY <1>1 DEF Command!Run
  <2>. HIDE DEF y
  <2>4. Collected(y) /\ InStep(y) /\ Reported(y)
    BY <1>1, <2>1, <2>3 DEF Sound, Collected, InStep, Reported
  <2>. QED  BY <2>1, <2>2, <2>4 DEF Sound
<1>3. ASSUME NEW y \in Command!Run, y.stage = "done", x.stage = "running", y.kind = x.kind,
             y.proc = x.proc, y.got = x.got, y.env = x.env, y.minted = x.minted
      PROVE  Collected(y) /\ InStep(y)
  BY <1>1, <1>3 DEF Sound, Collected, InStep
<1>4. CASE Command!Reports(r)
  <2>. DEFINE y == [x EXCEPT !.stage = "done", !.answer = "code"]
  <2>1. x.stage = "running" /\ x.proc = "ended" /\ Command!Set(r, y)
    BY <1>4 DEF Command!Reports
  <2>2. y \in Command!Run
    BY <1>1 DEF Command!Run
  <2>3. /\ y.kind = x.kind /\ y.stage = "done" /\ y.proc = x.proc /\ y.got = x.got
        /\ y.minted = x.minted /\ y.env = x.env /\ y.answer = "code"
        /\ y.kept = x.kept /\ y.written = x.written /\ y.truncated = x.truncated
    BY <1>1 DEF Command!Run
  <2>. HIDE DEF y
  <2>4. Reported(y)
    BY <1>1, <2>1, <2>3 DEF Sound, Reported
  <2>. QED  BY <1>3, <2>1, <2>2, <2>3, <2>4 DEF Sound
<1>5. CASE Command!ConnectionLost(r)
  <2>. DEFINE y == [x EXCEPT !.stage = "done", !.why = "lost", !.answer = "failed"]
  <2>1. x.stage = "running" /\ Command!Set(r, y)
    BY <1>5 DEF Command!ConnectionLost, Command!Fails
  <2>2. y \in Command!Run
    BY <1>1 DEF Command!Run
  <2>3. /\ y.kind = x.kind /\ y.stage = "done" /\ y.proc = x.proc /\ y.got = x.got
        /\ y.minted = x.minted /\ y.env = x.env /\ y.answer = "failed" /\ y.why = "lost"
        /\ y.kept = x.kept /\ y.written = x.written /\ y.truncated = x.truncated
    BY <1>1 DEF Command!Run
  <2>. HIDE DEF y
  <2>4. Reported(y)
    BY <1>1, <2>3 DEF Sound, Reported
  <2>. QED  BY <1>3, <2>1, <2>2, <2>3, <2>4 DEF Sound
<1>. QED  BY <1>2, <1>4, <1>5

-----------------------------------------------------------------------------
\* What the server has of an item stays typed when its owner edits or deletes it.
LEMMA EditsAreTyped ==
  ASSUME Command!SecretRunConstants, Command!TypeOK, NEW i \in RunItems,
         \/ \E label \in Labels, fields \in FieldSets : Command!Edit(i, label, fields)
         \/ Command!Delete(i)
  PROVE  itemRows' \in [RunItems -> Command!Row]
<1>1. itemRows[i] \in Command!Row
  BY DEF Command!TypeOK
<1>2. CASE Command!Delete(i)
  <2>1. [itemRows[i] EXCEPT !.there = FALSE] \in Command!Row
    BY <1>1 DEF Command!Row
  <2>. QED  BY <1>2, <2>1 DEF Command!Delete, Command!TypeOK
<1>3. ASSUME NEW label \in Labels, NEW fields \in FieldSets, Command!Edit(i, label, fields)
      PROVE  itemRows' \in [RunItems -> Command!Row]
  <2>. DEFINE edited == [itemRows[i] EXCEPT !.label = label, !.fields = fields,
                                        !.version = itemRows[i].version + 1]
  <2>1. itemRows[i].version + 1 \in 0 .. MaxVersion
    <3>1. itemRows[i].version \in 0 .. MaxVersion
      BY <1>1 DEF Command!Row
    <3>2. itemRows[i].version < MaxVersion
      BY <1>3 DEF Command!Edit
    <3>3. MaxVersion \in Nat
      BY DEF Command!SecretRunConstants
    <3>. QED  BY <3>1, <3>2, <3>3
  <2>2. edited \in Command!Row
    BY <1>1, <2>1 DEF Command!Row
  <2>3. itemRows' = [itemRows EXCEPT ![i] = edited]
    BY <1>3 DEF Command!Edit, Command!TypeOK
  <2>. HIDE DEF edited
  <2>. QED  BY <2>2, <2>3 DEF Command!TypeOK
<1>. QED  BY <1>2, <1>3

\* Whatever happens meanwhile leaves the runs as they are.
Meanwhile ==
  \/ \E r \in Runs, i \in RunItems : Command!LateRedeem(r, i)
  \/ \E h \in handles : Command!HandleExpires(h)
  \/ \E i \in RunItems, label \in Labels, fields \in FieldSets : Command!Edit(i, label, fields)
  \/ \E i \in RunItems : Command!Delete(i) \/ Command!Revoke(i)
  \/ \E new \in [up : BOOLEAN, session : BOOLEAN, unlocked : BOOLEAN] :
       Command!DaemonChanges(new)
  \/ UNCHANGED Command!vars

\* A step moves one run on, soundly, or leaves them all.
LEMMA RunCases ==
  ASSUME RunsInv, Command!SecretRunConstants, [Command!Next]_(Command!vars), ~Meanwhile
  PROVE  /\ \E r \in Runs : \E new : Sound(new) /\ Command!Set(r, new)
         /\ UNCHANGED <<itemRows, granted, machine>>
         /\ handles' \subseteq handles \cup (Runs \X RunItems)
<1>1. ASSUME NEW r \in Runs, Command!Begin(r)
      PROVE  UNCHANGED <<itemRows, granted, machine, handles>>
  BY <1>1 DEF Command!Begin, Command!CliRun, Command!McpRun
<1>2. ASSUME NEW r \in Runs, Command!UseItem(r) \/ Command!UseProfile(r)
      PROVE  /\ UNCHANGED <<itemRows, granted, machine>>
             /\ handles' \subseteq handles \cup (Runs \X RunItems)
  BY <1>2 DEF Command!UseItem, Command!UseProfile, Command!Mints, Command!There
<1>3. ASSUME NEW r \in Runs, NEW i \in RunItems, Command!Redeem(r, i)
      PROVE  UNCHANGED <<itemRows, granted, machine>> /\ handles' \subseteq handles
  BY <1>3 DEF Command!Redeem
<1>4. ASSUME NEW r \in Runs,
             \/ Command!ResolveItem(r) \/ Command!ResolveMcpItem(r) \/ Command!ResolveNext(r)
             \/ Command!DaemonRuns(r) \/ Command!Spawn(r) \/ Command!SpawnFails(r)
             \/ Command!Reports(r) \/ Command!ConnectionLost(r)
             \/ \E n \in Chunks : Command!Writes(r, n)
             \/ \E code \in {0, 1} : Command!Exits(r, code)
      PROVE  UNCHANGED <<itemRows, granted, machine, handles>>
  BY <1>4 DEF Command!ResolveItem, Command!ResolveMcpItem, Command!Resolves, Command!ResolveNext,
              Command!DaemonRuns, Command!Spawn, Command!SpawnFails, Command!Reports,
              Command!ConnectionLost, Command!Writes, Command!Exits
<1>5. PICK r \in Runs :
        \/ Command!Begin(r) \/ Command!UseItem(r) \/ Command!UseProfile(r)
        \/ \E i \in RunItems : Command!Redeem(r, i)
        \/ Command!ResolveItem(r) \/ Command!ResolveMcpItem(r) \/ Command!ResolveNext(r)
        \/ Command!DaemonRuns(r) \/ Command!Spawn(r) \/ Command!SpawnFails(r)
        \/ Command!Reports(r) \/ Command!ConnectionLost(r)
        \/ \E n \in Chunks : Command!Writes(r, n)
        \/ \E code \in {0, 1} : Command!Exits(r, code)
  BY DEF Meanwhile, Command!Next, Command!Step
<1>6. \E new : Sound(new) /\ Command!Set(r, new)
  BY <1>5, BeginIsSound, UseIsSound, RedeemIsSound, ResolveIsSound, ResolveNextIsSound,
     DaemonIsSound, SpawnIsSound, WritesIsSound, EndIsSound
<1>. QED  BY <1>1, <1>2, <1>3, <1>4, <1>5, <1>6

\* The invariant of the runs.
LEMMA RunsInvariance ==
  ASSUME Command!SecretRunConstants
  PROVE  Command!Spec => []RunsInv
<1>1. Command!Init => RunsInv
  <2>. SUFFICES ASSUME Command!Init PROVE RunsInv
    OBVIOUS
  <2>1. itemRows \in [RunItems -> Command!Row]
    <3>1. [label : Labels, fields : FieldSets, version : {0}, there : {TRUE}] \subseteq Command!Row
      <4>1. 0 \in 0 .. MaxVersion
        BY DEF Command!SecretRunConstants
      <4>. QED  BY <4>1 DEF Command!Row
    <3>. QED  BY <3>1 DEF Command!Init
  <2>2. machine \in [up : BOOLEAN, session : BOOLEAN, unlocked : BOOLEAN]
    <3>1. [up : {TRUE}, session : {TRUE}, unlocked : BOOLEAN]
          \subseteq [up : BOOLEAN, session : BOOLEAN, unlocked : BOOLEAN]
      OBVIOUS
    <3>. QED  BY <3>1 DEF Command!Init
  <2>3. Sound(Command!Idle)
    <3>1. Collected(Command!Idle) /\ InStep(Command!Idle)
      BY IdleRun DEF Collected, InStep
    <3>2. Reported(Command!Idle)
      BY IdleRun DEF Reported, Command!SecretRunConstants
    <3>. QED  BY IdleRun, <3>1, <3>2 DEF Sound
  <2>. QED  BY <2>1, <2>2, <2>3, IdleRun DEF Command!Init, RunsInv, Command!TypeOK
<1>2. RunsInv /\ [Command!Next]_(Command!vars) => RunsInv'
  <2>. SUFFICES ASSUME RunsInv, [Command!Next]_(Command!vars) PROVE RunsInv'
    OBVIOUS
  <2>1. CASE Meanwhile
    <3>1. started' = started
      BY <2>1 DEF Meanwhile, Command!LateRedeem, Command!HandleExpires, Command!Edit,
                  Command!Delete, Command!Revoke, Command!DaemonChanges, Command!vars
    <3>2. itemRows' \in [RunItems -> Command!Row]
      <4>1. CASE itemRows' = itemRows
        BY <4>1 DEF RunsInv, Command!TypeOK
      <4>2. CASE itemRows' # itemRows
        BY <2>1, <4>2, EditsAreTyped
        DEF Meanwhile, RunsInv, Command!LateRedeem, Command!HandleExpires, Command!Revoke,
            Command!DaemonChanges, Command!vars
      <4>. QED  BY <4>1, <4>2
    <3>3. /\ granted' \subseteq RunItems /\ handles' \subseteq Runs \X RunItems
          /\ machine' \in [up : BOOLEAN, session : BOOLEAN, unlocked : BOOLEAN]
      BY <2>1 DEF Meanwhile, RunsInv, Command!TypeOK, Command!LateRedeem, Command!HandleExpires,
                  Command!Edit, Command!Delete, Command!Revoke, Command!DaemonChanges,
                  Command!vars
    <3>. QED  BY <3>1, <3>2, <3>3 DEF RunsInv, Command!TypeOK, Sound, Collected, InStep, Reported
  <2>2. CASE ~Meanwhile
    <3>0. PICK r \in Runs : \E new : Sound(new) /\ Command!Set(r, new)
      BY <2>2, RunCases
    <3>1. PICK new : Sound(new) /\ Command!Set(r, new)
      BY <3>0
    <3>2. started' = [started EXCEPT ![r] = new] /\ new \in Command!Run
      BY <3>1 DEF Command!Set, Sound
    <3>3. started' \in [Runs -> Command!Run] /\ \A q \in Runs : Sound(started'[q])
      BY <3>1, <3>2 DEF RunsInv, Command!TypeOK
    <3>4. Command!TypeOK'
      BY <2>2, <3>3, RunCases DEF RunsInv, Command!TypeOK
    <3>. QED  BY <3>3, <3>4 DEF RunsInv, Sound, Collected, InStep, Reported
  <2>. QED  BY <2>1, <2>2
<1>. QED  BY <1>1, <1>2, PTL DEF Command!Spec

\* Whatever is edited, deleted or revoked meanwhile and in whatever order the answers come, a
\* command of abadge run --all or of run_with_all_secrets starts only with every item that
\* its run asked for (cli/src/commands/run.ts, mcp/src/tools/run-with-all-secrets.ts).
THEOREM RunsHaveAll == Command!Spec => []RunsWithAll
<1>1. RunsInv => RunsWithAll
  BY DEF RunsInv, Sound, Collected, Fits, ItemsOf, RunsWithAll, Command!RunsWithAll
<1>. QED  BY <1>1, RunsInvariance, RunConstants, PTL

\* What a run says of its command is so: its code, that it was not started, that output was
\* dropped (mcp/src/tools/run-with-secret.ts, cli/src/commands/run.ts).
THEOREM ReportsAreTrue == Command!Spec => []ReportIsTrue
<1>1. RunsInv => ReportIsTrue
  <2>. SUFFICES ASSUME RunsInv, NEW r \in Runs
                PROVE  /\ started[r].answer = "code" =>
                            \/ started[r].proc = "ended"
                            \/ /\ started[r].proc = "none" /\ started[r].kind \in Command!Mcp
                               /\ started[r].code = 1
                       /\ started[r].answer = "failed" /\ started[r].proc # "none" =>
                            started[r].why = "lost"
                       /\ started[r].truncated <=> started[r].written > started[r].kept
    BY DEF ReportIsTrue, Command!ReportIsTrue
  <2>1. started[r] \in Command!Run /\ Reported(started[r])
    BY DEF RunsInv, Sound
  <2>2. started[r].written \in Nat /\ started[r].kept \in Nat /\ started[r].truncated \in BOOLEAN
    <3>1. /\ started[r].written \in 0 .. MaxOutput /\ started[r].kept \in 0 .. StreamCap
          /\ started[r].truncated \in BOOLEAN
      BY <2>1 DEF Command!Run
    <3>. QED  BY <3>1 DEF Command!SecretRunConstants
  <2>. QED  BY <2>1, <2>2 DEF Reported
<1>. QED  BY <1>1, RunsInvariance, RunConstants, PTL
=============================================================================
