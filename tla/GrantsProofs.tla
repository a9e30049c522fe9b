----------------------------- MODULE GrantsProofs -----------------------------
(***************************************************************************)
(* Proofs about Grants for any number of calls, agents, items, profiles    *)
(* and capabilities in a batch.                                            *)
(*                                                                         *)
(* CallsInv is inductive for the procedures and the two tables.  What a    *)
(* transaction has inserted and what it has left are together its batch    *)
(* (Building), what it has deleted is what the revocation is about         *)
(* (Deleting), and the rows of the log come from calls that are answered   *)
(* (CreatedBy), so that none is created or revived behind a revocation.    *)
(* Exclusive extends OneRowEach to what is not committed yet.  PanelInv is *)
(* inductive for the panel: the dialog asks about what is selected.        *)
(***************************************************************************)
EXTENDS Grants, SequenceTheorems, TLAPS

Batch(r) == {<<r, c>> : c \in ToSet(call[r].caps)}
Pending(r) == {<<r, c>> : c \in ToSet(left[r])}

Placed(r) ==
  /\ call[r].kind = "none" <=> stage[r] = "unsent"
  /\ stage[r] \in {"agent", "target", "existing", "insert"} => call[r].kind = "create"
  /\ stage[r] \in {"read", "delete"} => call[r].kind = "revoke"

Building(r) ==
  call[r].kind = "create" /\ Open(r) =>
    /\ rows[r] \cup Pending(r) = Batch(r)
    /\ stage[r] = "commit" => left[r] = <<>>

\* A transaction has rows of its own while it is open.
Clean(r) ==
  /\ rows[r] # {} => call[r].kind = "create" /\ Open(r)
  /\ gone[r] # {} => call[r].kind = "revoke" /\ stage[r] = "commit"

Deleting(r) ==
  call[r].kind = "revoke" =>
    /\ call[r].id \in Created
    /\ stage[r] = "commit" => gone[r] \subseteq {call[r].id} /\ {call[r].id} \cap live \subseteq gone[r]

Landed(r) == call[r].kind = "create" /\ stage[r] = "ok" => Batch(r) \subseteq Created

CreatedBy ==
  \A id \in Created :
    call[id[1]].kind = "create" /\ stage[id[1]] = "ok" /\ id \in Batch(id[1])

RevokedWereCreated == Revoked \subseteq Created

Rows == live \cup UNION {rows[r] : r \in Requests}
Exclusive == \A x, y \in Rows : Triple(x) = Triple(y) => x = y

CallsInv ==
  /\ TypeOK
  /\ \A r \in Requests : Placed(r) /\ Building(r) /\ Clean(r) /\ Deleting(r) /\ Landed(r)
  /\ CreatedBy
  /\ RevokedWereCreated
  /\ LogTellsGrants
  /\ Exclusive

ItemsSelected == form.type = "item" => form.target \in Items \cup {None}
DialogIsTrue == confirm # None => confirm = Input

PanelInv ==
  /\ TypeOK
  /\ ItemsSelected
  /\ DialogIsTrue
  /\ ReadIsConfirmed

-----------------------------------------------------------------------------
(* Sequences of capabilities *)

LEMMA ToSetTail ==
  ASSUME NEW S, NEW s \in Seq(S), s # <<>>
  PROVE  /\ Head(s) \in S /\ Tail(s) \in Seq(S)
         /\ ToSet(s) = {Head(s)} \cup ToSet(Tail(s))
<1>1. Len(s) \in Nat /\ Len(s) # 0 /\ DOMAIN s = 1..Len(s)
  BY EmptySeq
<1>2. Head(s) = s[1] /\ 1 \in DOMAIN s
  BY <1>1
<1>3. Head(s) \in S /\ Tail(s) \in Seq(S) /\ Len(Tail(s)) = Len(s) - 1
  BY HeadTailProperties
<1>4. \A i \in 1..(Len(s) - 1) : Tail(s)[i] = s[i + 1]
  BY <1>3, HeadTailProperties
<1>5. DOMAIN Tail(s) = 1..(Len(s) - 1)
  BY <1>3
<1>6. ASSUME NEW i \in DOMAIN s, i # 1 PROVE s[i] \in ToSet(Tail(s))
  <2>1. i - 1 \in DOMAIN Tail(s) /\ Tail(s)[i - 1] = s[i]
    BY <1>1, <1>4, <1>5, <1>6
  <2>. QED  BY <2>1 DEF ToSet
<1>7. ASSUME NEW i \in DOMAIN Tail(s) PROVE Tail(s)[i] \in ToSet(s)
  <2>1. i + 1 \in DOMAIN s /\ Tail(s)[i] = s[i + 1]
    BY <1>1, <1>4, <1>5, <1>7
  <2>. QED  BY <2>1 DEF ToSet
<1>. QED  BY <1>2, <1>3, <1>6, <1>7 DEF ToSet

\* What is sent is what was selected, in some order.
LEMMA OrderedIsAll ==
  ASSUME NEW caps \in SUBSET Canonical
  PROVE  Ordered(caps) \in Seq(Capabilities) /\ ToSet(Ordered(caps)) = caps
<1>1. /\ ToSet(<<"read", "use">>) = {"read", "use"}
      /\ ToSet(<<"read">>) = {"read"} /\ ToSet(<<"use">>) = {"use"}
  BY DEF ToSet
<1>2. ToSet(<<>>) = {}
  BY DEF ToSet
<1>3. caps \in {{}, {"read"}, {"use"}, {"read", "use"}}
  BY DEF Canonical
<1>4. ToSet(Ordered(caps)) = caps
  BY <1>1, <1>2, <1>3 DEF Ordered, Canonical
<1>5. Ordered(caps) \in Seq(Capabilities)
  <2>1. "read" \in Capabilities /\ "use" \in Capabilities
    BY DEF Capabilities, Canonical
  <2>2. /\ <<"read", "use">> \in Seq(Capabilities) /\ <<>> \in Seq(Capabilities)
        /\ <<"read">> \in Seq(Capabilities) /\ <<"use">> \in Seq(Capabilities)
    BY <2>1
  <2>. QED  BY <2>2 DEF Ordered
<1>. QED  BY <1>4, <1>5

-----------------------------------------------------------------------------
(* What the steps do to the calls *)

NextStage ==
  {<<"agent", "target">>, <<"target", "existing">>, <<"existing", "insert">>,
   <<"read", "delete">>, <<"insert", "commit">>}

Moves(r) ==
  /\ UNCHANGED <<live, log, call>>
  /\ \E s \in Stages : /\ Goto(r, s) /\ <<stage[r], s>> \in NextStage
                       /\ s = "commit" => left[r] = <<>>
Fails(r) == UNCHANGED <<live, log, call>> /\ Refuses(r) /\ Open(r)
Places(r) ==
  /\ UNCHANGED <<live, log, call>>
  /\ stage[r] = "insert" /\ left[r] # <<>> /\ ~Taken(r)
  /\ \A q \in Requests : ~WaitsFor(r, q)
  /\ Inserts(r, {NextId(r)})
Deletes(r) == UNCHANGED <<live, log, call>> /\ DeletePermission(r)
Begins(r) ==
  /\ UNCHANGED <<live, log>>
  /\ \/ \E a \in Someone, t \in Something, caps \in Seq(Capabilities),
             asked \in (Someone \X Something) \cup {None}, p \in BOOLEAN :
          Starts(r, CreateOf(a, t, caps, asked, p), "agent")
     \/ \E id \in Created : Starts(r, RevokeOf(id), "read")
Idle == UNCHANGED <<live, log, calls>>

\* A step of the server moves its transaction, ends it without effect, inserts, deletes or
\* commits.
LEMMA ServerCases ==
  ASSUME NEW r \in Requests, Server(r)
  PROVE  Moves(r) \/ Fails(r) \/ Places(r) \/ Deletes(r) \/ Commit(r)
<1>. USE DEF Moves, Fails, NextStage, Stages, Open
<1>1. CASE LoadAgent(r)
  BY <1>1 DEF LoadAgent
<1>2. CASE LoadTarget(r)
  BY <1>2 DEF LoadTarget
<1>3. CASE FindExisting(r)
  BY <1>3 DEF FindExisting
<1>4. CASE Insert(r)
  BY <1>4 DEF Insert, Places
<1>5. CASE ReadPermission(r)
  BY <1>5 DEF ReadPermission
<1>6. CASE DeletePermission(r)
  BY <1>6 DEF DeletePermission, Deletes
<1>7. CASE DeadlockVictim(r)
  BY <1>7 DEF DeadlockVictim, WaitsFor
<1>8. CASE Crash(r)
  BY <1>8 DEF Crash
<1>. QED  BY <1>1, <1>2, <1>3, <1>4, <1>5, <1>6, <1>7, <1>8 DEF Server

\* What the person at the panel does sends no call, or begins one.
LEMMA PersonCases ==
  ASSUME TypeOK, Person
  PROVE  Idle \/ \E r \in Requests : Begins(r)
<1>. USE DEF Idle
<1>1. CASE OpenPanel \/ ClosePanel \/ CancelDialog
  BY <1>1 DEF OpenPanel, ClosePanel, CancelDialog
<1>2. ASSUME NEW type, ChooseType(type) PROVE Idle
  BY <1>2 DEF ChooseType
<1>3. ASSUME NEW a, ChooseAgent(a) PROVE Idle
  BY <1>3 DEF ChooseAgent
<1>4. ASSUME NEW t, ChooseTarget(t) PROVE Idle
  BY <1>4 DEF ChooseTarget
<1>5. ASSUME NEW c, Toggle(c) PROVE Idle
  BY <1>5 DEF Toggle
<1>6. ASSUME NEW r \in Requests, Submit(r) PROVE Idle \/ Begins(r)
  <2>1. CASE Asks
    BY <1>6, <2>1 DEF Submit, Asks
  <2>2. CASE Sends(r, Input, None)
    <3>1. /\ form.agent \in Someone /\ form.target \in Something
          /\ form.caps \in SUBSET Canonical
      BY DEF TypeOK, Form
    <3>2. Ordered(form.caps) \in Seq(Capabilities)
      BY <3>1, OrderedIsAll
    <3>3. Starts(r, CreateOf(form.agent, form.target, Ordered(form.caps), None, TRUE), "agent")
      BY <2>2 DEF Sends, Input
    <3>. QED  BY <1>6, <3>1, <3>2, <3>3 DEF Begins, Submit
  <2>. QED  BY <1>6, <2>1, <2>2 DEF Submit
<1>7. ASSUME NEW r \in Requests, GrantAnyway(r) PROVE Begins(r)
  <2>1. confirm \in Confirm
    BY <1>7 DEF GrantAnyway, TypeOK
  <2>2. /\ confirm.agent \in Someone /\ confirm.target \in Something
        /\ Ordered(confirm.caps) \in Seq(Capabilities)
        /\ <<form.agent, form.target>> \in Someone \X Something
    BY <2>1, OrderedIsAll DEF Confirm, TypeOK, Form
  <2>3. Starts(r, CreateOf(confirm.agent, confirm.target, Ordered(confirm.caps),
                           <<form.agent, form.target>>, TRUE), "agent")
    BY <1>7 DEF GrantAnyway, Sends
  <2>. QED  BY <1>7, <2>2, <2>3 DEF Begins, GrantAnyway
<1>. QED  BY <1>1, <1>2, <1>3, <1>4, <1>5, <1>6, <1>7 DEF Person

\* Every step is one call's, or leaves the calls and the tables alone.
LEMMA CallCases ==
  ASSUME TypeOK, [Next]_vars
  PROVE  \/ Idle
         \/ \E r \in Requests :
              Moves(r) \/ Fails(r) \/ Places(r) \/ Deletes(r) \/ Commit(r) \/ Begins(r)
<1>1. CASE UNCHANGED vars
  BY <1>1 DEF vars, Idle
<1>2. ASSUME NEW r \in Requests, NEW a \in Agents, NEW t \in Targets, NEW caps \in Batches,
             CliCreates(r, a, t, caps)
      PROVE  Begins(r)
  <2>1. a \in Someone /\ t \in Something /\ caps \in Seq(Capabilities)
    BY BatchesAreLists DEF Someone, Something
  <2>. QED  BY <1>2, <2>1 DEF CliCreates, Begins
<1>3. ASSUME NEW r \in Requests, NEW id \in Ids, Revokes(r, id) PROVE Begins(r)
  BY <1>3 DEF Revokes, Begins
<1>4. ASSUME NEW i \in Items, CreateItem(i) PROVE Idle
  BY <1>4 DEF CreateItem, Idle
<1>5. CASE ListsArrive \/ PairArrives \/ Granted \/ NotGranted
  BY <1>5 DEF ListsArrive, PairArrives, Granted, NotGranted, Idle
<1>. QED  BY <1>1, <1>2, <1>3, <1>4, <1>5, ServerCases, PersonCases DEF Next

-----------------------------------------------------------------------------
(* Types *)

LEMMA NextIdTyped ==
  ASSUME TypeOK, NEW r \in Requests, left[r] # <<>>
  PROVE  /\ NextId(r) \in Ids /\ Tail(left[r]) \in Seq(Capabilities)
         /\ Pending(r) = {NextId(r)} \cup {<<r, c>> : c \in ToSet(Tail(left[r]))}
<1>1. left[r] \in Seq(Capabilities)
  BY DEF TypeOK
<1>. QED  BY <1>1, ToSetTail DEF NextId, Ids, Pending

\* What a commit makes of the tables.
Creates(r) ==
  /\ call[r].kind = "create" /\ rows[r] = Batch(r)
  /\ live' = live \cup rows[r]
  /\ Created' = Created \cup rows[r] /\ Revoked' = Revoked
Withdraws(r) ==
  /\ call[r].kind = "revoke" /\ call[r].id \in Created
  /\ live' = live \ {call[r].id}
  /\ Created' = Created /\ Revoked' = Revoked \cup {call[r].id}

\* A COMMIT makes a batch, or a revocation, visible together with its rows of the log.
LEMMA CommitCases ==
  ASSUME CallsInv, NEW r \in Requests, Commit(r)
  PROVE  /\ stage[r] = "commit" /\ Ends(r, "ok") /\ UNCHANGED call
         /\ Creates(r) \/ Withdraws(r)
         /\ log' \subseteq [event : {"create", "revoke"}, id : Ids, by : Requests]
<1>. USE DEF CallsInv
<1>1. stage[r] = "commit" /\ Ends(r, "ok") /\ UNCHANGED call /\ Open(r)
  BY DEF Commit, Open
<1>2. CASE call[r].kind = "create"
  <2>1. gone[r] = {}
    BY <1>2 DEF Clean
  <2>2. left[r] = <<>> /\ ToSet(<<>>) = {}
    BY <1>1, <1>2 DEF Building, ToSet
  <2>3. rows[r] = Batch(r)
    BY <1>1, <1>2, <2>2 DEF Building, Pending
  <2>4. live' = live \cup rows[r]
    BY <2>1 DEF Commit
  <2>5. log' = log \cup [event : {"create"}, id : rows[r], by : {r}]
    BY <1>2 DEF Commit
  <2>6. Created' = Created \cup rows[r]
    <3>. DEFINE new == [event : {"create"}, id : rows[r], by : {r}]
    <3>1. \A l \in new : l.event = "create" /\ l.id \in rows[r]
      OBVIOUS
    <3>2. ASSUME NEW x \in rows[r] PROVE \E l \in new : l.event = "create" /\ l.id = x
      <4>1. [event |-> "create", id |-> x, by |-> r] \in new
        OBVIOUS
      <4>. QED  BY <4>1
    <3>. HIDE DEF new
    <3>3. log' = log \cup new
      BY <2>5 DEF new
    <3>. QED  BY <3>1, <3>2, <3>3 DEF Created
  <2>7. Revoked' = Revoked
    BY <2>5 DEF Revoked
  <2>8. rows[r] \subseteq Ids
    BY DEF TypeOK
  <2>. QED  BY <1>1, <1>2, <2>3, <2>4, <2>5, <2>6, <2>7, <2>8 DEF Creates, TypeOK
<1>3. CASE call[r].kind # "create"
  <2>1. call[r].kind = "revoke"
    BY <1>1, <1>3 DEF Placed, TypeOK, Call
  <2>2. rows[r] = {} /\ gone[r] \subseteq {call[r].id} /\ {call[r].id} \cap live \subseteq gone[r]
        /\ call[r].id \in Created
    BY <1>1, <2>1 DEF Clean, Deleting
  <2>3. live' = live \ {call[r].id}
    BY <2>2 DEF Commit
  <2>4. log' = log \cup {[event |-> "revoke", id |-> call[r].id, by |-> r]}
    BY <1>3 DEF Commit
  <2>5. Created' = Created
    BY <2>4 DEF Created
  <2>6. Revoked' = Revoked \cup {call[r].id}
    <3>. DEFINE new == [event |-> "revoke", id |-> call[r].id, by |-> r]
    <3>1. new.event = "revoke" /\ new.id = call[r].id
      OBVIOUS
    <3>. HIDE DEF new
    <3>2. log' = log \cup {new}
      BY <2>4 DEF new
    <3>. QED  BY <3>1, <3>2 DEF Revoked
  <2>7. call[r].id \in Ids
    BY <2>2 DEF Created, TypeOK
  <2>. QED  BY <1>1, <2>1, <2>2, <2>3, <2>4, <2>5, <2>6, <2>7 DEF Withdraws, TypeOK
<1>. QED  BY <1>2, <1>3

\* Every step keeps the type of the variables of the calls.
LEMMA CallTypes ==
  ASSUME CallsInv, [Next]_vars
  PROVE  /\ live' \subseteq Ids
         /\ log' \subseteq [event : {"create", "revoke"}, id : Ids, by : Requests]
         /\ call' \in [Requests -> Call] /\ stage' \in [Requests -> Stages]
         /\ left' \in [Requests -> Seq(Capabilities)]
         /\ rows' \in [Requests -> SUBSET Ids] /\ gone' \in [Requests -> SUBSET Ids]
<1>. TypeOK
  BY DEF CallsInv
<1>. USE DEF TypeOK
<1>1. CASE Idle
  BY <1>1 DEF Idle, calls
<1>2. ASSUME NEW r \in Requests, Moves(r)
      PROVE  stage' \in [Requests -> Stages] /\ UNCHANGED <<live, log, call, left, rows, gone>>
  BY <1>2 DEF Moves, Goto
<1>3. ASSUME NEW r \in Requests, NEW s \in Stages, Ends(r, s)
      PROVE  /\ stage' \in [Requests -> Stages] /\ left' = left
             /\ rows' \in [Requests -> SUBSET Ids] /\ gone' \in [Requests -> SUBSET Ids]
  BY <1>3 DEF Ends
<1>4. "refused" \in Stages /\ "ok" \in Stages /\ "agent" \in Stages /\ "read" \in Stages
      /\ "commit" \in Stages
  BY DEF Stages
<1>5. ASSUME NEW r \in Requests, Places(r)
      PROVE  /\ left' \in [Requests -> Seq(Capabilities)] /\ rows' \in [Requests -> SUBSET Ids]
             /\ UNCHANGED <<live, log, call, stage, gone>>
  BY <1>5, NextIdTyped DEF Places, Inserts
<1>6. ASSUME NEW r \in Requests, Deletes(r)
      PROVE  /\ gone' \in [Requests -> SUBSET Ids] /\ stage' \in [Requests -> Stages]
             /\ UNCHANGED <<live, log, call, left, rows>>
  BY <1>4, <1>6 DEF Deletes, DeletePermission
<1>7. ASSUME NEW r \in Requests, Commit(r)
      PROVE  /\ live' \subseteq Ids
             /\ log' \subseteq [event : {"create", "revoke"}, id : Ids, by : Requests]
             /\ Ends(r, "ok") /\ UNCHANGED call
  <2>1. rows[r] \subseteq Ids
    OBVIOUS
  <2>. QED  BY <1>7, <2>1, CommitCases DEF Creates, Withdraws
<1>8. ASSUME NEW r \in Requests, Begins(r)
      PROVE  /\ call' \in [Requests -> Call] /\ stage' \in [Requests -> Stages]
             /\ left' \in [Requests -> Seq(Capabilities)]
             /\ UNCHANGED <<live, log, rows, gone>>
  <2>1. ASSUME NEW c \in Call, NEW first \in Stages, Starts(r, c, first)
        PROVE  /\ call' \in [Requests -> Call] /\ stage' \in [Requests -> Stages]
               /\ left' \in [Requests -> Seq(Capabilities)] /\ UNCHANGED <<rows, gone>>
    <3>1. c.caps \in Seq(Capabilities)
      BY DEF Call
    <3>. QED  BY <2>1, <3>1 DEF Starts
  <2>2. ASSUME NEW a \in Someone, NEW t \in Something, NEW caps \in Seq(Capabilities),
               NEW asked \in (Someone \X Something) \cup {None}, NEW p \in BOOLEAN
        PROVE  CreateOf(a, t, caps, asked, p) \in Call
    BY DEF CreateOf, Call
  <2>3. ASSUME NEW id \in Ids PROVE RevokeOf(id) \in Call
    BY DEF RevokeOf, Call, Someone, Something
  <2>4. Created \subseteq Ids
    BY DEF Created
  <2>. QED  BY <1>4, <1>8, <2>1, <2>2, <2>3, <2>4 DEF Begins
<1>. QED
  BY <1>1, <1>2, <1>3, <1>4, <1>5, <1>6, <1>7, <1>8, CallCases DEF Fails, Refuses

-----------------------------------------------------------------------------
(* The calls and the tables *)

\* Nothing is uncreated, and what is answered stays so.
LEMMA Grows ==
  ASSUME CallsInv, [Next]_vars
  PROVE  /\ Created \subseteq Created'
         /\ \A r \in Requests : stage[r] # "unsent" => call'[r] = call[r]
         /\ \A r \in Requests : stage[r] \in {"ok", "refused"} => stage'[r] = stage[r]
<1>. TypeOK
  BY DEF CallsInv
<1>1. CASE Idle
  BY <1>1 DEF Idle, calls, Created
<1>2. ASSUME NEW q \in Requests, Moves(q) \/ Fails(q) \/ Places(q) \/ Deletes(q)
      PROVE  /\ Created' = Created /\ call' = call
             /\ \A r \in Requests : stage[r] \in {"ok", "refused"} => stage'[r] = stage[r]
  BY <1>2
  DEF Moves, Fails, Places, Deletes, Created, Goto, Refuses, Ends, Inserts, DeletePermission,
      NextStage, Open, TypeOK
<1>3. ASSUME NEW q \in Requests, Commit(q)
      PROVE  /\ Created \subseteq Created' /\ call' = call
             /\ \A r \in Requests : stage[r] \in {"ok", "refused"} => stage'[r] = stage[r]
  BY <1>3, CommitCases DEF Creates, Withdraws, Ends, TypeOK
<1>4. ASSUME NEW q \in Requests, Begins(q)
      PROVE  /\ Created' = Created
             /\ \A r \in Requests : stage[r] # "unsent" => call'[r] = call[r]
             /\ \A r \in Requests : stage[r] \in {"ok", "refused"} => stage'[r] = stage[r]
  BY <1>4 DEF Begins, Starts, Created, TypeOK
<1>. QED  BY <1>1, <1>2, <1>3, <1>4, CallCases

\* The rows of a transaction are its own.
LEMMA OwnRows ==
  ASSUME CallsInv, NEW r \in Requests
  PROVE  rows[r] \subseteq Batch(r)
BY DEF CallsInv, Clean, Building

\* Every call stays with what its stage calls for.
LEMMA PlacedStep ==
  ASSUME CallsInv, [Next]_vars, NEW s \in Requests
  PROVE  Placed(s)'
<1>. TypeOK /\ Placed(s)
  BY DEF CallsInv
<1>. USE DEF TypeOK, Placed
<1>1. CASE Idle
  BY <1>1 DEF Idle, calls
<1>2. ASSUME NEW r \in Requests, Moves(r) PROVE Placed(s)'
  BY <1>2 DEF Moves, Goto, NextStage
<1>3. ASSUME NEW r \in Requests, Fails(r) PROVE Placed(s)'
  BY <1>3 DEF Fails, Refuses, Ends, Open
<1>4. ASSUME NEW r \in Requests, Places(r) PROVE Placed(s)'
  BY <1>4 DEF Places, Inserts
<1>5. ASSUME NEW r \in Requests, Deletes(r) PROVE Placed(s)'
  BY <1>5 DEF Deletes, DeletePermission
<1>6. ASSUME NEW r \in Requests, Commit(r) PROVE Placed(s)'
  BY <1>6, CommitCases DEF Ends
<1>7. ASSUME NEW r \in Requests, Begins(r) PROVE Placed(s)'
  BY <1>7 DEF Begins, Starts, CreateOf, RevokeOf
<1>. QED  BY <1>1, <1>2, <1>3, <1>4, <1>5, <1>6, <1>7, CallCases

\* What a transaction has inserted, and what it has left, stay its batch.
LEMMA BuildingStep ==
  ASSUME CallsInv, [Next]_vars, NEW s \in Requests
  PROVE  Building(s)'
<1>. TypeOK /\ Placed(s) /\ Building(s) /\ Clean(s)
  BY DEF CallsInv
<1>1. ASSUME call'[s] = call[s], rows'[s] = rows[s], left'[s] = left[s],
             Open(s)' => Open(s), stage'[s] = "commit" => stage[s] = "commit" \/ left[s] = <<>>
      PROVE  Building(s)'
  BY <1>1 DEF Building, Pending, Batch
<1>2. ASSUME stage'[s] \in {"ok", "refused"} PROVE Building(s)'
  BY <1>2 DEF Building, Open
<1>3. CASE Idle
  BY <1>1, <1>3 DEF Idle, calls, Open
<1>4. ASSUME NEW r \in Requests, Moves(r) PROVE Building(s)'
  BY <1>1, <1>4 DEF Moves, Goto, NextStage, Open, TypeOK
<1>5. ASSUME NEW r \in Requests, call' = call, Ends(r, "ok") \/ Ends(r, "refused")
      PROVE  Building(s)'
  <2>1. CASE r = s
    BY <1>2, <1>5, <2>1 DEF Ends, TypeOK
  <2>2. CASE r # s
    BY <1>1, <1>5, <2>2 DEF Ends, Open, TypeOK
  <2>. QED  BY <2>1, <2>2
<1>6. ASSUME NEW r \in Requests, Places(r) PROVE Building(s)'
  <2>1. CASE r = s
    \* The first capability that is left becomes a row.
    <3>1. /\ rows'[s] = rows[s] \cup {NextId(s)} /\ left'[s] = Tail(left[s])
          /\ UNCHANGED <<call, stage>> /\ stage[s] = "insert" /\ left[s] # <<>>
      BY <1>6, <2>1 DEF Places, Inserts, TypeOK
    <3>2. Pending(s) = {NextId(s)} \cup Pending(s)'
      BY <3>1, NextIdTyped DEF Pending
    <3>3. rows'[s] \cup Pending(s)' = rows[s] \cup Pending(s)
      BY <3>1, <3>2
    <3>. QED  BY <3>1, <3>3 DEF Building, Batch, Open
  <2>2. CASE r # s
    BY <1>1, <1>6, <2>2 DEF Places, Inserts, Open, TypeOK
  <2>. QED  BY <2>1, <2>2
<1>7. ASSUME NEW r \in Requests, Deletes(r) PROVE Building(s)'
  <2>1. CASE r = s
    <3>1. call'[s].kind = "revoke"
      BY <1>7, <2>1 DEF Deletes, DeletePermission, Placed
    <3>. QED  BY <3>1 DEF Building
  <2>2. CASE r # s
    BY <1>1, <1>7, <2>2 DEF Deletes, DeletePermission, Open, TypeOK
  <2>. QED  BY <2>1, <2>2
<1>8. ASSUME NEW r \in Requests, Begins(r) PROVE Building(s)'
  <2>1. CASE r = s
    <3>1. ASSUME NEW c, Starts(r, c, "agent"), c.kind = "create" PROVE Building(s)'
      <4>1. /\ call'[s] = c /\ left'[s] = c.caps /\ stage'[s] = "agent" /\ rows'[s] = rows[s]
            /\ stage[s] = "unsent"
        BY <2>1, <3>1 DEF Starts, TypeOK
      <4>2. rows[s] = {}
        BY <4>1 DEF Clean, Open
      <4>. QED  BY <4>1, <4>2 DEF Building, Batch, Pending
    <3>2. ASSUME NEW id, Starts(r, RevokeOf(id), "read") PROVE Building(s)'
      BY <2>1, <3>2 DEF Starts, Building, RevokeOf, TypeOK
    <3>. QED  BY <1>8, <3>1, <3>2 DEF Begins, CreateOf
  <2>2. CASE r # s
    BY <1>1, <1>8, <2>2 DEF Begins, Starts, Open, TypeOK
  <2>. QED  BY <2>1, <2>2
<1>. QED  BY <1>3, <1>4, <1>5, <1>6, <1>7, <1>8, CallCases, CommitCases DEF Fails, Refuses

\* A transaction has rows of its own only while it is open.
LEMMA CleanStep ==
  ASSUME CallsInv, [Next]_vars, NEW s \in Requests
  PROVE  Clean(s)'
<1>. TypeOK /\ Placed(s) /\ Clean(s)
  BY DEF CallsInv
<1>. USE DEF TypeOK
<1>1. ASSUME UNCHANGED <<call[s], stage[s], rows[s], gone[s]>> PROVE Clean(s)'
  BY <1>1 DEF Clean, Open
<1>2. CASE Idle
  BY <1>1, <1>2 DEF Idle, calls
<1>3. ASSUME NEW r \in Requests, Moves(r) PROVE Clean(s)'
  BY <1>3 DEF Moves, Goto, NextStage, Clean, Open
<1>4. ASSUME NEW r \in Requests, call' = call, Ends(r, "ok") \/ Ends(r, "refused")
      PROVE  Clean(s)'
  <2>1. CASE r = s
    BY <1>4, <2>1 DEF Ends, Clean
  <2>2. CASE r # s
    BY <1>1, <1>4, <2>2 DEF Ends
  <2>. QED  BY <2>1, <2>2
<1>5. ASSUME NEW r \in Requests, Places(r) PROVE Clean(s)'
  BY <1>5 DEF Places, Inserts, Clean, Open, Placed
<1>6. ASSUME NEW r \in Requests, Deletes(r) PROVE Clean(s)'
  BY <1>6 DEF Deletes, DeletePermission, Clean, Open, Placed
<1>7. ASSUME NEW r \in Requests, Begins(r) PROVE Clean(s)'
  BY <1>7 DEF Begins, Starts, Clean, Open
<1>. QED  BY <1>2, <1>3, <1>4, <1>5, <1>6, <1>7, CallCases, CommitCases DEF Fails, Refuses

\* A row that is created was named by its call, which is answered: it is not made again.
LEMMA CreatedOnce ==
  ASSUME CallsInv, NEW r \in Requests, Open(r)
  PROVE  rows[r] \cap Created = {}
<1>1. \A id \in rows[r] : id[1] = r
  BY OwnRows DEF Batch
<1>2. stage[r] # "ok"
  BY DEF Open
<1>. QED  BY <1>1, <1>2 DEF CallsInv, CreatedBy

\* What a revocation has deleted stays what it is about.
LEMMA DeletingStep ==
  ASSUME CallsInv, [Next]_vars, NEW s \in Requests
  PROVE  Deleting(s)'
<1>. TypeOK /\ Placed(s) /\ Deleting(s)
  BY DEF CallsInv
<1>. USE DEF TypeOK
<1>1. ASSUME call'[s] = call[s], stage'[s] = "commit" => stage[s] = "commit" /\ gone'[s] = gone[s],
             \A id \in Created : id \in live' => id \in live
      PROVE  Deleting(s)'
  BY <1>1, Grows DEF Deleting
<1>2. CASE Idle
  BY <1>1, <1>2 DEF Idle, calls
<1>3. ASSUME NEW r \in Requests, Moves(r) PROVE Deleting(s)'
  <2>1. CASE stage'[s] = "commit" /\ stage[s] # "commit"
    \* Only a creation is committed without a deletion.
    <3>1. call'[s].kind = "create"
      BY <1>3, <2>1 DEF Moves, Goto, NextStage, Placed
    <3>. QED  BY <3>1 DEF Deleting
  <2>2. CASE stage'[s] = "commit" => stage[s] = "commit"
    BY <1>1, <1>3, <2>2 DEF Moves, Goto
  <2>. QED  BY <2>1, <2>2
<1>4. ASSUME NEW r \in Requests, Fails(r) PROVE Deleting(s)'
  BY <1>1, <1>4 DEF Fails, Refuses, Ends
<1>5. ASSUME NEW r \in Requests, Places(r) PROVE Deleting(s)'
  BY <1>1, <1>5 DEF Places, Inserts
<1>6. ASSUME NEW r \in Requests, Deletes(r) PROVE Deleting(s)'
  <2>1. CASE r = s
    <3>1. gone'[s] = {call[s].id} \cap live /\ UNCHANGED <<live, call>>
      BY <1>6, <2>1 DEF Deletes, DeletePermission
    <3>. QED  BY <3>1, Grows DEF Deleting
  <2>2. CASE r # s
    BY <1>1, <1>6, <2>2 DEF Deletes, DeletePermission
  <2>. QED  BY <2>1, <2>2
<1>7. ASSUME NEW r \in Requests, Commit(r) PROVE Deleting(s)'
  <2>1. \A id \in Created : id \in live' => id \in live
    <3>1. Open(r)
      BY <1>7, CommitCases DEF Open
    <3>. QED  BY <1>7, <3>1, CommitCases, CreatedOnce DEF Creates, Withdraws
  <2>2. call' = call /\ (stage'[s] = "commit" => stage[s] = "commit" /\ gone'[s] = gone[s])
    BY <1>7, CommitCases DEF Ends
  <2>. QED  BY <1>1, <2>1, <2>2
<1>8. ASSUME NEW r \in Requests, Begins(r) PROVE Deleting(s)'
  <2>1. CASE r = s
    <3>1. \/ call'[s].kind = "create"
          \/ /\ call'[s].kind = "revoke" /\ call'[s].id \in Created /\ stage'[s] = "read"
      BY <1>8, <2>1 DEF Begins, Starts, CreateOf, RevokeOf
    <3>. QED  BY <3>1, Grows DEF Deleting
  <2>2. CASE r # s
    BY <1>1, <1>8, <2>2 DEF Begins, Starts
  <2>. QED  BY <2>1, <2>2
<1>. QED  BY <1>2, <1>3, <1>4, <1>5, <1>6, <1>7, <1>8, CallCases

\* A call that was answered with success has its batch in the log.
LEMMA LandedStep ==
  ASSUME CallsInv, [Next]_vars, NEW s \in Requests
  PROVE  Landed(s)'
<1>. SUFFICES ASSUME call'[s].kind = "create", stage'[s] = "ok"
              PROVE  Batch(s)' \subseteq Created'
  BY DEF Landed
<1>. TypeOK /\ Placed(s) /\ Landed(s)
  BY DEF CallsInv
<1>1. CASE stage[s] = "ok"
  <2>1. call'[s] = call[s]
    BY <1>1, Grows
  <2>. QED  BY <1>1, <2>1, Grows DEF Landed, Batch
<1>2. CASE stage[s] # "ok"
  <2>1. Commit(s)
    BY <1>2, CallCases, CommitCases
    DEF Idle, calls, Moves, Goto, NextStage, Fails, Refuses, Ends, Places, Inserts, Deletes,
        DeletePermission, Begins, Starts, TypeOK
  <2>2. Creates(s) /\ UNCHANGED call
    BY <2>1, CommitCases DEF Withdraws
  <2>. QED  BY <2>2 DEF Creates, Batch
<1>. QED  BY <1>1, <1>2

\* What changes the log is a commit.
LEMMA LogSteps ==
  ASSUME CallsInv, [Next]_vars
  PROVE  \/ UNCHANGED <<live, log, Created, Revoked>>
         \/ \E r \in Requests : Commit(r) /\ (Creates(r) \/ Withdraws(r)) /\ Open(r) /\ Ends(r, "ok")
<1>. TypeOK
  BY DEF CallsInv
<1>1. ASSUME UNCHANGED <<live, log>> PROVE UNCHANGED <<live, log, Created, Revoked>>
  BY <1>1 DEF Created, Revoked
<1>2. ASSUME NEW r \in Requests, Commit(r)
      PROVE  (Creates(r) \/ Withdraws(r)) /\ Open(r) /\ Ends(r, "ok")
  BY <1>2, CommitCases DEF Open
<1>. QED  BY <1>1, <1>2, CallCases DEF Idle, Moves, Fails, Places, Deletes, Begins

\* Rows of the log that say created come from calls that succeeded.
LEMMA CreatedByStep ==
  ASSUME CallsInv, [Next]_vars
  PROVE  CreatedBy'
<1>. SUFFICES ASSUME NEW id \in Created'
              PROVE  call'[id[1]].kind = "create" /\ stage'[id[1]] = "ok" /\ id \in Batch(id[1])'
  BY DEF CreatedBy
<1>. TypeOK
  BY DEF CallsInv
<1>1. CASE id \in Created
  <2>1. /\ call[id[1]].kind = "create" /\ stage[id[1]] = "ok" /\ id \in Batch(id[1])
        /\ id[1] \in Requests
    BY <1>1 DEF CallsInv, CreatedBy, Created, TypeOK, Ids
  <2>2. call'[id[1]] = call[id[1]] /\ stage'[id[1]] = "ok"
    BY <2>1, Grows
  <2>. QED  BY <2>1, <2>2 DEF Batch
<1>2. CASE id \notin Created
  <2>1. PICK r \in Requests : Commit(r) /\ Creates(r) /\ Ends(r, "ok")
    BY <1>2, LogSteps DEF Withdraws
  <2>2. id \in Batch(r) /\ UNCHANGED call
    BY <1>2, <2>1, CommitCases DEF Creates
  <2>3. id[1] = r
    BY <2>2 DEF Batch
  <2>. QED  BY <2>1, <2>2, <2>3 DEF Creates, Ends, Batch, TypeOK
<1>. QED  BY <1>1, <1>2

\* What was revoked was created, and the log replays to the table, after every step.
LEMMA LogStep ==
  ASSUME CallsInv, [Next]_vars
  PROVE  RevokedWereCreated' /\ LogTellsGrants'
<1>. TypeOK /\ RevokedWereCreated /\ LogTellsGrants
  BY DEF CallsInv
<1>. USE DEF RevokedWereCreated, LogTellsGrants
<1>1. CASE UNCHANGED <<live, log, Created, Revoked>>
  BY <1>1
<1>2. ASSUME NEW r \in Requests, Creates(r), Open(r)
      PROVE  RevokedWereCreated' /\ LogTellsGrants'
  BY <1>2, CreatedOnce DEF Creates
<1>3. ASSUME NEW r \in Requests, Withdraws(r)
      PROVE  RevokedWereCreated' /\ LogTellsGrants'
  BY <1>3 DEF Withdraws
<1>. QED  BY <1>1, <1>2, <1>3, LogSteps

\* A row that appears has no other in its place, committed or not.
LEMMA ExclusiveStep ==
  ASSUME CallsInv, [Next]_vars
  PROVE  Exclusive'
<1>. TypeOK /\ Exclusive
  BY DEF CallsInv
<1>1. ASSUME NEW x \in Rows PROVE Triple(x)' = Triple(x)
  \* Who has rows has been sent.
  <2>1. x[1] \in Requests /\ stage[x[1]] # "unsent"
    <3>1. CASE x \in live
      BY <3>1 DEF CallsInv, LogTellsGrants, CreatedBy, Created, TypeOK, Ids
    <3>2. ASSUME NEW r \in Requests, x \in rows[r] PROVE x[1] = r /\ Open(r)
      BY <3>2, OwnRows DEF CallsInv, Clean, Batch
    <3>. QED  BY <3>1, <3>2 DEF Rows, Open
  <2>. QED  BY <2>1, Grows DEF Triple
<1>2. ASSUME Rows' \subseteq Rows PROVE Exclusive'
  BY <1>1, <1>2 DEF Exclusive
<1>3. CASE Idle
  BY <1>2, <1>3 DEF Idle, calls, Rows
<1>4. ASSUME NEW r \in Requests, Moves(r) \/ Fails(r) \/ Deletes(r) \/ Begins(r) PROVE Exclusive'
  <2>1. live' = live /\ \A q \in Requests : rows'[q] \subseteq rows[q]
    BY <1>4
    DEF Moves, Goto, Fails, Refuses, Ends, Deletes, DeletePermission, Begins, Starts, TypeOK
  <2>. QED  BY <1>2, <2>1 DEF Rows
<1>5. ASSUME NEW r \in Requests, Commit(r) PROVE Exclusive'
  <2>1. live' \subseteq live \cup rows[r] /\ \A q \in Requests : rows'[q] \subseteq rows[q]
    BY <1>5, CommitCases DEF Creates, Withdraws, Ends, TypeOK
  <2>. QED  BY <1>2, <2>1 DEF Rows
<1>6. ASSUME NEW r \in Requests, Places(r) PROVE Exclusive'
  <2>1. UNCHANGED <<live, call>> /\ Rows' \subseteq Rows \cup {NextId(r)}
    BY <1>6 DEF Places, Inserts, Rows, TypeOK
  <2>2. \A x : Triple(x)' = Triple(x)
    BY <2>1 DEF Triple
  <2>3. ASSUME NEW y \in Rows, Triple(y) = Triple(NextId(r)) PROVE y = NextId(r)
    <3>1. y \notin live
      BY <1>6, <2>3 DEF Places, Taken
    <3>2. PICK q \in Requests : y \in rows[q]
      BY <3>1 DEF Rows
    <3>3. CASE q # r
      <4>1. Open(q)
        BY <3>2 DEF CallsInv, Clean
      <4>2. WaitsFor(r, q)
        BY <1>6, <2>3, <3>2, <3>3, <4>1 DEF WaitsFor, Places
      <4>. QED  BY <1>6, <4>2 DEF Places
    <3>4. CASE q = r
      <4>1. PICK c \in ToSet(call[r].caps) : y = <<r, c>>
        BY <3>2, <3>4, OwnRows DEF Batch
      <4>2. c = Head(left[r])
        BY <2>3, <4>1 DEF Triple, NextId
      <4>. QED  BY <4>1, <4>2 DEF NextId
    <3>. QED  BY <3>3, <3>4
  <2>. QED  BY <2>1, <2>2, <2>3 DEF Exclusive
<1>. QED  BY <1>3, <1>4, <1>5, <1>6, CallCases

-----------------------------------------------------------------------------
(* The panel *)

\* What a step does to the panel, the items and what the panel sends.
Asking(r) == Submit(r) \/ GrantAnyway(r)
Elsewhere ==
  /\ UNCHANGED panel
  /\ \A r \in Requests : call'[r] # call[r] => ~call'[r].panel
Selecting ==
  /\ Usable /\ form' \in Form /\ pair' \in {None, pair} /\ UNCHANGED <<open, known, confirm, sent>>
  /\ form'.type = "item" => form'.target \in Items \cup {None}

\* Calls of others, and the server, leave the panel alone.
LEMMA OthersSteps ==
  ASSUME TypeOK, NEW r \in Requests,
         \/ Server(r)
         \/ \E a \in Agents, t \in Targets, caps \in Batches : CliCreates(r, a, t, caps)
         \/ \E id \in Ids : Revokes(r, id)
  PROVE  Elsewhere /\ UNCHANGED items
<1>1. CASE Server(r)
  BY <1>1
  DEF Server, LoadAgent, LoadTarget, FindExisting, Insert, ReadPermission, DeletePermission,
      Commit, DeadlockVictim, Crash, Elsewhere
<1>2. ASSUME NEW c \in Call, NEW first, Starts(r, c, first), ~c.panel, UNCHANGED panel
      PROVE  Elsewhere
  BY <1>2 DEF Starts, Elsewhere, TypeOK
<1>3. ASSUME NEW a \in Agents, NEW t \in Targets, NEW caps \in Batches, CliCreates(r, a, t, caps)
      PROVE  Elsewhere /\ UNCHANGED items
  BY <1>3 DEF CliCreates, Starts, CreateOf, Elsewhere, TypeOK
<1>4. ASSUME NEW id \in Ids, Revokes(r, id) PROVE Elsewhere /\ UNCHANGED items
  BY <1>4 DEF Revokes, Starts, RevokeOf, Elsewhere, TypeOK
<1>. QED  BY <1>1, <1>3, <1>4

\* A choice in the form drops the dialog.
LEMMA SelectingSteps ==
  ASSUME TypeOK, ItemsSelected,
         \/ \E type \in {"item", "profile"} : ChooseType(type)
         \/ \E a \in Agents : ChooseAgent(a)
         \/ \E t \in Targets : ChooseTarget(t)
         \/ \E c \in Canonical : Toggle(c)
  PROVE  Selecting /\ UNCHANGED <<items, calls>>
<1>. /\ form.type \in {"item", "profile"} /\ form.agent \in Someone /\ form.target \in Something
     /\ form.caps \in SUBSET Canonical
  BY DEF TypeOK, Form
<1>. USE DEF ItemsSelected, Selecting, Chooses
<1>1. ASSUME NEW type \in {"item", "profile"}, NEW a \in Someone, NEW t \in Something,
             NEW caps \in SUBSET Canonical
      PROVE  /\ Selected(type, a, t, caps) \in Form
             /\ Selected(type, a, t, caps).type = type /\ Selected(type, a, t, caps).target = t
  BY DEF Selected, Form
<1>2. None \in Something /\ {} \in SUBSET Canonical
  BY DEF Something
<1>3. ASSUME NEW type \in {"item", "profile"}, ChooseType(type)
      PROVE  Selecting /\ UNCHANGED <<items, calls>>
  BY <1>1, <1>2, <1>3 DEF ChooseType
<1>4. ASSUME NEW a \in Agents, ChooseAgent(a) PROVE Selecting /\ UNCHANGED <<items, calls>>
  <2>1. a \in Someone
    BY DEF Someone
  <2>. QED  BY <1>1, <1>2, <1>4, <2>1 DEF ChooseAgent
<1>5. ASSUME NEW t \in Targets, ChooseTarget(t) PROVE Selecting /\ UNCHANGED <<items, calls>>
  <2>1. t \in Something
    BY DEF Something
  <2>2. form.type = "item" => t \in Items
    BY <1>5 DEF ChooseTarget, Choosable, TypeOK
  <2>. QED  BY <1>1, <1>2, <1>5, <2>1, <2>2 DEF ChooseTarget
<1>6. ASSUME NEW c \in Canonical, Toggle(c) PROVE Selecting /\ UNCHANGED <<items, calls>>
  <2>. DEFINE caps == IF c \in form.caps THEN form.caps \ {c} ELSE form.caps \cup {c}
  <2>1. caps \in SUBSET Canonical
    OBVIOUS
  <2>2. form' = Selected(form.type, form.agent, form.target, caps)
    BY <1>6 DEF Toggle
  <2>. HIDE DEF caps
  <2>. QED  BY <1>1, <1>6, <2>1, <2>2 DEF Toggle
<1>. QED  BY <1>3, <1>4, <1>5, <1>6

\* Every step of the panel.
LEMMA PanelCases ==
  ASSUME TypeOK, ItemsSelected, [Next]_vars
  PROVE  \/ Elsewhere /\ items' \subseteq Items
         \/ Selecting /\ UNCHANGED <<items, calls>>
         \/ (OpenPanel \/ ClosePanel \/ CancelDialog)
         \/ (ListsArrive \/ PairArrives \/ Granted \/ NotGranted)
         \/ \E r \in Requests : Asking(r)
<1>1. CASE UNCHANGED vars
  BY <1>1 DEF vars, calls, Elsewhere, TypeOK
<1>2. ASSUME NEW i \in Items, CreateItem(i) PROVE Elsewhere /\ items' \subseteq Items
  BY <1>2 DEF CreateItem, calls, Elsewhere, TypeOK
<1>3. CASE Person
  BY <1>3, SelectingSteps DEF Person, Asking
<1>. QED  BY <1>1, <1>2, <1>3, OthersSteps DEF Next, TypeOK

\* Every step keeps the type of the variables of the panel.
LEMMA PanelTypes ==
  ASSUME TypeOK, ItemsSelected, [Next]_vars
  PROVE  /\ items' \subseteq Items
         /\ open' \in BOOLEAN /\ form' \in Form /\ known' \in {None} \cup SUBSET Items
         /\ pair' \in {None} \cup SUBSET Capabilities /\ confirm' \in {None} \cup Confirm
         /\ sent' \in Requests \cup {None}
<1>. USE DEF TypeOK
<1>1. CASE Elsewhere /\ items' \subseteq Items
  BY <1>1 DEF Elsewhere, panel
<1>2. CASE Selecting /\ UNCHANGED <<items, calls>>
  BY <1>2 DEF Selecting
<1>3. Blank \in Form
  BY DEF Blank, Form, Someone, Something
<1>4. CASE OpenPanel \/ ClosePanel \/ CancelDialog
  BY <1>3, <1>4 DEF OpenPanel, ClosePanel, CancelDialog
<1>5. CASE ListsArrive \/ Granted \/ NotGranted
  BY <1>3, <1>5 DEF ListsArrive, Granted, NotGranted
<1>6. CASE PairArrives
  BY <1>6 DEF PairArrives
<1>7. Input \in Confirm
  BY DEF Input, Form, Confirm
<1>8. ASSUME NEW r \in Requests, Asking(r)
      PROVE  /\ UNCHANGED <<items, open, form, known, pair>>
             /\ confirm' \in {confirm, Input} /\ sent' \in {sent, r}
  BY <1>8 DEF Asking, Submit, GrantAnyway, Asks, Sends
<1>. QED  BY <1>1, <1>2, <1>4, <1>5, <1>6, <1>7, <1>8, PanelCases

\* The dialog stays about what is selected.
LEMMA PanelStep ==
  ASSUME TypeOK, ItemsSelected, DialogIsTrue, [Next]_vars
  PROVE  ItemsSelected' /\ DialogIsTrue'
<1>. USE DEF ItemsSelected, DialogIsTrue, Input
<1>1. ASSUME UNCHANGED <<form, confirm>> PROVE ItemsSelected' /\ DialogIsTrue'
  BY <1>1
<1>2. CASE Selecting
  BY <1>2 DEF Selecting, Usable
<1>3. ASSUME form' = Blank, confirm' = None PROVE ItemsSelected' /\ DialogIsTrue'
  BY <1>3 DEF Blank
<1>4. CASE ClosePanel \/ Granted
  BY <1>3, <1>4 DEF ClosePanel, Granted, Usable
<1>5. CASE CancelDialog \/ NotGranted
  BY <1>5 DEF CancelDialog, NotGranted
<1>6. CASE OpenPanel \/ ListsArrive \/ PairArrives \/ Elsewhere
  BY <1>1, <1>6 DEF OpenPanel, ListsArrive, PairArrives, Elsewhere, panel
<1>7. ASSUME NEW r \in Requests, Asking(r) PROVE ItemsSelected' /\ DialogIsTrue'
  BY <1>7 DEF Asking, Submit, GrantAnyway, Asks, Sends
<1>. QED  BY <1>2, <1>4, <1>5, <1>6, <1>7, PanelCases

\* A call of the panel that opens a profile to read was confirmed for what it names.
Confirmed(c) ==
  c.panel /\ c.target \in Profiles /\ "read" \in ToSet(c.caps) => c.asked = <<c.agent, c.target>>

\* No step sends a grant of read on a profile that was not asked about.
LEMMA ConfirmedStep ==
  ASSUME TypeOK, ItemsSelected, DialogIsTrue, ReadIsConfirmed, [Next]_vars
  PROVE  ReadIsConfirmed'
<1>. USE DEF TypeOK
<1>. SUFFICES ASSUME NEW s \in Requests PROVE Confirmed(call'[s])
  BY DEF ReadIsConfirmed, Confirmed
<1>1. CASE call'[s] = call[s]
  BY <1>1 DEF ReadIsConfirmed, Confirmed
<1>2. CASE Elsewhere
  BY <1>1, <1>2 DEF Elsewhere, Confirmed
<1>3. ASSUME NEW r \in Requests, NEW c, NEW first, Starts(r, c, first), Confirmed(c)
      PROVE  Confirmed(call'[s])
  BY <1>1, <1>3 DEF Starts
<1>4. ASSUME NEW r \in Requests, Submit(r) PROVE Confirmed(call'[s])
  <2>1. CASE Asks
    BY <1>1, <2>1 DEF Asks, calls
  <2>2. CASE Sends(r, Input, None) /\ ~(form.type = "profile" /\ "read" \in form.caps)
    <3>. DEFINE c == CreateOf(form.agent, form.target, Ordered(form.caps), None, TRUE)
    <3>1. c.target = form.target /\ c.caps = Ordered(form.caps)
      BY DEF CreateOf
    <3>2. ToSet(c.caps) = form.caps
      BY <3>1, OrderedIsAll DEF Form
    \* What is not of a profile is of an item, and nothing is both.
    <3>3. form.type = "item" => form.target \notin Profiles
      BY GrantsConstants DEF ItemsSelected, Targets
    <3>4. form.type \in {"item", "profile"}
      BY DEF Form
    <3>5. Confirmed(c)
      BY <2>2, <3>1, <3>2, <3>3, <3>4 DEF Confirmed
    <3>6. Starts(r, c, "agent")
      BY <2>2 DEF Sends, Input
    <3>. HIDE DEF c
    <3>. QED  BY <1>3, <3>5, <3>6
  <2>. QED  BY <1>4, <2>1, <2>2 DEF Submit
<1>5. ASSUME NEW r \in Requests, GrantAnyway(r) PROVE Confirmed(call'[s])
  \* What the dialog named is what it held.
  <2>. DEFINE c == CreateOf(confirm.agent, confirm.target, Ordered(confirm.caps),
                            <<form.agent, form.target>>, TRUE)
  <2>1. confirm.agent = form.agent /\ confirm.target = form.target
    BY <1>5 DEF GrantAnyway, DialogIsTrue, Input
  <2>2. Confirmed(c)
    BY <2>1 DEF Confirmed, CreateOf
  <2>3. Starts(r, c, "agent")
    BY <1>5 DEF GrantAnyway, Sends
  <2>. HIDE DEF c
  <2>. QED  BY <1>3, <2>2, <2>3
<1>6. ASSUME UNCHANGED calls PROVE Confirmed(call'[s])
  BY <1>1, <1>6 DEF calls
<1>. QED
  BY <1>2, <1>4, <1>5, <1>6, PanelCases
  DEF Asking, OpenPanel, ClosePanel, CancelDialog, ListsArrive, PairArrives, Granted, NotGranted

-----------------------------------------------------------------------------
(* The theorems *)

IInv == CallsInv /\ PanelInv

\* The inductive invariant holds at first.
LEMMA InitIInv == Init => IInv
<1>. SUFFICES ASSUME Init PROVE IInv
  OBVIOUS
<1>. USE DEF Init
<1>1. NoCall \in Call /\ Blank \in Form
  BY DEF NoCall, Call, Blank, Form, Someone, Something
<1>2. TypeOK
  <2>1. items \subseteq Items /\ live \subseteq Ids
        /\ log \subseteq [event : {"create", "revoke"}, id : Ids, by : Requests]
    OBVIOUS
  <2>2. call \in [Requests -> Call]
    BY <1>1
  <2>3. stage \in [Requests -> Stages]
    BY DEF Stages
  <2>4. left \in [Requests -> Seq(Capabilities)]
    <3>1. <<>> \in Seq(Capabilities)
      OBVIOUS
    <3>. QED  BY <3>1
  <2>5. rows \in [Requests -> SUBSET Ids] /\ gone \in [Requests -> SUBSET Ids]
    OBVIOUS
  <2>. QED  BY <1>1, <2>1, <2>2, <2>3, <2>4, <2>5 DEF TypeOK
<1>3. ASSUME NEW r \in Requests
      PROVE  Placed(r) /\ Building(r) /\ Clean(r) /\ Deleting(r) /\ Landed(r)
  BY DEF Placed, Building, Clean, Deleting, Landed, NoCall, Open
<1>4. Created = {} /\ Revoked = {} /\ Rows = {}
  BY DEF Created, Revoked, Rows
<1>5. CallsInv
  BY <1>2, <1>3, <1>4
  DEF CallsInv, CreatedBy, RevokedWereCreated, LogTellsGrants, Exclusive
<1>6. ItemsSelected /\ DialogIsTrue /\ ReadIsConfirmed
  BY DEF ItemsSelected, DialogIsTrue, ReadIsConfirmed, Blank, NoCall
<1>. QED  BY <1>2, <1>5, <1>6 DEF IInv, PanelInv

\* IInv holds at first and every step preserves it.
THEOREM Invariance == Spec => []IInv
<1>1. IInv /\ [Next]_vars => IInv'
  <2>. SUFFICES ASSUME CallsInv, PanelInv, [Next]_vars PROVE IInv'
    BY DEF IInv
  <2>1. TypeOK'
    BY CallTypes, PanelTypes DEF PanelInv, TypeOK
  <2>2. CallsInv'
    BY <2>1, PlacedStep, BuildingStep, CleanStep, DeletingStep, LandedStep, CreatedByStep, LogStep,
       ExclusiveStep
    DEF CallsInv
  <2>3. PanelInv'
    BY <2>1, PanelStep, ConfirmedStep DEF PanelInv
  <2>. QED  BY <2>2, <2>3 DEF IInv
<1>. QED  BY <1>1, InitIInv, PTL DEF Spec

\* Every value stays of its type.
THEOREM TypeCorrect == Spec => []TypeOK
BY Invariance, PTL DEF IInv, PanelInv

\* The audit log of permissions.ts replays to the table of the grants, whatever overlaps,
\* fails or is deadlocked.
THEOREM LogReplays == Spec => []LogTellsGrants
BY Invariance, PTL DEF IInv, CallsInv

\* A batch of permissions.create lands whole or not at all.
THEOREM BatchesLandWhole == Spec => []AllOrNothing
<1>1. IInv => AllOrNothing
  <2>. SUFFICES ASSUME CallsInv, NEW r \in Requests, call[r].kind = "create"
                PROVE  {id \in Created : id[1] = r} = IF stage[r] = "ok" THEN Batch(r) ELSE {}
    BY DEF IInv, AllOrNothing, Batch
  <2>1. \A id \in Created : id[1] = r => stage[r] = "ok" /\ id \in Batch(r)
    BY DEF CallsInv, CreatedBy
  <2>2. stage[r] = "ok" => Batch(r) \subseteq Created
    BY DEF CallsInv, Landed
  <2>3. \A id \in Batch(r) : id[1] = r
    BY DEF Batch
  <2>. QED  BY <2>1, <2>2, <2>3
<1>. QED  BY <1>1, Invariance, PTL

\* No capability of an agent on a target is there twice (the unique index of permissions).
THEOREM GrantsAreUnique == Spec => []OneRowEach
<1>1. IInv => OneRowEach
  BY DEF IInv, CallsInv, Exclusive, OneRowEach, Rows
<1>. QED  BY <1>1, Invariance, PTL

\* No profile is opened to read by the panel but after a dialog that named it
\* (create-permission-panel.tsx).
THEOREM ReadsAreConfirmed == Spec => []ReadIsConfirmed
BY Invariance, PTL DEF IInv, PanelInv
===============================================================================
