---------------------------- MODULE OneTimeToken ----------------------------
(***************************************************************************)
(* What abadge promises of a secret that works once (a mount handle, a     *)
(* bootstrap token, a session challenge): whoever presents it, however     *)
(* many present it at once and whichever of them fail half-way, one use    *)
(* takes effect and it is never given back.                                *)
(***************************************************************************)
CONSTANTS
  Tokens,   \* the secrets that can be issued
  Holders,  \* the uses that compete for them
  Nobody    \* no use yet

VARIABLES
  issued,   \* tokens handed out so far
  spentBy   \* the use each token went to

Init ==
  /\ issued = {}
  /\ spentBy = [t \in Tokens |-> Nobody]

Issue ==
  /\ \E fresh \in SUBSET (Tokens \ issued) : issued' = issued \cup fresh
  /\ UNCHANGED spentBy

Spend(t, h) ==
  /\ t \in issued /\ spentBy[t] = Nobody
  /\ spentBy' = [spentBy EXCEPT ![t] = h]
  /\ UNCHANGED issued

Next == Issue \/ \E t \in Tokens, h \in Holders : Spend(t, h)

Spec == Init /\ [][Next]_<<issued, spentBy>>
=============================================================================
