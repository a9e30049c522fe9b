------------------------------ MODULE MCDaemon ------------------------------
(* Two profiles and three commands: ones that start and stop the daemon, an   *)
(* unlock with two calls, and an unlock or a login with a call and a start or *)
(* a stop.                                                                    *)
EXTENDS Daemon, TLC

CONSTANTS p1, p2, r1, r2, r3

Mixed ==
  {[r \in Requests |-> IF r = r3 THEN {"start", "stop"} ELSE {"start", "serve", "stop"}],
   [r \in Requests |-> IF r = r1 THEN {"unlock"}
                       ELSE IF r = r2 THEN Calls ELSE Calls \ {"decrypt", "exec"}],
   [r \in Requests |-> IF r = r1 THEN {"unlock", "login"}
                       ELSE IF r = r2 THEN Calls \ {"decrypt", "exec"} ELSE {"start", "stop"}]}
=============================================================================
