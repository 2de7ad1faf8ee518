------------------------------ MODULE MCSigning ------------------------------
EXTENDS SigningWorkflow, TLC

(* Two snapshots: on the first, amount 1 is preferred and allowed, and 2     *)
(* needs an acknowledgement; the second denies 1 and allows 2.               *)
MovingVerdict == [c \in Cases |-> IF c[1] = 1 THEN IF c[4] = 1 THEN "ALLOW" ELSE "WARN"
                                 ELSE IF c[4] = 1 THEN "DENY" ELSE "ALLOW"]
MovingAdvice  == [c \in Cases |-> c[1]]

(* One snapshot: amount 2 is denied and 1 recommended instead, at first with *)
(* a warning, later without.                                                 *)
StillVerdict == [c \in Cases |-> IF c[4] # 1 THEN "DENY" ELSE IF c[2] = 0 THEN "WARN" ELSE "ALLOW"]
StillAdvice  == [c \in Cases |-> 1]

Symmetry == Permutations(Accounts)
=============================================================================
