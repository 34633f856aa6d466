----------------------------- MODULE DailyQuota -----------------------------
(***************************************************************************)
(* What the judge promises about money, stated without locks, files or     *)
(* clocks: INV-4, at most Cap charged provider answers per counter file    *)
(* and day.  A counter starts again at zero when the day changes, or when  *)
(* an operator throws an unreadable counter file away.                     *)
(***************************************************************************)
EXTENDS Naturals

CONSTANTS CapFiles,   \* the counter files, one quota each
          Cap         \* provider answers allowed per file and day

VARIABLE used         \* answers charged since the counter last started at zero

TypeOK == used \in [CapFiles -> 0..Cap]

Init == used = [f \in CapFiles |-> 0]

\* One answer is paid for.
Spend(f) == /\ used[f] < Cap
            /\ used' = [used EXCEPT ![f] = @ + 1]

\* Some counters start again.
Restart == \E fresh \in SUBSET CapFiles :
              used' = [f \in CapFiles |-> IF f \in fresh THEN 0 ELSE used[f]]

Next == Restart \/ \E f \in CapFiles : Spend(f)

Spec == Init /\ [][Next]_used
=============================================================================
