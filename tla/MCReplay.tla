------------------------------ MODULE MCReplay ------------------------------
(***************************************************************************)
(* Two tasks that record side by side, one player, and keyword arguments   *)
(* with one JSON form (a list, a tuple), with another, and with none.      *)
(***************************************************************************)
EXTENDS Replay, TLC

CONSTANTS aList, aTuple, other, anObject

MCJson == (aList :> "[]") @@ (aTuple :> "[]") @@ (other :> "{}") @@ (anObject :> NoJson)
Interchangeable == Permutations(Tasks) \cup Permutations(Responses)
=============================================================================
