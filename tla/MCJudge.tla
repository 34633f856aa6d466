------------------------------- MODULE MCJudge -------------------------------
(***************************************************************************)
(* The judge with one pair of files, as the process's settings fix it.     *)
(***************************************************************************)
EXTENDS Judge

CONSTANTS cacheFile, capFile

OnePair == [t \in Tasks |-> [cache |-> cacheFile, cap |-> capFile]]
=============================================================================
