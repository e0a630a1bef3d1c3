---------------------------- MODULE MCProcessLock ----------------------------
(* Small instances of ProcessLock for TLC.                                  *)
EXTENDS ProcessLock, TLC

\* Processes and tokens are interchangeable.
LockSymmetry == Permutations(Processes) \cup Permutations(Tokens)
=============================================================================
