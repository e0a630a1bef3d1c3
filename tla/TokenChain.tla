----------------------------- MODULE TokenChain -----------------------------
(***************************************************************************)
(* What the rotation of session tokens promises: the server is never more  *)
(* than one token ahead of a client that may still beat, and a client only *)
(* ever moves to the newest token.                                         *)
(***************************************************************************)
EXTENDS Naturals

CONSTANTS Unborn, Ended  \* the client's token before and after its session

VARIABLES
  held,    \* the token a live client would beat with
  newest   \* the last token the server issued, 0 before the first

vars == <<held, newest>>

Init == held = Unborn /\ newest = 0

Grant  == newest = 0 /\ newest' = 1 /\ UNCHANGED held
Rotate == newest > 0 /\ held \in {newest, Ended} /\ newest' = newest + 1 /\ UNCHANGED held
Adopt  == newest > 0 /\ held # Ended /\ held' = newest /\ UNCHANGED newest
End    == held' = Ended /\ UNCHANGED newest

Next == Grant \/ Rotate \/ Adopt \/ End

Spec == Init /\ [][Next]_vars
=============================================================================
