------------------------ MODULE MCHeartbeatProtocol ------------------------
(* A small instance of HeartbeatProtocol for TLC: an exchange takes up to    *)
(* one second, the clocks differ by half a second, the window is two.        *)
EXTENDS HeartbeatProtocol

MCConfig ==
  [system |-> "system", key |-> "key", rawKey |-> TRUE, keyBytes |-> 32, kid |-> "kid", skew |-> 2]
=============================================================================
