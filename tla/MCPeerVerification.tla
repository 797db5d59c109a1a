------------------------- MODULE MCPeerVerification -------------------------
(* TLC instances of PeerVerification. *)
EXTENDS PeerVerification

CONSTANTS s1, s2

(* A list that revokes nobody, one that revokes s1, one that takes it back and
   revokes s2, one that nobody trusted has signed, and one that revokes both. *)
MCRevoked ==
  [n \in Version |-> CASE n = 0 -> {} [] n = 1 -> {s1} [] n = 2 -> {s2}
                       [] n = 3 -> {} [] OTHER -> {s1, s2}]

MCSigned == Version \ {3}
=============================================================================
