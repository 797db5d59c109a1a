--------------------------- MODULE MCCameraPoller ---------------------------
(* TLC instances of CameraPoller. *)
EXTENDS CameraPoller

CONSTANTS ip1, ip2, Ports, p1, p2

MCEntry == [ip : IPs, port : Ports]

Row(ip, port) == [ip |-> ip, port |-> port]

(* No, one or two cameras in the table when the server starts. Addresses and ports
   are each interchangeable (no definition names one), and a liveness property rules
   out SYMMETRY, so one table stands for those it is a permutation of. *)
MCRows ==
  {{}, {Row(ip1, p1)},
   {Row(ip1, p1), Row(ip1, p2)}, {Row(ip1, p1), Row(ip2, p1)}}

MCInit == Init /\ rows \in MCRows

MCSpec == MCInit /\ [][Next]_vars /\ Fairness
=============================================================================
