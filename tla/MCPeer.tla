--------------------------------- MODULE MCPeer ---------------------------------
(* Small instances of the peer.  Intervals are a few units long, the lifetime   *)
(* longer than the other delays, as in the code; two requests register an ONU,  *)
(* so four reach a second registration attempt after a teardown.                *)
EXTENDS Peer

Says(evaluating, stable, fault) ==
    [link_fault |-> fault, local_evaluating |-> evaluating, local_stable |-> stable,
     remote_evaluating |-> FALSE, remote_stable |-> FALSE]

\* The other end stable, or restarted by a fault; OamPair has every other word.
MCHeardFlags == {Says(FALSE, TRUE, FALSE), Says(FALSE, FALSE, TRUE)}
===============================================================================
