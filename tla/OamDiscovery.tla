----------------------------- MODULE OamDiscovery -----------------------------
(***************************************************************************)
(* OAM discovery as one end runs it (crates/epon-olt/src/oam.rs, struct    *)
(* Discovery): operators from a discovery record to the next one, used by  *)
(* the peer, by the ONU responder and by the pair of module OamPair.       *)
(*                                                                         *)
(* Of the flags field only the bits the machine reads or computes are      *)
(* kept: link_fault and the local and remote evaluating/stable bits.       *)
(***************************************************************************)
EXTENDS Naturals

CONSTANT EvaluatingPdus   \* EVALUATING_PDUS, 6 in the code

ASSUME EvaluatingPdusAssumption == EvaluatingPdus \in Nat \ {0}

DiscoveryState == {"LocalEvaluating", "LocalStable", "Converged"}

Flags == [link_fault : BOOLEAN, local_evaluating : BOOLEAN, local_stable : BOOLEAN,
          remote_evaluating : BOOLEAN, remote_stable : BOOLEAN]

\* peer is what the other end last said of itself, NoPeer until it said anything.
NoPeer == [local_evaluating |-> FALSE, local_stable |-> FALSE]

\* The count of PDUs sent saturates: only its comparison with EvaluatingPdus is read.
Discovery == [state : DiscoveryState, sent : 0..EvaluatingPdus,
              peer : [local_evaluating : BOOLEAN, local_stable : BOOLEAN],
              peer_described_itself : BOOLEAN]

DefaultDiscovery == [state |-> "LocalEvaluating", sent |-> 0, peer |-> NoPeer,
                     peer_described_itself |-> FALSE]

\* Discovery::flags.  A peer that said nothing reads as both bits clear, which is
\* what the absent Option leaves in the default flags.
flags(d) == [link_fault        |-> FALSE,
             local_evaluating  |-> d.state = "LocalEvaluating",
             local_stable      |-> d.state # "LocalEvaluating",
             remote_evaluating |-> d.peer.local_evaluating,
             remote_stable     |-> d.peer.local_stable]

enter(d, state) ==
    IF d.state = state THEN d ELSE [d EXCEPT !.state = state, !.sent = 0]

\* A plausible slip: settling on the count of PDUs sent alone.
SettleWithoutEvidence(d) ==
    IF d.state = "LocalEvaluating" /\ d.sent >= EvaluatingPdus
    THEN enter(d, "LocalStable")
    ELSE d

settle_if_evaluated(d) ==
    IF /\ d.state = "LocalEvaluating"
       /\ d.peer_described_itself
       /\ d.sent >= EvaluatingPdus
    THEN enter(d, "LocalStable")
    ELSE d

on_sent(d) ==
    settle_if_evaluated(
        [d EXCEPT !.sent = IF @ < EvaluatingPdus THEN @ + 1 ELSE @])

\* The match on the state after the flags were taken in and evaluation settled.
Converge(d, f) ==
    CASE d.state = "Converged" /\ f.local_evaluating -> enter(d, "LocalStable")
      [] d.state = "LocalStable" /\ f.local_stable   -> enter(d, "Converged")
      [] OTHER                                       -> d

\* The slip oam.rs warns of: hearing the other end evaluate restarts this one.
RestartWhenPeerEvaluates(d, f) ==
    IF f.link_fault \/ f.local_evaluating
    THEN [DefaultDiscovery EXCEPT !.peer = [local_evaluating |-> f.local_evaluating,
                                            local_stable |-> f.local_stable],
                                  !.peer_described_itself = d.peer_described_itself]
    ELSE Converge(settle_if_evaluated(
             [d EXCEPT !.peer = [local_evaluating |-> f.local_evaluating,
                                 local_stable     |-> f.local_stable]]), f)

\* A plausible slip: leaving Converged is forgotten.
StayConverged(d, f) ==
    IF f.link_fault THEN DefaultDiscovery
    ELSE LET e == settle_if_evaluated(
                    [d EXCEPT !.peer = [local_evaluating |-> f.local_evaluating,
                                        local_stable     |-> f.local_stable]])
         IN  IF e.state = "LocalStable" /\ f.local_stable THEN enter(e, "Converged") ELSE e

on_peer_flags(d, f) ==
    IF f.link_fault
    THEN DefaultDiscovery
    ELSE Converge(settle_if_evaluated(
             [d EXCEPT !.peer = [local_evaluating |-> f.local_evaluating,
                                 local_stable     |-> f.local_stable]]), f)

on_peer_information(d, f) ==
    on_peer_flags([d EXCEPT !.peer_described_itself = TRUE], f)
===============================================================================
