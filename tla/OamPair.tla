-------------------------------- MODULE OamPair --------------------------------
(***************************************************************************)
(* Two ends running OAM discovery against each other, the way the peer     *)
(* (peer.rs: Timer::Keepalive, on_oam) and the ONU responder (onu.rs:      *)
(* advance_to, on_oam) do: each sends an Information OAMPDU on its own     *)
(* period and takes in what the other sent, over fibres that deliver in    *)
(* order and lose what does not fit.  An end restarts when a registration  *)
(* is torn down; the number of restarts is bounded.                        *)
(***************************************************************************)
EXTENDS OamDiscovery, Sequences, FiniteSets

CONSTANTS End,           \* the two ends
          Depth,         \* frames a direction holds before it drops
          MaxRestarts    \* bound: discovery resets in a run, over both ends

ASSUME OamPairAssumption ==
    /\ IsFiniteSet(End) /\ Cardinality(End) = 2
    /\ Depth \in Nat \ {0}
    /\ MaxRestarts \in Nat

VARIABLES discovery,  \* each end's Discovery
          line,       \* line[e]: flags on their way from e
          restarts,
          life        \* history, per end: words on its line sent since it last
                      \* restarted (the newest ones), and whether one was heard

vars == <<discovery, line, restarts, life>>

Other(e) == CHOOSE o \in End : o # e

TypeOK ==
    /\ discovery \in [End -> Discovery]
    /\ line \in [End -> Seq(Flags)] /\ \A e \in End : Len(line[e]) <= Depth
    /\ restarts \in 0..MaxRestarts
    /\ life \in [End -> [out : 0..Depth, heard : BOOLEAN]]
    /\ \A e \in End : life[e].out <= Len(line[e])

Unheard == [out |-> 0, heard |-> FALSE]

Init ==
    /\ discovery = [e \in End |-> DefaultDiscovery]
    /\ line = [e \in End |-> <<>>]
    /\ restarts = 0
    /\ life = [e \in End |-> Unheard]

\* The keepalive is built from the state before on_sent, then counted; a full
\* fibre drops it, and the end has counted it as sent all the same.
Keepalive(e) ==
    /\ discovery' = [discovery EXCEPT ![e] = on_sent(@)]
    /\ \/ /\ Len(line[e]) < Depth
          /\ line' = [line EXCEPT ![e] = Append(@, flags(discovery[e]))]
          /\ life' = [life EXCEPT ![e].out = @ + 1]
       \/ Len(line[e]) >= Depth /\ UNCHANGED <<line, life>>
    /\ UNCHANGED restarts

\* The word at the head of the line from o is one o sent before it restarted.
HeadIsOld(o) == life[o].out < Len(line[o])

on_oam(e) ==
    /\ line[Other(e)] # <<>>
    /\ discovery' = [discovery EXCEPT ![e] = on_peer_information(@, Head(line[Other(e)]))]
    /\ line' = [line EXCEPT ![Other(e)] = Tail(@)]
    /\ life' = IF HeadIsOld(Other(e)) THEN life
               ELSE [life EXCEPT ![Other(e)] = [out |-> @.out - 1, heard |-> TRUE]]
    /\ UNCHANGED restarts

\* tear_down_registration at the peer, a REGISTER with Deregister at the ONU.
Restart(e) ==
    /\ restarts < MaxRestarts
    /\ discovery' = [discovery EXCEPT ![e] = DefaultDiscovery]
    /\ life' = [life EXCEPT ![e] = Unheard]
    /\ restarts' = restarts + 1
    /\ UNCHANGED line

Next == \E e \in End : Keepalive(e) \/ on_oam(e) \/ Restart(e)

\* Each end's keepalive timer keeps coming due, and the loop hands over what
\* landed.  Nothing obliges a registration to be torn down.
Fairness == \A e \in End : WF_vars(Keepalive(e)) /\ WF_vars(on_oam(e))

Spec == Init /\ [][Next]_vars /\ Fairness

--------------------------------------------------------------------------------
\* Of the words on e's line, those it sent since it last restarted.  What it sent
\* before stays on the line and is still heard; nothing below speaks of those.
Current(e) == {i \in DOMAIN line[e] : i > Len(line[e]) - life[e].out}

\* What a word says its sender has heard: it claims stability, or repeats a bit of
\* the other end's.
ClaimsToHaveHeard(f) == f.local_stable \/ f.remote_evaluating \/ f.remote_stable

\* "Stability is claimed against evidence": an end past evaluation has heard the
\* other describe itself since it last restarted (settle_if_evaluated), and so has
\* one with such a claim of this life still on its way.
EvidenceBeforeStability ==
    \A e \in End :
        \/ discovery[e].peer_described_itself
        \/ /\ discovery[e].state = "LocalEvaluating"
           /\ \A i \in Current(e) : ~ClaimsToHaveHeard(line[e][i])

\* A claim is not taken back within a life: behind a word that claims stability
\* only such words follow, and the end is still past evaluation (enter never
\* leads back, and no word on these lines carries a link fault).
ClaimsStand ==
    \A e \in End : \A i \in Current(e) : line[e][i].local_stable =>
        /\ discovery[e].state # "LocalEvaluating"
        /\ \A j \in Current(e) : j > i => line[e][j].local_stable

\* A restart takes the claim back at the other end with the first word that
\* arrives from the new life, whatever older words said on the way there.
RestartIsHeard ==
    \A e \in End : discovery[e].state = "LocalEvaluating" /\ life[e].heard =>
        discovery[Other(e)].state # "Converged"

\* An end says, on the line as in its state, no more than it has heard, stands by it
\* for a life, and is believed no longer than the next life's first word.
WordsAreBacked ==
    TypeOK /\ EvidenceBeforeStability /\ ClaimsStand /\ RestartIsHeard

\* An end is converged only while the last thing it heard is that the other is
\* stable: a peer that restarts takes it out of Converged with its first PDU, and
\* with that stops extended OAMPDUs.
ConvergedOnLastWord ==
    \A e \in End : discovery[e].state = "Converged" =>
        discovery[e].peer = [local_evaluating |-> FALSE, local_stable |-> TRUE]

\* Two ends that run this machine against each other never knock each other back
\* for ever: once restarts stop, both converge and stay converged, whatever the
\* relative pace of the two keepalives and whatever a full fibre drops.
BothConverge == <>[](\A e \in End : discovery[e].state = "Converged")
===============================================================================
