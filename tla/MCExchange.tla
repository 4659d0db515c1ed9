----------------------------- MODULE MCExchange -----------------------------
(***************************************************************************)
(* Instances of Exchange for TLC: routines a1 and a2 call on end A, b1     *)
(* calls on end B.                                                         *)
(***************************************************************************)
EXTENDS Exchange, TLC

CONSTANTS a1, a2, b1

MCHome == a1 :> PeerA @@ a2 :> PeerA @@ b1 :> PeerB
MCHomeBoth == a1 :> PeerA @@ b1 :> PeerB
MCHomeA == a1 :> PeerA @@ a2 :> PeerA

\* a1 and a2 are alike; for invariants only.
MCSymmetry == Permutations({a1, a2})

\* Each end has numbers of its own, as the tests and perf configure them.
MCDisjoint == PeerA :> {11, 12} @@ PeerB :> {21}
MCDisjointOne == PeerA :> {11} @@ PeerB :> {21}
=============================================================================
