----------------------------- MODULE MCPresence -----------------------------
(***************************************************************************)
(* Small instances of Presence for TLC: sessions of one terminal on one    *)
(* process.                                                                *)
(***************************************************************************)
EXTENDS Presence, TLC

CONSTANTS c1, c2, p1, r1, b1, b2

SamePhone == [c \in Conns |-> p1]
OneReplica == [c \in Conns |-> r1]

\* Sound where all sessions use one phone on one process, and only for safety.
Symmetry == Permutations(Conns) \cup Permutations(BeatSlots)
=============================================================================
