----------------------------- MODULE MCLinkIce -----------------------------
(***************************************************************************)
(* LinkIce with two threads, two sessions of the kernel and two of a       *)
(* composer, all of one peer.  The threads are interchangeable.            *)
(***************************************************************************)
EXTENDS LinkIce, TLC

CONSTANTS pk, i1, i2, c1, c2, t1, t2

Symmetry == Permutations(Threads)
=============================================================================
