---------------------------- MODULE MCBeadCreate ----------------------------
(***************************************************************************)
(* Instances of BeadCreate for TLC.  A digest is the tuple it is computed  *)
(* from, which makes it injective.                                         *)
(***************************************************************************)
EXTENDS BeadCreate

CONSTANTS p1, r1, r2, c1, c2

MCDigest(c, i, t) == <<c, i, t>>

MCHashes == Calls \X BeadIds \X (0..MaxSecond)

\* Two calls of one peer race for the head of its chain.
OnePeer == [r \in Requests |-> p1]

TwoCalls == [r \in Requests |-> IF r = r1 THEN c1 ELSE c2]
=============================================================================
