----------------------------- MODULE MCBVHPager -----------------------------
(***************************************************************************)
(* BVHPager on a small instance: use stamps of two bits.                   *)
(***************************************************************************)
EXTENDS BVHPager

CONSTANTS hill, town

MCNodes == {hill, town}
=============================================================================
