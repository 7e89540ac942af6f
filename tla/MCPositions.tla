---------------------------- MODULE MCPositions ----------------------------
(***************************************************************************)
(* A small instance of Positions: two files, which are interchangeable.    *)
(***************************************************************************)
EXTENDS Positions, TLC

FileSymmetry == Permutations(Files)
=============================================================================
