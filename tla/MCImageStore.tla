----------------------------- MODULE MCImageStore -----------------------------
(* A small instance of ImageStore: two digests of two layers, one container. *)
EXTENDS ImageStore, TLC

CONSTANT c1

TwoDigests == 1..2
Symmetric == Permutations(Tags)
==============================================================================
