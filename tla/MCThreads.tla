----------------------------- MODULE MCThreads ------------------------------
(***************************************************************************)
(* FsThreads for TLC.                                                      *)
(***************************************************************************)
EXTENDS FsThreads

Symmetry == Permutations(Threads)

TwoPaths == {<<"p">>, <<"q", "r">>}
=============================================================================
