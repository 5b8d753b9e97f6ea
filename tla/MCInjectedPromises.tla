------------------------- MODULE MCInjectedPromises -------------------------
(***************************************************************************)
(* A small instance of InjectedPromises: the clock starts late enough for  *)
(* the earlier row to be old.                                              *)
(***************************************************************************)
EXTENDS InjectedPromises, TLC

Symmetry == Permutations(Commands)
=============================================================================
