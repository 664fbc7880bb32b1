---------------------------- MODULE MCDenseStore ----------------------------
(***************************************************************************)
(* A small block list for DenseStore: blocks of unequal size, one of which *)
(* exceeds the budget.                                                     *)
(***************************************************************************)
EXTENDS DenseStore, TLC

MCBlockBytes == 0 :> 2 @@ 1 :> 3 @@ 2 :> 6 @@ 3 :> 1

=============================================================================
