------------------------ MODULE MCTribeSignersCopy -------------------------
(***************************************************************************)
(* Small instances of TribeSignersCopy: three addresses, the node's key K, *)
(* signer lists of one to three entries so that loads both grow the array *)
(* (capacities 1, 2, 4) and copy into it in place with shorter and equal  *)
(* lengths, and four loads.                                                *)
(***************************************************************************)
EXTENDS TribeSignersCopy

CONSTANTS A, B, K, l1, l2

MCLists == {<<A, K>>, <<K, B>>, <<B>>, <<A, B, K>>}
=============================================================================
