--------------------------- MODULE MCEvmTransfer ---------------------------
(***************************************************************************)
(* EvmTransfer for TLC: four accounts with small genesis balances and    *)
(* amounts from zero past the largest balance, so that exact-balance      *)
(* transfers, refused ones and transfers to oneself all happen.           *)
(***************************************************************************)
EXTENDS EvmTransfer, TLC

CONSTANTS a1, a2, a3, a4

MCGenesis == (a1 :> 3 @@ a2 :> 2 @@ a3 :> 1 @@ a4 :> 0)
=============================================================================
