-------------------------- MODULE MCTribeValidate --------------------------
(***************************************************************************)
(* ValidateBlock for TLC: blocks at the bootstrap height 3, at height 4    *)
(* (SIP002, chief 0.0.6) and at 5..6 (Chief100, SIP100), signed by each of *)
(* three addresses or unrecoverable, with each difficulty the Chief100     *)
(* rotation can give, and transaction lists that place the chief tx first, *)
(* second, twice, not at all, or from another sender.                      *)
(***************************************************************************)
EXTENDS TribeValidate

CONSTANTS A, B, C

Plain == [chief |-> FALSE, from |-> B]
ChiefBy(a) == [chief |-> TRUE, from |-> a]

TxLists ==
  {<<>>, <<Plain>>, <<ChiefBy(A)>>, <<ChiefBy(B)>>, <<ChiefBy(C)>>,
   <<Plain, ChiefBy(A)>>, <<ChiefBy(A), ChiefBy(A)>>, <<ChiefBy(A), Plain>>}

MCBlocks ==
  [number : 3..6, signer : {A, B, C, NoAddr}, difficulty : {6, 5, 4, 1},
   coinbaseZero : {FALSE}, txs : TxLists]
  \cup
  [number : {6}, signer : {A}, difficulty : {6}, coinbaseZero : {TRUE},
   txs : {<<ChiefBy(A)>>}]

\* Authority sets: A in turn at even heights of two signers, B and C leaders.
MCStatuses ==
  {[signers |-> <<A, B>>, leaders |-> <<C>>,    blackList |-> <<>>],
   [signers |-> <<B, A>>, leaders |-> <<C, A>>, blackList |-> <<>>],
   [signers |-> <<A>>,    leaders |-> <<>>,     blackList |-> <<>>]}

MCHeights == 3..6
=============================================================================
