--------------------------- MODULE MCTribeStatus ---------------------------
(***************************************************************************)
(* Small instances of TribeStatus for TLC: three addresses, the node key A, *)
(* heights 4..7 spanning chief 0.0.6 (height 4) and the Chief100/SIP100    *)
(* generation (5..7), so that n % len takes every residue for 1..3 signers.*)
(***************************************************************************)
EXTENDS TribeStatus

CONSTANTS A, B, C

\* Duplicate-free sequences over S of length lo..hi (the chief's lists).
InjSeqs(S, lo, hi) ==
  UNION {{f \in [1..k -> S] : \A i, j \in 1..k : i # j => f[i] # f[j]} : k \in lo..hi}

\* Every duplicate-free signer list of 1..3 and leader list of 0..2 addresses.
RankingStatuses ==
  [signers : InjSeqs({A, B, C}, 1, 3), leaders : InjSeqs({A, B, C}, 0, 2),
   blackList : {<<>>}]

\* The same lists, signer list possibly empty.
AnyStatuses ==
  [signers : InjSeqs({A, B, C}, 0, 2), leaders : InjSeqs({A, B, C}, 1, 2),
   blackList : {<<>>}]

MCHeights == 4..7
=============================================================================
