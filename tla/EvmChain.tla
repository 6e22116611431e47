----------------------------- MODULE EvmChain -----------------------------
(***************************************************************************)
(* The chain core/evm.go GetHashFn reads through ChainContext: a map from  *)
(* header hash to (parent hash, number), growing by inserting children of  *)
(* stored headers (forks included); a header is named by its hash.  With   *)
(* it, the two operations one step of GetHashFn's loop makes: the uint64   *)
(* number - 1 (which wraps at 0) and the GetHeader(parentHash, number)     *)
(* lookup.  The loop itself is in EvmGetHash.                              *)
(***************************************************************************)
EXTENDS Naturals, FiniteSets

CONSTANTS
  NoHash,     \* common.Hash{}, the zero hash; also the genesis parent hash
  MaxUint,    \* the largest uint64 (2^64 - 1 in the code)
  MaxBlocks   \* the chain grows to at most this many headers

ASSUME EvmGetHashAssumption ==
  /\ NoHash \notin Nat
  /\ MaxBlocks \in Nat \ {0}
  /\ MaxUint \in Nat /\ MaxUint > MaxBlocks

VARIABLE chain  \* stored headers: hash -> [parent |-> hash, number |-> n]

Header == [parent : Nat \cup {NoHash}, number : 0..MaxUint]

TypeOK ==
  /\ DOMAIN chain \subseteq 1..MaxBlocks
  /\ \A h \in DOMAIN chain : chain[h] \in Header

\* The chain holds its genesis header, hash 1.
Init == chain = [h \in {1} |-> [parent |-> NoHash, number |-> 0]]

\* A header extending the stored header p is inserted (the next hash).
Insert(p) ==
  LET h == Cardinality(DOMAIN chain) + 1
  IN /\ h <= MaxBlocks
     /\ chain' = [x \in DOMAIN chain \cup {h} |->
                   IF x = h THEN [parent |-> p, number |-> chain[p].number + 1]
                   ELSE chain[x]]

Next == \E p \in DOMAIN chain : Insert(p)

Spec == Init /\ [][Next]_chain

-----------------------------------------------------------------------------
\* x - 1 on uint64.
Dec(x) == (x - 1) % (MaxUint + 1)

\* ChainContext.GetHeader(hash, number): the stored header with that hash
\* and number, or nil.
NoHeader == NoHash
GetHeader(h, n) ==
  IF h \in DOMAIN chain /\ chain[h].number = n THEN h ELSE NoHeader

=============================================================================
