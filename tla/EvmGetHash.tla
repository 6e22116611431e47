---------------------------- MODULE EvmGetHash ----------------------------
(***************************************************************************)
(* core/evm.go GetHashFn: the BLOCKHASH lookup the EVM context gets.  For  *)
(* the header ref of the block being executed it walks the chain backwards *)
(* through ChainContext.GetHeader(parentHash, number - 1), starting at     *)
(* ref's parent, and returns the hash of the first header whose number is  *)
(* n, or the zero hash once a lookup finds no header.  The chain grows by  *)
(* inserting children of stored headers (forks included); a header is      *)
(* named by its hash.  Numbers are uint64: number - 1 wraps at 0.          *)
(***************************************************************************)
EXTENDS EvmChain, TLC

\* The loop of the closure, from the header h on.
RECURSIVE Walk(_, _)
Walk(h, n) ==
  IF h = NoHeader THEN NoHash
  ELSE IF chain[h].number = n THEN h
  ELSE Walk(GetHeader(chain[h].parent, Dec(chain[h].number)), n)

\* Mutant: the walk looks the parent up under ref's own number.
GetHashFnNoDec(ref, n) == Walk(GetHeader(ref.parent, ref.number), n)

\* GetHashFn(ref, chain)(n).
GetHashFn(ref, n) == Walk(GetHeader(ref.parent, Dec(ref.number)), n)

-----------------------------------------------------------------------------
(***************************************************************************)
(* The reference: the hash of the strict ancestor of ref at height n on    *)
(* ref's own branch, found by counting parent links rather than comparing  *)
(* numbers; the zero hash when there is none (n >= ref's number, or the    *)
(* ancestry is not stored).                                                *)
(***************************************************************************)
\* The header k parent links above the stored header h, NoHash when the
\* ancestry breaks off before.
Up(h, k) ==
  LET f[i \in 0..k] == IF i = 0 THEN h
                      ELSE IF f[i - 1] \in DOMAIN chain THEN chain[f[i - 1]].parent
                      ELSE NoHash
  IN IF f[k] \in DOMAIN chain THEN f[k] ELSE NoHash

\* Heights drop by one per parent link, so the ancestor at height n is
\* ref.number - n links above ref.
AncestorAt(ref, n) ==
  IF n < ref.number THEN Up(ref.parent, ref.number - 1 - n) ELSE NoHash

\* The headers a block can be executed on top of: a child of any stored
\* header, a stored header itself, and a header whose parent is not stored
\* (a genesis-like header with number 0 among them).
Refs ==
  {[parent |-> p, number |-> chain[p].number + 1] : p \in DOMAIN chain}
  \cup {chain[h] : h \in DOMAIN chain}
  \cup {[parent |-> NoHash, number |-> k] : k \in {0, 1, MaxUint}}

\* BLOCKHASH(n) as GetHashFn computes it is the hash of ref's ancestor at
\* height n on ref's own fork, and the zero hash for ref itself, for later
\* heights and for an unknown ancestry (the wrap of 0 - 1 included).
GetHashMatchesAncestor ==
  \A ref \in Refs, n \in (0..(MaxBlocks + 1)) \cup {MaxUint} :
    GetHashFn(ref, n) = AncestorAt(ref, n)
=============================================================================
