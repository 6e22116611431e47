--------------------------- MODULE TribeRotation ---------------------------
(***************************************************************************)
(* The pure part of the Tribe consensus engine (consensus/tribe/status.go): *)
(* locating a signer in the signer list, rotating the leader list, the     *)
(* expected block difficulty of the legacy and of the Chief100 rotation,   *)
(* and the authorization rule of validateSigner.  Every operator takes the *)
(* authority snapshot (signer list, leader list) as explicit arguments;    *)
(* the code reads it from the shared TribeStatus.                          *)
(***************************************************************************)
EXTENDS Integers, Sequences

CONSTANTS
  Addr,            \* the addresses that can appear as signers, leaders, keys
  NoAddr,          \* the zero address / a failed recovery (model value)
  Diff,            \* diff: the Chief100 primary difficulty
  DiffInTurnMain,  \* diffInTurnMain: legacy SIP002 main in-turn difficulty
  DiffInTurn,      \* diffInTurn: legacy in-turn difficulty
  DiffNoTurn,      \* diffNoTurn: out-of-turn difficulty
  ChiefNumber,     \* CHIEF_NUMBER: bootstrap height, blocks at or below pass
  SIP002Height,    \* first block of the SIP002 generation
  SIP100Height,    \* first block of the SIP100 (VRF) generation
  Chief006Height,  \* first block governed by chief contract version 0.0.6
  Chief100Height   \* first block governed by chief contract version 1.0.0

ASSUME ConstantsAssumption ==
  /\ NoAddr \notin Addr
  /\ {Diff, DiffInTurnMain, DiffInTurn, DiffNoTurn} \subseteq Int
  /\ {ChiefNumber, SIP002Height, SIP100Height, Chief006Height,
      Chief100Height} \subseteq Nat
  /\ Chief006Height <= Chief100Height

(***************************************************************************)
(* Protocol generations by height (params.IsSIP002Block, IsSIP100Block,    *)
(* IsBeforeChief100block, GetChiefInfo(..).Version).                       *)
(***************************************************************************)
IsSIP002Block(n) == n >= SIP002Height
IsSIP100Block(n) == n >= SIP100Height
IsBeforeChief100block(n) == n < Chief100Height
ChiefVersion(n) ==
  IF n >= Chief100Height THEN "1.0.0"
  ELSE IF n >= Chief006Height THEN "0.0.6" ELSE "0.0.x"

\* The set of elements of a sequence.
Elems(s) == {s[i] : i \in DOMAIN s}

\* The first (1-based) position of a in s, for a \in Elems(s).
FirstPos(a, s) == CHOOSE i \in DOMAIN s : s[i] = a /\ \A j \in 1..(i - 1) : s[j] # a

\* fetchOnSigners: the 0-based index of address in the signer list, or
\* NotFound (the "not_found" error).
NotFound == -1
FetchOnSigners(address, signers) ==
  IF address \in Elems(signers) THEN FirstPos(address, signers) - 1 ELSE NotFound

(***************************************************************************)
(* leaderSort(first, list): the elements after the first occurrence of     *)
(* first, followed by those before it (first itself is dropped); list      *)
(* unchanged when first does not occur in it.                              *)
(***************************************************************************)
LeaderSort(first, list) ==
  IF first \in Elems(list)
  THEN LET i == FirstPos(first, list)
       IN SubSeq(list, i + 1, Len(list)) \o SubSeq(list, 1, i - 1)
  ELSE list

\* Mutant: a leader's difficulty ignores the leader round (always i + 1).
InTurnChief100FlatLeaders(number, signer, signers, leaders) ==
  LET sl  == Len(signers)
      idx == FetchOnSigners(signer, signers)
      ls  == IF sl > 0 THEN LeaderSort(signers[1], leaders) ELSE <<>>
  IN IF idx # NotFound /\ number % sl = idx THEN Diff
     ELSE IF idx = 0 THEN Diff - 1
     ELSE IF idx = NotFound /\ signer \in Elems(ls) THEN Diff - FirstPos(signer, ls)
     ELSE DiffNoTurn

(***************************************************************************)
(* inTurnForCalcDifficultyChief100(number, parentHash, signer): primary    *)
(* difficulty for the signer whose index is number % len, one less for     *)
(* signers[0]; a non-signer that is a leader gets a difficulty by its      *)
(* position in the leader list rotated after signers[0], one higher in a   *)
(* leader round (number % len = 0).  Everyone else: diffNoTurn.            *)
(***************************************************************************)
InTurnForCalcDifficultyChief100(number, signer, signers, leaders) ==
  LET sl  == Len(signers)
      idx == FetchOnSigners(signer, signers)
      ls  == IF sl > 0 THEN LeaderSort(signers[1], leaders) ELSE <<>>
  IN IF idx # NotFound /\ number % sl = idx THEN Diff
     ELSE IF idx = 0 THEN Diff - 1
     ELSE IF idx = NotFound /\ signer \in Elems(ls)
          THEN LET i == FirstPos(signer, ls) - 1
               IN IF number % sl = 0 THEN Diff - (i + 1) ELSE Diff - (i + 2)
     ELSE DiffNoTurn

(***************************************************************************)
(* The legacy rotation shared by InTurnForCalcDifficulty (the miner, with  *)
(* number = parent + 1) and InTurnForVerifyDiffculty: under SIP002 the     *)
(* main in-turn signer is number % len and the second one (number+1) % len;*)
(* before SIP002 only number % len is in turn.                             *)
(***************************************************************************)
InTurnForCalcDifficulty(number, signer, signers) ==
  LET sl  == Len(signers)
      idx == FetchOnSigners(signer, signers)
  IN IF idx = NotFound THEN DiffNoTurn
     ELSE IF IsSIP002Block(number)
          THEN IF number % sl = idx THEN DiffInTurnMain
               ELSE IF (number + 1) % sl = idx THEN DiffInTurn
               ELSE DiffNoTurn
     ELSE IF number % sl = idx THEN DiffInTurn
     ELSE DiffNoTurn

\* InTurnForVerifyDiffculty: the Chief100 rule for version 1.0.0, otherwise
\* in turn for every block up to 3, otherwise the legacy rotation.
InTurnForVerifyDiffculty(number, signer, signers, leaders) ==
  IF ChiefVersion(number) = "1.0.0"
  THEN InTurnForCalcDifficultyChief100(number, signer, signers, leaders)
  ELSE IF number <= 3 THEN DiffInTurn
  ELSE InTurnForCalcDifficulty(number, signer, signers)

(***************************************************************************)
(* validateSigner: bootstrap blocks pass; under SIP002 the block time must *)
(* respect the period (timely); under SIP100 the coinbase must be set and  *)
(* the signer must be the in-turn signer, signers[0], or (not a signer) a  *)
(* leader; before SIP100 any signer passes.                                *)
(***************************************************************************)
ValidateSigner(number, signer, coinbaseZero, timely, signers, leaders) ==
  LET idx == FetchOnSigners(signer, signers)
  IN \/ number <= ChiefNumber
     \/ /\ IsSIP002Block(number) => timely
        /\ ~(IsSIP100Block(number) /\ coinbaseZero)
        /\ IF IsSIP100Block(number)
           THEN IF idx # NotFound
                THEN number % Len(signers) = idx \/ idx = 0
                ELSE signer \in Elems(leaders)
           ELSE idx # NotFound
-----------------------------------------------------------------------------
(***************************************************************************)
(* The ranking the two pieces of code must agree on, for block number n    *)
(* under the signer list s and leader list L.  The difficulty the rotation *)
(* assigns (inTurnForCalcDifficultyChief100) and the producers             *)
(* validateSigner authorizes are computed separately; a producer is       *)
(* authorized iff its difficulty is above diffNoTurn, authorized producers *)
(* get pairwise distinct difficulties, and the in-turn signer n % len gets *)
(* the unique highest one.                                                 *)
(***************************************************************************)
Ranking(n, s, L) ==
  LET D(a)    == InTurnForCalcDifficultyChief100(n, a, s, L)
      Auth(a) == ValidateSigner(n, a, FALSE, TRUE, s, L)
  IN /\ \A a \in Addr : Auth(a) <=> D(a) > DiffNoTurn
     /\ \A a, b \in Addr : Auth(a) /\ Auth(b) /\ a # b => D(a) # D(b)
     /\ s # <<>> =>
          \A a \in Addr : (a = s[(n % Len(s)) + 1]) <=> D(a) = Diff
=============================================================================
