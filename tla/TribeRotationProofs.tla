------------------------- MODULE TribeRotationProofs -------------------------
(***************************************************************************)
(* Proofs about the pure rotation of TribeRotation: where fetchOnSigners  *)
(* and leaderSort put an address, and that the Chief100 difficulty and    *)
(* validateSigner agree on the ranking (Ranking) for every signer and     *)
(* leader list of unique addresses, every height of the SIP100 generation *)
(* past the bootstrap blocks, and every leader list short enough for its  *)
(* difficulties to stay above diffNoTurn.                                  *)
(***************************************************************************)
EXTENDS TribeRotation, SequenceTheorems, TLAPS

\* A list of unique addresses (the chief's signer and leader lists).
Unique(s) == \A i, j \in 1..Len(s) : s[i] = s[j] => i = j

\* Membership by position.
LEMMA ElemsIndex ==
  ASSUME NEW S, NEW s \in Seq(S), NEW a
  PROVE  a \in Elems(s) <=> \E k \in 1..Len(s) : s[k] = a
BY LenProperties DEF Elems

\* In a list of unique addresses the first position of s[k] is k.
LEMMA FirstPosUnique ==
  ASSUME NEW S, NEW s \in Seq(S), Unique(s), NEW k \in 1..Len(s)
  PROVE  FirstPos(s[k], s) = k
<1>. DEFINE P(i) == s[i] = s[k] /\ \A j \in 1..(i - 1) : s[j] # s[k]
<1>1. DOMAIN s = 1..Len(s) /\ Len(s) \in Nat
  BY LenProperties
<1>2. P(k)
  BY <1>1 DEF Unique
<1>3. \A i \in DOMAIN s : P(i) => i = k
  BY <1>1 DEF Unique
<1>4. P(CHOOSE i \in DOMAIN s : P(i)) /\ (CHOOSE i \in DOMAIN s : P(i)) \in DOMAIN s
  BY <1>1, <1>2
<1>. QED BY <1>3, <1>4 DEF FirstPos

\* fetchOnSigners of the signer at position k answers the index k - 1.
LEMMA FetchAt ==
  ASSUME NEW S, NEW s \in Seq(S), Unique(s), NEW k \in 1..Len(s)
  PROVE  FetchOnSigners(s[k], s) = k - 1
<1>1. s[k] \in Elems(s)
  BY ElemsIndex
<1>. QED BY <1>1, FirstPosUnique DEF FetchOnSigners

\* leaderSort(first, L) on a list of unique addresses: the elements after
\* position k = FirstPos(first, L), then those before it.  Position j of
\* the result holds L[LeaderAt(k, Len(L), j)].
LeaderAt(k, N, j) == IF j <= N - k THEN k + j ELSE j - (N - k)

LEMMA LeaderSortAt ==
  ASSUME NEW L \in Seq(Addr), NEW k \in 1..Len(L)
  PROVE  LET ls == SubSeq(L, k + 1, Len(L)) \o SubSeq(L, 1, k - 1)
         IN  /\ ls \in Seq(Addr)
             /\ Len(ls) = Len(L) - 1
             /\ \A j \in 1..(Len(L) - 1) :
                  /\ LeaderAt(k, Len(L), j) \in (1..Len(L)) \ {k}
                  /\ ls[j] = L[LeaderAt(k, Len(L), j)]
<1>. DEFINE N == Len(L)
            A == SubSeq(L, k + 1, N)
            B == SubSeq(L, 1, k - 1)
            AB == A \o B
<1>1. N \in Nat /\ k \in 1..N
  BY LenProperties
<1>2. A \in Seq(Addr) /\ Len(A) = N - k
  BY <1>1, SubSeqProperties
<1>3. \A j \in 1..(N - k) : A[j] = L[k + j]
  BY <1>1, SubSeqProperties
<1>4. B \in Seq(Addr) /\ Len(B) = k - 1
  BY <1>1, SubSeqProperties
<1>5. \A j \in 1..(k - 1) : B[j] = L[j]
  BY <1>1, SubSeqProperties
<1> HIDE DEF A, B, AB
<1>11. /\ A \o B \in Seq(Addr) /\ Len(A \o B) = Len(A) + Len(B)
       /\ \A j \in 1..(Len(A) + Len(B)) :
            (A \o B)[j] = IF j <= Len(A) THEN A[j] ELSE B[j - Len(A)]
  BY <1>2, <1>4, ConcatProperties
<1>15. AB = A \o B
  BY DEF AB
<1>6. AB \in Seq(Addr) /\ Len(AB) = Len(A) + Len(B)
  BY <1>11, <1>15
<1>7. \A j \in 1..(Len(A) + Len(B)) :
        AB[j] = IF j <= Len(A) THEN A[j] ELSE B[j - Len(A)]
  BY <1>11, <1>15
<1>12. Len(A) = N - k /\ Len(B) = k - 1 /\ Len(AB) = Len(A) + Len(B)
  BY <1>2, <1>4, <1>6
<1>8. Len(AB) = N - 1
  BY <1>1, <1>12
<1>9. \A j \in 1..(N - 1) : LeaderAt(k, N, j) \in (1..N) \ {k}
  BY <1>1 DEF LeaderAt
<1>10. \A j \in 1..(N - 1) : AB[j] = L[LeaderAt(k, N, j)]
  <2>. TAKE j \in 1..(N - 1)
  <2>0. j \in 1..(Len(A) + Len(B))
    BY <1>1, <1>2, <1>4
  <2>1. CASE j <= N - k
    <3>1. j <= Len(A)
      BY <1>2, <2>1
    <3>2. AB[j] = A[j]
      BY <1>7, <2>0, <3>1
    <3>3. A[j] = L[k + j]
      BY <1>1, <1>3, <2>1
    <3>4. LeaderAt(k, N, j) = k + j
      BY <2>1 DEF LeaderAt
    <3>. QED BY <3>2, <3>3, <3>4
  <2>2. CASE ~(j <= N - k)
    <3>1. ~(j <= Len(A)) /\ j - Len(A) = j - (N - k)
      BY <1>2, <2>2
    <3>2. AB[j] = B[j - (N - k)]
      BY <1>7, <2>0, <3>1
    <3>3. B[j - (N - k)] = L[j - (N - k)]
      BY <1>1, <1>5, <2>2
    <3>4. LeaderAt(k, N, j) = j - (N - k)
      BY <2>2 DEF LeaderAt
    <3>. QED BY <3>2, <3>3, <3>4
  <2>. QED BY <2>1, <2>2
<1>. QED BY <1>6, <1>8, <1>9, <1>10 DEF AB, A, B

\* What leaderSort(first, L) keeps of a list of unique addresses: a list of
\* unique addresses, no longer, holding every address of L but first.
LEMMA LeaderSortKeeps ==
  ASSUME NEW L \in Seq(Addr), Unique(L), NEW f
  PROVE  LET ls == LeaderSort(f, L)
         IN  /\ ls \in Seq(Addr) /\ Unique(ls) /\ Len(ls) <= Len(L)
             /\ Elems(ls) \subseteq Elems(L)
             /\ \A a \in Elems(L) : a # f => a \in Elems(ls)
<1>1. CASE f \notin Elems(L)
  BY <1>1 DEF LeaderSort
<1>2. CASE f \in Elems(L)
  <2>1. PICK k \in 1..Len(L) : L[k] = f
    BY <1>2, ElemsIndex
  <2>2. FirstPos(f, L) = k
    BY <2>1, FirstPosUnique
  <2>. DEFINE srt == SubSeq(L, k + 1, Len(L)) \o SubSeq(L, 1, k - 1)
              at(j) == LeaderAt(k, Len(L), j)
  <2>3. LeaderSort(f, L) = srt
    BY <1>2, <2>2 DEF LeaderSort
  <2>14. /\ srt \in Seq(Addr) /\ Len(srt) = Len(L) - 1
         /\ \A j \in 1..(Len(L) - 1) :
              /\ LeaderAt(k, Len(L), j) \in (1..Len(L)) \ {k}
              /\ srt[j] = L[LeaderAt(k, Len(L), j)]
    BY LeaderSortAt, Zenon
  <2> HIDE DEF srt
  <2>4. /\ srt \in Seq(Addr) /\ Len(srt) = Len(L) - 1
        /\ \A j \in 1..(Len(L) - 1) : at(j) \in (1..Len(L)) \ {k} /\ srt[j] = L[at(j)]
    BY <2>14
  <2>12. Len(srt) = Len(L) - 1
    BY <2>4
  <2>5. Len(L) \in Nat
    BY LenProperties
  <2>6. \A i, j \in 1..(Len(L) - 1) : at(i) = at(j) => i = j
    BY <2>5 DEF LeaderAt
  <2>7. \A m \in (1..Len(L)) \ {k} : \E j \in 1..(Len(L) - 1) : at(j) = m
    <3>. TAKE m \in (1..Len(L)) \ {k}
    <3>1. CASE m > k
      <4>1. m - k \in 1..(Len(L) - 1) /\ at(m - k) = m
        BY <2>5, <3>1 DEF LeaderAt
      <4>. QED BY <4>1
    <3>2. CASE m < k
      <4>1. m + (Len(L) - k) \in 1..(Len(L) - 1) /\ at(m + (Len(L) - k)) = m
        BY <2>5, <3>2 DEF LeaderAt
      <4>. QED BY <4>1
    <3>. QED BY <2>5, <3>1, <3>2
  <2>8. Unique(srt)
    BY <2>4, <2>6 DEF Unique
  <2>9. Elems(srt) \subseteq Elems(L)
    <3>1. DOMAIN srt = 1..(Len(L) - 1) /\ DOMAIN L = 1..Len(L)
      BY <2>4, LenProperties
    <3>. QED BY <2>4, <3>1 DEF Elems
  <2>10. \A a \in Elems(L) : a # f => a \in Elems(srt)
    <3>. TAKE a \in Elems(L)
    <3>. HAVE a # f
    <3>1. PICK m \in 1..Len(L) : L[m] = a
      BY ElemsIndex
    <3>2. m # k
      BY <2>1, <3>1
    <3>3. PICK j \in 1..(Len(L) - 1) : at(j) = m
      BY <2>7, <3>2
    <3>. QED BY <2>4, <3>1, <3>3, LenProperties DEF Elems
  <2>11. /\ srt \in Seq(Addr) /\ Unique(srt) /\ Len(srt) <= Len(L)
         /\ Elems(srt) \subseteq Elems(L)
         /\ \A a \in Elems(L) : a # f => a \in Elems(srt)
    <3>1. Len(srt) <= Len(L)
      BY <2>5, <2>12
    <3>. QED BY <2>4, <2>8, <2>9, <2>10, <3>1, Zenon
  <2>. QED BY <2>3, <2>11, Zenon
<1>. QED BY <1>1, <1>2
-----------------------------------------------------------------------------
(***************************************************************************)
(* The difficulty and the authorization of each kind of producer at a     *)
(* height n of the SIP100 generation past the bootstrap blocks.            *)
(***************************************************************************)

\* The two sides of Ranking at height n, for address a and lists s and L:
\* the difficulty inTurnForCalcDifficultyChief100 gives a, and
\* validateSigner's answer on a timely header with a non-zero coinbase.
DiffAt(n, a, s, L) == InTurnForCalcDifficultyChief100(n, a, s, L)
AuthAt(n, a, s, L) == ValidateSigner(n, a, FALSE, TRUE, s, L)

\* validateSigner there: a signer by its index, anyone else by the leaders.
LEMMA AuthRule ==
  ASSUME NEW n \in Nat, n > ChiefNumber, IsSIP100Block(n),
         NEW s, NEW L, NEW a
  PROVE  AuthAt(n, a, s, L) <=>
           IF FetchOnSigners(a, s) # NotFound
           THEN n % Len(s) = FetchOnSigners(a, s) \/ FetchOnSigners(a, s) = 0
           ELSE a \in Elems(L)
BY ConstantsAssumption DEF AuthAt, ValidateSigner

\* The signer at position k: primary difficulty in its turn, one less at
\* position 1, diffNoTurn otherwise; authorized exactly in the first two.
LEMMA SignerRank ==
  ASSUME NEW n \in Nat, n > ChiefNumber, IsSIP100Block(n),
         NEW s \in Seq(Addr), Unique(s), NEW L \in Seq(Addr), NEW k \in 1..Len(s)
  PROVE  /\ DiffAt(n, s[k], s, L) =
              IF n % Len(s) = k - 1 THEN Diff ELSE IF k = 1 THEN Diff - 1 ELSE DiffNoTurn
         /\ AuthAt(n, s[k], s, L) <=> (n % Len(s) = k - 1 \/ k = 1)
<1>1. FetchOnSigners(s[k], s) = k - 1 /\ k - 1 # NotFound
  BY FetchAt DEF NotFound
<1>2. DiffAt(n, s[k], s, L) =
        IF n % Len(s) = k - 1 THEN Diff ELSE IF k = 1 THEN Diff - 1 ELSE DiffNoTurn
  BY <1>1 DEF DiffAt, InTurnForCalcDifficultyChief100
<1>3. AuthAt(n, s[k], s, L) <=>
        IF FetchOnSigners(s[k], s) # NotFound
        THEN n % Len(s) = FetchOnSigners(s[k], s) \/ FetchOnSigners(s[k], s) = 0
        ELSE s[k] \in Elems(L)
  BY AuthRule
<1>4. (k - 1 = 0) <=> (k = 1)
  OBVIOUS
<1>. QED BY <1>1, <1>2, <1>3, <1>4, Zenon

\* SignerRank for every position of the signer list at once.
LEMMA SignerRankAll ==
  ASSUME NEW n \in Nat, n > ChiefNumber, IsSIP100Block(n),
         NEW s \in Seq(Addr), Unique(s), NEW L \in Seq(Addr)
  PROVE  \A k \in 1..Len(s) :
           /\ DiffAt(n, s[k], s, L) =
                IF n % Len(s) = k - 1 THEN Diff ELSE IF k = 1 THEN Diff - 1 ELSE DiffNoTurn
           /\ AuthAt(n, s[k], s, L) <=> (n % Len(s) = k - 1 \/ k = 1)
<1>. TAKE k \in 1..Len(s)
<1>. QED BY SignerRank

\* A leader that is not a signer: its position p in the leader list rotated
\* after signers[0] gives diff - p in a leader round, diff - (p + 1) else.
LEMMA LeaderRank ==
  ASSUME NEW n \in Nat, n > ChiefNumber, IsSIP100Block(n),
         NEW s \in Seq(Addr), s # <<>>, NEW L \in Seq(Addr), Unique(L),
         NEW a \in Elems(L), a \notin Elems(s)
  PROVE  LET ls == LeaderSort(s[1], L)
             p  == FirstPos(a, ls)
         IN  /\ p \in 1..Len(L) /\ ls[p] = a
             /\ DiffAt(n, a, s, L) =
                  IF n % Len(s) = 0 THEN Diff - p ELSE Diff - (p + 1)
             /\ AuthAt(n, a, s, L)
<1>. DEFINE ls == LeaderSort(s[1], L)
<1>1. Len(s) \in Nat /\ Len(s) > 0 /\ 1 \in 1..Len(s)
  BY LenProperties, EmptySeq, SeqEqual
<1>2. s[1] \in Elems(s) /\ a # s[1]
  BY <1>1, ElemsIndex
<1>3. ls \in Seq(Addr) /\ Unique(ls) /\ Len(ls) <= Len(L) /\ a \in Elems(ls)
  BY <1>2, LeaderSortKeeps
<1> HIDE DEF ls
<1>4. PICK q \in 1..Len(ls) : ls[q] = a
  BY <1>3, ElemsIndex
<1>5. FirstPos(a, ls) = q
  BY <1>3, <1>4, FirstPosUnique
<1>6. FetchOnSigners(a, s) = NotFound
  BY DEF FetchOnSigners
<1>7. DiffAt(n, a, s, L) =
        IF n % Len(s) = 0 THEN Diff - q ELSE Diff - (q + 1)
  <2>1. NotFound # 0 /\ ~(NotFound # NotFound)
    BY DEF NotFound
  <2>. QED BY <1>1, <1>3, <1>5, <1>6, <2>1 DEF DiffAt, InTurnForCalcDifficultyChief100, ls
<1>8. AuthAt(n, a, s, L)
  BY <1>6, AuthRule
<1>9. q \in 1..Len(L)
  BY <1>3, <1>4, LenProperties
<1>. QED BY <1>4, <1>5, <1>7, <1>8, <1>9 DEF ls

\* Anyone in neither list gets diffNoTurn and is not authorized.
LEMMA OtherRank ==
  ASSUME NEW n \in Nat, n > ChiefNumber, IsSIP100Block(n),
         NEW s \in Seq(Addr), NEW L \in Seq(Addr), Unique(L),
         NEW a \in Addr, a \notin Elems(s), a \notin Elems(L)
  PROVE  /\ DiffAt(n, a, s, L) = DiffNoTurn
         /\ ~AuthAt(n, a, s, L)
<1>1. FetchOnSigners(a, s) = NotFound /\ NotFound # 0 /\ ~(NotFound # NotFound)
  BY DEF FetchOnSigners, NotFound
<1>2. a \notin Elems(IF Len(s) > 0 THEN LeaderSort(s[1], L) ELSE <<>>)
  <2>1. CASE Len(s) > 0
    BY <2>1, LeaderSortKeeps
  <2>2. CASE ~(Len(s) > 0)
    BY <2>2 DEF Elems
  <2>. QED BY <2>1, <2>2
<1>3. DiffAt(n, a, s, L) = DiffNoTurn
  BY <1>1, <1>2 DEF DiffAt, InTurnForCalcDifficultyChief100
<1>. QED BY <1>1, <1>3, AuthRule
-----------------------------------------------------------------------------
(***************************************************************************)
(* The ranking.                                                            *)
(***************************************************************************)

\* inTurnForCalcDifficultyChief100 and validateSigner agree (Ranking) at
\* every height of the SIP100 generation past CHIEF_NUMBER, for every
\* signer list and leader list of unique addresses (spec 3: the chief's
\* lists are ordered lists of unique addresses) such that an empty signer
\* list comes with an empty leader list and the leaders' difficulties,
\* down to diff - (len(leaders) + 1), stay above diffNoTurn.  Producers are
\* authorized iff their difficulty beats diffNoTurn, no two authorized
\* producers tie, and only the in-turn signer gets diff.
THEOREM RankingHolds ==
  ASSUME NEW n \in Nat, n > ChiefNumber, IsSIP100Block(n),
         NEW s \in Seq(Addr), Unique(s), NEW L \in Seq(Addr), Unique(L),
         s = <<>> => L = <<>>,
         Len(L) + 1 < Diff - DiffNoTurn
  PROVE  Ranking(n, s, L)
<1>. DEFINE D(x)    == DiffAt(n, x, s, L)
            Auth(x) == AuthAt(n, x, s, L)
<1>1. Diff \in Int /\ DiffNoTurn \in Int /\ Len(L) \in Nat /\ Len(s) \in Nat
  BY ConstantsAssumption, LenProperties
<1>4. Diff - 1 > DiffNoTurn
  BY <1>1
<1>2. CASE s = <<>>
  <2>1. \A a \in Addr : D(a) = DiffNoTurn /\ ~Auth(a)
    <3>. TAKE a \in Addr
    <3>1. a \notin Elems(s) /\ a \notin Elems(L)
      BY <1>2 DEF Elems
    <3>. QED BY <3>1, OtherRank
  <2> HIDE DEF D, Auth
  <2>2. \A a \in Addr : Auth(a) <=> D(a) > DiffNoTurn
    <3>. TAKE a \in Addr
    <3>1. D(a) = DiffNoTurn /\ ~Auth(a)
      BY <2>1
    <3>2. ~(D(a) > DiffNoTurn)
      BY <1>1, <3>1
    <3>. QED BY <3>1, <3>2, Zenon
  <2>3. \A a, b \in Addr : Auth(a) /\ Auth(b) /\ a # b => D(a) # D(b)
    BY <2>1
  <2>. QED BY <1>2, <2>2, <2>3 DEF Ranking, D, Auth, DiffAt, AuthAt
<1>3. CASE s # <<>>
  <2>. DEFINE r == n % Len(s)
  <2>1. Len(s) > 0 /\ r \in 0..(Len(s) - 1)
    BY <1>1, <1>3, EmptySeq, SeqEqual
  <2>2. \A a \in Addr :
          \/ \E k \in 1..Len(s) : a = s[k]
          \/ a \notin Elems(s) /\ a \in Elems(L)
          \/ a \notin Elems(s) /\ a \notin Elems(L)
    BY ElemsIndex
  \* The signer at position k, authorized: diff in its turn, diff - 1 at 1.
  <2>3. \A k \in 1..Len(s) :
          /\ D(s[k]) = IF r = k - 1 THEN Diff ELSE IF k = 1 THEN Diff - 1 ELSE DiffNoTurn
          /\ Auth(s[k]) <=> (r = k - 1 \/ k = 1)
    BY SignerRankAll DEF D, Auth, r
  \* A leader that is no signer, at position p of the rotated leader list.
  <2>4. \A a \in Elems(L) : a \notin Elems(s) =>
          \E p \in 1..Len(L) :
            /\ LeaderSort(s[1], L)[p] = a
            /\ D(a) = IF r = 0 THEN Diff - p ELSE Diff - (p + 1)
            /\ Auth(a)
    <3>1. \A a \in Elems(L) : a \notin Elems(s) =>
            LET p == FirstPos(a, LeaderSort(s[1], L))
            IN  /\ p \in 1..Len(L) /\ LeaderSort(s[1], L)[p] = a
                /\ DiffAt(n, a, s, L) =
                     IF n % Len(s) = 0 THEN Diff - p ELSE Diff - (p + 1)
                /\ AuthAt(n, a, s, L)
      BY <1>3, LeaderRank
    <3>. QED BY <3>1 DEF D, Auth, r
  <2>5. \A a \in Addr : a \notin Elems(s) /\ a \notin Elems(L) =>
                          D(a) = DiffNoTurn /\ ~Auth(a)
    BY OtherRank DEF D, Auth
  <2> HIDE DEF D, Auth, r
  <2>6. \A a \in Addr : Auth(a) <=> D(a) > DiffNoTurn
    <3>. TAKE a \in Addr
    <3>1. CASE \E k \in 1..Len(s) : a = s[k]
      <4>1. PICK k \in 1..Len(s) : a = s[k]
        BY <3>1
      <4>2. /\ D(a) = IF r = k - 1 THEN Diff ELSE IF k = 1 THEN Diff - 1 ELSE DiffNoTurn
            /\ Auth(a) <=> (r = k - 1 \/ k = 1)
        BY <2>3, <4>1
      <4>3. CASE r = k - 1 \/ k = 1
        <5>1. D(a) > DiffNoTurn
          BY <1>1, <1>4, <4>2, <4>3
        <5>. QED BY <4>2, <4>3, <5>1, Zenon
      <4>4. CASE ~(r = k - 1 \/ k = 1)
        <5>1. ~(D(a) > DiffNoTurn)
          BY <1>1, <4>2, <4>4
        <5>. QED BY <4>2, <4>4, <5>1, Zenon
      <4>. QED BY <4>3, <4>4
    <3>2. CASE a \notin Elems(s) /\ a \in Elems(L)
      <4>1. PICK p \in 1..Len(L) : D(a) = (IF r = 0 THEN Diff - p ELSE Diff - (p + 1)) /\ Auth(a)
        BY <3>2, <2>4
      <4>. QED BY <1>1, <4>1
    <3>3. CASE a \notin Elems(s) /\ a \notin Elems(L)
      BY <3>3, <2>5, <1>1
    <3>. QED BY <2>2, <3>1, <3>2, <3>3
  <2>7. \A a, b \in Addr : Auth(a) /\ Auth(b) /\ a # b => D(a) # D(b)
    <3>. TAKE a, b \in Addr
    <3>. HAVE Auth(a) /\ Auth(b) /\ a # b
    <3>1. a \in Elems(s) \/ a \in Elems(L)
      BY <2>5
    <3>2. b \in Elems(s) \/ b \in Elems(L)
      BY <2>5
    <3>3. CASE a \in Elems(s) /\ b \in Elems(s)
      <4>1. PICK ka \in 1..Len(s) : a = s[ka]
        BY <3>3, ElemsIndex
      <4>2. PICK kb \in 1..Len(s) : b = s[kb]
        BY <3>3, ElemsIndex
      <4>. QED BY <1>1, <2>3, <4>1, <4>2
    <3>4. CASE a \in Elems(s) /\ b \notin Elems(s)
      <4>1. PICK ka \in 1..Len(s) : a = s[ka]
        BY <3>4, ElemsIndex
      <4>2. PICK pb \in 1..Len(L) : D(b) = IF r = 0 THEN Diff - pb ELSE Diff - (pb + 1)
        BY <3>2, <3>4, <2>4
      <4>. QED BY <1>1, <2>1, <2>3, <4>1, <4>2
    <3>5. CASE a \notin Elems(s) /\ b \in Elems(s)
      <4>1. PICK kb \in 1..Len(s) : b = s[kb]
        BY <3>5, ElemsIndex
      <4>2. PICK pa \in 1..Len(L) : D(a) = IF r = 0 THEN Diff - pa ELSE Diff - (pa + 1)
        BY <3>1, <3>5, <2>4
      <4>. QED BY <1>1, <2>1, <2>3, <4>1, <4>2
    <3>6. CASE a \notin Elems(s) /\ b \notin Elems(s)
      <4>1. PICK pa \in 1..Len(L) :
              LeaderSort(s[1], L)[pa] = a /\ D(a) = IF r = 0 THEN Diff - pa ELSE Diff - (pa + 1)
        BY <3>1, <3>6, <2>4
      <4>2. PICK pb \in 1..Len(L) :
              LeaderSort(s[1], L)[pb] = b /\ D(b) = IF r = 0 THEN Diff - pb ELSE Diff - (pb + 1)
        BY <3>2, <3>6, <2>4
      <4>3. pa # pb
        BY <4>1, <4>2
      <4>. QED BY <1>1, <4>1, <4>2, <4>3
    <3>. QED BY <3>3, <3>4, <3>5, <3>6
  <2>8. \A a \in Addr : (a = s[r + 1]) <=> D(a) = Diff
    <3>. TAKE a \in Addr
    <3>1. r + 1 \in 1..Len(s)
      BY <2>1
    <3>2. CASE \E k \in 1..Len(s) : a = s[k]
      <4>1. PICK k \in 1..Len(s) : a = s[k]
        BY <3>2
      <4>2. (s[k] = s[r + 1]) <=> (k = r + 1)
        BY <3>1 DEF Unique
      <4>3. D(a) = IF r = k - 1 THEN Diff ELSE IF k = 1 THEN Diff - 1 ELSE DiffNoTurn
        BY <2>3, <4>1
      <4>4. (D(a) = Diff) <=> (k = r + 1)
        <5>1. k = r + 1 => D(a) = Diff
          BY <2>1, <4>3
        <5>2. k # r + 1 => D(a) # Diff
          BY <1>1, <1>4, <2>1, <4>3
        <5>. QED BY <5>1, <5>2
      <4>. QED BY <4>1, <4>2, <4>4, Zenon
    <3>3. CASE a \notin Elems(s) /\ a \in Elems(L)
      <4>1. PICK p \in 1..Len(L) : D(a) = IF r = 0 THEN Diff - p ELSE Diff - (p + 1)
        BY <3>3, <2>4
      <4>2. a # s[r + 1]
        BY <3>1, <3>3, ElemsIndex
      <4>. QED BY <1>1, <4>1, <4>2
    <3>4. CASE a \notin Elems(s) /\ a \notin Elems(L)
      <4>1. a # s[r + 1]
        BY <3>1, <3>4, ElemsIndex
      <4>. QED BY <1>1, <2>5, <3>4, <4>1
    <3>. QED BY <2>2, <3>2, <3>3, <3>4
  <2>. QED BY <1>3, <2>6, <2>7, <2>8 DEF Ranking, D, Auth, r, DiffAt, AuthAt
<1>. QED BY <1>2, <1>3
=============================================================================
