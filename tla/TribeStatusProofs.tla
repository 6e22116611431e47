------------------------- MODULE TribeStatusProofs -------------------------
(***************************************************************************)
(* Type correctness of the TribeStatus store, for every value of the       *)
(* constants: every step of the store and every load keeps each variable   *)
(* in its type and keeps at most MaxTasks level goroutines alive.  The     *)
(* per-action lemmas are reused by TribeValidateProofs.                    *)
(***************************************************************************)
EXTENDS TribeStatus, TribeRotationProofs, SequenceTheorems, TLAPS

\* Removing one element of a sequence of tasks leaves a shorter sequence of
\* tasks.
LEMMA WithoutType ==
  ASSUME NEW S, NEW s \in Seq(S), NEW i \in 1..Len(s)
  PROVE  /\ Without(s, i) \in Seq(S)
         /\ Len(Without(s, i)) = Len(s) - 1
<1>1. Len(s) - 1 \in Nat
  BY LenProperties
<1>2. \A j \in 1..(Len(s) - 1) : (IF j < i THEN s[j] ELSE s[j + 1]) \in S
  BY ElementOfSeq
<1>3. Without(s, i) \in Seq(S)
  <2>1. Without(s, i) \in [1..(Len(s) - 1) -> S]
    BY <1>2 DEF Without
  <2>. QED BY <1>1, <2>1, SeqDef
<1>4. Len(Without(s, i)) = Len(s) - 1
  BY <1>1, <1>3 DEF Without
<1>. QED BY <1>3, <1>4

\* Finishing goroutine i with a level keeps the level and the tasks typed.
LEMMA FinishType ==
  ASSUME TypeOK, NEW i \in 1..Len(tasks), NEW lv \in Levels, Finish(i, lv)
  PROVE  /\ signerLevel' \in Levels
         /\ tasks' \in Seq(Task)
         /\ Len(tasks') <= MaxTasks
<1>1. tasks \in Seq(Task) /\ Len(tasks) <= MaxTasks
  BY DEF TypeOK
<1>2. Without(tasks, i) \in Seq(Task) /\ Len(Without(tasks, i)) = Len(tasks) - 1
  BY <1>1, WithoutType
<1>3. Len(tasks) \in Nat
  BY <1>1, LenProperties
<1>. QED BY <1>1, <1>2, <1>3, StatusAssumption DEF Finish

\* Advancing goroutine i to a new statement keeps the tasks typed.
LEMMA AdvanceType ==
  ASSUME TypeOK, NEW i \in 1..Len(tasks), NEW e \in Task,
         tasks' = [tasks EXCEPT ![i] = e]
  PROVE  tasks' \in Seq(Task) /\ Len(tasks') <= MaxTasks
BY ExceptSeq DEF TypeOK

\* A successful chief answer installed under the goroutine bound keeps the
\* store typed (shared by LoadStatusFromChief and ValidateBlock's refresh).
LEMMA LoadOkType ==
  ASSUME TypeOK, NEW n \in Heights, NEW st \in StatusSet,
         Len(tasks) < MaxTasks, LoadOk(n, st),
         UNCHANGED <<nodeKey, isInit, signerLevel, poller, delivered>>
  PROVE  TypeOK'
<1>1. st \in Status
  BY StatusAssumption
<1>2. [n |-> n, m |-> NoAddr, stage |-> "start"] \in Task
  BY DEF Task, TaskStages
<1>3. CASE st.leaders = <<>> /\ IsSIP100Block(n)
  BY <1>1, <1>3 DEF LoadOk, TypeOK, Status
<1>4. CASE ~(st.leaders = <<>> /\ IsSIP100Block(n))
  <2>1. tasks' = Append(tasks, [n |-> n, m |-> NoAddr, stage |-> "start"])
    BY <1>4 DEF LoadOk
  <2>2. tasks \in Seq(Task) /\ Len(tasks) \in Nat
    BY LenProperties DEF TypeOK
  <2>3. tasks' \in Seq(Task) /\ Len(tasks') <= MaxTasks
    BY <1>2, <2>1, <2>2, AppendProperties, StatusAssumption
  <2>. QED BY <1>1, <1>4, <2>3 DEF LoadOk, TypeOK, Status
<1>. QED BY <1>3, <1>4

\* A load keeps the store typed.
LEMMA LoadType ==
  ASSUME TypeOK, NEW n \in Heights, LoadStatusFromChief(n)
  PROVE  TypeOK'
<1>1. CASE \E st \in StatusSet : LoadOk(n, st)
  BY <1>1, LoadOkType DEF LoadStatusFromChief
<1>2. CASE UNCHANGED <<leaders, signers, blackList, tasks, crashed>>
  BY <1>2 DEF LoadStatusFromChief, TypeOK
<1>. QED BY <1>1, <1>2 DEF LoadStatusFromChief

\* A step of a resetSignersLevel goroutine keeps the store typed.
LEMMA LevelStepType ==
  ASSUME TypeOK, NEW i \in 1..Len(tasks), LevelStep(i)
  PROVE  TypeOK'
<1>. DEFINE t == tasks[i]
<1>1. t \in Task
  BY ElementOfSeq DEF TypeOK
<1>2. CASE LevelStart(i)
  <2>1. CASE nodeKey = NoAddr
    BY <1>2, <2>1 DEF LevelStart, TypeOK
  <2>2. CASE nodeKey # NoAddr /\ nodeKey \in Elems(signers)
    BY <1>2, <2>2, FinishType DEF LevelStart, TypeOK, Levels
  <2>3. CASE nodeKey # NoAddr /\ nodeKey \notin Elems(signers)
    <3>1. [t EXCEPT !.m = nodeKey, !.stage = "black"] \in Task
      BY <1>1, <2>3, StatusAssumption DEF Task, TaskStages, TypeOK
    <3>. QED BY <1>2, <2>3, <3>1, AdvanceType DEF LevelStart, TypeOK
  <2>. QED BY <2>1, <2>2, <2>3
<1>3. CASE LevelBlack(i)
  <2>1. [t EXCEPT !.stage = "leaders"] \in Task
    BY <1>1 DEF Task, TaskStages
  <2>2. CASE t.m \in Elems(blackList)
    BY <1>3, <2>2, FinishType, StatusAssumption DEF LevelBlack, TypeOK, Levels
  <2>3. CASE t.m \notin Elems(blackList)
    <3>1. tasks' = [tasks EXCEPT ![i] = [t EXCEPT !.stage = "leaders"]]
      BY <1>3, <2>3 DEF LevelBlack
    <3>. QED BY <1>3, <2>1, <2>3, <3>1, AdvanceType DEF LevelBlack, TypeOK
  <2>. QED BY <2>2, <2>3
<1>4. CASE LevelLeaders(i)
  <2>1. [t EXCEPT !.stage = "filter"] \in Task
    BY <1>1 DEF Task, TaskStages
  <2>2. CASE t.m \in Elems(leaders)
    BY <1>4, <2>2, FinishType, StatusAssumption DEF LevelLeaders, TypeOK, Levels
  <2>3. CASE t.m \notin Elems(leaders) /\ ChiefVersion(t.n) = "0.0.6"
    <3>1. tasks' = [tasks EXCEPT ![i] = [t EXCEPT !.stage = "filter"]]
      BY <1>4, <2>3 DEF LevelLeaders
    <3>. QED BY <1>4, <2>1, <2>3, <3>1, AdvanceType DEF LevelLeaders, TypeOK
  <2>4. CASE t.m \notin Elems(leaders) /\ ChiefVersion(t.n) # "0.0.6"
    BY <1>4, <2>4, FinishType, StatusAssumption DEF LevelLeaders, TypeOK, Levels
  <2>. QED BY <2>2, <2>3, <2>4
<1>5. CASE LevelFilterReply(i)
  BY <1>5, FinishType, StatusAssumption DEF LevelFilterReply, TypeOK, Levels
<1>. QED BY <1>2, <1>3, <1>4, <1>5 DEF LevelStep

\* The initial state is typed.
LEMMA InitType == StoreInit => TypeOK
<1> SUFFICES ASSUME StoreInit PROVE TypeOK
  OBVIOUS
<1>1. tasks \in Seq(Task) /\ Len(tasks) <= MaxTasks
  BY EmptySeq, StatusAssumption DEF StoreInit
<1>2. signers \in Seq(Addr) /\ leaders \in Seq(Addr) /\ blackList \in Seq(Addr)
  BY EmptySeq DEF StoreInit
<1>. QED BY <1>1, <1>2 DEF StoreInit, TypeOK, Levels

\* Binding a key or recomputing the level keeps the store typed.
LEMMA LevelNextType ==
  ASSUME TypeOK, LevelNext
  PROVE  TypeOK'
<1>1. CASE \E k \in Keys : SetNodeKey(k)
  BY <1>1 DEF SetNodeKey, TypeOK
<1>2. CASE \E i \in 1..Len(tasks) : LevelStep(i)
  BY <1>2, LevelStepType
<1>. QED BY <1>1, <1>2 DEF LevelNext

\* Type correctness of the store under any caller's loads.
\* Every step of the store and every load keeps it typed.
LEMMA StoreStepType ==
  TypeOK /\ [StoreNext \/ \E n \in Heights : LoadStatusFromChief(n)]_storeVars
    => TypeOK'
<1> SUFFICES ASSUME TypeOK,
                    [StoreNext \/ \E n \in Heights : LoadStatusFromChief(n)]_storeVars
             PROVE  TypeOK'
  OBVIOUS
<1>1. CASE LevelNext
  BY <1>1, LevelNextType
<1>2. CASE \E a \in Addr : GenesisSigner(a)
  BY <1>2 DEF GenesisSigner, TypeOK
<1>3. CASE TribeInit
  BY <1>3 DEF TribeInit, TypeOK
<1>4. CASE GetMinerAddressByChan
  BY <1>4 DEF GetMinerAddressByChan, TypeOK
<1>5. CASE PollReady
  BY <1>5 DEF PollReady, TypeOK
<1>6. CASE \E n \in Heights : LoadStatusFromChief(n)
  BY <1>6, LoadType
<1>7. CASE UNCHANGED storeVars
  BY <1>7 DEF storeVars, TypeOK
<1>. QED BY <1>1, <1>2, <1>3, <1>4, <1>5, <1>6, <1>7 DEF StoreNext

\* Type correctness of the store under any caller's loads.
THEOREM StoreTypeCorrect == StoreSpec => []TypeOK
BY InitType, StoreStepType, PTL DEF StoreSpec

\* Binding a key and recomputing the level leave the authority lists alone.
LEMMA LevelNextKeepsLists ==
  ASSUME LevelNext
  PROVE  UNCHANGED <<signers, leaders>> /\ ~crashed
<1>1. CASE \E k \in Keys : SetNodeKey(k)
  BY <1>1 DEF SetNodeKey
<1>2. CASE \E i \in 1..Len(tasks) : LevelStep(i)
  BY <1>2 DEF LevelStep, LevelStart, LevelBlack, LevelLeaders, LevelFilterReply
<1>. QED BY <1>1, <1>2 DEF LevelNext

-----------------------------------------------------------------------------
(***************************************************************************)
(* The ranking of the installed authority set (RotationRanking).           *)
(***************************************************************************)

\* What the ranking needs of the chief's answers: ordered lists of unique
\* addresses (spec 3), an empty signer list only with an empty leader list
\* (the empty_signers_ranking run shows what happens otherwise), and leader
\* lists short enough that the last leader's difficulty, diff - (len + 1),
\* stays above diffNoTurn.
ChiefAnswersRanked ==
  \A st \in StatusSet :
    /\ Unique(st.signers) /\ Unique(st.leaders)
    /\ st.signers = <<>> => st.leaders = <<>>
    /\ Len(st.leaders) + 1 < Diff - DiffNoTurn

\* The inductive invariant: the installed lists keep those three properties.
\* GenesisSigner installs a one-signer list beside the current leaders, and
\* a load that panics on an empty SIP100 leader list has written the empty
\* leader list beside the old signers.
RankingInv ==
  /\ TypeOK
  /\ Unique(signers) /\ Unique(leaders)
  /\ signers = <<>> => leaders = <<>>
  /\ Len(leaders) + 1 < Diff - DiffNoTurn

\* The store starts with empty lists.
LEMMA RankingInvInit ==
  ASSUME DiffNoTurn + 1 < Diff
  PROVE  StoreInit => RankingInv
<1> SUFFICES ASSUME StoreInit PROVE RankingInv
  OBVIOUS
<1>1. Len(leaders) = 0 /\ Unique(signers) /\ Unique(leaders)
  BY EmptySeq DEF StoreInit, Unique
<1>2. Len(leaders) + 1 < Diff - DiffNoTurn
  BY <1>1, ConstantsAssumption
<1>. QED BY <1>1, <1>2, InitType DEF StoreInit, RankingInv

\* A load installs the lists of a chief answer, or, when it panics on an
\* empty SIP100 leader list, the empty leader list beside the old signers.
LEMMA LoadKeepsRanking ==
  ASSUME ChiefAnswersRanked, RankingInv,
         NEW n \in Heights, LoadStatusFromChief(n)
  PROVE  /\ Unique(signers') /\ Unique(leaders')
         /\ signers' = <<>> => leaders' = <<>>
         /\ Len(leaders') + 1 < Diff - DiffNoTurn
<1>1. CASE \E st \in StatusSet : LoadOk(n, st)
  <2>1. PICK st \in StatusSet : LoadOk(n, st)
    BY <1>1
  <2>2. /\ Unique(st.signers) /\ Unique(st.leaders)
        /\ st.signers = <<>> => st.leaders = <<>>
        /\ Len(st.leaders) + 1 < Diff - DiffNoTurn
    BY DEF ChiefAnswersRanked
  <2>3. CASE st.leaders = <<>> /\ IsSIP100Block(n)
    <3>1. leaders' = <<>> /\ signers' = signers
      BY <2>1, <2>3 DEF LoadOk
    <3>2. Unique(leaders') /\ Len(leaders') + 1 < Diff - DiffNoTurn
      BY <2>2, <2>3, <3>1
    <3>. QED BY <3>1, <3>2 DEF RankingInv
  <2>4. CASE ~(st.leaders = <<>> /\ IsSIP100Block(n))
    <3>1. leaders' = st.leaders /\ signers' = st.signers
      BY <2>1, <2>4 DEF LoadOk
    <3>. QED BY <2>2, <3>1
  <2>. QED BY <2>3, <2>4
<1>2. CASE UNCHANGED <<leaders, signers, blackList, tasks, crashed>>
  BY <1>2 DEF RankingInv
<1>. QED BY <1>1, <1>2 DEF LoadStatusFromChief

\* Every step of the store and every load keeps RankingInv.
LEMMA RankingInvStep ==
  ASSUME ChiefAnswersRanked
  PROVE  RankingInv /\ [StoreNext \/ \E n \in Heights : LoadStatusFromChief(n)]_storeVars
           => RankingInv'
<1> SUFFICES ASSUME RankingInv,
                    [StoreNext \/ \E n \in Heights : LoadStatusFromChief(n)]_storeVars
             PROVE  RankingInv'
  OBVIOUS
<1>0. TypeOK'
  BY StoreStepType DEF RankingInv
<1>1. CASE \E a \in Addr : GenesisSigner(a)
  <2>1. PICK a \in Addr : GenesisSigner(a)
    BY <1>1
  <2>2. signers' = <<a>> /\ leaders' = leaders
    BY <2>1 DEF GenesisSigner
  <2>3. Unique(<<a>>) /\ <<a>> # <<>>
    BY DEF Unique
  <2>. QED BY <1>0, <2>2, <2>3 DEF RankingInv
<1>2. CASE \E n \in Heights : LoadStatusFromChief(n)
  BY <1>0, <1>2, LoadKeepsRanking DEF RankingInv
<1>3. CASE LevelNext \/ TribeInit \/ GetMinerAddressByChan \/ PollReady
         \/ UNCHANGED storeVars
  <2>1. UNCHANGED <<signers, leaders>>
    BY <1>3, LevelNextKeepsLists
       DEF TribeInit, GetMinerAddressByChan, PollReady, storeVars
  <2>. QED BY <1>0, <2>1 DEF RankingInv
<1>. QED BY <1>1, <1>2, <1>3 DEF StoreNext

\* The ranking holds in every state of the store, for every set of
\* constants, when the chief's answers are lists of unique addresses with
\* short enough leader lists and no leaders without signers, the
\* bootstrap blocks end before the Chief100 generation begins, and the
\* secondary difficulty diff - 1 beats diffNoTurn: the difficulty
\* inTurnForCalcDifficultyChief100 assigns and the producers validateSigner
\* authorizes agree on the installed Signers and Leaders, whichever loads,
\* genesis signer and panicking loads came before.
THEOREM RotationRankingHolds ==
  ASSUME ChiefAnswersRanked, ChiefNumber < Chief100Height, DiffNoTurn + 1 < Diff
  PROVE  StoreSpec => []RotationRanking
<1>1. RankingInv => RotationRanking
  <2> SUFFICES ASSUME RankingInv,
                      NEW n \in {h \in Heights : ChiefVersion(h) = "1.0.0" /\ IsSIP100Block(h)}
               PROVE  Ranking(n, signers, leaders)
    BY DEF RotationRanking
  <2>1. n \in Nat /\ n > ChiefNumber /\ IsSIP100Block(n)
    BY StatusAssumption, ConstantsAssumption DEF ChiefVersion
  <2>2. signers \in Seq(Addr) /\ leaders \in Seq(Addr)
    BY DEF RankingInv, TypeOK
  <2>. QED BY <2>1, <2>2, RankingHolds DEF RankingInv
<1>. QED BY <1>1, RankingInvInit, RankingInvStep, PTL DEF StoreSpec

=============================================================================
