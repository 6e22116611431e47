------------------------ MODULE TribeValidateProofs ------------------------
(***************************************************************************)
(* Proofs about ValidateBlock composed with the status store, for every    *)
(* value of the constants, when ValidateBlock is the only caller of        *)
(* LoadStatusFromChief (Spec): type correctness, and that an accepted      *)
(* follower block was checked against the status its own refresh          *)
(* installed.  The latter fails under SpecWithPrepare (run                 *)
(* validate_prepare_race).                                                 *)
(***************************************************************************)
EXTENDS TribeValidate, TribeStatusProofs, TLAPS

\* The transaction loop accepts only a block whose single chief tx is the
\* first one and, on the follower path, was sent by the block's signer.
LEMMA TxCheckOk ==
  ASSUME NEW b, NEW vs, NEW volunteerOk, TxCheckResult(b, vs, volunteerOk) = "ok"
  PROVE  /\ ChiefPositions(b) = {1}
         /\ vs => b.txs[1].from = b.signer
BY DEF TxCheckResult

\* validateSigner only gets stricter when the period check is enforced:
\* what it accepts for some timeliness it accepts for a timely block.
LEMMA ValidateSignerTimely ==
  ASSUME NEW n, NEW a, NEW cz, NEW timely, NEW s, NEW l,
         ValidateSigner(n, a, cz, timely, s, l)
  PROVE  ValidateSigner(n, a, cz, TRUE, s, l)
BY DEF ValidateSigner

\* The state is typed once ValidateBlock's variables are.
LEMMA ValInitType == Init => ValTypeOK
<1> SUFFICES ASSUME Init PROVE ValTypeOK
  OBVIOUS
<1>1. TypeOK
  BY InitType DEF Init
<1>. QED BY <1>1 DEF Init, ValTypeOK

\* Every step of Spec keeps the state typed.
LEMMA ValStepType ==
  ASSUME ValTypeOK, [Next]_vars
  PROVE  ValTypeOK'
<1>. USE DEF ValTypeOK
<1>1. blk \in Block
  BY ValidateAssumption
<1>2. CASE \E b \in Blocks, vs \in BOOLEAN : Arrive(b, vs)
  BY <1>2 DEF Arrive, Return, Results, storeVars, TypeOK
<1>3. CASE Refresh
  <2>1. CASE \E st \in StatusSet : LoadOk(blk.number, st) /\ vstatus' = st
                                   /\ vpc' = "seal" /\ UNCHANGED verdict
    <3>1. PICK st \in StatusSet : LoadOk(blk.number, st) /\ vstatus' = st
                                  /\ vpc' = "seal" /\ UNCHANGED verdict
      BY <2>1
    <3>2. TypeOK'
      BY <1>1, <1>3, <3>1, LoadOkType DEF Refresh, Block
    <3>. QED BY <1>3, <3>1, <3>2 DEF Refresh
  <2>2. CASE Return("StatusUnavailable")
             /\ UNCHANGED <<leaders, signers, blackList, tasks, crashed, vstatus>>
    BY <1>3, <2>2 DEF Refresh, Return, Results, TypeOK
  <2>. QED BY <1>3, <2>1, <2>2 DEF Refresh
<1>4. CASE CheckSeal
  BY <1>4 DEF CheckSeal, Return, Results, storeVars, TypeOK
<1>5. CASE CheckSigner
  BY <1>5 DEF CheckSigner, Return, Results, storeVars, TypeOK
<1>6. CASE CheckTxs
  <2>1. \A vs, v : TxCheckResult(blk, vs, v) \in Results
    BY DEF TxCheckResult, Results
  <2>. QED BY <1>6, <2>1 DEF CheckTxs, Return, storeVars, TypeOK
<1>7. CASE LevelNext /\ UNCHANGED valVars
  BY <1>7, LevelNextType DEF valVars
<1>8. CASE UNCHANGED vars
  BY <1>8 DEF vars, storeVars, valVars, TypeOK
<1>. QED BY <1>2, <1>3, <1>4, <1>5, <1>6, <1>7, <1>8 DEF Next, ValidateNext

\* Type correctness of the composition.
THEOREM ValTypeCorrect == Spec => []ValTypeOK
BY ValInitType, ValStepType, PTL DEF Spec
-----------------------------------------------------------------------------
(***************************************************************************)
(* The inductive invariant behind AcceptedMatchesOwnStatus.  While a       *)
(* follower ValidateBlock is between its refresh and its return, the       *)
(* shared signer and leader lists are the ones the refresh installed (only *)
(* a load writes them, and ValidateBlock is the only loader); each check   *)
(* that passed is recorded against that status.  After a panic no step    *)
(* runs, so the correspondence is only claimed while the process lives.    *)
(***************************************************************************)
SnapshotIsOwn ==
  (vsig /\ ~crashed /\ vpc \in {"seal", "signer", "txs"})
    => signers = vstatus.signers /\ leaders = vstatus.leaders

SealChecked ==
  (vsig /\ vpc \in {"signer", "txs"} /\ ~IsBeforeChief100block(blk.number))
    => blk.difficulty = InTurnForVerifyDiffculty(blk.number, blk.signer,
                               vstatus.signers, vstatus.leaders)

SignerChecked ==
  (vsig /\ vpc = "txs")
    => ValidateSigner(blk.number, blk.signer, blk.coinbaseZero, TRUE,
                      vstatus.signers, vstatus.leaders)

IInv ==
  /\ ValTypeOK
  /\ SnapshotIsOwn
  /\ SealChecked
  /\ SignerChecked
  /\ AcceptedMatchesOwnStatus
-----------------------------------------------------------------------------
\* Nothing is accepted or in progress initially.
LEMMA IInvInit == Init => IInv
<1> SUFFICES ASSUME Init PROVE IInv
  OBVIOUS
<1>. QED BY ValInitType
         DEF Init, IInv, SnapshotIsOwn, SealChecked,
             SignerChecked, AcceptedMatchesOwnStatus

\* Every step of Spec preserves IInv.
LEMMA IInvStep ==
  ASSUME IInv, [Next]_vars
  PROVE  IInv'
<1>. USE DEF IInv
<1>0. ValTypeOK'
  BY ValStepType
<1>1. blk \in Block /\ ChiefNumber \in Nat /\ Heights \subseteq Nat
  BY ValidateAssumption, ConstantsAssumption, StatusAssumption DEF ValTypeOK
<1>2. CASE \E b \in Blocks, vs \in BOOLEAN : Arrive(b, vs)
  <2>1. PICK b \in Blocks, vs \in BOOLEAN : Arrive(b, vs)
    BY <1>2
  <2>2. b \in Block
    BY ValidateAssumption
  <2>3. vpc' = "idle" /\ verdict' = "ok" => b.number <= ChiefNumber
    BY <2>1 DEF Arrive, Return
  <2>4. vsig' => vpc' \in {"idle", "refresh"}
    BY <2>1 DEF Arrive, Return
  <2>5. blk' = b /\ vsig' = vs /\ b.number \in Nat
    BY <2>1, <2>2, StatusAssumption DEF Arrive, Block
  <2>6. ~(vpc' = "idle" /\ verdict' = "ok" /\ blk'.number > ChiefNumber)
    BY <1>1, <2>3, <2>5
  <2>7. AcceptedMatchesOwnStatus'
    BY <2>6 DEF AcceptedMatchesOwnStatus
  <2>8. SnapshotIsOwn' /\ SealChecked' /\ SignerChecked'
    BY <2>4 DEF SnapshotIsOwn, SealChecked, SignerChecked
  <2>. QED BY <1>0, <2>7, <2>8
<1>3. CASE Refresh
  <2>1. vpc' \in {"idle", "seal"} /\ (vpc' = "idle" => verdict' # "ok")
    BY <1>3 DEF Refresh, Return
  <2>2. (vpc' = "seal" /\ ~crashed')
          => signers' = vstatus'.signers /\ leaders' = vstatus'.leaders
    BY <1>3 DEF Refresh, Return, LoadOk
  <2>. QED BY <1>0, <1>3, <2>1, <2>2
           DEF Refresh, SnapshotIsOwn, SealChecked,
               SignerChecked, AcceptedMatchesOwnStatus
<1>4. CASE CheckSeal
  <2>1. vpc' \in {"idle", "signer"} /\ (vpc' = "idle" => verdict' # "ok")
    BY <1>4 DEF CheckSeal, Return
  <2>2. (vsig /\ vpc' = "signer" /\ ~IsBeforeChief100block(blk.number))
          => blk.difficulty = InTurnForVerifyDiffculty(blk.number, blk.signer,
                                 vstatus.signers, vstatus.leaders)
    BY <1>4 DEF CheckSeal, Return, SnapshotIsOwn
  <2>. QED BY <1>0, <1>4, <2>1, <2>2
           DEF CheckSeal, storeVars, SnapshotIsOwn,
               SealChecked, SignerChecked, AcceptedMatchesOwnStatus
<1>5. CASE CheckSigner
  <2>1. PICK vrfOk, timely \in BOOLEAN :
          IF IsSIP100Block(blk.number) /\ ~vrfOk THEN Return("VrfFailed")
          ELSE IF ~ValidateSigner(blk.number, blk.signer, blk.coinbaseZero, timely,
                                  signers, leaders)
               THEN Return("Unauthorized")
          ELSE vpc' = "txs" /\ UNCHANGED verdict
    BY <1>5 DEF CheckSigner
  <2>2. vpc' \in {"idle", "txs"} /\ (vpc' = "idle" => verdict' # "ok")
    BY <1>5, <2>1 DEF CheckSigner, Return
  <2>3. vpc' = "txs"
          => ValidateSigner(blk.number, blk.signer, blk.coinbaseZero, timely,
                            signers, leaders)
    BY <1>5, <2>1 DEF CheckSigner, Return
  <2>4. (vsig /\ vpc' = "txs")
          => ValidateSigner(blk.number, blk.signer, blk.coinbaseZero, TRUE,
                            vstatus.signers, vstatus.leaders)
    BY <1>5, <2>3, ValidateSignerTimely DEF CheckSigner, SnapshotIsOwn
  <2>. QED BY <1>0, <1>5, <2>2, <2>4
           DEF CheckSigner, storeVars, SnapshotIsOwn,
               SealChecked, SignerChecked, AcceptedMatchesOwnStatus
<1>6. CASE CheckTxs
  <2>1. PICK volunteerOk \in BOOLEAN : Return(TxCheckResult(blk, vsig, volunteerOk))
    BY <1>6 DEF CheckTxs
  <2>2. verdict' = "ok"
          => ChiefPositions(blk) = {1} /\ (vsig => blk.txs[1].from = blk.signer)
    BY <2>1, TxCheckOk DEF Return
  <2>. QED BY <1>0, <1>6, <2>1, <2>2
           DEF CheckTxs, Return, storeVars, SnapshotIsOwn,
               SealChecked, SignerChecked, AcceptedMatchesOwnStatus
<1>7. CASE LevelNext /\ UNCHANGED valVars
  BY <1>0, <1>7, LevelNextKeepsLists
     DEF valVars, SnapshotIsOwn, SealChecked,
         SignerChecked, AcceptedMatchesOwnStatus
<1>8. CASE UNCHANGED vars
  BY <1>0, <1>8
     DEF vars, storeVars, valVars, SnapshotIsOwn,
         SealChecked, SignerChecked, AcceptedMatchesOwnStatus
<1>. QED BY <1>2, <1>3, <1>4, <1>5, <1>6, <1>7, <1>8 DEF Next, ValidateNext

\* With ValidateBlock the only caller of LoadStatusFromChief, an accepted
\* follower block was checked (signer authorization, difficulty, chief tx
\* sender) against the status its own refresh installed.
THEOREM AcceptedMatchesOwnStatusHolds == Spec => []AcceptedMatchesOwnStatus
<1>1. Spec => []IInv
  BY IInvInit, IInvStep, PTL DEF Spec
<1>. QED BY <1>1, PTL DEF IInv
=============================================================================
