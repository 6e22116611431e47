--------------------------- MODULE TribeValidate ---------------------------
(***************************************************************************)
(* TribeStatus.ValidateBlock (consensus/tribe/status.go) composed with the *)
(* status store it refreshes.  One block is validated at a time; each step *)
(* of the validation that reads the shared snapshot is a step of its own,  *)
(* so the resetSignersLevel goroutines and, in SpecWithPrepare, the       *)
(* miner's own LoadStatusFromChief (made in Prepare) interleave with it.   *)
(* The GetMinerAddressByChan poller and tribe initialisation touch       *)
(* nothing ValidateBlock reads and are left to TribeStatus.                *)
(***************************************************************************)
EXTENDS TribeStatus

CONSTANT Blocks  \* the blocks the node may be asked to validate

\* A transaction: whether it is a chief.update call to the chief address
\* of its block, and its sender (NoAddr: GetFromByTx returned nil).
Tx == [chief : BOOLEAN, from : Addr \cup {NoAddr}]

\* A block: its number, the signer ecrecover returns (NoAddr: recovery
\* failed), declared difficulty, whether the coinbase is zero, transactions.
Block == [number : Heights, signer : Addr \cup {NoAddr}, difficulty : Int,
          coinbaseZero : BOOLEAN, txs : Seq(Tx)]

ASSUME ValidateAssumption == Blocks \subseteq Block

Results == {"ok", "StatusUnavailable", "SignatureRecoveryFailed",
            "InvalidDifficulty", "VrfFailed", "Unauthorized", "EmptyTxList",
            "ChiefTxNotAtZero", "ChiefTxSignerMismatch", "VolunteerFailed",
            "MissingChiefTx"}

NoStatus == [signers |-> <<>>, leaders |-> <<>>, blackList |-> <<>>]

VARIABLES
  vpc,      \* where ValidateBlock is: idle, refresh, seal, signer, txs
  blk,      \* the block being (or last) validated
  vsig,     \* its validateSigner argument
  verdict,  \* the error it returned, "ok" for nil, "none" while running
  vstatus   \* auxiliary: the chief answer its refresh installed

valVars == <<vpc, blk, vsig, verdict, vstatus>>
vars == <<storeVars, valVars>>

ValTypeOK ==
  /\ TypeOK
  /\ vpc \in {"idle", "refresh", "seal", "signer", "txs"}
  /\ blk \in Blocks
  /\ vsig \in BOOLEAN
  /\ verdict \in Results \cup {"none"}
  /\ vstatus \in StatusSet \cup {NoStatus}

Init ==
  /\ StoreInit
  /\ vpc = "idle"
  /\ blk \in Blocks
  /\ vsig = FALSE
  /\ verdict = "none"
  /\ vstatus = NoStatus

\* ValidateBlock returns r.
Return(r) == verdict' = r /\ vpc' = "idle"

(***************************************************************************)
(* The transaction loop of ValidateBlock and its error, given whether the  *)
(* chief tx passes VerifyMiner: no transactions; a chief tx not at index 0 *)
(* (the first, or a second one); the first one's sender is not the block   *)
(* signer; its volunteer fails VerifyMiner under SIP100; no chief tx.      *)
(***************************************************************************)
ChiefPositions(b) == {i \in DOMAIN b.txs : b.txs[i].chief}

TxCheckResult(b, vs, volunteerOk) ==
  IF b.txs = <<>> THEN "EmptyTxList"
  ELSE IF ChiefPositions(b) = {} THEN "MissingChiefTx"
  ELSE IF 1 \notin ChiefPositions(b) THEN "ChiefTxNotAtZero"
  ELSE IF vs /\ b.txs[1].from # b.signer THEN "ChiefTxSignerMismatch"
  ELSE IF vs /\ IsSIP100Block(b.number) /\ ~volunteerOk THEN "VolunteerFailed"
  ELSE IF ChiefPositions(b) # {1} THEN "ChiefTxNotAtZero"
  ELSE "ok"

\* ValidateBlock(parent, block, validateSigner) is called: blocks up to
\* CHIEF_NUMBER pass at once; the follower path refreshes the status first.
Arrive(b, vs) ==
  /\ ~crashed /\ vpc = "idle"
  /\ blk' = b /\ vsig' = vs
  /\ IF b.number <= ChiefNumber THEN Return("ok")
     ELSE IF vs THEN vpc' = "refresh" /\ verdict' = "none"
     ELSE vpc' = "txs" /\ verdict' = "none"
  /\ vstatus' = NoStatus
  /\ UNCHANGED storeVars

\* Mutant: the error of LoadStatusFromChief is logged but not returned.
RefreshErrorIgnored ==
  /\ ~crashed /\ vpc = "refresh"
  /\ Len(tasks) < MaxTasks
  /\ \/ \E st \in StatusSet :
          /\ LoadOk(blk.number, st)
          /\ vstatus' = st
     \/ UNCHANGED <<leaders, signers, blackList, tasks, crashed, vstatus>>
  /\ vpc' = "seal"
  /\ UNCHANGED <<nodeKey, isInit, signerLevel, poller, delivered, blk, vsig, verdict>>

\* LoadStatusFromChief(parent.Hash(), block.Number()); its error is returned.
Refresh ==
  /\ ~crashed /\ vpc = "refresh"
  /\ Len(tasks) < MaxTasks
  /\ \/ \E st \in StatusSet :
          /\ LoadOk(blk.number, st)
          /\ vstatus' = st
          /\ vpc' = "seal"
          /\ UNCHANGED verdict
     \/ /\ Return("StatusUnavailable")
        /\ UNCHANGED <<leaders, signers, blackList, tasks, crashed, vstatus>>
  /\ UNCHANGED <<nodeKey, isInit, signerLevel, poller, delivered, blk, vsig>>

\* ecrecover, then (from Chief100 on) the difficulty InTurnForVerifyDiffculty
\* computes from the snapshot as it is now.
CheckSeal ==
  /\ ~crashed /\ vpc = "seal"
  /\ IF blk.signer = NoAddr THEN Return("SignatureRecoveryFailed")
     ELSE IF /\ ~IsBeforeChief100block(blk.number)
             /\ blk.difficulty # InTurnForVerifyDiffculty(blk.number, blk.signer,
                                                           signers, leaders)
          THEN Return("InvalidDifficulty")
     ELSE vpc' = "signer" /\ UNCHANGED verdict
  /\ UNCHANGED <<storeVars, blk, vsig, vstatus>>

\* verifyVrfNum under SIP100 (its outcome vrfOk), then validateSigner against
\* the snapshot as it is now (timely: the GetPeriod spacing holds).
CheckSigner ==
  /\ ~crashed /\ vpc = "signer"
  /\ \E vrfOk, timely \in BOOLEAN :
       IF IsSIP100Block(blk.number) /\ ~vrfOk THEN Return("VrfFailed")
       ELSE IF ~ValidateSigner(blk.number, blk.signer, blk.coinbaseZero, timely,
                               signers, leaders)
            THEN Return("Unauthorized")
       ELSE vpc' = "txs" /\ UNCHANGED verdict
  /\ UNCHANGED <<storeVars, blk, vsig, vstatus>>

\* The transaction loop; volunteerOk is params.VerifyMiner's answer.
CheckTxs ==
  /\ ~crashed /\ vpc = "txs"
  /\ \E volunteerOk \in BOOLEAN : Return(TxCheckResult(blk, vsig, volunteerOk))
  /\ UNCHANGED <<storeVars, blk, vsig, vstatus>>

ValidateNext ==
  \/ \E b \in Blocks, vs \in BOOLEAN : Arrive(b, vs)
  \/ Refresh \/ CheckSeal \/ CheckSigner \/ CheckTxs

\* The miner's Prepare refreshes the shared snapshot for its own block.
PrepareLoad ==
  /\ \E n \in Heights : LoadStatusFromChief(n)
  /\ UNCHANGED valVars

\* ValidateBlock as the only caller of LoadStatusFromChief.
Next ==
  \/ ValidateNext
  \/ LevelNext /\ UNCHANGED valVars

Spec == Init /\ [][Next]_vars

\* The miner's Prepare refreshes the status concurrently with ValidateBlock.
SpecWithPrepare == Init /\ [][Next \/ PrepareLoad]_vars

-----------------------------------------------------------------------------
(***************************************************************************)
(* Properties.                                                             *)
(***************************************************************************)

(***************************************************************************)
(* A block accepted on the follower path was checked against the authority *)
(* set the chief reported for its own parent: its signer is authorized and *)
(* its difficulty is the expected one under the status the refresh at the  *)
(* start of this ValidateBlock installed, and the chief tx is the signer's.*)
(* The difficulty and signer checks read the shared snapshot later, after  *)
(* other steps may have run.                                               *)
(***************************************************************************)
AcceptedMatchesOwnStatus ==
  (vpc = "idle" /\ verdict = "ok" /\ vsig /\ blk.number > ChiefNumber)
    => /\ ValidateSigner(blk.number, blk.signer, blk.coinbaseZero, TRUE,
                         vstatus.signers, vstatus.leaders)
       /\ ~IsBeforeChief100block(blk.number)
            => blk.difficulty = InTurnForVerifyDiffculty(blk.number, blk.signer,
                                   vstatus.signers, vstatus.leaders)
       /\ blk.txs[1].from = blk.signer
=============================================================================
