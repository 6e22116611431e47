------------------------- MODULE EvmTransferProofs -------------------------
(***************************************************************************)
(* Proofs about EvmTransfer, for every set of accounts, amounts and       *)
(* genesis balances.                                                       *)
(***************************************************************************)
EXTENDS EvmTransfer, TLAPS

\* The inductive invariant: balances are natural numbers.  TypeOK allows
\* negative balances (big.Int); that none occurs is what is proved.
IInv ==
  /\ balance \in [Accounts -> Nat]
  /\ lastErr \in {"ok", "insufficient"}

\* Transfer of an amount the sender holds keeps every balance natural,
\* whether or not the recipient is the sender.
LEMMA TransferKeepsNat ==
  ASSUME NEW db \in [Accounts -> Nat], NEW s \in Accounts, NEW r \in Accounts,
         NEW v \in Nat, CanTransfer(db, s, v)
  PROVE  Transfer(db, s, r, v) \in [Accounts -> Nat]
<1>1. [db EXCEPT ![s] = @ - v] \in [Accounts -> Nat]
  BY DEF CanTransfer
<1>. QED BY <1>1 DEF Transfer

LEMMA IInvInit == Init => IInv
  BY EvmTransferAssumption DEF Init, IInv

LEMMA IInvStep == IInv /\ [Next]_vars => IInv'
<1>. SUFFICES ASSUME IInv, [Next]_vars PROVE IInv'
  OBVIOUS
<1>1. CASE Next
  <2>. PICK s \in Accounts, r \in Accounts, v \in Amounts : ValueCall(s, r, v)
    BY <1>1 DEF Next
  <2>1. v \in Nat
    BY EvmTransferAssumption
  <2>2. CASE CanTransfer(balance, s, v)
    <3>1. balance' = Transfer(balance, s, r, v) /\ lastErr' = "ok"
      BY <2>2 DEF ValueCall
    <3>. QED BY <3>1, <2>1, <2>2, TransferKeepsNat DEF IInv
  <2>3. CASE ~CanTransfer(balance, s, v)
    BY <2>3 DEF ValueCall, IInv
  <2>. QED BY <2>2, <2>3
<1>2. CASE UNCHANGED vars
  BY <1>2 DEF vars, IInv
<1>. QED BY <1>1, <1>2

\* NoOverdraft holds for all constants: every value call the EVM makes
\* through CanTransfer and Transfer leaves each balance non-negative,
\* transfers to oneself and of the whole balance included.
THEOREM NoOverdraftHolds == Spec => []NoOverdraft
<1>1. IInv => NoOverdraft
  BY DEF IInv, NoOverdraft
<1>. QED BY <1>1, IInvInit, IInvStep, PTL DEF Spec

\* A transfer to oneself leaves the balances as they were: AddBalance gives
\* back exactly what SubBalance took from the same account.
LEMMA TransferSelf ==
  ASSUME NEW db \in [Accounts -> Nat], NEW s \in Accounts, NEW v \in Nat
  PROVE  Transfer(db, s, s, v) = db
<1>1. Transfer(db, s, s, v) = [db EXCEPT ![s] = (db[s] - v) + v]
  BY DEF Transfer
<1>2. (db[s] - v) + v = db[s]
  OBVIOUS
<1>. QED BY <1>1, <1>2

\* A transfer between two accounts debits the sender, credits the recipient
\* and leaves every other balance alone.
LEMMA TransferOther ==
  ASSUME NEW db \in [Accounts -> Nat], NEW s \in Accounts, NEW r \in Accounts,
         NEW v \in Nat, s # r
  PROVE  LET nb == Transfer(db, s, r, v)
         IN  /\ nb \in [Accounts -> Int]
             /\ nb[s] = db[s] - v
             /\ nb[r] = db[r] + v
             /\ \A c \in Accounts \ {s, r} : nb[c] = db[c]
  BY DEF Transfer

\* Every step of the specification, from a state of the invariant, moves
\* value between two accounts or leaves the balances unchanged.
LEMMA MovesValueStep == IInv /\ [Next]_vars => [MovesValue]_vars
<1>. SUFFICES ASSUME IInv, [Next]_vars PROVE [MovesValue]_vars
  OBVIOUS
<1>1. CASE Next
  <2>. PICK s \in Accounts, r \in Accounts, v \in Amounts : ValueCall(s, r, v)
    BY <1>1 DEF Next
  <2>1. v \in Nat
    BY EvmTransferAssumption
  <2>2. CASE CanTransfer(balance, s, v) /\ s = r
    <3>1. balance' = balance
      BY <2>1, <2>2, TransferSelf DEF ValueCall, IInv
    <3>. QED BY <3>1 DEF MovesValue
  <2>3. CASE CanTransfer(balance, s, v) /\ s # r
    <3>1. /\ balance' \in [Accounts -> Int]
          /\ balance'[s] = balance[s] - v
          /\ balance'[r] = balance[r] + v
          /\ \A c \in Accounts \ {s, r} : balance'[c] = balance[c]
      <4>1. balance' = Transfer(balance, s, r, v)
        BY <2>3 DEF ValueCall
      <4>. QED BY <4>1, <2>1, <2>3, TransferOther DEF IInv
    <3>2. \A a \in Accounts : balance'[a] # balance[a] => a \in {s, r}
      BY <3>1
    <3>3. balance'[r] - balance[r] = balance[s] - balance'[s]
      BY <3>1, <2>1 DEF IInv
    <3>4. \A a \in Accounts : balance'[a] # balance[a] =>
            \E b \in Accounts \ {a} :
               /\ balance'[b] - balance[b] = balance[a] - balance'[a]
               /\ \A c \in Accounts \ {a, b} : balance'[c] = balance[c]
      <4>1. balance'[r] - balance[r] = balance[s] - balance'[s]
        BY <3>3
      <4>2. balance'[s] - balance[s] = balance[r] - balance'[r]
        BY <3>1, <2>1 DEF IInv
      <4>3. \A c \in Accounts \ {s, r} : balance'[c] = balance[c]
        BY <3>1
      <4>4. \A c \in Accounts \ {r, s} : balance'[c] = balance[c]
        BY <4>3
      <4>. QED BY <3>2, <4>1, <4>2, <4>3, <4>4, <2>3
    <3>. QED BY <3>4 DEF MovesValue
  <2>4. CASE ~CanTransfer(balance, s, v)
    BY <2>4 DEF ValueCall, MovesValue
  <2>. QED BY <2>2, <2>3, <2>4
<1>2. CASE UNCHANGED vars
  BY <1>2 DEF vars
<1>. QED BY <1>1, <1>2

\* TransfersConserve holds for all constants: whichever value calls the
\* EVM makes, Transfer's SubBalance and AddBalance on the one StateDB
\* move value between sender and recipient and change no other balance.
THEOREM TransfersConserveHolds == Spec => TransfersConserve
<1>. QED BY IInvInit, IInvStep, MovesValueStep, PTL DEF Spec, TransfersConserve
=============================================================================
