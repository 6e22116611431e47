---------------------------- MODULE EvmTransfer ----------------------------
(***************************************************************************)
(* The value-transfer callbacks core/evm.go hands to the EVM in its       *)
(* context: CanTransfer compares the sender's balance with the amount and *)
(* Transfer moves the amount with SubBalance on the sender, then          *)
(* AddBalance on the recipient, on the one StateDB of the block being     *)
(* processed.  The EVM calls CanTransfer before every value transfer and  *)
(* fails the call with ErrInsufficientBalance when it answers false.      *)
(* Balances are big.Int: SubBalance would make them negative, so they     *)
(* range over Int here.                                                    *)
(***************************************************************************)
EXTENDS Integers, FiniteSets

CONSTANTS
  Accounts,   \* the addresses holding balances
  Amounts,    \* the values a message can carry
  Genesis     \* the balances the block starts from

ASSUME EvmTransferAssumption ==
  /\ IsFiniteSet(Accounts)
  /\ Amounts \subseteq Nat
  /\ Genesis \in [Accounts -> Nat]

VARIABLES
  balance,    \* the StateDB balances
  lastErr     \* the outcome of the latest value call: "ok" or "insufficient"

vars == <<balance, lastErr>>

TypeOK ==
  /\ balance \in [Accounts -> Int]
  /\ lastErr \in {"ok", "insufficient"}

Init ==
  /\ balance = Genesis
  /\ lastErr = "ok"

\* Mutant: the operands of the comparison swapped (amount >= balance).
CanTransferSwapped(db, addr, amount) == amount >= db[addr]

\* CanTransfer: GetBalance(addr).Cmp(amount) >= 0.
CanTransfer(db, addr, amount) == db[addr] >= amount

\* Mutant: both balances read before either is written, so a transfer to
\* oneself credits the amount it never debited.
TransferCached(db, sender, recipient, amount) ==
  [a \in Accounts |-> IF a = recipient THEN db[recipient] + amount
                      ELSE IF a = sender THEN db[sender] - amount
                      ELSE db[a]]

\* Transfer: SubBalance(sender, amount), then AddBalance(recipient, amount);
\* the second update reads the balance the first one wrote.
Transfer(db, sender, recipient, amount) ==
  LET debited == [db EXCEPT ![sender] = @ - amount]
  IN  [debited EXCEPT ![recipient] = @ + amount]

\* A value call from sender to recipient (a transaction or a CALL of a
\* contract): CanTransfer guards Transfer.
ValueCall(sender, recipient, amount) ==
  IF CanTransfer(balance, sender, amount)
  THEN balance' = Transfer(balance, sender, recipient, amount) /\ lastErr' = "ok"
  ELSE UNCHANGED balance /\ lastErr' = "insufficient"

Next == \E s, r \in Accounts, v \in Amounts : ValueCall(s, r, v)

Spec == Init /\ [][Next]_vars
-----------------------------------------------------------------------------
(***************************************************************************)
(* Properties.                                                             *)
(***************************************************************************)

\* No call, however the amounts and senders are chosen, leaves a balance
\* negative: Transfer runs only after CanTransfer approved the sender.
NoOverdraft == \A a \in Accounts : balance[a] >= 0

\* One step moves value between two accounts and touches no other.
MovesValue ==
  \A a \in Accounts : balance'[a] # balance[a] =>
    \E b \in Accounts \ {a} :
       /\ balance'[b] - balance[b] = balance[a] - balance'[a]
       /\ \A c \in Accounts \ {a, b} : balance'[c] = balance[c]

\* A value call moves value and nothing else: in every step, an account
\* whose balance changes has a counterpart whose balance changes by the
\* opposite amount, and no third balance changes.  SubBalance and
\* AddBalance of Transfer act on the same StateDB one after the other, so a
\* transfer to oneself changes no balance at all.
TransfersConserve == [][MovesValue]_vars
=============================================================================
