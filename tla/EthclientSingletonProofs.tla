---------------------- MODULE EthclientSingletonProofs ----------------------
(***************************************************************************)
(* GetEthclientInstance never returns nil, for any number of concurrent    *)
(* callers.  ReturnedNonNil alone is not inductive: it needs that a        *)
(* caller about to store holds a dialed client, that a caller about to     *)
(* return finds the global set, and that the global, once set, stays set.  *)
(***************************************************************************)
EXTENDS EthclientSingleton, TLAPS

IInv ==
  /\ TypeOK
  /\ \A p \in Callers : pc[p] = "store" => ec[p] # Nil
  /\ \A p \in Callers : pc[p] = "ret" => client # Nil
  /\ ReturnedNonNil

\* The strengthening holds initially.
LEMMA InitIInv == Init => IInv
BY DEF Init, IInv, TypeOK, ReturnedNonNil, Nil

\* Every step keeps it: only Store writes the global, and it writes a
\* dialed client; Return copies the global, which is set by then.
LEMMA StepIInv == IInv /\ [Next]_vars => IInv'
<1> SUFFICES ASSUME IInv, [Next]_vars PROVE IInv'
  OBVIOUS
<1>. USE DEF IInv, TypeOK, ReturnedNonNil, Nil
<1>1. ASSUME NEW p \in Callers, Call(p) PROVE IInv'
  BY <1>1 DEF Call
<1>2. ASSUME NEW p \in Callers, Check(p) PROVE IInv'
  BY <1>2 DEF Check
<1>3. ASSUME NEW p \in Callers, Dial(p) PROVE IInv'
  BY <1>3 DEF Dial
<1>4. ASSUME NEW p \in Callers, Store(p) PROVE IInv'
  BY <1>4 DEF Store
<1>5. ASSUME NEW p \in Callers, Return(p) PROVE IInv'
  BY <1>5 DEF Return
<1>6. CASE UNCHANGED vars
  BY <1>6 DEF vars
<1>. QED BY <1>1, <1>2, <1>3, <1>4, <1>5, <1>6 DEF Next

\* Every call of GetEthclientInstance returns a non-nil client.
THEOREM ReturnedNonNilHolds == Spec => []ReturnedNonNil
<1>1. Spec => []IInv
  BY InitIInv, StepIInv, PTL DEF Spec
<1>. QED BY <1>1, PTL DEF IInv
=============================================================================
