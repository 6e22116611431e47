------------------------- MODULE EthclientSingleton -------------------------
(***************************************************************************)
(* contracts/ethclient.go: GetEthclientInstance, the lazily created        *)
(* package-level RPC client.  Every caller runs the function in its own    *)
(* goroutine, again and again: it tests the global for nil, dials the IPC  *)
(* endpoint (retrying every 100ms until the dial succeeds), stores the new *)
(* client in the global, and returns the global.  The global is read and written  *)
(* without a lock; a pointer-sized access is not torn on the targets Go    *)
(* builds for, so each access is one atomic step.  A failed dial only      *)
(* sleeps and retries: it is a stuttering step.                            *)
(***************************************************************************)
EXTENDS Naturals

CONSTANT Callers  \* goroutines that call GetEthclientInstance

ASSUME CallersAssumption == Callers # {}

\* Clients are numbered by the order of their successful dials; 0 is nil.
Nil == 0

VARIABLES
  client,  \* the package-level client
  pc,      \* each caller's next statement: check, dial, store, ret; done
           \* between calls
  ec,      \* each caller's local ec
  ret,     \* what each caller returned
  dials    \* successful dials so far (each creates a new client)

vars == <<client, pc, ec, ret, dials>>

TypeOK ==
  /\ client \in 0..dials
  /\ pc \in [Callers -> {"check", "dial", "store", "ret", "done"}]
  /\ ec \in [Callers -> 0..dials]
  /\ ret \in [Callers -> 0..dials]
  /\ dials \in Nat

\* var client *ethclient.Client: nil until the first call stores one.
Init ==
  /\ client = Nil
  /\ pc = [p \in Callers |-> "check"]
  /\ ec = [p \in Callers |-> Nil]
  /\ ret = [p \in Callers |-> Nil]
  /\ dials = 0

\* if client == nil: dial, otherwise return the global at once.
Check(p) ==
  /\ pc[p] = "check"
  /\ pc' = [pc EXCEPT ![p] = IF client = Nil THEN "dial" ELSE "ret"]
  /\ UNCHANGED <<client, ec, ret, dials>>

\* ethclient.Dial(params.GetIPCPath()) succeeds: ec is a new client.
Dial(p) ==
  /\ pc[p] = "dial"
  /\ dials' = dials + 1
  /\ ec' = [ec EXCEPT ![p] = dials + 1]
  /\ pc' = [pc EXCEPT ![p] = "store"]
  /\ UNCHANGED <<client, ret>>

\* client = ec
Store(p) ==
  /\ pc[p] = "store"
  /\ client' = ec[p]
  /\ pc' = [pc EXCEPT ![p] = "ret"]
  /\ UNCHANGED <<ec, ret, dials>>

\* Mutant: the function returns its local ec instead of the global.
ReturnLocal(p) ==
  /\ pc[p] = "ret"
  /\ ret' = [ret EXCEPT ![p] = ec[p]]
  /\ pc' = [pc EXCEPT ![p] = "done"]
  /\ UNCHANGED <<client, ec, dials>>

\* return client, nil
Return(p) ==
  /\ pc[p] = "ret"
  /\ ret' = [ret EXCEPT ![p] = client]
  /\ pc' = [pc EXCEPT ![p] = "done"]
  /\ UNCHANGED <<client, ec, dials>>

\* The caller, having returned, calls GetEthclientInstance again.
Call(p) ==
  /\ pc[p] = "done"
  /\ pc' = [pc EXCEPT ![p] = "check"]
  /\ UNCHANGED <<client, ec, ret, dials>>

Next == \E p \in Callers : Call(p) \/ Check(p) \/ Dial(p) \/ Store(p) \/ Return(p)

Spec == Init /\ [][Next]_vars

-----------------------------------------------------------------------------
\* Every GetEthclientInstance returns a client, never nil: a caller that
\* found the global set returns it, and one that dialed stored its own
\* before reading the global back, and the global is never reset.
ReturnedNonNil == \A p \in Callers : pc[p] = "done" => ret[p] # Nil

\* The singleton the name GetEthclientInstance and the package-level client
\* promise: all callers share one client, and no connection is dialed that
\* the global does not keep.
OneClient ==
  /\ \A p, q \in Callers : pc[p] = "done" /\ pc[q] = "done" => ret[p] = ret[q]
  /\ dials <= 1
=============================================================================
