---------------------------- MODULE KtConnLease ----------------------------
(***************************************************************************)
(* What RegisterKeyTransparencyHandlerFromEndpoint promises about the     *)
(* gRPC connection it creates for the gateway's handlers, as a lease:     *)
(* it is acquired by a successful dial or the registration fails with no  *)
(* connection; an acquired lease is released exactly once, and only after *)
(* the caller's context is done; once the context is done it is released.*)
(***************************************************************************)

VARIABLES
  lease,    \* "none", "live", "released" or "failed"
  ctxDone   \* the caller's context is done

leaseVars == <<lease, ctxDone>>

Init == lease = "none" /\ ctxDone = FALSE

\* The connection is dialled; the handlers may use it.
Acquire == lease = "none" /\ lease' = "live" /\ UNCHANGED ctxDone

\* The registration fails before any connection exists.
Fail == lease = "none" /\ lease' = "failed" /\ UNCHANGED ctxDone

\* The caller cancels its context.
Cancel == ~ctxDone /\ ctxDone' = TRUE /\ UNCHANGED lease

\* The connection is closed, after the context is done.
Release == lease = "live" /\ ctxDone /\ lease' = "released" /\ UNCHANGED ctxDone

Next == Acquire \/ Fail \/ Cancel \/ Release

SafetySpec == Init /\ [][Next]_leaseVars

Spec == SafetySpec /\ WF_leaseVars(Release)
=============================================================================
