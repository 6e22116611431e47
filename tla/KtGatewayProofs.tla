-------------------------- MODULE KtGatewayProofs --------------------------
(***************************************************************************)
(* Proofs about the key transparency gateway: only a query key that is a  *)
(* field's JSON name can override a field the URL path binds, and the     *)
(* gRPC connection is open while the caller's context lives.              *)
(***************************************************************************)
EXTENDS KtGateway, TLAPS

\* The handler slots are well formed, and a handler in its client call
\* serves one of the requests.
HandlerOK ==
  /\ hpc \in [Handlers -> {"idle", "call"}]
  /\ hreq \in [Handlers -> Requests \cup {NoReq}]
  /\ DOMAIN sent = Handlers
  /\ \A h \in Handlers : hpc[h] = "call" => hreq[h] \in Requests

IInv == HandlerOK /\ PathOverriddenOnlyByAlias

\* Every route that populates query parameters filters out each field its
\* path binds (the Encoding of each filter_KeyTransparency_<RPC>_0).
LEMMA FilterCoversPath ==
  \A m \in Methods : Route[m].query => Route[m].params \subseteq Route[m].filter
<1> SUFFICES ASSUME NEW m \in Methods
             PROVE  Route[m].query => Route[m].params \subseteq Route[m].filter
  OBVIOUS
<1>1. m \in {"GetDirectory", "GetRevision", "GetLatestRevision", "GetRevisionStream", "ListMutations", "ListMutationsStream", "GetUser", "BatchGetUser", "BatchGetUserIndex", "ListEntryHistory", "ListUserRevisions", "BatchListUserRevisions", "QueueEntryUpdate", "BatchQueueUserUpdate"}
  BY DEF Methods, Route
<1>2. CASE m = "GetDirectory"
  BY <1>2 DEF Route, GetDirectory
<1>3. CASE m = "GetRevision"
  BY <1>3 DEF Route, GetRevision
<1>4. CASE m = "GetLatestRevision"
  BY <1>4 DEF Route, GetLatestRevision
<1>5. CASE m = "GetRevisionStream"
  BY <1>5 DEF Route, GetRevisionStream
<1>6. CASE m = "ListMutations"
  BY <1>6 DEF Route, ListMutations
<1>7. CASE m = "ListMutationsStream"
  BY <1>7 DEF Route, ListMutationsStream
<1>8. CASE m = "GetUser"
  BY <1>8 DEF Route, GetUser
<1>9. CASE m = "BatchGetUser"
  BY <1>9 DEF Route, BatchGetUser
<1>10. CASE m = "BatchGetUserIndex"
  BY <1>10 DEF Route, BatchGetUserIndex
<1>11. CASE m = "ListEntryHistory"
  BY <1>11 DEF Route, ListEntryHistory
<1>12. CASE m = "ListUserRevisions"
  BY <1>12 DEF Route, ListUserRevisions
<1>13. CASE m = "BatchListUserRevisions"
  BY <1>13 DEF Route, BatchListUserRevisions
<1>14. CASE m = "QueueEntryUpdate"
  BY <1>14 DEF Route, QueueEntryUpdate
<1>15. CASE m = "BatchQueueUserUpdate"
  BY <1>15 DEF Route, BatchQueueUserUpdate
<1>. QED BY <1>1, <1>2, <1>3, <1>4, <1>5, <1>6, <1>7, <1>8, <1>9, <1>10, <1>11, <1>12, <1>13, <1>14, <1>15

\* A query key sets the field whose proto name or JSON name it is.
LEMMA QueryFieldNamed ==
  ASSUME NEW k \in QueryKeys
  PROVE  k = QueryField(k) \/ k = JSONName(QueryField(k))
<1>1. \E f \in Fields \cup {Extra} : k = f \/ k = JSONName(f)
  BY DEF QueryKeys
<1>. QED BY <1>1 DEF QueryField

\* A key the filter lets through that sets a field the filter lists is the
\* field's JSON name, and that name is not the proto name.
LEMMA UnfilteredKeyIsAlias ==
  ASSUME NEW rt, NEW r, NEW f, NEW k \in QueryKeys,
         f \in rt.filter, k \notin rt.filter, QueryField(k) = f
  PROVE  k = JSONName(f) /\ JSONName(f) # f
BY QueryFieldNamed

\* A request that request_* builds without error holds the path's value in
\* every field the path binds, unless a query key outside the filter named
\* that field by a JSON name other than its proto name.
LEMMA BuildOverridesOnlyByAlias ==
  ASSUME NEW rt, NEW r,
         rt.query => rt.params \subseteq rt.filter,
         DOMAIN r.query \subseteq QueryKeys,
         BuildRequest(rt, r).ok,
         NEW f \in rt.params,
         BuildRequest(rt, r).msg[f] # r.path[f]
  PROVE  /\ JSONName(f) # f
         /\ JSONName(f) \in DOMAIN r.query
         /\ BuildRequest(rt, r).msg[f] = r.query[JSONName(f)]
<1> DEFINE decoded   == IF rt.body = "none" THEN <<>> ELSE r.body.fields
           bound     == [g \in rt.params |-> r.path[g]]
           msg       == BuildRequest(rt, r).msg
<1>1. msg = Overlay(Populated(rt, r), Overlay(bound, decoded))
  BY DEF BuildRequest
<1>2. f \in DOMAIN Populated(rt, r)
  <2>1. SUFFICES ASSUME f \notin DOMAIN Populated(rt, r) PROVE FALSE
    OBVIOUS
  <2>. QED BY <1>1, <2>1 DEF Overlay
<1>3. PICK j \in Populating(rt, r) : QueryField(j) = f
  BY <1>2 DEF Populated
<1>4. rt.query /\ f \in rt.filter
  BY <1>3 DEF Populating
<1> DEFINE k == CHOOSE x \in Populating(rt, r) : QueryField(x) = f
<1>5. k \in Populating(rt, r) /\ QueryField(k) = f
  BY <1>3
<1>6. k \in DOMAIN r.query /\ k \notin rt.filter
  BY <1>4, <1>5 DEF Populating
<1>7. k = JSONName(f) /\ JSONName(f) # f
  BY <1>4, <1>5, <1>6, UnfilteredKeyIsAlias
<1>8. msg[f] = r.query[k]
  BY <1>1, <1>2 DEF Overlay, Populated
<1>. QED BY <1>6, <1>7, <1>8

\* Initially no handler is in a client call.
LEMMA IInvInit == Init => IInv
BY DEF Init, IInv, HandlerOK, PathOverriddenOnlyByAlias

\* A handler that builds a request without error sends it with the path's
\* values in the path's fields, but for fields a JSON-named query key set.
LEMMA ServeOverridesOnlyByAlias ==
  ASSUME NEW r \in Requests, BuildRequest(Route[r.method], r).ok,
         NEW f \in Route[r.method].params,
         BuildRequest(Route[r.method], r).msg[f] # r.path[f]
  PROVE  /\ JSONName(f) # f
         /\ JSONName(f) \in DOMAIN r.query
         /\ BuildRequest(Route[r.method], r).msg[f] = r.query[JSONName(f)]
<1>1. r.method \in Methods /\ r.query \in PartialFns(QueryKeys, Vals)
  BY GatewayAssumption DEF Request
<1>2. DOMAIN r.query \subseteq QueryKeys
  BY <1>1 DEF PartialFns
<1>3. Route[r.method].query => Route[r.method].params \subseteq Route[r.method].filter
  BY <1>1, FilterCoversPath
<1>. QED BY <1>2, <1>3, BuildOverridesOnlyByAlias

\* Every step of Spec preserves IInv.
LEMMA IInvStep ==
  ASSUME IInv, [Next]_vars
  PROVE  IInv'
<1>. USE DEF IInv, HandlerOK
<1>1. CASE Dial \/ Register \/ Defer \/ Cancel \/ Watch
  <2>. UNCHANGED <<hpc, hreq, sent>>
    BY <1>1 DEF Dial, Register, Defer, Cancel, Watch, handlerVars
  <2>. QED BY DEF PathOverriddenOnlyByAlias
<1>2. ASSUME NEW h \in Handlers, NEW r \in Requests, Serve(h, r)
      PROVE  IInv'
  <2> DEFINE b == BuildRequest(Route[r.method], r)
  <2>1. CASE UNCHANGED <<hpc, hreq, sent>>
    BY <2>1 DEF PathOverriddenOnlyByAlias
  <2>2. CASE /\ b.ok
             /\ hpc' = [hpc EXCEPT ![h] = "call"] /\ hreq' = [hreq EXCEPT ![h] = r]
             /\ sent' = [sent EXCEPT ![h] = b.msg]
    <3>1. HandlerOK'
      BY <2>2
    <3>2. \A f \in Route[r.method].params :
            sent'[h][f] # r.path[f] =>
              /\ JSONName(f) # f
              /\ JSONName(f) \in DOMAIN r.query
              /\ sent'[h][f] = r.query[JSONName(f)]
      BY <2>2, ServeOverridesOnlyByAlias
    <3>. QED BY <2>2, <3>1, <3>2 DEF PathOverriddenOnlyByAlias
  <2>. QED BY <1>2, <2>1, <2>2 DEF Serve
<1>3. ASSUME NEW h \in Handlers, Call(h)
      PROVE  IInv'
  <2>1. hpc' = [hpc EXCEPT ![h] = "idle"] /\ hreq' = [hreq EXCEPT ![h] = NoReq]
        /\ sent' = [sent EXCEPT ![h] = <<>>]
    BY <1>3 DEF Call
  <2>. QED BY <2>1 DEF PathOverriddenOnlyByAlias
<1>4. CASE UNCHANGED vars
  BY <1>4 DEF vars, PathOverriddenOnlyByAlias
<1>. QED BY <1>1, <1>2, <1>3, <1>4 DEF Next

\* For any values, requests and handler count, a path-bound field of the
\* gRPC request a handler sends differs from the path only when the query
\* set it under a JSON name that is not its proto name: the body is
\* decoded before the path is bound, and the filter of every request_*
\* lists the proto names of its path variables.
THEOREM PathOverriddenOnlyByAliasHolds == Spec => []PathOverriddenOnlyByAlias
<1>1. Spec => []IInv
  BY IInvInit, IInvStep, PTL DEF Spec
<1>. QED BY <1>1, PTL DEF IInv
-----------------------------------------------------------------------------
(***************************************************************************)
(* The connection lifecycle of RegisterKeyTransparencyHandlerFromEndpoint. *)
(* ConnOpenWhileLive is not inductive: it needs that registration implies  *)
(* a nil err (so the deferred function takes the watching branch), that    *)
(* the connection is open from the dial to the defer, and that only the    *)
(* watcher, after ctx is done, closes it.                                  *)
(***************************************************************************)
LifeOK ==
  /\ phase \in {"dial", "register", "defer", "returned"}
  /\ err \in BOOLEAN /\ ctxDone \in BOOLEAN /\ registered \in BOOLEAN
  /\ conn \in {"none", "open", "closed"} /\ closes \in Nat
  /\ watcher \in {"none", "waiting", "done"}

LifeInv ==
  /\ LifeOK
  /\ registered <=> (phase \in {"defer", "returned"} /\ ~err)
  /\ phase \in {"dial", "register", "defer"} => watcher = "none" /\ ~err
  /\ phase \in {"register", "defer"} => conn = "open"
  /\ phase = "dial" => conn = "none"
  /\ watcher # "done" => closes = 0 /\ (registered => conn = "open")
  /\ watcher = "done" => closes = 1 /\ ctxDone
  /\ err => watcher = "none"

LEMMA LifeInit == Init => LifeInv
<1> SUFFICES ASSUME Init PROVE LifeInv
  OBVIOUS
<1>1. phase = "dial" /\ err = FALSE /\ conn = "none" /\ closes = 0
      /\ watcher = "none" /\ ctxDone = FALSE /\ registered = FALSE
  BY DEF Init
<1>. QED BY <1>1 DEF LifeInv, LifeOK

LEMMA LifeStep ==
  ASSUME LifeInv, [Next]_vars
  PROVE  LifeInv'
<1>. USE DEF LifeInv, LifeOK
<1>1. CASE Dial
  <2>. ~registered /\ ~err /\ watcher = "none" /\ closes = 0
    BY <1>1 DEF Dial
  <2>. UNCHANGED <<closes, watcher, ctxDone, registered>>
    BY <1>1 DEF Dial
  <2>1. CASE conn' = "open" /\ phase' = "register" /\ UNCHANGED err
    BY <2>1
  <2>2. CASE err' = TRUE /\ phase' = "returned" /\ UNCHANGED conn
    BY <2>2
  <2>. QED BY <1>1, <2>1, <2>2 DEF Dial
<1>2. CASE Register
  BY <1>2 DEF Register
<1>3. CASE Defer
  BY <1>3 DEF Defer, Close
<1>4. CASE Cancel
  BY <1>4 DEF Cancel
<1>5. CASE Watch
  BY <1>5 DEF Watch, Close
<1>6. CASE \E h \in Handlers : Call(h) \/ \E r \in Requests : Serve(h, r)
  BY <1>6 DEF Call, Serve
<1>7. CASE UNCHANGED vars
  BY <1>7 DEF vars
<1>. QED BY <1>1, <1>2, <1>3, <1>4, <1>5, <1>6, <1>7 DEF Next

\* Once registration succeeded, the connection stays open while the
\* caller's context lives and is closed at most once, for any number of
\* handler goroutines (the deferred function and its closing goroutine).
THEOREM ConnOpenWhileLiveHolds == Spec => []ConnOpenWhileLive
<1>1. LifeInv => ConnOpenWhileLive
  BY DEF LifeInv, LifeOK, ConnOpenWhileLive
<1>2. Spec => []LifeInv
  BY LifeInit, LifeStep, PTL DEF Spec
<1>. QED BY <1>1, <1>2, PTL

\* Every step of the gateway is a step of the lease or leaves the lease and
\* the context as they were.
LEMMA LeaseStep ==
  ASSUME LifeInv, [Next]_vars
  PROVE  [Lease!Next]_Lease!leaseVars
<1>. USE DEF LifeInv, LifeOK
<1>1. CASE Dial
  <2>1. CASE conn' = "open" /\ phase' = "register" /\ UNCHANGED err
    <3>. ~err /\ conn = "none" /\ UNCHANGED ctxDone
      BY <1>1 DEF Dial
    <3>. QED BY <2>1 DEF Lease!Next, Lease!Acquire, LeaseOf
  <2>2. CASE err' = TRUE /\ phase' = "returned" /\ UNCHANGED conn
    <3>. ~err /\ conn = "none" /\ UNCHANGED ctxDone
      BY <1>1 DEF Dial
    <3>. QED BY <2>2 DEF Lease!Next, Lease!Fail, LeaseOf
  <2>. QED BY <1>1, <2>1, <2>2 DEF Dial
<1>2. CASE Register
  BY <1>2 DEF Register, Lease!leaseVars, LeaseOf
<1>3. CASE Defer
  <2>. ~err
    BY <1>3 DEF Defer
  <2>. QED BY <1>3 DEF Defer, Lease!leaseVars, LeaseOf
<1>4. CASE Cancel
  BY <1>4 DEF Cancel, Lease!Next, Lease!Cancel, LeaseOf
<1>5. CASE Watch
  <2>1. ~err /\ conn = "open" /\ ctxDone
    BY <1>5 DEF Watch
  <2>2. err' = err /\ conn' = "closed" /\ ctxDone' = ctxDone
    BY <1>5 DEF Watch, Close
  <2>. QED BY <2>1, <2>2 DEF Lease!Next, Lease!Release, LeaseOf
<1>6. CASE \E h \in Handlers : Call(h) \/ \E r \in Requests : Serve(h, r)
  BY <1>6 DEF Call, Serve, Lease!leaseVars, LeaseOf
<1>7. CASE UNCHANGED vars
  BY <1>7 DEF vars, Lease!leaseVars, LeaseOf
<1>. QED BY <1>1, <1>2, <1>3, <1>4, <1>5, <1>6, <1>7 DEF Next

\* RegisterKeyTransparencyHandlerFromEndpoint implements the safety part of
\* the connection lease for any number of handler goroutines: the dial
\* acquires it or fails, and only the goroutine waiting on ctx.Done()
\* releases it, after the context is done.  (The lease's liveness, under
\* the fairness of that goroutine, is model-checked as ConnReleased.)
THEOREM LeaseRefined == Spec => Lease!SafetySpec
<1>1. Init => Lease!Init
  BY DEF Init, Lease!Init, LeaseOf
<1>2. Spec => []LifeInv
  BY LifeInit, LifeStep, PTL DEF Spec
<1>3. LifeInv /\ [Next]_vars => [Lease!Next]_Lease!leaseVars
  BY LeaseStep
<1>. QED BY <1>1, <1>2, <1>3, PTL DEF Spec, Lease!SafetySpec
=============================================================================
