------------------------------ MODULE KtGateway ------------------------------
(***************************************************************************)
(* The generated grpc-gateway reverse proxy of the key transparency API    *)
(* (vendor/.../keytransparency_go_proto/keytransparency.pb.gw.go).         *)
(*                                                                         *)
(* RegisterKeyTransparencyHandlerFromEndpoint dials the gRPC endpoint,     *)
(* registers one HTTP handler per RPC on the mux, and in a deferred        *)
(* function either closes the connection (on error) or starts a goroutine  *)
(* that closes it once the caller's context is done.  Each handler runs in *)
(* its own net/http goroutine: it annotates the context, builds the gRPC   *)
(* request from the HTTP request (request_KeyTransparency_<RPC>_0), calls  *)
(* the client over the shared connection and writes either the forwarded   *)
(* response or an HTTP error.                                              *)
(*                                                                         *)
(* Data is abstract: values are model values, and a message is a function *)
(* from field names to the values they hold.  runtime.String returns its   *)
(* argument; runtime.Int64 succeeds exactly on IntVals.  The runtime and  *)
(* the generated .pb.go are not vendored: what PopulateQueryParameters    *)
(* does with a query key follows grpc-gateway v1 (fieldByProtoName takes  *)
(* a field's proto name or its JSON name), and the JSON names are         *)
(* protoc's lowerCamelCase of the proto names.                            *)
(***************************************************************************)
EXTENDS Naturals

CONSTANTS
  Vals,      \* the strings a client may put in a path, a query or a body
  IntVals,   \* those runtime.Int64 parses
  Handlers,  \* the net/http goroutines that may run a handler concurrently
  Requests   \* the HTTP requests clients may send


\* The request fields a path binds.
Fields == {"directory_id", "revision", "user_id", "entry_update.user_id"}

\* A field of a request message that no path binds but a query may set
\* (the paging and filter fields of the list requests).
Extra == "extra"

\* Fields whose Go type is int64: runtime.Int64 parses them.
IntFields == {"revision", Extra}

\* The JSON name protoc gives a field: its proto name in lowerCamelCase,
\* component by component.
JSONName(f) ==
  CASE f = "directory_id"         -> "directoryId"
    [] f = "user_id"              -> "userId"
    [] f = "entry_update.user_id" -> "entryUpdate.userId"
    [] OTHER                      -> f

\* The keys a query may name a field by.
QueryKeys == Fields \cup {Extra} \cup {JSONName(f) : f \in Fields \cup {Extra}}

\* The field PopulateQueryParameters sets for a query key: the one whose
\* proto name or JSON name the key is (fieldByProtoName).
QueryField(k) == CHOOSE f \in Fields \cup {Extra} : k = f \/ k = JSONName(f)

\* Whether the conversion of the string v for field f succeeds.
Converts(f, v) == f \in IntFields => v \in IntVals

(***************************************************************************)
(* One route per request_KeyTransparency_<RPC>_0 with its filter:          *)
(* params    the pathParams it reads (all of the pattern's variables);      *)
(* body      where it decodes the request body: "none", the whole message  *)
(*           or its entry_update field;                                    *)
(* query     whether it calls PopulateQueryParameters;                     *)
(* filter    the Encoding keys of its filter DoubleArray: query keys it    *)
(*           must not populate.                                            *)
(***************************************************************************)
GetDirectory ==
  [params |-> {"directory_id"}, body |-> "none", query |-> TRUE,
   filter |-> {"directory_id"}]

\* Mutant: the filter omits the revision bound by the path.
GetRevisionFilterless ==
  [params |-> {"directory_id", "revision"}, body |-> "none", query |-> TRUE,
   filter |-> {"directory_id"}]

GetRevision ==
  [params |-> {"directory_id", "revision"}, body |-> "none", query |-> TRUE,
   filter |-> {"directory_id", "revision"}]

GetLatestRevision ==
  [params |-> {"directory_id"}, body |-> "none", query |-> TRUE,
   filter |-> {"directory_id"}]

GetRevisionStream ==
  [params |-> {"directory_id"}, body |-> "none", query |-> TRUE,
   filter |-> {"directory_id"}]

ListMutations ==
  [params |-> {"directory_id", "revision"}, body |-> "none", query |-> TRUE,
   filter |-> {"directory_id", "revision"}]

ListMutationsStream ==
  [params |-> {"directory_id", "revision"}, body |-> "none", query |-> TRUE,
   filter |-> {"directory_id", "revision"}]

GetUser ==
  [params |-> {"directory_id", "user_id"}, body |-> "none", query |-> TRUE,
   filter |-> {"directory_id", "user_id"}]

BatchGetUser ==
  [params |-> {"directory_id"}, body |-> "none", query |-> TRUE,
   filter |-> {"directory_id"}]

BatchGetUserIndex ==
  [params |-> {"directory_id"}, body |-> "none", query |-> TRUE,
   filter |-> {"directory_id"}]

ListEntryHistory ==
  [params |-> {"directory_id", "user_id"}, body |-> "none", query |-> TRUE,
   filter |-> {"directory_id", "user_id"}]

ListUserRevisions ==
  [params |-> {"directory_id", "user_id"}, body |-> "whole", query |-> FALSE,
   filter |-> {}]

BatchListUserRevisions ==
  [params |-> {"directory_id"}, body |-> "whole", query |-> FALSE, filter |-> {}]

QueueEntryUpdate ==
  [params |-> {"directory_id", "entry_update.user_id"}, body |-> "entry_update",
   query |-> FALSE, filter |-> {}]

BatchQueueUserUpdate ==
  [params |-> {"directory_id"}, body |-> "whole", query |-> FALSE, filter |-> {}]

Route ==
  [GetDirectory |-> GetDirectory, GetRevision |-> GetRevision,
   GetLatestRevision |-> GetLatestRevision, GetRevisionStream |-> GetRevisionStream,
   ListMutations |-> ListMutations, ListMutationsStream |-> ListMutationsStream,
   GetUser |-> GetUser, BatchGetUser |-> BatchGetUser,
   BatchGetUserIndex |-> BatchGetUserIndex, ListEntryHistory |-> ListEntryHistory,
   ListUserRevisions |-> ListUserRevisions,
   BatchListUserRevisions |-> BatchListUserRevisions,
   QueueEntryUpdate |-> QueueEntryUpdate,
   BatchQueueUserUpdate |-> BatchQueueUserUpdate]

Methods == DOMAIN Route

\* The fields the body decoder can set that a path also binds: those of the
\* whole message, or user_id inside entry_update.
BodyFields(m) ==
  IF Route[m].body = "entry_update" THEN {"entry_update.user_id"} ELSE Route[m].params

\* f, with g's values on the fields f does not set: a later setter wins.
Overlay(f, g) == [x \in DOMAIN f \cup DOMAIN g |-> IF x \in DOMAIN f THEN f[x] ELSE g[x]]

\* Partial functions from S to T.
PartialFns(S, T) == UNION {[D -> T] : D \in SUBSET S}

\* A request body: empty (the decoder returns io.EOF), not decodable, or a
\* JSON object setting the given fields.
Body ==
  [kind : {"eof", "bad"}, fields : {<<>>}]
    \cup [kind : {"json"}, fields : PartialFns(Fields, Vals)]

\* An HTTP request: its RPC, the pathParams the mux matched, the query and
\* the body.
Request ==
  [method : Methods, path : PartialFns(Fields, Vals),
   query : PartialFns(QueryKeys, Vals), body : Body]

(***************************************************************************)
(* PopulateQueryParameters(&protoReq, req.URL.Query(), filter): a key is   *)
(* skipped when the filter has it as written (HasCommonPrefix of the key  *)
(* split on "."); every other key sets the field it names.  When two keys *)
(* outside the filter name one field, Go's map order decides which value  *)
(* stays; the model takes one of them.                                    *)
(***************************************************************************)
Populating(rt, r) == IF rt.query THEN DOMAIN r.query \ rt.filter ELSE {}

Populated(rt, r) ==
  [f \in {QueryField(k) : k \in Populating(rt, r)} |->
     r.query[CHOOSE k \in Populating(rt, r) : QueryField(k) = f]]

(***************************************************************************)
(* request_KeyTransparency_<RPC>_0 for route rt and HTTP request r, up to  *)
(* the client call: decode the body (io.EOF is no error), then bind every  *)
(* path parameter over what the body set, then populate the query keys    *)
(* outside the filter over both.  Any failure is InvalidArgument.  Only   *)
(* one of body and query occurs in a route.                               *)
(***************************************************************************)
\* Mutant: the body is decoded after the path parameters are bound.
BuildRequestBodyLast(rt, r) ==
  LET decoded   == IF rt.body = "none" THEN <<>> ELSE r.body.fields
      bound     == [f \in rt.params |-> r.path[f]]
      populated == Populated(rt, r)
  IN IF rt.body # "none" /\ r.body.kind = "bad" THEN [ok |-> FALSE, msg |-> <<>>]
     ELSE IF \E f \in rt.params : f \notin DOMAIN r.path \/ ~Converts(f, r.path[f])
          THEN [ok |-> FALSE, msg |-> <<>>]
     ELSE IF \E k \in Populating(rt, r) : ~Converts(QueryField(k), r.query[k])
          THEN [ok |-> FALSE, msg |-> <<>>]
     ELSE [ok |-> TRUE, msg |-> Overlay(populated, Overlay(decoded, bound))]

BuildRequest(rt, r) ==
  LET decoded   == IF rt.body = "none" THEN <<>> ELSE r.body.fields
      bound     == [f \in rt.params |-> r.path[f]]
      populated == Populated(rt, r)
  IN IF rt.body # "none" /\ r.body.kind = "bad" THEN [ok |-> FALSE, msg |-> <<>>]
     ELSE IF \E f \in rt.params : f \notin DOMAIN r.path \/ ~Converts(f, r.path[f])
          THEN [ok |-> FALSE, msg |-> <<>>]
     ELSE IF \E k \in Populating(rt, r) : ~Converts(QueryField(k), r.query[k])
          THEN [ok |-> FALSE, msg |-> <<>>]
     ELSE [ok |-> TRUE, msg |-> Overlay(populated, Overlay(bound, decoded))]

ASSUME GatewayAssumption ==
  IntVals \subseteq Vals /\ Handlers # {} /\ Requests \subseteq Request

\* The request slot of an idle handler goroutine.
NoReq == [method |-> "none", path |-> <<>>, query |-> <<>>,
          body |-> [kind |-> "eof", fields |-> <<>>]]

VARIABLES
  phase,       \* RegisterKeyTransparencyHandlerFromEndpoint: dial, register,
               \* defer (its deferred function runs), returned
  err,         \* its named result err is non-nil
  conn,        \* the grpc.ClientConn: none, open, closed
  closes,      \* conn.Close calls made
  watcher,     \* the goroutine waiting on ctx.Done(): none, waiting, done
  ctxDone,     \* the caller's ctx is done
  registered,  \* the handlers are on the mux
  hpc,         \* per handler goroutine: idle or call (its client call pending)
  hreq,        \* the HTTP request it serves
  sent,        \* the gRPC request message it built
  result       \* its last response: none, forwarded, error

vars == <<phase, err, conn, closes, watcher, ctxDone, registered, hpc, hreq, sent,
          result>>

TypeOK ==
  /\ phase \in {"dial", "register", "defer", "returned"}
  /\ err \in BOOLEAN /\ ctxDone \in BOOLEAN /\ registered \in BOOLEAN
  /\ conn \in {"none", "open", "closed"}
  /\ closes \in 0..2
  /\ watcher \in {"none", "waiting", "done"}
  /\ hpc \in [Handlers -> {"idle", "call"}]
  /\ hreq \in [Handlers -> Requests \cup {NoReq}]
  /\ result \in [Handlers -> {"none", "forwarded", "error"}]

Init ==
  /\ phase = "dial" /\ err = FALSE /\ conn = "none" /\ closes = 0
  /\ watcher = "none" /\ ctxDone = FALSE /\ registered = FALSE
  /\ hpc = [h \in Handlers |-> "idle"]
  /\ hreq = [h \in Handlers |-> NoReq]
  /\ sent = [h \in Handlers |-> <<>>]
  /\ result = [h \in Handlers |-> "none"]

handlerVars == <<hpc, hreq, sent, result>>

\* grpc.Dial: on error the function returns it before deferring anything.
Dial ==
  /\ phase = "dial"
  /\ \/ conn' = "open" /\ phase' = "register" /\ UNCHANGED err
     \/ err' = TRUE /\ phase' = "returned" /\ UNCHANGED conn
  /\ UNCHANGED <<closes, watcher, ctxDone, registered, handlerVars>>

\* return RegisterKeyTransparencyHandler(ctx, mux, conn): mux.Handle for each
\* RPC, then nil into err.
Register ==
  /\ phase = "register"
  /\ registered' = TRUE /\ err' = FALSE /\ phase' = "defer"
  /\ UNCHANGED <<conn, closes, watcher, ctxDone, handlerVars>>

Close == conn' = "closed" /\ closes' = closes + 1

\* Mutant: the deferred function forgets to start the closing goroutine.
DeferNoWatcher ==
  /\ phase = "defer" /\ phase' = "returned"
  /\ IF err THEN Close /\ UNCHANGED watcher ELSE UNCHANGED <<conn, closes, watcher>>
  /\ UNCHANGED <<err, ctxDone, registered, handlerVars>>

\* Mutant: conn.Close() deferred unconditionally right after the dial.
DeferCloseAlways ==
  /\ phase = "defer" /\ phase' = "returned"
  /\ Close /\ UNCHANGED watcher
  /\ UNCHANGED <<err, ctxDone, registered, handlerVars>>

\* The deferred function reads the named err set by the return statement.
Defer ==
  /\ phase = "defer" /\ phase' = "returned"
  /\ IF err THEN Close /\ UNCHANGED watcher
     ELSE watcher' = "waiting" /\ UNCHANGED <<conn, closes>>
  /\ UNCHANGED <<err, ctxDone, registered, handlerVars>>

\* The caller cancels ctx (environment).
Cancel ==
  /\ ~ctxDone /\ ctxDone' = TRUE
  /\ UNCHANGED <<phase, err, conn, closes, watcher, registered, handlerVars>>

\* The goroutine: <-ctx.Done(); conn.Close().
Watch ==
  /\ watcher = "waiting" /\ ctxDone
  /\ Close /\ watcher' = "done"
  /\ UNCHANGED <<phase, err, ctxDone, registered, handlerVars>>

(***************************************************************************)
(* A handler receives r: AnnotateContext (it may fail), then request_*     *)
(* up to the client call; an error is written with runtime.HTTPError.      *)
(***************************************************************************)
Serve(h, r) ==
  /\ registered /\ hpc[h] = "idle"
  /\ LET b == BuildRequest(Route[r.method], r)
     IN \/ \* AnnotateContext fails
           result' = [result EXCEPT ![h] = "error"] /\ UNCHANGED <<hpc, hreq, sent>>
        \/ /\ ~b.ok
           /\ result' = [result EXCEPT ![h] = "error"] /\ UNCHANGED <<hpc, hreq, sent>>
        \/ /\ b.ok
           /\ hpc' = [hpc EXCEPT ![h] = "call"] /\ hreq' = [hreq EXCEPT ![h] = r]
           /\ sent' = [sent EXCEPT ![h] = b.msg] /\ UNCHANGED result
  /\ UNCHANGED <<phase, err, conn, closes, watcher, ctxDone, registered>>

(***************************************************************************)
(* The rest of every handler: the client call over the shared conn (for  *)
(* the streams, also stream.Header()), then forward_* or runtime.HTTPError *)
(* on its error.  The fourteen handlers share this shape; it can succeed   *)
(* only while conn is open.                                                *)
(***************************************************************************)
Call(h) ==
  /\ hpc[h] = "call"
  /\ \E ok \in BOOLEAN :
       result' = [result EXCEPT ![h] = IF ok /\ conn = "open" THEN "forwarded" ELSE "error"]
  /\ hpc' = [hpc EXCEPT ![h] = "idle"] /\ hreq' = [hreq EXCEPT ![h] = NoReq]
  /\ sent' = [sent EXCEPT ![h] = <<>>]
  /\ UNCHANGED <<phase, err, conn, closes, watcher, ctxDone, registered>>

Next ==
  \/ Dial \/ Register \/ Defer \/ Cancel \/ Watch
  \/ \E h \in Handlers : Call(h) \/ \E r \in Requests : Serve(h, r)

\* The caller's goroutine runs to its return, and a goroutine blocked on a
\* closed Done channel is scheduled.
Spec ==
  /\ Init /\ [][Next]_vars
  /\ WF_vars(Dial) /\ WF_vars(Register) /\ WF_vars(Defer) /\ WF_vars(Watch)

-----------------------------------------------------------------------------
(***************************************************************************)
(* Properties.                                                             *)
(***************************************************************************)

(***************************************************************************)
(* The gRPC request a handler sends carries, for every field the URL path  *)
(* binds, the value of the path: neither a query parameter nor the JSON    *)
(* body can redirect a request to another directory, user or revision.     *)
(* This is what the filter DoubleArray of each request_* is there for; it *)
(* lists the proto names only, and a query key that is a field's JSON     *)
(* name (?directoryId=B on /v1/directories/A) gets past it.               *)
(***************************************************************************)
PathWins ==
  \A h \in Handlers :
    hpc[h] = "call" =>
      \A f \in Route[hreq[h].method].params : sent[h][f] = hreq[h].path[f]

(***************************************************************************)
(* What the filters and the order of body decoding do achieve: a field of *)
(* a sent request that the path binds holds another value than the path's *)
(* only when the field's JSON name differs from its proto name and the    *)
(* query set it under that JSON name.  A body never overrides the path    *)
(* (it is decoded first), and no proto-named query key does (the filter). *)
(***************************************************************************)
PathOverriddenOnlyByAlias ==
  \A h \in Handlers :
    hpc[h] = "call" =>
      \A f \in Route[hreq[h].method].params :
        sent[h][f] # hreq[h].path[f] =>
          /\ JSONName(f) # f
          /\ JSONName(f) \in DOMAIN hreq[h].query
          /\ sent[h][f] = hreq[h].query[JSONName(f)]

(***************************************************************************)
(* Once registration succeeded, the connection the handlers use stays open *)
(* as long as the caller's context is live, and it is closed at most once  *)
(* (the deferred function of RegisterKeyTransparencyHandlerFromEndpoint).  *)
(***************************************************************************)
ConnOpenWhileLive ==
  /\ (registered /\ ~ctxDone) => conn = "open"
  /\ closes <= 1

\* Once the caller's context is done, the connection of a successful
\* registration is eventually closed (the goroutine started in the defer).
ConnReleased == (registered /\ ctxDone) ~> (conn = "closed")

\* The refinement mapping to the lease KtConnLease describes: a failed dial
\* is a failed registration; before the first Close the lease follows the
\* connection, after it the lease is released.
LeaseOf ==
  IF err THEN "failed"
  ELSE IF conn = "none" THEN "none"
  ELSE IF conn = "open" THEN "live"
  ELSE "released"

Lease == INSTANCE KtConnLease WITH lease <- LeaseOf
=============================================================================
