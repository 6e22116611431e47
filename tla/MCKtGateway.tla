---------------------------- MODULE MCKtGateway ----------------------------
(***************************************************************************)
(* KtGateway for TLC: three values, two that runtime.Int64 parses and one  *)
(* it rejects, and the requests the mux can hand to a handler: all path    *)
(* variables of the route bound, a query of up to MaxQueryKeys keys over   *)
(* the proto and JSON names of the fields the route binds plus one        *)
(* unbound field, any body of a body route.                                *)
(***************************************************************************)
EXTENDS KtGateway, FiniteSets

CONSTANTS h1, h2, v7, v8, vx

MCVals == {v7, v8, vx}
MCIntVals == {v7, v8}

\* Two keys are enough for a proto name and a JSON name in one query.
MaxQueryKeys == 2

\* The queries of route m: keys naming its path fields or the unbound one.
QueriesFor(m) ==
  LET keys == {k \in QueryKeys : QueryField(k) \in Route[m].params \cup {Extra}}
  IN UNION {[D -> Vals] : D \in {D \in SUBSET keys : Cardinality(D) <= MaxQueryKeys}}

\* The requests the mux passes to the handler of route m.
RequestsFor(m) ==
  [method : {m}, path : [Route[m].params -> Vals],
   query : IF Route[m].query THEN QueriesFor(m) ELSE {<<>>},
   body : IF Route[m].body = "none" THEN {[kind |-> "eof", fields |-> <<>>]}
          ELSE [kind : {"eof", "bad"}, fields : {<<>>}]
                 \cup [kind : {"json"}, fields : PartialFns(BodyFields(m), Vals)]]

MCRequests == UNION {RequestsFor(m) : m \in Methods}
=============================================================================
