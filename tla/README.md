# TLA+ models of the MeshBox Tribe consensus core

This directory holds the TLA+ specifications, TLC configurations and TLAPS proofs kept beside the
source under `src/`. They model:

- the Tribe proof-of-authority engine in `src/consensus/tribe/status.go`;
- the lazily created RPC client in `src/contracts/ethclient.go`;
- the BLOCKHASH lookup `GetHashFn` and the value-transfer callbacks `CanTransfer` and `Transfer`
  in `src/core/evm.go`;
- the vendored, generated key-transparency HTTP gateway (`keytransparency.pb.gw.go`).

## The system and its parts

`status.go` holds one shared `TribeStatus` per node. It has three parts.

- **Status store.** These fields hold the current authority snapshot: `Signers`, `Leaders` and
  `blackList`. Next to them are the node's derived role `SignerLevel` and its key `nodeKey`.
  - `LoadStatusFromChief` fetches the chief contract's answer for a parent hash. It overwrites
    `Leaders`. If the leader list is empty under SIP100 it panics. Otherwise it overwrites
    `blackList` and `Signers`, then starts a `resetSignersLevel` goroutine.
  - The signer list is stored by `loadSigners`, which is `append(self.Signers[:0], sl...)`. It
    reuses the current backing array whenever the new list fits, overwriting it one pointer at a
    time; `genesisSigner` stores its one signer the same way.
  - The goroutine recomputes `SignerLevel`. It reads the key, then the signer list, the blacklist
    and the leader list. Under chief 0.0.6 it then waits on the `filterVolunteer` message box.
  - `GetMinerAddressByChan` starts a poller. The poller sends the miner address once the key is
    bound and the tribe is initialised.
- **Rotation calculator.** These functions are pure, given the snapshot. `fetchOnSigners`,
  `leaderSort` and `inTurnForCalcDifficultyChief100` compute the Chief100 difficulty. The legacy
  `InTurnForCalcDifficulty` and `InTurnForVerifyDiffculty` compute the older one. `validateSigner`
  decides who may produce a block.
- **Block validator.** `ValidateBlock` accepts blocks up to `CHIEF_NUMBER` at once. On the follower
  path (`validateSigner = true`) it does these steps in order:
  1. refreshes the snapshot with `LoadStatusFromChief`;
  2. recovers the signer;
  3. checks the difficulty from Chief100 on;
  4. checks the VRF under SIP100;
  5. calls `validateSigner`;
  6. checks the transactions: exactly one chief update, at index 0, sent by the signer, with its
     volunteer verified under SIP100.

Each step after the refresh reads the shared snapshot again. The miner's own `Prepare` also calls
`LoadStatusFromChief`, and level goroutines run at any time.

`GetEthclientInstance` returns a package-level client. It creates the client on first use, dialing
the IPC endpoint until that succeeds. `GetHashFn` walks from a header's parent back through
`ChainContext.GetHeader` to find the hash of the ancestor at a given height. The EVM checks every
value transfer with `CanTransfer` (balance at least the amount) before `Transfer` debits the sender
and then credits the recipient.

The gateway has two parts.
- **Registration.** `RegisterKeyTransparencyHandlerFromEndpoint` dials a gRPC connection and
  registers one HTTP handler per RPC on a mux. Its deferred function does one of two things:
  - if the named result `err` is set, it closes the connection;
  - otherwise it starts a goroutine that closes the connection once the caller's context is done.
- **Handlers.** Each handler runs in a net/http goroutine. `request_KeyTransparency_<RPC>_0` builds
  the gRPC request in this order:
  1. decodes the body, for POST routes;
  2. binds and converts each path variable;
  3. populates the query parameters outside the route's filter, for GET routes.

  The filter lists the path variables by their proto names (`directory_id`). grpc-gateway's
  `PopulateQueryParameters` resolves a query key by a field's proto name or by its JSON name
  (`directoryId`), and tests the filter on the key as written.

  The handler then calls the client over the shared connection.

## Modules

| Module | Models | State and actions |
|---|---|---|
| `TribeRotation` | the rotation calculator and `validateSigner` | Pure operators. Each takes the signer and leader lists as arguments. Protocol generations are height thresholds (constants). |
| `TribeStatus` | the status store | Variables: `nodeKey`, `isInit`, `signers`, `leaders`, `blackList`, `signerLevel`. `tasks` holds the live level goroutines, each as (load height, address read, next statement). The poller has its own state. `crashed` records a panic. Actions: `SetNodeKey`, `GenesisSigner`, `TribeInit`, `LoadStatusFromChief` (the chief's answer is any element of `StatusSet`; a failed fetch changes nothing). The goroutine steps are `LevelStart` (the key read, which panics on nil, then the signer walk), `LevelBlack`, `LevelLeaders` and `LevelFilterReply`. The poller has `GetMinerAddressByChan` and `PollReady`. |
| `TribeValidate` | `ValidateBlock` with the store | Variables: `vpc` (the next step), `blk`, `vsig`, `verdict`, plus the ghost `vstatus` (what this call's refresh installed). Actions: `Arrive`, `Refresh`, `CheckSeal`, `CheckSigner`, `CheckTxs`, interleaved with the level goroutines. `SpecWithPrepare` also interleaves loads from `Prepare`. ecrecover, the VRF check, the period check and VerifyMiner are oracles: block fields or nondeterministic booleans. |
| `EthclientSingleton` | `GetEthclientInstance` | Variables: the global `client`, and for each caller its statement, its local `ec` and its last result. Actions: `Call`, `Check`, `Dial`, `Store`, `Return`. A failed dial only sleeps, so it is a stutter. |
| `TribeSignersCopy` | `loadSigners` and a reader of `Signers` | Memory is a set of backing arrays `mem[a]` as long as their capacity, and `hdr` is the slice header (array, length). `LoadSigners` either copies in place (`LoadCopy` one element per step, then `LoadFinish` writes the header) or, when the list does not fit, allocates an array with the capacity `runtime.growslice` gives (`GrowCap`) and writes the header in one step. `GenesisSigner` stores a one-element list. The walker is the first loop of `resetSignersLevel`: `WalkStart` reads the header once, `WalkStep` reads one element. The history variables `cur` and `held` record the last list installed and the lists current or being stored during a walk. |
| `EvmTransfer` | `CanTransfer`, `Transfer` | `balance` maps accounts to integers (big.Int can go negative). `ValueCall` is a value transfer of the EVM: `CanTransfer` guards `Transfer`, which applies `SubBalance` and then `AddBalance`, the second reading what the first wrote. |
| `EvmChain` | the chain `GetHashFn` reads, and one step of its loop | The chain is a map from hash to (parent, number). It grows by `Insert`, forks included. `Dec` is uint64 `- 1`, which wraps at 0; `GetHeader` is `ChainContext.GetHeader`. |
| `EvmGetHash` | `GetHashFn` | Extends `EvmChain`. `Walk` is the loop, a `RECURSIVE` operator, with the reference `AncestorAt` it is checked against. |
| `KtConnLease` | what the endpoint registration promises | An abstract lease with `lease` (none, live, released, failed) and `ctxDone`. The actions are `Acquire`, `Fail`, `Cancel` and `Release`, and `Release` needs the context done. `Spec` adds weak fairness on `Release`. |
| `KtGateway` | the gateway | Each `request_*` is a route record: its path variables, where it decodes the body, whether it reads the query, and its filter keys. `BuildRequest` is the common control of `request_*`, with messages as field→value functions. `JSONName`, `QueryField`, `Populating` and `Populated` model what `PopulateQueryParameters` does with a query: keys outside the filter set the field whose proto or JSON name they are. The runtime is not vendored, so this follows grpc-gateway v1. Variables: registration `phase`, the named `err`, `conn`, `closes`, the closing goroutine `watcher`, `ctxDone`, `registered`, and per handler goroutine its statement, request, built message and last result. Actions: `Dial`, `Register`, `Defer`, `Cancel` (environment), `Watch`, `Serve` (AnnotateContext, then `request_*` up to the call), `Call`. `LeaseOf` maps the state to the lease: a failed dial is "failed", and otherwise the lease follows `conn`. `Lease` instantiates `KtConnLease` with this mapping. |
| `MC*` | instances for TLC | Model values for addresses and callers, small status sets, and heights 3..7 that cross every generation boundary. |
| `*Proofs` | TLAPS proofs | See below. |

## Runs

| Run | Checks | Result |
|---|---|---|
| `status_store` | `RotationRanking` | Pass, about 19 800 states. The chief offers every signer list of 1 to 3 distinct addresses and every leader list of 0 to 2. At every Chief100/SIP100 height the snapshot satisfies three things. A producer is authorized iff its difficulty is above `diffNoTurn`. Authorized producers get distinct difficulties. The in-turn signer alone gets `diff`. This holds after loads, panicking loads, `genesisSigner` and level goroutines. |
| `empty_signers_ranking` | `RotationRanking` | **Violated.** With an empty signer list, `validateSigner` authorizes a leader. `inTurnForCalcDifficultyChief100` gives that leader `diffNoTurn`, because its `sl > 0` guard skips the leader branch. |
| `validate` | `AcceptedMatchesOwnStatus` | Pass, about 64 700 states. An accepted follower block passed the signer and difficulty checks under the status its own refresh installed. Its chief tx is from its signer. |
| `validate_prepare_race` | `AcceptedMatchesOwnStatus` | **Violated.** A `Prepare` load between the refresh and the checks makes the block be judged by another parent's authority set. |
| `ethclient` | `ReturnedNonNil` | Pass. Three callers call repeatedly and concurrently. None ever gets nil. |
| `ethclient_race` | `OneClient` | **Violated.** Two first callers both see nil and both dial (`dials = 2`). The second store overwrites the first client, whose connection leaks. A caller that returned before that store keeps a different client from the callers after it. |
| `gateway` | `PathOverriddenOnlyByAlias`, `ConnOpenWhileLive`, `ConnReleased` | Pass, about 50 700 states. All 14 routes are exercised with every path and body over three values, one of which `Int64` rejects, and every query of up to two keys over the proto and JSON names of the route's fields plus a field no path binds. A path-bound field of the gRPC request a handler sends holds another value than the path's only when the query named it by a JSON name that differs from its proto name: no body and no proto-named key overrides it. The handler races the caller's cancellation and the closing goroutine. The connection stays open while the context lives and is closed at most once. Once the context is done, it is eventually closed. |
| `gateway_json_alias` | `PathWins` | **Violated.** `GET /v1/directories/v7?directoryId=v8` reaches `GetDirectory` with `directory_id = v8`. The filter skips `directory_id` but not its JSON name, so the query overrides the directory the URL names; `?userId=` does the same to `GetUser` and `ListEntryHistory`. |
| `signers_copy` | `SignersWhole` | Pass, about 98 000 states. One loader stores lists of one to three signers, growing the array (capacities 1, 2, 4) and copying in place with shorter, equal and longer lists. A walker reads concurrently. Whenever no copy is in flight, `Signers` is exactly the list stored last. |
| `signers_torn_walk` | `WalkSeesWhole` | **Violated.** `<<K, B>>` is current and `<<A, K>>` is being copied over it. The walk reads `A` from the new list, then `B` from the old. It concludes that the node is not a signer, though `K` is in both lists. |
| `evm_transfer` | `NoOverdraft`, `TransfersConserve` | Pass, 168 states. Four accounts hold 3, 2, 1 and 0, and amounts run from 0 to 4, past every balance. Every sequence of value calls, transfers to oneself and of a whole balance included, never leaves a balance negative. Each single step either leaves the balances alone or moves one amount from one account to one other (`TransfersConserve`, an action property, which also keeps the total). |
| `gethash` | `GetHashMatchesAncestor` | Pass, 154 states. Every chain of up to six headers is checked. For every ref (child of a stored header, stored header, orphan, number 0 or the maximum) and every height, the result matches a reference. The reference counts parent links instead of comparing numbers. The uint64 wrap below genesis occurs, but it is immaterial: the lookup is of the zero parent hash, which is never stored. |

Each property of a passing run is killed by a mutant: a plausible bug written as an operator next to
the definition it replaces. PROJECT.json lists them:

- the leader round ignored in the Chief100 difficulty;
- a refresh error ignored;
- the local `ec` returned instead of the global;
- `GetHashFn` looking up the parent under ref's own number;
- a gateway filter missing `revision`, and the body decoded after path binding (both for
  `PathOverriddenOnlyByAlias`);
- `conn.Close()` deferred unconditionally;
- the closing goroutine never started;
- `loadSigners` storing the header with the old length;
- `Transfer` reading both balances before writing (a self-transfer mints), which kills `TransfersConserve`;
- `CanTransfer` with its operands swapped.

**Bounds.**
- Three addresses are enough for every relation between signer, leader and blacklist membership:
  in signers at index 0 or later, in leaders only, in both, or in neither.
- Heights 3..7 with thresholds 4 (SIP002, chief 0.0.6) and 5 (SIP100, Chief100) cover these cases:
  - bootstrap blocks;
  - every generation;
  - leader and non-leader rounds for lists of length 1 to 3.
- `MaxTasks` (live level goroutines) is 1 in the passing store run: the ranking is about the lists,
  which goroutines never write.
- Leader lists of at most two keep `diff - (i+2)` above `diffNoTurn` with `diff = 6`, inside the
  bound the proof of `RotationRankingHolds` assumes. Longer lists are a listed hazard that no run
  reaches.
- `TribeSignersCopy` needs lists of lengths 1 to 3 to grow an array twice and to copy shorter,
  equal and longer lists in place. A torn walk needs a list of two, so that two elements are read.
  `MaxLoads = 4` allows a growth followed by in-place copies.
- `EvmTransfer` needs one amount larger than every balance and one equal to a balance. Four
  accounts leave room for transfers among others while one account is the sender and recipient.
- `MaxUint = 15` stands in for 2^64 - 1. Only its wrap below zero matters.
- The gateway needs two distinct values that parse as integers, so that a query can differ from the
  path. A third, unparsable value exercises the conversion errors. Queries of up to two keys
  (`MaxQueryKeys`) allow a proto name and a JSON name, or a path field and the unbound one, in one
  request. A single handler suffices for
  routing, since handlers share nothing but the connection. That one handler also races the
  close.

`CHECK_DEADLOCK FALSE` is used in these places:
- the store and validator runs, because a panic (`crashed`) really ends the process;
- `gethash`, where the chain stops growing at its bound;
- the gateway runs, because a failed dial ends registration and nothing else can happen.

The `TribeSignersCopy` and `EvmTransfer` runs check deadlock: the walker, and value calls, can always
take another step.

**Fairness.** `StoreSpec` and the validator's specifications have no fairness: they claim safety
only. The gateway `Spec` has weak fairness on four actions:
- the registering goroutine's steps (`Dial`, `Register`, `Defer`), because it runs to its return;
- `Watch`, because a goroutine blocked on a closed `Done` channel stays enabled and is scheduled.

The caller's cancellation and the HTTP clients get no fairness. Nothing is claimed about a level
goroutine that waits on the `filterVolunteer` reply. The reply comes from the message box, and the
code does not bound the wait.

## Proofs (TLAPS)

- `TribeStatusProofs`: `StoreTypeCorrect`, `StoreSpec => []TypeOK`. It has one lemma per action.
  The lemmas on removing or advancing a goroutine in `tasks` rest on `SequenceTheorems`. They need
  `StatusAssumption` (`MaxTasks \in Nat`, `StatusSet \subseteq Status`).

  `RotationRankingHolds` proves `StoreSpec => []RotationRanking` for every value of the constants,
  under three hypotheses:
  - `ChiefAnswersRanked`: every chief answer has signer and leader lists of unique addresses
    (spec §3). An empty signer list comes only with an empty leader list; `empty_signers_ranking`
    shows why this is needed. Every leader list is shorter than `Diff - DiffNoTurn - 1`.
  - `ChiefNumber < Chief100Height`: the bootstrap blocks end before the Chief100 generation.
  - `DiffNoTurn + 1 < Diff`: the secondary difficulty beats `diffNoTurn`.

  The code checks none of these; they are what the chief contract and the chain parameters must
  provide. The leader bound is the `status.go:212` hazard: a longer leader list pushes a leader's
  difficulty down to `diffNoTurn`.

  `RotationRanking` is not inductive. The strengthening `RankingInv` says that the installed
  `Signers` and `Leaders` keep the three list properties. It was checked with TLC on the
  `status_store` instance first. Its step lemma has one case for each writer of the lists:
  - a load installs a chief answer;
  - a load that panics on an empty SIP100 leader list installs the empty leader list beside the
    old signers;
  - `genesisSigner` installs a one-signer list beside the current leaders.

  `RankingInv => RotationRanking` is `RankingHolds` of `TribeRotationProofs`, applied at each
  height.
- `TribeRotationProofs`: `RankingHolds`, the pure core of the ranking. It holds for every height
  of the SIP100 generation past `CHIEF_NUMBER`, for every signer list `s` and leader list `L` of
  unique addresses with `s = <<>> => L = <<>>` and `Len(L) + 1 < Diff - DiffNoTurn`. It proves the
  `Ranking` of `TribeRotation` without induction, by classifying each address:
  - `SignerRank`: the signer at position `k` gets `diff` in its turn, `diff - 1` at position 1 and
    `diffNoTurn` otherwise. It is authorized exactly in the first two cases. This rests on
    `FetchAt`: `fetchOnSigners` returns `k - 1` on unique lists.
  - `LeaderRank`: a leader that is not a signer sits at position `p` of `leaderSort(signers[0],
    Leaders)`. It gets `diff - p` or `diff - (p + 1)` and is authorized.
  - `OtherRank`: everyone else gets `diffNoTurn` and is not authorized.

  Two distinct leaders get distinct positions because `leaderSort` keeps the list duplicate-free.
  `LeaderSortAt` and `LeaderSortKeeps` prove this from the two `SubSeq` halves it concatenates.
- `TribeValidateProofs`:
  - `ValTypeCorrect`;
  - `AcceptedMatchesOwnStatusHolds`, which is `Spec => []AcceptedMatchesOwnStatus` for every value
    of the constants.

  `AcceptedMatchesOwnStatus` is not inductive. The strengthening `IInv` adds three facts, each
  checked with TLC first:
  - `SnapshotIsOwn`: between its refresh and its return, a live follower validation sees the lists
    its refresh installed. This holds because only loads write them and ValidateBlock is the only
    loader in `Spec`.
  - `SealChecked`: the difficulty check that passed holds against `vstatus`.
  - `SignerChecked`: the signer check that passed holds against `vstatus`.

  The step proof has one case per action. The key lemmas are:
  - `TxCheckOk`: the transaction loop says "ok" only for a single chief tx at index 0, sent by the
    signer on the follower path.
  - `ValidateSignerTimely`: validateSigner only gets stricter when timeliness is required.
  - `LevelNextKeepsLists` (in `TribeStatusProofs`): goroutine steps never write the lists.

  Under `SpecWithPrepare` the theorem is false, and `validate_prepare_race` shows how.
- `KtGatewayProofs`: `PathOverriddenOnlyByAliasHolds`, `Spec => []PathOverriddenOnlyByAlias` for
  any values, requests and handler count. It rests on these lemmas:
  - `FilterCoversPath`: every route that populates the query lists each of its path variables in
    its filter. This is checked route by route.
  - `QueryFieldNamed` and `UnfilteredKeyIsAlias`: a key that gets past a filter listing the field
    it sets is that field's JSON name, and that name differs from the proto name.
  - `BuildOverridesOnlyByAlias`: in the message `request_*` builds, a path-bound field either has
    the path's value (the body is decoded before the path is bound) or a query value set under
    the field's JSON name.

  The invariant adds well-formedness of the handler slots: a handler in a call serves a real
  request. The stronger `PathWins` is false (`gateway_json_alias`).

  `ConnOpenWhileLiveHolds` proves `ConnOpenWhileLive` for any handler count. Its strengthening
  `LifeInv` ties together the registration phase, the named `err`, the connection and the watcher:
  - registration implies a nil `err`, so the defer starts the watcher rather than closing;
  - the connection is open from the dial to the defer;
  - only the watcher closes it, once, after the context is done.
  `LeaseRefined` proves `Spec => Lease!SafetySpec`, the refinement of the abstract lease without
  its fairness. The proof has three parts:
  - the initial state maps to the lease's;
  - `LeaseStep` shows that under `LifeInv` every step maps to a lease step or a stutter;
  - `LifeInv` gained one fact for it: the connection is none while the dial is pending.

  The lease's liveness is the model-checked `ConnReleased`.
- `EvmTransferProofs`: `NoOverdraftHolds`, `Spec => []NoOverdraft` for any accounts, amounts and
  genesis balances. The inductive invariant types balances as naturals. `TransferKeepsNat` shows
  that a transfer CanTransfer approved keeps them natural, even when the recipient is the sender.

  `TransfersConserveHolds` proves the action property `Spec => TransfersConserve`: every step
  leaves the balances alone or moves one amount between two accounts and touches no third. It
  rests on the same invariant and two lemmas about `Transfer`:
  - `TransferSelf`: a transfer to oneself is the identity, because `AddBalance` reads what
    `SubBalance` wrote;
  - `TransferOther`: between two accounts it debits one, credits the other and changes nothing
    else.

  This is the per-step form of supply conservation: every step keeps the sum of the balances.
- `EthclientSingletonProofs`: `ReturnedNonNilHolds` for any set of callers. The strengthening says:
  - a caller about to store holds a dialed client;
  - a caller about to return finds the global set.

The rotation operators (`InTurnForVerifyDiffculty`, `ValidateSigner`) stay opaque in the
validation proofs where possible. `RotationRanking` needs no induction over sequences: unique
lists let each address be classified by its position.

These results stay with TLC:
- liveness (`ConnReleased`), since TLAPS does not handle fairness and `ENABLED`;
- `SignersWhole` and `WalkSeesWhole` of `TribeSignersCopy`;
- `GetHashMatchesAncestor`: it is about what the recursive `Walk` of `EvmGetHash` computes. That
  needs induction over data: the library's induction theorems take an operator parameter that the
  installed provers cannot instantiate, and a `RECURSIVE` operator takes the SMT backend away from
  its module;
- the violations.

## Not modelled

- Epoch, limits and scores: no code in `src` reads them.
- The byte layout of extra data and the VRF primitive. `verifyVrfNum` is an oracle.
- `NewEVMContext`. It changes no state: it copies header and message fields into a record. Its one
  choice is that the coinbase is `Engine().Author(header)`, with the `author` argument ignored.
  That matters only where fees are credited, in the state transition, which is not in `src`.
- The StateDB behind `CanTransfer` and `Transfer` (`GetBalance`, `SubBalance`, `AddBalance`). It is
  a balance map, and nothing in `src` reverts or journals it.
- `cmd/gennodekey`, which is key printing.
- The runtime example test.
- In the gateway: JSON marshalling, error formatting, response forwarding and stream framing.
  They are reduced to an ok/error outcome. When two query keys outside the filter name one field,
  Go's map order picks the value that stays; the model takes one of them.
- The `SignerLevel` left by overlapping `resetSignersLevel` goroutines. They read the three lists at
  different times and write in any order, so an older goroutine can override a newer one. The spec
  (§4.1, §5) accepts this last-write-wins role, so no run checks the level.
- Cancellation of the `GetMinerAddressByChan` poller. The code takes none, and the model has no
  consumer that abandons the channel.
- `SetNodeKey` overwrites a bound key; the spec says a second call fails. The action models this,
  but no run checks it: it is a single assignment.
- Two concurrent `loadSigners` (one from `Prepare`, one from `ValidateBlock`) can also leave the
  header naming one list's length over the other's elements. `MCTribeSignersCopy` with
  `Loaders = {l1, l2}` shows this. No run keeps it, because the torn walk already exhibits the in-place
  copy.
- In `TribeStatus`, a load is one atomic step. The in-place copy, with its torn reads, is modelled
  separately in `TribeSignersCopy`. Tearing of the three-word slice header is not modelled: in the
  in-place case only the length changes, and a fresh array is private until the header names it.
