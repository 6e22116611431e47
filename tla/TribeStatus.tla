---------------------------- MODULE TribeStatus ----------------------------
(***************************************************************************)
(* The TribeStatus store of consensus/tribe/status.go: the authority       *)
(* snapshot (Signers, Leaders, blackList) replaced by LoadStatusFromChief, *)
(* the node key bound by SetNodeKey, the SignerLevel recomputed by the     *)
(* resetSignersLevel goroutine that every successful load starts, and the  *)
(* GetMinerAddressByChan poller.  The goroutines run concurrently with     *)
(* later loads and with each other; nothing in the code synchronises them. *)
(***************************************************************************)
EXTENDS TribeRotation

CONSTANTS
  Heights,    \* the block numbers a load can be made for
  Keys,       \* the addresses of the node keys SetNodeKey may bind
  StatusSet,  \* the answers the chief contract can give to TribeGetStatus
  MaxTasks    \* bound on resetSignersLevel goroutines alive at once

\* An answer of TribeGetStatus, reduced to the lists the engine reads.
Status == [signers : Seq(Addr), leaders : Seq(Addr), blackList : Seq(Addr)]

ASSUME StatusAssumption ==
  /\ Heights \subseteq Nat
  /\ Keys \subseteq Addr
  /\ StatusSet \subseteq Status
  /\ MaxTasks \in Nat

Levels == {"LevelNone", "LevelSigner", "LevelSinner", "LevelVolunteer"}

\* A resetSignersLevel goroutine: the load's number, the miner address it
\* read at its start (NoAddr before), and the next statement it executes.
TaskStages == {"start", "black", "leaders", "filter"}
Task == [n : Heights, m : Addr \cup {NoAddr}, stage : TaskStages]

VARIABLES
  nodeKey,      \* address of the bound node key, NoAddr while nil
  isInit,       \* tribe.isInit
  signers,      \* Signers
  leaders,      \* Leaders
  blackList,    \* blackList
  signerLevel,  \* SignerLevel
  tasks,        \* the resetSignersLevel goroutines alive, in start order
  poller,       \* the GetMinerAddressByChan goroutine: idle, polling, delivered
  delivered,    \* the address it sent on its channel
  crashed       \* a panic ended the process

storeVars == <<nodeKey, isInit, signers, leaders, blackList, signerLevel,
               tasks, poller, delivered, crashed>>

TypeOK ==
  /\ nodeKey \in Keys \cup {NoAddr}
  /\ isInit \in BOOLEAN
  /\ signers \in Seq(Addr)
  /\ leaders \in Seq(Addr)
  /\ blackList \in Seq(Addr)
  /\ signerLevel \in Levels
  /\ tasks \in Seq(Task)
  /\ Len(tasks) <= MaxTasks
  /\ poller \in {"idle", "polling", "delivered"}
  /\ delivered \in Keys \cup {NoAddr}
  /\ crashed \in BOOLEAN

\* NewTribeStatus: empty signer list, LevelNone, no key.
StoreInit ==
  /\ nodeKey = NoAddr
  /\ isInit = FALSE
  /\ signers = <<>>
  /\ leaders = <<>>
  /\ blackList = <<>>
  /\ signerLevel = "LevelNone"
  /\ tasks = <<>>
  /\ poller = "idle"
  /\ delivered = NoAddr
  /\ crashed = FALSE

\* SetNodeKey: overwrites the key, whether or not one is bound.
SetNodeKey(k) ==
  /\ ~crashed
  /\ nodeKey' = k
  /\ UNCHANGED <<isInit, signers, leaders, blackList, signerLevel, tasks,
                 poller, delivered, crashed>>

\* IsLeader: membership in the current leader list.
IsLeader(addr) == addr \in Elems(leaders)

\* genesisSigner: the signer list becomes the one address in the genesis
\* header's extra data.
GenesisSigner(a) ==
  /\ ~crashed
  /\ signers' = <<a>>
  /\ UNCHANGED <<nodeKey, isInit, leaders, blackList, signerLevel, tasks,
                 poller, delivered, crashed>>

\* The tribe finishes its initialisation (tribe.isInit, set outside status.go).
TribeInit ==
  /\ ~crashed /\ ~isInit
  /\ isInit' = TRUE
  /\ UNCHANGED <<nodeKey, signers, leaders, blackList, signerLevel, tasks,
                 poller, delivered, crashed>>

(***************************************************************************)
(* LoadStatusFromChief(hash, number) with the chief's answer st: the       *)
(* leaders are written, then an empty leader list under SIP100 panics;     *)
(* otherwise signers and blacklist are written and a resetSignersLevel     *)
(* goroutine is started.  A failed TribeGetStatus changes nothing.         *)
(***************************************************************************)
LoadOk(n, st) ==
  /\ leaders' = st.leaders
  /\ IF st.leaders = <<>> /\ IsSIP100Block(n)
     THEN /\ crashed' = TRUE
          /\ UNCHANGED <<signers, blackList, tasks>>
     ELSE /\ signers' = st.signers
          /\ blackList' = st.blackList
          /\ tasks' = Append(tasks, [n |-> n, m |-> NoAddr, stage |-> "start"])
          /\ UNCHANGED crashed

LoadStatusFromChief(n) ==
  /\ ~crashed
  /\ Len(tasks) < MaxTasks
  /\ \/ \E st \in StatusSet : LoadOk(n, st)
     \/ UNCHANGED <<leaders, signers, blackList, tasks, crashed>>
  /\ UNCHANGED <<nodeKey, isInit, signerLevel, poller, delivered>>

\* The sequence s without its i-th element.
Without(s, i) == [j \in 1..(Len(s) - 1) |-> IF j < i THEN s[j] ELSE s[j + 1]]

\* Ending goroutine i after it wrote the level lv.
Finish(i, lv) ==
  /\ signerLevel' = lv
  /\ tasks' = Without(tasks, i)

(***************************************************************************)
(* resetSignersLevel, one step per read of shared state.  Start: reads the *)
(* key (GetMinerAddress panics while it is nil) and walks Signers.         *)
(***************************************************************************)
LevelStart(i) ==
  LET t == tasks[i] IN
  /\ ~crashed /\ t.stage = "start"
  /\ IF nodeKey = NoAddr
     THEN crashed' = TRUE /\ UNCHANGED <<signerLevel, tasks>>
     ELSE /\ UNCHANGED crashed
          /\ IF nodeKey \in Elems(signers)
             THEN Finish(i, "LevelSigner")
             ELSE /\ tasks' = [tasks EXCEPT ![i] = [t EXCEPT !.m = nodeKey, !.stage = "black"]]
                  /\ UNCHANGED signerLevel
  /\ UNCHANGED <<nodeKey, isInit, signers, leaders, blackList, poller, delivered>>

\* Walks blackList.
LevelBlack(i) ==
  LET t == tasks[i] IN
  /\ ~crashed /\ t.stage = "black"
  /\ IF t.m \in Elems(blackList)
     THEN Finish(i, "LevelSinner")
     ELSE tasks' = [tasks EXCEPT ![i].stage = "leaders"] /\ UNCHANGED signerLevel
  /\ UNCHANGED <<nodeKey, isInit, signers, leaders, blackList, poller,
                 delivered, crashed>>

\* Walks Leaders; then for chief 0.0.6 asks the filterVolunteer message box
\* and blocks on its answer, for any other version sets LevelNone.
LevelLeaders(i) ==
  LET t == tasks[i] IN
  /\ ~crashed /\ t.stage = "leaders"
  /\ IF t.m \in Elems(leaders) THEN Finish(i, "LevelSigner")
     ELSE IF ChiefVersion(t.n) = "0.0.6"
          THEN tasks' = [tasks EXCEPT ![i].stage = "filter"] /\ UNCHANGED signerLevel
     ELSE Finish(i, "LevelNone")
  /\ UNCHANGED <<nodeKey, isInit, signers, leaders, blackList, poller,
                 delivered, crashed>>

\* The filterVolunteer answer arrives: a successful 0 makes a volunteer.
LevelFilterReply(i) ==
  /\ ~crashed /\ tasks[i].stage = "filter"
  /\ \E lv \in {"LevelVolunteer", "LevelNone"} : Finish(i, lv)
  /\ UNCHANGED <<nodeKey, isInit, signers, leaders, blackList, poller,
                 delivered, crashed>>

\* GetMinerAddressByChan starts its polling goroutine.
GetMinerAddressByChan ==
  /\ ~crashed /\ poller = "idle"
  /\ poller' = "polling"
  /\ UNCHANGED <<nodeKey, isInit, signers, leaders, blackList, signerLevel,
                 tasks, delivered, crashed>>

\* One poll that finds the key bound and the tribe initialised: the address
\* is sent on the channel.  (A poll that does not find them sleeps a second,
\* a stuttering step.)
PollReady ==
  /\ ~crashed /\ poller = "polling"
  /\ nodeKey # NoAddr /\ isInit
  /\ poller' = "delivered"
  /\ delivered' = nodeKey
  /\ UNCHANGED <<nodeKey, isInit, signers, leaders, blackList, signerLevel,
                 tasks, crashed>>

LevelStep(i) ==
  LevelStart(i) \/ LevelBlack(i) \/ LevelLeaders(i) \/ LevelFilterReply(i)

\* The steps that bind the key and recompute the level.
LevelNext ==
  \/ \E k \in Keys : SetNodeKey(k)
  \/ \E i \in 1..Len(tasks) : LevelStep(i)

\* Every step of the store that is not a load.
StoreNext ==
  \/ LevelNext
  \/ \E a \in Addr : GenesisSigner(a)
  \/ TribeInit
  \/ GetMinerAddressByChan
  \/ PollReady

\* Loads come from any caller (the miner's Prepare, ValidateBlock).
StoreSpec ==
  /\ StoreInit
  /\ [][StoreNext \/ \E n \in Heights : LoadStatusFromChief(n)]_storeVars
-----------------------------------------------------------------------------
(***************************************************************************)
(* Properties.                                                             *)
(***************************************************************************)

\* Fork-choice ranking of the authority set a load installs, at every height
\* of the Chief100 and SIP100 generations (Ranking, in TribeRotation): the
\* difficulty inTurnForCalcDifficultyChief100 assigns and the producers
\* validateSigner authorizes agree on the current Signers and Leaders.
RotationRanking ==
  \A n \in {h \in Heights : ChiefVersion(h) = "1.0.0" /\ IsSIP100Block(h)} :
    Ranking(n, signers, leaders)

=============================================================================
