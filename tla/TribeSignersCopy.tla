-------------------------- MODULE TribeSignersCopy --------------------------
(***************************************************************************)
(* How LoadStatusFromChief and genesisSigner store a new signer list in   *)
(* TribeStatus.Signers (consensus/tribe/status.go): loadSigners does      *)
(*     self.Signers = append(self.Signers[:0], sl...)                      *)
(* which reuses the backing array of the current list whenever it is      *)
(* large enough, overwriting its elements one pointer at a time, and only *)
(* allocates a fresh array when the new list does not fit.  Concurrent    *)
(* with the copies, a resetSignersLevel goroutine (and validateSigner via *)
(* fetchOnSigners) reads the slice header once and then walks the array   *)
(* element by element.                                                     *)
(*                                                                         *)
(* Memory is a set of backing arrays mem[a], each a sequence as long as   *)
(* its capacity; the slice header self.Signers is hdr = [arr, len].  A    *)
(* pointer store is atomic (aligned word), so the copy is one step per    *)
(* element.  The header write is one step: in the in-place case it only   *)
(* changes len, and a freshly allocated array is private until then.      *)
(***************************************************************************)
EXTENDS Naturals, Sequences

CONSTANTS
  Addr,      \* signer addresses
  NoAddr,    \* a nil *Signer slot of an array not yet written
  Key,       \* the node's miner address the walker looks for
  Loaders,   \* goroutines that may call LoadStatusFromChief / genesisSigner
  Lists,     \* signer lists the chief contract can return
  MaxLoads   \* bound on loads, hence on the backing arrays ever allocated

ASSUME SignersCopyAssumption ==
  /\ NoAddr \notin Addr
  /\ Key \in Addr
  /\ Lists \subseteq Seq(Addr)
  /\ \A L \in Lists : Len(L) <= 8   \* the size-class table below covers 16 slots
  /\ MaxLoads \in Nat

Arrays == 0..MaxLoads   \* array 0 is make([]*Signer, 0) of NewTribeStatus

\* The capacity runtime.growslice gives append(s[:0], sl...) when the
\* n = Len(sl) elements do not fit the old capacity c: double c unless n is
\* larger, then round the byte size up to the allocator's size class
\* (8, 16, 24, 32, 48, 64, 80, 96, 112, 128 bytes for 8-byte pointers).
GrowCap(c, n) ==
  LET k == IF n > 2 * c THEN n ELSE 2 * c
  IN  IF k <= 4 THEN k ELSE k + (k % 2)

\* A fresh array of capacity cp holding the list L, nil beyond it.
Fresh(L, cp) == [i \in 1..cp |-> IF i <= Len(L) THEN L[i] ELSE NoAddr]

VARIABLES
  mem,     \* mem[a]: the contents of backing array a
  hdr,     \* self.Signers: [arr |-> backing array, len |-> length]
  loads,   \* loads started so far (the last array allocated is at most this)
  lpc,     \* lpc[l]: "idle" or "copy" (inside append's in-place memmove)
  lsrc,    \* lsrc[l]: the list sl being stored by loader l
  larr,    \* larr[l]: the array self.Signers[:0] named when l started
  li,      \* li[l]: the next element loader l copies
  cur,     \* history: the list of the load whose header write came last
  wpc,     \* the walker: "idle", "walk" or "done"
  whdr,    \* the header the walker's range loop read
  wi,      \* the next element it reads
  found,   \* whether it met Key
  held     \* history: the lists current or being stored during the walk

vars == <<mem, hdr, loads, lpc, lsrc, larr, li, cur, wpc, whdr, wi, found, held>>
loadVars == <<mem, hdr, loads, lpc, lsrc, larr, li, cur>>
walkVars == <<wpc, whdr, wi, found>>

Header == [arr : Arrays, len : Nat]

TypeOK ==
  /\ mem \in [Arrays -> Seq(Addr \cup {NoAddr})]
  /\ hdr \in Header /\ hdr.len <= Len(mem[hdr.arr])
  /\ loads \in 0..MaxLoads
  /\ lpc \in [Loaders -> {"idle", "copy"}]
  /\ lsrc \in [Loaders -> Seq(Addr)]
  /\ larr \in [Loaders -> Arrays]
  /\ li \in [Loaders -> Nat]
  /\ cur \in Seq(Addr)
  /\ wpc \in {"idle", "walk", "done"}
  /\ whdr \in Header /\ wi \in Nat /\ found \in BOOLEAN
  /\ held \subseteq Seq(Addr)

\* The list a reader taking self.Signers now would see.
Visible == SubSeq(mem[hdr.arr], 1, hdr.len)

Init ==
  /\ mem = [a \in Arrays |-> <<>>]
  /\ hdr = [arr |-> 0, len |-> 0]
  /\ loads = 0
  /\ lpc = [l \in Loaders |-> "idle"]
  /\ lsrc = [l \in Loaders |-> <<>>]
  /\ larr = [l \in Loaders |-> 0]
  /\ li = [l \in Loaders |-> 1]
  /\ cur = <<>>
  /\ wpc = "idle" /\ whdr = hdr /\ wi = 1 /\ found = FALSE
  /\ held = {}

\* The header write self.Signers = ...: the list sl becomes the current one.
Install(L, h) == hdr' = h /\ cur' = L

(***************************************************************************)
(* loadSigners(sl), started by loader l.  If sl fits the capacity of the  *)
(* array the header names, append copies into that array in place (steps *)
(* LoadCopy, then LoadFinish); otherwise growslice allocates array loads+1 *)
(* and the header names it, as one step.                                  *)
(***************************************************************************)
LoadSigners(l, sl) ==
  LET cp == Len(mem[hdr.arr]) IN
  /\ lpc[l] = "idle" /\ loads < MaxLoads
  /\ loads' = loads + 1
  /\ held' = IF wpc = "walk" THEN held \cup {sl} ELSE held
  /\ IF Len(sl) <= cp
     THEN /\ lpc' = [lpc EXCEPT ![l] = "copy"]
          /\ lsrc' = [lsrc EXCEPT ![l] = sl]
          /\ larr' = [larr EXCEPT ![l] = hdr.arr]
          /\ li' = [li EXCEPT ![l] = 1]
          /\ UNCHANGED <<mem, hdr, cur>>
     ELSE /\ mem' = [mem EXCEPT ![loads + 1] = Fresh(sl, GrowCap(cp, Len(sl)))]
          /\ Install(sl, [arr |-> loads + 1, len |-> Len(sl)])
          /\ UNCHANGED <<lpc, lsrc, larr, li>>
  /\ UNCHANGED walkVars

\* One pointer of memmove: element li of the source into the shared array.
LoadCopy(l) ==
  /\ lpc[l] = "copy" /\ li[l] <= Len(lsrc[l])
  /\ mem' = [mem EXCEPT ![larr[l]][li[l]] = lsrc[l][li[l]]]
  /\ li' = [li EXCEPT ![l] = @ + 1]
  /\ UNCHANGED <<hdr, loads, lpc, lsrc, larr, cur, held>>
  /\ UNCHANGED walkVars

\* Mutant: the stored header keeps the old length (self.Signers[:0] is
\* re-sliced to the old len instead of taking append's result).
LoadFinishOldLen(l) ==
  /\ lpc[l] = "copy" /\ li[l] > Len(lsrc[l])
  /\ Install(lsrc[l], [arr |-> larr[l], len |-> hdr.len])
  /\ lpc' = [lpc EXCEPT ![l] = "idle"]
  /\ UNCHANGED <<mem, loads, lsrc, larr, li, held>>
  /\ UNCHANGED walkVars

\* append returns [larr, Len(sl)] and it is stored in self.Signers.
LoadFinish(l) ==
  /\ lpc[l] = "copy" /\ li[l] > Len(lsrc[l])
  /\ Install(lsrc[l], [arr |-> larr[l], len |-> Len(lsrc[l])])
  /\ lpc' = [lpc EXCEPT ![l] = "idle"]
  /\ UNCHANGED <<mem, loads, lsrc, larr, li, held>>
  /\ UNCHANGED walkVars

(***************************************************************************)
(* The walk of resetSignersLevel's first loop: range reads the header     *)
(* once, then each element; a match with the miner address returns.      *)
(***************************************************************************)
WalkStart ==
  /\ wpc = "idle"
  /\ wpc' = "walk" /\ whdr' = hdr /\ wi' = 1 /\ found' = FALSE
  /\ held' = {cur} \cup {lsrc[l] : l \in {x \in Loaders : lpc[x] = "copy"}}
  /\ UNCHANGED loadVars

WalkStep ==
  /\ wpc = "walk"
  /\ IF wi > whdr.len
     THEN wpc' = "done" /\ UNCHANGED <<wi, found>>
     ELSE IF mem[whdr.arr][wi] = Key
     THEN wpc' = "done" /\ found' = TRUE /\ UNCHANGED wi
     ELSE wi' = wi + 1 /\ UNCHANGED <<wpc, found>>
  /\ UNCHANGED <<whdr, held>>
  /\ UNCHANGED loadVars

\* The goroutine goes on with the blacklist; a later load starts another walk.
WalkEnd ==
  /\ wpc = "done"
  /\ wpc' = "idle"
  /\ UNCHANGED <<whdr, wi, found, held>>
  /\ UNCHANGED loadVars

\* genesisSigner(header): loadSigners of the one signer in the extra data.
GenesisSigner(l, a) == LoadSigners(l, <<a>>)

Next ==
  \/ \E l \in Loaders :
       \/ \E sl \in Lists : LoadSigners(l, sl)
       \/ \E a \in Addr : GenesisSigner(l, a)
       \/ LoadCopy(l)
       \/ LoadFinish(l)
  \/ WalkStart \/ WalkStep \/ WalkEnd

Spec == Init /\ [][Next]_vars
-----------------------------------------------------------------------------
(***************************************************************************)
(* Properties.                                                             *)
(***************************************************************************)

\* Snapshot replacement is all-or-nothing (spec 5): whenever no loadSigners
\* is between its first copy and its header write, self.Signers is exactly
\* the list of the load that wrote the header last.
SignersWhole ==
  (\A l \in Loaders : lpc[l] = "idle") => Visible = cur

\* A walk over self.Signers (resetSignersLevel, fetchOnSigners) answers as
\* one of the lists that were current or being stored while it walked
\* would answer: it finds the miner address iff that list contains it.
\* A torn read of two lists' elements can answer as neither does.
WalkSeesWhole ==
  wpc = "done" =>
    \E L \in held : found = (\E i \in 1..Len(L) : L[i] = Key)
=============================================================================
