------------------------------- MODULE Arena -------------------------------
(***************************************************************************)
(* The wasm allocator of wasm/rust/src/arena.rs: a bump pointer with an    *)
(* address-ordered, coalescing free list threaded through block headers.   *)
(*                                                                         *)
(* Addresses and sizes are counted in UNITS of 16 bytes, the alignment of  *)
(* every block, so one unit is a header and align16 rounds to whole units. *)
(* A block header is an entry of two partial functions: `size` is defined  *)
(* on the blocks of the heap and `next` on the blocks linked in the free   *)
(* list, so reading a header where no block starts is an error of the      *)
(* model.  Every loop of the code is one action per iteration: its loop    *)
(* invariant is an ordinary invariant here.                                *)
(*                                                                         *)
(* The callers (the JS layer) are the Clients; each owns at most one block *)
(* at a time, never passes a stale pointer (the ABI makes that undefined), *)
(* and fills a block when it gets one.                                     *)
(***************************************************************************)
EXTENDS Integers, FiniteSets

CONSTANTS
  Clients,     \* the owners of blocks
  Requests,    \* the payload sizes they ask for, in units
  Base,        \* __heap_base, rounded up
  PageUnits,   \* units per wasm page
  InitPages,   \* initial size of the linear memory, in pages
  MaxPages,    \* its maximum size
  AddrSpace,   \* 2^32 bytes, in units: where checked_add overflows
  NoClient     \* the caller register when no call is running

ASSUME ArenaAssumption ==
  /\ Requests \subseteq Nat
  /\ Base \in Nat \ {0}
  /\ PageUnits \in Nat \ {0}
  /\ InitPages \in Nat
  /\ MaxPages \in Nat
  /\ AddrSpace \in Nat
  /\ Base <= InitPages * PageUnits
  /\ InitPages <= MaxPages
  /\ MaxPages * PageUnits <= AddrSpace
  /\ NoClient \notin Clients

VARIABLES
  heapTop,     \* HEAP_TOP; 0 until the first call initialises it
  freeHead,    \* FREE_HEAD; 0 = empty
  generation,  \* GENERATION
  pages,       \* memory.size
  size,        \* header field: total units of the block
  next,        \* header field of a listed block: the next one, 0 = last
  mem,         \* what each unit of linear memory holds
  ptr,         \* ptr[c]: the pointer client c owns, 0 = none
  req,         \* req[c]: the payload units it asked for
  kept,        \* kept[c]: how many leading units must hold c's data
  pc,          \* where the running call is; "idle" when none runs
  caller, want, total, prev, cur, res, old, blk, sz, nxt  \* its locals

heap   == <<heapTop, freeHead, size, next>>
growth == <<generation, pages>>
owned  == <<ptr, req, kept>>
locals == <<caller, want, total, prev, cur, res, old, blk, sz, nxt>>
vars   == <<heap, growth, mem, owned, pc, locals>>

Header     == 1
MinPayload == 1
MinBlock   == Header + MinPayload

\* Mutant: the header is forgotten.
NeededTotalHeaderless(n) == IF n < MinBlock THEN MinBlock ELSE n

NeededTotal(n) == Header + (IF n < MinPayload THEN MinPayload ELSE n)

Blocks == DOMAIN size
Free   == DOMAIN next

Junk == "junk"

\* The units of a payload of n units at pointer p.
Payload(p, n) == p .. (p + n - 1)

\* Memory after the units S lost their contents: a header is written there, or
\* the block that holds them is freed (no one may read them any more, so the
\* model forgets them at once).
Lost(S) == [u \in DOMAIN mem |-> IF u \in S THEN Junk ELSE mem[u]]

Init ==
  /\ heapTop = 0 /\ freeHead = 0 /\ generation = 0 /\ pages = InitPages
  /\ size = << >> /\ next = << >>
  /\ mem = [u \in 0 .. (AddrSpace - 1) |-> Junk]
  /\ ptr = [c \in Clients |-> 0]
  /\ req = [c \in Clients |-> 0]
  /\ kept = [c \in Clients |-> 0]
  /\ pc = "idle" /\ caller = NoClient
  /\ want = 0 /\ total = 0 /\ prev = 0 /\ cur = 0 /\ res = 0
  /\ old = 0 /\ blk = 0 /\ sz = 0 /\ nxt = 0

\* The call returns; its locals are gone.
Return ==
  /\ pc' = "idle" /\ caller' = NoClient
  /\ want' = 0 /\ total' = 0 /\ prev' = 0 /\ cur' = 0 /\ res' = 0
  /\ old' = 0 /\ blk' = 0 /\ sz' = 0 /\ nxt' = 0

-----------------------------------------------------------------------------
(* alloc: the first-fit scan.                                              *)

\* alloc(n) by c, up to the start of the scan (init() included).
AllocCall(c, n) ==
  /\ pc = "idle" /\ ptr[c] = 0
  /\ heapTop' = IF heapTop = 0 THEN Base ELSE heapTop
  /\ pc' = "scan"
  /\ caller' = c /\ want' = n /\ total' = NeededTotal(n)
  /\ prev' = 0 /\ cur' = freeHead
  /\ UNCHANGED <<freeHead, size, next, growth, mem, owned, res, old, blk, sz, nxt>>

ScanNext ==
  /\ pc = "scan" /\ cur # 0 /\ size[cur] < total
  /\ prev' = cur /\ cur' = next[cur]
  /\ UNCHANGED <<heap, growth, mem, owned, pc, caller, want, total, res, old, blk, sz, nxt>>

\* The scan ran off the list: bump-allocate.
ScanEnd ==
  /\ pc = "scan" /\ cur = 0
  /\ pc' = "bump"
  /\ UNCHANGED <<heap, growth, mem, owned, locals>>

\* The list link that led to cur now leads to b.
Relink(b, newNext) ==
  /\ freeHead' = IF prev = 0 THEN b ELSE freeHead
  /\ next' = [x \in DOMAIN newNext |-> IF x = prev THEN b ELSE newNext[x]]

\* cur is larger by at least a minimal block: its tail takes its place.
ScanSplit ==
  LET rem == cur + total IN
  /\ pc = "scan" /\ cur # 0 /\ size[cur] >= total + MinBlock
  /\ size' = [b \in Blocks \cup {rem} |->
               CASE b = rem -> size[cur] - total
                 [] b = cur -> total
                 [] OTHER   -> size[b]]
  /\ Relink(rem, [x \in (Free \ {cur}) \cup {rem} |-> IF x = rem THEN next[cur] ELSE next[x]])
  /\ mem' = Lost({rem, cur} \cup ({prev} \ {0}))
  /\ res' = cur /\ pc' = "return"
  /\ UNCHANGED <<heapTop, growth, owned, caller, want, total, prev, cur, old, blk, sz, nxt>>

\* cur is handed out whole, with whatever slack it has.
ScanTake ==
  /\ pc = "scan" /\ cur # 0
  /\ size[cur] >= total /\ size[cur] < total + MinBlock
  /\ Relink(next[cur], [x \in Free \ {cur} |-> next[x]])
  /\ mem' = Lost({prev} \ {0})
  /\ res' = cur /\ pc' = "return"
  /\ UNCHANGED <<heapTop, size, growth, owned, caller, want, total, prev, cur, old, blk, sz, nxt>>

-----------------------------------------------------------------------------
(* ensure_capacity and the bump allocation.                                *)

PagesToAdd(end) == (end - pages * PageUnits + PageUnits - 1) \div PageUnits

\* Mutant: a grow is not counted.
EnsureCapacitySilent(end) ==
  /\ end <= MaxPages * PageUnits
  /\ pages' = IF end <= pages * PageUnits THEN pages ELSE pages + PagesToAdd(end)
  /\ UNCHANGED generation

\* The capacity for byte offset `end` exists, or memory.grow provides it.
EnsureCapacity(end) ==
  \/ /\ end <= pages * PageUnits
     /\ UNCHANGED growth
  \/ /\ end > pages * PageUnits
     /\ pages + PagesToAdd(end) <= MaxPages
     /\ pages' = pages + PagesToAdd(end)
     /\ generation' = generation + 1

\* checked_add overflows, or memory.grow fails: at its maximum, or because
\* the host refuses, which it may do at any time.
OutOfMemory(end) == end >= AddrSpace \/ end > pages * PageUnits

Bump ==
  LET end == heapTop + total IN
  /\ pc = "bump"
  /\ end < AddrSpace
  /\ EnsureCapacity(end)
  /\ heapTop' = end
  /\ size' = [b \in Blocks \cup {heapTop} |-> IF b = heapTop THEN total ELSE size[b]]
  /\ mem' = Lost({heapTop})
  /\ res' = heapTop /\ pc' = "return"
  /\ UNCHANGED <<freeHead, next, owned, caller, want, total, prev, cur, old, blk, sz, nxt>>

BumpFails ==
  /\ pc = "bump" /\ OutOfMemory(heapTop + total)
  /\ res' = 0 /\ pc' = "return"
  /\ UNCHANGED <<heap, growth, mem, owned, caller, want, total, prev, cur, old, blk, sz, nxt>>

-----------------------------------------------------------------------------
(* The two callers of alloc: the export itself and realloc.                *)

\* alloc returns to its client, which fills the payload.
AllocReturn ==
  /\ pc = "return" /\ old = 0
  /\ IF res = 0
     THEN UNCHANGED <<mem, owned>>
     ELSE /\ ptr'  = [ptr  EXCEPT ![caller] = res + Header]
          /\ req'  = [req  EXCEPT ![caller] = want]
          /\ kept' = [kept EXCEPT ![caller] = want]
          /\ mem'  = [u \in DOMAIN mem |->
                       IF u \in Payload(res + Header, want) THEN caller ELSE mem[u]]
  /\ Return
  /\ UNCHANGED <<heap, growth>>

\* realloc failed to allocate: the original block stays as it is.
ReallocFails ==
  /\ pc = "return" /\ old # 0 /\ res = 0
  /\ Return
  /\ UNCHANGED <<heap, growth, mem, owned>>

MinOf(a, b) == IF a < b THEN a ELSE b

\* Mutant: the header is subtracted twice.
CopiedUnitsTooFew(oldTotal, n) == MinOf(oldTotal - Header - Header, n)

\* What realloc copies: the smaller of the two payloads.
CopiedUnits(oldTotal, n) == MinOf(oldTotal - Header, n)

\* realloc copies min(old payload, new size) and starts to free the original.
ReallocMove ==
  LET np   == res + Header
      copy == CopiedUnits(size[old - Header], want)
  IN
  /\ pc = "return" /\ old # 0 /\ res # 0
  /\ mem' = [u \in DOMAIN mem |->
              CASE u \in Payload(np, copy) -> mem[old + (u - np)]
                [] u \in Payload(old, size[old - Header] - Header) -> Junk
                [] OTHER -> mem[u]]
  /\ ptr'  = [ptr  EXCEPT ![caller] = np]
  /\ req'  = [req  EXCEPT ![caller] = want]
  /\ kept' = [kept EXCEPT ![caller] = MinOf(@, want)]
  /\ blk' = old - Header /\ sz' = size[old - Header]
  /\ prev' = 0 /\ nxt' = freeHead
  /\ pc' = "walk"
  /\ UNCHANGED <<heap, growth, caller, want, total, cur, res, old>>

-----------------------------------------------------------------------------
(* realloc of a live block.                                                *)

\* Enough room already, and the tail is too small to split off.
ReallocKeep(c, n) ==
  /\ pc = "idle" /\ ptr[c] # 0
  /\ NeededTotal(n) <= size[ptr[c] - Header]
  /\ size[ptr[c] - Header] - NeededTotal(n) < MinBlock
  /\ req'  = [req  EXCEPT ![c] = n]
  /\ kept' = [kept EXCEPT ![c] = MinOf(@, n)]
  /\ UNCHANGED <<heap, growth, mem, ptr, pc, locals>>

\* Shrink: the tail becomes a block of its own and goes to insert_free.
ReallocShrink(c, n) ==
  LET block == ptr[c] - Header
      rem   == block + NeededTotal(n)
      tail  == size[block] - NeededTotal(n)
  IN
  /\ pc = "idle" /\ ptr[c] # 0
  /\ NeededTotal(n) <= size[block] /\ tail >= MinBlock
  /\ size' = [b \in Blocks \cup {rem} |->
               CASE b = rem   -> tail
                 [] b = block -> NeededTotal(n)
                 [] OTHER     -> size[b]]
  /\ mem' = Lost({block} \cup rem .. (rem + tail - 1))
  /\ req'  = [req  EXCEPT ![c] = n]
  /\ kept' = [kept EXCEPT ![c] = MinOf(@, n)]
  /\ blk' = rem /\ sz' = tail
  /\ prev' = 0 /\ nxt' = freeHead
  /\ pc' = "walk"
  /\ UNCHANGED <<heapTop, freeHead, next, growth, ptr, caller, want, total, cur, res, old>>

\* The block is the topmost one: extend it in place.
ReallocExtend(c, n) ==
  LET block == ptr[c] - Header
      end   == block + NeededTotal(n)
  IN
  /\ pc = "idle" /\ ptr[c] # 0
  /\ NeededTotal(n) > size[block] /\ block + size[block] = heapTop
  /\ end < AddrSpace
  /\ EnsureCapacity(end)
  /\ heapTop' = end
  /\ size' = [size EXCEPT ![block] = NeededTotal(n)]
  /\ mem' = Lost({block})
  /\ req' = [req EXCEPT ![c] = n]
  /\ UNCHANGED <<freeHead, next, ptr, kept, pc, locals>>

\* ... or fails to: nothing changes and realloc returns 0.
ReallocExtendFails(c, n) ==
  LET block == ptr[c] - Header IN
  /\ pc = "idle" /\ ptr[c] # 0
  /\ NeededTotal(n) > size[block] /\ block + size[block] = heapTop
  /\ OutOfMemory(block + NeededTotal(n))
  /\ UNCHANGED vars

\* Any other growth allocates elsewhere first.
ReallocElsewhere(c, n) ==
  LET block == ptr[c] - Header IN
  /\ pc = "idle" /\ ptr[c] # 0
  /\ NeededTotal(n) > size[block] /\ block + size[block] # heapTop
  /\ pc' = "scan"
  /\ caller' = c /\ want' = n /\ total' = NeededTotal(n) /\ old' = ptr[c]
  /\ prev' = 0 /\ cur' = freeHead
  /\ UNCHANGED <<heap, growth, mem, owned, res, blk, sz, nxt>>

-----------------------------------------------------------------------------
(* free and insert_free.                                                   *)

FreeCall(c) ==
  /\ pc = "idle" /\ ptr[c] # 0
  /\ ptr'  = [ptr  EXCEPT ![c] = 0]
  /\ req'  = [req  EXCEPT ![c] = 0]
  /\ kept' = [kept EXCEPT ![c] = 0]
  /\ mem'  = Lost(Payload(ptr[c], size[ptr[c] - Header] - Header))
  /\ blk' = ptr[c] - Header /\ sz' = size[ptr[c] - Header]
  /\ prev' = 0 /\ nxt' = freeHead
  /\ pc' = "walk"
  /\ UNCHANGED <<heap, growth, caller, want, total, cur, res, old>>

\* Mutant: the walk does not advance.
WalkNextStays ==
  /\ pc = "walk" /\ nxt # 0 /\ nxt < blk
  /\ prev' = nxt /\ nxt' = nxt
  /\ UNCHANGED <<heap, growth, mem, owned, pc, caller, want, total, cur, res, old, blk, sz>>

\* insert_free, first loop: find the neighbours of blk in the list.
WalkNext ==
  /\ pc = "walk" /\ nxt # 0 /\ nxt < blk
  /\ prev' = nxt /\ nxt' = next[nxt]
  /\ UNCHANGED <<heap, growth, mem, owned, pc, caller, want, total, cur, res, old, blk, sz>>

\* Mutants: no forward merge; no backward merge.
AdjoinsNextNever == FALSE
AdjoinsPrevNever == FALSE
AdjoinsNext == nxt # 0 /\ blk + sz = nxt
AdjoinsPrev == prev # 0 /\ prev + size[prev] = blk

\* Coalesce forward, then backward; after a backward merge the list is
\* searched again for the predecessor (pred_of).
Coalesce ==
  LET joined == IF AdjoinsNext THEN sz + size[nxt] ELSE sz IN
  /\ pc = "walk" /\ (nxt = 0 \/ nxt >= blk)
  /\ nxt' = IF AdjoinsNext THEN next[nxt] ELSE nxt
  /\ IF AdjoinsPrev
     THEN /\ blk' = prev /\ sz' = joined + size[prev]
          /\ prev' = 0 /\ cur' = freeHead /\ pc' = "pred"
     ELSE /\ sz' = joined /\ pc' = "splice"
          /\ UNCHANGED <<blk, prev, cur>>
  /\ UNCHANGED <<heap, growth, mem, owned, caller, want, total, res, old>>

PredNext ==
  /\ pc = "pred" /\ cur # 0 /\ cur # blk
  /\ prev' = cur /\ cur' = next[cur]
  /\ UNCHANGED <<heap, growth, mem, owned, pc, caller, want, total, res, old, blk, sz, nxt>>

\* Mutant: pred_of is skipped after a backward merge.
PredSkipped ==
  /\ pc = "pred" /\ pc' = "splice"
  /\ UNCHANGED <<heap, growth, mem, owned, locals>>

PredFound ==
  /\ pc = "pred" /\ (cur = 0 \/ cur = blk)
  /\ pc' = "splice"
  /\ UNCHANGED <<heap, growth, mem, owned, locals>>

\* Mutant: the block after the merged one is swallowed too.
OutsideOffByOne(S) == {b \in S : b < blk \/ b > blk + sz}

\* The blocks that are not swallowed by the merged block.
Outside(S) == {b \in S : b < blk \/ b >= blk + sz}

\* Write the merged block and link it in.
SpliceLink ==
  /\ pc = "splice" /\ blk + sz # heapTop
  /\ size' = [b \in Outside(Blocks) \cup {blk} |-> IF b = blk THEN sz ELSE size[b]]
  /\ Relink(blk, [x \in Outside(Free) \cup {blk} |-> IF x = blk THEN nxt ELSE next[x]])
  /\ mem' = Lost({blk} \cup ({prev} \ {0}))
  /\ Return
  /\ UNCHANGED <<heapTop, growth, owned>>

\* ... or, when it reaches the top of the heap, link it and give it back to
\* the bump pointer in the same call.
SpliceTrim ==
  /\ pc = "splice" /\ blk + sz = heapTop
  /\ heapTop' = blk
  /\ size' = [b \in Outside(Blocks) |-> size[b]]
  /\ Relink(nxt, [x \in Outside(Free) |-> next[x]])
  /\ mem' = Lost({blk} \cup ({prev} \ {0}))
  /\ Return
  /\ UNCHANGED <<growth, owned>>

-----------------------------------------------------------------------------
\* The steps of a call that is running.
Step ==
  \/ ScanNext \/ ScanEnd \/ ScanSplit \/ ScanTake \/ Bump \/ BumpFails
  \/ AllocReturn \/ ReallocFails \/ ReallocMove
  \/ WalkNext \/ Coalesce \/ PredNext \/ PredFound \/ SpliceLink \/ SpliceTrim

\* The calls a client can make.
Call ==
  \E c \in Clients :
    \/ FreeCall(c)
    \/ \E n \in Requests :
         \/ AllocCall(c, n)
         \/ ReallocKeep(c, n) \/ ReallocShrink(c, n)
         \/ ReallocExtend(c, n) \/ ReallocExtendFails(c, n)
         \/ ReallocElsewhere(c, n)

Next == Step \/ Call

\* A wasm call runs to completion once it is started; clients may stop calling.
Spec == Init /\ [][Next]_vars /\ WF_vars(Step)

-----------------------------------------------------------------------------
(* Properties.                                                             *)

Locations == {"idle", "scan", "bump", "return", "walk", "pred", "splice"}

\* Every variable ranges over its type; the two header fields are read only
\* at block starts (`size`) and at listed blocks (`next`).
TypeOK ==
  /\ heapTop \in Nat /\ freeHead \in Nat /\ generation \in Nat /\ pages \in Nat
  /\ Blocks \subseteq Nat \ {0} /\ size \in [Blocks -> Nat]
  /\ Free \subseteq Blocks /\ next \in [Free -> Nat]
  /\ mem \in [0 .. (AddrSpace - 1) -> Clients \cup {Junk}]
  /\ ptr \in [Clients -> Nat] /\ req \in [Clients -> Nat] /\ kept \in [Clients -> Nat]
  /\ pc \in Locations
  /\ caller \in Clients \cup {NoClient}
  /\ want \in Nat /\ total \in Nat /\ prev \in Nat /\ cur \in Nat /\ res \in Nat
  /\ old \in Nat /\ blk \in Nat /\ sz \in Nat /\ nxt \in Nat

\* The blocks tile the heap exactly, from its base to HEAP_TOP, and the heap
\* lies within linear memory: header arithmetic (cur + total, block + size)
\* always lands on a header or on the top of the heap.
Tiling ==
  /\ \A b \in Blocks : Base <= b /\ MinBlock <= size[b] /\ b + size[b] <= heapTop
  /\ \A a, b \in Blocks : a < b => a + size[a] <= b
  /\ \A b \in Blocks : b + size[b] = heapTop \/ b + size[b] \in Blocks
  /\ Base \in Blocks \/ (Blocks = {} /\ heapTop \in {0, Base})
  /\ heapTop <= pages * PageUnits /\ pages <= MaxPages

\* n is what a link at position p of the list of S holds: the least member of
\* S above p, or 0.
Succeeds(S, p, n) ==
  /\ n = 0 \/ (n \in S /\ p < n)
  /\ \A f \in S : p < f => (n # 0 /\ n <= f)

\* The free list is the address-ordered enumeration of the free blocks; no
\* free block is missing from it, so first fit misses no fit.
FreeListOrdered ==
  /\ Succeeds(Free, 0, freeHead)
  /\ \A f \in Free : Succeeds(Free, f, next[f])

BlockOf(p) == p - Header

\* The blocks the clients own.
Held == {BlockOf(ptr[c]) : c \in {d \in Clients : ptr[d] # 0}}

\* The blocks a running call has in its hands: neither listed nor handed out.
InTransit ==
  CASE pc = "return" -> {res} \ {0}
    [] pc \in {"walk", "pred", "splice"} -> {b \in Blocks \ Free : blk <= b /\ b < blk + sz}
    [] OTHER -> {}

\* Every block is listed as free, owned by exactly one client, or in the hands
\* of the running call: alloc never hands out a block twice, free and realloc
\* lose none, and a client's block is at least as large as it asked for.
BlocksAccountedFor ==
  /\ \A c \in Clients : ptr[c] # 0 =>
       /\ BlockOf(ptr[c]) \in Blocks \ Free
       /\ NeededTotal(req[c]) <= size[BlockOf(ptr[c])]
  /\ \A c, d \in Clients : ptr[c] # 0 /\ ptr[c] = ptr[d] => c = d
  /\ Blocks \ Free = Held \cup InTransit
  /\ Held \cap InTransit = {}

\* Between calls no two free blocks touch and none touches the top of the heap.
Coalesced ==
  pc = "idle" => \A f \in Free : f + size[f] \notin Free /\ f + size[f] # heapTop

\* When every block has been returned the heap is empty again, whatever the
\* order of the frees: nothing is lost to fragmentation.
FullyReclaimed ==
  pc = "idle" /\ (\A c \in Clients : ptr[c] = 0) => heapTop \in {0, Base} /\ freeHead = 0

\* The heap only grows when no free block fits the request.
NoMissedFit == pc = "bump" => \A f \in Free : size[f] < total

\* The bytes a client wrote are still there, up to the smallest size its block
\* has had: no header write and no other client's payload lands in them, and
\* realloc moves them before it frees the original.
ContentsPreserved ==
  \A c \in Clients : \A u \in Payload(ptr[c], kept[c]) : mem[u] = c

\* The counter moves at most once per added page, so over the 65536 pages a
\* wasm memory can have it never wraps around to a value a cached view holds.
GenerationBounded == generation <= pages - InitPages

\* A memory.grow is always announced by a new generation, and a generation
\* never changes without one: JS views are rebuilt exactly when they detach.
GrowthAnnounced == [][(pages' # pages) <=> (generation' # generation)]_vars

\* Every call returns: the list walks of alloc and insert_free end.
CallsReturn == pc # "idle" ~> pc = "idle"

-----------------------------------------------------------------------------
(* The loop invariants of the walks, which make the layout invariants      *)
(* inductive.                                                              *)

\* A walk stands at the link that leaves `from` and leads to `to`.
AtLink(from, to) ==
  \/ from = 0 /\ to = freeHead
  \/ from \in Free /\ to = next[from]

\* A call of alloc: no block up to `prev` fits; realloc still owns its block.
AllocRunning ==
  /\ pc = "idle" => old = 0
  /\ pc \in {"scan", "bump", "return"} =>
       /\ caller \in Clients /\ total = NeededTotal(want) /\ Base <= heapTop
       /\ old = ptr[caller]
       /\ pc = "scan" => AtLink(prev, cur) /\ \A f \in Free : f <= prev => size[f] < total
       /\ pc = "return" /\ res # 0 => res \in Blocks \ Free /\ total <= size[res]

\* insert_free works on the region [blk, blk + sz), which starts at a block and
\* ends at one or at the top of the heap, and which no client owns.
Inserting ==
  pc \in {"walk", "pred", "splice"} =>
    /\ blk \in Blocks /\ MinBlock <= sz /\ Base <= blk
    /\ blk + sz = heapTop \/ blk + sz \in Blocks
    /\ \A b \in Held : b < blk \/ blk + sz <= b
    /\ prev < blk
    /\ pc = "walk" => blk \notin Free /\ sz = size[blk] /\ AtLink(prev, nxt)
    /\ pc = "pred" => blk \in Free /\ AtLink(prev, cur)
    /\ pc = "splice" => /\ prev = 0 \/ prev \in Free
                        /\ \A f \in Free : f < blk => f <= prev
    /\ pc \in {"pred", "splice"} =>
         /\ blk + sz \notin Free
         /\ nxt = 0 \/ (nxt \in Free /\ blk + sz <= nxt)
         /\ \A f \in Free : blk + sz <= f => (nxt # 0 /\ nxt <= f)
         /\ \A f \in Free : f < blk => f + size[f] # blk

\* No two free blocks touch, except across the region being inserted, and only
\* the region may reach the top.
ListCoalesced ==
  \A f \in Free : f + size[f] \notin Free \/ (pc \in {"pred", "splice"} /\ blk <= f /\ f < blk + sz)

TopNotFree ==
  \A f \in Free : f + size[f] = heapTop => pc \in {"pred", "splice"} /\ blk + sz = heapTop /\ blk <= f

\* The inductive invariant.
IInv ==
  /\ TypeOK /\ Tiling /\ FreeListOrdered /\ BlocksAccountedFor
  /\ AllocRunning /\ Inserting /\ ListCoalesced /\ TopNotFree /\ NoMissedFit
  /\ GenerationBounded

\* The arena keeps the allocator's promise: payloads handed to different
\* clients never overlap, failure changes nothing a client can see, and
\* realloc preserves min(old, new) units.
Contract == INSTANCE AllocContract WITH
  Addresses <- 0 .. (AddrSpace - 1),
  intact <- [c \in Clients |-> \A u \in Payload(ptr[c], kept[c]) : mem[u] = c]
ImplementsContract == Contract!Spec
=============================================================================
