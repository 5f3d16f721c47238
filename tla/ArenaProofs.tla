---------------------------- MODULE ArenaProofs ----------------------------
(***************************************************************************)
(* The allocator's invariants hold for every heap, request and client set: *)
(* IInv is inductive.  One lemma per action, in the order of the code, then *)
(* the theorems.  The layout facts (Tiling, Layout) say where headers are; *)
(* the loop invariants AllocRunning and Inserting say where the running    *)
(* call stands in the free list.                                           *)
(***************************************************************************)
EXTENDS Arena, TLAPS

\* The types of the constants, without the products in their assumption.
LEMMA ConstantTypes ==
  /\ Requests \subseteq Nat /\ Base \in Nat /\ Base # 0 /\ PageUnits \in Nat /\ PageUnits # 0
  /\ InitPages \in Nat /\ MaxPages \in Nat /\ AddrSpace \in Nat
  /\ NoClient \notin Clients
BY ArenaAssumption

\* Before the first call the statics of arena.rs satisfy the invariant.
LEMMA InitIInv == Init => IInv
<1> SUFFICES ASSUME Init PROVE IInv
  OBVIOUS
<1> USE ArenaAssumption
<1>1. Blocks = {} /\ Free = {}
  BY DEF Init, Blocks, Free
<1>2. TypeOK
  BY <1>1 DEF Init, TypeOK, Locations, Junk
<1>3. Tiling
  BY <1>1 DEF Init, Tiling
<1>4. FreeListOrdered /\ ListCoalesced /\ TopNotFree /\ NoMissedFit
  BY <1>1 DEF Init, FreeListOrdered, Succeeds, ListCoalesced, TopNotFree, NoMissedFit
<1>5. BlocksAccountedFor
  BY <1>1 DEF Init, BlocksAccountedFor, Held, InTransit
<1>6. AllocRunning /\ Inserting /\ GenerationBounded
  BY DEF Init, AllocRunning, Inserting, GenerationBounded
<1> QED
  BY <1>2, <1>3, <1>4, <1>5, <1>6 DEF IInv

\* Multiplication is monotone.
LEMMA MoreIsMore ==
  ASSUME NEW a \in Nat, NEW b \in Nat, NEW k \in Nat, a <= b
  PROVE  a * k <= b * k
OBVIOUS

\* The tiling, as the proofs use it.
LEMMA Layout ==
  ASSUME TypeOK, Tiling
  PROVE  /\ heapTop \in Nat /\ Base \in Nat /\ Base # 0
         /\ \A b \in Blocks : /\ b \in Nat /\ b # 0 /\ Base <= b
                              /\ size[b] \in Nat /\ 2 <= size[b] /\ b + size[b] <= heapTop
         /\ \A b \in Blocks : b + size[b] = heapTop \/ b + size[b] \in Blocks
         /\ \A a, b \in Blocks : a < b => a + size[a] <= b
         /\ Free \subseteq Blocks
<1>1. heapTop \in Nat /\ Base \in Nat /\ Base # 0 /\ Free \subseteq Blocks
  BY ConstantTypes DEF TypeOK
<1>2. \A b \in Blocks : b \in Nat /\ b # 0 /\ size[b] \in Nat
  BY DEF TypeOK
<1>3. \A b \in Blocks : Base <= b /\ 2 <= size[b] /\ b + size[b] <= heapTop
  BY DEF Tiling, MinBlock, Header, MinPayload
<1>4. /\ \A b \in Blocks : b + size[b] = heapTop \/ b + size[b] \in Blocks
      /\ \A a, b \in Blocks : a < b => a + size[a] <= b
  BY DEF Tiling
<1> QED
  BY <1>1, <1>2, <1>3, <1>4

\* The heap is empty before init, and starts at its base afterwards.
LEMMA BeforeInit ==
  ASSUME TypeOK, Tiling
  PROVE  /\ heapTop = 0 => Blocks = {}
         /\ heapTop # 0 => Base <= heapTop
<1>1. /\ heapTop \in Nat /\ Base \in Nat /\ Base # 0
      /\ \A b \in Blocks : Base <= b /\ size[b] \in Nat /\ b \in Nat /\ b + size[b] <= heapTop
  BY Layout
<1>2. Base \in Blocks \/ (Blocks = {} /\ heapTop \in {0, Base})
  BY DEF Tiling
<1> HIDE DEF Blocks
<1> QED
  BY <1>1, <1>2

\* Listed blocks are blocks, and their links are addresses.
LEMMA FreeTypes ==
  ASSUME TypeOK
  PROVE  \A f \in Free : f \in Nat /\ f # 0 /\ f \in Blocks /\ next[f] \in Nat
BY DEF TypeOK

\* A walk that stands at a link has nothing listed between its two ends.
LEMMA LinkSucceeds ==
  ASSUME TypeOK, FreeListOrdered, NEW from, NEW to, AtLink(from, to)
  PROVE  Succeeds(Free, from, to)
BY DEF FreeListOrdered, AtLink

\* alloc's scan passes a block that is too small: no fit is left behind.
LEMMA ScanNextKeepsIInv == ASSUME IInv, ScanNext PROVE IInv'
<1> USE DEF ScanNext, heap, growth, owned, Blocks, Free
<1>0. /\ TypeOK /\ FreeListOrdered /\ AllocRunning /\ Tiling /\ NoMissedFit /\ BlocksAccountedFor
      /\ Inserting /\ ListCoalesced /\ TopNotFree /\ GenerationBounded
  BY DEF IInv
<1>a. AtLink(prev, cur)
  BY <1>0 DEF AllocRunning
<1>b. Succeeds(Free, prev, cur)
  BY <1>0, <1>a, LinkSucceeds
<1>c. cur \in Free /\ prev < cur
  BY <1>b DEF Succeeds
<1>1. TypeOK'
  BY <1>0, <1>c DEF TypeOK
<1>2. Tiling' /\ FreeListOrdered' /\ NoMissedFit'
  BY <1>0 DEF Tiling, FreeListOrdered, Succeeds, NoMissedFit
<1>3. BlocksAccountedFor'
  BY <1>0 DEF BlocksAccountedFor, Held, InTransit
<1>4. AllocRunning'
  <2>1. \A f \in Free : f <= cur => size[f] < total
    BY <1>0, <1>b, SMTT(30) DEF TypeOK, AllocRunning, Succeeds
  <2> QED
    BY <1>0, <1>c, <2>1 DEF AllocRunning, AtLink
<1>5. Inserting' /\ ListCoalesced' /\ TopNotFree' /\ GenerationBounded'
  BY <1>0 DEF Inserting, ListCoalesced, TopNotFree, GenerationBounded
<1> QED
  BY <1>1, <1>2, <1>3, <1>4, <1>5 DEF IInv

\* The scan has seen the whole list when it goes on to bump-allocate.
LEMMA ScanEndKeepsIInv == ASSUME IInv, ScanEnd PROVE IInv'
<1> USE DEF ScanEnd, heap, growth, owned, locals, Blocks, Free
<1>0. /\ TypeOK /\ FreeListOrdered /\ AllocRunning /\ Tiling /\ NoMissedFit /\ BlocksAccountedFor
      /\ Inserting /\ ListCoalesced /\ TopNotFree /\ GenerationBounded
  BY DEF IInv
<1>a. Succeeds(Free, prev, 0)
  BY <1>0, LinkSucceeds DEF AllocRunning
<1>1. TypeOK'
  BY <1>0 DEF TypeOK, Locations
<1>2. Tiling' /\ FreeListOrdered'
  BY <1>0 DEF Tiling, FreeListOrdered, Succeeds
<1>3. BlocksAccountedFor'
  BY <1>0 DEF BlocksAccountedFor, Held, InTransit
<1>4. AllocRunning' /\ NoMissedFit'
  <2>1. \A f \in Free : f <= prev
    BY <1>0, <1>a DEF TypeOK, Succeeds
  <2> QED
    BY <1>0, <2>1 DEF AllocRunning, NoMissedFit
<1>5. Inserting' /\ ListCoalesced' /\ TopNotFree' /\ GenerationBounded'
  BY <1>0 DEF Inserting, ListCoalesced, TopNotFree, GenerationBounded
<1> QED
  BY <1>1, <1>2, <1>3, <1>4, <1>5 DEF IInv

\* alloc finds no memory: it will return 0 and has changed nothing.
LEMMA BumpFailsKeepsIInv == ASSUME IInv, BumpFails PROVE IInv'
<1> USE DEF BumpFails, heap, growth, owned, Blocks, Free
<1>0. /\ TypeOK /\ FreeListOrdered /\ AllocRunning /\ Tiling /\ NoMissedFit /\ BlocksAccountedFor
      /\ Inserting /\ ListCoalesced /\ TopNotFree /\ GenerationBounded
  BY DEF IInv
<1>1. TypeOK'
  BY <1>0 DEF TypeOK, Locations
<1>2. Tiling' /\ FreeListOrdered' /\ NoMissedFit'
  BY <1>0 DEF Tiling, FreeListOrdered, Succeeds, NoMissedFit
<1>3. BlocksAccountedFor'
  BY <1>0 DEF BlocksAccountedFor, Held, InTransit
<1>4. AllocRunning'
  BY <1>0 DEF AllocRunning
<1>5. Inserting' /\ ListCoalesced' /\ TopNotFree' /\ GenerationBounded'
  BY <1>0 DEF Inserting, ListCoalesced, TopNotFree, GenerationBounded
<1> QED
  BY <1>1, <1>2, <1>3, <1>4, <1>5 DEF IInv

\* realloc found no memory: its client still owns the original block.
LEMMA ReallocFailsKeepsIInv == ASSUME IInv, ReallocFails PROVE IInv'
<1> USE DEF ReallocFails, Return, heap, growth, owned, Blocks, Free
<1>0. /\ TypeOK /\ FreeListOrdered /\ AllocRunning /\ Tiling /\ NoMissedFit /\ BlocksAccountedFor
      /\ Inserting /\ ListCoalesced /\ TopNotFree /\ GenerationBounded
  BY DEF IInv
<1>1. TypeOK'
  BY <1>0 DEF TypeOK, Locations
<1>2. Tiling' /\ FreeListOrdered' /\ NoMissedFit'
  BY <1>0 DEF Tiling, FreeListOrdered, Succeeds, NoMissedFit
<1>3. BlocksAccountedFor'
  BY <1>0 DEF BlocksAccountedFor, Held, InTransit
<1>4. AllocRunning'
  BY <1>0 DEF AllocRunning
<1>5. Inserting' /\ ListCoalesced' /\ TopNotFree' /\ GenerationBounded'
  BY <1>0 DEF Inserting, ListCoalesced, TopNotFree, GenerationBounded
<1> QED
  BY <1>1, <1>2, <1>3, <1>4, <1>5 DEF IInv

\* alloc (and init) before the scan: HEAP_TOP moves from 0 to the base once.
LEMMA AllocCallKeepsIInv ==
  ASSUME IInv, NEW c \in Clients, NEW n \in Requests, AllocCall(c, n)
  PROVE  IInv'
<1> USE DEF AllocCall, growth, owned, Blocks, Free
<1>0. /\ TypeOK /\ FreeListOrdered /\ AllocRunning /\ Tiling /\ NoMissedFit /\ BlocksAccountedFor
      /\ Inserting /\ ListCoalesced /\ TopNotFree /\ GenerationBounded
  BY DEF IInv
<1>a. n \in Nat /\ NeededTotal(n) \in Nat /\ Base \in Nat
  BY ArenaAssumption DEF NeededTotal, Header, MinPayload
<1>1. TypeOK'
  BY <1>0, <1>a DEF TypeOK, Locations
<1>b. Base <= pages * PageUnits
  <2>0. InitPages \in Nat /\ pages \in Nat /\ generation \in Nat /\ PageUnits \in Nat
    BY <1>0, ArenaAssumption DEF TypeOK
  <2>1. InitPages <= pages
    BY <1>0, <2>0 DEF GenerationBounded
  <2>2. InitPages * PageUnits <= pages * PageUnits
    BY <2>0, <2>1, MoreIsMore
  <2>3. InitPages * PageUnits \in Nat /\ pages * PageUnits \in Nat
    BY <2>0
  <2> QED
    BY <2>2, <2>3, ArenaAssumption
<1>c. heapTop = 0 => Blocks = {}
  BY <1>0, BeforeInit
<1>d. heapTop # 0 => Base <= heapTop
  BY <1>0, BeforeInit
<1>2. Tiling'
  <2>1. CASE heapTop = 0
    BY <1>0, <1>a, <1>b, <1>c, <2>1 DEF Tiling, TypeOK
  <2>2. CASE heapTop # 0
    BY <1>0, <2>2 DEF Tiling
  <2> QED
    BY <2>1, <2>2
<1>3. FreeListOrdered' /\ NoMissedFit'
  BY <1>0 DEF FreeListOrdered, Succeeds, NoMissedFit
<1>4. BlocksAccountedFor'
  BY <1>0 DEF BlocksAccountedFor, Held, InTransit
<1>5. AllocRunning'
  <2>1. Base <= heapTop'
    BY <1>a, <1>d
  <2>2. \A f \in Free : ~(f <= 0)
    <3>1. \A f \in Free : f \in Nat /\ f # 0
      BY <1>0, FreeTypes
    <3> QED
      BY <3>1
  <2>3. AtLink(0, freeHead)'
    BY <1>0 DEF AtLink
  <2> QED
    BY <1>0, <2>1, <2>2, <2>3, ArenaAssumption DEF AllocRunning
<1>6. Inserting' /\ ListCoalesced' /\ TopNotFree' /\ GenerationBounded'
  BY <1>0, <1>c DEF Inserting, ListCoalesced, TopNotFree, GenerationBounded, TypeOK
<1> QED
  BY <1>1, <1>2, <1>3, <1>4, <1>5, <1>6 DEF IInv

\* What the clients hold after c's pointer became p.
LEMMA HeldAfter ==
  ASSUME TypeOK, NEW c \in Clients, NEW p \in Nat, ptr' = [ptr EXCEPT ![c] = p]
  PROVE  \A x : x \in Held' <=>
           \/ \E d \in Clients : d # c /\ ptr[d] # 0 /\ x = BlockOf(ptr[d])
           \/ p # 0 /\ x = BlockOf(p)
BY DEF TypeOK, Held

\* Clients hold distinct blocks, so no other client holds c's.
LEMMA OwnBlock ==
  ASSUME TypeOK, BlocksAccountedFor, NEW c \in Clients, ptr[c] # 0
  PROVE  /\ BlockOf(ptr[c]) \in Held
         /\ BlockOf(ptr[c]) \in Blocks
         /\ BlockOf(ptr[c]) \notin Free
         /\ ptr[c] = BlockOf(ptr[c]) + Header
         /\ \A d \in Clients : d # c /\ ptr[d] # 0 => BlockOf(ptr[d]) # BlockOf(ptr[c])
<1>1. BlockOf(ptr[c]) \in Held
  BY DEF Held
<1>2. BlockOf(ptr[c]) \in Blocks \ Free
  BY DEF BlocksAccountedFor
<1>3. \A d \in Clients : ptr[d] \in Nat
  BY DEF TypeOK
<1>4. \A d \in Clients : d # c /\ ptr[d] # 0 => BlockOf(ptr[d]) # BlockOf(ptr[c])
  BY <1>3 DEF BlocksAccountedFor, BlockOf, Header
<1> QED
  BY <1>1, <1>2, <1>3, <1>4 DEF BlockOf, Header

\* alloc returns: the block in its hands becomes its client's.
LEMMA AllocReturnKeepsIInv == ASSUME IInv, AllocReturn PROVE IInv'
<1> USE DEF AllocReturn, Return, heap, growth, owned, Blocks, Free
<1>0. /\ TypeOK /\ FreeListOrdered /\ AllocRunning /\ Tiling /\ NoMissedFit /\ BlocksAccountedFor
      /\ Inserting /\ ListCoalesced /\ TopNotFree /\ GenerationBounded
  BY DEF IInv
<1>a. caller \in Clients /\ ptr[caller] = 0 /\ want \in Nat /\ res \in Nat /\ total = NeededTotal(want)
  BY <1>0 DEF AllocRunning, TypeOK
<1>1. TypeOK'
  <2>0. /\ mem \in [0 .. (AddrSpace - 1) -> Clients \cup {Junk}]
        /\ ptr \in [Clients -> Nat] /\ req \in [Clients -> Nat] /\ kept \in [Clients -> Nat]
    BY <1>0 DEF TypeOK
  <2>a. res + Header \in Nat
    BY <1>a DEF Header
  <2>1. mem' \in [0 .. (AddrSpace - 1) -> Clients \cup {Junk}]
    BY <1>a, <2>0
  <2>2. ptr' \in [Clients -> Nat]
    BY <1>a, <2>0, <2>a
  <2>3. req' \in [Clients -> Nat] /\ kept' \in [Clients -> Nat]
    BY <1>a, <2>0
  <2> QED
    BY <1>0, <2>1, <2>2, <2>3 DEF TypeOK, Locations
<1>2. Tiling' /\ FreeListOrdered' /\ NoMissedFit'
  BY <1>0 DEF Tiling, FreeListOrdered, Succeeds, NoMissedFit
<1>3. BlocksAccountedFor'
  <2>1. CASE res = 0
    BY <1>0, <2>1 DEF BlocksAccountedFor, Held, InTransit
  <2>2. CASE res # 0
    <3>a. ptr' = [ptr EXCEPT ![caller] = res + Header] /\ res + Header \in Nat /\ res + Header # 0
      BY <1>a, <2>2 DEF Header
    <3>b. BlockOf(res + Header) = res
      BY <1>a DEF BlockOf, Header
    <3>1. \A x : x \in Held' <=> x \in Held \/ x = res
      BY <1>0, <1>a, <3>a, <3>b, HeldAfter DEF Held
    <3>2. InTransit = {res} /\ InTransit' = {}
      BY <2>2 DEF InTransit
    <3>3. res \in Blocks \ Free /\ res \notin Held
      BY <1>0, <2>2, <3>2 DEF AllocRunning, BlocksAccountedFor
    <3>4. Blocks' \ Free' = Held' \cup InTransit' /\ Held' \cap InTransit' = {}
      BY <1>0, <3>1, <3>2, <3>3 DEF BlocksAccountedFor
    <3>5. \A d \in Clients : ptr'[d] # 0 =>
             /\ BlockOf(ptr'[d]) \in Blocks \ Free
             /\ NeededTotal(req'[d]) <= size[BlockOf(ptr'[d])]
      <4> TAKE d \in Clients
      <4> HAVE ptr'[d] # 0
      <4>1. CASE d = caller
        <5>1. ptr'[d] = res + Header /\ req'[d] = want
          BY <1>0, <1>a, <2>2, <4>1 DEF TypeOK
        <5> QED
          BY <1>0, <1>a, <2>2, <3>b, <3>3, <5>1 DEF AllocRunning
      <4>2. CASE d # caller
        <5>1. ptr'[d] = ptr[d] /\ req'[d] = req[d]
          BY <1>0, <1>a, <2>2, <4>2 DEF TypeOK
        <5> QED
          BY <1>0, <5>1 DEF BlocksAccountedFor
      <4> QED
        BY <4>1, <4>2
    <3>6. \A d, e \in Clients : ptr'[d] # 0 /\ ptr'[d] = ptr'[e] => d = e
      <4>1. \A d \in Clients : d # caller /\ ptr[d] # 0 => ptr[d] # res + Header
        BY <1>0, <1>a, <3>3 DEF Held, TypeOK, BlockOf, Header
      <4> QED
        BY <1>0, <1>a, <3>a, <4>1 DEF BlocksAccountedFor, TypeOK
    <3> QED
      BY <3>4, <3>5, <3>6 DEF BlocksAccountedFor
  <2> QED
    BY <2>1, <2>2
<1>4. AllocRunning' /\ Inserting' /\ ListCoalesced' /\ TopNotFree' /\ GenerationBounded'
  BY <1>0 DEF AllocRunning, Inserting, ListCoalesced, TopNotFree, GenerationBounded
<1> QED
  BY <1>1, <1>2, <1>3, <1>4 DEF IInv

\* needed_total returns at least a minimal block.
LEMMA RequestTypes ==
  ASSUME NEW n \in Requests
  PROVE  /\ n \in Nat /\ NeededTotal(n) \in Nat
         /\ MinBlock <= NeededTotal(n) /\ n < NeededTotal(n)
BY ArenaAssumption DEF NeededTotal, Header, MinPayload, MinBlock

\* realloc within the block's own slack: only the request changes.
LEMMA ReallocKeepKeepsIInv ==
  ASSUME IInv, NEW c \in Clients, NEW n \in Requests, ReallocKeep(c, n)
  PROVE  IInv'
<1> USE DEF ReallocKeep, heap, growth, locals, Blocks, Free
<1>0. /\ TypeOK /\ FreeListOrdered /\ AllocRunning /\ Tiling /\ NoMissedFit /\ BlocksAccountedFor
      /\ Inserting /\ ListCoalesced /\ TopNotFree /\ GenerationBounded
  BY DEF IInv
<1>a. n \in Nat /\ NeededTotal(n) \in Nat
  BY RequestTypes
<1>1. TypeOK'
  <2>1. req' \in [Clients -> Nat] /\ kept' \in [Clients -> Nat]
    BY <1>0, <1>a DEF TypeOK, MinOf
  <2> QED
    BY <1>0, <2>1 DEF TypeOK
<1>2. Tiling' /\ FreeListOrdered' /\ NoMissedFit'
  BY <1>0 DEF Tiling, FreeListOrdered, Succeeds, NoMissedFit
<1>3. BlocksAccountedFor'
  <2>1. \A d \in Clients : ptr[d] # 0 => NeededTotal(req'[d]) <= size[BlockOf(ptr[d])]
    <3> TAKE d \in Clients
    <3>1. CASE d = c
      BY <1>0, <1>a, <3>1 DEF TypeOK, BlockOf
    <3>2. CASE d # c
      BY <1>0, <3>2 DEF TypeOK, BlocksAccountedFor
    <3> QED
      BY <3>1, <3>2
  <2> QED
    BY <1>0, <2>1 DEF BlocksAccountedFor, Held, InTransit
<1>4. AllocRunning' /\ ListCoalesced' /\ TopNotFree' /\ GenerationBounded'
  BY <1>0 DEF AllocRunning, ListCoalesced, TopNotFree, GenerationBounded
<1>5. Inserting'
  BY <1>0 DEF Inserting
<1> QED
  BY <1>1, <1>2, <1>3, <1>4, <1>5 DEF IInv

\* realloc starts to allocate elsewhere; its client keeps the original.
LEMMA ReallocElsewhereKeepsIInv ==
  ASSUME IInv, NEW c \in Clients, NEW n \in Requests, ReallocElsewhere(c, n)
  PROVE  IInv'
<1> USE DEF ReallocElsewhere, heap, growth, owned, Blocks, Free
<1>0. /\ TypeOK /\ FreeListOrdered /\ AllocRunning /\ Tiling /\ NoMissedFit /\ BlocksAccountedFor
      /\ Inserting /\ ListCoalesced /\ TopNotFree /\ GenerationBounded
  BY DEF IInv
<1>a. n \in Nat /\ NeededTotal(n) \in Nat
  BY RequestTypes
<1>1. TypeOK'
  BY <1>0, <1>a DEF TypeOK, Locations
<1>2. Tiling' /\ FreeListOrdered' /\ NoMissedFit'
  BY <1>0 DEF Tiling, FreeListOrdered, Succeeds, NoMissedFit
<1>3. BlocksAccountedFor'
  BY <1>0 DEF BlocksAccountedFor, Held, InTransit
<1>4. AllocRunning'
  <2>1. Base <= heapTop
    <3>1. BlockOf(ptr[c]) \in Blocks
      BY <1>0, OwnBlock
    <3> QED
      BY <1>0, <3>1, Layout
  <2>2. \A f \in Free : ~(f <= 0)
    <3>1. \A f \in Free : f \in Nat /\ f # 0
      BY <1>0, FreeTypes
    <3> QED
      BY <3>1
  <2>3. AtLink(0, freeHead)'
    BY <1>0 DEF AtLink
  <2> QED
    BY <1>0, <2>1, <2>2, <2>3, ConstantTypes DEF AllocRunning
<1>5. Inserting' /\ ListCoalesced' /\ TopNotFree' /\ GenerationBounded'
  BY <1>0 DEF Inserting, ListCoalesced, TopNotFree, GenerationBounded
<1> QED
  BY <1>1, <1>2, <1>3, <1>4, <1>5 DEF IInv

\* free takes the block from its client and starts insert_free on it.
LEMMA FreeCallKeepsIInv ==
  ASSUME IInv, NEW c \in Clients, FreeCall(c)
  PROVE  IInv'
<1> USE DEF FreeCall, heap, growth, Blocks, Free
<1>0. /\ TypeOK /\ FreeListOrdered /\ AllocRunning /\ Tiling /\ NoMissedFit /\ BlocksAccountedFor
      /\ Inserting /\ ListCoalesced /\ TopNotFree /\ GenerationBounded
  BY DEF IInv
<1> DEFINE b == BlockOf(ptr[c])
<1>a. /\ b \in Blocks /\ b \notin Free /\ b \in Held /\ blk' = b /\ sz' = size[b]
      /\ b \in Nat /\ size[b] \in Nat
  BY <1>0, OwnBlock DEF TypeOK, BlockOf
<1>b. \A x : x \in Held' <=> x \in Held /\ x # b
  <2>1. ptr' = [ptr EXCEPT ![c] = 0]
    OBVIOUS
  <2>2. \A x : x \in Held' <=> \E d \in Clients : d # c /\ ptr[d] # 0 /\ x = BlockOf(ptr[d])
    <3> HIDE DEF FreeCall
    <3>1. TypeOK /\ c \in Clients /\ 0 \in Nat
      BY <1>0
    <3>2. \A x : x \in Held' <=>
            \/ \E d \in Clients : d # c /\ ptr[d] # 0 /\ x = BlockOf(ptr[d])
            \/ 0 # 0 /\ x = BlockOf(0)
      BY <2>1, <3>1, HeldAfter, Zenon
    <3> QED
      BY <3>2
  <2> QED
    BY <1>0, <2>2, OwnBlock DEF Held
<1>1. TypeOK'
  <2>1. mem' \in [0 .. (AddrSpace - 1) -> Clients \cup {Junk}]
    BY <1>0 DEF TypeOK, Lost
  <2>2. ptr' \in [Clients -> Nat] /\ req' \in [Clients -> Nat] /\ kept' \in [Clients -> Nat]
    BY <1>0 DEF TypeOK
  <2> QED
    BY <1>0, <1>a, <2>1, <2>2 DEF TypeOK, Locations
<1>2. Tiling' /\ FreeListOrdered' /\ NoMissedFit'
  BY <1>0 DEF Tiling, FreeListOrdered, Succeeds, NoMissedFit
<1>c. \A x \in Blocks : b <= x /\ x < b + size[b] => x = b
  BY <1>0, <1>a, Layout
<1>d. InTransit = {} /\ InTransit' = {b}
  <2>1. b < b + size[b]
    BY <1>0, <1>a, Layout
  <2> QED
    BY <1>a, <1>c, <2>1 DEF InTransit
<1>3. BlocksAccountedFor'
  <2>1. Blocks' \ Free' = Held' \cup InTransit' /\ Held' \cap InTransit' = {}
    BY <1>0, <1>a, <1>b, <1>d DEF BlocksAccountedFor
  <2>2. \A d \in Clients : ptr'[d] # 0 => d # c /\ ptr'[d] = ptr[d] /\ req'[d] = req[d]
    BY <1>0 DEF TypeOK
  <2> QED
    BY <1>0, <2>1, <2>2 DEF BlocksAccountedFor
<1>4. AllocRunning' /\ ListCoalesced' /\ TopNotFree' /\ GenerationBounded'
  BY <1>0 DEF AllocRunning, ListCoalesced, TopNotFree, GenerationBounded
<1>5. Inserting'
  <2>1. b + size[b] = heapTop \/ b + size[b] \in Blocks
    BY <1>0, <1>a DEF Tiling
  <2>2. MinBlock <= size[b] /\ Base <= b /\ 0 < b
    BY <1>0, <1>a DEF Tiling, TypeOK
  <2>3. \A x \in Held' : x < b \/ b + size[b] <= x
    <3>1. Held \subseteq Blocks
      BY <1>0 DEF BlocksAccountedFor
    <3> QED
      BY <1>0, <1>a, <1>b, <1>c, <3>1, Layout
  <2>4. AtLink(0, freeHead)'
    BY <1>0 DEF AtLink
  <2> QED
    BY <1>0, <1>a, <2>1, <2>2, <2>3, <2>4 DEF Inserting
<1> QED
  BY <1>1, <1>2, <1>3, <1>4, <1>5 DEF IInv

\* The heap ends within the address space, so its header offsets do not wrap.
LEMMA HeapInMemory == ASSUME TypeOK, Tiling PROVE heapTop <= AddrSpace
<1>1. /\ pages \in Nat /\ MaxPages \in Nat /\ PageUnits \in Nat /\ pages <= MaxPages
      /\ heapTop \in Nat /\ AddrSpace \in Nat
  BY ConstantTypes DEF TypeOK, Tiling
<1>2. pages * PageUnits <= MaxPages * PageUnits
  BY <1>1, MoreIsMore
<1>3. heapTop <= pages * PageUnits /\ MaxPages * PageUnits <= AddrSpace
  BY ArenaAssumption DEF Tiling
<1>4. pages * PageUnits \in Nat /\ MaxPages * PageUnits \in Nat
  BY <1>1
<1> QED
  BY <1>1, <1>2, <1>3, <1>4

\* realloc moves its client to the new block and starts to free the old one.
LEMMA ReallocMoveKeepsIInv == ASSUME IInv, ReallocMove PROVE IInv'
<1> USE DEF ReallocMove, heap, growth, Blocks, Free
<1>0. /\ TypeOK /\ FreeListOrdered /\ AllocRunning /\ Tiling /\ NoMissedFit /\ BlocksAccountedFor
      /\ Inserting /\ ListCoalesced /\ TopNotFree /\ GenerationBounded
  BY DEF IInv
<1> DEFINE b == BlockOf(ptr[caller])
<1>a. /\ caller \in Clients /\ old = ptr[caller] /\ ptr[caller] # 0
      /\ want \in Nat /\ res \in Nat /\ res # 0 /\ total = NeededTotal(want)
      /\ res \in Blocks \ Free /\ total <= size[res]
  BY <1>0 DEF AllocRunning, TypeOK
<1>b. /\ b \in Blocks /\ b \notin Free /\ b \in Held /\ blk' = b /\ sz' = size[b]
      /\ b \in Nat /\ size[b] \in Nat /\ old = b + 1
      /\ \A d \in Clients : d # caller /\ ptr[d] # 0 => BlockOf(ptr[d]) # b
  BY <1>0, <1>a, OwnBlock DEF TypeOK, BlockOf, Header
<1>c. InTransit = {res}
  BY <1>a DEF InTransit
<1>d. res \notin Held
  BY <1>0, <1>c DEF BlocksAccountedFor
<1>e. /\ ptr' = [ptr EXCEPT ![caller] = res + 1] /\ res + 1 \in Nat /\ res + 1 # 0
      /\ BlockOf(res + 1) = res
  BY <1>a DEF BlockOf, Header
<1>f. \A x : x \in Held' <=> (x \in Held /\ x # b) \/ x = res
  <2>1. \A x : x \in Held' <=>
            \/ \E d \in Clients : d # caller /\ ptr[d] # 0 /\ x = BlockOf(ptr[d])
            \/ res + 1 # 0 /\ x = BlockOf(res + 1)
    BY <1>0, <1>a, <1>e, HeldAfter, ZenonT(40)
  <2>2. \A x : (x \in Held /\ x # b) <=> \E d \in Clients : d # caller /\ ptr[d] # 0 /\ x = BlockOf(ptr[d])
    BY <1>a, <1>b DEF Held
  <2> QED
    BY <1>e, <2>1, <2>2
<1>1. TypeOK'
  <2>1. mem' \in [0 .. (AddrSpace - 1) -> Clients \cup {Junk}]
    <3> DEFINE copy == MinOf(size[b] - 1, want)
    <3>1. copy \in Nat /\ copy <= size[b] - 1
      BY <1>0, <1>a, <1>b, Layout DEF MinOf
    <3>2. b + size[b] <= AddrSpace /\ AddrSpace \in Nat
      BY <1>0, <1>b, Layout, HeapInMemory, ConstantTypes
    <3>3. \A u \in (res + 1) .. (res + 1 + copy - 1) : old + (u - (res + 1)) \in 0 .. (AddrSpace - 1)
      BY <1>a, <1>b, <3>1, <3>2
    <3> HIDE DEF copy
    <3>4. \A u \in DOMAIN mem : mem[u] \in Clients \cup {Junk} /\ DOMAIN mem = 0 .. (AddrSpace - 1)
      BY <1>0 DEF TypeOK
    <3>5. mem' = [u \in DOMAIN mem |->
                   CASE u \in (res + 1) .. (res + 1 + copy - 1) -> mem[old + (u - (res + 1))]
                     [] u \in Payload(old, size[b] - 1) -> Junk
                     [] OTHER -> mem[u]]
      BY <1>a, <1>b DEF Header, Payload, CopiedUnits, copy
    <3>6. DOMAIN mem = 0 .. (AddrSpace - 1)
      BY <1>0 DEF TypeOK
    <3> HIDE DEF ReallocMove
    <3> QED
      BY <3>3, <3>4, <3>5, <3>6
  <2>2. ptr' \in [Clients -> Nat]
    BY <1>0, <1>e DEF TypeOK
  <2>3. req' \in [Clients -> Nat] /\ kept' \in [Clients -> Nat]
    BY <1>0, <1>a DEF TypeOK, MinOf
  <2> QED
    BY <1>0, <1>b, <2>1, <2>2, <2>3 DEF TypeOK, Locations
<1>2. Tiling' /\ FreeListOrdered' /\ NoMissedFit'
  BY <1>0 DEF Tiling, FreeListOrdered, Succeeds, NoMissedFit
<1>g. \A x \in Blocks : b <= x /\ x < b + size[b] => x = b
  BY <1>0, <1>b, Layout
<1>h. InTransit' = {b}
  <2>1. b < b + size[b]
    BY <1>0, <1>b, Layout
  <2> QED
    BY <1>b, <1>g, <2>1 DEF InTransit
<1>3. BlocksAccountedFor'
  <2>1. Blocks' \ Free' = Held' \cup InTransit' /\ Held' \cap InTransit' = {}
    BY <1>0, <1>a, <1>b, <1>c, <1>d, <1>f, <1>h DEF BlocksAccountedFor
  <2>2. \A d \in Clients : d # caller => ptr'[d] = ptr[d] /\ req'[d] = req[d]
    BY <1>0 DEF TypeOK
  <2>3. ptr'[caller] = res + 1 /\ req'[caller] = want
    BY <1>0, <1>a, <1>e DEF TypeOK
  <2>4. \A d \in Clients : ptr'[d] # 0 =>
           /\ BlockOf(ptr'[d]) \in Blocks \ Free
           /\ NeededTotal(req'[d]) <= size[BlockOf(ptr'[d])]
    BY <1>0, <1>a, <1>e, <2>2, <2>3 DEF BlocksAccountedFor
  <2>5. \A d \in Clients : d # caller /\ ptr[d] # 0 => ptr[d] # res + 1
    BY <1>d, <1>e DEF Held
  <2>6. \A d, e \in Clients : ptr'[d] # 0 /\ ptr'[d] = ptr'[e] => d = e
    BY <1>0, <1>e, <2>2, <2>3, <2>5 DEF BlocksAccountedFor
  <2> QED
    BY <2>1, <2>4, <2>6 DEF BlocksAccountedFor
<1>4. AllocRunning' /\ ListCoalesced' /\ TopNotFree' /\ GenerationBounded'
  BY <1>0 DEF AllocRunning, ListCoalesced, TopNotFree, GenerationBounded
<1>5. Inserting'
  <2>1. b + size[b] = heapTop \/ b + size[b] \in Blocks
    BY <1>0, <1>b, Layout
  <2>2. MinBlock <= size[b] /\ Base <= b /\ 0 < b
    BY <1>0, <1>b, Layout DEF MinBlock, Header, MinPayload
  <2>3. \A x \in Held' : x < b \/ b + size[b] <= x
    <3>1. Held' \subseteq Blocks /\ b \notin Held'
      BY <1>0, <1>a, <1>b, <1>d, <1>f DEF BlocksAccountedFor
    <3> QED
      BY <1>0, <1>b, <1>g, <3>1, Layout
  <2>4. AtLink(0, freeHead)'
    BY <1>0 DEF AtLink
  <2> QED
    BY <1>0, <1>b, <2>1, <2>2, <2>3, <2>4 DEF Inserting
<1> QED
  BY <1>1, <1>2, <1>3, <1>4, <1>5 DEF IInv

\* insert_free's first loop passes a free block below the region.
LEMMA WalkNextKeepsIInv == ASSUME IInv, WalkNext PROVE IInv'
<1> USE DEF WalkNext, heap, growth, owned, Blocks, Free
<1>0. /\ TypeOK /\ FreeListOrdered /\ AllocRunning /\ Tiling /\ NoMissedFit /\ BlocksAccountedFor
      /\ Inserting /\ ListCoalesced /\ TopNotFree /\ GenerationBounded
  BY DEF IInv
<1>a. AtLink(prev, nxt)
  BY <1>0 DEF Inserting
<1>b. nxt \in Free /\ prev < nxt /\ nxt < blk
  BY <1>0, <1>a, LinkSucceeds DEF Succeeds
<1>1. TypeOK'
  BY <1>0, <1>b DEF TypeOK
<1>2. Tiling' /\ FreeListOrdered' /\ NoMissedFit'
  BY <1>0 DEF Tiling, FreeListOrdered, Succeeds, NoMissedFit
<1>3. BlocksAccountedFor'
  BY <1>0 DEF BlocksAccountedFor, Held, InTransit
<1>4. AllocRunning' /\ ListCoalesced' /\ TopNotFree' /\ GenerationBounded'
  BY <1>0 DEF AllocRunning, ListCoalesced, TopNotFree, GenerationBounded
<1>5. Inserting'
  BY <1>0, <1>b DEF Inserting, AtLink, Held
<1> QED
  BY <1>1, <1>2, <1>3, <1>4, <1>5 DEF IInv

\* pred_of passes a free block below the region.
LEMMA PredNextKeepsIInv == ASSUME IInv, PredNext PROVE IInv'
<1> USE DEF PredNext, heap, growth, owned, Blocks, Free
<1>0. /\ TypeOK /\ FreeListOrdered /\ AllocRunning /\ Tiling /\ NoMissedFit /\ BlocksAccountedFor
      /\ Inserting /\ ListCoalesced /\ TopNotFree /\ GenerationBounded
  BY DEF IInv
<1>a. AtLink(prev, cur) /\ blk \in Free /\ prev < blk
  BY <1>0 DEF Inserting
<1>b. cur \in Free /\ prev < cur /\ cur < blk
  <2>1. Succeeds(Free, prev, cur)
    BY <1>0, <1>a, LinkSucceeds
  <2>2. cur \in Free /\ prev < cur /\ cur <= blk
    BY <1>a, <2>1 DEF Succeeds
  <2> QED
    BY <1>0, <2>2 DEF TypeOK
<1>1. TypeOK'
  BY <1>0, <1>b DEF TypeOK
<1>2. Tiling' /\ FreeListOrdered' /\ NoMissedFit'
  BY <1>0 DEF Tiling, FreeListOrdered, Succeeds, NoMissedFit
<1>3. BlocksAccountedFor'
  BY <1>0 DEF BlocksAccountedFor, Held, InTransit
<1>4. AllocRunning' /\ ListCoalesced' /\ TopNotFree' /\ GenerationBounded'
  BY <1>0 DEF AllocRunning, ListCoalesced, TopNotFree, GenerationBounded
<1>5. Inserting'
  BY <1>0, <1>b DEF Inserting, AtLink, Held
<1> QED
  BY <1>1, <1>2, <1>3, <1>4, <1>5 DEF IInv

\* pred_of ends: the last free block below the region is found.
LEMMA PredFoundKeepsIInv == ASSUME IInv, PredFound PROVE IInv'
<1> USE DEF PredFound, heap, growth, owned, locals, Blocks, Free
<1>0. /\ TypeOK /\ FreeListOrdered /\ AllocRunning /\ Tiling /\ NoMissedFit /\ BlocksAccountedFor
      /\ Inserting /\ ListCoalesced /\ TopNotFree /\ GenerationBounded
  BY DEF IInv
<1>a. AtLink(prev, cur) /\ blk \in Free /\ prev < blk
  BY <1>0 DEF Inserting
<1>b. \A f \in Free : f < blk => f <= prev
  <2>1. Succeeds(Free, prev, cur)
    BY <1>0, <1>a, LinkSucceeds
  <2>2. cur = blk
    BY <1>a, <2>1 DEF Succeeds
  <2>3. prev \in Nat /\ blk \in Nat /\ \A f \in Free : f \in Nat
    BY <1>0 DEF TypeOK
  <2> QED
    BY <2>1, <2>2, <2>3 DEF Succeeds
<1>c. prev = 0 \/ prev \in Free
  BY <1>a DEF AtLink
<1>1. TypeOK'
  BY <1>0 DEF TypeOK, Locations
<1>2. Tiling' /\ FreeListOrdered' /\ NoMissedFit'
  BY <1>0 DEF Tiling, FreeListOrdered, Succeeds, NoMissedFit
<1>3. BlocksAccountedFor'
  BY <1>0 DEF BlocksAccountedFor, Held, InTransit
<1>4. AllocRunning' /\ ListCoalesced' /\ TopNotFree' /\ GenerationBounded'
  BY <1>0 DEF AllocRunning, ListCoalesced, TopNotFree, GenerationBounded
<1>5. Inserting'
  BY <1>0, <1>b, <1>c DEF Inserting, Held
<1> QED
  BY <1>1, <1>2, <1>3, <1>4, <1>5 DEF IInv

\* insert_free merges the region with the neighbours that touch it: the merged
\* region still ends at a block or at the top, and touches no other free block.
LEMMA CoalesceKeepsIInv == ASSUME IInv, Coalesce PROVE IInv'
<1> USE DEF Coalesce, heap, growth, owned, Blocks, Free
<1>0. /\ TypeOK /\ FreeListOrdered /\ AllocRunning /\ Tiling /\ NoMissedFit /\ BlocksAccountedFor
      /\ Inserting /\ ListCoalesced /\ TopNotFree /\ GenerationBounded
  BY DEF IInv
<1> DEFINE start == IF AdjoinsPrev THEN prev ELSE blk
           end   == IF AdjoinsNext THEN nxt + size[nxt] ELSE blk + sz
<1>a. /\ AtLink(prev, nxt) /\ blk \in Blocks /\ blk \notin Free /\ sz = size[blk]
      /\ prev < blk /\ prev \in Nat /\ nxt \in Nat /\ blk \in Nat /\ sz \in Nat /\ 2 <= sz
      /\ blk + sz = heapTop \/ blk + sz \in Blocks
      /\ \A b \in Held : b < blk \/ blk + sz <= b
  BY <1>0, Layout DEF Inserting, TypeOK
<1>b. Succeeds(Free, prev, nxt)
  BY <1>0, <1>a, LinkSucceeds
<1>c. prev = 0 \/ prev \in Free
  BY <1>a DEF AtLink
<1>d. nxt = 0 \/ (nxt \in Free /\ blk < nxt)
  BY <1>0, <1>a, <1>b DEF Succeeds
<1>e. \A f \in Free : f \in Blocks /\ f \in Nat /\ f # 0 /\ size[f] \in Nat /\ 2 <= size[f]
  BY <1>0, Layout
<1>f. \A f \in Free : f < blk => f <= prev
  BY <1>a, <1>b, <1>d, <1>e DEF Succeeds
<1>g. \A f \in Free : blk < f => nxt # 0 /\ nxt <= f
  BY <1>a, <1>b, <1>e DEF Succeeds
<1>h. nxt # 0 => blk + sz <= nxt
  BY <1>0, <1>a, <1>d, <1>e, Layout
<1>i. \A f \in Free : f + size[f] \notin Free
  BY <1>0 DEF ListCoalesced
<1>j. blk + sz \in Free => AdjoinsNext
  BY <1>a, <1>g, <1>h DEF AdjoinsNext
<1>k. AdjoinsPrev => prev \in Free /\ prev + size[prev] = blk
  BY <1>c DEF AdjoinsPrev
<1>l. AdjoinsNext => nxt \in Free /\ blk + sz = nxt
  BY <1>d DEF AdjoinsNext
<1>m. AdjoinsNext => Succeeds(Free, nxt, next[nxt])
  BY <1>0, <1>l DEF FreeListOrdered
<1>n. /\ blk' = start /\ sz' \in Nat /\ blk' + sz' = end /\ 2 <= sz' /\ end \in Nat
      /\ start \in Nat /\ start <= blk /\ blk + sz <= end
  BY <1>a, <1>e, <1>k, <1>l
<1>o. AdjoinsNext => next[nxt] \in Nat
  BY <1>0, <1>l DEF TypeOK
<1>p. freeHead \in Nat
  BY <1>0 DEF TypeOK
<1>1. TypeOK'
  <2>1. nxt' \in Nat /\ prev' \in Nat /\ cur' \in Nat /\ pc' \in Locations
    BY <1>0, <1>a, <1>o, <1>p, SMTT(30) DEF TypeOK, Locations
  <2> HIDE DEF start, end
  <2> QED
    BY <1>0, <1>n, <2>1 DEF TypeOK
<1>2. Tiling' /\ FreeListOrdered' /\ NoMissedFit'
  BY <1>0 DEF Tiling, FreeListOrdered, Succeeds, NoMissedFit
<1>q. \A b \in Held : b < start \/ end <= b
  <2> TAKE b \in Held
  <2>1. b \in Blocks /\ b \notin Free
    BY <1>0 DEF BlocksAccountedFor
  <2>2. b < blk => b < start
    BY <1>0, <1>a, <1>k, <1>e, <2>1, Layout
  <2>3. blk + sz <= b => end <= b
    BY <1>0, <1>a, <1>l, <1>e, <2>1, Layout
  <2> QED
    BY <1>a, <2>2, <2>3
<1>r. InTransit = {blk} /\ InTransit' = {blk}
  <2>1. \A b \in Blocks \ Free : start <= b /\ b < end => b = blk
    <3> TAKE b \in Blocks \ Free
    <3>1. b < blk => b < start
      BY <1>0, <1>a, <1>k, <1>e, Layout
    <3>2. blk < b => end <= b
      BY <1>0, <1>a, <1>l, <1>e, Layout
    <3>3. b \in Nat
      BY <1>0 DEF TypeOK
    <3> QED
      BY <1>a, <1>n, <3>1, <3>2, <3>3
  <2>2. \A b \in Blocks \ Free : blk <= b /\ b < blk + sz => b = blk
    BY <1>0, <1>a, Layout
  <2>3. InTransit = {b \in Blocks \ Free : blk <= b /\ b < blk + sz}
    BY DEF InTransit
  <2>4. InTransit' = {b \in Blocks \ Free : start <= b /\ b < end}
    BY <1>n DEF InTransit
  <2> HIDE DEF start, end
  <2> QED
    BY <1>a, <1>n, <2>1, <2>2, <2>3, <2>4
<1>3. BlocksAccountedFor'
  BY <1>0, <1>r DEF BlocksAccountedFor, Held
<1>4. AllocRunning' /\ ListCoalesced' /\ TopNotFree' /\ NoMissedFit' /\ GenerationBounded'
  BY <1>0 DEF AllocRunning, ListCoalesced, TopNotFree, NoMissedFit, GenerationBounded
<1>5. Inserting'
  <2>1. blk' \in Blocks /\ MinBlock <= sz' /\ Base <= blk'
    BY <1>0, <1>a, <1>k, <1>n, Layout DEF MinBlock, Header, MinPayload
  <2>2. end = heapTop \/ end \in Blocks
    BY <1>0, <1>a, <1>l, Layout
  <2>3. prev' < blk'
    BY <1>a, <1>e, <1>k
  <2>4. end \notin Free
    BY <1>i, <1>j, <1>l
  <2>5. nxt' = 0 \/ (nxt' \in Free /\ end <= nxt')
    <3>1. CASE AdjoinsNext
      BY <1>0, <1>l, <1>m, <1>e, <3>1, Layout DEF Succeeds
    <3>2. CASE ~AdjoinsNext
      BY <1>d, <1>h, <3>2
    <3> QED
      BY <3>1, <3>2
  <2>6. \A f \in Free : end <= f => nxt' # 0 /\ nxt' <= f
    <3>1. CASE AdjoinsNext
      BY <1>l, <1>m, <1>e, <3>1 DEF Succeeds
    <3>2. CASE ~AdjoinsNext
      BY <1>a, <1>e, <1>g, <3>2
    <3> QED
      BY <3>1, <3>2
  <2>7. \A f \in Free : f < start => f + size[f] # start
    <3>1. CASE AdjoinsPrev
      BY <1>i, <1>k, <3>1
    <3>2. CASE ~AdjoinsPrev
      <4>1. \A f \in Free : f < prev => f + size[f] <= prev
        BY <1>0, <1>c, <1>e, Layout
      <4>2. prev # 0 => prev + size[prev] # blk
        BY <3>2 DEF AdjoinsPrev
      <4> QED
        BY <1>a, <1>e, <1>f, <3>2, <4>1, <4>2
    <3> QED
      BY <3>1, <3>2
  <2>8. pc' = "pred" => blk' \in Free /\ AtLink(prev, cur)'
    BY <1>k DEF AtLink
  <2>9. pc' = "splice" => /\ prev' = 0 \/ prev' \in Free
                          /\ \A f \in Free : f < blk' => f <= prev'
    BY <1>c, <1>f
  <2>10. Held' = Held
    BY DEF Held
  <2>11. pc' \in {"pred", "splice"}
    OBVIOUS
  <2> HIDE DEF start, end
  <2>12. Free' = Free /\ Blocks' = Blocks /\ heapTop' = heapTop /\ size' = size
    OBVIOUS
  <2> HIDE DEF Coalesce
  <2> QED
    BY <1>n, <1>q, <2>1, <2>2, <2>3, <2>4, <2>5, <2>6, <2>7, <2>8, <2>9, <2>10, <2>11, <2>12
    DEF Inserting
<1> QED
  BY <1>1, <1>2, <1>3, <1>4, <1>5 DEF IInv

\* alloc unlinks a fitting block and takes it whole.
LEMMA ScanTakeKeepsIInv == ASSUME IInv, ScanTake PROVE IInv'
<1> USE DEF ScanTake, Relink, growth, owned, Blocks, Free
<1>0. /\ TypeOK /\ FreeListOrdered /\ AllocRunning /\ Tiling /\ NoMissedFit /\ BlocksAccountedFor
      /\ Inserting /\ ListCoalesced /\ TopNotFree /\ GenerationBounded
  BY DEF IInv
<1>a. /\ AtLink(prev, cur) /\ total = NeededTotal(want) /\ caller \in Clients /\ old = ptr[caller]
      /\ Base <= heapTop /\ want \in Nat
  BY <1>0 DEF AllocRunning, TypeOK
<1>b. cur \in Free /\ prev < cur /\ \A f \in Free : prev < f => cur <= f
  BY <1>0, <1>a, LinkSucceeds DEF Succeeds
<1>c. prev = 0 \/ prev \in Free
  BY <1>a DEF AtLink
<1>d. /\ Free' = Free \ {cur} /\ Blocks' = Blocks /\ size' = size /\ heapTop' = heapTop
      /\ \A x \in Free' : next'[x] = IF x = prev THEN next[cur] ELSE next[x]
      /\ freeHead' = IF prev = 0 THEN next[cur] ELSE freeHead
  BY <1>0 DEF TypeOK
<1>e. \A f \in Free : f \in Nat /\ f # 0 /\ next[f] \in Nat
  BY <1>0 DEF TypeOK
<1>f. prev \in Nat /\ cur \in Nat /\ freeHead \in Nat
  BY <1>0 DEF TypeOK
<1>1. TypeOK'
  <2>1. mem' \in [0 .. (AddrSpace - 1) -> Clients \cup {Junk}]
    BY <1>0 DEF TypeOK, Lost
  <2>2. freeHead' \in Nat /\ next' \in [Free' -> Nat]
    BY <1>b, <1>e, <1>f
  <2>3. Free' \subseteq Blocks' /\ size' \in [Blocks' -> Nat] /\ Blocks' \subseteq Nat \ {0}
    BY <1>0, <1>d DEF TypeOK
  <2> QED
    BY <1>0, <1>f, <2>1, <2>2, <2>3 DEF TypeOK, Locations
<1>2. Tiling' /\ NoMissedFit'
  BY <1>0 DEF Tiling, NoMissedFit
<1>3. FreeListOrdered'
  <2>1. Succeeds(Free, cur, next[cur]) /\ Succeeds(Free, 0, freeHead)
        /\ \A f \in Free : Succeeds(Free, f, next[f])
    BY <1>0, <1>b DEF FreeListOrdered
  <2>2. Succeeds(Free', prev, next[cur])
    BY <1>b, <1>d, <1>e, <1>f, <2>1 DEF Succeeds
  <2>3. ASSUME NEW f \in Free, f # prev, f # cur PROVE Succeeds(Free', f, next[f])
    BY <1>b, <1>c, <1>d, <1>e, <1>f, <2>1, <2>3 DEF Succeeds
  <2>4. prev # 0 => Succeeds(Free', 0, freeHead)
    BY <1>b, <1>c, <1>d, <1>e, <1>f, <2>1 DEF Succeeds
  <2>5. Succeeds(Free', 0, freeHead')
    BY <1>d, <2>2, <2>4
  <2>6. ASSUME NEW f \in Free' PROVE Succeeds(Free', f, next'[f])
    BY <1>d, <2>2, <2>3
  <2> QED
    BY <2>5, <2>6 DEF FreeListOrdered
<1>4. BlocksAccountedFor'
  <2>1. InTransit = {} /\ InTransit' = {cur} /\ Held' = Held
    BY <1>b, <1>e DEF InTransit, Held
  <2>2. Blocks' \ Free' = Held' \cup InTransit' /\ Held' \cap InTransit' = {}
    BY <1>0, <1>b, <1>d, <2>1, SMTT(30) DEF BlocksAccountedFor, TypeOK
  <2> QED
    BY <1>0, <1>d, <2>2 DEF BlocksAccountedFor
<1>5. AllocRunning'
  BY <1>0, <1>a, <1>b, <1>d DEF AllocRunning, TypeOK
<1>6. Inserting' /\ ListCoalesced' /\ TopNotFree' /\ GenerationBounded'
  BY <1>0, <1>d DEF Inserting, ListCoalesced, TopNotFree, GenerationBounded
<1> QED
  BY <1>1, <1>2, <1>3, <1>4, <1>5, <1>6 DEF IInv

\* Splitting a block into two of at least the minimal size keeps the tiling.
LEMMA SplitLayout ==
  ASSUME TypeOK, Tiling, NEW b \in Blocks, NEW t \in Nat, 2 <= t, t + 2 <= size[b],
         size' = [x \in Blocks \cup {b + t} |->
                   CASE x = b + t -> size[b] - t [] x = b -> t [] OTHER -> size[x]],
         heapTop' = heapTop, pages' = pages
  PROVE  /\ Tiling'
         /\ b + t \notin Blocks /\ b + t \in Nat \ {0} /\ size[b] - t \in Nat
         /\ Blocks' = Blocks \cup {b + t}
         /\ size' \in [Blocks' -> Nat] /\ Blocks' \subseteq Nat \ {0}
         /\ size'[b] = t /\ size'[b + t] = size[b] - t
         /\ \A x \in Blocks : x # b => size'[x] = size[x]
<1> DEFINE r == b + t
<1>a. /\ b \in Nat /\ b # 0 /\ size[b] \in Nat /\ Base <= b /\ Base \in Nat /\ heapTop \in Nat
      /\ r \in Nat /\ r # 0 /\ b < r /\ size[b] - t \in Nat /\ 2 <= size[b] - t
  BY Layout
<1>1. r \notin Blocks
  BY <1>a, Layout
<1>2. Blocks' = Blocks \cup {r}
  BY DEF Blocks
<1>3. /\ size'[b] = t /\ size'[r] = size[b] - t
      /\ \A x \in Blocks : x # b => size'[x] = size[x]
  BY <1>a, <1>1
<1>4. size' \in [Blocks' -> Nat] /\ Blocks' \subseteq Nat \ {0}
  <2>1. \A x \in Blocks \cup {r} : (CASE x = b + t -> size[b] - t [] x = b -> t [] OTHER -> size[x]) \in Nat
    BY <1>a, <1>3, Layout
  <2> QED
    BY <1>a, <1>2, <2>1, Layout
<1> HIDE DEF r
<1>5. \A x \in Blocks' : Base <= x /\ 2 <= size'[x] /\ x + size'[x] <= heapTop
  BY <1>a, <1>2, <1>3, Layout DEF r
<1>6. \A x, y \in Blocks' : x < y => x + size'[x] <= y
  <2> SUFFICES ASSUME NEW x \in Blocks', NEW y \in Blocks', x < y PROVE x + size'[x] <= y
    OBVIOUS
  <2>1. CASE x \in Blocks /\ x # b /\ y \in Blocks
    BY <1>3, <2>1, Layout
  <2>2. CASE x = b /\ y \in Blocks
    BY <1>a, <1>3, <2>2, Layout
  <2>3. CASE x = r /\ y \in Blocks
    BY <1>a, <1>3, <2>3, Layout DEF r
  <2>4. CASE x \in Blocks /\ x # b /\ y = r
    <3>1. x \in Nat /\ size[x] \in Nat /\ (x < b => x + size[x] <= b) /\ (b < x => b + size[b] <= x)
      BY <2>4, Layout
    <3> QED
      BY <1>a, <1>3, <2>4, <3>1 DEF r
  <2>5. CASE x = b /\ y = r
    BY <1>a, <1>3, <2>5 DEF r
  <2>6. ~(r < r)
    BY <1>a
  <2> QED
    BY <1>2, <2>1, <2>2, <2>3, <2>4, <2>5, <2>6
<1>7. \A x \in Blocks' : x + size'[x] = heapTop \/ x + size'[x] \in Blocks'
  <2> TAKE x \in Blocks'
  <2>1. CASE x \in Blocks /\ x # b
    BY <1>2, <1>3, <2>1, Layout
  <2>2. CASE x = b
    BY <1>2, <1>3, <2>2 DEF r
  <2>3. CASE x = r
    <3>1. r + size'[r] = b + size[b]
      BY <1>a, <1>3 DEF r
    <3> QED
      BY <1>2, <2>3, <3>1, Layout
  <2> QED
    BY <1>2, <2>1, <2>2, <2>3
<1>8. Base \in Blocks' \/ (Blocks' = {} /\ heapTop \in {0, Base})
  BY <1>2 DEF Tiling
<1>9. heapTop' <= pages' * PageUnits /\ pages' <= MaxPages
  BY DEF Tiling
<1> QED
  BY <1>a, <1>1, <1>2, <1>3, <1>4, <1>5, <1>6, <1>7, <1>8, <1>9 DEF Tiling, r, MinBlock, Header, MinPayload

\* alloc splits a fitting block: the tail takes its place in the list.
LEMMA ScanSplitKeepsIInv == ASSUME IInv, ScanSplit PROVE IInv'
<1> USE DEF ScanSplit, Relink, growth, owned
<1>0. /\ TypeOK /\ FreeListOrdered /\ AllocRunning /\ Tiling /\ NoMissedFit /\ BlocksAccountedFor
      /\ Inserting /\ ListCoalesced /\ TopNotFree /\ GenerationBounded
  BY DEF IInv
<1>a. /\ AtLink(prev, cur) /\ total = NeededTotal(want) /\ caller \in Clients /\ old = ptr[caller]
      /\ Base <= heapTop /\ want \in Nat /\ total \in Nat
  BY <1>0 DEF AllocRunning, TypeOK
<1>b. cur \in Free /\ cur \in Blocks /\ prev < cur /\ \A f \in Free : prev < f => cur <= f
  BY <1>0, <1>a, LinkSucceeds DEF Succeeds, TypeOK
<1>c. prev = 0 \/ prev \in Free
  BY <1>a DEF AtLink
<1>d. 2 <= total
  BY <1>a DEF NeededTotal, Header, MinPayload
<1> DEFINE rem == cur + total
<1>e. /\ Tiling' /\ rem \notin Blocks /\ rem \in Nat /\ rem # 0 /\ size[cur] - total \in Nat
      /\ Blocks' = Blocks \cup {rem}
      /\ size' \in [Blocks' -> Nat] /\ Blocks' \subseteq Nat \ {0}
      /\ size'[cur] = total /\ size'[rem] = size[cur] - total
      /\ \A x \in Blocks : x # cur => size'[x] = size[x]
  <2>1. total + 2 <= size[cur]
    BY <1>0, <1>a, <1>b, Layout DEF MinBlock, Header, MinPayload
  <2>2. size' = [x \in Blocks \cup {cur + total} |->
                  CASE x = cur + total -> size[cur] - total [] x = cur -> total [] OTHER -> size[x]]
    OBVIOUS
  <2>3. heapTop' = heapTop /\ pages' = pages
    OBVIOUS
  <2>4. TypeOK /\ Tiling /\ cur \in Blocks /\ total \in Nat
    BY <1>0, <1>a, <1>b
  <2> HIDE DEF ScanSplit
  <2>5. /\ Tiling'
         /\ cur + total \notin Blocks /\ cur + total \in Nat \ {0} /\ size[cur] - total \in Nat
         /\ Blocks' = Blocks \cup {cur + total}
         /\ size' \in [Blocks' -> Nat] /\ Blocks' \subseteq Nat \ {0}
         /\ size'[cur] = total /\ size'[cur + total] = size[cur] - total
         /\ \A x \in Blocks : x # cur => size'[x] = size[x]
    BY <1>d, <2>1, <2>2, <2>3, <2>4, SplitLayout
  <2> QED
    BY <2>5
<1>f. \A f \in Free : f \in Nat /\ f # 0 /\ f \in Blocks /\ next[f] \in Nat /\ size[f] \in Nat
  BY <1>0 DEF TypeOK
<1>g. prev \in Nat /\ cur \in Nat /\ freeHead \in Nat /\ rem \notin Free /\ prev # rem
  BY <1>0, <1>c, <1>e, <1>f DEF TypeOK
<1>h. /\ Free' = (Free \ {cur}) \cup {rem}
      /\ \A x \in Free' : next'[x] = IF x = prev THEN rem ELSE IF x = rem THEN next[cur] ELSE next[x]
      /\ freeHead' = IF prev = 0 THEN rem ELSE freeHead
  BY DEF Free
<1>i. next' \in [Free' -> Nat] /\ freeHead' \in Nat
  <2>1. next' = [x \in DOMAIN next' |-> next'[x]]
    OBVIOUS
  <2>2. \A x \in Free' : next'[x] \in Nat
    BY <1>b, <1>e, <1>f, <1>h
  <2> QED
    BY <1>e, <1>g, <1>h, <2>1, <2>2 DEF Free
<1>j. cur < rem /\ rem + (size[cur] - total) = cur + size[cur] /\ rem < cur + size[cur]
  BY <1>0, <1>a, <1>b, <1>d, <1>e, <1>g, Layout DEF MinBlock, Header, MinPayload
<1> HIDE DEF ScanSplit, rem
<1>1. TypeOK'
  <2>1. mem' \in [0 .. (AddrSpace - 1) -> Clients \cup {Junk}]
    BY <1>0 DEF TypeOK, Lost, ScanSplit
  <2>2. Free' \subseteq Blocks'
    BY <1>e, <1>f, <1>h
  <2> QED
    BY <1>0, <1>g, <1>e, <1>i, <2>1, <2>2 DEF TypeOK, Locations, ScanSplit
<1>k. \A f \in Free : cur < f => rem < f
  <2>1. \A f \in Free : cur < f => cur + size[cur] <= f
    BY <1>0, <1>b, <1>f, Layout
  <2> QED
    BY <1>b, <1>e, <1>f, <1>g, <1>j, <2>1
<1>3. FreeListOrdered'
  <2>1. Succeeds(Free, cur, next[cur]) /\ Succeeds(Free, 0, freeHead)
        /\ \A f \in Free : Succeeds(Free, f, next[f])
    BY <1>0, <1>b DEF FreeListOrdered
  <2>2. Succeeds(Free', prev, rem)
    BY <1>b, <1>e, <1>f, <1>g, <1>h, <1>j, <1>k DEF Succeeds
  <2>3. Succeeds(Free', rem, next[cur])
    BY <1>b, <1>e, <1>f, <1>g, <1>h, <1>j, <1>k, <2>1 DEF Succeeds
  <2>4. ASSUME NEW f \in Free, f # prev, f # cur PROVE Succeeds(Free', f, next[f])
    BY <1>b, <1>c, <1>e, <1>f, <1>g, <1>h, <1>j, <1>k, <2>1, <2>4 DEF Succeeds
  <2>5. prev # 0 => Succeeds(Free', 0, freeHead)
    BY <1>b, <1>c, <1>e, <1>f, <1>g, <1>h, <1>j, <1>k, <2>1 DEF Succeeds
  <2>6. Succeeds(Free', 0, freeHead')
    BY <1>h, <2>2, <2>5
  <2>7. ASSUME NEW f \in Free' PROVE Succeeds(Free', f, next'[f])
    BY <1>g, <1>h, <2>2, <2>3, <2>4
  <2> QED
    BY <2>6, <2>7 DEF FreeListOrdered
<1>4. BlocksAccountedFor'
  <2>1. InTransit = {} /\ InTransit' = {cur} /\ Held' = Held
    BY <1>b, <1>f DEF InTransit, Held, ScanSplit
  <2>2. Blocks' \ Free' = Held' \cup InTransit' /\ Held' \cap InTransit' = {}
    BY <1>0, <1>b, <1>e, <1>g, <1>h, <1>j, <2>1 DEF BlocksAccountedFor
  <2>3. \A d \in Clients : ptr[d] # 0 =>
           /\ BlockOf(ptr[d]) \in Blocks' \ Free'
           /\ NeededTotal(req[d]) <= size'[BlockOf(ptr[d])]
    BY <1>0, <1>b, <1>e, <1>h DEF BlocksAccountedFor
  <2> QED
    BY <1>0, <2>2, <2>3 DEF BlocksAccountedFor, ScanSplit
<1>5. AllocRunning'
  <2>1. cur \in Blocks' \ Free'
    BY <1>b, <1>e, <1>g, <1>h, <1>j
  <2> QED
    BY <1>0, <1>a, <1>e, <2>1 DEF AllocRunning, ScanSplit
<1>6. Inserting' /\ GenerationBounded' /\ NoMissedFit'
  BY <1>0 DEF Inserting, GenerationBounded, NoMissedFit, ScanSplit
<1>7. ListCoalesced' /\ TopNotFree'
  <2>1. \A f \in Free' : f # rem => f \in Free /\ f # cur /\ size'[f] = size[f]
    BY <1>e, <1>f, <1>h
  <2>2. \A f \in Free : f + size[f] \notin Free /\ f + size[f] # heapTop
    BY <1>0 DEF ListCoalesced, TopNotFree, ScanSplit
  <2>3. \A f \in Free : f # cur => f + size[f] # rem
    <3>1. \A f \in Free : (f < cur => f + size[f] <= cur) /\ (cur < f => rem < f)
      BY <1>0, <1>b, <1>k, <1>f, Layout
    <3> QED
      BY <1>f, <1>g, <1>e, <1>j, <3>1
  <2>4. rem + size'[rem] \notin Free' /\ rem + size'[rem] # heapTop
    BY <1>b, <1>e, <1>f, <1>g, <1>h, <1>j, <2>2
  <2>5. \A f \in Free' : f + size'[f] \notin Free' /\ f + size'[f] # heapTop
    BY <1>h, <2>1, <2>2, <2>3, <2>4
  <2>6. heapTop' = heapTop
    BY DEF ScanSplit
  <2> QED
    BY <2>5, <2>6 DEF ListCoalesced, TopNotFree
<1> QED
  BY <1>e, <1>1, <1>3, <1>4, <1>5, <1>6, <1>7 DEF IInv

\* d \div k rounded up, the number of pages ensure_capacity adds.
LEMMA RoundedUp ==
  ASSUME NEW d \in Nat, NEW k \in Nat, 1 <= d, k # 0
  PROVE  /\ (d + k - 1) \div k \in Nat
         /\ 1 <= (d + k - 1) \div k
         /\ d <= ((d + k - 1) \div k) * k
<1> DEFINE q == (d + k - 1) \div k
<1>1. q \in Nat /\ d + k - 1 < (q + 1) * k
  OBVIOUS
<1>2. (q + 1) * k = q * k + k /\ q * k \in Nat
  BY <1>1
<1>3. d <= q * k
  BY <1>1, <1>2
<1>4. q # 0
  BY <1>3
<1> QED
  BY <1>1, <1>3, <1>4

\* ensure_capacity leaves at least `end` units of memory within the maximum,
\* and changes GENERATION exactly when it grew the memory.
LEMMA CapacityEnsured ==
  ASSUME IInv, NEW end \in Nat, EnsureCapacity(end)
  PROVE  /\ pages' \in Nat /\ generation' \in Nat
         /\ end <= pages' * PageUnits /\ pages' <= MaxPages
         /\ GenerationBounded'
         /\ (pages' # pages) <=> (generation' # generation)
<1>1. /\ pages \in Nat /\ generation \in Nat /\ PageUnits \in Nat /\ PageUnits # 0
      /\ InitPages \in Nat /\ MaxPages \in Nat /\ pages * PageUnits \in Nat
  BY ConstantTypes DEF IInv, TypeOK
<1>2. generation <= pages - InitPages /\ pages <= MaxPages
  BY DEF IInv, GenerationBounded, Tiling
<1>3. CASE end <= pages * PageUnits /\ UNCHANGED growth
  BY <1>1, <1>2, <1>3 DEF growth, GenerationBounded
<1>4. CASE /\ end > pages * PageUnits
           /\ pages + PagesToAdd(end) <= MaxPages
           /\ pages' = pages + PagesToAdd(end)
           /\ generation' = generation + 1
  <2> DEFINE d == end - pages * PageUnits
             q == (d + PageUnits - 1) \div PageUnits
  <2>1. d \in Nat /\ 1 <= d
    BY <1>1, <1>4
  <2>2. PagesToAdd(end) = q
    BY DEF PagesToAdd
  <2> HIDE DEF d
  <2>3. q \in Nat /\ 1 <= q /\ d <= q * PageUnits
    BY <1>1, <2>1, RoundedUp
  <2> HIDE DEF q
  <2>4. (pages + q) * PageUnits = pages * PageUnits + q * PageUnits /\ q * PageUnits \in Nat
    BY <1>1, <2>3
  <2>5. end <= (pages + q) * PageUnits
    BY <1>1, <2>1, <2>3, <2>4 DEF d
  <2> QED
    BY <1>1, <1>2, <1>4, <2>2, <2>3, <2>5 DEF GenerationBounded
<1> QED
  BY <1>3, <1>4 DEF EnsureCapacity

\* alloc takes a new block at HEAP_TOP.
LEMMA BumpKeepsIInv == ASSUME IInv, Bump PROVE IInv'
<1> USE DEF Bump, owned
<1>0. /\ TypeOK /\ FreeListOrdered /\ AllocRunning /\ Tiling /\ NoMissedFit /\ BlocksAccountedFor
      /\ Inserting /\ ListCoalesced /\ TopNotFree /\ GenerationBounded
  BY DEF IInv
<1> DEFINE end == heapTop + total
<1>a. /\ total = NeededTotal(want) /\ caller \in Clients /\ old = ptr[caller]
      /\ Base <= heapTop /\ want \in Nat /\ total \in Nat /\ 2 <= total
      /\ heapTop \in Nat /\ Base \in Nat /\ Base # 0 /\ end \in Nat
  BY <1>0, ConstantTypes DEF AllocRunning, TypeOK, NeededTotal, Header, MinPayload
<1>b. /\ pages' \in Nat /\ generation' \in Nat
      /\ end <= pages' * PageUnits /\ pages' <= MaxPages
      /\ GenerationBounded'
  BY <1>a, CapacityEnsured
<1>c. heapTop \notin Blocks
  BY <1>0, <1>a, Layout
<1>d. /\ Blocks' = Blocks \cup {heapTop} /\ size'[heapTop] = total
      /\ \A x \in Blocks : size'[x] = size[x]
      /\ Free' = Free /\ next' = next /\ freeHead' = freeHead /\ heapTop' = end
      /\ res' = heapTop /\ pc' = "return"
  BY <1>c DEF Blocks, Free
<1>e. \A x \in Blocks : /\ x \in Nat /\ x # 0 /\ size[x] \in Nat /\ Base <= x /\ 2 <= size[x]
                        /\ x + size[x] <= heapTop /\ x < heapTop
  BY <1>0, <1>a, Layout
<1>1. TypeOK'
  <2>1. mem' \in [0 .. (AddrSpace - 1) -> Clients \cup {Junk}]
    BY <1>0 DEF TypeOK, Lost
  <2>2. size' \in [Blocks' -> Nat] /\ Blocks' \subseteq Nat \ {0} /\ Free' \subseteq Blocks'
    <3>1. size' = [b \in Blocks \cup {heapTop} |-> IF b = heapTop THEN total ELSE size[b]]
      OBVIOUS
    <3>2. Free \subseteq Blocks
      BY <1>0 DEF TypeOK
    <3> QED
      BY <1>a, <1>d, <1>e, <3>1, <3>2
  <2>3. next' \in [Free' -> Nat]
    BY <1>0, <1>d DEF TypeOK
  <2> QED
    BY <1>0, <1>a, <1>b, <1>d, <2>1, <2>2, <2>3 DEF TypeOK, Locations
<1> HIDE DEF Bump
<1>2. Tiling'
  <2>1. \A x \in Blocks' : Base <= x /\ 2 <= size'[x] /\ x + size'[x] <= end
    BY <1>a, <1>d, <1>e
  <2>2. \A x, y \in Blocks' : x < y => x + size'[x] <= y
    BY <1>0, <1>a, <1>d, <1>e, Layout
  <2>3. \A x \in Blocks' : x + size'[x] = end \/ x + size'[x] \in Blocks'
    BY <1>0, <1>d, Layout
  <2>4. Base \in Blocks'
    BY <1>0, <1>a, <1>d DEF Tiling
  <2> QED
    BY <1>b, <1>d, <2>1, <2>2, <2>3, <2>4 DEF Tiling, MinBlock, Header, MinPayload
<1>3. FreeListOrdered' /\ NoMissedFit'
  BY <1>0, <1>d DEF FreeListOrdered, Succeeds, NoMissedFit
<1>4. BlocksAccountedFor'
  <2>1. InTransit = {} /\ InTransit' = {heapTop} /\ Held' = Held
    BY <1>a, <1>d DEF InTransit, Held, Bump
  <2>2. Blocks' \ Free' = Held' \cup InTransit' /\ Held' \cap InTransit' = {}
    BY <1>0, <1>c, <1>d, <2>1 DEF BlocksAccountedFor, TypeOK
  <2>3. \A d \in Clients : ptr[d] # 0 =>
           /\ BlockOf(ptr[d]) \in Blocks' \ Free'
           /\ NeededTotal(req[d]) <= size'[BlockOf(ptr[d])]
    BY <1>0, <1>d DEF BlocksAccountedFor
  <2> QED
    BY <1>0, <2>2, <2>3 DEF BlocksAccountedFor, Bump
<1>5. AllocRunning'
  <2>1. heapTop \in Blocks' \ Free' /\ Base <= end
    BY <1>0, <1>a, <1>c, <1>d DEF TypeOK
  <2> QED
    BY <1>0, <1>a, <1>d, <2>1 DEF AllocRunning, Bump
<1>6. Inserting'
  BY <1>d DEF Inserting
<1>7. ListCoalesced' /\ TopNotFree'
  <2>1. \A f \in Free : f \in Blocks
    BY <1>0 DEF TypeOK
  <2>2. \A f \in Free : f + size[f] \notin Free
    BY <1>0 DEF ListCoalesced, Bump
  <2>3. \A f \in Free : f + size[f] # end
    BY <1>a, <1>e, <2>1
  <2> QED
    BY <1>d, <2>1, <2>2, <2>3 DEF ListCoalesced, TopNotFree
<1> QED
  BY <1>b, <1>1, <1>2, <1>3, <1>4, <1>5, <1>6, <1>7 DEF IInv

\* realloc extends the topmost block in place.
LEMMA ReallocExtendKeepsIInv ==
  ASSUME IInv, NEW c \in Clients, NEW n \in Requests, ReallocExtend(c, n)
  PROVE  IInv'
<1> USE DEF ReallocExtend, locals
<1>0. /\ TypeOK /\ FreeListOrdered /\ AllocRunning /\ Tiling /\ NoMissedFit /\ BlocksAccountedFor
      /\ Inserting /\ ListCoalesced /\ TopNotFree /\ GenerationBounded
  BY DEF IInv
<1> DEFINE b == BlockOf(ptr[c])
           t == NeededTotal(n)
           end == b + t
<1>a. /\ b \in Blocks /\ b \notin Free /\ b = ptr[c] - Header /\ n \in Nat /\ t \in Nat
      /\ b \in Nat /\ size[b] \in Nat /\ 2 <= size[b] /\ b + size[b] = heapTop /\ size[b] < t
      /\ Base <= b /\ heapTop \in Nat /\ end \in Nat /\ Base \in Nat
  BY <1>0, OwnBlock, RequestTypes, Layout DEF BlockOf
<1>b. /\ pages' \in Nat /\ generation' \in Nat
      /\ end <= pages' * PageUnits /\ pages' <= MaxPages
      /\ GenerationBounded'
  BY <1>a, CapacityEnsured
<1>d. /\ Blocks' = Blocks /\ size'[b] = t /\ size' = [size EXCEPT ![b] = t]
      /\ \A x \in Blocks : x # b => size'[x] = size[x]
      /\ Free' = Free /\ next' = next /\ freeHead' = freeHead /\ heapTop' = end
      /\ pc = "idle" /\ pc' = "idle"
  BY <1>0, <1>a DEF Blocks, Free, TypeOK
<1>e. \A x \in Blocks : /\ x \in Nat /\ x # 0 /\ size[x] \in Nat /\ Base <= x /\ 2 <= size[x]
                        /\ x + size[x] <= heapTop /\ (x # b => x + size[x] <= b)
  BY <1>0, <1>a, Layout
<1>1. TypeOK'
  <2>1. mem' \in [0 .. (AddrSpace - 1) -> Clients \cup {Junk}]
    BY <1>0 DEF TypeOK, Lost
  <2>2. size' \in [Blocks' -> Nat]
    BY <1>0, <1>a, <1>d DEF TypeOK
  <2>3. req' \in [Clients -> Nat]
    BY <1>0, <1>a DEF TypeOK
  <2>4. next' \in [Free' -> Nat]
    BY <1>0, <1>d DEF TypeOK
  <2> HIDE DEF t, b, end
  <2> QED
    BY <1>0, <1>a, <1>b, <1>d, <2>1, <2>2, <2>3, <2>4 DEF TypeOK, Locations
<1>2. Tiling'
  <2>1. \A x \in Blocks' : Base <= x /\ 2 <= size'[x] /\ x + size'[x] <= end
    BY <1>a, <1>d, <1>e
  <2>2. \A x, y \in Blocks' : x < y => x + size'[x] <= y
    BY <1>0, <1>a, <1>d, <1>e, Layout
  <2>3. \A x \in Blocks' : x + size'[x] = end \/ x + size'[x] \in Blocks'
    BY <1>0, <1>a, <1>d, <1>e, Layout
  <2>4. Base \in Blocks'
    BY <1>0, <1>a, <1>d DEF Tiling
  <2> QED
    BY <1>b, <1>d, <2>1, <2>2, <2>3, <2>4 DEF Tiling, MinBlock, Header, MinPayload
<1>3. FreeListOrdered' /\ NoMissedFit'
  BY <1>0, <1>d DEF FreeListOrdered, Succeeds, NoMissedFit
<1>4. BlocksAccountedFor'
  <2>1. InTransit = {} /\ InTransit' = {} /\ Held' = Held
    BY <1>d DEF InTransit, Held
  <2>2. \A d \in Clients : ptr[d] # 0 =>
           /\ BlockOf(ptr[d]) \in Blocks' \ Free'
           /\ NeededTotal(req'[d]) <= size'[BlockOf(ptr[d])]
    <3> TAKE d \in Clients
    <3> HAVE ptr[d] # 0
    <3>1. CASE d = c
      BY <1>0, <1>a, <1>d, <3>1 DEF TypeOK
    <3>2. CASE d # c
      <4>1. req'[d] = req[d] /\ BlockOf(ptr[d]) # b
        BY <1>0, <3>2, OwnBlock DEF TypeOK
      <4> QED
        BY <1>0, <1>d, <4>1 DEF BlocksAccountedFor
    <3> QED
      BY <3>1, <3>2
  <2> QED
    BY <1>0, <1>d, <2>1, <2>2 DEF BlocksAccountedFor
<1>5. AllocRunning' /\ Inserting'
  BY <1>0, <1>d DEF AllocRunning, Inserting
<1>6. ListCoalesced' /\ TopNotFree'
  <2>1. \A f \in Free : f \in Blocks /\ f # b
    BY <1>0, <1>a DEF TypeOK
  <2>2. \A f \in Free : f + size[f] \notin Free
    BY <1>0, <1>d DEF ListCoalesced
  <2>3. \A f \in Free : f + size[f] # end
    BY <1>a, <1>e, <2>1
  <2> HIDE DEF end, b
  <2> QED
    BY <1>d, <2>1, <2>2, <2>3 DEF ListCoalesced, TopNotFree
<1> QED
  BY <1>b, <1>1, <1>2, <1>3, <1>4, <1>5, <1>6 DEF IInv

\* realloc splits the tail off its block and starts insert_free on it.
LEMMA ReallocShrinkKeepsIInv ==
  ASSUME IInv, NEW c \in Clients, NEW n \in Requests, ReallocShrink(c, n)
  PROVE  IInv'
<1> USE DEF ReallocShrink, growth
<1>0. /\ TypeOK /\ FreeListOrdered /\ AllocRunning /\ Tiling /\ NoMissedFit /\ BlocksAccountedFor
      /\ Inserting /\ ListCoalesced /\ TopNotFree /\ GenerationBounded
  BY DEF IInv
<1> DEFINE b == BlockOf(ptr[c])
           t == NeededTotal(n)
           rem == b + t
           tail == size[b] - t
<1>a. /\ b \in Blocks /\ b \notin Free /\ b \in Held /\ b = ptr[c] - Header /\ n \in Nat /\ t \in Nat
      /\ b \in Nat /\ b # 0 /\ size[b] \in Nat /\ 2 <= t /\ t + 2 <= size[b] /\ Base <= b /\ Base \in Nat
  BY <1>0, OwnBlock, RequestTypes, Layout DEF BlockOf, MinBlock, Header, MinPayload
<1>e. /\ Tiling' /\ rem \notin Blocks /\ rem \in Nat \ {0} /\ tail \in Nat
      /\ Blocks' = Blocks \cup {rem}
      /\ size' \in [Blocks' -> Nat] /\ Blocks' \subseteq Nat \ {0}
      /\ size'[b] = t /\ size'[rem] = tail
      /\ \A x \in Blocks : x # b => size'[x] = size[x]
  <2>1. size' = [x \in Blocks \cup {b + t} |->
                  CASE x = b + t -> size[b] - t [] x = b -> t [] OTHER -> size[x]]
    BY <1>a
  <2>2. heapTop' = heapTop /\ pages' = pages
    OBVIOUS
  <2> HIDE DEF ReallocShrink, b, t
  <2>3. /\ Tiling'
         /\ b + t \notin Blocks /\ b + t \in Nat \ {0} /\ size[b] - t \in Nat
         /\ Blocks' = Blocks \cup {b + t}
         /\ size' \in [Blocks' -> Nat] /\ Blocks' \subseteq Nat \ {0}
         /\ size'[b] = t /\ size'[b + t] = size[b] - t
         /\ \A x \in Blocks : x # b => size'[x] = size[x]
    <3>1. TypeOK /\ Tiling /\ b \in Blocks /\ t \in Nat /\ 2 <= t /\ t + 2 <= size[b]
      BY <1>0, <1>a
    <3> QED
      BY <2>1, <2>2, <3>1, SplitLayout
  <2> QED
    BY <2>3
<1>d. /\ Free' = Free /\ next' = next /\ freeHead' = freeHead /\ heapTop' = heapTop
      /\ pc = "idle" /\ pc' = "walk" /\ blk' = rem /\ sz' = tail /\ prev' = 0 /\ nxt' = freeHead
      /\ ptr' = ptr /\ caller' = caller /\ want' = want /\ total' = total /\ cur' = cur
      /\ res' = res /\ old' = old /\ generation' = generation /\ pages' = pages
  BY <1>a DEF Free
<1>f. /\ b < rem /\ rem + tail = b + size[b] /\ 2 <= tail /\ 0 < rem /\ Base <= rem
      /\ rem \notin Free
  <2>1. Free \subseteq Blocks
    BY <1>0 DEF TypeOK
  <2>2. rem = b + t /\ tail = size[b] - t
    OBVIOUS
  <2> HIDE DEF ReallocShrink, b, t, rem, tail
  <2> QED
    BY <1>a, <1>e, <2>1, <2>2
<1>1. TypeOK'
  <2>1. mem' \in [0 .. (AddrSpace - 1) -> Clients \cup {Junk}]
    BY <1>0 DEF TypeOK, Lost
  <2>2. req' \in [Clients -> Nat] /\ kept' \in [Clients -> Nat]
    BY <1>0, <1>a DEF TypeOK, MinOf
  <2>3. Free' \subseteq Blocks' /\ next' \in [Free' -> Nat]
    BY <1>0, <1>d, <1>e DEF TypeOK
  <2>4. rem \in Nat /\ tail \in Nat
    BY <1>e
  <2> HIDE DEF ReallocShrink, b, t, rem, tail
  <2> QED
    BY <1>0, <1>d, <1>e, <2>1, <2>2, <2>3, <2>4 DEF TypeOK, Locations
<1>g. Held' = Held
  BY <1>d DEF Held
<1> HIDE DEF t, rem, tail
<1>3. FreeListOrdered' /\ NoMissedFit'
  BY <1>0, <1>d DEF FreeListOrdered, Succeeds, NoMissedFit
<1>h. \A x \in Blocks : x < b \/ x = b \/ rem + tail <= x
  BY <1>0, <1>a, <1>f, Layout
<1>4. BlocksAccountedFor'
  <2>1. InTransit = {}
    BY <1>d DEF InTransit
  <2>2. InTransit' = {rem}
    <3>1. InTransit' = {x \in Blocks' \ Free' : rem <= x /\ x < rem + tail}
      BY <1>d DEF InTransit
    <3>2. \A x \in Blocks : ~(rem <= x /\ x < rem + tail)
      BY <1>0, <1>a, <1>e, <1>f, <1>h, Layout
    <3>3. rem <= rem /\ rem < rem + tail
      BY <1>e, <1>f
    <3> QED
      BY <1>d, <1>e, <1>f, <3>1, <3>2, <3>3
  <2>3. Blocks' \ Free' = Held' \cup InTransit' /\ Held' \cap InTransit' = {}
    BY <1>0, <1>d, <1>e, <1>f, <1>g, <2>1, <2>2 DEF BlocksAccountedFor
  <2>4. \A d \in Clients : ptr[d] # 0 =>
           /\ BlockOf(ptr[d]) \in Blocks' \ Free'
           /\ NeededTotal(req'[d]) <= size'[BlockOf(ptr[d])]
    <3> TAKE d \in Clients
    <3> HAVE ptr[d] # 0
    <3>0. BlockOf(ptr[d]) \in Blocks' \ Free'
      BY <1>0, <1>d, <1>e DEF BlocksAccountedFor
    <3>1. CASE d = c
      <4>1. req'[d] = n
        BY <1>0, <3>1 DEF TypeOK
      <4> QED
        BY <1>a, <1>e, <3>0, <3>1, <4>1 DEF t
    <3>2. CASE d # c
      <4>1. req'[d] = req[d] /\ BlockOf(ptr[d]) # b /\ BlockOf(ptr[d]) \in Blocks
        BY <1>0, <3>2, OwnBlock DEF TypeOK
      <4> QED
        BY <1>0, <1>e, <3>0, <4>1 DEF BlocksAccountedFor
    <3> QED
      BY <3>1, <3>2
  <2> QED
    BY <1>0, <1>d, <2>3, <2>4 DEF BlocksAccountedFor
<1>5. AllocRunning' /\ GenerationBounded'
  BY <1>0, <1>d DEF AllocRunning, GenerationBounded
<1>6. Inserting'
  <2>1. rem + tail = heapTop \/ rem + tail \in Blocks
    BY <1>0, <1>a, <1>f, Layout
  <2>2. \A x \in Held' : x < rem \/ rem + tail <= x
    <3>1. Held \subseteq Blocks /\ \A x \in Blocks : x \in Nat
      BY <1>0 DEF BlocksAccountedFor, TypeOK
    <3> QED
      BY <1>a, <1>e, <1>f, <1>g, <1>h, <3>1
  <2>3. AtLink(0, freeHead)'
    BY <1>d DEF AtLink
  <2> QED
    BY <1>d, <1>e, <1>f, <2>1, <2>2, <2>3 DEF Inserting, AtLink, MinBlock, Header, MinPayload
<1>7. ListCoalesced' /\ TopNotFree'
  <2>1. \A f \in Free : f \in Blocks /\ f # b /\ size'[f] = size[f]
    BY <1>0, <1>a, <1>e DEF TypeOK
  <2>2. \A f \in Free : f + size[f] \notin Free /\ f + size[f] # heapTop
    BY <1>0, <1>d DEF ListCoalesced, TopNotFree
  <2> HIDE DEF ReallocShrink
  <2> QED
    BY <1>d, <2>1, <2>2 DEF ListCoalesced, TopNotFree
<1> QED
  BY <1>e, <1>1, <1>3, <1>4, <1>5, <1>6, <1>7 DEF IInv

\* What insert_free knows of its region when it links it in.
LEMMA SpliceFacts ==
  ASSUME IInv, pc = "splice"
  PROVE  /\ blk \in Blocks /\ blk \in Nat /\ blk # 0 /\ sz \in Nat /\ 2 <= sz /\ Base <= blk
         /\ prev \in Nat /\ nxt \in Nat /\ prev < blk /\ (prev = 0 \/ prev \in Free)
         /\ blk + sz = heapTop \/ blk + sz \in Blocks
         /\ blk + sz <= heapTop
         /\ blk + sz \notin Free
         /\ \A b \in Held : b < blk \/ blk + sz <= b
         /\ \A f \in Free : f < blk => f <= prev /\ f + size[f] # blk
         /\ nxt = 0 \/ (nxt \in Free /\ blk + sz <= nxt)
         /\ \A f \in Free : blk + sz <= f => nxt # 0 /\ nxt <= f
         /\ \A b \in Blocks : b < blk => b + size[b] <= blk
<1>0. TypeOK /\ Tiling /\ Inserting
  BY DEF IInv
<1>1. blk \in Nat /\ sz \in Nat /\ prev \in Nat /\ nxt \in Nat
  BY <1>0 DEF TypeOK
<1>2. /\ blk \in Blocks /\ 2 <= sz /\ Base <= blk /\ prev < blk /\ (prev = 0 \/ prev \in Free)
      /\ blk + sz = heapTop \/ blk + sz \in Blocks
      /\ blk + sz \notin Free
      /\ \A b \in Held : b < blk \/ blk + sz <= b
      /\ \A f \in Free : f < blk => f <= prev /\ f + size[f] # blk
      /\ nxt = 0 \/ (nxt \in Free /\ blk + sz <= nxt)
      /\ \A f \in Free : blk + sz <= f => nxt # 0 /\ nxt <= f
  BY <1>0 DEF Inserting, MinBlock, Header, MinPayload
<1>3. blk # 0 /\ blk + sz <= heapTop /\ \A b \in Blocks : b < blk => b + size[b] <= blk
  BY <1>0, <1>1, <1>2, Layout
<1> QED
  BY <1>1, <1>2, <1>3

\* insert_free links the merged region between its neighbours in the list.
LEMMA SpliceLinkKeepsIInv == ASSUME IInv, SpliceLink PROVE IInv'
<1> USE DEF SpliceLink, Relink, Return, growth, owned
<1>0. /\ TypeOK /\ FreeListOrdered /\ AllocRunning /\ Tiling /\ NoMissedFit /\ BlocksAccountedFor
      /\ Inserting /\ ListCoalesced /\ TopNotFree /\ GenerationBounded
  BY DEF IInv
<1> DEFINE e == blk + sz
<1>a. /\ blk \in Blocks /\ blk \in Nat /\ blk # 0 /\ sz \in Nat /\ 2 <= sz /\ Base <= blk
      /\ prev \in Nat /\ nxt \in Nat /\ prev < blk /\ (prev = 0 \/ prev \in Free)
      /\ e \in Blocks /\ e \notin Free /\ e # heapTop
      /\ \A b \in Held : b < blk \/ e <= b
      /\ \A f \in Free : f < blk => f <= prev /\ f + size[f] # blk
      /\ nxt = 0 \/ (nxt \in Free /\ e <= nxt)
      /\ \A f \in Free : e <= f => nxt # 0 /\ nxt <= f
      /\ \A b \in Blocks : b < blk => b + size[b] <= blk
  BY SpliceFacts
<1>b. e \in Nat /\ blk < e
  BY <1>a
<1>c. /\ Blocks' = {b \in Blocks : b < blk \/ b >= e} \cup {blk}
      /\ size'[blk] = sz /\ \A b \in Blocks : b < blk \/ b >= e => size'[b] = size[b]
  BY <1>a, <1>b DEF Blocks, Outside
<1>d. /\ Free' = {f \in Free : f < blk \/ f >= e} \cup {blk}
      /\ \A x \in Free' : next'[x] = IF x = prev THEN blk ELSE IF x = blk THEN nxt ELSE next[x]
      /\ freeHead' = IF prev = 0 THEN blk ELSE freeHead
      /\ heapTop' = heapTop /\ pages' = pages /\ generation' = generation
      /\ pc = "splice" /\ pc' = "idle" /\ ptr' = ptr /\ req' = req /\ kept' = kept /\ old' = 0
  BY DEF Free, Outside
<1>f. \A f \in Free : f \in Nat /\ f # 0 /\ f \in Blocks /\ next[f] \in Nat
  BY <1>0 DEF TypeOK
<1>g. \A b \in Blocks : b \in Nat /\ b # 0 /\ size[b] \in Nat /\ 2 <= size[b] /\ Base <= b
  BY <1>0, Layout
<1>1. TypeOK'
  <2>1. mem' \in [0 .. (AddrSpace - 1) -> Clients \cup {Junk}]
    BY <1>0 DEF TypeOK, Lost
  <2>2. size' \in [Blocks' -> Nat]
    <3>1. size' = [b \in DOMAIN size' |-> size'[b]]
      OBVIOUS
    <3>2. \A b \in Blocks' : size'[b] \in Nat
      BY <1>a, <1>c, <1>g
    <3> QED
      BY <3>1, <3>2 DEF Blocks
  <2>3. next' \in [Free' -> Nat] /\ freeHead' \in Nat
    <3>1. next' = [x \in DOMAIN next' |-> next'[x]]
      OBVIOUS
    <3>2. \A x \in Free' : next'[x] \in Nat
      BY <1>a, <1>d, <1>f, SMTT(30)
    <3>3. freeHead' \in Nat
      BY <1>0, <1>a, <1>d DEF TypeOK
    <3> QED
      BY <3>1, <3>2, <3>3 DEF Free
  <2>4. Blocks' \subseteq Nat \ {0} /\ Free' \subseteq Blocks'
    BY <1>a, <1>c, <1>d, <1>f, <1>g
  <2>5. /\ caller' \in Clients \cup {NoClient} /\ want' \in Nat /\ total' \in Nat /\ prev' \in Nat
        /\ cur' \in Nat /\ res' \in Nat /\ old' \in Nat /\ blk' \in Nat /\ sz' \in Nat /\ nxt' \in Nat
    OBVIOUS
  <2> HIDE DEF SpliceLink
  <2> QED
    BY <1>0, <1>d, <2>1, <2>2, <2>3, <2>4, <2>5 DEF TypeOK, Locations
<1> HIDE DEF SpliceLink, e
<1>2. Tiling'
  <2>1. \A x \in Blocks' : Base <= x /\ 2 <= size'[x] /\ x + size'[x] <= heapTop
    <3>1. e + size[e] <= heapTop /\ e <= heapTop
      BY <1>0, <1>a, <1>b, Layout
    <3> QED
      BY <1>0, <1>a, <1>c, <3>1, Layout DEF e
  <2>2. \A x, y \in Blocks' : x < y => x + size'[x] <= y
    <3> SUFFICES ASSUME NEW x \in Blocks', NEW y \in Blocks', x < y PROVE x + size'[x] <= y
      OBVIOUS
    <3>1. CASE x # blk
      BY <1>0, <1>a, <1>c, <3>1, Layout
    <3>2. CASE x = blk
      BY <1>a, <1>c, <1>g, <3>2 DEF e
    <3> QED
      BY <3>1, <3>2
  <2>3. \A x \in Blocks' : x + size'[x] = heapTop \/ x + size'[x] \in Blocks'
    <3> TAKE x \in Blocks'
    <3>1. CASE x = blk
      BY <1>a, <1>b, <1>c, <3>1 DEF e
    <3>2. CASE x # blk /\ x < blk
      <4>1. x + size[x] <= blk /\ (x + size[x] = heapTop \/ x + size[x] \in Blocks) /\ blk < heapTop
        BY <1>0, <1>a, <1>c, <1>g, <3>2, Layout
      <4>2. x + size[x] \in Blocks
        BY <1>0, <1>a, <1>c, <1>g, <3>2, <4>1, Layout
      <4> QED
        BY <1>a, <1>c, <1>g, <3>2, <4>1, <4>2
    <3>3. CASE x # blk /\ x >= e
      <4>1. x + size[x] = heapTop \/ (x + size[x] \in Blocks /\ x + size[x] >= e)
        BY <1>0, <1>b, <1>c, <1>g, <3>3, Layout
      <4> QED
        BY <1>c, <3>3, <4>1
    <3> QED
      BY <1>c, <3>1, <3>2, <3>3
  <2>4. Base \in Blocks'
    BY <1>0, <1>a, <1>c, <1>g, ConstantTypes DEF Tiling
  <2>5. heapTop <= pages * PageUnits /\ pages <= MaxPages
    BY <1>0 DEF Tiling
  <2> QED
    BY <1>d, <2>1, <2>2, <2>3, <2>4, <2>5 DEF Tiling, MinBlock, Header, MinPayload
<1>3. FreeListOrdered'
  <2>1. Succeeds(Free, 0, freeHead) /\ \A f \in Free : Succeeds(Free, f, next[f])
    BY <1>0 DEF FreeListOrdered
  <2>2. Succeeds(Free', prev, blk)
    BY <1>a, <1>b, <1>d, <1>f DEF Succeeds
  <2>3. Succeeds(Free', blk, nxt)
    BY <1>a, <1>b, <1>d, <1>f DEF Succeeds
  <2>4. ASSUME NEW f \in Free', f # prev, f # blk PROVE Succeeds(Free', f, next[f])
    <3>0. f \in Free /\ Succeeds(Free, f, next[f]) /\ next[f] \in Nat
      BY <1>d, <1>f, <2>1, <2>4
    <3>1. CASE f < blk
      <4>1. f < prev /\ prev \in Free /\ prev # 0
        BY <1>a, <1>f, <2>4, <3>0, <3>1
      <4>2. next[f] # 0 /\ next[f] <= prev /\ next[f] \in Free /\ f < next[f]
        BY <1>f, <3>0, <4>1 DEF Succeeds
      <4> QED
        BY <1>a, <1>b, <1>d, <1>f, <3>0, <4>1, <4>2 DEF Succeeds
    <3>2. CASE f >= e
      BY <1>a, <1>b, <1>d, <1>f, <3>0, <3>2 DEF Succeeds
    <3> QED
      BY <1>d, <2>4, <3>1, <3>2
  <2>5. prev # 0 => Succeeds(Free', 0, freeHead)
    <3> HAVE prev # 0
    <3>1. freeHead # 0 /\ freeHead <= prev /\ freeHead \in Free /\ 0 < freeHead /\ prev \in Free
      BY <1>a, <1>f, <2>1 DEF Succeeds
    <3> QED
      BY <1>a, <1>b, <1>d, <1>f, <2>1, <3>1 DEF Succeeds
  <2>6. Succeeds(Free', 0, freeHead')
    BY <1>d, <2>2, <2>5
  <2>7. ASSUME NEW f \in Free' PROVE Succeeds(Free', f, next'[f])
    BY <1>a, <1>d, <2>2, <2>3, <2>4
  <2> QED
    BY <2>6, <2>7 DEF FreeListOrdered
<1>4. BlocksAccountedFor'
  <2>1. InTransit = {b \in Blocks \ Free : blk <= b /\ b < e} /\ InTransit' = {} /\ Held' = Held
    BY <1>d DEF InTransit, Held, e
  <2>2. Blocks' \ Free' = Held
    <3>1. Held \subseteq Blocks
      BY <1>0 DEF BlocksAccountedFor
    <3>2. \A b \in Blocks' \ Free' : b \in Held
      BY <1>0, <1>a, <1>c, <1>d, <1>g, <2>1 DEF BlocksAccountedFor
    <3>3. \A b \in Held : b \in Blocks' /\ b \notin Free'
      BY <1>0, <1>a, <1>b, <1>c, <1>d, <1>g DEF BlocksAccountedFor
    <3> QED
      BY <3>2, <3>3
  <2>3. \A d \in Clients : ptr[d] # 0 =>
           /\ BlockOf(ptr[d]) \in Blocks' \ Free'
           /\ NeededTotal(req[d]) <= size'[BlockOf(ptr[d])]
    <3> TAKE d \in Clients
    <3> HAVE ptr[d] # 0
    <3>1. BlockOf(ptr[d]) \in Held /\ BlockOf(ptr[d]) \in Blocks /\ NeededTotal(req[d]) <= size[BlockOf(ptr[d])]
      BY <1>0 DEF Held, BlocksAccountedFor
    <3>2. size'[BlockOf(ptr[d])] = size[BlockOf(ptr[d])]
      BY <1>a, <1>c, <1>g, <3>1 DEF e
    <3> QED
      BY <2>2, <3>1, <3>2
  <2> QED
    BY <1>0, <1>d, <2>1, <2>2, <2>3 DEF BlocksAccountedFor
<1>5. AllocRunning' /\ Inserting' /\ NoMissedFit' /\ GenerationBounded'
  BY <1>0, <1>d DEF AllocRunning, Inserting, NoMissedFit, GenerationBounded
<1>6. ListCoalesced' /\ TopNotFree'
  <2>1. ASSUME NEW f \in Free', f # blk
        PROVE  f + size[f] \notin Free' /\ f + size[f] # heapTop /\ size'[f] = size[f]
    <3>1. f \in Free /\ f \in Blocks /\ (f < blk \/ f >= e)
      BY <1>d, <1>f, <2>1
    <3>2. f + size[f] \notin Free
      BY <1>0, <1>b, <1>d, <1>f, <1>a, <3>1 DEF ListCoalesced, e
    <3>3. f + size[f] # heapTop
      BY <1>0, <1>a, <3>1 DEF TopNotFree, e
    <3>4. f + size[f] # blk
      BY <1>a, <1>b, <1>g, <3>1
    <3>5. size'[f] = size[f]
      BY <1>c, <3>1
    <3> QED
      BY <1>d, <3>2, <3>3, <3>4, <3>5
  <2>2. blk + size'[blk] \notin Free' /\ blk + size'[blk] # heapTop
    BY <1>a, <1>b, <1>c, <1>d DEF e
  <2> QED
    BY <1>d, <2>1, <2>2 DEF ListCoalesced, TopNotFree
<1> QED
  BY <1>1, <1>2, <1>3, <1>4, <1>5, <1>6 DEF IInv

\* insert_free gives a region that reaches HEAP_TOP back to the bump pointer.
LEMMA SpliceTrimKeepsIInv == ASSUME IInv, SpliceTrim PROVE IInv'
<1> USE DEF SpliceTrim, Relink, Return, growth, owned
<1>0. /\ TypeOK /\ FreeListOrdered /\ AllocRunning /\ Tiling /\ NoMissedFit /\ BlocksAccountedFor
      /\ Inserting /\ ListCoalesced /\ TopNotFree /\ GenerationBounded
  BY DEF IInv
<1>f. \A f \in Free : f \in Nat /\ f # 0 /\ f \in Blocks /\ next[f] \in Nat
  BY <1>0 DEF TypeOK
<1>g. \A b \in Blocks : b \in Nat /\ b # 0 /\ size[b] \in Nat /\ 2 <= size[b] /\ Base <= b
                        /\ b + size[b] <= heapTop
  BY <1>0, Layout
<1>a. /\ blk \in Blocks /\ blk \in Nat /\ blk # 0 /\ sz \in Nat /\ 2 <= sz /\ Base <= blk
      /\ prev \in Nat /\ nxt \in Nat /\ prev < blk /\ (prev = 0 \/ prev \in Free)
      /\ blk + sz = heapTop /\ heapTop \in Nat
      /\ \A b \in Held : b < blk \/ heapTop <= b
      /\ \A f \in Free : f < blk => f <= prev /\ f + size[f] # blk
      /\ nxt = 0 \/ (nxt \in Free /\ heapTop <= nxt)
      /\ \A b \in Blocks : b < blk => b + size[b] <= blk
  BY <1>0, SpliceFacts DEF TypeOK
<1>b. nxt = 0 /\ \A b \in Blocks : b < heapTop
  BY <1>a, <1>f, <1>g
<1>c. /\ Blocks' = {b \in Blocks : b < blk}
      /\ \A b \in Blocks : b < blk => size'[b] = size[b]
  BY <1>a, <1>b, <1>g DEF Blocks, Outside
<1>d. /\ Free' = {f \in Free : f < blk}
      /\ \A x \in Free' : next'[x] = IF x = prev THEN 0 ELSE next[x]
      /\ freeHead' = IF prev = 0 THEN 0 ELSE freeHead
      /\ heapTop' = blk /\ pages' = pages /\ generation' = generation
      /\ pc = "splice" /\ pc' = "idle" /\ ptr' = ptr /\ req' = req /\ kept' = kept /\ old' = 0
  BY <1>a, <1>b, <1>f DEF Free, Outside
<1>1. TypeOK'
  <2>1. mem' \in [0 .. (AddrSpace - 1) -> Clients \cup {Junk}]
    BY <1>0 DEF TypeOK, Lost
  <2>2. size' \in [Blocks' -> Nat]
    <3>1. size' = [b \in DOMAIN size' |-> size'[b]]
      OBVIOUS
    <3>2. \A b \in Blocks' : size'[b] \in Nat
      BY <1>c, <1>g
    <3> QED
      BY <3>1, <3>2 DEF Blocks
  <2>3. next' \in [Free' -> Nat] /\ freeHead' \in Nat
    <3>1. next' = [x \in DOMAIN next' |-> next'[x]]
      OBVIOUS
    <3>2. \A x \in Free' : next'[x] \in Nat
      BY <1>d, <1>f
    <3>3. freeHead' \in Nat
      BY <1>0, <1>d DEF TypeOK
    <3> QED
      BY <3>1, <3>2, <3>3 DEF Free
  <2>4. Blocks' \subseteq Nat \ {0} /\ Free' \subseteq Blocks'
    BY <1>c, <1>d, <1>f, <1>g
  <2>5. /\ caller' \in Clients \cup {NoClient} /\ want' \in Nat /\ total' \in Nat /\ prev' \in Nat
        /\ cur' \in Nat /\ res' \in Nat /\ old' \in Nat /\ blk' \in Nat /\ sz' \in Nat /\ nxt' \in Nat
    OBVIOUS
  <2> HIDE DEF SpliceTrim
  <2> QED
    BY <1>0, <1>a, <1>d, <2>1, <2>2, <2>3, <2>4, <2>5 DEF TypeOK, Locations
<1> HIDE DEF SpliceTrim
<1>2. Tiling'
  <2>1. \A x \in Blocks' : Base <= x /\ 2 <= size'[x] /\ x + size'[x] <= blk
    BY <1>a, <1>c, <1>g
  <2>2. \A x, y \in Blocks' : x < y => x + size'[x] <= y
    BY <1>0, <1>c, Layout
  <2>3. \A x \in Blocks' : x + size'[x] = blk \/ x + size'[x] \in Blocks'
    <3> TAKE x \in Blocks'
    <3>1. x \in Blocks /\ x < blk /\ size'[x] = size[x] /\ x + size[x] <= blk
      BY <1>a, <1>c
    <3>2. x + size[x] \in Blocks
      BY <1>0, <1>a, <1>g, <3>1, Layout
    <3> QED
      BY <1>a, <1>c, <1>g, <3>1, <3>2
  <2>4. Base \in Blocks' \/ (Blocks' = {} /\ blk = Base)
    <3>1. Base \in Blocks
      BY <1>0, <1>a DEF Tiling
    <3>2. CASE Base < blk
      BY <1>c, <3>1, <3>2
    <3>3. CASE Base = blk
      BY <1>c, <1>g, <3>3, ConstantTypes
    <3> QED
      BY <1>a, <3>2, <3>3, ConstantTypes
  <2>5. heapTop <= pages * PageUnits /\ pages <= MaxPages /\ pages * PageUnits \in Nat
    BY <1>0, ConstantTypes DEF Tiling, TypeOK
  <2>6. blk <= pages * PageUnits
    BY <1>a, <2>5
  <2> QED
    BY <1>d, <2>1, <2>2, <2>3, <2>4, <2>5, <2>6 DEF Tiling, MinBlock, Header, MinPayload
<1>3. FreeListOrdered'
  <2>1. Succeeds(Free, 0, freeHead) /\ \A f \in Free : Succeeds(Free, f, next[f])
    BY <1>0 DEF FreeListOrdered
  <2>2. Succeeds(Free', prev, 0)
    BY <1>a, <1>d, <1>f DEF Succeeds
  <2>4. ASSUME NEW f \in Free', f # prev PROVE Succeeds(Free', f, next[f])
    <3>0. f \in Free /\ Succeeds(Free, f, next[f]) /\ next[f] \in Nat /\ f < blk
      BY <1>d, <1>f, <2>1, <2>4
    <3>1. f < prev /\ prev \in Free /\ prev # 0
      BY <1>a, <1>f, <2>4, <3>0
    <3>2. next[f] # 0 /\ next[f] <= prev /\ next[f] \in Free /\ f < next[f]
      BY <1>f, <3>0, <3>1 DEF Succeeds
    <3> QED
      BY <1>a, <1>d, <1>f, <3>0, <3>1, <3>2 DEF Succeeds
  <2>5. prev # 0 => Succeeds(Free', 0, freeHead)
    <3> HAVE prev # 0
    <3>1. freeHead # 0 /\ freeHead <= prev /\ freeHead \in Free /\ 0 < freeHead /\ prev \in Free
      BY <1>a, <1>f, <2>1 DEF Succeeds
    <3> QED
      BY <1>a, <1>d, <1>f, <2>1, <3>1 DEF Succeeds
  <2>6. Succeeds(Free', 0, freeHead')
    BY <1>d, <2>2, <2>5
  <2>7. ASSUME NEW f \in Free' PROVE Succeeds(Free', f, next'[f])
    BY <1>d, <2>2, <2>4
  <2> QED
    BY <2>6, <2>7 DEF FreeListOrdered
<1>4. BlocksAccountedFor'
  <2>1. InTransit = {b \in Blocks \ Free : blk <= b /\ b < heapTop} /\ InTransit' = {} /\ Held' = Held
    BY <1>a, <1>d DEF InTransit, Held
  <2>2. Blocks' \ Free' = Held
    <3>1. Held \subseteq Blocks
      BY <1>0 DEF BlocksAccountedFor
    <3>2. \A b \in Blocks' \ Free' : b \in Held
      BY <1>0, <1>a, <1>c, <1>d, <1>g, <2>1 DEF BlocksAccountedFor
    <3>3. \A b \in Held : b \in Blocks' /\ b \notin Free'
      <4>1. \A b \in Held : b < blk
        BY <1>a, <1>b, <1>g, <3>1
      <4>2. \A b \in Held : b \notin Free
        BY <1>0 DEF BlocksAccountedFor
      <4> QED
        BY <1>c, <1>d, <3>1, <4>1, <4>2
    <3> QED
      BY <3>2, <3>3
  <2>3. \A d \in Clients : ptr[d] # 0 =>
           /\ BlockOf(ptr[d]) \in Blocks' \ Free'
           /\ NeededTotal(req[d]) <= size'[BlockOf(ptr[d])]
    <3> TAKE d \in Clients
    <3> HAVE ptr[d] # 0
    <3>1. BlockOf(ptr[d]) \in Held /\ BlockOf(ptr[d]) \in Blocks /\ NeededTotal(req[d]) <= size[BlockOf(ptr[d])]
      BY <1>0 DEF Held, BlocksAccountedFor
    <3>2. size'[BlockOf(ptr[d])] = size[BlockOf(ptr[d])]
      BY <1>c, <2>2, <3>1
    <3> QED
      BY <2>2, <3>1, <3>2
  <2> QED
    BY <1>0, <1>d, <2>1, <2>2, <2>3 DEF BlocksAccountedFor
<1>5. AllocRunning' /\ Inserting' /\ NoMissedFit' /\ GenerationBounded'
  BY <1>0, <1>d DEF AllocRunning, Inserting, NoMissedFit, GenerationBounded
<1>6. ListCoalesced' /\ TopNotFree'
  <2>1. ASSUME NEW f \in Free'
        PROVE  f + size[f] \notin Free' /\ f + size[f] # blk /\ size'[f] = size[f]
    <3>1. f \in Free /\ f \in Blocks /\ f < blk
      BY <1>d, <1>f, <2>1
    <3>2. f + size[f] \notin Free
      BY <1>0, <1>a, <1>f, <3>1 DEF ListCoalesced
    <3> QED
      BY <1>a, <1>c, <1>d, <3>1, <3>2
  <2> QED
    BY <1>d, <2>1 DEF ListCoalesced, TopNotFree
<1> QED
  BY <1>1, <1>2, <1>3, <1>4, <1>5, <1>6 DEF IInv

\* Every step of the allocator, and every stutter, preserves the inductive
\* invariant.
LEMMA NextKeepsIInv == ASSUME IInv, [Next]_vars PROVE IInv'
<1>1. CASE Step
  BY <1>1, ScanNextKeepsIInv, ScanEndKeepsIInv, ScanSplitKeepsIInv, ScanTakeKeepsIInv,
     BumpKeepsIInv, BumpFailsKeepsIInv, AllocReturnKeepsIInv, ReallocFailsKeepsIInv,
     ReallocMoveKeepsIInv, WalkNextKeepsIInv, CoalesceKeepsIInv, PredNextKeepsIInv,
     PredFoundKeepsIInv, SpliceLinkKeepsIInv, SpliceTrimKeepsIInv
     DEF Step
<1>2. ASSUME vars' = vars PROVE IInv'
  <2>1. /\ heapTop' = heapTop /\ freeHead' = freeHead /\ size' = size /\ next' = next
        /\ generation' = generation /\ pages' = pages /\ mem' = mem
        /\ ptr' = ptr /\ req' = req /\ kept' = kept /\ pc' = pc
        /\ caller' = caller /\ want' = want /\ total' = total /\ prev' = prev /\ cur' = cur
        /\ res' = res /\ old' = old /\ blk' = blk /\ sz' = sz /\ nxt' = nxt
    BY <1>2 DEF vars, heap, growth, owned, locals
  <2>2. Blocks' = Blocks /\ Free' = Free /\ Held' = Held
    BY <2>1 DEF Blocks, Free, Held
  <2>3. InTransit' = InTransit
    BY <2>1, <2>2 DEF InTransit
  <2>4. TypeOK' /\ Tiling' /\ FreeListOrdered' /\ BlocksAccountedFor'
    BY <2>1, <2>2, <2>3 DEF IInv, TypeOK, Tiling, FreeListOrdered, BlocksAccountedFor
  <2>5. AllocRunning' /\ Inserting'
    BY <2>1, <2>2 DEF IInv, AllocRunning, Inserting, AtLink
  <2>6. ListCoalesced' /\ TopNotFree' /\ NoMissedFit' /\ GenerationBounded'
    BY <2>1, <2>2 DEF IInv, ListCoalesced, TopNotFree, NoMissedFit, GenerationBounded
  <2> QED
    BY <2>4, <2>5, <2>6 DEF IInv
<1>3. CASE Call
  <2>1. PICK c \in Clients :
          \/ FreeCall(c)
          \/ \E n \in Requests :
               \/ AllocCall(c, n)
               \/ ReallocKeep(c, n) \/ ReallocShrink(c, n)
               \/ ReallocExtend(c, n) \/ ReallocExtendFails(c, n)
               \/ ReallocElsewhere(c, n)
    BY <1>3 DEF Call
  <2>2. CASE FreeCall(c)
    BY <2>2, FreeCallKeepsIInv
  <2>3. ASSUME NEW n \in Requests,
               \/ AllocCall(c, n)
               \/ ReallocKeep(c, n) \/ ReallocShrink(c, n)
               \/ ReallocExtend(c, n) \/ ReallocExtendFails(c, n)
               \/ ReallocElsewhere(c, n)
        PROVE  IInv'
    <3>1. CASE ReallocExtendFails(c, n)
      BY <1>2, <3>1 DEF ReallocExtendFails
    <3> QED
      BY <2>3, <3>1, AllocCallKeepsIInv, ReallocKeepKeepsIInv, ReallocShrinkKeepsIInv,
         ReallocExtendKeepsIInv, ReallocElsewhereKeepsIInv
  <2> QED
    BY <2>1, <2>2, <2>3
<1> QED
  BY <1>1, <1>2, <1>3 DEF Next

-----------------------------------------------------------------------------
\* The inductive invariant holds throughout every execution of the allocator.
THEOREM Inductive == Spec => []IInv
<1>1. IInv /\ [Next]_vars => IInv'
  BY NextKeepsIInv
<1> QED
  BY InitIInv, <1>1, PTL DEF Spec

\* Header fields are read only where a header is (`size` at block starts,
\* `next` at listed blocks), whatever sequence of calls arena.rs serves.
THEOREM TypeCorrect == Spec => []TypeOK
<1>1. IInv => TypeOK
  BY DEF IInv
<1> QED
  BY Inductive, <1>1, PTL

\* The blocks of arena.rs tile [heap base, HEAP_TOP) at every point of every
\* call, and the heap never runs past the linear memory.
THEOREM BlocksTile == Spec => []Tiling
<1>1. IInv => Tiling
  BY DEF IInv
<1> QED
  BY Inductive, <1>1, PTL

\* The free list holds every free block, in address order and without a cycle.
THEOREM ListOrdered == Spec => []FreeListOrdered
<1>1. IInv => FreeListOrdered
  BY DEF IInv
<1> QED
  BY Inductive, <1>1, PTL

\* alloc, realloc and free never hand a block to two owners and never lose one.
THEOREM NoBlockLostOrShared == Spec => []BlocksAccountedFor
<1>1. IInv => BlocksAccountedFor
  BY DEF IInv
<1> QED
  BY Inductive, <1>1, PTL

\* When no call runs, insert_free has merged all that could be merged.
THEOREM AlwaysCoalesced == Spec => []Coalesced
<1>1. IInv => Coalesced
  BY DEF IInv, Coalesced, ListCoalesced, TopNotFree
<1> QED
  BY Inductive, <1>1, PTL

\* Once the clients have freed everything, HEAP_TOP is back at the heap base
\* and the free list is empty, for any order of any number of calls.
THEOREM NothingLeaks == Spec => []FullyReclaimed
<1>1. IInv => FullyReclaimed
  <2> SUFFICES ASSUME IInv, pc = "idle", \A c \in Clients : ptr[c] = 0
               PROVE  heapTop \in {0, Base} /\ freeHead = 0
    BY DEF FullyReclaimed
  <2>0. TypeOK /\ Tiling /\ FreeListOrdered /\ BlocksAccountedFor /\ ListCoalesced /\ TopNotFree
    BY DEF IInv
  <2>1. Held = {} /\ InTransit = {}
    BY DEF Held, InTransit
  <2>2. Blocks \subseteq Free
    BY <2>0, <2>1 DEF BlocksAccountedFor
  <2>3. Base \notin Blocks
    <3> SUFFICES ASSUME Base \in Blocks PROVE FALSE
      OBVIOUS
    <3>1. Base + size[Base] # heapTop /\ Base + size[Base] \notin Free
      BY <2>0, <2>2 DEF ListCoalesced, TopNotFree
    <3> QED
      BY <2>0, <2>2, <3>1, Layout
  <2>4. Blocks = {} /\ heapTop \in {0, Base}
    BY <2>0, <2>3 DEF Tiling
  <2>5. Free = {}
    BY <2>0, <2>4 DEF TypeOK
  <2> QED
    BY <2>0, <2>4, <2>5 DEF FreeListOrdered, Succeeds
<1> QED
  BY Inductive, <1>1, PTL

\* alloc moves HEAP_TOP, and so may call memory.grow, only when no free block
\* is large enough.
THEOREM FirstFitExhaustive == Spec => []NoMissedFit
<1>1. IInv => NoMissedFit
  BY DEF IInv
<1> QED
  BY Inductive, <1>1, PTL

\* GENERATION counts at most one per page added, so it cannot wrap around.
THEOREM GenerationNeverWraps == Spec => []GenerationBounded
<1>1. IInv => GenerationBounded
  BY DEF IInv
<1> QED
  BY Inductive, <1>1, PTL

\* mem_generation changes exactly when memory.grow succeeds.
THEOREM GrowthIsAnnounced == Spec => GrowthAnnounced
<1>1. ASSUME IInv, [Next]_vars PROVE (pages' # pages) <=> (generation' # generation)
  <2> USE DEF growth
  <2>1. CASE UNCHANGED vars
    BY <2>1 DEF vars
  <2>2. CASE Bump
    <3>1. heapTop + total \in Nat /\ EnsureCapacity(heapTop + total)
      BY <1>1, <2>2 DEF Bump, IInv, TypeOK
    <3> QED
      BY <1>1, <3>1, CapacityEnsured
  <2>3. ASSUME NEW c \in Clients, NEW n \in Requests, ReallocExtend(c, n)
        PROVE  (pages' # pages) <=> (generation' # generation)
    <3> DEFINE end == BlockOf(ptr[c]) + NeededTotal(n)
    <3>1. end \in Nat /\ EnsureCapacity(end)
      <4>1. BlockOf(ptr[c]) \in Nat
        BY <1>1, <2>3 DEF ReallocExtend, IInv, BlocksAccountedFor, TypeOK
      <4> QED
        BY <2>3, <4>1, RequestTypes DEF ReallocExtend, BlockOf
    <3> QED
      BY <1>1, <3>1, CapacityEnsured
  <2>4. CASE Step /\ ~Bump
    BY <2>4 DEF Step, ScanNext, ScanEnd, ScanSplit, ScanTake, BumpFails, AllocReturn, ReallocFails,
       ReallocMove, WalkNext, Coalesce, PredNext, PredFound, SpliceLink, SpliceTrim
  <2>5. ASSUME NEW c \in Clients, NEW n \in Requests,
               \/ AllocCall(c, n) \/ ReallocKeep(c, n) \/ ReallocShrink(c, n)
               \/ ReallocExtendFails(c, n) \/ ReallocElsewhere(c, n)
        PROVE  (pages' # pages) <=> (generation' # generation)
    BY <2>5 DEF AllocCall, ReallocKeep, ReallocShrink, ReallocExtendFails, ReallocElsewhere, vars
  <2>6. ASSUME NEW c \in Clients, FreeCall(c)
        PROVE  (pages' # pages) <=> (generation' # generation)
    BY <2>6 DEF FreeCall
  <2> QED
    BY <1>1, <2>1, <2>2, <2>3, <2>4, <2>5, <2>6 DEF Next, Call
<1>2. IInv /\ [Next]_vars => [(pages' # pages) <=> (generation' # generation)]_vars
  BY <1>1
<1> QED
  BY Inductive, <1>2, PTL DEF Spec, GrowthAnnounced

-----------------------------------------------------------------------------
(* Contents.  The bytes a client wrote lie in its block, behind the header; *)
(* what a call writes lies in headers, in free blocks, in blocks of the    *)
(* call, or in the caller's own block.                                     *)

\* No more units are kept than were asked for, and none without a block.
KeptFits == \A c \in Clients : kept[c] <= req[c] /\ (ptr[c] = 0 => kept[c] = 0)

\* A client's data are inside its block and inside no other.
LEMMA DataInBlock ==
  ASSUME IInv, KeptFits, NEW c \in Clients, NEW u \in Payload(ptr[c], kept[c])
  PROVE  /\ ptr[c] # 0 /\ u \in 0 .. (AddrSpace - 1) /\ u < heapTop /\ u \notin Blocks
         /\ BlockOf(ptr[c]) \in Blocks \ Free /\ BlockOf(ptr[c]) < u
         /\ u < BlockOf(ptr[c]) + size[BlockOf(ptr[c])]
         /\ \A b \in Blocks : b # BlockOf(ptr[c]) => u < b \/ b + size[b] <= u
<1>0. TypeOK /\ Tiling /\ BlocksAccountedFor
  BY DEF IInv
<1>1. /\ ptr[c] \in Nat /\ req[c] \in Nat /\ kept[c] \in Nat /\ kept[c] <= req[c]
      /\ u \in Int /\ ptr[c] <= u /\ u < ptr[c] + kept[c]
  BY <1>0 DEF TypeOK, KeptFits, Payload
<1>2. ptr[c] # 0
  BY <1>1 DEF KeptFits
<1> DEFINE b == BlockOf(ptr[c])
<1>3. b \in Blocks \ Free /\ NeededTotal(req[c]) <= size[b]
  BY <1>0, <1>2 DEF BlocksAccountedFor
<1>4. ptr[c] = b + 1 /\ req[c] + 1 <= NeededTotal(req[c]) /\ NeededTotal(req[c]) \in Nat
  BY <1>1 DEF BlockOf, Header, NeededTotal, MinPayload
<1>5. b \in Nat /\ size[b] \in Nat /\ b + size[b] <= heapTop /\ heapTop \in Nat
  BY <1>0, <1>3, Layout
<1>6. b < u /\ u < b + size[b] /\ u < heapTop
  BY <1>1, <1>3, <1>4, <1>5
<1>7. ASSUME NEW a \in Blocks, a # b PROVE u < a \/ a + size[a] <= u
  <2>1. a \in Nat /\ size[a] \in Nat /\ (a < b => a + size[a] <= b) /\ (b < a => b + size[b] <= a)
    BY <1>0, <1>3, Layout
  <2> QED
    BY <1>1, <1>5, <1>6, <1>7, <2>1
<1>8. u \notin Blocks
  <2>1. \A a \in Blocks : a \in Nat /\ size[a] \in Nat /\ 2 <= size[a]
    BY <1>0, Layout
  <2> QED
    BY <1>1, <1>5, <1>6, <1>7, <2>1
<1>9. u \in 0 .. (AddrSpace - 1)
  BY <1>0, <1>1, <1>5, <1>6, HeapInMemory, ConstantTypes
<1> QED
  BY <1>2, <1>3, <1>6, <1>7, <1>8, <1>9

\* A step that forgets units outside every client's data, and changes no owner.
LEMMA LostElsewhere ==
  ASSUME IInv, ContentsPreserved, KeptFits, NEW S, mem' = Lost(S), UNCHANGED owned,
         \A c \in Clients : Payload(ptr[c], kept[c]) \cap S = {}
  PROVE  ContentsPreserved' /\ KeptFits'
<1> USE DEF owned
<1>1. KeptFits'
  BY DEF KeptFits
<1>2. DOMAIN mem = 0 .. (AddrSpace - 1)
  BY DEF IInv, TypeOK
<1>3. ASSUME NEW c \in Clients, NEW u \in Payload(ptr[c], kept[c]) PROVE mem'[u] = c
  <2>1. u \in 0 .. (AddrSpace - 1) /\ u \notin S /\ mem[u] = c
    BY <1>3, DataInBlock DEF ContentsPreserved
  <2> QED
    BY <1>2, <2>1 DEF Lost
<1> QED
  BY <1>1, <1>3 DEF ContentsPreserved, Payload

\* The links a walk has left are in headers.
LEMMA PrevIsListed ==
  ASSUME IInv, pc \in {"scan", "splice"}
  PROVE  prev = 0 \/ prev \in Blocks
<1>1. pc = "scan" => AtLink(prev, cur)
  BY DEF IInv, AllocRunning
<1>2. pc = "splice" => prev = 0 \/ prev \in Free
  BY DEF IInv, Inserting
<1>3. Free \subseteq Blocks
  BY DEF IInv, TypeOK
<1> QED
  BY <1>1, <1>2, <1>3 DEF AtLink

\* alloc's own writes: headers of listed blocks, of a free block's tail, and
\* of the block at the top.
LEMMA AllocKeepsContents ==
  ASSUME IInv, ContentsPreserved, KeptFits, ScanSplit \/ ScanTake \/ Bump
  PROVE  ContentsPreserved' /\ KeptFits'
<1>1. CASE ScanSplit
  <2> DEFINE S == {cur + total, cur} \cup ({prev} \ {0})
  <2>1. mem' = Lost(S) /\ UNCHANGED owned /\ pc = "scan" /\ cur # 0 /\ cur + total < cur + size[cur]
    <3>1. cur \in Free /\ total \in Nat
      <4>1. AtLink(prev, cur) /\ cur # 0
        BY <1>1 DEF ScanSplit, IInv, AllocRunning
      <4> QED
        BY <4>1, LinkSucceeds DEF IInv, Succeeds, TypeOK
    <3>2. cur \in Nat /\ size[cur] \in Nat
      BY <3>1, Layout DEF IInv
    <3> QED
      BY <1>1, <3>1, <3>2 DEF ScanSplit, MinBlock, Header, MinPayload
  <2>2. cur \in Free /\ cur \in Blocks /\ total \in Nat
    <3>1. AtLink(prev, cur)
      BY <2>1 DEF IInv, AllocRunning
    <3> QED
      BY <2>1, <3>1, LinkSucceeds DEF IInv, Succeeds, TypeOK
  <2>3. prev = 0 \/ prev \in Blocks
    BY <2>1, PrevIsListed
  <2>4. cur \in Nat /\ size[cur] \in Nat
    BY <2>2, Layout DEF IInv
  <2>5. ASSUME NEW c \in Clients, NEW u \in Payload(ptr[c], kept[c]) PROVE u \notin S
    <3>1. u \notin Blocks /\ u \in Nat /\ (u < cur \/ cur + size[cur] <= u)
      BY <2>2, <2>5, DataInBlock
    <3>2. u # cur + total
      BY <2>1, <2>2, <2>4, <3>1
    <3> QED
      BY <2>2, <2>3, <3>1, <3>2
  <2> QED
    BY <2>1, <2>5, LostElsewhere
<1>2. CASE ScanTake
  <2>1. mem' = Lost({prev} \ {0}) /\ UNCHANGED owned /\ pc = "scan"
    BY <1>2 DEF ScanTake
  <2>2. \A c \in Clients : Payload(ptr[c], kept[c]) \cap ({prev} \ {0}) = {}
    BY <2>1, PrevIsListed, DataInBlock
  <2> QED
    BY <2>1, <2>2, LostElsewhere
<1>3. CASE Bump
  <2>1. mem' = Lost({heapTop}) /\ UNCHANGED owned
    BY <1>3 DEF Bump
  <2>2. heapTop \in Nat
    BY DEF IInv, TypeOK
  <2>3. ASSUME NEW c \in Clients, NEW u \in Payload(ptr[c], kept[c]) PROVE u # heapTop
    <3>1. u \in Nat /\ u < heapTop
      BY <2>3, DataInBlock
    <3> QED
      BY <2>2, <3>1
  <2> QED
    BY <2>1, <2>3, LostElsewhere
<1> QED
  BY <1>1, <1>2, <1>3

\* insert_free writes the header of the merged block and that of its predecessor.
LEMMA SpliceKeepsContents ==
  ASSUME IInv, ContentsPreserved, KeptFits, SpliceLink \/ SpliceTrim
  PROVE  ContentsPreserved' /\ KeptFits'
<1>1. mem' = Lost({blk} \cup ({prev} \ {0})) /\ UNCHANGED owned /\ pc = "splice"
  BY DEF SpliceLink, SpliceTrim
<1>2. blk \in Blocks
  BY <1>1, SpliceFacts
<1>3. \A c \in Clients : Payload(ptr[c], kept[c]) \cap ({blk} \cup ({prev} \ {0})) = {}
  BY <1>1, <1>2, PrevIsListed, DataInBlock
<1> QED
  BY <1>1, <1>3, LostElsewhere

\* A step on behalf of c: it writes in c's block and in that of the call, and
\* changes what c owns alone.
LEMMA OthersKeepContents ==
  ASSUME IInv, ContentsPreserved, KeptFits, NEW c \in Clients, NEW b,
         b = 0 \/ b \in Blocks \ Held,
         DOMAIN mem' = DOMAIN mem,
         \A d \in Clients \ {c} : ptr'[d] = ptr[d] /\ req'[d] = req[d] /\ kept'[d] = kept[d],
         \A u \in DOMAIN mem :
           \/ mem'[u] = mem[u]
           \/ b # 0 /\ b <= u /\ u < b + size[b]
           \/ /\ ptr[c] # 0
              /\ BlockOf(ptr[c]) <= u /\ u < BlockOf(ptr[c]) + size[BlockOf(ptr[c])],
         kept'[c] <= req'[c], ptr'[c] = 0 => kept'[c] = 0,
         \A u \in Payload(ptr'[c], kept'[c]) : mem'[u] = c
  PROVE  ContentsPreserved' /\ KeptFits'
<1>0. TypeOK /\ BlocksAccountedFor /\ Tiling
  BY DEF IInv
<1>1. KeptFits'
  BY DEF KeptFits
<1>2. ASSUME NEW d \in Clients, d # c, NEW u \in Payload(ptr[d], kept[d]) PROVE mem'[u] = d
  <2>1. /\ ptr[d] # 0 /\ u \in DOMAIN mem /\ mem[u] = d /\ u \in Nat
        /\ \A a \in Blocks : a # BlockOf(ptr[d]) => u < a \/ a + size[a] <= u
    BY <1>0, <1>2, DataInBlock DEF ContentsPreserved, TypeOK
  <2>2. BlockOf(ptr[d]) \in Held
    BY <2>1 DEF Held
  <2>3. CASE b # 0 /\ b <= u /\ u < b + size[b]
    <3>1. b \in Blocks /\ b # BlockOf(ptr[d]) /\ b \in Nat /\ size[b] \in Nat
      BY <1>0, <2>2, <2>3, Layout
    <3> QED
      BY <2>1, <2>3, <3>1
  <2>4. CASE /\ ptr[c] # 0
             /\ BlockOf(ptr[c]) <= u /\ u < BlockOf(ptr[c]) + size[BlockOf(ptr[c])]
    <3>1. BlockOf(ptr[c]) \in Blocks /\ BlockOf(ptr[c]) # BlockOf(ptr[d])
      BY <1>0, <1>2, <2>1, <2>4, OwnBlock
    <3>2. BlockOf(ptr[c]) \in Nat /\ size[BlockOf(ptr[c])] \in Nat
      BY <1>0, <3>1, Layout
    <3> QED
      BY <2>1, <2>4, <3>1, <3>2
  <2> QED
    BY <2>1, <2>3, <2>4
<1>3. ASSUME NEW d \in Clients, NEW u \in Payload(ptr'[d], kept'[d]) PROVE mem'[u] = d
  BY <1>2, <1>3
<1> QED
  BY <1>1, <1>3 DEF ContentsPreserved, Payload

\* alloc returns: the client fills its payload, which lies in the new block.
LEMMA AllocReturnKeepsContents ==
  ASSUME IInv, ContentsPreserved, KeptFits, AllocReturn
  PROVE  ContentsPreserved' /\ KeptFits'
<1>0. TypeOK /\ BlocksAccountedFor /\ Tiling
  BY DEF IInv
<1>1. CASE res = 0
  <2>1. UNCHANGED <<mem, owned>>
    BY <1>1 DEF AllocReturn
  <2> QED
    BY <2>1 DEF ContentsPreserved, KeptFits, Payload, owned
<1>2. CASE res # 0
  <2>1. /\ caller \in Clients /\ ptr[caller] = 0 /\ want \in Nat /\ res \in Nat
        /\ total = NeededTotal(want) /\ res \in Blocks \ Free /\ total <= size[res]
    BY <1>2 DEF AllocReturn, IInv, AllocRunning, TypeOK
  <2>2. /\ ptr' = [ptr EXCEPT ![caller] = res + 1] /\ req' = [req EXCEPT ![caller] = want]
        /\ kept' = [kept EXCEPT ![caller] = want]
        /\ mem' = [u \in DOMAIN mem |-> IF u \in Payload(res + 1, want) THEN caller ELSE mem[u]]
    BY <1>2 DEF AllocReturn, Header
  <2>3. ptr \in [Clients -> Nat] /\ req \in [Clients -> Nat] /\ kept \in [Clients -> Nat]
        /\ DOMAIN mem = 0 .. (AddrSpace - 1)
    BY <1>0 DEF TypeOK
  <2>4. /\ ptr'[caller] = res + 1 /\ req'[caller] = want /\ kept'[caller] = want
        /\ \A d \in Clients \ {caller} : ptr'[d] = ptr[d] /\ req'[d] = req[d] /\ kept'[d] = kept[d]
    BY <2>1, <2>2, <2>3
  <2>5. res \in Blocks \ Held
    <3>1. res \in InTransit
      BY <1>2 DEF AllocReturn, InTransit
    <3> QED
      BY <1>0, <2>1, <3>1 DEF BlocksAccountedFor
  <2>6. /\ size[res] \in Nat /\ res + size[res] <= heapTop /\ heapTop <= AddrSpace
        /\ heapTop \in Nat /\ AddrSpace \in Nat
        /\ want + 1 <= size[res]
    <3>1. want + 1 <= NeededTotal(want) /\ NeededTotal(want) \in Nat
      BY <2>1 DEF NeededTotal, Header, MinPayload
    <3> QED
      BY <1>0, <2>1, <3>1, Layout, HeapInMemory, ConstantTypes
  <2>7. ASSUME NEW u \in Payload(res + 1, want)
        PROVE  u \in DOMAIN mem /\ res <= u /\ u < res + size[res]
    BY <2>1, <2>3, <2>6 DEF Payload
  <2>8. DOMAIN mem' = DOMAIN mem
    BY <2>2
  <2>9. \A u \in DOMAIN mem : mem'[u] = mem[u] \/ (res # 0 /\ res <= u /\ u < res + size[res])
    BY <1>2, <2>2, <2>7
  <2>10. \A u \in Payload(ptr'[caller], kept'[caller]) : mem'[u] = caller
    BY <2>2, <2>4, <2>7
  <2> QED
    BY <2>1, <2>4, <2>5, <2>8, <2>9, <2>10, OthersKeepContents
<1> QED
  BY <1>1, <1>2

\* realloc copies what is kept into the new block and forgets the old one.
LEMMA ReallocMoveKeepsContents ==
  ASSUME IInv, ContentsPreserved, KeptFits, ReallocMove
  PROVE  ContentsPreserved' /\ KeptFits'
<1>0. TypeOK /\ BlocksAccountedFor /\ Tiling
  BY DEF IInv
<1> DEFINE b    == BlockOf(old)
           copy == CopiedUnits(size[b], want)
<1>1. /\ caller \in Clients /\ ptr[caller] = old /\ old # 0 /\ want \in Nat /\ res \in Nat /\ res # 0
      /\ total = NeededTotal(want) /\ res \in Blocks \ Free /\ total <= size[res]
  BY DEF ReallocMove, IInv, AllocRunning, TypeOK
<1>2. /\ ptr' = [ptr EXCEPT ![caller] = res + 1] /\ req' = [req EXCEPT ![caller] = want]
      /\ kept' = [kept EXCEPT ![caller] = MinOf(kept[caller], want)]
      /\ mem' = [u \in DOMAIN mem |->
                  CASE u \in Payload(res + 1, copy) -> mem[old + (u - (res + 1))]
                    [] u \in Payload(old, size[b] - 1) -> Junk
                    [] OTHER -> mem[u]]
  BY DEF ReallocMove, Header, BlockOf
<1>3. /\ ptr \in [Clients -> Nat] /\ req \in [Clients -> Nat] /\ kept \in [Clients -> Nat]
      /\ DOMAIN mem = 0 .. (AddrSpace - 1)
  BY <1>0 DEF TypeOK
<1>4. /\ ptr'[caller] = res + 1 /\ req'[caller] = want /\ kept'[caller] = MinOf(kept[caller], want)
      /\ \A d \in Clients \ {caller} : ptr'[d] = ptr[d] /\ req'[d] = req[d] /\ kept'[d] = kept[d]
  BY <1>1, <1>2, <1>3
<1>5. res \in Blocks \ Held
  <2>1. res \in InTransit
    BY <1>1 DEF ReallocMove, InTransit
  <2> QED
    BY <1>0, <1>1, <2>1 DEF BlocksAccountedFor
<1>6. /\ size[res] \in Nat /\ res + size[res] <= heapTop /\ heapTop <= AddrSpace
      /\ heapTop \in Nat /\ AddrSpace \in Nat
      /\ want + 1 <= size[res]
  <2>1. want + 1 <= NeededTotal(want) /\ NeededTotal(want) \in Nat
    BY <1>1 DEF NeededTotal, Header, MinPayload
  <2> QED
    BY <1>0, <1>1, <2>1, Layout, HeapInMemory, ConstantTypes
<1>7. /\ b \in Blocks /\ b \in Nat /\ size[b] \in Nat /\ 2 <= size[b] /\ old = b + 1 /\ old \in Nat
      /\ kept[caller] \in Nat /\ kept[caller] <= size[b] - 1
  <2>1. /\ b \in Blocks /\ old = b + 1 /\ NeededTotal(req[caller]) <= size[b] /\ req[caller] \in Nat
        /\ kept[caller] \in Nat /\ kept[caller] <= req[caller] /\ old \in Nat
    BY <1>0, <1>1, <1>3, OwnBlock DEF BlocksAccountedFor, KeptFits, Header
  <2>2. req[caller] + 1 <= NeededTotal(req[caller]) /\ NeededTotal(req[caller]) \in Nat
    BY <2>1 DEF NeededTotal, Header, MinPayload
  <2> QED
    BY <1>0, <2>1, <2>2, Layout
<1>8. /\ copy \in Nat /\ copy <= want /\ MinOf(kept[caller], want) \in Nat
      /\ MinOf(kept[caller], want) <= copy /\ MinOf(kept[caller], want) <= want
      /\ MinOf(kept[caller], want) <= kept[caller]
  BY <1>1, <1>7 DEF CopiedUnits, MinOf, Header
<1>9. DOMAIN mem' = DOMAIN mem
  BY <1>2
<1>10. ASSUME NEW u \in DOMAIN mem
       PROVE  \/ mem'[u] = mem[u]
              \/ res # 0 /\ res <= u /\ u < res + size[res]
              \/ ptr[caller] # 0 /\ BlockOf(ptr[caller]) <= u /\ u < BlockOf(ptr[caller]) + size[BlockOf(ptr[caller])]
  <2>1. u \in Payload(res + 1, copy) => res <= u /\ u < res + size[res]
    BY <1>1, <1>6, <1>8 DEF Payload
  <2>2. u \in Payload(old, size[b] - 1) => b <= u /\ u < b + size[b]
    BY <1>7 DEF Payload
  <2> QED
    BY <1>1, <1>2, <2>1, <2>2
<1>11. ASSUME NEW u \in Payload(ptr'[caller], kept'[caller]) PROVE mem'[u] = caller
  <2>1. u \in Payload(res + 1, copy) /\ u \in DOMAIN mem
    BY <1>1, <1>3, <1>4, <1>6, <1>8, <1>11 DEF Payload
  <2>2. mem'[u] = mem[old + (u - (res + 1))]
    <3>1. res # b /\ (res < b => res + size[res] <= b) /\ (b < res => b + size[b] <= res)
      BY <1>0, <1>1, <1>5, <1>7, OwnBlock, Layout
    <3>2. u \notin Payload(old, size[b] - 1)
      BY <1>1, <1>6, <1>7, <1>8, <2>1, <3>1 DEF Payload
    <3> QED
      BY <1>2, <2>1, <3>2
  <2>3. old + (u - (res + 1)) \in Payload(ptr[caller], kept[caller])
    BY <1>1, <1>4, <1>7, <1>8, <1>11 DEF Payload
  <2> QED
    BY <1>1, <2>2, <2>3 DEF ContentsPreserved
<1>12. kept'[caller] <= req'[caller] /\ (ptr'[caller] = 0 => kept'[caller] = 0)
  BY <1>1, <1>4, <1>8
<1> QED
  BY <1>1, <1>4, <1>5, <1>9, <1>10, <1>11, <1>12, OthersKeepContents

\* realloc in place: the header, and the tail that a smaller request gives up.
LEMMA ReallocInPlaceKeepsContents ==
  ASSUME IInv, ContentsPreserved, KeptFits, NEW c \in Clients, NEW n \in Requests,
         ReallocKeep(c, n) \/ ReallocShrink(c, n) \/ ReallocExtend(c, n)
  PROVE  ContentsPreserved' /\ KeptFits'
<1>0. TypeOK /\ BlocksAccountedFor /\ Tiling
  BY DEF IInv
<1> DEFINE b == BlockOf(ptr[c])
<1>1. /\ ptr[c] # 0 /\ n \in Nat /\ NeededTotal(n) \in Nat /\ n + 1 <= NeededTotal(n) /\ 2 <= NeededTotal(n)
      /\ DOMAIN mem = 0 .. (AddrSpace - 1)
      /\ ptr \in [Clients -> Nat] /\ req \in [Clients -> Nat] /\ kept \in [Clients -> Nat]
  <2>1. ptr[c] # 0
    BY DEF ReallocKeep, ReallocShrink, ReallocExtend
  <2>2. n \in Nat /\ NeededTotal(n) \in Nat /\ n + 1 <= NeededTotal(n) /\ 2 <= NeededTotal(n)
    BY RequestTypes DEF MinBlock, Header, MinPayload
  <2> QED
    BY <1>0, <2>1, <2>2 DEF TypeOK
<1>2. /\ b \in Blocks /\ b \in Nat /\ size[b] \in Nat /\ ptr[c] = b + 1
      /\ NeededTotal(req[c]) <= size[b] /\ kept[c] <= req[c] /\ req[c] \in Nat /\ kept[c] \in Nat
  BY <1>0, <1>1, OwnBlock, Layout DEF BlocksAccountedFor, KeptFits, Header
<1>3. /\ ptr' = ptr /\ req' = [req EXCEPT ![c] = n]
      /\ kept' = kept \/ kept' = [kept EXCEPT ![c] = MinOf(kept[c], n)]
  BY DEF ReallocKeep, ReallocShrink, ReallocExtend
<1>4. /\ req'[c] = n
      /\ \A d \in Clients \ {c} : ptr'[d] = ptr[d] /\ req'[d] = req[d] /\ kept'[d] = kept[d]
  BY <1>1, <1>3
<1>5. kept'[c] \in Nat /\ kept'[c] <= n /\ kept'[c] <= kept[c]
  <2>1. CASE kept' = [kept EXCEPT ![c] = MinOf(kept[c], n)]
    BY <1>1, <1>2, <2>1 DEF MinOf
  <2>2. CASE kept' = kept /\ kept' # [kept EXCEPT ![c] = MinOf(kept[c], n)]
    <3>1. NeededTotal(n) > size[b]
      BY <1>1, <2>2 DEF ReallocKeep, ReallocShrink, ReallocExtend, BlockOf
    <3>2. req[c] < n
      BY <1>1, <1>2, <3>1 DEF NeededTotal, Header, MinPayload
    <3> QED
      BY <1>1, <1>2, <2>2, <3>2
  <2> QED
    BY <1>3, <2>1, <2>2
<1>6. PICK S : mem' = Lost(S) /\ \A u \in S : u = b \/ (b + NeededTotal(n) <= u /\ u < b + size[b])
  <2>1. CASE ReallocKeep(c, n)
    <3>1. mem' = mem
      BY <2>1 DEF ReallocKeep
    <3>2. mem' = Lost({})
      BY <1>0, <3>1 DEF Lost, TypeOK
    <3> QED
      BY <3>2
  <2>2. CASE ReallocShrink(c, n)
    <3>1. mem' = Lost({b} \cup (b + NeededTotal(n)) .. (b + NeededTotal(n) + (size[b] - NeededTotal(n)) - 1))
      BY <2>2 DEF ReallocShrink, BlockOf
    <3>2. \A u \in (b + NeededTotal(n)) .. (b + NeededTotal(n) + (size[b] - NeededTotal(n)) - 1) :
            b + NeededTotal(n) <= u /\ u < b + size[b]
      BY <1>1, <1>2
    <3> QED
      BY <3>1, <3>2
  <2>3. CASE ReallocExtend(c, n)
    <3>1. mem' = Lost({b})
      BY <2>3 DEF ReallocExtend, BlockOf
    <3> QED
      BY <3>1
  <2> QED
    BY <2>1, <2>2, <2>3
<1>7. DOMAIN mem' = DOMAIN mem
  BY <1>6 DEF Lost
<1>8. 2 <= size[b]
  BY <1>0, <1>2, Layout
<1>9. ASSUME NEW u \in DOMAIN mem
      PROVE  mem'[u] = mem[u] \/ (ptr[c] # 0 /\ b <= u /\ u < b + size[b])
  <2>1. u \in S => b <= u /\ u < b + size[b]
    BY <1>1, <1>2, <1>6, <1>8
  <2> QED
    BY <1>1, <1>6, <2>1 DEF Lost
<1>10. ASSUME NEW u \in Payload(ptr'[c], kept'[c]) PROVE mem'[u] = c
  <2>1. u \in Payload(ptr[c], kept[c]) /\ u \in Int /\ b + 1 <= u /\ u < b + 1 + n
    BY <1>1, <1>2, <1>3, <1>5, <1>10 DEF Payload
  <2>2. u \notin S
    BY <1>1, <1>2, <1>6, <2>1
  <2>3. u \in DOMAIN mem /\ mem[u] = c
    BY <1>1, <2>1, DataInBlock DEF ContentsPreserved
  <2> QED
    BY <1>6, <2>2, <2>3 DEF Lost
<1>11. kept'[c] <= req'[c] /\ (ptr'[c] = 0 => kept'[c] = 0)
  BY <1>1, <1>3, <1>4, <1>5
<1> QED
  BY <1>4, <1>7, <1>9, <1>10, <1>11, OthersKeepContents

\* free forgets the caller's payload only.
LEMMA FreeKeepsContents ==
  ASSUME IInv, ContentsPreserved, KeptFits, NEW c \in Clients, FreeCall(c)
  PROVE  ContentsPreserved' /\ KeptFits'
<1>0. TypeOK /\ BlocksAccountedFor /\ Tiling
  BY DEF IInv
<1> DEFINE b == BlockOf(ptr[c])
<1>1. /\ ptr[c] # 0 /\ mem' = Lost(Payload(ptr[c], size[b] - 1))
      /\ ptr' = [ptr EXCEPT ![c] = 0] /\ req' = [req EXCEPT ![c] = 0] /\ kept' = [kept EXCEPT ![c] = 0]
      /\ ptr \in [Clients -> Nat] /\ req \in [Clients -> Nat] /\ kept \in [Clients -> Nat]
  BY <1>0 DEF FreeCall, BlockOf, Header, TypeOK
<1>2. b \in Nat /\ size[b] \in Nat /\ ptr[c] = b + 1
  BY <1>0, <1>1, OwnBlock, Layout DEF Header
<1>3. /\ DOMAIN mem' = DOMAIN mem
      /\ \A u \in DOMAIN mem : mem'[u] = mem[u] \/ (ptr[c] # 0 /\ b <= u /\ u < b + size[b])
  BY <1>1, <1>2 DEF Lost, Payload
<1>4. /\ ptr'[c] = 0 /\ req'[c] = 0 /\ kept'[c] = 0
      /\ \A d \in Clients \ {c} : ptr'[d] = ptr[d] /\ req'[d] = req[d] /\ kept'[d] = kept[d]
  BY <1>1
<1>5. Payload(ptr'[c], kept'[c]) = {}
  BY <1>4 DEF Payload
<1> QED
  BY <1>3, <1>4, <1>5, OthersKeepContents

LEMMA NextKeepsContents ==
  ASSUME IInv, ContentsPreserved, KeptFits, [Next]_vars
  PROVE  ContentsPreserved' /\ KeptFits'
<1>1. ASSUME UNCHANGED <<mem, owned>> PROVE ContentsPreserved' /\ KeptFits'
  BY <1>1 DEF ContentsPreserved, KeptFits, Payload, owned
<1>2. CASE UNCHANGED vars
  BY <1>1, <1>2 DEF vars
<1>3. CASE Step
  <2>1. CASE ScanNext \/ ScanEnd \/ BumpFails \/ ReallocFails \/ WalkNext \/ Coalesce \/ PredNext \/ PredFound
    BY <1>1, <2>1 DEF ScanNext, ScanEnd, BumpFails, ReallocFails, WalkNext, Coalesce, PredNext, PredFound
  <2> QED
    BY <1>3, <2>1, AllocKeepsContents, AllocReturnKeepsContents, ReallocMoveKeepsContents, SpliceKeepsContents
       DEF Step
<1>4. ASSUME NEW c \in Clients, FreeCall(c) PROVE ContentsPreserved' /\ KeptFits'
  BY <1>4, FreeKeepsContents
<1>5. ASSUME NEW c \in Clients, NEW n \in Requests, AllocCall(c, n) \/ ReallocElsewhere(c, n) \/ ReallocExtendFails(c, n)
      PROVE  ContentsPreserved' /\ KeptFits'
  BY <1>1, <1>5 DEF AllocCall, ReallocElsewhere, ReallocExtendFails, vars
<1>6. ASSUME NEW c \in Clients, NEW n \in Requests, ReallocKeep(c, n) \/ ReallocShrink(c, n) \/ ReallocExtend(c, n)
      PROVE  ContentsPreserved' /\ KeptFits'
  BY <1>6, ReallocInPlaceKeepsContents
<1> QED
  BY <1>2, <1>3, <1>4, <1>5, <1>6 DEF Next, Call

LEMMA ContentsInductive == Spec => [](IInv /\ ContentsPreserved /\ KeptFits)
<1>1. Init => ContentsPreserved /\ KeptFits
  BY DEF Init, ContentsPreserved, KeptFits, Payload
<1>2. IInv /\ ContentsPreserved /\ KeptFits /\ [Next]_vars => IInv' /\ ContentsPreserved' /\ KeptFits'
  BY NextKeepsIInv, NextKeepsContents
<1> QED
  BY InitIInv, <1>1, <1>2, PTL DEF Spec

\* What a client wrote stays as it was, through every call of any client, until
\* the client gives it up: realloc carries it along, up to the smaller size.
THEOREM ContentsSurvive == Spec => []ContentsPreserved
BY ContentsInductive, PTL

-----------------------------------------------------------------------------
(* The contract.  Between the steps that grant or release a payload nothing  *)
(* a client can see changes; a payload granted lies in a block of its own.   *)

\* A running alloc serves a request.
WantRequested == pc \in {"scan", "bump", "return"} => want \in Requests

LEMMA NextKeepsWant ==
  ASSUME WantRequested, [Next]_vars
  PROVE  WantRequested'
<1>1. CASE UNCHANGED vars
  BY <1>1 DEF vars, locals, WantRequested
<1>2. CASE Step
  <2> USE DEF WantRequested
  <2>1. CASE ScanNext \/ ScanEnd \/ ScanSplit \/ ScanTake \/ Bump \/ BumpFails
    BY <2>1 DEF ScanNext, ScanEnd, ScanSplit, ScanTake, Bump, BumpFails, locals
  <2>2. CASE AllocReturn \/ ReallocFails \/ SpliceLink \/ SpliceTrim
    BY <2>2 DEF AllocReturn, ReallocFails, SpliceLink, SpliceTrim, Return
  <2>3. CASE ReallocMove \/ WalkNext \/ Coalesce \/ PredNext \/ PredFound
    BY <2>3 DEF ReallocMove, WalkNext, Coalesce, PredNext, PredFound, locals
  <2> QED
    BY <1>2, <2>1, <2>2, <2>3 DEF Step
<1>3. CASE Call
  <2> USE DEF WantRequested
  <2>1. ASSUME NEW c \in Clients, FreeCall(c) PROVE WantRequested'
    BY <2>1 DEF FreeCall
  <2>2. ASSUME NEW c \in Clients, NEW n \in Requests, AllocCall(c, n) \/ ReallocElsewhere(c, n)
        PROVE  WantRequested'
    BY <2>2 DEF AllocCall, ReallocElsewhere
  <2>3. ASSUME NEW c \in Clients, NEW n \in Requests,
               ReallocKeep(c, n) \/ ReallocShrink(c, n) \/ ReallocExtend(c, n) \/ ReallocExtendFails(c, n)
        PROVE  WantRequested'
    BY <2>3 DEF ReallocKeep, ReallocShrink, ReallocExtend, ReallocExtendFails, locals, vars
  <2> QED
    BY <1>3, <2>1, <2>2, <2>3 DEF Call
<1> QED
  BY <1>1, <1>2, <1>3 DEF Next

\* Payloads are above the base of the heap, and apart.
PayloadsApart ==
  /\ \A c \in Clients : ptr[c] # 0 => ptr[c] > Base /\ ptr[c] \in 0 .. (AddrSpace - 1)
  /\ \A c, d \in Clients :
       c # d /\ ptr[c] # 0 /\ ptr[d] # 0 =>
         Contract!Extent(ptr[c], req[c]) \cap Contract!Extent(ptr[d], req[d]) = {}

LEMMA PayloadsAreApart == IInv => PayloadsApart
<1> SUFFICES ASSUME IInv PROVE PayloadsApart
  OBVIOUS
<1>0. TypeOK /\ BlocksAccountedFor /\ Tiling
  BY DEF IInv
<1>1. ASSUME NEW c \in Clients, ptr[c] # 0
      PROVE  LET b == BlockOf(ptr[c]) IN
             /\ b \in Blocks /\ b \in Nat /\ size[b] \in Nat /\ Base <= b /\ ptr[c] = b + 1
             /\ b + size[b] <= heapTop /\ 2 <= size[b]
             /\ \A u \in Contract!Extent(ptr[c], req[c]) : u \in Int /\ b < u /\ u < b + size[b]
  <2> DEFINE b == BlockOf(ptr[c])
  <2>1. /\ b \in Blocks /\ b \in Nat /\ size[b] \in Nat /\ Base <= b /\ ptr[c] = b + 1
        /\ b + size[b] <= heapTop /\ 2 <= size[b]
    BY <1>0, <1>1, OwnBlock, Layout DEF Header
  <2>2. NeededTotal(req[c]) <= size[b] /\ req[c] \in Nat
    BY <1>0, <1>1 DEF BlocksAccountedFor, TypeOK
  <2>3. \A u \in Contract!Extent(ptr[c], req[c]) : u \in Int /\ b < u /\ u < b + size[b]
    BY <2>1, <2>2 DEF Contract!Extent, Contract!Room, NeededTotal, Header, MinPayload
  <2> QED
    BY <2>1, <2>3
<1>2. ASSUME NEW c \in Clients, ptr[c] # 0 PROVE ptr[c] > Base /\ ptr[c] \in 0 .. (AddrSpace - 1)
  <2>1. heapTop \in Nat /\ Base \in Nat /\ heapTop <= AddrSpace /\ AddrSpace \in Nat
    BY <1>0, HeapInMemory, ConstantTypes DEF TypeOK
  <2> QED
    BY <1>1, <1>2, <2>1
<1>3. ASSUME NEW c \in Clients, NEW d \in Clients, c # d, ptr[c] # 0, ptr[d] # 0
      PROVE  Contract!Extent(ptr[c], req[c]) \cap Contract!Extent(ptr[d], req[d]) = {}
  <2> DEFINE b == BlockOf(ptr[c])
             a == BlockOf(ptr[d])
  <2>1. a # b
    BY <1>0, <1>3, OwnBlock
  <2>2. /\ a \in Blocks /\ b \in Blocks /\ a \in Nat /\ b \in Nat /\ size[a] \in Nat /\ size[b] \in Nat
        /\ \A u \in Contract!Extent(ptr[c], req[c]) : u \in Int /\ b < u /\ u < b + size[b]
        /\ \A u \in Contract!Extent(ptr[d], req[d]) : u \in Int /\ a < u /\ u < a + size[a]
    BY <1>1, <1>3
  <2>3. (a < b => a + size[a] <= b) /\ (b < a => b + size[b] <= a)
    BY <1>0, <2>2, Layout
  <2> QED
    BY <2>1, <2>2, <2>3
<1> QED
  BY <1>2, <1>3 DEF PayloadsApart

\* A step that gives c a payload and leaves the others theirs is a grant.
LEMMA Grants ==
  ASSUME TypeOK, PayloadsApart', ContentsPreserved, ContentsPreserved',
         NEW c \in Clients, NEW p \in Nat \ {0}, NEW n \in Nat, NEW k \in Nat,
         ptr' = [ptr EXCEPT ![c] = p], req' = [req EXCEPT ![c] = n], kept' = [kept EXCEPT ![c] = k]
  PROVE  p \in 0 .. (AddrSpace - 1) /\ Contract!Grant(c, p, n, k)
<1>1. ptr \in [Clients -> Nat] /\ req \in [Clients -> Nat]
  BY DEF TypeOK
<1>2. /\ ptr'[c] = p /\ req'[c] = n
      /\ \A d \in Clients \ {c} : ptr'[d] = ptr[d] /\ req'[d] = req[d]
  BY <1>1
<1>3. p > Base /\ p \in 0 .. (AddrSpace - 1)
  BY <1>2 DEF PayloadsApart
<1>4. ASSUME NEW d \in Clients \ {c}, ptr[d] # 0
      PROVE  Contract!Extent(p, n) \cap Contract!Extent(ptr[d], req[d]) = {}
  <2>1. Contract!Extent(ptr'[c], req'[c]) \cap Contract!Extent(ptr'[d], req'[d]) = {}
    BY <1>2, <1>4 DEF PayloadsApart, Contract!Extent, Contract!Room
  <2> QED
    BY <1>2, <2>1
<1>5. Contract!Disjoint(c, p, n)
  BY <1>4 DEF Contract!Disjoint
<1>6. [d \in Clients |-> \A u \in Payload(ptr[d], kept[d]) : mem[u] = d]'
        = [d \in Clients |-> \A u \in Payload(ptr[d], kept[d]) : mem[u] = d]
  BY DEF ContentsPreserved
<1> QED
  BY <1>3, <1>5, <1>6 DEF Contract!Grant

\* Each step of arena.rs is an operation of the contract, or invisible.
LEMMA StepsRefine ==
  ASSUME IInv, IInv', PayloadsApart', ContentsPreserved, ContentsPreserved', KeptFits, WantRequested,
         [Next]_vars
  PROVE  [Contract!Next]_Contract!vars
<1>0. /\ TypeOK /\ BlocksAccountedFor /\ Tiling
      /\ ptr \in [Clients -> Nat] /\ req \in [Clients -> Nat] /\ kept \in [Clients -> Nat]
  BY DEF IInv, TypeOK
<1>i. [d \in Clients |-> \A u \in Payload(ptr[d], kept[d]) : mem[u] = d]'
        = [d \in Clients |-> \A u \in Payload(ptr[d], kept[d]) : mem[u] = d]
  BY DEF ContentsPreserved
<1>1. ASSUME UNCHANGED owned PROVE UNCHANGED Contract!vars
  BY <1>1, <1>i DEF owned, Contract!vars
<1>2. CASE UNCHANGED vars
  BY <1>1, <1>2 DEF vars
<1>3. CASE AllocReturn /\ res # 0
  <2>1. /\ caller \in Clients /\ ptr[caller] = 0 /\ want \in Requests /\ want \in Nat /\ res \in Nat
    BY <1>0, <1>3, RequestTypes DEF AllocReturn, IInv, AllocRunning, TypeOK, WantRequested
  <2>2. /\ ptr' = [ptr EXCEPT ![caller] = res + 1] /\ req' = [req EXCEPT ![caller] = want]
        /\ kept' = [kept EXCEPT ![caller] = want]
    BY <1>3 DEF AllocReturn, Header
  <2>3. res + 1 \in Nat \ {0}
    BY <2>1
  <2>4. /\ res + 1 \in 0 .. (AddrSpace - 1) /\ Contract!Grant(caller, res + 1, want, want)
    BY <1>0, <2>1, <2>2, <2>3, Grants
  <2> QED
    BY <2>1, <2>4 DEF Contract!Next, Contract!Alloc
<1>4. ASSUME NEW c \in Clients, NEW n \in Requests, NEW p \in Nat \ {0}, ptr[c] # 0,
             ptr' = [ptr EXCEPT ![c] = p], req' = [req EXCEPT ![c] = n],
             kept' = [kept EXCEPT ![c] = MinOf(kept[c], n)]
      PROVE  Contract!Next
  <2>1. n \in Nat /\ kept[c] \in Nat
    BY <1>0, RequestTypes
  <2>2. MinOf(kept[c], n) = (IF kept[c] < n THEN kept[c] ELSE n) /\ MinOf(kept[c], n) \in Nat
    BY <2>1 DEF MinOf
  <2>3. p \in 0 .. (AddrSpace - 1) /\ Contract!Grant(c, p, n, IF kept[c] < n THEN kept[c] ELSE n)
    BY <1>0, <1>4, <2>1, <2>2, Grants
  <2> QED
    BY <1>4, <2>3 DEF Contract!Next, Contract!Realloc
<1>5. CASE ReallocMove
  <2>1. /\ caller \in Clients /\ ptr[caller] # 0 /\ want \in Requests /\ res \in Nat
    BY <1>0, <1>5 DEF ReallocMove, IInv, AllocRunning, TypeOK, WantRequested
  <2>2. /\ ptr' = [ptr EXCEPT ![caller] = res + 1] /\ req' = [req EXCEPT ![caller] = want]
        /\ kept' = [kept EXCEPT ![caller] = MinOf(kept[caller], want)]
    BY <1>5 DEF ReallocMove, Header
  <2>3. res + 1 \in Nat \ {0}
    BY <2>1
  <2> QED
    BY <1>4, <2>1, <2>2, <2>3
<1>6. ASSUME NEW c \in Clients, NEW n \in Requests, ReallocKeep(c, n) \/ ReallocShrink(c, n)
      PROVE  Contract!Next
  <2>1. /\ ptr[c] # 0 /\ ptr' = ptr /\ req' = [req EXCEPT ![c] = n]
        /\ kept' = [kept EXCEPT ![c] = MinOf(kept[c], n)]
    BY <1>6 DEF ReallocKeep, ReallocShrink
  <2>2. ptr' = [ptr EXCEPT ![c] = ptr[c]] /\ ptr[c] \in Nat \ {0}
    BY <1>0, <2>1
  <2> QED
    BY <1>4, <2>1, <2>2
<1>7. ASSUME NEW c \in Clients, NEW n \in Requests, ReallocExtend(c, n)
      PROVE  Contract!Next
  <2> DEFINE b == BlockOf(ptr[c])
  <2>1. /\ ptr[c] # 0 /\ ptr' = ptr /\ req' = [req EXCEPT ![c] = n] /\ kept' = kept
        /\ NeededTotal(n) > size[b]
    BY <1>7 DEF ReallocExtend, BlockOf
  <2>2. NeededTotal(req[c]) <= size[b] /\ b \in Blocks
    BY <1>0, <2>1 DEF BlocksAccountedFor
  <2>3. size[b] \in Nat /\ n \in Nat /\ req[c] \in Nat /\ kept[c] \in Nat /\ kept[c] <= req[c]
    BY <1>0, <2>2, Layout, RequestTypes DEF KeptFits
  <2>4. req[c] < n
    BY <2>1, <2>2, <2>3 DEF NeededTotal, Header, MinPayload
  <2>5. kept' = [kept EXCEPT ![c] = MinOf(kept[c], n)]
    BY <1>0, <2>1, <2>3, <2>4 DEF MinOf
  <2>6. ptr' = [ptr EXCEPT ![c] = ptr[c]] /\ ptr[c] \in Nat \ {0}
    BY <1>0, <2>1
  <2> QED
    BY <1>4, <2>1, <2>5, <2>6
<1>8. ASSUME NEW c \in Clients, FreeCall(c) PROVE Contract!Next
  BY <1>8, <1>i DEF FreeCall, Contract!Next, Contract!Release
<1>9. ASSUME NEW c \in Clients, NEW n \in Requests,
             AllocCall(c, n) \/ ReallocElsewhere(c, n) \/ ReallocExtendFails(c, n)
      PROVE  UNCHANGED owned
  BY <1>9 DEF AllocCall, ReallocElsewhere, ReallocExtendFails, vars
<1>10. CASE Step /\ ~(AllocReturn /\ res # 0) /\ ~ReallocMove
  <2>1. UNCHANGED owned
    BY <1>10 DEF Step, ScanNext, ScanEnd, ScanSplit, ScanTake, Bump, BumpFails, AllocReturn, ReallocFails,
                 WalkNext, Coalesce, PredNext, PredFound, SpliceLink, SpliceTrim
  <2> QED
    BY <1>1, <2>1
<1>11. CASE Call
  BY <1>1, <1>6, <1>7, <1>8, <1>9, <1>11 DEF Call
<1> QED
  BY <1>2, <1>3, <1>5, <1>10, <1>11 DEF Next

\* arena.rs keeps the promise of its exports, for any heap, clients and
\* requests: a payload overlaps no other, a failed call changes nothing, and
\* realloc keeps the smaller of the two payloads.
THEOREM KeepsItsPromise == Spec => ImplementsContract
<1>1. Init => Contract!Init
  BY DEF Init, Contract!Init, Payload
<1>2. Init => WantRequested
  BY DEF Init, WantRequested
<1>3. WantRequested /\ [Next]_vars => WantRequested'
  BY NextKeepsWant
<1>4. IInv => PayloadsApart
  BY PayloadsAreApart
<1>5. /\ IInv /\ IInv' /\ PayloadsApart' /\ ContentsPreserved /\ ContentsPreserved' /\ KeptFits
      /\ WantRequested /\ [Next]_vars
      => [Contract!Next]_Contract!vars
  BY StepsRefine
<1> QED
  BY ContentsInductive, <1>1, <1>2, <1>3, <1>4, <1>5, PTL DEF Spec, ImplementsContract, Contract!Spec
=============================================================================
