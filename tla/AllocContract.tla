--------------------------- MODULE AllocContract ---------------------------
(***************************************************************************)
(* What alloc, realloc and free promise their callers (the semantics the   *)
(* arena's export table states), without headers, lists or pages: every    *)
(* client owns at most one payload, payloads never overlap, and the bytes  *)
(* a client wrote survive until it gives them up.  Arena implements it.    *)
(***************************************************************************)
EXTENDS Integers

CONSTANTS Clients, Requests, Base, Addresses

VARIABLES
  ptr,    \* ptr[c]: client c's pointer, 0 = none
  req,    \* req[c]: the payload units it asked for
  kept,   \* kept[c]: leading units the allocator must preserve
  intact  \* intact[c]: whether those units hold what c wrote

vars == <<ptr, req, kept, intact>>

\* alloc(0) yields a pointer too, distinct from every other.
Room(n) == IF n = 0 THEN 1 ELSE n
Extent(p, n) == p .. (p + Room(n) - 1)

\* A payload at p disjoint from those of all clients but c.
Disjoint(c, p, n) ==
  \A d \in Clients \ {c} :
    ptr[d] # 0 => Extent(p, n) \cap Extent(ptr[d], req[d]) = {}

Init ==
  /\ ptr = [c \in Clients |-> 0]
  /\ req = [c \in Clients |-> 0]
  /\ kept = [c \in Clients |-> 0]
  /\ intact = [c \in Clients |-> TRUE]

\* c owns a payload of n units at p; `keep` of them hold its data.
Grant(c, p, n, keep) ==
  /\ p > Base /\ Disjoint(c, p, n)
  /\ ptr'  = [ptr  EXCEPT ![c] = p]
  /\ req'  = [req  EXCEPT ![c] = n]
  /\ kept' = [kept EXCEPT ![c] = keep]
  /\ UNCHANGED intact

\* A failed call returns 0 and leaves everything as it was: a stuttering step.
Alloc(c, n) == ptr[c] = 0 /\ \E p \in Addresses : Grant(c, p, n, n)

Realloc(c, n) ==
  /\ ptr[c] # 0
  /\ \E p \in Addresses : Grant(c, p, n, IF kept[c] < n THEN kept[c] ELSE n)

Release(c) ==
  /\ ptr[c] # 0
  /\ ptr'  = [ptr  EXCEPT ![c] = 0]
  /\ req'  = [req  EXCEPT ![c] = 0]
  /\ kept' = [kept EXCEPT ![c] = 0]
  /\ UNCHANGED intact

Next == \E c \in Clients :
  Release(c) \/ \E n \in Requests : Alloc(c, n) \/ Realloc(c, n)

Spec == Init /\ [][Next]_vars
=============================================================================
