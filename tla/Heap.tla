-------------------------------- MODULE Heap --------------------------------
(***************************************************************************)
(* clox/heap.c: an allocator with boundary tags over one arena.            *)
(*                                                                         *)
(* Memory is modelled word by word.  An address is a byte address, as in   *)
(* the C code, and mem maps the address of every word of the arena to the  *)
(* number it holds: a block's header and footer (its size, plus one when   *)
(* it is in use), the prev and next pointers of a free block, or whatever  *)
(* the owner of the block stored.  Nothing says which word is which except *)
(* the code that reads it, so a tag, a pointer and a caller's value may    *)
(* overwrite each other exactly as they could in C.                        *)
(*                                                                         *)
(* The operators named like the C functions are those functions: they take *)
(* h, the pair of mem and freeList, and return the pair after the call.    *)
(***************************************************************************)
EXTENDS Integers

CONSTANTS
  HeapSize,   \* CLOX_HEAP_SIZE
  SizeMax,    \* SIZE_MAX
  Bases,      \* the addresses malloc may return for the arena
  Requests,   \* the sizes callers ask for, zero included
  Values      \* the words callers store

NULL  == 0
WSIZE == 8                \* header and footer, sizeof(size_t) on a 64-bit host
DSIZE == 2 * WSIZE        \* alignment, and header and footer together
MIN_BLOCK == 2 * DSIZE    \* header, prev, next, footer

ASSUME HeapSizeAssumption == HeapSize \in Nat /\ HeapSize >= MIN_BLOCK
ASSUME SizeMaxAssumption  == SizeMax \in Nat /\ SizeMax >= HeapSize + MIN_BLOCK
ASSUME BasesAssumption    == Bases \subseteq Nat \ {NULL}
ASSUME RequestsAssumption == Requests \subseteq 0 .. SizeMax
ASSUME ValuesAssumption   == Values \subseteq Nat

VARIABLES
  arena,       \* what malloc returned, or NULL
  blocks,      \* the first block's payload, or NULL
  arenaBytes,  \* the bytes between the sentinels
  mem,         \* the words of the arena
  freeList,    \* the first free block's payload, or NULL
  owned        \* the callers' side: the pointers they hold, each with the size
               \* they last asked for
vars == <<arena, blocks, arenaBytes, mem, freeList, owned>>

-----------------------------------------------------------------------------
(* The macros *)

PACK(size, alloc) == size + alloc
SizeOf(m, a)  == (m[a] \div 8) * 8     \* GET_SIZE
AllocOf(m, a) == m[a] % 2              \* GET_ALLOC

HDRP(bp)         == bp - WSIZE
FTRP(m, bp)      == bp + SizeOf(m, HDRP(bp)) - DSIZE
NEXT_BLKP(m, bp) == bp + SizeOf(m, HDRP(bp))
PREV_BLKP(m, bp) == bp - SizeOf(m, bp - DSIZE)

\* PUT(HDRP(bp), w); PUT(FTRP(bp), w): the footer's place is found by the size
\* the new header gives.
Tag(h, bp, size, alloc) ==
  [mem      |-> [h.mem EXCEPT ![HDRP(bp)] = PACK(size, alloc),
                              ![bp + size - DSIZE] = PACK(size, alloc)],
   freeList |-> h.freeList]

-----------------------------------------------------------------------------
(* The explicit list of free blocks *)

PrevNode(m, bp) == m[bp]
NextNode(m, bp) == m[bp + WSIZE]

listInsert(h, bp) ==
  LET node == [h.mem EXCEPT ![bp] = NULL, ![bp + WSIZE] = h.freeList]
  IN  [mem      |-> IF h.freeList # NULL THEN [node EXCEPT ![h.freeList] = bp]
                                         ELSE node,
       freeList |-> bp]

listRemove(h, bp) ==
  LET prev   == PrevNode(h.mem, bp)
      next   == NextNode(h.mem, bp)
      m      == IF prev # NULL THEN [h.mem EXCEPT ![prev + WSIZE] = next]
                               ELSE h.mem
  IN  [mem      |-> IF next # NULL THEN [m EXCEPT ![next] = prev] ELSE m,
       freeList |-> IF prev # NULL THEN h.freeList ELSE next]

-----------------------------------------------------------------------------
(* Freeing *)

\* Mutant of coalesce: merges with the next block only.
coalesceNextOnly(h, bp) ==
  LET next == NEXT_BLKP(h.mem, bp)
  IN  IF AllocOf(h.mem, HDRP(next)) = 1
        THEN listInsert(h, bp)
        ELSE listInsert(Tag(listRemove(h, next), bp,
                            SizeOf(h.mem, HDRP(bp)) + SizeOf(h.mem, HDRP(next)), 0), bp)

\* Merge bp, already marked free and not listed, with its free neighbours, and
\* list the result.
coalesce(h, bp) ==
  LET prev      == PREV_BLKP(h.mem, bp)
      next      == NEXT_BLKP(h.mem, bp)
      prevAlloc == AllocOf(h.mem, FTRP(h.mem, prev)) = 1
      nextAlloc == AllocOf(h.mem, HDRP(next)) = 1
      size      == SizeOf(h.mem, HDRP(bp))
      prevSize  == SizeOf(h.mem, HDRP(prev))
      nextSize  == SizeOf(h.mem, HDRP(next))
  IN  CASE prevAlloc /\ nextAlloc ->
             listInsert(h, bp)
        [] prevAlloc /\ ~nextAlloc ->
             listInsert(Tag(listRemove(h, next), bp, size + nextSize, 0), bp)
        [] ~prevAlloc /\ nextAlloc ->
             listInsert(Tag(listRemove(h, prev), prev, size + prevSize, 0), prev)
        [] ~prevAlloc /\ ~nextAlloc ->
             listInsert(Tag(listRemove(listRemove(h, prev), next), prev,
                            size + prevSize + nextSize, 0), prev)

heapFree(h, bp) ==
  coalesce(Tag(h, bp, SizeOf(h.mem, HDRP(bp)), 0), bp)

-----------------------------------------------------------------------------
(* Allocating.  size_t arithmetic wraps at SizeMax. *)

Wrap(n) == n % (SizeMax + 1)
RoundDown(n) == (n \div DSIZE) * DSIZE

\* Mutant of roundBlock: no test for wrapping.
roundBlockWraps(size) ==
  LET needed == Wrap(size + DSIZE)
  IN  IF needed < MIN_BLOCK THEN MIN_BLOCK ELSE RoundDown(Wrap(needed + (DSIZE - 1)))

\* The block size that holds size payload bytes; 0 when none can.
roundBlock(size) ==
  LET needed == Wrap(size + DSIZE)
  IN  IF size > SizeMax - DSIZE - (DSIZE - 1) THEN 0
      ELSE IF needed < MIN_BLOCK THEN MIN_BLOCK
      ELSE RoundDown(Wrap(needed + (DSIZE - 1)))

\* The k-th node of the free list, counting from 0; NULL past its end.
FreeNode(h) ==
  LET node[k \in Nat] ==
        IF k = 0 THEN h.freeList
        ELSE IF node[k - 1] = NULL THEN NULL
        ELSE NextNode(h.mem, node[k - 1])
  IN  node

\* First fit.  MaxNodes is as many blocks as any arena has room for: the search
\* of a list without a cycle ends before it.
MaxNodes == (HeapSize + DSIZE) \div MIN_BLOCK

\* Mutant of findFit: passes over a block of exactly the size.
findFitLarger(h, asize) ==
  LET node == FreeNode(h)
      fits == {k \in 0 .. MaxNodes :
                 node[k] # NULL /\ SizeOf(h.mem, HDRP(node[k])) > asize}
  IN  IF fits = {} THEN NULL
      ELSE node[CHOOSE k \in fits : \A j \in fits : k <= j]

findFit(h, asize) ==
  LET node == FreeNode(h)
      fits == {k \in 0 .. MaxNodes :
                 node[k] # NULL /\ SizeOf(h.mem, HDRP(node[k])) >= asize}
  IN  IF fits = {} THEN NULL
      ELSE node[CHOOSE k \in fits : \A j \in fits : k <= j]

\* Mark bp allocated at asize, splitting the rest off when it can be a block.
place(h, bp, asize) ==
  LET csize == SizeOf(h.mem, HDRP(bp))
      taken == listRemove(h, bp)
      rest  == bp + asize
  IN  IF csize - asize >= MIN_BLOCK
        THEN listInsert(Tag(Tag(taken, bp, asize, 1), rest, csize - asize, 0), rest)
        ELSE Tag(taken, bp, csize, 1)

\* Each returns the pair [h, p]: the heap after the call and the pointer.
Returns(h, p) == [h |-> h, p |-> p]

heapAlloc(h, size) ==
  LET asize == roundBlock(size)
      bp    == findFit(h, asize)
  IN  IF asize = 0 \/ bp = NULL THEN Returns(h, NULL)
      ELSE Returns(place(h, bp, asize), bp)

\* memcpy(to, from, n)
memcpy(m, to, from, n) ==
  [a \in DOMAIN m |-> IF to <= a /\ a < to + n THEN m[from + (a - to)] ELSE m[a]]

-----------------------------------------------------------------------------
(* Reallocating a block: in place when it shrinks, in place when the next  *)
(* block is free and large enough, and by a copy otherwise.                *)

\* Mutant of shrink: the tail is cut off and never freed.
shrinkLeaks(h, p, asize, csize) ==
  IF csize - asize >= MIN_BLOCK
    THEN Tag(Tag(h, p, asize, 1), p + asize, csize - asize, 1)
    ELSE h

shrink(h, p, asize, csize) ==
  IF csize - asize >= MIN_BLOCK
    THEN heapFree(Tag(Tag(h, p, asize, 1), p + asize, csize - asize, 1), p + asize)
    ELSE h

CanGrow(h, p, asize) ==
  LET next == NEXT_BLKP(h.mem, p)
  IN  /\ AllocOf(h.mem, HDRP(next)) = 0
      /\ SizeOf(h.mem, HDRP(p)) + SizeOf(h.mem, HDRP(next)) >= asize

grow(h, p, asize) ==
  LET next     == NEXT_BLKP(h.mem, p)
      combined == SizeOf(h.mem, HDRP(p)) + SizeOf(h.mem, HDRP(next))
      whole    == Tag(listRemove(h, next), p, combined, 1)
      rest     == p + asize
  IN  IF combined - asize >= MIN_BLOCK
        THEN listInsert(Tag(Tag(whole, p, asize, 1), rest, combined - asize, 0), rest)
        ELSE whole

\* Mutant of move: frees the old block before copying it.
moveFreesFirst(h, p, size, csize) ==
  LET fresh  == heapAlloc(h, size)
      freed  == heapFree(fresh.h, p)
      copied == [mem      |-> memcpy(freed.mem, fresh.p, p, csize - DSIZE),
                 freeList |-> freed.freeList]
  IN  IF fresh.p = NULL THEN fresh ELSE Returns(copied, fresh.p)

move(h, p, size, csize) ==
  LET fresh  == heapAlloc(h, size)
      copied == [mem      |-> memcpy(fresh.h.mem, fresh.p, p, csize - DSIZE),
                 freeList |-> fresh.h.freeList]
  IN  IF fresh.p = NULL THEN fresh
      ELSE Returns(heapFree(copied, p), fresh.p)

heapRealloc(h, p, size) ==
  LET asize == roundBlock(size)
      csize == SizeOf(h.mem, HDRP(p))
  IN  IF asize = 0 THEN Returns(h, NULL)
      ELSE IF asize <= csize THEN Returns(shrink(h, p, asize, csize), p)
      ELSE IF CanGrow(h, p, asize) THEN Returns(grow(h, p, asize), p)
      ELSE move(h, p, size, csize)

-----------------------------------------------------------------------------
(* The arena.  The words malloc returns hold anything; nothing reads one   *)
(* before it is written, and 0 stands for what they hold.                  *)

RawBytes == HeapSize + 4 * WSIZE + DSIZE

\* Where the sentinels start: the first address from base on whose payloads,
\* one word past a header, are aligned.
Aligned(base) == CHOOSE p \in base .. base + DSIZE - 1 : (p + WSIZE) % DSIZE = 0
Usable(base)  == RoundDown(RawBytes - (Aligned(base) - base) - 4 * WSIZE)
FirstBlock(base) == Aligned(base) + DSIZE + WSIZE

\* The words from the prologue's header to the epilogue's.
ArenaWords(base) ==
  {a \in Aligned(base) .. FirstBlock(base) + Usable(base) - WSIZE :
     (a - Aligned(base)) % WSIZE = 0}

heapInit(base) ==
  LET p  == Aligned(base)
      bp == FirstBlock(base)
      m  == [[a \in ArenaWords(base) |-> 0] EXCEPT
               ![p]         = PACK(DSIZE, 1),
               ![p + WSIZE] = PACK(DSIZE, 1)]
      h  == Tag([mem |-> m, freeList |-> NULL], bp, Usable(base), 0)
  IN  listInsert([mem      |-> [h.mem EXCEPT ![bp + Usable(base) - WSIZE] = PACK(0, 1)],
                  freeList |-> h.freeList], bp)

-----------------------------------------------------------------------------
(* The calls.  Callers free and reallocate only what they own.             *)

Current == [mem |-> mem, freeList |-> freeList]

Becomes(h) == mem' = h.mem /\ freeList' = h.freeList

\* The caller drops old (NULL for none) and holds new, of the given size.
Hold(old, new, size) ==
  owned' = [q \in (DOMAIN owned \ {old}) \cup {new} |->
              IF q = new THEN size ELSE owned[q]]

Init ==
  /\ arena = NULL
  /\ blocks = NULL
  /\ arenaBytes = 0
  /\ mem = [a \in {} |-> 0]
  /\ freeList = NULL
  /\ owned = [p \in {} |-> 0]

\* heapAlloc on an arena that exists.
Alloc(size) ==
  /\ arena # NULL
  /\ size # 0
  /\ LET r == heapAlloc(Current, size)
     IN  /\ Becomes(r.h)
         /\ IF r.p = NULL THEN UNCHANGED owned ELSE Hold(NULL, r.p, size)
  /\ UNCHANGED <<arena, blocks, arenaBytes>>

\* heapAlloc as the first call since the start or since heapDestroy: malloc
\* succeeds at base, and the arena stays even when the request does not fit.
FirstAlloc(size, base) ==
  /\ arena = NULL
  /\ size # 0
  /\ arena' = base
  /\ blocks' = FirstBlock(base)
  /\ arenaBytes' = Usable(base)
  /\ LET r == heapAlloc(heapInit(base), size)
     IN  /\ Becomes(r.h)
         /\ IF r.p = NULL THEN UNCHANGED owned ELSE Hold(NULL, r.p, size)

\* heapFree; heapRealloc to 0 is the same call.
Free(p) ==
  /\ Becomes(heapFree(Current, p))
  /\ owned' = [q \in DOMAIN owned \ {p} |-> owned[q]]
  /\ UNCHANGED <<arena, blocks, arenaBytes>>

\* heapRealloc of a block; of NULL it is heapAlloc.  On failure the caller
\* still holds the block it had.
Realloc(p, size) ==
  /\ size # 0
  /\ LET r == heapRealloc(Current, p, size)
     IN  /\ Becomes(r.h)
         /\ IF r.p = NULL THEN UNCHANGED owned ELSE Hold(p, r.p, size)
  /\ UNCHANGED <<arena, blocks, arenaBytes>>

\* Mutant of Destroy: keeps pointing at the list in the memory it gave back.
DestroyKeepsList ==
  /\ arena # NULL
  /\ arena' = NULL
  /\ blocks' = NULL
  /\ arenaBytes' = 0
  /\ mem' = [a \in {} |-> 0]
  /\ owned' = [q \in {} |-> 0]
  /\ UNCHANGED freeList

\* heapDestroy, after which no pointer is valid.
Destroy ==
  /\ arena # NULL
  /\ arena' = NULL
  /\ blocks' = NULL
  /\ arenaBytes' = 0
  /\ mem' = [a \in {} |-> 0]
  /\ freeList' = NULL
  /\ owned' = [q \in {} |-> 0]

\* The words of p's payload a caller may write: whole words inside what it
\* asked for, not inside what it was given.
PayloadWords(p) == {a \in DOMAIN mem : p <= a /\ a + WSIZE <= p + owned[p]}

\* The owner of p fills what it asked for.
Fill(p, v) ==
  /\ mem' = [a \in DOMAIN mem |-> IF a \in PayloadWords(p) THEN v ELSE mem[a]]
  /\ UNCHANGED <<arena, blocks, arenaBytes, freeList, owned>>

Next ==
  \/ \E size \in Requests : Alloc(size)
  \/ \E size \in Requests, base \in Bases : FirstAlloc(size, base)
  \/ \E p \in DOMAIN owned : Free(p)
  \/ \E p \in DOMAIN owned, size \in Requests : Realloc(p, size)
  \/ \E p \in DOMAIN owned, v \in Values : Fill(p, v)
  \/ Destroy

Spec == Init /\ [][Next]_vars

-----------------------------------------------------------------------------
(* Inspection *)

\* The k-th block, counting from 0, found as heapCheck finds it: from the first
\* block on, by the size in each header, to the epilogue.  A walk that leaves
\* the arena stops, and stops short.
BlockWalk ==
  LET bp[k \in Nat] ==
        IF k = 0 THEN blocks
        ELSE LET next == NEXT_BLKP(mem, bp[k - 1])
             IN  IF HDRP(next) \in DOMAIN mem THEN next ELSE bp[k - 1]
  IN  bp

Blocks == {b \in {BlockWalk[k] : k \in 0 .. MaxNodes} : SizeOf(mem, HDRP(b)) > 0}
IsFree(b) == AllocOf(mem, HDRP(b)) = 0
FreeBlocks == {b \in Blocks : IsFree(b)}

FreeNodes == {FreeNode(Current)[k] : k \in 0 .. MaxNodes} \ {NULL}

\* heapCheck returns true.
HeapCheck ==
  arena # NULL =>
    /\ \A b \in Blocks :
         /\ SizeOf(mem, HDRP(b)) >= MIN_BLOCK
         /\ SizeOf(mem, HDRP(b)) % DSIZE = 0
         /\ b % DSIZE = 0
         /\ mem[HDRP(b)] = mem[FTRP(mem, b)]
         /\ IsFree(b) => NEXT_BLKP(mem, b) \notin FreeBlocks
    /\ \E b \in Blocks : NEXT_BLKP(mem, b) = blocks + arenaBytes
    /\ FreeNodes = FreeBlocks
    /\ FreeNode(Current)[MaxNodes] = NULL
    /\ \A n \in FreeNodes :
         NextNode(mem, n) # NULL => PrevNode(mem, NextNode(mem, n)) = n

-----------------------------------------------------------------------------
(* Properties *)

\* Every variable has its type; without an arena the rest is as heapDestroy
\* leaves it.
TypeOK ==
  /\ arena \in Bases \cup {NULL}
  /\ blocks \in Nat
  /\ arenaBytes \in Nat
  /\ freeList \in Nat
  /\ mem \in [DOMAIN mem -> Nat]
  /\ owned \in [DOMAIN owned -> Requests \ {0}]
  /\ IF arena = NULL
       THEN blocks = NULL /\ arenaBytes = 0 /\ freeList = NULL /\ DOMAIN mem = {}
       ELSE /\ blocks = FirstBlock(arena)
            /\ arenaBytes = Usable(arena)
            /\ DOMAIN mem = ArenaWords(arena)

\* Every pointer a caller holds is an aligned, allocated block of the arena with
\* both tags in place and room for what was asked, and no two of them overlap,
\* whatever was split, merged, grown, shrunk or moved in between.
OwnedApart ==
  \A p \in DOMAIN owned :
    /\ p % DSIZE = 0
    /\ p \in blocks .. blocks + arenaBytes - DSIZE
    /\ AllocOf(mem, HDRP(p)) = 1
    /\ mem[FTRP(mem, p)] = mem[HDRP(p)]
    /\ owned[p] + DSIZE <= SizeOf(mem, HDRP(p))
    /\ NEXT_BLKP(mem, p) <= blocks + arenaBytes
    /\ \A q \in DOMAIN owned : p < q => NEXT_BLKP(mem, p) <= q

\* Once the callers hold nothing, the arena is one free block again: no order of
\* calls leaks a block or leaves two free neighbours unmerged.
WholeAgain ==
  arena # NULL /\ DOMAIN owned = {} =>
    /\ freeList = blocks
    /\ mem[HDRP(blocks)] = PACK(arenaBytes, 0)

\* A request is refused only when there is no room: not for an allocation while
\* some free block would hold it, nor for a reallocation while it fits in place
\* or elsewhere.  A request whose size wraps is always refused, and a refusal
\* leaves the heap as it was.
RefusedOnlyWhenFull ==
  arena # NULL =>
    \A size \in Requests \ {0} :
      LET asize == roundBlock(size)
          fits  == asize # 0 /\ \E b \in FreeBlocks : SizeOf(mem, HDRP(b)) >= asize
          alloc == heapAlloc(Current, size)
      IN  /\ (alloc.p # NULL) <=> fits
          /\ alloc.p = NULL => alloc.h = Current
          /\ \A p \in DOMAIN owned :
               LET re == heapRealloc(Current, p, size)
               IN  /\ (re.p # NULL) <=>
                         \/ fits
                         \/ asize # 0 /\ asize <= SizeOf(mem, HDRP(p))
                         \/ asize # 0 /\ CanGrow(Current, p, asize)
                   /\ re.p = NULL => re.h = Current

\* Any address a pointer can have.
Pointers == UNION {FirstBlock(b) .. FirstBlock(b) + Usable(b) : b \in Bases}

Promise == INSTANCE Malloc WITH
  size      <- owned,
  cells     <- [p \in DOMAIN owned |->
                 [i \in 1 .. owned[p] \div WSIZE |-> mem[p + (i - 1) * WSIZE]]],
  Align     <- DSIZE,
  WordBytes <- WSIZE

\* Through alloc, free, realloc and the list and tags kept inside freed blocks,
\* each caller's words are what that caller last stored: the heap implements
\* Malloc.
KeepsPromise == Promise!Spec
=============================================================================
