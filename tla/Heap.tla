-------------------------------- MODULE Heap --------------------------------
(***************************************************************************)
(* lab5/implicit.c: a heap of blocks with a header and a footer word each,  *)
(* in one region obtained from sbrk, under one of three search strategies,  *)
(* and the program that mallocs, writes to and frees payloads.              *)
(*                                                                          *)
(* Addresses are byte addresses, multiples of 4; mem holds the words of the *)
(* region and the word just before it, which get_previous_block of the      *)
(* first block reads.  heap_malloc and heap_find_avg_free_block_size visit  *)
(* one block per step; heap_free has no loop and is one action.  An access  *)
(* outside the region and a division by zero are undefined behaviour: they  *)
(* end the run in "fault".                                                  *)
(***************************************************************************)
EXTENDS Integers, FiniteSets, Functions

CONSTANTS
    SearchAlgs,       \* the strategies heap_create is asked for
    SbrkAddr, SbrkSize, \* what sbrk returned, what heap_create was asked for
    PointerHigh,      \* the upper half of a heap address on this machine
    MAX_UNUSED_BYTES, \* 128 in the code
    WordMod,          \* 2^32 in the code
    Requests,         \* user sizes
    Garbage,          \* what get_size_to_allocate may return without a return
    UserWords         \* words the program writes to its payloads

HEADER_SIZE == 4
PAYLOAD_ALIGN == 8
NULL == 0

-----------------------------------------------------------------------------
(* heap_create *)

heap_start == SbrkAddr + 32  \* past the struct heap

\* Mutant: the header before the payload is forgotten.
delta_no_header ==
    (PAYLOAD_ALIGN - (heap_start % PAYLOAD_ALIGN)) % PAYLOAD_ALIGN

delta ==
    LET d == PAYLOAD_ALIGN - HEADER_SIZE - (heap_start % PAYLOAD_ALIGN)
    IN  IF d < 0 THEN d + PAYLOAD_ALIGN ELSE d

start == heap_start + delta

size ==
    LET s == SbrkSize - 32 - delta
    IN  s - ((s - 2 * HEADER_SIZE) % PAYLOAD_ALIGN)

end == start + size

Words == {start - 4 + 4 * k : k \in 0 .. (size \div 4)}

\* Fresh memory is zero.  The word before the first block is padding, or the
\* last word of struct heap, the upper half of its field start.
FreshWord(a) == IF a = start - 4 /\ delta = 0 THEN PointerHigh ELSE 0

ASSUME HeapAssumption ==
    /\ SearchAlgs \subseteq {"FIRSTFIT", "NEXTFIT", "BESTFIT"}
    /\ SbrkAddr \in Nat \ {0} /\ SbrkAddr % 4 = 0
    /\ SbrkSize \in Nat /\ size >= 2 * HEADER_SIZE
    /\ MAX_UNUSED_BYTES \in Nat
    /\ WordMod \in Nat /\ WordMod > MAX_UNUSED_BYTES /\ WordMod > size
    /\ WordMod % 8 = 0
    /\ PointerHigh \in 0 .. (WordMod - 1)
    /\ Requests \subseteq 0 .. (WordMod - 1)
    /\ \A g \in Garbage : g \in 0 .. (WordMod - 1) /\ g % 4 = 0
    /\ UserWords \subseteq 0 .. (WordMod - 1)

-----------------------------------------------------------------------------
(* Blocks, over a memory m. *)

\* block_size_t arithmetic, for results less than one turn away.
Wrap(x) ==
    CASE x < 0 -> x + WordMod
      [] x >= WordMod -> x - WordMod
      [] OTHER -> x

block_is_in_use(m, b) == m[b] % 2 = 1
get_block_size(m, b) == m[b] - (m[b] % HEADER_SIZE)
\* Mutant: a search does not step over a block in use.
get_next_block_stuck(m, b) ==
    IF block_is_in_use(m, b) THEN b ELSE b + get_block_size(m, b)

get_next_block(m, b) == b + get_block_size(m, b)
\* Mutant: the block's own header read for the footer before it.
get_previous_block_header(m, b) == b - get_block_size(m, b)

get_previous_block(m, b) == b - get_block_size(m, b - HEADER_SIZE)
is_within_heap_range(a) == start <= a /\ a < end

\* block_size | in_use
HeaderValue(block_size, in_use) ==
    IF block_size % 2 = 0 THEN block_size + in_use ELSE block_size

\* Where set_block_header writes the footer: it reads back the header.
FooterOf(b, block_size) ==
    LET masked == block_size - (block_size % HEADER_SIZE)
    IN  b + HEADER_SIZE + Wrap(masked - 2 * HEADER_SIZE)

\* Mutant: no footer.
set_block_header_only(m, b, block_size, in_use) ==
    [m EXCEPT ![b] = HeaderValue(block_size, in_use)]

set_block_header(m, b, block_size, in_use) ==
    LET value == HeaderValue(block_size, in_use)
    IN  [m EXCEPT ![b] = value, ![FooterOf(b, block_size)] = value]

Writable(b, block_size) == b \in Words /\ FooterOf(b, block_size) \in Words

\* Mutant: no room for header and footer.
get_size_no_header(n) == IF n % 8 = 0 THEN {n} ELSE Garbage

\* The values a call may return: for a size that is no multiple of 8 the
\* function ends without a return.
get_size_to_allocate(n) ==
    IF n % 8 = 0 THEN {Wrap(n + 2 * HEADER_SIZE)} ELSE Garbage

-----------------------------------------------------------------------------
VARIABLES
    mem,
    search_alg, \* h->search_alg, set by heap_create
    next,     \* h->next
    live,     \* payload -> user size, for what the program holds
    pc,       \* "idle", "search", "average" or "fault"
    user_size, current, pass, best_block, smallest_difference, \* in heap_malloc
    free_size, num_of_block, \* in heap_find_avg_free_block_size, as current is
    blocks    \* history: the starts of the blocks the operations have made

locals == <<user_size, current, pass, best_block, smallest_difference,
            free_size, num_of_block>>
averages == <<free_size, num_of_block>>
vars == <<mem, search_alg, next, live, pc, locals, blocks>>

Init ==
    /\ mem = set_block_header([a \in Words |-> FreshWord(a)], start, size, 0)
    /\ search_alg \in SearchAlgs
    /\ next = start
    /\ live = << >>
    /\ pc = "idle"
    /\ user_size = 0 /\ current = start /\ pass = 1
    /\ best_block = NULL /\ smallest_difference = size
    /\ free_size = 0 /\ num_of_block = 0
    /\ blocks = {start}

\* The locals of a function are gone once it returns.
Return ==
    /\ pc' = "idle"
    /\ user_size' = 0 /\ current' = start /\ pass' = 1
    /\ best_block' = NULL /\ smallest_difference' = size
    /\ free_size' = 0 /\ num_of_block' = 0

Fault == pc' = "fault" /\ UNCHANGED <<mem, next, live, locals, blocks>>

-----------------------------------------------------------------------------
(* heap_malloc *)

Malloc(n) ==
    /\ pc = "idle"
    /\ pc' = "search"
    /\ user_size' = n
    /\ current' = IF search_alg = "NEXTFIT" THEN next ELSE start
    /\ pass' = 1
    /\ best_block' = NULL
    /\ smallest_difference' = size
    /\ UNCHANGED <<mem, next, live, blocks, averages>>

\* prepare_block_for_use on block b of size s: whether to split, when it
\* needs real bytes.
Splits(real, s) == Wrap(real + MAX_UNUSED_BYTES) < s \/ Wrap(real * 2) < s

\* What the program holds once it has got the payload of block b.
Holding(b) ==
    [p \in DOMAIN live \union {b + HEADER_SIZE} |->
        IF p = b + HEADER_SIZE THEN user_size ELSE live[p]]

\* prepare_block_for_use and the return of its result.
Take(b) ==
    \E real \in get_size_to_allocate(user_size) :
        LET s == get_block_size(mem, b)
            rest == Wrap(s - real)
        IN  \/ /\ Splits(real, s)
               /\ Writable(b + real, rest) /\ Writable(b, real)
               /\ mem' = set_block_header(
                            set_block_header(mem, b + real, rest, 0), b, real, 1)
               /\ blocks' = blocks \union {b + real}
               /\ live' = Holding(b)
               /\ next' = IF search_alg = "NEXTFIT" THEN b ELSE next
               /\ Return
            \/ /\ ~Splits(real, s)
               /\ Writable(b, s)
               /\ mem' = set_block_header(mem, b, s, 1)
               /\ live' = Holding(b)
               /\ next' = IF search_alg = "NEXTFIT" THEN b ELSE next
               /\ Return
               /\ UNCHANGED blocks
            \/ /\ IF Splits(real, s)
                  THEN ~(Writable(b + real, rest) /\ Writable(b, real))
                  ELSE ~Writable(b, s)
               /\ Fault

\* Mutant: an exact fit is refused.
HasRoomStrict(s, needed) == s > needed

HasRoom(s, needed) == s >= needed

\* One turn of a search loop.
Visit ==
    /\ pc = "search"
    /\ is_within_heap_range(current)
    /\ \E needed \in get_size_to_allocate(user_size) :
        LET s == get_block_size(mem, current)
            fits == ~block_is_in_use(mem, current) /\ HasRoom(s, needed)
        IN  \/ fits /\ search_alg # "BESTFIT" /\ Take(current)
            \/ /\ ~(fits /\ search_alg # "BESTFIT")
               /\ current' = get_next_block(mem, current)
               /\ IF fits /\ s - needed <= smallest_difference
                  THEN /\ best_block' = current
                       /\ smallest_difference' = s - needed
                  ELSE UNCHANGED <<best_block, smallest_difference>>
               /\ UNCHANGED <<mem, next, live, pc, user_size, pass, blocks,
                              averages>>

\* The search has left the heap.
Exhaust ==
    /\ pc = "search"
    /\ ~is_within_heap_range(current)
    /\ \/ /\ search_alg = "NEXTFIT" /\ pass = 1
          /\ pass' = 2 /\ current' = start
          /\ UNCHANGED <<mem, next, live, pc, user_size, best_block,
                         smallest_difference, blocks, averages>>
       \/ best_block # NULL /\ Take(best_block)
       \/ /\ ~(search_alg = "NEXTFIT" /\ pass = 1) /\ best_block = NULL
          /\ Return  \* NULL
          /\ UNCHANGED <<mem, next, live, blocks>>

-----------------------------------------------------------------------------
(* heap_free, over the heap h: its memory, its next pointer, its blocks. *)

Heap == [mem |-> mem, next |-> next, blocks |-> blocks]

Merges(h, first) ==
    LET second == get_next_block(h.mem, first)
    IN  /\ is_within_heap_range(first) /\ is_within_heap_range(second)
        /\ ~block_is_in_use(h.mem, first) /\ ~block_is_in_use(h.mem, second)

\* Mutant: the footer of the merged block lies a word too far.
MergedSizeTooLarge(h, first) ==
    Wrap(get_block_size(h.mem, first) + HEADER_SIZE
         + get_block_size(h.mem, get_next_block(h.mem, first)))

MergedSize(h, first) ==
    Wrap(get_block_size(h.mem, first)
         + get_block_size(h.mem, get_next_block(h.mem, first)))

\* Mutant: h->next moved past the merged block.
coalesce_next_after(h, first) ==
    IF ~Merges(h, first) THEN h
    ELSE LET m == set_block_header(h.mem, first, MergedSize(h, first), 0)
         IN  [mem |-> m, next |-> get_next_block(m, first),
              blocks |-> h.blocks \ {get_next_block(h.mem, first)}]

\* The header is set before h->next is compared, so get_next_block is by then
\* the block after both.
coalesce(h, first) ==
    IF ~Merges(h, first) THEN h
    ELSE LET m == set_block_header(h.mem, first, MergedSize(h, first), 0)
         IN  [mem |-> m,
              next |-> IF search_alg = "NEXTFIT" /\ h.next = get_next_block(m, first)
                       THEN first ELSE h.next,
              blocks |-> h.blocks \ {get_next_block(h.mem, first)}]

CoalesceWritable(h, first) ==
    Merges(h, first) => Writable(first, MergedSize(h, first))

Free(payload) ==
    /\ pc = "idle"
    /\ payload \in DOMAIN live
    /\ LET b == payload - HEADER_SIZE
           s == get_block_size(mem, b)
           h1 == [Heap EXCEPT !.mem = set_block_header(mem, b, s, 0)]
           h2 == coalesce(h1, b)
           previous == get_previous_block(h2.mem, b)
           h3 == coalesce(h2, previous)
       IN  \/ /\ Writable(b, s) /\ CoalesceWritable(h1, b)
              /\ CoalesceWritable(h2, previous)
              /\ mem' = h3.mem /\ next' = h3.next /\ blocks' = h3.blocks
              /\ live' = [q \in DOMAIN live \ {payload} |-> live[q]]
              /\ UNCHANGED <<pc, locals>>
           \/ /\ ~(Writable(b, s) /\ CoalesceWritable(h1, b)
                   /\ CoalesceWritable(h2, previous))
              /\ Fault

-----------------------------------------------------------------------------
(* heap_find_avg_free_block_size *)

Average ==
    /\ pc = "idle"
    /\ pc' = "average"
    /\ UNCHANGED <<mem, next, live, locals, blocks>>

\* Mutant: blocks in use are added up too.
AverageVisitAll ==
    /\ pc = "average"
    /\ is_within_heap_range(current)
    /\ free_size' = free_size + get_block_size(mem, current)
    /\ num_of_block' = num_of_block + 1
    /\ current' = get_next_block(mem, current)
    /\ UNCHANGED <<mem, next, live, pc, user_size, pass, best_block,
                   smallest_difference, blocks>>

AverageVisit ==
    /\ pc = "average"
    /\ is_within_heap_range(current)
    /\ \/ /\ ~block_is_in_use(mem, current)
          /\ free_size' = free_size + get_block_size(mem, current)
          /\ num_of_block' = num_of_block + 1
       \/ /\ block_is_in_use(mem, current)
          /\ UNCHANGED averages
    /\ current' = get_next_block(mem, current)
    /\ UNCHANGED <<mem, next, live, pc, user_size, pass, best_block,
                   smallest_difference, blocks>>

\* It returns free_size \div num_of_block.
AverageReturns ==
    /\ pc = "average"
    /\ ~is_within_heap_range(current)
    /\ \/ num_of_block # 0 /\ Return /\ UNCHANGED <<mem, next, live, blocks>>
       \/ num_of_block = 0 /\ Fault

-----------------------------------------------------------------------------
\* The program stores a word in a payload it holds.
UserWrite(payload) ==
    /\ pc = "idle"
    /\ payload \in DOMAIN live
    /\ \E a \in Words, w \in UserWords :
          /\ payload <= a /\ a + 4 <= payload + live[payload]
          /\ mem' = [mem EXCEPT ![a] = w]
    /\ UNCHANGED <<next, live, pc, locals, blocks>>

(* An intact heap. *)

\* The blocks tile the region: each has a header and an equal footer, sizes
\* are positive multiples of 8, and each block starts where another ends.
Tiled ==
    /\ start \in blocks
    /\ \A b \in blocks :
          LET s == get_block_size(mem, b)
          IN  /\ s >= 8 /\ s % 8 = 0 /\ mem[b] % 4 \in {0, 1}
              /\ mem[b + s - 4] = mem[b]
              /\ b + s \in blocks \union {end}
              /\ \A c \in blocks : c <= b \/ c >= b + s

Merged ==
    \A b \in blocks :
        LET c == get_next_block(mem, b)
        IN  c \in blocks => block_is_in_use(mem, b) \/ block_is_in_use(mem, c)

InUseIsLive ==
    /\ {p - HEADER_SIZE : p \in DOMAIN live}
          = {b \in blocks : block_is_in_use(mem, b)}
    /\ \A p \in DOMAIN live :
          live[p] + 2 * HEADER_SIZE <= get_block_size(mem, p - HEADER_SIZE)

Intact == Tiled /\ Merged /\ InUseIsLive

-----------------------------------------------------------------------------
\* Bound: the program calls no more once the blocks are damaged.  A search
\* that is under way goes on.
Usable == pc = "idle" => Intact

Next ==
    /\ Usable
    /\ \/ \E n \in Requests : Malloc(n)
       \/ Visit
       \/ Exhaust
       \/ Average
       \/ AverageVisit
       \/ AverageReturns
       \/ \E payload \in DOMAIN live : Free(payload) \/ UserWrite(payload)
    /\ UNCHANGED search_alg

Step == Visit \/ Exhaust \/ AverageVisit \/ AverageReturns

\* A function runs on once it is called.
Spec == Init /\ [][Next]_vars /\ WF_vars(Step /\ UNCHANGED search_alg)

-----------------------------------------------------------------------------
(* Properties. *)

TypeOK ==
    /\ search_alg \in SearchAlgs
    /\ mem \in [Words -> 0 .. (WordMod - 1)]
    /\ pc \in {"idle", "search", "average", "fault"}
    /\ blocks \subseteq Words
    /\ \A p \in DOMAIN live : p \in Words /\ live[p] \in Requests
    /\ next \in Words /\ current \in Int /\ pass \in {1, 2}
    /\ best_block \in Words \union {NULL}
    /\ smallest_difference \in 0 .. size
    /\ free_size \in Nat /\ num_of_block \in Nat

\* Next fit has a defect of its own, see NextIsABlock.
NoNextFit == search_alg # "NEXTFIT"

\* First and best fit keep the block structure, however long the sequence of
\* calls and whatever the program writes to its payloads.
WellFormed == NoNextFit => Tiled

\* No two neighbours are free: heap_free merges whatever can be merged, so
\* the room for a later malloc is never split between neighbours.
NoFreeNeighbours == NoNextFit => Merged

\* The blocks in use are those of the program's payloads, each large enough
\* for what was asked: nothing is leaked, shared or cut short.
LiveBlocks == NoNextFit => InUseIsLive

FreeBlocks == {b \in blocks : ~block_is_in_use(mem, b)}

\* The free blocks that can hold what the running heap_malloc was asked for.
Candidates ==
    {b \in FreeBlocks : get_block_size(mem, b) >= user_size + 2 * HEADER_SIZE}

NextOf(b) == IF b >= next THEN b ELSE b + size  \* order of the next-fit search

\* Where each strategy must place the block.
Preferred(b) ==
    /\ b \in Candidates
    /\ \A c \in Candidates :
          CASE search_alg = "FIRSTFIT" -> b <= c
            [] search_alg = "NEXTFIT" -> NextOf(b) <= NextOf(c)
            [] search_alg = "BESTFIT" -> get_block_size(mem, b)
                                            <= get_block_size(mem, c)

\* heap_malloc returns a payload in the block its strategy names, and NULL
\* only when no free block is large enough (implicit.c:241-242, 261-262),
\* as long as the blocks are intact and h->next is one of them.
MallocPlaces ==
    [][pc = "search" /\ pc' = "idle" /\ Intact /\ next \in blocks =>
          \/ \E b \in blocks :
                DOMAIN live' = DOMAIN live \union {b + HEADER_SIZE} /\ Preferred(b)
          \/ live' = live /\ Candidates = {}]_vars

\* Every call of heap_malloc returns, if the blocks stay intact and h->next
\* one of them, and if adding header and footer to the size does not wrap.
MallocReturns ==
    (pc = "search" /\ user_size + 2 * HEADER_SIZE < WordMod)
        ~> (pc = "idle" \/ ~Intact \/ next \notin blocks)

Contents ==
    [p \in DOMAIN live |->
        [k \in 1 .. (live[p] \div 4) |-> mem[p + 4 * (k - 1)]]]

Alloc == INSTANCE Allocator WITH
            First <- start, End <- end, Sizes <- Requests,
            Payloads <- Words, live <- Contents

\* Payloads are disjoint and aligned and only the program changes them, under
\* every strategy as long as h->next is a block of an intact heap: until then
\* implicit.c steps like Allocator.
ImplementsAllocator ==
    Alloc!Init /\ [][Intact /\ next \in blocks => Alloc!Next]_Contents

\* The block structure and the payloads are damaged, if ever, by a step that
\* starts with h->next pointing to no block.
OnlyStaleNextBreaks ==
    [][Intact /\ next \in blocks => Intact']_vars

\* What ends in undefined behaviour on an intact heap whose h->next is a
\* block: the average of no blocks, and a request to whose size header and
\* footer cannot be added in 32 bits.
FaultsExplained ==
    [][pc' = "fault" /\ Intact /\ next \in blocks =>
          \/ pc = "average" /\ FreeBlocks = {}
          \/ pc = "search" /\ user_size + 2 * HEADER_SIZE >= WordMod]_vars

\* The average is taken over the free blocks of an intact heap, each once.
AverageOfFreeBlocks ==
    [][pc = "average" /\ pc' # "average" /\ Intact =>
          /\ num_of_block = Cardinality(FreeBlocks)
          /\ free_size = SumFunctionOnSet([b \in FreeBlocks |-> get_block_size(mem, b)],
                                         FreeBlocks)]_vars

\* implicit.c:228-230: heap_free must "Beware of the case where the heap uses
\* a next fit search strategy, and h->next is pointing to a block that is to
\* be coalesced".
NextIsABlock == next \in blocks
=============================================================================
