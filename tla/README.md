# Verification of the CS-261 laboratory programs

TLA+ models, TLC runs and TLAPS proofs for the programs under `src/`. The
repository is a set of independent laboratory exercises in C and assembly.
Six of them have behaviour worth a model and are modelled here: the cigarette
smokers (lab8), the heap allocator (lab5), the cache simulator and the image
masks (lab6), the ext2 reader with its FUSE operations (lab7), and quicksort
(lab3), in C and as machine programs.

Run a model with `tlc -config X.cfg M`, check proofs with `tlapm M.tla`. The
proofs are in `NatLemmas`, `SmokeProofs`, `HeapProofs`, `CacheProofs`,
`MaskProofs`, `Ext2Proofs`, `QuickSortProofs` and `Y86Proofs`.

## 1. Inventory

| Component | State | Operations | What is hard | What makes it correct |
|---|---|---|---|---|
| smokers, `lab8/smoke.c` | `num_active_threads`, `sum`, the two counts per resource, one mutex, seven condition variables, the position of eight threads | the agent offers, listeners add up, smokers smoke, main joins and asserts | lost and early signals, an increment outside the mutex, spurious wakeups, termination | each offer is smoked once by the smoker that lacks just it; nothing is left for the next round; the agent waits for the others; the program ends |
| heap, `lab5/implicit.c` | the region with a header and a footer per block, `h->next` | `heap_create`, `heap_malloc` with three strategies, `heap_free` with `coalesce`, `heap_find_avg_free_block_size` | long sequences of calls, the words of neighbours, `h->next` after a merge, sizes at the limits | blocks tile the region, payloads are disjoint, no two free neighbours, each strategy places where it should, a search ends |
| cache, `lab6/cache.c` | sets of lines ordered by recency, two counters | `cache_new`, `cache_read` | uninitialised tags, rounding of shifts, eviction order | reads return the datum asked for, hits and misses are right, replacement is LRU |
| masks, `lab6/mask.c`, `timemask.c` | the image, two answers, two checks | `baseMask`, `mask1`, `mask2`, the comparison | borders, one-row images, truncated files | all versions compute the same |
| ext2 reader, `lab7/ext2.c` | the volume (never written), a read in progress | open, inode, indirect blocks, `read_file_content` | index arithmetic, bad sectors, short reads | the words of the file, errors as errors |
| directories and paths, `lab7/ext2.c` | the entry read last, buffers from `malloc` | `follow_directory_entries`, `find_file_in_directory`, `find_file_from_path` | a loop over single bytes, buffers read before they are filled | a name is found just if it is there, and its number and inode are returned |
| FUSE operations, `lab7/ext2fs.c` | the mounted volume, allocated inodes | getattr, readdir, open, read, release, readlink | uninitialised inodes, order of check and use | errors as documented |
| quicksort, `lab3` | an array, for the `.ys` versions also its bytes, the stack and registers | `quickSort` | recursion over saved registers and return addresses, address arithmetic | a sorted permutation; the machine program does what the C routine does |
| small programs: `lab1/*.s`, `lab2/*.ys`, `lab4/bigint.c`, `lab8/traffic*.c`, `lab8/part2 backup.c` | registers, memory | loops; stubs | termination, overflow | see section 7 |

Components do not share state across laboratories. Within one they interact
as follows. The smokers share memory under one mutex and signal each other.
The heap is called by a program that also writes to the payloads it got. The
cache is called with addresses. `timemask.c` calls `baseMask` and one version
of `mask` and compares the arrays. `ext2fs.c` calls `ext2.c` from FUSE
callbacks; these may run in several threads, but nothing they share is written
after the volume is opened. `PROJECT.json` lists the hazards line by line.

## 2. Modules

| Module | Models | Role |
|---|---|---|
| `SmokeRounds` | what the smokers promise: offers and smokes alternate | abstract specification |
| `Smoke` | `smoke.c` | detailed specification, implements `SmokeRounds` |
| `SmokeProofs` | | theorems about `Smoke` |
| `Allocator` | disjoint aligned payloads that only the program changes | abstract specification |
| `Heap` | `implicit.c` and the program that uses it | implements `Allocator` |
| `HeapProofs` | | theorems about `Heap` and `Allocator` |
| `LRU` | resident blocks and which was read later than which | abstract specification |
| `Cache` | `cache.c` | steps like `LRU` |
| `CacheProofs` | | theorems about `Cache` and `LRU` |
| `Mask` | `mask.c`, `timemask.c` | the versions against `baseMask` |
| `MaskProofs` | | theorems about `Mask` |
| `Ext2` | `read_file_content` and what it calls in `ext2.c` | |
| `MCExt2` | images of a volume | instance of `Ext2` for TLC |
| `Ext2Dir` | `follow_directory_entries`, `find_file_in_directory` | the directory reader |
| `Ext2Fs` | `find_file_from_path` and the operations of `ext2fs.c` | composed over `Ext2Dir` |
| `MCExt2Fs` | small volumes, paths and memory | instance of `Ext2Fs` for TLC |
| `Ext2Proofs` | | theorems about `Ext2`, `Ext2Fs` and the two together |
| `QuickSort` | `sort.c` | the algorithm, the specification of the next |
| `QuickSortProofs` | | theorems about `QuickSort` |
| `Y86Sort` | `sort.ys`, `sort_optimal.ys` | `sort.ys` implements `QuickSort` |
| `MCSort` | small arrays | instance of `Y86Sort` for TLC |
| `Y86Proofs` | | theorems about `Y86Sort`, with those of `QuickSortProofs` carried over |
| `NatLemmas` | | least elements, minima and sums, for the proofs |

Definitions keep the names of the code where they can. Operators marked
*Mutant* are wrong variants of the definition after them, used to make sure
that a property notices such a change; no specification uses them.

### Smoke

A thread's position replaces its program counter: `agent`, `listener[r]`,
`smoker[m]`, `main`. Threads hold the mutex from one `pthread_cond_wait` to
the next, so that stretch is one action (`Listen`, `Smoke`, `FirstOffer`,
`NextOffer`, ...). `num_active_threads++` is outside the mutex
(`smoke.c:171`): it is `LoadCount` and `StoreCount`, which interleave freely
and can lose updates. `Signal` wakes the one thread that waits on a condition
variable, or does nothing. `SpuriousWake` lets a wait return by itself, at
most `MaxSpurious` times. `SignalledOnly` says that it has not happened yet;
the properties of the rounds hold until it does.

### Heap and Allocator

`mem` holds the words of the region and the one before it, which
`get_previous_block` reads for the first block. A search is a step per block
(`Visit`, `Exhaust`), `heap_free` with its merging is `Free`, and `UserWrite`
is the program writing to its payload. `blocks` is a ghost: the addresses where
a block starts. The strategy is a variable that never changes. `Fault` is an
access outside the region and ends the behaviour. `best_block` is not declared
in the code, which therefore does not compile with best fit as it stands; it
is modelled as a local initialised to NULL, which its use asks for.
`heap_find_avg_free_block_size` is a walk too (`AverageVisit`,
`AverageReturns`), which divides by the number of free blocks. The printing
functions are left out. `Intact` says that headers, footers and the payloads
in use fit together; next fit may lose it when `h->next` is stale, and a
request that wraps may, so that what a damaged heap no longer promises is
stated under it, and the program calls nothing more once it is lost
(`Usable`).

### Cache and LRU

`cache_new` leaves `tag` uninitialised, so every choice of `FreshTags` is an
initial state. A datum is its own address, which makes a wrong answer visible.
Of a set `LRU` sees the blocks of the valid lines and their order.
`num_sets` need not be a power of two; the shifts then reach fewer sets, as in
the code. `cache_write` has an empty body.

### Mask

One action per pass of `baseMask` and `mask1` (a pass reads the old image and
each pixel's own entry, so the order of pixels does not matter) and one per
pixel of `mask2`. Images are of every shape up to N by N, and the file may end
early: what follows is `EOF`, -1.

### Ext2 and MCExt2

The unit is a word of 4 bytes, the size of a block number; offsets and sizes
that are not multiples of 4 are not told apart. `read_file_content` is its
prologue, `ReadFileBlock` an iteration of its loop with the search through the
indirect blocks, `ReadEnds` its return. `pread` gives fewer words at the end
of the volume and before a bad sector, and -1 on one. Divisions and products
are those of the code, including the ones of the 2- and 3-indirect case. An
image says where each block of the file lies; from it follow both what the
code reads (`words`) and what it should return (`FileWord`). A call with an
offset past the end of the file is a call like any other.

### Ext2Dir, Ext2Fs and MCExt2Fs

Directories are read byte by byte here, because the loop of
`follow_directory_entries` advances by one byte and so calls its function for
whatever lies between the entries too. `FollowStep` is a turn of it: the read
of a whole `dir_entry_t`, which may be short and then leaves the end of `curr`
from the turn before, and `compare_file_name` on the string it finds there. A
null function, which `ext2_readdir` passes, is a fault at the first call.

An operation of `ext2fs.c` is an action up to its call of
`find_file_from_path` (`ext2_getattr`, `ext2_open`, ...) and one for what it
does with the answer (`GetattrOrOpenGoesOn`, `ReadGoesOn`, ...). In between,
`FindStarts`, `FindComponent`, `FindNext` and `FindEnds` go through the path.
The inode an operation has just allocated, the root's inode in
`find_file_from_path` and `buffer->de_inode_no` are read without having been
set: they are any element of `LeftInodes` and `LeftNumbers`. What
`read_file_content` returns is abstracted to `Contents`; that `Ext2` returns
nothing else is proved (`ReadsAreContents`). Operations run one at a time: they
share only the volume. The names that `Ext2` has too have another one here
(`Volumes`, `volume`, `stage`, `FsInit`, `FsNext`, `FsSpec`), so that
`Ext2Proofs` extends both.

### QuickSort, Y86Sort and MCSort

`QuickSort` turns the recursion of `sort.c` into a stack: the call under way,
and the second calls its callers have yet to make. `Y86Sort` has one action
for each stretch of instructions up to a jump, call or return, registers, the
stack, and the array as bytes, since `sort_optimal.ys` works on words that
straddle two elements. The refinement mapping reads `QuickSort`'s call and its
pending calls off the registers and the stack (`CallOf`, `PendingOf`).
`callers` is a history variable with the registers each caller must get back.

## 3. Runs

| Run | Question | Result |
|---|---|---|
| `smoke_rounds` | does the protocol work, and what survives a spurious wakeup? | `AgentWaitsForCount` always; `RoundInv`, `MainAsserts`, `ImplementsRounds` until a wait returns by itself; `ReadyStartTerminates`: a run without that, whose threads are all ready when the agent starts, ends |
| `smoke_startup` | does the agent's startup wait end once all wait? | no: violated |
| `heap` | the three strategies, with requests that wrap, and averages | tiling, no free neighbours, payloads, refinement of `Allocator`, placement, termination of the searches; only a stale `h->next` damages a heap that no size overflowed (`OnlyStaleNextBreaks`); an intact heap faults only for an average of no blocks or a size that wraps (`FaultsExplained`) |
| `heap_next_stale` | is `h->next` always a block? | no: violated |
| `heap_unaligned` | requests that are no multiple of 8 | violated: block too small |
| `cache` | any leftover tags, three ways | data, consistency, exact misses, steps of `LRU` |
| `cache_valid_order` | are invalid lines always last? | no: violated |
| `mask` | are all versions equal to `baseMask`, and is that the weighted mean? | yes |
| `ext2` | reads at every offset | all or nothing; right content and right answer where blocks follow each other; every call returns |
| `ext2_content` | is the content right wherever the blocks are? | no: violated |
| `ext2_fs` | every operation, from any leftover memory | what a search finds (`SearchFindsNames`), where answers come from (`AnswersAreLeftovers`), no listing succeeds, every operation ends |
| `sort` | every array of up to five elements, both machine programs | `sort.ys` implements `sort.c` and sorts; both halt, keep their callers' registers, stay within the stack and only exchange bytes |

The violations, each a disagreement between the code and its own comment:

1. `smoke.c:75` wants the agent to wait until the others wait. It waits on
   `smoke`, which nobody signals after counting itself, so an agent that comes
   before the last smoker hangs (`StartupWaitEnds`).
2. `implicit.c:228-230` warns of `h->next` pointing to a merged block.
   `coalesce` compares after it has written the merged header, so the
   comparison never names the absorbed block (`NextIsABlock`).
3. `implicit.c:122-123` says sizes may be unaligned; `get_size_to_allocate`
   returns no value for them (`LiveBlocks`). The run lets the result be one of
   a few multiples of 4. A compiler may well leave a usable value in the
   register, so this is a possible and not a certain outcome.
4. `cache.c:105-107` says that invalid lines come last; a leftover tag that
   matches moves one to the front (`ValidLinesFirst`). Data stay right: only
   the replacement is no longer LRU.
5. `ext2.c:220-222` says that a file need not be contiguous;
   `read_file_block` does not limit a read to its block (`ContentIsTheFile`).

Further facts can be seen in the models, where a property says how far the
code goes instead of what was meant:

- One spurious wakeup can break the protocol of the smokers and make an assert
  of main fail, because the waits are not in loops.
- An indirect block that cannot be read ends a file: the invalid block number
  wraps to an address past the end of the volume and `pread` returns 0, not
  -1; `ContiguousAnswer` therefore asks for readable indirect blocks.
- `heap_malloc` of a size within 8 of 2^32 wraps and may return a block of
  the smallest size; `heap_find_avg_free_block_size` divides by zero on a full
  heap.
- `sort_optimal.ys:66` adds 1 and not 8 to the pivot's address, as line 64 that
  would load 8 is commented out: the second part is sorted from the next byte.
  It halts, and arrays of more than two elements need not end sorted.
- No operation learns from the volume anything about a file of the root
  directory. `find_file_from_path` never reads the root's inode, never looks
  up the last name, and returns a number that nobody sets
  (`AnswersAreLeftovers`), against `ext2.c:336-340`.
- `ext2_readdir` never succeeds (`ReaddirNeverSucceeds`): the listing passes a
  null function, and the 0 of a listing that is complete counts as failure.
- A search also finds the end of a name, and the names of deleted entries; a
  name whose length is a multiple of 4 is missed when another entry follows,
  because it has no zero byte after it (`SearchFindsNames`).
- `ext2_open` returns `+EISDIR`, for a mode that it reads before the lookup.
  `ext2_readlink` refuses links of up to 60 bytes, which it could read from
  the inode, and writes one byte past a buffer it fills.

## 4. Bounds

- `NUM_ITERATIONS` is 3 instead of 1000: three rounds let every smoker follow
  another and itself, and what does not depend on the bound is proved for all
  values (section 6). `MaxSpurious = 1`: once a wait has returned by itself,
  only the startup count is claimed, and it is proved for every number.
- The region of `Heap` has 48 bytes, three blocks of the smallest request:
  enough for a block between two free or used neighbours, a split that leaves
  a rest and one that does not, and a search that wraps.
  `MAX_UNUSED_BYTES` is 16 instead of 128 so that both outcomes of the split
  occur. `WordMod` is 256 in place of 2^32, so that a request of 248 wraps to
  a block of size 0. Both alignments of the first block occur, in different
  runs.
- `Cache`: seven reads of five addresses over sets of three lines, enough to
  fill a set, replace in it and come back. Addresses are below `IntMod`, so
  the truncation of an address to an int, which the model has, does not occur.
- `Mask`: 3 by 3 has corners, sides and an inside; smaller shapes degenerate.
  Two pixel values and `EOF`, since the masks are linear up to the division.
- `Ext2`: a block has two words, so that a file of 43 words has blocks of all
  four levels and two blocks below the 3-indirect root. Placements: data before
  indirect blocks; as Linux allocates; backwards; with holes. The volume is
  whole or lacks its last 3 or 12 blocks, and at most one block is bad. `U32`
  and `U64` are small but above every address of the volume.
- `Ext2Fs`: a block holds three entries, a name has room for 12 bytes, and a
  directory has one or two blocks: following each other, with a block between
  them, or in reverse order. One volume ends with the directory's last entry,
  two have an unreadable block. Names occur without padding before another
  entry, with it, at the end of a block, and in a deleted entry. The leftover
  inodes are cleared memory, the inodes of the volumes and a directory with
  blocks that do not exist; the leftover numbers are none, the root's, a
  file's, one past the inodes and one that is negative as an int. Paths have
  up to three names; FUSE passes them without empty ones.
- `Y86Sort`: a word has two bytes of two bits, so that a pivot address off by
  one byte straddles two elements as on the machine. Arrays have up to five
  elements out of four values, two of them negative: duplicates, sorted and
  reversed arrays, and recursion on both sides occur.

## 5. Fairness

`FairSpec` of `Smoke` has weak fairness for each thread: a thread that can run
does eventually, which holds since a thread keeps the mutex for one action and
then waits or ends. Main, too, takes its step. No fairness is assumed for
spurious wakeups. In `Heap` only a search or an average that was begun goes on; the
program need not call. In `Ext2` only a read that was begun goes on, in
`Ext2Fs` only an operation: these are calls of one thread, which runs on. A
machine executes instructions until it halts (`Y86Sort`). `Cache` and `Mask` have no liveness property and no fairness.

Deadlock is not checked where a program may stop: the smokers may all wait for
ever (violation 1), next fit may fault, `ext2_readdir` calls a null pointer,
`Cache` has a bound on its reads, `timemask` ends.

## 6. What is proved

The theorems hold for every value of the constants; the runs of section 3
check the same formulas on the instances of section 4. Each is the last step
of the same argument: an invariant that every action preserves, one lemma per
action, from which the property follows. Where the property is no such
invariant by itself, the list says what has to be added and why.

TLAPS gives no induction over data, so the proofs use the least
counterexample instead: `NatLemmas` proves from the well-foundedness of `<`
that a set of numbers has a least element, and from it what the other modules
need of minima and of sums over finite sets.

**`SmokeProofs`**, for every `NUM_ITERATIONS` (a positive number,
`IterationsAssumption`) and every `MaxSpurious` (`SpuriousAssumption`):

- `TypeCorrect` and `AgentWaits`. `AgentWaitsForCount` is not inductive: that
  `num_active_threads` is 3 says nothing by itself, since updates may be lost.
  The invariant `CountInv` adds that the counter, and every value a smoker has
  loaded from it, is at most the number of smokers that have stored; 3 then
  needs all of them.
- `RoundProtocol`, `AssertsNeverFail` and `RoundsImplemented`, each for as
  long as no wait has returned by itself (`SignalledOnly`). `RoundInv` is the
  inductive part: while the agent waits, exactly one smoker is owed a
  cigarette and either it is awake with the table clear, or the resources
  offered are on their way to it (`RoundOf`); between rounds nothing is left.
  It is inductive because a spurious wakeup ends what it claims for good
  (`SpuriousGrows`): a step after which `SignalledOnly` holds began with it.
  `OfferOpensRound` is the lemma for the offers, `RoundStep` has a step per
  action. The refinement maps each action to a step of `SmokeRounds` or a
  stutter.

**`HeapProofs`**, for regions of every size, every alignment of their start
and every set of requests (`HeapAssumption`):

- `TypesAreKept` needs nothing else: whatever a size function that ends
  without a return gives, and after any damage, words stay 32-bit values and
  what the allocator remembers stays in the region.
- The other theorems assume `RequestsAreMultiples`: requests are those for
  which `get_size_to_allocate` returns a value (violation 3 is the rest).
  `BlocksStayWellFormed`, `FreeNeighboursMerge` and `BlocksInUseAreLive` are
  about first and best fit, `DamageNeedsAStaleNext` and
  `HeapImplementsAllocator` about all strategies until `h->next` is no block
  (violation 2). The invariant `HeapInv` relates the state between calls to
  the state inside one: a search begins on an intact heap, it visits blocks
  as long as `h->next` is one, and what best fit remembers is a free block
  that is large enough. That the heap is intact has three parts, tiling
  (`TiledIn`), no free neighbours and the payloads. For each operation on the
  words (flag a block, split it, merge two, store in a payload) a lemma says
  what it does to the tiling, and `heap_free` is their composition in its
  four cases. The refinement is by `TakeRefines`, `FreeRefines` and
  `WriteRefines`: what lies between the header and the footer of a block in
  use is not written by the operations on other blocks (`SamePayloads`).
- `MallocTakesThePreferred`. `SearchInv` says what each search has learned of
  the blocks behind it: none is a candidate, or best fit remembers the
  smallest of them and by how much it is too large. For next fit the two
  passes are different orders of the same blocks.
- `AverageIsOfFreeBlocks`. `AverageInv`: the locals are the number and the
  sum of the sizes of the free blocks before the one the walk is at.
- `FaultsAreExplained` assumes in addition `SplitsDoNotWrap`: twice the size
  of the region, and the region plus `MAX_UNUSED_BYTES`, are 32-bit values. In
  a region of 2 GB or more `get_size_to_allocate(real_size) * 2` may wrap, and
  the code then splits a block that is too small for it. A block that is taken
  is a candidate, so that its split and its flag stay inside; a walk is always
  at a block or at the end.

**`CacheProofs`**, for every geometry (`CacheAssumption`; `IntModAssumption`
says that a block does not straddle the truncation to an int, as both are
powers of two) and every tag that `malloc` leaves:

- `ValidLinesAreFoundFirst` and `LinesAreConsistent`. `CacheInv` joins them
  to the fact that a valid line holds the block of an address the program
  used, in its set and under its tag (`HoldsABlock`); neither is preserved
  without the others, as the search stops at a tag without looking at the
  valid bit. `PowerUpTo`, the recursion of `get_shift_and_mask`, is shown to
  be a positive number no larger than its argument, which keeps the index
  inside the array when `num_sets` is no power of two.
- `ReadsAreRight` and `MissesAreCounted` assume `AddressesFit`: addresses are
  below `IntMod`, since `cache_read` casts them to int. An index and a tag then
  name one block (`SameLineSameBlock`).
- `CacheStepsLikeLRU`, the refinement of `LRU`, under `AddressesFit`. The
  resident blocks are those of the valid lines, and one was read later than
  another if its line comes first. Moving a line to the front and replacing
  the last one are both a push of the lines before it (`Pushed`, `PushUses`).
  What has to be added is `StraysFirst`: an invalid line in front of a valid
  one bears a tag that the program uses. It makes a set whose last line is
  valid a full one when no stray tag is about, so that the read replaces a
  block exactly when `LRU` does.

**`MaskProofs`**, for images of every size, all pixels and a file that ends
anywhere (`MaskAssumption`): `VersionsAgree` and `BaseIsMean`. The invariant
`MaskInv` says what each pixel holds after k passes: the sum of what these
passes add to it, and likewise for the weights. `mask1` runs the passes of
`baseMask` with the bounds in the loops, where the two agree pixel by pixel;
`mask2` goes through the pixels in order (`Rank`), with its answers right up
to the current one and its check the sum of those. `BaseIsMean` turns the sum
over passes into one over neighbours: each neighbour is added by one pass.

**`Ext2Proofs`**, for every volume, every size and offset (`Ext2Assumption`,
`ImagesAssumption`): `ReadsKeepTheirTypes` and, for sizes that can be added to
a file's size in 64 bits (`SumsFit`), `ReadsAreAllOrNothing`. `read_file_content`
counts in 32 bits what it limits in 64. `ReadInv` bounds the count by the
lower 32 bits of the limit, as `read_file_block` is asked for the difference
of the two, and so the count does not wrap. `LimitInv` says that inside the
file the limit is what there is to read.

`ContiguousReadsAreRight` and `ContiguousReadsAnswer` suppose volumes as
`mke2fs` makes them (`ImagesAreFormatted`): each block belongs to one node, an
entry is there only if the indirect block that holds it is, blocks are whole,
and every address fits into 32 bits. `BlockFound` then goes through
`get_inode_block_no` level by level: for the indices at which its divisions
are right (`FirstOfLevel`, part of `Contiguous`) it finds the block of the
file, or none, and then because an indirect block on the way is bad or cut
off. `NextWords`
says what one `pread` gives: the next words of the file, also over the ends of
blocks that follow each other (`BlocksFollow`, by the least index that does
not). The invariant `ContentInv` keeps that what is stored is the file's and
comes from blocks that can be read, so that a block that ends the read is the
first that is bad or cut off. The answer needs files below 4 GB
(`FilesAreShort`): when what is left is a multiple of 2^32, the code asks
`pread` for nothing and returns 0. `MCExt2` evaluates these hypotheses and
`SumsFit` for its images (`ImageSetAssumption`).

**`QuickSortProofs`**, for every set of arrays of integers
(`InputsAreArrays`): `InOrderAlways`, `PartitionAlways`, `EndsSorted` and
`OnlyRearranges`. The invariant `SortInv` adds to `InOrder` that the ranges to
be sorted follow each other, lie in the array and do not overlap, and that the
scan's indices stay in its range. `OnlyRearranges` is an invariant of its own:
there is a bijection of the positions from the array at the start.

**`Ext2Proofs` on `Ext2Fs`**, for every volume, all left-over memory and every
path:

- `AnswersComeFromMalloc` and `ReaddirFails` need no hypothesis. `AnswersInv`
  adds to the first that a search for a name of the root directory never
  reaches a directory, and that the number it carries is what `malloc` left.
- `SearchesFindSpellings` supposes roots as `mke2fs` makes them
  (`RootsAreFormatted`: whole blocks, none smaller than a `dir_entry_t`, the
  names of the entries in them) and paths with names that are not empty and
  leave room for a zero byte (`PathsHaveNames`). A search through a whole
  directory then matches just if the name and a zero byte stand 8 bytes behind
  one of the directory's bytes. The difficulty is `curr`: a short read leaves
  the end of it as the turn before had it, which may have been short as well.
  `Seen` gives what is in it: the bytes read, and then the last of them over
  and over, since the reads of a block are short by one more byte each turn
  and the first of a block is whole (`TurnSees`). A string that runs into that
  part cannot end in it (`SeenIsSpelled`), so that what is left of earlier
  turns never makes or hides a match. `SearchInv` is `Seen` for the turn
  before, and no match at the offsets passed.
- `SearchesFindNames` adds that only entries spell a name of a path
  (`OnlyNamesAreSpelled`). Without it the property is false: to the code an
  entry with the inode number 97 holds a file `a`. `MCExt2Fs` evaluates the
  three hypotheses for its volumes and paths (`SmallVolumesAssumption`).
- `ReadsAreContents` joins the two models: `read_file_content` of `Ext2`
  answers every call with one of `Contents`, the one step that `Ext2Fs` has
  for it. It asks for a file's size, 1 and a request to fit into 64 bits, and
  for `U32 < U64` (`SizesFit`). Inside the file this is `ReadsAreAllOrNothing`;
  past its end, where the limit has wrapped, `PastInv` says that the count is
  still below it.

**`Y86Proofs`**, for a word of any number of bytes, a byte of any number of
values (`Y86Assumption`), and every set of arrays of words whose length is a
word (`InputsAssumption`). Addresses are unbounded, as the array lies at 0 and
is far from 2^64 bytes. Every safety property of `Y86Sort` is proved:

- Words. A load is a sum of bytes with powers as weights (`ByteWeight`), a
  store takes quotients and remainders. That a word that was stored is loaded
  again, and that words apart from it stay, are the two facts the rest uses;
  apart from `BytesArePermuted`, no argument about the programs looks into a
  byte.
- `MachineInvHolds`: the invariant of both programs. `StackOK` says that the
  stack is made of frames, for each caller its three registers and a return
  address; `CallFits`, `LoopFits` and `SecondCallsFit` that the range at hand,
  the loop's addresses and the ranges of the second calls to come lie in the
  array, and that each level of calls has an element less; `LengthKept` that no
  exchange reaches the word after the array. Nothing of this is inductive
  alone: a range to come is computed from registers that were popped off the
  stack, and it lies in the array because that was so when they were pushed.
  `StackIsBounded`, `CallsKeepRegisters` and `LoopPartitions` follow, the last
  one because it is part of `LoopFits`.
- `BytesArePermuted` counts the bytes of each value. In `sort_optimal.ys` the
  words exchanged may straddle elements; all that is needed is that two words
  exchanged are the same or do not overlap, since then every byte of one goes
  to a byte of the other.
- `MachineSorts` is the refinement, `ImplementsQuickSort`. `AlignedInv` says
  that in `sort.ys` all addresses are those of elements. The pending calls of
  `sort.c` are read off the frames whose return address is `second`; the n-th
  of them is defined by counting (`Nth`), and `Frames` says what a call, the
  return from a first one and the return from a second one do to the sequence.
  `StepsAsQuickSort` has a case per action.
- `OpenRangesAreAll` and `MachineSortsArray`. `SortInv` of `QuickSortProofs`
  is taken over to the machine's state by an instance of that module (`Algo`),
  whose steps the refinement has shown; so `sort.ys` sorts because `sort.c`
  does. With two elements in `sort_optimal.ys` the loop runs once, at the first
  level, and `TwoInv` says that they are in order after the exchange that
  follows it: the calls after that, one of them a byte off, sort nothing.

Only model-checked: liveness, that is `ReadyStartTerminates`,
`MallocReturns`, `CallsReturn`, `OperationsEnd` and `Halts`. TLAPS does not
handle fairness and ENABLED. The invariants that occur in the violations of
section 3 are not proved, as they do not hold. Every invariant, action property
and refinement of a passing run is.

## 7. Not modelled

- `traffic.c`, `traffic-sem.c`: skeletons. `part2 backup.c`: an unfinished
  copy of `smoke.c` that does not compile.
- `bigint.c`: nearly all functions are stubs that return NULL or 0.
- `lab2/*.ys`: inputs of a processor simulator that is not in the repository.
- Test programs: drivers of the modelled code, whose calls the models make in
  any order.
- Output, timing (`timemask.c`), parsing of arguments and headers.
- Of `ext2.c`: `open_volume_file` (which does not check `s_magic`, although
  `ext2.c:26-30` says so) and `close_volume_file`. `ext2_release` returns 0.
- What the FUSE operations allocate and never free, since `malloc` does not
  fail in the model.
- Two FUSE operations at once: they write no memory in common.
- `sort_reorder.ys`: the same program as `sort_optimal.ys`.
- `lab1/*.s`: three loops over registers and no state between runs.
