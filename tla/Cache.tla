------------------------------- MODULE Cache -------------------------------
(***************************************************************************)
(* lab6/cache.c: the cache simulator.  An address is a number and the       *)
(* datum at an address is that address, so that a line shows which block    *)
(* it holds a copy of and a read shows which datum it returned.  Tags are   *)
(* only compared for equality, so the sign of (int) address is left out.    *)
(***************************************************************************)
EXTENDS Integers, FiniteSetsExt

CONSTANTS
    num_blocks, block_size, associativity, \* arguments of cache_new
    IntMod,       \* 2^32 in the code: (int) address keeps address % IntMod
    Addresses,    \* what the program reads
    FreshTags,    \* tags malloc may leave in the lines of a new cache
    MaxAccesses   \* bound: reads

ASSUME CacheAssumption ==
    /\ block_size \in Nat \ {0} /\ associativity \in Nat \ {0}
    /\ num_blocks \in Nat /\ num_blocks >= associativity
    /\ IntMod \in Nat \ {0} /\ MaxAccesses \in Nat
    /\ Addresses \subseteq Nat /\ FreshTags \subseteq Nat

-----------------------------------------------------------------------------
(* cache_new *)

num_sets == num_blocks \div associativity

\* get_shift_and_mask: one more than the mask, which is 2 to the shift.
PowerUpTo[value \in Nat] ==
    IF value <= 1 THEN 1 ELSE 2 * PowerUpTo[value \div 2]

block_offset == PowerUpTo[block_size]      \* block_offset_mask + 1
index_range == PowerUpTo[num_sets]         \* cache_index_mask + 1
tag_unit == block_offset * index_range  \* 2 to the tag_shift

\* Both are powers of two, and block_size is an int.
ASSUME IntModAssumption == IntMod % block_offset = 0

SetNumbers == 0 .. (num_sets - 1)

\* Mutant: the tag starts one bit too far left.
TagOneBitShort(address) == (address % IntMod) \div (2 * tag_unit)

Tag(address) == (address % IntMod) \div tag_unit
Index(address) == ((address % IntMod) \div block_offset) % index_range
Offset(address) == (address % IntMod) % block_offset
Base(address) == address - (address % block_offset)

-----------------------------------------------------------------------------
VARIABLES sets,                     \* set -> its lines, in order of use
          access_count, miss_count,
          asked, result             \* history: the last read and its result

vars == <<sets, access_count, miss_count, asked, result>>

\* What malloc left in a line: the datum of no address.
NoData == -IntMod

Init ==
    /\ sets \in [SetNumbers ->
                    [1 .. associativity ->
                        [is_valid : {FALSE}, tag : FreshTags, data : {NoData}]]]
    /\ access_count = 0 /\ miss_count = 0
    /\ asked = NoData /\ result = NoData

\* Mutant: the lines before k are not moved up.
make_mru_swap(lines, k) == [lines EXCEPT ![1] = lines[k], ![k] = lines[1]]

cache_line_make_mru(lines, k) ==
    [j \in 1 .. associativity |->
        IF j = 1 THEN lines[k] ELSE IF j <= k THEN lines[j - 1] ELSE lines[j]]

Matching(lines, tag) == {k \in 1 .. associativity : lines[k].tag = tag}

\* The lines once a match, if any, has been made the most recent.
cache_set_find_matching_line(lines, tag) ==
    IF Matching(lines, tag) = {} THEN lines
    ELSE cache_line_make_mru(lines, Min(Matching(lines, tag)))

\* Mutant: the valid bit is not looked at.
FoundAnyTag(lines, tag) == Matching(lines, tag) # {}

\* Whether the search found a line and that line is valid.
Found(lines, tag) ==
    /\ Matching(lines, tag) # {}
    /\ lines[Min(Matching(lines, tag))].is_valid

\* Mutant: the tag of the replaced block stays.
cache_set_add_keeps_tag(lines, address) ==
    [cache_line_make_mru(lines, associativity) EXCEPT
        ![1].is_valid = TRUE, ![1].data = Base(address)]

\* find_available_cache_line always takes the last line.
cache_set_add(lines, address) ==
    [cache_line_make_mru(lines, associativity) EXCEPT
        ![1] = [is_valid |-> TRUE, tag |-> Tag(address), data |-> Base(address)]]

cache_read(address) ==
    /\ access_count < MaxAccesses
    /\ LET lines == sets[Index(address)]
           tag == Tag(address)
           searched == cache_set_find_matching_line(lines, tag)
           read == IF Found(lines, tag) THEN searched
                                        ELSE cache_set_add(searched, address)
       IN  /\ sets' = [sets EXCEPT ![Index(address)] = read]
           /\ result' = read[1].data + Offset(address)
           /\ miss_count' = IF Found(lines, tag) THEN miss_count
                                                 ELSE miss_count + 1
    /\ access_count' = access_count + 1
    /\ asked' = address

Next == \E address \in Addresses : cache_read(address)

Spec == Init /\ [][Next]_vars

-----------------------------------------------------------------------------
(* Properties. *)


ValidOf(lines) == {k \in 1 .. associativity : lines[k].is_valid}
Valid(s) == ValidOf(sets[s])

\* cache_read returns the datum of the address it was given, whatever the
\* lines of a new cache contain, as long as addresses fit in an int.
ReadsWhatWasAsked == result = asked

\* A block is held once, in its own set, under its own tag.
LinesConsistent ==
    \A s \in SetNumbers : \A k \in Valid(s) :
        /\ Index(sets[s][k].data) = s
        /\ Tag(sets[s][k].data) = sets[s][k].tag
        /\ \A j \in Valid(s) : sets[s][j].tag = sets[s][k].tag => j = k

\* A line left over by malloc never hides a valid line with the same tag: the
\* search, which stops at the first equal tag, meets the valid one first.
ValidFoundFirst ==
    \A s \in SetNumbers : \A k \in Valid(s) : \A j \in 1 .. (k - 1) :
        sets[s][j].tag # sets[s][k].tag

\* A read misses exactly when no valid line holds its block.
Holds(address) ==
    \E k \in Valid(Index(address)) : sets[Index(address)][k].data = Base(address)

MissesAreMisses ==
    [][\A address \in Addresses :
          cache_read(address) => (miss_count' = miss_count <=> Holds(address))]_vars

SetOfBlock(b) == b % index_range

\* The blocks of the valid lines of a set, and which of them comes before
\* which.
BlockOf(line) == line.data \div block_offset
BlocksOf(lines) == {BlockOf(lines[k]) : k \in ValidOf(lines)}
OrderOf(lines) ==
    {p \in BlocksOf(lines) \X BlocksOf(lines) :
        \E j, k \in ValidOf(lines) :
            j < k /\ p = <<BlockOf(lines[j]), BlockOf(lines[k])>>}

Simulated == INSTANCE LRU WITH
    Sets <- SetNumbers,
    Ways <- associativity,
    Blocks <- {address \div block_offset : address \in Addresses},
    SetOf <- SetOfBlock,
    resident <- [s \in SetNumbers |-> BlocksOf(sets[s])],
    newer <- [s \in SetNumbers |-> OrderOf(sets[s])],
    accesses <- access_count,
    misses <- miss_count

\* No invalid line bears a tag the program uses.
NoStrayTag ==
    \A s \in SetNumbers : \A k \in 1 .. associativity :
        sets[s][k].is_valid \/ \A a \in Addresses : Tag(a) # sets[s][k].tag

\* As long as malloc has left no tag the program uses, and again once such
\* lines are in use, lines are kept, replaced and counted as LRU says.
StepsLikeLRU == Simulated!Init /\ [][NoStrayTag => Simulated!Next]_vars

\* cache.c:105-107: "Cache lines whose valid bit is 0 will occur after all
\* cache lines whose valid bit is 1."
ValidLinesFirst ==
    \A s \in SetNumbers : \A k \in Valid(s) : 1 .. k \subseteq Valid(s)
=============================================================================
