-------------------------------- MODULE LRU --------------------------------
(***************************************************************************)
(* What lab6's cache is to simulate: a set-associative cache that keeps the *)
(* most recently read blocks of each set and counts reads and misses.       *)
(* Lines, tags and valid bits are not visible here.                         *)
(***************************************************************************)
EXTENDS Naturals, FiniteSets

CONSTANTS Sets, Ways,   \* sets, and blocks each holds
          Blocks,       \* blocks of memory
          SetOf(_)      \* the set of a block

VARIABLES resident,  \* set -> the blocks it holds
          newer,     \* set -> pairs <<b, c>> of them, b read later than c
          accesses, misses
vars == <<resident, newer, accesses, misses>>

Init ==
    /\ resident = [s \in Sets |-> {}]
    /\ newer = [s \in Sets |-> {}]
    /\ accesses = 0 /\ misses = 0

\* The pairs of a set once b has been read, of which it keeps the others.
Among(pairs, kept) == {p \in pairs : p[1] \in kept /\ p[2] \in kept}

\* b is the block read last, and the others in its set are those of kept.
Use(b, kept) ==
    /\ resident' = [resident EXCEPT ![SetOf(b)] = kept \union {b}]
    /\ newer' = [newer EXCEPT ![SetOf(b)] = Among(@, kept) \union ({b} \X kept)]

Hit(b) ==
    /\ b \in resident[SetOf(b)]
    /\ Use(b, resident[SetOf(b)] \ {b})
    /\ misses' = misses

MissWithRoom(b) ==
    /\ b \notin resident[SetOf(b)]
    /\ Cardinality(resident[SetOf(b)]) < Ways
    /\ Use(b, resident[SetOf(b)])
    /\ misses' = misses + 1

\* The block that was read least recently makes room.
MissWhenFull(b) ==
    /\ b \notin resident[SetOf(b)]
    /\ Cardinality(resident[SetOf(b)]) = Ways
    /\ \E oldest \in resident[SetOf(b)] :
          /\ \A c \in resident[SetOf(b)] \ {oldest} : <<c, oldest>> \in newer[SetOf(b)]
          /\ Use(b, resident[SetOf(b)] \ {oldest})
    /\ misses' = misses + 1

Next ==
    \E b \in Blocks :
        /\ Hit(b) \/ MissWithRoom(b) \/ MissWhenFull(b)
        /\ accesses' = accesses + 1

Spec == Init /\ [][Next]_vars
=============================================================================
