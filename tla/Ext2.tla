-------------------------------- MODULE Ext2 --------------------------------
(***************************************************************************)
(* lab7/ext2.c: reading the content of a file of an ext2 volume, from the   *)
(* block pointers of its inode to read_file_content's loop.  The unit is a  *)
(* word, the 4 bytes of a block number; a volume is a sequence of words, of *)
(* which a file system image says what they hold.  Sectors may be bad and   *)
(* the volume may be cut short.                                             *)
(***************************************************************************)
EXTENDS Integers, Sequences, FiniteSets, FiniteSetsExt, SequencesExt

CONSTANTS
    PtrsPerBlock,  \* words of a block: num_of_block
    U32,           \* 2^32 bytes, in words
    U64,           \* 2^64 bytes, in words
    MaxCount,      \* what one pread gives at most, less than an int holds
    Images,        \* images with one file each
    Sizes          \* the values of max_size that callers pass

ASSUME Ext2Assumption ==
    /\ PtrsPerBlock \in Nat \ {0}
    /\ U32 \in Nat \ {0} /\ U64 \in Nat \ {0}
    /\ MaxCount \in 1 .. (U32 \div 2 - 1)
    /\ Sizes \subseteq 0 .. (U64 - 1)

VARIABLES image,        \* the image, which never changes
          words,        \* the words of the volume
          offset,       \* read_file_content's parameter
          asked,        \* the max_size passed,
          max_size,     \* and as limited to the file
          read_so_far,
          buffer,       \* the words stored
          rv,           \* what read_file_content returned
          pc            \* "idle", "reading" or "returned"

vars == <<image, words, offset, asked, max_size, read_so_far, buffer, rv, pc>>

-----------------------------------------------------------------------------
(***************************************************************************)
(* The format of a file.  A node is a block of data <<0, index>> or an      *)
(* indirect block: <<k>> is the root of the k-indirect blocks, and the      *)
(* numbers after k are the entries followed from there.  An image has       *)
(*   place  the block of every node the file has; others are holes,         *)
(*   size   the words of the file,                                          *)
(*   length the words of the volume,                                        *)
(*   bad    the blocks that cannot be read.                                 *)
(***************************************************************************)
ASSUME ImagesAssumption ==
    \A img \in Images :
        /\ img.size \in Nat /\ img.length \in Nat
        /\ \A node \in DOMAIN img.place :
              img.place[node] \in Nat /\ node[1] \in Nat /\ (node[1] = 0 => node[2] \in Nat)

FirstIndex(k) ==
    12 + (IF k > 1 THEN PtrsPerBlock ELSE 0) + (IF k > 2 THEN PtrsPerBlock * PtrsPerBlock ELSE 0)

Entries == 0 .. (PtrsPerBlock - 1)

Child(node, w) ==
    IF Len(node) < node[1] THEN Append(node, w)
    ELSE <<0, FirstIndex(node[1]) + w
                 + CASE node[1] = 1 -> 0
                     [] node[1] = 2 -> node[2] * PtrsPerBlock
                     [] node[1] = 3 -> (node[2] * PtrsPerBlock + node[3]) * PtrsPerBlock>>

BlockOf(img, node) == IF node \in DOMAIN img.place THEN img.place[node] ELSE 0

\* The k-th word of the file, no block number.
Data(k) == U32 \div 4 + k

FileWord(img, k) ==
    IF <<0, k \div PtrsPerBlock>> \in DOMAIN img.place THEN Data(k) ELSE 0

VolumeWords(img) ==
    [a \in 0 .. (img.length - 1) |->
        LET b == a \div PtrsPerBlock
            w == a % PtrsPerBlock
            held == {node \in DOMAIN img.place : img.place[node] = b}
        IN  IF held = {} THEN U32 - 1
            ELSE LET node == CHOOSE node \in held : TRUE
                 IN  IF node[1] = 0 THEN Data(node[2] * PtrsPerBlock + w)
                     ELSE BlockOf(img, Child(node, w))]

\* The fields of the inode.
i_block(k) == BlockOf(image, <<0, k>>)
i_block_ind(k) == BlockOf(image, <<k>>)
inode_file_size == image.size

-----------------------------------------------------------------------------
EXT2_INVALID_BLOCK_NUMBER == U32 - 1

Readable(a) == a < image.length /\ a \div PtrsPerBlock \notin image.bad

\* pread: up to size words, fewer at the end of the volume or before a bad
\* sector, -1 if that is where it starts.
pread(a, size) ==
    CASE size = 0 \/ a >= image.length -> 0
      [] size > 0 /\ a < image.length /\ ~Readable(a) -> -1
      [] OTHER -> Min({size, image.length - a, MaxCount}
                      \union {k - a : k \in {k \in a .. (image.length - 1) : ~Readable(k)}})

\* Where read_block reads: a product and a sum of 32 bits.
Address(block_no, at) == (PtrsPerBlock * block_no + at) % U32

read_ind_block_entry(ind_block_no, index) ==
    LET a == Address(ind_block_no, index % U32)
    IN  IF Readable(a) THEN words[a] ELSE EXT2_INVALID_BLOCK_NUMBER

single(idx) == read_ind_block_entry(i_block_ind(1), idx - FirstIndex(1))

\* Mutant: the entries of the 1-indirect block are not taken off.
doubleFrom12(idx) ==
    LET n == PtrsPerBlock
        second == read_ind_block_entry(i_block_ind(2), (idx - FirstIndex(1)) \div (n * n))
    IN  read_ind_block_entry(second, idx - FirstIndex(1))

double(idx) ==
    LET n == PtrsPerBlock
        second == read_ind_block_entry(i_block_ind(2), (idx - FirstIndex(2)) \div (n * n))
    IN  read_ind_block_entry(second, idx - FirstIndex(2))

triple(idx) ==
    LET n == PtrsPerBlock
        index == ((idx - FirstIndex(3)) \div (n * n)) \div (n * n * n)
        third == read_ind_block_entry(i_block_ind(3), index)
        second == read_ind_block_entry(third, index * (n * n * n))
    IN  read_ind_block_entry(second, idx - FirstIndex(3))

get_inode_block_no(idx) ==
    CASE idx < 12 -> i_block(idx)
      [] idx >= 12 /\ idx < FirstIndex(2) -> single(idx)
      [] idx >= FirstIndex(2) /\ idx < FirstIndex(3) -> double(idx)
      [] idx >= FirstIndex(3) /\ idx < FirstIndex(3) + PtrsPerBlock * PtrsPerBlock * PtrsPerBlock
            -> triple(idx)
      [] OTHER -> EXT2_INVALID_BLOCK_NUMBER

\* Where read_file_block reads: it limits max_size to 32 bits, not to the block.
FileAddress(at) == Address(get_inode_block_no(at \div PtrsPerBlock), at % PtrsPerBlock)

-----------------------------------------------------------------------------
Init ==
    /\ image \in Images
    /\ words = VolumeWords(image)
    /\ offset = 0 /\ asked = 0 /\ max_size = 0 /\ read_so_far = 0
    /\ buffer = <<>> /\ rv = 0 /\ pc = "idle"

\* Mutant: max_size is not limited to the file.
read_file_contentUnlimited(o, m) ==
    /\ pc = "idle"
    /\ offset' = o /\ asked' = m /\ max_size' = m
    /\ read_so_far' = 0 /\ buffer' = <<>>
    /\ pc' = "reading"
    /\ UNCHANGED <<image, words, rv>>

\* offset + max_size may pass the end of the file, and so may offset.
read_file_content(o, m) ==
    /\ pc = "idle"
    /\ offset' = o /\ asked' = m
    /\ max_size' = IF (o + m) % U64 > inode_file_size THEN (inode_file_size - o) % U64 ELSE m
    /\ read_so_far' = 0 /\ buffer' = <<>>
    /\ pc' = "reading"
    /\ UNCHANGED <<image, words, rv>>

Return(value) ==
    /\ rv' = value /\ pc' = "returned"
    /\ UNCHANGED <<image, words, offset, asked, max_size, read_so_far, buffer>>

\* Mutants: the loop with another test for its return, another value returned
\* there, or another increment.
ReadLoop(Ends(_), value(_), step(_)) ==
    /\ pc = "reading" /\ read_so_far < max_size
    /\ \E a \in {FileAddress(offset + read_so_far)} :
       \E n \in {pread(a, (max_size - read_so_far) % U32)} :
           IF Ends(n)
           THEN Return(value(n))
           ELSE /\ read_so_far' = (read_so_far + step(n)) % U32
                /\ buffer' = buffer \o [k \in 1 .. n |-> words[a + k - 1]]
                /\ UNCHANGED <<image, words, offset, asked, max_size, rv, pc>>

ReadFileBlockPartial ==
    ReadLoop(LAMBDA n : n <= 0, LAMBDA n : read_so_far, LAMBDA n : n)

ReadFileBlockErrorEnds ==
    ReadLoop(LAMBDA n : n <= 0, LAMBDA n : 0, LAMBDA n : n)

ReadFileBlockErrorOnly ==
    ReadLoop(LAMBDA n : n < 0, LAMBDA n : n, LAMBDA n : n)

ReadFileBlockAll ==
    ReadLoop(LAMBDA n : n <= 0, LAMBDA n : n, LAMBDA n : max_size - read_so_far)

ReadFileBlock ==
    /\ pc = "reading" /\ read_so_far < max_size
    /\ \E a \in {FileAddress(offset + read_so_far)} :
       \E n \in {pread(a, (max_size - read_so_far) % U32)} :
           IF n <= 0
           THEN Return(n)
           ELSE /\ read_so_far' = (read_so_far + n) % U32
                /\ buffer' = buffer \o [k \in 1 .. n |-> words[a + k - 1]]
                /\ UNCHANGED <<image, words, offset, asked, max_size, rv, pc>>

ReadEnds ==
    /\ pc = "reading" /\ read_so_far >= max_size
    /\ Return(read_so_far)

\* The caller, who may call again.
Idle ==
    /\ pc = "returned"
    /\ offset' = 0 /\ asked' = 0 /\ max_size' = 0 /\ read_so_far' = 0
    /\ buffer' = <<>> /\ rv' = 0 /\ pc' = "idle"
    /\ UNCHANGED <<image, words>>

Next ==
    \/ \E o \in 0 .. (inode_file_size + 1), m \in Sizes : read_file_content(o, m)
    \/ ReadFileBlock
    \/ ReadEnds
    \/ Idle

Spec == Init /\ [][Next]_vars

\* The thread that reads goes on.
FairSpec == Spec /\ WF_vars(ReadFileBlock \/ ReadEnds)

-----------------------------------------------------------------------------
\* What there is to read.
Wanted == IF offset + asked > inode_file_size THEN inode_file_size - offset ELSE asked
WantedBlocks == (offset \div PtrsPerBlock) .. ((offset + Wanted - 1) \div PtrsPerBlock)

InFile == pc = "returned" /\ offset <= inode_file_size

\* The first PtrsPerBlock data blocks of each level of indirection.
FirstOfLevel(idx) ==
    idx < FirstIndex(2) + PtrsPerBlock \/ idx - FirstIndex(3) \in 0 .. (PtrsPerBlock - 1)

\* The indirect blocks get_inode_block_no goes through then.
Way(idx) ==
    LET k == CASE idx < 12 -> 0
               [] idx >= 12 /\ idx < FirstIndex(2) -> 1
               [] idx >= FirstIndex(2) /\ idx < FirstIndex(3) -> 2
               [] OTHER -> 3
    IN  {node \in DOMAIN image.place : node[1] = k /\ k > 0 /\ \A d \in 2 .. Len(node) : node[d] = 0}

\* The blocks wanted follow each other on the volume, none is a hole, and
\* their numbers are among those get_inode_block_no finds.
Contiguous ==
    \A idx \in WantedBlocks :
        /\ FirstOfLevel(idx)
        /\ <<0, idx>> \in DOMAIN image.place
        /\ idx + 1 \in WantedBlocks =>
              BlockOf(image, <<0, idx + 1>>) = BlockOf(image, <<0, idx>>) + 1

\* An image that mke2fs and the kernel make: each block has one node, an entry
\* is there only if the block that holds it is, and the blocks are whole and
\* have numbers that are no block's end (EXT2_INVALID_BLOCK_NUMBER).
IndirectNodes ==
    {<<1>>, <<2>>, <<3>>} \union ({2, 3} \X Entries) \union ({3} \X Entries \X Entries)

Formatted(img) ==
    /\ \A node, other \in DOMAIN img.place : img.place[node] = img.place[other] => node = other
    /\ \A node \in IndirectNodes, w \in Entries :
          Child(node, w) \in DOMAIN img.place => node \in DOMAIN img.place
    /\ \A node \in DOMAIN img.place : (img.place[node] + 1) * PtrsPerBlock <= U32
    /\ img.length % PtrsPerBlock = 0 /\ img.length + PtrsPerBlock <= U32

CutOff(node) == image.place[node] * PtrsPerBlock >= image.length
IsBad(node) == ~CutOff(node) /\ image.place[node] \in image.bad

TypeOK ==
    /\ DOMAIN words = 0 .. (image.length - 1)
    /\ offset \in Nat /\ asked \in Sizes \union {0}
    /\ max_size \in 0 .. (U64 - 1) /\ read_so_far \in 0 .. (U32 - 1)
    /\ read_so_far = Len(buffer)
    /\ rv \in -1 .. (U32 - 1) /\ pc \in {"idle", "reading", "returned"}

\* A read inside the file stores no more than there is to read and returns
\* its count, 0 or -1, never the count of a part, whatever the layout, the
\* bad sectors and the place where the volume is cut (ext2.c:240-249).
AllOrNothing == InFile => rv \in {-1, 0, Wanted} /\ Len(buffer) <= Wanted

\* Where the wanted blocks follow each other, the words returned are the
\* file's: the block of the first is the right one, through 1-, 2- and
\* 3-indirect blocks too, and the read begins at the right place in it
\* (ext2.c:164-218).
ContiguousIsRight ==
    InFile /\ rv > 0 /\ Contiguous =>
        buffer = [k \in 1 .. Wanted |-> FileWord(image, offset + k - 1)]

\* The answer to such a read, provided that the indirect blocks can be read:
\* an error exactly if a wanted block is bad, also after a part was read, 0
\* if the volume ends before, and otherwise all of it (ext2.c:243-249).
ContiguousAnswer ==
    InFile /\ Wanted > 0 /\ Contiguous
    /\ (\A idx \in WantedBlocks : \A node \in Way(idx) : ~CutOff(node) /\ ~IsBad(node))
        => rv = IF \E idx \in WantedBlocks : IsBad(<<0, idx>>) THEN -1
                ELSE IF \E idx \in WantedBlocks : CutOff(<<0, idx>>) THEN 0
                ELSE Wanted

\* Every call returns, also one whose offset lies beyond the end of the file,
\* where the subtraction at ext2.c:241 wraps and the loop reads on until a
\* pread gives nothing.
CallsReturn == pc = "reading" ~> pc = "returned"

\* ext2.c:220-222: "Returns the content of a specific file, limited to the
\* size of the file only. May need to read more than one block, with data not
\* necessarily stored in contiguous blocks."
ContentIsTheFile ==
    InFile /\ rv > 0 => buffer = [k \in 1 .. Wanted |-> FileWord(image, offset + k - 1)]
=============================================================================
