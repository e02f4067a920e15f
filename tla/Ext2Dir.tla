------------------------------ MODULE Ext2Dir ------------------------------
(***************************************************************************)
(* lab7/ext2.c: follow_directory_entries, which reads a directory's bytes   *)
(* as entries, and find_file_in_directory.  The loop advances by one byte,  *)
(* so that f is called for every entry and for all that lies between them;  *)
(* and it reads the bytes of a whole dir_entry_t, which may lie past the    *)
(* entry, the block or the directory.                                       *)
(***************************************************************************)
EXTENDS Integers, Sequences, FiniteSets, FiniteSetsExt, SequencesExt

CONSTANTS
    BlockBytes,  \* block_size
    NameBytes,   \* 256 in the code: the room for a name in a dir_entry_t
    NoFunction,  \* the null pointer passed for f
    Volumes       \* volumes

ASSUME Ext2DirAssumption ==
    BlockBytes \in Nat \ {0} /\ NameBytes \in Nat \ {0}

HeaderBytes == 8                        \* of a dir_entry_t, before de_name
EntryBytes == HeaderBytes + NameBytes   \* sizeof(struct dir_entry)
Directory == 4                          \* i_mode >> 12

VARIABLES
    volume,   \* the volume, which never changes:
             \*   bytes    a function on 0 .. length - 1,
             \*   bad      the blocks that cannot be read,
             \*   inode    the inode of each number,
             \*   entries  what the directory holds, see MCExt2Fs
    dir,     \* the inode followed: type, size and the numbers of its blocks
    wanted,  \* the name that f compares with, or NoFunction
    pos,     \* the loop's offset i
    curr,    \* the bytes of the dir_entry_t *curr
    follow   \* "idle", "loop", or how the loop ended: "zero" for a return of
             \* 0, "match" for one of buffer->de_inode_no, or "fault"

dirVars == <<dir, wanted, pos, curr, follow>>

NoInode == [type |-> 0, size |-> 0, block |-> << >>]

DirIdle ==
    /\ dir = NoInode /\ wanted = NoFunction /\ pos = 0 /\ curr = << >>
    /\ follow = "idle"

-----------------------------------------------------------------------------
Length == Cardinality(DOMAIN volume.bytes)
CanRead(a) == a < Length /\ a \div BlockBytes \notin volume.bad

\* pread: up to size bytes, fewer at the end of the volume or before a bad
\* sector, -1 if that is where it starts.
pread_bytes(a, size) ==
    CASE a >= Length -> 0
      [] a < Length /\ ~CanRead(a) -> -1
      [] OTHER -> Cardinality({k \in 0 .. (size - 1) :
                                  \A j \in 0 .. k : CanRead(a + j)})

\* read_file_block reads from here; a block a directory lacks has the number 0.
DirAddress(inode, x) ==
    LET b == x \div BlockBytes + 1
    IN  (IF b \in DOMAIN inode.block THEN inode.block[b] ELSE 0) * BlockBytes
        + (x % BlockBytes)

\* What n bytes from address a leave in curr: a short read keeps the rest.
Entry(a, n) ==
    [k \in 1 .. EntryBytes |-> IF k <= n THEN volume.bytes[a + k - 1] ELSE curr[k]]

\* de_name as a string: up to the first zero byte, or all of it without one.
NameOf(entry) ==
    LET zeros == {k \in (HeaderBytes + 1) .. EntryBytes : entry[k] = 0}
        last == IF zeros = {} THEN EntryBytes ELSE Min(zeros) - 1
    IN  SubSeq(entry, HeaderBytes + 1, last)

-----------------------------------------------------------------------------
\* The call: no entry is read unless the inode is a directory.
FollowCall(inode, name) ==
    /\ follow = "idle"
    /\ dir' = inode /\ wanted' = name /\ pos' = 0
    /\ curr' = [k \in 1 .. EntryBytes |-> 0]
    /\ follow' = IF inode.type = Directory THEN "loop" ELSE "zero"

\* Mutant: the offset moves on by more than a byte.
AdvanceByFour == pos + 4
\* Mutant: the offset does not move on.
AdvanceNot == pos

Advance == pos + 1

\* A turn of the loop: compare_file_name wants equal strings; a null f faults.
FollowStep ==
    /\ follow = "loop" /\ pos < dir.size
    /\ \E a \in {DirAddress(dir, pos)} : \E n \in {pread_bytes(a, EntryBytes)} :
        \/ /\ n <= 0
           /\ follow' = "zero"
           /\ UNCHANGED <<pos, curr>>
        \/ /\ n > 0
           /\ curr' = Entry(a, n)
           /\ \/ wanted = NoFunction /\ follow' = "fault" /\ UNCHANGED pos
              \/ wanted # NoFunction /\ NameOf(curr') = wanted
                 /\ follow' = "match" /\ UNCHANGED pos
              \/ wanted # NoFunction /\ NameOf(curr') # wanted
                 /\ pos' = Advance /\ UNCHANGED follow
    /\ UNCHANGED <<dir, wanted>>

FollowEnds ==
    /\ follow = "loop" /\ pos >= dir.size
    /\ follow' = "zero"
    /\ UNCHANGED <<dir, wanted, pos, curr>>

\* Its caller has the answer.
FollowReturned ==
    /\ dir' = NoInode /\ wanted' = NoFunction /\ pos' = 0 /\ curr' = << >>
    /\ follow' = "idle"
=============================================================================
