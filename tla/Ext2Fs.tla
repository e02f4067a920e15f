------------------------------- MODULE Ext2Fs -------------------------------
(***************************************************************************)
(* lab7/ext2.c: find_file_from_path, and lab7/ext2fs.c: the FUSE operations *)
(* that call it, over the directory reader Ext2Dir.                         *)
(*                                                                          *)
(* None of them fills the inode it mallocs before find_file_from_path looks *)
(* at it, and follow_directory_entries returns buffer->de_inode_no, which   *)
(* nobody sets.  What malloc returns holds whatever was in that memory: an  *)
(* element of LeftInodes or LeftNumbers.  The operations of a mount share   *)
(* no memory that is written after open_volume_file, so one at a time       *)
(* shows what each can do.                                                  *)
(***************************************************************************)
EXTENDS Ext2Dir

CONSTANTS
    LeftInodes,   \* what a malloced inode may hold
    LeftNumbers,  \* what the de_inode_no of a malloced entry may hold
    IntMax,       \* 2^31 - 1: a larger number is negative as an int
    Paths,        \* [absolute, names], what is between the slashes
    Reads         \* <<offset, size>> of the reads

ASSUME Ext2FsAssumption == LeftNumbers \subseteq Nat /\ IntMax \in Nat

ENOENT == 2
EIO == 5
EACCES == 13
EISDIR == 21
EINVAL == 22
RootNumber == 2
Operations == {"getattr", "readdir", "open", "read", "readlink"}

VARIABLES
    op,           \* the operation under way, or "none"
    path,         \* its path,
    args,         \* and what else it was called with
    fresh,        \* history: what its malloced inode held
    inode,        \* *read_inode, which is also find_file_from_path's *dest_inode
    turn,         \* the first or the second find_file_from_path of the operation
    part,         \* find_file_from_path: the component it has come to
    de_inode_no,  \* buffer->de_inode_no
    found,        \* what find_file_from_path returned
    stat,         \* the inode ext2_getattr has copied from
    stage,        \* "idle", "find", "component", "follow", "answer", "list",
                  \* "returned" or "fault"
    result        \* what the operation returned

fsVars == <<op, path, args, fresh, inode, turn, part, de_inode_no, found, stat, stage,
            result>>
mountVars == <<volume, dirVars, fsVars>>

Root == [absolute |-> TRUE, names |-> << >>]

FsIdle ==
    /\ op = "none" /\ path = Root /\ args = <<0, 0>>
    /\ fresh = NoInode /\ inode = NoInode /\ stat = NoInode
    /\ turn = 1 /\ part = 1 /\ de_inode_no = 0 /\ found = 0
    /\ stage = "idle" /\ result = 0

FsInit == volume \in Volumes /\ DirIdle /\ FsIdle

\* The operation returns r.
Returns(r) == stage' = "returned" /\ result' = r

-----------------------------------------------------------------------------
(* find_file_from_path *)

\* A path that does not begin with a slash, the root, or any other path.  The
\* root's inode is a copy of one that was just malloced.
FindStarts ==
    /\ stage = "find"
    /\ \/ /\ ~path.absolute
          /\ found' = 0 /\ stage' = "answer"
          /\ UNCHANGED <<inode, part, de_inode_no>>
       \/ /\ path = Root
          /\ inode' \in LeftInodes
          /\ found' = RootNumber /\ stage' = "answer"
          /\ UNCHANGED <<part, de_inode_no>>
       \/ /\ path.absolute /\ path # Root
          /\ de_inode_no' \in LeftNumbers
          /\ part' = 1 /\ stage' = "component"
          /\ UNCHANGED <<inode, found>>
    /\ UNCHANGED <<volume, dirVars, op, path, args, fresh, turn, stat, result>>

\* At each slash the name before it is looked up in *dest_inode.
FindComponent ==
    /\ stage = "component" /\ part < Len(path.names)
    /\ FollowCall(inode, path.names[part])
    /\ stage' = "follow"
    /\ UNCHANGED <<volume, op, path, args, fresh, inode, turn, part, de_inode_no,
                   found, stat, result>>

\* Mutant: the name after the last slash is looked up as well, and the file's
\* number returned.
FindEndsLookedUp ==
    /\ stage = "component" /\ part = Len(path.names)
    /\ stage' = "answer"
    /\ found' = IF inode = volume.inode[RootNumber]
                   /\ \E e \in volume.entries : e.name = path.names[part]
                THEN (CHOOSE e \in volume.entries : e.name = path.names[part]).number
                ELSE 0
    /\ UNCHANGED <<volume, dirVars, op, path, args, fresh, inode, turn, part,
                   de_inode_no, stat, result>>

\* The name after the last slash is not; the comparison of a pointer with 0
\* that ends the function does not hold.
FindEnds ==
    /\ stage = "component" /\ part = Len(path.names)
    /\ stage' = "answer"
    /\ found' = de_inode_no
    /\ UNCHANGED <<volume, dirVars, op, path, args, fresh, inode, turn, part,
                   de_inode_no, stat, result>>

\* read_inode: groups[] ends with the last group, what lies after it may name
\* any block, or none, and then *dest_inode stays.
ReadInode(number) ==
    IF number \in DOMAIN volume.inode THEN {volume.inode[number]}
    ELSE LeftInodes \union {inode}

FindNext ==
    /\ stage = "follow"
    /\ follow \in {"match", "zero"}
    /\ \/ /\ follow = "zero" \/ de_inode_no = 0 \/ de_inode_no > IntMax
          /\ found' = 0 /\ stage' = "answer"
          /\ UNCHANGED <<inode, part>>
       \/ /\ follow = "match" /\ de_inode_no > 0 /\ de_inode_no <= IntMax
          /\ inode' \in ReadInode(de_inode_no)
          /\ part' = part + 1 /\ stage' = "component"
          /\ UNCHANGED found
    /\ FollowReturned
    /\ UNCHANGED <<volume, op, path, args, fresh, turn, de_inode_no, stat, result>>

FollowRuns ==
    /\ FollowStep \/ FollowEnds
    /\ UNCHANGED <<volume, fsVars>>

-----------------------------------------------------------------------------
(* The FUSE operations, up to their first find_file_from_path. *)

Begin(o, p, a) ==
    /\ stage = "idle"
    /\ op' = o /\ path' = p /\ args' = a
    /\ fresh' \in LeftInodes /\ inode' = fresh'
    /\ UNCHANGED <<volume, dirVars, turn, part, de_inode_no, found, stat>>

CallFind == stage' = "find" /\ UNCHANGED result

ext2_getattr == \E p \in Paths : Begin("getattr", p, <<0, 0>>) /\ CallFind
ext2_readdir == \E p \in Paths : Begin("readdir", p, <<0, 0>>) /\ CallFind
ext2_read == \E p \in Paths, a \in Reads : Begin("read", p, a) /\ CallFind
ext2_readlink == \E p \in Paths, a \in Reads : Begin("readlink", p, <<0, a[2]>>) /\ CallFind

\* args is <<1, 0>> for O_WRONLY and O_RDWR.  The mode looked at is the one
\* left in the memory, and the EISDIR returned is positive.
ext2_open ==
    \E p \in Paths, writes \in {0, 1} :
        /\ Begin("open", p, <<writes, 0>>)
        /\ \/ writes = 1 /\ Returns(-EACCES)
           \/ writes = 0 /\ fresh'.type = Directory /\ Returns(EISDIR)
           \/ writes = 0 /\ fresh'.type # Directory /\ CallFind

-----------------------------------------------------------------------------
(* What they do with its answer. *)

\* ext2_getattr and ext2_open call it again for the number they report.
GetattrOrOpenGoesOn ==
    /\ stage = "answer" /\ op \in {"getattr", "open"}
    /\ \/ turn = 1 /\ found = 0 /\ Returns(-ENOENT) /\ UNCHANGED <<turn, stat>>
       \/ /\ turn = 1 /\ found # 0
          /\ turn' = 2 /\ stat' = inode
          /\ CallFind
       \/ turn = 2 /\ Returns(0) /\ UNCHANGED <<turn, stat>>
    /\ UNCHANGED <<volume, dirVars, op, path, args, fresh, inode, part, de_inode_no,
                   found>>

\* The function it passes to follow_directory_entries is 0.
ReaddirGoesOn ==
    /\ stage = "answer" /\ op = "readdir"
    /\ \/ /\ found = 0 \/ inode.type # Directory
          /\ Returns(-ENOENT)
          /\ UNCHANGED dirVars
       \/ /\ found # 0 /\ inode.type = Directory
          /\ FollowCall(inode, NoFunction)
          /\ stage' = "list" /\ UNCHANGED result
    /\ UNCHANGED <<volume, op, path, args, fresh, inode, turn, part, de_inode_no,
                   found, stat>>

\* Mutant: the helper function is passed and a listing of all is a success.
ReaddirEndsListed ==
    /\ stage = "list"
    /\ follow \in {"zero", "fault"}
    /\ Returns(0) /\ FollowReturned
    /\ UNCHANGED <<volume, op, path, args, fresh, inode, turn, part, de_inode_no,
                   found, stat>>

\* A return of 0 is taken for a missing directory.
ReaddirEnds ==
    /\ stage = "list"
    /\ \/ follow = "zero" /\ Returns(-ENOENT) /\ FollowReturned
       \/ follow = "fault" /\ stage' = "fault" /\ FollowReturned /\ UNCHANGED result
    /\ UNCHANGED <<volume, op, path, args, fresh, inode, turn, part, de_inode_no,
                   found, stat>>

\* What read_file_content may return, by Ext2's AllOrNothing; past the end of
\* the file it reads on until there is nothing left to read.
Contents(file_size, offset, size) ==
    {-1, 0} \union (IF offset <= file_size THEN {Min({size, file_size - offset})} ELSE {})

\* It reads before it looks at what it has found.
ReadGoesOn ==
    /\ stage = "answer" /\ op = "read"
    /\ \E n \in Contents(inode.size, args[1], args[2]) :
        \/ inode.type = Directory /\ Returns(-EISDIR)
        \/ inode.type # Directory /\ found = 0 /\ Returns(-ENOENT)
        \/ inode.type # Directory /\ found # 0 /\ n >= 0 /\ Returns(n)
        \/ inode.type # Directory /\ found # 0 /\ n < 0 /\ Returns(-EIO)
    /\ UNCHANGED <<volume, dirVars, op, path, args, fresh, inode, turn, part,
                   de_inode_no, found, stat>>

\* A link is taken for one whose target does not fit in the inode.
ReadlinkGoesOn ==
    /\ stage = "answer" /\ op = "readlink"
    /\ \/ found = 0 /\ Returns(-ENOENT)
       \/ found # 0 /\ inode.size <= 60 /\ Returns(-EINVAL)
       \/ /\ found # 0 /\ inode.size > 60
          /\ \E n \in Contents(inode.size, 0, args[2]) : Returns(IF n < 0 THEN -EIO ELSE 0)
    /\ UNCHANGED <<volume, dirVars, op, path, args, fresh, inode, turn, part,
                   de_inode_no, found, stat>>

\* Nothing of the operation is left for the next.
Returned ==
    /\ stage = "returned"
    /\ op' = "none" /\ path' = Root /\ args' = <<0, 0>>
    /\ fresh' = NoInode /\ inode' = NoInode /\ stat' = NoInode
    /\ turn' = 1 /\ part' = 1 /\ de_inode_no' = 0 /\ found' = 0
    /\ stage' = "idle" /\ result' = 0
    /\ UNCHANGED <<volume, dirVars>>

Call == ext2_getattr \/ ext2_readdir \/ ext2_open \/ ext2_read \/ ext2_readlink

Step ==
    \/ FindStarts \/ FindComponent \/ FollowRuns \/ FindNext \/ FindEnds
    \/ GetattrOrOpenGoesOn \/ ReaddirGoesOn \/ ReaddirEnds \/ ReadGoesOn
    \/ ReadlinkGoesOn

FsNext == Call \/ Step \/ Returned

\* An operation that was called goes on.
FsSpec == FsInit /\ [][FsNext]_mountVars /\ WF_mountVars(Step)

-----------------------------------------------------------------------------
(* Properties. *)

\* The directory that dir's bytes spell: the root, or what is left of it.
WholeDirectory ==
    /\ dir = volume.inode[RootNumber]
    /\ \A b \in DOMAIN dir.block : \A x \in 0 .. (BlockBytes - 1) :
          CanRead(dir.block[b] * BlockBytes + x)

NameAddress(e) == DirAddress(dir, e.at) + HeaderBytes

\* A name is followed by a zero byte: padding, or the low byte of what follows.
Terminated(e) ==
    LET a == NameAddress(e) + Len(e.name)
    IN  CanRead(a) /\ volume.bytes[a] = 0

\* A search through a whole directory finds a name just if it ends the name of
\* an entry whose last byte is followed by a zero byte: no entry is passed
\* over because others precede it or because of where its block lies, and
\* nothing but names is taken for a name.  (A name whose length is a multiple
\* of 4 has no zero byte unless it is the last of its block, against
\* ext2.c:268-270; and the end of a name is found too, against ext2.c:309.)
SearchFindsNames ==
    follow \in {"match", "zero"} /\ wanted # NoFunction /\ WholeDirectory =>
        (follow = "match"
            <=> \E e \in volume.entries : Terminated(e) /\ IsSuffix(wanted, e.name))

\* The volumes for which SearchFindsNames is proved.  v spells the string w at
\* address p, with its zero byte, in bytes that can be read.
Spells(v, p, w) ==
    \A x \in 0 .. Len(w) :
        /\ p + x < Cardinality(DOMAIN v.bytes) /\ (p + x) \div BlockBytes \notin v.bad
        /\ v.bytes[p + x] = IF x < Len(w) THEN w[x + 1] ELSE 0

\* A name as paths have them: no zero byte in it, and room for one after it.
IsName(w) == w \in Seq(Nat \ {0}) /\ Len(w) \in 1 .. (NameBytes - 1)

\* The root directory as mke2fs and Linux write it: whole blocks, none smaller
\* than a dir_entry_t, and in them the names of its entries.
RootFormatted(v) ==
    LET root == v.inode[RootNumber]
    IN  /\ EntryBytes <= BlockBytes
        /\ IsFiniteSet(DOMAIN v.bytes)
        /\ v.bytes \in [0 .. (Cardinality(DOMAIN v.bytes) - 1) -> Nat]
        /\ root.type = Directory /\ root.block \in Seq(Nat)
        /\ root.size = Len(root.block) * BlockBytes
        /\ \A e \in v.entries :
              /\ e.at \in 0 .. (root.size - 1) /\ e.name \in Seq(Nat \ {0})
              /\ (e.at % BlockBytes) + HeaderBytes + Len(e.name) <= BlockBytes
              /\ \A x \in 1 .. Len(e.name) :
                    v.bytes[DirAddress(root, e.at) + HeaderBytes + x - 1] = e.name[x]

\* Only the entries' names spell w: no number or length in a header does, and
\* nothing behind the last entry of a block.
OnlyEntriesSpell(v, w) ==
    LET root == v.inode[RootNumber]
    IN  \A x \in 0 .. (root.size - 1) :
            Spells(v, DirAddress(root, x) + HeaderBytes, w) =>
                \E e \in v.entries :
                    /\ Len(w) <= Len(e.name)
                    /\ DirAddress(root, x) + Len(w) = DirAddress(root, e.at) + Len(e.name)

RootsAreFormatted == \A v \in Volumes : RootFormatted(v)

PathsHaveNames ==
    \A p \in Paths :
        p.names \in Seq(Seq(Nat \ {0})) /\ \A n \in DOMAIN p.names : IsName(p.names[n])

OnlyNamesAreSpelled ==
    \A v \in Volumes, p \in Paths : \A n \in DOMAIN p.names :
        OnlyEntriesSpell(v, p.names[n])

\* No operation learns anything from the volume about a file of the root
\* directory: whether "/name" is found, which number it has and which inode
\* ext2_getattr reports are what malloc left, whether or not there is such an
\* entry.  For longer paths the volume decides at most that the answer is 0.
\* (ext2.c:336-340 promises the number and the inode of the file.)
AnswersAreLeftovers ==
    /\ stage = "answer" /\ path.absolute /\ path # Root =>
          /\ found \in {0, de_inode_no}
          /\ Len(path.names) = 1 => found = de_inode_no /\ inode = fresh
    /\ stat # NoInode /\ Len(path.names) = 1 /\ path.absolute => stat = fresh

\* ext2_readdir never succeeds: it answers that there is no such directory or
\* calls the null pointer it passed, and lists nothing (ext2fs.c:157-160
\* promises 0 and a call of filler for each entry).
ReaddirNeverSucceeds == op = "readdir" /\ stage = "returned" => result = -ENOENT

\* Every operation returns or faults, whatever inode it starts from.
OperationsEnd == (stage # "idle") ~> (stage \in {"returned", "fault"})
=============================================================================
