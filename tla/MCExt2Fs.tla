------------------------------ MODULE MCExt2Fs ------------------------------
(***************************************************************************)
(* Small volumes for Ext2Fs: a root directory of one or two blocks, and the *)
(* memory and paths its operations meet.                                    *)
(***************************************************************************)
EXTENDS Ext2Fs

\* Letters; no header byte below is one of them.
a == 97
b == 98
c == 99
d == 100

Zeros(n) == [x \in 1 .. n |-> 0]

\* An entry as the format has it: number, rec_len, name_len, file_type, name.
EntryOf(number, name, rec_len) ==
    <<number, 0, 0, 0, rec_len, 0, Len(name), 1>> \o name
    \o Zeros(rec_len - HeaderBytes - Len(name))

\* A block of entries <<number, name>> of 12 bytes each; the last one's
\* rec_len reaches to the end of the block.
DirBlock(entries) ==
    LET n == Len(entries)
        RecLen(x) == IF x < n THEN 12 ELSE BlockBytes - 12 * (n - 1)
    IN  FlattenSeq([x \in 1 .. n |-> EntryOf(entries[x][1], entries[x][2], RecLen(x))])

EntriesOf(first, entries) ==
    {[at |-> first + 12 * (x - 1), number |-> entries[x][1], name |-> entries[x][2]] :
        x \in DOMAIN entries}

\* Block 0 of a volume is empty.  blocks gives the content of the others,
\* numbers the blocks of the directory.
Volume(blocks, numbers, contents, bad) ==
    LET bytes == Zeros(BlockBytes) \o FlattenSeq(blocks)
    IN  [bytes |-> [x \in 0 .. (Len(bytes) - 1) |-> bytes[x + 1]],
         bad |-> bad,
         inode |-> (2 :> [type |-> Directory, size |-> Len(numbers) * BlockBytes,
                          block |-> numbers])
                   @@ (3 :> [type |-> 8, size |-> 100, block |-> <<2>>]),
         entries |-> UNION {EntriesOf((x - 1) * BlockBytes, contents[x])
                              : x \in DOMAIN contents}]

\* A name without padding before another entry, and one before an unused entry.
First == <<<<2, <<46>>>>, <<3, <<a, b, c, d>>>>, <<4, <<c>>>>>>
Second == <<<<5, <<b, a, c, d>>>>, <<0, <<d, a>>>>, <<6, <<a, c>>>>>>
\* The last name ends with the block.
Full == <<<<2, <<46>>>>, <<3, <<a, d>>>>, <<4, <<b, b, c, d>>>>>>

Other == [x \in 1 .. BlockBytes |-> b]

SmallVolumes ==
    {Volume(<<DirBlock(First), Zeros(BlockBytes)>>, <<1>>, <<First>>, {}),
     Volume(<<DirBlock(First), Other, DirBlock(Second)>>, <<1, 3>>, <<First, Second>>, {}),
     Volume(<<DirBlock(Second), DirBlock(Full)>>, <<2, 1>>, <<Full, Second>>, {}),
     Volume(<<DirBlock(Full), Other>>, <<1>>, <<Full>>, {2}),
     Volume(<<DirBlock(First), DirBlock(Second)>>, <<1, 2>>, <<First, Second>>, {2})}

Names == {<<a, b, c, d>>, <<c, d>>, <<c>>, <<d, a>>, <<a, c>>, <<a, d>>, <<b, b>>}

SmallPaths ==
    {Root, [absolute |-> FALSE, names |-> <<<<c>>>>]}
    \union {[absolute |-> TRUE, names |-> ns] :
              ns \in {<<<<c>>>>, <<<<a, c>>, <<d>>, <<c>>>>} \union {<<n, <<c>>>> : n \in Names}}

\* Memory never used, the root's inode, a file's, and a directory's of which
\* free has overwritten the first fields.
SmallLeftInodes ==
    {NoInode, [type |-> Directory, size |-> 5, block |-> <<9>>]}
    \union UNION {{v.inode[2], v.inode[3]} : v \in SmallVolumes}

SmallReads == {<<98, 4>>, <<101, 4>>}

ASSUME SmallVolumesAssumption == RootsAreFormatted /\ PathsHaveNames /\ OnlyNamesAreSpelled
=============================================================================
