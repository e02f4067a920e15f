----------------------------- MODULE Ext2Proofs -----------------------------
(***************************************************************************)
(* Theorems about lab7/ext2.c: reads of every size, at every offset and of  *)
(* every volume, with widths of any size; and about searches through its    *)
(* directories and the operations of ext2fs.c.                              *)
(***************************************************************************)
EXTENDS Ext2, Ext2Fs, NatLemmas, SequenceTheorems

-----------------------------------------------------------------------------
(* What is read. *)

LEMMA WordsAreNumbers ==
  ASSUME NEW img \in Images
  PROVE  VolumeWords(img) \in [0 .. (img.length - 1) -> Nat]
<1> DEFINE w(a) ==
        LET b == a \div PtrsPerBlock
            x == a % PtrsPerBlock
            held == {node \in DOMAIN img.place : img.place[node] = b}
        IN  IF held = {} THEN U32 - 1
            ELSE LET node == CHOOSE node \in held : TRUE
                 IN  IF node[1] = 0 THEN Data(node[2] * PtrsPerBlock + x)
                     ELSE BlockOf(img, Child(node, x))
<1>1. ASSUME NEW a \in 0 .. (img.length - 1)
      PROVE  w(a) \in Nat
  <2> DEFINE held == {node \in DOMAIN img.place : img.place[node] = a \div PtrsPerBlock}
             node == CHOOSE node \in held : TRUE
  <2>1. CASE held = {}
    BY <2>1, Ext2Assumption
  <2>2. CASE held # {}
    <3>1. node \in held
      BY <2>2
    <3> HIDE DEF node
    <3>2. CASE node[1] = 0
      <4>1. node[2] \in Nat
        BY <3>1, <3>2, ImagesAssumption
      <4>2. a % PtrsPerBlock \in Nat /\ node[2] * PtrsPerBlock \in Nat
        BY <4>1, ImagesAssumption, Ext2Assumption
      <4>3. U32 \div 4 \in Nat
        BY Ext2Assumption
      <4>4. Data(node[2] * PtrsPerBlock + (a % PtrsPerBlock)) \in Nat
        BY <4>2, <4>3 DEF Data
      <4>5. QED
        BY <2>2, <3>2, <4>4 DEF node
    <3>3. CASE node[1] # 0
      <4>1. BlockOf(img, Child(node, a % PtrsPerBlock)) \in Nat
        BY ImagesAssumption DEF BlockOf
      <4>2. QED
        BY <2>2, <3>3, <4>1 DEF node
    <3>4. QED
      BY <3>2, <3>3
  <2>3. QED
    BY <2>1, <2>2
<1> HIDE DEF w
<1>2. [a \in 0 .. (img.length - 1) |-> w(a)] \in [0 .. (img.length - 1) -> Nat]
  BY <1>1
<1>3. VolumeWords(img) = [a \in 0 .. (img.length - 1) |-> w(a)]
  BY DEF VolumeWords, w
<1>4. QED
  BY <1>2, <1>3

\* What of the state never changes.
VolumeInv == image \in Images /\ words = VolumeWords(image)

LEMMA AddressIsNumber ==
  ASSUME NEW b \in Nat, NEW at \in Nat
  PROVE  Address(b, at) \in Nat
BY Ext2Assumption DEF Address

LEMMA EntryIsNumber ==
  ASSUME VolumeInv, NEW b \in Nat, NEW index \in Nat
  PROVE  read_ind_block_entry(b, index) \in Nat
<1>1. Address(b, index % U32) \in Nat
  BY AddressIsNumber, Ext2Assumption
<1>2. words \in [0 .. (image.length - 1) -> Nat] /\ image.length \in Nat
  BY WordsAreNumbers, ImagesAssumption DEF VolumeInv
<1>3. U32 - 1 \in Nat
  BY Ext2Assumption
<1>4. QED
  BY <1>1, <1>2, <1>3 DEF read_ind_block_entry, Readable, EXT2_INVALID_BLOCK_NUMBER

LEMMA BlockNumber ==
  ASSUME VolumeInv, NEW idx \in Nat
  PROVE  get_inode_block_no(idx) \in Nat
<1> DEFINE n == PtrsPerBlock
<1>1. n \in Nat \ {0} /\ n * n \in Nat \ {0} /\ n * n * n \in Nat \ {0}
  BY Ext2Assumption
<1>2. /\ FirstIndex(1) = 12 /\ FirstIndex(2) = 12 + n /\ FirstIndex(3) = 12 + n + n * n
  BY <1>1 DEF FirstIndex
<1>3. \A node : BlockOf(image, node) \in Nat
  BY ImagesAssumption DEF VolumeInv, BlockOf
<1>4. \A k : i_block(k) \in Nat /\ i_block_ind(k) \in Nat
  BY <1>3 DEF i_block, i_block_ind
<1>5. \A x \in Nat, y \in Nat \ {0} : x \div y \in Nat
  OBVIOUS
<1>6. ASSUME idx >= 12 PROVE single(idx) \in Nat
  <2>1. idx - FirstIndex(1) \in Nat
    BY <1>2, <1>6
  <2>2. QED
    BY <1>4, <2>1, EntryIsNumber DEF single
<1>7. ASSUME idx >= FirstIndex(2) PROVE double(idx) \in Nat
  <2>1. idx - FirstIndex(2) \in Nat
    BY <1>1, <1>2, <1>7
  <2>2. (idx - FirstIndex(2)) \div (n * n) \in Nat
    BY <1>1, <1>5, <2>1
  <2>3. read_ind_block_entry(i_block_ind(2), (idx - FirstIndex(2)) \div (n * n)) \in Nat
    BY <1>4, <2>2, EntryIsNumber
  <2>4. QED
    BY <2>1, <2>3, EntryIsNumber DEF double
<1>8. ASSUME idx >= FirstIndex(3) PROVE triple(idx) \in Nat
  <2> DEFINE index == ((idx - FirstIndex(3)) \div (n * n)) \div (n * n * n)
             third == read_ind_block_entry(i_block_ind(3), index)
             second == read_ind_block_entry(third, index * (n * n * n))
  <2>1. idx - FirstIndex(3) \in Nat
    BY <1>1, <1>2, <1>8
  <2>2. (idx - FirstIndex(3)) \div (n * n) \in Nat
    BY <1>1, <1>5, <2>1
  <2>3. index \in Nat
    BY <1>1, <1>5, <2>2
  <2>4. index * (n * n * n) \in Nat
    BY <1>1, <2>3
  <2>5. third \in Nat
    BY <1>4, <2>3, EntryIsNumber
  <2>6. second \in Nat
    BY <2>4, <2>5, EntryIsNumber
  <2>7. triple(idx) = read_ind_block_entry(second, idx - FirstIndex(3))
    BY DEF triple
  <2>8. QED
    BY <2>1, <2>6, <2>7, EntryIsNumber
<1>9. EXT2_INVALID_BLOCK_NUMBER \in Nat
  BY Ext2Assumption DEF EXT2_INVALID_BLOCK_NUMBER
<1>10. QED
  BY <1>4, <1>6, <1>7, <1>8, <1>9 DEF get_inode_block_no

LEMMA FileAddressIsNumber ==
  ASSUME VolumeInv, NEW at \in Nat
  PROVE  FileAddress(at) \in Nat
<1>1. at \div PtrsPerBlock \in Nat /\ at % PtrsPerBlock \in Nat
  BY Ext2Assumption
<1>2. QED
  BY <1>1, BlockNumber, AddressIsNumber DEF FileAddress

\* A pread gives no more than it was asked for and than the volume holds.
LEMMA PreadBounds ==
  ASSUME VolumeInv, NEW a \in Nat, NEW size \in Nat
  PROVE  /\ pread(a, size) \in -1 .. size
         /\ pread(a, size) > 0 => a + pread(a, size) <= image.length
<1>1. image.length \in Nat
  BY ImagesAssumption DEF VolumeInv
<1>2. CASE size = 0 \/ a >= image.length
  <2>1. pread(a, size) = 0
    BY <1>1, <1>2 DEF pread
  <2>2. QED
    BY <2>1
<1>3. CASE size > 0 /\ a < image.length /\ ~ Readable(a)
  <2>1. ~ (size = 0 \/ a >= image.length)
    BY <1>1, <1>3
  <2>2. pread(a, size) = -1
    BY <1>3, <2>1 DEF pread
  <2>3. QED
    BY <2>2
<1>4. CASE size > 0 /\ a < image.length /\ Readable(a)
  <2> DEFINE T == {size, image.length - a, MaxCount}
                    \union {k - a : k \in {k \in a .. (image.length - 1) : ~ Readable(k)}}
  <2>1. ~ (size = 0 \/ a >= image.length) /\ ~ (size > 0 /\ a < image.length /\ ~ Readable(a))
    BY <1>1, <1>4
  <2>2. pread(a, size) = Min(T)
    BY <2>1 DEF pread
  <2>3. T \in SUBSET Nat /\ size \in T /\ image.length - a \in T
    BY <1>1, <1>4, Ext2Assumption
  <2> HIDE DEF T
  <2>4. Min(T) \in T /\ Min(T) <= size /\ Min(T) <= image.length - a
    BY <2>3, MinProperties
  <2>5. Min(T) \in Nat
    BY <2>3, <2>4
  <2> HIDE DEF pread
  <2>6. QED
    BY <1>1, <2>2, <2>4, <2>5
<1>5. QED
  BY <1>1, <1>2, <1>3, <1>4

-----------------------------------------------------------------------------
(* Steps. *)

\* The count never passes the lower half of what is still to be read, so
\* that it does not wrap, although max_size has more bits.
ReadInv ==
    /\ VolumeInv /\ TypeOK
    /\ buffer \in Seq(Nat)
    /\ read_so_far <= max_size % U32
    /\ pc = "returned" => rv \in {-1, 0} \/ (rv = read_so_far /\ read_so_far = max_size)

\* Inside the file the limit is what there is to read.
LimitInv == offset <= inode_file_size => max_size = Wanted

\* How far offset + max_size may go for the sum to fit into 64 bits.
SumsFit == \A img \in Images, m \in Sizes : img.size + m < U64

LEMMA Remainders ==
  ASSUME NEW w \in Nat \ {0}
  PROVE  /\ \A n \in Int : n % w \in 0 .. (w - 1)
         /\ \A n \in Nat : n % w <= n
         /\ \A n \in 0 .. (w - 1) : n % w = n
OBVIOUS

LEMMA RestOfRemainder ==
  ASSUME NEW w \in Nat \ {0}, NEW n \in Nat, NEW r \in Nat, r <= n % w
  PROVE  (n - r) % w = (n % w) - r
<1>1. PICK q \in Int, x \in 0 .. (w - 1) : n = w * q + x /\ n % w = x
  OBVIOUS
<1>2. n - r = w * q + (x - r) /\ x - r \in 0 .. (w - 1)
  BY <1>1
<1>3. QED
  BY <1>1, <1>2

LEMMA InitInv ==
  ASSUME Init
  PROVE  ReadInv /\ LimitInv
<1>1. VolumeInv
  BY DEF Init, VolumeInv
<1>2. image.size \in Nat /\ image.length \in Nat
  BY ImagesAssumption DEF Init
<1>3. DOMAIN words = 0 .. (image.length - 1)
  BY WordsAreNumbers, <1>1 DEF VolumeInv
<1>4. 0 % U32 = 0 /\ 0 \in 0 .. (U32 - 1) /\ 0 \in 0 .. (U64 - 1) /\ 0 \in -1 .. (U32 - 1)
  BY Ext2Assumption
<1>5. TypeOK
  BY <1>3, <1>4 DEF Init, TypeOK
<1>6. ReadInv
  BY <1>1, <1>4, <1>5 DEF Init, ReadInv
<1>7. LimitInv
  BY <1>2 DEF Init, LimitInv, Wanted, inode_file_size
<1>8. QED
  BY <1>6, <1>7

LEMMA CallInv ==
  ASSUME ReadInv, NEW o \in 0 .. (inode_file_size + 1), NEW m \in Sizes,
         read_file_content(o, m)
  PROVE  ReadInv'
<1> USE DEF inode_file_size
<1>1. /\ image' = image /\ words' = words /\ rv' = rv /\ pc' = "reading"
      /\ offset' = o /\ asked' = m /\ read_so_far' = 0 /\ buffer' = <<>>
      /\ max_size' \in {(image.size - o) % U64, m}
  BY DEF read_file_content
<1>2. image.size \in Nat /\ o \in Nat /\ m \in 0 .. (U64 - 1) /\ image.size - o \in Int
  BY ImagesAssumption, Ext2Assumption DEF ReadInv, VolumeInv
<1>3. max_size' \in 0 .. (U64 - 1)
  BY <1>1, <1>2, Remainders, Ext2Assumption
<1>4. 0 <= max_size' % U32 /\ 0 \in 0 .. (U32 - 1)
  <2>1. PICK x \in Nat, w \in Nat \ {0} : x = max_size' /\ w = U32
    BY <1>3, Ext2Assumption
  <2>2. 0 <= x % w /\ 0 \in 0 .. (w - 1)
    OBVIOUS
  <2>3. QED
    BY <2>1, <2>2
<1>5. TypeOK'
  BY <1>1, <1>2, <1>3, <1>4 DEF ReadInv, TypeOK
<1>6. QED
  BY <1>1, <1>4, <1>5 DEF ReadInv, VolumeInv

LEMMA BlockInv ==
  ASSUME ReadInv, ReadFileBlock
  PROVE  ReadInv'
<1> DEFINE from == FileAddress(offset + read_so_far)
           count == pread(from, (max_size - read_so_far) % U32)
<1>1. PICK m \in Nat, r \in Nat, w \in Nat :
        m = max_size /\ r = read_so_far /\ w = U32 /\ w # 0 /\ r <= m % w
  BY Ext2Assumption DEF ReadInv, TypeOK
<1>2. from \in Nat
  <2>1. VolumeInv /\ offset + read_so_far \in Nat
    BY Ext2Assumption DEF ReadInv, TypeOK
  <2>2. QED
    BY <2>1, FileAddressIsNumber
<1>3. PICK a \in Nat : a = from
  BY <1>2
<1>4. (m - r) % w = (m % w) - r /\ m % w \in 0 .. (w - 1) /\ (m % w) - r \in Nat
  <2>1. w \in Nat \ {0} /\ r <= m % w
    BY <1>1
  <2>2. (m - r) % w = (m % w) - r
    BY <2>1, RestOfRemainder
  <2>3. m % w \in 0 .. (w - 1)
    BY <2>1
  <2>4. QED
    BY <2>1, <2>2, <2>3
<1>5. /\ count \in -1 .. ((m % w) - r)
      /\ count > 0 => a + count <= image.length
  BY <1>1, <1>3, <1>4, PreadBounds DEF ReadInv
<1>6. PICK n \in Int : n = count
  BY <1>5
<1>7. \/ n <= 0 /\ Return(n)
      \/ /\ n > 0
         /\ read_so_far' = (r + n) % w
         /\ buffer' = buffer \o [k \in 1 .. n |-> words[a + k - 1]]
         /\ UNCHANGED <<image, words, offset, asked, max_size, rv, pc>>
  <2>1. IF n <= 0
        THEN Return(n)
        ELSE /\ read_so_far' = (read_so_far + n) % U32
             /\ buffer' = buffer \o [k \in 1 .. n |-> words[a + k - 1]]
             /\ UNCHANGED <<image, words, offset, asked, max_size, rv, pc>>
    BY <1>3, <1>6, Zenon DEF ReadFileBlock
  <2>2. n <= 0 \/ n > 0
    OBVIOUS
  <2>3. QED
    BY <1>1, <2>1, <2>2
<1> HIDE DEF from, count
<1>8. CASE n <= 0 /\ Return(n)
  <2>1. n \in {-1, 0} /\ n \in -1 .. (U32 - 1)
    BY <1>5, <1>6, <1>8, <1>1
  <2>2. QED
    BY <1>8, <2>1 DEF Return, ReadInv, TypeOK, VolumeInv
<1>9. CASE /\ n > 0
           /\ read_so_far' = (r + n) % w
           /\ buffer' = buffer \o [k \in 1 .. n |-> words[a + k - 1]]
           /\ UNCHANGED <<image, words, offset, asked, max_size, rv, pc>>
  <2>1. r + n \in 0 .. (w - 1) /\ r + n <= m % w
    <3>1. (m % w) - r \in Nat /\ n \in 1 .. ((m % w) - r)
      BY <1>4, <1>5, <1>6, <1>9
    <3>2. QED
      BY <1>1, <1>4, <3>1
  <2>2. read_so_far' = r + n
    BY <1>1, <1>9, <2>1, Remainders
  <2>3. words \in [0 .. (image.length - 1) -> Nat] /\ image.length \in Nat
    BY WordsAreNumbers, ImagesAssumption DEF ReadInv, VolumeInv
  <2>4. \A k \in 1 .. n : words[a + k - 1] \in Nat
    <3>1. PICK l \in Nat : l = image.length
      BY <2>3
    <3>2. a + n <= l
      BY <1>3, <1>5, <1>6, <1>9, <3>1
    <3>3. \A k \in 1 .. n : a + k - 1 \in 0 .. (l - 1)
      BY <3>2
    <3>4. QED
      BY <2>3, <3>1, <3>3
  <2>5. [k \in 1 .. n |-> words[a + k - 1]] \in Seq(Nat)
        /\ Len([k \in 1 .. n |-> words[a + k - 1]]) = n
    BY <1>9, <2>4
  <2>6. buffer' \in Seq(Nat) /\ Len(buffer') = Len(buffer) + n
    BY <1>9, <2>5 DEF ReadInv
  <2>7. read_so_far' = Len(buffer')
    BY <1>1, <2>2, <2>6 DEF ReadInv, TypeOK
  <2>8. pc = "reading"
    BY DEF ReadFileBlock
  <2>9. QED
    BY <1>1, <1>9, <2>1, <2>2, <2>6, <2>7, <2>8 DEF ReadInv, TypeOK, VolumeInv
<1>10. QED
  BY <1>7, <1>8, <1>9

LEMMA EndInv ==
  ASSUME ReadInv, ReadEnds
  PROVE  ReadInv'
<1>1. max_size \in Nat /\ read_so_far \in 0 .. (U32 - 1) /\ U32 \in Nat \ {0}
  BY Ext2Assumption DEF ReadInv, TypeOK
<1>2. read_so_far = max_size /\ read_so_far \in -1 .. (U32 - 1)
  <2>1. max_size % U32 <= max_size /\ max_size % U32 \in Nat
    BY <1>1
  <2>2. read_so_far <= max_size % U32 /\ read_so_far >= max_size
    BY DEF ReadInv, ReadEnds
  <2>3. QED
    BY <1>1, <2>1, <2>2
<1>3. QED
  BY <1>2 DEF ReadEnds, Return, ReadInv, TypeOK, VolumeInv

LEMMA IdleInv ==
  ASSUME ReadInv, Idle
  PROVE  ReadInv'
<1>1. 0 % U32 = 0 /\ 0 \in 0 .. (U32 - 1) /\ 0 \in 0 .. (U64 - 1) /\ 0 \in -1 .. (U32 - 1)
  BY Ext2Assumption
<1>2. QED
  BY <1>1 DEF Idle, ReadInv, TypeOK, VolumeInv

LEMMA NextInv ==
  ASSUME ReadInv, [Next]_vars
  PROVE  ReadInv'
<1>1. CASE \E o \in 0 .. (inode_file_size + 1), m \in Sizes : read_file_content(o, m)
  BY <1>1, CallInv
<1>2. CASE ReadFileBlock
  BY <1>2, BlockInv
<1>3. CASE ReadEnds
  BY <1>3, EndInv
<1>4. CASE Idle
  BY <1>4, IdleInv
<1>5. CASE UNCHANGED vars
  BY <1>5 DEF vars, ReadInv, TypeOK, VolumeInv
<1>6. QED
  BY <1>1, <1>2, <1>3, <1>4, <1>5 DEF Next

THEOREM ReadInvariant == Spec => []ReadInv
<1>1. Init => ReadInv
  BY InitInv
<1>2. ReadInv /\ [Next]_vars => ReadInv'
  BY NextInv
<1>3. QED
  BY <1>1, <1>2, PTL DEF Spec

\* read_file_content keeps to its types for every size and offset that fits
\* into 64 bits: although it counts in 32 bits, the count is always the length
\* of what it has stored, and what it returns is -1 or such a count.
THEOREM ReadsKeepTheirTypes == Spec => []TypeOK
<1>1. ReadInv => TypeOK
  BY DEF ReadInv
<1>2. QED
  BY <1>1, ReadInvariant, PTL

LEMMA NextLimit ==
  ASSUME SumsFit, ReadInv, LimitInv, [Next]_vars
  PROVE  LimitInv'
<1> USE DEF inode_file_size
<1>1. ASSUME NEW o \in 0 .. (inode_file_size + 1), NEW m \in Sizes, read_file_content(o, m)
      PROVE  LimitInv'
  <2>1. PICK s \in Nat : s = image.size
    BY ImagesAssumption DEF ReadInv, VolumeInv
  <2>2. o \in Nat /\ m \in Nat /\ U64 \in Nat \ {0} /\ s + m < U64
    BY <2>1, Ext2Assumption DEF ReadInv, VolumeInv, SumsFit
  <2>3. /\ image' = image /\ offset' = o /\ asked' = m
        /\ max_size' = IF (o + m) % U64 > s THEN (s - o) % U64 ELSE m
    BY <1>1, <2>1 DEF read_file_content
  <2>4. SUFFICES ASSUME o <= s
                 PROVE  max_size' = IF o + m > s THEN s - o ELSE m
    BY <2>1, <2>3 DEF LimitInv, Wanted
  <2>5. o + m \in 0 .. (U64 - 1) /\ s - o \in 0 .. (U64 - 1)
    BY <2>1, <2>2, <2>4
  <2>6. (o + m) % U64 = o + m /\ (s - o) % U64 = s - o
    BY <2>2, <2>5, Remainders
  <2>7. QED
    BY <2>3, <2>6
<1>2. CASE ReadFileBlock
  BY <1>2 DEF ReadFileBlock, Return, LimitInv, Wanted
<1>3. CASE ReadEnds
  BY <1>3 DEF ReadEnds, Return, LimitInv, Wanted
<1>4. CASE Idle
  <2>1. image.size \in Nat
    BY ImagesAssumption DEF ReadInv, VolumeInv
  <2>2. QED
    BY <1>4, <2>1 DEF Idle, LimitInv, Wanted
<1>5. CASE UNCHANGED vars
  BY <1>5 DEF vars, LimitInv, Wanted
<1>6. QED
  BY <1>1, <1>2, <1>3, <1>4, <1>5 DEF Next

\* A read inside the file that fits into 64 bits returns all there is to read,
\* or 0, or -1, and never stores more than there is, whatever the layout of
\* the file, its bad sectors and the place where the volume is cut.
THEOREM ReadsAreAllOrNothing ==
  ASSUME SumsFit
  PROVE  Spec => []AllOrNothing
<1>1. Init => ReadInv /\ LimitInv
  BY InitInv
<1>2. ReadInv /\ LimitInv /\ [Next]_vars => (ReadInv /\ LimitInv)'
  BY NextInv, NextLimit, SumsFit
<1>3. ASSUME ReadInv, LimitInv PROVE AllOrNothing
  <2>1. SUFFICES ASSUME InFile PROVE rv \in {-1, 0, Wanted} /\ Len(buffer) <= Wanted
    BY DEF AllOrNothing
  <2>2. max_size = Wanted
    BY <1>3, <2>1 DEF InFile, LimitInv
  <2>3. max_size \in Nat /\ read_so_far \in Nat /\ read_so_far = Len(buffer)
    BY <1>3, Ext2Assumption DEF ReadInv, TypeOK
  <2>4. read_so_far <= max_size
    <3>1. max_size % U32 <= max_size /\ max_size % U32 \in Nat
      BY <2>3, Ext2Assumption
    <3>2. read_so_far <= max_size % U32
      BY <1>3 DEF ReadInv
    <3>3. QED
      BY <2>3, <3>1, <3>2
  <2>5. QED
    BY <1>3, <2>1, <2>2, <2>3, <2>4 DEF InFile, ReadInv
<1>4. QED
  BY <1>1, <1>2, <1>3, PTL DEF Spec


LEMMA QuotientOf ==
  ASSUME NEW q \in Nat, NEW r \in Nat, NEW b \in Nat \ {0}, r < b
  PROVE  (b * q + r) \div b = q /\ (b * q + r) % b = r
OBVIOUS

LEMMA AppendIs ==
  ASSUME NEW s \in Seq(Nat), NEW e \in Nat, NEW t \in Seq(Nat), Len(t) = Len(s) + 1,
         \A i \in 1 .. Len(s) : t[i] = s[i], t[Len(s) + 1] = e
  PROVE  Append(s, e) = t
<1>1. /\ Append(s, e) \in Seq(Nat) /\ Len(Append(s, e)) = Len(t)
      /\ \A i \in 1 .. Len(Append(s, e)) : Append(s, e)[i] = t[i]
  OBVIOUS
<1>2. QED
  BY <1>1, SeqEqual

-----------------------------------------------------------------------------
(* Which block of the volume get_inode_block_no finds. *)

\* What a volume as mke2fs makes it says of its widths.
LEMMA Widths ==
  ASSUME VolumeInv, Formatted(image)
  PROVE  /\ PtrsPerBlock \in Nat \ {0} /\ U32 \in Nat \ {0} /\ PtrsPerBlock <= U32
         /\ image.length \in Nat /\ image.size \in Nat
         /\ image.length + PtrsPerBlock <= U32
         /\ \E blocks \in Nat : image.length = PtrsPerBlock * blocks
<1>1. /\ PtrsPerBlock \in Nat \ {0} /\ U32 \in Nat \ {0}
      /\ image.length \in Nat /\ image.size \in Nat
      /\ image.length + PtrsPerBlock <= U32 /\ image.length % PtrsPerBlock = 0
  BY Ext2Assumption, ImagesAssumption DEF VolumeInv, Formatted
<1>2. PICK p \in Nat \ {0}, l \in Nat : p = PtrsPerBlock /\ l = image.length
  BY <1>1
<1>3. l = p * (l \div p) /\ l \div p \in Nat
  BY <1>1, <1>2
<1>4. QED
  BY <1>1, <1>2, <1>3

\* The words of a block with a node, and how they are read.
LEMMA WordsOfNode ==
  ASSUME VolumeInv, Formatted(image), NEW node \in DOMAIN image.place, NEW w \in Entries
  PROVE  LET a == PtrsPerBlock * image.place[node] + w
         IN  /\ image.place[node] \in Nat /\ a \in Nat /\ a < U32
             /\ Address(image.place[node], w) = a
             /\ a \div PtrsPerBlock = image.place[node] /\ a % PtrsPerBlock = w
             /\ a < image.length <=> ~ CutOff(node)
             /\ Readable(a) <=> ~ CutOff(node) /\ ~ IsBad(node)
             /\ a < image.length =>
                   words[a] = IF node[1] = 0 THEN Data(node[2] * PtrsPerBlock + w)
                              ELSE BlockOf(image, Child(node, w))
<1>1. PICK p \in Nat \ {0}, b \in Nat, l \in Nat, u \in Nat \ {0}, m \in Nat :
         /\ p = PtrsPerBlock /\ b = image.place[node] /\ l = image.length /\ u = U32
         /\ l = p * m /\ (b + 1) * p <= u /\ w \in 0 .. (p - 1)
  BY Widths, ImagesAssumption DEF VolumeInv, Formatted, Entries
<1>2. /\ p * b + w \in Nat /\ p * b + w < u
      /\ (p * b + w) \div p = b /\ (p * b + w) % p = w
      /\ (p * b + w) % u = p * b + w
  <2>1. p * b \in Nat /\ (b + 1) * p = p * b + p /\ w \in Nat /\ w < p
    BY <1>1
  <2>2. p * b + w \in Nat /\ p * b + w < u
    BY <1>1, <2>1
  <2>3. p * b + w \in 0 .. (u - 1)
    BY <1>1, <2>2
  <2>4. (p * b + w) % u = p * b + w
    BY <1>1, <2>3, Remainders, Zenon
  <2>5. (p * b + w) \div p = b /\ (p * b + w) % p = w
    BY <1>1, <2>1, QuotientOf, Zenon
  <2>6. QED
    BY <2>2, <2>4, <2>5
<1>3. p * b + w < l <=> b * p < l
  <2>1. CASE b < m
    <3>1. PICK d \in Nat : m = b + 1 + d
      <4>1. m - b - 1 \in Nat /\ m = b + 1 + (m - b - 1)
        BY <2>1
      <4>2. QED
        BY <4>1
    <3>2. l = p * b + p + p * d /\ p * d \in Nat
      BY <1>1, <3>1
    <3>3. QED
      BY <1>1, <3>2
  <2>2. CASE b >= m
    <3>1. PICK d \in Nat : b = m + d
      <4>1. b - m \in Nat /\ b = m + (b - m)
        BY <2>2
      <4>2. QED
        BY <4>1
    <3>2. p * b = l + p * d /\ p * d \in Nat
      BY <1>1, <3>1
    <3>3. QED
      BY <1>1, <3>2
  <2>3. QED
    BY <2>1, <2>2
<1> DEFINE a == p * b + w
<1>4. Address(b, w) = a
  BY <1>1, <1>2 DEF Address
<1>5. a < l <=> ~ CutOff(node)
  BY <1>1, <1>3 DEF CutOff
<1>6. Readable(a) <=> ~ CutOff(node) /\ ~ IsBad(node)
  BY <1>1, <1>2, <1>5 DEF Readable, IsBad
<1>7. ASSUME a < l
      PROVE  words[a] = IF node[1] = 0 THEN Data(node[2] * p + w) ELSE BlockOf(image, Child(node, w))
  <2>1. {n \in DOMAIN image.place : image.place[n] = b} = {node}
    BY <1>1 DEF Formatted
  <2>2. (CHOOSE n \in {node} : TRUE) = node
    OBVIOUS
  <2>3. a \in 0 .. (image.length - 1) /\ a \div PtrsPerBlock = b /\ a % PtrsPerBlock = w
    BY <1>1, <1>2, <1>7
  <2> DEFINE word(x) ==
               LET held == {n \in DOMAIN image.place : image.place[n] = x \div PtrsPerBlock}
               IN  IF held = {} THEN U32 - 1
                   ELSE LET first == CHOOSE n \in held : TRUE
                        IN  IF first[1] = 0
                            THEN Data(first[2] * PtrsPerBlock + (x % PtrsPerBlock))
                            ELSE BlockOf(image, Child(first, x % PtrsPerBlock))
  <2> HIDE DEF a
  <2>4. VolumeWords(image)[a] = word(a)
    <3>1. VolumeWords(image) = [x \in 0 .. (image.length - 1) |-> word(x)]
      BY DEF VolumeWords
    <3> HIDE DEF word
    <3>2. QED
      BY <2>3, <3>1
  <2>5. QED
    BY <1>1, <2>1, <2>2, <2>3, <2>4 DEF VolumeInv
<1>8. QED
  BY <1>1, <1>2, <1>4, <1>5, <1>6, <1>7

\* An entry of an indirect block, if the block can be read.
LEMMA EntryRead ==
  ASSUME VolumeInv, Formatted(image), NEW node \in DOMAIN image.place, node[1] # 0, NEW w \in Entries
  PROVE  read_ind_block_entry(image.place[node], w)
            = IF CutOff(node) \/ IsBad(node) THEN EXT2_INVALID_BLOCK_NUMBER
              ELSE BlockOf(image, Child(node, w))
<1>1. w % U32 = w
  BY Widths DEF Entries
<1>2. QED
  BY <1>1, WordsOfNode DEF read_ind_block_entry

\* What follows from an entry that could not be read is not read either.
LEMMA InvalidAddress ==
  ASSUME VolumeInv, Formatted(image), NEW w \in Entries
  PROVE  /\ Address(EXT2_INVALID_BLOCK_NUMBER, w) >= image.length
         /\ Address(EXT2_INVALID_BLOCK_NUMBER, w) \in Nat
         /\ read_ind_block_entry(EXT2_INVALID_BLOCK_NUMBER, w) = EXT2_INVALID_BLOCK_NUMBER
<1>1. PICK p \in Nat \ {0}, l \in Nat, u \in Nat \ {0} :
         p = PtrsPerBlock /\ l = image.length /\ u = U32 /\ p + l <= u /\ w \in 0 .. (p - 1)
  BY Widths DEF Entries
<1>2. p * (u - 1) + w = u * (p - 1) + (u - p + w) /\ u - p + w \in 0 .. (u - 1)
  BY <1>1
<1>3. (p * (u - 1) + w) % u = u - p + w
  <2>1. p - 1 \in Nat /\ u - p + w \in Nat /\ u - p + w < u
    BY <1>1, <1>2
  <2>2. PICK q \in Nat, r \in Nat : q = p - 1 /\ r = u - p + w /\ r < u
    BY <2>1
  <2>3. u \in Nat \ {0} /\ r < u
    BY <1>1, <2>2
  <2>4. (u * q + r) % u = r
    BY <2>3, QuotientOf, Zenon
  <2>5. QED
    BY <1>2, <2>2, <2>4
<1>4. Address(EXT2_INVALID_BLOCK_NUMBER, w) = u - p + w
  BY <1>1, <1>3 DEF Address, EXT2_INVALID_BLOCK_NUMBER
<1>5. u - p + w >= l /\ w % U32 = w
  BY <1>1
<1>6. QED
  BY <1>1, <1>2, <1>4, <1>5 DEF read_ind_block_entry, Readable

\* The block of the file, or none, and then because an indirect block on the
\* way to it cannot be read.
LEMMA BlockFound ==
  ASSUME VolumeInv, Formatted(image), NEW idx \in Nat, FirstOfLevel(idx),
         <<0, idx>> \in DOMAIN image.place
  PROVE  /\ get_inode_block_no(idx) \in {image.place[<<0, idx>>], EXT2_INVALID_BLOCK_NUMBER}
         /\ (\A node \in Way(idx) : ~ CutOff(node) /\ ~ IsBad(node)) =>
               get_inode_block_no(idx) = image.place[<<0, idx>>]
<1> DEFINE n == PtrsPerBlock
           leaf == <<0, idx>>
           open(node) == ~ CutOff(node) /\ ~ IsBad(node)
           none == EXT2_INVALID_BLOCK_NUMBER
<1>1. n \in Nat \ {0} /\ n <= n * n /\ n * n \in Nat \ {0} /\ n * n * n \in Nat \ {0} /\ 0 \in Entries
  BY Widths DEF Entries
<1>2. /\ FirstIndex(1) = 12 /\ FirstIndex(2) = 12 + n /\ FirstIndex(3) = 12 + n + n * n
  BY <1>1 DEF FirstIndex
<1>3. BlockOf(image, leaf) = image.place[leaf]
  BY DEF BlockOf
<1>4. /\ <<1>> \in IndirectNodes /\ <<2>> \in IndirectNodes /\ <<3>> \in IndirectNodes
      /\ <<2, 0>> \in IndirectNodes /\ <<3, 0>> \in IndirectNodes /\ <<3, 0, 0>> \in IndirectNodes
  BY <1>1 DEF IndirectNodes
<1>5. /\ Child(<<2>>, 0) = <<2, 0>> /\ Child(<<3>>, 0) = <<3, 0>>
      /\ Child(<<3, 0>>, 0) = <<3, 0, 0>>
      /\ \A w \in Nat : /\ Child(<<1>>, w) = <<0, FirstIndex(1) + w>>
                        /\ Child(<<2, 0>>, w) = <<0, FirstIndex(2) + w>>
                        /\ Child(<<3, 0, 0>>, w) = <<0, FirstIndex(3) + w>>
  <2>1. /\ Len(<<1>>) = 1 /\ Len(<<2>>) = 1 /\ Len(<<3>>) = 1 /\ Len(<<2, 0>>) = 2
        /\ Len(<<3, 0>>) = 2 /\ Len(<<3, 0, 0>>) = 3
    OBVIOUS
  <2>2. Child(<<2>>, 0) = Append(<<2>>, 0) /\ Child(<<3>>, 0) = Append(<<3>>, 0)
        /\ Child(<<3, 0>>, 0) = Append(<<3, 0>>, 0)
    BY <2>1 DEF Child
  <2>3. Append(<<2>>, 0) = <<2, 0>> /\ Append(<<3>>, 0) = <<3, 0>>
        /\ Append(<<3, 0>>, 0) = <<3, 0, 0>>
    <3>1. ASSUME NEW k \in Nat PROVE Append(<<k>>, 0) = <<k, 0>>
      <4> DEFINE s == <<k>>
                 t == <<k, 0>>
      <4>1. /\ s \in Seq(Nat) /\ t \in Seq(Nat) /\ Len(s) = 1 /\ Len(t) = 2
            /\ t[1] = s[1] /\ t[2] = 0
        OBVIOUS
      <4> HIDE DEF s, t
      <4>2. /\ Len(t) = Len(s) + 1 /\ \A i \in 1 .. Len(s) : t[i] = s[i]
            /\ t[Len(s) + 1] = 0 /\ 0 \in Nat
        BY <4>1
      <4>3. Append(s, 0) = t
        BY <4>1, <4>2, AppendIs, Zenon
      <4>4. QED
        BY <4>3 DEF s, t
    <3>2. Append(<<3, 0>>, 0) = <<3, 0, 0>>
      <4> DEFINE s == <<3, 0>>
                 t == <<3, 0, 0>>
      <4>1. /\ s \in Seq(Nat) /\ t \in Seq(Nat) /\ Len(s) = 2 /\ Len(t) = 3
            /\ t[1] = s[1] /\ t[2] = s[2] /\ t[3] = 0
        OBVIOUS
      <4> HIDE DEF s, t
      <4>2. /\ Len(t) = Len(s) + 1 /\ \A i \in 1 .. Len(s) : t[i] = s[i]
            /\ t[Len(s) + 1] = 0 /\ 0 \in Nat
        BY <4>1
      <4>3. Append(s, 0) = t
        BY <4>1, <4>2, AppendIs, Zenon
      <4>4. QED
        BY <4>3 DEF s, t
    <3>3. QED
      BY <3>1, <3>2
  <2>4. ASSUME NEW w \in Nat PROVE Child(<<1>>, w) = <<0, FirstIndex(1) + w>>
    BY <1>1, <1>2, <2>1 DEF Child
  <2>5. ASSUME NEW w \in Nat PROVE Child(<<2, 0>>, w) = <<0, FirstIndex(2) + w>>
    BY <1>1, <1>2, <2>1 DEF Child
  <2>6. ASSUME NEW w \in Nat PROVE Child(<<3, 0, 0>>, w) = <<0, FirstIndex(3) + w>>
    BY <1>1, <1>2, <2>1 DEF Child
  <2>7. QED
    BY <2>2, <2>3, <2>4, <2>5, <2>6
\* One level: the entry, or none.
<1>6. ASSUME NEW node \in IndirectNodes, node[1] # 0, NEW w \in Entries,
             Child(node, w) \in DOMAIN image.place
      PROVE  /\ node \in DOMAIN image.place /\ BlockOf(image, node) = image.place[node]
             /\ read_ind_block_entry(image.place[node], w)
                   = IF open(node) THEN image.place[Child(node, w)] ELSE none
  <2>1. node \in DOMAIN image.place
    BY <1>6 DEF Formatted
  <2>2. QED
    BY <1>6, <2>1, EntryRead DEF BlockOf
<1>7. \A w \in Entries : read_ind_block_entry(none, w) = none
  BY InvalidAddress
<1> HIDE DEF none
<1>8. CASE idx < 12
  BY <1>1, <1>2, <1>3, <1>8 DEF get_inode_block_no, i_block
<1>9. CASE idx >= 12 /\ idx < FirstIndex(2)
  <2> DEFINE w == idx - FirstIndex(1)
  <2>1. w \in Entries /\ w \in Nat /\ FirstIndex(1) + w = idx
    BY <1>1, <1>2, <1>9 DEF Entries
  <2>2. Child(<<1>>, w) = leaf
    BY <1>5, <2>1
  <2>3. get_inode_block_no(idx) = single(idx)
    BY <1>1, <1>2, <1>9 DEF get_inode_block_no
  <2>4. single(idx) = read_ind_block_entry(BlockOf(image, <<1>>), w)
    BY DEF single, i_block_ind
  <2> HIDE DEF w
  <2>5. /\ <<1>> \in DOMAIN image.place /\ BlockOf(image, <<1>>) = image.place[<<1>>]
        /\ read_ind_block_entry(image.place[<<1>>], w)
              = IF open(<<1>>) THEN image.place[leaf] ELSE none
    BY <1>4, <1>6, <2>1, <2>2
  <2>6. <<1>> \in Way(idx)
    BY <1>1, <1>2, <1>9, <2>5 DEF Way
  <2>7. QED
    BY <2>3, <2>4, <2>5, <2>6 DEF none
<1>10. CASE idx >= FirstIndex(2) /\ idx < FirstIndex(2) + n
  <2> DEFINE w == idx - FirstIndex(2)
  <2>1. w \in Entries /\ w \in Nat /\ FirstIndex(2) + w = idx /\ idx < FirstIndex(3) /\ idx >= 12
    BY <1>1, <1>2, <1>10 DEF Entries
  <2>2. w \div (n * n) = 0
    BY <1>1, <2>1 DEF Entries
  <2>3. get_inode_block_no(idx) = double(idx)
    BY <1>1, <1>2, <1>10, <2>1 DEF get_inode_block_no
  <2>4. double(idx) = read_ind_block_entry(read_ind_block_entry(BlockOf(image, <<2>>), 0), w)
    BY <2>2 DEF double, i_block_ind
  <2>5. Child(<<2, 0>>, w) = leaf
    BY <1>5, <2>1
  <2> HIDE DEF w
  <2>6. /\ <<2, 0>> \in DOMAIN image.place
        /\ read_ind_block_entry(image.place[<<2, 0>>], w)
              = IF open(<<2, 0>>) THEN image.place[leaf] ELSE none
    BY <1>4, <1>6, <2>1, <2>5
  <2>7. /\ <<2>> \in DOMAIN image.place /\ BlockOf(image, <<2>>) = image.place[<<2>>]
        /\ read_ind_block_entry(image.place[<<2>>], 0)
              = IF open(<<2>>) THEN image.place[<<2, 0>>] ELSE none
    BY <1>1, <1>4, <1>5, <1>6, <2>6
  <2>8. <<2>> \in Way(idx) /\ <<2, 0>> \in Way(idx)
    BY <1>1, <1>2, <1>10, <2>1, <2>6, <2>7 DEF Way
  <2>9. QED
    BY <1>7, <2>1, <2>3, <2>4, <2>6, <2>7, <2>8 DEF none
<1>11. CASE idx - FirstIndex(3) \in 0 .. (n - 1)
  <2> DEFINE w == idx - FirstIndex(3)
  <2>1. /\ w \in Entries /\ w \in Nat /\ FirstIndex(3) + w = idx
        /\ idx >= FirstIndex(3) /\ idx >= FirstIndex(2) /\ idx >= 12
        /\ idx < FirstIndex(3) + n * n * n
    <3>1. n <= n * n * n
      BY <1>1
    <3>2. QED
      BY <1>1, <1>2, <1>11, <3>1 DEF Entries
  <2>2. w \div (n * n) = 0 /\ 0 \div (n * n * n) = 0 /\ 0 * (n * n * n) = 0
    <3>1. w \div (n * n) = 0
      BY <1>1, <2>1 DEF Entries
    <3>2. QED
      BY <1>1, <3>1
  <2>3. get_inode_block_no(idx) = triple(idx)
    BY <1>1, <1>2, <2>1 DEF get_inode_block_no
  <2>4. triple(idx) = read_ind_block_entry(
                         read_ind_block_entry(
                            read_ind_block_entry(BlockOf(image, <<3>>), 0), 0), w)
    BY <2>2 DEF triple, i_block_ind
  <2>5. Child(<<3, 0, 0>>, w) = leaf
    BY <1>5, <2>1
  <2> HIDE DEF w
  <2>6. /\ <<3, 0, 0>> \in DOMAIN image.place
        /\ read_ind_block_entry(image.place[<<3, 0, 0>>], w)
              = IF open(<<3, 0, 0>>) THEN image.place[leaf] ELSE none
    BY <1>4, <1>6, <2>1, <2>5
  <2>7. /\ <<3, 0>> \in DOMAIN image.place
        /\ read_ind_block_entry(image.place[<<3, 0>>], 0)
              = IF open(<<3, 0>>) THEN image.place[<<3, 0, 0>>] ELSE none
    BY <1>1, <1>4, <1>5, <1>6, <2>6
  <2>8. /\ <<3>> \in DOMAIN image.place /\ BlockOf(image, <<3>>) = image.place[<<3>>]
        /\ read_ind_block_entry(image.place[<<3>>], 0)
              = IF open(<<3>>) THEN image.place[<<3, 0>>] ELSE none
    BY <1>1, <1>4, <1>5, <1>6, <2>7
  <2>9. <<3>> \in Way(idx) /\ <<3, 0>> \in Way(idx) /\ <<3, 0, 0>> \in Way(idx)
    BY <1>1, <1>2, <2>1, <2>6, <2>7, <2>8 DEF Way
  <2>10. QED
    BY <1>1, <1>7, <2>1, <2>3, <2>4, <2>6, <2>7, <2>8, <2>9 DEF none
<1>12. QED
  BY <1>1, <1>2, <1>8, <1>9, <1>10, <1>11 DEF FirstOfLevel

-----------------------------------------------------------------------------
(* The words read. *)

LEMMA PreadReads ==
  ASSUME VolumeInv, NEW a \in Nat, NEW size \in Nat
  PROVE  LET n == pread(a, size)
         IN  \/ n = 0 /\ (size = 0 \/ a >= image.length)
             \/ n = -1 /\ a < image.length /\ ~ Readable(a)
             \/ n \in 1 .. size /\ \A k \in 0 .. (n - 1) : a + k < image.length /\ Readable(a + k)
<1>1. PICK l \in Nat : l = image.length
  BY ImagesAssumption DEF VolumeInv
<1>2. CASE size = 0 \/ a >= l
  BY <1>1, <1>2 DEF pread
<1>3. CASE size > 0 /\ a < l /\ ~ Readable(a)
  <2>1. ~ (size = 0 \/ a >= l)
    BY <1>1, <1>3
  <2>2. pread(a, size) = -1
    BY <1>1, <1>3, <2>1 DEF pread
  <2>3. QED
    BY <1>1, <1>3, <2>2
<1>4. CASE size > 0 /\ a < l /\ Readable(a)
  <2> DEFINE T == {size, l - a, MaxCount} \union {k - a : k \in {k \in a .. (l - 1) : ~ Readable(k)}}
             n == pread(a, size)
  <2>1. ~ (size = 0 \/ a >= l) /\ ~ (size > 0 /\ a < l /\ ~ Readable(a))
    BY <1>1, <1>4
  <2>2. n = Min(T)
    BY <1>1, <2>1 DEF pread
  <2>3. /\ \A x \in T : x \in Nat /\ x > 0
        /\ size \in T /\ l - a \in T
        /\ \A k \in a .. (l - 1) : ~ Readable(k) => k - a \in T
    BY <1>1, <1>4, Ext2Assumption
  <2> HIDE DEF T, n
  <2>4. n \in T /\ \A x \in T : n <= x
    <3>1. T \in SUBSET Nat /\ T # {}
      BY <2>3
    <3>2. QED
      BY <2>2, <3>1, MinProperties
  <2>5. n \in 1 .. size /\ n <= l - a
    BY <1>1, <2>3, <2>4
  <2>6. ASSUME NEW k \in 0 .. (n - 1)
        PROVE  a + k < l /\ Readable(a + k)
    <3>1. a + k \in a .. (l - 1) /\ (a + k) - a = k
      BY <1>1, <2>5
    <3>2. k \notin T
      BY <2>4, <2>5
    <3>3. QED
      BY <1>1, <2>3, <3>1, <3>2
  <2>7. QED
    BY <1>1, <2>5, <2>6 DEF n
<1>5. QED
  BY <1>1, <1>2, <1>3, <1>4

LEMMA QuotientGrows ==
  ASSUME NEW x \in Nat, NEW y \in Nat, NEW b \in Nat \ {0}, x <= y
  PROVE  x \div b \in Nat /\ x \div b <= y \div b
OBVIOUS

LEMMA Parts ==
  ASSUME NEW x \in Nat, NEW b \in Nat \ {0}
  PROVE  x \div b \in Nat /\ x % b \in Nat /\ x % b < b /\ x = b * (x \div b) + (x % b)
OBVIOUS

\* The blocks wanted follow each other on the volume.
LEMMA BlocksFollow ==
  ASSUME Contiguous, VolumeInv, WantedBlocks \subseteq Nat,
         \A i, l \in WantedBlocks : i .. l \subseteq WantedBlocks,
         NEW idx \in WantedBlocks, NEW j \in Nat, idx + j \in WantedBlocks
  PROVE  /\ <<0, idx>> \in DOMAIN image.place /\ <<0, idx + j>> \in DOMAIN image.place
         /\ image.place[<<0, idx + j>>] = image.place[<<0, idx>>] + j
<1> DEFINE B(i) == image.place[<<0, i>>]
           T == {d \in Nat : idx + d \in WantedBlocks /\ B(idx + d) # B(idx) + d}
<1>1. \A i \in WantedBlocks :
         /\ i \in Nat /\ <<0, i>> \in DOMAIN image.place /\ B(i) \in Nat
         /\ i + 1 \in WantedBlocks => B(i + 1) = B(i) + 1
  BY ImagesAssumption DEF Contiguous, VolumeInv, BlockOf
<1>2. idx \in Nat /\ B(idx) \in Nat
  BY <1>1
<1>3. T = {}
  <2>1. SUFFICES ASSUME T # {} PROVE FALSE
    OBVIOUS
  <2>2. PICK d \in T : \A x \in T : d <= x
    BY <2>1, LeastElement
  <2>3. d \in Nat /\ B(idx + d) # B(idx) + d
    BY <2>2
  <2>4. d # 0
    <3>1. idx + 0 = idx /\ B(idx) + 0 = B(idx)
      BY <1>2
    <3>2. 0 \notin T
      BY <3>1
    <3>3. QED
      BY <2>2, <3>2
  <2>5. d - 1 \in Nat /\ idx + d \in WantedBlocks /\ idx + (d - 1) \in idx .. (idx + d)
    BY <1>1, <2>2, <2>4
  <2>6. idx + (d - 1) \in WantedBlocks /\ d - 1 \notin T
    <3>1. d - 1 \notin T
      <4> HIDE DEF T
      <4>1. d \in Nat /\ ~ (d <= d - 1)
        BY <2>4, <2>5, <2>3
      <4>2. QED
        BY <2>2, <4>1
    <3>2. QED
      BY <2>5, <3>1
  <2>7. B(idx + (d - 1)) = B(idx) + (d - 1)
    BY <2>5, <2>6
  <2>8. (idx + (d - 1)) + 1 = idx + d
    BY <1>1, <2>5
  <2>9. B(idx + d) = B(idx) + (d - 1) + 1
    BY <1>1, <2>5, <2>6, <2>7, <2>8
  <2>10. B(idx) + (d - 1) + 1 = B(idx) + d
    BY <1>2, <2>3
  <2>11. QED
    BY <2>9, <2>3, <2>10
<1>4. QED
  BY <1>1, <1>3

\* What a read inside the file wants.
LEMMA WantedIsInterval ==
  ASSUME ReadInv, LimitInv, offset <= inode_file_size
  PROVE  /\ Wanted \in Nat /\ max_size = Wanted /\ read_so_far <= Wanted
         /\ WantedBlocks \subseteq Nat
         /\ \A i, l \in WantedBlocks : i .. l \subseteq WantedBlocks
         /\ \A at \in Nat : offset <= at /\ at < offset + Wanted => at \div PtrsPerBlock \in WantedBlocks
<1>1. /\ max_size = Wanted /\ Wanted \in Nat /\ offset \in Nat /\ read_so_far \in Nat
      /\ PtrsPerBlock \in Nat \ {0} /\ U32 \in Nat \ {0} /\ read_so_far <= max_size % U32
  BY Ext2Assumption DEF ReadInv, LimitInv, TypeOK
<1>2. offset \div PtrsPerBlock \in Nat /\ (offset + Wanted - 1) \div PtrsPerBlock \in Int
  BY <1>1
<1>3. max_size % U32 <= max_size
  BY <1>1
<1>4. ASSUME NEW at \in Nat, offset <= at, at < offset + Wanted
      PROVE  at \div PtrsPerBlock \in WantedBlocks
  <2>1. offset + Wanted - 1 \in Nat /\ at <= offset + Wanted - 1
    BY <1>1, <1>4
  <2>2. QED
    BY <1>1, <1>2, <1>4, <2>1, QuotientGrows DEF WantedBlocks
<1>5. QED
  BY <1>1, <1>2, <1>3, <1>4 DEF WantedBlocks

\* A read inside a file whose wanted blocks follow each other.
Follows == offset <= inode_file_size /\ Contiguous
OpenBlock(at) == LET node == <<0, at \div PtrsPerBlock>> IN ~ CutOff(node) /\ ~ IsBad(node)

\* One pread of such a read: the next words of the file, over the ends of
\* blocks too, or an error, or the end of the volume.
LEMMA NextWords ==
  ASSUME ReadInv, LimitInv, Formatted(image), Follows, read_so_far < max_size
  PROVE  LET at == offset + read_so_far
             node == <<0, at \div PtrsPerBlock>>
             a == FileAddress(at)
             n == pread(a, (max_size - read_so_far) % U32)
             open == \A i \in Way(at \div PtrsPerBlock) : ~ CutOff(i) /\ ~ IsBad(i)
         IN  /\ node \in DOMAIN image.place /\ at \div PtrsPerBlock \in WantedBlocks
             /\ n > 0 => \A k \in 0 .. (n - 1) :
                            words[a + k] = FileWord(image, at + k) /\ OpenBlock(at + k)
             /\ open /\ n = -1 => IsBad(node)
             /\ open /\ n = 0 /\ image.size < U32 => CutOff(node)
<1> DEFINE P == PtrsPerBlock
           at == offset + read_so_far
           idx == at \div P
           w == at % P
           node == <<0, idx>>
           block == image.place[node]
           a == FileAddress(at)
           left == (max_size - read_so_far) % U32
           n == pread(a, left)
           open == \A i \in Way(idx) : ~ CutOff(i) /\ ~ IsBad(i)
<1>1. /\ VolumeInv /\ Contiguous /\ offset <= inode_file_size
      /\ P \in Nat \ {0} /\ U32 \in Nat \ {0} /\ max_size \in Nat /\ offset \in Nat /\ read_so_far \in Nat
      /\ image.size \in Nat
  BY Widths, Ext2Assumption DEF ReadInv, TypeOK, Follows
<1>2. /\ Wanted \in Nat /\ max_size = Wanted
      /\ WantedBlocks \subseteq Nat
      /\ \A i, l \in WantedBlocks : i .. l \subseteq WantedBlocks
      /\ \A x \in Nat : offset <= x /\ x < offset + Wanted => x \div P \in WantedBlocks
  BY <1>1, WantedIsInterval
<1>3. /\ at \in Nat /\ idx \in Nat /\ w \in Entries /\ at = P * idx + w
  <2>1. at \in Nat
    BY <1>1
  <2>2. QED
    BY <1>1, <2>1, Parts DEF Entries
<1>4. idx \in WantedBlocks
  BY <1>1, <1>2, <1>3
<1>5. node \in DOMAIN image.place /\ FirstOfLevel(idx) /\ block \in Nat
  BY <1>1, <1>4, ImagesAssumption DEF Contiguous, VolumeInv
<1>6. left \in Nat /\ left <= max_size - read_so_far /\ (max_size < U32 => left = max_size - read_so_far)
  BY <1>1
<1>7. a = Address(get_inode_block_no(idx), w) /\ a \in Nat
  BY <1>1, <1>3, FileAddressIsNumber DEF FileAddress
<1>8. CASE get_inode_block_no(idx) = EXT2_INVALID_BLOCK_NUMBER /\ EXT2_INVALID_BLOCK_NUMBER # block
  <2>1. a >= image.length
    BY <1>1, <1>3, <1>7, <1>8, InvalidAddress
  <2>2. n = 0
    <3>1. image.length \in Nat
      BY <1>1, Widths
    <3>2. n = 0 \/ a < image.length \/ a + 0 < image.length
      <4>1. n \in 1 .. left => 0 \in 0 .. (n - 1)
        BY <1>6
      <4> HIDE DEF n, a, left
      <4>2. QED
        BY <1>1, <1>6, <1>7, <4>1, PreadReads DEF n
    <3> HIDE DEF n, a
    <3>3. QED
      BY <1>7, <2>1, <3>1, <3>2
  <2>3. ~ open
    BY <1>1, <1>3, <1>5, <1>8, BlockFound
  <2>4. QED
    BY <1>4, <1>5, <2>2, <2>3
<1>9. CASE get_inode_block_no(idx) = block
  <2>1. a = P * block + w
    BY <1>1, <1>3, <1>5, <1>7, <1>9, WordsOfNode
  <2>2. \/ n = 0 /\ (left = 0 \/ a >= image.length)
        \/ n = -1 /\ a < image.length /\ ~ Readable(a)
        \/ n \in 1 .. left /\ \A k \in 0 .. (n - 1) : a + k < image.length /\ Readable(a + k)
    BY <1>1, <1>6, <1>7, PreadReads
  <2>3. /\ a < image.length <=> ~ CutOff(node)
        /\ Readable(a) <=> ~ CutOff(node) /\ ~ IsBad(node)
    <3> HIDE DEF a, w, node, n, left, at, idx
    <3>1. /\ P * image.place[node] + w < image.length <=> ~ CutOff(node)
          /\ Readable(P * image.place[node] + w) <=> ~ CutOff(node) /\ ~ IsBad(node)
      BY <1>1, <1>3, <1>5, WordsOfNode
    <3>2. QED
      BY <2>1, <3>1
  <2>4. n = -1 => IsBad(node)
    BY <2>2, <2>3
  <2>5. n = 0 /\ image.size < U32 => CutOff(node)
    <3>1. SUFFICES ASSUME n = 0, image.size < U32 PROVE CutOff(node)
      OBVIOUS
    <3>2. max_size <= image.size
      BY <1>1, <1>2 DEF Wanted, inode_file_size
    <3>3. left = max_size - read_so_far /\ left # 0
      BY <1>1, <1>6, <3>1, <3>2
    <3>4. a >= image.length /\ image.length \in Nat
      BY <1>1, <2>2, <3>1, <3>3, Widths
    <3>5. QED
      BY <1>7, <2>3, <3>4
  <2>6. ASSUME n > 0, NEW k \in 0 .. (n - 1)
        PROVE  words[a + k] = FileWord(image, at + k) /\ OpenBlock(at + k)
    <3>1. n \in 1 .. left /\ a + k < image.length /\ Readable(a + k)
      BY <2>2, <2>6
    <3> HIDE DEF n, left, a
    <3>2. w + k \in Nat /\ at + k \in Nat /\ offset <= at + k /\ at + k < offset + Wanted
      BY <1>1, <1>2, <1>3, <1>6, <3>1 DEF Entries
    <3> HIDE DEF at, idx, w, block
    <3>3. PICK j \in Nat, x \in Entries : w + k = P * j + x
      <4>1. PICK y \in Nat : y = w + k
        BY <3>2
      <4>2. y \div P \in Nat /\ y % P \in Entries /\ y = P * (y \div P) + (y % P)
        BY <1>1, Parts DEF Entries
      <4>3. QED
        BY <4>1, <4>2
    <3>4. x \in Nat /\ x < P /\ w \in Nat /\ idx + j \in Nat /\ block + j \in Nat
      BY <1>1, <1>3, <1>5, <3>3 DEF Entries
    <3>5. at + k = P * (idx + j) + x
      BY <1>1, <1>3, <3>1, <3>3, <3>4
    <3>6. a + k = P * (block + j) + x
      BY <1>1, <1>5, <2>1, <3>1, <3>3, <3>4
    <3>7. (at + k) \div P = idx + j
      BY <1>1, <3>4, <3>5, QuotientOf
    <3>8. idx + j \in WantedBlocks
      BY <1>2, <3>2, <3>7
    <3> DEFINE node2 == <<0, idx + j>>
    <3>9. node2 \in DOMAIN image.place /\ image.place[node2] = block + j
      BY <1>1, <1>2, <1>4, <3>8, BlocksFollow DEF block
    <3>10. node2[1] = 0 /\ node2[2] = idx + j
      OBVIOUS
    <3> HIDE DEF node2
    <3>11. /\ ~ CutOff(node2) /\ ~ IsBad(node2)
           /\ words[a + k] = Data((idx + j) * P + x)
      <4>1. P * image.place[node2] + x = a + k
        BY <3>6, <3>9
      <4>2. QED
        BY <1>1, <3>1, <3>3, <3>9, <3>10, <4>1, WordsOfNode
    <3>12. (idx + j) * P + x = at + k
      BY <1>1, <3>4, <3>5
    <3>13. FileWord(image, at + k) = Data(at + k)
      BY <3>7, <3>9 DEF FileWord, node2
    <3>14. QED
      BY <3>7, <3>11, <3>12, <3>13 DEF OpenBlock, node2
  <2>7. QED
    BY <1>4, <1>5, <2>4, <2>5, <2>6
<1>10. QED
  BY <1>1, <1>3, <1>5, <1>8, <1>9, BlockFound

-----------------------------------------------------------------------------
(* The content and the answer of such a read. *)

ImagesAreFormatted == \A img \in Images : Formatted(img)

\* Files below 4 GB, as those that i_size alone can describe.
FilesAreShort == \A img \in Images : img.size < U32

\* What has been stored is what the file holds, from blocks that can be read.
ContentInv ==
    Follows =>
        \A k \in 1 .. Len(buffer) :
            buffer[k] = FileWord(image, offset + k - 1) /\ OpenBlock(offset + k - 1)

LEMMA SameFile ==
  ASSUME UNCHANGED <<image, offset, asked>>
  PROVE  /\ (Follows' <=> Follows) /\ Wanted' = Wanted /\ WantedBlocks' = WantedBlocks
         /\ inode_file_size' = inode_file_size
         /\ \A i : FileWord(image, i)' = FileWord(image, i) /\ (OpenBlock(i)' <=> OpenBlock(i))
         /\ \A i : /\ Way(i)' = Way(i) /\ (CutOff(i)' <=> CutOff(i)) /\ (IsBad(i)' <=> IsBad(i))
<1>1. inode_file_size' = inode_file_size
  BY DEF inode_file_size
<1>2. Wanted' = Wanted
  BY <1>1 DEF Wanted
<1>3. WantedBlocks' = WantedBlocks
  BY <1>2 DEF WantedBlocks
<1>4. Contiguous' <=> Contiguous
  BY <1>3 DEF Contiguous
<1>5. \A i : (CutOff(i)' <=> CutOff(i)) /\ (IsBad(i)' <=> IsBad(i)) /\ Way(i)' = Way(i)
  BY DEF CutOff, IsBad, Way
<1>6. \A i : OpenBlock(i)' <=> OpenBlock(i)
  BY <1>5 DEF OpenBlock
<1>7. Follows' <=> Follows
  BY <1>1, <1>4 DEF Follows
<1>8. \A i : FileWord(image, i)' = FileWord(image, i)
  BY DEF FileWord
<1>9. QED
  BY <1>1, <1>2, <1>3, <1>5, <1>6, <1>7, <1>8

LEMMA OneBlock ==
  ASSUME ReadFileBlock
  PROVE  LET a == FileAddress(offset + read_so_far)
             n == pread(a, (max_size - read_so_far) % U32)
         IN  /\ pc = "reading" /\ read_so_far < max_size
             /\ IF n <= 0
                THEN Return(n)
                ELSE /\ read_so_far' = (read_so_far + n) % U32
                     /\ buffer' = buffer \o [k \in 1 .. n |-> words[a + k - 1]]
                     /\ UNCHANGED <<image, words, offset, asked, max_size, rv, pc>>
<1>1. PICK a \in {FileAddress(offset + read_so_far)} :
        \E n \in {pread(a, (max_size - read_so_far) % U32)} :
           IF n <= 0
           THEN Return(n)
           ELSE /\ read_so_far' = (read_so_far + n) % U32
                /\ buffer' = buffer \o [k \in 1 .. n |-> words[a + k - 1]]
                /\ UNCHANGED <<image, words, offset, asked, max_size, rv, pc>>
  BY Zenon DEF ReadFileBlock
<1>2. a = FileAddress(offset + read_so_far)
  OBVIOUS
<1>3. QED
  BY <1>1, <1>2, Zenon DEF ReadFileBlock

LEMMA NextContent ==
  ASSUME ImagesAreFormatted, ReadInv, LimitInv, ContentInv, [Next]_vars
  PROVE  ContentInv'
<1>1. ASSUME NEW o \in 0 .. (inode_file_size + 1), NEW m \in Sizes, read_file_content(o, m)
      PROVE  ContentInv'
  <2>1. buffer' = <<>>
    BY <1>1 DEF read_file_content
  <2>2. Len(buffer') = 0
    BY <2>1
  <2>3. QED
    BY <2>2 DEF ContentInv
<1>2. CASE Idle
  <2>1. buffer' = <<>>
    BY <1>2 DEF Idle
  <2>2. Len(buffer') = 0
    BY <2>1
  <2>3. QED
    BY <2>2 DEF ContentInv
<1>3. CASE UNCHANGED <<image, offset, asked, buffer>>
  BY <1>3, SameFile DEF ContentInv
<1>4. CASE ReadFileBlock /\ buffer' # buffer
  <2> DEFINE at == offset + read_so_far
             a == FileAddress(at)
             n == pread(a, (max_size - read_so_far) % U32)
             new == [k \in 1 .. n |-> words[a + k - 1]]
  <2>1. /\ n > 0 /\ buffer' = buffer \o new /\ UNCHANGED <<image, offset, asked>>
        /\ read_so_far < max_size
    <3>1. n <= 0 \/ n > 0
      <4>1. n \in Int
        <5>1. ReadInv /\ VolumeInv
          BY DEF ReadInv
        <5>2. at \in Nat /\ max_size - read_so_far \in Int /\ U32 \in Nat \ {0}
          BY Ext2Assumption DEF ReadInv, TypeOK
        <5>3. a \in Nat
          BY <5>1, <5>2, FileAddressIsNumber
        <5> HIDE DEF a
        <5>4. (max_size - read_so_far) % U32 \in Nat
          BY <5>2
        <5>5. QED
          BY <5>1, <5>3, <5>4, PreadBounds
      <4> HIDE DEF n
      <4>2. QED
        BY <4>1
    <3>2. /\ read_so_far < max_size
          /\ IF n <= 0
             THEN Return(n)
             ELSE /\ read_so_far' = (read_so_far + n) % U32
                  /\ buffer' = buffer \o [k \in 1 .. n |-> words[a + k - 1]]
                  /\ UNCHANGED <<image, words, offset, asked, max_size, rv, pc>>
      BY <1>4, OneBlock, Zenon
    <3> HIDE DEF n, a
    <3>3. ~ Return(n)
      BY <1>4 DEF Return
    <3>4. QED
      BY <3>1, <3>2, <3>3
  <2>2. SUFFICES ASSUME Follows
                 PROVE  \A k \in 1 .. Len(buffer') :
                           buffer'[k] = FileWord(image, offset + k - 1) /\ OpenBlock(offset + k - 1)
    BY <2>1, SameFile DEF ContentInv
  <2>3. Formatted(image)
    BY DEF ReadInv, VolumeInv, ImagesAreFormatted
  <2>4. \A k \in 0 .. (n - 1) : words[a + k] = FileWord(image, at + k) /\ OpenBlock(at + k)
    BY <2>1, <2>2, <2>3, NextWords
  <2>5. n \in Nat /\ a \in Nat /\ offset \in Nat
    <3>1. at \in Nat /\ max_size - read_so_far \in Int /\ U32 \in Nat \ {0} /\ offset \in Nat
      BY Ext2Assumption DEF ReadInv, TypeOK
    <3>2. (max_size - read_so_far) % U32 \in Nat
      BY <3>1
    <3>3. a \in Nat
      BY <3>1, FileAddressIsNumber DEF ReadInv
    <3> HIDE DEF a
    <3>4. n \in Int
      BY <3>2, <3>3, PreadBounds DEF ReadInv
    <3>5. QED
      BY <2>1, <3>1, <3>3, <3>4
  <2> HIDE DEF n, a
  <2>6. new \in Seq(Nat) /\ Len(new) = n /\ \A k \in 1 .. n : new[k] = words[a + k - 1]
    <3>1. \A k \in 1 .. n : words[a + k - 1] \in Nat
      <4>1. ASSUME NEW k \in 1 .. n PROVE words[a + k - 1] \in Nat
        <5>1. k - 1 \in 0 .. (n - 1) /\ a + (k - 1) = a + k - 1 /\ at + (k - 1) \in Nat
          BY <2>5 DEF ReadInv, TypeOK
        <5>2. words[a + k - 1] = FileWord(image, at + (k - 1))
          BY <2>4, <5>1
        <5>3. U32 \div 4 \in Nat
          BY Ext2Assumption
        <5>4. QED
          BY <5>1, <5>2, <5>3 DEF FileWord, Data
      <4>2. QED
        BY <4>1
    <3>2. QED
      BY <2>5, <3>1
  <2>7. buffer \in Seq(Nat) /\ read_so_far = Len(buffer)
    BY DEF ReadInv, TypeOK
  <2> HIDE DEF new
  <2>8. /\ Len(buffer') = Len(buffer) + n
        /\ \A k \in 1 .. Len(buffer') : buffer'[k] = IF k <= Len(buffer) THEN buffer[k] ELSE new[k - Len(buffer)]
    <3>1. Len(new) \in Nat /\ Len(buffer) \in Nat
      BY <2>5, <2>6, <2>7
    <3>2. PICK s \in Seq(Nat), t \in Seq(Nat) : s = buffer /\ t = new /\ Len(t) = n
      BY <2>6, <2>7
    <3>3. /\ Len(s \o t) = Len(s) + Len(t)
          /\ \A k \in 1 .. Len(s \o t) : (s \o t)[k] = IF k <= Len(s) THEN s[k] ELSE t[k - Len(s)]
      OBVIOUS
    <3>4. QED
      BY <2>1, <3>2, <3>3
  <2>9. ASSUME NEW k \in 1 .. Len(buffer')
        PROVE  buffer'[k] = FileWord(image, offset + k - 1) /\ OpenBlock(offset + k - 1)
    <3>1. CASE k <= Len(buffer)
      BY <2>2, <2>7, <2>8, <3>1 DEF ContentInv
    <3>2. CASE k > Len(buffer)
      <4>1. PICK l \in Nat : l = Len(buffer) /\ k \in 1 .. (l + n) /\ k > l
        BY <2>7, <2>8, <3>2
      <4>2. PICK j \in 0 .. (n - 1) : j = k - Len(buffer) - 1
        <5>1. k - l - 1 \in 0 .. (n - 1)
          BY <2>5, <4>1
        <5>2. QED
          BY <4>1, <5>1
      <4>3. /\ j + 1 \in 1 .. n /\ k - Len(buffer) = j + 1 /\ a + (j + 1) - 1 = a + j
            /\ offset + k - 1 = at + j
        BY <2>5, <2>7, <3>2, <4>2
      <4>4. buffer'[k] = words[a + j]
        BY <2>6, <2>7, <2>8, <3>2, <4>3
      <4>5. QED
        BY <2>4, <4>2, <4>3, <4>4
    <3>3. QED
      BY <2>7, <2>8, <3>1, <3>2
  <2>10. QED
    BY <2>9
<1>5. CASE ReadFileBlock /\ buffer' = buffer
  BY <1>3, <1>5 DEF ReadFileBlock, Return
<1>6. CASE ReadEnds
  BY <1>3, <1>6 DEF ReadEnds, Return
<1>7. CASE UNCHANGED vars
  BY <1>3, <1>7 DEF vars
<1>8. QED
  BY <1>1, <1>2, <1>4, <1>5, <1>6, <1>7 DEF Next

\* Where the blocks that are wanted follow each other, read_file_content finds
\* the first of them through every level of indirect blocks and stores the
\* words of the file, from every offset and over the ends of blocks.
THEOREM ContiguousReadsAreRight ==
  ASSUME SumsFit, ImagesAreFormatted
  PROVE  Spec => []ContiguousIsRight
<1> DEFINE Inv == ReadInv /\ LimitInv /\ ContentInv
<1>1. Init => Inv
  <2> SUFFICES ASSUME Init PROVE Inv
    OBVIOUS
  <2>1. Len(buffer) = 0
    BY DEF Init
  <2>2. QED
    BY <2>1, InitInv DEF ContentInv
<1>2. Inv /\ [Next]_vars => Inv'
  BY NextInv, NextLimit, NextContent
<1>3. Inv => ContiguousIsRight
  <2>1. SUFFICES ASSUME Inv, InFile, rv > 0, Contiguous
                 PROVE  buffer = [k \in 1 .. Wanted |-> FileWord(image, offset + k - 1)]
    BY DEF ContiguousIsRight
  <2>2. max_size = Wanted /\ Follows
    BY <2>1 DEF InFile, LimitInv, Follows
  <2>3. read_so_far = max_size /\ read_so_far = Len(buffer) /\ buffer \in Seq(Nat)
    BY <2>1 DEF InFile, ReadInv, TypeOK
  <2>4. \A k \in 1 .. Wanted : buffer[k] = FileWord(image, offset + k - 1)
    BY <2>1, <2>2, <2>3 DEF ContentInv
  <2>5. buffer = [k \in 1 .. Wanted |-> buffer[k]]
    BY <2>2, <2>3
  <2>6. QED
    BY <2>4, <2>5
<1>4. QED
  BY <1>1, <1>2, <1>3, PTL DEF Spec

\* The wanted blocks that a read has reached can be read.
LEMMA ReachedBlocks ==
  ASSUME ReadInv, ContentInv, Follows, NEW m \in Nat \ {0}, m <= Len(buffer),
         NEW i \in (offset \div PtrsPerBlock) .. ((offset + m - 1) \div PtrsPerBlock)
  PROVE  ~ CutOff(<<0, i>>) /\ ~ IsBad(<<0, i>>)
<1>1. offset \in Nat /\ PtrsPerBlock \in Nat \ {0} /\ Len(buffer) \in Nat
  BY Ext2Assumption DEF ReadInv, TypeOK
<1>2. PICK k \in 1 .. m : (offset + k - 1) \div PtrsPerBlock = i
  <2>1. PICK o \in Nat, b \in Nat \ {0} : o = offset /\ b = PtrsPerBlock
    BY <1>1
  <2>2. i \in Nat /\ o \div b <= i /\ i <= (o + m - 1) \div b
    <3>1. o \div b \in Nat /\ (o + m - 1) \div b \in Int
      BY Parts
    <3>2. QED
      BY <2>1, <3>1
  <2>3. \E k \in 1 .. m : (o + k - 1) \div b = i
    <3>1. /\ o \div b \in Nat /\ o % b \in Nat /\ o % b < b /\ o = b * (o \div b) + (o % b)
          /\ (o + m - 1) \div b \in Nat /\ (o + m - 1) % b \in Nat
          /\ o + m - 1 = b * ((o + m - 1) \div b) + ((o + m - 1) % b)
      BY Parts
    <3>2. CASE i = o \div b
      <4>1. 1 \in 1 .. m /\ o + 1 - 1 = o
        OBVIOUS
      <4>2. QED
        BY <3>2, <4>1
    <3>3. CASE i # o \div b
      <4>1. PICK q \in Nat, r \in Nat, d \in Nat : o = b * q + r /\ r < b /\ i = q + 1 + d
        <5>1. PICK q \in Nat, r \in Nat : q = o \div b /\ r = o % b /\ o = b * q + r /\ r < b
          BY <3>1
        <5>2. i - q - 1 \in Nat /\ i = q + 1 + (i - q - 1)
          BY <2>2, <3>3, <5>1
        <5>3. QED
          BY <5>1, <5>2
      <4>2. PICK x \in Nat, y \in Nat, e \in Nat : o + m - 1 = b * x + y /\ x = i + e
        <5>1. PICK x \in Nat, y \in Nat : x = (o + m - 1) \div b /\ o + m - 1 = b * x + y
          BY <3>1
        <5>2. x - i \in Nat /\ x = i + (x - i)
          BY <2>2, <5>1
        <5>3. QED
          BY <5>1, <5>2
      <4>3. b * d \in Nat /\ b * e \in Nat /\ i \in Nat
        BY <4>1
      <4>4. b * i = b * q + b + b * d
        BY <4>1
      <4>5. b * x = b * i + b * e
        BY <4>2, <4>3
      <4>6. b * i - o + 1 \in 1 .. m /\ o + (b * i - o + 1) - 1 = b * i
        BY <4>1, <4>2, <4>3, <4>4, <4>5
      <4>7. (b * i) \div b = i
        BY <4>3
      <4>8. QED
        BY <4>6, <4>7
    <3>4. QED
      BY <3>2, <3>3
  <2>4. QED
    BY <2>1, <2>3
<1>3. OpenBlock(offset + k - 1)
  <2>1. k \in 1 .. Len(buffer)
    BY <1>1
  <2>2. QED
    BY <2>1 DEF ContentInv
<1>4. QED
  BY <1>2, <1>3 DEF OpenBlock

\* When the answer to a read is known, and what it is.
AnswerDue ==
    /\ offset <= inode_file_size /\ Wanted > 0 /\ Contiguous
    /\ \A idx \in WantedBlocks : \A node \in Way(idx) : ~ CutOff(node) /\ ~ IsBad(node)

AnswerIs(value) ==
    value = IF \E idx \in WantedBlocks : IsBad(<<0, idx>>) THEN -1
            ELSE IF \E idx \in WantedBlocks : CutOff(<<0, idx>>) THEN 0
            ELSE Wanted

LEMMA SameAnswer ==
  ASSUME UNCHANGED <<image, offset, asked>>
  PROVE  (AnswerDue' <=> AnswerDue) /\ (AnswerIs(rv)' <=> AnswerIs(rv'))
<1>1. AnswerDue' <=> AnswerDue
  BY SameFile DEF AnswerDue, Follows
<1>2. AnswerIs(rv)' <=> AnswerIs(rv')
  BY SameFile DEF AnswerIs
<1>3. QED
  BY <1>1, <1>2

LEMMA LastAnswer ==
  ASSUME ReadInv, LimitInv, ContentInv, AnswerDue, ReadEnds
  PROVE  AnswerIs(read_so_far)
<1>1. Follows
  BY DEF AnswerDue, Follows
<1>2. Wanted \in Nat \ {0} /\ max_size = Wanted /\ read_so_far = Wanted /\ Len(buffer) = Wanted
  <2>1. Wanted \in Nat /\ max_size = Wanted /\ read_so_far <= Wanted
    BY <1>1, WantedIsInterval DEF Follows
  <2>2. read_so_far \in Nat /\ read_so_far = Len(buffer) /\ read_so_far >= max_size
    BY Ext2Assumption DEF ReadInv, TypeOK, ReadEnds
  <2>3. QED
    BY <2>1, <2>2 DEF AnswerDue
<1>3. \A idx \in WantedBlocks : ~ CutOff(<<0, idx>>) /\ ~ IsBad(<<0, idx>>)
  <2>1. PICK m \in Nat \ {0} : m = Wanted /\ m <= Len(buffer)
    BY <1>2
  <2>2. WantedBlocks = (offset \div PtrsPerBlock) .. ((offset + m - 1) \div PtrsPerBlock)
    BY <2>1 DEF WantedBlocks
  <2>3. QED
    BY <1>1, <2>1, <2>2, ReachedBlocks
<1>4. QED
  BY <1>2, <1>3 DEF AnswerIs

LEMMA EarlyAnswer ==
  ASSUME FilesAreShort, ImagesAreFormatted, ReadInv, LimitInv, ContentInv, AnswerDue,
         NEW n, read_so_far < max_size, n <= 0,
         n = pread(FileAddress(offset + read_so_far), (max_size - read_so_far) % U32)
  PROVE  AnswerIs(n)
<1> DEFINE P == PtrsPerBlock
           at == offset + read_so_far
           idx == at \div P
           node == <<0, idx>>
<1>1. /\ Follows /\ VolumeInv /\ Formatted(image) /\ image.size < U32
      /\ \A i \in Way(idx) : ~ CutOff(i) /\ ~ IsBad(i)
  <2>1. Follows /\ VolumeInv /\ image \in Images
    BY DEF AnswerDue, Follows, ReadInv, VolumeInv
  <2>2. Formatted(image) /\ image.size < U32
    BY <2>1 DEF ImagesAreFormatted, FilesAreShort
  <2>3. idx \in WantedBlocks
    BY <2>1, <2>2, NextWords
  <2>4. QED
    BY <2>1, <2>2, <2>3 DEF AnswerDue
<1>2. /\ idx \in WantedBlocks /\ node \in DOMAIN image.place
      /\ n = -1 => IsBad(node)
      /\ n = 0 => CutOff(node)
  BY <1>1, NextWords
<1>3. n \in {-1, 0}
  <2>1. /\ max_size \in Nat /\ offset \in Nat /\ read_so_far \in Nat /\ U32 \in Nat \ {0}
    BY Ext2Assumption DEF ReadInv, TypeOK
  <2>2. FileAddress(at) \in Nat /\ (max_size - read_so_far) % U32 \in Nat
    BY <1>1, <2>1, FileAddressIsNumber
  <2>3. n \in -1 .. ((max_size - read_so_far) % U32)
    BY <1>1, <2>2, PreadBounds
  <2>4. QED
    BY <2>2, <2>3
<1>4. CASE n = -1
  BY <1>2, <1>4 DEF AnswerIs
<1>5. CASE n = 0
  <2>1. CutOff(node)
    BY <1>2, <1>5
  <2>2. ASSUME NEW i \in WantedBlocks
        PROVE  ~ IsBad(<<0, i>>)
    <3>1. /\ P \in Nat \ {0} /\ offset \in Nat /\ read_so_far \in Nat /\ read_so_far = Len(buffer)
          /\ WantedBlocks \subseteq Nat /\ \A k, l \in WantedBlocks : k .. l \subseteq WantedBlocks
          /\ image.length \in Nat
      <4>1. offset <= inode_file_size
        BY DEF AnswerDue
      <4>2. QED
        <5>1. WantedBlocks \subseteq Nat /\ \A k, l \in WantedBlocks : k .. l \subseteq WantedBlocks
          BY <4>1, WantedIsInterval
        <5>2. image.length \in Nat
          BY <1>1, Widths
        <5>3. /\ P \in Nat \ {0} /\ offset \in Nat /\ read_so_far \in Nat
              /\ read_so_far = Len(buffer)
          BY Ext2Assumption DEF ReadInv, TypeOK
        <5>4. QED
          BY <5>1, <5>2, <5>3
    <3>2. i \in Nat /\ idx \in Nat
      BY <1>2, <3>1
    <3> DEFINE leaf == <<0, i>>
    <3>3. CASE i >= idx
      <4>1. PICK j \in Nat : idx + j = i
        <5>1. i - idx \in Nat /\ idx + (i - idx) = i
          BY <3>2, <3>3
        <5>2. QED
          BY <5>1
      <4>2. /\ leaf \in DOMAIN image.place
            /\ image.place[leaf] = image.place[node] + j
        BY <1>1, <1>2, <3>1, <4>1, BlocksFollow DEF Follows
      <4>3. image.place[node] \in Nat
        BY <1>1, <1>2, ImagesAssumption DEF VolumeInv
      <4> HIDE DEF node, leaf
      <4>4. PICK b \in Nat, c \in Nat : b = image.place[node] /\ c = image.place[leaf] /\ c = b + j
        BY <4>2, <4>3
      <4>5. PICK p \in Nat \ {0}, z \in Nat : p = P /\ z = image.length
        BY <3>1
      <4>6. b * p >= z
        BY <2>1, <4>4, <4>5 DEF CutOff
      <4>7. c * p >= z
        <5>1. c * p = b * p + j * p /\ j * p \in Nat /\ b * p \in Nat
          BY <4>4, <4>5
        <5>2. QED
          BY <4>5, <4>6, <5>1
      <4>8. CutOff(leaf)
        BY <4>4, <4>5, <4>7 DEF CutOff
      <4>9. ~ IsBad(leaf)
        BY <4>8 DEF IsBad
      <4>10. QED
        BY <4>9 DEF leaf
    <3>4. CASE i < idx
      <4>1. offset \div P <= i
        <5>1. offset \div P \in Nat /\ (offset + Wanted - 1) \div P \in Int
          <6>1. Wanted \in Nat
            BY <1>1, WantedIsInterval DEF Follows
          <6>2. QED
            BY <3>1, <6>1
        <5>2. QED
          BY <3>2, <5>1 DEF WantedBlocks
      <4>2. read_so_far # 0
        <5>1. read_so_far = 0 => idx = offset \div P
          BY <3>1
        <5>2. offset \div P \in Nat
          BY <3>1
        <5>3. QED
          BY <3>2, <3>4, <4>1, <5>1, <5>2
      <4>3. i <= (at - 1) \div P
        <5>1. /\ idx \in Nat /\ at % P \in Nat /\ at = P * idx + (at % P)
          BY <3>1, Parts
        <5>2. PICK d \in Nat : idx = i + 1 + d
          <6>1. idx - i - 1 \in Nat /\ idx = i + 1 + (idx - i - 1)
            BY <3>2, <3>4
          <6>2. QED
            BY <6>1
        <5>3. PICK p \in Nat \ {0}, r \in Nat, t \in Nat : p = P /\ r = at % P /\ t = at /\ t = p * (i + 1 + d) + r
          <6>1. at = P * (i + 1 + d) + (at % P) /\ at \in Nat
            BY <3>1, <5>1, <5>2
          <6>2. QED
            BY <3>1, <5>1, <6>1
        <5>4. p * (i + 1 + d) = p * i + p + p * d /\ p * d \in Nat /\ p * i \in Nat
          BY <3>2, <5>2, <5>3
        <5>5. PICK x \in Nat, y \in Nat : x = p * i + (p - 1) /\ y = t - 1 /\ x <= y
          <6>1. p * i + (p - 1) \in Nat /\ t - 1 \in Nat /\ p * i + (p - 1) <= t - 1
            BY <5>3, <5>4
          <6>2. QED
            BY <6>1
        <5>6. x \div p <= y \div p
          BY <5>5, QuotientGrows
        <5>7. x \div p = i
          <6>1. PICK q \in Nat : q = p - 1 /\ q < p
            BY <5>3
          <6>2. (p * i + q) \div p = i
            BY <3>2, <6>1, QuotientOf
          <6>3. QED
            BY <5>5, <6>1, <6>2
        <5>8. QED
          BY <5>3, <5>5, <5>6, <5>7
      <4>4. PICK m \in Nat \ {0} : m = read_so_far /\ m <= Len(buffer)
        BY <3>1, <4>2
      <4>5. i \in (offset \div P) .. ((offset + m - 1) \div P)
        <5>1. offset \div P \in Nat /\ (offset + m - 1) \div P \in Int /\ offset + m - 1 = at - 1
          BY <3>1, <4>4
        <5>2. QED
          BY <3>2, <4>1, <4>3, <5>1
      <4>6. QED
        BY <1>1, <4>4, <4>5, ReachedBlocks
    <3>5. QED
      BY <3>2, <3>3, <3>4
  <2>3. QED
    BY <1>2, <1>5, <2>1, <2>2 DEF AnswerIs
<1>6. QED
  BY <1>3, <1>4, <1>5

LEMMA NextAnswer ==
  ASSUME FilesAreShort, ImagesAreFormatted, ReadInv, LimitInv, ContentInv,
         pc = "returned" /\ AnswerDue => AnswerIs(rv), [Next]_vars
  PROVE  (pc = "returned" /\ AnswerDue => AnswerIs(rv))'
<1>1. CASE pc' # "returned"
  BY <1>1
<1>2. CASE UNCHANGED vars
  BY <1>2, SameAnswer DEF vars
<1>3. ASSUME NEW n, Return(n), AnswerDue => AnswerIs(n)
      PROVE  (pc = "returned" /\ AnswerDue => AnswerIs(rv))'
  <2>1. rv' = n /\ UNCHANGED <<image, offset, asked>>
    BY <1>3 DEF Return
  <2>2. QED
    BY <1>3, <2>1, SameAnswer
<1>4. CASE ReadFileBlock /\ pc' = "returned"
  <2>1. PICK a, n : /\ n = pread(a, (max_size - read_so_far) % U32)
                    /\ a = FileAddress(offset + read_so_far)
    OBVIOUS
  <2>2. /\ pc = "reading" /\ read_so_far < max_size
        /\ IF n <= 0
           THEN Return(n)
           ELSE /\ read_so_far' = (read_so_far + n) % U32
                /\ buffer' = buffer \o [k \in 1 .. n |-> words[a + k - 1]]
                /\ UNCHANGED <<image, words, offset, asked, max_size, rv, pc>>
    BY <1>4, <2>1, OneBlock
  <2>3. n <= 0 /\ Return(n)
    BY <1>4, <2>2
  <2>4. AnswerDue => AnswerIs(n)
    BY <2>1, <2>2, <2>3, EarlyAnswer
  <2>5. QED
    BY <1>3, <2>3, <2>4
<1>5. CASE ReadEnds
  <2>1. AnswerDue => AnswerIs(read_so_far)
    BY <1>5, LastAnswer
  <2>2. QED
    BY <1>3, <1>5, <2>1 DEF ReadEnds
<1>6. CASE Idle
  BY <1>1, <1>6 DEF Idle
<1>7. CASE \E o \in 0 .. (inode_file_size + 1), m \in Sizes : read_file_content(o, m)
  BY <1>1, <1>7 DEF read_file_content
<1>8. QED
  BY <1>1, <1>2, <1>4, <1>5, <1>6, <1>7 DEF Next

\* The answer to such a read of a file below 4 GB, if the indirect blocks on
\* its way can be read: -1 exactly if a wanted block is bad, wherever it lies
\* in the read, 0 if the volume ends before, and otherwise all that is wanted.
THEOREM ContiguousReadsAnswer ==
  ASSUME SumsFit, ImagesAreFormatted, FilesAreShort
  PROVE  Spec => []ContiguousAnswer
<1> DEFINE Due == pc = "returned" /\ AnswerDue => AnswerIs(rv)
           Inv == ReadInv /\ LimitInv /\ ContentInv /\ Due
<1>1. Init => Inv
  <2> SUFFICES ASSUME Init PROVE Inv
    OBVIOUS
  <2>1. Len(buffer) = 0 /\ pc # "returned"
    BY DEF Init
  <2>2. QED
    BY <2>1, InitInv DEF ContentInv
<1>2. Inv /\ [Next]_vars => Inv'
  BY NextInv, NextLimit, NextContent, NextAnswer
<1>3. Due => ContiguousAnswer
  BY DEF AnswerDue, AnswerIs, ContiguousAnswer, InFile
<1>4. QED
  BY <1>1, <1>2, <1>3, PTL DEF Spec

-----------------------------------------------------------------------------
(* Reads that begin past the end of the file. *)

\* The wrapped size of such a read is more than a count of 32 bits comes to.
SizesFit == U32 < U64 /\ \A img \in Images, m \in Sizes : img.size + 1 + m < U64

PastInv ==
    offset > inode_file_size => max_size >= U32 /\ (pc = "returned" => rv \in {-1, 0})

LEMMA PastInvKept ==
  ASSUME SizesFit, ReadInv, ReadInv', PastInv, Next
  PROVE  PastInv'
<1> USE DEF inode_file_size
<1>1. PICK s \in Nat, u \in Nat : s = image.size /\ u = U64 /\ U32 \in Nat /\ U32 < u /\ U32 > 0
  BY ImagesAssumption, Ext2Assumption DEF ReadInv, VolumeInv, SizesFit
<1>2. ASSUME NEW o \in 0 .. (inode_file_size + 1), NEW m \in Sizes, read_file_content(o, m)
      PROVE  PastInv'
  <2>1. o \in Nat /\ o <= s + 1 /\ m \in Nat /\ s + 1 + m < u
    BY <1>1, Ext2Assumption DEF ReadInv, VolumeInv, SizesFit
  <2>2. /\ image' = image /\ offset' = o /\ pc' = "reading"
        /\ max_size' = IF (o + m) % u > s THEN (s - o) % u ELSE m
    BY <1>1, <1>2 DEF read_file_content
  <2>3. SUFFICES ASSUME o > s PROVE max_size' >= U32
    BY <1>1, <2>2 DEF PastInv
  <2>4. o = s + 1
    BY <1>1, <2>1, <2>3
  <2>5. (o + m) % u = o + m
    <3>1. o + m \in 0 .. (u - 1) /\ u \in Nat \ {0}
      BY <1>1, <2>1, <2>4
    <3>2. QED
      BY <3>1, Remainders
  <2>6. (s - o) % u = u - 1
    <3>1. s - o = -1
      BY <1>1, <2>4
    <3>2. (-1) % u = u - 1
      BY <1>1
    <3>3. QED
      BY <3>1, <3>2
  <2>7. QED
    BY <1>1, <2>1, <2>2, <2>4, <2>5, <2>6
<1>3. CASE ReadFileBlock
  <2>1. UNCHANGED <<image, offset, max_size>> /\ (pc' = "returned" => rv' <= 0)
    BY <1>3 DEF ReadFileBlock, Return
  <2>2. rv' \in -1 .. (U32 - 1)
    BY DEF ReadInv, TypeOK
  <2>3. pc' = "returned" => rv' \in {-1, 0}
    BY <1>1, <2>1, <2>2
  <2>4. QED
    BY <2>1, <2>3 DEF PastInv
<1>4. CASE ReadEnds
  <2>1. /\ UNCHANGED <<image, offset, max_size>> /\ read_so_far >= max_size
        /\ read_so_far \in 0 .. (U32 - 1) /\ max_size \in Nat
    BY <1>4 DEF ReadEnds, Return, ReadInv, TypeOK
  <2>2. ~ (max_size >= U32)
    BY <1>1, <2>1
  <2>3. QED
    BY <2>1, <2>2 DEF PastInv
<1>5. CASE Idle
  BY <1>1, <1>5 DEF Idle, PastInv
<1>6. QED
  BY <1>2, <1>3, <1>4, <1>5 DEF Next

-----------------------------------------------------------------------------
(* The callers: ext2fs.c over find_file_from_path. *)

\* An absolute path of one name is never looked up: its search leaves the
\* malloced inode alone and ends with the malloced number.
NothingFollowed ==
    path.absolute /\ Len(path.names) = 1 =>
        /\ inode = fresh /\ stat \in {NoInode, fresh}
        /\ stage # "follow"
        /\ stage = "component" => part = 1
        /\ stage = "answer" => found = de_inode_no

\* Any search of an absolute path answers 0 or with the malloced number.
ZeroOrLeft == stage = "answer" /\ path.absolute /\ path # Root => found \in {0, de_inode_no}

\* Nothing of an operation is de_inode_no when the next one begins.
NoneReported == stage = "idle" => stat = NoInode

AnswersInv == NothingFollowed /\ ZeroOrLeft /\ NoneReported

LEMMA RootHasNoName == Len(Root.names) # 1
BY DEF Root

LEMMA AnswersInvInit == FsInit => AnswersInv
BY RootHasNoName DEF FsInit, FsIdle, AnswersInv, NothingFollowed, ZeroOrLeft, NoneReported

LEMMA AnswersInvKept ==
  ASSUME AnswersInv, [FsNext]_(mountVars)
  PROVE  AnswersInv'
<1> USE DEF AnswersInv, NothingFollowed, ZeroOrLeft, NoneReported
<1>1. CASE Call
  <2>1. /\ stage = "idle" /\ inode' = fresh' /\ stat' = stat
        /\ stage' \in {"find", "returned"}
    <3>1. CASE ext2_open
      BY <3>1 DEF ext2_open, Begin, CallFind, Returns
    <3>2. CASE ext2_getattr
      BY <3>2 DEF ext2_getattr, Begin, CallFind
    <3>3. CASE ext2_readdir
      BY <3>3 DEF ext2_readdir, Begin, CallFind
    <3>4. CASE ext2_read
      BY <3>4 DEF ext2_read, Begin, CallFind
    <3>5. CASE ext2_readlink
      BY <3>5 DEF ext2_readlink, Begin, CallFind
    <3>6. QED
      BY <1>1, <3>1, <3>2, <3>3, <3>4, <3>5 DEF Call
  <2>2. QED
    BY <2>1
<1>2. CASE FindStarts
  BY <1>2, RootHasNoName DEF FindStarts
<1>3. CASE FindComponent
  <2>1. /\ stage = "component" /\ part < Len(path.names) /\ stage' = "follow"
        /\ UNCHANGED <<path, fresh, inode, stat>>
    BY <1>3 DEF FindComponent
  <2>2. ASSUME path.absolute, Len(path.names) = 1
        PROVE  FALSE
    <3>1. part = 1
      BY <2>1, <2>2
    <3>2. QED
      BY <2>1, <2>2, <3>1
  <2>3. QED
    BY <2>1, <2>2
<1>4. CASE FollowRuns
  BY <1>4 DEF FollowRuns, fsVars
<1>5. CASE FindNext
  <2>1. /\ stage = "follow" /\ stage' \in {"component", "answer"}
        /\ stage' = "answer" => found' = 0
        /\ UNCHANGED path
    BY <1>5 DEF FindNext
  <2>2. ~ (path.absolute /\ Len(path.names) = 1)
    BY <2>1
  <2>3. QED
    BY <2>1, <2>2
<1>6. CASE FindEnds
  BY <1>6 DEF FindEnds
<1>7. CASE GetattrOrOpenGoesOn
  <2>1. /\ stage' \in {"find", "returned"} /\ stat' \in {stat, inode}
        /\ UNCHANGED <<path, fresh, inode, de_inode_no>>
    BY <1>7 DEF GetattrOrOpenGoesOn, CallFind, Returns
  <2>2. QED
    BY <1>7, <2>1 DEF GetattrOrOpenGoesOn
<1>8. CASE ReaddirGoesOn \/ ReaddirEnds \/ ReadGoesOn \/ ReadlinkGoesOn
  <2>1. /\ stage \in {"answer", "list"} /\ stage' \in {"list", "returned", "fault"}
        /\ UNCHANGED <<path, fresh, inode, stat>>
    BY <1>8 DEF ReaddirGoesOn, ReaddirEnds, ReadGoesOn, ReadlinkGoesOn, Returns
  <2>2. QED
    BY <2>1
<1>9. CASE Returned
  BY <1>9, RootHasNoName DEF Returned
<1>10. CASE UNCHANGED mountVars
  BY <1>10 DEF mountVars, fsVars
<1>11. QED
  BY <1>1, <1>2, <1>3, <1>4, <1>5, <1>6, <1>7, <1>8, <1>9, <1>10 DEF FsNext, Step

\* The file system never learns from the volume whether a file of the root
\* directory exists, which number and which inode it has: the number and the
\* inode found are what malloc left.
THEOREM AnswersComeFromMalloc == FsSpec => []AnswersAreLeftovers
<1>1. AnswersInv => AnswersAreLeftovers
  BY DEF AnswersInv, NothingFollowed, ZeroOrLeft, AnswersAreLeftovers
<1>2. AnswersInv /\ [FsNext]_(mountVars) => AnswersInv'
  BY AnswersInvKept
<1>3. QED
  BY <1>1, <1>2, AnswersInvInit, PTL DEF FsSpec

\* No directory is ever listed with success, whatever it holds.
THEOREM ReaddirFails == FsSpec => []ReaddirNeverSucceeds
<1> USE DEF ReaddirNeverSucceeds
<1>1. FsInit => ReaddirNeverSucceeds
  BY DEF FsInit, FsIdle
<1>2. ASSUME ReaddirNeverSucceeds, [FsNext]_(mountVars)
      PROVE  ReaddirNeverSucceeds'
  <2>1. CASE ext2_readdir
    BY <2>1 DEF ext2_readdir, CallFind
  <2>2. CASE ext2_getattr \/ ext2_open \/ ext2_read \/ ext2_readlink
    <3>1. op' # "readdir"
      BY <2>2 DEF ext2_getattr, ext2_open, ext2_read, ext2_readlink, Begin
    <3>2. QED
      BY <3>1
  <2>3. CASE FindStarts \/ FindComponent \/ FindNext \/ FindEnds
    BY <1>2, <2>3 DEF FindStarts, FindComponent, FindNext, FindEnds
  <2>4. CASE FollowRuns \/ UNCHANGED mountVars
    <3>1. UNCHANGED <<op, stage, result>>
      BY <2>4 DEF FollowRuns, mountVars, fsVars
    <3>2. QED
      BY <1>2, <3>1
  <2>5. CASE ReaddirGoesOn \/ ReaddirEnds
    BY <2>5 DEF ReaddirGoesOn, ReaddirEnds, Returns
  <2>6. CASE GetattrOrOpenGoesOn \/ ReadGoesOn \/ ReadlinkGoesOn
    BY <2>6 DEF GetattrOrOpenGoesOn, ReadGoesOn, ReadlinkGoesOn
  <2>7. CASE Returned
    BY <2>7 DEF Returned
  <2>8. QED
    BY <1>2, <2>1, <2>2, <2>3, <2>4, <2>5, <2>6, <2>7 DEF FsNext, Call, Step
<1>3. QED
  BY <1>1, <1>2, PTL DEF FsSpec

-----------------------------------------------------------------------------
(* Searches through a directory. *)

\* What pread gives: the bytes up to the first one that cannot be read.
LEMMA PreadStops ==
  ASSUME IsFiniteSet(DOMAIN volume.bytes), NEW a \in Nat, CanRead(a), NEW s \in Nat \ {0}
  PROVE  \E n \in 1 .. s :
            /\ pread_bytes(a, s) = n
            /\ \A x \in 0 .. (n - 1) : CanRead(a + x)
            /\ n < s => ~ CanRead(a + n)
<1> DEFINE Ends == {x \in 0 .. s : x = s \/ ~ CanRead(a + x)}
           Run == {x \in 0 .. (s - 1) : \A y \in 0 .. x : CanRead(a + y)}
<1>1. Ends \in SUBSET Nat /\ s \in Ends
  OBVIOUS
<1>2. PICK n \in Ends : \A x \in Ends : n <= x
  BY <1>1, LeastElement
<1>3. n \in 0 .. s
  BY <1>2
<1>4. \A x \in 0 .. (n - 1) : CanRead(a + x)
  <2>1. ASSUME NEW x \in 0 .. (n - 1) PROVE CanRead(a + x)
    <3>1. x \in 0 .. s /\ ~ (n <= x)
      BY <1>3
    <3>2. x \notin Ends
      BY <1>2, <3>1
    <3>3. QED
      BY <3>1, <3>2
  <2>2. QED
    BY <2>1
<1>5. n < s => ~ CanRead(a + n)
  BY <1>2
<1>6. n # 0
  <2>1. a + 0 = a
    OBVIOUS
  <2>2. 0 < s
    OBVIOUS
  <2>3. QED
    BY <1>5, <2>1, <2>2
<1>7. Run = 0 .. (n - 1)
  <2>1. ASSUME NEW x \in Run PROVE x \in 0 .. (n - 1)
    <3>1. CASE n <= x
      <4>1. n \in 0 .. x /\ n < s
        BY <1>3, <3>1
      <4>2. CanRead(a + n)
        BY <4>1
      <4>3. QED
        BY <1>5, <4>1, <4>2
    <3>2. CASE ~ (n <= x)
      BY <1>3, <3>2
    <3>3. QED
      BY <3>1, <3>2
  <2>2. ASSUME NEW x \in 0 .. (n - 1) PROVE x \in Run
    <3>1. x \in 0 .. (s - 1) /\ \A y \in 0 .. x : y \in 0 .. (n - 1)
      BY <1>3
    <3>2. QED
      BY <1>4, <3>1
  <2>3. QED
    BY <2>1, <2>2
<1>8. Cardinality(Run) = n
  <2>1. Cardinality(0 .. (n - 1)) = n
    BY <1>3, <1>6, FS_Interval
  <2>2. QED
    BY <1>7, <2>1
<1>9. Length \in Nat /\ ~ (a >= Length)
  BY FS_CardinalityType DEF CanRead, Length
<1>10. pread_bytes(a, s) = n
  BY <1>8, <1>9 DEF pread_bytes
<1>11. QED
  BY <1>3, <1>4, <1>5, <1>6, <1>10

LEMMA MinOfTwo ==
  ASSUME NEW x \in Int, NEW y \in Int
  PROVE  Min({x, y}) = IF x <= y THEN x ELSE y
BY DEF Min

\* A root that is formatted and can be read as a whole.
GoodRoot ==
    /\ volume \in Volumes /\ RootFormatted(volume) /\ WholeDirectory

LEMMA SizeIsNumber ==
  ASSUME GoodRoot
  PROVE  dir.size \in Nat
<1>1. dir.size = Len(dir.block) * BlockBytes /\ dir.block \in Seq(Nat)
  BY DEF GoodRoot, RootFormatted, WholeDirectory
<1>2. Len(dir.block) \in Nat
  BY <1>1
<1>3. QED
  BY <1>1, <1>2, Ext2DirAssumption

\* Inside a block addresses are next to each other, and all its bytes can be read.
LEMMA DirectoryBytes ==
  ASSUME GoodRoot, NEW x \in Nat, x < dir.size
  PROVE  /\ DirAddress(dir, x) \in Nat
         /\ \A y \in Nat : (x % BlockBytes) + y < BlockBytes =>
               /\ DirAddress(dir, x + y) = DirAddress(dir, x) + y
               /\ CanRead(DirAddress(dir, x) + y)
               /\ x + y < dir.size
         /\ \E b \in Nat : DirAddress(dir, x) = b * BlockBytes + (x % BlockBytes)
<1>1. PICK B \in Nat : B = BlockBytes /\ B > 0
  BY Ext2DirAssumption
<1>2. PICK q \in Nat, r \in 0 .. (B - 1) : q = x \div B /\ r = x % B /\ x = B * q + r
  BY <1>1
<1>3. PICK n \in Nat : n = Len(dir.block) /\ dir.size = n * B /\ dir.block \in Seq(Nat)
  <2>1. dir = volume.inode[RootNumber]
    BY DEF GoodRoot, WholeDirectory
  <2>2. dir.block \in Seq(Nat) /\ dir.size = Len(dir.block) * B
    BY <1>1, <2>1 DEF GoodRoot, RootFormatted
  <2>3. Len(dir.block) \in Nat
    BY <2>2
  <2>4. QED
    BY <2>2, <2>3
<1>4. q + 1 <= n
  <2>1. CASE q >= n
    <3>1. B * q >= n * B
      BY <1>1, <1>2, <1>3, <2>1
    <3>2. QED
      BY <1>1, <1>2, <1>3, <3>1
  <2>2. QED
    BY <1>2, <1>3, <2>1
<1>5. q + 1 \in DOMAIN dir.block
  BY <1>2, <1>3, <1>4
<1>6. PICK b \in Nat : b = dir.block[q + 1]
  BY <1>3, <1>5
<1>7. DirAddress(dir, x) = b * B + r
  BY <1>1, <1>2, <1>5, <1>6 DEF DirAddress
<1>8. ASSUME NEW y \in Nat, r + y < B
      PROVE  /\ DirAddress(dir, x + y) = DirAddress(dir, x) + y
             /\ CanRead(DirAddress(dir, x) + y)
             /\ x + y < dir.size
  <2>1. (x + y) \div B = q /\ (x + y) % B = r + y
    BY <1>1, <1>2, <1>8
  <2>2. DirAddress(dir, x + y) = b * B + (r + y)
    BY <1>1, <1>5, <1>6, <2>1 DEF DirAddress
  <2>3. b * B \in Nat
    BY <1>1
  <2>4. r + y \in 0 .. (B - 1)
    BY <1>1, <1>2, <1>8
  <2>5. CanRead(b * B + (r + y))
    BY <1>1, <1>5, <1>6, <2>4 DEF GoodRoot, WholeDirectory
  <2>6. b * B + (r + y) = DirAddress(dir, x) + y
    BY <1>2, <1>7, <2>3
  <2>7. x + y < B * q + B
    BY <1>1, <1>2, <1>8
  <2>8. B * q + B <= n * B
    <3>1. PICK z \in Nat : n = q + 1 + z
      <4>1. n - (q + 1) \in Nat
        BY <1>2, <1>3, <1>4
      <4>2. n = q + 1 + (n - (q + 1))
        BY <1>2, <1>3
      <4>3. QED
        BY <4>1, <4>2
    <3>2. n * B = B * q + B + B * z /\ B * z >= 0
      BY <1>1, <1>2, <3>1
    <3>3. QED
      BY <1>1, <1>2, <3>2
  <2>9. x + y < dir.size
    <3>1. B * q \in Nat /\ n * B \in Nat
      BY <1>1, <1>2, <1>3
    <3>2. QED
      BY <1>1, <1>2, <1>3, <2>7, <2>8, <3>1
  <2>10. QED
    BY <2>2, <2>5, <2>6, <2>9
<1>9. b * B \in Nat
  BY <1>1
<1>10. DirAddress(dir, x) \in Nat
  BY <1>2, <1>7, <1>9
<1>11. \E c \in Nat : DirAddress(dir, x) = c * BlockBytes + (x % BlockBytes)
  BY <1>1, <1>2, <1>6, <1>7
<1>12. \A y \in Nat : (x % BlockBytes) + y < BlockBytes =>
               /\ DirAddress(dir, x + y) = DirAddress(dir, x) + y
               /\ CanRead(DirAddress(dir, x) + y)
               /\ x + y < dir.size
  <2>1. SUFFICES ASSUME NEW y \in Nat, (x % BlockBytes) + y < BlockBytes
                 PROVE  /\ DirAddress(dir, x + y) = DirAddress(dir, x) + y
                        /\ CanRead(DirAddress(dir, x) + y)
                        /\ x + y < dir.size
    OBVIOUS
  <2>2. r + y < B
    BY <1>1, <1>2, <2>1
  <2>3. QED
    BY <1>8, <2>2
<1>13. QED
  BY <1>10, <1>11, <1>12

\* From a directory's byte on, what cannot be read ends what can for as far as
\* a dir_entry_t reaches: it begins with the next block.
LEMMA NothingBehind ==
  ASSUME GoodRoot, NEW x \in Nat, x < dir.size,
         NEW n \in 0 .. EntryBytes, ~ CanRead(DirAddress(dir, x) + n),
         NEW m \in n .. EntryBytes
  PROVE  ~ CanRead(DirAddress(dir, x) + m)
<1>1. PICK B \in Nat : B = BlockBytes /\ B > 0 /\ EntryBytes <= B
  BY Ext2DirAssumption DEF GoodRoot, RootFormatted
<1>2. PICK b \in Nat, r \in 0 .. (B - 1) :
         r = x % B /\ DirAddress(dir, x) = b * B + r
  <2>1. \E b \in Nat : DirAddress(dir, x) = b * BlockBytes + (x % BlockBytes)
    BY DirectoryBytes
  <2>2. x % B \in 0 .. (B - 1)
    BY <1>1
  <2>3. QED
    BY <1>1, <2>1, <2>2
<1>3. PICK E \in Nat : E = EntryBytes
  BY Ext2DirAssumption DEF EntryBytes, HeaderBytes
<1>4. r + n >= B
  <2>1. ~ (r + n < B)
    <3>1. n \in Nat
      BY <1>3
    <3>2. (x % BlockBytes) + n < BlockBytes => CanRead(DirAddress(dir, x) + n)
      BY <3>1, DirectoryBytes
    <3>3. QED
      BY <1>1, <1>2, <3>2
  <2>2. QED
    BY <1>1, <1>2, <1>3, <2>1
<1>5. \A y \in n .. E : (b * B + r + y) \div B = b + 1
  <2>1. ASSUME NEW y \in n .. E PROVE (b * B + r + y) \div B = b + 1
    <3>1. PICK z \in 0 .. (B - 1) : r + y = B + z
      <4>1. r + y - B \in 0 .. (B - 1)
        BY <1>1, <1>2, <1>3, <1>4
      <4>2. QED
        BY <1>1, <1>2, <1>3, <4>1
    <3>2. b * B + r + y = B * (b + 1) + z
      BY <1>1, <1>2, <1>3, <3>1
    <3>3. QED
      BY <1>1, <3>1, <3>2
  <2>2. QED
    BY <2>1
<1>6. Length \in Nat
  BY FS_CardinalityType DEF Length, GoodRoot, RootFormatted
<1>7. PICK a \in Nat : a = DirAddress(dir, x)
  BY <1>1, <1>2
<1>8. (a + n) \div BlockBytes = (a + m) \div BlockBytes
  <2>1. a + n = b * B + r + n /\ a + m = b * B + r + m
    BY <1>1, <1>2, <1>3, <1>7
  <2>2. n \in n .. E /\ m \in n .. E
    BY <1>3
  <2>3. QED
    BY <1>1, <1>5, <2>1, <2>2
<1>9. a + n < Length => (a + n) \div BlockBytes \in volume.bad
  BY <1>7 DEF CanRead
<1>10. a + n <= a + m
  BY <1>3, <1>7
<1>11. QED
  <2>1. ASSUME a + m < Length PROVE (a + m) \div BlockBytes \in volume.bad
    <3>1. a + n < Length
      BY <1>3, <1>6, <1>7, <1>10, <2>1
    <3>2. QED
      BY <1>8, <1>9, <3>1
  <2>2. QED
    BY <1>7, <2>1 DEF CanRead

\* What a turn at address a leaves in curr: what pread gives, and in the rest
\* the last byte of it, over and over.
Seen(a) ==
    [x \in 1 .. EntryBytes |->
        volume.bytes[a + Min({x, pread_bytes(a, EntryBytes)}) - 1]]

\* In numbers, for the turn at offset x: n bytes are read from address a.
SeenBytes(x, E, a, n) ==
    /\ E = EntryBytes /\ E > HeaderBytes /\ a = DirAddress(dir, x)
    /\ n \in 1 .. E /\ n = pread_bytes(a, E)
    /\ \A y \in 0 .. (n - 1) : CanRead(a + y)
    /\ n < E => \A y \in n .. E : ~ CanRead(a + y)
    /\ Seen(a) \in [1 .. E -> Nat]
    /\ \A y \in 1 .. E : Seen(a)[y] = volume.bytes[a + (IF y <= n THEN y ELSE n) - 1]

LEMMA SeenIs ==
  ASSUME GoodRoot, NEW x \in Nat, x < dir.size
  PROVE  \E E \in Nat, a \in Nat, n \in Nat : SeenBytes(x, E, a, n)
<1>1. PICK E \in Nat : E = EntryBytes /\ E > HeaderBytes
  BY Ext2DirAssumption DEF EntryBytes, HeaderBytes
<1>2. PICK a \in Nat : a = DirAddress(dir, x)
  BY DirectoryBytes
<1>3. CanRead(a)
  <2>1. x % BlockBytes < BlockBytes /\ x % BlockBytes \in Nat
    BY Ext2DirAssumption
  <2>2. CanRead(a + 0)
    <3>1. (x % BlockBytes) + 0 < BlockBytes
      BY <2>1
    <3>2. QED
      BY <1>2, <3>1, DirectoryBytes
  <2>3. QED
    BY <1>2, <2>2
<1>4. E \in Nat \ {0} /\ IsFiniteSet(DOMAIN volume.bytes)
  BY <1>1 DEF HeaderBytes, GoodRoot, RootFormatted
<1>5. PICK n \in 1 .. E :
         /\ pread_bytes(a, E) = n
         /\ \A y \in 0 .. (n - 1) : CanRead(a + y)
         /\ n < E => ~ CanRead(a + n)
  BY <1>3, <1>4, PreadStops
<1>6. n < E => \A y \in n .. E : ~ CanRead(a + y)
  <2>1. SUFFICES ASSUME n < E, NEW y \in n .. E PROVE ~ CanRead(a + y)
    OBVIOUS
  <2>2. n \in 0 .. EntryBytes /\ y \in n .. EntryBytes
    BY <1>1
  <2>3. QED
    BY <1>2, <1>5, <2>1, <2>2, NothingBehind
<1>7. \A y \in 1 .. E : Seen(a)[y] = volume.bytes[a + (IF y <= n THEN y ELSE n) - 1]
  BY <1>1, <1>5, MinOfTwo DEF Seen
<1>8. Seen(a) \in [1 .. E -> Nat]
  <2>1. ASSUME NEW y \in 1 .. E PROVE Seen(a)[y] \in Nat
    <3>1. PICK z \in 0 .. (n - 1) : a + (IF y <= n THEN y ELSE n) - 1 = a + z
      <4>1. CASE y <= n
        <5>1. y - 1 \in 0 .. (n - 1) /\ a + y - 1 = a + (y - 1)
          BY <4>1
        <5>2. QED
          BY <4>1, <5>1
      <4>2. CASE ~ (y <= n)
        <5>1. n - 1 \in 0 .. (n - 1) /\ a + n - 1 = a + (n - 1)
          OBVIOUS
        <5>2. QED
          BY <4>2, <5>1
      <4>3. QED
        BY <4>1, <4>2
    <3>2. CanRead(a + z)
      BY <1>5
    <3>3. Length \in Nat
      BY <1>4, FS_CardinalityType DEF Length
    <3>4. a + z \in 0 .. (Length - 1)
      BY <3>2, <3>3 DEF CanRead
    <3>5. volume.bytes[a + z] \in Nat
      BY <3>4 DEF Length, GoodRoot, RootFormatted
    <3>6. QED
      BY <1>7, <3>1, <3>5
  <2>2. DOMAIN Seen(a) = 1 .. E /\ Seen(a) = [y \in DOMAIN Seen(a) |-> Seen(a)[y]]
    BY <1>1 DEF Seen
  <2>3. QED
    BY <2>1, <2>2
<1>9. SeenBytes(x, E, a, n)
  BY <1>1, <1>2, <1>5, <1>6, <1>7, <1>8 DEF SeenBytes
<1>10. n \in Nat
  OBVIOUS
<1>11. QED
  BY <1>9, <1>10

\* When the bytes spell a name, from 8 bytes behind a on, pread gives all of it.
LEMMA SpelledIsSeen ==
  ASSUME GoodRoot, NEW x \in Nat, x < dir.size, NEW w, IsName(w),
         Spells(volume, DirAddress(dir, x) + HeaderBytes, w)
  PROVE  NameOf(Seen(DirAddress(dir, x))) = w
<1>0. PICK E \in Nat, a \in Nat, n \in Nat : SeenBytes(x, E, a, n)
  BY SeenIs
<1>1. /\ E = EntryBytes /\ E > HeaderBytes /\ a = DirAddress(dir, x)
      /\ n \in 1 .. E
      /\ n < E => \A y \in n .. E : ~ CanRead(a + y)
      /\ Seen(a) \in [1 .. E -> Nat]
      /\ \A y \in 1 .. E : Seen(a)[y] = volume.bytes[a + (IF y <= n THEN y ELSE n) - 1]
  BY <1>0 DEF SeenBytes
<1>2. PICK l \in Nat : l = Len(w) /\ l >= 1 /\ 9 + l <= E
  <2>1. Len(w) \in 1 .. (NameBytes - 1) /\ NameBytes \in Nat
    BY Ext2DirAssumption DEF IsName
  <2>2. E = 8 + NameBytes
    BY <1>1 DEF EntryBytes, HeaderBytes
  <2>3. QED
    BY <2>1, <2>2
<1>3. w \in Seq(Nat \ {0})
  BY DEF IsName
<1>4. \A y \in 0 .. l : CanRead(a + 8 + y)
  BY <1>1, <1>2 DEF Spells, CanRead, Length, HeaderBytes
<1>5. 9 + l <= n
  <2>1. SUFFICES ASSUME ~ (9 + l <= n) PROVE FALSE
    OBVIOUS
  <2>2. n < E /\ 8 + l \in n .. E
    BY <1>1, <1>2, <2>1
  <2>3. ~ CanRead(a + (8 + l))
    BY <1>1, <2>2
  <2>4. a + (8 + l) = a + 8 + l
    OBVIOUS
  <2>5. QED
    BY <1>2, <1>4, <2>3, <2>4
<1>6. \A y \in 0 .. l : Seen(a)[9 + y] = IF y < l THEN w[y + 1] ELSE 0
  <2>1. ASSUME NEW y \in 0 .. l PROVE Seen(a)[9 + y] = IF y < l THEN w[y + 1] ELSE 0
    <3>1. 9 + y \in 1 .. E /\ 9 + y <= n /\ a + (9 + y) - 1 = a + 8 + y
      BY <1>1, <1>2, <1>5
    <3>2. Seen(a)[9 + y] = volume.bytes[a + 8 + y]
      BY <1>1, <3>1
    <3>3. QED
      BY <1>1, <1>2, <3>2 DEF Spells, HeaderBytes
  <2>2. QED
    BY <2>1
<1> DEFINE s == Seen(a)
           zeros == {y \in (HeaderBytes + 1) .. EntryBytes : s[y] = 0}
<1>7. 9 + l \in zeros
  <2>1. s[9 + l] = 0
    BY <1>2, <1>6
  <2>2. QED
    BY <1>1, <1>2, <2>1 DEF HeaderBytes
<1>8. \A y \in zeros : 9 + l <= y
  <2>1. SUFFICES ASSUME NEW y \in zeros, ~ (9 + l <= y) PROVE FALSE
    OBVIOUS
  <2>2. y \in Nat /\ y - 9 \in 0 .. l /\ y - 9 < l /\ 9 + (y - 9) = y /\ s[y] = 0
    BY <1>1, <1>2, <2>1 DEF HeaderBytes
  <2>3. s[y] = w[(y - 9) + 1]
    BY <1>6, <2>2
  <2>4. (y - 9) + 1 \in 1 .. Len(w)
    BY <1>2, <2>2
  <2>5. w[(y - 9) + 1] \in Nat \ {0}
    BY <1>3, <2>4
  <2>6. QED
    BY <2>2, <2>3, <2>5
<1>9. zeros # {} /\ Min(zeros) = 9 + l
  <2>1. zeros \in SUBSET Nat
    BY <1>1 DEF HeaderBytes
  <2>2. Min(zeros) \in zeros /\ Min(zeros) <= 9 + l
    BY <1>7, <2>1, MinProperties
  <2>3. 9 + l <= Min(zeros) /\ Min(zeros) \in Nat
    BY <1>8, <2>1, <2>2
  <2>4. QED
    BY <1>7, <2>2, <2>3
<1>10. NameOf(s) = SubSeq(s, 9, 8 + l)
  <2>1. NameOf(s) = SubSeq(s, HeaderBytes + 1, Min(zeros) - 1)
    BY <1>9 DEF NameOf
  <2>2. Min(zeros) - 1 = 8 + l /\ HeaderBytes + 1 = 9
    BY <1>9 DEF HeaderBytes
  <2>3. QED
    BY <2>1, <2>2
<1>11. s \in Seq(Nat) /\ Len(s) = E
  BY <1>1
<1> HIDE DEF s
<1>12. /\ SubSeq(s, 9, 8 + l) \in Seq(Nat) /\ Len(SubSeq(s, 9, 8 + l)) = l
       /\ \A y \in 1 .. l : SubSeq(s, 9, 8 + l)[y] = s[8 + y]
  <2>1. 9 \in 1 .. Len(s) + 1 /\ 8 + l \in 8 .. Len(s)
    BY <1>1, <1>2, <1>11
  <2>2. /\ SubSeq(s, 9, 8 + l) \in Seq(Nat)
        /\ Len(SubSeq(s, 9, 8 + l)) = IF 9 <= 8 + l THEN (8 + l) - 9 + 1 ELSE 0
        /\ \A y \in 1 .. ((8 + l) - 9 + 1) : SubSeq(s, 9, 8 + l)[y] = s[9 + y - 1]
    BY <1>11, <2>1, SubSeqProperties
  <2>3. (8 + l) - 9 + 1 = l /\ 9 <= 8 + l /\ \A y \in 1 .. l : 9 + y - 1 = 8 + y
    BY <1>2
  <2>4. QED
    BY <2>2, <2>3
<1>13. \A y \in 1 .. l : s[8 + y] = w[y]
  <2>1. ASSUME NEW y \in 1 .. l PROVE s[8 + y] = w[y]
    <3>1. y - 1 \in 0 .. l /\ y - 1 < l /\ 9 + (y - 1) = 8 + y /\ (y - 1) + 1 = y
      OBVIOUS
    <3>2. QED
      BY <1>6, <3>1 DEF s
  <2>2. QED
    BY <2>1
<1>14. w \in Seq(Nat) /\ Len(w) = l
  BY <1>2, <1>3
<1>15. SubSeq(s, 9, 8 + l) = w
  BY <1>12, <1>13, <1>14, SeqEqual
<1>16. QED
  BY <1>1, <1>10, <1>15 DEF s

\* And when the string there is a name, its zero byte was read too: what is
\* behind the last byte read repeats it, so that no string ends there.
LEMMA SeenIsSpelled ==
  ASSUME GoodRoot, NEW x \in Nat, x < dir.size, NEW w, IsName(w),
         NameOf(Seen(DirAddress(dir, x))) = w
  PROVE  Spells(volume, DirAddress(dir, x) + HeaderBytes, w)
<1>0. PICK E \in Nat, a \in Nat, n \in Nat : SeenBytes(x, E, a, n)
  BY SeenIs
<1>1. /\ E = EntryBytes /\ E > HeaderBytes /\ a = DirAddress(dir, x)
      /\ n \in 1 .. E
      /\ \A y \in 0 .. (n - 1) : CanRead(a + y)
      /\ Seen(a) \in [1 .. E -> Nat]
      /\ \A y \in 1 .. E : Seen(a)[y] = volume.bytes[a + (IF y <= n THEN y ELSE n) - 1]
  BY <1>0 DEF SeenBytes
<1>2. PICK l \in Nat : l = Len(w) /\ l >= 1 /\ 9 + l <= E
  <2>1. Len(w) \in 1 .. (NameBytes - 1) /\ NameBytes \in Nat
    BY Ext2DirAssumption DEF IsName
  <2>2. E = 8 + NameBytes
    BY <1>1 DEF EntryBytes, HeaderBytes
  <2>3. QED
    BY <2>1, <2>2
<1>3. w \in Seq(Nat \ {0})
  BY DEF IsName
<1> DEFINE s == Seen(a)
           zeros == {y \in (HeaderBytes + 1) .. EntryBytes : s[y] = 0}
           last == IF zeros = {} THEN EntryBytes ELSE Min(zeros) - 1
<1>4. zeros \in SUBSET Nat /\ \A y \in zeros : y \in 9 .. E /\ s[y] = 0
  BY <1>1 DEF HeaderBytes
<1>5. zeros # {} => Min(zeros) \in zeros
  BY <1>4, MinProperties
<1>6. last \in 8 .. E
  BY <1>1, <1>4, <1>5 DEF HeaderBytes
<1>7. NameOf(s) = SubSeq(s, 9, last)
  BY DEF NameOf, HeaderBytes
<1> HIDE DEF s, zeros, last
<1>8. s \in Seq(Nat) /\ Len(s) = E
  BY <1>1 DEF s
<1>9. /\ Len(SubSeq(s, 9, last)) = last - 8
      /\ \A y \in 1 .. (last - 8) : SubSeq(s, 9, last)[y] = s[8 + y]
  BY <1>6, <1>8
<1>10. SubSeq(s, 9, last) = w
  BY <1>1, <1>7 DEF s
<1>11. last = 8 + l
  BY <1>2, <1>6, <1>9, <1>10
<1>12. \A y \in 1 .. l : s[8 + y] = w[y]
  BY <1>9, <1>10, <1>11
<1>13. s[9 + l] = 0
  <2>1. zeros # {} /\ Min(zeros) - 1 = last
    BY <1>1, <1>2, <1>11 DEF last
  <2>2. Min(zeros) \in zeros
    BY <1>5, <2>1
  <2>3. PICK m \in 9 .. E : m = Min(zeros) /\ s[m] = 0
    BY <1>4, <2>2
  <2>4. m = 9 + l
    BY <1>11, <2>1, <2>3
  <2>5. QED
    BY <2>3, <2>4
<1>14. 9 + l <= n
  <2>1. SUFFICES ASSUME ~ (9 + l <= n) PROVE FALSE
    OBVIOUS
  <2>2. 9 + l \in 1 .. E /\ 8 + l \in 1 .. E
    BY <1>1, <1>2
  <2>3. s[9 + l] = volume.bytes[a + n - 1]
    BY <1>1, <2>1, <2>2 DEF s
  <2>4. a + (IF 8 + l <= n THEN 8 + l ELSE n) - 1 = a + n - 1
    BY <1>1, <2>1
  <2>5. s[8 + l] = volume.bytes[a + n - 1]
    BY <1>1, <2>2, <2>4 DEF s
  <2>6. s[8 + l] = w[l] /\ w[l] \in Nat \ {0}
    BY <1>2, <1>3, <1>12
  <2>7. QED
    BY <1>13, <2>3, <2>5, <2>6
<1>17. n \in 1 .. E
  BY <1>1
<1>15. ASSUME NEW y \in 0 .. l
       PROVE  /\ CanRead(a + 8 + y)
              /\ volume.bytes[a + 8 + y] = IF y < l THEN w[y + 1] ELSE 0
  <2>1. 9 + y \in 1 .. E /\ 9 + y <= n /\ a + (9 + y) - 1 = a + 8 + y
    BY <1>2, <1>14, <1>17
  <2>2. s[9 + y] = volume.bytes[a + 8 + y]
    BY <1>1, <2>1 DEF s
  <2>3. s[9 + y] = IF y < l THEN w[y + 1] ELSE 0
    <3>1. CASE y < l
      <4>1. y + 1 \in 1 .. l /\ 8 + (y + 1) = 9 + y
        BY <3>1
      <4>2. QED
        BY <1>12, <3>1, <4>1
    <3>2. CASE ~ (y < l)
      <4>1. y = l
        BY <3>2
      <4>2. QED
        BY <1>13, <4>1
    <3>3. QED
      BY <3>1, <3>2
  <2>4. 8 + y \in 0 .. (n - 1) /\ a + (8 + y) = a + 8 + y
    BY <1>14, <2>1
  <2>5. CanRead(a + (8 + y))
    BY <1>1, <2>4
  <2>6. QED
    BY <2>2, <2>3, <2>4, <2>5
<1>16. QED
  BY <1>1, <1>2, <1>15 DEF Spells, CanRead, Length, HeaderBytes

\* curr after a turn, whatever it held before: by what the turn before has left,
\* or, at the start of a block, because a dir_entry_t fits into it.
LEMMA TurnSees ==
  ASSUME GoodRoot, NEW x \in Nat, x < dir.size,
         (x % BlockBytes) # 0 => curr = Seen(DirAddress(dir, x - 1))
  PROVE  LET a == DirAddress(dir, x)
         IN  pread_bytes(a, EntryBytes) > 0 /\ Entry(a, pread_bytes(a, EntryBytes)) = Seen(a)
<1>1. PICK E \in Nat, a \in Nat, n \in Nat : SeenBytes(x, E, a, n)
  BY SeenIs
<1>2. /\ E = EntryBytes /\ E > HeaderBytes /\ a = DirAddress(dir, x)
      /\ n \in 1 .. E /\ n = pread_bytes(a, E)
      /\ \A y \in 0 .. (n - 1) : CanRead(a + y)
      /\ n < E => \A y \in n .. E : ~ CanRead(a + y)
      /\ \A y \in 1 .. E : Seen(a)[y] = volume.bytes[a + (IF y <= n THEN y ELSE n) - 1]
  BY <1>1 DEF SeenBytes
<1>3. ASSUME NEW y \in 1 .. E, ~ (y <= n)
      PROVE  curr[y] = volume.bytes[a + n - 1]
  <2>1. n < E
    BY <1>2, <1>3
  <2>2. x % BlockBytes # 0
    <3>1. SUFFICES ASSUME x % BlockBytes = 0 PROVE FALSE
      OBVIOUS
    <3>2. BlockBytes \in Nat /\ E <= BlockBytes
      BY <1>2, Ext2DirAssumption DEF GoodRoot, RootFormatted
    <3>3. n \in Nat /\ (x % BlockBytes) + n < BlockBytes
      BY <1>2, <2>1, <3>1, <3>2
    <3>4. CanRead(DirAddress(dir, x) + n)
      BY <3>3, DirectoryBytes
    <3>5. n \in n .. E
      BY <1>2
    <3>6. QED
      BY <1>2, <2>1, <3>4, <3>5
  <2>3. x - 1 \in Nat /\ x - 1 < dir.size /\ ((x - 1) % BlockBytes) + 1 < BlockBytes
    <3>1. PICK B \in Nat : B = BlockBytes /\ B > 0
      BY Ext2DirAssumption
    <3>2. x % B # 0 /\ x # 0
      BY <2>2, <3>1
    <3>3. PICK q \in Nat, r \in 0 .. (B - 1) : x = B * q + r /\ r = x % B
      BY <3>1
    <3>4. r >= 1
      BY <3>2, <3>3
    <3>5. x - 1 = B * q + (r - 1) /\ r - 1 \in 0 .. (B - 1)
      BY <3>1, <3>3, <3>4
    <3>6. (x - 1) % B = r - 1
      BY <3>1, <3>5
    <3>7. dir.size \in Nat
      BY SizeIsNumber
    <3>8. QED
      BY <3>1, <3>2, <3>3, <3>4, <3>6, <3>7
  <2>4. DirAddress(dir, x) = DirAddress(dir, x - 1) + 1
    <3>1. (x - 1) + 1 = x
      OBVIOUS
    <3>2. DirAddress(dir, (x - 1) + 1) = DirAddress(dir, x - 1) + 1
      BY <2>3, DirectoryBytes
    <3>3. QED
      BY <3>1, <3>2
  <2>5. PICK b \in Nat, m \in Nat : SeenBytes(x - 1, E, b, m)
    <3>1. PICK F \in Nat, b \in Nat, m \in Nat : SeenBytes(x - 1, F, b, m)
      BY <2>3, SeenIs
    <3>2. F = E
      BY <1>2, <3>1 DEF SeenBytes
    <3>3. QED
      BY <3>1, <3>2
  <2>6. /\ b = DirAddress(dir, x - 1)
        /\ m \in 1 .. E
        /\ \A z \in 0 .. (m - 1) : CanRead(b + z)
        /\ m < E => \A z \in m .. E : ~ CanRead(b + z)
        /\ \A z \in 1 .. E : Seen(b)[z] = volume.bytes[b + (IF z <= m THEN z ELSE m) - 1]
    BY <2>5 DEF SeenBytes
  <2>7. a = b + 1
    BY <1>2, <2>4, <2>6
  <2>8. m = n + 1
    <3>1. CASE m < n + 1
      <4>1. m < E /\ m \in m .. E /\ m - 1 \in 0 .. (n - 1) /\ b + m = a + (m - 1)
        BY <1>2, <2>1, <2>6, <2>7, <3>1
      <4>2. CanRead(a + (m - 1)) /\ ~ CanRead(b + m)
        BY <1>2, <2>6, <4>1
      <4>3. QED
        BY <4>1, <4>2
    <3>2. CASE m > n + 1
      <4>1. n + 1 \in 0 .. (m - 1) /\ n \in n .. E /\ b + (n + 1) = a + n
        BY <1>2, <2>6, <2>7, <3>2
      <4>2. CanRead(b + (n + 1)) /\ ~ CanRead(a + n)
        BY <1>2, <2>1, <2>6, <4>1
      <4>3. QED
        BY <4>1, <4>2
    <3>3. QED
      BY <2>6, <3>1, <3>2
  <2>9. curr[y] = Seen(b)[y]
    BY <2>2, <2>6
  <2>10. b + (IF y <= m THEN y ELSE m) - 1 = a + n - 1
    <3>1. n \in Nat /\ y \in Nat /\ y >= n + 1
      BY <1>2, <1>3
    <3>2. CASE y = n + 1
      BY <2>7, <2>8, <3>1, <3>2
    <3>3. CASE y > n + 1
      BY <2>7, <2>8, <3>1, <3>3
    <3>4. QED
      BY <3>1, <3>2, <3>3
  <2>11. QED
    BY <2>6, <2>9, <2>10
<1>4. \A y \in 1 .. E :
         (IF y <= n THEN volume.bytes[a + y - 1] ELSE curr[y]) = Seen(a)[y]
  BY <1>2, <1>3
<1>5. Seen(a) = [y \in 1 .. E |-> Seen(a)[y]]
  BY <1>2 DEF Seen
<1>6. Entry(a, n) = [y \in 1 .. E |-> IF y <= n THEN volume.bytes[a + y - 1] ELSE curr[y]]
  BY <1>2 DEF Entry
<1>7. Entry(a, n) = Seen(a)
  BY <1>4, <1>5, <1>6
<1>8. n > 0 /\ n = pread_bytes(a, EntryBytes)
  BY <1>2
<1>9. QED
  BY <1>2, <1>7, <1>8

\* The name at offset x of the directory followed.
SpelledAt(x) == Spells(volume, DirAddress(dir, x) + HeaderBytes, wanted)

\* The path an operation has, and how far its search has come.
PathInv ==
    /\ volume \in Volumes
    /\ path \in Paths \union {Root} /\ part \in Nat \ {0}

\* A search through a whole root knows of the offsets it has passed that no name
\* begins there that ends where the one wanted does.  What is in curr matters:
\* the next turn may keep some of it.
SearchInv ==
    follow # "idle" /\ wanted # NoFunction /\ WholeDirectory =>
        /\ follow \in {"loop", "match", "zero"}
        /\ \E p \in Paths : \E n \in DOMAIN p.names : wanted = p.names[n]
        /\ pos \in 0 .. dir.size
        /\ \A x \in 0 .. (pos - 1) : ~ SpelledAt(x)
        /\ follow = "loop" /\ pos % BlockBytes # 0 => curr = Seen(DirAddress(dir, pos - 1))
        /\ follow = "match" => pos < dir.size /\ SpelledAt(pos)
        /\ follow = "zero" => pos = dir.size

LEMMA PathInvInit == FsInit => PathInv
BY DEF FsInit, FsIdle, PathInv

LEMMA PathInvKept ==
  ASSUME PathInv, [FsNext]_mountVars
  PROVE  PathInv'
<1>1. CASE Call
  <2>1. \E p \in Paths : path' = p
    BY <1>1 DEF Call, ext2_getattr, ext2_readdir, ext2_open, ext2_read, ext2_readlink, Begin
  <2>2. UNCHANGED <<volume, part>>
    BY <1>1 DEF Call, ext2_getattr, ext2_readdir, ext2_open, ext2_read, ext2_readlink, Begin
  <2>3. QED
    BY <2>1, <2>2 DEF PathInv
<1>2. CASE FindStarts
  <2>1. UNCHANGED <<volume, path>> /\ part' \in {1, part}
    BY <1>2 DEF FindStarts
  <2>2. QED
    BY <2>1 DEF PathInv
<1>3. CASE FindNext
  <2>1. UNCHANGED <<volume, path>> /\ part' \in {part, part + 1}
    BY <1>3 DEF FindNext
  <2>2. QED
    BY <2>1 DEF PathInv
<1>4. CASE FindComponent \/ FollowRuns \/ FindEnds \/ GetattrOrOpenGoesOn \/ ReaddirGoesOn
           \/ ReaddirEnds \/ ReadGoesOn \/ ReadlinkGoesOn \/ UNCHANGED mountVars
  <2>1. UNCHANGED <<volume, path, part>>
    BY <1>4 DEF FindComponent, FollowRuns, FindEnds, GetattrOrOpenGoesOn, ReaddirGoesOn,
       ReaddirEnds, ReadGoesOn, ReadlinkGoesOn, mountVars, fsVars
  <2>2. QED
    BY <2>1 DEF PathInv
<1>5. CASE Returned
  BY <1>5 DEF Returned, PathInv
<1>6. QED
  BY <1>1, <1>2, <1>3, <1>4, <1>5 DEF FsNext, Step

LEMMA SearchInvInit == FsInit => SearchInv
BY DEF FsInit, DirIdle, SearchInv

\* Steps that leave the directory reader alone.
LEMMA SearchUntouched ==
  ASSUME SearchInv, UNCHANGED <<volume, dirVars>>
  PROVE  SearchInv'
<1>1. UNCHANGED <<volume, dir, wanted, pos, curr, follow>>
  BY DEF dirVars
<1>2. WholeDirectory' = WholeDirectory
  BY <1>1 DEF WholeDirectory, CanRead, Length
<1>3. \A x : SpelledAt(x)' = SpelledAt(x)
  BY <1>1 DEF SpelledAt
<1>4. \A x : Seen(x)' = Seen(x)
  BY <1>1 DEF Seen, pread_bytes, CanRead, Length
<1>5. QED
  BY <1>1, <1>2, <1>3, <1>4 DEF SearchInv

\* A search is called with a name of a path and knows of nothing yet.
LEMMA SearchBegins ==
  ASSUME PathInv, RootsAreFormatted, PathsHaveNames, FindComponent
  PROVE  SearchInv'
<1>1. /\ part < Len(path.names) /\ UNCHANGED volume
      /\ dir' = inode /\ wanted' = path.names[part] /\ pos' = 0
      /\ follow' = IF inode.type = Directory THEN "loop" ELSE "zero"
  BY DEF FindComponent, FollowCall
<1>2. path # Root
  <2>1. SUFFICES ASSUME path = Root PROVE FALSE
    OBVIOUS
  <2>2. Len(path.names) = 0
    BY <2>1 DEF Root
  <2>3. QED
    BY <1>1, <2>2 DEF PathInv
<1>3. \E p \in Paths : \E n \in DOMAIN p.names : wanted' = p.names[n]
  <2>1. path \in Paths
    BY <1>2 DEF PathInv
  <2>2. path.names \in Seq(Seq(Nat \ {0}))
    BY <2>1 DEF PathsHaveNames
  <2>3. part \in DOMAIN path.names
    <3>1. Len(path.names) \in Nat /\ DOMAIN path.names = 1 .. Len(path.names)
      BY <2>2
    <3>2. QED
      BY <1>1, <3>1 DEF PathInv
  <2>4. QED
    BY <1>1, <2>1, <2>3
<1>4. SUFFICES ASSUME WholeDirectory'
      PROVE  /\ follow' = "loop" /\ pos' \in 0 .. dir'.size
             /\ pos' % BlockBytes = 0
  BY <1>1, <1>3 DEF SearchInv
<1>5. dir' = volume.inode[RootNumber] /\ RootFormatted(volume)
  BY <1>1, <1>4 DEF WholeDirectory, PathInv, RootsAreFormatted
<1>6. inode.type = Directory
  BY <1>1, <1>5 DEF RootFormatted
<1>7. dir'.size \in Nat
  <2>1. dir'.size = Len(dir'.block) * BlockBytes /\ dir'.block \in Seq(Nat)
    BY <1>5 DEF RootFormatted
  <2>2. Len(dir'.block) \in Nat
    BY <2>1
  <2>3. QED
    BY <2>1, <2>2, Ext2DirAssumption
<1>8. 0 % BlockBytes = 0
  BY Ext2DirAssumption
<1>9. QED
  BY <1>1, <1>6, <1>7, <1>8

\* A turn of the loop.
LEMMA TurnKeeps ==
  ASSUME PathInv, RootsAreFormatted, PathsHaveNames, SearchInv, FollowStep, UNCHANGED volume
  PROVE  SearchInv'
<1>1. UNCHANGED <<dir, wanted, volume>>
  BY DEF FollowStep
<1>2. SUFFICES ASSUME WholeDirectory, wanted # NoFunction
      PROVE  SearchInv'
  BY <1>1 DEF SearchInv, WholeDirectory, CanRead, Length
<1>3. GoodRoot
  BY <1>2 DEF GoodRoot, PathInv, RootsAreFormatted
<1>4. follow = "loop" /\ pos < dir.size
  BY DEF FollowStep
<1>5. /\ \E p \in Paths : \E n \in DOMAIN p.names : wanted = p.names[n]
      /\ pos \in 0 .. dir.size
      /\ \A x \in 0 .. (pos - 1) : ~ SpelledAt(x)
      /\ pos % BlockBytes # 0 => curr = Seen(DirAddress(dir, pos - 1))
  BY <1>2, <1>4 DEF SearchInv
<1>6. IsName(wanted)
  BY <1>5 DEF PathsHaveNames
<1>7. pos \in Nat /\ dir.size \in Nat
  BY <1>3, <1>5, SizeIsNumber
<1> DEFINE a == DirAddress(dir, pos)
           n == pread_bytes(a, EntryBytes)
<1>8. n > 0 /\ Entry(a, n) = Seen(a)
  BY <1>3, <1>4, <1>5, <1>7, TurnSees
<1>9. NameOf(Seen(a)) = wanted <=> SpelledAt(pos)
  BY <1>3, <1>4, <1>6, <1>7, SpelledIsSeen, SeenIsSpelled DEF SpelledAt
<1> HIDE DEF n
<1>10. /\ curr' = Seen(a)
       /\ \/ NameOf(Seen(a)) = wanted /\ follow' = "match" /\ pos' = pos
          \/ NameOf(Seen(a)) # wanted /\ follow' = "loop" /\ pos' = pos + 1
  <2>1. ~ (n <= 0)
    <3>1. PICK E \in Nat, b \in Nat, m \in Nat : SeenBytes(pos, E, b, m)
      BY <1>3, <1>4, <1>7, SeenIs
    <3>2. n = m /\ m \in 1 .. E
      BY <3>1 DEF SeenBytes, n
    <3>3. QED
      BY <3>2
  <2>2. /\ curr' = Entry(a, n)
        /\ \/ NameOf(curr') = wanted /\ follow' = "match" /\ pos' = pos
           \/ NameOf(curr') # wanted /\ follow' = follow /\ pos' = Advance
    BY <1>2, <2>1 DEF FollowStep, n
  <2>3. QED
    BY <1>4, <1>8, <2>2 DEF Advance
<1>11. \A x : SpelledAt(x)' = SpelledAt(x)
  BY <1>1 DEF SpelledAt
<1>12. \A x : Seen(x)' = Seen(x)
  BY <1>1 DEF Seen, pread_bytes, CanRead, Length
<1>13. CASE NameOf(Seen(a)) = wanted
  <2>1. SpelledAt(pos) /\ follow' = "match" /\ pos' = pos
    BY <1>9, <1>10, <1>13
  <2>2. QED
    BY <1>1, <1>4, <1>5, <1>11, <2>1 DEF SearchInv
<1>14. CASE NameOf(Seen(a)) # wanted
  <2>1. ~ SpelledAt(pos) /\ follow' = "loop" /\ pos' = pos + 1
    BY <1>9, <1>10, <1>14
  <2>2. \A x \in 0 .. (pos' - 1) : ~ SpelledAt(x)
    BY <1>5, <1>7, <2>1
  <2>3. pos' \in 0 .. dir.size /\ pos' - 1 = pos
    BY <1>4, <1>7, <2>1
  <2>4. curr' = Seen(DirAddress(dir, pos' - 1))
    BY <1>10, <2>3
  <2>5. QED
    BY <1>1, <1>5, <1>11, <1>12, <2>1, <2>2, <2>3, <2>4 DEF SearchInv
<1>15. QED
  BY <1>13, <1>14

LEMMA SearchInvKept ==
  ASSUME PathInv, RootsAreFormatted, PathsHaveNames, SearchInv, [FsNext]_mountVars
  PROVE  SearchInv'
<1>1. CASE FindComponent
  BY <1>1, SearchBegins
<1>2. CASE FollowRuns
  <2>1. UNCHANGED volume
    BY <1>2 DEF FollowRuns
  <2>2. CASE FollowStep
    BY <2>1, <2>2, TurnKeeps
  <2>3. CASE FollowEnds
    <3>1. /\ follow = "loop" /\ pos >= dir.size /\ follow' = "zero"
          /\ UNCHANGED <<volume, dir, wanted, pos, curr>>
      BY <2>1, <2>3 DEF FollowEnds
    <3>2. \A x : SpelledAt(x)' = SpelledAt(x)
      BY <3>1 DEF SpelledAt
    <3>3. WholeDirectory' = WholeDirectory
      BY <3>1 DEF WholeDirectory, CanRead, Length
    <3>4. WholeDirectory /\ pos \in 0 .. dir.size => pos = dir.size
      <4>1. SUFFICES ASSUME WholeDirectory, pos \in 0 .. dir.size PROVE pos = dir.size
        OBVIOUS
      <4>2. dir.size \in Nat
        BY <4>1, SizeIsNumber DEF GoodRoot, PathInv, RootsAreFormatted
      <4>3. QED
        BY <3>1, <4>1, <4>2
    <3>5. QED
      BY <3>1, <3>2, <3>3, <3>4 DEF SearchInv
  <2>4. QED
    BY <1>2, <2>2, <2>3 DEF FollowRuns
<1>3. CASE FindNext \/ ReaddirEnds
  BY <1>3 DEF FindNext, ReaddirEnds, FollowReturned, SearchInv
<1>4. CASE ReaddirGoesOn
  <2>1. wanted' = NoFunction \/ UNCHANGED <<volume, dirVars>>
    BY <1>4 DEF ReaddirGoesOn, FollowCall
  <2>2. QED
    BY <2>1, SearchUntouched DEF SearchInv
<1>5. CASE Call \/ FindStarts \/ FindEnds \/ GetattrOrOpenGoesOn \/ ReadGoesOn
           \/ ReadlinkGoesOn \/ Returned \/ UNCHANGED mountVars
  <2>1. UNCHANGED <<volume, dirVars>>
    <3>1. CASE Call
      BY <3>1 DEF Call, ext2_getattr, ext2_readdir, ext2_open, ext2_read, ext2_readlink, Begin
    <3>2. CASE ~ Call
      BY <1>5, <3>2 DEF FindStarts, FindEnds, GetattrOrOpenGoesOn, ReadGoesOn, ReadlinkGoesOn,
         Returned, mountVars
    <3>3. QED
      BY <3>1, <3>2
  <2>2. QED
    BY <2>1, SearchUntouched
<1>6. QED
  BY <1>1, <1>2, <1>3, <1>4, <1>5 DEF FsNext, Step

\* Whatever a directory holds, a search through all of it finds a name just if
\* the name and a zero byte stand somewhere 8 bytes behind a byte of the
\* directory: what a short read leaves of the turn before makes no difference.
THEOREM SearchesFindSpellings ==
  ASSUME RootsAreFormatted, PathsHaveNames
  PROVE  FsSpec => [](follow \in {"match", "zero"} /\ wanted # NoFunction /\ WholeDirectory =>
                        (follow = "match" <=> \E x \in 0 .. (dir.size - 1) : SpelledAt(x)))
<1>1. FsInit => PathInv /\ SearchInv
  BY PathInvInit, SearchInvInit
<1>2. PathInv /\ SearchInv /\ [FsNext]_mountVars => (PathInv /\ SearchInv)'
  BY PathInvKept, SearchInvKept
<1>3. ASSUME PathInv, SearchInv, follow \in {"match", "zero"}, wanted # NoFunction, WholeDirectory
      PROVE  follow = "match" <=> \E x \in 0 .. (dir.size - 1) : SpelledAt(x)
  <2>1. dir.size \in Nat
    BY <1>3, SizeIsNumber DEF GoodRoot, PathInv, RootsAreFormatted
  <2>2. /\ pos \in 0 .. dir.size
        /\ \A x \in 0 .. (pos - 1) : ~ SpelledAt(x)
        /\ follow = "match" => pos < dir.size /\ SpelledAt(pos)
        /\ follow = "zero" => pos = dir.size
    BY <1>3 DEF SearchInv
  <2>3. CASE follow = "match"
    <3>1. pos \in 0 .. (dir.size - 1)
      BY <2>1, <2>2, <2>3
    <3>2. QED
      BY <2>2, <2>3, <3>1
  <2>4. CASE follow = "zero"
    BY <2>2, <2>4
  <2>5. QED
    BY <1>3, <2>3, <2>4
<1>4. QED
  BY <1>1, <1>2, <1>3, PTL DEF FsSpec

\* What IsSuffix says, index by index.
LEMMA SuffixIs ==
  ASSUME NEW s \in Seq(Nat), NEW t \in Seq(Nat)
  PROVE  IsSuffix(s, t) <=> /\ Len(s) <= Len(t)
                            /\ \A x \in 1 .. Len(s) : s[x] = t[Len(t) - Len(s) + x]
<1>1. PICK l \in Nat, m \in Nat : l = Len(s) /\ m = Len(t)
  OBVIOUS
<1>2. /\ Reverse(s) = [x \in 1 .. l |-> s[(l - x) + 1]]
      /\ Reverse(t) = [x \in 1 .. m |-> t[(m - x) + 1]]
  BY <1>1 DEF Reverse
<1>3. Reverse(s) \in Seq(Nat) /\ Len(Reverse(s)) = l
  <2>1. \A x \in 1 .. l : s[(l - x) + 1] \in Nat
    BY <1>1
  <2>2. QED
    BY <1>2, <2>1
<1>4. Reverse(t) \in Seq(Nat) /\ Len(Reverse(t)) = m
  <2>1. \A x \in 1 .. m : t[(m - x) + 1] \in Nat
    BY <1>1
  <2>2. QED
    BY <1>2, <2>1
<1>5. \A x \in 1 .. l : Reverse(s)[x] = s[(l - x) + 1]
  BY <1>2
<1>6. \A x \in 1 .. m : Reverse(t)[x] = t[(m - x) + 1]
  BY <1>2
<1>7. CASE ~ (l <= m)
  BY <1>1, <1>3, <1>4, <1>7 DEF IsSuffix, IsPrefix
<1>8. CASE l <= m
  <2> DEFINE p == SubSeq(Reverse(s), 1, l)
             q == SubSeq(Reverse(t), 1, l)
  <2>1. p \in Seq(Nat) /\ Len(p) = l /\ \A x \in 1 .. l : p[x] = s[(l - x) + 1]
    <3>1. PICK u \in Seq(Nat) : u = Reverse(s)
      BY <1>3
    <3>2. Len(u) = l /\ \A x \in 1 .. l : u[x] = s[(l - x) + 1]
      BY <1>3, <1>5, <3>1
    <3>3. /\ SubSeq(u, 1, l) \in Seq(Nat) /\ Len(SubSeq(u, 1, l)) = l
          /\ \A x \in 1 .. l : SubSeq(u, 1, l)[x] = u[x]
      BY <3>2
    <3>4. QED
      BY <3>1, <3>2, <3>3
  <2>2. q \in Seq(Nat) /\ Len(q) = l /\ \A x \in 1 .. l : q[x] = t[(m - x) + 1]
    BY <1>4, <1>6, <1>8
  <2>3. IsSuffix(s, t) <=> p = q
    BY <1>3, <1>4, <1>8 DEF IsSuffix, IsPrefix
  <2> HIDE DEF p, q
  <2>4. ASSUME p = q, NEW x \in 1 .. l PROVE s[x] = t[m - l + x]
    <3>1. (l - x) + 1 \in 1 .. l /\ (l - ((l - x) + 1)) + 1 = x
          /\ (m - ((l - x) + 1)) + 1 = m - l + x
      OBVIOUS
    <3>2. QED
      BY <2>1, <2>2, <2>4, <3>1
  <2>5. ASSUME \A x \in 1 .. l : s[x] = t[m - l + x] PROVE p = q
    <3>1. ASSUME NEW x \in 1 .. l PROVE p[x] = q[x]
      <4>1. (l - x) + 1 \in 1 .. l /\ m - l + ((l - x) + 1) = (m - x) + 1
        OBVIOUS
      <4>2. QED
        BY <2>1, <2>2, <2>5, <4>1
    <3>2. QED
      BY <2>1, <2>2, <3>1, SeqEqual
  <2>6. QED
    BY <1>1, <1>8, <2>3, <2>4, <2>5
<1>9. QED
  BY <1>7, <1>8

\* In a root that is formatted, the end of an entry's name that a zero byte
\* follows is spelled there.
LEMMA EndsAreSpelled ==
  ASSUME GoodRoot, NEW e \in volume.entries, Terminated(e), IsName(wanted),
         IsSuffix(wanted, e.name)
  PROVE  \E x \in 0 .. (dir.size - 1) : SpelledAt(x)
<1>1. /\ e.at \in 0 .. (dir.size - 1) /\ e.name \in Seq(Nat \ {0})
      /\ (e.at % BlockBytes) + HeaderBytes + Len(e.name) <= BlockBytes
      /\ \A x \in 1 .. Len(e.name) :
            volume.bytes[DirAddress(dir, e.at) + HeaderBytes + x - 1] = e.name[x]
  BY DEF GoodRoot, RootFormatted, WholeDirectory
<1>2. dir.size \in Nat /\ BlockBytes \in Nat \ {0}
  BY SizeIsNumber, Ext2DirAssumption
<1>3. PICK o \in Nat, a \in Nat, r \in Nat :
         o = e.at /\ o < dir.size /\ a = DirAddress(dir, o) /\ r = o % BlockBytes
  <2>1. e.at \in Nat /\ e.at < dir.size
    BY <1>1, <1>2
  <2>2. DirAddress(dir, e.at) \in Nat
    BY <2>1, DirectoryBytes
  <2>3. e.at % BlockBytes \in Nat
    BY <1>2, <2>1
  <2>4. QED
    BY <2>1, <2>2, <2>3
<1>4. wanted \in Seq(Nat) /\ e.name \in Seq(Nat) /\ Len(wanted) >= 1
  BY <1>1 DEF IsName
<1>5. PICK l \in Nat, m \in Nat : l = Len(wanted) /\ m = Len(e.name)
  BY <1>4
<1>6. l <= m /\ l >= 1 /\ \A x \in 1 .. l : wanted[x] = e.name[m - l + x]
  BY <1>4, <1>5, SuffixIs
<1>7. m - l \in Nat /\ \A y \in 0 .. (m - 1) : r + (8 + y) < BlockBytes /\ r + y < BlockBytes
  <2>1. r + 8 + m <= BlockBytes
    BY <1>1, <1>3, <1>5 DEF HeaderBytes
  <2>2. QED
    BY <1>2, <1>6, <2>1
<1> DEFINE x == o + (m - l)
<1>8. DirAddress(dir, x) = a + (m - l) /\ x < dir.size
  <2>1. m - l \in 0 .. (m - 1)
    BY <1>6, <1>7
  <2>2. (o % BlockBytes) + (m - l) < BlockBytes
    BY <1>3, <1>7, <2>1
  <2>3. QED
    BY <1>3, <1>7, <2>2, DirectoryBytes
<1>9. \A y \in 0 .. (m - 1) : CanRead(a + (8 + y)) /\ volume.bytes[a + (8 + y)] = e.name[y + 1]
  <2>1. ASSUME NEW y \in 0 .. (m - 1)
        PROVE  CanRead(a + (8 + y)) /\ volume.bytes[a + (8 + y)] = e.name[y + 1]
    <3>1. 8 + y \in Nat /\ (o % BlockBytes) + (8 + y) < BlockBytes
      BY <1>3, <1>7
    <3>2. CanRead(a + (8 + y))
      BY <1>3, <3>1, DirectoryBytes
    <3>3. y + 1 \in 1 .. Len(e.name) /\ a + 8 + (y + 1) - 1 = a + (8 + y)
      BY <1>5
    <3>4. volume.bytes[a + 8 + (y + 1) - 1] = e.name[y + 1]
      BY <1>1, <1>3, <3>3 DEF HeaderBytes
    <3>5. QED
      BY <3>2, <3>3, <3>4
  <2>2. QED
    BY <2>1
<1>10. CanRead(a + 8 + m) /\ volume.bytes[a + 8 + m] = 0
  BY <1>3, <1>5 DEF Terminated, NameAddress, HeaderBytes
<1>11. ASSUME NEW y \in 0 .. l
       PROVE  /\ CanRead(a + (m - l) + 8 + y)
              /\ volume.bytes[a + (m - l) + 8 + y] = IF y < l THEN wanted[y + 1] ELSE 0
  <2>1. CASE y < l
    <3>1. PICK z \in 0 .. (m - 1) : z = m - l + y
      BY <1>6, <1>7, <2>1
    <3>2. a + (m - l) + 8 + y = a + (8 + z) /\ z + 1 = m - l + (y + 1) /\ y + 1 \in 1 .. l
      BY <1>7, <2>1, <3>1
    <3>3. wanted[y + 1] = e.name[z + 1]
      BY <1>6, <3>2
    <3>4. QED
      BY <1>9, <2>1, <3>2, <3>3
  <2>2. CASE ~ (y < l)
    <3>1. a + (m - l) + 8 + y = a + 8 + m
      BY <1>7, <2>2
    <3>2. QED
      BY <1>10, <2>2, <3>1
  <2>3. QED
    BY <2>1, <2>2
<1>12. SpelledAt(x)
  BY <1>5, <1>8, <1>11 DEF SpelledAt, Spells, CanRead, Length, HeaderBytes
<1>13. x \in 0 .. (dir.size - 1)
  BY <1>2, <1>7, <1>8
<1>14. QED
  BY <1>12, <1>13

\* What is spelled is the end of a name, when only entries spell it.
LEMMA SpellingsAreEnds ==
  ASSUME GoodRoot, IsName(wanted), OnlyEntriesSpell(volume, wanted),
         NEW x \in 0 .. (dir.size - 1), SpelledAt(x)
  PROVE  \E e \in volume.entries : Terminated(e) /\ IsSuffix(wanted, e.name)
<1>1. dir = volume.inode[RootNumber] /\ dir.size \in Nat
  BY SizeIsNumber DEF GoodRoot, WholeDirectory
<1>2. PICK e \in volume.entries :
         /\ Len(wanted) <= Len(e.name)
         /\ DirAddress(dir, x) + Len(wanted) = DirAddress(dir, e.at) + Len(e.name)
  BY <1>1 DEF OnlyEntriesSpell, SpelledAt
<1>3. /\ e.at \in 0 .. (dir.size - 1) /\ e.name \in Seq(Nat \ {0})
      /\ \A y \in 1 .. Len(e.name) :
            volume.bytes[DirAddress(dir, e.at) + HeaderBytes + y - 1] = e.name[y]
  BY <1>1 DEF GoodRoot, RootFormatted
<1>4. PICK a \in Nat, b \in Nat : a = DirAddress(dir, x) /\ b = DirAddress(dir, e.at)
  <2>1. x \in Nat /\ x < dir.size /\ e.at \in Nat /\ e.at < dir.size
    BY <1>1, <1>3
  <2>2. DirAddress(dir, x) \in Nat
    BY <2>1, DirectoryBytes
  <2>3. DirAddress(dir, e.at) \in Nat
    BY <2>1, DirectoryBytes
  <2>4. QED
    BY <2>2, <2>3
<1>5. wanted \in Seq(Nat) /\ e.name \in Seq(Nat)
  BY <1>3 DEF IsName
<1>6. PICK l \in Nat, m \in Nat : l = Len(wanted) /\ m = Len(e.name)
  BY <1>5
<1>7. l <= m /\ a + l = b + m
  BY <1>2, <1>4, <1>6
<1>8. \A y \in 0 .. l :
         CanRead(a + 8 + y) /\ volume.bytes[a + 8 + y] = IF y < l THEN wanted[y + 1] ELSE 0
  BY <1>4, <1>6 DEF SpelledAt, Spells, CanRead, Length, HeaderBytes
<1>9. \A y \in 1 .. l : wanted[y] = e.name[m - l + y]
  <2>1. ASSUME NEW y \in 1 .. l PROVE wanted[y] = e.name[m - l + y]
    <3>1. y - 1 \in 0 .. l /\ y - 1 < l /\ (y - 1) + 1 = y
      OBVIOUS
    <3>2. volume.bytes[a + 8 + (y - 1)] = wanted[y]
      BY <1>8, <3>1
    <3>3. m - l + y \in 1 .. m /\ b + 8 + (m - l + y) - 1 = a + 8 + (y - 1)
      BY <1>7
    <3>4. volume.bytes[b + 8 + (m - l + y) - 1] = e.name[m - l + y]
      BY <1>3, <1>4, <1>6, <3>3 DEF HeaderBytes
    <3>5. QED
      BY <3>2, <3>3, <3>4
  <2>2. QED
    BY <2>1
<1>10. IsSuffix(wanted, e.name)
  BY <1>5, <1>6, <1>7, <1>9, SuffixIs
<1>11. Terminated(e)
  <2>1. a + 8 + l = b + 8 + m
    BY <1>7
  <2>2. CanRead(a + 8 + l) /\ volume.bytes[a + 8 + l] = 0
    BY <1>8
  <2>3. QED
    BY <1>4, <1>6, <2>1, <2>2 DEF Terminated, NameAddress, HeaderBytes
<1>12. QED
  BY <1>10, <1>11

\* Where nothing but names is spelled like a name of a path, a search through a
\* whole directory finds the ends of its terminated names and nothing else.
THEOREM SearchesFindNames ==
  ASSUME RootsAreFormatted, PathsHaveNames, OnlyNamesAreSpelled
  PROVE  FsSpec => []SearchFindsNames
<1>1. FsInit => PathInv /\ SearchInv
  BY PathInvInit, SearchInvInit
<1>2. PathInv /\ SearchInv /\ [FsNext]_mountVars => (PathInv /\ SearchInv)'
  BY PathInvKept, SearchInvKept
<1> DEFINE Found == \E x \in 0 .. (dir.size - 1) : SpelledAt(x)
<1>3. ASSUME PathInv, SearchInv,
             follow \in {"match", "zero"} /\ wanted # NoFunction /\ WholeDirectory =>
                (follow = "match" <=> Found)
      PROVE  SearchFindsNames
  <2>1. SUFFICES ASSUME follow \in {"match", "zero"}, wanted # NoFunction, WholeDirectory
        PROVE  Found <=> \E e \in volume.entries : Terminated(e) /\ IsSuffix(wanted, e.name)
    BY <1>3 DEF SearchFindsNames
  <2>2. GoodRoot
    BY <1>3, <2>1 DEF GoodRoot, PathInv, RootsAreFormatted
  <2>3. PICK p \in Paths : \E n \in DOMAIN p.names : wanted = p.names[n]
    BY <1>3, <2>1 DEF SearchInv
  <2>4. IsName(wanted) /\ OnlyEntriesSpell(volume, wanted)
    BY <1>3, <2>3 DEF PathsHaveNames, OnlyNamesAreSpelled, PathInv
  <2>5. QED
    BY <2>2, <2>4, EndsAreSpelled, SpellingsAreEnds
<1>4. QED
  BY <1>1, <1>2, <1>3, SearchesFindSpellings, PTL DEF FsSpec

-----------------------------------------------------------------------------
\* What ext2fs.c does is modelled over read_file_content as one step that
\* answers with one of Contents: of every read, inside the file and past its
\* end, read_file_content does return one of those.
THEOREM ReadsAreContents ==
  ASSUME SizesFit
  PROVE  Spec => [](pc = "returned" => rv \in Contents(inode_file_size, offset, asked))
<1>1. SumsFit
  <2>1. ASSUME NEW img \in Images, NEW m \in Sizes PROVE img.size + m < U64
    <3>1. img.size \in Nat /\ m \in Nat /\ U64 \in Nat
      BY ImagesAssumption, Ext2Assumption
    <3>2. img.size + 1 + m < U64
      BY DEF SizesFit
    <3>3. QED
      BY <3>1, <3>2
  <2>2. QED
    BY <2>1 DEF SumsFit
<1> DEFINE Inv == ReadInv /\ PastInv
<1>2. Init => Inv
  <2> SUFFICES ASSUME Init PROVE PastInv
    BY InitInv
  <2>1. image.size \in Nat /\ offset = 0
    BY ImagesAssumption DEF Init
  <2>2. QED
    BY <2>1 DEF PastInv, inode_file_size
<1>3. Inv /\ [Next]_vars => Inv'
  <2>1. CASE UNCHANGED vars
    BY <2>1, NextInv DEF vars, PastInv, inode_file_size
  <2>2. CASE Next
    BY <2>2, NextInv, PastInvKept
  <2>3. QED
    BY <2>1, <2>2
<1>4. ASSUME Inv, AllOrNothing, pc = "returned"
      PROVE  rv \in Contents(inode_file_size, offset, asked)
  <2>1. PICK s \in Nat, o \in Nat, m \in Nat : s = inode_file_size /\ o = offset /\ m = asked
    BY <1>4, ImagesAssumption, Ext2Assumption DEF ReadInv, VolumeInv, TypeOK, inode_file_size
  <2>2. CASE o > s
    BY <1>4, <2>1, <2>2 DEF PastInv, Contents
  <2>3. CASE o <= s
    <3>1. rv \in {-1, 0, Wanted}
      BY <1>4, <2>1, <2>3 DEF AllOrNothing, InFile
    <3>2. Wanted = IF o + m > s THEN s - o ELSE m
      BY <2>1 DEF Wanted
    <3>3. Min({m, s - o}) = Wanted
      BY <2>1, <2>3, <3>2 DEF Min
    <3>4. QED
      BY <2>1, <2>3, <3>1, <3>3 DEF Contents
  <2>4. QED
    BY <2>1, <2>2, <2>3
<1>5. QED
  BY <1>1, <1>2, <1>3, <1>4, ReadsAreAllOrNothing, PTL DEF Spec
=============================================================================
