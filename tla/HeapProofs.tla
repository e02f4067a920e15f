----------------------------- MODULE HeapProofs -----------------------------
(***************************************************************************)
(* Theorems about lab5/implicit.c: heaps of every size, sequences of calls  *)
(* of every length, every strategy.                                         *)
(***************************************************************************)
EXTENDS Heap, Sequences, NatLemmas

-----------------------------------------------------------------------------
(* The region. *)

Memories == [Words -> 0 .. (WordMod - 1)]

\* Headers lie on odd multiples of 4, so that payloads lie on multiples of 8.
LEMMA Region ==
  /\ start \in Nat /\ size \in Nat /\ end = start + size
  /\ start % 8 = 4 /\ start >= 32 /\ size % 8 = 0 /\ size >= 8
  /\ WordMod \in Nat /\ WordMod > size /\ WordMod % 8 = 0
BY HeapAssumption DEF start, size, end, delta, heap_start, HEADER_SIZE, PAYLOAD_ALIGN

LEMMA InWords ==
  ASSUME NEW a \in Int
  PROVE  a \in Words <=> start - 4 <= a /\ a <= end - 4 /\ (a - start) % 4 = 0
<1>1. start \in Nat /\ size \in Nat /\ end = start + size /\ size % 8 = 0
  BY Region
<1>2. size \div 4 \in Nat /\ size = 4 * (size \div 4)
  BY <1>1
<1>3. ASSUME a \in Words
      PROVE  start - 4 <= a /\ a <= end - 4 /\ (a - start) % 4 = 0
  <2>1. PICK k \in 0 .. (size \div 4) : a = start - 4 + 4 * k
    BY <1>3 DEF Words
  <2>2. QED
    BY <1>1, <1>2, <2>1
<1>4. ASSUME start - 4 <= a, a <= end - 4, (a - start) % 4 = 0
      PROVE  a \in Words
  <2>1. PICK k \in Int : a = start + 4 * k
    BY <1>1, <1>4
  <2>2. k + 1 \in 0 .. (size \div 4) /\ a = start - 4 + 4 * (k + 1)
    BY <1>1, <1>2, <1>4, <2>1
  <2>3. QED
    BY <2>2 DEF Words
<1>5. QED
  BY <1>3, <1>4

LEMMA WordsAreInt == Words \subseteq Int
<1>1. start \in Nat /\ size \div 4 \in Nat
  BY Region
<1>2. QED
  BY <1>1 DEF Words

-----------------------------------------------------------------------------
(* A header and its footer. *)

\* What a block is, read from its header.
LEMMA HeaderWord ==
  ASSUME NEW m \in Memories, NEW b \in Words
  PROVE  /\ get_block_size(m, b) \in 0 .. (WordMod - 1)
         /\ get_block_size(m, b) % 4 = 0
         /\ get_block_size(m, b) = m[b] - (m[b] % 4)
<1>1. PICK x \in 0 .. (WordMod - 1) : x = m[b]
  BY DEF Memories
<1>2. WordMod \in Nat
  BY Region
<1>3. x - (x % 4) \in 0 .. (WordMod - 1) /\ (x - (x % 4)) % 4 = 0
  BY <1>1, <1>2
<1>4. get_block_size(m, b) = x - (x % 4)
  BY <1>1 DEF get_block_size, HEADER_SIZE
<1>5. QED
  BY <1>1, <1>3, <1>4

LEMMA Footer ==
  ASSUME NEW b \in Int, NEW s \in 0 .. (WordMod - 1), s >= 8, s % 8 = 0
  PROVE  FooterOf(b, s) = b + s - 4
<1>1. s - (s % HEADER_SIZE) = s
  BY Region DEF HEADER_SIZE
<1>2. Wrap(s - 8) = s - 8
  BY Region DEF Wrap
<1>3. QED
  BY <1>1, <1>2 DEF FooterOf, HEADER_SIZE

\* Writing a header and its footer, for a size that a block can have.
LEMMA SetHeader ==
  ASSUME NEW m \in Memories, NEW b \in Words, NEW s \in 0 .. (WordMod - 1), NEW u \in {0, 1},
         s >= 8, s % 8 = 0, b + s - 4 \in Words
  PROVE  LET m2 == set_block_header(m, b, s, u)
         IN  /\ m2 \in Memories
             /\ \A a \in Words : m2[a] = IF a \in {b, b + s - 4} THEN s + u ELSE m[a]
<1>1. WordMod \in Nat /\ WordMod % 8 = 0
  BY Region
<1>2. HeaderValue(s, u) = s + u /\ s + u \in 0 .. (WordMod - 1)
  BY <1>1 DEF HeaderValue
<1>3. FooterOf(b, s) = b + s - 4
  BY Footer, WordsAreInt
<1>4. set_block_header(m, b, s, u) = [m EXCEPT ![b] = s + u, ![b + s - 4] = s + u]
  BY <1>2, <1>3 DEF set_block_header
<1>5. QED
  BY <1>2, <1>4 DEF Memories

LEMMA SetHeaderSize ==
  ASSUME NEW m \in Memories, NEW b \in Words, NEW s \in Nat, NEW u \in {0, 1},
         s % 8 = 0, m[b] = s + u
  PROVE  /\ get_block_size(m, b) = s
         /\ block_is_in_use(m, b) <=> u = 1
         /\ m[b] % 4 = u
<1>1. PICK x \in Nat : x = m[b] /\ x = s + u
  OBVIOUS
<1>2. x % 4 = u /\ x - (x % 4) = s /\ x % 2 = u
  <2>1. PICK q \in Nat : s = 8 * q
    OBVIOUS
  <2>2. CASE u = 0
    BY <1>1, <2>1, <2>2
  <2>3. CASE u = 1
    BY <1>1, <2>1, <2>3
  <2>4. QED
    BY <2>2, <2>3
<1>3. QED
  BY <1>1, <1>2 DEF get_block_size, block_is_in_use, HEADER_SIZE

\* The same of a block that is free.
LEMMA SetFree ==
  ASSUME NEW m \in Memories, NEW b \in Words, NEW s \in 0 .. (WordMod - 1),
         s >= 8, s % 8 = 0, NEW f \in Words, f = b + s - 4
  PROVE  LET m2 == set_block_header(m, b, s, 0)
         IN  /\ m2 \in Memories
             /\ m2[b] = s /\ m2[f] = s
             /\ \A a \in Words : a # b /\ a # f => m2[a] = m[a]
<1> DEFINE m2 == set_block_header(m, b, s, 0)
<1>1. 0 \in {0, 1} /\ b + s - 4 \in Words
  OBVIOUS
<1>2. /\ m2 \in Memories
      /\ \A a \in Words : m2[a] = IF a \in {b, b + s - 4} THEN s + 0 ELSE m[a]
  BY <1>1, SetHeader
<1> HIDE DEF m2
<1>3. s + 0 = s
  OBVIOUS
<1>4. QED
  BY <1>2, <1>3 DEF m2

LEMMA FreeSize ==
  ASSUME NEW m \in Memories, NEW b \in Words, NEW s \in Nat, s % 8 = 0, m[b] = s
  PROVE  get_block_size(m, b) = s /\ ~ block_is_in_use(m, b) /\ m[b] % 4 = 0
<1>1. m[b] = s + 0 /\ 0 \in {0, 1}
  OBVIOUS
<1>2. get_block_size(m, b) = s /\ (block_is_in_use(m, b) <=> 0 = 1) /\ m[b] % 4 = 0
  BY <1>1, SetHeaderSize
<1>3. QED
  BY <1>2

-----------------------------------------------------------------------------
(* Tilings: the parts of Intact, over a memory and a set of blocks. *)

TiledIn(m, B) ==
    /\ start \in B
    /\ \A b \in B :
          LET s == get_block_size(m, b)
          IN  /\ s >= 8 /\ s % 8 = 0 /\ m[b] % 4 \in {0, 1}
              /\ m[b + s - 4] = m[b]
              /\ b + s \in B \union {end}
              /\ \A c \in B : c <= b \/ c >= b + s

UsedIn(m, B) == {b \in B : block_is_in_use(m, b)}

\* No two neighbours are free, but perhaps for the neighbours of X.
MergedBut(m, B, X) ==
    \A b \in B :
        LET c == get_next_block(m, b)
        IN  c \in B /\ b \notin X /\ c \notin X => block_is_in_use(m, b) \/ block_is_in_use(m, c)

LEMMA BlockFacts ==
  ASSUME NEW m \in Memories, NEW B \in SUBSET Words, TiledIn(m, B), NEW b \in B, NEW s,
         s = get_block_size(m, b)
  PROVE  /\ b \in Int /\ s \in Nat /\ s >= 8 /\ s % 8 = 0 /\ s < WordMod
         /\ start <= b /\ b + s <= end /\ b <= end - 8
         /\ m[b] = s + (m[b] % 4) /\ m[b] % 4 \in {0, 1}
         /\ block_is_in_use(m, b) <=> m[b] % 4 = 1
         /\ b + s - 4 \in Words /\ m[b + s - 4] = m[b]
         /\ b + s \in B \union {end}
<1>1. PICK x \in 0 .. (WordMod - 1) : x = m[b]
  BY DEF Memories
<1>2. s \in 0 .. (WordMod - 1) /\ s = x - (x % 4)
  BY <1>1, HeaderWord
<1>3. /\ s >= 8 /\ s % 8 = 0 /\ x % 4 \in {0, 1}
      /\ m[b + s - 4] = x
      /\ b + s \in B \union {end}
      /\ start \in B
      /\ \A c \in B : c <= b \/ c >= b + s
  BY <1>1 DEF TiledIn
<1>4. /\ start \in Nat /\ end \in Nat /\ WordMod \in Nat /\ b \in Int
  BY Region, WordsAreInt
<1>5. /\ start - 4 <= b /\ b <= end - 4 /\ (b - start) % 4 = 0
  BY <1>4, InWords
<1>6. start <= b
  BY <1>2, <1>3, <1>4, <1>5
<1>7. b + s <= end
  <2>1. CASE b + s = end
    BY <2>1, <1>4
  <2>2. CASE b + s \in B
    <3>1. b + s \in Int /\ b + s \in Words
      BY <1>2, <1>4, <2>2
    <3>2. QED
      BY <1>4, <3>1, InWords
  <2>3. QED
    BY <1>3, <2>1, <2>2
<1>8. b + s - 4 \in Words
  <2>1. PICK a \in Int : a = b + s - 4
    BY <1>2, <1>4
  <2>2. start - 4 <= a /\ a <= end - 4
    BY <1>2, <1>3, <1>4, <1>6, <1>7, <2>1
  <2>3. (a - start) % 4 = 0
    BY <1>2, <1>3, <1>4, <1>5, <2>1
  <2>4. a \in Words
    BY <2>2, <2>3, InWords
  <2>5. QED
    BY <2>1, <2>4
<1>9. x = s + (x % 4) /\ (x % 2 = 1 <=> x % 4 = 1)
  BY <1>1, <1>2, <1>3, <1>4
<1>10. QED
  BY <1>1, <1>2, <1>3, <1>4, <1>6, <1>7, <1>8, <1>9 DEF block_is_in_use

LEMMA Disjoint ==
  ASSUME NEW m \in Memories, NEW B \in SUBSET Words, TiledIn(m, B), NEW b \in B, NEW c \in B,
         b # c
  PROVE  b + get_block_size(m, b) <= c \/ c + get_block_size(m, c) <= b
<1>1. b \in Int /\ c \in Int /\ get_block_size(m, b) \in Nat /\ get_block_size(m, c) \in Nat
  BY BlockFacts
<1>2. /\ c <= b \/ c >= b + get_block_size(m, b)
      /\ b <= c \/ b >= c + get_block_size(m, c)
  BY DEF TiledIn
<1>3. QED
  BY <1>1, <1>2

LEMMA Predecessor ==
  ASSUME NEW m \in Memories, NEW B \in SUBSET Words, TiledIn(m, B), NEW b \in B, b # start
  PROVE  \E p \in B : p + get_block_size(m, p) = b
<1> DEFINE T == {b - p : p \in {p \in B : p < b}}
<1>1. \A p \in B : p \in Int
  BY WordsAreInt
<1>2. start \in B /\ start < b /\ b < end /\ end \in Nat
  BY <1>1, BlockFacts, Region DEF TiledIn
<1>3. b - start \in T /\ T \in SUBSET Nat
  BY <1>1, <1>2
<1>4. PICK least \in T : \A n \in T : least <= n
  <2> HIDE DEF T
  <2>1. QED
    BY <1>3, LeastElement
<1>5. PICK p \in B : p < b /\ least = b - p
  OBVIOUS
<1>6. PICK q \in Int : q = p + get_block_size(m, p)
  BY <1>1, BlockFacts
<1>7. q <= b /\ p < q
  BY <1>1, <1>5, <1>6, Disjoint, BlockFacts
<1>8. q \in B \union {end}
  BY <1>6, BlockFacts
<1>9. CASE q < b
  <2>1. q \in B
    BY <1>2, <1>8, <1>9
  <2>2. b - q \in T
    BY <1>9, <2>1
  <2>3. b - p <= b - q
    BY <1>4, <1>5, <2>2
  <2>4. QED
    BY <1>1, <1>5, <1>6, <1>7, <2>3
<1>10. QED
  BY <1>1, <1>6, <1>7, <1>9

LEMMA BlockAligned ==
  ASSUME NEW m \in Memories, NEW B \in SUBSET Words, TiledIn(m, B), NEW b \in B
  PROVE  b % 8 = 4
<1> DEFINE T == {end - c : c \in {c \in B : c % 8 # 4}}
<1>1. \A c \in B : c \in Int /\ c < end
  BY WordsAreInt, BlockFacts, Region
<1>2. start \in Nat /\ start % 8 = 4 /\ end \in Nat /\ end % 8 = 4
  <2>1. PICK x \in Nat, y \in Nat : x = start /\ y = size /\ end = x + y /\ x % 8 = 4 /\ y % 8 = 0
    BY Region
  <2>2. (x + y) % 8 = 4
    BY <2>1
  <2>3. QED
    BY <2>1, <2>2
<1>3. SUFFICES ASSUME b % 8 # 4
               PROVE  FALSE
  OBVIOUS
<1>4. end - b \in T /\ T \in SUBSET Nat
  BY <1>1, <1>2, <1>3
<1>5. PICK least \in T : \A n \in T : least <= n
  <2> HIDE DEF T
  <2>1. QED
    BY <1>4, LeastElement
<1>6. PICK c \in B : c % 8 # 4 /\ least = end - c
  OBVIOUS
<1>7. PICK s \in Nat : s = get_block_size(m, c) /\ s >= 8 /\ s % 8 = 0
  BY BlockFacts
<1>8. c + s \in B \union {end} /\ c \in Int
  BY <1>1, <1>7, BlockFacts
<1>9. (c + s) % 8 # 4
  BY <1>6, <1>7, <1>8
<1>10. c + s \in B
  BY <1>2, <1>8, <1>9
<1>11. end - (c + s) \in T
  BY <1>9, <1>10
<1>12. end - c <= end - (c + s)
  BY <1>5, <1>6, <1>11
<1>13. QED
  BY <1>2, <1>7, <1>8, <1>12

\* A block that starts inside the heap where another ends is a block.
LEMMA NextIsInB ==
  ASSUME NEW m \in Memories, NEW B \in SUBSET Words, TiledIn(m, B), NEW b \in B
  PROVE  /\ get_next_block(m, b) = b + get_block_size(m, b)
         /\ get_next_block(m, b) \in Int
         /\ is_within_heap_range(get_next_block(m, b)) <=> get_next_block(m, b) \in B
<1>1. PICK n \in Int : n = b + get_block_size(m, b) /\ n \in B \union {end}
  BY BlockFacts
<1>2. end \in Nat /\ start \in Nat
  BY Region
<1>3. ASSUME NEW c \in B PROVE start <= c /\ c < end /\ c \in Int
  <2>1. start <= c /\ c <= end - 8 /\ c \in Int
    BY BlockFacts
  <2>2. QED
    BY <1>2, <2>1
<1>4. is_within_heap_range(n) <=> n \in B
  BY <1>1, <1>2, <1>3 DEF is_within_heap_range
<1>5. QED
  BY <1>1, <1>4 DEF get_next_block

-----------------------------------------------------------------------------
(* Changes of a tiling between b and e, both places where blocks meet. *)

Inside(x, b, e) == b <= x /\ x < e

LEMMA Retile ==
  ASSUME NEW m \in Memories, NEW m2 \in Memories,
         NEW B \in SUBSET Words, NEW B2 \in SUBSET Words,
         TiledIn(m, B),
         NEW b \in B, b \in B2,
         NEW e \in Int, e \in B \union {end}, b < e,
         \A a \in Words : ~ Inside(a, b, e) => m2[a] = m[a] /\ (a \in B2 <=> a \in B),
         \A x \in B2 : Inside(x, b, e) =>
            LET s == get_block_size(m2, x)
            IN  /\ s >= 8 /\ s % 8 = 0 /\ m2[x] % 4 \in {0, 1}
                /\ m2[x + s - 4] = m2[x]
                /\ x + s \in B2 \union {e} /\ x + s <= e
                /\ \A c \in B2 : Inside(c, b, e) => c <= x \/ c >= x + s
  PROVE  /\ TiledIn(m2, B2)
         /\ \A x \in B2 : ~ Inside(x, b, e) =>
               /\ x \in B /\ get_block_size(m2, x) = get_block_size(m, x)
               /\ block_is_in_use(m2, x) <=> block_is_in_use(m, x)
<1>1. \A x \in Words : x \in Int
  BY WordsAreInt
<1>2. b \in Int /\ end \in Int /\ start \in Int /\ e <= end /\ start <= b /\ b < end
  <2>1. start \in Nat /\ end \in Nat /\ b \in Int /\ start <= b /\ b < end
    BY BlockFacts, Region, <1>1
  <2>2. e \in B => e < end
    BY BlockFacts, Region, <1>1
  <2>3. QED
    BY <2>1, <2>2
<1>3. \A x \in B2 : ~ Inside(x, b, e) =>
         /\ x \in B /\ m2[x] = m[x] /\ get_block_size(m2, x) = get_block_size(m, x)
         /\ block_is_in_use(m2, x) <=> block_is_in_use(m, x)
  BY DEF get_block_size, block_is_in_use
<1>4. start \in B2
  BY <1>1, <1>2 DEF TiledIn, Inside
<1>5. e \in B2 \union {end}
  BY <1>1 DEF Inside
<1>6. ASSUME NEW x \in B2, NEW s, s = get_block_size(m2, x)
      PROVE  /\ s >= 8 /\ s % 8 = 0 /\ m2[x] % 4 \in {0, 1}
             /\ m2[x + s - 4] = m2[x]
             /\ x + s \in B2 \union {end}
             /\ \A c \in B2 : c <= x \/ c >= x + s
  <2>1. x \in Int /\ s \in Nat
    BY <1>1, <1>6, HeaderWord, Region
  <2>2. CASE Inside(x, b, e)
    <3>1. /\ s >= 8 /\ s % 8 = 0 /\ m2[x] % 4 \in {0, 1}
          /\ m2[x + s - 4] = m2[x]
          /\ x + s \in B2 \union {e} /\ x + s <= e
          /\ \A c \in B2 : Inside(c, b, e) => c <= x \/ c >= x + s
      BY <1>6, <2>2
    <3>2. \A c \in B2 : ~ Inside(c, b, e) => c <= x \/ c >= x + s
      BY <1>1, <1>2, <2>1, <2>2, <3>1 DEF Inside
    <3>3. QED
      BY <1>5, <3>1, <3>2
  <2>3. CASE ~ Inside(x, b, e)
    <3>1. x \in B /\ m2[x] = m[x] /\ s = get_block_size(m, x)
      BY <1>3, <1>6, <2>3
    <3>2. /\ s >= 8 /\ s % 8 = 0 /\ m[x] % 4 \in {0, 1}
          /\ m[x + s - 4] = m[x] /\ x + s - 4 \in Words
          /\ x + s \in B \union {end}
      BY <3>1, BlockFacts
    <3>3. \A c \in B : c <= x \/ c >= x + s
      BY <3>1 DEF TiledIn
    <3>4. CASE x < b
      <4>1. x + s <= b
        BY <1>2, <2>1, <3>3, <3>4
      <4>2. ~ Inside(x + s - 4, b, e)
        BY <1>2, <2>1, <4>1 DEF Inside
      <4>3. m2[x + s - 4] = m[x + s - 4]
        BY <3>2, <4>2
      <4>4. x + s \in B2
        <5>1. x + s \in B
          BY <1>2, <2>1, <3>2, <4>1
        <5>2. CASE x + s = b
          BY <5>2
        <5>3. CASE x + s # b
          BY <1>2, <2>1, <4>1, <5>1, <5>3 DEF Inside
        <5>4. QED
          BY <5>2, <5>3
      <4>5. \A c \in B2 : c <= x \/ c >= x + s
        <5>1. ASSUME NEW c \in B2 PROVE c <= x \/ c >= x + s
          <6>1. CASE c < b
            BY <1>1, <1>2, <3>3, <6>1 DEF Inside
          <6>2. CASE ~ (c < b)
            BY <1>1, <1>2, <2>1, <4>1, <6>2
          <6>3. QED
            BY <6>1, <6>2
        <5>2. QED
          BY <5>1
      <4>6. QED
        BY <3>1, <3>2, <4>3, <4>4, <4>5
    <3>5. CASE x >= e
      <4>1. ~ Inside(x + s - 4, b, e)
        BY <1>2, <2>1, <3>2, <3>5 DEF Inside
      <4>2. m2[x + s - 4] = m[x + s - 4]
        BY <3>2, <4>1
      <4>3. x + s \in B2 \union {end}
        BY <1>1, <1>2, <2>1, <3>2, <3>5 DEF Inside
      <4>4. \A c \in B2 : c <= x \/ c >= x + s
        <5>1. ASSUME NEW c \in B2 PROVE c <= x \/ c >= x + s
          <6>1. CASE c >= e
            BY <1>1, <1>2, <3>3, <6>1 DEF Inside
          <6>2. CASE ~ (c >= e)
            BY <1>1, <1>2, <2>1, <3>5, <6>2
          <6>3. QED
            BY <6>1, <6>2
        <5>2. QED
          BY <5>1
      <4>5. QED
        BY <3>1, <3>2, <4>2, <4>3, <4>4
    <3>6. QED
      BY <1>2, <2>1, <2>3, <3>4, <3>5 DEF Inside
  <2>4. QED
    BY <2>2, <2>3
<1>7. TiledIn(m2, B2)
  BY <1>4, <1>6 DEF TiledIn
<1>8. QED
  BY <1>3, <1>7

\* Marking a block as in use or as free.
LEMMA Flag ==
  ASSUME NEW m \in Memories, NEW B \in SUBSET Words, TiledIn(m, B), NEW b \in B, NEW u \in {0, 1},
         NEW s, s = get_block_size(m, b)
  PROVE  LET m2 == set_block_header(m, b, s, u)
         IN  /\ m2 \in Memories /\ TiledIn(m2, B)
             /\ \A x \in B : /\ get_block_size(m2, x) = get_block_size(m, x)
                             /\ x # b => (block_is_in_use(m2, x) <=> block_is_in_use(m, x))
             /\ block_is_in_use(m2, b) <=> u = 1
             /\ \A a \in Words : ~ Inside(a, b, b + s) => m2[a] = m[a]
<1> DEFINE m2 == set_block_header(m, b, s, u)
<1>1. /\ b \in Int /\ s \in Nat /\ s >= 8 /\ s % 8 = 0 /\ s < WordMod
      /\ b + s - 4 \in Words /\ b + s \in B \union {end}
  BY BlockFacts
<1>2. s \in 0 .. (WordMod - 1)
  BY <1>1, Region
<1>3. /\ m2 \in Memories
      /\ \A a \in Words : m2[a] = IF a \in {b, b + s - 4} THEN s + u ELSE m[a]
  BY <1>1, <1>2, SetHeader
<1> HIDE DEF m2
<1>4. m2[b] = s + u /\ m2[b + s - 4] = s + u
  BY <1>1, <1>3
<1>5. get_block_size(m2, b) = s /\ (block_is_in_use(m2, b) <=> u = 1) /\ m2[b] % 4 = u
  BY <1>1, <1>3, <1>4, SetHeaderSize
<1>6. \A a \in Words : ~ Inside(a, b, b + s) => m2[a] = m[a]
  BY <1>1, <1>3 DEF Inside
<1>7. \A x \in B : Inside(x, b, b + s) => x = b
  BY <1>1, WordsAreInt DEF Inside, TiledIn
<1>8. PICK e \in Int : e = b + s
  BY <1>1
<1>9. TiledIn(m2, B) /\ \A x \in B : ~ Inside(x, b, e) =>
               /\ x \in B /\ get_block_size(m2, x) = get_block_size(m, x)
               /\ block_is_in_use(m2, x) <=> block_is_in_use(m, x)
  <2>1. e \in B \union {end} /\ b < e
    BY <1>1, <1>8
  <2>2. \A a \in Words : ~ Inside(a, b, e) => m2[a] = m[a] /\ (a \in B <=> a \in B)
    BY <1>6, <1>8
  <2>3. ASSUME NEW x \in B, Inside(x, b, e)
        PROVE  LET t == get_block_size(m2, x)
               IN  /\ t >= 8 /\ t % 8 = 0 /\ m2[x] % 4 \in {0, 1}
                   /\ m2[x + t - 4] = m2[x]
                   /\ x + t \in B \union {e} /\ x + t <= e
                   /\ \A c \in B : Inside(c, b, e) => c <= x \/ c >= x + t
    <3>1. x = b
      BY <1>7, <1>8, <2>3
    <3>2. \A c \in B : Inside(c, b, e) => c <= x
      BY <1>1, <1>7, <1>8, <3>1
    <3>3. get_block_size(m2, x) = s /\ m2[x] % 4 \in {0, 1} /\ m2[x + s - 4] = m2[x]
      BY <1>4, <1>5, <3>1
    <3>4. x + s \in B \union {e} /\ x + s <= e /\ \A c \in B : Inside(c, b, e) => c <= x \/ c >= x + s
      BY <1>8, <3>1, <3>2
    <3>5. QED
      BY <1>1, <3>3, <3>4
  <2>4. QED
    BY <1>3, <2>1, <2>2, <2>3, Retile
<1>10. QED
  BY <1>3, <1>5, <1>6, <1>7, <1>8, <1>9 DEF m2

\* prepare_block_for_use splits a block.
SplitInTwo(m, B, b, s, real, m2) ==
    LET B2 == B \union {b + real}
    IN  /\ m2 \in Memories /\ B2 \in SUBSET Words /\ TiledIn(m2, B2)
        /\ b + real \notin B
        /\ get_block_size(m2, b) = real /\ block_is_in_use(m2, b)
        /\ get_block_size(m2, b + real) = s - real /\ ~ block_is_in_use(m2, b + real)
        /\ \A x \in B : x # b =>
              /\ get_block_size(m2, x) = get_block_size(m, x)
              /\ block_is_in_use(m2, x) <=> block_is_in_use(m, x)
        /\ \A a \in Words : ~ Inside(a, b, b + s) => m2[a] = m[a]

LEMMA Split ==
  ASSUME NEW m \in Memories, NEW B \in SUBSET Words, TiledIn(m, B), NEW b \in B,
         NEW s, s = get_block_size(m, b),
         NEW real \in Nat, real % 8 = 0, real >= 8, real <= s - 8
  PROVE  SplitInTwo(m, B, b, s, real,
            set_block_header(set_block_header(m, b + real, s - real, 0), b, real, 1))
<1>1. /\ b \in Int /\ s \in Nat /\ s >= 8 /\ s % 8 = 0 /\ s < WordMod
      /\ start <= b /\ b + s <= end
      /\ b + s - 4 \in Words /\ b + s \in B \union {end}
  BY BlockFacts
<1>2. start \in Nat /\ end \in Nat /\ WordMod \in Nat /\ (b - start) % 4 = 0
  BY <1>1, Region, InWords
<1>3. PICK r \in Nat : r = s - real /\ r >= 8 /\ r % 8 = 0
  BY <1>1
<1>4. PICK c \in Int : c = b + real
  BY <1>1
<1>5. c \in Words /\ c - 4 \in Words
  <2>1. PICK d \in Int : d = c - 4
    BY <1>4
  <2>2. (c - start) % 4 = 0 /\ (d - start) % 4 = 0
    BY <1>1, <1>2, <1>4, <2>1
  <2>3. start - 4 <= c /\ c <= end - 4 /\ start - 4 <= d /\ d <= end - 4
    BY <1>1, <1>2, <1>4, <2>1
  <2>4. c \in Words /\ d \in Words
    BY <2>2, <2>3, InWords
  <2>5. QED
    BY <2>1, <2>4
<1>6. r \in 0 .. (WordMod - 1) /\ real \in 0 .. (WordMod - 1) /\ c + r = b + s
  BY <1>1, <1>2, <1>3, <1>4
<1> DEFINE m1 == set_block_header(m, c, r, 0)
           m2 == set_block_header(m1, b, real, 1)
           B2 == B \union {c}
<1>7. PICK f \in Words : f = b + s - 4 /\ f = c + r - 4 /\ f \in Int
  BY <1>1, <1>3, <1>4, <1>6
<1>8. /\ m1 \in Memories /\ m1[c] = r /\ m1[f] = r
      /\ \A a \in Words : a # c /\ a # f => m1[a] = m[a]
  BY <1>3, <1>5, <1>6, <1>7, SetFree
<1> HIDE DEF m1
<1>9. /\ m2 \in Memories
      /\ \A a \in Words : m2[a] = IF a \in {b, b + real - 4} THEN real + 1 ELSE m1[a]
  BY <1>4, <1>5, <1>6, <1>8, SetHeader
<1> HIDE DEF m2
<1>10. m2[b] = real + 1 /\ m2[c - 4] = real + 1
  BY <1>4, <1>5, <1>9
<1>11. m2[c] = r /\ m2[f] = r
  <2>1. c # b /\ c # b + real - 4 /\ f # b /\ f # b + real - 4
    BY <1>1, <1>3, <1>4, <1>7
  <2>2. QED
    BY <1>5, <1>8, <1>9, <2>1
<1>12. get_block_size(m2, b) = real /\ block_is_in_use(m2, b) /\ m2[b] % 4 = 1
  BY <1>9, <1>10, SetHeaderSize
<1>13. get_block_size(m2, c) = r /\ ~ block_is_in_use(m2, c) /\ m2[c] % 4 = 0
  BY <1>3, <1>5, <1>9, <1>11, FreeSize
<1>14. PICK e \in Int : e = b + s
  BY <1>1
<1>15. \A a \in Words : ~ Inside(a, b, e) => m2[a] = m[a]
  <2>1. ASSUME NEW a \in Words, ~ Inside(a, b, e)
        PROVE  a # b /\ a # b + real - 4 /\ a # c /\ a # f
    BY <1>1, <1>3, <1>4, <1>6, <1>14, <1>7, <2>1 DEF Inside
  <2>2. QED
    BY <1>8, <1>9, <2>1
<1>16. \A x \in B : Inside(x, b, e) => x = b
  BY <1>1, <1>14, WordsAreInt DEF Inside, TiledIn
<1>17. c \notin B
  BY <1>1, <1>3, <1>4, <1>14, <1>16, <1>6 DEF Inside
<1>18. B2 \in SUBSET Words
  BY <1>5
<1>19. TiledIn(m2, B2) /\ \A x \in B2 : ~ Inside(x, b, e) =>
               /\ x \in B /\ get_block_size(m2, x) = get_block_size(m, x)
               /\ block_is_in_use(m2, x) <=> block_is_in_use(m, x)
  <2>1. e \in B \union {end} /\ b < e /\ b \in B2
    BY <1>1, <1>14
  <2>2. \A a \in Words : ~ Inside(a, b, e) => m2[a] = m[a] /\ (a \in B2 <=> a \in B)
    BY <1>1, <1>3, <1>4, <1>6, <1>14, <1>15 DEF Inside
  <2>3. ASSUME NEW x \in B2, Inside(x, b, e)
        PROVE  LET t == get_block_size(m2, x)
               IN  /\ t >= 8 /\ t % 8 = 0 /\ m2[x] % 4 \in {0, 1}
                   /\ m2[x + t - 4] = m2[x]
                   /\ x + t \in B2 \union {e} /\ x + t <= e
                   /\ \A d \in B2 : Inside(d, b, e) => d <= x \/ d >= x + t
    <3>1. x = b \/ x = c
      BY <1>16, <2>3
    <3>2. \A d \in B2 : Inside(d, b, e) => d = b \/ d = c
      BY <1>16
    <3>3. CASE x = b
      <4>1. \A d \in B2 : Inside(d, b, e) => d <= x \/ d >= x + real
        BY <1>1, <1>4, <3>2, <3>3
      <4>2. m2[x + real - 4] = m2[x]
        <5>1. x + real - 4 = c - 4
          BY <1>1, <1>4, <3>3
        <5>2. QED
          BY <1>10, <3>3, <5>1
      <4>3. QED
        BY <1>1, <1>3, <1>4, <1>6, <1>12, <1>14, <3>3, <4>1, <4>2
    <3>4. CASE x = c
      <4>1. \A d \in B2 : Inside(d, b, e) => d <= x
        BY <1>1, <1>4, <3>2, <3>4
      <4>2. get_block_size(m2, x) = r /\ m2[x] % 4 = 0
        BY <1>13, <3>4
      <4>3. x + r - 4 = f /\ x + r = e
        BY <1>4, <1>6, <1>14, <1>7, <3>4
      <4>4. m2[x + r - 4] = m2[x]
        BY <1>11, <3>4, <4>3
      <4>5. QED
        BY <1>3, <1>14, <4>1, <4>2, <4>3, <4>4
    <3>5. QED
      BY <3>1, <3>3, <3>4
  <2> HIDE DEF B2
  <2>4. QED
    BY <1>9, <1>18, <2>1, <2>2, <2>3, Retile
<1>20. \A x \in B : x # b => ~ Inside(x, b, e)
  BY <1>16
<1>21. m2 = set_block_header(set_block_header(m, b + real, s - real, 0), b, real, 1)
  BY <1>3, <1>4 DEF m1, m2
<1>22. SplitInTwo(m, B, b, s, real, m2)
  BY <1>3, <1>4, <1>9, <1>12, <1>13, <1>14, <1>15, <1>17, <1>18, <1>19, <1>20
     DEF SplitInTwo
<1>23. QED
  BY <1>21, <1>22

\* coalesce merges two blocks.
MergedInOne(m, B, b, s, c, t, m2) ==
    LET B2 == B \ {c}
    IN  /\ m2 \in Memories /\ B2 \in SUBSET Words /\ TiledIn(m2, B2) /\ b \in B2
        /\ s + t \in Nat /\ s + t < WordMod
        /\ get_block_size(m2, b) = s + t /\ ~ block_is_in_use(m2, b)
        /\ \A x \in B2 : x # b =>
              /\ get_block_size(m2, x) = get_block_size(m, x)
              /\ block_is_in_use(m2, x) <=> block_is_in_use(m, x)
        /\ \A a \in Words : ~ Inside(a, b, c + t) => m2[a] = m[a]

LEMMA Merge ==
  ASSUME NEW m \in Memories, NEW B \in SUBSET Words, TiledIn(m, B), NEW b \in B, NEW c \in B,
         NEW s, s = get_block_size(m, b), NEW t, t = get_block_size(m, c), c = b + s
  PROVE  MergedInOne(m, B, b, s, c, t, set_block_header(m, b, s + t, 0))
<1>1. /\ b \in Int /\ s \in Nat /\ s >= 8 /\ s % 8 = 0 /\ start <= b
  BY BlockFacts
<1>2. /\ c \in Int /\ t \in Nat /\ t >= 8 /\ t % 8 = 0 /\ c + t <= end
      /\ c + t - 4 \in Words /\ c + t \in B \union {end}
  BY BlockFacts
<1>3. PICK n \in Nat : n = s + t /\ n >= 8 /\ n % 8 = 0
  BY <1>1, <1>2
<1>4. b + n = c + t /\ b # c
  BY <1>1, <1>2, <1>3
<1>5. n \in 0 .. (WordMod - 1) /\ n < WordMod
  BY <1>1, <1>2, <1>3, <1>4, Region
<1> DEFINE m2 == set_block_header(m, b, n, 0)
           B2 == B \ {c}
<1>6. PICK f \in Words : f = c + t - 4 /\ f = b + n - 4 /\ f \in Int
  <2>1. b + n - 4 = c + t - 4 /\ c + t - 4 \in Int
    BY <1>1, <1>2, <1>4
  <2>2. QED
    BY <1>2, <2>1
<1>7. /\ m2 \in Memories /\ m2[b] = n /\ m2[f] = n
      /\ \A a \in Words : a # b /\ a # f => m2[a] = m[a]
  BY <1>3, <1>5, <1>6, SetFree
<1> HIDE DEF m2
<1>8. get_block_size(m2, b) = n /\ ~ block_is_in_use(m2, b) /\ m2[b] % 4 = 0
  BY <1>3, <1>7, FreeSize
<1>9. PICK e \in Int : e = c + t
  BY <1>2
<1>10. \A a \in Words : ~ Inside(a, b, e) => m2[a] = m[a]
  <2>1. ASSUME NEW a \in Words, ~ Inside(a, b, e)
        PROVE  a # b /\ a # f
    BY <1>1, <1>2, <1>6, <1>9, <2>1 DEF Inside
  <2>2. QED
    BY <1>7, <2>1
<1>11. \A x \in B : Inside(x, b, e) => x = b \/ x = c
  <2>1. ASSUME NEW x \in B, Inside(x, b, e) PROVE x = b \/ x = c
    <3>1. x \in Int /\ (x <= b \/ x >= c) /\ (x <= c \/ x >= e)
      BY <1>9, WordsAreInt DEF TiledIn
    <3>2. QED
      BY <1>1, <1>2, <1>9, <2>1, <3>1 DEF Inside
  <2>2. QED
    BY <2>1
<1>12. TiledIn(m2, B2) /\ \A x \in B2 : ~ Inside(x, b, e) =>
               /\ x \in B /\ get_block_size(m2, x) = get_block_size(m, x)
               /\ block_is_in_use(m2, x) <=> block_is_in_use(m, x)
  <2>1. e \in B \union {end} /\ b < e /\ b \in B2 /\ B2 \in SUBSET Words
    <3>1. b < c /\ c < e
      BY <1>1, <1>2, <1>9
    <3>2. b < e
      BY <1>1, <1>2, <1>9, <3>1
    <3>3. b # c /\ e \in B \union {end}
      BY <1>2, <1>4, <1>9
    <3>4. QED
      BY <3>2, <3>3
  <2>2. \A a \in Words : ~ Inside(a, b, e) => m2[a] = m[a] /\ (a \in B2 <=> a \in B)
    BY <1>1, <1>2, <1>4, <1>9, <1>10 DEF Inside
  <2>3. ASSUME NEW x \in B2, Inside(x, b, e)
        PROVE  LET z == get_block_size(m2, x)
               IN  /\ z >= 8 /\ z % 8 = 0 /\ m2[x] % 4 \in {0, 1}
                   /\ m2[x + z - 4] = m2[x]
                   /\ x + z \in B2 \union {e} /\ x + z <= e
                   /\ \A d \in B2 : Inside(d, b, e) => d <= x \/ d >= x + z
    <3>1. x = b
      BY <1>11, <2>3
    <3>2. \A d \in B2 : Inside(d, b, e) => d <= x
      BY <1>1, <1>11, <3>1
    <3>3. get_block_size(m2, x) = n /\ m2[x] % 4 = 0 /\ x + n = e /\ x + n - 4 = f
      BY <1>4, <1>6, <1>8, <1>9, <3>1
    <3>4. m2[x + n - 4] = m2[x]
      BY <1>7, <3>1, <3>3
    <3>5. QED
      BY <1>3, <1>9, <3>2, <3>3, <3>4
  <2> HIDE DEF B2
  <2>4. QED
    BY <1>7, <2>1, <2>2, <2>3, Retile
<1>13. \A x \in B2 : x # b => ~ Inside(x, b, e)
  BY <1>11
<1>14. m2 = set_block_header(m, b, s + t, 0)
  BY <1>3 DEF m2
<1>15. MergedInOne(m, B, b, s, c, t, m2)
  BY <1>3, <1>4, <1>5, <1>7, <1>8, <1>9, <1>10, <1>12, <1>13 DEF MergedInOne
<1>16. QED
  BY <1>14, <1>15

\* A word stored in a payload changes no header and no footer.
Stored(m, B, m2) ==
    m2 \in Memories /\ TiledIn(m2, B) /\ \A x \in B : m2[x] = m[x]

LEMMA Store ==
  ASSUME NEW m \in Memories, NEW B \in SUBSET Words, TiledIn(m, B), NEW b \in B,
         NEW a \in Words, b + 4 <= a, a + 8 <= b + get_block_size(m, b),
         NEW w \in 0 .. (WordMod - 1)
  PROVE  Stored(m, B, [m EXCEPT ![a] = w])
<1> DEFINE m2 == [m EXCEPT ![a] = w]
<1>1. m2 \in Memories /\ \A x \in Words : x # a => m2[x] = m[x]
  BY DEF Memories
<1> HIDE DEF m2
<1>2. a \in Int /\ b \in Int /\ get_block_size(m, b) \in Nat
  BY BlockFacts, WordsAreInt
<1>3. ASSUME NEW x \in B
      PROVE  /\ x \in Words /\ x # a /\ m2[x] = m[x]
             /\ get_block_size(m2, x) = get_block_size(m, x)
             /\ m2[x + get_block_size(m, x) - 4] = m[x + get_block_size(m, x) - 4]
  <2>1. PICK s \in Nat : s = get_block_size(m, x) /\ s >= 8 /\ x \in Int /\ x + s - 4 \in Words
    BY BlockFacts
  <2>2. CASE x = b
    <3>1. x # a /\ x + s - 4 # a
      BY <1>2, <2>1, <2>2
    <3>2. QED
      BY <1>1, <2>1, <3>1 DEF get_block_size
  <2>3. CASE x # b
    <3>1. b + get_block_size(m, b) <= x \/ x + s <= b
      BY <2>1, <2>3, Disjoint
    <3>2. x # a /\ x + s - 4 # a
      BY <1>2, <2>1, <3>1
    <3>3. QED
      BY <1>1, <2>1, <3>2 DEF get_block_size
  <2>4. QED
    BY <2>2, <2>3
<1>4. TiledIn(m2, B)
  BY <1>3 DEF TiledIn
<1>5. Stored(m, B, m2)
  BY <1>1, <1>3, <1>4 DEF Stored
<1>6. QED
  BY <1>5 DEF m2

-----------------------------------------------------------------------------
(* Intact heaps, over a memory, a set of blocks and what the program holds. *)

LiveIn(m, B, L) ==
    /\ {p - 4 : p \in DOMAIN L} = UsedIn(m, B)
    /\ \A p \in DOMAIN L : L[p] + 8 <= get_block_size(m, p - 4)

IntactIn(m, B, L) == TiledIn(m, B) /\ MergedBut(m, B, {}) /\ LiveIn(m, B, L)

\* The words of the payloads of L are the same in both memories.
SamePayloads(m, m2, L) ==
    \A p \in DOMAIN L : \A a \in Words : p <= a /\ a + 4 <= p + L[p] => m2[a] = m[a]

LEMMA IntactIsIntactIn ==
  /\ Intact <=> IntactIn(mem, blocks, live)
  /\ Intact' <=> IntactIn(mem', blocks', live')
BY DEF Intact, Tiled, Merged, InUseIsLive, IntactIn, TiledIn, MergedBut, LiveIn, UsedIn,
       HEADER_SIZE

LEMMA LiveFacts ==
  ASSUME NEW m \in Memories, NEW B \in SUBSET Words, NEW L, TiledIn(m, B), LiveIn(m, B, L),
         NEW p \in DOMAIN L, p \in Int
  PROVE  /\ p - 4 \in B /\ block_is_in_use(m, p - 4)
         /\ L[p] + 8 <= get_block_size(m, p - 4)
BY DEF LiveIn, UsedIn

LEMMA UsedIsLive ==
  ASSUME NEW m \in Memories, NEW B \in SUBSET Words, NEW L, LiveIn(m, B, L), DOMAIN L \subseteq Int,
         NEW b \in B, block_is_in_use(m, b)
  PROVE  b + 4 \in DOMAIN L
<1>1. PICK p \in DOMAIN L : b = p - 4
  BY DEF LiveIn, UsedIn
<1>2. p = b + 4
  BY <1>1
<1>3. QED
  BY <1>2

\* What changes inside free blocks or inside one block in use leaves the
\* payloads of the others alone.
LEMMA PayloadsAreApart ==
  ASSUME NEW m \in Memories, NEW m2 \in Memories, NEW B \in SUBSET Words, NEW L,
         TiledIn(m, B), LiveIn(m, B, L), DOMAIN L \subseteq Words, \A p \in DOMAIN L : L[p] \in Nat,
         NEW b \in B, NEW e \in Int, e \in B \union {end},
         \A x \in B : Inside(x, b, e) => ~ block_is_in_use(m, x) \/ x + 4 \notin DOMAIN L,
         \A a \in Words : ~ Inside(a, b, e) => m2[a] = m[a]
  PROVE  SamePayloads(m, m2, L)
<1>1. SUFFICES ASSUME NEW p \in DOMAIN L, NEW a \in Words, p <= a, a + 4 <= p + L[p]
               PROVE  m2[a] = m[a]
  BY DEF SamePayloads
<1>2. PICK x \in B : x = p - 4 /\ p \in Int /\ block_is_in_use(m, x) /\ L[p] + 8 <= get_block_size(m, x)
  BY LiveFacts, WordsAreInt
<1>3. PICK s \in Nat : s = get_block_size(m, x) /\ x + s <= end /\ s >= 8
  BY BlockFacts
<1>4. PICK n \in Nat : n = L[p]
  OBVIOUS
<1>5. ~ Inside(x, b, e)
  <2>1. x + 4 = p
    BY <1>2
  <2>2. QED
    BY <1>2, <2>1
<1>6. x \in Int /\ a \in Int /\ b \in Int /\ end \in Int
  BY WordsAreInt, Region
<1>7. x <= a /\ a < x + s
  BY <1>1, <1>2, <1>3, <1>4, <1>6
<1>8. ~ Inside(a, b, e)
  <2>1. CASE x < b
    <3>1. x + s <= b
      BY <1>3, <1>6, <2>1 DEF TiledIn
    <3>2. QED
      BY <1>3, <1>6, <1>7, <3>1 DEF Inside
  <2>2. CASE x >= e
    BY <1>6, <1>7, <2>2 DEF Inside
  <2>3. QED
    BY <1>5, <1>6, <2>1, <2>2 DEF Inside
<1>9. QED
  BY <1>8

-----------------------------------------------------------------------------
(* heap_malloc takes a free block. *)

Held(L, b, n) == [p \in DOMAIN L \union {b + 4} |-> IF p = b + 4 THEN n ELSE L[p]]

LEMMA TakeWhole ==
  ASSUME NEW m \in Memories, NEW B \in SUBSET Words, NEW L, IntactIn(m, B, L),
         DOMAIN L \subseteq Words, \A p \in DOMAIN L : L[p] \in Nat,
         NEW b \in B, ~ block_is_in_use(m, b), NEW s, s = get_block_size(m, b),
         NEW n \in Nat, n + 8 <= s
  PROVE  LET m2 == set_block_header(m, b, s, 1)
         IN  /\ m2 \in Memories /\ IntactIn(m2, B, Held(L, b, n))
             /\ b + 4 \notin DOMAIN L
             /\ SamePayloads(m, m2, L)
<1> DEFINE m2 == set_block_header(m, b, s, 1)
           L2 == Held(L, b, n)
<1>1. TiledIn(m, B) /\ LiveIn(m, B, L) /\ MergedBut(m, B, {})
  BY DEF IntactIn
<1>2. /\ m2 \in Memories /\ TiledIn(m2, B)
      /\ \A x \in B : /\ get_block_size(m2, x) = get_block_size(m, x)
                      /\ x # b => (block_is_in_use(m2, x) <=> block_is_in_use(m, x))
      /\ block_is_in_use(m2, b)
      /\ \A a \in Words : ~ Inside(a, b, b + s) => m2[a] = m[a]
  BY <1>1, Flag
<1> HIDE DEF m2
<1>3. MergedBut(m2, B, {})
  BY <1>1, <1>2 DEF MergedBut, get_next_block
<1>4. b \in Int /\ DOMAIN L \subseteq Int /\ (b + 4) - 4 = b
  <2>1. b \in Int /\ DOMAIN L \subseteq Int
    BY WordsAreInt, Zenon
  <2>2. QED
    BY <2>1
<1>5. UsedIn(m2, B) = UsedIn(m, B) \union {b}
  BY <1>2 DEF UsedIn
<1>6. b + 4 \notin DOMAIN L
  BY <1>1, <1>4, LiveFacts
<1>7. DOMAIN L2 = DOMAIN L \union {b + 4} /\ L2[b + 4] = n /\ \A p \in DOMAIN L : L2[p] = L[p]
  BY <1>6 DEF Held
<1> HIDE DEF L2
<1>8. LiveIn(m2, B, L2)
  <2>1. {p - 4 : p \in DOMAIN L2} = UsedIn(m2, B)
    BY <1>1, <1>4, <1>5, <1>7 DEF LiveIn
  <2>2. ASSUME NEW p \in DOMAIN L2
        PROVE  L2[p] + 8 <= get_block_size(m2, p - 4)
    <3>1. CASE p = b + 4
      BY <1>2, <1>4, <1>7, <3>1
    <3>2. CASE p \in DOMAIN L
      <4>1. p - 4 \in B /\ L[p] + 8 <= get_block_size(m, p - 4)
        BY <1>1, <1>4, <3>2, LiveFacts
      <4>2. QED
        BY <1>2, <1>7, <3>2, <4>1
    <3>3. QED
      BY <1>7, <3>1, <3>2
  <2>3. QED
    BY <2>1, <2>2 DEF LiveIn
<1>9. PICK e \in Int : e = b + s /\ e \in B \union {end} /\ s \in Nat
  BY <1>1, <1>4, BlockFacts
<1>10. \A x \in B : Inside(x, b, e) => ~ block_is_in_use(m, x)
  BY <1>1, <1>4, <1>9, WordsAreInt DEF Inside, TiledIn
<1>11. SamePayloads(m, m2, L)
  BY <1>1, <1>2, <1>9, <1>10, PayloadsAreApart
<1>12. QED
  BY <1>2, <1>3, <1>6, <1>8, <1>11 DEF m2, L2, IntactIn

LEMMA TakeSplit ==
  ASSUME NEW m \in Memories, NEW B \in SUBSET Words, NEW L, IntactIn(m, B, L),
         DOMAIN L \subseteq Words, \A p \in DOMAIN L : L[p] \in Nat,
         NEW b \in B, ~ block_is_in_use(m, b), NEW s, s = get_block_size(m, b),
         NEW n \in Nat, NEW real, real = n + 8, real % 8 = 0, real <= s - 8
  PROVE  LET m2 == set_block_header(set_block_header(m, b + real, s - real, 0), b, real, 1)
             B2 == B \union {b + real}
         IN  /\ m2 \in Memories /\ B2 \in SUBSET Words /\ IntactIn(m2, B2, Held(L, b, n))
             /\ b + 4 \notin DOMAIN L
             /\ SamePayloads(m, m2, L)
<1> DEFINE m2 == set_block_header(set_block_header(m, b + real, s - real, 0), b, real, 1)
           B2 == B \union {b + real}
           L2 == Held(L, b, n)
<1>1. TiledIn(m, B) /\ LiveIn(m, B, L) /\ MergedBut(m, B, {})
  BY DEF IntactIn
<1>2. /\ m2 \in Memories /\ B2 \in SUBSET Words /\ TiledIn(m2, B2)
      /\ b + real \notin B
      /\ get_block_size(m2, b) = real /\ block_is_in_use(m2, b)
      /\ get_block_size(m2, b + real) = s - real /\ ~ block_is_in_use(m2, b + real)
      /\ \A x \in B : x # b =>
            /\ get_block_size(m2, x) = get_block_size(m, x)
            /\ block_is_in_use(m2, x) <=> block_is_in_use(m, x)
      /\ \A a \in Words : ~ Inside(a, b, b + s) => m2[a] = m[a]
  <2>1. real \in Nat /\ real >= 8
    OBVIOUS
  <2>2. SplitInTwo(m, B, b, s, real, m2)
    BY <1>1, <2>1, Split
  <2>3. QED
    BY <2>2 DEF SplitInTwo
<1>3. b \in Int /\ DOMAIN L \subseteq Int /\ (b + 4) - 4 = b /\ real \in Nat /\ s \in Nat
  <2>1. b \in Int /\ DOMAIN L \subseteq Int
    BY WordsAreInt, Zenon
  <2>2. s \in Nat
    BY <1>1, BlockFacts
  <2>3. QED
    BY <2>1, <2>2
<1>4. PICK c \in Int : c = b + real /\ c \notin B /\ B2 = B \union {c} /\ c + (s - real) = b + s
  BY <1>2, <1>3
<1> HIDE DEF m2
<1>5. MergedBut(m2, B2, {})
  <2>1. ASSUME NEW x \in B2, NEW y \in B2, y = get_next_block(m2, x)
        PROVE  block_is_in_use(m2, x) \/ block_is_in_use(m2, y)
    <3>1. CASE x = b
      BY <1>2, <3>1
    <3>2. CASE x = c
      <4>1. y = b + get_block_size(m, b)
        BY <1>2, <1>4, <2>1, <3>2 DEF get_next_block
      <4>2. y # b /\ y # c
        BY <1>3, <1>4, <4>1
      <4>3. y \in B
        BY <1>4, <4>2
      <4>4. block_is_in_use(m, y)
        BY <1>1, <4>1, <4>3 DEF MergedBut, get_next_block
      <4>5. QED
        BY <1>2, <4>2, <4>3, <4>4
    <3>3. CASE x \in B /\ x # b
      <4>1. y = x + get_block_size(m, x) /\ get_block_size(m, x) \in Nat
        BY <1>1, <1>2, <2>1, <3>3, BlockFacts DEF get_next_block
      <4>2. y # c
        <5>1. PICK t \in Nat : t = get_block_size(m, x) /\ y = x + t /\ x \in Int /\ t >= 8
          BY <1>1, <3>3, <4>1, BlockFacts
        <5>2. x + t <= b \/ b + s <= x
          BY <1>1, <3>3, <5>1, Disjoint
        <5>3. QED
          BY <1>3, <1>4, <5>1, <5>2
      <4>3. y \in B
        BY <1>4, <4>2
      <4>4. block_is_in_use(m, x) \/ block_is_in_use(m, y)
        BY <1>1, <3>3, <4>1, <4>3 DEF MergedBut, get_next_block
      <4>5. QED
        BY <1>2, <3>3, <4>3, <4>4
    <3>4. QED
      BY <1>4, <3>1, <3>2, <3>3
  <2>2. QED
    BY <2>1 DEF MergedBut
<1>6. UsedIn(m2, B2) = UsedIn(m, B) \union {b}
  BY <1>2, <1>4 DEF UsedIn
<1>7. b + 4 \notin DOMAIN L
  BY <1>1, <1>3, LiveFacts
<1>8. DOMAIN L2 = DOMAIN L \union {b + 4} /\ L2[b + 4] = n /\ \A p \in DOMAIN L : L2[p] = L[p]
  BY <1>7 DEF Held
<1> HIDE DEF L2
<1>9. LiveIn(m2, B2, L2)
  <2>1. {p - 4 : p \in DOMAIN L2} = UsedIn(m2, B2)
    <3>1. {p - 4 : p \in DOMAIN L2} = {p - 4 : p \in DOMAIN L} \union {b}
      BY <1>3, <1>8
    <3>2. QED
      BY <1>1, <1>6, <3>1 DEF LiveIn
  <2>2. ASSUME NEW p \in DOMAIN L2
        PROVE  L2[p] + 8 <= get_block_size(m2, p - 4)
    <3>1. CASE p = b + 4
      BY <1>2, <1>3, <1>8, <3>1
    <3>2. CASE p \in DOMAIN L
      <4>1. p - 4 \in B /\ block_is_in_use(m, p - 4) /\ L[p] + 8 <= get_block_size(m, p - 4)
        BY <1>1, <1>3, <3>2, LiveFacts
      <4>2. QED
        BY <1>2, <1>8, <3>2, <4>1
    <3>3. QED
      BY <1>8, <3>1, <3>2
  <2>3. QED
    BY <2>1, <2>2 DEF LiveIn
<1>10. PICK e \in Int : e = b + s /\ e \in B \union {end} /\ s \in Nat
  BY <1>1, <1>3, BlockFacts
<1>11. \A x \in B : Inside(x, b, e) => ~ block_is_in_use(m, x)
  BY <1>1, <1>3, <1>10, WordsAreInt DEF Inside, TiledIn
<1>12. SamePayloads(m, m2, L)
  BY <1>1, <1>2, <1>10, <1>11, PayloadsAreApart
<1>13. QED
  BY <1>2, <1>5, <1>7, <1>9, <1>12 DEF m2, L2, IntactIn

-----------------------------------------------------------------------------
(* heap_free makes a block free and merges it with its neighbours. *)

\* The blocks in use, their sizes and their words are the same.
Untouched(m, B, m2, B2) ==
    /\ UsedIn(m2, B2) = UsedIn(m, B)
    /\ \A x \in UsedIn(m, B) :
          /\ get_block_size(m2, x) = get_block_size(m, x)
          /\ \A a \in Words : Inside(a, x, x + get_block_size(m, x)) => m2[a] = m[a]

LEMMA UntouchedAgain ==
  ASSUME NEW m, NEW B, NEW m2, NEW B2, NEW m3, NEW B3,
         Untouched(m, B, m2, B2), Untouched(m2, B2, m3, B3)
  PROVE  Untouched(m, B, m3, B3)
BY DEF Untouched

LEMMA FreeBlocksMerge ==
  ASSUME NEW m \in Memories, NEW B \in SUBSET Words, TiledIn(m, B), NEW b \in B, NEW c \in B,
         NEW s, s = get_block_size(m, b), NEW t, t = get_block_size(m, c), c = b + s,
         ~ block_is_in_use(m, b), ~ block_is_in_use(m, c)
  PROVE  Untouched(m, B, set_block_header(m, b, s + t, 0), B \ {c})
<1> DEFINE m2 == set_block_header(m, b, s + t, 0)
           B2 == B \ {c}
<1>1. /\ m2 \in Memories /\ b \in B2 /\ ~ block_is_in_use(m2, b)
      /\ \A x \in B2 : x # b =>
            /\ get_block_size(m2, x) = get_block_size(m, x)
            /\ block_is_in_use(m2, x) <=> block_is_in_use(m, x)
      /\ \A a \in Words : ~ Inside(a, b, c + t) => m2[a] = m[a]
  <2>1. MergedInOne(m, B, b, s, c, t, m2)
    BY Merge
  <2>2. QED
    BY <2>1 DEF MergedInOne
<1> HIDE DEF m2
<1>2. UsedIn(m2, B2) = UsedIn(m, B)
  BY <1>1 DEF UsedIn
<1>3. ASSUME NEW x \in UsedIn(m, B)
      PROVE  /\ get_block_size(m2, x) = get_block_size(m, x)
             /\ \A a \in Words : Inside(a, x, x + get_block_size(m, x)) => m2[a] = m[a]
  <2>1. x \in B /\ x # b /\ x # c
    BY DEF UsedIn
  <2>2. PICK z \in Nat : z = get_block_size(m, x)
    BY <2>1, BlockFacts
  <2>3. /\ x + z <= b \/ b + s <= x
        /\ x + z <= c \/ c + t <= x
    BY <2>1, <2>2, Disjoint
  <2>4. x \in Int /\ b \in Int /\ c \in Int /\ s \in Nat /\ t \in Nat
    BY <2>1, BlockFacts
  <2>5. s >= 8 /\ t >= 8
    BY BlockFacts
  <2>6. x + z <= b \/ c + t <= x
    BY <2>2, <2>3, <2>4, <2>5
  <2>7. \A a \in Words : Inside(a, x, x + z) => ~ Inside(a, b, c + t)
    BY <2>2, <2>4, <2>6, WordsAreInt DEF Inside
  <2>8. QED
    BY <1>1, <2>1, <2>2, <2>7
<1>4. Untouched(m, B, m2, B2)
  BY <1>2, <1>3 DEF Untouched
<1>5. QED
  BY <1>4 DEF m2

\* What coalesce does to two blocks.
Joined(n, b, m2, B2, h2) ==
    \E n2 \in {n, b} :
       /\ search_alg # "NEXTFIT" => n2 = n
       /\ h2 = [mem |-> m2, next |-> n2, blocks |-> B2]

LEMMA Coalesce ==
  ASSUME NEW m \in Memories, NEW B \in SUBSET Words, TiledIn(m, B), NEW b \in B,
         NEW s, s = get_block_size(m, b), NEW c, c = b + s, NEW n,
         NEW h, h = [mem |-> m, next |-> n, blocks |-> B]
  PROVE  /\ c \in B /\ ~ block_is_in_use(m, b) /\ ~ block_is_in_use(m, c) =>
               /\ CoalesceWritable(h, b)
               /\ Joined(n, b, set_block_header(m, b, s + get_block_size(m, c), 0), B \ {c},
                         coalesce(h, b))
         /\ c \notin B \/ block_is_in_use(m, b) \/ block_is_in_use(m, c) =>
               CoalesceWritable(h, b) /\ coalesce(h, b) = h
<1>1. h.mem = m /\ h.next = n /\ h.blocks = B
  OBVIOUS
<1>2. c = get_next_block(m, b) /\ c \in Int /\ (is_within_heap_range(c) <=> c \in B)
  BY NextIsInB
<1>3. is_within_heap_range(b)
  BY BlockFacts, Region DEF is_within_heap_range
<1>4. Merges(h, b) <=> c \in B /\ ~ block_is_in_use(m, b) /\ ~ block_is_in_use(m, c)
  BY <1>1, <1>2, <1>3 DEF Merges
<1>5. CASE Merges(h, b)
  <2>1. PICK t \in Nat : t = get_block_size(m, c)
    BY <1>4, <1>5, BlockFacts
  <2>2. s + t \in Nat /\ s + t < WordMod /\ s + t >= 8
    <3>1. s \in Nat /\ s >= 8 /\ c \in B
      BY <1>4, <1>5, BlockFacts
    <3>2. MergedInOne(m, B, b, s, c, t, set_block_header(m, b, s + t, 0))
      BY <2>1, <3>1, Merge
    <3>3. QED
      BY <2>1, <3>1, <3>2 DEF MergedInOne
  <2>3. MergedSize(h, b) = s + t
    <3>1. Wrap(s + t) = s + t
      BY <2>2, Region DEF Wrap
    <3>2. QED
      BY <1>1, <1>2, <2>1, <3>1 DEF MergedSize
  <2>4. Writable(b, s + t)
    <3>1. PICK z \in Nat : z = s + t
      BY <2>2
    <3>2. z % 8 = 0 /\ z >= 8 /\ z < WordMod /\ b \in Int
      <4>1. s \in Nat /\ s % 8 = 0 /\ t % 8 = 0
        BY <1>4, <1>5, <2>1, BlockFacts
      <4>2. QED
        BY <2>1, <2>2, <3>1, <4>1, WordsAreInt
    <3>3. FooterOf(b, z) = b + z - 4
      <4>1. z \in 0 .. (WordMod - 1)
        BY <3>2, Region
      <4>2. QED
        BY <3>2, <4>1, Footer
    <3>4. c + t - 4 \in Words
      BY <1>4, <1>5, <2>1, BlockFacts
    <3>5. b + z - 4 = c + t - 4
      <4>1. s \in Nat
        BY BlockFacts
      <4>2. QED
        BY <2>1, <3>1, <3>2, <4>1
    <3>6. QED
      BY <3>1, <3>3, <3>4, <3>5 DEF Writable
  <2>5. CoalesceWritable(h, b)
    BY <2>3, <2>4 DEF CoalesceWritable
  <2>6. coalesce(h, b) =
            LET m2 == set_block_header(m, b, s + t, 0)
            IN  [mem |-> m2,
                 next |-> IF search_alg = "NEXTFIT" /\ n = get_next_block(m2, b)
                          THEN b ELSE n,
                 blocks |-> B \ {c}]
    BY <1>1, <1>2, <1>5, <2>3 DEF coalesce
  <2>7. QED
    BY <1>4, <1>5, <2>1, <2>5, <2>6 DEF Joined
<1>6. CASE ~ Merges(h, b)
  BY <1>4, <1>6 DEF coalesce, CoalesceWritable
<1>7. QED
  BY <1>5, <1>6

LEMMA NoCoalesce ==
  ASSUME NEW m \in Memories, NEW B \in SUBSET Words, TiledIn(m, B), NEW b \in B,
         NEW c, c = b + get_block_size(m, b), NEW n,
         NEW h, h = [mem |-> m, next |-> n, blocks |-> B],
         c \notin B \/ block_is_in_use(m, b) \/ block_is_in_use(m, c)
  PROVE  CoalesceWritable(h, b) /\ coalesce(h, b) = h
<1>1. h.mem = m
  OBVIOUS
<1>2. c = get_next_block(m, b) /\ (is_within_heap_range(c) <=> c \in B)
  BY NextIsInB DEF get_next_block
<1>3. ~ Merges(h, b)
  BY <1>1, <1>2 DEF Merges
<1>4. QED
  BY <1>3 DEF coalesce, CoalesceWritable

\* No two neighbours are free after the merge of two of them, one of which
\* was the only one that might have had a free neighbour.
RightMerged(m, B, b, n, h2) ==
    \E m2 \in Memories, B2 \in SUBSET Words, n2 \in {n, b} :
       /\ h2 = [mem |-> m2, next |-> n2, blocks |-> B2]
       /\ search_alg # "NEXTFIT" => n2 = n
       /\ b \in B2 /\ ~ block_is_in_use(m2, b)
       /\ TiledIn(m2, B2) /\ MergedBut(m2, B2, {b}) /\ Untouched(m, B, m2, B2)
       /\ get_next_block(m2, b) \in B2 => block_is_in_use(m2, get_next_block(m2, b))

LEMMA FreeRight ==
  ASSUME NEW m \in Memories, NEW B \in SUBSET Words, TiledIn(m, B), NEW b \in B,
         ~ block_is_in_use(m, b), MergedBut(m, B, {b}), NEW n,
         NEW h, h = [mem |-> m, next |-> n, blocks |-> B]
  PROVE  /\ CoalesceWritable(h, b)
         /\ RightMerged(m, B, b, n, coalesce(h, b))
<1>1. PICK s \in Nat, c \in Int : s = get_block_size(m, b) /\ c = b + s /\ b \in Int /\ s >= 8
  BY BlockFacts
<1>2. CASE c \in B /\ ~ block_is_in_use(m, c)
  <2>1. PICK t \in Nat : t = get_block_size(m, c)
    BY <1>2, BlockFacts
  <2> DEFINE m2 == set_block_header(m, b, s + t, 0)
             B2 == B \ {c}
  <2>2. /\ m2 \in Memories /\ B2 \in SUBSET Words /\ TiledIn(m2, B2) /\ b \in B2
        /\ get_block_size(m2, b) = s + t /\ ~ block_is_in_use(m2, b)
        /\ \A x \in B2 : x # b =>
              /\ get_block_size(m2, x) = get_block_size(m, x)
              /\ block_is_in_use(m2, x) <=> block_is_in_use(m, x)
    <3>1. MergedInOne(m, B, b, s, c, t, m2)
      BY <1>1, <1>2, <2>1, Merge
    <3>2. QED
      BY <3>1 DEF MergedInOne
  <2>3. Untouched(m, B, m2, B2)
    BY <1>1, <1>2, <2>1, FreeBlocksMerge
  <2>4. CoalesceWritable(h, b) /\ \E n2 \in {n, b} :
              /\ search_alg # "NEXTFIT" => n2 = n
              /\ coalesce(h, b) = [mem |-> m2, next |-> n2, blocks |-> B2]
    BY <1>1, <1>2, <2>1, Coalesce DEF Joined
  <2> HIDE DEF m2
  <2>5. MergedBut(m2, B2, {b})
    BY <2>2 DEF MergedBut, get_next_block
  <2>6. get_next_block(m2, b) = get_next_block(m, c)
    BY <1>1, <2>1, <2>2 DEF get_next_block
  <2>7. ASSUME get_next_block(m, c) \in B2
        PROVE  block_is_in_use(m2, get_next_block(m, c))
    <3>1. PICK d \in Int : d = get_next_block(m, c) /\ d = c + t
      BY <1>1, <2>1 DEF get_next_block
    <3>2. d # b /\ c # b
      BY <1>1, <2>1, <3>1
    <3>3. block_is_in_use(m, c) \/ block_is_in_use(m, d)
      BY <1>2, <2>7, <3>1, <3>2 DEF MergedBut
    <3>4. QED
      BY <1>2, <2>2, <2>7, <3>1, <3>2, <3>3
  <2>8. QED
    BY <2>2, <2>3, <2>4, <2>5, <2>6, <2>7 DEF RightMerged
<1>3. CASE ~ (c \in B /\ ~ block_is_in_use(m, c))
  <2>1. CoalesceWritable(h, b) /\ coalesce(h, b) = [mem |-> m, next |-> n, blocks |-> B]
    BY <1>1, <1>3, NoCoalesce
  <2>2. Untouched(m, B, m, B)
    BY DEF Untouched
  <2>3. get_next_block(m, b) \in B => block_is_in_use(m, get_next_block(m, b))
    BY <1>1, <1>3 DEF get_next_block
  <2>4. QED
    BY <2>1, <2>2, <2>3 DEF RightMerged
<1>4. QED
  BY <1>2, <1>3

LeftMerged(m, B, n, h2) ==
    \E m2 \in Memories, B2 \in SUBSET Words, n2 \in Words \union {n} :
       /\ h2 = [mem |-> m2, next |-> n2, blocks |-> B2]
       /\ search_alg # "NEXTFIT" => n2 = n
       /\ TiledIn(m2, B2) /\ MergedBut(m2, B2, {}) /\ Untouched(m, B, m2, B2)

LEMMA FreeLeft ==
  ASSUME NEW m \in Memories, NEW B \in SUBSET Words, TiledIn(m, B), NEW b \in B,
         ~ block_is_in_use(m, b), MergedBut(m, B, {b}), NEW n,
         get_next_block(m, b) \in B => block_is_in_use(m, get_next_block(m, b)),
         NEW h, h = [mem |-> m, next |-> n, blocks |-> B],
         NEW previous, previous = get_previous_block(m, b)
  PROVE  /\ CoalesceWritable(h, previous)
         /\ LeftMerged(m, B, n, coalesce(h, previous))
<1>1. b \in Int /\ start <= b /\ start \in Nat
  BY BlockFacts, Region
<1>2. Untouched(m, B, m, B)
  BY DEF Untouched
<1>3. CASE b = start
  <2>1. MergedBut(m, B, {})
    <3>1. ASSUME NEW x \in B, get_next_block(m, x) = b PROVE FALSE
      <4>1. start <= x /\ get_block_size(m, x) \in Nat /\ get_block_size(m, x) >= 8 /\ x \in Int
        BY BlockFacts
      <4>2. QED
        BY <1>1, <1>3, <3>1, <4>1 DEF get_next_block
    <3>2. QED
      BY <3>1 DEF MergedBut
  <2>2. ~ Merges(h, previous)
    <3>1. b - 4 \in Words
      <4>1. PICK a \in Int : a = b - 4
        BY <1>1
      <4>2. start - 4 <= a /\ a <= end - 4 /\ (a - start) % 4 = 0
        BY <1>1, <1>3, <4>1, Region
      <4>3. QED
        BY <4>1, <4>2, InWords
    <3>2. PICK z \in Nat : z = get_block_size(m, b - 4)
      BY <3>1, HeaderWord, Region
    <3>3. previous = b - z
      BY <3>2 DEF get_previous_block, HEADER_SIZE
    <3>4. CASE z = 0
      <4>1. previous = b
        BY <1>1, <3>3, <3>4
      <4>2. is_within_heap_range(get_next_block(m, b)) <=> get_next_block(m, b) \in B
        BY NextIsInB
      <4>3. QED
        BY <4>1, <4>2 DEF Merges
    <3>5. CASE z # 0
      <4>1. ~ is_within_heap_range(previous)
        BY <1>1, <1>3, <3>2, <3>3, <3>5 DEF is_within_heap_range
      <4>2. QED
        BY <4>1 DEF Merges
    <3>6. QED
      BY <3>4, <3>5
  <2>3. coalesce(h, previous) = h /\ CoalesceWritable(h, previous)
    BY <2>2 DEF coalesce, CoalesceWritable
  <2>4. QED
    BY <1>2, <2>1, <2>3 DEF LeftMerged
<1>4. CASE b # start
  <2>1. PICK p \in B, s \in Nat :
           /\ s = get_block_size(m, p) /\ p + s = b /\ p \in Int /\ s >= 8
           /\ m[p + s - 4] = m[p]
    <3>1. PICK p \in B : p + get_block_size(m, p) = b
      BY <1>4, Predecessor
    <3>2. PICK s \in Nat : s = get_block_size(m, p)
      BY BlockFacts
    <3>3. p \in Int /\ s >= 8
      BY <3>2, BlockFacts
    <3>4. m[p + s - 4] = m[p]
      BY <3>2 DEF TiledIn
    <3>5. QED
      BY <3>1, <3>2, <3>3, <3>4
  <2>2. previous = p
    <3>1. b - 4 = p + s - 4
      BY <2>1
    <3>2. get_block_size(m, b - 4) = s
      BY <2>1, <3>1 DEF get_block_size
    <3>3. previous = b - s
      BY <3>2 DEF get_previous_block, HEADER_SIZE
    <3>4. QED
      BY <2>1, <3>3
  <2>3. PICK t \in Nat : t = get_block_size(m, b)
    BY BlockFacts
  <2>4. CASE block_is_in_use(m, p)
    <3>1. coalesce(h, previous) = h /\ CoalesceWritable(h, previous)
      BY <2>1, <2>2, <2>4, NoCoalesce
    <3>2. MergedBut(m, B, {})
      <4>1. ASSUME NEW x \in B, get_next_block(m, x) \in B
            PROVE  block_is_in_use(m, x) \/ block_is_in_use(m, get_next_block(m, x))
        <5>1. CASE x = b
          BY <4>1, <5>1
        <5>2. CASE get_next_block(m, x) = b
          <6>1. x = p
            <7>1. PICK y \in Int, z \in Nat : y = x /\ z = get_block_size(m, x) /\ y + z = b /\ z >= 8
              BY <5>2, BlockFacts DEF get_next_block
            <7>2. x # p => x + z <= p \/ b <= x
              BY <2>1, <7>1, Disjoint
            <7>3. QED
              BY <1>1, <2>1, <7>1, <7>2
          <6>2. QED
            BY <2>4, <6>1
        <5>3. CASE x # b /\ get_next_block(m, x) # b
          BY <4>1, <5>3 DEF MergedBut
        <5>4. QED
          BY <5>1, <5>2, <5>3
      <4>2. QED
        BY <4>1 DEF MergedBut
    <3>3. QED
      BY <1>2, <3>1, <3>2 DEF LeftMerged
  <2>5. CASE ~ block_is_in_use(m, p)
    <3> DEFINE m2 == set_block_header(m, p, s + t, 0)
               B2 == B \ {b}
    <3>1. /\ m2 \in Memories /\ B2 \in SUBSET Words /\ TiledIn(m2, B2) /\ p \in B2
          /\ get_block_size(m2, p) = s + t /\ ~ block_is_in_use(m2, p)
          /\ \A x \in B2 : x # p =>
                /\ get_block_size(m2, x) = get_block_size(m, x)
                /\ block_is_in_use(m2, x) <=> block_is_in_use(m, x)
      <4>1. MergedInOne(m, B, p, s, b, t, m2)
        BY <2>1, <2>3, Merge
      <4>2. QED
        BY <4>1 DEF MergedInOne
    <3>2. Untouched(m, B, m2, B2)
      BY <2>1, <2>3, <2>5, FreeBlocksMerge
    <3>3. CoalesceWritable(h, previous) /\ \E n2 \in {n, p} :
                /\ search_alg # "NEXTFIT" => n2 = n
                /\ coalesce(h, previous) = [mem |-> m2, next |-> n2, blocks |-> B2]
      <4>1. b = p + s /\ s = get_block_size(m, p) /\ ~ block_is_in_use(m, p)
        BY <2>1, <2>5
      <4>2. /\ CoalesceWritable(h, p)
            /\ Joined(n, p, set_block_header(m, p, s + get_block_size(m, b), 0), B \ {b},
                      coalesce(h, p))
        BY <4>1, Coalesce
      <4>3. QED
        BY <2>2, <2>3, <4>2 DEF Joined
    <3> HIDE DEF m2
    <3>4. get_next_block(m2, p) = get_next_block(m, b)
      BY <1>1, <2>1, <2>3, <3>1 DEF get_next_block
    <3>5. MergedBut(m2, B2, {})
      <4>1. ASSUME NEW x \in B2, get_next_block(m2, x) \in B2
            PROVE  block_is_in_use(m2, x) \/ block_is_in_use(m2, get_next_block(m2, x))
        <5>1. CASE x = p
          <6>1. get_next_block(m, b) \in B2 /\ get_next_block(m, b) # p
            BY <1>1, <2>1, <2>3, <3>4, <4>1, <5>1 DEF get_next_block
          <6>2. QED
            BY <3>1, <3>4, <5>1, <6>1
        <5>2. CASE x # p
          <6>1. get_next_block(m2, x) = get_next_block(m, x) /\ x # b
            BY <3>1, <5>2 DEF get_next_block
          <6>2. block_is_in_use(m, x) \/ block_is_in_use(m, get_next_block(m, x))
            BY <4>1, <6>1 DEF MergedBut
          <6>3. CASE get_next_block(m, x) = p
            BY <2>5, <3>1, <5>2, <6>2, <6>3
          <6>4. CASE get_next_block(m, x) # p
            BY <3>1, <4>1, <5>2, <6>1, <6>2, <6>4
          <6>5. QED
            BY <6>3, <6>4
        <5>3. QED
          BY <5>1, <5>2
      <4>2. QED
        BY <4>1 DEF MergedBut
    <3>6. QED
      BY <3>1, <3>2, <3>3, <3>5 DEF LeftMerged
  <2>6. QED
    BY <2>4, <2>5 DEF LeftMerged
<1>5. QED
  BY <1>3, <1>4

LEMMA WritableBlock ==
  ASSUME NEW m \in Memories, NEW B \in SUBSET Words, TiledIn(m, B), NEW b \in B,
         NEW s, s = get_block_size(m, b)
  PROVE  Writable(b, s)
<1>1. b \in Int /\ s \in 0 .. (WordMod - 1) /\ s >= 8 /\ s % 8 = 0 /\ b + s - 4 \in Words
  BY BlockFacts, Region
<1>2. QED
  BY <1>1, Footer DEF Writable

\* heap_free of a payload of an intact heap writes only headers and footers,
\* and leaves an intact heap.
FreedHeap(m, n, L2, h3) ==
    \E m3 \in Memories, B3 \in SUBSET Words, n3 \in Words \union {n} :
       /\ h3 = [mem |-> m3, next |-> n3, blocks |-> B3]
       /\ search_alg # "NEXTFIT" => n3 = n
       /\ IntactIn(m3, B3, L2) /\ SamePayloads(m, m3, L2)

LEMMA FreeKeeps ==
  ASSUME NEW m \in Memories, NEW B \in SUBSET Words, NEW L, IntactIn(m, B, L),
         DOMAIN L \subseteq Words, \A q \in DOMAIN L : L[q] \in Nat,
         NEW p \in DOMAIN L, NEW n,
         NEW b, b = p - 4, NEW s, s = get_block_size(m, b),
         NEW h1, h1 = [mem |-> set_block_header(m, b, s, 0), next |-> n, blocks |-> B],
         NEW h2, h2 = coalesce(h1, b),
         NEW previous, previous = get_previous_block(h2.mem, b),
         NEW h3, h3 = coalesce(h2, previous),
         NEW L2, L2 = [q \in DOMAIN L \ {p} |-> L[q]]
  PROVE  /\ Writable(b, s) /\ CoalesceWritable(h1, b) /\ CoalesceWritable(h2, previous)
         /\ FreedHeap(m, n, L2, h3)
<1>1. TiledIn(m, B) /\ LiveIn(m, B, L) /\ MergedBut(m, B, {})
  BY DEF IntactIn
<1>2. DOMAIN L \subseteq Int
  BY WordsAreInt, Zenon
<1>3. b \in B /\ block_is_in_use(m, b) /\ b \in Int /\ b \in Words
  BY <1>1, <1>2, LiveFacts
<1>4. Writable(b, s)
  BY <1>1, <1>3, WritableBlock
<1>5. PICK m1 \in Memories :
        /\ m1 = set_block_header(m, b, s, 0) /\ TiledIn(m1, B)
        /\ \A x \in B : /\ get_block_size(m1, x) = get_block_size(m, x)
                        /\ x # b => (block_is_in_use(m1, x) <=> block_is_in_use(m, x))
        /\ ~ block_is_in_use(m1, b)
        /\ \A a \in Words : ~ Inside(a, b, b + s) => m1[a] = m[a]
  <2>1. 0 \in {0, 1} /\ ~ (0 = 1)
    OBVIOUS
  <2>2. QED
    BY <1>1, <1>3, <2>1, Flag
<1>6. MergedBut(m1, B, {b})
  BY <1>1, <1>5 DEF MergedBut, get_next_block
<1>7. CoalesceWritable(h1, b) /\ RightMerged(m1, B, b, n, h2)
  <2>1. h1 = [mem |-> m1, next |-> n, blocks |-> B]
    BY <1>5
  <2>2. QED
    BY <1>3, <1>5, <1>6, <2>1, FreeRight
<1>8. PICK m2 \in Memories, B2 \in SUBSET Words, n2 \in {n, b} :
         /\ h2 = [mem |-> m2, next |-> n2, blocks |-> B2]
         /\ search_alg # "NEXTFIT" => n2 = n
         /\ b \in B2 /\ ~ block_is_in_use(m2, b)
         /\ TiledIn(m2, B2) /\ MergedBut(m2, B2, {b}) /\ Untouched(m1, B, m2, B2)
         /\ get_next_block(m2, b) \in B2 => block_is_in_use(m2, get_next_block(m2, b))
  BY <1>7 DEF RightMerged
<1>9. previous = get_previous_block(m2, b)
  BY <1>8
<1>10. CoalesceWritable(h2, previous) /\ LeftMerged(m2, B2, n2, h3)
  BY <1>8, <1>9, FreeLeft
<1>11. PICK m3 \in Memories, B3 \in SUBSET Words, n3 \in Words \union {n2} :
          /\ h3 = [mem |-> m3, next |-> n3, blocks |-> B3]
          /\ search_alg # "NEXTFIT" => n3 = n2
          /\ TiledIn(m3, B3) /\ MergedBut(m3, B3, {}) /\ Untouched(m2, B2, m3, B3)
  BY <1>10 DEF LeftMerged
<1>12. Untouched(m1, B, m3, B3)
  BY <1>8, <1>11, UntouchedAgain
<1>13. UsedIn(m3, B3) = UsedIn(m, B) \ {b}
  <2>1. UsedIn(m1, B) = UsedIn(m, B) \ {b}
    BY <1>5 DEF UsedIn
  <2>2. QED
    BY <1>12, <2>1 DEF Untouched
<1>14. DOMAIN L2 = DOMAIN L \ {p} /\ \A q \in DOMAIN L2 : L2[q] = L[q] /\ q \in Int
  BY <1>2
<1>15. ASSUME NEW q \in DOMAIN L2
       PROVE  /\ q - 4 \in B /\ q - 4 # b /\ q - 4 \in UsedIn(m1, B)
              /\ L2[q] + 8 <= get_block_size(m, q - 4)
  <2>1. q - 4 \in B /\ block_is_in_use(m, q - 4) /\ L[q] + 8 <= get_block_size(m, q - 4)
    BY <1>1, <1>14, LiveFacts
  <2>2. q - 4 # b
    BY <1>2, <1>14
  <2>3. QED
    BY <1>5, <1>14, <2>1, <2>2 DEF UsedIn
<1>16. LiveIn(m3, B3, L2)
  <2>1. {q - 4 : q \in DOMAIN L2} = {q - 4 : q \in DOMAIN L} \ {b}
    BY <1>2, <1>14
  <2>2. {q - 4 : q \in DOMAIN L2} = UsedIn(m3, B3)
    BY <1>1, <1>13, <2>1 DEF LiveIn
  <2>3. ASSUME NEW q \in DOMAIN L2
        PROVE  L2[q] + 8 <= get_block_size(m3, q - 4)
    <3>1. get_block_size(m3, q - 4) = get_block_size(m1, q - 4)
      BY <1>12, <1>15 DEF Untouched
    <3>2. QED
      BY <1>5, <1>15, <3>1
  <2>4. QED
    BY <2>2, <2>3 DEF LiveIn
<1>17. SamePayloads(m, m3, L2)
  <2>1. SUFFICES ASSUME NEW q \in DOMAIN L2, NEW a \in Words, q <= a, a + 4 <= q + L2[q]
                 PROVE  m3[a] = m[a]
    BY DEF SamePayloads
  <2>2. PICK x \in B : x = q - 4 /\ x # b /\ x \in UsedIn(m1, B)
                       /\ L2[q] + 8 <= get_block_size(m, x)
    BY <1>15
  <2>3. PICK z \in Nat : z = get_block_size(m, x) /\ x \in Int
    BY <1>1, BlockFacts
  <2>4. PICK l \in Nat : l = L2[q]
    BY <1>14
  <2>5. a \in Int /\ q \in Int
    BY <1>14, WordsAreInt
  <2>6. Inside(a, x, x + z)
    BY <2>1, <2>2, <2>3, <2>4, <2>5 DEF Inside
  <2>7. m3[a] = m1[a]
    BY <1>5, <1>12, <2>2, <2>3, <2>6 DEF Untouched
  <2>8. x + z <= b \/ b + s <= x
    BY <1>1, <1>3, <2>2, <2>3, Disjoint
  <2>9. ~ Inside(a, b, b + s)
    <3>1. s \in Nat
      BY <1>1, <1>3, BlockFacts
    <3>2. QED
      BY <1>3, <2>3, <2>5, <2>6, <2>8, <3>1 DEF Inside
  <2>10. QED
    BY <1>5, <2>7, <2>9
<1>18. n3 \in Words \union {n} /\ (search_alg # "NEXTFIT" => n3 = n)
  BY <1>3, <1>8, <1>11
<1>19. IntactIn(m3, B3, L2)
  BY <1>11, <1>16 DEF IntactIn
<1>20. QED
  BY <1>4, <1>7, <1>10, <1>11, <1>17, <1>18, <1>19 DEF FreedHeap

-----------------------------------------------------------------------------
(* Types. *)

LEMMA WritableFacts ==
  ASSUME NEW m \in Memories, NEW b \in Words, NEW z \in 0 .. (WordMod - 1), z % 4 = 0,
         NEW u \in {0, 1}, Writable(b, z)
  PROVE  set_block_header(m, b, z, u) \in Memories /\ z >= 8 /\ b + 4 \in Words
<1>1. WordMod \in Nat /\ WordMod > size /\ WordMod % 8 = 0 /\ size % 8 = 0 /\ size \in Nat
      /\ start \in Nat /\ end = start + size
  BY Region
<1>2. b \in Int /\ start - 4 <= b /\ (b - start) % 4 = 0
  BY WordsAreInt, InWords
<1>3. PICK f \in Int : f = FooterOf(b, z) /\ f \in Words
  BY WordsAreInt DEF Writable
<1>4. f <= end - 4
  BY <1>3, InWords
<1>5. z - (z % HEADER_SIZE) = z
  BY <1>1 DEF HEADER_SIZE
<1>6. f = b + 4 + Wrap(z - 8)
  BY <1>3, <1>5 DEF FooterOf, HEADER_SIZE
<1>7. z >= 8
  <2>1. SUFFICES ASSUME z < 8 PROVE FALSE
    BY <1>1
  <2>2. Wrap(z - 8) = z - 8 + WordMod
    BY <1>1, <2>1 DEF Wrap
  <2>3. WordMod >= size + 8
    BY <1>1
  <2>4. QED
    BY <1>1, <1>2, <1>4, <1>6, <2>2, <2>3
<1>8. f = b + z - 4
  <2>1. Wrap(z - 8) = z - 8
    BY <1>1, <1>7 DEF Wrap
  <2>2. QED
    BY <1>2, <1>6, <2>1
<1>9. b + 4 \in Words
  <2>1. PICK a \in Int : a = b + 4
    BY <1>2
  <2>2. start - 4 <= a /\ a <= end - 4 /\ (a - start) % 4 = 0
    BY <1>1, <1>2, <1>4, <1>7, <1>8, <2>1
  <2>3. QED
    BY <2>1, <2>2, InWords
<1>10. HeaderValue(z, u) \in 0 .. (WordMod - 1)
  BY <1>1 DEF HeaderValue
<1>11. set_block_header(m, b, z, u) \in Memories
  BY <1>10 DEF set_block_header, Memories
<1>12. QED
  BY <1>7, <1>9, <1>11

LEMMA SizeToAllocate ==
  ASSUME NEW n \in Requests, NEW real \in get_size_to_allocate(n)
  PROVE  real \in 0 .. (WordMod - 1) /\ real % 4 = 0
<1>1. n \in 0 .. (WordMod - 1)
  BY HeapAssumption
<1>2. CASE n % 8 = 0
  <2>1. real = Wrap(n + 8)
    BY <1>2 DEF get_size_to_allocate, HEADER_SIZE
  <2>2. n + 8 >= WordMod => n + 8 - WordMod \in 0 .. (WordMod - 1) /\ (n + 8 - WordMod) % 4 = 0
    BY <1>1, <1>2, Region
  <2>3. n + 8 < WordMod => n + 8 \in 0 .. (WordMod - 1) /\ (n + 8) % 4 = 0
    BY <1>1, <1>2, Region
  <2>4. QED
    BY <1>1, <2>1, <2>2, <2>3, Region DEF Wrap
<1>3. CASE n % 8 # 0
  BY <1>3, HeapAssumption DEF get_size_to_allocate
<1>4. QED
  BY <1>2, <1>3

\* The search steps from word to word, even if it has left the blocks.
TypeInv ==
    /\ TypeOK
    /\ (current - start) % 4 = 0
    /\ pc = "search" => user_size \in Requests

LEMMA TypesOfState ==
  ASSUME TypeInv
  PROVE  /\ mem \in Memories /\ blocks \in SUBSET Words
         /\ DOMAIN live \subseteq Words /\ \A p \in DOMAIN live : live[p] \in Nat
         /\ current \in Int /\ (is_within_heap_range(current) => current \in Words)
<1>1. /\ mem \in Memories /\ blocks \in SUBSET Words /\ current \in Int
      /\ DOMAIN live \subseteq Words /\ \A p \in DOMAIN live : live[p] \in Requests
  BY DEF TypeInv, TypeOK, Memories
<1>2. Requests \subseteq Nat
  BY HeapAssumption, Region
<1>3. ASSUME is_within_heap_range(current)
      PROVE  current \in Words
  <2>1. start \in Nat /\ end \in Nat /\ (end - start) % 4 = 0
    BY Region
  <2>2. start <= current /\ current < end
    BY <1>3 DEF is_within_heap_range
  <2>3. (current - start) % 4 = 0
    BY DEF TypeInv
  <2>4. current <= end - 4
    BY <1>1, <2>1, <2>2, <2>3
  <2>5. QED
    BY <1>1, <2>1, <2>2, <2>3, <2>4, InWords
<1>4. QED
  BY <1>1, <1>2, <1>3

LEMMA InitState ==
  ASSUME Init
  PROVE  TypeInv /\ IntactIn(mem, blocks, live)
<1>1. start \in Nat /\ size \in Nat /\ size >= 8 /\ size % 8 = 0 /\ size \in 0 .. (WordMod - 1)
      /\ end = start + size
  BY Region
<1>2. start \in Words /\ start + size - 4 \in Words
  <2>1. PICK f \in Int : f = start + size - 4
    BY <1>1
  <2>2. start \in Int /\ start - 4 <= start /\ start <= end - 4 /\ (start - start) % 4 = 0
    BY <1>1
  <2>3. start - 4 <= f /\ f <= end - 4 /\ (f - start) % 4 = 0
    BY <1>1, <2>1
  <2>4. start \in Words
    BY <2>2, InWords
  <2>5. f \in Words
    BY <2>3, InWords
  <2>6. QED
    BY <2>1, <2>4, <2>5
<1>3. PICK m0 \in Memories : mem = set_block_header(m0, start, size, 0)
  <2>1. \A a \in Words : FreshWord(a) \in 0 .. (WordMod - 1)
    BY HeapAssumption, Region DEF FreshWord
  <2>2. [a \in Words |-> FreshWord(a)] \in Memories
    BY <2>1 DEF Memories
  <2>3. QED
    BY <2>2 DEF Init
<1>4. mem \in Memories /\ mem[start] = size /\ mem[start + size - 4] = size
  BY <1>1, <1>2, <1>3, SetFree
<1>5. get_block_size(mem, start) = size /\ ~ block_is_in_use(mem, start) /\ mem[start] % 4 = 0
  BY <1>1, <1>2, <1>4, FreeSize
<1>6. blocks = {start} /\ DOMAIN live = {}
  BY DEF Init
<1>7. TiledIn(mem, blocks)
  BY <1>1, <1>4, <1>5, <1>6 DEF TiledIn
<1>8. MergedBut(mem, blocks, {})
  <2>1. get_next_block(mem, start) # start
    BY <1>1, <1>5 DEF get_next_block
  <2>2. QED
    BY <1>6, <2>1 DEF MergedBut
<1>9. LiveIn(mem, blocks, live)
  BY <1>5, <1>6 DEF LiveIn, UsedIn
<1>10. TypeOK
  BY <1>1, <1>2, <1>4, <1>6, Region DEF Init, TypeOK, Memories, NULL
<1>11. TypeInv
  <2>1. current = start /\ pc = "idle" /\ (start - start) % 4 = 0
    BY <1>1 DEF Init
  <2>2. QED
    BY <1>10, <2>1 DEF TypeInv
<1>12. QED
  BY <1>7, <1>8, <1>9, <1>11 DEF IntactIn

LEMMA ReturnTypes ==
  ASSUME Return
  PROVE  /\ pc' = "idle" /\ current' = start /\ pass' \in {1, 2}
         /\ best_block' \in Words \union {NULL} /\ smallest_difference' \in 0 .. size
         /\ free_size' \in Nat /\ num_of_block' \in Nat
         /\ current' \in Int /\ (current' - start) % 4 = 0
BY Region DEF Return

LEMMA FaultTypes ==
  ASSUME TypeInv, Fault, UNCHANGED search_alg
  PROVE  TypeInv'
BY DEF TypeInv, TypeOK, Fault, locals

LEMMA TakeTypes ==
  ASSUME TypeInv, pc = "search", NEW b \in Words, Take(b), UNCHANGED search_alg
  PROVE  TypeInv'
<1>1. PICK real \in get_size_to_allocate(user_size) :
        LET s == get_block_size(mem, b)
            rest == Wrap(s - real)
        IN  \/ /\ Splits(real, s)
               /\ Writable(b + real, rest) /\ Writable(b, real)
               /\ mem' = set_block_header(
                            set_block_header(mem, b + real, rest, 0), b, real, 1)
               /\ blocks' = blocks \union {b + real}
               /\ live' = Holding(b)
               /\ next' = IF search_alg = "NEXTFIT" THEN b ELSE next
               /\ Return
            \/ /\ ~Splits(real, s)
               /\ Writable(b, s)
               /\ mem' = set_block_header(mem, b, s, 1)
               /\ live' = Holding(b)
               /\ next' = IF search_alg = "NEXTFIT" THEN b ELSE next
               /\ Return
               /\ UNCHANGED blocks
            \/ Fault
  BY Zenon DEF Take
<1>2. user_size \in Requests /\ mem \in Memories /\ blocks \subseteq Words
      /\ \A p \in DOMAIN live : p \in Words /\ live[p] \in Requests
  BY TypesOfState DEF TypeInv, TypeOK
<1>3. real \in 0 .. (WordMod - 1) /\ real % 4 = 0
  BY <1>2, SizeToAllocate
<1>4. PICK s \in 0 .. (WordMod - 1) : s = get_block_size(mem, b) /\ s % 4 = 0
  BY <1>2, HeaderWord
<1>5. PICK rest \in 0 .. (WordMod - 1) : rest = Wrap(s - real) /\ rest % 4 = 0
  <2>1. s - real >= 0 => s - real \in 0 .. (WordMod - 1) /\ (s - real) % 4 = 0
    BY <1>3, <1>4, Region
  <2>2. s - real < 0 => s - real + WordMod \in 0 .. (WordMod - 1) /\ (s - real + WordMod) % 4 = 0
    BY <1>3, <1>4, Region
  <2>3. Wrap(s - real) \in 0 .. (WordMod - 1) /\ Wrap(s - real) % 4 = 0
    BY <1>3, <1>4, <2>1, <2>2, Region DEF Wrap
  <2>4. QED
    BY <2>3
<1>6. ASSUME mem' \in Memories, blocks' \subseteq Words, b + 4 \in Words, live' = Holding(b),
             next' = IF search_alg = "NEXTFIT" THEN b ELSE next, Return
      PROVE  TypeInv'
  <2>1. \A p \in DOMAIN live' : p \in Words /\ live'[p] \in Requests
    BY <1>2, <1>6 DEF Holding, HEADER_SIZE
  <2>2. next' \in Words
    BY <1>6 DEF TypeInv, TypeOK
  <2>3. QED
    BY <1>6, <2>1, <2>2, ReturnTypes DEF TypeInv, TypeOK, Memories
<1>7. CASE /\ Writable(b + real, rest) /\ Writable(b, real)
           /\ mem' = set_block_header(set_block_header(mem, b + real, rest, 0), b, real, 1)
           /\ blocks' = blocks \union {b + real}
           /\ live' = Holding(b)
           /\ next' = IF search_alg = "NEXTFIT" THEN b ELSE next
           /\ Return
  <2>1. b + real \in Words
    BY <1>7 DEF Writable
  <2>2. set_block_header(mem, b + real, rest, 0) \in Memories
    BY <1>2, <1>5, <1>7, <2>1, WritableFacts
  <2>3. mem' \in Memories /\ b + 4 \in Words
    BY <1>3, <1>7, <2>2, WritableFacts
  <2>4. QED
    BY <1>2, <1>6, <1>7, <2>1, <2>3
<1>8. CASE /\ Writable(b, s)
           /\ mem' = set_block_header(mem, b, s, 1)
           /\ live' = Holding(b)
           /\ next' = IF search_alg = "NEXTFIT" THEN b ELSE next
           /\ Return
           /\ UNCHANGED blocks
  <2>1. mem' \in Memories /\ b + 4 \in Words
    BY <1>2, <1>4, <1>8, WritableFacts
  <2>2. QED
    BY <1>2, <1>6, <1>8, <2>1
<1>9. CASE Fault
  BY <1>9, FaultTypes
<1>10. QED
  BY <1>1, <1>4, <1>5, <1>7, <1>8, <1>9

LEMMA StepAligned ==
  ASSUME NEW c \in Int, NEW x \in Int, NEW s \in Nat, (c - x) % 4 = 0, s % 4 = 0
  PROVE  (c + s - x) % 4 = 0
OBVIOUS

LEMMA VisitTypes ==
  ASSUME TypeInv, Visit, UNCHANGED search_alg
  PROVE  TypeInv'
<1>1. pc = "search" /\ is_within_heap_range(current)
  BY DEF Visit
<1>2. mem \in Memories /\ current \in Words /\ current \in Int
  BY <1>1, TypesOfState
<1>3. PICK s \in 0 .. (WordMod - 1), needed \in get_size_to_allocate(user_size) :
        /\ s = get_block_size(mem, current)
        /\ \/ Take(current)
           \/ /\ current' = get_next_block(mem, current)
              /\ \/ /\ HasRoom(s, needed) /\ s - needed <= smallest_difference
                    /\ best_block' = current
                    /\ smallest_difference' = s - needed
                 \/ UNCHANGED <<best_block, smallest_difference>>
              /\ UNCHANGED <<mem, next, live, pc, user_size, pass, blocks, averages>>
  BY <1>2, HeaderWord DEF Visit
<1>4. CASE Take(current)
  BY <1>1, <1>2, <1>4, TakeTypes
<1>5. CASE /\ current' = get_next_block(mem, current)
           /\ \/ /\ HasRoom(s, needed) /\ s - needed <= smallest_difference
                 /\ best_block' = current
                 /\ smallest_difference' = s - needed
              \/ UNCHANGED <<best_block, smallest_difference>>
           /\ UNCHANGED <<mem, next, live, pc, user_size, pass, blocks, averages>>
  <2>1. current' = current + s /\ s % 4 = 0
    BY <1>2, <1>3, <1>5, HeaderWord DEF get_next_block
  <2>2. current' \in Int /\ (current' - start) % 4 = 0
    <3>1. PICK c \in Int, x \in Int : c = current /\ x = start /\ (c - x) % 4 = 0
      BY <1>2, Region DEF TypeInv
    <3>2. (c + s - x) % 4 = 0
      BY <2>1, <3>1, StepAligned
    <3>3. QED
      BY <2>1, <3>1, <3>2
  <2>3. user_size \in Requests
    BY <1>1 DEF TypeInv
  <2>4. needed \in 0 .. (WordMod - 1)
    BY <2>3, SizeToAllocate
  <2>5. best_block' \in Words \union {NULL} /\ smallest_difference' \in 0 .. size
    BY <1>2, <1>5, <2>4, Region DEF TypeInv, TypeOK, HasRoom
  <2>6. QED
    BY <1>1, <1>5, <2>2, <2>3, <2>5 DEF TypeInv, TypeOK, averages
<1>6. QED
  BY <1>3, <1>4, <1>5

LEMMA ExhaustTypes ==
  ASSUME TypeInv, Exhaust, UNCHANGED search_alg
  PROVE  TypeInv'
<1>1. pc = "search"
  BY DEF Exhaust
<1>2. CASE /\ pass' = 2 /\ current' = start
           /\ UNCHANGED <<mem, next, live, pc, user_size, best_block,
                          smallest_difference, blocks, averages>>
  BY <1>2, Region DEF TypeInv, TypeOK, averages
<1>3. CASE best_block # NULL /\ Take(best_block)
  <2>1. best_block \in Words
    BY <1>3 DEF TypeInv, TypeOK
  <2>2. QED
    BY <1>1, <1>3, <2>1, TakeTypes
<1>4. CASE Return /\ UNCHANGED <<mem, next, live, blocks>>
  BY <1>4, ReturnTypes DEF TypeInv, TypeOK
<1>5. QED
  BY <1>2, <1>3, <1>4 DEF Exhaust

\* The heap of heap_free, in the terms of FreeKeeps.
LEMMA FreeStep ==
  ASSUME TypeInv, Intact, NEW p \in DOMAIN live, Free(p)
  PROVE  /\ pc = "idle" /\ UNCHANGED <<pc, locals>>
         /\ mem' \in Memories /\ blocks' \in SUBSET Words /\ next' \in Words
         /\ search_alg # "NEXTFIT" => next' = next
         /\ live' = [q \in DOMAIN live \ {p} |-> live[q]]
         /\ IntactIn(mem', blocks', live') /\ SamePayloads(mem, mem', live')
<1> DEFINE b == p - 4
           s == get_block_size(mem, b)
           h1 == [mem |-> set_block_header(mem, b, s, 0), next |-> next, blocks |-> blocks]
           h2 == coalesce(h1, b)
           previous == get_previous_block(h2.mem, b)
           h3 == coalesce(h2, previous)
           L2 == [q \in DOMAIN live \ {p} |-> live[q]]
<1>1. /\ mem \in Memories /\ blocks \in SUBSET Words /\ next \in Words
      /\ DOMAIN live \subseteq Words /\ \A q \in DOMAIN live : live[q] \in Nat
  BY TypesOfState DEF TypeInv, TypeOK
<1>2. IntactIn(mem, blocks, live)
  BY IntactIsIntactIn
<1>3. /\ Writable(b, s) /\ CoalesceWritable(h1, b) /\ CoalesceWritable(h2, previous)
      /\ FreedHeap(mem, next, L2, h3)
  BY <1>1, <1>2, FreeKeeps, Zenon
<1>4. [Heap EXCEPT !.mem = set_block_header(mem, b, s, 0)] = h1
  BY DEF Heap
<1>5. /\ pc = "idle"
      /\ \/ /\ mem' = h3.mem /\ next' = h3.next /\ blocks' = h3.blocks
            /\ live' = L2
            /\ UNCHANGED <<pc, locals>>
         \/ ~(Writable(b, s) /\ CoalesceWritable(h1, b) /\ CoalesceWritable(h2, previous))
  BY <1>4, Zenon DEF Free, HEADER_SIZE
<1> HIDE DEF h1, h2, h3, previous, s
<1>6. PICK m3 \in Memories, B3 \in SUBSET Words, n3 \in Words \union {next} :
            /\ h3 = [mem |-> m3, next |-> n3, blocks |-> B3]
            /\ search_alg # "NEXTFIT" => n3 = next
            /\ IntactIn(m3, B3, L2) /\ SamePayloads(mem, m3, L2)
  BY <1>3 DEF FreedHeap
<1>7. mem' = m3 /\ next' = n3 /\ blocks' = B3 /\ live' = L2 /\ UNCHANGED <<pc, locals>>
  BY <1>3, <1>5, <1>6
<1>8. QED
  BY <1>1, <1>5, <1>6, <1>7

LEMMA FreeTypes ==
  ASSUME TypeInv, Intact, NEW p \in DOMAIN live, Free(p), UNCHANGED search_alg
  PROVE  TypeInv'
<1>1. /\ pc = "idle" /\ UNCHANGED <<pc, locals>>
      /\ mem' \in Memories /\ blocks' \in SUBSET Words /\ next' \in Words
      /\ live' = [q \in DOMAIN live \ {p} |-> live[q]]
  BY FreeStep
<1>2. \A q \in DOMAIN live' : q \in Words /\ live'[q] \in Requests
  BY <1>1 DEF TypeInv, TypeOK
<1>3. QED
  BY <1>1, <1>2 DEF TypeInv, TypeOK, Memories, locals

LEMMA WriteTypes ==
  ASSUME TypeInv, NEW p \in DOMAIN live, UserWrite(p), UNCHANGED search_alg
  PROVE  TypeInv'
<1>1. PICK a \in Words, w \in UserWords : mem' = [mem EXCEPT ![a] = w]
  BY DEF UserWrite
<1>2. w \in 0 .. (WordMod - 1)
  BY HeapAssumption
<1>3. mem' \in [Words -> 0 .. (WordMod - 1)]
  BY <1>1, <1>2 DEF TypeInv, TypeOK
<1>4. QED
  BY <1>3 DEF TypeInv, TypeOK, UserWrite, locals

LEMMA AverageTypes ==
  ASSUME TypeInv, AverageVisit, UNCHANGED search_alg
  PROVE  TypeInv'
<1>1. mem \in Memories /\ current \in Words /\ current \in Int
  BY TypesOfState DEF AverageVisit
<1>2. PICK s \in Nat : s = get_block_size(mem, current) /\ s % 4 = 0
  BY <1>1, HeaderWord, Region
<1>3. current' = current + s
  BY <1>2 DEF AverageVisit, get_next_block
<1>4. current' \in Int /\ (current' - start) % 4 = 0
  <2>1. PICK c \in Int, x \in Int : c = current /\ x = start /\ (c - x) % 4 = 0
    BY <1>1, Region DEF TypeInv
  <2>2. (c + s - x) % 4 = 0
    BY <1>2, <2>1, StepAligned
  <2>3. QED
    BY <1>3, <2>1, <2>2
<1>5. free_size' \in Nat /\ num_of_block' \in Nat
  BY <1>2 DEF AverageVisit, averages, TypeInv, TypeOK
<1>6. QED
  BY <1>4, <1>5 DEF AverageVisit, TypeInv, TypeOK

LEMMA NextTypes ==
  ASSUME TypeInv, [Next]_vars
  PROVE  TypeInv'
<1>1. CASE UNCHANGED vars
  BY <1>1 DEF vars, locals, TypeInv, TypeOK
<1>2. CASE Next
  <2>1. UNCHANGED search_alg /\ (pc = "idle" => Intact)
    BY <1>2 DEF Next, Usable
  <2>2. CASE \E n \in Requests : Malloc(n)
    <3>1. PICK n \in Requests : Malloc(n)
      BY <2>2
    <3>2. current' \in Words /\ current' \in Int
      BY <3>1, Region, InWords, WordsAreInt DEF Malloc, TypeInv, TypeOK
    <3>3. (current' - start) % 4 = 0
      BY <3>2, InWords
    <3>4. NULL \in Words \union {NULL} /\ size \in 0 .. size
      BY Region
    <3>5. QED
      BY <2>1, <3>1, <3>2, <3>3, <3>4 DEF Malloc, TypeInv, TypeOK, averages
  <2>3. CASE Visit
    BY <2>1, <2>3, VisitTypes
  <2>4. CASE Exhaust
    BY <2>1, <2>4, ExhaustTypes
  <2>5. CASE Average
    BY <2>1, <2>5 DEF Average, TypeInv, TypeOK, locals
  <2>6. CASE AverageVisit
    BY <2>1, <2>6, AverageTypes
  <2>7. CASE AverageReturns
    <3>1. CASE Return /\ UNCHANGED <<mem, next, live, blocks>>
      BY <2>1, <3>1, ReturnTypes DEF TypeInv, TypeOK
    <3>2. CASE Fault
      BY <2>1, <3>2, FaultTypes
    <3>3. QED
      BY <2>7, <3>1, <3>2 DEF AverageReturns
  <2>8. CASE \E p \in DOMAIN live : Free(p)
    BY <2>1, <2>8, FreeTypes DEF Free
  <2>9. CASE \E p \in DOMAIN live : UserWrite(p)
    BY <2>1, <2>9, WriteTypes
  <2>10. QED
    BY <1>2, <2>2, <2>3, <2>4, <2>5, <2>6, <2>7, <2>8, <2>9 DEF Next
<1>3. QED
  BY <1>1, <1>2

\* Whatever the garbage a size function that ends without a return gives, and
\* even after a stale h->next has damaged the blocks: a word holds 32 bits, and
\* h->next, best_block and the payloads of the program stay in the region.
THEOREM TypesAreKept == Spec => []TypeOK
<1>1. Init => TypeInv
  BY InitState
<1>2. TypeInv /\ [Next]_vars => TypeInv'
  BY NextTypes
<1>3. TypeInv => TypeOK
  BY DEF TypeInv
<1>4. QED
  BY <1>1, <1>2, <1>3, PTL DEF Spec

-----------------------------------------------------------------------------
(* The blocks. *)

\* A request for a multiple of 8 bytes, as those for which the size function
\* returns a value.
RequestsAreMultiples == \A n \in Requests : n % 8 = 0

\* Calls are made on intact heaps and return intact heaps, unless a next-fit
\* search starts at an h->next that is no block: until it has, the search
\* visits blocks, and best fit remembers a free one that is large enough.
HeapInv ==
    /\ TypeInv
    /\ pc # "idle" => Intact
    /\ NoNextFit => Intact /\ next = start
    /\ pc = "idle" => best_block = NULL
    /\ pc = "search" /\ next \in blocks => current \in blocks \union {end}
    /\ best_block # NULL =>
          /\ search_alg = "BESTFIT" /\ best_block \in FreeBlocks
          /\ \A needed \in get_size_to_allocate(user_size) :
                get_block_size(mem, best_block) >= needed

\* Where the invariant holds, every step starts from an intact heap.
LEMMA StepsFromIntact ==
  ASSUME HeapInv, Next
  PROVE  Intact
BY DEF HeapInv, Next, Usable

\* What a heap_malloc that has found its block does.
LEMMA TakeStep ==
  ASSUME RequestsAreMultiples, TypeInv, Intact, pc = "search", NEW b \in FreeBlocks, Take(b),
         \A needed \in get_size_to_allocate(user_size) : get_block_size(mem, b) >= needed
  PROVE  \/ Fault
         \/ /\ Return
            /\ user_size + 8 <= get_block_size(mem, b)
            /\ next' = IF search_alg = "NEXTFIT" THEN b ELSE next
            /\ mem' \in Memories /\ blocks' \in SUBSET Words /\ b \in blocks'
            /\ IntactIn(mem', blocks', live')
            /\ live' = Held(live, b, user_size) /\ b + 4 \notin DOMAIN live
            /\ SamePayloads(mem, mem', live)
<1>1. PICK real \in get_size_to_allocate(user_size) :
        LET s == get_block_size(mem, b)
            rest == Wrap(s - real)
        IN  \/ /\ Splits(real, s)
               /\ Writable(b + real, rest) /\ Writable(b, real)
               /\ mem' = set_block_header(
                            set_block_header(mem, b + real, rest, 0), b, real, 1)
               /\ blocks' = blocks \union {b + real}
               /\ live' = Holding(b)
               /\ next' = IF search_alg = "NEXTFIT" THEN b ELSE next
               /\ Return
            \/ /\ ~Splits(real, s)
               /\ Writable(b, s)
               /\ mem' = set_block_header(mem, b, s, 1)
               /\ live' = Holding(b)
               /\ next' = IF search_alg = "NEXTFIT" THEN b ELSE next
               /\ Return
               /\ UNCHANGED blocks
            \/ Fault
  BY Zenon DEF Take
<1>2. /\ mem \in Memories /\ blocks \in SUBSET Words
      /\ DOMAIN live \subseteq Words /\ \A p \in DOMAIN live : live[p] \in Nat
      /\ IntactIn(mem, blocks, live) /\ TiledIn(mem, blocks)
  BY TypesOfState, IntactIsIntactIn DEF IntactIn
<1>3. b \in blocks /\ ~ block_is_in_use(mem, b) /\ b \in Words
  BY <1>2 DEF FreeBlocks
<1>4. PICK n \in 0 .. (WordMod - 1) : n = user_size /\ n % 8 = 0 /\ n \in Requests
  BY HeapAssumption DEF TypeInv, RequestsAreMultiples
<1>5. real = Wrap(n + 8)
  BY <1>4 DEF get_size_to_allocate, HEADER_SIZE
<1>6. PICK s \in 0 .. (WordMod - 1) : s = get_block_size(mem, b) /\ s >= 8 /\ s % 8 = 0 /\ s >= real
  <2>1. get_block_size(mem, b) \in 0 .. (WordMod - 1)
    BY <1>2, <1>3, HeaderWord
  <2>2. get_block_size(mem, b) >= 8 /\ get_block_size(mem, b) % 8 = 0
    BY <1>2, <1>3, BlockFacts
  <2>3. QED
    BY <2>1, <2>2
<1>7. real \in 0 .. (WordMod - 1) /\ real % 4 = 0
  BY <1>4, SizeToAllocate
<1>8. (n + 8 < WordMod /\ real = n + 8) \/ real = 0
  BY <1>4, <1>5, Region DEF Wrap
<1>9. Wrap(s - real) = s - real
  BY <1>6, <1>7, Region DEF Wrap
<1>10. Holding(b) = Held(live, b, n)
  BY <1>4 DEF Holding, Held, HEADER_SIZE
<1>11. CASE /\ Writable(b + real, s - real) /\ Writable(b, real)
            /\ mem' = set_block_header(
                         set_block_header(mem, b + real, s - real, 0), b, real, 1)
            /\ blocks' = blocks \union {b + real}
            /\ live' = Holding(b)
            /\ next' = IF search_alg = "NEXTFIT" THEN b ELSE next
            /\ Return
  <2>1. s - real \in 0 .. (WordMod - 1) /\ (s - real) % 4 = 0 /\ b + real \in Words
    BY <1>6, <1>7, <1>11, Region DEF Writable
  <2>2. s - real >= 8 /\ set_block_header(mem, b + real, s - real, 0) \in Memories
    BY <1>2, <1>11, <2>1, WritableFacts
  <2>3. real >= 8
    BY <1>3, <1>7, <1>11, <2>2, WritableFacts
  <2>4. real = n + 8 /\ real % 8 = 0 /\ real <= s - 8
    BY <1>4, <1>6, <1>7, <1>8, <2>2, <2>3
  <2>5. /\ mem' \in Memories /\ blocks' \in SUBSET Words
        /\ IntactIn(mem', blocks', Held(live, b, n))
        /\ b + 4 \notin DOMAIN live
        /\ SamePayloads(mem, mem', live)
    BY <1>2, <1>3, <1>4, <1>6, <1>11, <2>4, TakeSplit
  <2>6. user_size + 8 <= get_block_size(mem, b)
    BY <1>4, <1>6, <2>4, Region
  <2>7. QED
    BY <1>3, <1>4, <1>10, <1>11, <2>5, <2>6
<1>12. CASE /\ ~ Splits(real, s)
            /\ mem' = set_block_header(mem, b, s, 1)
            /\ live' = Holding(b)
            /\ next' = IF search_alg = "NEXTFIT" THEN b ELSE next
            /\ Return
            /\ UNCHANGED blocks
  <2>1. real # 0
    <3>1. SUFFICES ASSUME real = 0 PROVE Splits(real, s)
      BY <1>12
    <3>2. Wrap(real * 2) = 0
      BY <3>1, Region DEF Wrap
    <3>3. QED
      BY <1>6, <3>2 DEF Splits
  <2>2. n + 8 <= s
    BY <1>6, <1>8, <2>1
  <2>3. /\ mem' \in Memories /\ IntactIn(mem', blocks, Held(live, b, n))
        /\ b + 4 \notin DOMAIN live
        /\ SamePayloads(mem, mem', live)
    BY <1>2, <1>3, <1>4, <1>6, <1>12, <2>2, TakeWhole
  <2>4. user_size + 8 <= get_block_size(mem, b)
    BY <1>4, <1>6, <2>2
  <2>5. QED
    BY <1>2, <1>3, <1>4, <1>10, <1>12, <2>3, <2>4
<1>13. QED
  BY <1>1, <1>6, <1>9, <1>11, <1>12

\* A search that takes a free block that is large enough, or one that a stale
\* h->next has misled.
LEMMA TakeInv ==
  ASSUME RequestsAreMultiples, HeapInv, TypeInv', Intact, pc = "search", UNCHANGED search_alg,
         NEW b \in Words, Take(b),
         \/ /\ b \in FreeBlocks
            /\ \A needed \in get_size_to_allocate(user_size) : get_block_size(mem, b) >= needed
         \/ search_alg = "NEXTFIT" /\ next \notin blocks
  PROVE  HeapInv' /\ (next \in blocks => Intact')
<1>1. CASE Fault
  <2>1. UNCHANGED <<mem, next, live, blocks, search_alg, current, best_block, user_size>>
        /\ pc' = "fault" /\ Intact'
    BY <1>1, IntactIsIntactIn DEF Fault, locals
  <2>2. FreeBlocks' = FreeBlocks
    BY <2>1 DEF FreeBlocks
  <2>3. QED
    BY <2>1, <2>2 DEF HeapInv, NoNextFit
<1>2. CASE Return /\ next' = IF search_alg = "NEXTFIT" THEN b ELSE next
  <2>1. pc' = "idle" /\ best_block' = NULL
    BY <1>2 DEF Return
  <2>2. CASE search_alg = "NEXTFIT" /\ next \notin blocks
    BY <2>1, <2>2 DEF HeapInv, NoNextFit
  <2>3. CASE /\ b \in FreeBlocks
             /\ \A needed \in get_size_to_allocate(user_size) : get_block_size(mem, b) >= needed
    <3>1. TypeInv
      BY DEF HeapInv
    <3>2. ~ Fault
      BY <2>1 DEF Fault
    <3>3. Intact'
      BY <2>3, <3>1, <3>2, TakeStep, IntactIsIntactIn
    <3>4. NoNextFit' => next' = start
      BY <1>2 DEF HeapInv, NoNextFit
    <3>5. QED
      BY <2>1, <3>3, <3>4 DEF HeapInv
  <2>4. QED
    BY <2>2, <2>3
<1>3. QED
  <2>1. Fault \/ (Return /\ next' = IF search_alg = "NEXTFIT" THEN b ELSE next)
    BY Zenon DEF Take
  <2>2. QED
    BY <1>1, <1>2, <2>1

LEMMA OneSize ==
  ASSUME RequestsAreMultiples, TypeInv, pc = "search",
         NEW real \in get_size_to_allocate(user_size)
  PROVE  \A needed \in get_size_to_allocate(user_size) : needed = real
BY DEF RequestsAreMultiples, TypeInv, get_size_to_allocate

LEMMA VisitInv ==
  ASSUME RequestsAreMultiples, HeapInv, TypeInv', Intact, Visit, UNCHANGED search_alg
  PROVE  HeapInv' /\ (next \in blocks => Intact')
<1>1. /\ pc = "search" /\ is_within_heap_range(current) /\ TypeInv
      /\ mem \in Memories /\ current \in Words /\ TiledIn(mem, blocks) /\ blocks \in SUBSET Words
  BY TypesOfState, IntactIsIntactIn DEF Visit, HeapInv, IntactIn
<1>2. PICK s \in Int, needed \in get_size_to_allocate(user_size) :
        /\ s = get_block_size(mem, current)
        /\ \/ /\ ~ block_is_in_use(mem, current) /\ s >= needed
              /\ search_alg # "BESTFIT" /\ Take(current)
           \/ /\ current' = get_next_block(mem, current)
              /\ \/ /\ ~ block_is_in_use(mem, current) /\ s >= needed
                    /\ search_alg = "BESTFIT"
                    /\ best_block' = current
                 \/ UNCHANGED best_block
              /\ UNCHANGED <<mem, next, live, pc, user_size, pass, blocks, averages>>
  <2>1. PICK needed \in get_size_to_allocate(user_size) :
           LET s == get_block_size(mem, current)
               fits == ~block_is_in_use(mem, current) /\ HasRoom(s, needed)
           IN  \/ fits /\ search_alg # "BESTFIT" /\ Take(current)
               \/ /\ ~(fits /\ search_alg # "BESTFIT")
                  /\ current' = get_next_block(mem, current)
                  /\ IF fits /\ s - needed <= smallest_difference
                     THEN /\ best_block' = current
                          /\ smallest_difference' = s - needed
                     ELSE UNCHANGED <<best_block, smallest_difference>>
                  /\ UNCHANGED <<mem, next, live, pc, user_size, pass, blocks, averages>>
    BY Zenon DEF Visit
  <2>2. PICK s \in Int : s = get_block_size(mem, current)
    BY <1>1, HeaderWord
  <2>3. CASE ~ block_is_in_use(mem, current) /\ s >= needed /\ search_alg # "BESTFIT"
             /\ Take(current)
    BY <2>2, <2>3, Zenon
  <2>4. CASE /\ ~(~ block_is_in_use(mem, current) /\ s >= needed /\ search_alg # "BESTFIT")
             /\ current' = get_next_block(mem, current)
             /\ IF ~ block_is_in_use(mem, current) /\ s >= needed
                   /\ s - needed <= smallest_difference
                THEN best_block' = current
                ELSE UNCHANGED best_block
             /\ UNCHANGED <<mem, next, live, pc, user_size, pass, blocks, averages>>
    <3>1. \/ /\ ~ block_is_in_use(mem, current) /\ s >= needed
             /\ search_alg = "BESTFIT"
             /\ best_block' = current
          \/ UNCHANGED best_block
      BY <2>4
    <3>2. QED
      BY <2>2, <2>4, <3>1, Zenon
  <2>5. \/ ~ block_is_in_use(mem, current) /\ s >= needed /\ search_alg # "BESTFIT"
           /\ Take(current)
        \/ /\ ~(~ block_is_in_use(mem, current) /\ s >= needed /\ search_alg # "BESTFIT")
           /\ current' = get_next_block(mem, current)
           /\ IF ~ block_is_in_use(mem, current) /\ s >= needed
                 /\ s - needed <= smallest_difference
              THEN best_block' = current
              ELSE UNCHANGED best_block
           /\ UNCHANGED <<mem, next, live, pc, user_size, pass, blocks, averages>>
    BY <2>1, <2>2, Zenon DEF HasRoom
  <2>6. QED
    BY <2>3, <2>4, <2>5
<1>3. \A x \in get_size_to_allocate(user_size) : x = needed
  BY <1>1, OneSize
<1>4. CASE next \in blocks
  <2>1. current \in blocks
    BY <1>1, <1>4, Region DEF HeapInv, is_within_heap_range
  <2>2. CASE ~ block_is_in_use(mem, current) /\ s >= needed /\ Take(current)
    <3>1. current \in FreeBlocks
          /\ \A x \in get_size_to_allocate(user_size) : get_block_size(mem, current) >= x
      BY <1>2, <1>3, <2>1, <2>2 DEF FreeBlocks
    <3>2. QED
      BY <1>1, <2>2, <3>1, TakeInv
  <2>3. CASE /\ current' = get_next_block(mem, current)
             /\ \/ /\ ~ block_is_in_use(mem, current) /\ s >= needed
                   /\ search_alg = "BESTFIT"
                   /\ best_block' = current
                \/ UNCHANGED best_block
             /\ UNCHANGED <<mem, next, live, pc, user_size, pass, blocks, averages>>
    <3>1. current' \in blocks' \union {end}
      BY <1>1, <2>1, <2>3, BlockFacts DEF get_next_block
    <3>2. Intact' /\ FreeBlocks' = FreeBlocks
      BY <2>3, IntactIsIntactIn DEF FreeBlocks
    <3>3. best_block' # NULL =>
            /\ search_alg = "BESTFIT" /\ best_block' \in FreeBlocks
            /\ \A x \in get_size_to_allocate(user_size) : get_block_size(mem, best_block') >= x
      BY <1>2, <1>3, <2>1, <2>3 DEF HeapInv, FreeBlocks
    <3>4. QED
      BY <1>1, <2>3, <3>1, <3>2, <3>3 DEF HeapInv, NoNextFit
  <2>4. QED
    BY <1>2, <2>2, <2>3
<1>5. CASE next \notin blocks
  <2>1. search_alg = "NEXTFIT"
    BY <1>1, <1>5 DEF HeapInv, NoNextFit, TiledIn
  <2>2. CASE Take(current)
    BY <1>1, <1>5, <2>1, <2>2, TakeInv
  <2>3. CASE /\ UNCHANGED best_block
             /\ UNCHANGED <<mem, next, live, pc, user_size, pass, blocks, averages>>
    <3>1. Intact' /\ FreeBlocks' = FreeBlocks
      BY <2>3, IntactIsIntactIn DEF FreeBlocks
    <3>2. QED
      BY <1>1, <1>5, <2>1, <2>3, <3>1 DEF HeapInv, NoNextFit
  <2>4. QED
    BY <1>2, <2>1, <2>2, <2>3
<1>6. QED
  BY <1>4, <1>5

LEMMA ExhaustInv ==
  ASSUME RequestsAreMultiples, HeapInv, TypeInv', Intact, Exhaust, UNCHANGED search_alg
  PROVE  HeapInv' /\ (next \in blocks => Intact')
<1>1. pc = "search" /\ start \in blocks /\ TypeInv
  BY IntactIsIntactIn DEF Exhaust, IntactIn, TiledIn, HeapInv
<1>2. CASE /\ current' = start
           /\ UNCHANGED <<mem, next, live, pc, user_size, best_block,
                          smallest_difference, blocks, averages>>
  <2>1. Intact' /\ FreeBlocks' = FreeBlocks
    BY <1>2, IntactIsIntactIn DEF FreeBlocks
  <2>2. QED
    BY <1>1, <1>2, <2>1 DEF HeapInv, NoNextFit
<1>3. CASE best_block # NULL /\ Take(best_block)
  <2>1. best_block \in Words
    BY <1>1, <1>3 DEF TypeInv, TypeOK
  <2>2. best_block \in FreeBlocks
        /\ \A needed \in get_size_to_allocate(user_size) : get_block_size(mem, best_block) >= needed
    BY <1>3 DEF HeapInv
  <2>3. QED
    BY <1>1, <1>3, <2>1, <2>2, TakeInv
<1>4. CASE Return /\ UNCHANGED <<mem, next, live, blocks>>
  <2>1. Intact' /\ pc' = "idle" /\ best_block' = NULL
    BY <1>4, IntactIsIntactIn DEF Return
  <2>2. QED
    BY <1>4, <2>1 DEF HeapInv, NoNextFit
<1>5. QED
  BY <1>2, <1>3, <1>4 DEF Exhaust

LEMMA FreeInv ==
  ASSUME HeapInv, TypeInv', Intact, NEW p \in DOMAIN live, Free(p), UNCHANGED search_alg
  PROVE  HeapInv' /\ Intact'
<1>1. TypeInv
  BY DEF HeapInv
<1>2. /\ pc = "idle" /\ UNCHANGED <<pc, locals>>
      /\ search_alg # "NEXTFIT" => next' = next
      /\ IntactIn(mem', blocks', live')
  BY <1>1, FreeStep
<1>3. Intact' /\ pc' = "idle" /\ best_block' = NULL
  BY <1>2, IntactIsIntactIn DEF HeapInv, locals
<1>4. QED
  BY <1>2, <1>3 DEF HeapInv, NoNextFit

\* The program writes only between the header and the footer of a block of
\* its own.
LEMMA WriteStep ==
  ASSUME TypeInv, Intact, NEW p \in DOMAIN live, UserWrite(p)
  PROVE  /\ IntactIn(mem', blocks, live)
         /\ \A q \in DOMAIN live \ {p} : \A a \in Words :
               q <= a /\ a + 4 <= q + live[q] => mem'[a] = mem[a]
<1>1. /\ mem \in Memories /\ blocks \in SUBSET Words
      /\ DOMAIN live \subseteq Words /\ \A q \in DOMAIN live : live[q] \in Nat
      /\ TiledIn(mem, blocks) /\ LiveIn(mem, blocks, live) /\ MergedBut(mem, blocks, {})
  BY TypesOfState, IntactIsIntactIn DEF IntactIn
<1>2. PICK a \in Words, w \in 0 .. (WordMod - 1) :
         p <= a /\ a + 4 <= p + live[p] /\ mem' = [mem EXCEPT ![a] = w]
  BY HeapAssumption DEF UserWrite
<1>3. \A q \in DOMAIN live : q \in Int
  BY <1>1, WordsAreInt
<1>4. PICK b \in blocks, s \in Nat :
         b = p - 4 /\ s = get_block_size(mem, b) /\ live[p] + 8 <= s /\ b \in Int
  <2>1. p - 4 \in blocks /\ live[p] + 8 <= get_block_size(mem, p - 4)
    BY <1>1, <1>3, LiveFacts
  <2>2. QED
    BY <1>1, <2>1, BlockFacts
<1>5. a \in Int /\ live[p] \in Nat /\ p \in Int
  BY <1>1, <1>3, WordsAreInt
<1>6. b + 4 <= a /\ a + 8 <= b + s
  BY <1>2, <1>4, <1>5
<1>7. /\ TiledIn(mem', blocks) /\ \A x \in blocks : mem'[x] = mem[x]
  <2>1. b + 4 <= a /\ a + 8 <= b + get_block_size(mem, b)
    BY <1>4, <1>6
  <2>2. mem' = [mem EXCEPT ![a] = w]
    BY <1>2
  <2>3. Stored(mem, blocks, [mem EXCEPT ![a] = w])
    BY <1>1, <2>1, Store
  <2>4. QED
    BY <2>2, <2>3 DEF Stored
<1>8. \A x \in blocks : /\ get_block_size(mem', x) = get_block_size(mem, x)
                        /\ block_is_in_use(mem', x) <=> block_is_in_use(mem, x)
  BY <1>7 DEF get_block_size, block_is_in_use
<1>9. MergedBut(mem', blocks, {})
  BY <1>1, <1>8 DEF MergedBut, get_next_block
<1>10. LiveIn(mem', blocks, live)
  <2>1. UsedIn(mem', blocks) = UsedIn(mem, blocks)
    BY <1>8 DEF UsedIn
  <2>2. \A q \in DOMAIN live : q - 4 \in blocks
    BY <1>1, <1>3, LiveFacts
  <2>3. QED
    BY <1>1, <1>8, <2>1, <2>2 DEF LiveIn
<1>11. ASSUME NEW q \in DOMAIN live \ {p}, NEW c \in Words, q <= c, c + 4 <= q + live[q]
       PROVE  mem'[c] = mem[c]
  <2>1. PICK x \in blocks, z \in Nat :
           x = q - 4 /\ z = get_block_size(mem, x) /\ live[q] + 8 <= z /\ x \in Int
    <3>1. q - 4 \in blocks /\ live[q] + 8 <= get_block_size(mem, q - 4)
      BY <1>1, <1>3, LiveFacts
    <3>2. QED
      BY <1>1, <3>1, BlockFacts
  <2>2. c \in Int /\ live[q] \in Nat /\ q \in Int
    BY <1>1, <1>3, WordsAreInt
  <2>3. x # b
    BY <1>4, <1>5, <2>1, <2>2
  <2>4. x + z <= b \/ b + s <= x
    BY <1>1, <1>4, <2>1, <2>3, Disjoint
  <2>5. c # a
    BY <1>4, <1>5, <1>6, <1>11, <2>1, <2>2, <2>4
  <2>6. QED
    BY <1>1, <1>2, <2>5 DEF Memories
<1>12. QED
  BY <1>7, <1>9, <1>10, <1>11 DEF IntactIn

LEMMA WriteInv ==
  ASSUME HeapInv, TypeInv', Intact, NEW p \in DOMAIN live, UserWrite(p), UNCHANGED search_alg
  PROVE  HeapInv' /\ Intact'
<1>1. TypeInv /\ pc = "idle" /\ UNCHANGED <<next, live, pc, locals, blocks>>
  BY DEF HeapInv, UserWrite
<1>2. Intact' /\ best_block' = NULL
  BY <1>1, WriteStep, IntactIsIntactIn DEF HeapInv, locals
<1>3. QED
  BY <1>1, <1>2 DEF HeapInv, NoNextFit

LEMMA NextInv ==
  ASSUME RequestsAreMultiples, HeapInv, [Next]_vars
  PROVE  HeapInv' /\ (Intact /\ next \in blocks => Intact')
<1>1. TypeInv'
  BY NextTypes DEF HeapInv
<1>2. CASE UNCHANGED vars
  <2>1. UNCHANGED <<mem, next, live, blocks, search_alg, pc, current, best_block, user_size>>
    BY <1>2 DEF vars, locals
  <2>2. (Intact <=> Intact') /\ FreeBlocks' = FreeBlocks
    BY <2>1, IntactIsIntactIn DEF FreeBlocks
  <2>3. QED
    BY <1>1, <2>1, <2>2 DEF HeapInv, NoNextFit
<1>3. CASE Next
  <2>1. UNCHANGED search_alg /\ Intact /\ start \in blocks
    BY <1>3, StepsFromIntact, IntactIsIntactIn DEF Next, IntactIn, TiledIn
  <2>2. CASE \E n \in Requests : Malloc(n)
    <3>1. PICK n \in Requests : Malloc(n)
      BY <2>2
    <3>2. Intact'
      BY <2>1, <3>1, IntactIsIntactIn DEF Malloc
    <3>3. QED
      BY <1>1, <2>1, <3>1, <3>2 DEF Malloc, HeapInv, NoNextFit
  <2>3. CASE Visit
    BY <1>1, <2>1, <2>3, VisitInv
  <2>4. CASE Exhaust
    BY <1>1, <2>1, <2>4, ExhaustInv
  <2>5. CASE Average
    <3>1. Intact' /\ best_block' = NULL
      BY <2>1, <2>5, IntactIsIntactIn DEF Average, HeapInv, locals
    <3>2. QED
      BY <1>1, <2>1, <2>5, <3>1 DEF Average, HeapInv, NoNextFit
  <2>6. CASE AverageVisit
    <3>1. UNCHANGED <<mem, next, live, blocks, pc, best_block, user_size>> /\ pc = "average"
      BY <2>6 DEF AverageVisit
    <3>2. Intact' /\ FreeBlocks' = FreeBlocks
      BY <2>1, <3>1, IntactIsIntactIn DEF FreeBlocks
    <3>3. QED
      BY <1>1, <2>1, <3>1, <3>2 DEF HeapInv, NoNextFit
  <2>7. CASE AverageReturns
    <3>1. CASE Return /\ UNCHANGED <<mem, next, live, blocks>>
      <4>1. Intact' /\ pc' = "idle" /\ best_block' = NULL
        BY <2>1, <3>1, IntactIsIntactIn DEF Return
      <4>2. QED
        BY <1>1, <2>1, <3>1, <4>1 DEF HeapInv, NoNextFit
    <3>2. CASE Fault
      <4>1. UNCHANGED <<mem, next, live, blocks, search_alg, current, best_block, user_size>>
            /\ pc' = "fault" /\ Intact'
        BY <2>1, <3>2, IntactIsIntactIn DEF Fault, locals
      <4>2. FreeBlocks' = FreeBlocks
        BY <4>1 DEF FreeBlocks
      <4>3. QED
        BY <1>1, <4>1, <4>2 DEF HeapInv, NoNextFit
    <3>3. QED
      BY <2>7, <3>1, <3>2 DEF AverageReturns
  <2>8. CASE \E p \in DOMAIN live : Free(p)
    BY <1>1, <2>1, <2>8, FreeInv
  <2>9. CASE \E p \in DOMAIN live : UserWrite(p)
    BY <1>1, <2>1, <2>9, WriteInv
  <2>10. QED
    BY <1>3, <2>2, <2>3, <2>4, <2>5, <2>6, <2>7, <2>8, <2>9 DEF Next
<1>4. QED
  BY <1>2, <1>3
-----------------------------------------------------------------------------
(* The theorems. *)

LEMMA InitInv ==
  ASSUME Init
  PROVE  HeapInv /\ Intact
<1>1. TypeInv /\ Intact
  BY InitState, IntactIsIntactIn
<1>2. QED
  BY <1>1 DEF Init, HeapInv, NoNextFit

\* The invariant holds, whatever the sizes of the region and of its blocks and
\* however the program calls and writes, if it asks for multiples of 8 bytes.
THEOREM HeapInvariant ==
  ASSUME RequestsAreMultiples
  PROVE  Spec => []HeapInv
<1>1. Init => HeapInv
  BY InitInv
<1>2. HeapInv /\ [Next]_vars => HeapInv'
  BY NextInv
<1>3. QED
  BY <1>1, <1>2, PTL DEF Spec

\* First and best fit keep headers, footers and the tiling of the region.
THEOREM BlocksStayWellFormed ==
  ASSUME RequestsAreMultiples
  PROVE  Spec => []WellFormed
<1>1. HeapInv => WellFormed
  BY DEF HeapInv, WellFormed, Intact
<1>2. QED
  BY <1>1, HeapInvariant, PTL

\* Under first and best fit no two neighbours are ever both free.
THEOREM FreeNeighboursMerge ==
  ASSUME RequestsAreMultiples
  PROVE  Spec => []NoFreeNeighbours
<1>1. HeapInv => NoFreeNeighbours
  BY DEF HeapInv, NoFreeNeighbours, Intact
<1>2. QED
  BY <1>1, HeapInvariant, PTL

\* Under first and best fit the blocks in use are those of the payloads the
\* program holds, each large enough.
THEOREM BlocksInUseAreLive ==
  ASSUME RequestsAreMultiples
  PROVE  Spec => []LiveBlocks
<1>1. HeapInv => LiveBlocks
  BY DEF HeapInv, LiveBlocks, Intact
<1>2. QED
  BY <1>1, HeapInvariant, PTL

\* Under every strategy a step that damages the blocks starts with h->next
\* pointing to none of them.
THEOREM DamageNeedsAStaleNext ==
  ASSUME RequestsAreMultiples
  PROVE  Spec => OnlyStaleNextBreaks
<1>1. HeapInv /\ [Next]_vars => [Intact /\ next \in blocks => Intact']_vars
  BY NextInv
<1>2. QED
  BY <1>1, HeapInvariant, PTL DEF Spec, OnlyStaleNextBreaks
-----------------------------------------------------------------------------
(* The heap implements Allocator while h->next is a block. *)

WordsAt(m, p, n) == [k \in 1 .. (n \div 4) |-> m[p + 4 * (k - 1)]]

LEMMA LenWordsAt ==
  ASSUME NEW m, NEW p, NEW n \in Nat
  PROVE  Len(WordsAt(m, p, n)) = n \div 4 /\ n \div 4 \in Nat /\ 4 * (n \div 4) <= n
<1>1. n \div 4 \in Nat /\ 4 * (n \div 4) <= n
  OBVIOUS
<1>2. Len(WordsAt(m, p, n)) = n \div 4
  BY <1>1 DEF WordsAt
<1>3. QED
  BY <1>1, <1>2

LEMMA ContentsIs ==
  /\ DOMAIN Contents = DOMAIN live
  /\ \A p \in DOMAIN live : Contents[p] = WordsAt(mem, p, live[p])
  /\ DOMAIN Contents' = DOMAIN live'
  /\ \A p \in DOMAIN live' : Contents'[p] = WordsAt(mem', p, live'[p])
BY Zenon DEF Contents, WordsAt

\* What the words of a payload depend on.
LEMMA SameWords ==
  ASSUME NEW m \in Memories, NEW m2, NEW B \in SUBSET Words, NEW L,
         TiledIn(m, B), LiveIn(m, B, L), DOMAIN L \subseteq Words,
         NEW p \in DOMAIN L, L[p] \in Nat,
         \A a \in Words : p <= a /\ a + 4 <= p + L[p] => m2[a] = m[a]
  PROVE  WordsAt(m2, p, L[p]) = WordsAt(m, p, L[p])
<1>1. PICK b \in B, s \in Nat :
         /\ b = p - 4 /\ b \in Int /\ s = get_block_size(m, b) /\ L[p] + 8 <= s
         /\ b + s <= end /\ start <= b /\ (b - start) % 4 = 0 /\ p \in Int
  <2>1. p \in Int
    BY WordsAreInt
  <2>2. p - 4 \in B /\ L[p] + 8 <= get_block_size(m, p - 4)
    BY <2>1, LiveFacts
  <2>3. QED
    BY <2>1, <2>2, BlockFacts, InWords
<1>2. PICK n \in Nat : n = L[p]
  OBVIOUS
<1>3. ASSUME NEW k \in 1 .. (n \div 4)
      PROVE  m2[p + 4 * (k - 1)] = m[p + 4 * (k - 1)]
  <2>1. PICK a \in Int : a = p + 4 * (k - 1)
    BY <1>1
  <2>2. k \in Nat /\ 1 <= k /\ 4 * k <= n
    BY <1>2
  <2>3. p = b + 4 /\ p \in Int
    BY <1>1
  <2>4. p <= a /\ a + 4 <= p + n
    BY <2>1, <2>2, <2>3
  <2>5. start - 4 <= a /\ a <= end - 4
    BY <1>1, <1>2, <2>3, <2>4, Region
  <2>6. (a - start) % 4 = 0
    BY <1>1, <2>1, <2>2, <2>3, Region
  <2>7. a \in Words
    BY <2>5, <2>6, InWords
  <2>8. QED
    BY <1>2, <2>1, <2>4, <2>7
<1>4. QED
  BY <1>2, <1>3 DEF WordsAt

LEMMA SameContents ==
  ASSUME TypeInv, Intact, SamePayloads(mem, mem', live),
         NEW p \in DOMAIN live, p \in DOMAIN live', live'[p] = live[p]
  PROVE  Contents'[p] = Contents[p]
<1>1. /\ mem \in Memories /\ blocks \in SUBSET Words
      /\ DOMAIN live \subseteq Words /\ live[p] \in Nat
      /\ TiledIn(mem, blocks) /\ LiveIn(mem, blocks, live)
  BY TypesOfState, IntactIsIntactIn DEF IntactIn
<1>2. WordsAt(mem', p, live[p]) = WordsAt(mem, p, live[p])
  BY <1>1, SameWords DEF SamePayloads
<1>3. QED
  BY <1>2, ContentsIs

\* A payload that heap_malloc returns is aligned, in the heap and apart from
\* those the program holds.
LEMMA TakeFits ==
  ASSUME TypeInv, TypeInv', IntactIn(mem', blocks', live'), blocks' \in SUBSET Words,
         NEW b \in blocks', NEW n \in Nat, live' = Held(live, b, n), b + 4 \notin DOMAIN live
  PROVE  Alloc!Fits(b + 4, n)
<1>1. /\ mem' \in Memories /\ DOMAIN live' \subseteq Words
      /\ DOMAIN live \subseteq Words /\ \A q \in DOMAIN live : live[q] \in Nat
      /\ TiledIn(mem', blocks') /\ LiveIn(mem', blocks', live')
  BY TypesOfState DEF IntactIn, TypeInv, TypeOK, Memories
<1>2. /\ DOMAIN live' = DOMAIN live \union {b + 4} /\ live'[b + 4] = n
      /\ \A q \in DOMAIN live : live'[q] = live[q]
  BY DEF Held
<1>3. b \in Int
  BY WordsAreInt
<1>4. PICK s \in Nat : s = get_block_size(mem', b) /\ n + 8 <= s /\ b + s <= end /\ start <= b
  <2>1. PICK p \in DOMAIN live' : p = b + 4 /\ p \in Int /\ p - 4 = b /\ live'[p] = n
    BY <1>2, <1>3
  <2>2. n + 8 <= get_block_size(mem', b)
    BY <1>1, <2>1, LiveFacts
  <2>3. QED
    BY <1>1, <2>2, BlockFacts, InWords
<1>5. (b + 4) % 8 = 0
  <2>1. b % 8 = 4
    BY <1>1, BlockAligned
  <2>2. QED
    BY <1>3, <2>1
<1>6. b + 4 >= start /\ b + 4 + n <= end
  BY <1>3, <1>4, Region
<1>7. ASSUME NEW q \in DOMAIN live
      PROVE  q # b + 4 /\ Alloc!Bytes(q) \cap ((b + 4) .. (b + 4 + n - 1)) = {}
  <2>1. q \in Int /\ live[q] \in Nat /\ q # b + 4
    BY <1>1, WordsAreInt
  <2>2. PICK x \in blocks', z \in Nat :
           x = q - 4 /\ x \in Int /\ z = get_block_size(mem', x) /\ live[q] + 8 <= z
    <3>1. q - 4 \in blocks' /\ live[q] + 8 <= get_block_size(mem', q - 4)
      BY <1>1, <1>2, <2>1, LiveFacts
    <3>2. QED
      BY <1>1, <3>1, BlockFacts
  <2>3. x + z <= b \/ b + s <= x
    BY <1>1, <1>3, <1>4, <2>1, <2>2, Disjoint
  <2>4. PICK l \in Nat : l = Len(Contents[q]) /\ 4 * l <= live[q]
    BY <2>1, LenWordsAt, ContentsIs
  <2>5. Alloc!Bytes(q) = q .. (q + 4 * l - 1)
    BY <2>4 DEF Alloc!Bytes
  <2>6. ASSUME NEW y \in q .. (q + 4 * l - 1), y \in (b + 4) .. (b + 4 + n - 1)
        PROVE  FALSE
    <3>1. PICK v \in Nat : v + 8 <= z /\ 4 * l <= v
      BY <2>1, <2>2, <2>4
    <3>2. y \in Int /\ q <= y /\ y <= q + 4 * l - 1
      BY <2>1
    <3>3. y < x + z /\ x <= y
      <4>1. q = x + 4
        BY <2>1, <2>2
      <4>2. QED
        BY <2>2, <3>1, <3>2, <4>1
    <3>4. b <= y /\ y < b + s
      <4>1. b + 4 <= y /\ y <= b + 4 + n - 1 /\ n + 8 <= s
        BY <1>3, <1>4, <2>6
      <4>2. QED
        BY <1>3, <3>2, <4>1
    <3>5. QED
      BY <1>3, <1>4, <2>2, <2>3, <3>2, <3>3, <3>4
  <2>7. QED
    BY <2>1, <2>5, <2>6
<1>8. QED
  BY <1>5, <1>6, <1>7, ContentsIs DEF Alloc!Fits
LEMMA TakeRefines ==
  ASSUME RequestsAreMultiples, TypeInv, TypeInv', Intact, pc = "search", NEW b \in FreeBlocks,
         Take(b), \A needed \in get_size_to_allocate(user_size) : get_block_size(mem, b) >= needed
  PROVE  Alloc!Next \/ UNCHANGED Contents
<1>1. CASE Fault
  BY <1>1 DEF Fault, Contents
<1>2. CASE /\ mem' \in Memories /\ blocks' \in SUBSET Words /\ b \in blocks'
           /\ IntactIn(mem', blocks', live')
           /\ live' = Held(live, b, user_size) /\ b + 4 \notin DOMAIN live
           /\ SamePayloads(mem, mem', live)
  <2>1. PICK n \in Nat : n = user_size /\ n \in Requests
    <3>1. user_size \in Requests
      BY DEF TypeInv
    <3>2. Requests \subseteq Nat
      BY HeapAssumption, Region
    <3>3. QED
      BY <3>1, <3>2
  <2>2. Alloc!Fits(b + 4, n)
    BY <1>2, <2>1, TakeFits
  <2>3. /\ DOMAIN live' = DOMAIN live \union {b + 4} /\ live'[b + 4] = n
        /\ \A q \in DOMAIN live : live'[q] = live[q] /\ q \in DOMAIN live'
    BY <1>2, <2>1 DEF Held
  <2>4. DOMAIN Contents' = DOMAIN Contents \union {b + 4}
    BY <2>3, ContentsIs
  <2>5. Len(Contents'[b + 4]) = n \div 4
    BY <2>3, LenWordsAt, ContentsIs
  <2>6. \A q \in DOMAIN Contents : Contents'[q] = Contents[q]
    BY <1>2, <2>3, SameContents, ContentsIs
  <2>7. b + 4 \in Words
    BY <2>3 DEF TypeInv, TypeOK
  <2>8. Alloc!Malloc(b + 4, n)
    BY <2>2, <2>4, <2>5, <2>6 DEF Alloc!Malloc
  <2>9. QED
    BY <2>1, <2>7, <2>8 DEF Alloc!Next
<1>3. QED
  BY <1>1, <1>2, TakeStep

LEMMA FreeRefines ==
  ASSUME TypeInv, Intact, NEW p \in DOMAIN live, Free(p)
  PROVE  Alloc!Next
<1>1. /\ live' = [q \in DOMAIN live \ {p} |-> live[q]]
      /\ mem' \in Memories /\ SamePayloads(mem, mem', live')
  BY FreeStep
<1>2. /\ mem \in Memories /\ blocks \in SUBSET Words
      /\ DOMAIN live \subseteq Words /\ \A q \in DOMAIN live : live[q] \in Nat
      /\ TiledIn(mem, blocks) /\ LiveIn(mem, blocks, live)
  BY TypesOfState, IntactIsIntactIn DEF IntactIn
<1>3. DOMAIN live' = DOMAIN live \ {p} /\ \A q \in DOMAIN live' : live'[q] = live[q]
  BY <1>1
<1>4. ASSUME NEW q \in DOMAIN live \ {p}
      PROVE  Contents'[q] = Contents[q]
  <2>1. q \in DOMAIN live' /\ live'[q] = live[q]
    BY <1>3
  <2>2. \A a \in Words : q <= a /\ a + 4 <= q + live[q] => mem'[a] = mem[a]
    BY <1>1, <2>1 DEF SamePayloads
  <2>3. WordsAt(mem', q, live[q]) = WordsAt(mem, q, live[q])
    BY <1>2, <2>2, SameWords
  <2>4. QED
    BY <2>1, <2>3, ContentsIs
<1>5. Contents' = [q \in DOMAIN Contents \ {p} |-> Contents[q]]
  <2>1. Contents' = [q \in DOMAIN live' |-> Contents'[q]]
    BY Zenon DEF Contents
  <2>2. DOMAIN live' = DOMAIN Contents \ {p}
    BY <1>3, ContentsIs
  <2>3. QED
    BY <1>4, <2>1, <2>2, ContentsIs
<1>6. Alloc!Free(p) /\ p \in Words
  BY <1>2, <1>5, ContentsIs DEF Alloc!Free
<1>7. QED
  BY <1>6 DEF Alloc!Next

LEMMA WriteRefines ==
  ASSUME TypeInv, Intact, NEW p \in DOMAIN live, UserWrite(p)
  PROVE  Alloc!Next
<1>1. /\ live' = live
      /\ \A q \in DOMAIN live \ {p} : \A a \in Words :
            q <= a /\ a + 4 <= q + live[q] => mem'[a] = mem[a]
  BY WriteStep DEF UserWrite
<1>2. /\ mem \in Memories /\ blocks \in SUBSET Words
      /\ DOMAIN live \subseteq Words /\ \A q \in DOMAIN live : live[q] \in Nat
      /\ TiledIn(mem, blocks) /\ LiveIn(mem, blocks, live)
  BY TypesOfState, IntactIsIntactIn DEF IntactIn
<1>3. DOMAIN Contents' = DOMAIN Contents /\ DOMAIN Contents = DOMAIN live
  BY <1>1, ContentsIs
<1>4. Len(Contents'[p]) = Len(Contents[p])
  BY <1>1, <1>2, LenWordsAt, ContentsIs
<1>5. ASSUME NEW q \in DOMAIN Contents \ {p}
      PROVE  Contents'[q] = Contents[q]
  <2>1. q \in DOMAIN live
    BY <1>3
  <2>2. WordsAt(mem', q, live[q]) = WordsAt(mem, q, live[q])
    BY <1>1, <1>2, <2>1, SameWords
  <2>3. QED
    BY <1>1, <2>1, <2>2, ContentsIs
<1>6. Alloc!Write(p) /\ p \in Words
  BY <1>2, <1>3, <1>4, <1>5 DEF Alloc!Write
<1>7. QED
  BY <1>6 DEF Alloc!Next

LEMMA StepRefines ==
  ASSUME RequestsAreMultiples, HeapInv, HeapInv', Next, next \in blocks
  PROVE  Alloc!Next \/ UNCHANGED Contents
<1>1. TypeInv /\ TypeInv' /\ Intact
  BY StepsFromIntact DEF HeapInv
<1>2. UNCHANGED <<mem, live>> => UNCHANGED Contents
  BY DEF Contents
<1>3. CASE Visit
  <2>1. CASE UNCHANGED <<mem, live>>
    BY <1>2, <2>1
  <2>2. CASE /\ current \in Words /\ ~ block_is_in_use(mem, current)
             /\ Take(current)
             /\ \E needed \in get_size_to_allocate(user_size) :
                   get_block_size(mem, current) >= needed
    <3>1. pc = "search" /\ current \in blocks
      BY <1>1, <1>3, Region DEF Visit, HeapInv, is_within_heap_range
    <3>2. current \in FreeBlocks
      BY <2>2, <3>1 DEF FreeBlocks
    <3>3. \A needed \in get_size_to_allocate(user_size) : get_block_size(mem, current) >= needed
      BY <1>1, <2>2, <3>1, OneSize
    <3>4. QED
      BY <1>1, <2>2, <3>1, <3>2, <3>3, TakeRefines
  <2>3. current \in Words
    BY <1>1, <1>3, TypesOfState DEF Visit
  <2>4. \/ UNCHANGED <<mem, live>>
        \/ /\ ~ block_is_in_use(mem, current) /\ Take(current)
           /\ \E needed \in get_size_to_allocate(user_size) :
                 HasRoom(get_block_size(mem, current), needed)
    BY <1>3, Zenon DEF Visit
  <2>5. QED
    BY <2>1, <2>2, <2>3, <2>4 DEF HasRoom
<1>4. CASE Exhaust
  <2>1. pc = "search"
    BY <1>4 DEF Exhaust
  <2>2. CASE best_block # NULL /\ Take(best_block)
    BY <1>1, <2>1, <2>2, TakeRefines DEF HeapInv
  <2>3. CASE UNCHANGED <<mem, live>>
    BY <1>2, <2>3
  <2>4. QED
    BY <1>4, <2>2, <2>3 DEF Exhaust
<1>5. CASE \E p \in DOMAIN live : Free(p)
  BY <1>1, <1>5, FreeRefines
<1>6. CASE \E p \in DOMAIN live : UserWrite(p)
  BY <1>1, <1>6, WriteRefines
<1>7. CASE (\E n \in Requests : Malloc(n)) \/ Average \/ AverageVisit \/ AverageReturns
  BY <1>2, <1>7 DEF Malloc, Average, AverageVisit, AverageReturns, Fault
<1>8. QED
  BY <1>3, <1>4, <1>5, <1>6, <1>7 DEF Next

\* Until h->next points to no block, implicit.c steps like Allocator: a payload
\* is new, aligned and apart from the others, and only its owner changes it.
THEOREM HeapImplementsAllocator ==
  ASSUME RequestsAreMultiples
  PROVE  Spec => ImplementsAllocator
<1>1. Init => Alloc!Init
  BY DEF Init, Alloc!Init, Contents
<1>2. HeapInv /\ HeapInv' /\ [Next]_vars => [Intact /\ next \in blocks => Alloc!Next]_Contents
  <2>1. SUFFICES ASSUME HeapInv, HeapInv', [Next]_vars, next \in blocks
                 PROVE  Alloc!Next \/ UNCHANGED Contents
    OBVIOUS
  <2>2. CASE Next
    BY <2>1, <2>2, StepRefines
  <2>3. CASE UNCHANGED vars
    BY <2>3 DEF vars, Contents
  <2>4. QED
    BY <2>1, <2>2, <2>3
<1>3. QED
  BY <1>1, <1>2, HeapInvariant, PTL DEF Spec, ImplementsAllocator

-----------------------------------------------------------------------------
(* What the searches find. *)

\* What a search has learned: no candidate lies among the blocks it has seen,
\* or best fit remembers the smallest of them and by how much it is too large.
SearchInv ==
    pc = "search" /\ next \in blocks =>
        /\ search_alg = "FIRSTFIT" => \A c \in Candidates : current <= c
        /\ search_alg = "NEXTFIT" /\ pass = 1 =>
              next <= current /\ \A c \in Candidates : c < next \/ current <= c
        /\ search_alg = "NEXTFIT" /\ pass = 2 =>
              \A c \in Candidates : c < next /\ current <= c
        /\ search_alg = "BESTFIT" /\ best_block = NULL =>
              smallest_difference = size /\ \A c \in Candidates : current <= c
        /\ search_alg = "BESTFIT" /\ best_block # NULL =>
              LET s == get_block_size(mem, best_block)
              IN  /\ \A needed \in get_size_to_allocate(user_size) :
                        smallest_difference = s - needed
                  /\ \A c \in Candidates : current <= c \/ s <= get_block_size(mem, c)

\* A candidate passes the test of the search, whose sum does not wrap for it.
LEMMA CandidateFits ==
  ASSUME RequestsAreMultiples, TypeInv, Intact, pc = "search", NEW c \in Candidates,
         NEW needed \in get_size_to_allocate(user_size)
  PROVE  /\ c \in blocks /\ ~ block_is_in_use(mem, c) /\ get_block_size(mem, c) >= needed
         /\ needed = user_size + 8
<1>1. /\ mem \in Memories /\ blocks \in SUBSET Words /\ TiledIn(mem, blocks)
      /\ user_size \in 0 .. (WordMod - 1) /\ user_size % 8 = 0
  BY TypesOfState, IntactIsIntactIn, HeapAssumption
     DEF IntactIn, TypeInv, RequestsAreMultiples
<1>2. c \in blocks /\ ~ block_is_in_use(mem, c) /\ get_block_size(mem, c) >= user_size + 8
  BY DEF Candidates, FreeBlocks, HEADER_SIZE
<1>3. get_block_size(mem, c) \in Nat /\ get_block_size(mem, c) < WordMod
  BY <1>1, <1>2, BlockFacts
<1>4. user_size + 8 < WordMod
  BY <1>1, <1>2, <1>3, Region
<1>5. needed = Wrap(user_size + 8)
  BY <1>1 DEF get_size_to_allocate, HEADER_SIZE
<1>6. needed = user_size + 8
  BY <1>1, <1>4, <1>5, Region DEF Wrap
<1>7. QED
  BY <1>2, <1>6

\* A block that a search takes, if all goes well, is a candidate, and its
\* payload is what the program gets.
LEMMA TakePlaces ==
  ASSUME RequestsAreMultiples, TypeInv, Intact, pc = "search", NEW b \in FreeBlocks, Take(b),
         \A needed \in get_size_to_allocate(user_size) : get_block_size(mem, b) >= needed,
         pc' = "idle"
  PROVE  b \in Candidates /\ DOMAIN live' = DOMAIN live \union {b + HEADER_SIZE}
<1>1. ~ Fault
  BY DEF Fault
<1>2. user_size + 8 <= get_block_size(mem, b) /\ live' = Held(live, b, user_size)
  BY <1>1, TakeStep
<1>3. mem \in Memories /\ b \in Words /\ get_block_size(mem, b) \in Int /\ user_size \in Int
  <2>1. mem \in Memories /\ b \in Words
    BY TypesOfState DEF FreeBlocks
  <2>2. user_size \in 0 .. (WordMod - 1) /\ WordMod \in Nat
    BY HeapAssumption, Region DEF TypeInv
  <2>3. QED
    BY <2>1, <2>2, HeaderWord, Region
<1>4. QED
  BY <1>2, <1>3 DEF Candidates, Held, HEADER_SIZE

\* Nothing a search looks at changes while it runs.
LEMMA SearchGoesOn ==
  ASSUME UNCHANGED <<mem, next, live, pc, user_size, blocks, search_alg>>
  PROVE  /\ FreeBlocks' = FreeBlocks /\ Candidates' = Candidates
         /\ \A b : get_block_size(mem, b)' = get_block_size(mem, b)
BY DEF FreeBlocks, Candidates

\* A search begins with all candidates before it.
LEMMA MallocSearch ==
  ASSUME HeapInv, Intact, NEW n \in Requests, Malloc(n), UNCHANGED search_alg
  PROVE  SearchInv'
<1>1. /\ mem' \in Memories /\ blocks' \in SUBSET Words /\ TiledIn(mem', blocks')
      /\ pc' = "search" /\ pass' = 1 /\ best_block' = NULL /\ smallest_difference' = size
      /\ next' = next /\ current' = IF search_alg' = "NEXTFIT" THEN next' ELSE start
  BY TypesOfState, IntactIsIntactIn DEF HeapInv, IntactIn, Malloc
<1>2. Candidates' \subseteq blocks'
  BY DEF Candidates, FreeBlocks
<1>3. \A c \in Candidates' : c \in Int /\ start <= c
  BY <1>1, <1>2, BlockFacts
<1>4. next \in Int
  BY WordsAreInt DEF HeapInv, TypeInv, TypeOK
<1>5. QED
  BY <1>1, <1>3, <1>4, Region DEF SearchInv

\* Where a search is, and where it goes.
LEMMA VisitMoves ==
  ASSUME RequestsAreMultiples, HeapInv, Intact, Visit, next \in blocks
  PROVE  /\ current \in blocks /\ current \in Int /\ get_block_size(mem, current) \in Nat
         /\ \A c \in blocks : c \in Int /\ (current < c => get_next_block(mem, current) <= c)
<1>1. /\ TypeInv /\ pc = "search" /\ is_within_heap_range(current)
      /\ mem \in Memories /\ blocks \in SUBSET Words /\ TiledIn(mem, blocks)
  BY TypesOfState, IntactIsIntactIn DEF HeapInv, Visit, IntactIn
<1>2. current \in blocks
  BY <1>1, Region DEF HeapInv, is_within_heap_range
<1>3. /\ \A c \in blocks : c \in Int
      /\ get_block_size(mem, current) \in Nat
  BY <1>1, <1>2, BlockFacts
<1>4. \A c \in blocks : c <= current \/ c >= current + get_block_size(mem, current)
  BY <1>1, <1>2 DEF TiledIn
<1>5. QED
  BY <1>2, <1>3, <1>4 DEF get_next_block

\* A turn of a search takes the block, or goes on from it and perhaps
\* remembers it.
VisitTakes(s, needed) ==
    /\ ~ block_is_in_use(mem, current) /\ s >= needed /\ search_alg # "BESTFIT"
    /\ Take(current)

VisitPasses(s, needed) ==
    /\ block_is_in_use(mem, current) \/ s < needed \/ search_alg = "BESTFIT"
    /\ current' = get_next_block(mem, current)
    /\ IF ~ block_is_in_use(mem, current) /\ s >= needed /\ s - needed <= smallest_difference
       THEN best_block' = current /\ smallest_difference' = s - needed
       ELSE best_block' = best_block /\ smallest_difference' = smallest_difference
    /\ UNCHANGED <<mem, next, live, pc, user_size, pass, blocks, averages>>

LEMMA VisitCases ==
  ASSUME TypeInv, Visit
  PROVE  \E needed \in get_size_to_allocate(user_size) :
            \/ VisitTakes(get_block_size(mem, current), needed)
            \/ VisitPasses(get_block_size(mem, current), needed)
<1>1. pc = "search" /\ user_size \in Requests /\ mem \in Memories /\ current \in Words
  BY TypesOfState DEF Visit, TypeInv
<1>2. PICK needed \in get_size_to_allocate(user_size) :
         LET s == get_block_size(mem, current)
             fits == ~block_is_in_use(mem, current) /\ HasRoom(s, needed)
         IN  \/ fits /\ search_alg # "BESTFIT" /\ Take(current)
             \/ /\ ~(fits /\ search_alg # "BESTFIT")
                /\ current' = get_next_block(mem, current)
                /\ IF fits /\ s - needed <= smallest_difference
                   THEN /\ best_block' = current
                        /\ smallest_difference' = s - needed
                   ELSE UNCHANGED <<best_block, smallest_difference>>
                /\ UNCHANGED <<mem, next, live, pc, user_size, pass, blocks, averages>>
  BY Zenon DEF Visit
<1>3. PICK s \in Int : s = get_block_size(mem, current)
  BY <1>1, HeaderWord, Region
<1>4. needed \in Int
  BY <1>1, SizeToAllocate, Region
<1>5. s >= needed <=> ~ (s < needed)
  BY <1>3, <1>4
<1>6. VisitTakes(s, needed) \/ VisitPasses(s, needed)
  BY <1>2, <1>3, <1>5, Zenon DEF HasRoom, VisitTakes, VisitPasses
<1>7. QED
  BY <1>3, <1>6

LEMMA VisitSearch ==
  ASSUME RequestsAreMultiples, HeapInv, SearchInv, Intact, Visit, UNCHANGED search_alg
  PROVE  SearchInv'
<1>1. pc = "search" /\ TypeInv
  BY DEF HeapInv, Visit
<1>2. PICK needed \in get_size_to_allocate(user_size) :
         \/ VisitTakes(get_block_size(mem, current), needed)
         \/ VisitPasses(get_block_size(mem, current), needed)
  BY <1>1, VisitCases
<1>3. CASE VisitTakes(get_block_size(mem, current), needed)
  <2>1. pc' \in {"idle", "fault"}
    BY <1>3, Zenon DEF VisitTakes, Take, Return, Fault
  <2>2. QED
    BY <2>1 DEF SearchInv
<1>4. CASE VisitPasses(get_block_size(mem, current), needed)
  <2>1. SUFFICES ASSUME next \in blocks PROVE SearchInv'
    BY <1>4 DEF SearchInv, VisitPasses
  <2>2. PICK s \in Nat : s = get_block_size(mem, current)
    BY <2>1, VisitMoves
  <2>3. /\ current \in blocks /\ current \in Int
        /\ \A c \in blocks : c \in Int /\ (current < c => get_next_block(mem, current) <= c)
        /\ current' = get_next_block(mem, current) /\ current' = current + s /\ s >= 8
    <3>1. s >= 8
      BY <2>1, <2>2, VisitMoves, TypesOfState, IntactIsIntactIn, BlockFacts, <1>1 DEF IntactIn
    <3>2. QED
      BY <1>4, <2>1, <2>2, <3>1, VisitMoves DEF VisitPasses, get_next_block
  <2>4. /\ Candidates' = Candidates /\ Candidates \subseteq blocks
        /\ UNCHANGED <<mem, next, live, pc, user_size, pass, blocks, search_alg>>
        /\ \A b : get_block_size(mem', b) = get_block_size(mem, b)
    BY <1>4, SearchGoesOn DEF VisitPasses, Candidates, FreeBlocks
  <2>5. current \in Candidates => ~ block_is_in_use(mem, current) /\ s >= needed
    BY <1>1, <2>2, CandidateFits
  <2>6. needed \in Int
    BY <1>1, SizeToAllocate, Region DEF TypeInv
  <2>7. \A c \in Candidates : current <= c /\ c # current => current' <= c
    BY <2>3, <2>4
  <2>8. CASE search_alg # "BESTFIT"
    <3>1. current \notin Candidates
      BY <1>4, <2>2, <2>5, <2>6, <2>8 DEF VisitPasses
    <3>2. \A c \in Candidates : current <= c => current' <= c
      BY <2>7, <3>1
    <3>3. next \in Int
      BY <2>1, <2>3
    <3>4. QED
      BY <1>1, <2>1, <2>3, <2>4, <2>8, <3>2, <3>3 DEF SearchInv
  <2>9. CASE search_alg = "BESTFIT"
    <3>1. \A x \in get_size_to_allocate(user_size) : x = needed
      BY <1>1, OneSize
    <3>2. s <= size /\ start <= current /\ current # NULL
      <4>1. start <= current /\ current + s <= end
        BY <1>1, <2>2, <2>3, TypesOfState, IntactIsIntactIn, BlockFacts DEF IntactIn
      <4>2. QED
        BY <2>3, <4>1, Region DEF NULL
    <3>3. needed >= 0
      BY <1>1, SizeToAllocate, Region DEF TypeInv
    <3>4. ASSUME NEW c \in Candidates
          PROVE  get_block_size(mem, c) \in Int
      BY <1>1, <2>4, TypesOfState, IntactIsIntactIn, BlockFacts DEF IntactIn
    <3>5. CASE best_block = NULL
      <4>1. smallest_difference = size /\ \A c \in Candidates : current <= c
        BY <1>1, <2>1, <2>9, <3>5 DEF SearchInv
      <4>2. CASE ~ block_is_in_use(mem, current) /\ s >= needed
        <5>1. s - needed <= smallest_difference
          BY <2>6, <3>2, <3>3, <4>1, Region
        <5>2. best_block' = current /\ smallest_difference' = s - needed
          BY <1>4, <2>2, <4>2, <5>1 DEF VisitPasses
        <5>3. \A c \in Candidates : current' <= c \/ s <= get_block_size(mem, c)
          BY <2>2, <2>7, <3>4, <4>1
        <5>4. QED
          BY <2>2, <2>4, <2>9, <3>1, <3>2, <5>2, <5>3 DEF SearchInv
      <4>3. CASE block_is_in_use(mem, current) \/ s < needed
        <5>1. UNCHANGED <<best_block, smallest_difference>> /\ current \notin Candidates
          BY <1>4, <2>2, <2>5, <2>6, <4>3 DEF VisitPasses
        <5>2. \A c \in Candidates : current' <= c
          BY <2>7, <4>1, <5>1
        <5>3. QED
          BY <2>4, <2>9, <3>5, <4>1, <5>1, <5>2 DEF SearchInv
      <4>4. QED
        BY <2>6, <4>2, <4>3
    <3>6. CASE best_block # NULL
      <4>1. PICK z \in Int : z = get_block_size(mem, best_block)
        <5>1. best_block \in blocks
          BY <3>6 DEF HeapInv, FreeBlocks
        <5>2. QED
          BY <1>1, <5>1, TypesOfState, IntactIsIntactIn, BlockFacts DEF IntactIn
      <4>2. /\ smallest_difference = z - needed
            /\ \A c \in Candidates : current <= c \/ z <= get_block_size(mem, c)
        BY <1>1, <2>1, <2>9, <3>6, <4>1 DEF SearchInv
      <4>3. CASE ~ block_is_in_use(mem, current) /\ s >= needed /\ s <= z
        <5>1. s - needed <= smallest_difference
          BY <2>6, <4>2, <4>3
        <5>2. best_block' = current /\ smallest_difference' = s - needed
          BY <1>4, <2>2, <4>3, <5>1 DEF VisitPasses
        <5>3. \A c \in Candidates : current' <= c \/ s <= get_block_size(mem, c)
          BY <2>2, <2>7, <3>4, <4>2, <4>3
        <5>4. QED
          BY <2>2, <2>4, <2>9, <3>1, <3>2, <5>2, <5>3 DEF SearchInv
      <4>4. CASE block_is_in_use(mem, current) \/ s < needed \/ z < s
        <5>1. UNCHANGED <<best_block, smallest_difference>>
          <6>1. ~ (~ block_is_in_use(mem, current) /\ s >= needed
                   /\ s - needed <= smallest_difference)
            BY <2>6, <4>2, <4>4
          <6>2. QED
            BY <1>4, <2>2, <6>1 DEF VisitPasses
        <5>2. \A c \in Candidates : current' <= c \/ z <= get_block_size(mem, c)
          BY <2>2, <2>5, <2>6, <2>7, <3>4, <4>2, <4>4
        <5>3. QED
          BY <2>4, <2>9, <3>1, <3>6, <4>1, <4>2, <5>1, <5>2 DEF SearchInv
      <4>5. QED
        BY <2>6, <4>1, <4>3, <4>4
    <3>7. QED
      BY <3>5, <3>6
  <2>10. QED
    BY <2>8, <2>9
<1>5. QED
  BY <1>2, <1>3, <1>4

\* Once a search has left the heap, it is over but for next fit's first turn.
LEMMA SearchEnds ==
  ASSUME RequestsAreMultiples, HeapInv, SearchInv, Intact, Exhaust, next \in blocks
  PROVE  /\ current = end
         /\ \A c \in Candidates : c \in Int /\ start <= c /\ c < end
<1>1. /\ TypeInv /\ pc = "search" /\ ~ is_within_heap_range(current)
      /\ mem \in Memories /\ blocks \in SUBSET Words /\ TiledIn(mem, blocks)
  BY TypesOfState, IntactIsIntactIn DEF HeapInv, Exhaust, IntactIn
<1>2. \A c \in blocks : c \in Int /\ start <= c /\ c < end
  BY <1>1, BlockFacts, Region
<1>3. current \in blocks \union {end}
  BY <1>1 DEF HeapInv
<1>4. current = end
  BY <1>1, <1>2, <1>3 DEF is_within_heap_range
<1>5. Candidates \subseteq blocks
  BY DEF Candidates, FreeBlocks
<1>6. QED
  BY <1>2, <1>4, <1>5

LEMMA ExhaustSearch ==
  ASSUME RequestsAreMultiples, HeapInv, SearchInv, Intact, Exhaust, UNCHANGED search_alg
  PROVE  SearchInv'
<1>1. pc = "search" /\ TypeInv
  BY DEF HeapInv, Exhaust
<1>2. CASE /\ search_alg = "NEXTFIT" /\ pass = 1
           /\ pass' = 2 /\ current' = start
           /\ UNCHANGED <<mem, next, live, pc, user_size, best_block,
                          smallest_difference, blocks, averages>>
  <2>1. SUFFICES ASSUME next \in blocks PROVE SearchInv'
    BY <1>2 DEF SearchInv
  <2>2. current = end /\ \A c \in Candidates : c \in Int /\ start <= c /\ c < end
    BY <2>1, SearchEnds
  <2>3. \A c \in Candidates : c < next
    BY <1>1, <1>2, <2>1, <2>2, Region DEF SearchInv
  <2>4. Candidates' = Candidates
    BY <1>2, SearchGoesOn
  <2>5. QED
    BY <1>2, <2>2, <2>3, <2>4 DEF SearchInv
<1>3. CASE best_block # NULL /\ Take(best_block)
  <2>1. pc' \in {"idle", "fault"}
    BY <1>3, Zenon DEF Take, Return, Fault
  <2>2. QED
    BY <2>1 DEF SearchInv
<1>4. CASE Return
  BY <1>4 DEF SearchInv, Return
<1>5. QED
  BY <1>2, <1>3, <1>4 DEF Exhaust

LEMMA NextSearch ==
  ASSUME RequestsAreMultiples, HeapInv, SearchInv, [Next]_vars
  PROVE  SearchInv'
<1>1. CASE UNCHANGED vars
  <2>1. UNCHANGED <<mem, next, live, pc, user_size, blocks, search_alg, current, pass,
                    best_block, smallest_difference>>
    BY <1>1 DEF vars, locals
  <2>2. Candidates' = Candidates
    BY <2>1, SearchGoesOn
  <2>3. QED
    BY <2>1, <2>2 DEF SearchInv
<1>2. CASE Next
  <2>1. UNCHANGED search_alg /\ Intact
    BY <1>2, StepsFromIntact DEF Next
  <2>2. CASE \E n \in Requests : Malloc(n)
    BY <2>1, <2>2, MallocSearch
  <2>3. CASE Visit
    BY <2>1, <2>3, VisitSearch
  <2>4. CASE Exhaust
    BY <2>1, <2>4, ExhaustSearch
  <2>5. CASE Average \/ AverageVisit \/ AverageReturns
    BY <2>5 DEF SearchInv, Average, AverageVisit, AverageReturns, Return, Fault
  <2>6. CASE \E p \in DOMAIN live : Free(p) \/ UserWrite(p)
    <3>1. pc' # "search"
      BY <2>6, Zenon DEF Free, UserWrite, Fault
    <3>2. QED
      BY <3>1 DEF SearchInv
  <2>7. QED
    BY <1>2, <2>2, <2>3, <2>4, <2>5, <2>6 DEF Next
<1>3. QED
  BY <1>1, <1>2

\* A block taken is where its strategy wants it.
LEMMA VisitPlaces ==
  ASSUME RequestsAreMultiples, HeapInv, SearchInv, Intact, Visit, next \in blocks, pc' = "idle"
  PROVE  \E b \in blocks :
            DOMAIN live' = DOMAIN live \union {b + HEADER_SIZE} /\ Preferred(b)
<1>1. pc = "search" /\ TypeInv
  BY DEF HeapInv, Visit
<1>2. PICK needed \in get_size_to_allocate(user_size) :
         VisitTakes(get_block_size(mem, current), needed)
  BY <1>1, VisitCases DEF VisitPasses
<1>3. /\ current \in blocks /\ current \in Int /\ current \in FreeBlocks
      /\ \A x \in get_size_to_allocate(user_size) : get_block_size(mem, current) >= x
  <2>1. \A x \in get_size_to_allocate(user_size) : x = needed
    BY <1>1, OneSize
  <2>2. QED
    BY <1>2, <2>1, VisitMoves DEF VisitTakes, FreeBlocks
<1>4. current \in Candidates /\ DOMAIN live' = DOMAIN live \union {current + HEADER_SIZE}
  BY <1>1, <1>2, <1>3, TakePlaces DEF VisitTakes
<1>5. /\ mem \in Memories /\ blocks \in SUBSET Words /\ TiledIn(mem, blocks)
      /\ Candidates \subseteq blocks
  BY <1>1, TypesOfState, IntactIsIntactIn DEF IntactIn, Candidates, FreeBlocks
<1>6. \A c \in blocks : c \in Int /\ start <= c /\ c < end
  BY <1>5, BlockFacts, Region
<1>7. search_alg \in {"FIRSTFIT", "NEXTFIT"} /\ pass \in {1, 2}
  BY <1>1, <1>2, HeapAssumption DEF VisitTakes, TypeInv, TypeOK
<1>8. CASE search_alg = "FIRSTFIT"
  BY <1>1, <1>3, <1>4, <1>8 DEF SearchInv, Preferred
<1>9. CASE search_alg = "NEXTFIT"
  <2>1. \A c \in Candidates : NextOf(current) <= NextOf(c)
    <3>1. SUFFICES ASSUME NEW c \in Candidates PROVE NextOf(current) <= NextOf(c)
      OBVIOUS
    <3>2. next \in Int /\ c \in Int /\ start <= c /\ c < end /\ start <= current /\ current < end
      BY <1>3, <1>5, <1>6
    <3>3. CASE pass = 1
      <4>1. next <= current /\ (c < next \/ current <= c)
        BY <1>1, <1>9, <3>3 DEF SearchInv
      <4>2. QED
        BY <1>3, <3>2, <4>1, Region DEF NextOf
    <3>4. CASE pass = 2
      <4>1. c < next /\ current <= c
        BY <1>1, <1>9, <3>4 DEF SearchInv
      <4>2. QED
        BY <1>3, <3>2, <4>1, Region DEF NextOf
    <3>5. QED
      BY <1>7, <3>3, <3>4
  <2>2. QED
    BY <1>3, <1>4, <1>9, <2>1 DEF Preferred
<1>10. QED
  BY <1>7, <1>8, <1>9

LEMMA ExhaustPlaces ==
  ASSUME RequestsAreMultiples, HeapInv, SearchInv, Intact, Exhaust, next \in blocks, pc' = "idle"
  PROVE  \/ \E b \in blocks :
               DOMAIN live' = DOMAIN live \union {b + HEADER_SIZE} /\ Preferred(b)
         \/ live' = live /\ Candidates = {}
<1>1. pc = "search" /\ TypeInv
  BY DEF HeapInv, Exhaust
<1>2. current = end /\ end \in Int /\ \A c \in Candidates : c \in Int /\ c < end
  BY SearchEnds, Region
<1>3. CASE best_block # NULL /\ Take(best_block)
  <2>1. /\ search_alg = "BESTFIT" /\ best_block \in FreeBlocks /\ best_block \in blocks
        /\ \A x \in get_size_to_allocate(user_size) : get_block_size(mem, best_block) >= x
    BY <1>3 DEF HeapInv, FreeBlocks
  <2>2. best_block \in Candidates
        /\ DOMAIN live' = DOMAIN live \union {best_block + HEADER_SIZE}
    BY <1>1, <1>3, <2>1, TakePlaces
  <2>3. \A c \in Candidates : get_block_size(mem, best_block) <= get_block_size(mem, c)
    BY <1>1, <1>2, <1>3, <2>1 DEF SearchInv
  <2>4. QED
    BY <2>1, <2>2, <2>3 DEF Preferred
<1>4. CASE ~(search_alg = "NEXTFIT" /\ pass = 1) /\ best_block = NULL /\ live' = live
  <2>1. search_alg \in {"FIRSTFIT", "NEXTFIT", "BESTFIT"} /\ pass \in {1, 2}
    BY <1>1, HeapAssumption DEF TypeInv, TypeOK
  <2>2. Candidates = {}
    BY <1>1, <1>2, <1>4, <2>1 DEF SearchInv
  <2>3. QED
    BY <1>4, <2>2
<1>5. QED
  BY <1>1, <1>3, <1>4 DEF Exhaust

\* First fit takes the first free block that is large enough, next fit the
\* next one, best fit a smallest one, and NULL is returned only if there is
\* none, for heaps of every size.
THEOREM MallocTakesThePreferred ==
  ASSUME RequestsAreMultiples
  PROVE  Spec => MallocPlaces
<1>1. Init => HeapInv /\ SearchInv
  BY InitInv DEF Init, SearchInv
<1>2. HeapInv /\ SearchInv /\ [Next]_vars => HeapInv' /\ SearchInv'
  BY NextInv, NextSearch
<1>3. HeapInv /\ SearchInv /\ [Next]_vars =>
         [pc = "search" /\ pc' = "idle" /\ Intact /\ next \in blocks =>
            \/ \E b \in blocks :
                  DOMAIN live' = DOMAIN live \union {b + HEADER_SIZE} /\ Preferred(b)
            \/ live' = live /\ Candidates = {}]_vars
  <2>1. SUFFICES ASSUME HeapInv, SearchInv, Next, pc = "search", pc' = "idle", Intact,
                        next \in blocks
                 PROVE  \/ \E b \in blocks :
                              DOMAIN live' = DOMAIN live \union {b + HEADER_SIZE} /\ Preferred(b)
                        \/ live' = live /\ Candidates = {}
    OBVIOUS
  <2>2. Visit \/ Exhaust
    BY <2>1 DEF Next, Malloc, Average, AverageVisit, AverageReturns, Free, UserWrite
  <2>3. QED
    BY <2>1, <2>2, VisitPlaces, ExhaustPlaces
<1>4. QED
  BY <1>1, <1>2, <1>3, PTL DEF Spec, MallocPlaces

-----------------------------------------------------------------------------
(* The average of the free blocks. *)

Counted == {b \in FreeBlocks : b < current}
SizesOfFree == [b \in FreeBlocks |-> get_block_size(mem, b)]

\* The locals of heap_find_avg_free_block_size: what has been counted are the
\* free blocks before the one it is at.
AverageInv ==
    /\ pc = "average" =>
          /\ current \in blocks \union {end}
          /\ num_of_block = Cardinality(Counted)
          /\ free_size = SumFunctionOnSet(SizesOfFree, Counted)
    /\ pc = "idle" => current = start
    /\ pc \in {"idle", "search"} => num_of_block = 0 /\ free_size = 0

LEMMA WordsAreFinite == IsFiniteSet(Words)
<1>1. start \in Int /\ end \in Int
  BY Region
<1>2. IsFiniteSet((start - 4) .. end)
  BY <1>1, FS_Interval
<1>3. Words \subseteq (start - 4) .. end
  BY <1>1, WordsAreInt, InWords
<1>4. QED
  BY <1>2, <1>3, FS_Subset

\* The free blocks of an intact heap can be counted and their sizes summed.
LEMMA FreeBlocksAreFinite ==
  ASSUME TypeInv, Intact
  PROVE  /\ IsFiniteSet(FreeBlocks) /\ FreeBlocks \subseteq blocks
         /\ \A S \in SUBSET FreeBlocks : IsFiniteSet(S) /\ IntegersOn(SizesOfFree, S)
<1>1. mem \in Memories /\ blocks \in SUBSET Words /\ TiledIn(mem, blocks)
  BY TypesOfState, IntactIsIntactIn DEF IntactIn
<1>2. FreeBlocks \subseteq blocks /\ IsFiniteSet(FreeBlocks)
  BY <1>1, WordsAreFinite, FS_Subset DEF FreeBlocks
<1>3. \A b \in FreeBlocks : get_block_size(mem, b) \in Int
  BY <1>1, <1>2, BlockFacts
<1>4. QED
  BY <1>2, <1>3, FS_Subset DEF IntegersOn, SizesOfFree

LEMMA AverageVisitKeeps ==
  ASSUME HeapInv, AverageInv, Intact, AverageVisit, UNCHANGED search_alg
  PROVE  AverageInv'
<1>1. /\ pc = "average" /\ is_within_heap_range(current) /\ TypeInv
      /\ mem \in Memories /\ blocks \in SUBSET Words /\ TiledIn(mem, blocks)
  BY TypesOfState, IntactIsIntactIn DEF HeapInv, AverageVisit, IntactIn
<1>2. current \in blocks
  BY <1>1, Region DEF AverageInv, is_within_heap_range
<1>3. PICK s \in Nat : /\ s = get_block_size(mem, current) /\ current \in Int /\ s >= 8
                       /\ current + s \in blocks \union {end}
                       /\ current + s <= end
  BY <1>1, <1>2, BlockFacts
<1>4. UNCHANGED <<mem, blocks, pc>> /\ current' = current + s
  BY <1>3 DEF AverageVisit, get_next_block
<1>5. FreeBlocks' = FreeBlocks /\ SizesOfFree' = SizesOfFree
  BY <1>4 DEF FreeBlocks, SizesOfFree
<1>6. \A b \in FreeBlocks : b \in Int /\ (b < current + s <=> b < current \/ b = current)
  <2>1. \A b \in blocks : b \in Int /\ (b <= current \/ b >= current + s)
    BY <1>1, <1>2, <1>3, WordsAreInt DEF TiledIn
  <2>2. QED
    BY <1>3, <2>1 DEF FreeBlocks
<1>7. /\ IsFiniteSet(Counted) /\ IntegersOn(SizesOfFree, Counted)
      /\ num_of_block = Cardinality(Counted)
      /\ free_size = SumFunctionOnSet(SizesOfFree, Counted)
      /\ current \notin Counted
  BY <1>1, <1>3, FreeBlocksAreFinite DEF Counted, AverageInv
<1>8. CASE ~ block_is_in_use(mem, current)
  <2>1. current \in FreeBlocks /\ SizesOfFree[current] = s
    BY <1>2, <1>3, <1>8 DEF FreeBlocks, SizesOfFree
  <2>2. Counted' = Counted \union {current}
    BY <1>4, <1>5, <1>6, <2>1 DEF Counted
  <2>3. IntegersOn(SizesOfFree, Counted \union {current})
    BY <1>7, <2>1 DEF IntegersOn
  <2>4. /\ Cardinality(Counted') = Cardinality(Counted) + 1
        /\ SumFunctionOnSet(SizesOfFree, Counted') = SumFunctionOnSet(SizesOfFree, Counted) + s
    BY <1>7, <2>1, <2>2, <2>3, FS_AddElement, SumOfOneMore
  <2>5. num_of_block' = num_of_block + 1 /\ free_size' = free_size + s
    BY <1>3, <1>8 DEF AverageVisit
  <2>6. QED
    BY <1>1, <1>3, <1>4, <1>5, <1>7, <2>4, <2>5 DEF AverageInv
<1>9. CASE block_is_in_use(mem, current)
  <2>1. Counted' = Counted
    BY <1>4, <1>5, <1>6, <1>9 DEF Counted, FreeBlocks
  <2>2. num_of_block' = num_of_block /\ free_size' = free_size
    BY <1>9 DEF AverageVisit, averages
  <2>3. QED
    BY <1>1, <1>3, <1>4, <1>5, <1>7, <2>1, <2>2 DEF AverageInv
<1>10. QED
  BY <1>8, <1>9

\* It begins at the first block, before which there is none.
LEMMA AverageBegins ==
  ASSUME HeapInv, AverageInv, Intact, Average, UNCHANGED search_alg
  PROVE  AverageInv'
<1>1. /\ pc = "idle" /\ TypeInv /\ start \in blocks
      /\ mem \in Memories /\ blocks \in SUBSET Words /\ TiledIn(mem, blocks)
  BY TypesOfState, IntactIsIntactIn DEF HeapInv, Average, IntactIn, TiledIn
<1>2. /\ UNCHANGED <<mem, blocks, current, num_of_block, free_size>> /\ pc' = "average"
      /\ current = start /\ num_of_block = 0 /\ free_size = 0
  BY <1>1 DEF Average, locals, AverageInv
<1>3. \A b \in blocks : b \in Int /\ start <= b
  BY <1>1, BlockFacts
<1>4. Counted' = {}
  BY <1>2, <1>3, Region DEF Counted, FreeBlocks
<1>5. QED
  BY <1>1, <1>2, <1>4, SumOfNone, FS_EmptySet DEF AverageInv

LEMMA NextAverage ==
  ASSUME HeapInv, AverageInv, [Next]_vars
  PROVE  AverageInv'
<1>1. ASSUME UNCHANGED <<mem, blocks, pc, current, num_of_block, free_size>>
      PROVE  AverageInv'
  BY <1>1 DEF AverageInv, Counted, FreeBlocks, SizesOfFree
<1>2. ASSUME Return
      PROVE  AverageInv'
  BY <1>2 DEF Return, AverageInv
<1>3. ASSUME Fault
      PROVE  AverageInv'
  BY <1>3 DEF Fault, AverageInv
<1>4. ASSUME NEW b, Take(b)
      PROVE  AverageInv'
  <2>1. Return \/ Fault
    BY <1>4, Zenon DEF Take
  <2>2. QED
    BY <1>2, <1>3, <2>1
<1>5. CASE UNCHANGED vars
  BY <1>1, <1>5 DEF vars, locals
<1>6. CASE Next
  <2>1. UNCHANGED search_alg /\ Intact
    BY <1>6, StepsFromIntact DEF Next
  <2>2. CASE \E n \in Requests : Malloc(n)
    BY <2>2 DEF Malloc, averages, AverageInv
  <2>3. CASE Visit
    <3>1. pc = "search" /\ TypeInv
      BY <2>3 DEF HeapInv, Visit
    <3>2. CASE Take(current)
      BY <1>4, <3>2
    <3>3. CASE pc' = pc /\ UNCHANGED averages
      BY <3>1, <3>3 DEF AverageInv, averages
    <3>4. QED
      BY <2>3, <3>1, <3>2, <3>3, VisitCases DEF VisitTakes, VisitPasses
  <2>4. CASE Exhaust
    <3>1. CASE Take(best_block)
      BY <1>4, <3>1
    <3>2. CASE pc' = pc /\ UNCHANGED averages
      BY <2>4, <3>2 DEF AverageInv, averages, Exhaust
    <3>3. QED
      BY <1>2, <2>4, <3>1, <3>2 DEF Exhaust
  <2>5. CASE Average
    BY <2>1, <2>5, AverageBegins
  <2>6. CASE AverageVisit
    BY <2>1, <2>6, AverageVisitKeeps
  <2>7. CASE AverageReturns
    BY <1>2, <1>3, <2>7 DEF AverageReturns
  <2>8. CASE \E p \in DOMAIN live : Free(p) \/ UserWrite(p)
    <3>1. Fault \/ (pc = "idle" /\ UNCHANGED <<pc, locals>>)
      BY <2>8, Zenon DEF Free, UserWrite
    <3>2. CASE pc = "idle" /\ UNCHANGED <<pc, locals>>
      BY <3>2 DEF AverageInv, locals
    <3>3. QED
      BY <1>3, <3>1, <3>2
  <2>9. QED
    BY <1>6, <2>2, <2>3, <2>4, <2>5, <2>6, <2>7, <2>8 DEF Next
<1>7. QED
  BY <1>5, <1>6

LEMMA InitAverage ==
  ASSUME Init
  PROVE  AverageInv
BY DEF Init, AverageInv

\* When the walk has left the heap it has seen all blocks.
LEMMA AverageEnds ==
  ASSUME HeapInv, AverageInv, Intact, AverageReturns
  PROVE  Counted = FreeBlocks
<1>1. /\ pc = "average" /\ TypeInv /\ ~ is_within_heap_range(current)
      /\ mem \in Memories /\ blocks \in SUBSET Words /\ TiledIn(mem, blocks)
  BY TypesOfState, IntactIsIntactIn DEF HeapInv, AverageReturns, IntactIn
<1>2. \A b \in blocks : b \in Int /\ start <= b /\ b < end
  BY <1>1, BlockFacts, Region
<1>3. current = end
  BY <1>1, <1>2 DEF AverageInv, is_within_heap_range
<1>4. QED
  BY <1>2, <1>3 DEF Counted, FreeBlocks

\* heap_find_avg_free_block_size divides the sum of the sizes of all free
\* blocks by their number, each counted once, for heaps of every size.
THEOREM AverageIsOfFreeBlocks ==
  ASSUME RequestsAreMultiples
  PROVE  Spec => AverageOfFreeBlocks
<1>1. Init => HeapInv /\ AverageInv
  BY InitInv, InitAverage
<1>2. HeapInv /\ AverageInv /\ [Next]_vars => HeapInv' /\ AverageInv'
  BY NextInv, NextAverage
<1>3. HeapInv /\ AverageInv /\ [Next]_vars =>
         [pc = "average" /\ pc' # "average" /\ Intact =>
            /\ num_of_block = Cardinality(FreeBlocks)
            /\ free_size = SumFunctionOnSet([b \in FreeBlocks |-> get_block_size(mem, b)],
                                            FreeBlocks)]_vars
  <2>1. SUFFICES ASSUME HeapInv, AverageInv, Next, pc = "average", pc' # "average", Intact
                 PROVE  /\ num_of_block = Cardinality(FreeBlocks)
                        /\ free_size = SumFunctionOnSet(SizesOfFree, FreeBlocks)
    BY DEF SizesOfFree
  <2>2. AverageReturns
    BY <2>1 DEF Next, Malloc, Visit, Exhaust, Average, AverageVisit, Free, UserWrite
  <2>3. QED
    BY <2>1, <2>2, AverageEnds DEF AverageInv
<1>4. QED
  BY <1>1, <1>2, <1>3, PTL DEF Spec, AverageOfFreeBlocks

-----------------------------------------------------------------------------
(* Undefined behaviour. *)

\* A region so large that no size prepare_block_for_use compares wraps: with
\* 32 bits, less than 2 GB.
SplitsDoNotWrap == size + MAX_UNUSED_BYTES < WordMod /\ 2 * size < WordMod

\* A free block that is large enough is taken without leaving the region.
LEMMA TakeIsDefined ==
  ASSUME RequestsAreMultiples, SplitsDoNotWrap, TypeInv, Intact, pc = "search",
         NEW b \in FreeBlocks, Take(b),
         \A needed \in get_size_to_allocate(user_size) : get_block_size(mem, b) >= needed,
         user_size + 2 * HEADER_SIZE < WordMod
  PROVE  pc' # "fault"
<1>1. /\ mem \in Memories /\ blocks \in SUBSET Words /\ TiledIn(mem, blocks) /\ b \in blocks
      /\ user_size \in 0 .. (WordMod - 1) /\ user_size % 8 = 0 /\ user_size + 8 < WordMod
  <2>1. mem \in Memories /\ blocks \in SUBSET Words /\ TiledIn(mem, blocks) /\ b \in blocks
    BY TypesOfState, IntactIsIntactIn DEF IntactIn, FreeBlocks
  <2>2. user_size \in Requests /\ user_size \in 0 .. (WordMod - 1) /\ user_size % 8 = 0
    BY HeapAssumption DEF TypeInv, RequestsAreMultiples
  <2>3. user_size + 8 < WordMod
    BY <2>2, Region DEF HEADER_SIZE
  <2>4. QED
    BY <2>1, <2>2, <2>3
<1>2. PICK s \in Nat : /\ s = get_block_size(mem, b) /\ s >= 8 /\ s % 8 = 0 /\ s < WordMod
                       /\ start <= b /\ b + s <= end /\ b \in Int /\ b + s - 4 \in Words
  <2>1. LET s == get_block_size(mem, b)
        IN  /\ s \in Nat /\ s >= 8 /\ s % 8 = 0 /\ s < WordMod
            /\ start <= b /\ b + s <= end /\ b \in Int /\ b + s - 4 \in Words
    BY <1>1, BlockFacts
  <2>2. QED
    BY <2>1
<1>3. Writable(b, s)
  BY <1>1, <1>2, WritableBlock
<1>4. PICK real \in Nat : real = user_size + 8 /\ real >= 8 /\ real % 8 = 0 /\ real <= s
  <2>1. get_size_to_allocate(user_size) = {user_size + 8}
    BY <1>1, Region DEF get_size_to_allocate, Wrap, HEADER_SIZE
  <2>2. user_size + 8 <= s
    BY <1>2, <2>1
  <2>3. QED
    BY <1>1, <2>2
<1>5. \A x \in get_size_to_allocate(user_size) : x = real
  BY <1>1, <1>4, Region DEF get_size_to_allocate, Wrap, HEADER_SIZE
<1>6. real + MAX_UNUSED_BYTES < WordMod /\ real * 2 < WordMod
  <2>1. s <= size /\ size \in Nat /\ MAX_UNUSED_BYTES \in Nat /\ WordMod \in Nat
    BY <1>2, Region, HeapAssumption
  <2>2. QED
    BY <1>4, <2>1 DEF SplitsDoNotWrap
<1>7. ASSUME Splits(real, s)
      PROVE  Writable(b + real, Wrap(s - real)) /\ Writable(b, real)
  <2>1. real < s
    <3>1. MAX_UNUSED_BYTES \in Nat
      BY HeapAssumption
    <3>2. Wrap(real + MAX_UNUSED_BYTES) = real + MAX_UNUSED_BYTES /\ Wrap(real * 2) = real * 2
      BY <1>4, <1>6, <3>1, Region DEF Wrap
    <3>3. real + MAX_UNUSED_BYTES < s \/ real * 2 < s
      BY <1>7, <3>2 DEF Splits
    <3>4. QED
      BY <1>2, <1>4, <3>1, <3>3
  <2>2. PICK rest \in Nat : rest = s - real /\ rest >= 8 /\ rest % 8 = 0 /\ rest < WordMod
    BY <1>2, <1>4, <2>1, Region
  <2>3. Wrap(s - real) = rest
    BY <2>2, Region DEF Wrap
  <2>4. b \in Words /\ b + real \in Words /\ b + real - 4 \in Words
    <3>1. start \in Int /\ end \in Int /\ (b - start) % 4 = 0 /\ start <= b
      BY <1>1, <1>2, WordsAreInt, InWords, Region
    <3>2. PICK x \in Int : x = b + real
      BY <1>2, <1>4
    <3>3. start - 4 <= x /\ x <= end - 4 /\ (x - start) % 4 = 0
      BY <1>2, <1>4, <2>2, <3>1, <3>2
    <3>4. PICK y \in Int : y = b + real - 4
      BY <1>2, <1>4
    <3>5. start - 4 <= y /\ y <= end - 4 /\ (y - start) % 4 = 0
      BY <1>2, <1>4, <2>2, <3>1, <3>4
    <3>6. x \in Words /\ y \in Words
      BY <3>2, <3>3, <3>4, <3>5, InWords
    <3>7. QED
      BY <1>1, <3>2, <3>4, <3>6
  <2>5. FooterOf(b + real, rest) = b + s - 4
    <3>1. b + real \in Int /\ rest \in 0 .. (WordMod - 1)
      BY <1>2, <1>4, <2>2, Region
    <3>2. FooterOf(b + real, rest) = b + real + rest - 4
      BY <2>2, <3>1, Footer
    <3>3. QED
      BY <1>2, <1>4, <2>2, <3>2
  <2>6. FooterOf(b, real) = b + real - 4
    BY <1>2, <1>4, Footer, Region
  <2>7. QED
    BY <1>2, <2>3, <2>4, <2>5, <2>6 DEF Writable
<1>8. Fault => pc' = "fault"
  BY DEF Fault
<1>9. SUFFICES ASSUME ~ Return PROVE FALSE
  BY DEF Return
<1>10. \E x \in get_size_to_allocate(user_size) :
         IF Splits(x, s) THEN ~(Writable(b + x, Wrap(s - x)) /\ Writable(b, x))
         ELSE ~ Writable(b, s)
  BY <1>2, <1>9, Zenon DEF Take
<1>11. QED
  BY <1>3, <1>5, <1>7, <1>10

\* On an intact heap the program faults in no other way than by an average of
\* no blocks and by a request that wraps: neither searches nor heap_free leave
\* the region, whatever its size below 2 GB.
THEOREM FaultsAreExplained ==
  ASSUME RequestsAreMultiples, SplitsDoNotWrap
  PROVE  Spec => FaultsExplained
<1>1. Init => HeapInv /\ AverageInv
  BY InitInv, InitAverage
<1>2. HeapInv /\ AverageInv /\ [Next]_vars => HeapInv' /\ AverageInv'
  BY NextInv, NextAverage
<1>3. HeapInv /\ AverageInv /\ [Next]_vars =>
         [pc' = "fault" /\ Intact /\ next \in blocks =>
            \/ pc = "average" /\ FreeBlocks = {}
            \/ pc = "search" /\ user_size + 2 * HEADER_SIZE >= WordMod]_vars
  <2>1. SUFFICES ASSUME HeapInv, AverageInv, Next, pc' = "fault", Intact, next \in blocks
                 PROVE  \/ pc = "average" /\ FreeBlocks = {}
                        \/ pc = "search" /\ user_size + 2 * HEADER_SIZE >= WordMod
    OBVIOUS
  <2>2. TypeInv
    BY <2>1 DEF HeapInv
  <2>3. ASSUME pc = "search", NEW b \in FreeBlocks, Take(b),
               \A x \in get_size_to_allocate(user_size) : get_block_size(mem, b) >= x
        PROVE  user_size + 2 * HEADER_SIZE >= WordMod
    <3>1. ~ (user_size + 2 * HEADER_SIZE < WordMod)
      BY <2>1, <2>2, <2>3, TakeIsDefined
    <3>2. user_size \in 0 .. (WordMod - 1) /\ WordMod \in Nat
      BY <2>2, <2>3, HeapAssumption, Region DEF TypeInv
    <3>3. QED
      BY <3>1, <3>2 DEF HEADER_SIZE
  <2>4. CASE Visit
    <3>1. pc = "search"
      BY <2>4 DEF Visit
    <3>2. PICK needed \in get_size_to_allocate(user_size) :
             VisitTakes(get_block_size(mem, current), needed)
      BY <2>1, <2>2, <2>4, <3>1, VisitCases DEF VisitPasses
    <3>3. /\ current \in FreeBlocks
          /\ \A x \in get_size_to_allocate(user_size) : get_block_size(mem, current) >= x
      BY <2>1, <2>2, <2>4, <3>1, <3>2, OneSize, VisitMoves DEF VisitTakes, FreeBlocks
    <3>4. QED
      BY <2>3, <3>1, <3>2, <3>3 DEF VisitTakes
  <2>5. CASE Exhaust
    <3>1. pc = "search" /\ best_block # NULL /\ Take(best_block)
      BY <2>1, <2>5 DEF Exhaust, Return
    <3>2. /\ best_block \in FreeBlocks
          /\ \A x \in get_size_to_allocate(user_size) : get_block_size(mem, best_block) >= x
      BY <2>1, <3>1 DEF HeapInv
    <3>3. QED
      BY <2>3, <3>1, <3>2
  <2>6. CASE AverageReturns
    <3>1. pc = "average" /\ num_of_block = 0
      BY <2>1, <2>6 DEF AverageReturns, Return
    <3>2. num_of_block = Cardinality(FreeBlocks) /\ IsFiniteSet(FreeBlocks)
      BY <2>1, <2>2, <2>6, <3>1, AverageEnds, FreeBlocksAreFinite DEF AverageInv
    <3>3. QED
      BY <3>1, <3>2, FS_EmptySet
  <2>7. CASE \E p \in DOMAIN live : Free(p)
    BY <2>1, <2>2, <2>7, FreeStep
  <2>8. QED
    BY <2>1, <2>4, <2>5, <2>6, <2>7 DEF Next, Malloc, Average, AverageVisit, UserWrite
<1>4. QED
  BY <1>1, <1>2, <1>3, PTL DEF Spec, FaultsExplained
=============================================================================
