---------------------------- MODULE CacheProofs ----------------------------
(***************************************************************************)
(* Theorems about lab6/cache.c: caches of every size and associativity,     *)
(* with whatever tags malloc has left, over any number of reads.            *)
(***************************************************************************)
EXTENDS Cache, NatLemmas

-----------------------------------------------------------------------------
(* The recursion of get_shift_and_mask. *)

\* PowerUpTo as far as n.
UpTo(n, g) ==
    /\ g \in [0 .. n -> Nat \ {0}]
    /\ \A v \in 0 .. n : g[v] = IF v <= 1 THEN 1 ELSE 2 * g[v \div 2]

LEMMA UpToUnique ==
  ASSUME NEW n \in Nat, NEW m \in Nat, NEW g, NEW h, UpTo(n, g), UpTo(m, h),
         NEW v \in Nat, v <= n, v <= m
  PROVE  g[v] = h[v]
<1> DEFINE T == {w \in Nat : w <= n /\ w <= m /\ g[w] # h[w]}
<1>1. SUFFICES ASSUME T # {} PROVE FALSE
  OBVIOUS
<1>2. PICK w \in T : \A x \in T : w <= x
  BY <1>1, LeastElement
<1>3. w > 1
  BY <1>2 DEF UpTo
<1>4. w \div 2 \in Nat /\ w \div 2 < w
  BY <1>2, <1>3
<1>5. g[w \div 2] = h[w \div 2]
  BY <1>2, <1>4
<1>6. QED
  BY <1>2, <1>3, <1>5 DEF UpTo

LEMMA UpToExists ==
  ASSUME NEW n \in Nat
  PROVE  \E g : UpTo(n, g)
<1> DEFINE T == {m \in Nat : \A g : ~ UpTo(m, g)}
<1>1. SUFFICES ASSUME T # {} PROVE FALSE
  OBVIOUS
<1>2. PICK m \in T : \A x \in T : m <= x
  BY <1>1, LeastElement
<1>3. CASE m = 0
  <2>1. UpTo(0, [v \in 0 .. 0 |-> 1])
    BY DEF UpTo
  <2>2. QED
    BY <1>2, <1>3, <2>1
<1>4. CASE m > 0
  <2>1. m - 1 \in Nat /\ m - 1 \notin T
    BY <1>2, <1>4
  <2>2. PICK g : UpTo(m - 1, g)
    BY <2>1
  <2> DEFINE h == [v \in 0 .. m |->
                     IF v = m THEN IF m <= 1 THEN 1 ELSE 2 * g[m \div 2] ELSE g[v]]
  <2>3. m > 1 => m \div 2 \in 0 .. (m - 1)
    BY <1>2
  <2>4. \A v \in 0 .. (m - 1) : h[v] = g[v] /\ h[v] \in Nat \ {0}
    BY <2>2 DEF UpTo
  <2>5. h[m] = IF m <= 1 THEN 1 ELSE 2 * g[m \div 2]
    BY <1>2
  <2>6. h[m] \in Nat \ {0}
    BY <2>2, <2>3, <2>5 DEF UpTo
  <2>7. h \in [0 .. m -> Nat \ {0}]
    <3>1. \A v \in 0 .. m : v = m \/ v \in 0 .. (m - 1)
      BY <1>2
    <3>2. \A v \in 0 .. m : h[v] \in Nat \ {0}
      BY <2>4, <2>6, <3>1
    <3> DEFINE k == h
    <3>3. DOMAIN k = 0 .. m /\ k = [v \in 0 .. m |-> k[v]]
      OBVIOUS
    <3> HIDE DEF k
    <3>4. k \in [0 .. m -> Nat \ {0}]
      BY <3>2, <3>3 DEF k
    <3>5. QED
      BY <3>4 DEF k
  <2>8. ASSUME NEW v \in 0 .. m
        PROVE  h[v] = IF v <= 1 THEN 1 ELSE 2 * h[v \div 2]
    <3>1. CASE v = m
      BY <2>3, <2>4, <2>5, <3>1
    <3>2. CASE v # m
      <4>1. v \in 0 .. (m - 1) /\ (v > 1 => v \div 2 \in 0 .. (m - 1))
        BY <3>2
      <4>2. QED
        BY <2>2, <2>4, <4>1 DEF UpTo
    <3>3. QED
      BY <3>1, <3>2
  <2> HIDE DEF h
  <2>9. UpTo(m, h)
    BY <2>7, <2>8 DEF UpTo
  <2>10. QED
    BY <1>2, <2>9
<1>5. QED
  BY <1>2, <1>3, <1>4

LEMMA PowerUpToDef ==
  ASSUME NEW v \in Nat
  PROVE  PowerUpTo[v] = IF v <= 1 THEN 1 ELSE 2 * PowerUpTo[v \div 2]
<1> DEFINE Body(f) == [w \in Nat |-> IF w <= 1 THEN 1 ELSE 2 * f[w \div 2]]
           G(w) == CHOOSE g : UpTo(w, g)
           F == [w \in Nat |-> G(w)[w]]
<1>1. \A w \in Nat : UpTo(w, G(w))
  BY UpToExists
<1> HIDE DEF G
<1>2. ASSUME NEW w \in Nat
      PROVE  /\ F[w] = IF w <= 1 THEN 1 ELSE 2 * F[w \div 2]
             /\ F[w] \in Nat \ {0}
  <2>1. F[w] = G(w)[w] /\ w \in 0 .. w
    OBVIOUS
  <2>2. G(w)[w] = (IF w <= 1 THEN 1 ELSE 2 * G(w)[w \div 2]) /\ G(w)[w] \in Nat \ {0}
    BY <1>1, <2>1 DEF UpTo
  <2>3. CASE w > 1
    <3>1. w \div 2 \in Nat /\ w \div 2 <= w
      BY <2>3
    <3>2. G(w)[w \div 2] = G(w \div 2)[w \div 2]
      BY <1>1, <3>1, UpToUnique
    <3>3. F[w \div 2] = G(w \div 2)[w \div 2]
      BY <3>1
    <3>4. QED
      BY <2>1, <2>2, <2>3, <3>2, <3>3
  <2>4. CASE ~ (w > 1)
    BY <2>1, <2>2, <2>4
  <2>5. QED
    BY <2>3, <2>4
<1>3. F = Body(F)
  BY <1>2
<1>4. PowerUpTo = CHOOSE f : f = Body(f)
  BY DEF PowerUpTo
<1> HIDE DEF F
<1>5. PowerUpTo = Body(PowerUpTo)
  BY <1>3, <1>4
<1>6. QED
  BY <1>5

\* What makes masks of the results: they are positive, and no larger than the
\* number they are computed for.
LEMMA PowerUpToBounds ==
  ASSUME NEW v \in Nat \ {0}
  PROVE  PowerUpTo[v] \in Nat \ {0} /\ PowerUpTo[v] <= v
<1> DEFINE T == {w \in Nat \ {0} : ~ (PowerUpTo[w] \in Nat \ {0} /\ PowerUpTo[w] <= w)}
<1>1. SUFFICES ASSUME T # {} PROVE FALSE
  OBVIOUS
<1>2. PICK w \in T : \A x \in T : w <= x
  BY <1>1, LeastElement
<1>3. w > 1
  BY <1>2, PowerUpToDef
<1>4. w \div 2 \in Nat \ {0} /\ w \div 2 < w /\ 2 * (w \div 2) <= w
  BY <1>2, <1>3
<1>5. PowerUpTo[w \div 2] \in Nat \ {0} /\ PowerUpTo[w \div 2] <= w \div 2
  BY <1>2, <1>4
<1>6. PowerUpTo[w] = 2 * PowerUpTo[w \div 2]
  BY <1>2, <1>3, PowerUpToDef
<1>7. QED
  BY <1>2, <1>4, <1>5, <1>6

LEMMA Sizes ==
  /\ num_sets \in Nat \ {0}
  /\ block_offset \in Nat \ {0} /\ index_range \in Nat \ {0}
  /\ index_range <= num_sets /\ tag_unit = block_offset * index_range
  /\ tag_unit \in Nat \ {0}
<1>1. num_sets \in Nat \ {0}
  BY CacheAssumption DEF num_sets
<1>2. block_offset \in Nat \ {0}
  BY CacheAssumption, PowerUpToBounds DEF block_offset
<1>3. index_range \in Nat \ {0} /\ index_range <= num_sets
  BY <1>1, PowerUpToBounds DEF index_range
<1>4. QED
  BY <1>1, <1>2, <1>3 DEF tag_unit

-----------------------------------------------------------------------------
(* Addresses. *)

LEMMA DivMod ==
  ASSUME NEW a \in Nat, NEW b \in Nat \ {0}
  PROVE  /\ a % b \in Nat /\ a % b < b /\ a \div b \in Nat
         /\ a = b * (a \div b) + (a % b)
OBVIOUS

LEMMA DivUnique ==
  ASSUME NEW q \in Nat, NEW r \in Nat, NEW b \in Nat \ {0}, r < b
  PROVE  (b * q + r) \div b = q /\ (b * q + r) % b = r
OBVIOUS

LEMMA DivTwice ==
  ASSUME NEW x \in Nat, NEW b \in Nat \ {0}, NEW c \in Nat \ {0}
  PROVE  x \div (b * c) = (x \div b) \div c
OBVIOUS

\* The block of an address that fits in an int, as index and tag.
LEMMA Fits ==
  ASSUME NEW a \in Nat, a < IntMod
  PROVE  a % IntMod = a
BY CacheAssumption

LEMMA IndexInSets ==
  ASSUME NEW a \in Nat
  PROVE  /\ Index(a) \in SetNumbers /\ Tag(a) \in Nat /\ Offset(a) \in Nat
         /\ Base(a) \in Nat
<1>1. a % IntMod \in Nat
  BY CacheAssumption
<1>2. (a % IntMod) \div block_offset \in Nat
  BY <1>1, Sizes
<1>3. QED
  BY <1>1, <1>2, Sizes DEF Index, SetNumbers, Tag, Offset, Base

\* A block's base has the index and the tag of every address in the block.
LEMMA BaseHasSameLine ==
  ASSUME NEW a \in Nat
  PROVE  Index(Base(a)) = Index(a) /\ Tag(Base(a)) = Tag(a)
<1> DEFINE b == block_offset
           r == a % IntMod
<1>1. IntMod \in Nat \ {0} /\ b \in Nat \ {0} /\ IntMod = b * (IntMod \div b)
  BY CacheAssumption, IntModAssumption, Sizes
<1>2. PICK q \in Nat : IntMod = b * q
  BY <1>1
<1>3. PICK t \in Nat : a = IntMod * t + r /\ r \in Nat /\ r < IntMod
  <2>1. a \div IntMod \in Nat /\ a = IntMod * (a \div IntMod) + r /\ r \in Nat /\ r < IntMod
    BY <1>1, DivMod
  <2>2. QED
    BY <2>1
<1> HIDE DEF b, r
<1>4. PICK u \in Nat, o \in Nat : r = b * u + o /\ o < b
  <2>1. r \div b \in Nat /\ r % b \in Nat /\ r = b * (r \div b) + (r % b) /\ r % b < b
    BY <1>1, <1>3, DivMod
  <2>2. QED
    BY <2>1
<1>5. a = b * (q * t + u) + o
  BY <1>1, <1>2, <1>3, <1>4
<1>6. a % b = o
  BY <1>1, <1>4, <1>5
<1>7. Base(a) = IntMod * t + b * u
  BY <1>1, <1>3, <1>4, <1>6 DEF Base, b
<1>8. Base(a) % IntMod = b * u
  BY <1>1, <1>3, <1>4, <1>7
<1>9. (b * u) \div b = u /\ r \div b = u
  BY <1>1, <1>4
<1>10. (b * u) \div tag_unit = r \div tag_unit
  <2>1. b * u \in Nat /\ r \in Nat /\ index_range \in Nat \ {0} /\ tag_unit = b * index_range
    BY <1>1, <1>3, Sizes DEF b
  <2>2. (b * u) \div (b * index_range) = ((b * u) \div b) \div index_range
    BY <1>1, <2>1, DivTwice, Zenon
  <2>3. r \div (b * index_range) = (r \div b) \div index_range
    BY <1>1, <2>1, DivTwice, Zenon
  <2>4. QED
    BY <1>9, <2>1, <2>2, <2>3
<1>11. QED
  BY <1>8, <1>9, <1>10 DEF Index, Tag, b, r

\* Addresses that fit in an int, have the same index and the same tag are in
\* the same block.
LEMMA SameLineSameBlock ==
  ASSUME NEW a \in Nat, NEW d \in Nat, a < IntMod, d < IntMod,
         Index(a) = Index(d), Tag(a) = Tag(d)
  PROVE  Base(a) = Base(d)
<1> DEFINE b == block_offset
           R == index_range
<1>1. b \in Nat \ {0} /\ R \in Nat \ {0} /\ tag_unit = b * R
  BY Sizes
<1>2. a % IntMod = a /\ d % IntMod = d
  BY Fits
<1> HIDE DEF b, R
<1>3. (a \div b) % R = (d \div b) % R /\ (a \div b) \div R = (d \div b) \div R
  BY <1>1, <1>2, DivTwice DEF Index, Tag, b, R
<1>4. a \div b \in Nat /\ d \div b \in Nat
  BY <1>1, DivMod
<1>5. a \div b = d \div b
  <2>1. /\ a \div b = R * ((a \div b) \div R) + ((a \div b) % R)
        /\ d \div b = R * ((d \div b) \div R) + ((d \div b) % R)
    BY <1>1, <1>4, DivMod
  <2>2. QED
    BY <1>3, <2>1
<1>6. a - (a % b) = b * (a \div b) /\ d - (d % b) = b * (d \div b)
  BY <1>1, DivMod
<1>7. QED
  BY <1>5, <1>6 DEF Base, b

\* Base and offset of an address that fits make up the address.
LEMMA BaseAndOffset ==
  ASSUME NEW a \in Nat, a < IntMod
  PROVE  Base(a) + Offset(a) = a
<1>1. Offset(a) = a % block_offset /\ a % block_offset \in Nat
  BY Fits, Sizes DEF Offset
<1>2. QED
  BY <1>1 DEF Base

-----------------------------------------------------------------------------
(* The lines of a set. *)

Line == [is_valid : BOOLEAN, tag : Nat, data : Int]
Lines == [1 .. associativity -> Line]

\* ValidFoundFirst, of one set.
FoundFirst(lines) ==
    \A k \in 1 .. associativity : \A j \in 1 .. (k - 1) :
        lines[k].is_valid => lines[j].tag # lines[k].tag

LEMMA MostRecent ==
  ASSUME NEW lines \in Lines, NEW m \in 1 .. associativity
  PROVE  /\ cache_line_make_mru(lines, m) \in Lines
         /\ cache_line_make_mru(lines, m)[1] = lines[m]
         /\ \A j \in 2 .. m : cache_line_make_mru(lines, m)[j] = lines[j - 1]
         /\ \A j \in (m + 1) .. associativity : cache_line_make_mru(lines, m)[j] = lines[j]
BY CacheAssumption DEF cache_line_make_mru, Lines

\* The line that was found first moves to the front.
LEMMA MostRecentKeepsFoundFirst ==
  ASSUME NEW lines \in Lines, NEW m \in 1 .. associativity, FoundFirst(lines),
         \A j \in 1 .. (m - 1) : lines[j].tag # lines[m].tag
  PROVE  FoundFirst(cache_line_make_mru(lines, m))
<1> DEFINE moved == cache_line_make_mru(lines, m)
<1>0. /\ associativity \in Nat \ {0}
      /\ moved[1] = lines[m]
      /\ \A j \in 2 .. m : moved[j] = lines[j - 1]
      /\ \A j \in (m + 1) .. associativity : moved[j] = lines[j]
  BY MostRecent, CacheAssumption
<1> HIDE DEF moved
<1>1. ASSUME NEW k \in 1 .. associativity, NEW j \in 1 .. (k - 1), moved[k].is_valid
      PROVE  moved[j].tag # moved[k].tag
  <2>1. CASE k <= m
    <3>1. moved[k] = lines[k - 1] /\ k - 1 \in 1 .. (m - 1) /\ k - 1 \in 1 .. associativity
      BY <1>0, <2>1
    <3>2. CASE j = 1
      BY <1>0, <3>1, <3>2
    <3>3. CASE j # 1
      <4>1. moved[j] = lines[j - 1] /\ j - 1 \in 1 .. (k - 2)
        BY <1>0, <2>1, <3>3
      <4>2. QED
        BY <1>1, <3>1, <4>1 DEF FoundFirst
    <3>4. QED
      BY <3>2, <3>3
  <2>2. CASE k > m
    <3>1. moved[k] = lines[k]
      BY <1>0, <2>2
    <3>2. PICK i \in 1 .. (k - 1) : moved[j] = lines[i]
      <4>1. CASE j = 1
        BY <1>0, <2>2, <4>1
      <4>2. CASE j \in 2 .. m
        BY <1>0, <2>2, <4>2
      <4>3. CASE j \in (m + 1) .. associativity
        BY <1>0, <4>3
      <4>4. QED
        BY <1>0, <4>1, <4>2, <4>3
    <3>3. QED
      BY <1>1, <3>1, <3>2 DEF FoundFirst
  <2>3. QED
    BY <2>1, <2>2
<1>2. FoundFirst(moved)
  BY <1>1 DEF FoundFirst
<1>3. QED
  BY <1>2 DEF moved

\* A block is added in front when no valid line has its tag.
LEMMA AddedLines ==
  ASSUME NEW lines \in Lines, NEW a \in Nat
  PROVE  /\ cache_set_add(lines, a) \in Lines
         /\ cache_set_add(lines, a)[1]
              = [is_valid |-> TRUE, tag |-> Tag(a), data |-> Base(a)]
         /\ \A j \in 2 .. associativity : cache_set_add(lines, a)[j] = lines[j - 1]
<1> DEFINE moved == cache_line_make_mru(lines, associativity)
           new == [is_valid |-> TRUE, tag |-> Tag(a), data |-> Base(a)]
<1>1. associativity \in 1 .. associativity /\ 1 \in 1 .. associativity
  BY CacheAssumption
<1>2. /\ moved \in Lines
      /\ \A j \in 2 .. associativity : moved[j] = lines[j - 1]
  BY <1>1, MostRecent
<1>3. new \in Line
  BY IndexInSets DEF Line
<1>4. cache_set_add(lines, a) = [moved EXCEPT ![1] = new]
  BY DEF cache_set_add
<1> HIDE DEF moved, new
<1>5. QED
  BY <1>1, <1>2, <1>3, <1>4 DEF Lines, new

LEMMA AddKeepsFoundFirst ==
  ASSUME NEW lines \in Lines, NEW a \in Nat, FoundFirst(lines),
         \A k \in 1 .. associativity : lines[k].is_valid => lines[k].tag # Tag(a)
  PROVE  FoundFirst(cache_set_add(lines, a))
<1> DEFINE added == cache_set_add(lines, a)
<1>0. /\ associativity \in Nat \ {0}
      /\ added[1] = [is_valid |-> TRUE, tag |-> Tag(a), data |-> Base(a)]
      /\ \A j \in 2 .. associativity : added[j] = lines[j - 1]
  BY AddedLines, CacheAssumption
<1> HIDE DEF added
<1>1. ASSUME NEW k \in 1 .. associativity, NEW j \in 1 .. (k - 1), added[k].is_valid
      PROVE  added[j].tag # added[k].tag
  <2>1. added[k] = lines[k - 1] /\ k - 1 \in 1 .. associativity
    BY <1>0
  <2>2. CASE j = 1
    BY <1>0, <1>1, <2>1, <2>2
  <2>3. CASE j # 1
    <3>1. added[j] = lines[j - 1] /\ j - 1 \in 1 .. (k - 2)
      BY <1>0, <2>3
    <3>2. QED
      BY <1>1, <2>1, <3>1 DEF FoundFirst
  <2>4. QED
    BY <2>2, <2>3
<1>2. FoundFirst(added)
  BY <1>1 DEF FoundFirst
<1>3. QED
  BY <1>2 DEF added

-----------------------------------------------------------------------------
(* A read. *)

LEMMA FirstMatch ==
  ASSUME NEW lines \in Lines, NEW tag \in Nat, Matching(lines, tag) # {}
  PROVE  LET m == Min(Matching(lines, tag))
         IN  /\ m \in 1 .. associativity /\ lines[m].tag = tag
             /\ \A j \in 1 .. (m - 1) : lines[j].tag # tag
<1> DEFINE m == Min(Matching(lines, tag))
<1>1. associativity \in Nat /\ Matching(lines, tag) \in SUBSET Nat
  BY CacheAssumption DEF Matching
<1>2. m \in Matching(lines, tag) /\ \A n \in Matching(lines, tag) : m <= n
  BY <1>1, MinProperties
<1> HIDE DEF m
<1>3. m \in 1 .. associativity /\ lines[m].tag = tag
  BY <1>2 DEF Matching
<1>4. ASSUME NEW j \in 1 .. (m - 1), lines[j].tag = tag
      PROVE  FALSE
  <2>1. j \in Matching(lines, tag)
    BY <1>1, <1>3, <1>4 DEF Matching
  <2>2. QED
    BY <1>2, <1>3, <2>1
<1>5. QED
  BY <1>3, <1>4 DEF m

\* The search finds a line that is valid just if there is a valid one.
LEMMA FoundIfValid ==
  ASSUME NEW lines \in Lines, NEW tag \in Nat, FoundFirst(lines),
         NEW k \in 1 .. associativity, lines[k].is_valid, lines[k].tag = tag
  PROVE  Found(lines, tag) /\ Min(Matching(lines, tag)) = k
<1> DEFINE m == Min(Matching(lines, tag))
<1>1. k \in Matching(lines, tag)
  BY DEF Matching
<1>2. /\ m \in 1 .. associativity /\ lines[m].tag = tag
      /\ \A j \in 1 .. (m - 1) : lines[j].tag # tag
  BY <1>1, FirstMatch
<1> HIDE DEF m
<1>3. ~ (k < m)
  <2>1. k < m => k \in 1 .. (m - 1)
    BY <1>2
  <2>2. QED
    BY <1>2, <2>1
<1>4. ~ (m < k)
  <2>1. m < k => m \in 1 .. (k - 1)
    BY <1>2
  <2>2. QED
    BY <1>2, <2>1 DEF FoundFirst
<1>5. m = k
  BY <1>2, <1>3, <1>4
<1>6. QED
  BY <1>1, <1>5 DEF Found, m

\* The lines of a set after a read that ends there.
Read(lines, a) ==
    LET searched == cache_set_find_matching_line(lines, Tag(a))
    IN  IF Found(lines, Tag(a)) THEN searched ELSE cache_set_add(searched, a)

Added(a) == [is_valid |-> TRUE, tag |-> Tag(a), data |-> Base(a)]

LEMMA SearchedLines ==
  ASSUME NEW lines \in Lines, NEW tag \in Nat, FoundFirst(lines)
  PROVE  LET searched == cache_set_find_matching_line(lines, tag)
         IN  /\ searched \in Lines /\ FoundFirst(searched)
             /\ \A k \in 1 .. associativity : \E i \in 1 .. associativity :
                   searched[k] = lines[i]
             /\ Matching(lines, tag) # {} => searched[1] = lines[Min(Matching(lines, tag))]
<1> DEFINE m == Min(Matching(lines, tag))
           searched == cache_set_find_matching_line(lines, tag)
<1>1. CASE Matching(lines, tag) = {}
  <2>1. searched = lines
    BY <1>1 DEF cache_set_find_matching_line
  <2>2. QED
    BY <1>1, <2>1
<1>2. CASE Matching(lines, tag) # {}
  <2>1. searched = cache_line_make_mru(lines, m)
    BY <1>2 DEF cache_set_find_matching_line
  <2>2. /\ m \in 1 .. associativity
        /\ \A j \in 1 .. (m - 1) : lines[j].tag # lines[m].tag
    BY <1>2, FirstMatch
  <2> HIDE DEF m
  <2>3. /\ searched \in Lines /\ searched[1] = lines[m]
        /\ \A j \in 2 .. m : searched[j] = lines[j - 1]
        /\ \A j \in (m + 1) .. associativity : searched[j] = lines[j]
    BY <2>1, <2>2, MostRecent
  <2>4. FoundFirst(searched)
    BY <2>1, <2>2, MostRecentKeepsFoundFirst
  <2> HIDE DEF searched
  <2>5. ASSUME NEW k \in 1 .. associativity
        PROVE  \E i \in 1 .. associativity : searched[k] = lines[i]
    <3>1. CASE k = 1
      BY <2>2, <2>3, <3>1
    <3>2. CASE k \in 2 .. m
      <4>1. searched[k] = lines[k - 1]
        BY <2>3, <3>2
      <4>2. k - 1 \in 1 .. associativity
        BY <2>2, <3>2, CacheAssumption
      <4>3. QED
        BY <4>1, <4>2
    <3>3. CASE k \in (m + 1) .. associativity
      BY <2>3, <3>3
    <3>4. k = 1 \/ k \in 2 .. m \/ k \in (m + 1) .. associativity
      BY <2>2, CacheAssumption
    <3>5. QED
      BY <3>1, <3>2, <3>3, <3>4
  <2>6. QED
    BY <1>2, <2>3, <2>4, <2>5 DEF searched, m
<1>3. QED
  BY <1>1, <1>2

LEMMA ReadLines ==
  ASSUME NEW lines \in Lines, NEW a \in Nat, FoundFirst(lines)
  PROVE  /\ Read(lines, a) \in Lines /\ FoundFirst(Read(lines, a))
         /\ \A k \in 1 .. associativity :
               \/ Read(lines, a)[k] = Added(a)
               \/ \E i \in 1 .. associativity : Read(lines, a)[k] = lines[i]
         /\ Read(lines, a)[1] = IF Found(lines, Tag(a))
                                THEN lines[Min(Matching(lines, Tag(a)))] ELSE Added(a)
<1> DEFINE searched == cache_set_find_matching_line(lines, Tag(a))
<1>1. Tag(a) \in Nat /\ associativity \in Nat \ {0}
  BY IndexInSets, CacheAssumption
<1>2. /\ searched \in Lines /\ FoundFirst(searched)
      /\ \A k \in 1 .. associativity : \E i \in 1 .. associativity : searched[k] = lines[i]
      /\ Matching(lines, Tag(a)) # {} => searched[1] = lines[Min(Matching(lines, Tag(a)))]
  BY <1>1, SearchedLines
<1> HIDE DEF searched
<1>3. CASE Found(lines, Tag(a))
  <2>1. Read(lines, a) = searched
    BY <1>3 DEF Read, searched
  <2>2. Matching(lines, Tag(a)) # {}
    BY <1>3 DEF Found
  <2>3. QED
    BY <1>2, <1>3, <2>1, <2>2
<1>4. CASE ~ Found(lines, Tag(a))
  <2>1. Read(lines, a) = cache_set_add(searched, a)
    BY <1>4 DEF Read, searched
  <2>2. ASSUME NEW k \in 1 .. associativity, searched[k].is_valid
        PROVE  searched[k].tag # Tag(a)
    <3>1. PICK i \in 1 .. associativity : searched[k] = lines[i]
      BY <1>2
    <3>2. QED
      BY <1>1, <1>4, <2>2, <3>1, FoundIfValid
  <2>3. FoundFirst(Read(lines, a))
    BY <1>2, <2>1, <2>2, AddKeepsFoundFirst
  <2>4. /\ Read(lines, a) \in Lines
        /\ Read(lines, a)[1] = Added(a)
        /\ \A j \in 2 .. associativity : Read(lines, a)[j] = searched[j - 1]
    BY <1>2, <2>1, AddedLines DEF Added
  <2>5. ASSUME NEW k \in 1 .. associativity, k # 1
        PROVE  \E i \in 1 .. associativity : Read(lines, a)[k] = lines[i]
    <3>1. Read(lines, a)[k] = searched[k - 1] /\ k - 1 \in 1 .. associativity
      BY <1>1, <2>4, <2>5
    <3>2. QED
      BY <1>2, <3>1
  <2>6. QED
    BY <1>4, <2>3, <2>4, <2>5
<1>5. QED
  BY <1>3, <1>4

-----------------------------------------------------------------------------
(* The invariant. *)

TypeOK ==
    /\ sets \in [SetNumbers -> Lines]
    /\ access_count \in Nat /\ miss_count \in Nat

\* A valid line holds the block of an address that was read, in its set and
\* under its tag.
HoldsABlock(s, line) ==
    line.is_valid =>
        \E a \in Addresses : /\ Index(a) = s
                             /\ line.tag = Tag(a) /\ line.data = Base(a)

CacheInv ==
    /\ TypeOK
    /\ \A s \in SetNumbers : FoundFirst(sets[s])
    /\ \A s \in SetNumbers : \A k \in 1 .. associativity : HoldsABlock(s, sets[s][k])

\* What a read does.
LEMMA ReadStep ==
  ASSUME CacheInv, NEW a \in Addresses, cache_read(a)
  PROVE  /\ a \in Nat /\ Index(a) \in SetNumbers
         /\ sets[Index(a)] \in Lines /\ FoundFirst(sets[Index(a)])
         /\ sets' = [sets EXCEPT ![Index(a)] = Read(sets[Index(a)], a)]
         /\ result' = Read(sets[Index(a)], a)[1].data + Offset(a)
         /\ miss_count' = IF Found(sets[Index(a)], Tag(a)) THEN miss_count
                                                           ELSE miss_count + 1
         /\ access_count' = access_count + 1 /\ asked' = a
<1>1. a \in Nat
  BY CacheAssumption
<1>2. Index(a) \in SetNumbers
  BY <1>1, IndexInSets
<1>3. sets[Index(a)] \in Lines /\ FoundFirst(sets[Index(a)])
  BY <1>2 DEF CacheInv, TypeOK
<1>4. QED
  BY <1>1, <1>2, <1>3 DEF cache_read, Read

LEMMA CacheInvInit == Init => CacheInv
<1> SUFFICES ASSUME Init PROVE CacheInv
  OBVIOUS
<1>1. /\ sets \in [SetNumbers -> [1 .. associativity ->
                      [is_valid : {FALSE}, tag : FreshTags, data : {NoData}]]]
      /\ access_count = 0 /\ miss_count = 0
  BY DEF Init
<1>2. NoData \in Int
  BY CacheAssumption DEF NoData
<1>3. [is_valid : {FALSE}, tag : FreshTags, data : {NoData}] \subseteq Line
  BY <1>2, CacheAssumption DEF Line
<1>4. \A s \in SetNumbers : \A k \in 1 .. associativity :
         sets[s][k] \in Line /\ sets[s][k].is_valid = FALSE
  BY <1>1, <1>3
<1>5. TypeOK
  BY <1>1, <1>3 DEF TypeOK, Lines
<1>6. QED
  BY <1>4, <1>5 DEF CacheInv, FoundFirst, HoldsABlock

LEMMA CacheInvKept ==
  ASSUME CacheInv, [Next]_vars
  PROVE  CacheInv'
<1>1. ASSUME NEW a \in Addresses, cache_read(a)
      PROVE  CacheInv'
  <2> DEFINE i == Index(a)
             read == Read(sets[i], a)
  <2>1. /\ a \in Nat /\ i \in SetNumbers /\ sets[i] \in Lines /\ FoundFirst(sets[i])
        /\ sets' = [sets EXCEPT ![i] = read]
        /\ access_count' = access_count + 1
        /\ miss_count' \in {miss_count, miss_count + 1}
    BY <1>1, ReadStep
  <2>2. /\ read \in Lines /\ FoundFirst(read)
        /\ \A k \in 1 .. associativity :
              read[k] = Added(a) \/ \E j \in 1 .. associativity : read[k] = sets[i][j]
    BY <2>1, ReadLines
  <2> HIDE DEF i, read
  <2>3. sets \in [SetNumbers -> Lines]
    BY DEF CacheInv, TypeOK
  <2>4. /\ sets' \in [SetNumbers -> Lines]
        /\ sets'[i] = read /\ \A s \in SetNumbers : s # i => sets'[s] = sets[s]
    BY <2>1, <2>2, <2>3
  <2>5. TypeOK'
    BY <2>1, <2>4 DEF CacheInv, TypeOK
  <2>6. ASSUME NEW s \in SetNumbers
        PROVE  FoundFirst(sets'[s])
    BY <2>2, <2>4 DEF CacheInv
  <2>7. ASSUME NEW s \in SetNumbers, NEW k \in 1 .. associativity
        PROVE  HoldsABlock(s, sets'[s][k])
    <3>1. CASE s # i
      BY <2>4, <3>1 DEF CacheInv
    <3>2. CASE s = i /\ read[k] = Added(a)
      BY <2>4, <3>2 DEF HoldsABlock, Added, i
    <3>3. CASE s = i /\ \E j \in 1 .. associativity : read[k] = sets[i][j]
      BY <2>4, <3>3 DEF CacheInv
    <3>4. QED
      BY <2>2, <3>1, <3>2, <3>3
  <2>8. QED
    BY <2>5, <2>6, <2>7 DEF CacheInv
<1>2. ASSUME UNCHANGED vars
      PROVE  CacheInv'
  BY <1>2 DEF vars, CacheInv, TypeOK
<1>3. QED
  BY <1>1, <1>2 DEF Next

THEOREM CacheInvariant == Spec => []CacheInv
<1>1. CacheInv /\ [Next]_vars => CacheInv'
  BY CacheInvKept
<1>2. QED
  BY <1>1, CacheInvInit, PTL DEF Spec

-----------------------------------------------------------------------------
(* What follows. *)

\* However the reads reorder a set, the search, which ignores the valid bit,
\* meets a valid line before any leftover of malloc with the same tag.
THEOREM ValidLinesAreFoundFirst == Spec => []ValidFoundFirst
<1>1. CacheInv => ValidFoundFirst
  BY DEF CacheInv, ValidFoundFirst, Valid, ValidOf, FoundFirst
<1>2. QED
  BY <1>1, CacheInvariant, PTL

\* Each valid line holds a block of its set under the block's tag, and no two
\* hold the same: also when the number of sets is no power of two.
THEOREM LinesAreConsistent == Spec => []LinesConsistent
<1>1. ASSUME CacheInv, NEW s \in SetNumbers, NEW k \in Valid(s)
      PROVE  /\ Index(sets[s][k].data) = s
             /\ Tag(sets[s][k].data) = sets[s][k].tag
             /\ \A j \in Valid(s) : sets[s][j].tag = sets[s][k].tag => j = k
  <2>1. k \in 1 .. associativity /\ sets[s][k].is_valid
    BY DEF Valid, ValidOf
  <2>2. PICK a \in Addresses : /\ Index(a) = s
                               /\ sets[s][k].tag = Tag(a) /\ sets[s][k].data = Base(a)
    BY <1>1, <2>1 DEF CacheInv, HoldsABlock
  <2>3. a \in Nat
    BY CacheAssumption
  <2>4. ASSUME NEW j \in Valid(s), sets[s][j].tag = sets[s][k].tag
        PROVE  j = k
    <3>1. /\ FoundFirst(sets[s]) /\ associativity \in Nat
          /\ j \in 1 .. associativity /\ sets[s][j].is_valid
      BY <1>1, CacheAssumption DEF CacheInv, Valid, ValidOf
    <3>2. ~ (j \in 1 .. (k - 1)) /\ ~ (k \in 1 .. (j - 1))
      BY <2>1, <2>4, <3>1 DEF FoundFirst
    <3>3. QED
      BY <2>1, <3>1, <3>2
  <2>5. QED
    BY <2>2, <2>3, <2>4, BaseHasSameLine
<1>2. CacheInv => LinesConsistent
  BY <1>1 DEF LinesConsistent
<1>3. QED
  BY <1>2, CacheInvariant, PTL

\* The addresses that the reads use fit in an int, which cache_read casts to.
AddressesFit == \A a \in Addresses : a < IntMod

\* Every read returns what is at the address it was given, whatever blocks it
\* has replaced before.
THEOREM ReadsAreRight ==
  ASSUME AddressesFit
  PROVE  Spec => []ReadsWhatWasAsked
<1>1. ASSUME CacheInv, NEW a \in Addresses, cache_read(a)
      PROVE  result' = asked'
  <2> DEFINE lines == sets[Index(a)]
             m == Min(Matching(lines, Tag(a)))
  <2>1. /\ a \in Nat /\ Index(a) \in SetNumbers /\ lines \in Lines /\ FoundFirst(lines)
        /\ result' = Read(lines, a)[1].data + Offset(a) /\ asked' = a
        /\ a < IntMod
    BY <1>1, ReadStep DEF AddressesFit
  <2>2. Read(lines, a)[1] = IF Found(lines, Tag(a)) THEN lines[m] ELSE Added(a)
    BY <2>1, ReadLines
  <2>3. CASE Found(lines, Tag(a))
    <3>1. Matching(lines, Tag(a)) # {} /\ lines[m].is_valid
      BY <2>3 DEF Found
    <3>2. m \in 1 .. associativity /\ lines[m].tag = Tag(a)
      BY <2>1, <3>1, FirstMatch, IndexInSets
    <3> HIDE DEF m
    <3>3. PICK d \in Addresses : /\ Index(d) = Index(a)
                                 /\ lines[m].tag = Tag(d) /\ lines[m].data = Base(d)
      BY <1>1, <2>1, <3>1, <3>2 DEF CacheInv, HoldsABlock
    <3>4. d \in Nat /\ d < IntMod
      BY <1>1, CacheAssumption DEF AddressesFit
    <3>5. Base(d) = Base(a)
      BY <2>1, <3>2, <3>3, <3>4, SameLineSameBlock
    <3>6. QED
      BY <2>1, <2>2, <2>3, <3>3, <3>5, BaseAndOffset
  <2>4. CASE ~ Found(lines, Tag(a))
    BY <2>1, <2>2, <2>4, BaseAndOffset DEF Added
  <2>5. QED
    BY <2>3, <2>4
<1>2. Init => ReadsWhatWasAsked
  BY DEF Init, ReadsWhatWasAsked
<1>3. CacheInv /\ ReadsWhatWasAsked /\ [Next]_vars => ReadsWhatWasAsked'
  BY <1>1 DEF ReadsWhatWasAsked, Next, vars
<1>4. QED
  BY <1>2, <1>3, CacheInvariant, PTL DEF Spec

\* A read is counted as a miss exactly when no valid line holds its block.
THEOREM MissesAreCounted ==
  ASSUME AddressesFit
  PROVE  Spec => MissesAreMisses
<1>1. ASSUME CacheInv, NEW a \in Addresses, cache_read(a)
      PROVE  miss_count' = miss_count <=> Holds(a)
  <2> DEFINE lines == sets[Index(a)]
             m == Min(Matching(lines, Tag(a)))
  <2>1. /\ a \in Nat /\ Index(a) \in SetNumbers /\ lines \in Lines /\ FoundFirst(lines)
        /\ miss_count' = (IF Found(lines, Tag(a)) THEN miss_count ELSE miss_count + 1)
        /\ a < IntMod
    BY <1>1, ReadStep DEF AddressesFit
  <2>2. miss_count' = miss_count <=> Found(lines, Tag(a))
    BY <1>1, <2>1 DEF CacheInv, TypeOK
  <2>3. ASSUME Found(lines, Tag(a))
        PROVE  Holds(a)
    <3>1. Matching(lines, Tag(a)) # {} /\ lines[m].is_valid
      BY <2>3 DEF Found
    <3>2. m \in 1 .. associativity /\ lines[m].tag = Tag(a)
      BY <2>1, <3>1, FirstMatch, IndexInSets
    <3> HIDE DEF m
    <3>3. PICK d \in Addresses : /\ Index(d) = Index(a)
                                 /\ lines[m].tag = Tag(d) /\ lines[m].data = Base(d)
      BY <1>1, <2>1, <3>1, <3>2 DEF CacheInv, HoldsABlock
    <3>4. d \in Nat /\ d < IntMod
      BY <1>1, CacheAssumption DEF AddressesFit
    <3>5. Base(d) = Base(a)
      BY <2>1, <3>2, <3>3, <3>4, SameLineSameBlock
    <3>6. QED
      BY <3>1, <3>2, <3>3, <3>5 DEF Holds, Valid, ValidOf
  <2>4. ASSUME Holds(a)
        PROVE  Found(lines, Tag(a))
    <3>1. PICK k \in 1 .. associativity : lines[k].is_valid /\ lines[k].data = Base(a)
      BY <2>4 DEF Holds, Valid, ValidOf
    <3>2. PICK d \in Addresses : /\ Index(d) = Index(a)
                                 /\ lines[k].tag = Tag(d) /\ lines[k].data = Base(d)
      BY <1>1, <2>1, <3>1 DEF CacheInv, HoldsABlock
    <3>3. Tag(Base(d)) = Tag(d) /\ Tag(Base(a)) = Tag(a)
      BY <2>1, CacheAssumption, BaseHasSameLine
    <3>4. lines[k].tag = Tag(a) /\ Tag(a) \in Nat
      BY <2>1, <3>1, <3>2, <3>3, IndexInSets
    <3>5. QED
      BY <2>1, <3>1, <3>4, FoundIfValid
  <2>5. QED
    BY <2>2, <2>3, <2>4
<1>2. CacheInv =>
        (\A address \in Addresses :
            cache_read(address) => (miss_count' = miss_count <=> Holds(address)))
  BY <1>1
<1>3. QED
  BY <1>2, CacheInvariant, PTL DEF Spec, MissesAreMisses

-----------------------------------------------------------------------------
(* The cache steps like LRU. *)

\* Both moving line m to the front and, for the last m, replacing it by a new
\* line in front push the lines before it back by one.
Pushed(lines, m, lines2) ==
    \A j \in 2 .. associativity : lines2[j] = lines[IF j <= m THEN j - 1 ELSE j]

UsedTag(tag) == \E a \in Addresses : tag = Tag(a)

\* An invalid line in front of a valid one bears a tag that the program uses:
\* only a search for that tag can have moved it there.
StraysFirst(lines) ==
    \A j, k \in 1 .. associativity :
        j < k /\ lines[k].is_valid => lines[j].is_valid \/ UsedTag(lines[j].tag)

LEMMA PushKeepsStraysFirst ==
  ASSUME NEW lines \in Lines, NEW lines2 \in Lines, NEW m \in 1 .. associativity,
         Pushed(lines, m, lines2), StraysFirst(lines),
         lines2[1].is_valid \/ UsedTag(lines2[1].tag)
  PROVE  StraysFirst(lines2)
<1>1. associativity \in Nat \ {0}
  BY CacheAssumption
<1>2. ASSUME NEW j \in 1 .. associativity, NEW k \in 1 .. associativity, j < k, lines2[k].is_valid,
             j # 1
      PROVE  lines2[j].is_valid \/ UsedTag(lines2[j].tag)
  <2>1. j \in 2 .. associativity /\ k \in 2 .. associativity
    BY <1>1, <1>2
  <2>2. PICK i \in 1 .. associativity : i = (IF j <= m THEN j - 1 ELSE j) /\ lines2[j] = lines[i]
    BY <1>1, <2>1 DEF Pushed
  <2>3. PICK l \in 1 .. associativity : l = (IF k <= m THEN k - 1 ELSE k) /\ lines2[k] = lines[l]
    BY <1>1, <2>1 DEF Pushed
  <2>4. i < l
    BY <1>2, <2>2, <2>3
  <2>5. QED
    BY <1>2, <2>2, <2>3, <2>4 DEF StraysFirst
<1>3. QED
  BY <1>2 DEF StraysFirst

LEMMA MruPushes ==
  ASSUME NEW lines \in Lines, NEW m \in 1 .. associativity
  PROVE  Pushed(lines, m, cache_line_make_mru(lines, m))
BY CacheAssumption DEF Pushed, cache_line_make_mru

LEMMA AddPushes ==
  ASSUME NEW lines \in Lines, NEW a \in Nat
  PROVE  /\ Pushed(lines, associativity, cache_set_add(lines, a))
         /\ cache_set_add(lines, a)[1] = Added(a) /\ cache_set_add(lines, a) \in Lines
<1>1. \A j \in 2 .. associativity : cache_set_add(lines, a)[j] = lines[j - 1]
  BY AddedLines
<1>2. associativity \in Nat
  BY CacheAssumption
<1>3. QED
  BY <1>1, <1>2, AddedLines DEF Pushed, Added

\* A read pushes the lines of its set once, or twice if it has found an
\* invalid line.
LEMMA ReadPushes ==
  ASSUME NEW lines \in Lines, NEW a \in Nat, FoundFirst(lines)
  PROVE  LET m == Min(Matching(lines, Tag(a)))
             read == Read(lines, a)
         IN  /\ Found(lines, Tag(a)) =>
                   /\ m \in 1 .. associativity /\ lines[m].tag = Tag(a) /\ lines[m].is_valid
                   /\ Pushed(lines, m, read) /\ read[1] = lines[m]
             /\ Matching(lines, Tag(a)) = {} =>
                   Pushed(lines, associativity, read) /\ read[1] = Added(a)
             /\ ~ Found(lines, Tag(a)) /\ Matching(lines, Tag(a)) # {} =>
                   /\ m \in 1 .. associativity /\ lines[m].tag = Tag(a)
                   /\ \E searched \in Lines :
                         /\ Pushed(lines, m, searched) /\ searched[1] = lines[m]
                         /\ Pushed(searched, associativity, read) /\ read[1] = Added(a)
<1> DEFINE m == Min(Matching(lines, Tag(a)))
           searched == cache_line_make_mru(lines, m)
<1>1. Tag(a) \in Nat
  BY IndexInSets
<1>2. ASSUME Matching(lines, Tag(a)) # {}
      PROVE  /\ m \in 1 .. associativity /\ lines[m].tag = Tag(a)
             /\ searched \in Lines /\ searched[1] = lines[m] /\ Pushed(lines, m, searched)
             /\ cache_set_find_matching_line(lines, Tag(a)) = searched
  <2>1. m \in 1 .. associativity /\ lines[m].tag = Tag(a)
    BY <1>1, <1>2, FirstMatch
  <2>2. cache_set_find_matching_line(lines, Tag(a)) = searched
    BY <1>2 DEF cache_set_find_matching_line
  <2> HIDE DEF m
  <2>3. QED
    BY <2>1, <2>2, MostRecent, MruPushes
<1>3. CASE Found(lines, Tag(a))
  <2>1. Matching(lines, Tag(a)) # {} /\ lines[m].is_valid
    BY <1>3 DEF Found
  <2>2. Read(lines, a) = searched
    BY <1>2, <1>3, <2>1 DEF Read
  <2> HIDE DEF m, searched
  <2>3. QED
    BY <1>2, <1>3, <2>1, <2>2 DEF m
<1>4. CASE Matching(lines, Tag(a)) = {}
  <2>1. ~ Found(lines, Tag(a)) /\ cache_set_find_matching_line(lines, Tag(a)) = lines
    BY <1>4 DEF Found, cache_set_find_matching_line
  <2>2. Read(lines, a) = cache_set_add(lines, a)
    BY <2>1 DEF Read
  <2>3. QED
    BY <1>4, <2>1, <2>2, AddPushes
<1>5. CASE ~ Found(lines, Tag(a)) /\ Matching(lines, Tag(a)) # {}
  <2>1. Read(lines, a) = cache_set_add(searched, a)
    BY <1>2, <1>5 DEF Read
  <2> HIDE DEF m, searched
  <2>2. Pushed(searched, associativity, Read(lines, a)) /\ Read(lines, a)[1] = Added(a)
    BY <1>2, <1>5, <2>1, AddPushes
  <2>3. QED
    BY <1>2, <1>5, <2>2 DEF m
<1>6. QED
  BY <1>3, <1>4, <1>5

LEMMA ReadKeepsStraysFirst ==
  ASSUME NEW lines \in Lines, NEW a \in Addresses, FoundFirst(lines), StraysFirst(lines)
  PROVE  StraysFirst(Read(lines, a))
<1> DEFINE m == Min(Matching(lines, Tag(a)))
<1>1. a \in Nat /\ Read(lines, a) \in Lines /\ associativity \in 1 .. associativity
  BY ReadLines, CacheAssumption
<1>2. UsedTag(Tag(a)) /\ Added(a).is_valid
  BY DEF UsedTag, Added
<1>3. CASE Found(lines, Tag(a))
  BY <1>1, <1>3, ReadPushes, PushKeepsStraysFirst
<1>4. CASE Matching(lines, Tag(a)) = {}
  BY <1>1, <1>2, <1>4, ReadPushes, PushKeepsStraysFirst
<1>5. CASE ~ Found(lines, Tag(a)) /\ Matching(lines, Tag(a)) # {}
  <2>1. m \in 1 .. associativity /\ lines[m].tag = Tag(a)
    BY <1>1, <1>5, ReadPushes
  <2>2. PICK searched \in Lines :
           /\ Pushed(lines, m, searched) /\ searched[1] = lines[m]
           /\ Pushed(searched, associativity, Read(lines, a)) /\ Read(lines, a)[1] = Added(a)
    BY <1>1, <1>5, ReadPushes
  <2> HIDE DEF m
  <2>3. StraysFirst(searched)
    BY <1>2, <2>1, <2>2, PushKeepsStraysFirst
  <2>4. QED
    BY <1>1, <1>2, <2>2, <2>3, PushKeepsStraysFirst
<1>6. QED
  BY <1>3, <1>4, <1>5

\* The valid lines hold different blocks.
DifferentBlocks(lines) ==
    \A j, k \in ValidOf(lines) : BlockOf(lines[j]) = BlockOf(lines[k]) => j = k

\* The blocks of all valid lines but line m, which may be invalid.
BlocksBut(lines, m) == {BlockOf(lines[k]) : k \in ValidOf(lines) \ {m}}

\* A line of block b comes to the front and line m leaves its place: b is the
\* block used last and the others stay in order.
LEMMA PushUses ==
  ASSUME NEW lines \in Lines, NEW lines2 \in Lines, NEW m \in 1 .. associativity,
         Pushed(lines, m, lines2), DifferentBlocks(lines),
         NEW b, lines2[1].is_valid, BlockOf(lines2[1]) = b
  PROVE  /\ BlocksOf(lines2) = BlocksBut(lines, m) \union {b}
         /\ OrderOf(lines2) = Simulated!Among(OrderOf(lines), BlocksBut(lines, m))
                                 \union ({b} \X BlocksBut(lines, m))
<1> DEFINE kept == BlocksBut(lines, m)
           before(j) == IF j <= m THEN j - 1 ELSE j
           after(i) == IF i < m THEN i + 1 ELSE i
<1>1. associativity \in Nat \ {0} /\ 1 \in ValidOf(lines2)
  BY CacheAssumption DEF ValidOf
<1>2. ASSUME NEW j \in ValidOf(lines2), j # 1
      PROVE  /\ before(j) \in ValidOf(lines) \ {m} /\ j = after(before(j))
             /\ BlockOf(lines2[j]) = BlockOf(lines[before(j)]) /\ BlockOf(lines2[j]) \in kept
  <2>1. j \in 2 .. associativity /\ lines2[j].is_valid
    BY <1>1, <1>2 DEF ValidOf
  <2>2. PICK i \in 1 .. associativity : i = before(j) /\ lines2[j] = lines[i] /\ i # m /\ j = after(i)
    BY <1>1, <2>1 DEF Pushed
  <2>3. i \in ValidOf(lines) \ {m}
    BY <2>1, <2>2 DEF ValidOf
  <2>4. QED
    BY <2>2, <2>3 DEF BlocksBut
<1>3. ASSUME NEW i \in ValidOf(lines) \ {m}
      PROVE  /\ after(i) \in ValidOf(lines2) /\ after(i) # 1 /\ i = before(after(i))
             /\ BlockOf(lines2[after(i)]) = BlockOf(lines[i])
  <2>1. i \in 1 .. associativity /\ lines[i].is_valid /\ i # m
    BY <1>3 DEF ValidOf
  <2>2. PICK j \in 2 .. associativity : j = after(i) /\ i = before(j)
    BY <1>1, <2>1
  <2>3. lines2[j] = lines[i] /\ j \in 1 .. associativity /\ j # 1
    BY <1>1, <2>2 DEF Pushed
  <2>4. QED
    BY <2>1, <2>2, <2>3 DEF ValidOf
<1>4. \A i, l \in 1 .. associativity : i < l => after(i) < after(l) \/ l = m \/ i = m
  BY <1>1
<1>5. \A j, k \in 2 .. associativity : j < k => before(j) < before(k)
  BY <1>1
<1>6. \A k \in ValidOf(lines) \union ValidOf(lines2) : k \in 1 .. associativity
  BY DEF ValidOf
<1> HIDE DEF before, after
<1>7. BlocksOf(lines2) = kept \union {b}
  <2>1. ASSUME NEW c \in BlocksOf(lines2)
        PROVE  c \in kept \union {b}
    <3>1. PICK j \in ValidOf(lines2) : c = BlockOf(lines2[j])
      BY DEF BlocksOf
    <3>2. QED
      BY <1>2, <3>1
  <2>2. ASSUME NEW c \in kept
        PROVE  c \in BlocksOf(lines2)
    <3>1. PICK i \in ValidOf(lines) \ {m} : c = BlockOf(lines[i])
      BY DEF BlocksBut
    <3>2. QED
      BY <1>3, <3>1 DEF BlocksOf
  <2>3. b \in BlocksOf(lines2)
    BY <1>1 DEF BlocksOf
  <2>4. QED
    BY <2>1, <2>2, <2>3
<1>8. ASSUME NEW p \in OrderOf(lines2)
      PROVE  p \in Simulated!Among(OrderOf(lines), kept) \union ({b} \X kept)
  <2>1. PICK j \in ValidOf(lines2), k \in ValidOf(lines2) :
           j < k /\ p = <<BlockOf(lines2[j]), BlockOf(lines2[k])>>
    BY DEF OrderOf
  <2>2. k # 1 /\ j \in 1 .. associativity /\ k \in 1 .. associativity
    BY <1>1, <1>6, <2>1
  <2>3. BlockOf(lines2[k]) \in kept
    BY <1>2, <2>2
  <2>4. CASE j = 1
    BY <2>1, <2>3, <2>4
  <2>5. CASE j # 1
    <3>1. before(j) < before(k)
      BY <1>1, <1>5, <2>1, <2>2, <2>5
    <3>2. /\ before(j) \in ValidOf(lines) /\ before(k) \in ValidOf(lines)
          /\ p = <<BlockOf(lines[before(j)]), BlockOf(lines[before(k)])>>
          /\ BlockOf(lines2[j]) \in kept
      BY <1>2, <2>1, <2>2, <2>5
    <3>3. p \in OrderOf(lines)
      <4>1. BlockOf(lines[before(j)]) \in BlocksOf(lines)
            /\ BlockOf(lines[before(k)]) \in BlocksOf(lines)
        BY <3>2 DEF BlocksOf
      <4>2. QED
        BY <3>1, <3>2, <4>1 DEF OrderOf
    <3>4. p[1] \in kept /\ p[2] \in kept
      BY <2>1, <2>3, <3>2
    <3>5. QED
      BY <3>3, <3>4 DEF Simulated!Among
  <2>6. QED
    BY <2>4, <2>5
<1>9. ASSUME NEW c \in kept
      PROVE  <<b, c>> \in OrderOf(lines2)
  <2>1. PICK i \in ValidOf(lines) \ {m} : c = BlockOf(lines[i])
    BY DEF BlocksBut
  <2>2. PICK k \in ValidOf(lines2) : k # 1 /\ c = BlockOf(lines2[k])
    BY <1>3, <2>1
  <2>3. 1 < k
    BY <1>1, <1>6, <2>2
  <2>4. QED
    BY <1>1, <1>7, <2>2, <2>3 DEF OrderOf
<1>10. ASSUME NEW p \in Simulated!Among(OrderOf(lines), kept)
       PROVE  p \in OrderOf(lines2)
  <2>1. p \in OrderOf(lines) /\ p[1] \in kept /\ p[2] \in kept
    BY DEF Simulated!Among
  <2>2. PICK i \in ValidOf(lines), l \in ValidOf(lines) :
           i < l /\ p = <<BlockOf(lines[i]), BlockOf(lines[l])>>
    BY <2>1 DEF OrderOf
  <2>3. i # m /\ l # m
    <3>1. \A c \in kept : \E k \in ValidOf(lines) \ {m} : c = BlockOf(lines[k])
      BY DEF BlocksBut
    <3>2. PICK x \in ValidOf(lines) \ {m} : BlockOf(lines[i]) = BlockOf(lines[x])
      BY <2>1, <2>2, <3>1
    <3>3. PICK y \in ValidOf(lines) \ {m} : BlockOf(lines[l]) = BlockOf(lines[y])
      BY <2>1, <2>2, <3>1
    <3>4. QED
      BY <2>2, <3>2, <3>3 DEF DifferentBlocks
  <2>4. after(i) < after(l)
    BY <1>4, <1>6, <2>2, <2>3
  <2>5. /\ after(i) \in ValidOf(lines2) /\ after(l) \in ValidOf(lines2)
        /\ p = <<BlockOf(lines2[after(i)]), BlockOf(lines2[after(l)])>>
    BY <1>3, <2>2, <2>3
  <2>6. p \in BlocksOf(lines2) \X BlocksOf(lines2)
    BY <2>5 DEF BlocksOf
  <2>7. QED
    BY <2>4, <2>5, <2>6 DEF OrderOf
<1>11. QED
  <2>1. \A p \in {b} \X kept : p \in OrderOf(lines2)
    BY <1>9
  <2>2. QED
    BY <1>7, <1>8, <1>10, <2>1

LEMMA BlockOfBase ==
  ASSUME NEW a \in Nat
  PROVE  /\ a \div block_offset \in Nat
         /\ Base(a) = block_offset * (a \div block_offset)
         /\ Base(a) \div block_offset = a \div block_offset
<1>1. /\ block_offset \in Nat \ {0} /\ a \div block_offset \in Nat
      /\ a = block_offset * (a \div block_offset) + (a % block_offset)
      /\ a % block_offset \in Nat
  BY Sizes, DivMod
<1>2. PICK b \in Nat \ {0}, q \in Nat, r \in Nat :
         b = block_offset /\ q = a \div block_offset /\ r = a % block_offset /\ a = b * q + r
  BY <1>1
<1>3. b * q \in Nat /\ Base(a) = b * q
  BY <1>2 DEF Base
<1>4. (b * q + 0) \div b = q
  BY <1>2, DivUnique
<1>5. (b * q) \div b = q
  BY <1>3, <1>4
<1>6. QED
  BY <1>1, <1>2, <1>3, <1>5

\* A valid line has the tag of an address of its set just if it holds the
\* address's block.
LEMMA TagOfBlock ==
  ASSUME AddressesFit, CacheInv, NEW a \in Addresses, NEW k \in ValidOf(sets[Index(a)])
  PROVE  LET line == sets[Index(a)][k]
         IN  line.tag = Tag(a) <=> BlockOf(line) = a \div block_offset
<1> DEFINE line == sets[Index(a)][k]
<1>1. a \in Nat /\ a < IntMod /\ Index(a) \in SetNumbers
  BY CacheAssumption, IndexInSets DEF AddressesFit
<1>2. PICK d \in Addresses : Index(d) = Index(a) /\ line.tag = Tag(d) /\ line.data = Base(d)
  BY <1>1 DEF CacheInv, HoldsABlock, ValidOf
<1>3. d \in Nat /\ d < IntMod
  BY CacheAssumption DEF AddressesFit
<1>4. BlockOf(line) = d \div block_offset
  BY <1>2, <1>3, BlockOfBase DEF BlockOf
<1>5. ASSUME line.tag = Tag(a)
      PROVE  d \div block_offset = a \div block_offset
  <2>1. Base(a) = Base(d)
    BY <1>1, <1>2, <1>3, <1>5, SameLineSameBlock
  <2>2. QED
    BY <1>1, <1>3, <2>1, BlockOfBase
<1>6. ASSUME d \div block_offset = a \div block_offset
      PROVE  line.tag = Tag(a)
  <2>1. Base(a) = Base(d)
    BY <1>1, <1>3, <1>6, BlockOfBase
  <2>2. Tag(a) = Tag(d)
    BY <1>1, <1>3, <2>1, BaseHasSameLine
  <2>3. QED
    BY <1>2, <2>2
<1>7. QED
  BY <1>4, <1>5, <1>6

LEMMA BlocksDiffer ==
  ASSUME AddressesFit, CacheInv, NEW s \in SetNumbers
  PROVE  DifferentBlocks(sets[s])
<1>1. SUFFICES ASSUME NEW j \in ValidOf(sets[s]), NEW k \in ValidOf(sets[s]),
                      BlockOf(sets[s][j]) = BlockOf(sets[s][k])
               PROVE  j = k
  BY DEF DifferentBlocks
<1>2. /\ j \in 1 .. associativity /\ k \in 1 .. associativity /\ associativity \in Nat
      /\ sets[s][j].is_valid /\ sets[s][k].is_valid
  BY CacheAssumption DEF ValidOf
<1>3. PICK d \in Addresses : Index(d) = s /\ sets[s][j].tag = Tag(d) /\ sets[s][j].data = Base(d)
  BY <1>2 DEF CacheInv, HoldsABlock
<1>4. BlockOf(sets[s][j]) = d \div block_offset
  BY <1>3, TagOfBlock
<1>5. sets[s][k].tag = sets[s][j].tag
  BY <1>1, <1>3, <1>4, TagOfBlock
<1>6. FoundFirst(sets[s])
  BY DEF CacheInv
<1>7. ~ (j < k)
  <2>1. j < k => j \in 1 .. (k - 1)
    BY <1>2
  <2>2. QED
    BY <1>2, <1>5, <1>6, <2>1 DEF FoundFirst
<1>8. ~ (k < j)
  <2>1. k < j => k \in 1 .. (j - 1)
    BY <1>2
  <2>2. QED
    BY <1>2, <1>5, <1>6, <2>1 DEF FoundFirst
<1>9. QED
  BY <1>2, <1>7, <1>8

\* A set of lines with different blocks is full just if its lines are valid.
LEMMA BlocksAreCounted ==
  ASSUME NEW lines \in Lines, DifferentBlocks(lines)
  PROVE  /\ ValidOf(lines) = 1 .. associativity => Cardinality(BlocksOf(lines)) = associativity
         /\ associativity \notin ValidOf(lines) => Cardinality(BlocksOf(lines)) < associativity
<1>1. associativity \in Nat \ {0}
  BY CacheAssumption
<1>2. /\ IsFiniteSet(1 .. associativity) /\ Cardinality(1 .. associativity) = associativity
      /\ IsFiniteSet(1 .. (associativity - 1))
      /\ Cardinality(1 .. (associativity - 1)) = associativity - 1
  BY <1>1, FS_Interval
<1>3. IsFiniteSet(ValidOf(lines)) /\ ValidOf(lines) \subseteq 1 .. associativity
  BY <1>2, FS_Subset DEF ValidOf
<1> DEFINE f == [k \in ValidOf(lines) |-> BlockOf(lines[k])]
<1>4. f \in Surjection(ValidOf(lines), BlocksOf(lines))
  BY DEF Surjection, BlocksOf
<1>5. f \in Injection(ValidOf(lines), BlocksOf(lines))
  BY <1>4 DEF Injection, Surjection, IsInjective, DifferentBlocks
<1> HIDE DEF f
<1>6. Cardinality(BlocksOf(lines)) = Cardinality(ValidOf(lines))
  BY <1>3, <1>4, <1>5, FS_Surjection
<1>7. ASSUME associativity \notin ValidOf(lines)
      PROVE  Cardinality(ValidOf(lines)) < associativity
  <2>1. ValidOf(lines) \subseteq 1 .. (associativity - 1)
    BY <1>1, <1>3, <1>7
  <2>2. Cardinality(ValidOf(lines)) <= associativity - 1
    BY <1>2, <2>1, FS_Subset
  <2>3. Cardinality(ValidOf(lines)) \in Nat
    BY <1>3, FS_CardinalityType
  <2>4. QED
    BY <1>1, <2>2, <2>3
<1>8. QED
  BY <1>2, <1>6, <1>7

\* LRU counts blocks as this module does.
LEMMA CountedAlike ==
  ASSUME NEW S
  PROVE  Simulated!Cardinality(S) = Cardinality(S)
BY DEF Simulated!Cardinality, Cardinality

LEMMA SetOfItsBlock ==
  ASSUME NEW a \in Nat, a < IntMod
  PROVE  SetOfBlock(a \div block_offset) = Index(a)
BY Fits DEF SetOfBlock, Index

\* A read that leaves such lines in its set is a use of the block by LRU.
LEMMA ReadIsUse ==
  ASSUME NEW a \in Nat, a < IntMod, NEW kept,
         sets \in [SetNumbers -> Lines],
         sets' = [sets EXCEPT ![Index(a)] = Read(sets[Index(a)], a)],
         BlocksOf(Read(sets[Index(a)], a)) = kept \union {a \div block_offset},
         OrderOf(Read(sets[Index(a)], a))
            = Simulated!Among(OrderOf(sets[Index(a)]), kept)
                 \union ({a \div block_offset} \X kept)
  PROVE  Simulated!Use(a \div block_offset, kept)
<1> DEFINE i == Index(a)
           b == a \div block_offset
           read == Read(sets[i], a)
           pairs == Simulated!Among(OrderOf(sets[i]), kept) \union ({b} \X kept)
<1>1. i \in SetNumbers /\ SetOfBlock(b) = i
  BY IndexInSets, SetOfItsBlock
<1> HIDE DEF i, b, read, pairs
<1>2. /\ sets'[i] = read /\ \A s \in SetNumbers : s # i => sets'[s] = sets[s]
      /\ BlocksOf(read) = kept \union {b} /\ OrderOf(read) = pairs
  BY <1>1 DEF i, b, read, pairs
<1>3. [s \in SetNumbers |-> BlocksOf(sets'[s])]
         = [[s \in SetNumbers |-> BlocksOf(sets[s])] EXCEPT ![i] = kept \union {b}]
  BY <1>1, <1>2
<1>4. [s \in SetNumbers |-> OrderOf(sets'[s])]
         = [[s \in SetNumbers |-> OrderOf(sets[s])] EXCEPT ![i] = pairs]
  BY <1>1, <1>2
<1>5. [s \in SetNumbers |-> OrderOf(sets[s])][i] = OrderOf(sets[i])
  BY <1>1
<1>6. QED
  BY <1>1, <1>3, <1>4, <1>5 DEF Simulated!Use, pairs, b

\* A read of a set in which the lines before a valid one are valid and no
\* invalid line bears a tag of the program.
LEMMA ReadIsAsLRU ==
  ASSUME AddressesFit, CacheInv, \A s \in SetNumbers : StraysFirst(sets[s]), NoStrayTag,
         NEW a \in Addresses, cache_read(a)
  PROVE  LET b == a \div block_offset
         IN  Simulated!Hit(b) \/ Simulated!MissWithRoom(b) \/ Simulated!MissWhenFull(b)
<1> DEFINE i == Index(a)
           lines == sets[i]
           b == a \div block_offset
           t == Tag(a)
           m == Min(Matching(lines, t))
           read == Read(lines, a)
           resident == [s \in SetNumbers |-> BlocksOf(sets[s])]
           newer == [s \in SetNumbers |-> OrderOf(sets[s])]
<1>1. /\ a \in Nat /\ a < IntMod /\ i \in SetNumbers /\ t \in Nat
      /\ lines \in Lines /\ FoundFirst(lines) /\ StraysFirst(lines) /\ DifferentBlocks(lines)
      /\ sets \in [SetNumbers -> Lines]
      /\ sets' = [sets EXCEPT ![i] = read]
      /\ miss_count' = IF Found(lines, t) THEN miss_count ELSE miss_count + 1
  BY ReadStep, IndexInSets, BlocksDiffer DEF AddressesFit, CacheInv, TypeOK
<1>2. read \in Lines /\ associativity \in Nat \ {0}
  BY <1>1, ReadLines, CacheAssumption
<1>3. SetOfBlock(b) = i /\ resident[i] = BlocksOf(lines) /\ newer[i] = OrderOf(lines)
  BY <1>1, SetOfItsBlock
<1>4. \A k \in ValidOf(lines) : lines[k].tag = t <=> BlockOf(lines[k]) = b
  BY TagOfBlock
<1>5. \A k \in 1 .. associativity : lines[k].is_valid \/ ~ UsedTag(lines[k].tag)
  BY <1>1 DEF NoStrayTag, UsedTag
<1>6. /\ Found(lines, t) =>
            /\ m \in 1 .. associativity /\ lines[m].tag = t /\ lines[m].is_valid
            /\ Pushed(lines, m, read) /\ read[1] = lines[m]
      /\ Matching(lines, t) = {} => Pushed(lines, associativity, read) /\ read[1] = Added(a)
  BY <1>1, ReadPushes
<1>7. ~ Found(lines, t) => Matching(lines, t) = {}
  <2>1. SUFFICES ASSUME ~ Found(lines, t), Matching(lines, t) # {} PROVE FALSE
    OBVIOUS
  <2>2. m \in 1 .. associativity /\ lines[m].tag = t /\ ~ lines[m].is_valid
    BY <1>1, <2>1, FirstMatch DEF Found
  <2>3. QED
    BY <1>5, <2>2 DEF UsedTag
<1>8. Added(a).is_valid /\ BlockOf(Added(a)) = b
  BY <1>1, BlockOfBase DEF Added, BlockOf
\* The front line holds b once line k has been dropped or moved there.
<1>9. ASSUME NEW k \in 1 .. associativity, Pushed(lines, k, read),
             read[1].is_valid, BlockOf(read[1]) = b
      PROVE  Simulated!Use(b, BlocksBut(lines, k))
  <2>1. /\ BlocksOf(read) = BlocksBut(lines, k) \union {b}
        /\ OrderOf(read) = Simulated!Among(OrderOf(lines), BlocksBut(lines, k))
                              \union ({b} \X BlocksBut(lines, k))
    BY <1>1, <1>2, <1>9, PushUses
  <2>2. QED
    BY <1>1, <2>1, ReadIsUse
<1> HIDE DEF i, lines, b, t, m, read, resident, newer
<1>10. CASE Found(lines, t)
  <2>1. /\ m \in 1 .. associativity /\ lines[m].tag = t /\ lines[m].is_valid
        /\ Pushed(lines, m, read) /\ read[1] = lines[m]
    BY <1>6, <1>10
  <2>2. m \in ValidOf(lines) /\ BlockOf(lines[m]) = b
    BY <1>4, <2>1 DEF ValidOf
  <2>3. b \in BlocksOf(lines)
    BY <2>2 DEF BlocksOf
  <2>4. BlocksBut(lines, m) = BlocksOf(lines) \ {b}
    BY <1>1, <2>2 DEF BlocksBut, BlocksOf, DifferentBlocks
  <2>5. Simulated!Use(b, BlocksOf(lines) \ {b})
    BY <1>9, <2>1, <2>2, <2>4
  <2>6. miss_count' = miss_count
    BY <1>1, <1>10
  <2>7. Simulated!Hit(b)
    BY <1>3, <2>3, <2>5, <2>6 DEF Simulated!Hit, resident
  <2>8. QED
    BY <2>7 DEF b
<1>11. CASE ~ Found(lines, t)
  <2>1. /\ Matching(lines, t) = {}
        /\ Pushed(lines, associativity, read) /\ read[1].is_valid /\ BlockOf(read[1]) = b
        /\ miss_count' = miss_count + 1 /\ associativity \in 1 .. associativity
    BY <1>1, <1>2, <1>6, <1>7, <1>8, <1>11
  <2>2. b \notin BlocksOf(lines)
    <3>1. \A k \in ValidOf(lines) : lines[k].tag # t
      BY <2>1 DEF Matching, ValidOf
    <3>2. QED
      BY <1>4, <3>1 DEF BlocksOf
  <2>3. Simulated!Use(b, BlocksBut(lines, associativity))
    BY <1>9, <2>1
  <2>4. CASE associativity \notin ValidOf(lines)
    <3>1. Cardinality(BlocksOf(lines)) < associativity
      BY <1>1, <2>4, BlocksAreCounted
    <3>2. BlocksBut(lines, associativity) = BlocksOf(lines)
      BY <2>4 DEF BlocksBut, BlocksOf
    <3>3. Simulated!MissWithRoom(b)
      BY <1>3, <2>1, <2>2, <2>3, <3>1, <3>2, CountedAlike DEF Simulated!MissWithRoom, resident
    <3>4. QED
      BY <3>3 DEF b
  <2>5. CASE associativity \in ValidOf(lines)
    <3> DEFINE oldest == BlockOf(lines[associativity])
    <3>1. ValidOf(lines) = 1 .. associativity
      <4>1. ASSUME NEW j \in 1 .. associativity
            PROVE  lines[j].is_valid
        BY <1>1, <1>2, <1>5, <2>1, <2>5 DEF StraysFirst, ValidOf
      <4>2. QED
        BY <4>1 DEF ValidOf
    <3>2. Cardinality(BlocksOf(lines)) = associativity
      BY <1>1, <3>1, BlocksAreCounted
    <3>3. oldest \in BlocksOf(lines)
      BY <2>5 DEF BlocksOf
    <3>4. BlocksBut(lines, associativity) = BlocksOf(lines) \ {oldest}
      BY <1>1, <2>5 DEF BlocksBut, BlocksOf, DifferentBlocks
    <3>5. ASSUME NEW c \in BlocksOf(lines) \ {oldest}
          PROVE  <<c, oldest>> \in OrderOf(lines)
      <4>1. PICK k \in ValidOf(lines) : c = BlockOf(lines[k])
        BY DEF BlocksOf
      <4>2. k < associativity
        BY <1>2, <3>1, <3>5, <4>1
      <4>3. QED
        BY <2>5, <3>3, <4>1, <4>2 DEF OrderOf
    <3> HIDE DEF oldest
    <3>6. Simulated!MissWhenFull(b)
      BY <1>3, <2>1, <2>2, <2>3, <3>2, <3>3, <3>4, <3>5, CountedAlike
      DEF Simulated!MissWhenFull, resident, newer
    <3>7. QED
      BY <3>6 DEF b
  <2>6. QED
    BY <2>4, <2>5
<1>12. QED
  BY <1>10, <1>11 DEF b

StraysInv == CacheInv /\ \A s \in SetNumbers : StraysFirst(sets[s])

LEMMA NoLineIsValidAtFirst ==
  ASSUME Init, NEW s \in SetNumbers
  PROVE  ValidOf(sets[s]) = {}
<1>1. \A k \in 1 .. associativity : sets[s][k].is_valid = FALSE
  BY DEF Init
<1>2. QED
  BY <1>1 DEF ValidOf

LEMMA StraysInvKept ==
  ASSUME StraysInv, [Next]_vars
  PROVE  StraysInv'
<1>1. CacheInv'
  BY CacheInvKept DEF StraysInv
<1>2. ASSUME NEW a \in Addresses, cache_read(a), NEW s \in SetNumbers
      PROVE  StraysFirst(sets'[s])
  <2> DEFINE i == Index(a)
             read == Read(sets[i], a)
  <2>1. /\ i \in SetNumbers /\ sets[i] \in Lines /\ FoundFirst(sets[i])
        /\ sets' = [sets EXCEPT ![i] = read]
    BY <1>2, ReadStep DEF StraysInv
  <2>2. StraysFirst(read)
    BY <2>1, ReadKeepsStraysFirst DEF StraysInv
  <2> HIDE DEF i, read
  <2>3. sets'[s] = IF s = i THEN read ELSE sets[s]
    BY <2>1 DEF StraysInv, CacheInv, TypeOK
  <2>4. QED
    BY <2>2, <2>3 DEF StraysInv
<1>3. ASSUME UNCHANGED vars, NEW s \in SetNumbers
      PROVE  StraysFirst(sets'[s])
  BY <1>3 DEF StraysInv, vars
<1>4. QED
  BY <1>1, <1>2, <1>3 DEF StraysInv, Next

\* The refinement: while malloc's leftovers bear no tag of the program, and
\* again once they have been replaced, a read is a hit, a miss with room or a
\* replacement of the block used longest ago, as LRU says.
THEOREM CacheStepsLikeLRU ==
  ASSUME AddressesFit
  PROVE  Spec => StepsLikeLRU
<1>1. Init => StraysInv
  <2> SUFFICES ASSUME Init PROVE StraysInv
    OBVIOUS
  <2>1. \A s \in SetNumbers : StraysFirst(sets[s])
    BY NoLineIsValidAtFirst DEF StraysFirst, ValidOf
  <2>2. QED
    BY <2>1, CacheInvInit DEF StraysInv
<1>2. StraysInv /\ [Next]_vars => StraysInv'
  BY StraysInvKept
<1>3. Init => Simulated!Init
  <2> SUFFICES ASSUME Init PROVE Simulated!Init
    OBVIOUS
  <2>1. ASSUME NEW s \in SetNumbers
        PROVE  BlocksOf(sets[s]) = {} /\ OrderOf(sets[s]) = {}
    BY NoLineIsValidAtFirst DEF BlocksOf, OrderOf
  <2>2. access_count = 0 /\ miss_count = 0
    BY DEF Init
  <2>3. QED
    BY <2>1, <2>2 DEF Simulated!Init
<1>4. ASSUME StraysInv, NoStrayTag, NEW a \in Addresses, cache_read(a)
      PROVE  Simulated!Next
  <2>1. LET b == a \div block_offset
        IN  Simulated!Hit(b) \/ Simulated!MissWithRoom(b) \/ Simulated!MissWhenFull(b)
    BY <1>4, ReadIsAsLRU DEF StraysInv
  <2>2. access_count' = access_count + 1
    BY <1>4, ReadStep DEF StraysInv
  <2>3. QED
    BY <2>1, <2>2 DEF Simulated!Next
<1>5. StraysInv /\ [Next]_vars => [NoStrayTag => Simulated!Next]_vars
  BY <1>4 DEF Next
<1>6. QED
  BY <1>1, <1>2, <1>3, <1>5, PTL DEF Spec, StepsLikeLRU
=============================================================================
