-------------------------- MODULE QuickSortProofs --------------------------
(***************************************************************************)
(* Theorems about lab3/sort.c: it sorts every array of integers, whatever   *)
(* its length, and only exchanges elements.                                 *)
(***************************************************************************)
EXTENDS QuickSort, FiniteSetTheorems, SequenceTheorems, TLAPS

\* What quickSort is called with: an array of some length.
InputsAreArrays == \A a \in Inputs : \E n \in Nat : a \in [0 .. (n - 1) -> Int]

Size == Cardinality(DOMAIN A)

Interval == Nat \X Nat
Running == [start : Nat, len : Nat, i : Nat, j : Nat, pivot : Int]

TypeOK ==
    /\ Size \in Nat /\ A \in [0 .. (Size - 1) -> Int]
    /\ pc \in {"enter", "scan", "return", "done"}
    /\ call \in IF pc = "scan" THEN Running ELSE [start : Nat, len : Nat]
    /\ pending \in Seq(Interval)

\* The locals of the loop, which runs over a range of two elements at least.
LocalsInRange ==
    pc = "scan" => call.len > 1 /\ call.start <= call.i /\ call.i <= call.j /\ call.j <= high

\* The ranges to be sorted follow each other in the array, the call's first
\* and then those pending, the last one pending next.
RangesFollow ==
    /\ call.start + call.len <= Size
    /\ \A k \in 1 .. Len(pending) :
          /\ call.start + call.len <= pending[k][1]
          /\ pending[k][1] + pending[k][2] <= Size
          /\ \A l \in 1 .. (k - 1) : pending[k][1] + pending[k][2] <= pending[l][1]

\* A call that returns leaves nothing of its range, and the last one nothing.
NothingLeft ==
    /\ pc \in {"return", "done"} => call = NoCall
    /\ pc = "done" => pending = << >>

\* InOrder, without the set of ranges.
InCall(p) == call.start <= p /\ p < call.start + call.len
InPending(k, p) == pending[k][1] <= p /\ p < pending[k][1] + pending[k][2]
Apart(p, q) ==
    /\ ~ (InCall(p) /\ InCall(q))
    /\ \A k \in 1 .. Len(pending) : ~ (InPending(k, p) /\ InPending(k, q))
OrderedApart == \A p, q \in DOMAIN A : p < q /\ Apart(p, q) => A[p] <= A[q]

SortInv ==
    TypeOK /\ LocalsInRange /\ RangesFollow /\ NothingLeft /\ Partition /\ OrderedApart

-----------------------------------------------------------------------------
LEMMA InOrderFromApart ==
  ASSUME TypeOK, OrderedApart
  PROVE  InOrder
<1>1. \A p \in DOMAIN A : p \in Int
  BY DEF TypeOK
<1>2. call.start \in Nat /\ call.len \in Nat
  BY DEF TypeOK, Running
<1>3. \A k \in DOMAIN pending : pending[k] \in Interval
  BY DEF TypeOK
<1>4. ASSUME NEW p \in DOMAIN A
      PROVE  /\ p \in Positions(call.start, call.len) <=> InCall(p)
             /\ \A k \in DOMAIN pending :
                   p \in Positions(pending[k][1], pending[k][2]) <=> InPending(k, p)
  BY <1>1, <1>2, <1>3 DEF Positions, InCall, InPending, Interval
<1>5. DOMAIN pending = 1 .. Len(pending)
  BY DEF TypeOK
<1>6. ASSUME NEW p \in DOMAIN A, NEW q \in DOMAIN A,
             \A range \in Open : ~ (p \in range /\ q \in range)
      PROVE  Apart(p, q)
  BY <1>4, <1>5, <1>6 DEF Apart, Open
<1>7. QED
  BY <1>6 DEF InOrder, OrderedApart

-----------------------------------------------------------------------------
LEMMA SortInvInit ==
  ASSUME InputsAreArrays, Init
  PROVE  SortInv
<1>1. PICK n \in Nat : A \in [0 .. (n - 1) -> Int]
  BY DEF InputsAreArrays, Init
<1>2. Size = n
  BY <1>1, FS_Interval DEF Size
<1>3. TypeOK
  BY <1>1, <1>2 DEF TypeOK, Init, Call, Size
<1>4. OrderedApart
  BY <1>1, <1>2 DEF Init, Call, InCall, Size, Apart, OrderedApart
<1>5. QED
  BY <1>2, <1>3, <1>4
     DEF SortInv, LocalsInRange, RangesFollow, NothingLeft, Partition, Init, Call, Size

-----------------------------------------------------------------------------
(* Exchanges. *)

LEMMA SwappedType ==
  ASSUME NEW n \in Nat, NEW a \in [0 .. (n - 1) -> Int],
         NEW p \in 0 .. (n - 1), NEW q \in 0 .. (n - 1)
  PROVE  /\ Swapped(a, p, q) \in [0 .. (n - 1) -> Int]
         /\ Swapped(a, p, q)[q] = a[p]
         /\ Swapped(a, p, q)[p] = a[q]
         /\ \A x \in 0 .. (n - 1) : x # p /\ x # q => Swapped(a, p, q)[x] = a[x]
  BY DEF Swapped

LEMMA SizeKept ==
  ASSUME TypeOK, A' \in [0 .. (Size - 1) -> Int]
  PROVE  Size' = Size
  BY DEF TypeOK, Size

LEMMA PendingType ==
  ASSUME TypeOK
  PROVE  /\ Len(pending) \in Nat
         /\ \A k \in 1 .. Len(pending) :
               pending[k] \in Interval /\ pending[k][1] \in Nat /\ pending[k][2] \in Nat
<1>1. pending \in Seq(Interval)
  BY DEF TypeOK
<1>2. Len(pending) \in Nat /\ \A k \in 1 .. Len(pending) : pending[k] \in Interval
  BY <1>1
<1>3. QED
  BY <1>2 DEF Interval

\* An exchange inside the range of the call under way.
LEMMA SwapKeepsOthersOrdered ==
  ASSUME TypeOK, RangesFollow, OrderedApart,
         NEW p \in 0 .. (Size - 1), NEW q \in 0 .. (Size - 1), InCall(p), InCall(q),
         NEW x \in 0 .. (Size - 1), NEW y \in 0 .. (Size - 1), x < y, Apart(x, y)
  PROVE  Swapped(A, p, q)[x] <= Swapped(A, p, q)[y]
<1> DEFINE B == Swapped(A, p, q)
           From(z) == IF z = p THEN q ELSE IF z = q THEN p ELSE z
<1>1. call.start \in Nat /\ call.len \in Nat
  BY DEF TypeOK, Running
<1>2. \A k \in 1 .. Len(pending) : pending[k][1] \in Nat /\ pending[k][2] \in Nat
  BY PendingType
<1>3. Size \in Nat /\ A \in [0 .. (Size - 1) -> Int]
  BY DEF TypeOK
<1>4. \A z \in 0 .. (Size - 1) : B[z] = A[From(z)] /\ From(z) \in 0 .. (Size - 1)
  BY <1>3 DEF Swapped
<1>5. \A z \in 0 .. (Size - 1) : InCall(z) <=> InCall(From(z))
  OBVIOUS
<1>6. \A k \in 1 .. Len(pending) : \A z \in 0 .. (Size - 1) : InCall(z) => ~ InPending(k, z)
  BY <1>1, <1>2 DEF InCall, InPending, RangesFollow
<1>7. \A k \in 1 .. Len(pending) : \A z \in 0 .. (Size - 1) :
         InPending(k, From(z)) <=> InPending(k, z)
  BY <1>6
<1>8. Apart(From(x), From(y))
  BY <1>4, <1>5, <1>7 DEF Apart
<1>9. From(x) < From(y)
  BY <1>1, <1>4, <1>5 DEF Apart, InCall
<1>10. QED
  BY <1>3, <1>4, <1>8, <1>9 DEF OrderedApart

-----------------------------------------------------------------------------
(* The steps. *)

LEMMA ReturnKeeps ==
  ASSUME SortInv, ReturnAtOnce
  PROVE  SortInv'
<1> USE DEF SortInv
<1>1. /\ UNCHANGED <<A, pending>> /\ pc' = "return" /\ call' = NoCall
      /\ call.start \in Nat /\ call.len \in Nat /\ call.len <= 1
  BY DEF ReturnAtOnce, TypeOK, Running
<1>2. TypeOK' /\ Size' = Size
  BY <1>1 DEF TypeOK, NoCall, Size
<1>3. RangesFollow'
  BY <1>1, <1>2, PendingType DEF RangesFollow, NoCall, TypeOK
<1>4. OrderedApart'
  BY <1>1, PendingType DEF OrderedApart, Apart, InCall, InPending, NoCall, TypeOK
<1>5. QED
  BY <1>1, <1>2, <1>3, <1>4 DEF LocalsInRange, NothingLeft, Partition

LEMMA BeginKeeps ==
  ASSUME SortInv, Begin
  PROVE  SortInv'
<1> USE DEF SortInv
<1>1. /\ UNCHANGED <<A, pending>> /\ pc' = "scan"
      /\ call.start \in Nat /\ call.len \in Nat /\ call.len > 1
      /\ call' = [start |-> call.start, len |-> call.len,
                  i |-> call.start, j |-> call.start, pivot |-> A[high]]
  BY DEF Begin, TypeOK, Running
<1>2. Size \in Nat /\ A \in [0 .. (Size - 1) -> Int] /\ Size' = Size
  BY <1>1 DEF TypeOK, Size
<1>3. high \in 0 .. (Size - 1) /\ high' = high
  BY <1>1, <1>2 DEF RangesFollow, high
<1>4. TypeOK'
  BY <1>1, <1>2, <1>3 DEF TypeOK, Running
<1>5. RangesFollow' /\ OrderedApart'
  BY <1>1, <1>2 DEF RangesFollow, OrderedApart, Apart, InCall, InPending
<1>6. LocalsInRange' /\ Partition'
  <2>1. PICK s \in Nat, len \in Nat, h \in Int :
          s = call.start /\ len = call.len /\ len > 1 /\ h = high /\ h = s + len - 1
    BY <1>1, <1>3 DEF high
  <2>2. call' = [start |-> s, len |-> len, i |-> s, j |-> s, pivot |-> A[h]]
    BY <1>1, <2>1
  <2>3. high' = h
    BY <1>3, <2>1
  <2>4. LocalsInRange'
    BY <2>1, <2>2, <2>3 DEF LocalsInRange
  <2>5. Partition'
    BY <1>1, <2>1, <2>2, <2>3 DEF Partition
  <2>6. QED
    BY <2>4, <2>5
<1>7. QED
  BY <1>1, <1>4, <1>5, <1>6 DEF NothingLeft

\* What the loop knows of its locals.
Locals(s, len, i, j, v) ==
    /\ s <= i /\ i <= j /\ j < s + len /\ s + len <= Size
    /\ \A p \in s .. (i - 1) : A[p] <= v
    /\ \A p \in i .. (j - 1) : A[p] > v
    /\ A[s + len - 1] = v

LEMMA ScanLocals ==
  ASSUME SortInv, pc = "scan"
  PROVE  /\ Size \in Nat /\ A \in [0 .. (Size - 1) -> Int]
         /\ \E s \in Nat, len \in Nat, i \in Nat, j \in Nat, v \in Int :
              /\ call = [start |-> s, len |-> len, i |-> i, j |-> j, pivot |-> v]
              /\ Locals(s, len, i, j, v)
<1>1. Size \in Nat /\ A \in [0 .. (Size - 1) -> Int] /\ call \in Running
  BY DEF SortInv, TypeOK
<1>2. PICK s \in Nat, len \in Nat, i \in Nat, j \in Nat, v \in Int :
         call = [start |-> s, len |-> len, i |-> i, j |-> j, pivot |-> v]
  BY <1>1 DEF Running
<1>3. Locals(s, len, i, j, v)
  BY <1>2 DEF SortInv, LocalsInRange, RangesFollow, Partition, Locals, high
<1>4. QED
  BY <1>1, <1>2, <1>3

LEMMA ScanKeeps ==
  ASSUME SortInv, Scan
  PROVE  SortInv'
<1>1. pc = "scan" /\ pc' = "scan" /\ pending' = pending
  BY DEF Scan
<1>2. Size \in Nat /\ A \in [0 .. (Size - 1) -> Int]
  BY <1>1, ScanLocals
<1>3. PICK s \in Nat, len \in Nat, i \in Nat, j \in Nat, v \in Int :
         /\ call = [start |-> s, len |-> len, i |-> i, j |-> j, pivot |-> v]
         /\ Locals(s, len, i, j, v)
  BY <1>1, ScanLocals
<1>4. /\ i \in 0 .. (Size - 1) /\ j \in 0 .. (Size - 1) /\ s <= i /\ i <= j
      /\ j < s + len - 1 /\ s + len - 1 \in 0 .. (Size - 1)
  BY <1>2, <1>3 DEF Locals, Scan, high
<1>5. CASE /\ A[j] <= v /\ A' = Swapped(A, i, j)
           /\ call' = [start |-> s, len |-> len, i |-> i + 1, j |-> j + 1, pivot |-> v]
  <2>1. /\ A' \in [0 .. (Size - 1) -> Int] /\ A'[i] = A[j] /\ A'[j] = A[i]
        /\ \A x \in 0 .. (Size - 1) : x # i /\ x # j => A'[x] = A[x]
    BY <1>2, <1>4, <1>5 DEF Swapped
  <2>2. Size' = Size
    BY <2>1, SizeKept DEF SortInv
  <2>3. TypeOK'
    BY <1>1, <1>2, <1>5, <2>1, <2>2 DEF SortInv, TypeOK, Running
  <2>4. LocalsInRange' /\ RangesFollow' /\ NothingLeft'
    BY <1>1, <1>3, <1>4, <1>5, <2>2
       DEF SortInv, LocalsInRange, RangesFollow, NothingLeft, high
  <2>5. Partition'
    <3>1. ASSUME NEW p \in s .. i
          PROVE  A'[p] <= v
      <4>1. CASE p = i
        BY <1>5, <2>1, <4>1
      <4>2. CASE p \in s .. (i - 1)
        BY <1>2, <1>3, <1>4, <2>1, <4>2 DEF Locals
      <4>3. QED
        BY <4>1, <4>2
    <3>2. ASSUME NEW p \in (i + 1) .. j
          PROVE  A'[p] > v
      <4>1. p \in Int /\ p # i /\ p \in 0 .. (Size - 1)
        BY <1>2, <1>4
      <4>2. CASE p = j
        <5>1. A[i] > v
          BY <1>3, <1>4, <4>1, <4>2 DEF Locals
        <5>2. QED
          BY <2>1, <4>2, <5>1
      <4>3. CASE p # j
        <5>1. A'[p] = A[p]
          BY <2>1, <4>1, <4>3
        <5>2. p \in i .. (j - 1)
          BY <1>4, <4>1, <4>3
        <5>3. QED
          BY <1>3, <5>1, <5>2 DEF Locals
      <4>4. QED
        BY <4>2, <4>3
    <3>3. A'[s + len - 1] = v
      BY <1>2, <1>3, <1>4, <2>1 DEF Locals
    <3>4. QED
      BY <1>1, <1>5, <3>1, <3>2, <3>3 DEF Partition, high
  <2>6. OrderedApart'
    <3>1. ASSUME NEW x \in DOMAIN A', NEW y \in DOMAIN A', x < y, Apart(x, y)'
          PROVE  A'[x] <= A'[y]
      <4>1. Apart(x, y)
        BY <1>1, <1>3, <1>5, <3>1 DEF Apart, InCall, InPending
      <4>2. x \in 0 .. (Size - 1) /\ y \in 0 .. (Size - 1)
        BY <2>1
      <4>3. InCall(i) /\ InCall(j)
        BY <1>3, <1>4 DEF InCall
      <4>4. QED
        BY <1>4, <1>5, <3>1, <4>1, <4>2, <4>3, SwapKeepsOthersOrdered DEF SortInv
    <3>2. QED
      BY <3>1 DEF OrderedApart
  <2>7. QED
    BY <2>3, <2>4, <2>5, <2>6 DEF SortInv
<1>6. CASE /\ A[j] > v /\ A' = A
           /\ call' = [start |-> s, len |-> len, i |-> i, j |-> j + 1, pivot |-> v]
  <2>1. TypeOK' /\ Size' = Size
    BY <1>1, <1>2, <1>6 DEF SortInv, TypeOK, Running, Size
  <2>2. LocalsInRange' /\ RangesFollow' /\ NothingLeft'
    BY <1>1, <1>3, <1>4, <1>6, <2>1
       DEF SortInv, LocalsInRange, RangesFollow, NothingLeft, high
  <2>3. Partition'
    BY <1>1, <1>3, <1>6 DEF Locals, Partition, high
  <2>4. OrderedApart'
    BY <1>1, <1>3, <1>6 DEF SortInv, OrderedApart, Apart, InCall, InPending
  <2>5. QED
    BY <2>1, <2>2, <2>3, <2>4 DEF SortInv
<1>7. QED
  BY <1>3, <1>5, <1>6 DEF Scan

LEMMA PlaceKeeps ==
  ASSUME SortInv, Place
  PROVE  SortInv'
<1>1. pc = "scan" /\ pc' = "enter"
  BY DEF Place
<1>0. PICK n \in Nat : Len(pending) = n
  BY PendingType DEF SortInv
<1>2. Size \in Nat /\ A \in [0 .. (Size - 1) -> Int]
  BY <1>1, ScanLocals
<1>3. PICK s \in Nat, len \in Nat, i \in Nat, j \in Nat, v \in Int :
         /\ call = [start |-> s, len |-> len, i |-> i, j |-> j, pivot |-> v]
         /\ Locals(s, len, i, j, v)
  BY <1>1, ScanLocals
<1> DEFINE h == s + len - 1
           rest == <<i + 1, len - (i - s) - 1>>
<1>4. /\ i \in 0 .. (Size - 1) /\ h \in 0 .. (Size - 1)
      /\ s <= i /\ i <= h
      /\ \A p \in s .. (i - 1) : A[p] <= v
      /\ \A p \in i .. (h - 1) : A[p] > v
      /\ A[h] = v
  <2>1. j >= h
    BY <1>3 DEF Place, high
  <2>2. j = h
    BY <1>3, <2>1 DEF Locals
  <2>3. QED
    BY <1>2, <1>3, <2>2 DEF Locals
<1>5. /\ A' = Swapped(A, i, h) /\ pending' = Append(pending, rest)
      /\ call' = [start |-> s, len |-> i - s]
  BY <1>3 DEF Place, Call, high
<1>6. /\ A' \in [0 .. (Size - 1) -> Int] /\ A'[i] = A[h] /\ A'[h] = A[i]
      /\ \A x \in 0 .. (Size - 1) : x # i /\ x # h => A'[x] = A[x]
  BY <1>2, <1>4, <1>5 DEF Swapped
<1>7. Size' = Size
  BY <1>6, SizeKept DEF SortInv
<1>8. /\ pending \in Seq(Interval) /\ Len(pending) = n /\ rest \in Interval
      /\ rest[1] = i + 1 /\ rest[2] = s + len - i - 1
  BY <1>4, <1>0 DEF SortInv, TypeOK, Interval
<1>9. /\ pending' \in Seq(Interval) /\ Len(pending') = n + 1
      /\ pending'[n + 1] = rest
      /\ \A k \in 1 .. n : pending'[k] = pending[k]
  BY <1>5, <1>8
<1> HIDE DEF rest
<1>10. TypeOK'
  BY <1>1, <1>2, <1>4, <1>5, <1>6, <1>7, <1>9 DEF TypeOK
<1>11. RangesFollow'
  <2>1. /\ s + len <= Size
        /\ \A k \in 1 .. n : /\ s + len <= pending[k][1]
                             /\ pending[k][1] + pending[k][2] <= Size
                             /\ \A l \in 1 .. (k - 1) :
                                   pending[k][1] + pending[k][2] <= pending[l][1]
    BY <1>3, <1>0 DEF SortInv, RangesFollow
  <2>2. \A k \in 1 .. n : pending[k][1] \in Nat /\ pending[k][2] \in Nat
    BY <1>0, PendingType DEF SortInv
  <2>3. ASSUME NEW k \in 1 .. (n + 1)
        PROVE  /\ i <= pending'[k][1]
               /\ pending'[k][1] + pending'[k][2] <= Size
               /\ \A l \in 1 .. (k - 1) : pending'[k][1] + pending'[k][2] <= pending'[l][1]
    <3>1. CASE k = n + 1
      <4>1. pending'[k][1] = i + 1 /\ pending'[k][1] + pending'[k][2] = s + len
        BY <1>8, <1>9, <3>1
      <4>2. ASSUME NEW l \in 1 .. n
            PROVE  s + len <= pending'[l][1]
        BY <1>9, <2>1
      <4>3. 1 .. (k - 1) = 1 .. n
        BY <1>8, <3>1
      <4>4. QED
        BY <2>1, <4>1, <4>2, <4>3
    <3>2. CASE k \in 1 .. n
      <4>1. \A l \in 1 .. (k - 1) : l \in 1 .. n
        BY <1>8, <3>2
      <4>2. pending'[k] = pending[k] /\ \A l \in 1 .. (k - 1) : pending'[l] = pending[l]
        BY <1>9, <3>2, <4>1
      <4>3. i <= pending[k][1]
        BY <1>4, <2>1, <2>2, <3>2
      <4>4. QED
        BY <2>1, <3>2, <4>2, <4>3
    <3>3. k = n + 1 \/ k \in 1 .. n
      BY <1>8
    <3>4. QED
      BY <3>1, <3>2, <3>3
  <2>4. call'.start + call'.len = i
    BY <1>4, <1>5
  <2>5. i <= Size
    BY <1>2, <1>4
  <2>6. QED
    BY <1>7, <1>9, <2>3, <2>4, <2>5 DEF RangesFollow
<1>12. ASSUME NEW x \in 0 .. (Size - 1), NEW y \in 0 .. (Size - 1), x < y, Apart(x, y)'
       PROVE  A'[x] <= A'[y]
  <2>1. CASE Apart(x, y)
    <3>1. InCall(i) /\ InCall(h)
      BY <1>3, <1>4 DEF InCall
    <3>2. QED
      BY <1>4, <1>5, <1>12, <2>1, <3>1, SwapKeepsOthersOrdered DEF SortInv
  <2>2. CASE ~ Apart(x, y)
    <3>1. ASSUME NEW k \in 1 .. n
          PROVE  ~ (InPending(k, x) /\ InPending(k, y))
      <4>1. k \in 1 .. (n + 1) /\ pending'[k] = pending[k]
        BY <1>9
      <4>2. ~ (InPending(k, x)' /\ InPending(k, y)')
        BY <1>9, <1>12, <4>1 DEF Apart
      <4>3. QED
        BY <4>1, <4>2 DEF InPending
    <3>2. s <= x /\ x <= h /\ s <= y /\ y <= h
      BY <1>3, <1>8, <2>2, <3>1 DEF Apart, InCall
    <3>3. x <= i
      <4>1. ~ (InPending(n + 1, x)' /\ InPending(n + 1, y)')
        <5>1. n + 1 \in 1 .. (n + 1)
          BY <1>8
        <5>2. QED
          BY <1>9, <1>12, <5>1 DEF Apart
      <4>2. ~ (i + 1 <= x /\ x < s + len /\ i + 1 <= y /\ y < s + len)
        BY <1>8, <1>9, <4>1 DEF InPending
      <4>3. QED
        BY <1>12, <3>2, <4>2
    <3>4. y >= i
      BY <1>4, <1>5, <1>12, <3>2 DEF Apart, InCall
    <3>5. A'[x] <= v
      BY <1>2, <1>4, <1>6, <3>2, <3>3
    <3>6. A'[y] >= v
      <4>1. CASE y = i \/ y = h
        BY <1>2, <1>4, <1>6, <4>1
      <4>2. CASE y # i /\ y # h
        BY <1>2, <1>4, <1>6, <3>2, <3>4, <4>2
      <4>3. QED
        BY <4>1, <4>2
    <3>7. QED
      BY <1>6, <3>5, <3>6
  <2>3. QED
    BY <2>1, <2>2
<1>13. OrderedApart'
  BY <1>6, <1>7, <1>12 DEF OrderedApart
<1>14. QED
  BY <1>1, <1>10, <1>11, <1>13 DEF SortInv, LocalsInRange, NothingLeft, Partition

LEMMA SecondCallKeeps ==
  ASSUME SortInv, SecondCall
  PROVE  SortInv'
<1> USE DEF SortInv
<1>1. PICK n \in Nat : /\ pending \in Seq(Interval) /\ pending # << >>
                       /\ n # 0 /\ Len(pending) = n
  BY PendingType DEF TypeOK, SecondCall
<1>2. /\ pending' \in Seq(Interval) /\ Len(pending') = n - 1
      /\ \A k \in 1 .. (n - 1) : pending'[k] = pending[k]
  <2>1. pending' = SubSeq(pending, 1, n - 1)
    BY <1>1 DEF SecondCall, Front
  <2>2. QED
    BY <1>1, <2>1, SubSeqProperties
<1>3. /\ pc' = "enter" /\ A' = A /\ Size' = Size /\ call = NoCall
      /\ call' = Call(pending[n][1], pending[n][2])
  BY <1>1 DEF SecondCall, Last, Size, NothingLeft
<1>4. /\ pending[n][1] \in Nat /\ pending[n][2] \in Nat
      /\ call'.start = pending[n][1] /\ call'.len = pending[n][2]
  BY <1>1, <1>3, PendingType DEF Call
<1>5. TypeOK'
  BY <1>2, <1>3, <1>4 DEF TypeOK, Call
<1>6. RangesFollow'
  <2>1. \A k \in 1 .. n : /\ pending[k][1] + pending[k][2] <= Size
                          /\ \A l \in 1 .. (k - 1) :
                                pending[k][1] + pending[k][2] <= pending[l][1]
    BY <1>1 DEF RangesFollow
  <2>2. n \in 1 .. n /\ \A k \in 1 .. (n - 1) : k \in 1 .. n
    BY <1>1
  <2>3. \A k \in 1 .. (n - 1) : \A l \in 1 .. (k - 1) : l \in 1 .. (n - 1)
    BY <1>1
  <2>4. QED
    BY <1>2, <1>3, <1>4, <2>1, <2>2, <2>3 DEF RangesFollow
<1>7. ASSUME NEW x \in DOMAIN A, NEW y \in DOMAIN A, Apart(x, y)'
      PROVE  Apart(x, y)
  <2>1. x \in Int /\ y \in Int
    BY DEF TypeOK
  <2>2. ~ InCall(x)
    BY <1>3, <2>1 DEF InCall, NoCall
  <2>3. \A k \in 1 .. (n - 1) : ~ (InPending(k, x) /\ InPending(k, y))
    BY <1>2, <1>7 DEF Apart, InPending
  <2>4. ~ (InPending(n, x) /\ InPending(n, y))
    BY <1>4, <1>7 DEF Apart, InCall, InPending
  <2>5. QED
    BY <1>1, <2>2, <2>3, <2>4 DEF Apart
<1>8. OrderedApart'
  BY <1>3, <1>7 DEF OrderedApart
<1>9. QED
  BY <1>3, <1>5, <1>6, <1>8 DEF LocalsInRange, NothingLeft, Partition

LEMMA FinishKeeps ==
  ASSUME SortInv, Finish \/ UNCHANGED vars
  PROVE  SortInv'
<1>1. UNCHANGED <<A, call, pending>> /\ (pc' = pc \/ (pc = "return" /\ pc' = "done"))
  BY DEF Finish, vars
<1>2. QED
  BY <1>1 DEF SortInv, Finish, vars, TypeOK, Size, LocalsInRange, RangesFollow,
              NothingLeft, Partition, OrderedApart, Apart, InCall, InPending, high

LEMMA SortInvKept ==
  ASSUME SortInv, [Next]_vars
  PROVE  SortInv'
BY ReturnKeeps, BeginKeeps, ScanKeeps, PlaceKeeps, SecondCallKeeps, FinishKeeps DEF Next

\* Every step of quickSort on arrays of integers keeps what the proof is about.
THEOREM SortInvariant == InputsAreArrays => (Spec => []SortInv)
<1>1. InputsAreArrays /\ Init => SortInv
  BY SortInvInit
<1>2. SortInv /\ [Next]_vars => SortInv'
  BY SortInvKept
<1>3. QED
  BY <1>1, <1>2, PTL DEF Spec

-----------------------------------------------------------------------------
(* What follows. *)

\* Two elements that are not in one range still to be sorted are in order for
\* good: this is what lets quickSort forget a range once it is split.
THEOREM InOrderAlways == InputsAreArrays => (Spec => []InOrder)
<1>1. SortInv => InOrder
  BY InOrderFromApart DEF SortInv
<1>2. QED
  BY <1>1, SortInvariant, PTL

\* While the loop runs, what it has passed is on its side of the pivot.
THEOREM PartitionAlways == InputsAreArrays => (Spec => []Partition)
<1>1. SortInv => Partition
  BY DEF SortInv
<1>2. QED
  BY <1>1, SortInvariant, PTL

SortedAtEnd == pc = "done" => \A p, q \in DOMAIN A : p < q => A[p] <= A[q]

\* With no range left to be sorted, any two elements are in order for good.
LEMMA SortedWhenDone ==
  ASSUME SortInv
  PROVE  SortedAtEnd
<1> SUFFICES ASSUME pc = "done"
             PROVE  \A p, q \in DOMAIN A : p < q => A[p] <= A[q]
  BY DEF SortedAtEnd
<1>1. call = NoCall /\ pending = << >>
  BY DEF SortInv, NothingLeft
<1>2. Size \in Nat /\ A \in [0 .. (Size - 1) -> Int]
  BY DEF SortInv, TypeOK
<1>3. \A p, q \in 0 .. (Size - 1) : Apart(p, q)
  BY <1>1 DEF Apart, InCall, NoCall
<1>4. QED
  BY <1>2, <1>3 DEF SortInv, OrderedApart

\* When quickSort returns to its first caller the array is sorted, for every
\* length of it and all elements, equal and negative ones included.
THEOREM EndsSorted == InputsAreArrays => (Spec => []SortedAtEnd)
BY SortedWhenDone, SortInvariant, PTL

\* The array is a with its elements in another order.
Rearranged(a) ==
    \E f \in Bijection(DOMAIN a, DOMAIN a) : A = [p \in DOMAIN a |-> a[f[p]]]

LEMMA ExchangeRearranges ==
  ASSUME NEW a, Rearranged(a), NEW p \in DOMAIN a, NEW q \in DOMAIN a,
         A' = Swapped(A, p, q)
  PROVE  Rearranged(a)'
<1>1. PICK f \in Bijection(DOMAIN a, DOMAIN a) : A = [x \in DOMAIN a |-> a[f[x]]]
  BY DEF Rearranged
<1> DEFINE g == [f EXCEPT ![p] = f[q], ![q] = f[p]]
<1>2. f \in [DOMAIN a -> DOMAIN a]
  BY <1>1 DEF Bijection, Injection, Surjection, IsInjective
<1>3. g \in [DOMAIN a -> DOMAIN a]
  BY <1>2
<1>4. /\ g[p] = f[q] /\ g[q] = f[p]
      /\ \A x \in DOMAIN a : x # p /\ x # q => g[x] = f[x]
  BY <1>2
<1> HIDE DEF g
<1>5. g \in Bijection(DOMAIN a, DOMAIN a)
  <2>1. \A x, y \in DOMAIN a : g[x] = g[y] => x = y
    BY <1>1, <1>4 DEF Bijection, Injection, Surjection, IsInjective
  <2>2. ASSUME NEW y \in DOMAIN a
        PROVE  \E x \in DOMAIN a : g[x] = y
    <3>1. PICK z \in DOMAIN a : f[z] = y
      BY <1>1 DEF Bijection, Injection, Surjection, IsInjective
    <3>2. QED
      BY <1>4, <3>1
  <2>3. QED
    BY <1>3, <2>1, <2>2 DEF Bijection, Injection, Surjection, IsInjective
<1>6. A' = [x \in DOMAIN a |-> a[g[x]]]
  <2>1. DOMAIN A = DOMAIN a /\ \A x \in DOMAIN a : A[x] = a[f[x]]
    BY <1>1
  <2>2. A' = [x \in DOMAIN a |-> A'[x]]
    BY <2>1 DEF Swapped
  <2>3. \A x \in DOMAIN a : A'[x] = a[g[x]]
    BY <1>4, <2>1 DEF Swapped
  <2>4. QED
    BY <2>2, <2>3
<1>7. QED
  BY <1>5, <1>6 DEF Rearranged

\* quickSort only exchanges elements: at any time the array holds those it was
\* given, each as often as it was given.
THEOREM OnlyRearranges ==
  ASSUME NEW a \in Inputs, InputsAreArrays
  PROVE  Spec /\ A = a => []Rearranged(a)
<1>1. A = a /\ Init => Rearranged(a)
  <2> SUFFICES ASSUME A = a, Init PROVE Rearranged(a)
    OBVIOUS
  <2>1. PICK n \in Nat : a \in [0 .. (n - 1) -> Int]
    BY DEF InputsAreArrays
  <2> DEFINE id == [p \in DOMAIN a |-> p]
  <2>2. id \in Bijection(DOMAIN a, DOMAIN a)
    BY DEF Bijection, Injection, Surjection, IsInjective
  <2>3. A = [p \in DOMAIN a |-> a[id[p]]]
    BY <2>1
  <2>4. QED
    BY <2>2, <2>3 DEF Rearranged
<1>2. SortInv /\ Rearranged(a) /\ [Next]_vars => Rearranged(a)'
  <2> SUFFICES ASSUME SortInv, Rearranged(a), [Next]_vars
               PROVE  Rearranged(a)'
    OBVIOUS
  <2>1. DOMAIN a = 0 .. (Size - 1)
    BY DEF SortInv, TypeOK, Rearranged
  <2>2. CASE A' = A
    BY <2>2 DEF Rearranged
  <2>3. CASE Scan /\ A' = Swapped(A, call.i, call.j)
    <3>1. PICK s \in Nat, len \in Nat, i \in Nat, j \in Nat, v \in Int :
             /\ call = [start |-> s, len |-> len, i |-> i, j |-> j, pivot |-> v]
             /\ Locals(s, len, i, j, v)
      BY <2>3, ScanLocals DEF Scan
    <3>2. i \in DOMAIN a /\ j \in DOMAIN a
      BY <2>1, <3>1, ScanLocals, <2>3 DEF Locals, Scan
    <3>3. QED
      BY <2>3, <3>1, <3>2, ExchangeRearranges
  <2>4. CASE Place
    <3>1. PICK s \in Nat, len \in Nat, i \in Nat, j \in Nat, v \in Int :
             /\ call = [start |-> s, len |-> len, i |-> i, j |-> j, pivot |-> v]
             /\ Locals(s, len, i, j, v)
      BY <2>4, ScanLocals DEF Place
    <3>2. i \in DOMAIN a /\ high \in DOMAIN a
      BY <2>1, <3>1, ScanLocals, <2>4 DEF Locals, Place, high
    <3>3. QED
      BY <2>4, <3>1, <3>2, ExchangeRearranges DEF Place
  <2>5. QED
    BY <2>2, <2>3, <2>4
       DEF Next, ReturnAtOnce, Begin, Scan, SecondCall, Finish, vars
<1>3. QED
  BY <1>1, <1>2, SortInvariant, PTL DEF Spec
=============================================================================
