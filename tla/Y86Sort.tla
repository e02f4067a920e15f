------------------------------ MODULE Y86Sort ------------------------------
(***************************************************************************)
(* lab3/sort.ys and sort_optimal.ys (sort_reorder.ys is the same program):  *)
(* quickSort on a Y86-64 machine, with registers, a stack of words and an   *)
(* array of bytes.  An action is the stretch of instructions from a label   *)
(* or a return address to the next jump, call or return.  %r9 and %rdx are  *)
(* written before they are read in each of them and are left out.           *)
(***************************************************************************)
EXTENDS Integers, Sequences, FiniteSets, SequencesExt, Functions

CONSTANTS
    WordBytes,   \* 8 in the code
    ByteMod,     \* 256 on the machine
    Versions,    \* which of the programs
    Inputs       \* arrays of words, as functions on 0 .. n - 1

ASSUME Y86Assumption ==
    /\ WordBytes \in Nat \ {0} /\ ByteMod \in Nat \ {0, 1}
    /\ Versions \subseteq {"sort", "sort_optimal"}

VARIABLES
    version,  \* which program this is
    array,    \* the array it was given
    mem,      \* the bytes of the array and of the word arraysize after it
    reg,      \* the registers
    stack,    \* from stackend on, growing to the right
    pc,       \* a label, a return address or "halt"
    callers   \* history: the registers a callee saves, as each caller left them

vars == <<version, array, mem, reg, stack, pc, callers>>

-----------------------------------------------------------------------------
(* Words in memory: little-endian, two's complement. *)

ByteWeight[k \in 0 .. WordBytes] == IF k = 0 THEN 1 ELSE ByteMod * ByteWeight[k - 1]
WordMod == ByteWeight[WordBytes]

Places == 0 .. (WordBytes - 1)

Word(m, a) ==
    LET u == SumFunctionOnSet([k \in Places |-> m[a + k] * ByteWeight[k]], Places)
    IN  IF u < WordMod \div 2 THEN u ELSE u - WordMod

\* The words that there are, and the assumption that the inputs are arrays of
\* them whose length, which arraysize holds, is one too.
Words == (WordMod \div 2 - WordMod) .. (WordMod \div 2 - 1)

ASSUME InputsAssumption ==
    \A a \in Inputs : \E n \in 0 .. (WordMod \div 2 - 1) : a \in [0 .. (n - 1) -> Words]

Byte(v, k) == ((v % WordMod) \div ByteWeight[k]) % ByteMod

Stored(m, a, v) ==
    [x \in DOMAIN m |-> IF x \in a .. (a + WordBytes - 1) THEN Byte(v, x - a) ELSE m[x]]

\* Mutant: the second store is of the word the first one wrote.
SwapLost(m, a, b) == Stored(Stored(m, a, Word(m, b)), b, Word(m, b))

\* Two words exchanged, both having been read before.
WordsSwapped(m, a, b) == Stored(Stored(m, a, Word(m, b)), b, Word(m, a))

-----------------------------------------------------------------------------
Size == Cardinality(DOMAIN array)

\* main, up to the call; the array lies at address 0.
Init ==
    /\ version \in Versions
    /\ array \in Inputs
    /\ mem = [x \in 0 .. ((Size + 1) * WordBytes - 1) |->
                IF x < Size * WordBytes
                THEN Byte(array[x \div WordBytes], x % WordBytes)
                ELSE Byte(Size, x - Size * WordBytes)]
    /\ reg = [rdi |-> 0, rsi |-> Word(mem, Size * WordBytes), rbp |-> 0, rbx |-> 0,
              r12 |-> 0, rax |-> 0, rcx |-> 0, r8 |-> 0]
    /\ stack = <<"halt">>
    /\ pc = "quickSort"
    /\ callers = <<<<0, 0, 0>>>>

CalleeSaved(r) == <<r.r12, r.rbp, r.rbx>>

\* ret with the stack s.
Return(s) ==
    /\ pc' = Last(s) /\ stack' = Front(s)
    /\ callers' = Front(callers)

\* Mutant: %rbp is not among the registers saved.
PushedWithoutLen(s, r) == s \o <<r.r12, r.rsi, r.rbx>>

Pushed(s, r) == s \o CalleeSaved(r)

\* Mutant: an array of two elements taken for sorted.
SmallTwo(r) == r.rsi <= 2

\* Mutant: only an empty array taken for sorted.
SmallEmpty(r) == r.rsi <= 0

\* 1 - len >= 0
Small(r) == r.rsi <= 1

\* sort.ys pushes before it tests and so has to pop; sort_optimal.ys tests first.
ReturnAtOnce ==
    /\ pc = "quickSort" /\ Small(reg)
    /\ \/ /\ version = "sort"
          /\ stack' = Pushed(stack, reg)
          /\ reg' = [reg EXCEPT !.rbp = reg.rsi]
          /\ pc' = "LN1"
          /\ UNCHANGED callers
       \/ version = "sort_optimal" /\ Return(stack) /\ UNCHANGED reg
    /\ UNCHANGED <<version, array, mem>>

\* Up to LN5, through LN6: high is above the start of the array.
Begin ==
    /\ pc = "quickSort" /\ ~Small(reg)
    /\ stack' = Pushed(stack, reg)
    /\ LET last == reg.rsi * WordBytes - WordBytes + reg.rdi
       IN  reg' = [reg EXCEPT !.rbp = reg.rsi, !.rcx = last, !.r8 = Word(mem, last),
                              !.rax = reg.rdi, !.rbx = reg.rdi]
    /\ pc' = "LN5"
    /\ UNCHANGED <<version, array, mem, callers>>

\* Mutant: an element equal to the pivot goes to the right.
BelongsLeftStrictly(r) == Word(mem, r.rax) < r.r8

\* jl LN4 on pivot - element
BelongsLeft(r) == Word(mem, r.rax) <= r.r8

LoopEnds(r, rax) == r.rcx - rax <= 0

\* Mutant: a large element jumps back past the increment.
LoopStuck ==
    /\ pc = "LN5"
    /\ \/ /\ BelongsLeft(reg)
          /\ mem' = WordsSwapped(mem, reg.rax, reg.rbx)
          /\ reg' = [reg EXCEPT !.rsi = Word(mem, reg.rbx), !.rbx = @ + WordBytes,
                                !.rax = @ + WordBytes]
          /\ pc' = IF LoopEnds(reg', reg'.rax) THEN "LN3" ELSE "LN5"
       \/ ~BelongsLeft(reg) /\ UNCHANGED <<mem, reg, pc>>
    /\ UNCHANGED <<version, array, stack, callers>>

\* LN5 and LN4: a turn of the loop.
Loop ==
    /\ pc = "LN5"
    /\ \/ /\ BelongsLeft(reg)
          /\ mem' = WordsSwapped(mem, reg.rax, reg.rbx)
          /\ reg' = [reg EXCEPT !.rsi = Word(mem, reg.rbx), !.rbx = @ + WordBytes,
                                !.rax = @ + WordBytes]
       \/ /\ ~BelongsLeft(reg)
          /\ reg' = [reg EXCEPT !.rax = @ + WordBytes]
          /\ UNCHANGED mem
    /\ pc' = IF LoopEnds(reg', reg'.rax) THEN "LN3" ELSE "LN5"
    /\ UNCHANGED <<version, array, stack, callers>>

\* LN3: the pivot to its place, and the first call.  sort_optimal.ys takes the
\* first part off the length before the call, sort.ys after it.
FirstCall ==
    /\ pc = "LN3"
    /\ mem' = WordsSwapped(mem, reg.rcx, reg.rbx)
    /\ LET first == (reg.rbx - reg.rdi) \div WordBytes
       IN  reg' = [reg EXCEPT !.rax = Word(mem, reg.rcx), !.r12 = first, !.rsi = first,
                              !.rbp = IF version = "sort" THEN @ ELSE @ - first]
    /\ stack' = Append(stack, "second")
    /\ callers' = Append(callers, CalleeSaved(reg'))
    /\ pc' = "quickSort"
    /\ UNCHANGED <<version, array>>

\* Mutant: the pivot is part of the second call.
RestWithPivot(r) == r.rbp - r.r12

\* What is right of the pivot.
Rest(r) == (IF version = "sort" THEN r.rbp - r.r12 ELSE r.rbp) - 1

\* sort_optimal.ys adds the 1 that %r9 still holds: the instruction that would
\* load 8 is commented out.
PastPivot == IF version = "sort" THEN WordBytes ELSE 1

\* The return address of the first call.
SecondCall ==
    /\ pc = "second"
    /\ reg' = [reg EXCEPT !.rbp = IF version = "sort" THEN @ - reg.r12 ELSE @,
                          !.rsi = Rest(reg), !.rdi = reg.rbx + PastPivot]
    /\ stack' = Append(stack, "LN1")
    /\ callers' = Append(callers, CalleeSaved(reg'))
    /\ pc' = "quickSort"
    /\ UNCHANGED <<version, array, mem>>

\* LN1 in sort.ys; in sort_optimal.ys the pops before jmp LN1.
PopAndReturn ==
    /\ pc = "LN1"
    /\ LET n == Len(stack)
       IN  /\ reg' = [reg EXCEPT !.rbx = stack[n], !.rbp = stack[n - 1],
                                 !.r12 = stack[n - 2]]
           /\ Return(SubSeq(stack, 1, n - 3))
    /\ UNCHANGED <<version, array, mem>>

Next ==
    \/ ReturnAtOnce \/ Begin \/ Loop \/ FirstCall \/ SecondCall \/ PopAndReturn
    \/ pc = "halt" /\ UNCHANGED vars

\* The machine executes instructions until it halts.
Spec == Init /\ [][Next]_vars /\ WF_vars(Next)

-----------------------------------------------------------------------------
(* Properties. *)

ArrayBytes == 0 .. (Size * WordBytes - 1)
ArrayWords == [k \in 0 .. (Size - 1) |-> Word(mem, k * WordBytes)]

\* sort.ys ends with the array sorted, also with duplicates and negative
\* elements; sort_optimal.ys does for two elements at most, see PastPivot.
SortedAtHalt ==
    pc = "halt" /\ (version = "sort" \/ Size <= 2) =>
        \A p, q \in DOMAIN array : p < q => ArrayWords[p] <= ArrayWords[q]

\* Both programs only ever exchange bytes of the array: none is lost, and the
\* length after the array is not touched, also where sort_optimal.ys works on
\* words that straddle two elements.
BytesPermuted ==
    /\ \A b \in 0 .. (ByteMod - 1) :
          Cardinality({x \in ArrayBytes : mem[x] = b})
            = Cardinality({x \in ArrayBytes : Byte(array[x \div WordBytes], x % WordBytes) = b})
    /\ Word(mem, Size * WordBytes) = Size

\* Every call returns with %r12, %rbp and %rbx as its caller left them, on
\* which the caller relies for its second call and its return.
CalleeSavedKept ==
    [][Len(callers') < Len(callers) => CalleeSaved(reg') = Last(callers)]_vars

\* While a loop runs, the words it has passed are up to the pivot before %rbx
\* and larger from there on, and the pivot is still where it was.
Partitioned ==
    pc \in {"LN5", "LN3"} =>
        /\ \A k \in 0 .. ((reg.rbx - reg.rdi) \div WordBytes - 1) :
              Word(mem, reg.rdi + k * WordBytes) <= reg.r8
        /\ \A k \in 0 .. ((reg.rax - reg.rbx) \div WordBytes - 1) :
              Word(mem, reg.rbx + k * WordBytes) > reg.r8
        /\ Word(mem, reg.rcx) = reg.r8

\* Four words of stack per level of recursion, and no more levels than
\* elements: 200 words (sort.ys:92-95) are enough for the ten.
StackBounded == Len(stack) <= 4 * (IF Size > 0 THEN Size ELSE 1)

\* The program halts.
Halts == <>(pc = "halt")

\* How the machine represents quickSort's call and the second calls to come:
\* the callers, in the order of their calls, that will return to "second".
\* A return address is followed by the three words that the callee pushes.
FirstCalls == {k \in 1 .. Len(callers) : stack[4 * k - 3] = "second"}

\* The caller whose second call is the n-th of those to come.
Caller(n) == CHOOSE k \in FirstCalls : Cardinality({l \in FirstCalls : l <= k}) = n

\* The range of the second call, from what a caller has in %r12, %rbp and %rbx.
PendingOf(c) == <<c[3] \div WordBytes + 1, c[2] - c[1] - 1>>

Pending ==
    [n \in 1 .. Cardinality(FirstCalls) |-> PendingOf(callers[Caller(n)])]
        \o (IF pc = "second" THEN <<PendingOf(CalleeSaved(reg))>> ELSE << >>)

Phase ==
    CASE pc = "quickSort" -> "enter"
      [] pc \in {"LN5", "LN3"} -> "scan"
      [] pc \in {"second", "LN1"} -> "return"
      [] pc = "halt" -> "done"

CallNow ==
    CASE pc = "quickSort" -> [start |-> reg.rdi \div WordBytes, len |-> reg.rsi]
      [] pc \in {"LN5", "LN3"} ->
            [start |-> reg.rdi \div WordBytes, len |-> reg.rbp, i |-> reg.rbx \div WordBytes,
             j |-> reg.rax \div WordBytes, pivot |-> reg.r8]
      [] OTHER -> [start |-> 0, len |-> 0]

Sort == INSTANCE QuickSort WITH
    A <- ArrayWords, pc <- Phase, call <- CallNow, pending <- Pending

\* sort.ys does what sort.c does, step by step.
ImplementsQuickSort ==
    /\ version = "sort" => Sort!Init
    /\ [][version = "sort" => Sort!Next]_(Sort!vars)

\* Whatever the calls still to come do, two elements that they do not both
\* touch are in order for good.
OpenRangesOnly == version = "sort" => Sort!InOrder
=============================================================================
