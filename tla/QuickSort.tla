----------------------------- MODULE QuickSort -----------------------------
(***************************************************************************)
(* lab3/sort.c: quickSort of an array of longs.  The recursion is a stack:  *)
(* the call under way, and the second calls that callers have yet to make.  *)
(***************************************************************************)
EXTENDS Integers, Sequences, FiniteSets, SequencesExt

CONSTANT Inputs  \* the arrays sorted, as functions on 0 .. n - 1

VARIABLES A,       \* the array
          pc,      \* "enter", "scan", "return" or "done"
          call,    \* where the call under way begins, its len and its locals
          pending  \* <<start, len>> of the second calls to come
vars == <<A, pc, call, pending>>

NoCall == [start |-> 0, len |-> 0]
Call(start, len) == [start |-> start, len |-> len]

high == call.start + call.len - 1
Swapped(a, p, q) == [a EXCEPT ![p] = a[q], ![q] = a[p]]

Init ==
    /\ A \in Inputs
    /\ pc = "enter"
    /\ call = Call(0, Cardinality(DOMAIN A))
    /\ pending = << >>

\* if (len <= 1) return
ReturnAtOnce ==
    /\ pc = "enter" /\ call.len <= 1
    /\ pc' = "return" /\ call' = NoCall
    /\ UNCHANGED <<A, pending>>

Begin ==
    /\ pc = "enter" /\ call.len > 1
    /\ pc' = "scan"
    /\ call' = [start |-> call.start, len |-> call.len,
                i |-> call.start, j |-> call.start, pivot |-> A[high]]
    /\ UNCHANGED <<A, pending>>

\* A turn of the loop over j.
Scan ==
    /\ pc = "scan" /\ call.j < high
    /\ \/ /\ A[call.j] <= call.pivot
          /\ A' = Swapped(A, call.i, call.j)
          /\ call' = [call EXCEPT !.i = @ + 1, !.j = @ + 1]
       \/ /\ A[call.j] > call.pivot
          /\ call' = [call EXCEPT !.j = @ + 1]
          /\ UNCHANGED A
    /\ UNCHANGED <<pc, pending>>

\* The pivot to its place, and the first call.
Place ==
    /\ pc = "scan" /\ call.j >= high
    /\ A' = Swapped(A, call.i, high)
    /\ pending' = Append(pending,
                         <<call.i + 1, call.len - (call.i - call.start) - 1>>)
    /\ call' = Call(call.start, call.i - call.start)
    /\ pc' = "enter"

\* A return from a first call; what follows is the second.
SecondCall ==
    /\ pc = "return" /\ pending # << >>
    /\ call' = Call(Last(pending)[1], Last(pending)[2])
    /\ pending' = Front(pending)
    /\ pc' = "enter"
    /\ UNCHANGED A

Finish ==
    /\ pc = "return" /\ pending = << >>
    /\ pc' = "done"
    /\ UNCHANGED <<A, call, pending>>

Next == ReturnAtOnce \/ Begin \/ Scan \/ Place \/ SecondCall \/ Finish

Spec == Init /\ [][Next]_vars

-----------------------------------------------------------------------------
(* What makes the algorithm right. *)

Positions(start, len) == start .. (start + len - 1)

\* The ranges still to be sorted.
Open ==
    {Positions(call.start, call.len)}
        \union {Positions(pending[k][1], pending[k][2]) : k \in DOMAIN pending}

\* Any two elements that are not both in a range still to be sorted are in
\* order for good.
InOrder ==
    \A p, q \in DOMAIN A :
        p < q /\ (\A range \in Open : ~(p \in range /\ q \in range)) => A[p] <= A[q]

\* The loop has passed elements up to the pivot and then larger ones.
Partition ==
    pc = "scan" =>
        /\ \A p \in call.start .. (call.i - 1) : A[p] <= call.pivot
        /\ \A p \in call.i .. (call.j - 1) : A[p] > call.pivot
        /\ A[high] = call.pivot
=============================================================================
