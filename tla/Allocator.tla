----------------------------- MODULE Allocator -----------------------------
(***************************************************************************)
(* What lab5's heap promises the program that uses it: a payload is a       *)
(* region of its own, aligned and inside the heap, and its words are        *)
(* changed by nobody else until it is freed.  Blocks, headers and searches  *)
(* are not visible here.                                                    *)
(***************************************************************************)
EXTENDS Integers, Sequences

CONSTANTS First, End,  \* payload bytes lie in First .. End - 1
          Sizes,       \* what the program asks for, in bytes
          Payloads     \* addresses malloc may return

VARIABLE live  \* payload address -> its words, for the payloads handed out

Bytes(p) == p .. (p + 4 * Len(live[p]) - 1)

Init == live = << >>

Fits(p, n) ==
    /\ p % 8 = 0
    /\ p >= First /\ p + n <= End
    /\ \A q \in DOMAIN live : q # p /\ Bytes(q) \cap (p .. (p + n - 1)) = {}

\* A new payload: its words are whatever the memory held, the others keep
\* theirs.
Malloc(p, n) ==
    /\ Fits(p, n)
    /\ DOMAIN live' = DOMAIN live \union {p}
    /\ Len(live'[p]) = n \div 4
    /\ \A q \in DOMAIN live : live'[q] = live[q]

Free(p) ==
    /\ p \in DOMAIN live
    /\ live' = [q \in DOMAIN live \ {p} |-> live[q]]

Write(p) ==
    /\ p \in DOMAIN live
    /\ DOMAIN live' = DOMAIN live
    /\ Len(live'[p]) = Len(live[p])
    /\ \A q \in DOMAIN live \ {p} : live'[q] = live[q]

Next == \E p \in Payloads :
    \/ \E n \in Sizes : Malloc(p, n)
    \/ Free(p)
    \/ Write(p)

Spec == Init /\ [][Next]_live
=============================================================================
