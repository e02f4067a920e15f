------------------------------- MODULE MCSort -------------------------------
(***************************************************************************)
(* Small arrays for Y86Sort.                                                *)
(***************************************************************************)
EXTENDS Y86Sort

CONSTANT MaxSize

\* Words of both signs; their bytes, exchanged, give other words.
Elements == {-6, -1, 1, 6}

SmallArrays ==
    UNION {[0 .. (n - 1) -> Elements] : n \in 0 .. MaxSize}
=============================================================================
