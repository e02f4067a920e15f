------------------------------- MODULE MCExt2 -------------------------------
(***************************************************************************)
(* Images for Ext2: one file that uses the direct and the indirect blocks   *)
(* of every level, placed on the volume in several orders.                  *)
(***************************************************************************)
EXTENDS Ext2

CONSTANTS LastIndex,   \* the file's last block
          Orders       \* which placements

\* Data and then indirect blocks; as Linux allocates them, each indirect block
\* before what it leads to; from the end of the volume backwards.
DataNodes(first, last) == [k \in 1 .. (last - first + 1) |-> <<0, first + k - 1>>]

Indirect == <<<<1>>, <<2>>, <<2, 0>>, <<2, 1>>, <<3>>, <<3, 0>>, <<3, 0, 0>>, <<3, 0, 1>>>>

Linux ==
    DataNodes(0, 11) \o <<<<1>>>> \o DataNodes(12, 13)
    \o <<<<2>>, <<2, 0>>>> \o DataNodes(14, 15) \o <<<<2, 1>>>> \o DataNodes(16, 17)
    \o <<<<3>>, <<3, 0>>, <<3, 0, 0>>>> \o DataNodes(18, 19) \o <<<<3, 0, 1>>>>
    \o DataNodes(20, LastIndex)

NodesInOrder(order) ==
    CASE order = "data first" -> DataNodes(0, LastIndex) \o Indirect
      [] order = "linux" -> Linux
      [] order = "backwards" -> Reverse(Linux)
      [] order = "sparse" ->
            SelectSeq(Linux, LAMBDA node : node \notin {<<0, 1>>, <<1>>, <<0, 12>>, <<0, 13>>})

\* Block 0 holds the boot sector.
PlaceOf(order) ==
    LET nodes == NodesInOrder(order)
    IN  [node \in ToSet(nodes) |-> CHOOSE b \in DOMAIN nodes : nodes[b] = node]

\* Nodes whose block may be bad.
MayBeBad == {<<0, 1>>, <<0, 13>>, <<0, 14>>, <<1>>, <<2>>, <<3, 0>>}

ImageSet ==
    UNION {LET place == PlaceOf(order)
               blocks == Cardinality(DOMAIN place) + 1
           IN  {[place |-> place, size |-> (LastIndex + 1) * PtrsPerBlock - 1,
                 length |-> (blocks - cut) * PtrsPerBlock,
                 bad |-> b] : cut \in {0, 3, 12},
                 b \in {{}} \union {{place[node]} : node \in MayBeBad \intersect DOMAIN place}}
           : order \in Orders}

ASSUME ImageSetAssumption ==
    \A img \in ImageSet :
        /\ Formatted(img) /\ img.size < U32
        /\ \A m \in Sizes : img.size + m < U64
=============================================================================
