\* Words of two bytes of two bits each.
CONSTANTS
    WordBytes = 2
    ByteMod = 4
    Versions = {"sort", "sort_optimal"}
    MaxSize = 5
    Inputs <- SmallArrays
SPECIFICATION Spec
INVARIANTS SortedAtHalt BytesPermuted Partitioned StackBounded OpenRangesOnly
PROPERTIES CalleeSavedKept Halts ImplementsQuickSort
