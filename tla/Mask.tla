-------------------------------- MODULE Mask --------------------------------
(***************************************************************************)
(* lab6/timemask.c and mask.c: baseMask blurs an image in ten passes over   *)
(* all pixels, mask1 in the same passes with the loops exchanged, mask2 in  *)
(* one pass.  timemask compares the answers.  A pass reads only the old     *)
(* image and each pixel's own entry, so the order of its pixels is left out *)
(* and a pass is one action; a pixel of mask2 is one action.                *)
(***************************************************************************)
EXTENDS Integers, Functions

CONSTANTS
    N,             \* side of the arrays (2048 in the code)
    Versions,      \* the values of MASK_VERSION to compile (mask2 in the code)
    Pixels,        \* the pixels a file may hold
    Junk           \* what memset leaves in trialAnswer

ASSUME MaskAssumption ==
    /\ N \in Nat \ {0}
    /\ Versions \subseteq {"mask1", "mask2"}
    /\ Pixels \subseteq Nat /\ Junk \in Int

WEIGHT_CENTRE == 4
WEIGHT_SIDE == 2
WEIGHT_CORNER == 1

\* C's division, which truncates.
Quotient(a, b) == IF a >= 0 THEN a \div b ELSE -((-a) \div b)

VARIABLES MASK_VERSION, rows, cols, image,
          baseAnswer, baseCheck,    \* baseMask's result
          trialAnswer, trialCheck,  \* mask's result
          weight,                   \* the array of the running baseMask or mask1
          pc,                       \* "base", "trial" or "compared"
          pass                      \* the loop nest, or mask2's pixel

vars == <<MASK_VERSION, rows, cols, image, baseAnswer, baseCheck, trialAnswer, trialCheck,
          weight, pc, pass>>

Cells == (0 .. (N - 1)) \X (0 .. (N - 1))
InImage == (0 .. (rows - 1)) \X (0 .. (cols - 1))

\* fgetc at the end of the file, also when two of them are combined.
EOF == -1

Precedes(c, d) == c[1] * cols + c[2] < d[1] * cols + d[2]

\* readImage: after the end of a truncated file every pixel is EOF.
Readable(pixel) ==
    \A c, d \in InImage : Precedes(c, d) /\ pixel[c] = EOF => pixel[d] = EOF

\* The arrays are static: what lies outside the image is zero.
Init ==
    /\ MASK_VERSION \in Versions
    /\ rows \in 0 .. N /\ cols \in 0 .. N
    /\ \E pixel \in [InImage -> Pixels \union {EOF}] :
          /\ Readable(pixel)
          /\ image = [c \in Cells |-> IF c \in InImage THEN pixel[c] ELSE 0]
    /\ baseAnswer = [c \in Cells |-> 0] /\ baseCheck = 0
    /\ trialAnswer = [c \in Cells |-> Junk] /\ trialCheck = 0
    /\ weight = [c \in Cells |-> 0]
    /\ pc = "base" /\ pass = 0

-----------------------------------------------------------------------------
(* The eight neighbour passes, as the bounds of their loops, the neighbour's *)
(* offset <<row, column>> and its weight.                                    *)

\* baseMask: i runs over columns, j over rows.
BasePasses ==
    LET P(i0, i1, j0, j1, at, w) ==
            [rows |-> j0 .. (j1 - 1), cols |-> i0 .. (i1 - 1), at |-> at, w |-> w]
    IN  << P(1, cols, 1, rows, <<-1, -1>>, WEIGHT_CORNER),
           P(0, cols, 1, rows, <<-1, 0>>, WEIGHT_SIDE),
           P(0, cols - 1, 1, rows, <<-1, 1>>, WEIGHT_CORNER),
           P(1, cols, 0, rows, <<0, -1>>, WEIGHT_SIDE),
           P(0, cols - 1, 0, rows, <<0, 1>>, WEIGHT_SIDE),
           P(1, cols, 0, rows - 1, <<1, -1>>, WEIGHT_CORNER),
           P(0, cols, 0, rows - 1, <<1, 0>>, WEIGHT_SIDE),
           P(0, cols - 1, 0, rows - 1, <<1, 1>>, WEIGHT_CORNER) >>

\* Mutant: the pass to the top right stops a column early.
Mask1PassesShort == [BasePasses EXCEPT ![3].cols = 0 .. (cols - 3)]

\* mask1: i runs over rows, j over columns.
Mask1Passes ==
    LET P(i0, i1, j0, j1, at, w) ==
            [rows |-> i0 .. (i1 - 1), cols |-> j0 .. (j1 - 1), at |-> at, w |-> w]
    IN  << P(1, rows, 1, cols, <<-1, -1>>, WEIGHT_CORNER),
           P(1, rows, 0, cols, <<-1, 0>>, WEIGHT_SIDE),
           P(1, rows, 0, cols - 1, <<-1, 1>>, WEIGHT_CORNER),
           P(0, rows, 1, cols, <<0, -1>>, WEIGHT_SIDE),
           P(0, rows, 0, cols - 1, <<0, 1>>, WEIGHT_SIDE),
           P(0, rows - 1, 1, cols, <<1, -1>>, WEIGHT_CORNER),
           P(0, rows - 1, 0, cols, <<1, 0>>, WEIGHT_SIDE),
           P(0, rows - 1, 0, cols - 1, <<1, 1>>, WEIGHT_CORNER) >>

Centred(answer) ==
    [c \in Cells |-> IF c \in InImage THEN WEIGHT_CENTRE * image[c] ELSE answer[c]]

\* Mutant: every neighbour counts like a corner.
AddedUnweighted(p, answer) ==
    [c \in Cells |->
        IF c \in p.rows \X p.cols
        THEN answer[c] + image[<<c[1] + p.at[1], c[2] + p.at[2]>>]
        ELSE answer[c]]

Added(p, answer) ==
    [c \in Cells |->
        IF c \in p.rows \X p.cols
        THEN answer[c] + p.w * image[<<c[1] + p.at[1], c[2] + p.at[2]>>]
        ELSE answer[c]]

Divided(answer) ==
    [c \in Cells |->
        IF c \in InImage THEN Quotient(answer[c], weight[c]) ELSE answer[c]]

Check(answer) == SumFunctionOnSet(answer, InImage)

\* The weights after the first pass and after neighbour pass p.
CentreWeights ==
    [c \in Cells |-> IF c \in InImage THEN WEIGHT_CENTRE ELSE weight[c]]
AddedWeights(p) ==
    [c \in Cells |-> weight[c] + (IF c \in p.rows \X p.cols THEN p.w ELSE 0)]

-----------------------------------------------------------------------------
\* One loop nest of baseMask.
BasePass ==
    /\ pc = "base"
    /\ \/ /\ pass = 0
          /\ baseAnswer' = Centred(baseAnswer) /\ weight' = CentreWeights
          /\ pass' = 1
          /\ UNCHANGED <<baseCheck, pc>>
       \/ /\ pass \in 1..8
          /\ baseAnswer' = Added(BasePasses[pass], baseAnswer)
          /\ weight' = AddedWeights(BasePasses[pass])
          /\ pass' = pass + 1
          /\ UNCHANGED <<baseCheck, pc>>
       \/ /\ pass = 9
          /\ baseAnswer' = Divided(baseAnswer)
          /\ baseCheck' = Check(baseAnswer')
          /\ pc' = "trial" /\ pass' = 0
          /\ UNCHANGED weight
    /\ UNCHANGED <<MASK_VERSION, rows, cols, image, trialAnswer, trialCheck>>

\* One loop nest of mask1, whose weights come from malloc: the first pass
\* sets those it uses.
Mask1Pass ==
    /\ pc = "trial" /\ MASK_VERSION = "mask1"
    /\ \/ /\ pass = 0
          /\ trialAnswer' = Centred(trialAnswer) /\ weight' = CentreWeights
          /\ pass' = 1
          /\ UNCHANGED <<trialCheck, pc>>
       \/ /\ pass \in 1..8
          /\ trialAnswer' = Added(Mask1Passes[pass], trialAnswer)
          /\ weight' = AddedWeights(Mask1Passes[pass])
          /\ pass' = pass + 1
          /\ UNCHANGED <<trialCheck, pc>>
       \/ /\ pass = 9
          /\ trialAnswer' = Divided(trialAnswer)
          /\ trialCheck' = Check(trialAnswer')
          /\ pc' = "compared" /\ pass' = 0
          /\ UNCHANGED weight
    /\ UNCHANGED <<MASK_VERSION, rows, cols, image, baseAnswer, baseCheck>>

\* mask2's conditions for the pixels to the left, to the right, above and below
\* row i, column j.
Mask2Sides(i, j) == <<j >= 1, j < cols - 1, i >= 1, i < rows - 1>>

\* Mutant: corners only for pixels that have all four.
Mask2CornersInner(i, j) ==
    [k \in 1 .. 4 |-> i >= 1 /\ j >= 1 /\ i < rows - 1 /\ j < cols - 1]

\* Those for the top left, top right, bottom left and bottom right.
Mask2Corners(i, j) ==
    << i >= 1 /\ j >= 1, i >= 1 /\ j < cols - 1,
       i < rows - 1 /\ j >= 1, i < rows - 1 /\ j < cols - 1 >>

Taken(condition, amount) == IF condition THEN amount ELSE 0

Mask2Sum(i, j) ==
    4 * image[<<i, j>>]
    + 2 * (Taken(Mask2Sides(i, j)[1], image[<<i, j - 1>>])
           + Taken(Mask2Sides(i, j)[2], image[<<i, j + 1>>])
           + Taken(Mask2Sides(i, j)[3], image[<<i - 1, j>>])
           + Taken(Mask2Sides(i, j)[4], image[<<i + 1, j>>]))
    + Taken(Mask2Corners(i, j)[1], image[<<i - 1, j - 1>>])
    + Taken(Mask2Corners(i, j)[2], image[<<i - 1, j + 1>>])
    + Taken(Mask2Corners(i, j)[3], image[<<i + 1, j - 1>>])
    + Taken(Mask2Corners(i, j)[4], image[<<i + 1, j + 1>>])

Mask2Weight(i, j) ==
    4 + 2 * (Taken(Mask2Sides(i, j)[1], 1) + Taken(Mask2Sides(i, j)[2], 1)
             + Taken(Mask2Sides(i, j)[3], 1) + Taken(Mask2Sides(i, j)[4], 1))
    + Taken(Mask2Corners(i, j)[1], 1) + Taken(Mask2Corners(i, j)[2], 1)
    + Taken(Mask2Corners(i, j)[3], 1) + Taken(Mask2Corners(i, j)[4], 1)

\* One turn of mask2's loops.
Mask2Pixel ==
    /\ pc = "trial" /\ MASK_VERSION = "mask2"
    /\ pass < rows * cols
    /\ LET i == pass \div cols
           j == pass % cols
           pixel == Quotient(Mask2Sum(i, j), Mask2Weight(i, j))
       IN  /\ trialAnswer' = [trialAnswer EXCEPT ![<<i, j>>] = pixel]
           /\ trialCheck' = trialCheck + pixel
    /\ pass' = pass + 1
    /\ UNCHANGED <<MASK_VERSION, rows, cols, image, baseAnswer, baseCheck, weight, pc>>

Mask2Returns ==
    /\ pc = "trial" /\ MASK_VERSION = "mask2"
    /\ pass = rows * cols
    /\ pc' = "compared" /\ pass' = 0
    /\ UNCHANGED <<MASK_VERSION, rows, cols, image, baseAnswer, baseCheck, trialAnswer,
                   trialCheck, weight>>

Next == BasePass \/ Mask1Pass \/ Mask2Pixel \/ Mask2Returns

Spec == Init /\ [][Next]_vars

-----------------------------------------------------------------------------
(* Properties. *)

\* mask.c:9: "All versions of mask() must produce a correct result": the
\* pixels and the check are those of baseMask, for every shape of image.
SameAsBase ==
    pc = "compared" =>
        /\ \A c \in InImage : trialAnswer[c] = baseAnswer[c]
        /\ trialCheck = baseCheck

Neighbours(c) ==
    {d \in InImage : d # c /\ d[1] - c[1] \in -1..1 /\ d[2] - c[2] \in -1..1}
WeightOf(c, d) ==
    IF d[1] = c[1] \/ d[2] = c[2] THEN WEIGHT_SIDE ELSE WEIGHT_CORNER

\* The weighted mean of a pixel and the neighbours it has.
WeightedMean(c) ==
    Quotient(WEIGHT_CENTRE * image[c]
                 + SumFunction([d \in Neighbours(c) |-> WeightOf(c, d) * image[d]]),
             WEIGHT_CENTRE + SumFunction([d \in Neighbours(c) |-> WeightOf(c, d)]))

\* baseMask computes this mean for every pixel and touches nothing outside the
\* image.
BaseIsTheMean ==
    pc # "base" => \A c \in Cells :
        baseAnswer[c] = IF c \in InImage THEN WeightedMean(c) ELSE 0
=============================================================================
