----------------------------- MODULE MaskProofs -----------------------------
(***************************************************************************)
(* Theorems about lab6/mask.c and timemask.c: every version of mask computes *)
(* what baseMask does, and that is the weighted mean, for images of every    *)
(* size.                                                                     *)
(***************************************************************************)
EXTENDS Mask, NatLemmas

USE DEF WEIGHT_CENTRE, WEIGHT_SIDE, WEIGHT_CORNER

-----------------------------------------------------------------------------
(* What the passes add to a pixel. *)

TypeOK ==
    /\ MASK_VERSION \in Versions
    /\ rows \in 0 .. N /\ cols \in 0 .. N
    /\ image \in [Cells -> Int]
    /\ baseAnswer \in [Cells -> Int] /\ baseCheck \in Int
    /\ trialAnswer \in [Cells -> Int] /\ trialCheck \in Int
    /\ weight \in [Cells -> Nat]
    /\ pc \in {"base", "trial", "compared"}
    /\ pass \in Nat

Shape == rows \in 0 .. N /\ cols \in 0 .. N /\ image \in [Cells -> Int]

Covers(p, c) == c \in p.rows \X p.cols

\* What neighbour pass k adds to a pixel, and to its weight.
Adding(p, c) == Taken(Covers(p, c), p.w * image[<<c[1] + p.at[1], c[2] + p.at[2]>>])
Term(k, c) == Adding(BasePasses[k], c)
Part(k, c) == Taken(Covers(BasePasses[k], c), BasePasses[k].w)

\* The sums after the passes before pass k.
SumBefore(k, c) ==
    WEIGHT_CENTRE * image[c]
    + Taken(k > 1, Term(1, c)) + Taken(k > 2, Term(2, c)) + Taken(k > 3, Term(3, c))
    + Taken(k > 4, Term(4, c)) + Taken(k > 5, Term(5, c)) + Taken(k > 6, Term(6, c))
    + Taken(k > 7, Term(7, c)) + Taken(k > 8, Term(8, c))
WeightBefore(k, c) ==
    WEIGHT_CENTRE
    + Taken(k > 1, Part(1, c)) + Taken(k > 2, Part(2, c)) + Taken(k > 3, Part(3, c))
    + Taken(k > 4, Part(4, c)) + Taken(k > 5, Part(5, c)) + Taken(k > 6, Part(6, c))
    + Taken(k > 7, Part(7, c)) + Taken(k > 8, Part(8, c))

-----------------------------------------------------------------------------
\* mask1 has exchanged the loops of baseMask, and the passes are the same.
LEMMA PassesAgree == Mask1Passes = BasePasses
BY DEF Mask1Passes, BasePasses

Terms(i, j) ==
    /\ Term(1, <<i, j>>) = Taken(i >= 1 /\ j >= 1, image[<<i - 1, j - 1>>])
    /\ Term(2, <<i, j>>) = Taken(i >= 1, 2 * image[<<i - 1, j>>])
    /\ Term(3, <<i, j>>) = Taken(i >= 1 /\ j < cols - 1, image[<<i - 1, j + 1>>])
    /\ Term(4, <<i, j>>) = Taken(j >= 1, 2 * image[<<i, j - 1>>])
    /\ Term(5, <<i, j>>) = Taken(j < cols - 1, 2 * image[<<i, j + 1>>])
    /\ Term(6, <<i, j>>) = Taken(i < rows - 1 /\ j >= 1, image[<<i + 1, j - 1>>])
    /\ Term(7, <<i, j>>) = Taken(i < rows - 1, 2 * image[<<i + 1, j>>])
    /\ Term(8, <<i, j>>) = Taken(i < rows - 1 /\ j < cols - 1, image[<<i + 1, j + 1>>])

Parts(i, j) ==
    /\ Part(1, <<i, j>>) = Taken(i >= 1 /\ j >= 1, 1)
    /\ Part(2, <<i, j>>) = Taken(i >= 1, 2)
    /\ Part(3, <<i, j>>) = Taken(i >= 1 /\ j < cols - 1, 1)
    /\ Part(4, <<i, j>>) = Taken(j >= 1, 2)
    /\ Part(5, <<i, j>>) = Taken(j < cols - 1, 2)
    /\ Part(6, <<i, j>>) = Taken(i < rows - 1 /\ j >= 1, 1)
    /\ Part(7, <<i, j>>) = Taken(i < rows - 1, 2)
    /\ Part(8, <<i, j>>) = Taken(i < rows - 1 /\ j < cols - 1, 1)

LEMMA PartsOfPixel ==
  ASSUME Shape, NEW i \in 0 .. (rows - 1), NEW j \in 0 .. (cols - 1)
  PROVE  Parts(i, j)
BY DEF Shape, Parts, Part, Taken, Covers, BasePasses

\* The neighbours that pixels have lie in the image.
LEMMA NeighboursInCells ==
  ASSUME Shape, NEW i \in 0 .. (rows - 1), NEW j \in 0 .. (cols - 1),
         NEW x \in {-1, 0, 1}, NEW y \in {-1, 0, 1},
         x = -1 => i >= 1, x = 1 => i < rows - 1, y = -1 => j >= 1, y = 1 => j < cols - 1
  PROVE  <<i + x, j + y>> \in InImage /\ image[<<i + x, j + y>>] \in Int
BY MaskAssumption DEF Shape, Cells, InImage

PassIs(k, r, s, x, y, w) ==
    /\ BasePasses[k].rows = r /\ BasePasses[k].cols = s
    /\ BasePasses[k].at[1] = x /\ BasePasses[k].at[2] = y /\ BasePasses[k].w = w

LEMMA PassesAre ==
  /\ PassIs(1, 1 .. (rows - 1), 1 .. (cols - 1), -1, -1, 1)
  /\ PassIs(2, 1 .. (rows - 1), 0 .. (cols - 1), -1, 0, 2)
  /\ PassIs(3, 1 .. (rows - 1), 0 .. (cols - 1 - 1), -1, 1, 1)
  /\ PassIs(4, 0 .. (rows - 1), 1 .. (cols - 1), 0, -1, 2)
  /\ PassIs(5, 0 .. (rows - 1), 0 .. (cols - 1 - 1), 0, 1, 2)
  /\ PassIs(6, 0 .. (rows - 1 - 1), 1 .. (cols - 1), 1, -1, 1)
  /\ PassIs(7, 0 .. (rows - 1 - 1), 0 .. (cols - 1), 1, 0, 2)
  /\ PassIs(8, 0 .. (rows - 1 - 1), 0 .. (cols - 1 - 1), 1, 1, 1)
BY DEF BasePasses, PassIs

LEMMA TermsOfPixel ==
  ASSUME Shape, NEW i \in 0 .. (rows - 1), NEW j \in 0 .. (cols - 1)
  PROVE  Terms(i, j)
<1>1. Term(1, <<i, j>>) = IF i \in 1 .. (rows - 1) /\ j \in 1 .. (cols - 1)
            THEN 1 * image[<<i + (-1), j + (-1)>>] ELSE 0
  BY PassesAre DEF Term, Adding, Covers, PassIs, Taken
<1>2. Term(2, <<i, j>>) = IF i \in 1 .. (rows - 1) /\ j \in 0 .. (cols - 1)
            THEN 2 * image[<<i + (-1), j + 0>>] ELSE 0
  BY PassesAre DEF Term, Adding, Covers, PassIs, Taken
<1>3. Term(3, <<i, j>>) = IF i \in 1 .. (rows - 1) /\ j \in 0 .. (cols - 1 - 1)
            THEN 1 * image[<<i + (-1), j + 1>>] ELSE 0
  BY PassesAre DEF Term, Adding, Covers, PassIs, Taken
<1>4. Term(4, <<i, j>>) = IF i \in 0 .. (rows - 1) /\ j \in 1 .. (cols - 1)
            THEN 2 * image[<<i + 0, j + (-1)>>] ELSE 0
  BY PassesAre DEF Term, Adding, Covers, PassIs, Taken
<1>5. Term(5, <<i, j>>) = IF i \in 0 .. (rows - 1) /\ j \in 0 .. (cols - 1 - 1)
            THEN 2 * image[<<i + 0, j + 1>>] ELSE 0
  BY PassesAre DEF Term, Adding, Covers, PassIs, Taken
<1>6. Term(6, <<i, j>>) = IF i \in 0 .. (rows - 1 - 1) /\ j \in 1 .. (cols - 1)
            THEN 1 * image[<<i + 1, j + (-1)>>] ELSE 0
  BY PassesAre DEF Term, Adding, Covers, PassIs, Taken
<1>7. Term(7, <<i, j>>) = IF i \in 0 .. (rows - 1 - 1) /\ j \in 0 .. (cols - 1)
            THEN 2 * image[<<i + 1, j + 0>>] ELSE 0
  BY PassesAre DEF Term, Adding, Covers, PassIs, Taken
<1>8. Term(8, <<i, j>>) = IF i \in 0 .. (rows - 1 - 1) /\ j \in 0 .. (cols - 1 - 1)
            THEN 1 * image[<<i + 1, j + 1>>] ELSE 0
  BY PassesAre DEF Term, Adding, Covers, PassIs, Taken
<1>9. rows \in Int /\ cols \in Int
  BY DEF Shape
<1>10. \A x, y \in {-1, 0, 1} :
         /\ x = -1 => i >= 1
         /\ x = 1 => i < rows - 1
         /\ y = -1 => j >= 1
         /\ y = 1 => j < cols - 1
         => image[<<i + x, j + y>>] \in Int
  BY NeighboursInCells
<1>11. Term(1, <<i, j>>) = Taken(i >= 1 /\ j >= 1, image[<<i - 1, j - 1>>])
  BY <1>1, <1>9, <1>10 DEF Taken
<1>12. Term(2, <<i, j>>) = Taken(i >= 1, 2 * image[<<i - 1, j>>])
  BY <1>2, <1>9, <1>10 DEF Taken
<1>13. Term(3, <<i, j>>) = Taken(i >= 1 /\ j < cols - 1, image[<<i - 1, j + 1>>])
  BY <1>3, <1>9, <1>10 DEF Taken
<1>14. Term(4, <<i, j>>) = Taken(j >= 1, 2 * image[<<i, j - 1>>])
  BY <1>4, <1>9, <1>10 DEF Taken
<1>15. Term(5, <<i, j>>) = Taken(j < cols - 1, 2 * image[<<i, j + 1>>])
  BY <1>5, <1>9, <1>10 DEF Taken
<1>16. Term(6, <<i, j>>) = Taken(i < rows - 1 /\ j >= 1, image[<<i + 1, j - 1>>])
  BY <1>6, <1>9, <1>10 DEF Taken
<1>17. Term(7, <<i, j>>) = Taken(i < rows - 1, 2 * image[<<i + 1, j>>])
  BY <1>7, <1>9, <1>10 DEF Taken
<1>18. Term(8, <<i, j>>) = Taken(i < rows - 1 /\ j < cols - 1, image[<<i + 1, j + 1>>])
  BY <1>8, <1>9, <1>10 DEF Taken
<1>19. QED
  BY <1>11, <1>12, <1>13, <1>14, <1>15, <1>16, <1>17, <1>18 DEF Terms

\* A pixel's sum and weight before each pass, and what a pass adds to it.
LEMMA SumsOfPixel ==
  ASSUME Shape, NEW c \in InImage
  PROVE  /\ \A k \in 1 .. 8 : Term(k, c) \in Int /\ Part(k, c) \in Nat
         /\ \A k \in 1 .. 9 : SumBefore(k, c) \in Int /\ WeightBefore(k, c) \in Nat \ {0}
         /\ SumBefore(1, c) = WEIGHT_CENTRE * image[c]
         /\ WeightBefore(1, c) = WEIGHT_CENTRE
         /\ \A k \in 1 .. 8 : /\ SumBefore(k + 1, c) = SumBefore(k, c) + Term(k, c)
                              /\ WeightBefore(k + 1, c) = WeightBefore(k, c) + Part(k, c)
<1>1. PICK i \in 0 .. (rows - 1), j \in 0 .. (cols - 1) : c = <<i, j>>
  BY DEF InImage
<1>2. Terms(i, j) /\ Parts(i, j)
  BY PartsOfPixel, TermsOfPixel
<1>3. \A x, y \in {-1, 0, 1} :
         /\ x = -1 => i >= 1
         /\ x = 1 => i < rows - 1
         /\ y = -1 => j >= 1
         /\ y = 1 => j < cols - 1
         => image[<<i + x, j + y>>] \in Int
  BY NeighboursInCells
<1>4. rows \in Int /\ cols \in Int /\ image[c] \in Int
  <2>1. c \in Cells
    BY MaskAssumption, <1>1 DEF Shape, Cells
  <2>2. QED
    BY <2>1 DEF Shape
<1>5. /\ Term(1, c) \in Int /\ Term(2, c) \in Int /\ Term(3, c) \in Int /\ Term(4, c) \in Int
      /\ Term(5, c) \in Int /\ Term(6, c) \in Int /\ Term(7, c) \in Int /\ Term(8, c) \in Int
  BY <1>1, <1>2, <1>3, <1>4 DEF Terms, Taken
<1>6. /\ Part(1, c) \in Nat /\ Part(2, c) \in Nat /\ Part(3, c) \in Nat /\ Part(4, c) \in Nat
      /\ Part(5, c) \in Nat /\ Part(6, c) \in Nat /\ Part(7, c) \in Nat /\ Part(8, c) \in Nat
  BY <1>1, <1>2 DEF Parts, Taken
<1>7. \A k \in 1 .. 8 : k = 1 \/ k = 2 \/ k = 3 \/ k = 4 \/ k = 5 \/ k = 6 \/ k = 7 \/ k = 8
  OBVIOUS
<1>8. \A k \in 1 .. 8 : Term(k, c) \in Int /\ Part(k, c) \in Nat
  BY <1>5, <1>6, <1>7
<1>9. \A k \in 1 .. 9 : SumBefore(k, c) \in Int /\ WeightBefore(k, c) \in Nat \ {0}
  BY <1>4, <1>5, <1>6 DEF SumBefore, WeightBefore, Taken
<1>10. SumBefore(1, c) = WEIGHT_CENTRE * image[c] /\ WeightBefore(1, c) = WEIGHT_CENTRE
  BY <1>4 DEF SumBefore, WeightBefore, Taken
<1>11. \A k \in 1 .. 8 : SumBefore(k + 1, c) = SumBefore(k, c) + Term(k, c)
  BY <1>4, <1>5, <1>7 DEF SumBefore, Taken
<1>12. \A k \in 1 .. 8 : WeightBefore(k + 1, c) = WeightBefore(k, c) + Part(k, c)
  BY <1>6, <1>7 DEF WeightBefore, Taken
<1>13. QED
  BY <1>8, <1>9, <1>10, <1>11, <1>12

\* mask2's ifs take what the passes of baseMask take.
LEMMA Mask2Agrees ==
  ASSUME Shape, NEW i \in 0 .. (rows - 1), NEW j \in 0 .. (cols - 1)
  PROVE  /\ Mask2Sum(i, j) = SumBefore(9, <<i, j>>)
         /\ Mask2Weight(i, j) = WeightBefore(9, <<i, j>>)
<1>1. Terms(i, j) /\ Parts(i, j)
  BY PartsOfPixel, TermsOfPixel
<1>2. \A x, y \in {-1, 0, 1} :
         /\ x = -1 => i >= 1
         /\ x = 1 => i < rows - 1
         /\ y = -1 => j >= 1
         /\ y = 1 => j < cols - 1
         => image[<<i + x, j + y>>] \in Int
  BY NeighboursInCells
<1>3. rows \in Int /\ cols \in Int /\ image[<<i, j>>] \in Int
  <2>1. <<i, j>> \in Cells
    BY MaskAssumption DEF Shape, Cells
  <2>2. QED
    BY <2>1 DEF Shape
<1>4. PICK a \in Int, b \in Int, d \in Int, e \in Int : 
        /\ a = IF i >= 1 /\ j >= 1 THEN image[<<i - 1, j - 1>>] ELSE 0
        /\ b = IF i >= 1 THEN image[<<i - 1, j>>] ELSE 0
        /\ d = IF i >= 1 /\ j < cols - 1 THEN image[<<i - 1, j + 1>>] ELSE 0
        /\ e = IF j >= 1 THEN image[<<i, j - 1>>] ELSE 0
  <2>1. i >= 1 => image[<<i - 1, j>>] \in Int
    BY <1>2, <1>3
  <2>2. j >= 1 => image[<<i, j - 1>>] \in Int
    BY <1>2, <1>3
  <2>3. i >= 1 /\ j >= 1 => image[<<i - 1, j - 1>>] \in Int
    BY <1>2, <1>3
  <2>4. i >= 1 /\ j < cols - 1 => image[<<i - 1, j + 1>>] \in Int
    BY <1>2, <1>3
  <2>5. QED
    BY <2>1, <2>2, <2>3, <2>4
<1>5. PICK f \in Int, g \in Int, h \in Int, k \in Int : 
        /\ f = IF j < cols - 1 THEN image[<<i, j + 1>>] ELSE 0
        /\ g = IF i < rows - 1 /\ j >= 1 THEN image[<<i + 1, j - 1>>] ELSE 0
        /\ h = IF i < rows - 1 THEN image[<<i + 1, j>>] ELSE 0
        /\ k = IF i < rows - 1 /\ j < cols - 1 THEN image[<<i + 1, j + 1>>] ELSE 0
  BY <1>2, <1>3
<1>6. SumBefore(9, <<i, j>>)
        = 4 * image[<<i, j>>] + a + 2 * b + d + 2 * e + 2 * f + g + 2 * h + k
  BY <1>1, <1>3, <1>4, <1>5 DEF Terms, SumBefore, Taken
<1>7. Mask2Sum(i, j) = 4 * image[<<i, j>>] + 2 * (e + f + b + h) + a + d + g + k
  BY <1>3, <1>4, <1>5 DEF Mask2Sum, Mask2Sides, Mask2Corners, Taken
<1>8. Mask2Weight(i, j) = WeightBefore(9, <<i, j>>)
  <2>1. PICK l \in {0, 1}, r \in {0, 1}, t \in {0, 1}, u \in {0, 1} :
          /\ l = IF j >= 1 THEN 1 ELSE 0
          /\ r = IF j < cols - 1 THEN 1 ELSE 0
          /\ t = IF i >= 1 THEN 1 ELSE 0
          /\ u = IF i < rows - 1 THEN 1 ELSE 0
    OBVIOUS
  <2>2. Mask2Weight(i, j) = 4 + 2 * (l + r + t + u)
            + (IF i >= 1 /\ j >= 1 THEN 1 ELSE 0) + (IF i >= 1 /\ j < cols - 1 THEN 1 ELSE 0)
            + (IF i < rows - 1 /\ j >= 1 THEN 1 ELSE 0)
            + (IF i < rows - 1 /\ j < cols - 1 THEN 1 ELSE 0)
    BY <1>3, <2>1 DEF Mask2Weight, Mask2Sides, Mask2Corners, Taken
  <2>3. WeightBefore(9, <<i, j>>) = 4 + (IF i >= 1 /\ j >= 1 THEN 1 ELSE 0) + 2 * t
            + (IF i >= 1 /\ j < cols - 1 THEN 1 ELSE 0) + 2 * l + 2 * r
            + (IF i < rows - 1 /\ j >= 1 THEN 1 ELSE 0) + 2 * u
            + (IF i < rows - 1 /\ j < cols - 1 THEN 1 ELSE 0)
    BY <1>1, <1>3, <2>1 DEF Parts, WeightBefore, Taken
  <2>4. QED
    BY <2>1, <2>2, <2>3
<1>9. QED
  BY <1>3, <1>6, <1>7, <1>8

-----------------------------------------------------------------------------
(* A loop nest of baseMask or mask1. *)

Summed(answer, weights, k) ==
    \A c \in InImage : answer[c] = SumBefore(k, c) /\ weights[c] = WeightBefore(k, c)

Mean(c) == Quotient(SumBefore(9, c), WeightBefore(9, c))

SameOutside(a, b) == \A c \in Cells \ InImage : a[c] = b[c]

LEMMA CellsOfImage ==
  ASSUME Shape
  PROVE  InImage \in SUBSET Cells
BY MaskAssumption DEF Shape, InImage, Cells

LEMMA CentreStep ==
  ASSUME Shape, weight \in [Cells -> Nat], NEW a \in [Cells -> Int]
  PROVE  /\ Centred(a) \in [Cells -> Int] /\ CentreWeights \in [Cells -> Nat]
         /\ Summed(Centred(a), CentreWeights, 1) /\ SameOutside(Centred(a), a)
<1>1. \A c \in InImage :
         c \in Cells /\ SumBefore(1, c) = 4 * image[c] /\ WeightBefore(1, c) = 4
  BY CellsOfImage, SumsOfPixel
<1>2. QED
  BY <1>1 DEF Shape, Centred, CentreWeights, Summed, SameOutside

LEMMA PassCovers ==
  ASSUME Shape, NEW k \in 1 .. 8, NEW c \in Cells
  PROVE  c \in BasePasses[k].rows \X BasePasses[k].cols => c \in InImage
<1>1. rows \in Int /\ cols \in Int
  BY DEF Shape
<1>2. k = 1 \/ k = 2 \/ k = 3 \/ k = 4 \/ k = 5 \/ k = 6 \/ k = 7 \/ k = 8
  OBVIOUS
<1>3. /\ BasePasses[k].rows \in SUBSET (0 .. (rows - 1))
      /\ BasePasses[k].cols \in SUBSET (0 .. (cols - 1))
  <2>1. /\ 0 .. (rows - 1 - 1) \in SUBSET (0 .. (rows - 1))
        /\ 1 .. (rows - 1) \in SUBSET (0 .. (rows - 1))
        /\ 0 .. (cols - 1 - 1) \in SUBSET (0 .. (cols - 1))
        /\ 1 .. (cols - 1) \in SUBSET (0 .. (cols - 1))
        /\ 0 .. (rows - 1) \in SUBSET (0 .. (rows - 1))
        /\ 0 .. (cols - 1) \in SUBSET (0 .. (cols - 1))
    BY <1>1
  <2>2. /\ BasePasses[k].rows \in {1 .. (rows - 1), 0 .. (rows - 1), 0 .. (rows - 1 - 1)}
        /\ BasePasses[k].cols \in {1 .. (cols - 1), 0 .. (cols - 1), 0 .. (cols - 1 - 1)}
    BY <1>2, PassesAre, Zenon DEF PassIs
  <2>3. QED
    BY <2>1, <2>2, Zenon
<1>4. QED
  BY <1>3 DEF InImage

LEMMA AddStep ==
  ASSUME Shape, weight \in [Cells -> Nat], NEW a \in [Cells -> Int], NEW k \in 1 .. 8,
         Summed(a, weight, k)
  PROVE  /\ Added(BasePasses[k], a) \in [Cells -> Int]
         /\ AddedWeights(BasePasses[k]) \in [Cells -> Nat]
         /\ Summed(Added(BasePasses[k], a), AddedWeights(BasePasses[k]), k + 1)
         /\ SameOutside(Added(BasePasses[k], a), a)
<1> DEFINE p == BasePasses[k]
           b == Added(p, a)
           w == AddedWeights(p)
<1>1. \A c \in InImage :
         /\ c \in Cells /\ Term(k, c) \in Int /\ Part(k, c) \in Nat
         /\ SumBefore(k + 1, c) = SumBefore(k, c) + Term(k, c)
         /\ WeightBefore(k + 1, c) = WeightBefore(k, c) + Part(k, c)
  BY CellsOfImage, SumsOfPixel
<1>2. \A c \in Cells : ~ (c \in InImage) => ~ (c \in p.rows \X p.cols)
  BY PassCovers
<1>3. DOMAIN b = Cells /\ DOMAIN w = Cells
  BY DEF Added, AddedWeights
<1>4. ASSUME NEW c \in InImage
      PROVE  b[c] = a[c] + Term(k, c) /\ w[c] = weight[c] + Part(k, c)
  <2>1. c \in Cells /\ Term(k, c) \in Int /\ Part(k, c) \in Nat
    BY <1>1
  <2>2. Term(k, c) = IF c \in p.rows \X p.cols
                     THEN p.w * image[<<c[1] + p.at[1], c[2] + p.at[2]>>] ELSE 0
    BY DEF Term, Adding, Covers, Taken
  <2>3. Part(k, c) = IF c \in p.rows \X p.cols THEN p.w ELSE 0
    BY DEF Part, Covers, Taken
  <2>4. b[c] = a[c] + Term(k, c)
    BY <2>1, <2>2 DEF Added
  <2>5. w[c] = weight[c] + Part(k, c)
    BY <2>1, <2>3 DEF AddedWeights
  <2>6. QED
    BY <2>4, <2>5
<1>5. ASSUME NEW c \in Cells, c \notin InImage
      PROVE  b[c] = a[c] /\ w[c] = weight[c]
  BY <1>2, <1>5 DEF Added, AddedWeights
<1> HIDE DEF b, w, p
<1>6. b \in [Cells -> Int] /\ w \in [Cells -> Nat]
  <2>1. \A c \in Cells : b[c] \in Int /\ w[c] \in Nat
    BY <1>1, <1>4, <1>5
  <2>2. b = [c \in Cells |-> b[c]] /\ w = [c \in Cells |-> w[c]]
    BY <1>3 DEF b, w, Added, AddedWeights
  <2>3. QED
    BY <2>1, <2>2
<1>7. Summed(b, w, k + 1)
  BY <1>1, <1>4 DEF Summed
<1>8. SameOutside(b, a)
  BY <1>5 DEF SameOutside
<1>9. QED
  BY <1>6, <1>7, <1>8 DEF b, w, p

LEMMA QuotientIsInt ==
  ASSUME NEW a \in Int, NEW b \in Nat \ {0}
  PROVE  Quotient(a, b) \in Int
BY DEF Quotient

LEMMA MeanIsInt ==
  ASSUME Shape, NEW c \in InImage
  PROVE  Mean(c) \in Int
<1>1. SumBefore(9, c) \in Int /\ WeightBefore(9, c) \in Nat \ {0}
  BY SumsOfPixel
<1>2. QED
  BY <1>1, QuotientIsInt DEF Mean

LEMMA DivideStep ==
  ASSUME Shape, NEW a \in [Cells -> Int], Summed(a, weight, 9)
  PROVE  /\ Divided(a) \in [Cells -> Int]
         /\ \A c \in InImage : Divided(a)[c] = Mean(c)
         /\ SameOutside(Divided(a), a)
<1>1. \A c \in InImage : c \in Cells /\ Mean(c) \in Int /\ Mean(c) = Quotient(a[c], weight[c])
  BY CellsOfImage, MeanIsInt DEF Mean, Summed
<1>2. QED
  BY <1>1 DEF Divided, SameOutside

-----------------------------------------------------------------------------
(* The order of mask2's loops. *)

\* Row-major order: row i, column j is at i * m + j.
LEMMA RowsInOrder ==
  ASSUME NEW m \in Nat, NEW a \in Nat, NEW b \in Nat, a < b
  PROVE  a * m + m <= b * m
<1>1. PICK d \in Nat : b = a + 1 + d
  <2>1. b - a - 1 \in Nat /\ b = a + 1 + (b - a - 1)
    OBVIOUS
  <2>2. QED
    BY <2>1
<1>2. b * m = a * m + m + d * m
  BY <1>1
<1>3. d * m >= 0
  BY <1>1
<1>4. a * m \in Int /\ d * m \in Int
  BY <1>1
<1>5. QED
  BY <1>2, <1>3, <1>4

LEMMA DivMod ==
  ASSUME NEW a \in Nat, NEW b \in Nat \ {0}
  PROVE  /\ a % b \in Nat /\ a % b < b /\ a \div b \in Nat
         /\ a = b * (a \div b) + (a % b)
OBVIOUS

LEMMA RankUnique ==
  ASSUME NEW m \in Nat, NEW a \in Nat, NEW b \in Nat,
         NEW i \in 0 .. (m - 1), NEW j \in 0 .. (m - 1),
         a * m + i = b * m + j
  PROVE  a = b /\ i = j
<1>1. ~ (a < b) /\ ~ (b < a)
  <2>1. a * m \in Int /\ b * m \in Int
    OBVIOUS
  <2>2. a < b => a * m + m <= b * m
    BY RowsInOrder
  <2>3. b < a => b * m + m <= a * m
    BY RowsInOrder
  <2>4. QED
    BY <2>1, <2>2, <2>3
<1>2. a = b
  BY <1>1
<1>3. a * m \in Int
  OBVIOUS
<1>4. QED
  BY <1>2, <1>3

Rank(c) == c[1] * cols + c[2]
Done(p) == {c \in InImage : Rank(c) < p}

LEMMA RankOfPixel ==
  ASSUME Shape, NEW c \in InImage
  PROVE  Rank(c) \in Nat /\ Rank(c) < rows * cols
<1>1. PICK i \in 0 .. (rows - 1), j \in 0 .. (cols - 1) : c = <<i, j>>
  BY DEF InImage
<1>2. rows \in Nat /\ cols \in Nat /\ i \in Nat /\ j \in Nat /\ i < rows /\ j < cols
  BY DEF Shape
<1>3. i * cols + cols <= rows * cols
  BY <1>2, RowsInOrder
<1>4. i * cols \in Nat /\ rows * cols \in Nat
  BY <1>2
<1>5. QED
  BY <1>1, <1>2, <1>3, <1>4 DEF Rank

\* mask2's pixel p, and no other.
LEMMA PixelOfRank ==
  ASSUME Shape, NEW p \in Nat, p < rows * cols
  PROVE  /\ p \div cols \in 0 .. (rows - 1) /\ p % cols \in 0 .. (cols - 1)
         /\ \A c \in InImage : Rank(c) = p <=> c = <<p \div cols, p % cols>>
<1>1. rows \in Nat /\ cols \in Nat \ {0}
  <2>1. rows \in Nat /\ cols \in Nat
    BY DEF Shape
  <2>2. cols # 0
    BY <2>1
  <2>3. QED
    BY <2>1, <2>2
<1>2. PICK m, i, j : m = cols /\ i = p \div cols /\ j = p % cols
  OBVIOUS
<1>3. m \in Nat \ {0} /\ i \in Nat /\ j \in 0 .. (m - 1) /\ p = m * i + j
  BY <1>1, <1>2, DivMod
<1>4. m * i = i * m
  BY <1>3
<1>5. i < rows
  <2>1. ASSUME rows <= i PROVE FALSE
    <3>1. rows * m <= i * m
      <4>1. CASE rows = i
        BY <1>1, <1>3, <4>1
      <4>2. CASE rows < i
        <5>1. rows * m + m <= i * m
          BY <1>1, <1>3, <4>2, RowsInOrder
        <5>2. rows * m \in Int /\ i * m \in Int
          BY <1>1, <1>3
        <5>3. QED
          BY <1>3, <5>1, <5>2
      <4>3. QED
        BY <1>1, <1>3, <2>1, <4>1, <4>2
    <3>2. rows * m \in Int /\ i * m \in Int /\ p < rows * m
      BY <1>1, <1>2, <1>3
    <3>3. QED
      BY <1>3, <1>4, <3>1, <3>2
  <2>2. QED
    BY <1>1, <1>3, <2>1
<1>6. ASSUME NEW c \in InImage
      PROVE  Rank(c) = p <=> c = <<i, j>>
  <2>1. PICK a \in 0 .. (rows - 1), b \in 0 .. (cols - 1) : c = <<a, b>>
    BY DEF InImage
  <2>2. a \in Nat /\ b \in 0 .. (m - 1) /\ Rank(c) = a * m + b
    BY <1>1, <1>2, <2>1 DEF Rank
  <2>3. a * m + b = i * m + j => a = i /\ b = j
    BY <1>3, <2>2, RankUnique
  <2>4. QED
    BY <1>3, <1>4, <2>1, <2>2, <2>3
<1>7. QED
  BY <1>1, <1>2, <1>3, <1>5, <1>6

LEMMA DoneSoFar ==
  ASSUME Shape
  PROVE  /\ IsFiniteSet(InImage)
         /\ Done(0) = {} /\ Done(rows * cols) = InImage
         /\ \A p \in Nat : IsFiniteSet(Done(p))
<1>1. IsFiniteSet(InImage)
  <2>1. rows - 1 \in Int /\ cols - 1 \in Int
    BY DEF Shape
  <2>2. IsFiniteSet(0 .. (rows - 1)) /\ IsFiniteSet(0 .. (cols - 1))
    BY <2>1, FS_Interval
  <2>3. QED
    BY <2>2, FS_Product DEF InImage
<1>2. \A p \in Nat : IsFiniteSet(Done(p))
  BY <1>1, FS_Subset DEF Done
<1>3. Done(0) = {} /\ Done(rows * cols) = InImage
  BY RankOfPixel DEF Done
<1>4. QED
  BY <1>1, <1>2, <1>3

LEMMA DoneNext ==
  ASSUME Shape, NEW p \in Nat, p < rows * cols, NEW c, c = <<p \div cols, p % cols>>
  PROVE  c \in InImage /\ c \notin Done(p) /\ Done(p + 1) = Done(p) \union {c}
<1>1. c \in InImage
  BY PixelOfRank DEF InImage
<1>2. \A d \in InImage : Rank(d) \in Nat /\ (Rank(d) = p <=> d = c)
  BY PixelOfRank, RankOfPixel
<1>3. QED
  BY <1>1, <1>2 DEF Done

-----------------------------------------------------------------------------
(* The invariant. *)

\* The passes before the one to come have been summed up.
LoopInv(answer) ==
    /\ pass \in 0 .. 9
    /\ \A k \in 1 .. 9 : pass = k => Summed(answer, weight, k)

BaseInv ==
    /\ \A c \in Cells \ InImage : baseAnswer[c] = 0
    /\ pc = "base" => LoopInv(baseAnswer) /\ trialCheck = 0
    /\ pc # "base" => /\ \A c \in InImage : baseAnswer[c] = Mean(c)
                      /\ baseCheck = Check(baseAnswer)

Mask1Inv == pc = "trial" /\ MASK_VERSION = "mask1" => LoopInv(trialAnswer)

Mask2Inv ==
    pc = "trial" /\ MASK_VERSION = "mask2" =>
        /\ pass <= rows * cols
        /\ \A c \in InImage : Rank(c) < pass => trialAnswer[c] = baseAnswer[c]
        /\ trialCheck = SumFunctionOnSet(baseAnswer, Done(pass))

MaskInv == TypeOK /\ BaseInv /\ Mask1Inv /\ Mask2Inv /\ SameAsBase

\* What no action changes.
Frame == UNCHANGED <<MASK_VERSION, rows, cols, image>>

LEMMA FrameKeeps ==
  ASSUME Frame
  PROVE  /\ InImage' = InImage
         /\ \A k, c : /\ SumBefore(k, c)' = SumBefore(k, c)
                      /\ WeightBefore(k, c)' = WeightBefore(k, c)
         /\ \A c : Mean(c)' = Mean(c) /\ Rank(c)' = Rank(c)
         /\ \A p : Done(p)' = Done(p)
<1> USE DEF Frame
<1>1. InImage' = InImage /\ BasePasses' = BasePasses
  BY DEF InImage, BasePasses
<1>2. ASSUME NEW k, NEW c
      PROVE  Term(k, c)' = Term(k, c) /\ Part(k, c)' = Part(k, c)
  BY <1>1 DEF Term, Part, Adding, Covers, Taken
<1>3. \A k, c : SumBefore(k, c)' = SumBefore(k, c) /\ WeightBefore(k, c)' = WeightBefore(k, c)
  BY <1>2 DEF SumBefore, WeightBefore, Taken
<1>4. \A c : Mean(c)' = Mean(c) /\ Rank(c)' = Rank(c)
  BY <1>3 DEF Mean, Rank, Quotient
<1>5. \A p : Done(p)' = Done(p)
  BY <1>1 DEF Done, Rank
<1>6. QED
  BY <1>1, <1>3, <1>4, <1>5

LEMMA TypesGiveShape ==
  ASSUME TypeOK
  PROVE  Shape /\ weight \in [Cells -> Nat]
         /\ baseAnswer \in [Cells -> Int] /\ trialAnswer \in [Cells -> Int]
BY DEF TypeOK, Shape

LEMMA CheckIsInt ==
  ASSUME Shape, NEW a \in [Cells -> Int]
  PROVE  Check(a) \in Int
<1>1. IsFiniteSet(InImage) /\ IntegersOn(a, InImage)
  BY CellsOfImage, DoneSoFar DEF IntegersOn
<1>2. QED
  BY <1>1, SumIsInt DEF Check

LEMMA ChecksAgree ==
  ASSUME Shape, NEW a \in [Cells -> Int], NEW b, \A c \in InImage : b[c] = a[c]
  PROVE  Check(b) = Check(a)
<1>1. IsFiniteSet(InImage) /\ IntegersOn(a, InImage)
  BY CellsOfImage, DoneSoFar DEF IntegersOn
<1>2. QED
  BY <1>1, SumOfSame DEF Check

LEMMA BaseKeeps ==
  ASSUME MaskInv, BasePass
  PROVE  MaskInv'
<1>1. Frame /\ pc = "base" /\ UNCHANGED <<trialAnswer, trialCheck>>
  BY DEF BasePass, Frame
<1>2. Shape /\ weight \in [Cells -> Nat] /\ baseAnswer \in [Cells -> Int]
  BY TypesGiveShape DEF MaskInv
<1>3. Cells' = Cells /\ InImage' = InImage
  BY <1>1, FrameKeeps DEF Cells
<1>4. pass \in 0 .. 9 /\ \A k \in 1 .. 9 : pass = k => Summed(baseAnswer, weight, k)
  BY <1>1 DEF MaskInv, BaseInv, LoopInv
<1>5. \A c \in Cells \ InImage : baseAnswer[c] = 0
  BY DEF MaskInv, BaseInv
<1>6. ASSUME NEW k \in 1 .. 9, Summed(baseAnswer', weight', k), pass' = k, pc' = "base",
             baseAnswer' \in [Cells -> Int], weight' \in [Cells -> Nat],
             SameOutside(baseAnswer', baseAnswer), baseCheck' = baseCheck
      PROVE  MaskInv'
  <2>1. TypeOK'
    BY <1>1, <1>3, <1>6 DEF MaskInv, TypeOK, Frame
  <2>2. Summed(baseAnswer, weight, k)'
    BY <1>1, <1>6, FrameKeeps DEF Summed
  <2>3. LoopInv(baseAnswer)'
    BY <1>6, <2>2 DEF LoopInv
  <2>4. \A c \in Cells \ InImage : baseAnswer'[c] = 0
    BY <1>5, <1>6 DEF SameOutside
  <2>5. trialCheck' = 0
    BY <1>1 DEF MaskInv, BaseInv
  <2>6. QED
    BY <1>3, <1>6, <2>1, <2>3, <2>4, <2>5
       DEF MaskInv, BaseInv, Mask1Inv, Mask2Inv, SameAsBase
<1>7. CASE /\ pass = 0 /\ baseAnswer' = Centred(baseAnswer) /\ weight' = CentreWeights
           /\ pass' = 1 /\ UNCHANGED <<baseCheck, pc>>
  BY <1>1, <1>2, <1>6, <1>7, CentreStep
<1>8. CASE /\ pass \in 1 .. 8 /\ baseAnswer' = Added(BasePasses[pass], baseAnswer)
           /\ weight' = AddedWeights(BasePasses[pass])
           /\ pass' = pass + 1 /\ UNCHANGED <<baseCheck, pc>>
  <2>1. PICK k \in 1 .. 8 : k = pass
    BY <1>8
  <2>2. Summed(baseAnswer, weight, k)
    BY <1>4, <2>1
  <2>3. k + 1 \in 1 .. 9 /\ pass' = k + 1
    BY <1>8, <2>1
  <2>4. /\ baseAnswer' = Added(BasePasses[k], baseAnswer)
        /\ weight' = AddedWeights(BasePasses[k])
    BY <1>8, <2>1
  <2>5. QED
    BY <1>1, <1>2, <1>6, <1>8, <2>2, <2>3, <2>4, AddStep
<1>9. CASE /\ pass = 9 /\ baseAnswer' = Divided(baseAnswer) /\ baseCheck' = Check(baseAnswer')
           /\ pc' = "trial" /\ pass' = 0 /\ UNCHANGED weight
  <2>1. PICK b : b = Divided(baseAnswer) /\ baseAnswer' = b
    BY <1>9
  <2>2. /\ b \in [Cells -> Int] /\ \A c \in InImage : b[c] = Mean(c)
        /\ SameOutside(b, baseAnswer)
    BY <1>2, <1>4, <1>9, <2>1, DivideStep
  <2>3. Check(baseAnswer)' = Check(b) /\ baseCheck' = Check(b)
    BY <1>3, <1>9, <2>1 DEF Check
  <2>4. TypeOK'
    BY <1>1, <1>2, <1>3, <1>9, <2>1, <2>2, <2>3, CheckIsInt DEF MaskInv, TypeOK, Frame
  <2>5. BaseInv'
    <3>1. \A c \in Cells \ InImage : baseAnswer'[c] = 0
      BY <1>5, <2>1, <2>2 DEF SameOutside
    <3>2. \A c \in InImage : baseAnswer'[c] = Mean(c)'
      BY <1>1, <2>1, <2>2, FrameKeeps
    <3>3. QED
      BY <1>3, <1>9, <2>3, <3>1, <3>2 DEF BaseInv
  <2>6. Mask1Inv'
    BY <1>9 DEF Mask1Inv, LoopInv
  <2>7. Mask2Inv'
    <3>1. \A c \in InImage : ~ (Rank(c)' < 0)
      BY <1>1, <1>2, FrameKeeps, RankOfPixel
    <3>2. Done(pass)' = {}
      BY <1>3, <1>9, <3>1 DEF Done
    <3>3. rows' * cols' \in Nat
      BY <1>1, <1>2 DEF Frame, Shape
    <3>4. trialCheck' = 0
      BY <1>1 DEF MaskInv, BaseInv
    <3>5. SumFunctionOnSet(baseAnswer, Done(pass))' = 0
      BY <3>2, SumOfNone
    <3>6. QED
      BY <1>3, <1>9, <3>1, <3>3, <3>4, <3>5 DEF Mask2Inv
  <2>8. SameAsBase'
    BY <1>9 DEF SameAsBase
  <2>9. QED
    BY <2>4, <2>5, <2>6, <2>7, <2>8 DEF MaskInv
<1>10. QED
  BY <1>7, <1>8, <1>9 DEF BasePass

\* After baseMask its result stays.
LEMMA BaseStays ==
  ASSUME MaskInv, Frame, pc # "base", pc' # "base", UNCHANGED <<baseAnswer, baseCheck>>
  PROVE  BaseInv'
<1>1. InImage' = InImage /\ Cells' = Cells /\ \A c : Mean(c)' = Mean(c)
  BY FrameKeeps DEF Cells
<1>2. QED
  BY <1>1 DEF MaskInv, BaseInv, Check

LEMMA Mask1Keeps ==
  ASSUME MaskInv, Mask1Pass
  PROVE  MaskInv'
<1>1. Frame /\ pc = "trial" /\ MASK_VERSION = "mask1" /\ UNCHANGED <<baseAnswer, baseCheck>>
  BY DEF Mask1Pass, Frame
<1>2. Shape /\ weight \in [Cells -> Nat] /\ trialAnswer \in [Cells -> Int]
  BY TypesGiveShape DEF MaskInv
<1>3. Cells' = Cells /\ InImage' = InImage
  BY <1>1, FrameKeeps DEF Cells
<1>4. pass \in 0 .. 9 /\ \A k \in 1 .. 9 : pass = k => Summed(trialAnswer, weight, k)
  BY <1>1 DEF MaskInv, Mask1Inv, LoopInv
<1>5. ASSUME NEW k \in 1 .. 9, Summed(trialAnswer', weight', k), pass' = k, pc' = "trial",
             trialAnswer' \in [Cells -> Int], weight' \in [Cells -> Nat],
             trialCheck' = trialCheck
      PROVE  MaskInv'
  <2>1. TypeOK'
    BY <1>1, <1>3, <1>5 DEF MaskInv, TypeOK, Frame
  <2>2. Summed(trialAnswer, weight, k)'
    BY <1>1, <1>5, FrameKeeps DEF Summed
  <2>3. Mask1Inv'
    BY <1>5, <2>2 DEF Mask1Inv, LoopInv
  <2>4. BaseInv'
    BY <1>1, <1>5, BaseStays
  <2>5. QED
    BY <1>1, <1>5, <2>1, <2>3, <2>4 DEF MaskInv, Mask2Inv, SameAsBase, Frame
<1>6. CASE /\ pass = 0 /\ trialAnswer' = Centred(trialAnswer) /\ weight' = CentreWeights
           /\ pass' = 1 /\ UNCHANGED <<trialCheck, pc>>
  BY <1>1, <1>2, <1>5, <1>6, CentreStep
<1>7. CASE /\ pass \in 1 .. 8 /\ trialAnswer' = Added(Mask1Passes[pass], trialAnswer)
           /\ weight' = AddedWeights(Mask1Passes[pass])
           /\ pass' = pass + 1 /\ UNCHANGED <<trialCheck, pc>>
  <2>1. PICK k \in 1 .. 8 : k = pass
    BY <1>7
  <2>2. Summed(trialAnswer, weight, k)
    BY <1>4, <2>1
  <2>3. k + 1 \in 1 .. 9 /\ pass' = k + 1
    BY <1>7, <2>1
  <2>4. /\ trialAnswer' = Added(BasePasses[k], trialAnswer)
        /\ weight' = AddedWeights(BasePasses[k])
    BY <1>7, <2>1, PassesAgree
  <2>5. QED
    BY <1>1, <1>2, <1>5, <1>7, <2>2, <2>3, <2>4, AddStep
<1>8. CASE /\ pass = 9 /\ trialAnswer' = Divided(trialAnswer)
           /\ trialCheck' = Check(trialAnswer')
           /\ pc' = "compared" /\ pass' = 0 /\ UNCHANGED weight
  <2>1. PICK b : b = Divided(trialAnswer) /\ trialAnswer' = b
    BY <1>8
  <2>2. b \in [Cells -> Int] /\ \A c \in InImage : b[c] = Mean(c)
    BY <1>2, <1>4, <1>8, <2>1, DivideStep
  <2>3. trialCheck' = Check(b)
    BY <1>3, <1>8, <2>1 DEF Check
  <2>4. TypeOK'
    BY <1>1, <1>2, <1>3, <1>8, <2>1, <2>2, <2>3, CheckIsInt DEF MaskInv, TypeOK, Frame
  <2>5. BaseInv'
    BY <1>1, <1>8, BaseStays
  <2>6. \A c \in InImage : b[c] = baseAnswer[c]
    BY <1>1, <2>2 DEF MaskInv, BaseInv
  <2>7. Check(b) = baseCheck
    <3>1. Check(b) = Check(baseAnswer)
      BY <1>2, <2>6, TypesGiveShape, ChecksAgree DEF MaskInv
    <3>2. QED
      BY <1>1, <3>1 DEF MaskInv, BaseInv
  <2>8. SameAsBase'
    BY <1>1, <1>3, <2>1, <2>3, <2>6, <2>7 DEF SameAsBase
  <2>9. QED
    BY <1>8, <2>4, <2>5, <2>8 DEF MaskInv, Mask1Inv, Mask2Inv
<1>9. QED
  BY <1>6, <1>7, <1>8 DEF Mask1Pass

LEMMA Mask2Keeps ==
  ASSUME MaskInv, Mask2Pixel
  PROVE  MaskInv'
<1>1. /\ Frame /\ pc = "trial" /\ pc' = "trial" /\ MASK_VERSION = "mask2"
      /\ UNCHANGED <<baseAnswer, baseCheck, weight>>
      /\ pass < rows * cols /\ pass' = pass + 1
  BY DEF Mask2Pixel, Frame
<1>2. /\ Shape /\ trialAnswer \in [Cells -> Int] /\ baseAnswer \in [Cells -> Int]
      /\ trialCheck \in Int
  BY TypesGiveShape DEF MaskInv, TypeOK
<1>3. PICK p \in Nat : p = pass
  BY DEF MaskInv, TypeOK
<1>4. PICK i, j, c : i = p \div cols /\ j = p % cols /\ c = <<i, j>>
  OBVIOUS
<1>5. c \in InImage /\ c \notin Done(p) /\ Done(p + 1) = Done(p) \union {c}
  BY <1>1, <1>2, <1>3, <1>4, DoneNext
<1>6. i \in 0 .. (rows - 1) /\ j \in 0 .. (cols - 1)
  BY <1>1, <1>2, <1>3, <1>4, PixelOfRank
<1>7. Mean(c) = Quotient(Mask2Sum(i, j), Mask2Weight(i, j)) /\ Mean(c) \in Int
  BY <1>2, <1>4, <1>5, <1>6, Mask2Agrees, MeanIsInt DEF Mean
<1>8. PICK v \in Int : v = Mean(c)
  BY <1>7
<1>9. trialAnswer' = [trialAnswer EXCEPT ![c] = v] /\ trialCheck' = trialCheck + v
  BY <1>3, <1>4, <1>7, <1>8 DEF Mask2Pixel
<1>10. InImage' = InImage /\ Cells' = Cells /\ c \in Cells
  BY <1>1, <1>2, <1>5, FrameKeeps, CellsOfImage DEF Cells
<1>11. TypeOK'
  BY <1>1, <1>2, <1>3, <1>9, <1>10 DEF MaskInv, TypeOK, Frame
<1>12. BaseInv'
  BY <1>1, BaseStays
<1>13. baseAnswer[c] = v
  BY <1>1, <1>5, <1>8 DEF MaskInv, BaseInv
<1>14. pass' <= rows' * cols'
  <2>1. rows * cols \in Int
    BY <1>2 DEF Shape
  <2>2. QED
    BY <1>1, <1>3, <2>1 DEF Frame
<1>15. ASSUME NEW d \in InImage, Rank(d)' < pass'
       PROVE  trialAnswer'[d] = baseAnswer'[d]
  <2>1. Rank(d) \in Nat /\ Rank(d)' = Rank(d) /\ d \in Cells
    BY <1>1, <1>2, FrameKeeps, RankOfPixel, CellsOfImage
  <2>2. Rank(d) < p + 1
    BY <1>1, <1>3, <1>15, <2>1
  <2>3. d \in Done(p) \/ d = c
    BY <1>5, <2>2 DEF Done
  <2>4. d \in Done(p) => trialAnswer[d] = baseAnswer[d]
    BY <1>1, <1>3 DEF MaskInv, Mask2Inv, Done
  <2>5. QED
    BY <1>1, <1>2, <1>5, <1>9, <1>13, <2>1, <2>3, <2>4
<1>16. trialCheck' = SumFunctionOnSet(baseAnswer', Done(pass)')
  <2>1. Done(pass)' = Done(p + 1)
    <3>1. Done(p + 1)' = Done(p + 1)
      BY <1>1, FrameKeeps
    <3>2. QED
      BY <1>1, <1>3, <3>1 DEF Done
  <2>2. IsFiniteSet(Done(p)) /\ IntegersOn(baseAnswer, Done(p) \union {c})
    BY <1>2, <1>10, DoneSoFar, CellsOfImage DEF IntegersOn, Done
  <2>3. SumFunctionOnSet(baseAnswer, Done(p + 1))
           = SumFunctionOnSet(baseAnswer, Done(p)) + baseAnswer[c]
    BY <1>5, <2>2, SumOfOneMore
  <2>4. trialCheck = SumFunctionOnSet(baseAnswer, Done(p))
    BY <1>1, <1>3 DEF MaskInv, Mask2Inv
  <2>5. QED
    BY <1>1, <1>9, <1>13, <2>1, <2>3, <2>4
<1>17. Mask2Inv'
  BY <1>10, <1>14, <1>15, <1>16 DEF Mask2Inv
<1>18. QED
  BY <1>1, <1>11, <1>12, <1>17 DEF MaskInv, Mask1Inv, SameAsBase, Frame

LEMMA Mask2ReturnKeeps ==
  ASSUME MaskInv, Mask2Returns
  PROVE  MaskInv'
<1>1. /\ Frame /\ pc = "trial" /\ pc' = "compared" /\ MASK_VERSION = "mask2"
      /\ UNCHANGED <<baseAnswer, baseCheck, trialAnswer, trialCheck, weight>>
      /\ pass = rows * cols /\ pass' = 0
  BY DEF Mask2Returns, Frame
<1>2. Shape
  BY TypesGiveShape DEF MaskInv
<1>3. InImage' = InImage /\ Cells' = Cells
  BY <1>1, FrameKeeps DEF Cells
<1>4. TypeOK'
  BY <1>1, <1>3 DEF MaskInv, TypeOK, Frame
<1>5. BaseInv'
  BY <1>1, BaseStays
<1>6. \A c \in InImage : trialAnswer[c] = baseAnswer[c]
  <2>1. \A c \in InImage : Rank(c) < pass
    BY <1>1, <1>2, RankOfPixel
  <2>2. QED
    BY <1>1, <2>1 DEF MaskInv, Mask2Inv
<1>7. trialCheck = baseCheck
  <2>1. Done(pass) = InImage
    BY <1>1, <1>2, DoneSoFar
  <2>2. trialCheck = SumFunctionOnSet(baseAnswer, InImage)
    BY <1>1, <2>1 DEF MaskInv, Mask2Inv
  <2>3. QED
    BY <1>1, <2>2 DEF MaskInv, BaseInv, Check
<1>8. SameAsBase'
  BY <1>1, <1>3, <1>6, <1>7 DEF SameAsBase
<1>9. QED
  BY <1>1, <1>4, <1>5, <1>8 DEF MaskInv, Mask1Inv, Mask2Inv

LEMMA MaskInvInit ==
  ASSUME Init
  PROVE  MaskInv
<1>1. InImage \in SUBSET Cells
  BY MaskAssumption DEF Init, InImage, Cells
<1>2. image \in [Cells -> Int]
  <2>1. PICK pixel \in [InImage -> Pixels \union {EOF}] :
          image = [c \in Cells |-> IF c \in InImage THEN pixel[c] ELSE 0]
    BY DEF Init
  <2>2. \A c \in InImage : pixel[c] \in Int
    <3>1. Pixels \union {EOF} \in SUBSET Int
      BY MaskAssumption DEF EOF
    <3>2. QED
      BY <2>1, <3>1
  <2>3. QED
    BY <2>1, <2>2
<1>3. TypeOK
  BY <1>2, MaskAssumption DEF Init, TypeOK
<1>4. BaseInv
  BY <1>1 DEF Init, BaseInv, LoopInv
<1>5. QED
  BY <1>3, <1>4 DEF Init, MaskInv, Mask1Inv, Mask2Inv, SameAsBase

LEMMA MaskInvKept ==
  ASSUME MaskInv, [Next]_vars
  PROVE  MaskInv'
<1>1. CASE UNCHANGED vars
  <2>1. /\ Frame /\ Cells' = Cells
        /\ UNCHANGED <<baseAnswer, baseCheck, trialAnswer, trialCheck, weight, pc, pass>>
    BY <1>1 DEF vars, Frame, Cells
  <2>2. InImage' = InImage /\ \A c : Mean(c)' = Mean(c) /\ Rank(c)' = Rank(c)
    BY <2>1, FrameKeeps
  <2>3. TypeOK' /\ SameAsBase'
    BY <2>1, <2>2 DEF MaskInv, TypeOK, SameAsBase, Frame
  <2>4. BaseInv'
    <3>1. LoopInv(baseAnswer) => LoopInv(baseAnswer)'
      BY <2>1, FrameKeeps DEF LoopInv, Summed
    <3>2. QED
      BY <2>1, <2>2, <3>1 DEF MaskInv, BaseInv, Check
  <2>5. Mask1Inv'
    <3>1. LoopInv(trialAnswer) => LoopInv(trialAnswer)'
      BY <2>1, FrameKeeps DEF LoopInv, Summed
    <3>2. QED
      BY <2>1, <2>2, <3>1 DEF MaskInv, Mask1Inv, Frame
  <2>6. Mask2Inv'
    <3>1. Done(pass)' = Done(pass)
      BY <2>1, <2>2 DEF Done
    <3>2. QED
      BY <2>1, <2>2, <3>1 DEF MaskInv, Mask2Inv, Frame
  <2>7. QED
    BY <2>3, <2>4, <2>5, <2>6 DEF MaskInv
<1>2. QED
  BY <1>1, BaseKeeps, Mask1Keeps, Mask2Keeps, Mask2ReturnKeeps DEF Next

\* Every step of baseMask and of the version under test keeps the invariant:
\* after k passes a pixel holds what those passes add, mask2's pixels are right
\* up to the one it is at, and so is its check so far.
THEOREM MaskInvariant == Spec => []MaskInv
<1>1. Init => MaskInv
  BY MaskInvInit
<1>2. MaskInv /\ [Next]_vars => MaskInv'
  BY MaskInvKept
<1>3. QED
  BY <1>1, <1>2, PTL DEF Spec

\* mask1 and mask2 give the pixels and the check of baseMask, whatever the size
\* of the image, its pixels, and where the file ends.
THEOREM VersionsAgree == Spec => []SameAsBase
<1>1. MaskInv => SameAsBase
  BY DEF MaskInv
<1>2. QED
  BY <1>1, MaskInvariant, PTL


-----------------------------------------------------------------------------
(* The weighted mean. *)

At(k, c) == <<c[1] + BasePasses[k].at[1], c[2] + BasePasses[k].at[2]>>

\* The neighbour of pass k, if the pixel has it, and those of the passes up to k.
NeighbourOf(k, c) == IF Covers(BasePasses[k], c) THEN {At(k, c)} ELSE {}
NeighboursUpTo(k, c) == UNION {NeighbourOf(l, c) : l \in 1 .. k}

\* The passes go through the offsets of the neighbours, row by row.
LEMMA PassOffsets ==
  ASSUME NEW k \in 1 .. 8
  PROVE  /\ BasePasses[k].at[1] \in {-1, 0, 1} /\ BasePasses[k].at[2] \in {-1, 0, 1}
         /\ ~ (BasePasses[k].at[1] = 0 /\ BasePasses[k].at[2] = 0)
         /\ BasePasses[k].w = IF BasePasses[k].at[1] = 0 \/ BasePasses[k].at[2] = 0
                              THEN 2 ELSE 1
         /\ 3 * BasePasses[k].at[1] + BasePasses[k].at[2] = IF k <= 4 THEN k - 5 ELSE k - 4
<1>1. k = 1 \/ k = 2 \/ k = 3 \/ k = 4 \/ k = 5 \/ k = 6 \/ k = 7 \/ k = 8
  OBVIOUS
<1>2. CASE k = 1
  <2>1. PassIs(1, 1 .. (rows - 1), 1 .. (cols - 1), -1, -1, 1)
    BY PassesAre
  <2>2. QED
    BY <1>2, <2>1 DEF PassIs
<1>3. CASE k = 2
  <2>1. PassIs(2, 1 .. (rows - 1), 0 .. (cols - 1), -1, 0, 2)
    BY PassesAre
  <2>2. QED
    BY <1>3, <2>1 DEF PassIs
<1>4. CASE k = 3
  <2>1. PassIs(3, 1 .. (rows - 1), 0 .. (cols - 1 - 1), -1, 1, 1)
    BY PassesAre
  <2>2. QED
    BY <1>4, <2>1 DEF PassIs
<1>5. CASE k = 4
  <2>1. PassIs(4, 0 .. (rows - 1), 1 .. (cols - 1), 0, -1, 2)
    BY PassesAre
  <2>2. QED
    BY <1>5, <2>1 DEF PassIs
<1>6. CASE k = 5
  <2>1. PassIs(5, 0 .. (rows - 1), 0 .. (cols - 1 - 1), 0, 1, 2)
    BY PassesAre
  <2>2. QED
    BY <1>6, <2>1 DEF PassIs
<1>7. CASE k = 6
  <2>1. PassIs(6, 0 .. (rows - 1 - 1), 1 .. (cols - 1), 1, -1, 1)
    BY PassesAre
  <2>2. QED
    BY <1>7, <2>1 DEF PassIs
<1>8. CASE k = 7
  <2>1. PassIs(7, 0 .. (rows - 1 - 1), 0 .. (cols - 1), 1, 0, 2)
    BY PassesAre
  <2>2. QED
    BY <1>8, <2>1 DEF PassIs
<1>9. CASE k = 8
  <2>1. PassIs(8, 0 .. (rows - 1 - 1), 0 .. (cols - 1 - 1), 1, 1, 1)
    BY PassesAre
  <2>2. QED
    BY <1>9, <2>1 DEF PassIs
<1>10. QED
  BY <1>1, <1>2, <1>3, <1>4, <1>5, <1>6, <1>7, <1>8, <1>9

\* A pass covers the pixels that have its neighbour in the image.
LEMMA PassCoversPixel ==
  ASSUME Shape, NEW i \in 0 .. (rows - 1), NEW j \in 0 .. (cols - 1), NEW k \in 1 .. 8
  PROVE  Covers(BasePasses[k], <<i, j>>) <=>
            /\ i + BasePasses[k].at[1] \in 0 .. (rows - 1)
            /\ j + BasePasses[k].at[2] \in 0 .. (cols - 1)
<1>1. k = 1 \/ k = 2 \/ k = 3 \/ k = 4 \/ k = 5 \/ k = 6 \/ k = 7 \/ k = 8
  OBVIOUS
<1>2. rows \in Int /\ cols \in Int
  BY DEF Shape
<1>3. Covers(BasePasses[k], <<i, j>>) <=> i \in BasePasses[k].rows /\ j \in BasePasses[k].cols
  BY DEF Covers
<1>4. CASE k = 1
  <2>1. PassIs(1, 1 .. (rows - 1), 1 .. (cols - 1), -1, -1, 1)
    BY PassesAre
  <2>2. QED
    BY <1>2, <1>3, <1>4, <2>1 DEF PassIs
<1>5. CASE k = 2
  <2>1. PassIs(2, 1 .. (rows - 1), 0 .. (cols - 1), -1, 0, 2)
    BY PassesAre
  <2>2. QED
    BY <1>2, <1>3, <1>5, <2>1 DEF PassIs
<1>6. CASE k = 3
  <2>1. PassIs(3, 1 .. (rows - 1), 0 .. (cols - 1 - 1), -1, 1, 1)
    BY PassesAre
  <2>2. QED
    BY <1>2, <1>3, <1>6, <2>1 DEF PassIs
<1>7. CASE k = 4
  <2>1. PassIs(4, 0 .. (rows - 1), 1 .. (cols - 1), 0, -1, 2)
    BY PassesAre
  <2>2. QED
    BY <1>2, <1>3, <1>7, <2>1 DEF PassIs
<1>8. CASE k = 5
  <2>1. PassIs(5, 0 .. (rows - 1), 0 .. (cols - 1 - 1), 0, 1, 2)
    BY PassesAre
  <2>2. QED
    BY <1>2, <1>3, <1>8, <2>1 DEF PassIs
<1>9. CASE k = 6
  <2>1. PassIs(6, 0 .. (rows - 1 - 1), 1 .. (cols - 1), 1, -1, 1)
    BY PassesAre
  <2>2. QED
    BY <1>2, <1>3, <1>9, <2>1 DEF PassIs
<1>10. CASE k = 7
  <2>1. PassIs(7, 0 .. (rows - 1 - 1), 0 .. (cols - 1), 1, 0, 2)
    BY PassesAre
  <2>2. QED
    BY <1>2, <1>3, <1>10, <2>1 DEF PassIs
<1>11. CASE k = 8
  <2>1. PassIs(8, 0 .. (rows - 1 - 1), 0 .. (cols - 1 - 1), 1, 1, 1)
    BY PassesAre
  <2>2. QED
    BY <1>2, <1>3, <1>11, <2>1 DEF PassIs
<1>12. QED
  BY <1>1, <1>4, <1>5, <1>6, <1>7, <1>8, <1>9, <1>10, <1>11

LEMMA PassOfOffset ==
  ASSUME NEW x \in {-1, 0, 1}, NEW y \in {-1, 0, 1}, ~ (x = 0 /\ y = 0)
  PROVE  \E k \in 1 .. 8 : BasePasses[k].at[1] = x /\ BasePasses[k].at[2] = y
<1>1. PICK k \in 1 .. 8 : 3 * x + y = IF k <= 4 THEN k - 5 ELSE k - 4
  <2> DEFINE n == IF 3 * x + y < 0 THEN 3 * x + y + 5 ELSE 3 * x + y + 4
  <2>1. n \in 1 .. 8 /\ 3 * x + y = IF n <= 4 THEN n - 5 ELSE n - 4
    OBVIOUS
  <2>2. QED
    BY <2>1
<1>2. PICK u \in {-1, 0, 1}, v \in {-1, 0, 1} :
        u = BasePasses[k].at[1] /\ v = BasePasses[k].at[2] /\ 3 * u + v = 3 * x + y
  BY <1>1, PassOffsets
<1>3. u = x /\ v = y
  <2>1. ASSUME NEW a \in {-1, 0, 1}, NEW b \in {-1, 0, 1}, NEW p \in {-1, 0, 1},
               NEW q \in {-1, 0, 1}, 3 * a + b = 3 * p + q
        PROVE  a = p /\ b = q
    BY <2>1
  <2>2. QED
    BY <1>2, <2>1
<1>4. QED
  BY <1>2, <1>3

\* Each neighbour is added by exactly one pass.
LEMMA PassesMeetNeighbours ==
  ASSUME Shape, NEW c \in InImage
  PROVE  /\ NeighboursUpTo(8, c) = Neighbours(c)
         /\ \A k \in 1 .. 8 : \A l \in 1 .. 8 : At(k, c) = At(l, c) => k = l
         /\ \A k \in 1 .. 8 : BasePasses[k].w = WeightOf(c, At(k, c))
<1>1. PICK i \in 0 .. (rows - 1), j \in 0 .. (cols - 1) : c = <<i, j>>
  BY DEF InImage
<1>2. rows \in Int /\ cols \in Int
  BY DEF Shape
<1>3. \A k \in 1 .. 8 : \A l \in 1 .. 8 : At(k, c) = At(l, c) => k = l
  <2>1. ASSUME NEW k \in 1 .. 8, NEW l \in 1 .. 8, At(k, c) = At(l, c)
        PROVE  k = l
    <3>1. /\ BasePasses[k].at[1] \in Int /\ BasePasses[k].at[2] \in Int
          /\ BasePasses[l].at[1] \in Int /\ BasePasses[l].at[2] \in Int
      BY PassOffsets
    <3>2. /\ i + BasePasses[k].at[1] = i + BasePasses[l].at[1]
          /\ j + BasePasses[k].at[2] = j + BasePasses[l].at[2]
      BY <1>1, <2>1 DEF At
    <3>3. /\ BasePasses[k].at[1] = BasePasses[l].at[1]
          /\ BasePasses[k].at[2] = BasePasses[l].at[2]
      <4>1. PICK x \in Int, y \in Int, u \in Int, v \in Int :
              /\ x = BasePasses[k].at[1] /\ y = BasePasses[k].at[2]
              /\ u = BasePasses[l].at[1] /\ v = BasePasses[l].at[2]
        BY <3>1
      <4>2. i + x = i + u /\ j + y = j + v
        BY <3>2, <4>1
      <4>3. x = u /\ y = v
        BY <4>2
      <4>4. QED
        BY <4>1, <4>3
    <3>4. (IF k <= 4 THEN k - 5 ELSE k - 4) = (IF l <= 4 THEN l - 5 ELSE l - 4)
      BY <3>3, PassOffsets
    <3>5. QED
      BY <3>4
  <2>2. QED
    BY <2>1
<1>4. ASSUME NEW k \in 1 .. 8
      PROVE  BasePasses[k].w = WeightOf(c, At(k, c))
  <2>1. PICK x \in {-1, 0, 1}, y \in {-1, 0, 1} :
          /\ x = BasePasses[k].at[1] /\ y = BasePasses[k].at[2]
          /\ BasePasses[k].w = IF x = 0 \/ y = 0 THEN 2 ELSE 1
    BY PassOffsets
  <2>2. At(k, c)[1] = i + x /\ At(k, c)[2] = j + y /\ c[1] = i /\ c[2] = j
    BY <1>1, <2>1 DEF At
  <2>3. (At(k, c)[1] = c[1] <=> x = 0) /\ (At(k, c)[2] = c[2] <=> y = 0)
    BY <2>2
  <2>4. QED
    BY <2>1, <2>3 DEF WeightOf
<1>5. ASSUME NEW d \in Neighbours(c)
      PROVE  d \in NeighboursUpTo(8, c)
  <2>1. PICK a \in 0 .. (rows - 1), b \in 0 .. (cols - 1) : d = <<a, b>>
    BY DEF Neighbours, InImage
  <2>2. PICK x \in Int, y \in Int : x = a - i /\ y = b - j
    OBVIOUS
  <2>3. x \in {-1, 0, 1} /\ y \in {-1, 0, 1} /\ ~ (x = 0 /\ y = 0) /\ a = i + x /\ b = j + y
    BY <1>1, <2>1, <2>2 DEF Neighbours
  <2>4. PICK k \in 1 .. 8 : BasePasses[k].at[1] = x /\ BasePasses[k].at[2] = y
    BY <2>3, PassOfOffset
  <2>5. Covers(BasePasses[k], <<i, j>>)
    BY <2>1, <2>3, <2>4, PassCoversPixel
  <2>6. d = At(k, c) /\ d \in NeighbourOf(k, c)
    BY <1>1, <2>1, <2>3, <2>5, <2>4 DEF At, NeighbourOf
  <2>7. QED
    BY <2>6 DEF NeighboursUpTo
<1>6. ASSUME NEW d \in NeighboursUpTo(8, c)
      PROVE  d \in Neighbours(c)
  <2>1. PICK k \in 1 .. 8 : Covers(BasePasses[k], c) /\ d = At(k, c)
    BY DEF NeighboursUpTo, NeighbourOf
  <2>2. PICK x \in {-1, 0, 1}, y \in {-1, 0, 1} :
          x = BasePasses[k].at[1] /\ y = BasePasses[k].at[2] /\ ~ (x = 0 /\ y = 0)
    BY PassOffsets
  <2>3. i + x \in 0 .. (rows - 1) /\ j + y \in 0 .. (cols - 1)
    BY <1>1, <2>1, <2>2, PassCoversPixel
  <2>4. d = <<i + x, j + y>>
    BY <1>1, <2>1, <2>2 DEF At
  <2>5. d \in InImage /\ d[1] = i + x /\ d[2] = j + y /\ c[1] = i /\ c[2] = j
    BY <1>1, <2>3, <2>4 DEF InImage
  <2>6. d[1] - c[1] \in -1 .. 1 /\ d[2] - c[2] \in -1 .. 1 /\ d # c
    BY <1>1, <2>2, <2>5
  <2>7. QED
    BY <2>5, <2>6 DEF Neighbours
<1>7. QED
  BY <1>3, <1>4, <1>5, <1>6

\* The sum over a pixel's neighbours, pass by pass.
LEMMA SumOfNeighbours ==
  ASSUME Shape, NEW c \in InImage, NEW f, IntegersOn(f, Neighbours(c)),
         NEW g, \A k \in 1 .. 8 :
                   g[k] = Taken(Covers(BasePasses[k], c), f[At(k, c)])
  PROVE  SumFunctionOnSet(f, Neighbours(c))
            = g[1] + g[2] + g[3] + g[4] + g[5] + g[6] + g[7] + g[8]
<1> DEFINE U(k) == NeighboursUpTo(k, c)
           T(k) == SumFunctionOnSet(f, U(k))
<1>1. U(0) = {} /\ U(8) = Neighbours(c)
  BY PassesMeetNeighbours DEF NeighboursUpTo
<1>2. \A k \in 0 .. 8 : U(k) \in SUBSET Neighbours(c)
  BY <1>1 DEF NeighboursUpTo
<1>3. IsFiniteSet(Neighbours(c))
  BY DoneSoFar, FS_Subset DEF Neighbours
<1>4. \A k \in 0 .. 8 : IsFiniteSet(U(k)) /\ IntegersOn(f, U(k))
  BY <1>2, <1>3, FS_Subset DEF IntegersOn
<1>5. \A k \in 0 .. 8 : T(k) \in Int
  BY <1>4, SumIsInt
<1>6. ASSUME NEW k \in 1 .. 8
      PROVE  T(k) = T(k - 1) + g[k] /\ g[k] \in Int
  <2>1. U(k) = U(k - 1) \union NeighbourOf(k, c)
    BY DEF NeighboursUpTo
  <2>2. k - 1 \in 0 .. 8 /\ k \in 0 .. 8
    OBVIOUS
  <2>3. CASE Covers(BasePasses[k], c)
    <3>1. NeighbourOf(k, c) = {At(k, c)} /\ g[k] = f[At(k, c)]
      BY <2>3 DEF NeighbourOf, Taken
    <3>2. At(k, c) \notin U(k - 1)
      BY PassesMeetNeighbours DEF NeighboursUpTo, NeighbourOf
    <3>3. IsFiniteSet(U(k - 1)) /\ IntegersOn(f, U(k - 1) \union {At(k, c)})
      BY <1>4, <2>1, <2>2, <3>1
    <3>4. T(k) = T(k - 1) + f[At(k, c)]
      <4>1. PICK x, S : x = At(k, c) /\ S = U(k - 1)
        OBVIOUS
      <4>2. SumFunctionOnSet(f, S \union {x}) = SumFunctionOnSet(f, S) + f[x]
        BY <3>2, <3>3, <4>1, SumOfOneMore
      <4>3. QED
        BY <2>1, <3>1, <4>1, <4>2
    <3>5. f[At(k, c)] \in Int
      BY <3>3 DEF IntegersOn
    <3>6. QED
      BY <3>1, <3>4, <3>5
  <2>4. CASE ~ Covers(BasePasses[k], c)
    <3>1. U(k) = U(k - 1) /\ g[k] = 0
      BY <2>1, <2>4 DEF NeighbourOf, Taken
    <3>2. T(k - 1) \in Int
      BY <1>5, <2>2
    <3>3. QED
      BY <3>1, <3>2
  <2>5. QED
    BY <2>3, <2>4
<1>7. T(0) = 0
  BY <1>1, SumOfNone
<1> HIDE DEF T
<1>8. /\ T(1) = T(0) + g[1] /\ T(2) = T(1) + g[2] /\ T(3) = T(2) + g[3] /\ T(4) = T(3) + g[4]
      /\ T(5) = T(4) + g[5] /\ T(6) = T(5) + g[6] /\ T(7) = T(6) + g[7] /\ T(8) = T(7) + g[8]
  BY <1>6
<1>9. /\ g[1] \in Int /\ g[2] \in Int /\ g[3] \in Int /\ g[4] \in Int
      /\ g[5] \in Int /\ g[6] \in Int /\ g[7] \in Int /\ g[8] \in Int
  BY <1>6
<1>10. T(8) = g[1] + g[2] + g[3] + g[4] + g[5] + g[6] + g[7] + g[8]
  BY <1>7, <1>8, <1>9
<1>11. QED
  BY <1>1, <1>10 DEF T

LEMMA MeanIsWeighted ==
  ASSUME Shape, NEW c \in InImage
  PROVE  Mean(c) = WeightedMean(c)
<1> DEFINE f == [d \in Neighbours(c) |-> WeightOf(c, d) * image[d]]
           w == [d \in Neighbours(c) |-> WeightOf(c, d)]
           g == [k \in 1 .. 8 |-> Term(k, c)]
           h == [k \in 1 .. 8 |-> Part(k, c)]
<1>1. \A d \in Neighbours(c) : image[d] \in Int /\ WeightOf(c, d) \in Int
  BY CellsOfImage DEF Neighbours, Shape, WeightOf
<1>2. IntegersOn(f, Neighbours(c)) /\ IntegersOn(w, Neighbours(c))
  BY <1>1 DEF IntegersOn
<1>3. ASSUME NEW k \in 1 .. 8, Covers(BasePasses[k], c)
      PROVE  At(k, c) \in Neighbours(c) /\ BasePasses[k].w = WeightOf(c, At(k, c))
  BY <1>3, PassesMeetNeighbours DEF NeighboursUpTo, NeighbourOf
<1>4. \A k \in 1 .. 8 : g[k] = Taken(Covers(BasePasses[k], c), f[At(k, c)])
  BY <1>3 DEF Term, Adding, At, Taken
<1>5. \A k \in 1 .. 8 : h[k] = Taken(Covers(BasePasses[k], c), w[At(k, c)])
  BY <1>3 DEF Part, Taken
<1> HIDE DEF f, w
<1>6. SumFunctionOnSet(f, Neighbours(c))
        = g[1] + g[2] + g[3] + g[4] + g[5] + g[6] + g[7] + g[8]
  BY <1>2, <1>4, SumOfNeighbours
<1>7. SumFunctionOnSet(w, Neighbours(c))
        = h[1] + h[2] + h[3] + h[4] + h[5] + h[6] + h[7] + h[8]
  BY <1>2, <1>5, SumOfNeighbours
<1>8. /\ \A k \in 1 .. 8 : g[k] = Term(k, c) /\ Term(k, c) \in Int
      /\ \A k \in 1 .. 8 : h[k] = Part(k, c) /\ Part(k, c) \in Int
  BY SumsOfPixel
<1>9. image[c] \in Int
  BY CellsOfImage DEF Shape
<1>10. SumBefore(9, c) = WEIGHT_CENTRE * image[c] + SumFunctionOnSet(f, Neighbours(c))
  BY <1>6, <1>8, <1>9 DEF SumBefore, Taken
<1>11. WeightBefore(9, c) = WEIGHT_CENTRE + SumFunctionOnSet(w, Neighbours(c))
  BY <1>7, <1>8 DEF WeightBefore, Taken
<1>12. SumFunction(f) = SumFunctionOnSet(f, Neighbours(c))
  BY DEF SumFunction, f
<1>13. SumFunction(w) = SumFunctionOnSet(w, Neighbours(c))
  BY DEF SumFunction, w
<1>14. QED
  BY <1>10, <1>11, <1>12, <1>13 DEF Mean, WeightedMean, f, w

\* baseMask gives the weighted mean of a pixel and its neighbours, divided as C
\* divides, and leaves the rest of the array alone.
THEOREM BaseIsMean == Spec => []BaseIsTheMean
<1>1. MaskInv => BaseIsTheMean
  BY TypesGiveShape, MeanIsWeighted DEF MaskInv, BaseInv, BaseIsTheMean
<1>2. QED
  BY <1>1, MaskInvariant, PTL
=============================================================================
