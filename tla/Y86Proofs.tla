----------------------------- MODULE Y86Proofs -----------------------------
(***************************************************************************)
(* Theorems about lab3/sort.ys and sort_optimal.ys, for every array of      *)
(* words, whatever the number of bytes of a word and of values of a byte.   *)
(***************************************************************************)
EXTENDS Y86Sort, NatLemmas, SequenceTheorems, TLAPS

(* Words and their bytes. *)

Weights(f, n) == f[0] = 1 /\ \A k \in 1 .. n : f[k] = ByteMod * f[k - 1]

LEMMA WeightsExist ==
  ASSUME NEW n \in Nat
  PROVE  \E f \in [0 .. n -> Nat] : Weights(f, n)
<1> DEFINE Bad == {m \in Nat : ~ \E f \in [0 .. m -> Nat] : Weights(f, m)}
<1>1. SUFFICES ASSUME Bad # {} PROVE FALSE
  OBVIOUS
<1>2. PICK m \in Bad : \A x \in Bad : m <= x
  BY <1>1, LeastElement
<1>3. ByteMod \in Nat
  BY Y86Assumption
<1>4. CASE m = 0
  <2> DEFINE f == [k \in 0 .. 0 |-> 1]
  <2>1. f \in [0 .. 0 -> Nat] /\ Weights(f, 0)
    BY DEF Weights
  <2>2. QED
    BY <1>2, <1>4, <2>1
<1>5. CASE m # 0
  <2>1. m - 1 \in Nat /\ ~ (m <= m - 1)
    BY <1>5
  <2>9. ~ (m - 1 \in Bad)
    BY <1>2, <2>1
  <2>2. PICK f \in [0 .. (m - 1) -> Nat] : Weights(f, m - 1)
    BY <2>1, <2>9
  <2> DEFINE g == [k \in 0 .. m |-> IF k = m THEN ByteMod * f[m - 1] ELSE f[k]]
  <2>3. g \in [0 .. m -> Nat]
    BY <1>3, <2>1
  <2>4. \A k \in 1 .. m : g[k] = ByteMod * g[k - 1]
    <3>1. ASSUME NEW k \in 1 .. m PROVE g[k] = ByteMod * g[k - 1]
      <4>1. k - 1 \in 0 .. m /\ k - 1 # m /\ g[k - 1] = f[k - 1]
        BY <2>1
      <4>2. CASE k = m
        BY <4>1, <4>2
      <4>3. CASE k # m
        <5>1. g[k] = f[k] /\ k \in 1 .. (m - 1)
          BY <4>3
        <5>2. f[k] = ByteMod * f[k - 1]
          BY <2>2, <5>1 DEF Weights
        <5>3. QED
          BY <4>1, <5>1, <5>2
      <4>4. QED
        BY <4>2, <4>3
    <3>2. QED
      BY <3>1
  <2>5. g[0] = 1
    BY <1>5, <2>2 DEF Weights
  <2>6. Weights(g, m)
    BY <2>4, <2>5 DEF Weights
  <2>7. QED
    BY <1>2, <2>3, <2>6
<1>6. QED
  BY <1>4, <1>5

\* What the weights are.
LEMMA WeightsAre ==
  /\ ByteWeight \in [0 .. WordBytes -> Nat]
  /\ ByteWeight[0] = 1
  /\ \A k \in 1 .. WordBytes : ByteWeight[k] = ByteMod * ByteWeight[k - 1]
<1> DEFINE F(f) == [k \in 0 .. WordBytes |-> IF k = 0 THEN 1 ELSE ByteMod * f[k - 1]]
<1>1. WordBytes \in Nat /\ ByteMod \in Nat
  BY Y86Assumption
<1>2. PICK f \in [0 .. WordBytes -> Nat] : Weights(f, WordBytes)
  BY <1>1, WeightsExist
<1>3. f = F(f)
  BY <1>1, <1>2 DEF Weights
<1>4. ByteWeight = CHOOSE g : g = F(g)
  BY DEF ByteWeight
<1>5. ByteWeight = F(ByteWeight)
  BY <1>3, <1>4
<1>6. ByteWeight[0] = 1 /\ \A k \in 1 .. WordBytes : ByteWeight[k] = ByteMod * ByteWeight[k - 1]
  BY <1>1, <1>5
<1>7. ByteWeight \in [0 .. WordBytes -> Nat]
  <2> DEFINE Bad == {k \in 0 .. WordBytes : ByteWeight[k] \notin Nat}
  <2>1. SUFFICES ASSUME Bad # {} PROVE FALSE
    BY <1>5
  <2>7. Bad \in SUBSET Nat
    BY <1>1
  <2>2. PICK m \in Bad : \A x \in Bad : m <= x
    BY <2>1, <2>7, LeastElement
  <2>3. m \in 1 .. WordBytes /\ m - 1 \in 0 .. WordBytes /\ ~ (m <= m - 1)
    BY <1>1, <1>6, <2>2
  <2>4. ByteWeight[m - 1] \in Nat
    BY <2>2, <2>3
  <2>5. ByteWeight[m] = ByteMod * ByteWeight[m - 1]
    BY <1>6, <2>3
  <2>6. QED
    BY <1>1, <2>2, <2>4, <2>5
<1>8. QED
  BY <1>6, <1>7

LEMMA WeightFacts ==
  /\ WordBytes \in Nat \ {0} /\ ByteMod \in Nat \ {0, 1}
  /\ WordMod \in Nat
  /\ \A k \in 0 .. WordBytes : ByteWeight[k] \in Nat \ {0}
  /\ ByteWeight[0] = 1 /\ ByteWeight[WordBytes] = WordMod
  /\ \A k \in Places : /\ k \in 0 .. WordBytes /\ k + 1 \in 0 .. WordBytes
                       /\ ByteWeight[k + 1] = ByteMod * ByteWeight[k]
<1>1. WordBytes \in Nat \ {0} /\ ByteMod \in Nat \ {0, 1}
  BY Y86Assumption
<1>2. \A k \in 0 .. WordBytes : ByteWeight[k] \in Nat
  BY WeightsAre
<1>3. WordMod \in Nat /\ ByteWeight[WordBytes] = WordMod
  BY <1>1, <1>2 DEF WordMod
<1>4. ASSUME NEW k \in Places
      PROVE  /\ k \in 0 .. WordBytes /\ k + 1 \in 0 .. WordBytes
             /\ ByteWeight[k + 1] = ByteMod * ByteWeight[k]
  <2>1. k + 1 \in 1 .. WordBytes /\ k \in Int /\ k \in 0 .. WordBytes /\ (k + 1) - 1 = k
    BY <1>1 DEF Places
  <2>2. ByteWeight[k + 1] = ByteMod * ByteWeight[(k + 1) - 1]
    BY <2>1, WeightsAre
  <2>3. QED
    BY <2>1, <2>2
<1>5. \A k \in 0 .. WordBytes : ByteWeight[k] # 0
  <2> DEFINE Bad == {k \in 0 .. WordBytes : ByteWeight[k] = 0}
  <2>1. SUFFICES ASSUME Bad # {} PROVE FALSE
    OBVIOUS
  <2>2. Bad \in SUBSET Nat
    BY <1>1
  <2>3. PICK m \in Bad : \A x \in Bad : m <= x
    BY <2>1, <2>2, LeastElement
  <2>4. m \in 1 .. WordBytes /\ m - 1 \in 0 .. WordBytes /\ ~ (m <= m - 1)
    BY <1>1, <2>3, WeightsAre
  <2>5. ByteWeight[m - 1] \in Nat /\ ByteWeight[m - 1] # 0
    BY <1>2, <2>3, <2>4
  <2>6. ByteWeight[m] = ByteMod * ByteWeight[m - 1]
    BY <2>4, WeightsAre
  <2>7. PICK p \in Nat : p = ByteWeight[m - 1] /\ p # 0
    BY <2>5
  <2>8. ByteMod * p # 0
    BY <1>1, <2>7
  <2>9. QED
    BY <2>3, <2>6, <2>7, <2>8
<1>6. QED
  BY <1>1, <1>2, <1>3, <1>4, <1>5, WeightsAre

-----------------------------------------------------------------------------
(* The lowest bytes of a word. *)

\* What the bytes d below place n are worth.
Low(d, n) == SumFunctionOnSet([k \in Places |-> d[k] * ByteWeight[k]], 0 .. (n - 1))

Digits == 0 .. (ByteMod - 1)

LEMMA LowSteps ==
  ASSUME NEW d, \A k \in Places : d[k] \in Digits
  PROVE  /\ Low(d, 0) = 0
         /\ \A n \in Places : Low(d, n + 1) = Low(d, n) + d[n] * ByteWeight[n]
<1> DEFINE f == [k \in Places |-> d[k] * ByteWeight[k]]
<1>1. \A k \in Places : f[k] \in Int
  <2>1. ASSUME NEW k \in Places PROVE f[k] \in Int
    <3>1. d[k] \in Int /\ ByteWeight[k] \in Int
      BY WeightFacts DEF Digits
    <3>2. QED
      BY <3>1
  <2>2. QED
    BY <2>1
<1>2. 0 .. (0 - 1) = {}
  OBVIOUS
<1>3. Low(d, 0) = 0
  BY <1>2, SumOfNone DEF Low
<1>4. ASSUME NEW n \in Places
      PROVE  Low(d, n + 1) = Low(d, n) + d[n] * ByteWeight[n]
  <2>1. n \in Nat /\ 0 .. ((n + 1) - 1) = (0 .. (n - 1)) \union {n} /\ n \notin 0 .. (n - 1)
    BY WeightFacts DEF Places
  <2>2. IsFiniteSet(0 .. (n - 1))
    BY <2>1, FS_Interval
  <2>3. (0 .. (n - 1)) \union {n} \subseteq Places
    BY WeightFacts DEF Places
  <2>4. IntegersOn(f, (0 .. (n - 1)) \union {n})
    BY <1>1, <2>3 DEF IntegersOn
  <2> HIDE DEF f
  <2>5. SumFunctionOnSet(f, (0 .. (n - 1)) \union {n}) = SumFunctionOnSet(f, 0 .. (n - 1)) + f[n]
    BY <2>1, <2>2, <2>4, SumOfOneMore
  <2>6. f[n] = d[n] * ByteWeight[n]
    BY DEF f
  <2>7. QED
    BY <2>1, <2>5, <2>6 DEF Low, f
<1>5. QED
  BY <1>3, <1>4

LEMMA LowRange ==
  ASSUME NEW d, \A k \in Places : d[k] \in Digits
  PROVE  \A n \in 0 .. WordBytes : Low(d, n) \in Nat /\ Low(d, n) < ByteWeight[n]
<1> DEFINE Good(n) == Low(d, n) \in Nat /\ Low(d, n) < ByteWeight[n]
           Bad == {n \in 0 .. WordBytes : ~ Good(n)}
<1>1. SUFFICES ASSUME Bad # {} PROVE FALSE
  OBVIOUS
<1>2. Bad \in SUBSET Nat
  BY WeightFacts
<1>3. PICK m \in Bad : \A x \in Bad : m <= x
  BY <1>1, <1>2, LeastElement
<1>4. m # 0
  BY <1>3, LowSteps, WeightFacts
<1>5. m - 1 \in Places /\ (m - 1) + 1 = m /\ ~ (m <= m - 1)
  BY <1>3, <1>4, WeightFacts DEF Places
<1>6. m - 1 \in 0 .. WordBytes
  BY <1>5, WeightFacts
<1>7. PICK x \in Nat, p \in Nat, e \in Digits, b \in Nat :
         /\ x = Low(d, m - 1) /\ p = ByteWeight[m - 1] /\ e = d[m - 1] /\ x < p /\ b = ByteMod
  BY <1>3, <1>5, <1>6, WeightFacts
<1>8. Low(d, m) = x + e * p /\ ByteWeight[m] = b * p
  BY <1>5, <1>7, LowSteps, WeightFacts
<1>9. e \in Nat /\ e + 1 <= b
  BY <1>7 DEF Digits
<1>10. PICK c \in Nat : b = e + 1 + c
  <2>1. b - (e + 1) \in Nat /\ b = e + 1 + (b - (e + 1))
    BY <1>7, <1>9
  <2>2. QED
    BY <2>1
<1>11. b * p = e * p + p + c * p
  BY <1>7, <1>9, <1>10
<1>12. e * p \in Nat /\ c * p \in Nat
  BY <1>7, <1>9, <1>10
<1>13. x + e * p \in Nat /\ x + e * p < b * p
  BY <1>7, <1>11, <1>12
<1>14. QED
  BY <1>3, <1>8, <1>13

\* A weight divides the higher ones.
LEMMA WeightDivides ==
  ASSUME NEW j \in 0 .. WordBytes
  PROVE  \A n \in j .. WordBytes : \E c \in Nat : ByteWeight[n] = ByteWeight[j] * c
<1> DEFINE Good(n) == \E c \in Nat : ByteWeight[n] = ByteWeight[j] * c
           Bad == {n \in j .. WordBytes : ~ Good(n)}
<1>1. SUFFICES ASSUME Bad # {} PROVE FALSE
  OBVIOUS
<1>2. Bad \in SUBSET Nat
  BY WeightFacts
<1>3. PICK m \in Bad : \A x \in Bad : m <= x
  BY <1>1, <1>2, LeastElement
<1>4. m # j
  <2>1. ByteWeight[j] = ByteWeight[j] * 1
    BY WeightFacts
  <2>2. QED
    BY <1>3, <2>1
<1>5. m - 1 \in Places /\ (m - 1) + 1 = m /\ ~ (m <= m - 1) /\ m - 1 \in j .. WordBytes
  BY <1>3, <1>4, WeightFacts DEF Places
<1>6. PICK c \in Nat : ByteWeight[m - 1] = ByteWeight[j] * c
  BY <1>3, <1>5
<1>7. PICK p \in Nat, b \in Nat : p = ByteWeight[j] /\ b = ByteMod
  BY WeightFacts
<1>8. ByteWeight[m] = b * (p * c)
  BY <1>5, <1>6, <1>7, WeightFacts
<1>9. b * (p * c) = p * (b * c) /\ b * c \in Nat
  BY <1>6, <1>7
<1>10. QED
  BY <1>3, <1>7, <1>8, <1>9

LEMMA Regrouped ==
  ASSUME NEW x \in Nat, NEW p \in Nat, NEW q \in Nat, NEW e \in Nat, NEW c \in Nat
  PROVE  x + p * q + e * (p * c) = x + p * (q + e * c) /\ q + e * c \in Nat
OBVIOUS

\* What lies above place j is a multiple of the next weight.
LEMMA LowSplits ==
  ASSUME NEW d, \A k \in Places : d[k] \in Digits, NEW j \in Places
  PROVE  \A n \in (j + 1) .. WordBytes : \E q \in Nat :
            Low(d, n) = Low(d, j + 1) + ByteWeight[j + 1] * q
<1> DEFINE Good(n) == \E q \in Nat : Low(d, n) = Low(d, j + 1) + ByteWeight[j + 1] * q
           Bad == {n \in (j + 1) .. WordBytes : ~ Good(n)}
<1>1. SUFFICES ASSUME Bad # {} PROVE FALSE
  OBVIOUS
<1>2. j \in Nat /\ j + 1 \in 0 .. WordBytes
  BY WeightFacts DEF Places
<1>3. Bad \in SUBSET Nat
  BY <1>2, WeightFacts
<1>4. PICK m \in Bad : \A x \in Bad : m <= x
  BY <1>1, <1>3, LeastElement
<1>5. PICK p \in Nat, x \in Nat : p = ByteWeight[j + 1] /\ x = Low(d, j + 1)
  BY <1>2, WeightFacts, LowRange
<1>6. m # j + 1
  <2>1. Low(d, j + 1) = Low(d, j + 1) + ByteWeight[j + 1] * 0
    BY <1>5
  <2>2. QED
    BY <1>4, <2>1
<1>7. /\ m - 1 \in Places /\ (m - 1) + 1 = m /\ ~ (m <= m - 1)
      /\ m - 1 \in (j + 1) .. WordBytes
  BY <1>2, <1>4, <1>6, WeightFacts DEF Places
<1>8. PICK q \in Nat : Low(d, m - 1) = x + p * q
  BY <1>4, <1>5, <1>7
<1>9. PICK c \in Nat : ByteWeight[m - 1] = p * c
  BY <1>2, <1>5, <1>7, WeightDivides
<1>10. PICK e \in Nat : e = d[m - 1]
  BY <1>7, WeightFacts DEF Digits
<1>11. Low(d, m) = x + p * q + e * (p * c)
  BY <1>7, <1>8, <1>9, <1>10, LowSteps
<1>12. x + p * q + e * (p * c) = x + p * (q + e * c) /\ q + e * c \in Nat
  <2>1. x + p * q + e * (p * c) = x + p * (q + e * c)
    BY Regrouped
  <2>2. q + e * c \in Nat
    OBVIOUS
  <2>3. QED
    BY <2>1, <2>2
<1>13. QED
  BY <1>4, <1>5, <1>11, <1>12

\* A digit of a number.
LEMMA DigitOf ==
  ASSUME NEW x \in Nat, NEW p \in Nat, NEW b \in Nat, NEW e \in Nat, NEW q \in Nat,
         x < p, e < b
  PROVE  ((x + e * p + (b * p) * q) \div p) % b = e
<1>1. x + e * p + (b * p) * q = x + p * (e + b * q)
  OBVIOUS
<1>2. e + b * q \in Nat
  OBVIOUS
<1>3. (x + p * (e + b * q)) \div p = e + b * q
  <2>1. PICK y \in Nat : y = e + b * q
    BY <1>2
  <2>2. (x + p * y) \div p = y
    OBVIOUS
  <2>3. QED
    BY <2>1, <2>2
<1>4. (e + b * q) % b = e
  OBVIOUS
<1>5. QED
  BY <1>1, <1>3, <1>4

LEMMA LowDigit ==
  ASSUME NEW d, \A k \in Places : d[k] \in Digits, NEW j \in Places
  PROVE  (Low(d, WordBytes) \div ByteWeight[j]) % ByteMod = d[j]
<1>1. PICK x \in Nat, p \in Nat, b \in Nat, e \in Nat :
         /\ x = Low(d, j) /\ p = ByteWeight[j] /\ b = ByteMod /\ e = d[j]
         /\ x < p /\ e < b
  <2>1. j \in 0 .. WordBytes /\ ByteMod \in Nat /\ d[j] \in Digits
    BY WeightFacts
  <2>2. Low(d, j) \in Nat /\ Low(d, j) < ByteWeight[j] /\ ByteWeight[j] \in Nat
    BY <2>1, LowRange, WeightFacts
  <2>3. d[j] \in Nat /\ d[j] < ByteMod
    BY <2>1 DEF Digits
  <2>4. QED
    BY <2>1, <2>2, <2>3
<1>2. Low(d, j + 1) = x + e * p /\ ByteWeight[j + 1] = b * p
  BY <1>1, LowSteps, WeightFacts
<1>3. WordBytes \in (j + 1) .. WordBytes
  BY WeightFacts DEF Places
<1>4. PICK q \in Nat : Low(d, WordBytes) = Low(d, j + 1) + ByteWeight[j + 1] * q
  BY <1>3, LowSplits
<1>5. Low(d, WordBytes) = x + e * p + (b * p) * q
  BY <1>2, <1>4
<1>6. ((x + e * p + (b * p) * q) \div p) % b = e
  BY <1>1, DigitOf
<1>7. QED
  BY <1>1, <1>5, <1>6

LEMMA WordIsLow ==
  ASSUME NEW m, NEW a, NEW d, d = [k \in Places |-> m[a + k]]
  PROVE  Word(m, a) = IF Low(d, WordBytes) < WordMod \div 2
                      THEN Low(d, WordBytes) ELSE Low(d, WordBytes) - WordMod
<1>1. [k \in Places |-> m[a + k] * ByteWeight[k]] = [k \in Places |-> d[k] * ByteWeight[k]]
  OBVIOUS
<1>2. Places = 0 .. (WordBytes - 1)
  BY DEF Places
<1>3. QED
  BY <1>1, <1>2 DEF Word, Low

LEMMA WordModulo ==
  ASSUME NEW M \in Nat \ {0}, NEW u \in Nat, u < M
  PROVE  /\ u % M = u
         /\ (u - M) % M = u
OBVIOUS

\* The bytes of a word that was read are those that it was read from.
LEMMA BytesOfWord ==
  ASSUME NEW m, NEW a, \A k \in Places : m[a + k] \in Digits
  PROVE  /\ Word(m, a) \in Words
         /\ \A k \in Places : Byte(Word(m, a), k) = m[a + k]
<1> DEFINE d == [k \in Places |-> m[a + k]]
<1>1. \A k \in Places : d[k] \in Digits
  OBVIOUS
<1> HIDE DEF d
<1>2. PICK u \in Nat, M \in Nat \ {0} : u = Low(d, WordBytes) /\ M = WordMod /\ u < M
  <2>1. WordBytes \in 0 .. WordBytes
    BY WeightFacts
  <2>2. QED
    BY <1>1, <2>1, LowRange, WeightFacts
<1>3. Word(m, a) = IF u < M \div 2 THEN u ELSE u - M
  BY <1>2, WordIsLow DEF d
<1>4. M \div 2 \in Nat /\ M \div 2 <= M
  BY <1>2
<1>5. Word(m, a) \in Words
  BY <1>2, <1>3, <1>4 DEF Words
<1>6. Word(m, a) % WordMod = u
  <2>1. u % M = u /\ (u - M) % M = u
    BY <1>2, WordModulo
  <2>2. QED
    BY <1>2, <1>3, <2>1
<1>7. ASSUME NEW k \in Places
      PROVE  Byte(Word(m, a), k) = m[a + k]
  <2>1. (u \div ByteWeight[k]) % ByteMod = d[k]
    BY <1>1, <1>2, LowDigit
  <2>2. QED
    BY <1>6, <2>1 DEF Byte, d
<1>8. QED
  BY <1>5, <1>7

LEMMA ModuloSplits ==
  ASSUME NEW u \in Nat, NEW p \in Nat \ {0}, NEW b \in Nat \ {0}
  PROVE  u % (b * p) = (u % p) + ((u \div p) % b) * p
<1>1. PICK y \in Nat, r \in Nat : y = u \div p /\ r = u % p /\ u = p * y + r /\ r < p
  OBVIOUS
<1>2. PICK z \in Nat, e \in Nat : z = y \div b /\ e = y % b /\ y = b * z + e /\ e < b
  OBVIOUS
<1>3. u = (b * p) * z + (e * p + r)
  <2>1. p * (b * z + e) + r = (b * p) * z + (e * p + r)
    OBVIOUS
  <2>2. QED
    BY <1>1, <1>2, <2>1
<1>4. e * p + r < b * p /\ e * p + r \in Nat /\ b * p \in Nat \ {0}
  <2>1. PICK c \in Nat : b = e + 1 + c
    <3>1. b - (e + 1) \in Nat /\ b = e + 1 + (b - (e + 1))
      BY <1>2
    <3>2. QED
      BY <3>1
  <2>2. b * p = e * p + p + c * p
    BY <2>1
  <2>3. e * p \in Nat /\ c * p \in Nat
    OBVIOUS
  <2>4. QED
    BY <1>1, <2>2, <2>3
<1>5. PICK B \in Nat \ {0}, w \in Nat : B = b * p /\ w = e * p + r /\ w < B
  BY <1>4
<1>6. (B * z + w) % B = w
  BY <1>5
<1>7. QED
  BY <1>1, <1>2, <1>3, <1>5, <1>6

LEMMA ByteIsDigit ==
  ASSUME NEW v \in Int, NEW k \in Places
  PROVE  Byte(v, k) \in Digits
<1>1. PICK M \in Nat \ {0}, p \in Nat \ {0}, b \in Nat \ {0} :
         M = WordMod /\ p = ByteWeight[k] /\ b = ByteMod
  BY WeightFacts
<1>2. PICK u \in Nat : u = v % M
  BY <1>1
<1>3. PICK y \in Nat : y = u \div p
  BY <1>1
<1>4. y % b \in 0 .. (b - 1)
  BY <1>1
<1>5. QED
  BY <1>1, <1>2, <1>3, <1>4 DEF Byte, Digits

\* A word is what its bytes are worth.
LEMMA WordFromBytes ==
  ASSUME NEW v \in Words, NEW m, NEW a, \A k \in Places : m[a + k] = Byte(v, k)
  PROVE  Word(m, a) = v
<1> DEFINE d == [k \in Places |-> m[a + k]]
           Good(n) == Low(d, n) = (v % WordMod) % ByteWeight[n]
           Bad == {n \in 0 .. WordBytes : ~ Good(n)}
<1>1. v \in Int
  BY DEF Words
<1>2. \A k \in Places : d[k] \in Digits /\ d[k] = Byte(v, k)
  BY <1>1, ByteIsDigit
<1> HIDE DEF d
<1>3. PICK M \in Nat \ {0}, b \in Nat \ {0} : M = WordMod /\ b = ByteMod
  BY WeightFacts
<1>4. PICK u \in Nat : u = v % M /\ u < M
  BY <1>1, <1>3
<1>5. Good(0)
  <2>1. u % 1 = 0
    OBVIOUS
  <2>2. Low(d, 0) = 0
    BY <1>2, LowSteps
  <2>3. QED
    BY <1>3, <1>4, <2>1, <2>2, WeightFacts
<1>6. ASSUME NEW n \in Places, Good(n) PROVE Good(n + 1)
  <2>1. PICK p \in Nat \ {0} : p = ByteWeight[n]
    BY WeightFacts
  <2>2. u % (b * p) = (u % p) + ((u \div p) % b) * p
    BY ModuloSplits
  <2>3. d[n] = (u \div p) % b
    BY <1>2, <1>3, <1>4, <2>1 DEF Byte
  <2>4. Low(d, n + 1) = Low(d, n) + d[n] * p /\ ByteWeight[n + 1] = b * p
    BY <1>2, <1>3, <2>1, LowSteps, WeightFacts
  <2>5. Low(d, n) = u % p
    BY <1>3, <1>4, <1>6, <2>1
  <2>6. QED
    BY <1>3, <1>4, <2>2, <2>3, <2>4, <2>5
<1>7. Bad = {}
  <2>1. SUFFICES ASSUME Bad # {} PROVE FALSE
    OBVIOUS
  <2>2. Bad \in SUBSET Nat
    BY WeightFacts
  <2> HIDE DEF Good
  <2>3. PICK n \in Bad : \A x \in Bad : n <= x
    BY <2>1, <2>2, LeastElement
  <2>4. n # 0
    BY <1>5, <2>3
  <2>5. n - 1 \in Places /\ (n - 1) + 1 = n /\ ~ (n <= n - 1) /\ n - 1 \in 0 .. WordBytes
    BY <2>3, <2>4, WeightFacts DEF Places
  <2>6. Good(n - 1)
    BY <2>3, <2>5
  <2>7. Good((n - 1) + 1)
    BY <1>6, <2>5, <2>6
  <2>8. QED
    BY <2>3, <2>5, <2>7
<1>8. Low(d, WordBytes) = u
  <2>1. WordBytes \in 0 .. WordBytes
    BY WeightFacts
  <2>2. Low(d, WordBytes) = u % M
    BY <1>3, <1>4, <1>7, <2>1, WeightFacts
  <2>3. QED
    BY <1>3, <1>4, <2>2
<1>9. Word(m, a) = IF u < M \div 2 THEN u ELSE u - M
  BY <1>3, <1>8, WordIsLow DEF d
<1>10. v \in (M \div 2 - M) .. (M \div 2 - 1) /\ M \div 2 \in Nat /\ M \div 2 <= M
  BY <1>3 DEF Words
<1>11. CASE v >= 0
  <2>1. u = v
    BY <1>1, <1>4, <1>10, <1>11
  <2>2. QED
    BY <1>9, <1>10, <2>1
<1>12. CASE v < 0
  <2>1. v + M \in Nat /\ v + M < M /\ ((v + M) - M) % M = v + M
    BY <1>1, <1>10, <1>12, WordModulo
  <2>2. u = v + M
    BY <1>1, <1>4, <2>1
  <2>3. QED
    BY <1>1, <1>9, <1>10, <2>2
<1>13. QED
  BY <1>1, <1>11, <1>12

\* Words of the same bytes are the same.
LEMMA WordOfSame ==
  ASSUME NEW m, NEW a \in Nat, NEW n, NEW b \in Nat, \A k \in Places : m[a + k] = n[b + k]
  PROVE  Word(m, a) = Word(n, b)
<1>1. [k \in Places |-> m[a + k] * ByteWeight[k]] = [k \in Places |-> n[b + k] * ByteWeight[k]]
  OBVIOUS
<1>2. QED
  BY <1>1 DEF Word

-----------------------------------------------------------------------------
(* Memory: the bytes 0 .. n - 1, two words of which are exchanged. *)

Apart(a, b) == a + WordBytes <= b \/ b + WordBytes <= a

\* Two words in a memory of n bytes, which are the same or have no byte in common.
TwoWords(n, a, b) ==
    /\ n \in Nat /\ a \in Nat /\ b \in Nat
    /\ a + WordBytes <= n /\ b + WordBytes <= n
    /\ a = b \/ Apart(a, b)

\* Where the exchange takes the byte x from.
From(a, b, x) ==
    IF x \in a .. (a + WordBytes - 1) THEN b + (x - a)
    ELSE IF x \in b .. (b + WordBytes - 1) THEN a + (x - b)
    ELSE x

LEMMA FromIsInvolution ==
  ASSUME NEW n \in Nat, NEW a \in Nat, NEW b \in Nat, TwoWords(n, a, b), NEW x \in 0 .. (n - 1)
  PROVE  From(a, b, x) \in 0 .. (n - 1) /\ From(a, b, From(a, b, x)) = x
<1>1. PICK w \in Nat : w = WordBytes /\ w > 0
  BY WeightFacts
<1>2. QED
  BY <1>1 DEF From, TwoWords, Apart

LEMMA StoredBytes ==
  ASSUME NEW n \in Nat, NEW m \in [0 .. (n - 1) -> Digits], NEW a \in Nat,
         a + WordBytes <= n, NEW v \in Int
  PROVE  /\ Stored(m, a, v) \in [0 .. (n - 1) -> Digits]
         /\ \A x \in 0 .. (n - 1) :
               Stored(m, a, v)[x] = IF x \in a .. (a + WordBytes - 1)
                                    THEN Byte(v, x - a) ELSE m[x]
<1>1. DOMAIN m = 0 .. (n - 1)
  OBVIOUS
<1>2. ASSUME NEW x \in 0 .. (n - 1), x \in a .. (a + WordBytes - 1)
      PROVE  Byte(v, x - a) \in Digits
  <2>1. x - a \in Places
    BY <1>2, WeightFacts DEF Places
  <2>2. QED
    BY <2>1, ByteIsDigit
<1>3. QED
  BY <1>1, <1>2 DEF Stored

\* Bytes move in whole words.
LEMMA SwappedBytes ==
  ASSUME NEW n \in Nat, NEW a \in Nat, NEW b \in Nat, TwoWords(n, a, b), NEW m \in [0 .. (n - 1) -> Digits]
  PROVE  /\ WordsSwapped(m, a, b) \in [0 .. (n - 1) -> Digits]
         /\ \A x \in 0 .. (n - 1) : WordsSwapped(m, a, b)[x] = m[From(a, b, x)]
<1>1. /\ n \in Nat /\ a \in Nat /\ b \in Nat /\ a + WordBytes <= n /\ b + WordBytes <= n
      /\ WordBytes \in Nat \ {0}
  BY WeightFacts DEF TwoWords
<1>2. ASSUME NEW c \in Nat, c + WordBytes <= n
      PROVE  /\ Word(m, c) \in Int
             /\ \A k \in Places : Byte(Word(m, c), k) = m[c + k]
  <2>1. \A k \in Places : c + k \in 0 .. (n - 1)
    BY <1>1, <1>2 DEF Places
  <2>2. \A k \in Places : m[c + k] \in Digits
    BY <2>1
  <2>3. Word(m, c) \in Words /\ \A k \in Places : Byte(Word(m, c), k) = m[c + k]
    BY <2>2, BytesOfWord, Zenon
  <2>4. QED
    BY <2>3 DEF Words
<1>3. PICK va \in Int, vb \in Int : va = Word(m, a) /\ vb = Word(m, b)
  BY <1>1, <1>2
<1>4. PICK h \in [0 .. (n - 1) -> Digits] :
         /\ h = Stored(m, a, vb)
         /\ \A x \in 0 .. (n - 1) :
               h[x] = IF x \in a .. (a + WordBytes - 1) THEN Byte(vb, x - a) ELSE m[x]
  <2>1. /\ Stored(m, a, vb) \in [0 .. (n - 1) -> Digits]
        /\ \A x \in 0 .. (n - 1) :
              Stored(m, a, vb)[x] = IF x \in a .. (a + WordBytes - 1)
                                    THEN Byte(vb, x - a) ELSE m[x]
    BY <1>1, StoredBytes
  <2>2. QED
    BY <2>1
<1>5. WordsSwapped(m, a, b) = Stored(h, b, va)
  BY <1>3, <1>4 DEF WordsSwapped
<1>6. /\ WordsSwapped(m, a, b) \in [0 .. (n - 1) -> Digits]
      /\ \A x \in 0 .. (n - 1) :
            WordsSwapped(m, a, b)[x] = IF x \in b .. (b + WordBytes - 1)
                                       THEN Byte(va, x - b) ELSE h[x]
  BY <1>1, <1>5, StoredBytes
<1>8. ASSUME NEW x \in 0 .. (n - 1)
      PROVE  WordsSwapped(m, a, b)[x] = m[From(a, b, x)]
  <2>1. CASE x \in b .. (b + WordBytes - 1)
    <3>1. x - b \in Places
      BY <1>1, <2>1 DEF Places
    <3>2. WordsSwapped(m, a, b)[x] = m[a + (x - b)]
      BY <1>1, <1>2, <1>3, <1>6, <2>1, <3>1
    <3>3. From(a, b, x) = a + (x - b)
      BY <1>1, <2>1 DEF From, TwoWords, Apart
    <3>4. QED
      BY <3>2, <3>3
  <2>2. CASE x \notin b .. (b + WordBytes - 1) /\ x \in a .. (a + WordBytes - 1)
    <3>1. x - a \in Places
      BY <1>1, <2>2 DEF Places
    <3>2. WordsSwapped(m, a, b)[x] = m[b + (x - a)]
      BY <1>1, <1>2, <1>3, <1>4, <1>6, <2>2, <3>1
    <3>3. QED
      BY <2>2, <3>2 DEF From
  <2>3. CASE x \notin b .. (b + WordBytes - 1) /\ x \notin a .. (a + WordBytes - 1)
    BY <1>4, <1>6, <2>3 DEF From
  <2>4. QED
    BY <2>1, <2>2, <2>3
<1>9. QED
  BY <1>6, <1>8

LEMMA WordTyped ==
  ASSUME NEW n \in Nat, NEW m \in [0 .. (n - 1) -> Digits],
         NEW a \in Nat, a + WordBytes <= n
  PROVE  Word(m, a) \in Words /\ Word(m, a) \in Int
<1>1. \A k \in Places : a + k \in 0 .. (n - 1)
  BY WeightFacts DEF Places
<1>2. \A k \in Places : m[a + k] \in Digits
  BY <1>1
<1>3. QED
  BY <1>2, BytesOfWord DEF Words

LEMMA SwappedWords ==
  ASSUME NEW n \in Nat, NEW a \in Nat, NEW b \in Nat, TwoWords(n, a, b),
         NEW m \in [0 .. (n - 1) -> Digits]
  PROVE  /\ Word(WordsSwapped(m, a, b), a) = Word(m, b)
         /\ Word(WordsSwapped(m, a, b), b) = Word(m, a)
<1> DEFINE e == WordsSwapped(m, a, b)
<1>1. \A x \in 0 .. (n - 1) : e[x] = m[From(a, b, x)]
  BY SwappedBytes
<1> HIDE DEF e
<1>2. PICK w \in Nat : /\ w = WordBytes /\ w > 0 /\ a + w <= n /\ b + w <= n
                       /\ (a = b \/ a + w <= b \/ b + w <= a)
  BY WeightFacts DEF TwoWords, Apart
<1>3. \A k \in Places : k \in 0 .. (w - 1)
  BY <1>2 DEF Places
<1>4. \A k \in Places : e[a + k] = m[b + k]
  BY <1>1, <1>2, <1>3 DEF From
<1>5. \A k \in Places : e[b + k] = m[a + k]
  BY <1>1, <1>2, <1>3 DEF From
<1>6. Word(e, a) = Word(m, b) /\ Word(e, b) = Word(m, a)
  BY <1>4, <1>5, WordOfSame
<1>7. QED
  BY <1>6 DEF e

LEMMA OtherWordKept ==
  ASSUME NEW n \in Nat, NEW a \in Nat, NEW b \in Nat, TwoWords(n, a, b),
         NEW m \in [0 .. (n - 1) -> Digits],
         NEW c \in Nat, c + WordBytes <= n, Apart(a, c), Apart(b, c)
  PROVE  Word(WordsSwapped(m, a, b), c) = Word(m, c)
<1> DEFINE e == WordsSwapped(m, a, b)
<1>1. \A x \in 0 .. (n - 1) : e[x] = m[From(a, b, x)]
  BY SwappedBytes
<1> HIDE DEF e
<1>2. PICK w \in Nat : w = WordBytes /\ w > 0 /\ a + w <= n /\ b + w <= n
  BY WeightFacts DEF TwoWords
<1>3. \A k \in Places : k \in 0 .. (w - 1)
  BY <1>2 DEF Places
<1>4. \A k \in Places : e[c + k] = m[c + k]
  BY <1>1, <1>2, <1>3 DEF From, Apart
<1>5. Word(e, c) = Word(m, c)
  BY <1>4, WordOfSame
<1>6. QED
  BY <1>5 DEF e

-----------------------------------------------------------------------------
(* The invariant of the machine. *)

Levels == Len(callers)
Triples == Int \X Int \X Int
Cells == Int \union {"halt", "second", "LN1"}
Registers == [rdi : Int, rsi : Int, rbp : Int, rbx : Int, r12 : Int,
              rax : Int, rcx : Int, r8 : Int]
InCallee == {"LN5", "LN3", "second", "LN1"}

TypeOK ==
    /\ Size \in Nat /\ array \in [0 .. (Size - 1) -> Words]
    /\ mem \in [0 .. ((Size + 1) * WordBytes - 1) -> Digits]
    /\ reg \in Registers
    /\ callers \in Seq(Triples) /\ stack \in Seq(Cells)
    /\ pc \in {"quickSort", "halt"} \union InCallee

\* The stack holds a return address for each call, and after it, once the
\* callee has pushed them, the registers as the caller left them.
StackOK ==
    /\ pc = "halt" => Levels = 0 /\ Len(stack) = 0
    /\ pc = "quickSort" => /\ Levels > 0 /\ Len(stack) = 4 * Levels - 3
                           /\ callers[Levels] = CalleeSaved(reg)
    /\ pc \in InCallee => Levels > 0 /\ Len(stack) = 4 * Levels
    /\ \A k \in 1 .. Levels :
          /\ stack[4 * k - 3] \in IF k = 1 THEN {"halt"} ELSE {"second", "LN1"}
          /\ 4 * k <= Len(stack) =>
                <<stack[4 * k - 2], stack[4 * k - 1], stack[4 * k]>> = callers[k]

\* A call is of a range of the array, and each level has an element less.
CallFits ==
    pc = "quickSort" => /\ reg.rdi >= 0 /\ reg.rsi >= 0
                        /\ reg.rdi + reg.rsi * WordBytes <= Size * WordBytes
                        /\ reg.rsi + Levels - 1 <= Size

\* The loop, with i words passed up to the pivot and j passed in all.
LoopAt(i, j) ==
    /\ reg.rbp >= 2 /\ reg.rdi >= 0
    /\ reg.rdi + reg.rbp * WordBytes <= Size * WordBytes
    /\ reg.rbp + Levels - 1 <= Size
    /\ reg.rcx = reg.rdi + (reg.rbp - 1) * WordBytes
    /\ reg.rbx = reg.rdi + i * WordBytes
    /\ reg.rax = reg.rdi + j * WordBytes
    /\ i <= j
    /\ IF pc = "LN5" THEN j < reg.rbp - 1 ELSE j = reg.rbp - 1
    /\ \A k \in 0 .. (i - 1) : Word(mem, reg.rdi + k * WordBytes) <= reg.r8
    /\ \A k \in i .. (j - 1) : Word(mem, reg.rdi + k * WordBytes) > reg.r8
    /\ Word(mem, reg.rcx) = reg.r8

LoopFits == pc \in {"LN5", "LN3"} => \E i, j \in 0 .. Size : LoopAt(i, j)

\* What is left for a second call, in the registers c of the caller at level l,
\* is a range of the array too.
RestOf(c) == (IF version = "sort" THEN c[2] - c[1] ELSE c[2]) - 1

RestFits(c, l) ==
    /\ c[3] >= 0 /\ RestOf(c) >= 0
    /\ c[3] + PastPivot + RestOf(c) * WordBytes <= Size * WordBytes
    /\ RestOf(c) + l <= Size /\ l + 1 <= Size

SecondCallsFit ==
    /\ pc = "second" => RestFits(CalleeSaved(reg), Levels)
    /\ \A k \in 2 .. Levels : stack[4 * k - 3] = "second" => RestFits(callers[k], k - 1)

\* No more levels than elements.
LevelsBounded == Levels >= 2 => Levels <= Size

\* The word after the array is its length still.
LengthKept == Word(mem, Size * WordBytes) = Size

MachineInv ==
    /\ TypeOK /\ StackOK /\ CallFits /\ LoopFits /\ SecondCallsFit /\ LevelsBounded
    /\ LengthKept

-----------------------------------------------------------------------------
(* The stack: push, call and return. *)

LEMMA PushedStack ==
  ASSUME NEW s \in Seq(Cells), NEW r \in Registers
  PROVE  /\ Pushed(s, r) \in Seq(Cells) /\ Len(Pushed(s, r)) = Len(s) + 3
         /\ \A x \in 1 .. Len(s) : Pushed(s, r)[x] = s[x]
         /\ Pushed(s, r)[Len(s) + 1] = r.r12
         /\ Pushed(s, r)[Len(s) + 2] = r.rbp
         /\ Pushed(s, r)[Len(s) + 3] = r.rbx
<1>1. r.r12 \in Cells /\ r.rbp \in Cells /\ r.rbx \in Cells
  BY DEF Registers, Cells
<1>2. CalleeSaved(r) \in Seq(Cells) /\ Len(CalleeSaved(r)) = 3
  BY <1>1 DEF CalleeSaved
<1>3. CalleeSaved(r)[1] = r.r12 /\ CalleeSaved(r)[2] = r.rbp /\ CalleeSaved(r)[3] = r.rbx
  BY DEF CalleeSaved
<1>4. PICK n \in Nat : n = Len(s)
  OBVIOUS
<1>5. PICK c \in Seq(Cells) : c = CalleeSaved(r) /\ Len(c) = 3
  BY <1>2
<1>6. /\ s \o c \in Seq(Cells) /\ Len(s \o c) = Len(s) + Len(c)
      /\ \A x \in 1 .. (Len(s) + Len(c)) :
            (s \o c)[x] = IF x <= Len(s) THEN s[x] ELSE c[x - Len(s)]
  BY ConcatProperties
<1>7. Pushed(s, r) = s \o c
  BY <1>5 DEF Pushed
<1>8. QED
  BY <1>3, <1>4, <1>5, <1>6, <1>7

\* What the callee has pushed is what its caller left.
LEMMA PushStep ==
  ASSUME TypeOK, StackOK, pc = "quickSort", stack' = Pushed(stack, reg),
         callers' = callers, pc' \in InCallee
  PROVE  /\ StackOK' /\ stack' \in Seq(Cells) /\ Levels' = Levels
         /\ \A k \in 1 .. Levels : stack'[4 * k - 3] = stack[4 * k - 3]
<1>1. PICK l \in Nat : l = Levels /\ l > 0 /\ Len(stack) = 4 * l - 3
  BY DEF TypeOK, StackOK, Levels
<1>2. /\ stack' \in Seq(Cells) /\ Len(stack') = 4 * l
      /\ \A x \in 1 .. (4 * l - 3) : stack'[x] = stack[x]
      /\ stack'[4 * l - 2] = reg.r12 /\ stack'[4 * l - 1] = reg.rbp
      /\ stack'[4 * l] = reg.rbx
  <2>1. stack \in Seq(Cells) /\ reg \in Registers
    BY DEF TypeOK
  <2>2. /\ stack' \in Seq(Cells) /\ Len(stack') = Len(stack) + 3
        /\ \A x \in 1 .. Len(stack) : stack'[x] = stack[x]
        /\ stack'[Len(stack) + 1] = reg.r12 /\ stack'[Len(stack) + 2] = reg.rbp
        /\ stack'[Len(stack) + 3] = reg.rbx
    BY <2>1, PushedStack
  <2>3. 4 * l - 3 + 1 = 4 * l - 2 /\ 4 * l - 3 + 2 = 4 * l - 1 /\ 4 * l - 3 + 3 = 4 * l
    BY <1>1
  <2>4. QED
    BY <1>1, <2>2, <2>3
<1>3. Levels' = l
  BY <1>1 DEF Levels
<1>4. \A k \in 1 .. l : stack'[4 * k - 3] = stack[4 * k - 3]
  BY <1>1, <1>2
<1>5. ASSUME NEW k \in 1 .. l
      PROVE  <<stack'[4 * k - 2], stack'[4 * k - 1], stack'[4 * k]>> = callers[k]
  <2>1. CASE k = l
    BY <1>1, <1>2, <2>1 DEF StackOK, CalleeSaved
  <2>2. CASE k < l
    <3>1. 4 * k <= 4 * l - 3 /\ 4 * k - 2 \in 1 .. (4 * l - 3) /\ 4 * k - 1 \in 1 .. (4 * l - 3)
          /\ 4 * k \in 1 .. (4 * l - 3)
      BY <1>1, <2>2
    <3>2. <<stack[4 * k - 2], stack[4 * k - 1], stack[4 * k]>> = callers[k]
      BY <1>1, <3>1 DEF StackOK
    <3>3. QED
      BY <1>2, <3>1, <3>2
  <2>3. QED
    BY <1>1, <2>1, <2>2
<1>6. StackOK'
  <2>1. pc' # "halt" /\ pc' # "quickSort"
    BY DEF InCallee
  <2>2. \A k \in 1 .. l : stack[4 * k - 3] \in IF k = 1 THEN {"halt"} ELSE {"second", "LN1"}
    BY <1>1 DEF StackOK
  <2>3. QED
    BY <1>1, <1>2, <1>3, <1>4, <1>5, <2>1, <2>2 DEF StackOK
<1>7. QED
  BY <1>1, <1>2, <1>3, <1>4, <1>6

LEMMA CallStep ==
  ASSUME TypeOK, StackOK, pc \in InCallee, reg' \in Registers,
         NEW back \in {"second", "LN1"}, stack' = Append(stack, back),
         callers' = Append(callers, CalleeSaved(reg')), pc' = "quickSort"
  PROVE  /\ StackOK' /\ stack' \in Seq(Cells) /\ callers' \in Seq(Triples)
         /\ Levels' = Levels + 1
         /\ \A k \in 1 .. Levels : /\ stack'[4 * k - 3] = stack[4 * k - 3]
                                   /\ callers'[k] = callers[k]
         /\ stack'[4 * (Levels + 1) - 3] = back
         /\ callers'[Levels + 1] = CalleeSaved(reg')
<1>1. PICK l \in Nat : l = Levels /\ l > 0 /\ Len(stack) = 4 * l
  BY DEF TypeOK, StackOK, Levels
<1>2. /\ stack' \in Seq(Cells) /\ Len(stack') = 4 * l + 1
      /\ \A x \in 1 .. (4 * l) : stack'[x] = stack[x]
      /\ stack'[4 * l + 1] = back
  <2>1. stack \in Seq(Cells) /\ back \in Cells
    BY DEF TypeOK, Cells
  <2>2. QED
    BY <1>1, <2>1, AppendProperties
<1>3. /\ callers' \in Seq(Triples) /\ Levels' = l + 1
      /\ \A k \in 1 .. l : callers'[k] = callers[k]
      /\ callers'[l + 1] = CalleeSaved(reg')
  <2>1. callers \in Seq(Triples) /\ CalleeSaved(reg') \in Triples
    BY DEF TypeOK, Triples, CalleeSaved, Registers
  <2>2. QED
    BY <1>1, <2>1, AppendProperties DEF Levels
<1>4. \A k \in 1 .. l : stack'[4 * k - 3] = stack[4 * k - 3]
  BY <1>1, <1>2
<1>5. 4 * (l + 1) - 3 = 4 * l + 1
  BY <1>1
<1>6. ASSUME NEW k \in 1 .. (l + 1)
      PROVE  /\ stack'[4 * k - 3] \in IF k = 1 THEN {"halt"} ELSE {"second", "LN1"}
             /\ 4 * k <= Len(stack') =>
                   <<stack'[4 * k - 2], stack'[4 * k - 1], stack'[4 * k]>> = callers'[k]
  <2>1. CASE k = l + 1
    <3>1. 4 * k - 3 = 4 * l + 1 /\ k # 1 /\ ~ (4 * k <= Len(stack'))
      BY <1>1, <1>2, <2>1
    <3>2. QED
      BY <1>2, <3>1
  <2>2. CASE k \in 1 .. l
    <3>1. /\ 4 * k <= 4 * l /\ 4 * k - 2 \in 1 .. (4 * l) /\ 4 * k - 1 \in 1 .. (4 * l)
          /\ 4 * k \in 1 .. (4 * l)
      BY <1>1, <2>2
    <3>2. /\ stack[4 * k - 3] \in IF k = 1 THEN {"halt"} ELSE {"second", "LN1"}
          /\ <<stack[4 * k - 2], stack[4 * k - 1], stack[4 * k]>> = callers[k]
      BY <1>1, <2>2, <3>1 DEF StackOK
    <3>3. QED
      BY <1>2, <1>3, <1>4, <2>2, <3>1, <3>2
  <2>3. k = l + 1 \/ k \in 1 .. l
    BY <1>1
  <2>4. QED
    BY <2>1, <2>2, <2>3
<1>7. StackOK'
  <2>1. pc' # "halt" /\ pc' \notin InCallee
    BY DEF InCallee
  <2>2. Levels' > 0 /\ Len(stack') = 4 * Levels' - 3
    BY <1>1, <1>2, <1>3, <1>5
  <2>3. QED
    BY <1>1, <1>3, <1>6, <2>1, <2>2 DEF StackOK
<1>8. QED
  BY <1>1, <1>2, <1>3, <1>4, <1>5, <1>7

LEMMA ReturnStep ==
  ASSUME TypeOK, StackOK, NEW s \in Seq(Cells), Levels > 0, Len(s) = 4 * Levels - 3,
         Len(stack) >= Len(s), \A x \in 1 .. Len(s) : s[x] = stack[x], Return(s)
  PROVE  /\ StackOK' /\ stack' \in Seq(Cells) /\ callers' \in Seq(Triples)
         /\ Levels' = Levels - 1
         /\ \A k \in 1 .. Levels' : /\ stack'[4 * k - 3] = stack[4 * k - 3]
                                    /\ callers'[k] = callers[k]
         /\ pc' = stack[4 * Levels - 3]
         /\ pc' \in IF Levels = 1 THEN {"halt"} ELSE {"second", "LN1"}
<1>1. PICK l \in Nat, n \in Nat : l = Levels /\ l > 0 /\ n = Len(stack) /\ n >= 4 * l - 3
  BY DEF TypeOK, Levels
<1>2. /\ stack' \in Seq(Cells) /\ Len(stack') = 4 * (l - 1)
      /\ \A x \in 1 .. (4 * (l - 1)) : stack'[x] = stack[x]
  <2>1. \A x \in 1 .. (4 * l - 4) : s[x] \in Cells
    BY <1>1
  <2>2. stack' = SubSeq(s, 1, 4 * l - 4)
    BY <1>1 DEF Return, Front
  <2>3. /\ SubSeq(s, 1, 4 * l - 4) \in Seq(Cells)
        /\ Len(SubSeq(s, 1, 4 * l - 4)) = IF 1 <= 4 * l - 4 THEN 4 * l - 4 - 1 + 1 ELSE 0
        /\ \A x \in 1 .. (4 * l - 4 - 1 + 1) : SubSeq(s, 1, 4 * l - 4)[x] = s[1 + x - 1]
    BY <1>1, <2>1, SubSeqProperties
  <2>4. QED
    BY <1>1, <2>2, <2>3
<1>3. /\ callers' \in Seq(Triples) /\ Levels' = l - 1
      /\ \A k \in 1 .. (l - 1) : callers'[k] = callers[k]
  <2>1. callers \in Seq(Triples) /\ Len(callers) = l
    BY <1>1 DEF TypeOK, Levels
  <2>2. \A x \in 1 .. (l - 1) : callers[x] \in Triples
    BY <1>1, <2>1
  <2>3. callers' = SubSeq(callers, 1, l - 1)
    BY <2>1 DEF Return, Front
  <2>4. /\ SubSeq(callers, 1, l - 1) \in Seq(Triples)
        /\ Len(SubSeq(callers, 1, l - 1)) = IF 1 <= l - 1 THEN l - 1 - 1 + 1 ELSE 0
        /\ \A x \in 1 .. (l - 1 - 1 + 1) : SubSeq(callers, 1, l - 1)[x] = callers[1 + x - 1]
    BY <1>1, <2>2, SubSeqProperties
  <2>5. QED
    BY <1>1, <2>3, <2>4 DEF Levels
<1>4. pc' = stack[4 * l - 3]
  BY <1>1 DEF Return, Last
<1>5. \A k \in 1 .. l : stack[4 * k - 3] \in IF k = 1 THEN {"halt"} ELSE {"second", "LN1"}
  BY <1>1 DEF StackOK
<1>6. pc' \in IF l = 1 THEN {"halt"} ELSE {"second", "LN1"}
  BY <1>1, <1>4, <1>5
<1>7. \A k \in 1 .. (l - 1) : stack'[4 * k - 3] = stack[4 * k - 3]
  BY <1>1, <1>2
<1>8. ASSUME NEW k \in 1 .. (l - 1)
      PROVE  /\ stack'[4 * k - 3] \in IF k = 1 THEN {"halt"} ELSE {"second", "LN1"}
             /\ <<stack'[4 * k - 2], stack'[4 * k - 1], stack'[4 * k]>> = callers'[k]
  <2>1. /\ k \in 1 .. l /\ 4 * k <= n
        /\ 4 * k - 2 \in 1 .. (4 * (l - 1)) /\ 4 * k - 1 \in 1 .. (4 * (l - 1))
        /\ 4 * k \in 1 .. (4 * (l - 1))
    BY <1>1
  <2>2. <<stack[4 * k - 2], stack[4 * k - 1], stack[4 * k]>> = callers[k]
    BY <1>1, <2>1 DEF StackOK
  <2>3. <<stack'[4 * k - 2], stack'[4 * k - 1], stack'[4 * k]>> = callers'[k]
    BY <1>2, <1>3, <2>1, <2>2
  <2>4. stack'[4 * k - 3] \in IF k = 1 THEN {"halt"} ELSE {"second", "LN1"}
    BY <1>5, <1>7, <2>1
  <2>5. QED
    BY <2>3, <2>4
<1>9. StackOK'
  <2>1. CASE l = 1
    <3>1. pc' = "halt" /\ Levels' = 0 /\ Len(stack') = 0
      BY <1>2, <1>3, <1>6, <2>1
    <3>2. QED
      BY <3>1 DEF StackOK, InCallee
  <2>2. CASE l # 1
    <3>1. pc' \in {"second", "LN1"} /\ Levels' > 0 /\ Len(stack') = 4 * Levels'
      BY <1>1, <1>2, <1>3, <1>6, <2>2
    <3>2. pc' # "halt" /\ pc' # "quickSort"
      BY <3>1
    <3>3. QED
      BY <1>3, <1>8, <3>1, <3>2 DEF StackOK
  <2>3. QED
    BY <2>1, <2>2
<1>10. QED
  BY <1>1, <1>2, <1>3, <1>4, <1>6, <1>7, <1>9

-----------------------------------------------------------------------------
(* The initial state. *)

LEMMA PlaceInArray ==
  ASSUME NEW w \in Nat \ {0}, NEW k \in Nat, NEW j \in Nat, j < w
  PROVE  (k * w + j) \div w = k /\ (k * w + j) % w = j
OBVIOUS

LEMMA ElementOfPlace ==
  ASSUME NEW w \in Nat \ {0}, NEW n \in Nat, NEW x \in Nat, x < n * w
  PROVE  x \div w \in 0 .. (n - 1) /\ x % w \in 0 .. (w - 1)
<1>1. PICK y \in Nat, r \in Nat : y = x \div w /\ r = x % w /\ x = w * y + r /\ r < w
  OBVIOUS
<1>2. y < n
  <2>1. SUFFICES ASSUME y >= n PROVE FALSE
    BY <1>1
  <2>2. PICK z \in Nat : y = n + z
    <3>1. y - n \in Nat /\ y = n + (y - n)
      BY <1>1, <2>1
    <3>2. QED
      BY <3>1
  <2>3. w * y = n * w + w * z /\ w * z \in Nat
    BY <2>2
  <2>4. QED
    BY <1>1, <2>3
<1>3. QED
  BY <1>1, <1>2

\* What main leaves in memory.
LEMMA InitialMemory ==
  ASSUME Init
  PROVE  /\ Size \in Nat /\ array \in [0 .. (Size - 1) -> Words]
         /\ mem \in [0 .. ((Size + 1) * WordBytes - 1) -> Digits]
         /\ \A x \in 0 .. (Size * WordBytes - 1) :
               mem[x] = Byte(array[x \div WordBytes], x % WordBytes)
         /\ \A k \in 0 .. (Size - 1) : Word(mem, k * WordBytes) = array[k]
         /\ Word(mem, Size * WordBytes) = Size
<1>1. PICK n \in 0 .. (WordMod \div 2 - 1) : array \in [0 .. (n - 1) -> Words]
  BY InputsAssumption DEF Init
<1>2. PICK w \in Nat \ {0} : w = WordBytes
  BY WeightFacts
<1>3. PICK M \in Nat : M = WordMod /\ n <= M \div 2 - 1 /\ n \in Nat
  BY WeightFacts
<1>4. Size = n
  <2>1. n \in Nat
    BY <1>3
  <2>2. QED
    BY <1>1, <2>1, FS_Interval DEF Size
<1>5. n \in Words
  BY <1>3 DEF Words
<1>6. PICK e \in Nat : e = n * w /\ (n + 1) * w = e + w
  <2>1. n \in Nat
    BY <1>3
  <2>2. n * w \in Nat /\ (n + 1) * w = n * w + w
    BY <2>1
  <2>3. QED
    BY <2>2
<1>7. mem = [x \in 0 .. (e + w - 1) |->
               IF x < e THEN Byte(array[x \div w], x % w) ELSE Byte(n, x - e)]
  BY <1>2, <1>4, <1>6 DEF Init
<1>8. ASSUME NEW x \in 0 .. (e - 1)
      PROVE  x \div w \in 0 .. (n - 1) /\ x % w \in Places
  <2>1. x \in Nat /\ x < n * w /\ n \in Nat
    BY <1>3, <1>6
  <2>2. x \div w \in 0 .. (n - 1) /\ x % w \in 0 .. (w - 1)
    BY <2>1, ElementOfPlace
  <2>3. QED
    BY <1>2, <2>2 DEF Places
<1>9. mem \in [0 .. (e + w - 1) -> Digits]
  <2>1. ASSUME NEW x \in 0 .. (e + w - 1), x < e
        PROVE  Byte(array[x \div w], x % w) \in Digits
    <3>1. x \in 0 .. (e - 1)
      BY <1>6, <2>1
    <3>2. x \div w \in 0 .. (n - 1) /\ x % w \in Places
      BY <1>8, <3>1
    <3>3. array[x \div w] \in Words
      BY <1>1, <3>2
    <3>4. array[x \div w] \in Int
      BY <3>3 DEF Words
    <3>5. QED
      BY <3>2, <3>4, ByteIsDigit
  <2>2. ASSUME NEW x \in 0 .. (e + w - 1), ~ (x < e)
        PROVE  Byte(n, x - e) \in Digits
    <3>1. x - e \in Places /\ n \in Int
      BY <1>2, <1>3, <1>6, <2>2 DEF Places
    <3>2. QED
      BY <3>1, ByteIsDigit
  <2>3. QED
    BY <1>7, <2>1, <2>2
<1>10. \A x \in 0 .. (e - 1) : mem[x] = Byte(array[x \div w], x % w)
  BY <1>6, <1>7
<1>11. ASSUME NEW k \in 0 .. (n - 1)
       PROVE  Word(mem, k * w) = array[k]
  <2>1. array[k] \in Words
    BY <1>1
  <2>2. ASSUME NEW j \in Places
        PROVE  mem[k * w + j] = Byte(array[k], j)
    <3>1. j \in Nat /\ j < w /\ k \in Nat
      BY <1>2, <1>3 DEF Places
    <3>2. (k * w + j) \div w = k /\ (k * w + j) % w = j
      BY <3>1, PlaceInArray
    <3>3. k * w + j \in 0 .. (e - 1)
      <4>1. PICK c \in Nat : n = k + 1 + c
        <5>1. n - (k + 1) \in Nat /\ n = k + 1 + (n - (k + 1))
          BY <1>3, <3>1
        <5>2. QED
          BY <5>1
      <4>2. e = k * w + w + c * w /\ c * w \in Nat /\ k * w \in Nat
        BY <1>6, <3>1, <4>1
      <4>3. QED
        BY <3>1, <4>2
    <3>4. QED
      BY <1>10, <3>2, <3>3
  <2>3. QED
    BY <1>2, <2>1, <2>2, WordFromBytes
<1>12. Word(mem, e) = n
  <2>1. ASSUME NEW j \in Places
        PROVE  mem[e + j] = Byte(n, j)
    <3>1. j \in Nat /\ j < w
      BY <1>2 DEF Places
    <3>2. e + j \in 0 .. (e + w - 1) /\ ~ (e + j < e) /\ (e + j) - e = j
      BY <1>6, <3>1
    <3>3. QED
      BY <1>7, <3>2
  <2>2. QED
    BY <1>5, <2>1, WordFromBytes
<1>13. QED
  BY <1>1, <1>2, <1>3, <1>4, <1>6, <1>9, <1>10, <1>11, <1>12

LEMMA MachineInvInit ==
  ASSUME Init
  PROVE  MachineInv
<1>1. /\ Size \in Nat /\ array \in [0 .. (Size - 1) -> Words]
      /\ mem \in [0 .. ((Size + 1) * WordBytes - 1) -> Digits] /\ LengthKept
  BY InitialMemory DEF LengthKept
<1>2. /\ pc = "quickSort" /\ stack = <<"halt">> /\ callers = <<<<0, 0, 0>>>>
      /\ reg = [rdi |-> 0, rsi |-> Size, rbp |-> 0, rbx |-> 0,
                r12 |-> 0, rax |-> 0, rcx |-> 0, r8 |-> 0]
  BY <1>1 DEF Init, LengthKept
<1>3. TypeOK
  <2>1. stack \in Seq(Cells) /\ callers \in Seq(Triples)
    BY <1>2 DEF Cells, Triples
  <2>2. reg \in Registers
    BY <1>1, <1>2 DEF Registers
  <2>3. QED
    BY <1>1, <1>2, <2>1, <2>2 DEF TypeOK
<1>4. Levels = 1
  BY <1>2 DEF Levels
<1>5. StackOK
  BY <1>2, <1>4 DEF StackOK, InCallee, CalleeSaved
<1>6. CallFits
  <2>1. PICK e \in Nat : e = Size * WordBytes
    BY <1>1, WeightFacts
  <2>2. QED
    BY <1>1, <1>2, <1>4, <2>1 DEF CallFits
<1>7. QED
  BY <1>1, <1>2, <1>3, <1>4, <1>5, <1>6
     DEF MachineInv, LoopFits, SecondCallsFit, LevelsBounded

-----------------------------------------------------------------------------
(* The steps. *)

LEMMA LevelsInNat == TypeOK => Levels \in Nat
BY DEF TypeOK, Levels

\* A step of either program that returns to a caller with its registers.
LEMMA ReturnKeeps ==
  ASSUME MachineInv, NEW s \in Seq(Cells), Levels > 0, Len(s) = 4 * Levels - 3,
         Len(stack) >= Len(s), \A x \in 1 .. Len(s) : s[x] = stack[x], Return(s),
         reg' \in Registers, CalleeSaved(reg') = callers[Levels],
         UNCHANGED <<version, array, mem>>
  PROVE  MachineInv'
<1>1. TypeOK /\ StackOK
  BY DEF MachineInv
<1>2. /\ StackOK' /\ stack' \in Seq(Cells) /\ callers' \in Seq(Triples)
      /\ Levels' = Levels - 1
      /\ \A k \in 1 .. Levels' : /\ stack'[4 * k - 3] = stack[4 * k - 3]
                                 /\ callers'[k] = callers[k]
      /\ pc' = stack[4 * Levels - 3]
      /\ pc' \in IF Levels = 1 THEN {"halt"} ELSE {"second", "LN1"}
  BY <1>1, ReturnStep
<1>3. Size' = Size /\ Levels \in Nat
  BY <1>1, LevelsInNat DEF Size
<1>4. TypeOK'
  BY <1>1, <1>2, <1>3 DEF TypeOK, InCallee
<1>5. pc' \in {"halt", "second", "LN1"}
  BY <1>2
<1>6. CallFits' /\ LoopFits'
  BY <1>5 DEF CallFits, LoopFits
<1>7. \A k \in 2 .. Levels : stack[4 * k - 3] = "second" => RestFits(callers[k], k - 1)
  BY DEF MachineInv, SecondCallsFit
<1>8. pc' = "second" => RestFits(CalleeSaved(reg), Levels)'
  <2>1. SUFFICES ASSUME pc' = "second" PROVE RestFits(CalleeSaved(reg), Levels)'
    OBVIOUS
  <2>2. Levels \in 2 .. Levels
    BY <1>2, <1>3, <2>1
  <2>3. RestFits(callers[Levels], Levels - 1)
    BY <1>2, <1>7, <2>1, <2>2
  <2>4. QED
    BY <1>2, <1>3, <2>3 DEF RestFits, RestOf, PastPivot
<1>9. ASSUME NEW k \in 2 .. Levels', stack'[4 * k - 3] = "second"
      PROVE  RestFits(callers[k], k - 1)'
  <2>1. k \in 2 .. Levels /\ k \in 1 .. Levels'
    BY <1>2, <1>3
  <2>2. RestFits(callers[k], k - 1)
    BY <1>2, <1>7, <1>9, <2>1
  <2>3. QED
    BY <1>2, <1>3, <2>1, <2>2 DEF RestFits, RestOf, PastPivot
<1>10. SecondCallsFit'
  BY <1>8, <1>9 DEF SecondCallsFit
<1>11. LevelsBounded' /\ LengthKept'
  BY <1>1, <1>2, <1>3 DEF MachineInv, TypeOK, LevelsBounded, LengthKept
<1>12. QED
  BY <1>2, <1>4, <1>6, <1>10, <1>11 DEF MachineInv

\* A step that pushes the registers of the caller, and calls nobody.
LEMMA PushKeeps ==
  ASSUME MachineInv, pc = "quickSort", stack' = Pushed(stack, reg), reg' \in Registers,
         pc' \in {"LN1", "LN5"}, LoopFits', UNCHANGED <<version, array, mem, callers>>
  PROVE  MachineInv'
<1>1. TypeOK /\ StackOK
  BY DEF MachineInv
<1>2. /\ StackOK' /\ stack' \in Seq(Cells) /\ Levels' = Levels
      /\ \A k \in 1 .. Levels : stack'[4 * k - 3] = stack[4 * k - 3]
  <2>1. pc' \in InCallee /\ callers' = callers
    BY DEF InCallee
  <2>2. QED
    BY <1>1, <2>1, PushStep
<1>3. Size' = Size /\ Levels \in Nat
  BY <1>1, LevelsInNat DEF Size
<1>4. TypeOK'
  BY <1>1, <1>2, <1>3 DEF TypeOK, InCallee
<1>5. CallFits'
  BY DEF CallFits
<1>6. SecondCallsFit'
  <2>1. ASSUME NEW k \in 2 .. Levels, stack[4 * k - 3] = "second"
        PROVE  RestFits(callers[k], k - 1)'
    <3>1. RestFits(callers[k], k - 1)
      BY <2>1 DEF MachineInv, SecondCallsFit
    <3>2. QED
      BY <1>3, <3>1 DEF RestFits, RestOf, PastPivot
  <2>2. \A k \in 2 .. Levels : k \in 1 .. Levels
    BY <1>3
  <2>3. QED
    BY <1>2, <2>1, <2>2 DEF SecondCallsFit
<1>7. LevelsBounded' /\ LengthKept'
  BY <1>2, <1>3 DEF MachineInv, LevelsBounded, LengthKept
<1>8. QED
  BY <1>2, <1>4, <1>5, <1>6, <1>7 DEF MachineInv

LEMMA ReturnAtOnceKeeps ==
  ASSUME MachineInv, ReturnAtOnce
  PROVE  MachineInv'
<1>1. /\ TypeOK /\ StackOK /\ pc = "quickSort" /\ reg \in Registers
      /\ UNCHANGED <<version, array, mem>>
  BY DEF MachineInv, TypeOK, ReturnAtOnce
<1>2. CASE version = "sort" /\ stack' = Pushed(stack, reg) /\ pc' = "LN1"
           /\ reg' = [reg EXCEPT !.rbp = reg.rsi] /\ UNCHANGED callers
  <2>1. reg' \in Registers
    BY <1>1, <1>2 DEF Registers
  <2>2. LoopFits'
    BY <1>2 DEF LoopFits
  <2>3. QED
    BY <1>1, <1>2, <2>1, <2>2, PushKeeps
<1>3. CASE version = "sort_optimal" /\ Return(stack) /\ UNCHANGED reg
  <2>1. /\ Levels > 0 /\ Len(stack) = 4 * Levels - 3 /\ stack \in Seq(Cells)
        /\ callers[Levels] = CalleeSaved(reg')
    BY <1>1, <1>3 DEF StackOK, TypeOK
  <2>2. Len(stack) >= Len(stack)
    BY <2>1
  <2>3. QED
    BY <1>1, <1>3, <2>1, <2>2, ReturnKeeps
<1>4. QED
  BY <1>2, <1>3 DEF ReturnAtOnce

\* What PopAndReturn pops are the registers that the caller left.
LEMMA PopIsReturn ==
  ASSUME MachineInv, PopAndReturn
  PROVE  /\ Levels > 0 /\ reg' \in Registers /\ CalleeSaved(reg') = callers[Levels]
         /\ \E s \in Seq(Cells) : /\ Len(s) = 4 * Levels - 3 /\ Len(stack) >= Len(s)
                                  /\ \A x \in 1 .. Len(s) : s[x] = stack[x]
                                  /\ Return(s)
<1>1. /\ TypeOK /\ StackOK /\ pc = "LN1" /\ reg \in Registers
      /\ UNCHANGED <<version, array, mem>>
  BY DEF MachineInv, TypeOK, PopAndReturn
<1>2. PICK l \in Nat : l = Levels /\ l > 0 /\ Len(stack) = 4 * l /\ callers[l] \in Triples
                       /\ <<stack[4 * l - 2], stack[4 * l - 1], stack[4 * l]>> = callers[l]
  <2>1. Levels \in Nat /\ Levels > 0 /\ Len(stack) = 4 * Levels
    BY <1>1, LevelsInNat DEF StackOK, InCallee
  <2>2. Levels \in 1 .. Levels /\ callers \in Seq(Triples)
    BY <1>1, <2>1 DEF TypeOK
  <2>3. QED
    BY <1>1, <2>1, <2>2 DEF StackOK, Levels
<1>3. reg' = [reg EXCEPT !.rbx = stack[4 * l], !.rbp = stack[4 * l - 1],
                         !.r12 = stack[4 * l - 2]]
      /\ Return(SubSeq(stack, 1, 4 * l - 3))
  BY <1>2 DEF PopAndReturn
<1>4. reg' \in Registers /\ CalleeSaved(reg') = callers[l]
  <2>1. stack[4 * l - 2] \in Int /\ stack[4 * l - 1] \in Int /\ stack[4 * l] \in Int
    BY <1>2 DEF Triples
  <2>2. reg' \in Registers
    BY <1>1, <1>3, <2>1 DEF Registers
  <2>3. CalleeSaved(reg') = <<stack[4 * l - 2], stack[4 * l - 1], stack[4 * l]>>
    BY <1>1, <1>3 DEF CalleeSaved, Registers
  <2>4. QED
    BY <1>2, <2>2, <2>3
<1>5. PICK s \in Seq(Cells) : /\ s = SubSeq(stack, 1, 4 * l - 3) /\ Len(s) = 4 * l - 3
                              /\ \A x \in 1 .. Len(s) : s[x] = stack[x]
  <2>1. \A x \in 1 .. (4 * l - 3) : stack[x] \in Cells
    BY <1>1, <1>2 DEF TypeOK
  <2>2. /\ SubSeq(stack, 1, 4 * l - 3) \in Seq(Cells)
        /\ Len(SubSeq(stack, 1, 4 * l - 3)) = IF 1 <= 4 * l - 3 THEN 4 * l - 3 - 1 + 1 ELSE 0
        /\ \A x \in 1 .. (4 * l - 3 - 1 + 1) :
              SubSeq(stack, 1, 4 * l - 3)[x] = stack[1 + x - 1]
    BY <1>2, <2>1, SubSeqProperties
  <2>3. Len(SubSeq(stack, 1, 4 * l - 3)) = 4 * l - 3
    BY <1>2, <2>2
  <2>4. \A x \in 1 .. (4 * l - 3) : SubSeq(stack, 1, 4 * l - 3)[x] = stack[x]
    BY <1>2, <2>2
  <2>5. QED
    BY <2>2, <2>3, <2>4
<1>6. Len(stack) >= Len(s) /\ Levels > 0 /\ Len(s) = 4 * Levels - 3
  BY <1>2, <1>5
<1>7. Return(s) /\ CalleeSaved(reg') = callers[Levels]
  BY <1>2, <1>3, <1>4, <1>5
<1>8. QED
  BY <1>2, <1>4, <1>5, <1>6, <1>7

LEMMA PopAndReturnKeeps ==
  ASSUME MachineInv, PopAndReturn
  PROVE  MachineInv'
<1>1. Levels > 0 /\ reg' \in Registers /\ CalleeSaved(reg') = callers[Levels]
  BY PopIsReturn
<1>2. PICK s \in Seq(Cells) : /\ Len(s) = 4 * Levels - 3 /\ Len(stack) >= Len(s)
                              /\ \A x \in 1 .. Len(s) : s[x] = stack[x]
                              /\ Return(s)
  BY PopIsReturn
<1>3. UNCHANGED <<version, array, mem>>
  BY DEF PopAndReturn
<1>4. Len(s) = 4 * Levels - 3 /\ Len(stack) >= Len(s) /\ Return(s)
  BY <1>2
<1>5. \A x \in 1 .. Len(s) : s[x] = stack[x]
  BY <1>2
<1>6. QED
  BY <1>1, <1>3, <1>4, <1>5, ReturnKeeps

\* The words of a range that begins at d.
LEMMA RowOrder ==
  ASSUME NEW w \in Nat \ {0}, NEW d \in Nat, NEW i \in Nat, NEW j \in Nat
  PROVE  /\ d + i * w \in Nat
         /\ d + (i + 1) * w = d + i * w + w
         /\ i < j => d + i * w + w <= d + j * w
         /\ i <= j => d + i * w <= d + j * w
<1>1. d + i * w \in Nat /\ d + (i + 1) * w = d + i * w + w
  OBVIOUS
<1>2. ASSUME i <= j PROVE d + i * w <= d + j * w
  <2>1. PICK c \in Nat : j = i + c
    <3>1. j - i \in Nat /\ j = i + (j - i)
      BY <1>2
    <3>2. QED
      BY <3>1
  <2>2. j * w = i * w + c * w /\ c * w \in Nat
    BY <2>1
  <2>3. QED
    BY <2>2
<1>3. ASSUME i < j PROVE d + i * w + w <= d + j * w
  <2>1. PICK c \in Nat : j = i + 1 + c
    <3>1. j - (i + 1) \in Nat /\ j = i + 1 + (j - (i + 1))
      BY <1>3
    <3>2. QED
      BY <3>1
  <2>2. j * w = i * w + w + c * w /\ c * w \in Nat
    BY <2>1
  <2>3. QED
    BY <2>2
<1>4. QED
  BY <1>1, <1>2, <1>3

LEMMA BeginKeeps ==
  ASSUME MachineInv, Begin
  PROVE  MachineInv'
<1>1. /\ TypeOK /\ StackOK /\ CallFits /\ pc = "quickSort" /\ reg \in Registers
      /\ Size \in Nat /\ mem \in [0 .. ((Size + 1) * WordBytes - 1) -> Digits]
      /\ UNCHANGED <<version, array, mem, callers>> /\ pc' = "LN5"
      /\ stack' = Pushed(stack, reg) /\ ~ Small(reg)
  BY DEF MachineInv, TypeOK, Begin
<1>2. PICK w \in Nat \ {0}, d \in Nat, n \in Nat, l \in Nat :
         /\ w = WordBytes /\ d = reg.rdi /\ n = reg.rsi /\ n >= 2 /\ l = Levels
         /\ d + n * w <= Size * w /\ n + l - 1 <= Size
  <2>1. reg.rdi \in Int /\ reg.rsi \in Int /\ ~ (reg.rsi <= 1)
    BY <1>1 DEF Registers, Small
  <2>2. reg.rdi \in Nat /\ reg.rsi \in Nat /\ reg.rsi >= 2
    BY <1>1, <2>1 DEF CallFits
  <2>3. WordBytes \in Nat \ {0} /\ Levels \in Nat
    BY <1>1, WeightFacts, LevelsInNat
  <2>4. /\ reg.rdi + reg.rsi * WordBytes <= Size * WordBytes
        /\ reg.rsi + Levels - 1 <= Size
    BY <1>1 DEF CallFits
  <2>5. QED
    BY <2>2, <2>3, <2>4
<1>3. PICK last \in Nat : /\ last = d + (n - 1) * w /\ last + w = d + n * w
                          /\ last = n * w - w + d
  <2>1. n - 1 \in Nat /\ (n - 1) + 1 = n
    BY <1>2
  <2>2. d + (n - 1) * w \in Nat /\ d + ((n - 1) + 1) * w = d + (n - 1) * w + w
    BY <2>1, RowOrder
  <2>3. (n - 1) * w = n * w - w
    OBVIOUS
  <2>4. QED
    BY <2>1, <2>2, <2>3
<1>4. PICK top \in Nat : top = (Size + 1) * w /\ last + w <= top
  <2>1. PICK e \in Nat : e = Size * w /\ (Size + 1) * w = e + w
    BY <1>1
  <2>2. last + w <= e
    BY <1>2, <1>3, <2>1
  <2>3. QED
    BY <2>1, <2>2
<1>5. PICK v \in Int : v = Word(mem, last)
  <2>1. mem \in [0 .. (top - 1) -> Digits] /\ last + WordBytes <= top
    BY <1>1, <1>2, <1>4
  <2>2. QED
    BY <2>1, WordTyped
<1>6. reg' = [reg EXCEPT !.rbp = n, !.rcx = last, !.r8 = v, !.rax = d, !.rbx = d]
  BY <1>2, <1>3, <1>5 DEF Begin
<1>7. /\ reg' \in Registers /\ reg'.rbp = n /\ reg'.rdi = d /\ reg'.rcx = last
      /\ reg'.r8 = v /\ reg'.rax = d /\ reg'.rbx = d
  <2>1. reg' = [rdi |-> d, rsi |-> reg.rsi, rbp |-> n, rbx |-> d, r12 |-> reg.r12,
                rax |-> d, rcx |-> last, r8 |-> v]
    BY <1>1, <1>2, <1>6 DEF Registers
  <2>2. reg.rsi \in Int /\ reg.r12 \in Int
    BY <1>1 DEF Registers
  <2>3. QED
    BY <2>1, <2>2 DEF Registers
<1>8. Size' = Size /\ Levels' = Levels
  BY <1>1 DEF Size, Levels
<1>9. LoopAt(0, 0)'
  <2>1. d + 0 * w = d
    OBVIOUS
  <2>2. /\ 0 .. (0 - 1) = {} /\ n >= 2 /\ d >= 0 /\ n + l - 1 <= Size /\ 0 < n - 1
    BY <1>2
  <2>3. /\ reg'.rcx = d + (n - 1) * w /\ reg'.rbx = d + 0 * w /\ reg'.rax = d + 0 * w
        /\ Word(mem', reg'.rcx) = reg'.r8
    BY <1>1, <1>3, <1>5, <1>7, <2>1
  <2>4. QED
    BY <1>1, <1>2, <1>7, <1>8, <2>2, <2>3 DEF LoopAt
<1>10. LoopFits'
  BY <1>1, <1>8, <1>9 DEF LoopFits
<1>11. QED
  BY <1>1, <1>7, <1>10, PushKeeps

\* A step inside the loop.
LEMMA StayKeeps ==
  ASSUME MachineInv, pc \in {"LN5", "LN3"}, pc' \in {"LN5", "LN3"}, reg' \in Registers,
         mem' \in [0 .. ((Size + 1) * WordBytes - 1) -> Digits], LoopFits', LengthKept',
         UNCHANGED <<version, array, stack, callers>>
  PROVE  MachineInv'
<1>1. Size' = Size /\ Levels' = Levels
  BY DEF Size, Levels
<1>2. TypeOK'
  BY <1>1 DEF MachineInv, TypeOK, InCallee
<1>3. StackOK'
  BY <1>1 DEF MachineInv, StackOK, InCallee
<1>4. CallFits' /\ LevelsBounded'
  BY <1>1 DEF MachineInv, CallFits, LevelsBounded
<1>5. SecondCallsFit'
  BY <1>1 DEF MachineInv, SecondCallsFit, RestFits, RestOf, PastPivot
<1>6. QED
  BY <1>2, <1>3, <1>4, <1>5 DEF MachineInv

\* The numbers of a state of the loop: words of w bytes, n of them from d on.
LoopNumbers(w, d, n, l, i, j, v) ==
    /\ w = WordBytes /\ d = reg.rdi /\ n = reg.rbp /\ l = Levels /\ v = reg.r8
    /\ reg.rcx = d + (n - 1) * w /\ reg.rbx = d + i * w /\ reg.rax = d + j * w
    /\ n >= 2 /\ d + n * w <= Size * w /\ n + l - 1 <= Size /\ i <= j
    /\ IF pc = "LN5" THEN j < n - 1 ELSE j = n - 1
    /\ \A k \in 0 .. (i - 1) : Word(mem, d + k * w) <= v
    /\ \A k \in i .. (j - 1) : Word(mem, d + k * w) > v
    /\ Word(mem, d + (n - 1) * w) = v

LEMMA LoopHasNumbers ==
  ASSUME MachineInv, pc \in {"LN5", "LN3"}
  PROVE  \E w \in Nat \ {0}, d \in Nat, n \in Nat, l \in Nat, i \in Nat, j \in Nat, v \in Int :
            LoopNumbers(w, d, n, l, i, j, v)
<1>1. TypeOK /\ LoopFits /\ reg \in Registers /\ Size \in Nat
  BY DEF MachineInv, TypeOK
<1>2. PICK i \in 0 .. Size, j \in 0 .. Size : LoopAt(i, j)
  BY <1>1 DEF LoopFits
<1>3. /\ WordBytes \in Nat \ {0} /\ reg.rdi \in Nat /\ reg.rbp \in Nat /\ Levels \in Nat
      /\ i \in Nat /\ j \in Nat /\ reg.r8 \in Int
  BY <1>1, <1>2, WeightFacts, LevelsInNat DEF LoopAt, Registers
<1>4. LoopNumbers(WordBytes, reg.rdi, reg.rbp, Levels, i, j, reg.r8)
  BY <1>2 DEF LoopNumbers, LoopAt
<1>5. QED
  BY <1>3, <1>4

LEMMA LoopFromNumbers ==
  ASSUME NEW w \in Nat \ {0}, NEW d \in Nat, NEW n \in Nat, NEW l \in Nat \ {0},
         NEW i \in Nat, NEW j \in Nat, NEW v \in Int, Size' \in Nat,
         LoopNumbers(w, d, n, l, i, j, v)'
  PROVE  LoopFits'
<1>1. i \in 0 .. Size' /\ j \in 0 .. Size'
  BY DEF LoopNumbers
<1>2. LoopAt(i, j)'
  BY DEF LoopNumbers, LoopAt
<1>3. QED
  BY <1>1, <1>2 DEF LoopFits

\* The words at i, at j and at the end of a range, in a memory of the array and
\* the word after it.
LEMMA WordsOfRange ==
  ASSUME NEW w \in Nat \ {0}, w = WordBytes, NEW d \in Nat, NEW n \in Nat, NEW s \in Nat,
         d + n * w <= s * w, NEW i \in Nat, NEW j \in Nat, i < n, j < n
  PROVE  /\ (s + 1) * w \in Nat /\ s * w \in Nat /\ s * w + w <= (s + 1) * w
         /\ d + i * w \in Nat /\ d + j * w \in Nat
         /\ d + i * w + w <= s * w /\ d + j * w + w <= s * w
         /\ TwoWords((s + 1) * w, d + i * w, d + j * w)
         /\ i # j => Apart(d + i * w, d + j * w)
         /\ Apart(d + i * w, s * w)
<1>1. PICK t \in Nat, a \in Nat, b \in Nat, e \in Nat :
         t = s * w /\ a = d + i * w /\ b = d + j * w /\ e = d + n * w
  OBVIOUS
<1>2. (s + 1) * w = t + w
  BY <1>1
<1>3. a + w <= e /\ b + w <= e /\ e <= t
  BY <1>1, RowOrder
<1>4. /\ i < j => a + w <= b
      /\ j < i => b + w <= a
  BY <1>1, RowOrder
<1>5. i = j => a = b
  BY <1>1
<1>6. a = b \/ a + w <= b \/ b + w <= a
  BY <1>4, <1>5
<1>7. TwoWords(t + w, a, b) /\ Apart(a, t) /\ (i # j => Apart(a, b))
  BY <1>3, <1>4, <1>6 DEF TwoWords, Apart
<1>8. QED
  BY <1>1, <1>2, <1>3, <1>7

\* The i-th word of the range of n words at d lies at a.
WordOfRange(w, d, n, i, a) ==
    w = WordBytes /\ d + n * w <= Size * w /\ i < n /\ a = d + i * w

MemoryTyped(m) == m \in [0 .. ((Size + 1) * WordBytes - 1) -> Digits]

\* An exchange inside the range leaves the length after the array alone, and
\* every other word of the range.
LEMMA SwapInRange ==
  ASSUME MachineInv, NEW w \in Nat \ {0}, NEW d \in Nat, NEW n \in Nat,
         NEW i \in Nat, NEW j \in Nat, NEW a \in Nat, NEW b \in Nat,
         WordOfRange(w, d, n, i, a), WordOfRange(w, d, n, j, b)
  PROVE  /\ TwoWords((Size + 1) * WordBytes, a, b)
         /\ MemoryTyped(WordsSwapped(mem, a, b))
         /\ Word(WordsSwapped(mem, a, b), a) = Word(mem, b)
         /\ Word(WordsSwapped(mem, a, b), b) = Word(mem, a)
         /\ Word(WordsSwapped(mem, a, b), Size * WordBytes) = Word(mem, Size * WordBytes)
         /\ a + WordBytes <= Size * WordBytes /\ b + WordBytes <= Size * WordBytes
<1>0. /\ w = WordBytes /\ d + n * w <= Size * w /\ i < n /\ j < n
      /\ a = d + i * w /\ b = d + j * w
  BY DEF WordOfRange
<1>w. w = WordBytes
  BY <1>0
<1>1. Size \in Nat /\ mem \in [0 .. ((Size + 1) * w - 1) -> Digits]
  BY <1>0 DEF MachineInv, TypeOK
<1>2. PICK t \in Nat, m \in Nat :
         /\ t = Size * w /\ m = (Size + 1) * w
         /\ t + w <= m /\ a + w <= t /\ b + w <= t
         /\ TwoWords(m, a, b) /\ Apart(a, t)
  <2>1. PICK s \in Nat : s = Size
    BY <1>1
  <2>2. d + n * w <= s * w
    BY <1>0, <2>1
  <2>3. /\ (s + 1) * w \in Nat /\ s * w \in Nat /\ s * w + w <= (s + 1) * w
        /\ d + i * w \in Nat /\ d + j * w \in Nat
        /\ d + i * w + w <= s * w /\ d + j * w + w <= s * w
        /\ TwoWords((s + 1) * w, d + i * w, d + j * w)
        /\ Apart(d + i * w, s * w)
    BY <1>0, <2>2, WordsOfRange
  <2>4. QED
    BY <1>0, <2>1, <2>3
<1>3. Apart(b, t)
  BY <1>w, <1>2 DEF Apart
<1>4. mem \in [0 .. (m - 1) -> Digits]
  BY <1>0, <1>1, <1>2
<1>5. WordsSwapped(mem, a, b) \in [0 .. (m - 1) -> Digits]
  <2>1. WordsSwapped(mem, a, b) \in [0 .. (m - 1) -> Digits]
    BY <1>0, <1>2, <1>4, SwappedBytes
  <2>2. QED
    BY <1>4, <2>1
<1>6. Word(WordsSwapped(mem, a, b), a) = Word(mem, b) /\ Word(WordsSwapped(mem, a, b), b) = Word(mem, a)
  <2>1. /\ Word(WordsSwapped(mem, a, b), a) = Word(mem, b)
        /\ Word(WordsSwapped(mem, a, b), b) = Word(mem, a)
    <3>1. TwoWords(m, a, b)
      BY <1>2
    <3>2. QED
      BY <3>1, <1>4, SwappedWords
  <2>2. QED
    BY <1>4, <2>1
<1>7. Word(WordsSwapped(mem, a, b), t) = Word(mem, t)
  <2>1. TwoWords(m, a, b) /\ Apart(a, t) /\ Apart(b, t) /\ t + WordBytes <= m
    BY <1>w, <1>2, <1>3
  <2>2. QED
    BY <2>1, <1>4, OtherWordKept
<1>8. QED
  BY <1>0, <1>2, <1>5, <1>6, <1>7 DEF MemoryTyped

LEMMA RangeApart ==
  ASSUME MachineInv, NEW w \in Nat \ {0}, NEW d \in Nat, NEW n \in Nat,
         NEW i \in Nat, NEW j \in Nat, NEW a \in Nat, NEW b \in Nat,
         WordOfRange(w, d, n, i, a), WordOfRange(w, d, n, j, b), i # j
  PROVE  Apart(a, b)
<1>0. /\ w = WordBytes /\ d + n * w <= Size * w /\ i < n /\ j < n
      /\ a = d + i * w /\ b = d + j * w
  BY DEF WordOfRange
<1>1. PICK s \in Nat : s = Size
  BY DEF MachineInv, TypeOK
<1>2. d + n * w <= s * w
  BY <1>0, <1>1
<1>3. Apart(d + i * w, d + j * w)
  BY <1>0, <1>2, WordsOfRange
<1>4. QED
  BY <1>0, <1>3

LEMMA OtherInRange ==
  ASSUME MachineInv, NEW a \in Nat, NEW b \in Nat, TwoWords((Size + 1) * WordBytes, a, b),
         NEW c \in Nat, c + WordBytes <= Size * WordBytes, Apart(a, c), Apart(b, c)
  PROVE  Word(WordsSwapped(mem, a, b), c) = Word(mem, c)
<1>1. PICK s \in Nat, w \in Nat, m \in Nat :
         s = Size /\ w = WordBytes /\ m = (s + 1) * w /\ m = s * w + w
  BY WeightFacts DEF MachineInv, TypeOK
<1>2. mem \in [0 .. (m - 1) -> Digits] /\ TwoWords(m, a, b)
  BY <1>1 DEF MachineInv, TypeOK
<1>3. c + WordBytes <= m
  BY <1>1
<1>4. QED
  BY <1>2, <1>3, OtherWordKept

LEMMA LevelsPositive ==
  ASSUME MachineInv, pc # "halt"
  PROVE  Levels \in Nat \ {0}
BY LevelsInNat DEF MachineInv, TypeOK, StackOK

\* When the loop ends, in the numbers of its state.
LEMMA LoopEndsWhen ==
  ASSUME NEW w \in Nat \ {0}, NEW d \in Nat, NEW n \in Nat, NEW j \in Nat,
         n >= 2, j < n - 1
  PROVE  (d + (n - 1) * w) - (d + (j + 1) * w) <= 0 <=> j + 1 = n - 1
<1>1. PICK c \in Nat : n - 1 = j + 1 + c
  <2>1. (n - 1) - (j + 1) \in Nat /\ n - 1 = j + 1 + ((n - 1) - (j + 1))
    OBVIOUS
  <2>2. QED
    BY <2>1
<1>2. (n - 1) * w = (j + 1) * w + c * w
  BY <1>1
<1>3. PICK e \in Nat, f \in Nat : e = (j + 1) * w /\ f = c * w /\ (f <= 0 <=> c = 0)
  BY <1>1
<1>4. (d + (n - 1) * w) - (d + (j + 1) * w) = f
  BY <1>2, <1>3
<1>5. QED
  BY <1>1, <1>3, <1>4

LEMMA LoopKeeps ==
  ASSUME MachineInv, Loop
  PROVE  MachineInv'
<1>1. /\ TypeOK /\ pc = "LN5" /\ reg \in Registers /\ Size \in Nat
      /\ mem \in [0 .. ((Size + 1) * WordBytes - 1) -> Digits]
      /\ UNCHANGED <<version, array, stack, callers>> /\ LengthKept
  BY DEF MachineInv, TypeOK, Loop
<1>2. PICK w \in Nat \ {0}, d \in Nat, n \in Nat, l \in Nat, i \in Nat, j \in Nat, v \in Int :
         LoopNumbers(w, d, n, l, i, j, v)
  BY <1>1, LoopHasNumbers
<1>3. /\ w = WordBytes /\ d = reg.rdi /\ n = reg.rbp /\ l = Levels /\ v = reg.r8
      /\ reg.rcx = d + (n - 1) * w /\ reg.rbx = d + i * w /\ reg.rax = d + j * w
      /\ n >= 2 /\ d + n * w <= Size * w /\ n + l - 1 <= Size /\ i <= j
      /\ j < n - 1 /\ i < n /\ j < n /\ n - 1 \in Nat /\ n - 1 < n
      /\ \A k \in 0 .. (i - 1) : Word(mem, d + k * w) <= v
      /\ \A k \in i .. (j - 1) : Word(mem, d + k * w) > v
      /\ Word(mem, d + (n - 1) * w) = v
  <2>1. j < n - 1 /\ i <= j
    BY <1>1, <1>2 DEF LoopNumbers
  <2>2. i < n /\ j < n /\ n - 1 \in Nat /\ n - 1 < n
    BY <2>1
  <2>3. QED
    BY <1>2, <2>1, <2>2 DEF LoopNumbers
<1>4. Size' = Size /\ Levels' = Levels /\ l # 0
  BY <1>1, <1>3, LevelsPositive DEF Size, Levels
<1>5. ASSUME NEW k \in Nat, k < n
      PROVE  Word(mem, d + k * w) \in Int
  <2>1. PICK m \in Nat, a \in Nat : m = (Size + 1) * w /\ a = d + k * w /\ a + w <= m
    <3>1. PICK s \in Nat : s = Size
      BY <1>1
    <3>2. d + n * w <= s * w
      BY <1>3, <3>1
    <3>3. /\ (s + 1) * w \in Nat /\ s * w + w <= (s + 1) * w /\ s * w \in Nat
          /\ d + k * w \in Nat /\ d + k * w + w <= s * w
      BY <1>3, <1>5, <3>2, WordsOfRange
    <3>4. QED
      BY <3>1, <3>3
  <2>2. mem \in [0 .. (m - 1) -> Digits]
    BY <1>1, <1>3, <2>1
  <2>3. QED
    BY <1>3, <2>1, <2>2, WordTyped
<1>6. pc' = IF LoopEnds(reg', reg'.rax) THEN "LN3" ELSE "LN5"
  BY DEF Loop
<1>7. (d + (n - 1) * w) - (d + (j + 1) * w) <= 0 <=> j + 1 = n - 1
  BY <1>3, LoopEndsWhen
<1>8. d + (j + 1) * w = d + j * w + w /\ d + (i + 1) * w = d + i * w + w
  BY RowOrder
<1>9. CASE /\ BelongsLeft(reg)
           /\ mem' = WordsSwapped(mem, reg.rax, reg.rbx)
           /\ reg' = [reg EXCEPT !.rsi = Word(mem, reg.rbx), !.rbx = @ + WordBytes,
                                 !.rax = @ + WordBytes]
  <2>1. Word(mem, d + j * w) <= v
    BY <1>3, <1>9 DEF BelongsLeft
  <2>2. PICK t \in Int : t = Word(mem, reg.rbx)
    BY <1>3, <1>5
  <2>3. reg' = [rdi |-> d, rsi |-> t, rbp |-> n, rbx |-> d + (i + 1) * w, r12 |-> reg.r12,
                rax |-> d + (j + 1) * w, rcx |-> reg.rcx, r8 |-> v]
    BY <1>1, <1>3, <1>8, <1>9, <2>2 DEF Registers
  <2>4. /\ reg' \in Registers /\ reg'.rdi = d /\ reg'.rbp = n /\ reg'.rbx = d + (i + 1) * w
        /\ reg'.rax = d + (j + 1) * w /\ reg'.rcx = reg.rcx /\ reg'.r8 = v
    <3>1. reg.r12 \in Int /\ reg.rcx \in Int /\ d + (i + 1) * w \in Int /\ d + (j + 1) * w \in Int
      BY <1>1 DEF Registers
    <3>2. QED
      BY <2>3, <3>1 DEF Registers
  <2>5. /\ mem' \in [0 .. ((Size + 1) * WordBytes - 1) -> Digits]
        /\ Word(mem', d + j * w) = Word(mem, d + i * w)
        /\ Word(mem', d + i * w) = Word(mem, d + j * w)
        /\ \A k \in Nat : k < n /\ k # j /\ k # i =>
              Word(mem', d + k * w) = Word(mem, d + k * w)
        /\ Word(mem', Size * WordBytes) = Word(mem, Size * WordBytes)
    <3>1. PICK a \in Nat, b \in Nat :
             a = d + j * w /\ b = d + i * w /\ mem' = WordsSwapped(mem, a, b)
      BY <1>3, <1>9
    <3>2. WordOfRange(w, d, n, j, a) /\ WordOfRange(w, d, n, i, b)
      BY <1>3, <3>1 DEF WordOfRange
    <3>3. /\ mem' \in [0 .. ((Size + 1) * WordBytes - 1) -> Digits]
          /\ Word(mem', a) = Word(mem, b) /\ Word(mem', b) = Word(mem, a)
          /\ Word(mem', Size * WordBytes) = Word(mem, Size * WordBytes)
      <4>1. mem' = WordsSwapped(mem, a, b)
        BY <3>1
      <4>2. QED
        <5>1. /\ MemoryTyped(WordsSwapped(mem, a, b))
              /\ Word(WordsSwapped(mem, a, b), a) = Word(mem, b)
              /\ Word(WordsSwapped(mem, a, b), b) = Word(mem, a)
              /\ Word(WordsSwapped(mem, a, b), Size * WordBytes) = Word(mem, Size * WordBytes)
          BY <3>2, SwapInRange
        <5>2. QED
          BY <4>1, <5>1 DEF MemoryTyped
    <3>4. ASSUME NEW k \in Nat, k < n, k # j, k # i
          PROVE  Word(mem', d + k * w) = Word(mem, d + k * w)
      <4>1. PICK c \in Nat : c = d + k * w
        OBVIOUS
      <4>4. WordOfRange(w, d, n, k, c)
        BY <1>3, <3>4, <4>1 DEF WordOfRange
      <4>5. mem' = WordsSwapped(mem, a, b)
        BY <3>1
      <4>2. Word(mem', c) = Word(mem, c)
        <5>3. k # j /\ k # i
          BY <3>4
        <5>4. Apart(a, c) /\ Apart(b, c)
          BY <3>2, <5>3, <4>4, RangeApart
        <5>5. TwoWords((Size + 1) * WordBytes, a, b)
          BY <3>2, SwapInRange
        <5>6. c + WordBytes <= Size * WordBytes
          BY <3>2, <4>4, SwapInRange
        <5>1. Word(WordsSwapped(mem, a, b), c) = Word(mem, c)
          BY <5>4, <5>5, <5>6, OtherInRange
        <5>2. QED
          BY <4>5, <5>1
      <4>3. QED
        BY <4>1, <4>2
    <3>5. QED
      BY <3>1, <3>3, <3>4
  <2>6. \A k \in 0 .. ((i + 1) - 1) : Word(mem', d + k * w) <= v
    <3>1. ASSUME NEW k \in 0 .. ((i + 1) - 1) PROVE Word(mem', d + k * w) <= v
      <4>1. CASE k = i
        BY <2>1, <2>5, <4>1
      <4>2. CASE k # i
        <5>1. k \in Nat /\ k < n /\ k # j /\ k \in 0 .. (i - 1)
          BY <1>3, <4>2
        <5>2. Word(mem', d + k * w) = Word(mem, d + k * w)
          BY <2>5, <4>2, <5>1
        <5>3. QED
          BY <1>3, <5>1, <5>2
      <4>3. QED
        BY <4>1, <4>2
    <3>2. QED
      BY <3>1
  <2>7. \A k \in (i + 1) .. ((j + 1) - 1) : Word(mem', d + k * w) > v
    <3>1. ASSUME NEW k \in (i + 1) .. ((j + 1) - 1) PROVE Word(mem', d + k * w) > v
      <4>1. k \in Nat /\ k < n /\ k # i /\ i \in i .. (j - 1)
        BY <1>3
      <4>2. CASE k = j
        <5>1. Word(mem, d + i * w) > v
          BY <1>3, <4>1
        <5>2. QED
          BY <2>5, <4>2, <5>1
      <4>3. CASE k # j
        <5>1. k \in i .. (j - 1)
          BY <4>1, <4>3
        <5>2. Word(mem', d + k * w) = Word(mem, d + k * w)
          BY <2>5, <4>1, <4>3
        <5>3. QED
          BY <1>3, <5>1, <5>2
      <4>4. QED
        BY <4>2, <4>3
    <3>2. QED
      BY <3>1
  <2>8. Word(mem', d + (n - 1) * w) = v
    <3>1. PICK h \in Nat : h = n - 1 /\ h < n /\ h # i /\ h # j
      BY <1>3
    <3>2. Word(mem', d + h * w) = Word(mem, d + h * w)
      BY <2>5, <3>1
    <3>3. Word(mem, d + h * w) = v
      BY <1>3, <3>1
    <3>4. QED
      BY <3>1, <3>2, <3>3
  <2>9. pc' = IF j + 1 = n - 1 THEN "LN3" ELSE "LN5"
    BY <1>3, <1>6, <1>7, <2>4 DEF LoopEnds
  <2>10. PICK x \in Nat, y \in Nat : x = i + 1 /\ y = j + 1 /\ x <= y /\ y <= n - 1
    BY <1>3
  <2>14. LoopNumbers(w, d, n, l, x, y, v)'
    BY <1>3, <1>4, <2>4, <2>6, <2>7, <2>8, <2>9, <2>10 DEF LoopNumbers
  <2>11. LoopFits'
    BY <1>1, <1>4, <2>14, LoopFromNumbers
  <2>12. LengthKept'
    BY <1>1, <1>4, <2>5 DEF LengthKept
  <2>13. QED
    BY <1>1, <2>4, <2>5, <2>9, <2>11, <2>12, StayKeeps
<1>10. CASE ~ BelongsLeft(reg) /\ mem' = mem /\ reg' = [reg EXCEPT !.rax = @ + WordBytes]
  <2>1. Word(mem, d + j * w) > v
    BY <1>3, <1>5, <1>10 DEF BelongsLeft
  <2>2. reg' = [reg EXCEPT !.rax = d + (j + 1) * w]
    BY <1>3, <1>8, <1>10
  <2>3. /\ reg' \in Registers /\ reg'.rdi = d /\ reg'.rbp = n /\ reg'.rbx = reg.rbx
        /\ reg'.rax = d + (j + 1) * w /\ reg'.rcx = reg.rcx /\ reg'.r8 = v
    <3>1. PICK a \in Int : a = d + (j + 1) * w
      OBVIOUS
    <3>2. reg' = [reg EXCEPT !.rax = a]
      BY <2>2, <3>1
    <3>3. QED
      BY <1>1, <1>3, <3>1, <3>2 DEF Registers
  <2>4. \A k \in i .. ((j + 1) - 1) : Word(mem', d + k * w) > v
    <3>1. ASSUME NEW k \in i .. ((j + 1) - 1) PROVE Word(mem', d + k * w) > v
      <4>1. k = j \/ k \in i .. (j - 1)
        OBVIOUS
      <4>2. QED
        BY <1>3, <1>10, <2>1, <4>1
    <3>2. QED
      BY <3>1
  <2>5. pc' = IF j + 1 = n - 1 THEN "LN3" ELSE "LN5"
    BY <1>3, <1>6, <1>7, <2>3 DEF LoopEnds
  <2>11. PICK y \in Nat : y = j + 1
    OBVIOUS
  <2>6. LoopNumbers(w, d, n, l, i, y, v)'
    BY <1>3, <1>4, <1>10, <2>3, <2>4, <2>5, <2>11 DEF LoopNumbers
  <2>7. LoopFits'
    BY <1>1, <1>4, <2>6, LoopFromNumbers
  <2>8. LengthKept'
    BY <1>1, <1>4, <1>10 DEF LengthKept
  <2>9. mem' \in [0 .. ((Size + 1) * WordBytes - 1) -> Digits]
    BY <1>1, <1>10
  <2>10. QED
    BY <1>1, <2>3, <2>5, <2>7, <2>8, <2>9, StayKeeps
<1>11. QED
  BY <1>9, <1>10 DEF Loop

\* A step that calls: with a range that fits, and with one that will fit left
\* for the caller's second call.
LEMMA CallKeeps ==
  ASSUME MachineInv, pc \in InCallee, reg' \in Registers,
         mem' \in [0 .. ((Size + 1) * WordBytes - 1) -> Digits],
         NEW back \in {"second", "LN1"}, stack' = Append(stack, back),
         callers' = Append(callers, CalleeSaved(reg')), pc' = "quickSort",
         UNCHANGED <<version, array>>, LengthKept',
         reg'.rdi >= 0, reg'.rsi >= 0, reg'.rdi + reg'.rsi * WordBytes <= Size * WordBytes,
         reg'.rsi + Levels <= Size, Levels + 1 <= Size,
         back = "second" => RestFits(CalleeSaved(reg'), Levels)
  PROVE  MachineInv'
<1>1. TypeOK /\ StackOK /\ Levels \in Nat
  BY LevelsInNat DEF MachineInv
<1>2. /\ StackOK' /\ stack' \in Seq(Cells) /\ callers' \in Seq(Triples)
      /\ Levels' = Levels + 1
      /\ \A k \in 1 .. Levels : /\ stack'[4 * k - 3] = stack[4 * k - 3]
                                /\ callers'[k] = callers[k]
      /\ stack'[4 * (Levels + 1) - 3] = back
      /\ callers'[Levels + 1] = CalleeSaved(reg')
  BY <1>1, CallStep
<1>3. Size' = Size
  BY DEF Size
<1>4. TypeOK'
  BY <1>1, <1>2, <1>3 DEF TypeOK
<1>5. CallFits'
  <2>1. reg'.rsi + Levels' - 1 <= Size
    BY <1>1, <1>2 DEF Registers
  <2>2. QED
    BY <1>3, <2>1 DEF CallFits
<1>6. LoopFits' /\ LevelsBounded'
  BY <1>2, <1>3 DEF LoopFits, LevelsBounded
<1>7. ASSUME NEW k \in 2 .. Levels', stack'[4 * k - 3] = "second"
      PROVE  RestFits(callers[k], k - 1)'
  <2>1. CASE k = Levels + 1
    <3>3. stack'[4 * (Levels + 1) - 3] = "second"
      BY <1>7, <2>1
    <3>4. back = "second"
      BY <1>2, <3>3
    <3>1. RestFits(CalleeSaved(reg'), Levels) /\ k - 1 = Levels
      BY <1>1, <2>1, <3>4
    <3>2. QED
      BY <1>2, <1>3, <2>1, <3>1 DEF RestFits, RestOf, PastPivot
  <2>2. CASE k \in 2 .. Levels
    <3>1. k \in 1 .. Levels
      BY <2>2
    <3>2. RestFits(callers[k], k - 1)
      BY <1>2, <1>7, <2>2, <3>1 DEF MachineInv, SecondCallsFit
    <3>3. QED
      BY <1>2, <1>3, <3>1, <3>2 DEF RestFits, RestOf, PastPivot
  <2>3. k \in 2 .. (Levels + 1)
    BY <1>2
  <2>4. k = Levels + 1 \/ k \in 2 .. Levels
    BY <1>1, <2>3
  <2>5. QED
    BY <2>1, <2>2, <2>4
<1>8. SecondCallsFit'
  BY <1>7 DEF SecondCallsFit
<1>9. QED
  BY <1>2, <1>4, <1>5, <1>6, <1>8 DEF MachineInv

LEMMA SecondCallKeeps ==
  ASSUME MachineInv, SecondCall
  PROVE  MachineInv'
<1>1. /\ TypeOK /\ pc = "second" /\ reg \in Registers /\ Size \in Nat /\ Levels \in Nat
      /\ mem \in [0 .. ((Size + 1) * WordBytes - 1) -> Digits] /\ LengthKept
      /\ UNCHANGED <<version, array, mem>> /\ pc' = "quickSort"
      /\ stack' = Append(stack, "LN1") /\ callers' = Append(callers, CalleeSaved(reg'))
  BY LevelsInNat DEF MachineInv, TypeOK, SecondCall
<1>2. RestFits(CalleeSaved(reg), Levels)
  BY <1>1 DEF MachineInv, SecondCallsFit
<1>3. PICK p \in Nat, b \in Int, r \in Int :
         /\ p = PastPivot /\ b = reg.rbx /\ r = Rest(reg) /\ b >= 0 /\ r >= 0
         /\ b + p + r * WordBytes <= Size * WordBytes
         /\ r + Levels <= Size /\ Levels + 1 <= Size
  <2>1. Rest(reg) = RestOf(CalleeSaved(reg)) /\ CalleeSaved(reg)[3] = reg.rbx
    BY DEF Rest, RestOf, CalleeSaved
  <2>2. Rest(reg) \in Int /\ reg.rbx \in Int
    BY <1>1 DEF Rest, Registers
  <2>3. PastPivot \in Nat
    BY WeightFacts DEF PastPivot
  <2>4. QED
    BY <1>2, <2>1, <2>2, <2>3 DEF RestFits
<1>4. PICK q \in Int : q = IF version = "sort" THEN reg.rbp - reg.r12 ELSE reg.rbp
  BY <1>1 DEF Registers
<1>5. reg' = [reg EXCEPT !.rbp = q, !.rsi = r, !.rdi = b + p]
  BY <1>1, <1>3, <1>4 DEF SecondCall, Registers
<1>6. reg' \in Registers /\ reg'.rsi = r /\ reg'.rdi = b + p
  <2>1. reg' = [rdi |-> b + p, rsi |-> r, rbp |-> q, rbx |-> reg.rbx, r12 |-> reg.r12,
                rax |-> reg.rax, rcx |-> reg.rcx, r8 |-> reg.r8]
    BY <1>1, <1>5 DEF Registers
  <2>2. b + p \in Int /\ reg.rbx \in Int /\ reg.r12 \in Int /\ reg.rax \in Int
        /\ reg.rcx \in Int /\ reg.r8 \in Int
    BY <1>1, <1>3 DEF Registers
  <2>3. QED
    BY <2>1, <2>2 DEF Registers
<1>7. LengthKept'
  BY <1>1 DEF LengthKept, Size
<1>8. /\ reg'.rdi >= 0 /\ reg'.rsi >= 0 /\ reg'.rsi + Levels <= Size /\ Levels + 1 <= Size
      /\ reg'.rdi + reg'.rsi * WordBytes <= Size * WordBytes
  BY <1>3, <1>6
<1>9. pc \in InCallee
  BY <1>1 DEF InCallee
<1>10. QED
  BY <1>1, <1>6, <1>7, <1>8, <1>9, CallKeeps

\* What the pivot's place leaves of a range.
LEMMA RangeSplits ==
  ASSUME NEW w \in Nat \ {0}, NEW d \in Nat, NEW n \in Nat, NEW i \in Nat, i < n
  PROVE  d + i * w <= d + n * w /\ d + i * w + w + (n - i - 1) * w = d + n * w
<1>1. PICK c \in Nat : c = n - i - 1 /\ n = i + 1 + c
  <2>1. n - i - 1 \in Nat /\ n = i + 1 + (n - i - 1)
    OBVIOUS
  <2>2. QED
    BY <2>1
<1>2. n * w = i * w + w + c * w
  BY <1>1
<1>3. PICK x \in Nat, y \in Nat, z \in Nat : x = n * w /\ y = i * w /\ z = c * w
  BY <1>1
<1>4. d + y <= d + x /\ d + y + w + z = d + x
  BY <1>2, <1>3
<1>5. QED
  BY <1>1, <1>3, <1>4

\* The index of the pivot's place.
LEMMA PlaceOfPivot ==
  ASSUME NEW w \in Nat \ {0}, NEW d \in Nat, NEW i \in Nat
  PROVE  (d + i * w - d) \div w = i
<1>1. PICK y \in Nat : y = i * w
  OBVIOUS
<1>2. d + y - d = i * w + 0 /\ 0 < w
  BY <1>1
<1>3. (i * w + 0) \div w = i
  BY PlaceInArray
<1>4. QED
  BY <1>1, <1>2, <1>3

LEMMA FirstCallKeeps ==
  ASSUME MachineInv, FirstCall
  PROVE  MachineInv'
<1>1. /\ TypeOK /\ pc = "LN3" /\ reg \in Registers /\ Size \in Nat /\ LengthKept
      /\ UNCHANGED <<version, array>> /\ pc' = "quickSort"
      /\ mem' = WordsSwapped(mem, reg.rcx, reg.rbx)
      /\ mem \in [0 .. ((Size + 1) * WordBytes - 1) -> Digits]
      /\ stack' = Append(stack, "second") /\ callers' = Append(callers, CalleeSaved(reg'))
  BY DEF MachineInv, TypeOK, FirstCall
<1>2. PICK w \in Nat \ {0}, d \in Nat, n \in Nat, l \in Nat, i \in Nat, j \in Nat, v \in Int :
         LoopNumbers(w, d, n, l, i, j, v)
  BY <1>1, LoopHasNumbers
<1>3. /\ w = WordBytes /\ d = reg.rdi /\ n = reg.rbp /\ l = Levels
      /\ reg.rcx = d + (n - 1) * w /\ reg.rbx = d + i * w
      /\ n >= 2 /\ d + n * w <= Size * w /\ n + l - 1 <= Size /\ i < n
      /\ n - 1 \in Nat /\ n - 1 < n
  <2>1. /\ w = WordBytes /\ d = reg.rdi /\ n = reg.rbp /\ l = Levels
        /\ reg.rcx = d + (n - 1) * w /\ reg.rbx = d + i * w
        /\ n >= 2 /\ d + n * w <= Size * w /\ n + l - 1 <= Size
    BY <1>2 DEF LoopNumbers
  <2>2. i <= j /\ j = n - 1
    BY <1>1, <1>2 DEF LoopNumbers
  <2>3. i < n /\ n - 1 \in Nat /\ n - 1 < n
    BY <2>1, <2>2
  <2>4. QED
    BY <2>1, <2>3
<1>4. PICK a \in Nat, b \in Nat, k \in Nat :
         /\ a = d + k * w /\ b = d + i * w /\ k = n - 1 /\ reg.rcx = a /\ reg.rbx = b
  <2>1. PICK k \in Nat : k = n - 1
    BY <1>3
  <2>2. d + k * w \in Nat /\ d + i * w \in Nat
    BY RowOrder
  <2>3. QED
    BY <1>3, <2>1, <2>2
<1>5. WordOfRange(w, d, n, k, a) /\ WordOfRange(w, d, n, i, b)
  BY <1>3, <1>4 DEF WordOfRange
<1>6. /\ MemoryTyped(WordsSwapped(mem, a, b))
      /\ Word(WordsSwapped(mem, a, b), b) = Word(mem, a)
      /\ Word(WordsSwapped(mem, a, b), Size * WordBytes) = Word(mem, Size * WordBytes)
      /\ a + WordBytes <= Size * WordBytes
  BY <1>5, SwapInRange
<1>7. mem' = WordsSwapped(mem, a, b) /\ mem' \in [0 .. ((Size + 1) * WordBytes - 1) -> Digits]
  BY <1>1, <1>4, <1>6 DEF MemoryTyped
<1>8. LengthKept'
  <2>1. Size' = Size /\ Word(mem', Size * WordBytes) = Word(mem, Size * WordBytes)
    BY <1>1, <1>6, <1>7 DEF Size
  <2>2. QED
    BY <1>1, <2>1 DEF LengthKept
<1>9. PICK t \in Int : t = Word(mem, reg.rcx)
  <2>1. PICK s \in Nat, m \in Nat : s = Size /\ m = (s + 1) * w /\ m = s * w + w
    BY <1>1
  <2>2. mem \in [0 .. (m - 1) -> Digits] /\ a + WordBytes <= m
    BY <1>1, <1>3, <1>6, <2>1
  <2>3. QED
    BY <1>4, <2>2, WordTyped
<1>10. (reg.rbx - reg.rdi) \div WordBytes = i
  BY <1>3, PlaceOfPivot
<1>11. PICK p \in Int : p = IF version = "sort" THEN n ELSE n - i
  OBVIOUS
<1>12. reg' = [reg EXCEPT !.rax = t, !.r12 = i, !.rsi = i, !.rbp = p]
  BY <1>1, <1>3, <1>9, <1>10, <1>11 DEF FirstCall, Registers
<1>13. /\ reg' \in Registers /\ reg'.rdi = d /\ reg'.rsi = i /\ reg'.rbx = b
       /\ reg'.r12 = i /\ reg'.rbp = p
  <2>1. reg' = [rdi |-> d, rsi |-> i, rbp |-> p, rbx |-> b, r12 |-> i,
                rax |-> t, rcx |-> a, r8 |-> reg.r8]
    BY <1>1, <1>3, <1>4, <1>12 DEF Registers
  <2>2. reg.r8 \in Int
    BY <1>1 DEF Registers
  <2>3. QED
    BY <2>1, <2>2 DEF Registers
<1>14. PICK e \in Nat, x \in Nat : /\ e = Size * w /\ x = (n - i - 1) * w
                                   /\ b <= e /\ b + w + x <= e
  <2>1. n - i - 1 \in Nat
    BY <1>3
  <2>2. d + i * w <= d + n * w /\ d + i * w + w + (n - i - 1) * w = d + n * w
    BY <1>3, RangeSplits
  <2>3. (n - i - 1) * w \in Nat /\ Size * w \in Nat
    BY <1>1, <2>1
  <2>4. QED
    BY <1>3, <1>4, <2>2, <2>3
<1>15. /\ i + l <= Size /\ l + 1 <= Size /\ n - i - 1 >= 0 /\ n - i - 1 + l <= Size
  <2>1. n >= 2 /\ n + l - 1 <= Size /\ i < n
    BY <1>3
  <2>2. PICK s \in Nat : s = Size
    BY <1>1
  <2>3. n + l - 1 <= s
    BY <2>1, <2>2
  <2>4. i + l <= s /\ l + 1 <= s /\ n - i - 1 >= 0 /\ n - i - 1 + l <= s
    BY <2>1, <2>3
  <2>5. QED
    BY <2>2, <2>4
<1>16. RestFits(CalleeSaved(reg'), Levels)
  <2>1. CalleeSaved(reg') = <<i, p, b>>
    BY <1>13 DEF CalleeSaved
  <2>2. RestOf(<<i, p, b>>) = n - i - 1
    BY <1>11 DEF RestOf
  <2>3. PastPivot \in Nat /\ PastPivot <= w
    BY <1>3 DEF PastPivot
  <2>4. b + PastPivot + x <= e
    BY <1>14, <2>3
  <2>5. b + PastPivot + (n - i - 1) * WordBytes <= Size * WordBytes
    BY <1>3, <1>14, <2>4
  <2>6. RestFits(<<i, p, b>>, Levels)
    BY <1>3, <1>15, <2>2, <2>5 DEF RestFits
  <2>7. QED
    BY <2>1, <2>6
<1>17. /\ reg'.rdi >= 0 /\ reg'.rsi >= 0 /\ reg'.rsi + Levels <= Size /\ Levels + 1 <= Size
       /\ reg'.rdi + reg'.rsi * WordBytes <= Size * WordBytes
  <2>1. reg'.rdi + reg'.rsi * WordBytes = d + i * w
    BY <1>3, <1>13
  <2>2. QED
    BY <1>3, <1>4, <1>13, <1>14, <1>15, <2>1
<1>18. pc \in InCallee
  BY <1>1 DEF InCallee
<1>19. QED
  BY <1>1, <1>7, <1>8, <1>13, <1>16, <1>17, <1>18, CallKeeps

-----------------------------------------------------------------------------
(* Every step, and what follows. *)

LEMMA MachineInvKept ==
  ASSUME MachineInv, [Next]_vars
  PROVE  MachineInv'
<1>1. CASE ReturnAtOnce
  BY <1>1, ReturnAtOnceKeeps
<1>2. CASE Begin
  BY <1>2, BeginKeeps
<1>3. CASE Loop
  BY <1>3, LoopKeeps
<1>4. CASE FirstCall
  BY <1>4, FirstCallKeeps
<1>5. CASE SecondCall
  BY <1>5, SecondCallKeeps
<1>6. CASE PopAndReturn
  BY <1>6, PopAndReturnKeeps
<1>7. CASE UNCHANGED vars
  BY <1>7 DEF vars, MachineInv, TypeOK, StackOK, CallFits, LoopFits, LoopAt, SecondCallsFit,
     RestFits, RestOf, PastPivot, LevelsBounded, LengthKept, Levels, Size
<1>8. QED
  BY <1>1, <1>2, <1>3, <1>4, <1>5, <1>6, <1>7 DEF Next

\* In every state of every version and input the stack is made of frames, the
\* range at hand and those to come lie in the array, and the length after the
\* array is what it was.
THEOREM MachineInvHolds == Spec => []MachineInv
<1>1. Init => MachineInv
  BY MachineInvInit
<1>2. MachineInv /\ [Next]_vars => MachineInv'
  BY MachineInvKept
<1>3. QED
  BY <1>1, <1>2, PTL DEF Spec

\* The stack takes four words for each level and there are no more levels than
\* elements: quickSort never writes below the stack that the length calls for.
THEOREM StackIsBounded == Spec => []StackBounded
<1>1. ASSUME MachineInv PROVE StackBounded
  <2>1. PICK l \in Nat, n \in Nat, s \in Nat : l = Levels /\ n = Len(stack) /\ s = Size
    BY <1>1, LevelsInNat DEF MachineInv, TypeOK
  <2>2. pc \in {"quickSort", "halt"} \union InCallee
    BY <1>1 DEF MachineInv, TypeOK
  <2>3. n <= 4 * l
    <3>1. pc = "halt" => n = 0
      BY <1>1, <2>1 DEF MachineInv, StackOK
    <3>2. pc = "quickSort" => n = 4 * l - 3
      BY <1>1, <2>1 DEF MachineInv, StackOK
    <3>3. pc \in InCallee => n = 4 * l
      BY <1>1, <2>1 DEF MachineInv, StackOK
    <3>4. QED
      BY <2>2, <3>1, <3>2, <3>3
  <2>4. l >= 2 => l <= s
    BY <1>1, <2>1 DEF MachineInv, LevelsBounded
  <2>5. l <= IF s > 0 THEN s ELSE 1
    BY <2>4
  <2>6. QED
    BY <2>1, <2>3, <2>5 DEF StackBounded
<1>2. QED
  BY <1>1, MachineInvHolds, PTL

\* The loop's invariant: what is before %rbx is up to the pivot, what is between
\* it and %rax is larger, and the pivot is at the end of the range.
THEOREM LoopPartitions == Spec => []Partitioned
<1>1. ASSUME MachineInv PROVE Partitioned
  <2>1. SUFFICES ASSUME pc \in {"LN5", "LN3"}
        PROVE  /\ \A k \in 0 .. ((reg.rbx - reg.rdi) \div WordBytes - 1) :
                     Word(mem, reg.rdi + k * WordBytes) <= reg.r8
               /\ \A k \in 0 .. ((reg.rax - reg.rbx) \div WordBytes - 1) :
                     Word(mem, reg.rbx + k * WordBytes) > reg.r8
               /\ Word(mem, reg.rcx) = reg.r8
    BY DEF Partitioned
  <2>2. PICK w \in Nat \ {0}, d \in Nat, n \in Nat, l \in Nat, i \in Nat, j \in Nat, v \in Int :
           LoopNumbers(w, d, n, l, i, j, v)
    BY <1>1, <2>1, LoopHasNumbers
  <2>3. /\ w = WordBytes /\ d = reg.rdi /\ v = reg.r8
        /\ reg.rcx = d + (n - 1) * w /\ reg.rbx = d + i * w /\ reg.rax = d + j * w /\ i <= j
        /\ \A k \in 0 .. (i - 1) : Word(mem, d + k * w) <= v
        /\ \A k \in i .. (j - 1) : Word(mem, d + k * w) > v
        /\ Word(mem, d + (n - 1) * w) = v
    BY <2>2 DEF LoopNumbers
  <2>4. (reg.rbx - reg.rdi) \div WordBytes = i
    BY <2>3, PlaceOfPivot
  <2>5. PICK c \in Nat : j = i + c
    <3>1. j - i \in Nat /\ j = i + (j - i)
      BY <2>3
    <3>2. QED
      BY <3>1
  <2>6. (reg.rax - reg.rbx) \div WordBytes = c
    <3>1. PICK b \in Nat : b = d + i * w
      BY RowOrder
    <3>2. d + j * w = b + c * w
      BY <2>5, <3>1
    <3>3. (b + c * w - b) \div w = c
      BY PlaceOfPivot
    <3>4. QED
      BY <2>3, <3>1, <3>2, <3>3
  <2>7. ASSUME NEW k \in 0 .. (c - 1) PROVE Word(mem, reg.rbx + k * WordBytes) > reg.r8
    <3>1. i + k \in i .. (j - 1)
      BY <2>5
    <3>2. Word(mem, d + (i + k) * w) > v
      BY <2>3, <3>1
    <3>3. d + (i + k) * w = d + i * w + k * w
      OBVIOUS
    <3>4. QED
      BY <2>3, <3>2, <3>3
  <2>8. QED
    BY <2>3, <2>4, <2>6, <2>7
<1>2. QED
  BY <1>1, MachineInvHolds, PTL

\* A return, in either program, is with %r12, %rbp and %rbx as the caller left
\* them.
LEMMA ReturnRestores ==
  ASSUME MachineInv, Next, Len(callers') < Len(callers)
  PROVE  CalleeSaved(reg') = Last(callers)
<1>1. /\ TypeOK /\ StackOK /\ Levels \in Nat /\ callers \in Seq(Triples) /\ reg \in Registers
  BY LevelsInNat DEF MachineInv, TypeOK
<1>2. ASSUME NEW x PROVE Len(Append(callers, x)) = Len(callers) + 1
  <2>1. callers \in Seq(Triples \union {x})
    BY <1>1
  <2>2. QED
    BY <2>1, AppendProperties
<1>3. ~ FirstCall /\ ~ SecondCall
  <2>1. Len(callers') # Len(callers) + 1
    BY <1>1 DEF Levels
  <2>2. QED
    BY <1>2, <2>1 DEF FirstCall, SecondCall
<1>4. ~ Begin /\ ~ Loop /\ ~ UNCHANGED vars
  <2>1. callers' # callers
    BY <1>1 DEF Levels
  <2>2. QED
    BY <2>1 DEF Begin, Loop, vars
<1>5. CASE ReturnAtOnce
  <2>1. pc = "quickSort" /\ UNCHANGED reg
    <3>1. ~ UNCHANGED callers
      BY <1>1 DEF Levels
    <3>2. QED
      BY <1>5, <3>1 DEF ReturnAtOnce
  <2>2. callers[Levels] = CalleeSaved(reg)
    BY <1>1, <2>1 DEF StackOK
  <2>3. QED
    BY <2>1, <2>2 DEF CalleeSaved, Last, Levels
<1>6. CASE PopAndReturn
  BY <1>6, PopIsReturn DEF Last, Levels
<1>7. QED
  BY <1>3, <1>4, <1>5, <1>6 DEF Next

\* So it is with every call of a run.
THEOREM CallsKeepRegisters == Spec => CalleeSavedKept
<1>1. ASSUME MachineInv, [Next]_vars
      PROVE  [Len(callers') < Len(callers) => CalleeSaved(reg') = Last(callers)]_vars
  BY <1>1, ReturnRestores
<1>2. QED
  BY <1>1, MachineInvHolds, PTL DEF Spec, CalleeSavedKept

-----------------------------------------------------------------------------
(* The bytes of the array. *)

\* How many of the first e bytes are v.
Count(m, e, v) == Cardinality({x \in 0 .. (e - 1) : m[x] = v})

\* An exchange of two words of the array takes every byte value where it was
\* found, once.
LEMMA SwapCounts ==
  ASSUME NEW n \in Nat, NEW a \in Nat, NEW b \in Nat, TwoWords(n, a, b),
         NEW m \in [0 .. (n - 1) -> Digits], NEW v,
         NEW e \in Nat, e <= n, a + WordBytes <= e, b + WordBytes <= e
  PROVE  Count(WordsSwapped(m, a, b), e, v) = Count(m, e, v)
<1> DEFINE o == WordsSwapped(m, a, b)
           S == {x \in 0 .. (e - 1) : m[x] = v}
           T == {x \in 0 .. (e - 1) : o[x] = v}
           g == [x \in T |-> From(a, b, x)]
<1>1. \A x \in 0 .. (n - 1) : o[x] = m[From(a, b, x)]
  BY SwappedBytes
<1> HIDE DEF o
<1>2. TwoWords(e, a, b)
  BY DEF TwoWords
<1>3. \A x \in 0 .. (e - 1) : From(a, b, x) \in 0 .. (e - 1) /\ From(a, b, From(a, b, x)) = x
  BY <1>2, FromIsInvolution
<1>4. \A x \in 0 .. (e - 1) : x \in 0 .. (n - 1) /\ o[x] = m[From(a, b, x)]
  BY <1>1
<1>5. \A x \in T : g[x] \in S
  BY <1>3, <1>4
<1>6. \A y \in S : From(a, b, y) \in T /\ g[From(a, b, y)] = y
  <2>1. ASSUME NEW y \in S PROVE From(a, b, y) \in T
    <3>1. y \in 0 .. (e - 1) /\ m[y] = v
      OBVIOUS
    <3>2. From(a, b, y) \in 0 .. (e - 1) /\ From(a, b, From(a, b, y)) = y
      BY <1>3, <3>1
    <3>3. o[From(a, b, y)] = v
      BY <1>4, <3>1, <3>2
    <3>4. QED
      BY <3>2, <3>3
  <2>2. QED
    BY <1>3, <2>1
<1>7. g \in Injection(T, S)
  <2>1. g \in [T -> S]
    BY <1>5
  <2>2. \A x, y \in T : g[x] = g[y] => x = y
    <3>1. ASSUME NEW x \in T, NEW y \in T, g[x] = g[y] PROVE x = y
      <4>1. From(a, b, x) = From(a, b, y)
        BY <3>1
      <4>2. From(a, b, From(a, b, x)) = x /\ From(a, b, From(a, b, y)) = y
        BY <1>3
      <4>3. QED
        BY <4>1, <4>2
    <3>2. QED
      BY <3>1
  <2>3. QED
    BY <2>1, <2>2 DEF Injection, IsInjective
<1>8. g \in Surjection(T, S)
  BY <1>5, <1>6 DEF Surjection
<1>9. g \in Bijection(T, S)
  BY <1>7, <1>8 DEF Bijection
<1>10. IsFiniteSet(T)
  <2>1. IsFiniteSet(0 .. (e - 1))
    BY FS_Interval
  <2>2. T \subseteq 0 .. (e - 1)
    OBVIOUS
  <2>3. QED
    BY <2>1, <2>2, FS_Subset
<1>11. Cardinality(S) = Cardinality(T)
  BY <1>9, <1>10, FS_Bijection DEF ExistsBijection
<1>12. QED
  BY <1>11 DEF o, Count

\* A step of either program leaves memory alone or exchanges two words of the
\* array.
LEMMA MemoryMoves ==
  ASSUME MachineInv, [Next]_vars
  PROVE  \/ UNCHANGED mem
         \/ \E a, b \in Nat : /\ mem' = WordsSwapped(mem, a, b)
                              /\ TwoWords((Size + 1) * WordBytes, a, b)
                              /\ a + WordBytes <= Size * WordBytes
                              /\ b + WordBytes <= Size * WordBytes
<1>1. SUFFICES ASSUME mem' # mem
      PROVE  \E a, b \in Nat : /\ mem' = WordsSwapped(mem, a, b)
                               /\ TwoWords((Size + 1) * WordBytes, a, b)
                               /\ a + WordBytes <= Size * WordBytes
                               /\ b + WordBytes <= Size * WordBytes
  OBVIOUS
<1>2. \/ Loop /\ mem' = WordsSwapped(mem, reg.rax, reg.rbx) /\ pc = "LN5"
      \/ FirstCall /\ mem' = WordsSwapped(mem, reg.rcx, reg.rbx) /\ pc = "LN3"
  BY <1>1 DEF Next, vars, ReturnAtOnce, Begin, Loop, FirstCall, SecondCall, PopAndReturn
<1>3. PICK w \in Nat \ {0}, d \in Nat, n \in Nat, l \in Nat, i \in Nat, j \in Nat, v \in Int :
         LoopNumbers(w, d, n, l, i, j, v)
  BY <1>2, LoopHasNumbers
<1>4. /\ w = WordBytes /\ reg.rcx = d + (n - 1) * w /\ reg.rbx = d + i * w
      /\ reg.rax = d + j * w /\ d + n * w <= Size * w
  BY <1>3 DEF LoopNumbers
<1>5. n >= 2 /\ i <= j /\ (pc = "LN5" => j < n - 1) /\ (pc = "LN3" => j = n - 1)
  BY <1>2, <1>3 DEF LoopNumbers
<1>6. i < n /\ j < n /\ n - 1 \in Nat /\ n - 1 < n
  BY <1>2, <1>5
<1>7. PICK k \in Nat, a \in Nat, b \in Nat :
         /\ k < n /\ a = d + k * w /\ b = d + i * w /\ mem' = WordsSwapped(mem, a, b)
  <2>1. CASE mem' = WordsSwapped(mem, reg.rax, reg.rbx)
    <3>1. d + j * w \in Nat /\ d + i * w \in Nat
      BY RowOrder
    <3>2. QED
      BY <1>4, <1>6, <2>1, <3>1
  <2>2. CASE mem' = WordsSwapped(mem, reg.rcx, reg.rbx)
    <3>1. d + (n - 1) * w \in Nat /\ d + i * w \in Nat
      BY <1>6, RowOrder
    <3>2. QED
      BY <1>4, <1>6, <2>2, <3>1
  <2>3. QED
    BY <1>2, <2>1, <2>2
<1>8. WordOfRange(w, d, n, k, a) /\ WordOfRange(w, d, n, i, b)
  BY <1>4, <1>6, <1>7 DEF WordOfRange
<1>9. /\ TwoWords((Size + 1) * WordBytes, a, b)
      /\ a + WordBytes <= Size * WordBytes /\ b + WordBytes <= Size * WordBytes
  BY <1>8, SwapInRange
<1>10. QED
  BY <1>7, <1>9

GivenBytes ==
    \A b \in 0 .. (ByteMod - 1) :
        Cardinality({x \in ArrayBytes : mem[x] = b})
          = Cardinality({x \in ArrayBytes : Byte(array[x \div WordBytes], x % WordBytes) = b})

LEMMA GivenBytesKept ==
  ASSUME MachineInv, GivenBytes, [Next]_vars
  PROVE  GivenBytes'
<1>1. UNCHANGED array /\ Size \in Nat /\ mem \in [0 .. ((Size + 1) * WordBytes - 1) -> Digits]
  BY DEF MachineInv, TypeOK, Next, vars, ReturnAtOnce, Begin, Loop, FirstCall, SecondCall,
         PopAndReturn
<1>2. PICK w \in Nat, e \in Nat, n \in Nat :
         w = WordBytes /\ e = Size * w /\ n = (Size + 1) * w /\ n = e + w
  BY <1>1, WeightFacts
<1>3. Size' = Size /\ ArrayBytes' = ArrayBytes /\ ArrayBytes = 0 .. (e - 1)
  BY <1>1, <1>2 DEF Size, ArrayBytes
<1>4. ASSUME NEW v PROVE Cardinality({x \in 0 .. (e - 1) : mem'[x] = v})
                           = Cardinality({x \in 0 .. (e - 1) : mem[x] = v})
  <2>1. CASE mem' = mem
    BY <2>1
  <2>2. CASE mem' # mem
    <3>1. PICK a \in Nat, b \in Nat : /\ mem' = WordsSwapped(mem, a, b)
                                      /\ TwoWords((Size + 1) * WordBytes, a, b)
                                      /\ a + WordBytes <= Size * WordBytes
                                      /\ b + WordBytes <= Size * WordBytes
      BY <2>2, MemoryMoves
    <3>2. TwoWords(n, a, b) /\ a + WordBytes <= e /\ b + WordBytes <= e /\ e <= n
      BY <1>2, <3>1
    <3>3. mem \in [0 .. (n - 1) -> Digits]
      BY <1>1, <1>2
    <3>4. Count(WordsSwapped(mem, a, b), e, v) = Count(mem, e, v)
      BY <3>2, <3>3, SwapCounts
    <3>5. QED
      BY <3>1, <3>4 DEF Count
  <2>3. QED
    BY <2>1, <2>2
<1>5. QED
  BY <1>1, <1>3, <1>4 DEF GivenBytes

\* Neither program loses a byte of the array or touches the length after it.
THEOREM BytesArePermuted == Spec => []BytesPermuted
<1>1. Init => GivenBytes
  <2>1. SUFFICES ASSUME Init PROVE GivenBytes
    OBVIOUS
  <2>2. \A x \in ArrayBytes : mem[x] = Byte(array[x \div WordBytes], x % WordBytes)
    BY <2>1, InitialMemory DEF ArrayBytes
  <2>3. ASSUME NEW b
        PROVE  {x \in ArrayBytes : mem[x] = b}
                 = {x \in ArrayBytes : Byte(array[x \div WordBytes], x % WordBytes) = b}
    BY <2>2
  <2>4. QED
    BY <2>3 DEF GivenBytes
<1>2. MachineInv /\ GivenBytes /\ [Next]_vars => GivenBytes'
  BY GivenBytesKept
<1>3. MachineInv /\ GivenBytes => BytesPermuted
  BY DEF MachineInv, LengthKept, GivenBytes, BytesPermuted
<1>4. QED
  BY <1>1, <1>2, <1>3, MachineInvHolds, PTL DEF Spec

-----------------------------------------------------------------------------
(* sort.ys implements sort.c.  It works on whole words: addresses are aligned. *)

Aligned(x) == \E s \in Nat : x = s * WordBytes

AlignedInv ==
    version = "sort" =>
        /\ pc \in {"quickSort", "LN5", "LN3"} => Aligned(reg.rdi)
        /\ pc = "second" => Aligned(reg.rbx)
        /\ \A k \in 2 .. Levels : stack[4 * k - 3] = "second" => Aligned(callers[k][3])

LEMMA AlignedSum ==
  ASSUME NEW w \in Nat \ {0}, w = WordBytes, NEW d \in Nat, Aligned(d), NEW i \in Nat
  PROVE  Aligned(d + i * w)
<1>1. PICK s \in Nat : d = s * w
  BY DEF Aligned
<1>2. PICK t \in Nat : t = s + i
  OBVIOUS
<1>3. d + i * w = t * w
  BY <1>1, <1>2
<1>4. QED
  BY <1>3 DEF Aligned

\* %rbx in the loop.
LEMMA PivotAligned ==
  ASSUME MachineInv, pc \in {"LN5", "LN3"}, Aligned(reg.rdi)
  PROVE  Aligned(reg.rbx)
<1>1. PICK w \in Nat \ {0}, d \in Nat, n \in Nat, l \in Nat, i \in Nat, j \in Nat, v \in Int :
         LoopNumbers(w, d, n, l, i, j, v)
  BY LoopHasNumbers
<1>2. w = WordBytes /\ d = reg.rdi /\ reg.rbx = d + i * w
  BY <1>1 DEF LoopNumbers
<1>3. QED
  BY <1>2, AlignedSum

LEMMA AlignedCall ==
  ASSUME MachineInv, AlignedInv, version = "sort", version' = version, pc \in InCallee,
         reg' \in Registers, NEW back \in {"second", "LN1"}, stack' = Append(stack, back),
         callers' = Append(callers, CalleeSaved(reg')), pc' = "quickSort",
         Aligned(reg'.rdi), back = "second" => Aligned(reg'.rbx)
  PROVE  AlignedInv'
<1>1. TypeOK /\ StackOK /\ Levels \in Nat
  BY LevelsInNat DEF MachineInv
<1>2. /\ Levels' = Levels + 1
      /\ \A k \in 1 .. Levels : /\ stack'[4 * k - 3] = stack[4 * k - 3]
                                /\ callers'[k] = callers[k]
      /\ stack'[4 * (Levels + 1) - 3] = back
      /\ callers'[Levels + 1] = CalleeSaved(reg')
  BY <1>1, CallStep
<1>3. ASSUME NEW k \in 2 .. (Levels + 1), stack'[4 * k - 3] = "second"
      PROVE  Aligned(callers'[k][3])
  <2>1. CASE k = Levels + 1
    <3>1. back = "second" /\ callers'[k] = CalleeSaved(reg')
      BY <1>2, <1>3, <2>1
    <3>4. CalleeSaved(reg')[3] = reg'.rbx
      BY DEF CalleeSaved
    <3>2. callers'[k][3] = reg'.rbx
      BY <3>1, <3>4
    <3>3. QED
      BY <3>1, <3>2
  <2>2. CASE k \in 2 .. Levels
    <3>1. k \in 1 .. Levels
      BY <2>2
    <3>2. QED
      BY <1>2, <1>3, <2>2, <3>1 DEF AlignedInv
  <2>3. k = Levels + 1 \/ k \in 2 .. Levels
    BY <1>1
  <2>4. QED
    BY <2>1, <2>2, <2>3
<1>4. QED
  BY <1>2, <1>3 DEF AlignedInv, Aligned

LEMMA AlignedKept ==
  ASSUME MachineInv, AlignedInv, [Next]_vars
  PROVE  AlignedInv'
<1>1. CASE version # "sort" \/ UNCHANGED vars
  BY <1>1 DEF AlignedInv, Aligned, Levels, Next, vars, ReturnAtOnce, Begin, Loop, FirstCall,
              SecondCall, PopAndReturn
<1>2. SUFFICES ASSUME version = "sort", Next PROVE AlignedInv'
  BY <1>1 DEF vars
<1>3. TypeOK /\ StackOK /\ Levels \in Nat /\ reg \in Registers /\ version' = version
  BY <1>2, LevelsInNat
     DEF MachineInv, TypeOK, Next, vars, ReturnAtOnce, Begin, Loop, FirstCall, SecondCall,
         PopAndReturn
<1>4. \A k \in 2 .. Levels : stack[4 * k - 3] = "second" => Aligned(callers[k][3])
  BY <1>2 DEF AlignedInv
<1>5. CASE ReturnAtOnce \/ Begin
  <2>1. /\ pc = "quickSort" /\ stack' = Pushed(stack, reg) /\ callers' = callers
        /\ pc' \in {"LN1", "LN5"} /\ (pc' = "LN5" => reg'.rdi = reg.rdi)
    BY <1>2, <1>3, <1>5 DEF ReturnAtOnce, Begin, Registers
  <2>2. Levels' = Levels /\ \A k \in 1 .. Levels : stack'[4 * k - 3] = stack[4 * k - 3]
    <3>1. pc' \in InCallee
      BY <2>1 DEF InCallee
    <3>2. QED
      BY <1>3, <2>1, <3>1, PushStep
  <2>3. Aligned(reg.rdi)
    BY <1>2, <2>1 DEF AlignedInv
  <2>4. \A k \in 2 .. Levels : k \in 1 .. Levels
    OBVIOUS
  <2>5. \A k \in 2 .. Levels : stack'[4 * k - 3] = "second" => Aligned(callers'[k][3])
    BY <1>4, <2>1, <2>2, <2>4
  <2>6. QED
    BY <2>1, <2>2, <2>3, <2>5 DEF AlignedInv, Aligned
<1>6. CASE Loop
  <2>1. /\ pc = "LN5" /\ UNCHANGED <<stack, callers>> /\ reg'.rdi = reg.rdi
        /\ pc' \in {"LN3", "LN5"}
    BY <1>3, <1>6 DEF Loop, Registers
  <2>2. Aligned(reg.rdi) /\ Levels' = Levels
    BY <1>2, <2>1 DEF AlignedInv, Levels
  <2>3. QED
    BY <1>4, <2>1, <2>2 DEF AlignedInv, Aligned
<1>7. CASE FirstCall
  <2>1. /\ pc = "LN3" /\ pc \in InCallee /\ pc' = "quickSort"
        /\ stack' = Append(stack, "second") /\ callers' = Append(callers, CalleeSaved(reg'))
        /\ reg'.rdi = reg.rdi /\ reg'.rbx = reg.rbx
    BY <1>3, <1>7 DEF FirstCall, Registers, InCallee
  <2>2. Aligned(reg.rdi) /\ Aligned(reg.rbx)
    BY <1>2, <2>1, PivotAligned DEF AlignedInv
  <2>3. reg' \in Registers
    BY <1>7, MachineInvKept DEF Next, MachineInv, TypeOK
  <2>4. QED
    BY <1>2, <1>3, <2>1, <2>2, <2>3, AlignedCall
<1>8. CASE SecondCall
  <2>1. /\ pc = "second" /\ pc \in InCallee /\ pc' = "quickSort"
        /\ stack' = Append(stack, "LN1") /\ callers' = Append(callers, CalleeSaved(reg'))
        /\ reg'.rdi = reg.rbx + WordBytes
    BY <1>2, <1>3, <1>8 DEF SecondCall, Registers, InCallee, PastPivot
  <2>2. Aligned(reg.rbx) /\ reg.rbx \in Nat
    <3>1. RestFits(CalleeSaved(reg), Levels) /\ reg.rbx \in Int
      BY <1>3, <2>1 DEF MachineInv, SecondCallsFit, Registers
    <3>2. QED
      BY <1>2, <2>1, <3>1 DEF AlignedInv, RestFits, CalleeSaved
  <2>3. Aligned(reg'.rdi)
    <3>1. PICK w \in Nat \ {0}, b \in Nat : w = WordBytes /\ b = reg.rbx
      BY <2>2, WeightFacts
    <3>2. Aligned(b + 1 * w) /\ 1 * w = w
      BY <2>2, <3>1, AlignedSum
    <3>3. QED
      BY <2>1, <3>1, <3>2
  <2>4. reg' \in Registers
    BY <1>8, MachineInvKept DEF Next, MachineInv, TypeOK
  <2>5. QED
    BY <1>2, <1>3, <2>1, <2>3, <2>4, AlignedCall
<1>9. CASE PopAndReturn
  <2>1. Levels > 0 /\ reg' \in Registers /\ CalleeSaved(reg') = callers[Levels]
    BY <1>9, PopIsReturn
  <2>2. PICK s \in Seq(Cells) : /\ Len(s) = 4 * Levels - 3 /\ Len(stack) >= Len(s)
                                /\ \A x \in 1 .. Len(s) : s[x] = stack[x]
                                /\ Return(s)
    BY <1>9, PopIsReturn
  <2>3. /\ Levels' = Levels - 1
        /\ \A k \in 1 .. Levels' : /\ stack'[4 * k - 3] = stack[4 * k - 3]
                                   /\ callers'[k] = callers[k]
        /\ pc' = stack[4 * Levels - 3]
        /\ pc' \in IF Levels = 1 THEN {"halt"} ELSE {"second", "LN1"}
    BY <1>3, <2>1, <2>2, ReturnStep
  <2>4. ASSUME NEW k \in 2 .. (Levels - 1), stack'[4 * k - 3] = "second"
        PROVE  Aligned(callers'[k][3])
    <3>1. k \in 1 .. Levels' /\ k \in 2 .. Levels
      BY <1>3, <2>3
    <3>2. QED
      BY <1>4, <2>3, <2>4, <3>1
  <2>5. ASSUME pc' = "second" PROVE Aligned(reg'.rbx)
    <3>1. Levels \in 2 .. Levels /\ stack[4 * Levels - 3] = "second"
      BY <1>3, <2>1, <2>3, <2>5
    <3>2. Aligned(callers[Levels][3])
      BY <1>4, <3>1
    <3>3. callers[Levels][3] = reg'.rbx
      BY <2>1 DEF CalleeSaved
    <3>4. QED
      BY <3>2, <3>3
  <2>6. pc' \in {"halt", "second", "LN1"}
    BY <2>3
  <2>7. QED
    BY <2>3, <2>4, <2>5, <2>6 DEF AlignedInv, Aligned
<1>10. QED
  BY <1>1, <1>2, <1>5, <1>6, <1>7, <1>8, <1>9 DEF Next

-----------------------------------------------------------------------------
(* The second calls to come, in the order of the calls that will make them. *)

Rank(F, k) == Cardinality({l \in F : l <= k})
Nth(F, n) == CHOOSE k \in F : Rank(F, k) = n

\* A frame on top of others.
OnTop(L, F, G) == F \subseteq 1 .. L /\ G = F \union {L + 1}

LEMMA RankWithLast ==
  ASSUME NEW L \in Nat, NEW F, NEW G, OnTop(L, F, G)
  PROVE  /\ IsFiniteSet(F) /\ Cardinality(F) \in Nat /\ Cardinality(G) = Cardinality(F) + 1
         /\ \A k \in F : Rank(G, k) = Rank(F, k) /\ Rank(F, k) <= Cardinality(F)
         /\ Rank(G, L + 1) = Cardinality(G)
<1>0. G = F \union {L + 1} /\ F \subseteq 1 .. L
  BY DEF OnTop
<1>1. IsFiniteSet(1 .. L)
  BY FS_Interval
<1>2. IsFiniteSet(F)
  BY <1>0, <1>1, FS_Subset
<1>3. Cardinality(F) \in Nat
  BY <1>2, FS_CardinalityType
<1>4. L + 1 \notin F
  BY <1>0
<1>5. Cardinality(G) = Cardinality(F) + 1
  BY <1>0, <1>2, <1>4, FS_AddElement
<1>6. ASSUME NEW k \in F
      PROVE  Rank(G, k) = Rank(F, k) /\ Rank(F, k) <= Cardinality(F)
  <2>1. k \in 1 .. L /\ ~ (L + 1 <= k)
    BY <1>0
  <2>2. {l \in G : l <= k} = {l \in F : l <= k}
    BY <1>0, <2>1
  <2>3. {l \in F : l <= k} \in SUBSET F
    OBVIOUS
  <2>4. Cardinality({l \in F : l <= k}) <= Cardinality(F)
    BY <1>2, <2>3, FS_Subset
  <2>5. QED
    BY <2>2, <2>4 DEF Rank
<1>7. {l \in G : l <= L + 1} = G
  <2>1. \A l \in G : l <= L + 1
    BY <1>0
  <2>2. QED
    BY <2>1
<1>8. QED
  BY <1>2, <1>3, <1>5, <1>6, <1>7 DEF Rank

LEMMA NthAgrees ==
  ASSUME NEW F, NEW G, NEW n,
         \A k : (k \in F /\ Rank(F, k) = n) <=> (k \in G /\ Rank(G, k) = n)
  PROVE  Nth(F, n) = Nth(G, n)
BY Zenon DEF Nth

LEMMA NthWithLast ==
  ASSUME NEW L \in Nat, NEW F, NEW G, OnTop(L, F, G)
  PROVE  /\ \A n \in 1 .. Cardinality(F) : Nth(G, n) = Nth(F, n)
         /\ Nth(G, Cardinality(G)) = L + 1
<1>1. /\ Cardinality(F) \in Nat /\ Cardinality(G) = Cardinality(F) + 1
      /\ \A k \in F : Rank(G, k) = Rank(F, k) /\ Rank(F, k) <= Cardinality(F)
      /\ Rank(G, L + 1) = Cardinality(G)
  BY RankWithLast
<1>2. ASSUME NEW n \in 1 .. Cardinality(F) PROVE Nth(G, n) = Nth(F, n)
  <2>1. Rank(G, L + 1) # n
    BY <1>1
  <2>2. \A k : (k \in F /\ Rank(F, k) = n) <=> (k \in G /\ Rank(G, k) = n)
    BY <1>1, <2>1 DEF OnTop
  <2>3. QED
    BY <2>2, NthAgrees
<1>3. \A k : (k \in G /\ Rank(G, k) = Cardinality(G)) <=> k = L + 1
  <2>1. ASSUME NEW k \in F PROVE Rank(G, k) # Cardinality(G)
    BY <1>1
  <2>2. QED
    BY <1>1, <2>1 DEF OnTop
<1>4. Nth(G, Cardinality(G)) = L + 1
  BY <1>3, Zenon DEF Nth
<1>5. QED
  BY <1>2, <1>4

LEMMA NthExists ==
  ASSUME NEW L \in Nat, NEW F \in SUBSET (1 .. L), NEW n \in 1 .. Cardinality(F)
  PROVE  Nth(F, n) \in F
<1> DEFINE Ranked(S, i) == \E k \in S : Rank(S, k) = i
           Bad == {x \in Nat : \E H \in SUBSET (1 .. x) : \E m \in 1 .. Cardinality(H) :
                                  ~ Ranked(H, m)}
<1>1. ASSUME Bad # {} PROVE FALSE
  <2>1. PICK x \in Bad : \A y \in Bad : x <= y
    BY <1>1, LeastElement
  <2>0. PICK H \in SUBSET (1 .. x) : \E m \in 1 .. Cardinality(H) : ~ Ranked(H, m)
    BY <2>1
  <2>2. PICK m \in 1 .. Cardinality(H) : ~ Ranked(H, m)
    BY <2>0
  <2>3. x # 0
    <3>1. SUFFICES ASSUME x = 0 PROVE FALSE
      OBVIOUS
    <3>2. H = {}
      BY <2>2, <3>1
    <3>3. Cardinality(H) = 0
      BY <3>2, FS_EmptySet
    <3>4. QED
      BY <2>2, <3>3
  <2>4. PICK y \in Nat : x = y + 1
    <3>1. x \in Nat /\ x - 1 \in Nat /\ x = (x - 1) + 1
      BY <2>1, <2>3
    <3>2. QED
      BY <3>1
  <2>5. y \notin Bad
    BY <2>1, <2>4
  <2> HIDE DEF Ranked
  <2>6. \A K \in SUBSET (1 .. y) : \A i \in 1 .. Cardinality(K) : Ranked(K, i)
    BY <2>5
  <2>7. CASE x \in H
    <3>1. PICK K \in SUBSET (1 .. y) : H = K \union {y + 1}
      <4>1. H \ {x} \in SUBSET (1 .. y) /\ H = (H \ {x}) \union {y + 1}
        BY <2>4, <2>7
      <4>2. QED
        BY <4>1
    <3>0. OnTop(y, K, H)
      BY <3>1 DEF OnTop
    <3>2. /\ Cardinality(K) \in Nat /\ Cardinality(H) = Cardinality(K) + 1
          /\ \A k \in K : Rank(H, k) = Rank(K, k)
          /\ Rank(H, y + 1) = Cardinality(H)
      BY <3>0, RankWithLast
    <3>3. CASE m = Cardinality(H)
      BY <2>2, <3>1, <3>2, <3>3 DEF Ranked
    <3>4. CASE m # Cardinality(H)
      <4>1. m \in 1 .. Cardinality(K)
        BY <2>2, <3>2, <3>4
      <4>2. PICK k \in K : Rank(K, k) = m
        BY <2>6, <4>1 DEF Ranked
      <4>3. QED
        BY <2>2, <3>1, <3>2, <4>2 DEF Ranked
    <3>5. QED
      BY <3>3, <3>4
  <2>8. CASE x \notin H
    <3>1. H \in SUBSET (1 .. y)
      BY <2>4, <2>8
    <3>2. QED
      BY <2>2, <2>6, <3>1
  <2>9. QED
    BY <2>7, <2>8
<1>2. \E k \in F : Rank(F, k) = n
  BY <1>1
<1>3. QED
  BY <1>2, Zenon DEF Nth


\* The pending calls of the frames in F, given what the callers have saved.
Frames(F, cs) == [n \in 1 .. Cardinality(F) |-> PendingOf(cs[Nth(F, n)])]

LEMMA FramesOnTop ==
  ASSUME NEW L \in Nat, NEW F, NEW G, OnTop(L, F, G), NEW cs, NEW ds,
         \A k \in F : ds[k] = cs[k]
  PROVE  Frames(G, ds) = Append(Frames(F, cs), PendingOf(ds[L + 1]))
<1>1. PICK c \in Nat : c = Cardinality(F) /\ Cardinality(G) = c + 1
  BY RankWithLast
<1> DEFINE P(n) == PendingOf(cs[Nth(F, n)])
           T == {P(n) : n \in 1 .. c} \union {PendingOf(ds[L + 1])}
           f == Frames(F, cs)
<1>2. F \in SUBSET (1 .. L)
  BY DEF OnTop
<1>3. f \in [1 .. c -> T] /\ \A n \in 1 .. c : f[n] = PendingOf(cs[Nth(F, n)])
  BY <1>1 DEF Frames
<1>4. \A n \in 1 .. c : PendingOf(ds[Nth(G, n)]) = PendingOf(cs[Nth(F, n)])
  <2>1. ASSUME NEW n \in 1 .. c PROVE PendingOf(ds[Nth(G, n)]) = PendingOf(cs[Nth(F, n)])
    <3>1. Nth(F, n) \in F
      BY <1>1, <1>2, NthExists
    <3>2. Nth(G, n) = Nth(F, n)
      BY <1>1, NthWithLast
    <3>3. QED
      BY <3>1, <3>2
  <2>2. QED
    BY <2>1
<1>5. Nth(G, c + 1) = L + 1
  BY <1>1, NthWithLast
<1>6. f \in Seq(T) /\ Len(f) = c
  BY <1>3
<1> DEFINE g == Frames(G, ds)
<1>7. /\ DOMAIN g = 1 .. (c + 1) /\ g = [n \in DOMAIN g |-> g[n]]
      /\ \A n \in 1 .. (c + 1) : g[n] = PendingOf(ds[Nth(G, n)])
  BY <1>1 DEF Frames
<1>8. PendingOf(ds[L + 1]) \in T
  OBVIOUS
<1> HIDE DEF f, g, T
<1>9. /\ Append(f, PendingOf(ds[L + 1])) \in Seq(T)
      /\ Len(Append(f, PendingOf(ds[L + 1]))) = c + 1
      /\ \A n \in 1 .. c : Append(f, PendingOf(ds[L + 1]))[n] = f[n]
      /\ Append(f, PendingOf(ds[L + 1]))[c + 1] = PendingOf(ds[L + 1])
  BY <1>6, <1>8, AppendProperties
<1>10. \A n \in 1 .. (c + 1) : g[n] = Append(f, PendingOf(ds[L + 1]))[n]
  <2>1. ASSUME NEW n \in 1 .. (c + 1) PROVE g[n] = Append(f, PendingOf(ds[L + 1]))[n]
    <3>1. CASE n = c + 1
      BY <1>5, <1>7, <1>9, <3>1
    <3>2. CASE n \in 1 .. c
      BY <1>3, <1>4, <1>7, <1>9, <3>2 DEF f
    <3>3. n = c + 1 \/ n \in 1 .. c
      BY <1>1
    <3>4. QED
      BY <3>1, <3>2, <3>3
  <2>2. QED
    BY <2>1
<1>11. g = Append(f, PendingOf(ds[L + 1]))
  BY <1>7, <1>9, <1>10
<1>12. QED
  BY <1>11 DEF f, g

\* As long as the frames and what is in them stay, so do the pending calls.
LEMMA FramesAgree ==
  ASSUME NEW L \in Nat, NEW F, F \subseteq 1 .. L, NEW cs, NEW ds,
         \A k \in F : ds[k] = cs[k]
  PROVE  Frames(F, ds) = Frames(F, cs)
<1>1. F \in SUBSET (1 .. L)
  OBVIOUS
<1>2. \A n \in 1 .. Cardinality(F) : Nth(F, n) \in F
  BY <1>1, NthExists
<1>3. QED
  BY <1>2 DEF Frames

\* The frames of the machine.
LEMMA PendingIsFrames ==
  ASSUME TypeOK
  PROVE  /\ FirstCalls \subseteq 1 .. Levels
         /\ pc # "second" => Pending = Frames(FirstCalls, callers)
         /\ pc = "second" =>
               Pending = Append(Frames(FirstCalls, callers), PendingOf(CalleeSaved(reg)))
<1>1. FirstCalls \subseteq 1 .. Levels
  BY DEF FirstCalls, Levels
<1>2. Levels \in Nat
  BY LevelsInNat
<1>3. PICK c \in Nat : c = Cardinality(FirstCalls)
  <2>1. IsFiniteSet(1 .. Levels)
    BY <1>2, FS_Interval
  <2>2. QED
    BY <1>1, <2>1, FS_Subset, FS_CardinalityType
<1> DEFINE f == Frames(FirstCalls, callers)
           P(n) == PendingOf(callers[Nth(FirstCalls, n)])
           T == {P(n) : n \in 1 .. c} \union {PendingOf(CalleeSaved(reg))}
<1>4. f \in [1 .. c -> T]
  BY <1>3 DEF Frames
<1>5. f \in Seq(T)
  BY <1>4
<1>6. Pending = f \o (IF pc = "second" THEN <<PendingOf(CalleeSaved(reg))>> ELSE << >>)
  BY Zenon DEF Pending, Frames, Nth, Rank, Caller
<1> HIDE DEF f
<1>7. f \o << >> = f
  BY <1>5, ConcatEmptySeq
<1>8. f \o <<PendingOf(CalleeSaved(reg))>> = Append(f, PendingOf(CalleeSaved(reg)))
  <2>1. PendingOf(CalleeSaved(reg)) \in T
    OBVIOUS
  <2> HIDE DEF T
  <2>2. QED
    BY <1>5, <2>1, AppendIsConcat
<1>9. QED
  BY <1>1, <1>6, <1>7, <1>8 DEF f


-----------------------------------------------------------------------------
(* The elements of the array. *)

LEMMA ArrayWordsTyped ==
  ASSUME MachineInv
  PROVE  /\ Size \in Nat /\ ArrayWords \in [0 .. (Size - 1) -> Int]
         /\ \A k \in 0 .. (Size - 1) : ArrayWords[k] = Word(mem, k * WordBytes)
<1>1. PICK w \in Nat \ {0}, n \in Nat : w = WordBytes /\ n = Size
  BY WeightFacts DEF MachineInv, TypeOK
<1>2. ASSUME NEW k \in 0 .. (n - 1) PROVE Word(mem, k * w) \in Int
  <2>1. PICK m \in Nat, a \in Nat : m = (n + 1) * w /\ a = k * w /\ a + w <= m
    <3>1. PICK c \in Nat : n = k + 1 + c
      <4>1. n - (k + 1) \in Nat /\ n = k + 1 + (n - (k + 1))
        OBVIOUS
      <4>2. QED
        BY <4>1
    <3>2. (n + 1) * w = k * w + w + c * w + w
      BY <3>1
    <3>3. k * w \in Nat /\ c * w \in Nat /\ (n + 1) * w \in Nat
      BY <3>1
    <3>4. QED
      BY <3>2, <3>3
  <2>2. mem \in [0 .. (m - 1) -> Digits]
    BY <1>1, <2>1 DEF MachineInv, TypeOK
  <2>3. QED
    BY <1>1, <2>1, <2>2, WordTyped
<1>3. QED
  BY <1>1, <1>2 DEF ArrayWords

\* An exchange of whole elements.
LEMMA ExchangeOfElements ==
  ASSUME MachineInv, array' = array, NEW i \in Nat, NEW j \in Nat, i < Size, j < Size,
         mem' = WordsSwapped(mem, j * WordBytes, i * WordBytes)
  PROVE  ArrayWords' = Sort!Swapped(ArrayWords, i, j)
<1>1. PICK n \in Nat, w \in Nat \ {0} : n = Size /\ w = WordBytes
  BY ArrayWordsTyped, WeightFacts
<1>2. Size' = Size
  BY DEF Size
<1>3. i \in Nat /\ j \in Nat /\ i < n /\ j < n
  BY <1>1
<1>4. PICK a \in Nat, b \in Nat : a = i * w /\ b = j * w
  BY <1>3
<1>14. PICK d \in Nat : d = 0
  OBVIOUS
<1>5. ASSUME NEW k \in Nat, k < n, NEW c \in Nat, c = k * w
      PROVE  WordOfRange(w, d, n, k, c)
  BY <1>1, <1>5, <1>14 DEF WordOfRange
<1>6. WordOfRange(w, d, n, i, a) /\ WordOfRange(w, d, n, j, b)
  BY <1>3, <1>4, <1>5
<1>7. mem' = WordsSwapped(mem, b, a)
  BY <1>1, <1>4
<1>8. /\ TwoWords((Size + 1) * WordBytes, b, a)
      /\ Word(WordsSwapped(mem, b, a), b) = Word(mem, a)
      /\ Word(WordsSwapped(mem, b, a), a) = Word(mem, b)
  BY <1>6, SwapInRange
<1>9. \A k \in 0 .. (n - 1) : ArrayWords'[k] = Word(mem', k * w)
  BY <1>1, <1>2 DEF ArrayWords
<1>10. ArrayWords'[i] = ArrayWords[j] /\ ArrayWords'[j] = ArrayWords[i]
  <2>1. ArrayWords'[i] = Word(mem', a) /\ ArrayWords'[j] = Word(mem', b)
    BY <1>3, <1>4, <1>9
  <2>2. ArrayWords[i] = Word(mem, a) /\ ArrayWords[j] = Word(mem, b)
    BY <1>1, <1>3, <1>4, ArrayWordsTyped
  <2>3. QED
    BY <1>7, <1>8, <2>1, <2>2
<1>11. ASSUME NEW k \in Nat, k < n, k # i, k # j
       PROVE  ArrayWords'[k] = ArrayWords[k]
  <2>1. PICK c \in Nat : c = k * w
    OBVIOUS
  <2>2. WordOfRange(w, d, n, k, c)
    BY <1>5, <1>11, <2>1
  <2>3. Apart(a, c) /\ Apart(b, c)
    BY <1>6, <1>11, <2>2, RangeApart
  <2>4. c + WordBytes <= Size * WordBytes
    BY <2>2, SwapInRange
  <2>5. Word(WordsSwapped(mem, b, a), c) = Word(mem, c)
    BY <1>8, <2>3, <2>4, OtherInRange
  <2>6. ArrayWords'[k] = Word(mem', c) /\ ArrayWords[k] = Word(mem, c)
    BY <1>1, <1>9, <1>11, <2>1, ArrayWordsTyped
  <2>7. QED
    BY <1>7, <2>5, <2>6
<1>12. ArrayWords \in [0 .. (n - 1) -> Int] /\ DOMAIN ArrayWords' = 0 .. (n - 1)
       /\ ArrayWords' = [k \in 0 .. (n - 1) |-> ArrayWords'[k]]
  BY <1>1, <1>2, ArrayWordsTyped DEF ArrayWords
<1>13. QED
  BY <1>1, <1>10, <1>11, <1>12 DEF Sort!Swapped

\* A sum of multiples of the size of a word.
LEMMA Multiples ==
  ASSUME NEW w \in Nat \ {0}, NEW s \in Nat, NEW i \in Nat
  PROVE  /\ (s * w) \div w = s
         /\ s * w + i * w = (s + i) * w
         /\ (s * w + i * w) \div w = s + i
<1>1. \A k \in Nat : (k * w) \div w = k
  <2>1. ASSUME NEW k \in Nat PROVE (k * w) \div w = k
    <3>1. (k * w + 0) \div w = k
      BY PlaceInArray
    <3>2. k * w + 0 = k * w
      OBVIOUS
    <3>3. QED
      BY <3>1, <3>2
  <2>2. QED
    BY <2>1
<1>2. s * w + i * w = (s + i) * w
  OBVIOUS
<1>3. QED
  BY <1>1, <1>2


-----------------------------------------------------------------------------
(* The steps of sort.c that those of sort.ys are. *)

\* The loop in elements: the range begins at the s-th.
LEMMA LoopElements ==
  ASSUME MachineInv, AlignedInv, version = "sort", pc \in {"LN5", "LN3"},
         NEW w \in Nat \ {0}, NEW d \in Nat, NEW n \in Nat, NEW l \in Nat, NEW i \in Nat,
         NEW j \in Nat, NEW v \in Int, LoopNumbers(w, d, n, l, i, j, v)
  PROVE  \E s \in Nat : /\ d = s * w /\ s + n <= Size
                        /\ CallNow = [start |-> s, len |-> n, i |-> s + i, j |-> s + j,
                                      pivot |-> v]
<1>1. /\ w = WordBytes /\ d = reg.rdi /\ n = reg.rbp /\ v = reg.r8
      /\ reg.rbx = d + i * w /\ reg.rax = d + j * w /\ d + n * w <= Size * w
  BY DEF LoopNumbers
<1>2. PICK s \in Nat : d = s * w
  BY <1>1 DEF AlignedInv, Aligned
<1>3. d \div w = s /\ (d + i * w) \div w = s + i /\ (d + j * w) \div w = s + j
  BY <1>2, Multiples
<1>4. CallNow = [start |-> s, len |-> n, i |-> s + i, j |-> s + j, pivot |-> v]
  BY <1>1, <1>3 DEF CallNow
<1>5. s + n <= Size
  <2>1. PICK t \in Nat, e \in Nat : t = Size /\ e = s + n
    BY ArrayWordsTyped
  <2>2. e * w <= t * w
    BY <1>1, <1>2, <2>1, Multiples
  <2>3. ~ (t < e)
    <3>1. SUFFICES ASSUME t < e PROVE FALSE
      OBVIOUS
    <3>2. 0 + t * w + w <= 0 + e * w
      BY <3>1, RowOrder
    <3>3. t * w \in Nat /\ e * w \in Nat
      OBVIOUS
    <3>4. QED
      BY <2>2, <3>2, <3>3
  <2>4. QED
    BY <2>1, <2>3
<1>6. QED
  BY <1>2, <1>4, <1>5

\* A step that makes no calls and does not return leaves the pending calls.
LEMMA PendingStays ==
  ASSUME TypeOK, TypeOK', pc # "second", pc' # "second", callers' = callers,
         \A k \in 1 .. Levels : stack'[4 * k - 3] = stack[4 * k - 3]
  PROVE  Pending' = Pending
<1>1. FirstCalls' = FirstCalls
  BY DEF FirstCalls, Levels
<1>2. Pending = Frames(FirstCalls, callers)
  BY PendingIsFrames
<1>3. (TypeOK /\ pc # "second" => Pending = Frames(FirstCalls, callers))'
  BY PendingIsFrames, PTL
<1>4. Pending' = Frames(FirstCalls', callers')
  BY <1>3
<1>5. QED
  BY <1>1, <1>2, <1>4

LEMMA PushedPending ==
  ASSUME MachineInv, MachineInv', pc = "quickSort", stack' = Pushed(stack, reg),
         callers' = callers, pc' \in {"LN1", "LN5"}
  PROVE  Pending' = Pending
<1>1. TypeOK /\ StackOK /\ TypeOK' /\ pc' \in InCallee
  BY DEF MachineInv, InCallee
<1>2. \A k \in 1 .. Levels : stack'[4 * k - 3] = stack[4 * k - 3]
  BY <1>1, PushStep
<1>3. QED
  BY <1>1, <1>2, PendingStays


LEMMA StepReturnAtOnce ==
  ASSUME MachineInv, MachineInv', version = "sort", ReturnAtOnce
  PROVE  Sort!ReturnAtOnce
<1>1. /\ pc = "quickSort" /\ reg.rsi <= 1 /\ stack' = Pushed(stack, reg) /\ pc' = "LN1"
      /\ UNCHANGED <<callers, array, mem>>
  BY DEF ReturnAtOnce, Small
<1>2. Pending' = Pending
  BY <1>1, PushedPending
<1>3. ArrayWords' = ArrayWords
  BY <1>1 DEF ArrayWords, Size
<1>4. Phase = "enter" /\ Phase' = "return"
  BY <1>1 DEF Phase
<1>5. CallNow.len <= 1 /\ CallNow' = Sort!NoCall
  BY <1>1 DEF CallNow, Sort!NoCall
<1>6. QED
  BY <1>2, <1>3, <1>4, <1>5 DEF Sort!ReturnAtOnce

LEMMA StepBegin ==
  ASSUME MachineInv, AlignedInv, MachineInv', version = "sort", Begin
  PROVE  Sort!Begin
<1>1. /\ pc = "quickSort" /\ ~ Small(reg) /\ stack' = Pushed(stack, reg) /\ pc' = "LN5"
      /\ UNCHANGED <<callers, array, mem>> /\ reg \in Registers /\ CallFits
  BY DEF Begin, MachineInv, TypeOK
<1>2. Pending' = Pending
  BY <1>1, PushedPending
<1>3. ArrayWords' = ArrayWords
  BY <1>1 DEF ArrayWords, Size
<1>4. Phase = "enter" /\ Phase' = "scan"
  BY <1>1 DEF Phase
<1>5. PICK w \in Nat \ {0}, s \in Nat, n \in Nat, t \in Nat :
         /\ w = WordBytes /\ reg.rdi = s * w /\ n = reg.rsi /\ n >= 2 /\ t = Size
         /\ s * w + n * w <= t * w
  <2>1. Aligned(reg.rdi)
    BY <1>1 DEF AlignedInv
  <2>2. reg.rsi \in Nat /\ reg.rsi >= 2
    BY <1>1 DEF CallFits, Registers, Small
  <2>3. reg.rdi + reg.rsi * WordBytes <= Size * WordBytes
    BY <1>1 DEF CallFits
  <2>4. QED
    BY <2>1, <2>2, <2>3, WeightFacts, ArrayWordsTyped DEF Aligned
<1>6. PICK h \in Nat : h = s + n - 1 /\ h < t
  <2>1. PICK e \in Nat : e = s + n
    OBVIOUS
  <2>2. e * w <= t * w
    BY <1>5, <2>1, Multiples
  <2>3. ~ (t < e)
    <3>1. SUFFICES ASSUME t < e PROVE FALSE
      OBVIOUS
    <3>2. 0 + t * w + w <= 0 + e * w
      BY <3>1, RowOrder
    <3>3. t * w \in Nat /\ e * w \in Nat
      OBVIOUS
    <3>4. QED
      BY <2>2, <3>2, <3>3
  <2>4. QED
    BY <1>5, <2>1, <2>3
<1>7. reg.rsi * WordBytes - WordBytes + reg.rdi = h * WordBytes
  <2>1. n * w - w + s * w = (s + n - 1) * w
    OBVIOUS
  <2>2. QED
    BY <1>5, <1>6, <2>1
<1>8. PICK v : v = Word(mem, h * WordBytes) /\ v = ArrayWords[h]
  <2>1. h \in 0 .. (Size - 1)
    BY <1>5, <1>6
  <2>2. ArrayWords[h] = Word(mem, h * WordBytes)
    BY <2>1, ArrayWordsTyped
  <2>3. QED
    BY <2>2
<1>9. reg' = [reg EXCEPT !.rbp = n, !.rcx = h * WordBytes, !.r8 = v, !.rax = reg.rdi,
                         !.rbx = reg.rdi]
  BY <1>5, <1>7, <1>8 DEF Begin
<1>10. reg'.rdi = s * w /\ reg'.rbp = n /\ reg'.rbx = s * w /\ reg'.rax = s * w /\ reg'.r8 = v
  BY <1>1, <1>5, <1>9 DEF Registers
<1>11. (s * w) \div w = s
  BY Multiples
<1>12. CallNow = [start |-> s, len |-> n]
  BY <1>1, <1>5, <1>11 DEF CallNow
<1>13. CallNow' = [start |-> s, len |-> n, i |-> s, j |-> s, pivot |-> v]
  BY <1>1, <1>5, <1>10, <1>11 DEF CallNow
<1>14. Sort!high = h
  BY <1>6, <1>12 DEF Sort!high
<1>15. CallNow.len > 1 /\ CallNow.start = s /\ CallNow.len = n
  BY <1>5, <1>12
<1>16. QED
  BY <1>2, <1>3, <1>4, <1>8, <1>13, <1>14, <1>15 DEF Sort!Begin

LEMMA StepLoop ==
  ASSUME MachineInv, AlignedInv, MachineInv', version = "sort", Loop
  PROVE  Sort!Scan
<1>1. /\ pc = "LN5" /\ UNCHANGED <<array, stack, callers>> /\ reg \in Registers
      /\ pc' \in {"LN5", "LN3"} /\ TypeOK /\ TypeOK'
  BY DEF Loop, MachineInv, TypeOK
<1>2. Pending' = Pending
  BY <1>1, PendingStays
<1>3. Phase = "scan" /\ Phase' = "scan"
  BY <1>1 DEF Phase
<1>4. PICK w \in Nat \ {0}, d \in Nat, n \in Nat, l \in Nat, i \in Nat, j \in Nat, v \in Int :
         LoopNumbers(w, d, n, l, i, j, v)
  BY <1>1, LoopHasNumbers
<1>5. /\ w = WordBytes /\ d = reg.rdi /\ n = reg.rbp /\ v = reg.r8
      /\ reg.rbx = d + i * w /\ reg.rax = d + j * w /\ i <= j /\ j < n - 1
  BY <1>1, <1>4 DEF LoopNumbers
<1>6. PICK s \in Nat : /\ d = s * w /\ s + n <= Size
                       /\ CallNow = [start |-> s, len |-> n, i |-> s + i, j |-> s + j,
                                     pivot |-> v]
  BY <1>1, <1>4, LoopElements
<1>7. PICK x \in Nat, y \in Nat : x = s + i /\ y = s + j /\ x < Size /\ y < Size
  <2>1. PICK t \in Nat : t = Size
    BY ArrayWordsTyped
  <2>2. s + n <= t
    BY <1>6, <2>1
  <2>3. s + i < t /\ s + j < t
    BY <1>5, <2>2
  <2>4. QED
    BY <2>1, <2>3
<1>8. reg.rbx = x * w /\ reg.rax = y * w
  BY <1>5, <1>6, <1>7, Multiples
<1>9. (x * w) \div w = x /\ (y * w) \div w = y /\ (d \div w) = s
  BY <1>6, Multiples
<1>10. (x * w + w) \div w = x + 1 /\ (y * w + w) \div w = y + 1
  <2>1. \A k \in Nat : (k * w + 1 * w) \div w = k + 1
    BY Multiples
  <2>2. 1 * w = w
    OBVIOUS
  <2>3. QED
    BY <2>1, <2>2
<1>11. ArrayWords[y] = Word(mem, reg.rax)
  BY <1>5, <1>7, <1>8, ArrayWordsTyped
<1>12. /\ CallNow.j = y /\ CallNow.i = x /\ CallNow.pivot = v /\ Sort!high = s + n - 1
       /\ CallNow.j < Sort!high
  BY <1>5, <1>6, <1>7 DEF Sort!high
<1>13. CASE /\ BelongsLeft(reg)
            /\ mem' = WordsSwapped(mem, reg.rax, reg.rbx)
            /\ reg' = [reg EXCEPT !.rsi = Word(mem, reg.rbx), !.rbx = @ + WordBytes,
                                  !.rax = @ + WordBytes]
  <2>1. /\ reg'.rdi = d /\ reg'.rbp = n /\ reg'.r8 = v
        /\ reg'.rbx = x * w + w /\ reg'.rax = y * w + w
    BY <1>1, <1>5, <1>8, <1>13 DEF Registers
  <2>2. CallNow' = [start |-> s, len |-> n, i |-> x + 1, j |-> y + 1, pivot |-> v]
    BY <1>1, <1>5, <1>9, <1>10, <2>1 DEF CallNow
  <2>3. CallNow' = [CallNow EXCEPT !.i = @ + 1, !.j = @ + 1]
    <3>1. CallNow = [start |-> s, len |-> n, i |-> x, j |-> y, pivot |-> v]
      BY <1>6, <1>7
    <3>2. [CallNow EXCEPT !.i = @ + 1, !.j = @ + 1]
            = [start |-> s, len |-> n, i |-> x + 1, j |-> y + 1, pivot |-> v]
      <4>1. PICK p, q, c : p = x + 1 /\ q = y + 1 /\ c = CallNow
        OBVIOUS
      <4>2. c = [start |-> s, len |-> n, i |-> x, j |-> y, pivot |-> v]
        BY <3>1, <4>1
      <4>3. [c EXCEPT !.i = p, !.j = q]
              = [start |-> s, len |-> n, i |-> p, j |-> q, pivot |-> v]
        <5>1. [c EXCEPT !.i = p, !.j = q] = [[c EXCEPT !.i = p] EXCEPT !.j = q]
          BY <4>2
        <5>2. [c EXCEPT !.i = p] = [start |-> s, len |-> n, i |-> p, j |-> y, pivot |-> v]
          BY <4>2
        <5>3. [[start |-> s, len |-> n, i |-> p, j |-> y, pivot |-> v] EXCEPT !.j = q]
                = [start |-> s, len |-> n, i |-> p, j |-> q, pivot |-> v]
          OBVIOUS
        <5>4. QED
          BY <5>1, <5>2, <5>3
      <4>4. CallNow.i = x /\ CallNow.j = y
        BY <3>1
      <4>5. QED
        BY <4>1, <4>3, <4>4
    <3>3. QED
      BY <2>2, <3>2
  <2>4. mem' = WordsSwapped(mem, y * WordBytes, x * WordBytes)
    BY <1>5, <1>8, <1>13
  <2>5. ArrayWords' = Sort!Swapped(ArrayWords, x, y)
    BY <1>1, <1>7, <2>4, ExchangeOfElements
  <2>6. ArrayWords[CallNow.j] <= CallNow.pivot
    BY <1>5, <1>11, <1>12, <1>13 DEF BelongsLeft
  <2>7. QED
    BY <1>2, <1>3, <1>12, <2>3, <2>5, <2>6 DEF Sort!Scan
<1>14. CASE ~ BelongsLeft(reg) /\ mem' = mem /\ reg' = [reg EXCEPT !.rax = @ + WordBytes]
  <2>1. /\ reg'.rdi = d /\ reg'.rbp = n /\ reg'.r8 = v
        /\ reg'.rbx = x * w /\ reg'.rax = y * w + w
    BY <1>1, <1>5, <1>8, <1>14 DEF Registers
  <2>2. CallNow' = [start |-> s, len |-> n, i |-> x, j |-> y + 1, pivot |-> v]
    BY <1>1, <1>5, <1>9, <1>10, <2>1 DEF CallNow
  <2>3. CallNow' = [CallNow EXCEPT !.j = @ + 1]
    BY <1>6, <1>7, <2>2
  <2>4. ArrayWords' = ArrayWords
    BY <1>1, <1>14 DEF ArrayWords, Size
  <2>5. ArrayWords[y] \in Int
    BY <1>7, ArrayWordsTyped
  <2>6. ArrayWords[CallNow.j] > CallNow.pivot
    BY <1>5, <1>11, <1>12, <1>14, <2>5 DEF BelongsLeft
  <2>7. QED
    BY <1>2, <1>3, <1>12, <2>3, <2>4, <2>6 DEF Sort!Scan
<1>15. QED
  BY <1>13, <1>14 DEF Loop


\* Calls push the caller's frame.
LEMMA CallFrames ==
  ASSUME MachineInv, MachineInv', pc \in InCallee, reg' \in Registers,
         NEW back \in {"second", "LN1"}, stack' = Append(stack, back),
         callers' = Append(callers, CalleeSaved(reg')), pc' = "quickSort"
  PROVE  Pending' = IF back = "second"
                    THEN Append(Frames(FirstCalls, callers), PendingOf(CalleeSaved(reg')))
                    ELSE Frames(FirstCalls, callers)
<1>1. TypeOK /\ StackOK /\ TypeOK' /\ FirstCalls \subseteq 1 .. Levels
  BY PendingIsFrames DEF MachineInv
<1>2. PICK L \in Nat : L = Levels
  BY <1>1, LevelsInNat
<1>3. /\ Levels' = L + 1
      /\ \A k \in 1 .. L : stack'[4 * k - 3] = stack[4 * k - 3] /\ callers'[k] = callers[k]
      /\ stack'[4 * (L + 1) - 3] = back
      /\ callers'[L + 1] = CalleeSaved(reg')
  BY <1>1, <1>2, CallStep
<1>4. Pending' = Frames(FirstCalls', callers')
  <2>1. (TypeOK /\ pc # "second" => Pending = Frames(FirstCalls, callers))'
    BY PendingIsFrames, PTL
  <2>2. QED
    BY <1>1, <2>1
<1>5. FirstCalls = {k \in 1 .. L : stack[4 * k - 3] = "second"}
  BY <1>2 DEF FirstCalls, Levels
<1>6. FirstCalls' = {k \in 1 .. (L + 1) : stack'[4 * k - 3] = "second"}
  BY <1>3 DEF FirstCalls, Levels
<1>7. ASSUME NEW k \in 1 .. (L + 1)
      PROVE  k \in FirstCalls' <=> k \in FirstCalls \/ (k = L + 1 /\ back = "second")
  <2>1. CASE k = L + 1
    <3>1. k \in FirstCalls' <=> back = "second"
      BY <1>3, <1>6, <2>1
    <3>2. k \notin FirstCalls
      BY <1>5, <2>1
    <3>3. QED
      BY <2>1, <3>1, <3>2
  <2>2. CASE k \in 1 .. L
    <3>0. k # L + 1
      BY <2>2
    <3>1. stack'[4 * k - 3] = stack[4 * k - 3]
      <4>1. \A x \in 1 .. L : stack'[4 * x - 3] = stack[4 * x - 3]
        BY <1>3
      <4>2. QED
        BY <2>2, <4>1
    <3>2. k \in FirstCalls' <=> k \in FirstCalls
      BY <1>5, <1>6, <2>2, <3>1
    <3>3. QED
      BY <3>0, <3>2
  <2>3. k = L + 1 \/ k \in 1 .. L
    OBVIOUS
  <2>4. QED
    BY <2>1, <2>2, <2>3
<1>12. FirstCalls' \subseteq 1 .. (L + 1) /\ FirstCalls \subseteq 1 .. (L + 1)
  BY <1>5, <1>6
<1>8. \A k \in FirstCalls : callers'[k] = callers[k]
  BY <1>1, <1>2, <1>3
<1>9. CASE back = "second"
  <2>1. FirstCalls' = FirstCalls \union {L + 1}
    <3>1. L + 1 \in 1 .. (L + 1)
      OBVIOUS
    <3>2. L + 1 \in FirstCalls'
      BY <1>7, <1>9, <3>1
    <3>3. ASSUME NEW k PROVE k \in FirstCalls' <=> k \in FirstCalls \union {L + 1}
      <4>1. CASE k \in 1 .. (L + 1)
        BY <1>7, <1>9, <3>2, <4>1
      <4>2. CASE k \notin 1 .. (L + 1)
        BY <1>12, <3>1, <4>2
      <4>3. QED
        BY <4>1, <4>2
    <3>4. QED
      BY <3>3
  <2>0. OnTop(L, FirstCalls, FirstCalls')
    <3>1. FirstCalls \subseteq 1 .. L
      BY <1>5
    <3>2. QED
      BY <2>1, <3>1 DEF OnTop
  <2>2. PICK F, cs, G, ds : /\ F = FirstCalls /\ cs = callers /\ G = FirstCalls'
                            /\ ds = callers' /\ OnTop(L, F, G)
    BY <2>0
  <2>3. \A k \in F : ds[k] = cs[k]
    BY <1>8, <2>2
  <2>6. OnTop(L, F, G)
    BY <2>2
  <2>4. Frames(G, ds) = Append(Frames(F, cs), PendingOf(ds[L + 1]))
    BY <1>2, <2>3, <2>6, FramesOnTop
  <2>5. QED
    BY <1>3, <1>4, <1>9, <2>2, <2>4
<1>10. CASE back # "second"
  <2>1. FirstCalls' = FirstCalls
    BY <1>7, <1>10, <1>12
  <2>2. Frames(FirstCalls, callers') = Frames(FirstCalls, callers)
    BY <1>1, <1>2, <1>8, FramesAgree
  <2>3. QED
    BY <1>4, <1>10, <2>1, <2>2
<1>11. QED
  BY <1>9, <1>10

LEMMA StepFirstCall ==
  ASSUME MachineInv, AlignedInv, MachineInv', version = "sort", FirstCall
  PROVE  Sort!Place
<1>1. /\ pc = "LN3" /\ pc \in InCallee /\ UNCHANGED <<version, array>> /\ reg \in Registers
      /\ pc' = "quickSort" /\ reg' \in Registers /\ TypeOK
      /\ mem' = WordsSwapped(mem, reg.rcx, reg.rbx)
      /\ stack' = Append(stack, "second") /\ callers' = Append(callers, CalleeSaved(reg'))
  BY DEF FirstCall, MachineInv, TypeOK, InCallee
<1>2. Phase = "scan" /\ Phase' = "enter"
  BY <1>1 DEF Phase
<1>3. PICK w \in Nat \ {0}, d \in Nat, n \in Nat, l \in Nat, i \in Nat, j \in Nat, v \in Int :
         LoopNumbers(w, d, n, l, i, j, v)
  BY <1>1, LoopHasNumbers
<1>4. /\ w = WordBytes /\ d = reg.rdi /\ n = reg.rbp /\ n >= 2
      /\ reg.rbx = d + i * w /\ reg.rcx = d + (n - 1) * w /\ i <= j /\ j = n - 1
  BY <1>1, <1>3 DEF LoopNumbers
<1>5. PICK s \in Nat : /\ d = s * w /\ s + n <= Size
                       /\ CallNow = [start |-> s, len |-> n, i |-> s + i, j |-> s + j,
                                     pivot |-> v]
  <2>1. pc \in {"LN5", "LN3"}
    BY <1>1
  <2>2. QED
    BY <1>3, <2>1, LoopElements
<1>6. PICK x \in Nat, h \in Nat : x = s + i /\ h = s + j /\ h = s + n - 1 /\ x < Size /\ h < Size
  <2>1. PICK t \in Nat : t = Size
    BY ArrayWordsTyped
  <2>2. s + n <= t
    BY <1>5, <2>1
  <2>3. s + i < t /\ s + j < t /\ s + j = s + n - 1
    BY <1>4, <2>2
  <2>4. QED
    BY <2>1, <2>3
<1>7. reg.rbx = x * w /\ reg.rcx = h * w
  BY <1>4, <1>5, <1>6, Multiples
<1>8. (x * w) \div w = x /\ d \div w = s
  BY <1>5, Multiples
<1>9. (reg.rbx - reg.rdi) \div WordBytes = i
  BY <1>4, PlaceOfPivot
<1>10. /\ CallNow.j = h /\ CallNow.i = x /\ Sort!high = h /\ CallNow.start = s
       /\ CallNow.len = n /\ CallNow.i - CallNow.start = i
  BY <1>5, <1>6 DEF Sort!high
<1>11. reg'.rdi = d /\ reg'.rsi = i /\ reg'.r12 = i /\ reg'.rbp = n /\ reg'.rbx = x * w
  BY <1>1, <1>4, <1>7, <1>9 DEF FirstCall, Registers
<1>12. CallNow' = [start |-> s, len |-> i]
  BY <1>1, <1>4, <1>8, <1>11 DEF CallNow
<1>13. ArrayWords' = Sort!Swapped(ArrayWords, x, h)
  <2>1. mem' = WordsSwapped(mem, h * WordBytes, x * WordBytes)
    BY <1>1, <1>4, <1>7
  <2>2. QED
    BY <1>1, <1>6, <2>1, ExchangeOfElements
<1>14. PendingOf(CalleeSaved(reg')) = <<x + 1, n - i - 1>>
  BY <1>4, <1>8, <1>11 DEF PendingOf, CalleeSaved
<1>15. Pending' = Append(Pending, <<x + 1, n - i - 1>>)
  <2>1. Pending' = Append(Frames(FirstCalls, callers), PendingOf(CalleeSaved(reg')))
    BY <1>1, CallFrames
  <2>2. Pending = Frames(FirstCalls, callers)
    BY <1>1, PendingIsFrames
  <2>3. QED
    BY <1>14, <2>1, <2>2
<1>16. QED
  BY <1>2, <1>10, <1>12, <1>13, <1>15 DEF Sort!Place, Sort!Call


\* The pending calls of frames are a sequence, whose last is there to be called.
LEMMA FramesIsSequence ==
  ASSUME NEW L \in Nat, NEW F \in SUBSET (1 .. L), NEW cs, NEW x
  PROVE  /\ Append(Frames(F, cs), x) # << >>
         /\ Sort!Last(Append(Frames(F, cs), x)) = x
         /\ Sort!Front(Append(Frames(F, cs), x)) = Frames(F, cs)
<1>1. PICK c \in Nat : c = Cardinality(F)
  <2>1. IsFiniteSet(1 .. L)
    BY FS_Interval
  <2>2. QED
    BY <2>1, FS_Subset, FS_CardinalityType
<1> DEFINE P(n) == PendingOf(cs[Nth(F, n)])
           T == {P(n) : n \in 1 .. c} \union {x}
           f == Frames(F, cs)
<1>2. f \in [1 .. c -> T]
  BY <1>1 DEF Frames
<1>3. f \in Seq(T) /\ Len(f) = c /\ x \in T
  BY <1>2
<1> HIDE DEF f, T
<1>4. PICK g : /\ g = Append(f, x) /\ g \in Seq(T) /\ Len(g) = c + 1 /\ g[c + 1] = x
               /\ \A n \in 1 .. c : g[n] = f[n]
  <2>1. /\ Append(f, x) \in Seq(T) /\ Len(Append(f, x)) = c + 1
        /\ Append(f, x)[c + 1] = x /\ \A n \in 1 .. c : Append(f, x)[n] = f[n]
    BY <1>3, AppendProperties
  <2>2. QED
    BY <2>1
<1>5. g # << >>
  BY <1>4
<1>6. Sort!Last(g) = x
  BY <1>4 DEF Sort!Last
<1>7. Sort!Front(g) = f
  <2>1. Sort!Front(g) = SubSeq(g, 1, c)
    BY <1>4 DEF Sort!Front
  <2>2. \A n \in 1 .. c : g[n] \in T
    BY <1>4
  <2>3. /\ SubSeq(g, 1, c) \in Seq(T)
        /\ Len(SubSeq(g, 1, c)) = IF 1 <= c THEN c - 1 + 1 ELSE 0
        /\ \A n \in 1 .. (c - 1 + 1) : SubSeq(g, 1, c)[n] = g[1 + n - 1]
    BY <2>2, SubSeqProperties
  <2>4. Len(SubSeq(g, 1, c)) = c /\ \A n \in 1 .. c : SubSeq(g, 1, c)[n] = f[n]
    BY <1>4, <2>3
  <2>5. SubSeq(g, 1, c) = f
    BY <1>3, <2>3, <2>4
  <2>6. QED
    BY <2>1, <2>5
<1>8. QED
  BY <1>4, <1>5, <1>6, <1>7 DEF f

LEMMA StepSecondCall ==
  ASSUME MachineInv, AlignedInv, MachineInv', version = "sort", SecondCall
  PROVE  Sort!SecondCall
<1>1. /\ pc = "second" /\ pc \in InCallee /\ UNCHANGED <<version, array, mem>>
      /\ reg \in Registers /\ reg' \in Registers /\ TypeOK /\ pc' = "quickSort"
      /\ stack' = Append(stack, "LN1") /\ callers' = Append(callers, CalleeSaved(reg'))
  BY DEF SecondCall, MachineInv, TypeOK, InCallee
<1>2. Phase = "return" /\ Phase' = "enter" /\ ArrayWords' = ArrayWords
  BY <1>1 DEF Phase, ArrayWords, Size
<1>3. PICK w \in Nat \ {0}, s \in Nat : w = WordBytes /\ reg.rbx = s * w
  BY <1>1, WeightFacts DEF AlignedInv, Aligned
<1>4. reg'.rdi = s * w + w /\ reg'.rsi = reg.rbp - reg.r12 - 1
  BY <1>1, <1>3 DEF SecondCall, Registers, Rest, PastPivot
<1>5. (s * w) \div w = s /\ (s * w + w) \div w = s + 1
  <2>1. (s * w + 1 * w) \div w = s + 1 /\ 1 * w = w
    BY Multiples
  <2>2. QED
    BY <2>1, Multiples
<1>6. PendingOf(CalleeSaved(reg)) = <<s + 1, reg.rbp - reg.r12 - 1>>
  BY <1>3, <1>5 DEF PendingOf, CalleeSaved
<1>7. CallNow' = [start |-> s + 1, len |-> reg.rbp - reg.r12 - 1]
  BY <1>1, <1>3, <1>4, <1>5 DEF CallNow
<1>8. Pending = Append(Frames(FirstCalls, callers), PendingOf(CalleeSaved(reg)))
  BY <1>1, PendingIsFrames
<1>9. Pending' = Frames(FirstCalls, callers)
  BY <1>1, CallFrames
<1>10. FirstCalls \in SUBSET (1 .. Levels) /\ Levels \in Nat
  BY <1>1, PendingIsFrames, LevelsInNat
<1>11. /\ Pending # << >> /\ Sort!Last(Pending) = PendingOf(CalleeSaved(reg))
       /\ Sort!Front(Pending) = Frames(FirstCalls, callers)
  BY <1>8, <1>10, FramesIsSequence
<1>12. QED
  BY <1>2, <1>6, <1>7, <1>9, <1>11 DEF Sort!SecondCall, Sort!Call

\* A return from a second call is not a step of sort.c: it returns to the next
\* caller, until there is none.
LEMMA StepPopAndReturn ==
  ASSUME MachineInv, MachineInv', version = "sort", PopAndReturn
  PROVE  Sort!Finish \/ UNCHANGED Sort!vars
<1>1. /\ TypeOK /\ StackOK /\ TypeOK' /\ pc = "LN1" /\ UNCHANGED <<version, array, mem>>
  BY DEF PopAndReturn, MachineInv
<1>2. Levels > 0 /\ CalleeSaved(reg') = callers[Levels]
  BY PopIsReturn
<1>3. PICK r \in Seq(Cells) : /\ Len(r) = 4 * Levels - 3 /\ Len(stack) >= Len(r)
                              /\ \A x \in 1 .. Len(r) : r[x] = stack[x]
                              /\ Return(r)
  BY PopIsReturn
<1>4. PICK L \in Nat : Levels = L + 1
  <2>1. PICK x \in Nat : x = Levels /\ x > 0
    BY <1>1, <1>2, LevelsInNat
  <2>2. x - 1 \in Nat /\ x = (x - 1) + 1
    BY <2>1
  <2>3. QED
    BY <2>1, <2>2
<1>5. /\ Levels' = L
      /\ \A k \in 1 .. L : stack'[4 * k - 3] = stack[4 * k - 3] /\ callers'[k] = callers[k]
      /\ pc' = stack[4 * (L + 1) - 3]
      /\ pc' \in IF L = 0 THEN {"halt"} ELSE {"second", "LN1"}
  <2>1. /\ Levels' = Levels - 1
        /\ \A k \in 1 .. Levels' : /\ stack'[4 * k - 3] = stack[4 * k - 3]
                                   /\ callers'[k] = callers[k]
        /\ pc' = stack[4 * Levels - 3]
        /\ pc' \in IF Levels = 1 THEN {"halt"} ELSE {"second", "LN1"}
    BY <1>1, <1>2, <1>3, ReturnStep
  <2>2. Levels - 1 = L /\ (Levels = 1 <=> L = 0)
    BY <1>4
  <2>3. QED
    BY <1>4, <2>1, <2>2
<1>6. ArrayWords' = ArrayWords
  BY <1>1 DEF ArrayWords, Size
<1>7. FirstCalls = {k \in 1 .. (L + 1) : stack[4 * k - 3] = "second"}
  BY <1>4 DEF FirstCalls, Levels
<1>8. FirstCalls' = {k \in 1 .. L : stack[4 * k - 3] = "second"}
  <2>1. FirstCalls' = {k \in 1 .. L : stack'[4 * k - 3] = "second"}
    BY <1>5 DEF FirstCalls, Levels
  <2>2. QED
    BY <1>5, <2>1
<1>9. Pending = Frames(FirstCalls, callers)
  BY <1>1, PendingIsFrames
<1>10. \A k \in FirstCalls' : callers'[k] = callers[k]
  BY <1>5, <1>8
<1>11. (TypeOK => (pc # "second" => Pending = Frames(FirstCalls, callers)) /\
                  (pc = "second" => Pending = Append(Frames(FirstCalls, callers),
                                                     PendingOf(CalleeSaved(reg)))))'
  BY PendingIsFrames, PTL
<1>12. FirstCalls' \subseteq 1 .. L
  BY <1>8
<1>13. PICK F, G, cs, ds : F = FirstCalls' /\ G = FirstCalls /\ cs = callers /\ ds = callers'
  OBVIOUS
<1>14. F \subseteq 1 .. L /\ \A k \in F : ds[k] = cs[k]
  BY <1>10, <1>12, <1>13
<1>15. Frames(F, ds) = Frames(F, cs)
  BY <1>4, <1>14, FramesAgree
<1>16. CASE pc' = "second"
  <2>1. Phase' = Phase /\ CallNow' = CallNow
    BY <1>1, <1>16 DEF Phase, CallNow
  <2>2. \A k : k \in FirstCalls <=> k \in FirstCalls' \union {L + 1}
    <3>1. stack[4 * (L + 1) - 3] = "second" /\ L + 1 \in 1 .. (L + 1)
      BY <1>5, <1>16
    <3>2. \A k \in 1 .. (L + 1) : k \in 1 .. L \/ k = L + 1
      OBVIOUS
    <3>3. \A k \in 1 .. L : k \in 1 .. (L + 1)
      OBVIOUS
    <3>4. QED
      BY <1>7, <1>8, <3>1, <3>2, <3>3
  <2>3. OnTop(L, F, G)
    <3>1. G = F \union {L + 1}
      BY <1>13, <2>2
    <3>2. QED
      BY <1>14, <3>1 DEF OnTop
  <2>4. \A k \in F : cs[k] = ds[k]
    BY <1>14
  <2>5. Frames(G, cs) = Append(Frames(F, ds), PendingOf(cs[L + 1]))
    BY <2>3, <2>4, FramesOnTop
  <2>6. Pending' = Append(Frames(F, ds), PendingOf(CalleeSaved(reg')))
    BY <1>1, <1>11, <1>13, <1>16
  <2>7. CalleeSaved(reg') = cs[L + 1]
    BY <1>2, <1>4, <1>13
  <2>8. Pending' = Pending
    BY <1>9, <1>13, <2>5, <2>6, <2>7
  <2>9. QED
    BY <1>6, <2>1, <2>8 DEF Sort!vars
<1>17. CASE pc' # "second"
  <2>1. F = G
    <3>1. stack[4 * (L + 1) - 3] # "second"
      BY <1>5, <1>17
    <3>2. \A k \in 1 .. (L + 1) : k \in 1 .. L \/ k = L + 1
      OBVIOUS
    <3>3. \A k \in 1 .. L : k \in 1 .. (L + 1)
      OBVIOUS
    <3>4. QED
      BY <1>7, <1>8, <1>13, <3>1, <3>2, <3>3
  <2>2. Pending' = Pending
    BY <1>1, <1>9, <1>11, <1>13, <1>15, <1>17, <2>1
  <2>3. CallNow' = CallNow
    BY <1>1, <1>5, <1>17 DEF CallNow
  <2>4. CASE L # 0
    <3>1. Phase' = Phase
      BY <1>1, <1>5, <2>4 DEF Phase
    <3>2. QED
      BY <1>6, <2>2, <2>3, <3>1 DEF Sort!vars
  <2>5. CASE L = 0
    <3>1. Phase = "return" /\ Phase' = "done"
      BY <1>1, <1>5, <2>5 DEF Phase
    <3>2. Pending = << >>
      <4>1. G = {}
        BY <1>14, <2>1, <2>5
      <4>2. Cardinality(G) = 0
        BY <4>1, FS_EmptySet
      <4>3. QED
        BY <1>9, <1>13, <4>2 DEF Frames
    <3>3. QED
      BY <1>6, <2>2, <2>3, <3>1, <3>2 DEF Sort!Finish
  <2>6. QED
    BY <2>4, <2>5
<1>18. QED
  BY <1>16, <1>17


\* QuickSort counts as this module does.
LEMMA CountedAlike ==
  ASSUME NEW S
  PROVE  Sort!Cardinality(S) = Cardinality(S)
BY DEF Sort!Cardinality, Cardinality

LEMMA AlignedInit ==
  ASSUME Init
  PROVE  AlignedInv
<1>1. /\ pc = "quickSort" /\ reg.rdi = 0 /\ Levels = 1
  BY DEF Init, Levels
<1>2. 0 = 0 * WordBytes
  BY WeightFacts
<1>3. QED
  BY <1>1, <1>2 DEF AlignedInv, Aligned

\* main calls quickSort with the whole array.
LEMMA StartsAsQuickSort ==
  ASSUME Init
  PROVE  Sort!Init
<1>1. /\ MachineInv /\ TypeOK /\ pc = "quickSort" /\ array \in Inputs /\ reg.rdi = 0
      /\ stack = <<"halt">> /\ callers = <<<<0, 0, 0>>>>
  BY MachineInvInit DEF Init, MachineInv
<1>2. /\ Size \in Nat /\ array \in [0 .. (Size - 1) -> Words]
      /\ \A k \in 0 .. (Size - 1) : Word(mem, k * WordBytes) = array[k]
      /\ Word(mem, Size * WordBytes) = Size
  BY InitialMemory
<1>3. reg.rsi = Size
  BY <1>2 DEF Init
<1>4. ArrayWords = array
  BY <1>2 DEF ArrayWords
<1>5. 0 \div WordBytes = 0
  <2>1. PICK w \in Nat \ {0} : w = WordBytes
    BY WeightFacts
  <2>2. (0 * w) \div w = 0 /\ 0 * w = 0
    BY Multiples
  <2>3. QED
    BY <2>1, <2>2
<1>6. CallNow = [start |-> 0, len |-> Size]
  BY <1>1, <1>3, <1>5 DEF CallNow
<1>7. Sort!Cardinality(DOMAIN ArrayWords) = Size
  BY <1>4, CountedAlike DEF Size
<1>8. Pending = << >>
  <2>1. FirstCalls = {}
    BY <1>1 DEF FirstCalls
  <2>2. PICK F : F = FirstCalls /\ Cardinality(F) = 0
    BY <2>1, FS_EmptySet
  <2>3. Frames(F, callers) = << >>
    BY <2>2 DEF Frames
  <2>4. QED
    BY <1>1, <2>2, <2>3, PendingIsFrames
<1>9. Phase = "enter"
  BY <1>1 DEF Phase
<1>10. QED
  BY <1>1, <1>4, <1>6, <1>7, <1>8, <1>9 DEF Sort!Init, Sort!Call

LEMMA StepsAsQuickSort ==
  ASSUME MachineInv, AlignedInv, version = "sort", [Next]_vars
  PROVE  [Sort!Next]_(Sort!vars)
<1>1. MachineInv'
  BY MachineInvKept
<1>2. CASE ReturnAtOnce
  BY <1>1, <1>2, StepReturnAtOnce DEF Sort!Next
<1>3. CASE Begin
  BY <1>1, <1>3, StepBegin DEF Sort!Next
<1>4. CASE Loop
  BY <1>1, <1>4, StepLoop DEF Sort!Next
<1>5. CASE FirstCall
  BY <1>1, <1>5, StepFirstCall DEF Sort!Next
<1>6. CASE SecondCall
  BY <1>1, <1>6, StepSecondCall DEF Sort!Next
<1>7. CASE PopAndReturn
  BY <1>1, <1>7, StepPopAndReturn DEF Sort!Next
<1>8. CASE UNCHANGED vars
  <2>1. UNCHANGED <<mem, array, reg, stack, pc, callers>>
    BY <1>8 DEF vars
  <2>2. UNCHANGED ArrayWords /\ UNCHANGED Phase /\ UNCHANGED CallNow /\ UNCHANGED FirstCalls
    BY <2>1 DEF ArrayWords, Size, Phase, CallNow, FirstCalls
  <2>3. UNCHANGED Pending
    BY <2>1 DEF Pending, FirstCalls, Caller, CalleeSaved, PendingOf
  <2>4. QED
    BY <2>2, <2>3 DEF Sort!vars
<1>9. QED
  BY <1>2, <1>3, <1>4, <1>5, <1>6, <1>7, <1>8 DEF Next

\* sort.ys implements sort.c: with the words of the memory as the array, and
\* the second calls read off the stack, it begins as quickSort does and each of
\* its steps is one of quickSort's or leaves all that quickSort sees as it is.
THEOREM MachineSorts == Spec => ImplementsQuickSort
<1>1. Init => MachineInv /\ AlignedInv /\ (version = "sort" => Sort!Init)
  BY MachineInvInit, AlignedInit, StartsAsQuickSort
<1>2. (MachineInv /\ AlignedInv) /\ [Next]_vars => (MachineInv /\ AlignedInv)'
  BY MachineInvKept, AlignedKept
<1>3. MachineInv /\ AlignedInv /\ [Next]_vars
        => [version = "sort" => Sort!Next]_(Sort!vars)
  BY StepsAsQuickSort
<1>4. QED
  BY <1>1, <1>2, <1>3, PTL DEF Spec, ImplementsQuickSort


-----------------------------------------------------------------------------
(* What has been proved of sort.c holds of sort.ys. *)

Algo == INSTANCE QuickSortProofs WITH
    A <- ArrayWords, pc <- Phase, call <- CallNow, pending <- Pending

\* That module's copy of sort.c is this module's.
LEMMA SameInit == Sort!Init => Algo!Init
BY Zenon DEF Sort!Init, Algo!Init, Sort!Call, Algo!Call, Sort!Cardinality,
             Algo!Cardinality

LEMMA SameNext == [Sort!Next]_(Sort!vars) => [Algo!Next]_(Algo!vars)
<1>1. Sort!ReturnAtOnce => Algo!ReturnAtOnce
  BY Zenon DEF Sort!ReturnAtOnce, Algo!ReturnAtOnce, Sort!NoCall, Algo!NoCall
<1>2. Sort!Begin => Algo!Begin
  BY Zenon DEF Sort!Begin, Algo!Begin, Sort!high, Algo!high
<1>3. Sort!Scan => Algo!Scan
  BY Zenon DEF Sort!Scan, Algo!Scan, Sort!high, Algo!high, Sort!Swapped, Algo!Swapped
<1>4. Sort!Place => Algo!Place
  BY Zenon DEF Sort!Place, Algo!Place, Sort!high, Algo!high, Sort!Swapped, Algo!Swapped,
               Sort!Call, Algo!Call
<1>5. Sort!SecondCall => Algo!SecondCall
  BY Zenon DEF Sort!SecondCall, Algo!SecondCall, Sort!Call, Algo!Call, Sort!Last, Algo!Last,
               Sort!Front, Algo!Front
<1>6. Sort!Finish => Algo!Finish
  BY Zenon DEF Sort!Finish, Algo!Finish
<1>7. UNCHANGED Sort!vars => UNCHANGED Algo!vars
  BY Zenon DEF Sort!vars, Algo!vars
<1>8. QED
  BY <1>1, <1>2, <1>3, <1>4, <1>5, <1>6, <1>7 DEF Sort!Next, Algo!Next

LEMMA SameOrder == Algo!InOrder => Sort!InOrder
BY Zenon DEF Algo!InOrder, Sort!InOrder, Algo!Open, Sort!Open, Algo!Positions,
             Sort!Positions

\* The arrays are what QuickSortProofs assumes.
LEMMA InputsAreOfIntegers == Algo!InputsAreArrays
<1>1. Words \subseteq Int
  BY DEF Words
<1>2. ASSUME NEW a \in Inputs PROVE \E n \in Nat : a \in [0 .. (n - 1) -> Int]
  <2>1. PICK n \in 0 .. (WordMod \div 2 - 1) : a \in [0 .. (n - 1) -> Words]
    BY InputsAssumption
  <2>2. n \in Nat
    OBVIOUS
  <2>4. a \in [0 .. (n - 1) -> Int]
    BY <1>1, <2>1
  <2>3. QED
    BY <2>2, <2>4
<1>3. QED
  BY <1>2 DEF Algo!InputsAreArrays

\* sort.c's inductive invariant, of what sort.ys represents.
SortsInv == version = "sort" => Algo!SortInv

LEMMA SortsInvKept ==
  ASSUME MachineInv, AlignedInv, SortsInv, [Next]_vars
  PROVE  SortsInv'
<1>1. version' = version
  BY DEF Next, vars, ReturnAtOnce, Begin, Loop, FirstCall, SecondCall, PopAndReturn
<1>2. SUFFICES ASSUME version = "sort" PROVE (Algo!SortInv)'
  BY <1>1 DEF SortsInv
<1>3. Algo!SortInv
  BY <1>2 DEF SortsInv
<1>4. [Algo!Next]_(Algo!vars)
  BY <1>2, StepsAsQuickSort, SameNext
<1>5. QED
  BY <1>3, <1>4, Algo!SortInvKept

\* In every state of sort.ys the ranges that are to be sorted follow each other,
\* and what lies in none of them together is in order.
THEOREM SortsInvHolds == Spec => []SortsInv
<1>1. Init => MachineInv /\ AlignedInv
  BY MachineInvInit, AlignedInit
<1>2. Init => SortsInv
  BY StartsAsQuickSort, SameInit, InputsAreOfIntegers, Algo!SortInvInit DEF SortsInv
<1>3. (MachineInv /\ AlignedInv) /\ [Next]_vars => (MachineInv /\ AlignedInv)'
  BY MachineInvKept, AlignedKept
<1>4. MachineInv /\ AlignedInv /\ SortsInv /\ [Next]_vars => SortsInv'
  BY SortsInvKept
<1>5. QED
  BY <1>1, <1>2, <1>3, <1>4, PTL DEF Spec

\* Two words that the calls to come do not both touch are in order for good.
THEOREM OpenRangesAreAll == Spec => []OpenRangesOnly
<1>1. SortsInv => OpenRangesOnly
  BY Algo!InOrderFromApart, SameOrder DEF SortsInv, Algo!SortInv, OpenRangesOnly
<1>2. QED
  BY <1>1, SortsInvHolds, PTL


\* sort.ys halts with its array sorted.
LEMMA SortedByRefinement ==
  ASSUME MachineInv, SortsInv, version = "sort", pc = "halt"
  PROVE  \A p, q \in DOMAIN array : p < q => ArrayWords[p] <= ArrayWords[q]
<1>1. Phase = "done"
  BY DEF Phase
<1>2. Algo!SortedAtEnd
  BY Algo!SortedWhenDone DEF SortsInv
<1>3. DOMAIN array = 0 .. (Size - 1) /\ DOMAIN ArrayWords = 0 .. (Size - 1)
  BY DEF MachineInv, TypeOK, ArrayWords
<1>4. QED
  BY <1>1, <1>2, <1>3 DEF Algo!SortedAtEnd

-----------------------------------------------------------------------------
(* Two elements, which sort_optimal.ys sorts too: the loop runs once, at the  *)
(* first level, and the exchange that follows puts them in order.             *)

\* The first call is of the whole array.
FirstRange == pc = "quickSort" /\ Levels = 1 => reg.rsi = Size

TwoSorted ==
    Size = 2 /\ ~ (Levels = 1 /\ pc \in {"quickSort", "LN5", "LN3"})
        => Word(mem, 0) <= Word(mem, WordBytes)

TwoInv == FirstRange /\ TwoSorted

LEMMA LoopOfTwo ==
  ASSUME MachineInv, Size = 2, pc \in {"LN5", "LN3"},
         NEW w \in Nat \ {0}, NEW d \in Nat, NEW n \in Nat, NEW l \in Nat, NEW i \in Nat,
         NEW j \in Nat, NEW v \in Int, LoopNumbers(w, d, n, l, i, j, v)
  PROVE  Levels = 1 /\ d = 0 /\ n = 2
<1>1. /\ l = Levels /\ l > 0 /\ n >= 2 /\ d + n * w <= 2 * w /\ n + l - 1 <= 2
  <2>1. Levels \in Nat \ {0}
    BY LevelsPositive
  <2>2. QED
    BY <2>1 DEF LoopNumbers
<1>2. l = 1 /\ n = 2
  BY <1>1
<1>3. d + 2 * w <= 2 * w
  BY <1>1, <1>2
<1>4. d = 0
  BY <1>3
<1>5. QED
  BY <1>1, <1>2, <1>4

LEMMA TwoInvInit ==
  ASSUME Init
  PROVE  TwoInv
<1>1. pc = "quickSort" /\ Levels = 1 /\ reg.rsi = Size
  BY InitialMemory DEF Init, Levels
<1>2. QED
  BY <1>1 DEF TwoInv, FirstRange, TwoSorted

LEMMA CallOfTwo ==
  ASSUME MachineInv, pc \in InCallee, reg' \in Registers,
         NEW back \in {"second", "LN1"}, stack' = Append(stack, back),
         callers' = Append(callers, CalleeSaved(reg')), pc' = "quickSort"
  PROVE  FirstRange'
<1>1. TypeOK /\ StackOK /\ Levels \in Nat \ {0}
  BY LevelsPositive DEF MachineInv, InCallee
<1>2. Levels' = Levels + 1
  BY <1>1, CallStep
<1>3. Levels' # 1
  BY <1>1, <1>2
<1>4. QED
  BY <1>3 DEF FirstRange

LEMMA FirstCallOfTwo ==
  ASSUME MachineInv, FirstCall, Size = 2
  PROVE  Word(mem', 0) <= Word(mem', WordBytes)
<1>1. pc = "LN3" /\ mem' = WordsSwapped(mem, reg.rcx, reg.rbx)
  BY DEF FirstCall
<1>2. PICK w \in Nat \ {0}, d \in Nat, n \in Nat, l \in Nat, i \in Nat, j \in Nat, v \in Int :
         LoopNumbers(w, d, n, l, i, j, v)
  BY <1>1, LoopHasNumbers
<1>3. d = 0 /\ n = 2
  <2>1. pc \in {"LN5", "LN3"}
    BY <1>1
  <2>2. QED
    BY <1>2, <2>1, LoopOfTwo
<1>4. /\ w = WordBytes /\ reg.rcx = 0 + 1 * w /\ reg.rbx = 0 + i * w /\ i <= 1
      /\ \A k \in 0 .. (i - 1) : Word(mem, 0 + k * w) <= v
      /\ \A k \in i .. 0 : Word(mem, 0 + k * w) > v
      /\ Word(mem, 0 + 1 * w) = v
  <2>1. /\ w = WordBytes /\ reg.rcx = d + (n - 1) * w /\ reg.rbx = d + i * w
        /\ i <= j /\ j = n - 1
        /\ \A k \in 0 .. (i - 1) : Word(mem, d + k * w) <= v
        /\ \A k \in i .. (j - 1) : Word(mem, d + k * w) > v
        /\ Word(mem, d + (n - 1) * w) = v
    BY <1>1, <1>2 DEF LoopNumbers
  <2>2. n - 1 = 1 /\ j - 1 = 0
    BY <1>3, <2>1
  <2>3. QED
    BY <1>3, <2>1, <2>2
<1>5. PICK z \in Nat, o \in Nat, t \in Nat : z = 0 /\ o = 1 /\ t = 2
  OBVIOUS
<1>6. WordOfRange(w, z, t, z, z) /\ WordOfRange(w, z, t, o, w)
  <2>1. Size * w = t * w
    BY <1>5
  <2>2. z + t * w <= t * w /\ z = z + z * w /\ w = z + o * w /\ z < t /\ o < t
    BY <1>5
  <2>3. QED
    BY <1>4, <2>1, <2>2 DEF WordOfRange
<1>7. \A a \in {z, w} : Word(mem, a) \in Int
  <2>1. PICK m \in Nat : m = 3 * w /\ m = (Size + 1) * WordBytes
    BY <1>4
  <2>2. mem \in [0 .. (m - 1) -> Digits]
    BY <2>1 DEF MachineInv, TypeOK
  <2>3. z + WordBytes <= m /\ w + WordBytes <= m
    BY <1>4, <1>5, <2>1
  <2>4. Word(mem, z) \in Int
    BY <2>2, <2>3, WordTyped
  <2>5. Word(mem, w) \in Int
    BY <2>2, <2>3, WordTyped
  <2>6. QED
    BY <2>4, <2>5
<1>8. reg.rcx = w
  BY <1>4
<1>9. CASE i = 0
  <2>1. reg.rbx = z
    BY <1>4, <1>5, <1>9
  <2>2. /\ Word(WordsSwapped(mem, w, z), w) = Word(mem, z)
        /\ Word(WordsSwapped(mem, w, z), z) = Word(mem, w)
    BY <1>6, SwapInRange
  <2>3. Word(mem, w) = v /\ Word(mem, z) > v
    <3>1. 0 \in i .. 0 /\ 0 + 0 * w = z /\ 0 + 1 * w = w
      BY <1>5, <1>9
    <3>2. QED
      BY <1>4, <3>1
  <2>4. mem' = WordsSwapped(mem, w, z)
    BY <1>1, <1>8, <2>1
  <2>5. Word(mem', z) <= Word(mem', w)
    BY <1>7, <2>2, <2>3, <2>4
  <2>6. QED
    BY <1>4, <1>5, <2>5
<1>10. CASE i = 1
  <2>1. reg.rbx = w
    BY <1>4, <1>10
  <2>2. mem' = WordsSwapped(mem, w, w)
    BY <1>1, <1>8, <2>1
  <2>3. Word(mem, w) = v /\ Word(mem, z) <= v
    <3>1. 0 \in 0 .. (i - 1) /\ 0 + 0 * w = z /\ 0 + 1 * w = w
      BY <1>5, <1>10
    <3>2. QED
      BY <1>4, <3>1
  <2>4. /\ TwoWords((Size + 1) * WordBytes, w, w)
        /\ Word(WordsSwapped(mem, w, w), w) = Word(mem, w)
    BY <1>6, SwapInRange
  <2>5. Word(WordsSwapped(mem, w, w), z) = Word(mem, z)
    <3>1. z # o
      BY <1>5
    <3>2. Apart(w, z)
      BY <1>6, <3>1, RangeApart
    <3>3. z + WordBytes <= Size * WordBytes
      BY <1>4, <1>5
    <3>4. QED
      BY <2>4, <3>2, <3>3, OtherInRange
  <2>6. Word(mem', z) <= Word(mem', w)
    BY <2>2, <2>3, <2>4, <2>5
  <2>7. QED
    BY <1>4, <1>5, <2>6
<1>11. QED
  BY <1>4, <1>9, <1>10

LEMMA TwoInvKept ==
  ASSUME MachineInv, TwoInv, [Next]_vars
  PROVE  TwoInv'
<1>1. TypeOK /\ StackOK /\ Levels \in Nat /\ array' = array /\ Size' = Size
  BY LevelsInNat
     DEF MachineInv, Size, Next, vars, ReturnAtOnce, Begin, Loop, FirstCall, SecondCall,
         PopAndReturn
<1>2. FirstRange /\ TwoSorted
  BY DEF TwoInv
<1>3. CASE UNCHANGED vars
  BY <1>2, <1>3 DEF TwoInv, FirstRange, TwoSorted, vars, Levels, Size
<1>4. CASE ReturnAtOnce
  <2>1. pc = "quickSort" /\ reg.rsi <= 1 /\ mem' = mem
    BY <1>4 DEF ReturnAtOnce, Small
  <2>2. Size = 2 => Levels # 1
    BY <1>2, <2>1 DEF FirstRange
  <2>3. TwoSorted'
    BY <1>1, <1>2, <2>1, <2>2 DEF TwoSorted
  <2>4. pc' # "quickSort"
    <3>1. CASE version = "sort"
      BY <1>4, <3>1 DEF ReturnAtOnce
    <3>2. CASE version # "sort"
      <4>1. Return(stack)
        BY <1>4, <3>2 DEF ReturnAtOnce
      <4>2. Levels > 0 /\ Len(stack) = 4 * Levels - 3 /\ stack \in Seq(Cells)
        BY <1>1, <2>1 DEF StackOK, TypeOK
      <4>3. pc' \in IF Levels = 1 THEN {"halt"} ELSE {"second", "LN1"}
        BY <1>1, <4>1, <4>2, ReturnStep
      <4>4. QED
        BY <4>3
    <3>3. QED
      BY <3>1, <3>2
  <2>5. QED
    BY <2>3, <2>4 DEF TwoInv, FirstRange
<1>5. CASE Begin
  <2>1. pc = "quickSort" /\ pc' = "LN5" /\ UNCHANGED <<mem, callers>>
    BY <1>5 DEF Begin
  <2>2. Levels' = Levels
    BY <2>1 DEF Levels
  <2>3. QED
    BY <1>1, <1>2, <2>1, <2>2 DEF TwoInv, FirstRange, TwoSorted
<1>6. CASE Loop
  <2>1. pc = "LN5" /\ pc' \in {"LN5", "LN3"} /\ callers' = callers
    BY <1>6 DEF Loop
  <2>2. Levels' = Levels
    BY <2>1 DEF Levels
  <2>3. Size = 2 => Levels = 1
    BY <2>1, LoopHasNumbers, LoopOfTwo
  <2>4. QED
    BY <1>1, <2>1, <2>2, <2>3 DEF TwoInv, FirstRange, TwoSorted
<1>7. CASE FirstCall
  <2>1. /\ pc = "LN3" /\ pc \in InCallee /\ pc' = "quickSort"
        /\ stack' = Append(stack, "second") /\ callers' = Append(callers, CalleeSaved(reg'))
    BY <1>7 DEF FirstCall, InCallee
  <2>2. reg' \in Registers
    BY <1>7, MachineInvKept DEF Next, MachineInv, TypeOK
  <2>3. FirstRange'
    BY <2>1, <2>2, CallOfTwo
  <2>4. Size = 2 => Word(mem', 0) <= Word(mem', WordBytes)
    BY <1>7, FirstCallOfTwo
  <2>5. QED
    BY <1>1, <2>3, <2>4 DEF TwoInv, TwoSorted
<1>8. CASE SecondCall
  <2>1. /\ pc = "second" /\ pc \in InCallee /\ pc' = "quickSort" /\ mem' = mem
        /\ stack' = Append(stack, "LN1") /\ callers' = Append(callers, CalleeSaved(reg'))
    BY <1>8 DEF SecondCall, InCallee
  <2>2. reg' \in Registers
    BY <1>8, MachineInvKept DEF Next, MachineInv, TypeOK
  <2>3. FirstRange'
    BY <2>1, <2>2, CallOfTwo
  <2>4. QED
    BY <1>1, <1>2, <2>1, <2>3 DEF TwoInv, TwoSorted
<1>9. CASE PopAndReturn
  <2>1. pc = "LN1" /\ mem' = mem
    BY <1>9 DEF PopAndReturn
  <2>2. Levels > 0 /\ \E s \in Seq(Cells) :
                          /\ Len(s) = 4 * Levels - 3 /\ Len(stack) >= Len(s)
                          /\ \A x \in 1 .. Len(s) : s[x] = stack[x]
                          /\ Return(s)
    BY <1>9, PopIsReturn
  <2>3. pc' \in IF Levels = 1 THEN {"halt"} ELSE {"second", "LN1"}
    BY <1>1, <2>2, ReturnStep
  <2>4. pc' # "quickSort"
    BY <2>3
  <2>5. QED
    BY <1>1, <1>2, <2>1, <2>4 DEF TwoInv, FirstRange, TwoSorted
<1>10. QED
  BY <1>3, <1>4, <1>5, <1>6, <1>7, <1>8, <1>9 DEF Next

\* sort.ys halts with the array sorted, whatever its length and its elements,
\* and sort_optimal.ys does with two elements at most.
THEOREM MachineSortsArray == Spec => []SortedAtHalt
<1>1. Init => TwoInv
  BY TwoInvInit
<1>2. MachineInv /\ TwoInv /\ [Next]_vars => TwoInv'
  BY TwoInvKept
<1>3. ASSUME MachineInv, SortsInv, TwoInv PROVE SortedAtHalt
  <2>1. CASE pc = "halt" /\ version = "sort"
    BY <1>3, <2>1, SortedByRefinement DEF SortedAtHalt
  <2>2. CASE pc = "halt" /\ Size <= 2
    <3>1. PICK s \in Nat, w \in Nat : s = Size /\ w = WordBytes /\ s <= 2
      BY <1>3, <2>2, WeightFacts DEF MachineInv, TypeOK
    <3>2. DOMAIN array = 0 .. (s - 1)
      BY <1>3, <3>1 DEF MachineInv, TypeOK
    <3>3. ASSUME NEW p \in DOMAIN array, NEW q \in DOMAIN array, p < q
          PROVE  ArrayWords[p] <= ArrayWords[q]
      <4>1. s = 2 /\ p = 0 /\ q = 1
        BY <3>1, <3>2, <3>3
      <4>2. ArrayWords[0] = Word(mem, 0 * w) /\ ArrayWords[1] = Word(mem, 1 * w)
        BY <1>3, <3>1, <4>1, ArrayWordsTyped
      <4>3. 0 * w = 0 /\ 1 * w = w
        OBVIOUS
      <4>4. Word(mem, 0) <= Word(mem, w)
        BY <1>3, <2>2, <3>1, <4>1 DEF TwoInv, TwoSorted
      <4>5. QED
        BY <4>1, <4>2, <4>3, <4>4
    <3>4. QED
      BY <3>3 DEF SortedAtHalt
  <2>3. QED
    BY <2>1, <2>2 DEF SortedAtHalt
<1>4. QED
  BY <1>1, <1>2, <1>3, MachineInvHolds, SortsInvHolds, PTL DEF Spec
=============================================================================
