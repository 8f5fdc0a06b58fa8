--------------------------- MODULE RenderingProofs ---------------------------
(***************************************************************************)
(* Theorems about Rendering for every set of texts and every width.        *)
(* Induction is by the least counterexample (Least); what FoldLeft         *)
(* computes is unfolded into the sequence of its intermediate results.     *)
(***************************************************************************)
EXTENDS Rendering, SequenceTheorems, WellFoundedInduction, TLAPS

-----------------------------------------------------------------------------
(* Numbers, and folding from the left.                                     *)

(***************************************************************************)
(* A set of natural numbers that is not empty has a least element.         *)
(***************************************************************************)
LEMMA Least ==
  ASSUME NEW S, S \subseteq Nat, S # {}
  PROVE  \E m \in S : \A k \in S : m <= k
<1> DEFINE R == {ss \in Nat \X Nat : ss[1] < ss[2]}
<1>1. IsWellFoundedOn(R, Nat)   BY NatLessThanWellFounded DEF OpToRel
<1>2. \E x \in S : \A y \in S : ~ (<<y, x>> \in R)
  <2> HIDE DEF R
  <2> QED BY <1>1, WFMin
<1>3. \A x, y \in S : y < x => <<y, x>> \in R   OBVIOUS
<1> HIDE DEF R
<1>4. PICK x \in S : \A y \in S : ~ (<<y, x>> \in R)   BY <1>2
<1>5. \A y \in S : x <= y
  <2> TAKE y \in S
  <2>1. x \in Nat /\ y \in Nat  OBVIOUS
  <2>2. ~ (y < x)  BY <1>3, <1>4
  <2> QED BY <2>1, <2>2
<1> QED BY <1>5

(***************************************************************************)
(* Induction as a fact about sets, which needs no predicate as a           *)
(* parameter.                                                              *)
(***************************************************************************)
LEMMA Induction ==
  ASSUME NEW S, 0 \in S, \A n \in S \cap Nat : n + 1 \in S
  PROVE  Nat \subseteq S
<1> SUFFICES ASSUME Nat \ S # {} PROVE FALSE  OBVIOUS
<1>1. PICK m \in Nat \ S : \A k \in Nat \ S : m <= k   BY Least
<1>2. m # 0 /\ m - 1 \in Nat   OBVIOUS
<1>3. m - 1 \in S   BY <1>1, <1>2
<1>4. (m - 1) + 1 \in S   BY <1>2, <1>3
<1> QED BY <1>4

(***************************************************************************)
(* Max and Min of a set of indices are what their names say.               *)
(***************************************************************************)
LEMMA MaxIn ==
  ASSUME NEW n \in Nat, NEW s \in SUBSET (1..n), s # {}
  PROVE  Max(s) \in s /\ \A k \in s : k <= Max(s)
<1> DEFINE T == {n - k : k \in s}
<1>1. T # {}  OBVIOUS
<1>0. \A k \in s : n - k \in Nat  OBVIOUS
<1>5. T \subseteq Nat  BY <1>0
<1> HIDE DEF T
<1>2. PICK m \in T : \A k \in T : m <= k  BY <1>1, <1>5, Least
<1>3. PICK x \in s : m = n - x   BY DEF T
<1>4. \A y \in s : x >= y
  <2> TAKE y \in s
  <2>1. n - y \in T BY DEF T
  <2>2. n - x <= n - y BY <1>2, <1>3, <2>1
  <2> QED BY <2>2
<1> QED BY <1>4 DEF Max

LEMMA MinIn ==
  ASSUME NEW n \in Nat, NEW s \in SUBSET (1..n), s # {}
  PROVE  Min(s) \in s /\ \A k \in s : Min(s) <= k
<1>1. s \subseteq Nat  OBVIOUS
<1>2. \E x \in s : \A y \in s : x <= y  BY <1>1, Least
<1> QED BY <1>2 DEF Min

(***************************************************************************)
(* The last of the first i indices is i.                                   *)
(***************************************************************************)
LEMMA MaxOfPrefix ==
  ASSUME NEW n \in Nat, NEW i \in 1..n
  PROVE  Max(1..i) = i
<1>1. i \in 1..i /\ 1..i \in SUBSET (1..n) /\ 1..i # {}  OBVIOUS
<1>2. Max(1..i) \in 1..i /\ i <= Max(1..i)  BY <1>1, MaxIn
<1> QED BY <1>2

\* What FoldLeft's CHOOSE asks for, its operator and sequence as one function op.
Recurs(iter, n, base, op) ==
    iter = [s \in SUBSET (1..n) |->
              IF s = {} THEN base ELSE op[<<iter[s \ {Max(s)}], Max(s)>>]]

(***************************************************************************)
(* The recursion by which FoldLeft is defined, over the sets of indices of *)
(* a sequence, has a solution.                                             *)
(***************************************************************************)
LEMMA FoldExists ==
  ASSUME NEW n \in Nat, NEW A, NEW base \in A, NEW op \in [A \X (1..n) -> A]
  PROVE  \E iter \in [SUBSET (1..n) -> A] : Recurs(iter, n, base, op)
<1> DEFINE Solves(k, iter) == 
      iter = [s \in SUBSET (1..k) |->
                      IF s = {} THEN base ELSE op[<<iter[s \ {Max(s)}], Max(s)>>]]
           Solvable(k) == \E iter \in [SUBSET (1..k) -> A] : Solves(k, iter)
           S == {k \in Nat : k <= n => Solvable(k)}
<1>1. 0 \in S
  <2> DEFINE iter == [s \in SUBSET (1..0) |-> base]
  <2>1. iter \in [SUBSET (1..0) -> A]  OBVIOUS
  <2>2. Solves(0, iter)
    <3>1. \A s \in SUBSET (1..0) : s = {}  OBVIOUS
    <3> QED BY <3>1
  <2> QED BY <2>1, <2>2
<1>2. ASSUME NEW k \in S \cap Nat PROVE k + 1 \in S
  <2> SUFFICES ASSUME k + 1 <= n  PROVE  Solvable(k + 1)
    <3> HIDE DEF Solvable
    <3> QED OBVIOUS
  <2>0. Solvable(k)
    <3> HIDE DEF Solvable
    <3> QED OBVIOUS
  <2>1. PICK old \in [SUBSET (1..k) -> A] : Solves(k, old)  BY <2>0
  <2> DEFINE iter == [s \in SUBSET (1..k+1) |->
                        IF k + 1 \in s THEN op[<<old[s \ {k + 1}], k + 1>>] ELSE old[s]]
  <2>2. \A s \in SUBSET (1..k+1) : k + 1 \notin s => s \in SUBSET (1..k)
    OBVIOUS
  <2>3. \A s \in SUBSET (1..k+1) : s \ {k + 1} \in SUBSET (1..k)
    OBVIOUS
  <2>4. k + 1 \in 1..n  OBVIOUS
  <2>5. iter \in [SUBSET (1..k+1) -> A]
    BY <2>2, <2>3, <2>4
  <2>6. ASSUME NEW s \in SUBSET (1..k+1)
        PROVE  iter[s] = IF s = {} THEN base ELSE op[<<iter[s \ {Max(s)}], Max(s)>>]
    <3>1. CASE k + 1 \in s
      <4>0. Max(s) \in s /\ \A j \in s : j <= Max(s)  BY <3>1, MaxIn, k + 1 \in Nat
      <4>3. Max(s) \in 1..k+1 /\ k + 1 <= Max(s)  BY <3>1, <4>0
      <4>1. Max(s) = k + 1  BY <4>3
      <4>2. iter[s \ {k + 1}] = old[s \ {k + 1}]  BY <2>3
      <4> QED BY <3>1, <4>1, <4>2
    <3>2. CASE k + 1 \notin s
      <4>1. s \in SUBSET (1..k) BY <2>2, <3>2
      <4>2. old[s] = IF s = {} THEN base ELSE op[<<old[s \ {Max(s)}], Max(s)>>]
        BY <2>1, <4>1
      <4>3. iter[s] = old[s]  BY <3>2
      <4>4. iter[s \ {Max(s)}] = old[s \ {Max(s)}]  BY <3>2
      <4> QED BY <4>2, <4>3, <4>4
    <3> QED BY <3>1, <3>2
  <2>7. Solves(k + 1, iter) 
    <3> DEFINE F == [s \in SUBSET (1..k+1) |->
                      IF s = {} THEN base ELSE op[<<iter[s \ {Max(s)}], Max(s)>>]]
    <3>1. \A s \in SUBSET (1..k+1) : iter[s] = F[s]  BY <2>6
    <3>2. DOMAIN iter = DOMAIN F OBVIOUS
    <3>3. iter = [s \in SUBSET (1..k+1) |-> iter[s]] OBVIOUS
    <3>4. F = [s \in SUBSET (1..k+1) |-> F[s]] OBVIOUS
    <3> HIDE DEF iter
    <3> QED BY <3>1, <3>3
  <2> QED BY <2>5, <2>7
<1> HIDE DEF S
<1>3. n \in S  BY <1>1, <1>2, Induction
<1>4. Solvable(n)
  <2> HIDE DEF Solvable
  <2> QED BY <1>3 DEF S
<1> QED BY <1>4 DEF Recurs
-----------------------------------------------------------------------------
(* Widths.                                                                 *)

Graphemes == DOMAIN Cells

(***************************************************************************)
(* Every grapheme has a width, of two cells at most unless it stands for a *)
(* missing value.                                                          *)
(***************************************************************************)
LEMMA CellsType ==
  /\ Cells \in [Graphemes -> Nat]
  /\ \A g \in Graphemes \ {"missing"} : Cells[g] <= 2
  /\ Cells["space"] = 1 /\ Cells["ellipsis"] = 1
  /\ "space" \in Graphemes /\ "ellipsis" \in Graphemes
BY DEF Cells, Graphemes

\* f[i] is the width of the first i graphemes.
Sums(f, t) ==
  /\ f \in [0..Len(t) -> Nat]
  /\ f[0] = 0
  /\ \A i \in 1..Len(t) : f[i] = f[i - 1] + Cells[t[i]]

(***************************************************************************)
(* displayWidth adds the cells up from the left: it is the last of the     *)
(* text's running sums.                                                    *)
(***************************************************************************)
LEMMA WidthUnfolds ==
  ASSUME NEW t \in Seq(Graphemes)
  PROVE  \E f : Sums(f, t) /\ DisplayWidth(t) = f[Len(t)]
<1> DEFINE n == Len(t)
           op == [p \in Nat \X (1..n) |-> p[1] + Cells[t[p[2]]]]
           Folds(iter) == iter = [s \in SUBSET (1..n) |->
                             IF s = {} THEN 0 ELSE iter[s \ {Max(s)}] + Cells[t[Max(s)]]]
           iter == CHOOSE iter : Folds(iter)
<1>1. n \in Nat /\ DOMAIN t = 1..n /\ \A i \in 1..n : Cells[t[i]] \in Nat
  BY CellsType
<1>2. op \in [Nat \X (1..n) -> Nat]
  BY <1>1
<1>3. PICK it \in [SUBSET (1..n) -> Nat] : Recurs(it, n, 0, op)
  <2> HIDE DEF n, op
  <2> QED  BY <1>1, <1>2, FoldExists, 0 \in Nat
<1>4. ASSUME NEW s \in SUBSET (1..n), s # {}
      PROVE  op[<<it[s \ {Max(s)}], Max(s)>>] = it[s \ {Max(s)}] + Cells[t[Max(s)]]
  <2>1. Max(s) \in 1..n  BY <1>1, <1>4, MaxIn
  <2>2. it[s \ {Max(s)}] \in Nat  BY <1>3
  <2> QED BY <2>1, <2>2
<1>5. Folds(it)
  <2> HIDE DEF op
  <2> QED BY <1>3, <1>4 DEF Recurs
<1>6. Folds(iter)
  <2> HIDE DEF Folds
  <2> QED BY <1>5
<1>7. DisplayWidth(t) = iter[1..n]
  BY <1>1 DEF DisplayWidth, FoldLeft, MapThenFoldSet
<1> HIDE DEF iter
<1>8. iter[{}] = 0
  BY <1>6
<1>9. ASSUME NEW i \in 1..n  PROVE  iter[1..i] = iter[1..i-1] + Cells[t[i]]
  <2>1. Max(1..i) = i  BY <1>1, MaxOfPrefix
  <2>2. (1..i) \ {i} = 1..i-1 /\ 1..i \in SUBSET (1..n) /\ 1..i # {}  BY <1>1
  <2> QED BY <1>6, <2>1, <2>2
<1> DEFINE f == [i \in 0..n |-> iter[1..i]]
<1>10. f[0] = 0 /\ f[n] = iter[1..n]
  BY <1>1, <1>8
<1>11. \A i \in 1..n : f[i] = f[i - 1] + Cells[t[i]]
  BY <1>1, <1>9
<1>12. f \in [0..n -> Nat]
  <2> DEFINE S == {i \in Nat : i <= n => f[i] \in Nat}
  <2>1. 0 \in S  BY <1>10
  <2>2. ASSUME NEW i \in S \cap Nat  PROVE  i + 1 \in S
    <3> SUFFICES ASSUME i + 1 <= n  PROVE f[i + 1] \in Nat  OBVIOUS
    <3>1. i + 1 \in 1..n /\ f[i] \in Nat  BY <1>1
    <3>3. (i + 1) - 1 = i  OBVIOUS
    <3>2. f[i + 1] = f[i] + Cells[t[i + 1]]
      <4> HIDE DEF f
      <4> QED BY <1>11, <3>1, <3>3
    <3> HIDE DEF f
    <3> QED BY <1>1, <3>1, <3>2
  <2>3. Nat \subseteq S
    <3> HIDE DEF S
    <3> QED BY <2>1, <2>2, Induction
  <2>4. \A i \in 0..n : f[i] \in Nat
    <3> HIDE DEF f
    <3> QED BY <1>1, <2>3
  <2> QED BY <2>4
<1>13. Sums(f, t)
  <2> HIDE DEF f
  <2> QED BY <1>10, <1>11, <1>12 DEF Sums
<1> QED BY <1>7, <1>10, <1>13

(***************************************************************************)
(* A text has only one sequence of running sums, so whatever satisfies     *)
(* their equations ends in the width.                                      *)
(***************************************************************************)
LEMMA WidthIs ==
  ASSUME NEW t \in Seq(Graphemes), NEW f, Sums(f, t)
  PROVE  DisplayWidth(t) = f[Len(t)]
<1>1. PICK g : Sums(g, t) /\ DisplayWidth(t) = g[Len(t)]  BY WidthUnfolds
<1> DEFINE S == {i \in Nat : i <= Len(t) => f[i] = g[i]}
<1>2. 0 \in S  BY <1>1 DEF Sums
<1>3. ASSUME NEW i \in S \cap Nat  PROVE  i + 1 \in S
  <2> SUFFICES ASSUME i + 1 <= Len(t)  PROVE  f[i + 1] = g[i + 1]  OBVIOUS
  <2>1. i + 1 \in 1..Len(t) /\ f[i] = g[i] /\ (i + 1) - 1 = i  OBVIOUS
  <2> QED BY <1>1, <2>1 DEF Sums
<1>4. Nat \subseteq S
  <2> HIDE DEF S
  <2> QED BY <1>2, <1>3, Induction
<1> QED BY <1>1, <1>4

(***************************************************************************)
(* Running sums never decrease.                                            *)
(***************************************************************************)
LEMMA SumsGrow ==
  ASSUME NEW t \in Seq(Graphemes), NEW f, Sums(f, t),
         NEW i \in 0..Len(t), NEW j \in i..Len(t)
  PROVE  f[i] \in Nat /\ f[j] \in Nat /\ f[i] <= f[j]
<1> DEFINE S == {k \in Nat : i + k <= Len(t) => f[i] <= f[i + k]}
<1>1. \A k \in 0..Len(t) : f[k] \in Nat  BY DEF Sums
<1>2. 0 \in S  BY <1>1
<1>3. ASSUME NEW k \in S \cap Nat  PROVE  k + 1 \in S
  <2> SUFFICES ASSUME i + (k + 1) <= Len(t)  PROVE  f[i] <= f[i + (k + 1)]  OBVIOUS
  <2>1. i + k + 1 \in 1..Len(t) /\ f[i] <= f[i + k] /\ i + k \in 0..Len(t)  OBVIOUS
  <2>2. Cells[t[i + k + 1]] \in Nat  BY <2>1, CellsType
  <2>3. f[i + k + 1] = f[i + k] + Cells[t[i + k + 1]]  BY <2>1 DEF Sums
  <2> QED BY <1>1, <2>1, <2>2, <2>3
<1>4. Nat \subseteq S
  <2> HIDE DEF S
  <2> QED BY <1>2, <1>3, Induction
<1>5. j - i \in S
  <2>1. j - i \in Nat  OBVIOUS
  <2> HIDE DEF S
  <2> QED BY <1>4, <2>1
<1>6. i + (j - i) = j /\ i + (j - i) <= Len(t)  OBVIOUS
<1> QED BY <1>1, <1>5, <1>6

(***************************************************************************)
(* The width of a part of a text is a difference of running sums.          *)
(***************************************************************************)
LEMMA WidthOfSubSeq ==
  ASSUME NEW t \in Seq(Graphemes), NEW f, Sums(f, t),
         NEW m \in 1..Len(t) + 1, NEW n \in m - 1..Len(t)
  PROVE  DisplayWidth(SubSeq(t, m, n)) = f[n] - f[m - 1]
<1> DEFINE sub == SubSeq(t, m, n)
           g == [i \in 0..n - m + 1 |-> f[m - 1 + i] - f[m - 1]]
<1>1. sub \in Seq(Graphemes) /\ Len(sub) = n - m + 1
      /\ \A i \in 1..n - m + 1 : sub[i] = t[m - 1 + i]
  OBVIOUS
<1>2. \A i \in 0..n - m + 1 : f[m - 1 + i] \in Nat /\ f[m - 1] \in Nat /\ f[m - 1] <= f[m - 1 + i]
  BY SumsGrow
<1>3. g \in [0..Len(sub) -> Nat]
  BY <1>1, <1>2
<1>4. g[0] = 0
  <2>1. 0 \in 0..n - m + 1 /\ m - 1 + 0 = m - 1  OBVIOUS
  <2>2. f[m - 1 + 0] = f[m - 1]  BY <2>1
  <2>3. f[m - 1] \in Nat  BY <1>2, <2>1
  <2> QED BY <2>1, <2>2, <2>3
<1>5. ASSUME NEW i \in 1..Len(sub)  PROVE  g[i] = g[i - 1] + Cells[sub[i]]
  <2>1. i \in 0..n - m + 1 /\ i - 1 \in 0..n - m + 1 /\ m - 1 + i \in 1..Len(t)
        /\ i \in 1..n - m + 1 /\ m - 1 + i - 1 = m - 1 + (i - 1)
    BY <1>1
  <2>2. f[m - 1 + i] = f[m - 1 + (i - 1)] + Cells[t[m - 1 + i]]  BY <2>1 DEF Sums
  <2>3. Cells[t[m - 1 + i]] \in Nat  BY <2>1, CellsType
  <2>4. f[m - 1 + i] \in Nat /\ f[m - 1 + (i - 1)] \in Nat /\ f[m - 1] \in Nat  BY <1>2, <2>1
  <2>5. sub[i] = t[m - 1 + i]  BY <1>1, <2>1
  <2>6. g[i] = f[m - 1 + i] - f[m - 1] /\ g[i - 1] = f[m - 1 + (i - 1)] - f[m - 1]  BY <2>1
  <2>7. \A a, b, c, d \in Nat : a = b + d => a - c = (b - c) + d  OBVIOUS
  <2> HIDE DEF g, sub
  <2>8. g[i] = (f[m - 1 + (i - 1)] - f[m - 1]) + Cells[t[m - 1 + i]]
    BY <2>2, <2>3, <2>4, <2>6, <2>7
  <2> QED BY <2>5, <2>6, <2>8
<1>6. Sums(g, sub)
  <2> HIDE DEF sub, g
  <2> QED BY <1>3, <1>4, <1>5 DEF Sums
<1>7. DisplayWidth(sub) = g[Len(sub)]
  <2> HIDE DEF sub, g
  <2> QED BY <1>1, <1>6, WidthIs
<1> QED BY <1>1, <1>7

(***************************************************************************)
(* A width is a natural number.                                            *)
(***************************************************************************)
LEMMA WidthType ==
  ASSUME NEW t \in Seq(Graphemes)
  PROVE  DisplayWidth(t) \in Nat
<1>1. PICK f : Sums(f, t) /\ DisplayWidth(t) = f[Len(t)]  BY WidthUnfolds
<1> QED BY <1>1 DEF Sums

(***************************************************************************)
(* The widths of the empty text, of one grapheme, of two texts in a row.   *)
(***************************************************************************)
LEMMA WidthOfEmpty == DisplayWidth(<<>>) = 0
<1>1. PICK f : Sums(f, <<>>) /\ DisplayWidth(<<>>) = f[Len(<<>>)]
  <2>1. <<>> \in Seq(Graphemes)  OBVIOUS
  <2> QED BY <2>1, WidthUnfolds
<1> QED BY <1>1 DEF Sums

LEMMA WidthOfOne ==
  ASSUME NEW g \in Graphemes
  PROVE  DisplayWidth(<<g>>) = Cells[g]
<1>1. <<g>> \in Seq(Graphemes) /\ Len(<<g>>) = 1 /\ <<g>>[1] = g  OBVIOUS
<1>2. PICK f : Sums(f, <<g>>) /\ DisplayWidth(<<g>>) = f[Len(<<g>>)]  BY <1>1, WidthUnfolds
<1>3. Cells[g] \in Nat  BY CellsType
<1>4. f[0] = 0 /\ f[1] = f[1 - 1] + Cells[g]
  BY <1>1, <1>2 DEF Sums
<1> QED BY <1>1, <1>2, <1>3, <1>4

LEMMA WidthOfConcat ==
  ASSUME NEW s \in Seq(Graphemes), NEW t \in Seq(Graphemes)
  PROVE  DisplayWidth(s \o t) = DisplayWidth(s) + DisplayWidth(t)
<1>1. PICK f : Sums(f, s) /\ DisplayWidth(s) = f[Len(s)]  BY WidthUnfolds
<1>2. PICK g : Sums(g, t) /\ DisplayWidth(t) = g[Len(t)]  BY WidthUnfolds
<1> DEFINE m == Len(s)
           n == Len(t)
           h == [i \in 0..m + n |-> IF i <= m THEN f[i] ELSE f[m] + g[i - m]]
<1>3. s \o t \in Seq(Graphemes) /\ Len(s \o t) = m + n /\ m \in Nat /\ n \in Nat
      /\ \A i \in 1..m + n : (s \o t)[i] = IF i <= m THEN s[i] ELSE t[i - m]
  OBVIOUS
<1>4. f \in [0..m -> Nat] /\ f[0] = 0 /\ \A i \in 1..m : f[i] = f[i - 1] + Cells[s[i]]
  BY <1>1 DEF Sums
<1>5. g \in [0..n -> Nat] /\ g[0] = 0 /\ \A i \in 1..n : g[i] = g[i - 1] + Cells[t[i]]
  BY <1>2 DEF Sums
<1> HIDE DEF m, n
<1>6. h \in [0..m + n -> Nat] /\ h[0] = 0
  <2>1. \A i \in 0..m + n : (i <= m => i \in 0..m) /\ (~(i <= m) => i - m \in 0..n)  BY <1>3
  <2>2. m \in 0..m /\ 0 \in 0..m + n /\ 0 <= m  BY <1>3
  <2>3. \A i \in 0..m + n : (IF i <= m THEN f[i] ELSE f[m] + g[i - m]) \in Nat
    <3> TAKE i \in 0..m + n
    <3>1. CASE i <= m  BY <1>4, <2>1, <3>1
    <3>2. CASE ~(i <= m)
      <4>1. f[m] \in Nat /\ g[i - m] \in Nat  BY <1>4, <1>5, <2>1, <2>2, <3>2
      <4> QED BY <3>2, <4>1
    <3> QED BY <3>1, <3>2
  <2> QED BY <1>4, <2>2, <2>3
<1>7. ASSUME NEW i \in 1..m + n  PROVE  h[i] = h[i - 1] + Cells[(s \o t)[i]]
  <2>1. CASE i <= m
    <3>1. i \in 1..m /\ i - 1 <= m /\ i - 1 \in 0..m + n /\ i \in 0..m + n  BY <1>3, <2>1
    <3> QED BY <1>3, <1>4, <2>1, <3>1
  <2>2. CASE i = m + 1
    <3>1. i - 1 = m /\ i - m = 1 /\ m \in 0..m + n /\ i \in 0..m + n /\ 1 \in 1..n  BY <1>3, <2>2
    <3>5. ~(i <= m) /\ i - 1 <= m /\ i - 1 \in 0..m + n  BY <1>3, <2>2
    <3>2. h[i] = f[m] + g[1] /\ h[i - 1] = f[m]  BY <3>1, <3>5
    <3>3. g[1] = Cells[t[1]]
      <4>1. t[1] \in Graphemes  BY <3>1 DEF n
      <4>2. g[1] = g[1 - 1] + Cells[t[1]]  BY <1>5, <3>1
      <4> QED BY <1>5, <4>1, <4>2, CellsType
    <3>4. (s \o t)[i] = t[1]  BY <1>3, <2>2, <3>1
    <3> HIDE DEF h
    <3> QED BY <3>2, <3>3, <3>4
  <2>3. CASE i > m + 1
    <3>1. i - m \in 1..n /\ i - m - 1 \in 0..n /\ i - 1 - m = i - m - 1 /\ i \in 0..m + n
          /\ i - 1 \in 0..m + n /\ ~(i <= m) /\ ~(i - 1 <= m) /\ m \in 0..m /\ i - m \in 0..n
      BY <1>3, <2>3
    <3>2. h[i] = f[m] + g[i - m] /\ h[i - 1] = f[m] + g[i - m - 1]  BY <3>1
    <3>3. (s \o t)[i] = t[i - m]  BY <1>3, <3>1
    <3>4. g[i - m] = g[i - m - 1] + Cells[t[i - m]]  BY <1>5, <3>1
    <3>5. f[m] \in Nat /\ g[i - m] \in Nat /\ g[i - m - 1] \in Nat  BY <1>4, <1>5, <3>1
    <3>6. Cells[t[i - m]] \in Nat  BY <3>1, CellsType DEF n
    <3>7. \A a, b, c, d \in Nat : a = b + d => c + a = (c + b) + d  OBVIOUS
    <3> HIDE DEF h
    <3> QED BY <3>2, <3>3, <3>4, <3>5, <3>6, <3>7
  <2> QED BY <1>3, <2>1, <2>2, <2>3
<1>8. h[m + n] = f[m] + g[n]
  <2>1. m + n \in 0..m + n /\ m \in 0..m /\ n \in 0..n /\ 0 \in 0..n /\ (m + n) - m = n  BY <1>3
  <2>2. CASE n = 0  BY <1>4, <1>5, <2>1, <2>2
  <2>3. CASE n # 0
    <3>1. ~(m + n <= m)  BY <1>3, <2>3
    <3> QED BY <2>1, <3>1
  <2> QED BY <2>2, <2>3
<1>9. Sums(h, s \o t)
  <2> HIDE DEF h
  <2> QED BY <1>3, <1>6, <1>7 DEF Sums
<1>10. DisplayWidth(s \o t) = h[m + n]
  <2> HIDE DEF h
  <2> QED BY <1>3, <1>9, WidthIs
<1> QED BY <1>1, <1>2, <1>8, <1>10 DEF m, n

(***************************************************************************)
(* A reversed text has the same graphemes, and the same width.             *)
(***************************************************************************)
LEMMA ReverseType ==
  ASSUME NEW X, NEW t \in Seq(X)
  PROVE  /\ Reverse(t) \in Seq(X)
         /\ Len(Reverse(t)) = Len(t)
         /\ \A i \in 1..Len(t) : Reverse(t)[i] = t[(Len(t) - i) + 1]
BY DEF Reverse

LEMMA WidthOfReverse ==
  ASSUME NEW t \in Seq(Graphemes)
  PROVE  DisplayWidth(Reverse(t)) = DisplayWidth(t)
<1>1. PICK f : Sums(f, t) /\ DisplayWidth(t) = f[Len(t)]  BY WidthUnfolds
<1> DEFINE n == Len(t)
           g == [i \in 0..n |-> f[n] - f[n - i]]
<1>2. n \in Nat /\ Reverse(t) \in Seq(Graphemes) /\ Len(Reverse(t)) = n
  BY ReverseType
<1>3. \A i \in 0..n : f[i] \in Nat /\ f[i] <= f[n]
  <2> TAKE i \in 0..n
  <2>1. n \in i..Len(t)  OBVIOUS
  <2> QED BY <1>1, <2>1, SumsGrow
<1>4. f[0] = 0  BY <1>1 DEF Sums
<1>5. ASSUME NEW i \in 1..n  PROVE  g[i] = g[i - 1] + Cells[Reverse(t)[i]]
  <2>1. n - i + 1 \in 1..n /\ n - i + 1 - 1 = n - i /\ n - (i - 1) = n - i + 1
        /\ n - i \in 0..n /\ n \in 0..n /\ i \in 0..n /\ i - 1 \in 0..n
    OBVIOUS
  <2>2. f[n - i + 1] = f[n - i] + Cells[t[n - i + 1]]  BY <1>1, <2>1 DEF Sums
  <2>3. Reverse(t)[i] = t[n - i + 1]  BY ReverseType
  <2>4. Cells[t[n - i + 1]] \in Nat  BY <2>1, CellsType
  <2>5. g[i] = f[n] - f[n - i] /\ g[i - 1] = f[n] - f[n - i + 1]  BY <2>1
  <2>6. f[n] \in Nat /\ f[n - i] \in Nat /\ f[n - i + 1] \in Nat
    <3> HIDE DEF n
    <3> QED BY <1>3, <2>1
  <2>7. \A a, b, c, d \in Nat : a = b + d => c - b = (c - a) + d  OBVIOUS
  <2> HIDE DEF g, n
  <2> QED BY <2>2, <2>3, <2>4, <2>5, <2>6, <2>7
<1>6. g \in [0..n -> Nat] /\ g[0] = 0 /\ g[n] = f[n]
  <2>1. \A i \in 0..n : n - i \in 0..n  OBVIOUS
  <2>2. 0 \in 0..n /\ n \in 0..n /\ n - 0 = n /\ n - n = 0  OBVIOUS
  <2> HIDE DEF n
  <2>6. \A i \in 0..n : f[n] - f[n - i] \in Nat
    <3> TAKE i \in 0..n
    <3>1. f[n] \in Nat /\ f[n - i] \in Nat /\ f[n - i] <= f[n]  BY <1>3, <2>1, <2>2
    <3> QED BY <3>1
  <2>3. g \in [0..n -> Nat]  BY <2>6
  <2>4. g[0] = f[n] - f[n] /\ g[n] = f[n] - f[0]  BY <2>2
  <2>5. f[n] \in Nat  BY <1>3, <2>2
  <2> QED BY <1>4, <2>3, <2>4, <2>5
<1>7. Sums(g, Reverse(t))
  <2> HIDE DEF g, n
  <2> QED BY <1>2, <1>5, <1>6 DEF Sums
<1>8. DisplayWidth(Reverse(t)) = g[n]
  <2> HIDE DEF g, n
  <2> QED BY <1>2, <1>7, WidthIs
<1> QED BY <1>1, <1>6, <1>8

-----------------------------------------------------------------------------
(* Cutting.                                                                *)

(***************************************************************************)
(* The prefix takePrefix returns fits, and one grapheme more would not     *)
(* unless there is none.                                                   *)
(***************************************************************************)
LEMMA PrefixTaken ==
  ASSUME NEW t \in Seq(Graphemes), NEW w \in Nat
  PROVE  \E n \in 0..Len(t) :
            /\ TakePrefix(t, w) = SubSeq(t, 1, n)
            /\ DisplayWidth(SubSeq(t, 1, n)) <= w
            /\ n = Len(t) \/ DisplayWidth(SubSeq(t, 1, n + 1)) > w
<1> DEFINE Fits(n) == DisplayWidth(SubSeq(t, 1, n)) <= w
           Over(n) == DisplayWidth(SubSeq(t, 1, n + 1)) > w
           Cut(n)  == (n = 0 \/ Fits(n)) /\ (n = Len(t) \/ Over(n))
           S == {n \in 0..Len(t) : n = Len(t) \/ Over(n)}
<1>1. Fits(0)
  <2>1. SubSeq(t, 1, 0) = <<>>  OBVIOUS
  <2>2. DisplayWidth(SubSeq(t, 1, 0)) = 0  BY <2>1, WidthOfEmpty
  <2> QED BY <2>2
<1>2. \A n \in 0..Len(t) : DisplayWidth(SubSeq(t, 1, n)) \in Nat
  <2> TAKE n \in 0..Len(t)
  <2>1. SubSeq(t, 1, n) \in Seq(Graphemes)  OBVIOUS
  <2> QED BY <2>1, WidthType
<1>3. \E n \in 0..Len(t) : Cut(n)
  <2>1. S \subseteq Nat /\ S # {}
    <3>1. Len(t) \in S  OBVIOUS
    <3> QED BY <3>1
  <2>2. PICK n \in S : \A k \in S : n <= k
    <3> HIDE DEF S
    <3> QED BY <2>1, Least
  <2>3. CASE n = 0  BY <2>2, <2>3
  <2>4. CASE n # 0
    <3>1. n - 1 \in 0..Len(t) /\ (n - 1) + 1 = n /\ n - 1 # Len(t)  BY <2>4
    <3>2. n - 1 \notin S
      <4> HIDE DEF S
      <4> QED BY <2>2, <3>1
    <3>3. ~ Over(n - 1)
      <4> HIDE DEF Over
      <4> QED BY <3>1, <3>2
    <3>4. Fits(n)  BY <1>2, <3>1, <3>3
    <3> HIDE DEF Fits, Over
    <3> QED BY <3>4
  <2> QED BY <2>3, <2>4
<1> DEFINE n == CHOOSE n \in 0..Len(t) : Cut(n)
<1>4. n \in 0..Len(t) /\ Cut(n)
  <2> HIDE DEF Cut
  <2> QED BY <1>3
<1>5. TakePrefix(t, w) = SubSeq(t, 1, n)  BY DEF TakePrefix
<1> HIDE DEF n
<1> QED BY <1>1, <1>4, <1>5

(***************************************************************************)
(* A cut wastes at most one cell, where a wide grapheme did not fit.       *)
(***************************************************************************)
LEMMA PrefixWidth ==
  ASSUME NEW t \in Seq(Graphemes), NEW w \in Nat
  PROVE  /\ TakePrefix(t, w) \in Seq(Graphemes)
         /\ DisplayWidth(TakePrefix(t, w)) \in 0..w
         /\ t \in Seq(Graphemes \ {"missing"}) /\ DisplayWidth(t) > w =>
               DisplayWidth(TakePrefix(t, w)) >= w - 1
<1>1. PICK n \in 0..Len(t) :
            /\ TakePrefix(t, w) = SubSeq(t, 1, n)
            /\ DisplayWidth(SubSeq(t, 1, n)) <= w
            /\ n = Len(t) \/ DisplayWidth(SubSeq(t, 1, n + 1)) > w
  BY PrefixTaken
<1>2. SubSeq(t, 1, n) \in Seq(Graphemes)  OBVIOUS
<1>3. DisplayWidth(SubSeq(t, 1, n)) \in Nat  BY <1>2, WidthType
<1>4. ASSUME t \in Seq(Graphemes \ {"missing"}), DisplayWidth(t) > w
      PROVE  DisplayWidth(SubSeq(t, 1, n)) >= w - 1
  <2>1. n # Len(t)
    <3>1. SubSeq(t, 1, Len(t)) = t  BY SubSeqFull
    <3>2. DisplayWidth(t) \in Nat  BY WidthType
    <3>3. SUFFICES ASSUME n = Len(t)  PROVE FALSE  OBVIOUS
    <3>4. DisplayWidth(SubSeq(t, 1, n)) = DisplayWidth(t)  BY <3>1, <3>3
    <3> QED BY <1>1, <1>4, <3>2, <3>4
  <2>2. n + 1 \in 1..Len(t)  BY <2>1
  <2>3. PICK f : Sums(f, t)  BY WidthUnfolds
  <2>4. f[n + 1] = f[n] + Cells[t[n + 1]] /\ f[0] = 0 /\ f[n] \in Nat /\ (n + 1) - 1 = n
    BY <2>2, <2>3 DEF Sums
  <2>5. t[n + 1] \in Graphemes \ {"missing"}  BY <1>4, <2>2
  <2>6. Cells[t[n + 1]] \in 0..2  BY <2>5, CellsType
  <2>7. DisplayWidth(SubSeq(t, 1, n)) = f[n] - f[1 - 1]  BY <2>3, WidthOfSubSeq
  <2>8. DisplayWidth(SubSeq(t, 1, n + 1)) = f[n + 1] - f[1 - 1]  BY <2>2, <2>3, WidthOfSubSeq
  <2> QED BY <1>1, <2>1, <2>4, <2>6, <2>7, <2>8
<1> QED BY <1>1, <1>2, <1>3, <1>4

-----------------------------------------------------------------------------
(* Graphemes that meet.                                                    *)

\* In what is displayed, no lone indicator is followed by one it would join;
\* where none follows an indicator, nothing is narrowed by being joined.
LonesTrail(t) == \A i \in 1..Len(t) - 1 : t[i] \in Lone => t[i + 1] \notin Indicators
LonesLead(t)  == \A i \in 1..Len(t) - 1 : t[i + 1] \in Lone => t[i] \notin Indicators

(***************************************************************************)
(* Indicators are lone or flags; two lone ones make a flag.                *)
(***************************************************************************)
LEMMA IndicatorsType ==
  /\ Lone = {"A", "B"} /\ Flags = {"AA", "AB", "BA", "BB"} /\ Indicators = Lone \cup Flags
  /\ \A g \in Indicators : g \in Graphemes /\ Cells[g] = 2 /\ First[g] \in Lone
  /\ \A g \in Flags : Second[g] \in Lone
  /\ \A x, y \in Lone : Flag(x, y) \in Flags
<1>1. Lone = {"A", "B"} /\ Flags = {"AA", "AB", "BA", "BB"} /\ Indicators = Lone \cup Flags
  BY DEF Lone, Flags, Indicators, First, Second
<1>2. \A g \in Indicators : g \in Graphemes /\ Cells[g] = 2 /\ First[g] \in Lone
  BY <1>1 DEF Graphemes, Cells, First
<1>3. \A g \in Flags : Second[g] \in Lone
  BY <1>1 DEF Second
<1>4. ASSUME NEW x \in Lone, NEW y \in Lone
      PROVE  \E flag \in Flags : First[flag] = x /\ Second[flag] = y
  <2>1. First["AA"] = "A" /\ First["AB"] = "A" /\ First["BA"] = "B" /\ First["BB"] = "B"
        /\ Second["AA"] = "A" /\ Second["AB"] = "B" /\ Second["BA"] = "A" /\ Second["BB"] = "B"
    BY DEF First, Second
  <2> QED BY <1>1, <1>4, <2>1
<1>5. \A x, y \in Lone : Flag(x, y) \in Flags
  BY <1>4 DEF Flag
<1> QED BY <1>1, <1>2, <1>3, <1>5

(***************************************************************************)
(* A text that is not empty is its front and its last grapheme.            *)
(***************************************************************************)
LEMMA FrontAndLast ==
  ASSUME NEW X, NEW d \in Seq(X), d # <<>>
  PROVE  /\ Len(d) \in Nat \ {0} /\ Last(d) = d[Len(d)] /\ Last(d) \in X
         /\ Front(d) \in Seq(X) /\ Len(Front(d)) = Len(d) - 1
         /\ \A i \in 1..Len(d) - 1 : Front(d)[i] = d[i]
         /\ d = Front(d) \o <<Last(d)>>
<1>1. Len(d) \in Nat \ {0}  OBVIOUS
<1>2. Front(d) = SubSeq(d, 1, Len(d) - 1)  BY DEF Front
<1>3. Front(d) \in Seq(X) /\ Len(Front(d)) = Len(d) - 1
      /\ \A i \in 1..Len(d) - 1 : Front(d)[i] = d[i]
  <2>1. Len(d) - 1 \in 0..Len(d) /\ \A i \in 1..Len(d) - 1 : i \in 1..Len(d)  BY <1>1
  <2>2. \A m \in 0..Len(d) : SubSeq(d, 1, m) \in Seq(X) /\ Len(SubSeq(d, 1, m)) = m
                               /\ \A i \in 1..m : SubSeq(d, 1, m)[i] = d[i]
    OBVIOUS
  <2> QED BY <1>2, <2>1, <2>2
<1>4. Last(d) = d[Len(d)] /\ Last(d) \in X  BY <1>1 DEF Last
<1> DEFINE e == Front(d) \o <<Last(d)>>
<1>5. e \in Seq(X) /\ Len(e) = Len(d)  BY <1>1, <1>3, <1>4
<1>6. ASSUME NEW i \in 1..Len(d)  PROVE  e[i] = d[i]
  <2>1. CASE i = Len(d)  BY <1>1, <1>3, <1>4, <2>1
  <2>2. CASE i # Len(d)
    <3>1. i \in 1..Len(d) - 1  BY <1>1, <2>2
    <3> QED BY <1>1, <1>3, <3>1
  <2> QED BY <2>1, <2>2
<1>7. e = d
  <2> HIDE DEF e
  <2> QED BY <1>5, <1>6, SeqEqual
<1> QED BY <1>1, <1>3, <1>4, <1>7

(***************************************************************************)
(* One grapheme more: it joins the last one or is appended.                *)
(***************************************************************************)
LEMMA Joined ==
  ASSUME NEW X, Indicators \subseteq X, X \subseteq Graphemes,
         NEW d \in Seq(X), NEW g \in X
  PROVE  /\ Join(d, g) \in Seq(X)
         /\ Join(d, g) # <<>>
         /\ Last(Join(d, g)) \in Lone => g \in Indicators
         /\ LonesTrail(d) => LonesTrail(Join(d, g))
         /\ ~(d # <<>> /\ Last(d) \in Lone /\ g \in Indicators) => Join(d, g) = Append(d, g)
         /\ (g \in Lone => d = <<>> \/ Last(d) \notin Lone) =>
               DisplayWidth(Join(d, g)) = DisplayWidth(d) + Cells[g]
<1> DEFINE Joins == d # <<>> /\ Last(d) \in Lone /\ g \in Indicators
<1>0. Lone \subseteq Indicators /\ Flags \subseteq Indicators /\ Lone \cap Flags = {}
      /\ Indicators \subseteq Lone \cup Flags
  BY IndicatorsType
<1>1. CASE ~Joins
  <2>1. Join(d, g) = Append(d, g)  BY <1>1 DEF Join
  <2>2. /\ Append(d, g) \in Seq(X) /\ Len(Append(d, g)) = Len(d) + 1
        /\ Append(d, g)[Len(d) + 1] = g
        /\ \A i \in 1..Len(d) : Append(d, g)[i] = d[i]
    OBVIOUS
  <2>3. Append(d, g) # <<>> /\ Last(Append(d, g)) = g  BY <2>2 DEF Last
  <2>4. ASSUME LonesTrail(d)  PROVE LonesTrail(Append(d, g))
    <3> SUFFICES ASSUME NEW i \in 1..Len(d), d[i] \in Lone
                 PROVE  Append(d, g)[i + 1] \notin Indicators
      BY <2>2 DEF LonesTrail
    <3>1. CASE i = Len(d)
      <4>1. d # <<>> /\ Last(d) = d[i]  BY <3>1 DEF Last
      <4> QED BY <1>1, <2>2, <3>1, <4>1
    <3>2. CASE i # Len(d)
      <4>1. i \in 1..Len(d) - 1 /\ i + 1 \in 1..Len(d)  BY <3>2
      <4> QED BY <2>2, <2>4, <4>1 DEF LonesTrail
    <3> QED BY <3>1, <3>2
  <2>5. DisplayWidth(Append(d, g)) = DisplayWidth(d) + Cells[g]
    <3>1. Append(d, g) = d \o <<g>> /\ d \in Seq(Graphemes) /\ <<g>> \in Seq(Graphemes)
          /\ g \in Graphemes
      OBVIOUS
    <3> QED BY <3>1, WidthOfConcat, WidthOfOne
  <2> QED BY <1>0, <2>1, <2>2, <2>3, <2>4, <2>5
<1>2. CASE Joins
  <2> DEFINE f == Flag(Last(d), First[g])
             k == Len(d)
             e == Front(d) \o <<f>>
  <2>1. f \in Flags /\ f \in X /\ f \notin Lone
    BY <1>0, <1>2, IndicatorsType
  <2> HIDE DEF f
  <2>2. /\ k \in Nat \ {0} /\ Last(d) = d[k]
        /\ Front(d) \in Seq(X) /\ Len(Front(d)) = k - 1
        /\ \A i \in 1..k - 1 : Front(d)[i] = d[i]
        /\ d = Front(d) \o <<Last(d)>>
    BY <1>2, FrontAndLast
  <2>3. /\ e \in Seq(X) /\ Len(e) = k /\ e[k] = f
        /\ \A i \in 1..k - 1 : e[i] = d[i]
    BY <2>1, <2>2
  <2>4. DisplayWidth(e) = DisplayWidth(d)
    <3>1. Front(d) \in Seq(Graphemes) /\ <<f>> \in Seq(Graphemes) /\ <<Last(d)>> \in Seq(Graphemes)
          /\ f \in Graphemes /\ Last(d) \in Graphemes
      BY <1>0, <1>2, <2>1, <2>2
    <3>2. DisplayWidth(e) = DisplayWidth(Front(d)) + Cells[f]
      BY <3>1, WidthOfConcat, WidthOfOne
    <3>3. DisplayWidth(Front(d) \o <<Last(d)>>) = DisplayWidth(Front(d)) + Cells[Last(d)]
      BY <3>1, WidthOfConcat, WidthOfOne
    <3>4. Cells[f] = 2 /\ Cells[Last(d)] = 2  BY <1>0, <1>2, <2>1, IndicatorsType
    <3> QED BY <2>2, <3>2, <3>3, <3>4
  <2>5. ASSUME LonesTrail(d), NEW i \in 1..k, e[i] \in Lone
        PROVE  i \in 1..k - 1 /\ e[i + 1] \notin Indicators
    <3>1. i \in 1..k - 1  BY <2>1, <2>2, <2>3, <2>5
    <3>2. d[i] \in Lone  BY <2>3, <2>5, <3>1
    <3>3. d[i + 1] \notin Indicators  BY <2>5, <3>1, <3>2 DEF LonesTrail
    <3>4. i + 1 # k  BY <1>2, <1>0, <2>2, <3>3
    <3>5. e[i + 1] = d[i + 1]  BY <2>2, <2>3, <3>1, <3>4
    <3> QED BY <3>1, <3>3, <3>5
  <2>6. CASE g \in Lone
    <3>1. Join(d, g) = e \o <<>>  BY <1>2, <2>6 DEF Join, f
    <3>2. e \o <<>> = e  BY <2>3
    <3> HIDE DEF e
    <3>3. e # <<>> /\ Last(e) = f  BY <2>2, <2>3 DEF Last
    <3>4. LonesTrail(d) => LonesTrail(e)  BY <2>3, <2>5 DEF LonesTrail
    <3> QED BY <1>2, <2>1, <2>3, <2>6, <3>1, <3>2, <3>3, <3>4
  <2>7. CASE g \notin Lone
    <3> DEFINE r == e \o <<Second[g]>>
    <3>1. Join(d, g) = r  BY <1>2, <2>7 DEF Join, f
    <3>2. Second[g] \in Lone /\ Second[g] \in X /\ Cells[Second[g]] = 2 /\ Cells[g] = 2
      BY <1>0, <1>2, <2>7, IndicatorsType
    <3> HIDE DEF e
    <3>3. r \in Seq(X) /\ Len(r) = k + 1 /\ \A i \in 1..k : r[i] = e[i]
      BY <2>2, <2>3, <3>2
    <3>4. DisplayWidth(r) = DisplayWidth(d) + Cells[g]
      <4>1. e \in Seq(Graphemes) /\ <<Second[g]>> \in Seq(Graphemes) /\ Second[g] \in Graphemes
        BY <2>3, <3>2
      <4> QED BY <2>4, <3>2, <4>1, WidthOfConcat, WidthOfOne
    <3> HIDE DEF r
    <3>5. LonesTrail(d) => LonesTrail(r)
      <4> SUFFICES ASSUME LonesTrail(d), NEW i \in 1..k, r[i] \in Lone
                   PROVE  r[i + 1] \notin Indicators
        BY <2>2, <3>3 DEF LonesTrail
      <4>1. i \in 1..k - 1 /\ e[i + 1] \notin Indicators  BY <2>5, <3>3
      <4> QED BY <2>2, <3>3, <4>1
    <3>6. r # <<>>  BY <2>2, <3>3
    <3> QED BY <1>2, <3>1, <3>3, <3>4, <3>5, <3>6
  <2> QED BY <2>6, <2>7
<1> QED BY <1>1, <1>2

\* h[i] is how the first i graphemes are displayed.
Displays(h, t, X) ==
  /\ h \in [0..Len(t) -> Seq(X)]
  /\ h[0] = <<>>
  /\ \A i \in 1..Len(t) : h[i] = Join(h[i - 1], t[i])

(***************************************************************************)
(* Graphemes are joined from the left.                                     *)
(***************************************************************************)
LEMMA SegmentedUnfolds ==
  ASSUME NEW X, Indicators \subseteq X, X \subseteq Graphemes, NEW t \in Seq(X)
  PROVE  \E h : Displays(h, t, X) /\ Segmented(t) = h[Len(t)]
<1> DEFINE n == Len(t)
           op == [p \in Seq(X) \X (1..n) |-> Join(p[1], t[p[2]])]
           Folds(iter) == iter = [s \in SUBSET (1..n) |->
                             IF s = {} THEN <<>> ELSE Join(iter[s \ {Max(s)}], t[Max(s)])]
           iter == CHOOSE iter : Folds(iter)
<1>1. n \in Nat /\ DOMAIN t = 1..n /\ \A i \in 1..n : t[i] \in X
  OBVIOUS
<1>2. \A d \in Seq(X), i \in 1..n : Join(d, t[i]) \in Seq(X)
  BY <1>1, Joined
<1>3. op \in [Seq(X) \X (1..n) -> Seq(X)]
  <2> HIDE DEF n
  <2> QED BY <1>2
<1>4. PICK it \in [SUBSET (1..n) -> Seq(X)] : Recurs(it, n, <<>>, op)
  <2>1. <<>> \in Seq(X)  OBVIOUS
  <2> HIDE DEF n, op
  <2> QED BY <1>1, <1>3, <2>1, FoldExists
<1>5. ASSUME NEW s \in SUBSET (1..n), s # {}
      PROVE  op[<<it[s \ {Max(s)}], Max(s)>>] = Join(it[s \ {Max(s)}], t[Max(s)])
  <2>1. Max(s) \in 1..n  BY <1>1, <1>5, MaxIn
  <2>2. it[s \ {Max(s)}] \in Seq(X)  BY <1>4
  <2> HIDE DEF n
  <2> QED BY <2>1, <2>2
<1>6. Folds(it)
  <2> HIDE DEF op
  <2> QED BY <1>4, <1>5 DEF Recurs
<1>7. Folds(iter)
  <2> HIDE DEF Folds
  <2> QED BY <1>6
<1>8. Segmented(t) = iter[1..n]
  BY <1>1 DEF Segmented, FoldLeft, MapThenFoldSet
<1> HIDE DEF iter, op
<1>9. iter[{}] = <<>>
  BY <1>7
<1>10. ASSUME NEW i \in 1..n  PROVE  iter[1..i] = Join(iter[1..i-1], t[i])
  <2>1. Max(1..i) = i  BY <1>1, MaxOfPrefix
  <2>2. (1..i) \ {i} = 1..i-1 /\ 1..i \in SUBSET (1..n) /\ 1..i # {}  BY <1>1
  <2> QED BY <1>7, <2>1, <2>2
<1> DEFINE h == [i \in 0..n |-> iter[1..i]]
<1>11. h[0] = <<>> /\ h[n] = iter[1..n]
  BY <1>1, <1>9
<1>12. \A i \in 1..n : h[i] = Join(h[i - 1], t[i])
  BY <1>1, <1>10
<1>13. h \in [0..n -> Seq(X)]
  <2> DEFINE S == {i \in Nat : i <= n => h[i] \in Seq(X)}
  <2>1. 0 \in S
    <3>1. <<>> \in Seq(X)  OBVIOUS
    <3> QED BY <1>11, <3>1
  <2>2. ASSUME NEW i \in S \cap Nat  PROVE  i + 1 \in S
    <3> SUFFICES ASSUME i + 1 <= n  PROVE h[i + 1] \in Seq(X)  OBVIOUS
    <3>1. i + 1 \in 1..n /\ h[i] \in Seq(X) /\ (i + 1) - 1 = i  BY <1>1
    <3>2. h[i + 1] = Join(h[i], t[i + 1])
      <4> HIDE DEF h
      <4> QED BY <1>12, <3>1
    <3> HIDE DEF h
    <3> QED BY <1>2, <3>1, <3>2
  <2>3. Nat \subseteq S
    <3> HIDE DEF S
    <3> QED BY <2>1, <2>2, Induction
  <2>4. \A i \in 0..n : h[i] \in Seq(X)
    <3> HIDE DEF h
    <3> QED BY <1>1, <2>3
  <2> QED BY <2>4
<1>14. Displays(h, t, X)
  <2> HIDE DEF h
  <2> QED BY <1>11, <1>12, <1>13 DEF Displays
<1> QED BY <1>8, <1>11, <1>14

(***************************************************************************)
(* What is displayed has no indicators left to join, and is as wide as the *)
(* graphemes it is made of if no lone indicator follows another one; and   *)
(* graphemes that are displayed already are displayed as they are.         *)
(***************************************************************************)
LEMMA SegmentedIs ==
  ASSUME NEW X, Indicators \subseteq X, X \subseteq Graphemes, NEW t \in Seq(X)
  PROVE  /\ Segmented(t) \in Seq(X)
         /\ LonesTrail(Segmented(t))
         /\ LonesLead(t) => DisplayWidth(Segmented(t)) = DisplayWidth(t)
         /\ LonesTrail(t) => Segmented(t) = t
<1>1. PICK h : Displays(h, t, X) /\ Segmented(t) = h[Len(t)]
  BY SegmentedUnfolds
<1> DEFINE n == Len(t)
<1>2. /\ n \in Nat /\ t \in Seq(Graphemes) /\ \A i \in 1..n : t[i] \in X
      /\ \A i \in 0..n : h[i] \in Seq(X)
      /\ h[0] = <<>>
  <2>1. n \in Nat /\ t \in Seq(Graphemes) /\ \A i \in 1..n : t[i] \in X  OBVIOUS
  <2>2. h \in [0..n -> Seq(X)] /\ h[0] = <<>>  BY <1>1 DEF Displays
  <2> HIDE DEF n
  <2> QED BY <2>1, <2>2
<1>3. \A i \in Nat : i + 1 <= n => i + 1 \in 1..n /\ h[i + 1] = Join(h[i], t[i + 1])
  <2> TAKE i \in Nat
  <2> SUFFICES ASSUME i + 1 <= n  PROVE i + 1 \in 1..n /\ h[i + 1] = Join(h[i], t[i + 1])
    OBVIOUS
  <2>1. i + 1 \in 1..n /\ (i + 1) - 1 = i  BY <1>2
  <2> QED BY <1>1, <2>1 DEF Displays
<1> HIDE DEF n
<1> DEFINE Fine(i) == /\ LonesTrail(h[i])
                      /\ h[i] # <<>> /\ Last(h[i]) \in Lone => i > 0 /\ t[i] \in Indicators
<1>4. \A i \in 0..n : Fine(i)
  <2> DEFINE S == {i \in Nat : i <= n => Fine(i)}
  <2>1. 0 \in S
    <3>1. LonesTrail(<<>>)  BY DEF LonesTrail
    <3> QED BY <1>2, <3>1
  <2>2. ASSUME NEW i \in S \cap Nat  PROVE  i + 1 \in S
    <3> SUFFICES ASSUME i + 1 <= n  PROVE Fine(i + 1)  OBVIOUS
    <3>1. i + 1 \in 1..n /\ h[i + 1] = Join(h[i], t[i + 1]) /\ i \in 0..n /\ Fine(i)
      BY <1>2, <1>3
    <3>2. h[i] \in Seq(X) /\ t[i + 1] \in X  BY <1>2, <3>1
    <3>3. /\ LonesTrail(Join(h[i], t[i + 1]))
          /\ Last(Join(h[i], t[i + 1])) \in Lone => t[i + 1] \in Indicators
      BY <3>1, <3>2, Joined
    <3> QED BY <3>1, <3>3
  <2>3. Nat \subseteq S
    <3> HIDE DEF S
    <3> QED BY <2>1, <2>2, Induction
  <2> HIDE DEF Fine
  <2> QED BY <1>2, <2>3
<1>5. ASSUME LonesLead(t)  PROVE  DisplayWidth(h[n]) = DisplayWidth(t)
  <2>1. PICK f : Sums(f, t) /\ DisplayWidth(t) = f[Len(t)]  BY <1>2, WidthUnfolds
  <2> DEFINE S == {i \in Nat : i <= n => DisplayWidth(h[i]) = f[i]}
  <2>2. 0 \in S  BY <1>2, <2>1, WidthOfEmpty DEF Sums
  <2>3. ASSUME NEW i \in S \cap Nat  PROVE  i + 1 \in S
    <3> SUFFICES ASSUME i + 1 <= n  PROVE DisplayWidth(h[i + 1]) = f[i + 1]  OBVIOUS
    <3>1. i + 1 \in 1..n /\ h[i + 1] = Join(h[i], t[i + 1]) /\ i \in 0..n
          /\ DisplayWidth(h[i]) = f[i] /\ (i + 1) - 1 = i
      BY <1>2, <1>3
    <3>2. h[i] \in Seq(X) /\ t[i + 1] \in X  BY <1>2, <3>1
    <3>3. ASSUME t[i + 1] \in Lone, h[i] # <<>>, Last(h[i]) \in Lone  PROVE FALSE
      <4>1. i > 0 /\ t[i] \in Indicators  BY <1>4, <3>1, <3>3
      <4>2. i \in 1..Len(t) - 1  BY <1>2, <3>1, <4>1 DEF n
      <4> QED BY <1>5, <3>3, <4>1, <4>2 DEF LonesLead
    <3>4. DisplayWidth(Join(h[i], t[i + 1])) = DisplayWidth(h[i]) + Cells[t[i + 1]]
      BY <3>2, <3>3, Joined
    <3>5. f[i + 1] = f[i] + Cells[t[i + 1]]  BY <2>1, <3>1 DEF Sums, n
    <3> QED BY <3>1, <3>4, <3>5
  <2>4. n \in S
    <3> HIDE DEF S
    <3> QED BY <1>2, <2>2, <2>3, Induction
  <2> QED BY <2>1, <2>4 DEF n
<1>6. ASSUME LonesTrail(t)  PROVE  h[n] = t
  <2> DEFINE S == {i \in Nat : i <= n => h[i] = SubSeq(t, 1, i)}
  <2>1. 0 \in S
    <3>1. SubSeq(t, 1, 0) = <<>>  OBVIOUS
    <3> QED BY <1>2, <3>1
  <2>2. ASSUME NEW i \in S \cap Nat  PROVE  i + 1 \in S
    <3> SUFFICES ASSUME i + 1 <= n  PROVE h[i + 1] = SubSeq(t, 1, i + 1)  OBVIOUS
    <3>1. i + 1 \in 1..n /\ h[i + 1] = Join(h[i], t[i + 1]) /\ i \in 0..n
          /\ h[i] = SubSeq(t, 1, i)
      BY <1>2, <1>3
    <3>2. h[i] \in Seq(X) /\ t[i + 1] \in X  BY <1>2, <3>1
    <3>3. Len(h[i]) = i /\ \A k \in 1..i : h[i][k] = t[k]  BY <1>2, <3>1 DEF n
    <3>4. ASSUME h[i] # <<>>, Last(h[i]) \in Lone, t[i + 1] \in Indicators  PROVE FALSE
      <4>1. i > 0  BY <1>4, <3>1, <3>4
      <4>2. Last(h[i]) = t[i]  BY <3>1, <3>3, <4>1 DEF Last
      <4>3. i \in 1..Len(t) - 1  BY <1>2, <3>1, <4>1 DEF n
      <4> QED BY <1>6, <3>4, <4>2, <4>3 DEF LonesTrail
    <3>5. Join(h[i], t[i + 1]) = Append(h[i], t[i + 1])  BY <3>2, <3>4, Joined
    <3>6. Append(SubSeq(t, 1, i), t[i + 1]) = SubSeq(t, 1, i + 1)
      <4> DEFINE a == Append(SubSeq(t, 1, i), t[i + 1])
                 b == SubSeq(t, 1, i + 1)
      <4>1. a \in Seq(X) /\ Len(a) = i + 1 /\ a[i + 1] = t[i + 1]
            /\ \A k \in 1..i : a[k] = t[k]
        BY <3>1, <3>2, <3>3
      <4>2. b \in Seq(X) /\ Len(b) = i + 1 /\ \A k \in 1..i + 1 : b[k] = t[k]
        BY <1>2, <3>1 DEF n
      <4> HIDE DEF a, b
      <4>3. \A k \in 1..i + 1 : a[k] = b[k]  BY <3>1, <4>1, <4>2
      <4>4. a = b  BY <4>1, <4>2, <4>3, SeqEqual
      <4> QED BY <4>4 DEF a, b
    <3> QED BY <3>1, <3>5, <3>6
  <2>3. n \in S
    <3> HIDE DEF S
    <3> QED BY <1>2, <2>1, <2>2, Induction
  <2> QED BY <1>2, <2>3, SubSeqFull DEF n
<1>7. n \in 0..n  BY <1>2
<1> QED BY <1>1, <1>2, <1>4, <1>5, <1>6, <1>7 DEF n

(***************************************************************************)
(* Read from its end, a text has its lone indicators the other way round.  *)
(***************************************************************************)
LEMMA LonesReversed ==
  ASSUME NEW t \in Seq(Graphemes), LonesTrail(t)
  PROVE  /\ LonesLead(Reverse(t))
         /\ ReadsAlike(t) => LonesTrail(Reverse(t))
<1> DEFINE r == Reverse(t)
<1>1. Len(r) = Len(t) /\ \A i \in 1..Len(t) : r[i] = t[(Len(t) - i) + 1]
  BY ReverseType
<1> HIDE DEF r
<1>2. ASSUME NEW i \in 1..Len(t) - 1
      PROVE  \E k \in 1..Len(t) - 1 : r[i] = t[k + 1] /\ r[i + 1] = t[k]
  <2>1. Len(t) - i \in 1..Len(t) - 1 /\ i \in 1..Len(t) /\ i + 1 \in 1..Len(t)
        /\ (Len(t) - (i + 1)) + 1 = Len(t) - i
    OBVIOUS
  <2> QED BY <1>1, <2>1
<1>3. LonesLead(r)  BY <1>1, <1>2, IndicatorsType DEF LonesLead, LonesTrail
<1>4. ASSUME ReadsAlike(t)  PROVE LonesTrail(r)
  <2> SUFFICES ASSUME NEW i \in 1..Len(t) - 1, r[i] \in Lone, r[i + 1] \in Indicators
               PROVE  FALSE
    BY <1>1 DEF LonesTrail
  <2>1. PICK k \in 1..Len(t) - 1 : r[i] = t[k + 1] /\ r[i + 1] = t[k]  BY <1>2
  <2>2. t[k + 1] \in Lone /\ t[k + 1] \in Indicators /\ t[k] \in Lone \cup Flags
    BY <2>1, IndicatorsType
  <2>3. t[k] \notin Lone  BY <2>2 DEF LonesTrail
  <2>4. t[k] \notin Flags  BY <1>4, <2>2 DEF ReadsAlike
  <2> QED BY <2>2, <2>3, <2>4
<1> QED BY <1>3, <1>4 DEF r

(***************************************************************************)
(* A part of a text has the neighbours it had.                             *)
(***************************************************************************)
LEMMA LonesOfSubSeq ==
  ASSUME NEW t \in Seq(Graphemes), NEW m \in 1..Len(t) + 1, NEW n \in m - 1..Len(t)
  PROVE  /\ LonesLead(t) => LonesLead(SubSeq(t, m, n))
         /\ LonesTrail(t) => LonesTrail(SubSeq(t, m, n))
<1> DEFINE s == SubSeq(t, m, n)
<1>1. Len(s) = n - m + 1 /\ \A i \in 1..n - m + 1 : s[i] = t[m - 1 + i]
  OBVIOUS
<1> HIDE DEF s
<1>2. ASSUME NEW i \in 1..Len(s) - 1
      PROVE  \E k \in 1..Len(t) - 1 : s[i] = t[k] /\ s[i + 1] = t[k + 1]
  <2>1. m - 1 + i \in 1..Len(t) - 1 /\ i \in 1..n - m + 1 /\ i + 1 \in 1..n - m + 1
        /\ m - 1 + (i + 1) = (m - 1 + i) + 1
    BY <1>1
  <2> QED BY <1>1, <2>1
<1>3. (LonesLead(t) => LonesLead(s)) /\ (LonesTrail(t) => LonesTrail(s))
  BY <1>2 DEF LonesLead, LonesTrail
<1> QED BY <1>3 DEF s

-----------------------------------------------------------------------------
(* Cutting from the end and in the middle.                                 *)

(***************************************************************************)
(* The suffix takeSuffix returns has graphemes of the text's kinds, and,   *)
(* of a text that is displayed as it is, the width of those collected from *)
(* its end; it is those graphemes if the text reads alike from its end.    *)
(***************************************************************************)
LEMMA SuffixTaken ==
  ASSUME NEW X, Indicators \subseteq X, X \subseteq Graphemes,
         NEW t \in Seq(X), NEW w \in Nat
  PROVE  /\ TakeSuffix(t, w) \in Seq(X)
         /\ LonesTrail(t) =>
               DisplayWidth(TakeSuffix(t, w)) = DisplayWidth(TakePrefix(Reverse(t), w))
         /\ LonesTrail(t) /\ ReadsAlike(t) =>
               \E n \in 0..Len(t) : TakeSuffix(t, w) = SubSeq(t, Len(t) - n + 1, Len(t))
<1> DEFINE r == Reverse(t)
<1>0. t \in Seq(Graphemes)  OBVIOUS
<1>1. r \in Seq(X) /\ r \in Seq(Graphemes) /\ Len(r) = Len(t)
      /\ \A i \in 1..Len(t) : r[i] = t[(Len(t) - i) + 1]
  BY <1>0, ReverseType
<1>2. LonesTrail(t) => LonesLead(r) /\ (ReadsAlike(t) => LonesTrail(r))
  BY <1>0, LonesReversed
<1> HIDE DEF r
<1>3. PICK n \in 0..Len(t) : TakePrefix(r, w) = SubSeq(r, 1, n)
  BY <1>1, PrefixTaken
<1> DEFINE s == SubSeq(r, 1, n)
<1>4. s \in Seq(X) /\ s \in Seq(Graphemes) /\ Len(s) = n /\ \A i \in 1..n : s[i] = r[i]
  BY <1>1
<1>5. LonesTrail(t) => LonesLead(s) /\ (ReadsAlike(t) => LonesTrail(s))
  <2>1. 1 \in 1..Len(r) + 1 /\ n \in 1 - 1..Len(r)  BY <1>1
  <2> QED BY <1>1, <1>2, <2>1, LonesOfSubSeq
<1> HIDE DEF s
<1> DEFINE u == Segmented(s)
           v == Reverse(u)
<1>6. /\ u \in Seq(X) /\ u \in Seq(Graphemes) /\ LonesTrail(u)
      /\ LonesLead(s) => DisplayWidth(u) = DisplayWidth(s)
      /\ LonesTrail(s) => u = s
  <2>1. u \in Seq(X)  BY <1>4, SegmentedIs
  <2> HIDE DEF u
  <2>2. u \in Seq(Graphemes)  BY <2>1
  <2> QED BY <1>4, <2>1, <2>2, SegmentedIs DEF u
<1> HIDE DEF u
<1>7. /\ v \in Seq(X) /\ v \in Seq(Graphemes) /\ LonesLead(v)
      /\ DisplayWidth(v) = DisplayWidth(u)
  BY <1>6, ReverseType, WidthOfReverse, LonesReversed
<1>8. TakeSuffix(t, w) = Segmented(v)
  BY <1>3 DEF TakeSuffix, ReverseGraphemes, r, s, u
<1> HIDE DEF v
<1>9. /\ Segmented(v) \in Seq(X)
      /\ DisplayWidth(Segmented(v)) = DisplayWidth(v)
      /\ LonesTrail(v) => Segmented(v) = v
  BY <1>7, SegmentedIs
<1>10. ASSUME LonesTrail(t), ReadsAlike(t)
       PROVE  Segmented(v) = SubSeq(t, Len(t) - n + 1, Len(t))
  <2> DEFINE e == SubSeq(t, Len(t) - n + 1, Len(t))
  <2>1. v = Reverse(s)  BY <1>5, <1>6, <1>10 DEF v
  <2>2. v \in Seq(Graphemes) /\ Len(v) = n /\ \A i \in 1..n : v[i] = s[(n - i) + 1]
    BY <1>4, <2>1, ReverseType
  <2>3. e \in Seq(Graphemes) /\ Len(e) = n /\ \A i \in 1..n : e[i] = t[Len(t) - n + i]
    BY <1>0
  <2>4. ASSUME NEW i \in 1..n  PROVE  v[i] = e[i]
    <3>1. n - i + 1 \in 1..n /\ n - i + 1 \in 1..Len(t)
          /\ Len(t) - (n - i + 1) + 1 = Len(t) - n + i
      BY <1>0
    <3>2. s[n - i + 1] = r[n - i + 1]  BY <1>4, <3>1
    <3>3. r[n - i + 1] = t[Len(t) - n + i]  BY <1>1, <3>1
    <3> HIDE DEF e
    <3> QED BY <2>2, <2>3, <3>2, <3>3
  <2>5. v = e
    <3> HIDE DEF e
    <3> QED BY <2>2, <2>3, <2>4, SeqEqual
  <2>6. LonesTrail(e)
    <3>1. Len(t) - n + 1 \in 1..Len(t) + 1 /\ Len(t) \in (Len(t) - n + 1) - 1..Len(t)
      BY <1>0
    <3> QED BY <1>0, <1>10, <3>1, LonesOfSubSeq
  <2> HIDE DEF e
  <2> QED BY <1>9, <2>5, <2>6 DEF e
<1> QED BY <1>3, <1>5, <1>6, <1>7, <1>8, <1>9, <1>10 DEF s, r

(***************************************************************************)
(* A cut in front of a suffix, too, wastes at most one cell.               *)
(***************************************************************************)
LEMMA SuffixWidth ==
  ASSUME NEW t \in Seq(Graphemes), LonesTrail(t), NEW w \in Nat
  PROVE  /\ TakeSuffix(t, w) \in Seq(Graphemes)
         /\ DisplayWidth(TakeSuffix(t, w)) \in 0..w
         /\ t \in Seq(Graphemes \ {"missing"}) /\ DisplayWidth(t) > w =>
               DisplayWidth(TakeSuffix(t, w)) >= w - 1
<1>1. Indicators \subseteq Graphemes  BY IndicatorsType
<1>2. /\ TakeSuffix(t, w) \in Seq(Graphemes)
      /\ DisplayWidth(TakeSuffix(t, w)) = DisplayWidth(TakePrefix(Reverse(t), w))
  BY <1>1, SuffixTaken
<1>3. Reverse(t) \in Seq(Graphemes)  BY ReverseType
<1>4. DisplayWidth(Reverse(t)) = DisplayWidth(t)  BY WidthOfReverse
<1>5. t \in Seq(Graphemes \ {"missing"}) => Reverse(t) \in Seq(Graphemes \ {"missing"})
  BY ReverseType
<1> QED BY <1>2, <1>3, <1>4, <1>5, PrefixWidth

(***************************************************************************)
(* truncate: the text, or a cut that fits and wastes at most one cell.     *)
(***************************************************************************)
LEMMA TruncateWidth ==
  ASSUME NEW t \in Seq(Graphemes), NEW w \in Nat \ {0}
  PROVE  /\ Truncate(t, w) \in Seq(Graphemes)
         /\ DisplayWidth(Truncate(t, w)) \in 0..w
         /\ t \in Seq(Graphemes \ {"missing"}) /\ DisplayWidth(t) > w =>
               DisplayWidth(Truncate(t, w)) >= w - 1
<1>1. DisplayWidth(t) \in Nat  BY WidthType
<1>2. Ellipsis \in Seq(Graphemes) /\ DisplayWidth(Ellipsis) = 1
  BY WidthOfOne, CellsType DEF Ellipsis
<1>3. CASE DisplayWidth(t) <= w
  <2>1. Truncate(t, w) = t  BY <1>3 DEF Truncate, OrFits
  <2> QED BY <1>1, <1>3, <2>1
<1>4. CASE ~(DisplayWidth(t) <= w) /\ w = 1
  <2>1. Truncate(t, w) = Ellipsis  BY <1>4 DEF Truncate, OrFits
  <2> QED BY <1>2, <1>4, <2>1
<1>5. CASE ~(DisplayWidth(t) <= w) /\ w # 1
  <2> DEFINE p == TakePrefix(t, w - 1)
  <2>1. Truncate(t, w) = p \o Ellipsis  BY <1>5 DEF Truncate, OrFits
  <2>2. w - 1 \in Nat /\ DisplayWidth(t) > w - 1  BY <1>1, <1>5
  <2>3. /\ p \in Seq(Graphemes)
        /\ DisplayWidth(p) \in 0..w - 1
        /\ t \in Seq(Graphemes \ {"missing"}) => DisplayWidth(p) >= (w - 1) - 1
    BY <2>2, PrefixWidth
  <2> HIDE DEF p
  <2>4. DisplayWidth(p \o Ellipsis) = DisplayWidth(p) + 1  BY <1>2, <2>3, WidthOfConcat
  <2> QED BY <1>2, <2>1, <2>3, <2>4
<1> QED BY <1>3, <1>4, <1>5

(***************************************************************************)
(* truncateMiddle cuts in two places and wastes at most one cell at each.  *)
(***************************************************************************)
LEMMA TruncateMiddleWidth ==
  ASSUME NEW t \in Seq(Graphemes), LonesTrail(t), NEW w \in Nat \ {0}
  PROVE  /\ DisplayWidth(TruncateMiddle(t, w)) \in 0..w
         /\ t \in Seq(Graphemes \ {"missing"}) /\ DisplayWidth(t) > w =>
               DisplayWidth(TruncateMiddle(t, w)) >= w - 2
<1>1. DisplayWidth(t) \in Nat  BY WidthType
<1>2. Ellipsis \in Seq(Graphemes) /\ DisplayWidth(Ellipsis) = 1
  BY WidthOfOne, CellsType DEF Ellipsis
<1>3. CASE DisplayWidth(t) <= w
  <2>1. TruncateMiddle(t, w) = t  BY <1>3 DEF TruncateMiddle, OrFits
  <2> QED BY <1>1, <1>3, <2>1
<1>4. CASE ~(DisplayWidth(t) <= w) /\ w = 1
  <2>1. TruncateMiddle(t, w) = Ellipsis  BY <1>4 DEF TruncateMiddle, OrFits
  <2> QED BY <1>2, <1>4, <2>1
<1>5. CASE ~(DisplayWidth(t) <= w) /\ w # 1
  <2> DEFINE a == w \div 2
             b == (w - 1) \div 2
             p == TakePrefix(t, a)
             s == TakeSuffix(t, b)
  <2>1. TruncateMiddle(t, w) = p \o Ellipsis \o s  BY <1>5 DEF TruncateMiddle, OrFits
  <2>2. a \in Nat /\ b \in Nat /\ a + b + 1 = w  OBVIOUS
  <2>8. DisplayWidth(t) > a /\ DisplayWidth(t) > b
    <3> HIDE DEF a, b
    <3> QED BY <1>1, <1>5, <2>2
  <2> HIDE DEF a, b
  <2>3. /\ p \in Seq(Graphemes)
        /\ DisplayWidth(p) \in 0..a
        /\ t \in Seq(Graphemes \ {"missing"}) => DisplayWidth(p) >= a - 1
    BY <2>2, <2>8, PrefixWidth
  <2>4. /\ s \in Seq(Graphemes)
        /\ DisplayWidth(s) \in 0..b
        /\ t \in Seq(Graphemes \ {"missing"}) => DisplayWidth(s) >= b - 1
    BY <2>2, <2>8, SuffixWidth
  <2> HIDE DEF p, s
  <2>5. p \o Ellipsis \in Seq(Graphemes)  BY <1>2, <2>3
  <2>6. DisplayWidth(p \o Ellipsis) = DisplayWidth(p) + 1  BY <1>2, <2>3, WidthOfConcat
  <2>7. DisplayWidth((p \o Ellipsis) \o s) = DisplayWidth(p) + 1 + DisplayWidth(s)
    BY <2>4, <2>5, <2>6, WidthOfConcat
  <2> QED BY <2>1, <2>2, <2>3, <2>4, <2>7
<1> QED BY <1>3, <1>4, <1>5

(***************************************************************************)
(* Between the padding of a label that does not fit is a text two cells    *)
(* narrower.                                                               *)
(***************************************************************************)
LEMMA PaddedLabel ==
  ASSUME NEW t \in Seq(Graphemes), NEW w \in Nat, w >= 3, DisplayWidth(t) > w, Padded(t)
  PROVE  /\ SubSeq(t, 2, Len(t) - 1) \in Seq(Graphemes)
         /\ DisplayWidth(SubSeq(t, 2, Len(t) - 1)) = DisplayWidth(t) - 2
         /\ t \in Seq(Graphemes \ {"missing"}) =>
               SubSeq(t, 2, Len(t) - 1) \in Seq(Graphemes \ {"missing"})
<1>1. PICK f : Sums(f, t) /\ DisplayWidth(t) = f[Len(t)]  BY WidthUnfolds
<1>2. t[1] = "space" /\ t[Len(t)] = "space" /\ Len(t) \in Nat \ {0}
  BY DEF Padded, Last
<1>3. f[0] = 0 /\ f[1] = f[1 - 1] + 1 /\ f[Len(t)] = f[Len(t) - 1] + 1
  BY <1>1, <1>2, CellsType DEF Sums
<1>4. f[1] = 1  BY <1>3
<1>5. Len(t) # 1
  <2>1. SUFFICES ASSUME Len(t) = 1  PROVE FALSE  OBVIOUS
  <2>2. f[Len(t)] = 1  BY <1>4, <2>1
  <2> QED BY <1>1, <2>2
<1>6. DisplayWidth(SubSeq(t, 2, Len(t) - 1)) = f[Len(t) - 1] - f[2 - 1]
  <2>3. \A k \in Nat \ {0} : k # 1 => k >= 2  OBVIOUS
  <2>2. Len(t) >= 2  BY <1>2, <1>5, <2>3
  <2>1. 2 \in 1..Len(t) + 1 /\ Len(t) - 1 \in 2 - 1..Len(t)  BY <2>2
  <2> QED BY <1>1, <2>1, WidthOfSubSeq
<1>7. f[Len(t) - 1] \in Nat
  <2>1. Len(t) - 1 \in 0..Len(t)  BY <1>2
  <2> QED BY <1>1, <2>1 DEF Sums
<1>8. DisplayWidth(SubSeq(t, 2, Len(t) - 1)) = DisplayWidth(t) - 2
  BY <1>1, <1>3, <1>4, <1>6, <1>7
<1>9. \A X : t \in Seq(X) => SubSeq(t, 2, Len(t) - 1) \in Seq(X)
  BY <1>2, <1>5
<1> QED BY <1>8, <1>9

(***************************************************************************)
(* applyMaxWidth: the label fits, wastes at most one cell when it was cut, *)
(* and keeps its padding.                                                  *)
(***************************************************************************)
LEMMA MaxWidthApplied ==
  ASSUME NEW t \in Seq(Graphemes), NEW w \in Nat
  PROVE  /\ ApplyMaxWidth(t, w) \in Seq(Graphemes)
         /\ w > 0 => DisplayWidth(ApplyMaxWidth(t, w)) <= w
         /\ t \in Seq(Graphemes \ {"missing"}) /\ ApplyMaxWidth(t, w) # t =>
               DisplayWidth(ApplyMaxWidth(t, w)) >= w - 1
         /\ w \notin {1, 2} /\ Padded(t) => Padded(ApplyMaxWidth(t, w))
<1>1. DisplayWidth(t) \in Nat  BY WidthType
<1>2. CASE w <= 0 \/ DisplayWidth(t) <= w
  <2>1. ApplyMaxWidth(t, w) = t  BY <1>2 DEF ApplyMaxWidth
  <2> QED BY <1>2, <2>1
<1>3. CASE ~(w <= 0 \/ DisplayWidth(t) <= w) /\ w >= 3 /\ Padded(t)
  <2> DEFINE mid == SubSeq(t, 2, Len(t) - 1)
             cut == Truncate(mid, w - 2)
  <2>1. ApplyMaxWidth(t, w) = Space \o cut \o Space  BY <1>3 DEF ApplyMaxWidth
  <2>2. /\ mid \in Seq(Graphemes)
        /\ DisplayWidth(mid) = DisplayWidth(t) - 2
        /\ t \in Seq(Graphemes \ {"missing"}) => mid \in Seq(Graphemes \ {"missing"})
    <3>1. DisplayWidth(t) > w  BY <1>1, <1>3
    <3> QED BY <1>3, <3>1, PaddedLabel
  <2>3. w - 2 \in Nat \ {0} /\ DisplayWidth(mid) > w - 2
    <3> HIDE DEF mid
    <3> QED BY <1>1, <1>3, <2>2
  <2> HIDE DEF mid
  <2>4. /\ cut \in Seq(Graphemes)
        /\ DisplayWidth(cut) \in 0..w - 2
        /\ t \in Seq(Graphemes \ {"missing"}) => DisplayWidth(cut) >= (w - 2) - 1
    BY <2>2, <2>3, TruncateWidth
  <2>5. Space \in Seq(Graphemes) /\ DisplayWidth(Space) = 1
    BY WidthOfOne, CellsType DEF Space
  <2> HIDE DEF cut
  <2>6. Space \o cut \in Seq(Graphemes) /\ DisplayWidth(Space \o cut) = 1 + DisplayWidth(cut)
    BY <2>4, <2>5, WidthOfConcat
  <2>7. DisplayWidth((Space \o cut) \o Space) = 1 + DisplayWidth(cut) + 1
    BY <2>5, <2>6, WidthOfConcat
  <2>8. (Space \o cut) \o Space \in Seq(Graphemes)  BY <2>5, <2>6
  <2>9. Padded((Space \o cut) \o Space)
    <3> DEFINE r == (Space \o cut) \o Space
    <3>1. Len(r) = Len(cut) + 2 /\ Len(cut) \in Nat /\ r[1] = "space" /\ r[Len(cut) + 2] = "space"
      BY <2>4 DEF Space
    <3>2. r \in Seq(Graphemes)  BY <2>8
    <3> HIDE DEF r
    <3>3. r # <<>> /\ Head(r) = r[1]  BY <3>1, <3>2
    <3>4. Padded(r)  BY <3>1, <3>3 DEF Padded, Last
    <3> QED BY <3>4 DEF r
  <2> DEFINE r == (Space \o cut) \o Space
  <2>10. DisplayWidth(r) = DisplayWidth(cut) + 2  BY <2>4, <2>7
  <2> HIDE DEF r
  <2>11. DisplayWidth(r) <= w /\ (t \in Seq(Graphemes \ {"missing"}) => DisplayWidth(r) >= w - 1)
    BY <1>3, <2>4, <2>10
  <2>12. ApplyMaxWidth(t, w) = r /\ r \in Seq(Graphemes) /\ Padded(r)
    BY <2>1, <2>8, <2>9 DEF r
  <2> QED BY <2>11, <2>12
<1>4. CASE ~(w <= 0 \/ DisplayWidth(t) <= w) /\ ~(w >= 3 /\ Padded(t))
  <2>1. ApplyMaxWidth(t, w) = Truncate(t, w)  BY <1>4 DEF ApplyMaxWidth
  <2>2. w \in Nat \ {0} /\ DisplayWidth(t) > w  BY <1>1, <1>4
  <2>3. w \notin {1, 2} => ~Padded(t)  BY <1>4, <2>2
  <2>4. /\ Truncate(t, w) \in Seq(Graphemes)
        /\ DisplayWidth(Truncate(t, w)) \in 0..w
        /\ t \in Seq(Graphemes \ {"missing"}) => DisplayWidth(Truncate(t, w)) >= w - 1
    BY <2>2, TruncateWidth
  <2> QED BY <2>1, <2>3, <2>4
<1> QED BY <1>2, <1>3, <1>4

(***************************************************************************)
(* strings.TrimSpace adds nothing, so a trimmed label still fits.          *)
(***************************************************************************)
LEMMA TrimmedWidth ==
  ASSUME NEW X, X \subseteq Graphemes, NEW t \in Seq(X)
  PROVE  /\ TrimSpace(t) \in Seq(X)
         /\ DisplayWidth(TrimSpace(t)) <= DisplayWidth(t)
<1> DEFINE solid == {i \in DOMAIN t : t[i] # "space"}
           m == Min(solid)
           n == Max(solid)
<1>0. t \in Seq(Graphemes)  OBVIOUS
<1>1. DisplayWidth(t) \in Nat  BY <1>0, WidthType
<1>2. CASE solid = {}
  <2>1. TrimSpace(t) = <<>>  BY <1>2 DEF TrimSpace
  <2> QED BY <1>1, <2>1, WidthOfEmpty
<1>3. CASE solid # {}
  <2>1. TrimSpace(t) = SubSeq(t, m, n)  BY <1>3 DEF TrimSpace
  <2>2. solid \in SUBSET (1..Len(t))  OBVIOUS
  <2> HIDE DEF solid
  <2>3. m \in solid /\ n \in solid /\ m <= n
    <3>1. Len(t) \in Nat  OBVIOUS
    <3>2. Max(solid) \in solid  BY <1>3, <2>2, <3>1, MaxIn
    <3>3. Min(solid) \in solid /\ \A k \in solid : Min(solid) <= k
      BY <1>3, <2>2, <3>1, MinIn
    <3> QED BY <3>2, <3>3
  <2>4. m \in 1..Len(t) /\ n \in 1..Len(t)  BY <2>2, <2>3
  <2> HIDE DEF m, n
  <2>5. PICK f : Sums(f, t) /\ DisplayWidth(t) = f[Len(t)]  BY <1>0, WidthUnfolds
  <2>6. m \in 1..Len(t) + 1 /\ n \in m - 1..Len(t)  BY <2>3, <2>4
  <2>7. DisplayWidth(SubSeq(t, m, n)) = f[n] - f[m - 1]
    BY <1>0, <2>5, <2>6, WidthOfSubSeq
  <2>8. f[m - 1] \in Nat /\ f[n] \in Nat /\ f[Len(t)] \in Nat /\ f[n] <= f[Len(t)]
    <3>1. m - 1 \in 0..Len(t) /\ n \in 0..Len(t) /\ Len(t) \in n..Len(t) /\ n \in n..Len(t)
      BY <2>4
    <3>2. Len(t) \in m - 1..Len(t)  BY <3>1
    <3> QED BY <1>0, <2>5, <3>1, <3>2, SumsGrow
  <2>9. SubSeq(t, m, n) \in Seq(X)  BY <2>4
  <2> QED BY <2>1, <2>5, <2>7, <2>8, <2>9
<1> QED BY <1>2, <1>3

-----------------------------------------------------------------------------
(* What is shown.                                                          *)

Displayable == Graphemes \ {"control", "missing"}

(***************************************************************************)
(* No missing value is present, and nothing is added.                      *)
(***************************************************************************)
LEMMA PresentType ==
  ASSUME NEW X, NEW t \in Seq(X)
  PROVE  Present(t) \in Seq(X \ {"missing"})
<1> DEFINE n == Len(t)
           Y == X \ {"missing"}
           Kept(kept, g) == IF g = "missing" THEN kept ELSE Append(kept, g)
           op == [p \in Seq(Y) \X (1..n) |-> Kept(p[1], t[p[2]])]
           Folds(iter) == iter = [s \in SUBSET (1..n) |->
                             IF s = {} THEN <<>> ELSE Kept(iter[s \ {Max(s)}], t[Max(s)])]
           iter == CHOOSE iter : Folds(iter)
<1>1. n \in Nat /\ DOMAIN t = 1..n /\ \A i \in 1..n : t[i] \in X
  OBVIOUS
<1>2. \A kept \in Seq(Y), i \in 1..n : Kept(kept, t[i]) \in Seq(Y)
  BY <1>1
<1>3. op \in [Seq(Y) \X (1..n) -> Seq(Y)]
  <2> HIDE DEF Kept, Y, n
  <2> QED BY <1>2
<1>4. PICK it \in [SUBSET (1..n) -> Seq(Y)] : Recurs(it, n, <<>>, op)
  <2>1. <<>> \in Seq(Y)  OBVIOUS
  <2> HIDE DEF n, op, Y
  <2> QED  BY <1>1, <1>3, <2>1, FoldExists
<1>5. ASSUME NEW s \in SUBSET (1..n), s # {}
      PROVE  op[<<it[s \ {Max(s)}], Max(s)>>] = Kept(it[s \ {Max(s)}], t[Max(s)])
  <2>1. Max(s) \in 1..n  BY <1>1, <1>5, MaxIn
  <2>2. it[s \ {Max(s)}] \in Seq(Y)  BY <1>4
  <2> HIDE DEF Kept, Y, n
  <2> QED BY <2>1, <2>2
<1>6. Folds(it)
  <2> HIDE DEF op, Kept
  <2> QED BY <1>4, <1>5 DEF Recurs
<1>7. Folds(iter)
  <2> HIDE DEF Folds
  <2> QED BY <1>6
<1>8. Present(t) = iter[1..n]
  BY <1>1 DEF Present, FoldLeft, MapThenFoldSet
<1> HIDE DEF iter, op, Kept, Y
<1>9. iter[1..0] = <<>>
  <2>1. 1..0 = {} /\ {} \in SUBSET (1..n)  OBVIOUS
  <2> QED BY <1>7, <2>1
<1> DEFINE S == {i \in Nat : i <= n => iter[1..i] \in Seq(Y)}
<1>10. 0 \in S
  <2>1. <<>> \in Seq(Y)  OBVIOUS
  <2> QED BY <1>9, <2>1
<1>11. ASSUME NEW i \in S \cap Nat  PROVE  i + 1 \in S
  <2> SUFFICES ASSUME i + 1 <= n  PROVE  iter[1..i + 1] \in Seq(Y)  OBVIOUS
  <2>1. i \in Nat /\ i + 1 \in 1..n /\ iter[1..i] \in Seq(Y)  BY <1>1
  <2> HIDE DEF S, n
  <2>2. Max(1..i + 1) = i + 1  BY <1>1, <2>1, MaxOfPrefix
  <2>3. (1..i + 1) \ {i + 1} = 1..i  BY <2>1
  <2>5. 1..i + 1 \in SUBSET (1..n) /\ 1..i + 1 # {}
    <3>1. \A k \in 1..i + 1 : k \in 1..n  BY <1>1, <2>1
    <3>2. i + 1 \in 1..i + 1  BY <2>1
    <3> QED BY <3>1, <3>2
  <2>4. iter[1..i + 1] = Kept(iter[1..i], t[i + 1])  BY <1>7, <2>2, <2>3, <2>5
  <2> QED BY <1>2, <2>1, <2>4
<1>12. n \in S
  <2> HIDE DEF S, n
  <2> QED BY <1>1, <1>10, <1>11, Induction
<1> QED BY <1>8, <1>12 DEF Y

(***************************************************************************)
(* stripMissingValues and sanitizeControls leave graphemes that can be     *)
(* displayed, and none that would join.                                    *)
(***************************************************************************)
LEMMA CleanedType ==
  ASSUME NEW t \in Seq(Graphemes)
  PROVE  Cleaned(t) \in Seq(Displayable) /\ LonesTrail(Cleaned(t))
<1> DEFINE s == StripMissingValues(t)
           X == Graphemes \ {"missing"}
<1>0. Indicators \subseteq X /\ X \subseteq Graphemes
      /\ "control" \notin Indicators /\ "space" \notin Indicators
  BY IndicatorsType
<1>1. s \in Seq(Graphemes \ {"missing"}) /\ LonesTrail(s)
  <2>1. Present(t) \in Seq(X)  BY PresentType
  <2> HIDE DEF X
  <2>2. Segmented(Present(t)) \in Seq(X) /\ LonesTrail(Segmented(Present(t)))
    BY <1>0, <2>1, SegmentedIs
  <2> QED BY <2>2 DEF StripMissingValues, X
<1> HIDE DEF s
<1>2. \A i \in 1..Len(s) :
         (IF s[i] = "control" THEN "space" ELSE s[i]) \in Displayable
  BY <1>1, CellsType DEF Displayable
<1>3. SanitizeControls(s) \in Seq(Displayable)  BY <1>1, <1>2 DEF SanitizeControls
<1>4. LonesTrail(SanitizeControls(s))
  <2> DEFINE c == SanitizeControls(s)
  <2>1. Len(c) = Len(s) /\ Len(s) \in Nat
        /\ \A i \in 1..Len(s) : c[i] = IF s[i] = "control" THEN "space" ELSE s[i]
    BY <1>1 DEF SanitizeControls
  <2> HIDE DEF c
  <2>2. Lone \subseteq Indicators  BY IndicatorsType
  <2>3. \A i \in 1..Len(s) : c[i] \in Indicators => c[i] = s[i]  BY <1>0, <2>1
  <2>4. ASSUME NEW i \in 1..Len(c) - 1, c[i] \in Lone, c[i + 1] \in Indicators  PROVE FALSE
    <3>1. i \in 1..Len(s) - 1 /\ i \in 1..Len(s) /\ i + 1 \in 1..Len(s)  BY <2>1
    <3>2. s[i] \in Lone /\ s[i + 1] \in Indicators  BY <2>2, <2>3, <2>4, <3>1
    <3> QED BY <1>1, <3>1, <3>2 DEF LonesTrail
  <2>5. LonesTrail(c)  BY <2>4 DEF LonesTrail
  <2> QED BY <2>5 DEF c
<1> QED BY <1>3, <1>4 DEF Cleaned, s

(***************************************************************************)
(* What is cut off adds only the ellipsis.                                 *)
(***************************************************************************)
LEMMA CutsType ==
  ASSUME NEW t \in Seq(Displayable), NEW w \in Nat
  PROVE  /\ Truncate(t, w) \in Seq(Displayable)
         /\ TruncateMiddle(t, w) \in Seq(Displayable)
         /\ ApplyMaxWidth(t, w) \in Seq(Displayable)
<1>1. Ellipsis \in Seq(Displayable) /\ Space \in Seq(Displayable) /\ <<>> \in Seq(Displayable)
  BY CellsType DEF Displayable, Ellipsis, Space
<1>2. ASSUME NEW u \in Seq(Displayable), NEW v \in Nat
      PROVE  TakePrefix(u, v) \in Seq(Displayable) /\ TakeSuffix(u, v) \in Seq(Displayable)
  <2>0. u \in Seq(Graphemes)  BY DEF Displayable
  <2>1. PICK m \in 0..Len(u) : TakePrefix(u, v) = SubSeq(u, 1, m)  BY <2>0, PrefixTaken
  <2>2. SubSeq(u, 1, m) \in Seq(Displayable)  OBVIOUS
  <2>3. Indicators \subseteq Displayable /\ Displayable \subseteq Graphemes
    BY IndicatorsType DEF Displayable
  <2>4. TakeSuffix(u, v) \in Seq(Displayable)  BY <2>3, SuffixTaken
  <2> QED BY <2>1, <2>2, <2>4
<1>3. ASSUME NEW u \in Seq(Displayable), NEW v \in Nat
      PROVE  Truncate(u, v) \in Seq(Displayable)
  <2>1. CASE v >= 1
    <3>1. v - 1 \in Nat  BY <2>1
    <3>2. TakePrefix(u, v - 1) \o Ellipsis \in Seq(Displayable)  BY <1>1, <1>2, <3>1
    <3> QED BY <1>1, <3>2 DEF Truncate, OrFits
  <2>2. CASE v <= 0  BY <1>1, <2>2 DEF Truncate, OrFits
  <2> QED BY <2>1, <2>2
<1>4. TruncateMiddle(t, w) \in Seq(Displayable)
  <2>1. CASE w >= 1
    <3>1. w \div 2 \in Nat /\ (w - 1) \div 2 \in Nat  BY <2>1
    <3>2. TakePrefix(t, w \div 2) \in Seq(Displayable)
          /\ TakeSuffix(t, (w - 1) \div 2) \in Seq(Displayable)
      BY <1>2, <3>1
    <3>3. TakePrefix(t, w \div 2) \o Ellipsis \o TakeSuffix(t, (w - 1) \div 2)
             \in Seq(Displayable)
      BY <1>1, <3>2
    <3> QED BY <1>1, <3>3 DEF TruncateMiddle, OrFits
  <2>2. CASE w <= 0  BY <1>1, <2>2 DEF TruncateMiddle, OrFits
  <2> QED BY <2>1, <2>2
<1>5. ApplyMaxWidth(t, w) \in Seq(Displayable)
  <2>1. CASE w <= 0 \/ DisplayWidth(t) <= w  BY <2>1 DEF ApplyMaxWidth
  <2>2. CASE ~(w <= 0 \/ DisplayWidth(t) <= w) /\ w >= 3 /\ Padded(t)
    <3> DEFINE mid == SubSeq(t, 2, Len(t) - 1)
    <3>1. mid \in Seq(Displayable) /\ w - 2 \in Nat
      <4>1. t # <<>>  BY <2>2 DEF Padded
      <4> QED BY <2>2, <4>1
    <3> HIDE DEF mid
    <3>2. Truncate(mid, w - 2) \in Seq(Displayable)  BY <1>3, <3>1
    <3>3. Space \o Truncate(mid, w - 2) \o Space \in Seq(Displayable)  BY <1>1, <3>2
    <3> QED BY <2>2, <3>3 DEF ApplyMaxWidth, mid
  <2>3. CASE ~(w <= 0 \/ DisplayWidth(t) <= w) /\ ~(w >= 3 /\ Padded(t))
    BY <1>3, <2>3 DEF ApplyMaxWidth
  <2> QED BY <2>1, <2>2, <2>3
<1> QED BY <1>3, <1>4, <1>5

(***************************************************************************)
(* What truncateMiddle cuts, it cuts from the middle.                      *)
(***************************************************************************)
LEMMA BothEndsKept ==
  ASSUME NEW t \in Seq(Graphemes), LonesTrail(t), ReadsAlike(t),
         NEW w \in Nat \ {0}, TruncateMiddle(t, w) # t
  PROVE  \E i, j \in 0..Len(t) :
            TruncateMiddle(t, w) =
               SubSeq(t, 1, i) \o Ellipsis \o SubSeq(t, Len(t) - j + 1, Len(t))
<1>1. ~(DisplayWidth(t) <= w)  BY DEF TruncateMiddle, OrFits
<1>2. CASE w = 1
  <2>1. TruncateMiddle(t, w) = Ellipsis  BY <1>1, <1>2 DEF TruncateMiddle, OrFits
  <2>2. SubSeq(t, 1, 0) = <<>> /\ SubSeq(t, Len(t) - 0 + 1, Len(t)) = <<>>  OBVIOUS
  <2>3. <<>> \o Ellipsis \o <<>> = Ellipsis  BY DEF Ellipsis
  <2>4. 0 \in 0..Len(t)  OBVIOUS
  <2> QED BY <2>1, <2>2, <2>3, <2>4
<1>3. CASE w # 1
  <2>1. TruncateMiddle(t, w) =
           TakePrefix(t, w \div 2) \o Ellipsis \o TakeSuffix(t, (w - 1) \div 2)
    BY <1>1, <1>3 DEF TruncateMiddle, OrFits
  <2>2. w \div 2 \in Nat /\ (w - 1) \div 2 \in Nat  OBVIOUS
  <2>3. PICK i \in 0..Len(t) : TakePrefix(t, w \div 2) = SubSeq(t, 1, i)
    BY <2>2, PrefixTaken
  <2>4. PICK j \in 0..Len(t) :
           TakeSuffix(t, (w - 1) \div 2) = SubSeq(t, Len(t) - j + 1, Len(t))
    <3>1. Indicators \subseteq Graphemes  BY IndicatorsType
    <3> QED BY <2>2, <3>1, SuffixTaken
  <2> QED BY <2>1, <2>3, <2>4
<1> QED BY <1>2, <1>3

-----------------------------------------------------------------------------
(* The theorems.                                                           *)

(***************************************************************************)
(* A call has the outcome that its function computes.                      *)
(***************************************************************************)
Outcome ==
    /\ text \in Texts
    /\ width \in 0..MaxWidth
    /\ \/ call = "none" /\ shown = <<>> /\ refused = FALSE
       \/ call = "Execute" /\ shown = <<>> /\ refused = TRUE
       \/ call = "Execute" /\ shown = ApplyMaxWidth(Cleaned(text), width) /\ refused = FALSE
       \/ call = "ExecuteSession" /\ shown = TrimSpace(ApplyMaxWidth(Cleaned(text), width))
       \/ /\ call = "truncateMiddle" /\ shown = TruncateMiddle(text, width)
          /\ text = Cleaned(text)

LEMMA OutcomeInvariant == Spec => []Outcome
<1>1. Init => Outcome
  BY DEF Init, Outcome
<1>2. Outcome /\ [Next]_vars => Outcome'
  <2> SUFFICES ASSUME Outcome, [Next]_vars PROVE Outcome'
    OBVIOUS
  <2> USE DEF Outcome, Call
  <2>1. CASE Execute  BY <2>1 DEF Execute
  <2>2. CASE ExecuteRefuses  BY <2>2 DEF ExecuteRefuses
  <2>3. CASE ExecuteSession  BY <2>3 DEF ExecuteSession
  <2>4. CASE HelperTruncatesMiddle  BY <2>4 DEF HelperTruncatesMiddle
  <2>5. CASE UNCHANGED vars  BY <2>5 DEF vars
  <2> QED BY <2>1, <2>2, <2>3, <2>4, <2>5 DEF Next
<1> QED BY <1>1, <1>2, PTL DEF Spec

(***************************************************************************)
(* Each property follows from the outcome of the call.                     *)
(***************************************************************************)
LEMMA OutcomeSuffices ==
  ASSUME Outcome
  PROVE  FitsWidth /\ WastesNoCells /\ KeepsPadding /\ KeepsBothEnds /\ OnlyDisplayable
<1> DEFINE label == Cleaned(text)
<1>1. text \in Seq(Graphemes) /\ width \in Nat
  BY ConstantsAssumption DEF Outcome, Graphemes
<1>2. /\ label \in Seq(Displayable) /\ LonesTrail(label)
      /\ label \in Seq(Graphemes) /\ label \in Seq(Graphemes \ {"missing"})
  <2>1. label \in Seq(Displayable) /\ LonesTrail(label)  BY <1>1, CleanedType
  <2> HIDE DEF label
  <2> QED BY <2>1 DEF Displayable
<1> HIDE DEF label
<1>3. DisplayWidth(<<>>) = 0  BY WidthOfEmpty
<1>4. FitsWidth
  <2> SUFFICES ASSUME call # "none", width > 0  PROVE DisplayWidth(shown) <= width
    BY DEF FitsWidth
  <2>1. CASE shown = <<>>  BY <1>1, <1>3, <2>1
  <2>2. CASE shown = ApplyMaxWidth(label, width)
    BY <1>1, <1>2, <2>2, MaxWidthApplied
  <2>3. CASE shown = TrimSpace(ApplyMaxWidth(label, width))
    <3> DEFINE a == ApplyMaxWidth(label, width)
    <3>1. a \in Seq(Graphemes) /\ DisplayWidth(a) <= width
      BY <1>1, <1>2, MaxWidthApplied
    <3> HIDE DEF a
    <3>2. TrimSpace(a) \in Seq(Graphemes) /\ DisplayWidth(TrimSpace(a)) <= DisplayWidth(a)
      BY <3>1, TrimmedWidth
    <3>3. DisplayWidth(a) \in Nat /\ DisplayWidth(TrimSpace(a)) \in Nat
      BY <3>1, <3>2, WidthType
    <3>4. DisplayWidth(TrimSpace(a)) <= width  BY <1>1, <3>1, <3>2, <3>3
    <3> QED BY <2>3, <3>4 DEF a
  <2>4. CASE shown = TruncateMiddle(text, width) /\ text = label
    BY <1>1, <1>2, <2>4, TruncateMiddleWidth
  <2> QED BY <2>1, <2>2, <2>3, <2>4 DEF Outcome, label
<1>5. WastesNoCells
  <2> SUFFICES ASSUME call \in {"Execute", "truncateMiddle"}, shown # label, ~refused
               PROVE  DisplayWidth(shown) >= width - (IF call = "Execute" THEN 1 ELSE 2)
    BY DEF WastesNoCells, label
  <2>1. CASE call = "Execute"
    <3>1. shown = ApplyMaxWidth(label, width)  BY <2>1 DEF Outcome, label
    <3>2. DisplayWidth(shown) >= width - 1  BY <1>1, <1>2, <3>1, MaxWidthApplied
    <3> QED BY <2>1, <3>2
  <2>2. CASE call = "truncateMiddle"
    <3>1. shown = TruncateMiddle(text, width) /\ text = label  BY <2>2 DEF Outcome, label
    <3>2. CASE width = 0
      <4>1. shown = <<>>  BY <3>1, <3>2 DEF TruncateMiddle, OrFits
      <4> QED BY <1>3, <2>2, <3>2, <4>1
    <3>3. CASE width # 0
      <4>1. width \in Nat \ {0}  BY <1>1, <3>3
      <4>2. ~(DisplayWidth(text) <= width)  BY <3>1, <4>1 DEF TruncateMiddle, OrFits
      <4>3. DisplayWidth(text) > width  BY <1>1, <4>2, WidthType
      <4>4. DisplayWidth(shown) >= width - 2
        BY <1>1, <1>2, <3>1, <4>1, <4>3, TruncateMiddleWidth
      <4> QED BY <2>2, <4>4
    <3> QED BY <3>2, <3>3
  <2> QED BY <2>1, <2>2
<1>6. KeepsPadding
  <2> SUFFICES ASSUME call = "Execute", ~refused, width # 1, width # 2, Padded(label)
               PROVE  Padded(shown)
    BY DEF KeepsPadding, label
  <2>1. shown = ApplyMaxWidth(label, width)  BY DEF Outcome, label
  <2> QED BY <1>1, <1>2, <2>1, MaxWidthApplied
<1>7. KeepsBothEnds
  <2> SUFFICES ASSUME call = "truncateMiddle", width > 0, shown # text, ReadsAlike(text)
               PROVE  \E i, j \in 0..Len(text) :
                         shown = SubSeq(text, 1, i) \o Ellipsis
                                    \o SubSeq(text, Len(text) - j + 1, Len(text))
    BY DEF KeepsBothEnds
  <2>1. shown = TruncateMiddle(text, width) /\ text = label  BY DEF Outcome, label
  <2>2. width \in Nat \ {0}  BY <1>1
  <2> QED BY <1>1, <1>2, <2>1, <2>2, BothEndsKept
<1>8. OnlyDisplayable
  <2>1. shown \in Seq(Displayable)
    <3>1. CASE shown = <<>>  BY <3>1
    <3>2. CASE shown = ApplyMaxWidth(label, width)  BY <1>1, <1>2, <3>2, CutsType
    <3>3. CASE shown = TrimSpace(ApplyMaxWidth(label, width))
      <4>1. ApplyMaxWidth(label, width) \in Seq(Displayable)  BY <1>1, <1>2, CutsType
      <4>2. Displayable \subseteq Graphemes  BY DEF Displayable
      <4> QED BY <3>3, <4>1, <4>2, TrimmedWidth
    <3>4. CASE shown = TruncateMiddle(text, width) /\ text = label
      BY <1>1, <1>2, <3>4, CutsType
    <3> QED BY <3>1, <3>2, <3>3, <3>4 DEF Outcome, label
  <2> QED BY <2>1 DEF OnlyDisplayable, Displayable
<1> QED BY <1>4, <1>5, <1>6, <1>7, <1>8

(***************************************************************************)
(* FitsWidth: no text, however wide its graphemes, gives a label of more   *)
(* cells than configured, whether it is cut at its end, between its        *)
(* padding or in its middle, or trimmed afterwards.                        *)
(***************************************************************************)
THEOREM LabelsFit == Spec => []FitsWidth
<1>1. Outcome => FitsWidth  BY OutcomeSuffices
<1> QED BY <1>1, OutcomeInvariant, PTL

(***************************************************************************)
(* WastesNoCells: a label that was cut leaves at most one cell unused for  *)
(* each cut.                                                               *)
(***************************************************************************)
THEOREM CutsAreTight == Spec => []WastesNoCells
<1>1. Outcome => WastesNoCells  BY OutcomeSuffices
<1> QED BY <1>1, OutcomeInvariant, PTL

(***************************************************************************)
(* KeepsPadding: applyMaxWidth returns a padded label for a padded label,  *)
(* at every width but 1 and 2.                                             *)
(***************************************************************************)
THEOREM PaddingSurvives == Spec => []KeepsPadding
<1>1. Outcome => KeepsPadding  BY OutcomeSuffices
<1> QED BY <1>1, OutcomeInvariant, PTL

(***************************************************************************)
(* KeepsBothEnds: what truncateMiddle shows is a prefix of the value, the  *)
(* ellipsis and a suffix of the value, although the graphemes collected    *)
(* for the suffix are joined and split again, if the value reads alike     *)
(* from its end.                                                           *)
(***************************************************************************)
THEOREM EndsSurvive == Spec => []KeepsBothEnds
<1>1. Outcome => KeepsBothEnds  BY OutcomeSuffices
<1> QED BY <1>1, OutcomeInvariant, PTL

(***************************************************************************)
(* OnlyDisplayable: no control character and no <no value> is left in a    *)
(* label, by any of the functions.                                         *)
(***************************************************************************)
THEOREM NothingElseShown == Spec => []OnlyDisplayable
<1>1. Outcome => OnlyDisplayable  BY OutcomeSuffices
<1> QED BY <1>1, OutcomeInvariant, PTL

=============================================================================
