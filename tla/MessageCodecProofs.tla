------------------------- MODULE MessageCodecProofs -------------------------
(***************************************************************************)
(* Proofs about MessageCodec, for any messages, any lengths of the strings *)
(* and any sizes of the buffer: what the writers lay down is gapless and   *)
(* as long as they say, and a header that fits is never given up.          *)
(*                                                                         *)
(* Width and TotalWidth are folds, Write a recursive function.  The first  *)
(* sections show that they exist and what they compute, by induction over  *)
(* sets: the least number something is not true of.  The next ones work    *)
(* out how long each header is and where the fields lie in it that are     *)
(* filled in later; the last ones are about the calls of the writers.      *)
(***************************************************************************)
EXTENDS MessageCodec, FiniteSetTheorems, WellFoundedInduction, TLAPS

----------------------------------------------------------------------------
(* Induction. *)

\* The library's fact about a set of any kind.
LEMMA Minimal ==
  ASSUME NEW R, NEW N, IsWellFoundedOn(R, N), NEW S, S \subseteq N, S # {}
  PROVE  \E x \in S : \A y \in S : ~(<<y, x>> \in R)
BY WFMin, Zenon

\* A set of numbers that is not empty has a least one.
LEMMA Least ==
  ASSUME NEW S, S \subseteq Nat, S # {}
  PROVE  \E x \in S : \A y \in S : x <= y
<1>1. \A a, b \in Nat : a < b => <<a, b>> \in OpToRel(<, Nat)
  <2> SUFFICES ASSUME NEW a \in Nat, NEW b \in Nat, a < b
               PROVE  <<a, b>> \in OpToRel(<, Nat)
    OBVIOUS
  <2>1. <<a, b>> \in {ss \in Nat \X Nat : ss[1] < ss[2]}
    OBVIOUS
  <2> QED
    BY <2>1, Zenon DEF OpToRel
<1>2. PICK x \in S : \A y \in S : ~(<<y, x>> \in OpToRel(<, Nat))
  BY Minimal, NatLessThanWellFounded, Zenon
<1>3. \A y \in S : ~(y < x)
  BY <1>1, <1>2, Zenon
<1> QED
  BY <1>3

\* Induction over the set of the numbers that something is true of.
LEMMA Induction ==
  ASSUME NEW S, 0 \in S, \A n \in Nat : n \in S => n + 1 \in S
  PROVE  \A n \in Nat : n \in S
<1> SUFFICES ASSUME NEW n \in Nat, n \notin S PROVE FALSE
  OBVIOUS
<1> DEFINE T == {m \in Nat : m \notin S}
<1>1. PICK m \in T : \A k \in T : m <= k
  <2> HIDE DEF T
  <2>1. T \subseteq Nat /\ T # {}
    BY DEF T
  <2> QED BY <2>1, Least
<1>2. m # 0 /\ m - 1 \in Nat /\ m - 1 + 1 = m
  BY <1>1
<1>3. m - 1 \notin T
  BY <1>1, <1>2
<1> QED BY <1>2, <1>3

----------------------------------------------------------------------------
(* Sums over finite sets: a function over the subsets of D that takes one  *)
(* element after the other out of a set and adds up what each is worth.    *)

IsSum(f, D, worth) ==
  /\ f[{}] = 0
  /\ \A s \in SUBSET D : s # {} => \E x \in s : f[s] = f[s \ {x}] + worth[x]

\* Taking an element out of a finite set leaves one fewer.
LEMMA Subsets ==
  ASSUME NEW D, IsFiniteSet(D)
  PROVE  \A s \in SUBSET D :
           /\ IsFiniteSet(s) /\ Cardinality(s) \in Nat
           /\ Cardinality(s) = 0 <=> s = {}
           /\ \A x \in s : s \ {x} \in SUBSET D /\ Cardinality(s \ {x}) = Cardinality(s) - 1
<1> SUFFICES ASSUME NEW s \in SUBSET D
             PROVE  /\ IsFiniteSet(s) /\ Cardinality(s) \in Nat
                    /\ Cardinality(s) = 0 <=> s = {}
                    /\ \A x \in s : s \ {x} \in SUBSET D /\ Cardinality(s \ {x}) = Cardinality(s) - 1
  BY Zenon
<1>1. IsFiniteSet(s)
  BY FS_Subset
<1>2. Cardinality(s) \in Nat
  BY <1>1, FS_CardinalityType
<1>3. Cardinality(s) = 0 <=> s = {}
  BY <1>1, FS_EmptySet
<1>4. \A x \in s : Cardinality(s \ {x}) = Cardinality(s) - 1
  BY <1>1, FS_RemoveElement
<1> QED BY <1>1, <1>2, <1>3, <1>4

\* What holds of the subsets of every size.
LEMMA BySize ==
  ASSUME NEW D, IsFiniteSet(D), NEW P, {} \in P,
         \A s \in SUBSET D : s # {} /\ (\A x \in s : s \ {x} \in P) => s \in P
  PROVE  \A s \in SUBSET D : s \in P
<1> DEFINE S == {n \in Nat : \A s \in SUBSET D : Cardinality(s) = n => s \in P}
<1>1. 0 \in S
  BY Subsets
<1>2. ASSUME NEW n \in Nat, n \in S PROVE n + 1 \in S
  <2> SUFFICES ASSUME NEW s \in SUBSET D, Cardinality(s) = n + 1 PROVE s \in P
    OBVIOUS
  <2>1. ASSUME NEW x \in s PROVE s \ {x} \in P
    <3>1. s \ {x} \in SUBSET D /\ Cardinality(s \ {x}) = n
      BY Subsets
    <3> QED BY <1>2, <3>1
  <2>2. s # {}
    BY Subsets
  <2> QED BY <2>1, <2>2
<1>3. \A n \in Nat : n \in S
  <2> HIDE DEF S
  <2> QED BY <1>1, <1>2, Induction
<1> QED BY <1>3, Subsets

\* It does not matter which element is taken out.
LEMMA SumFacts ==
  ASSUME NEW D, IsFiniteSet(D), NEW worth, \A x \in D : worth[x] \in Nat,
         NEW f, IsSum(f, D, worth)
  PROVE  \A s \in SUBSET D : f[s] \in Nat /\ \A x \in s : f[s] = f[s \ {x}] + worth[x]
<1>1. \A s \in SUBSET D : f[s] \in Nat
  <2> DEFINE P == {s \in SUBSET D : f[s] \in Nat}
  <2>1. {} \in P
    BY DEF IsSum
  <2>2. ASSUME NEW s \in SUBSET D, s # {}, \A x \in s : s \ {x} \in P PROVE s \in P
    <3>1. PICK x \in s : f[s] = f[s \ {x}] + worth[x]
      BY <2>2 DEF IsSum
    <3>2. f[s \ {x}] \in Nat /\ worth[x] \in Nat
      BY <2>2
    <3>3. f[s] \in Nat
      BY <3>1, <3>2
    <3> QED BY <3>3
  <2> HIDE DEF P
  <2>3. \A s \in SUBSET D : s \in P
    BY <2>1, <2>2, BySize
  <2> QED BY <2>3 DEF P
<1>2. \A s \in SUBSET D : \A x \in s : f[s] = f[s \ {x}] + worth[x]
  <2> DEFINE P == {s \in SUBSET D : \A x \in s : f[s] = f[s \ {x}] + worth[x]}
  <2>1. {} \in P
    OBVIOUS
  <2>2. ASSUME NEW s \in SUBSET D, s # {}, \A x \in s : s \ {x} \in P PROVE s \in P
    <3>1. PICK x \in s : f[s] = f[s \ {x}] + worth[x]
      BY <2>2 DEF IsSum
    <3>2. ASSUME NEW y \in s, y # x PROVE f[s] = f[s \ {y}] + worth[y]
      <4> DEFINE rest == (s \ {x}) \ {y}
      <4>1. f[s \ {x}] = f[rest] + worth[y]
        BY <2>2, <3>2
      <4>2. f[s \ {y}] = f[rest] + worth[x]
        <5>1. rest = (s \ {y}) \ {x}
          OBVIOUS
        <5> HIDE DEF rest
        <5> QED BY <2>2, <3>2, <5>1
      <4>3. f[rest] \in Nat /\ worth[x] \in Nat /\ worth[y] \in Nat
        BY <1>1
      <4> HIDE DEF rest
      <4> QED BY <3>1, <4>1, <4>2, <4>3
    <3> QED BY <3>1, <3>2
  <2> HIDE DEF P
  <2>3. \A s \in SUBSET D : s \in P
    BY <2>1, <2>2, BySize
  <2> QED BY <2>3 DEF P
<1> QED BY <1>1, <1>2

\* The element that choice names is taken out.
TakesOut(f, D, worth, choice) ==
  f = [s \in SUBSET D |-> IF s = {} THEN 0 ELSE f[s \ {choice[s]}] + worth[choice[s]]]

\* There is one, whichever element is taken out each time.
LEMMA SumExists ==
  ASSUME NEW D, IsFiniteSet(D), NEW worth, NEW choice, \A s \in SUBSET D : s # {} => choice[s] \in s
  PROVE  \E f : TakesOut(f, D, worth, choice)
<1> DEFINE Upto(n) == {s \in SUBSET D : Cardinality(s) <= n}
           Body(f, s) == IF s = {} THEN 0 ELSE f[s \ {choice[s]}] + worth[choice[s]]
           S == {n \in Nat : \E f : f = [s \in Upto(n) |-> Body(f, s)]}
<1>1. 0 \in S
  <2> DEFINE f == [s \in Upto(0) |-> 0]
  <2>1. \A s \in Upto(0) : s = {}
    BY Subsets
  <2>2. f = [s \in Upto(0) |-> Body(f, s)]
    BY <2>1
  <2> QED BY <2>2
<1>2. ASSUME NEW n \in Nat, n \in S PROVE n + 1 \in S
  <2>1. PICK g : g = [s \in Upto(n) |-> Body(g, s)]
    BY <1>2
  <2> DEFINE f == [s \in Upto(n + 1) |-> IF s \in Upto(n) THEN g[s] ELSE Body(g, s)]
  <2>2. \A s \in Upto(n + 1) : s # {} => s \ {choice[s]} \in Upto(n)
    BY Subsets
  <2>3. \A s \in Upto(n) : s \in Upto(n + 1) /\ f[s] = g[s] /\ g[s] = Body(g, s)
    <3>1. \A s \in Upto(n) : s \in Upto(n + 1)
      BY Subsets
    <3> QED BY <2>1, <3>1
  <2>4. \A s \in Upto(n + 1) : f[s] = Body(f, s)
    <3> SUFFICES ASSUME NEW s \in Upto(n + 1) PROVE f[s] = Body(f, s)
      OBVIOUS
    <3>1. f[s] = Body(g, s)
      BY <2>3
    <3>2. s # {} => f[s \ {choice[s]}] = g[s \ {choice[s]}]
      BY <2>2, <2>3
    <3> HIDE DEF f
    <3> QED BY <3>1, <3>2
  <2>5. f = [s \in Upto(n + 1) |-> f[s]]
    OBVIOUS
  <2> HIDE DEF f, Body, Upto
  <2>6. f = [s \in Upto(n + 1) |-> Body(f, s)]
    BY <2>4, <2>5
  <2> QED BY <2>6
<1>3. Cardinality(D) \in S
  <2> HIDE DEF S
  <2>1. \A n \in Nat : n \in S
    BY <1>1, <1>2, Induction
  <2> QED BY <2>1, Subsets
<1>4. Upto(Cardinality(D)) = SUBSET D
  BY FS_Subset
<1> QED BY <1>3, <1>4 DEF TakesOut
(* The two sums of the model. *)

\* A finite sequence of cells, whatever they hold.
IsCells(s) ==
  /\ Len(s) \in Nat /\ s = [i \in 1..Len(s) |-> s[i]]
  /\ \A i \in 1..Len(s) : s[i].w \in Nat

Widths(b) == [o \in DOMAIN b |-> b[o].w]

\* The largest of some numbers is one of them.
LEMMA MaxFacts ==
  ASSUME NEW n \in Nat, NEW s \in SUBSET (1..n), s # {}
  PROVE  Max(s) \in s /\ \A y \in s : y <= Max(s)
<1> DEFINE T == {n - x : x \in s}
<1>0. \A x \in s : n - x \in Nat
  OBVIOUS
<1>1. T \subseteq Nat /\ T # {}
  BY <1>0
<1>2. PICK d \in T : \A y \in T : d <= y
  <2> HIDE DEF T
  <2> QED BY <1>1, Least
<1>3. PICK x \in s : d = n - x
  BY <1>2
<1>4. ASSUME NEW y \in s PROVE y <= x
  <2>1. n - y \in T
    OBVIOUS
  <2>2. n - x <= n - y
    BY <1>2, <1>3, <2>1
  <2> QED BY <2>2
<1> QED BY <1>4 DEF Max

\* The function a CHOOSE picks is such a sum.
LEMMA ChosenSum ==
  ASSUME NEW D, IsFiniteSet(D), NEW worth, NEW choice,
         \A s \in SUBSET D : s # {} => choice[s] \in s
  PROVE  IsSum((CHOOSE f : TakesOut(f, D, worth, choice)), D, worth)
<1> DEFINE F == CHOOSE f : TakesOut(f, D, worth, choice)
<1>1. \E f : TakesOut(f, D, worth, choice)
  BY SumExists, Zenon
<1>2. TakesOut(F, D, worth, choice)
  BY <1>1, Zenon
<1> HIDE DEF F
<1>3. IsSum(F, D, worth)
  BY <1>2 DEF IsSum, TakesOut
<1> QED BY <1>3 DEF F

\* TotalWidth, a fold over a sequence of cells, is a sum over its indices.
LEMMA TotalIsSum ==
  ASSUME NEW s, IsCells(s)
  PROVE  \E f : IsSum(f, 1..Len(s), Widths(s)) /\ TotalWidth(s) = f[1..Len(s)]
<1> DEFINE D == 1..Len(s)
           choice == [p \in SUBSET D |-> Max(p)]
           worth == Widths(s)
           F == CHOOSE f : f = [p \in SUBSET D |-> IF p = {} THEN 0
                                                   ELSE f[p \ {Max(p)}] + s[Max(p)].w]
           G == CHOOSE f : TakesOut(f, D, worth, choice)
<1>1. DOMAIN s = D
  BY DEF IsCells
<1>2. TotalWidth(s) = F[D]
  BY <1>1 DEF TotalWidth, FoldLeft, MapThenFoldSet
<1>3. \A p \in SUBSET D : p # {} => choice[p] = Max(p) /\ Max(p) \in D /\ worth[Max(p)] = s[Max(p)].w
  BY <1>1, MaxFacts DEF Widths, IsCells
<1>4. \A p \in SUBSET D : p # {} => choice[p] \in p
  BY MaxFacts DEF IsCells
<1> HIDE DEF choice, worth
<1>5. \A f : [p \in SUBSET D |-> IF p = {} THEN 0 ELSE f[p \ {Max(p)}] + s[Max(p)].w]
               = [p \in SUBSET D |-> IF p = {} THEN 0 ELSE f[p \ {choice[p]}] + worth[choice[p]]]
  BY <1>3
<1>6. F = G
  BY <1>5 DEF TakesOut
<1>7. IsFiniteSet(D)
  BY FS_Interval DEF IsCells
<1>8. IsSum(G, D, worth)
  <2> HIDE DEF D
  <2> QED BY <1>4, <1>7, ChosenSum, Zenon
<1> QED BY <1>2, <1>6, <1>8 DEF worth

\* Width, a fold over a buffer, is a sum over its offsets.
LEMMA WidthIsSum ==
  ASSUME NEW b, IsFiniteSet(DOMAIN b), \A o \in DOMAIN b : b[o].w \in Nat
  PROVE  \E f : IsSum(f, DOMAIN b, Widths(b)) /\ Width(b) = f[DOMAIN b]
<1> DEFINE D == DOMAIN b
           choice == [p \in SUBSET D |-> CHOOSE x \in p : TRUE]
           worth == Widths(b)
           F == CHOOSE f : f = [p \in SUBSET D |->
                  IF p = {} THEN 0 ELSE b[CHOOSE x \in p : TRUE].w + f[p \ {CHOOSE x \in p : TRUE}]]
<1>1. Width(b) = F[D]
  BY DEF Width, FoldFunction, FoldFunctionOnSet, MapThenFoldSet
<1>2. \A p \in SUBSET D : p # {} => /\ choice[p] = (CHOOSE x \in p : TRUE) /\ choice[p] \in p
                                    /\ worth[choice[p]] = b[choice[p]].w /\ worth[choice[p]] \in Nat
  BY DEF Widths
<1>3. \A x \in D : worth[x] \in Nat
  BY DEF Widths
<1> HIDE DEF choice, worth
<1>4. PICK g : TakesOut(g, D, worth, choice)
  <2> HIDE DEF D
  <2>1. \A p \in SUBSET D : p # {} => choice[p] \in p
    BY <1>2, Zenon
  <2>2. IsFiniteSet(D)
    BY DEF D
  <2> QED BY <2>1, <2>2, SumExists, Zenon
<1>5. IsSum(g, D, worth)
  BY <1>2, <1>4 DEF IsSum, TakesOut
<1>6. \A p \in SUBSET D : g[p] \in Nat
  <2> HIDE DEF D
  <2>1. IsFiniteSet(D)
    BY DEF D
  <2> QED BY <1>3, <1>5, <2>1, SumFacts, Zenon
<1>7. \A p \in SUBSET D : p # {} =>
         g[p] = b[CHOOSE x \in p : TRUE].w + g[p \ {CHOOSE x \in p : TRUE}]
  <2> SUFFICES ASSUME NEW p \in SUBSET D, p # {}
               PROVE  g[p] = b[choice[p]].w + g[p \ {choice[p]}]
    BY <1>2
  <2>1. g[p] = g[p \ {choice[p]}] + worth[choice[p]]
    BY <1>4 DEF TakesOut
  <2> QED BY <1>2, <1>6, <2>1
<1>8. g = [p \in SUBSET D |-> IF p = {} THEN 0 ELSE b[CHOOSE x \in p : TRUE].w
                                                    + g[p \ {CHOOSE x \in p : TRUE}]]
  BY <1>4, <1>7 DEF TakesOut
<1>9. F = [p \in SUBSET D |-> IF p = {} THEN 0 ELSE b[CHOOSE x \in p : TRUE].w
                                                    + F[p \ {CHOOSE x \in p : TRUE}]]
  BY <1>8, ZenonT(60)
<1> HIDE DEF F
<1>10. \A p \in SUBSET D : F[p] \in Nat
  <2> DEFINE P == {p \in SUBSET D : F[p] \in Nat}
  <2>1. {} \in P
    BY <1>9
  <2>2. ASSUME NEW p \in SUBSET D, p # {}, \A x \in p : p \ {x} \in P PROVE p \in P
    <3>1. F[p] = b[choice[p]].w + F[p \ {choice[p]}] /\ choice[p] \in p
      BY <1>2, <1>9, <2>2, ZenonT(60)
    <3>2. F[p \ {choice[p]}] \in Nat /\ b[choice[p]].w \in Nat
      BY <1>2, <2>2, <3>1
    <3>3. F[p] \in Nat
      BY <3>1, <3>2
    <3> QED BY <3>3
  <2> HIDE DEF P, D
  <2>3. IsFiniteSet(D)
    BY DEF D
  <2>4. \A p \in SUBSET D : p \in P
    BY <2>1, <2>2, <2>3, BySize
  <2> QED BY <2>4 DEF P
<1>11. IsSum(F, D, worth)
  <2>1. ASSUME NEW p \in SUBSET D, p # {}
        PROVE  F[p] = F[p \ {choice[p]}] + worth[choice[p]]
    <3>1. F[p] = b[choice[p]].w + F[p \ {choice[p]}]
      BY <1>2, <1>9, <2>1
    <3>2. F[p \ {choice[p]}] \in Nat
      BY <1>10
    <3> QED BY <1>2, <2>1, <3>1, <3>2
  <2>2. F[{}] = 0
    BY <1>9
  <2> QED BY <1>2, <2>1, <2>2 DEF IsSum
<1> QED BY <1>1, <1>11 DEF worth
----------------------------------------------------------------------------
(* Buffers. *)

\* The cells lie side by side, none over another.
Disjoint(b) ==
  /\ DOMAIN b \subseteq Nat /\ \A o \in DOMAIN b : b[o].w \in Nat \ {0}
  /\ \A p, q \in DOMAIN b : p < q => p + b[p].w <= q

\* There is no gap between m and n, and a cell ends at n.
Filled(b, m, n) ==
  \A x \in m..n - 1 : \E o \in DOMAIN b : m <= o /\ o <= x /\ x < o + b[o].w /\ o + b[o].w <= n

\* The cells that fill the first e bytes of a buffer are e bytes wide together: induction on
\* where a cell ends.
LEMMA FilledWidth ==
  ASSUME NEW b, Disjoint(b), NEW e \in Nat, Filled(b, 0, e)
  PROVE  Width(Prefix(b, e)) = e
<1> DEFINE g == Prefix(b, e)
           D == DOMAIN g
           Upto(n) == {o \in DOMAIN b : o + b[o].w <= n}
<1>1. D = Upto(e) /\ \A o \in D : o \in Nat /\ o <= e /\ g[o] = b[o] /\ g[o].w \in Nat \ {0}
  BY DEF Prefix, Disjoint
<1>2. IsFiniteSet(D)
  <2>1. D \in SUBSET Nat /\ \A o \in D : o <= e
    BY <1>1
  <2> HIDE DEF D
  <2> QED BY <2>1, FS_BoundedSetOfNaturals
<1>3. PICK f : IsSum(f, D, Widths(g)) /\ Width(g) = f[D]
  <2>1. \A o \in D : g[o].w \in Nat
    BY <1>1
  <2> HIDE DEF g
  <2> QED BY <1>2, <2>1, WidthIsSum
<1>4. f[{}] = 0 /\ \A s \in SUBSET D : f[s] \in Nat /\ \A x \in s : f[s] = f[s \ {x}] + b[x].w
  <2>1. \A o \in D : Widths(g)[o] = b[o].w /\ b[o].w \in Nat
    BY <1>1 DEF Widths
  <2>2. f[{}] = 0
    BY <1>3 DEF IsSum
  <2> DEFINE worth == Widths(g)
  <2>3. \A o \in D : worth[o] \in Nat
    BY <2>1
  <2>4. IsSum(f, D, worth)
    BY <1>3
  <2> HIDE DEF D, worth, g, Upto
  <2>5. \A s \in SUBSET D : f[s] \in Nat /\ \A x \in s : f[s] = f[s \ {x}] + worth[x]
    BY <1>2, <2>3, <2>4, SumFacts, SMTT(40)
  <2> QED BY <2>1, <2>2, <2>5 DEF worth
<1> DEFINE Bad == {n \in 0..e : Filled(b, 0, n) /\ f[Upto(n)] # n}
<1>5. Bad = {}
  <2> SUFFICES ASSUME Bad # {} PROVE FALSE
    OBVIOUS
  <2>1. PICK n \in Bad : \A k \in Bad : n <= k
    <3>1. Bad \subseteq Nat
      OBVIOUS
    <3> HIDE DEF Bad
    <3> QED BY <3>1, Least
  <2>2. n \in 0..e /\ Filled(b, 0, n) /\ f[Upto(n)] # n
    BY <2>1
  <2>3. CASE n = 0
    <3>1. Upto(0) = {}
      BY DEF Disjoint
    <3> QED BY <1>4, <2>2, <2>3, <3>1
  <2>4. CASE n # 0
    <3>1. n - 1 \in 0..n - 1
      BY <2>2, <2>4
    <3>2. PICK o \in DOMAIN b : o <= n - 1 /\ n - 1 < o + b[o].w /\ o + b[o].w <= n
      BY <2>2, <3>1 DEF Filled
    <3>3. o \in Nat /\ b[o].w \in Nat \ {0} /\ o + b[o].w = n /\ o < n
      BY <2>2, <3>2 DEF Disjoint
    <3>4. Filled(b, 0, o)
      <4> SUFFICES ASSUME NEW x \in 0..o - 1
                   PROVE  \E q \in DOMAIN b : 0 <= q /\ q <= x /\ x < q + b[q].w /\ q + b[q].w <= o
        BY DEF Filled
      <4>1. x \in 0..n - 1 /\ x < o
        BY <2>2, <3>3
      <4>2. PICK q \in DOMAIN b : 0 <= q /\ q <= x /\ x < q + b[q].w
        BY <2>2, <4>1 DEF Filled
      <4>3. q \in Nat /\ q < o
        BY <3>3, <4>1, <4>2 DEF Disjoint
      <4>4. q + b[q].w <= o
        BY <4>3 DEF Disjoint
      <4> QED BY <4>2, <4>4
    <3>5. Upto(n) \ {o} = Upto(o) /\ o \in Upto(n) /\ Upto(n) \in SUBSET D
      <4>1. ASSUME NEW q \in Upto(n), q # o PROVE q \in Upto(o)
        <5>1. q \in Nat /\ b[q].w \in Nat \ {0} /\ q + b[q].w <= n
          BY <4>1 DEF Disjoint
        <5>2. ~(o < q)
          <6>1. o < q => o + b[o].w <= q
            BY <4>1 DEF Disjoint
          <6> QED BY <3>3, <5>1, <6>1
        <5>3. q + b[q].w <= o
          BY <3>3, <4>1, <5>1, <5>2 DEF Disjoint
        <5> QED BY <5>3
      <4>2. ASSUME NEW q \in Upto(o) PROVE q \in Upto(n) /\ q # o
        BY <3>3 DEF Disjoint
      <4>3. o \in Upto(n)
        BY <3>3
      <4>4. Upto(n) \subseteq Upto(e)
        BY <2>2 DEF Disjoint
      <4> HIDE DEF Upto
      <4> QED BY <1>1, <4>1, <4>2, <4>3, <4>4
    <3>6. f[Upto(o)] = o
      <4>1. o \notin Bad
        BY <2>1, <2>2, <3>3
      <4>2. o \in 0..e
        BY <2>2, <3>3
      <4> HIDE DEF Upto
      <4> QED BY <3>4, <4>1, <4>2
    <3>7. f[Upto(n)] = f[Upto(o)] + b[o].w
      <4> HIDE DEF Upto, D
      <4> QED BY <1>4, <3>5
    <3> HIDE DEF Upto
    <3> QED BY <2>2, <3>3, <3>6, <3>7
  <2> QED BY <2>3, <2>4
<1>6. f[Upto(e)] = e
  <2>1. e \in 0..e
    OBVIOUS
  <2> HIDE DEF Upto
  <2> QED BY <1>5, <2>1
<1> QED BY <1>1, <1>3, <1>6

----------------------------------------------------------------------------
(* Where the cells of a sequence begin, and how joined sequences lie. *)

\* How wide the first j cells are.
Running(s) ==
  LET upto[j \in 0..Len(s)] == IF j = 0 THEN 0 ELSE upto[j - 1] + s[j].w IN upto

\* Running adds the widths up, from none to all of them.
LEMMA RunningFacts ==
  ASSUME NEW s, IsCells(s)
  PROVE  /\ Running(s)[0] = 0 /\ Running(s)[Len(s)] = TotalWidth(s)
         /\ \A j \in 0..Len(s) : Running(s)[j] \in Nat
         /\ \A j \in 1..Len(s) : Running(s)[j] = Running(s)[j - 1] + s[j].w
<1> DEFINE n == Len(s)
           D == 1..n
           worth == Widths(s)
           Body(f) == [j \in 0..n |-> IF j = 0 THEN 0 ELSE f[j - 1] + s[j].w]
           R == CHOOSE f : f = Body(f)
<1>1. n \in Nat /\ \A j \in D : s[j].w \in Nat /\ worth[j] = s[j].w
  BY DEF IsCells, Widths
<1>2. IsFiniteSet(D)
  BY <1>1, FS_Interval
<1>3. \A j \in D : worth[j] \in Nat
  BY <1>1
<1>4. PICK f : IsSum(f, D, worth) /\ TotalWidth(s) = f[D]
  BY TotalIsSum
<1>5. f[{}] = 0
  BY <1>4 DEF IsSum
<1>6. \A p \in SUBSET D : f[p] \in Nat /\ \A x \in p : f[p] = f[p \ {x}] + worth[x]
  <2> HIDE DEF D, worth
  <2> QED BY <1>2, <1>3, <1>4, SumFacts
<1>7. \A j \in 0..n : f[1..j] \in Nat /\ (j # 0 => f[1..j] = f[1..j - 1] + s[j].w)
  <2> SUFFICES ASSUME NEW j \in 0..n
               PROVE  f[1..j] \in Nat /\ (j # 0 => f[1..j] = f[1..j - 1] + s[j].w)
    OBVIOUS
  <2>1. 1..j \in SUBSET D
    BY <1>1
  <2>2. ASSUME j # 0 PROVE f[1..j] = f[1..j - 1] + s[j].w
    <3>1. j \in 1..j /\ (1..j) \ {j} = 1..j - 1 /\ j \in D
      BY <1>1, <2>2
    <3> QED BY <1>1, <1>6, <2>1, <3>1
  <2> HIDE DEF D
  <2> QED BY <1>6, <2>1, <2>2
<1>8. \E g : g = Body(g)
  <2> DEFINE g == [j \in 0..n |-> f[1..j]]
  <2>1. 1..0 = {}
    OBVIOUS
  <2>2. \A j \in 0..n : g[j] = IF j = 0 THEN 0 ELSE g[j - 1] + s[j].w
    BY <1>1, <1>5, <1>7, <2>1
  <2>3. g = [j \in 0..n |-> g[j]]
    OBVIOUS
  <2> HIDE DEF g
  <2> WITNESS g
  <2> QED BY <2>2, <2>3
<1>9. R = Body(R)
  BY <1>8
<1>10. Running(s) = R
  BY DEF Running
<1> HIDE DEF R
<1>11. \A j \in 0..n : R[j] = f[1..j]
  <2> DEFINE S == {j \in Nat : j <= n => R[j] = f[1..j]}
  <2>1. 0 \in S
    <3>1. 1..0 = {}
      OBVIOUS
    <3> QED BY <1>1, <1>5, <1>9, <3>1
  <2>2. ASSUME NEW j \in Nat, j \in S PROVE j + 1 \in S
    <3> SUFFICES ASSUME j + 1 <= n PROVE R[j + 1] = f[1..j + 1]
      OBVIOUS
    <3>1. j + 1 \in 0..n /\ j + 1 - 1 = j /\ j + 1 # 0 /\ R[j] = f[1..j]
      BY <1>1, <2>2
    <3>2. R[j + 1] = R[j] + s[j + 1].w
      BY <1>9, <3>1
    <3>3. f[1..j + 1] = f[1..j] + s[j + 1].w
      BY <1>7, <3>1
    <3> QED BY <3>1, <3>2, <3>3
  <2>3. \A j \in Nat : j \in S
    <3> HIDE DEF S
    <3> QED BY <2>1, <2>2, Induction
  <2> QED BY <1>1, <2>3
<1> QED
  <2>1. 1..0 = {}
    OBVIOUS
  <2> QED BY <1>1, <1>4, <1>5, <1>7, <1>10, <1>11, <2>1, SMTT(40)

\* A cell begins no earlier than those before it.
LEMMA RunningRises ==
  ASSUME NEW s, IsCells(s), NEW i \in 0..Len(s), NEW j \in i..Len(s)
  PROVE  Running(s)[i] <= Running(s)[j]
<1> DEFINE R == Running(s)
           n == Len(s)
           S == {k \in Nat : i + k <= n => R[i] <= R[i + k]}
<1>1. n \in Nat /\ \A k \in 1..n : s[k].w \in Nat
  BY DEF IsCells
<1>2. /\ \A k \in 0..n : R[k] \in Nat
      /\ \A k \in 1..n : R[k] = R[k - 1] + s[k].w
  BY RunningFacts
<1> HIDE DEF R, n
<1>3. i \in 0..n /\ j \in i..n
  BY DEF n
<1>4. 0 \in S
  BY <1>1, <1>2, <1>3
<1>5. ASSUME NEW k \in Nat, k \in S PROVE k + 1 \in S
  <2> SUFFICES ASSUME i + (k + 1) <= n PROVE R[i] <= R[i + (k + 1)]
    OBVIOUS
  <2> DEFINE m == i + (k + 1)
  <2>1. m \in 1..n /\ m - 1 = i + k /\ i + k <= n /\ i + k \in 0..n
    BY <1>1, <1>3
  <2>2. R[i] <= R[i + k]
    BY <1>5, <2>1
  <2>3. R[m] = R[i + k] + s[m].w
    BY <1>2, <2>1
  <2>4. R[i] \in Nat /\ R[i + k] \in Nat /\ s[m].w \in Nat
    BY <1>1, <1>2, <1>3, <2>1
  <2> QED BY <2>2, <2>3, <2>4, SMTT(40)
<1>6. \A k \in Nat : k \in S
  <2> HIDE DEF S
  <2> QED BY <1>4, <1>5, Induction
<1>7. j - i \in Nat /\ i + (j - i) = j /\ j <= n
  BY <1>1, <1>3
<1>8. R[i] <= R[i + (j - i)]
  BY <1>6, <1>7
<1> QED BY <1>7, <1>8 DEF R

\* One sequence after another.
LEMMA JoinedCells ==
  ASSUME NEW s, IsCells(s), NEW t, IsCells(t)
  PROVE  /\ IsCells(s \o t) /\ Len(s \o t) = Len(s) + Len(t)
         /\ \A i \in 1..Len(s) : (s \o t)[i] = s[i]
         /\ \A i \in 1..Len(t) : (s \o t)[Len(s) + i] = t[i]
<1> DEFINE U == {s[i] : i \in 1..Len(s)} \cup {t[i] : i \in 1..Len(t)}
<1>1. s \in Seq(U) /\ t \in Seq(U)
  BY DEF IsCells
<1>2. /\ s \o t \in Seq(U) /\ Len(s \o t) = Len(s) + Len(t)
      /\ \A i \in 1..Len(s) : (s \o t)[i] = s[i]
      /\ \A i \in 1..Len(t) : (s \o t)[Len(s) + i] = t[i]
  <2> HIDE DEF U
  <2> QED BY <1>1
<1>3. ASSUME NEW i \in 1..Len(s \o t) PROVE (s \o t)[i].w \in Nat
  <2>1. CASE i <= Len(s)
    BY <1>2, <2>1 DEF IsCells
  <2>2. CASE i > Len(s)
    <3>1. i - Len(s) \in 1..Len(t) /\ Len(s) + (i - Len(s)) = i
      BY <1>2, <2>2 DEF IsCells
    <3>2. (s \o t)[i] = t[i - Len(s)]
      BY <1>2, <3>1
    <3> QED BY <3>1, <3>2 DEF IsCells
  <2> QED BY <2>1, <2>2 DEF IsCells
<1> DEFINE st == s \o t
<1>4. st = [i \in 1..Len(st) |-> st[i]] /\ Len(st) \in Nat
  <2> HIDE DEF U, st
  <2>1. st \in Seq(U)
    BY <1>2 DEF st
  <2> QED BY <2>1
<1>5. \A i \in 1..Len(st) : st[i].w \in Nat
  BY <1>3
<1>6. IsCells(st)
  <2> HIDE DEF st
  <2> QED BY <1>4, <1>5 DEF IsCells
<1> QED BY <1>2, <1>6

\* The cells of the second sequence begin where the first ends.
LEMMA JoinedRunning ==
  ASSUME NEW s, IsCells(s), NEW t, IsCells(t)
  PROVE  /\ \A j \in 0..Len(s) : Running(s \o t)[j] = Running(s)[j]
         /\ \A j \in 0..Len(t) : Running(s \o t)[Len(s) + j] = TotalWidth(s) + Running(t)[j]
         /\ TotalWidth(s \o t) = TotalWidth(s) + TotalWidth(t)
<1> DEFINE u == s \o t
           m == Len(s)
           n == Len(t)
           R == Running(s)
           T == Running(t)
           Q == Running(u)
<1>1. /\ IsCells(u) /\ Len(u) = m + n /\ m \in Nat /\ n \in Nat
      /\ \A i \in 1..m : u[i] = s[i]
      /\ \A i \in 1..n : u[m + i] = t[i]
  <2>1. m \in Nat /\ n \in Nat
    BY DEF IsCells
  <2>2. IsCells(u) /\ Len(u) = m + n
    BY JoinedCells
  <2>3. \A i \in 1..m : u[i] = s[i]
    BY JoinedCells
  <2>4. \A i \in 1..n : u[m + i] = t[i]
    BY JoinedCells
  <2> QED BY <2>1, <2>2, <2>3, <2>4
<1> HIDE DEF u
<1>2. /\ R[0] = 0 /\ R[m] = TotalWidth(s)
      /\ \A j \in 0..m : R[j] \in Nat
      /\ \A j \in 1..m : R[j] = R[j - 1] + s[j].w
  BY RunningFacts
<1>3. /\ T[0] = 0 /\ T[n] = TotalWidth(t)
      /\ \A j \in 0..n : T[j] \in Nat
      /\ \A j \in 1..n : T[j] = T[j - 1] + t[j].w
  BY RunningFacts
<1>4. /\ Q[0] = 0 /\ Q[m + n] = TotalWidth(u)
      /\ \A j \in 1..m + n : Q[j] = Q[j - 1] + u[j].w
  BY <1>1, RunningFacts
<1>5. \A i \in 1..n : t[i].w \in Nat
  BY DEF IsCells
<1> HIDE DEF R, T, Q, m, n
<1>6. \A j \in 0..m : Q[j] = R[j]
  <2> DEFINE S == {j \in Nat : j <= m => Q[j] = R[j]}
  <2>1. 0 \in S
    BY <1>2, <1>4
  <2>2. ASSUME NEW j \in Nat, j \in S PROVE j + 1 \in S
    <3> SUFFICES ASSUME j + 1 <= m PROVE Q[j + 1] = R[j + 1]
      OBVIOUS
    <3>1. j + 1 \in 1..m /\ j + 1 \in 1..m + n /\ j + 1 - 1 = j /\ Q[j] = R[j]
      BY <1>1, <2>2
    <3> QED BY <1>1, <1>2, <1>4, <3>1, SMTT(40)
  <2>3. \A j \in Nat : j \in S
    <3> HIDE DEF S
    <3> QED BY <2>1, <2>2, Induction
  <2> QED BY <1>1, <2>3
<1>7. \A j \in 0..n : Q[m + j] = R[m] + T[j]
  <2> DEFINE S == {j \in Nat : j <= n => Q[m + j] = R[m] + T[j]}
  <2>0. m \in 0..m
    BY <1>1
  <2>1. 0 \in S
    BY <1>1, <1>2, <1>3, <1>6, <2>0
  <2>2. ASSUME NEW j \in Nat, j \in S PROVE j + 1 \in S
    <3> SUFFICES ASSUME j + 1 <= n PROVE Q[m + (j + 1)] = R[m] + T[j + 1]
      OBVIOUS
    <3>1. /\ j + 1 \in 1..n /\ m + (j + 1) \in 1..m + n /\ j + 1 - 1 = j
          /\ m + (j + 1) - 1 = m + j /\ j \in 0..n
      BY <1>1
    <3>2. Q[m + j] = R[m] + T[j]
      BY <2>2, <3>1
    <3>3. Q[m + (j + 1)] = Q[m + j] + t[j + 1].w
      <4>1. PICK i : i = m + (j + 1)
        OBVIOUS
      <4>2. i \in 1..m + n /\ i - 1 = m + j
        BY <1>1, <4>1
      <4>3. u[i] = t[j + 1]
        BY <1>1, <3>1, <4>1
      <4>4. Q[i] = Q[i - 1] + u[i].w
        BY <1>4, <4>2
      <4>5. Q[i] = Q[m + j] + t[j + 1].w
        BY <4>2, <4>3, <4>4
      <4> QED BY <4>1, <4>5
    <3>4. T[j + 1] = T[j] + t[j + 1].w
      BY <1>3, <3>1
    <3>5. R[m] \in Nat /\ T[j] \in Nat /\ t[j + 1].w \in Nat
      BY <1>2, <1>3, <1>5, <2>0, <3>1
    <3> QED BY <3>2, <3>3, <3>4, <3>5
  <2>3. \A j \in Nat : j \in S
    <3> HIDE DEF S
    <3> QED BY <2>1, <2>2, Induction
  <2> QED BY <1>1, <2>3
<1>8. TotalWidth(u) = TotalWidth(s) + TotalWidth(t)
  BY <1>1, <1>2, <1>3, <1>4, <1>7
<1> QED BY <1>2, <1>6, <1>7, <1>8 DEF u, m, n, R, T, Q

\* A cell of width k lies d bytes from the start.
HasCell(s, d, k) == \E j \in 1..Len(s) : s[j].w = k /\ Running(s)[j - 1] = d

\* All that the lengths of the fields are needed for.
Sized(s, n) == IsCells(s) /\ TotalWidth(s) = n /\ n \in Nat

\* A single cell is as wide as it says.
LEMMA OneCell ==
  ASSUME NEW c, c.w \in Nat
  PROVE  Sized(<<c>>, c.w) /\ HasCell(<<c>>, 0, c.w)
<1> DEFINE s == <<c>>
<1>1. Len(s) = 1 /\ s[1] = c /\ s = [i \in 1..1 |-> s[i]]
  OBVIOUS
<1> HIDE DEF s
<1>2. IsCells(s)
  BY <1>1 DEF IsCells
<1>3. /\ Running(s)[0] = 0 /\ Running(s)[1] = TotalWidth(s)
      /\ \A j \in 1..1 : Running(s)[j] = Running(s)[j - 1] + s[j].w
  BY <1>1, <1>2, RunningFacts
<1>4. TotalWidth(s) = c.w
  BY <1>1, <1>3
<1>5. HasCell(s, 0, c.w)
  BY <1>1, <1>3 DEF HasCell
<1> QED BY <1>2, <1>4, <1>5 DEF s, Sized

\* No cells have no width.
LEMMA NoCells == Sized(<<>>, 0)
<1>1. Len(<<>>) = 0 /\ <<>> = [i \in 1..0 |-> <<>>[i]]
  OBVIOUS
<1> DEFINE s == <<>>
<1> HIDE DEF s
<1>2. IsCells(s)
  BY <1>1 DEF IsCells, s
<1>3. Running(s)[0] = 0 /\ Running(s)[0] = TotalWidth(s)
  BY <1>1, <1>2, RunningFacts DEF s
<1> QED BY <1>2, <1>3 DEF s, Sized

\* Widths add up when sequences are joined.
LEMMA Joined ==
  ASSUME NEW s, NEW m, Sized(s, m), NEW t, NEW n, Sized(t, n)
  PROVE  Sized(s \o t, m + n)
<1>1. IsCells(s) /\ IsCells(t) /\ m \in Nat /\ n \in Nat /\ TotalWidth(s) = m /\ TotalWidth(t) = n
  BY DEF Sized
<1>2. IsCells(s \o t)
  BY <1>1, JoinedCells, Zenon
<1>3. TotalWidth(s \o t) = TotalWidth(s) + TotalWidth(t)
  BY <1>1, JoinedRunning, Zenon
<1> DEFINE u == s \o t
<1> HIDE DEF u
<1>4. Sized(u, m + n)
  BY <1>1, <1>2, <1>3 DEF Sized, u
<1> QED BY <1>4 DEF u

\* Cells of what is joined are cells of the whole.
LEMMA JoinedHas ==
  ASSUME NEW s, NEW m, Sized(s, m), NEW t, NEW n, Sized(t, n), NEW d \in Nat, NEW k
  PROVE  /\ HasCell(s, d, k) => HasCell(s \o t, d, k)
         /\ HasCell(t, d, k) => HasCell(s \o t, m + d, k)
<1>0. IsCells(s) /\ IsCells(t) /\ TotalWidth(s) = m
  BY DEF Sized
<1>1. Len(s) \in Nat /\ Len(t) \in Nat /\ Len(s \o t) = Len(s) + Len(t)
  BY <1>0, JoinedCells DEF IsCells
<1>2. /\ \A j \in 0..Len(s) : Running(s \o t)[j] = Running(s)[j]
      /\ \A j \in 0..Len(t) : Running(s \o t)[Len(s) + j] = m + Running(t)[j]
      /\ \A i \in 1..Len(s) : (s \o t)[i] = s[i]
      /\ \A i \in 1..Len(t) : (s \o t)[Len(s) + i] = t[i]
  <2>1. /\ \A j \in 0..Len(s) : Running(s \o t)[j] = Running(s)[j]
        /\ \A j \in 0..Len(t) : Running(s \o t)[Len(s) + j] = TotalWidth(s) + Running(t)[j]
    BY <1>0, JoinedRunning
  <2>2. /\ \A i \in 1..Len(s) : (s \o t)[i] = s[i]
        /\ \A i \in 1..Len(t) : (s \o t)[Len(s) + i] = t[i]
    BY <1>0, JoinedCells
  <2> QED BY <1>0, <2>1, <2>2
<1>3. ASSUME HasCell(s, d, k) PROVE HasCell(s \o t, d, k)
  <2>1. PICK j \in 1..Len(s) : s[j].w = k /\ Running(s)[j - 1] = d
    BY <1>3 DEF HasCell
  <2>2. j \in 1..Len(s \o t) /\ (s \o t)[j].w = k /\ Running(s \o t)[j - 1] = d
    BY <1>1, <1>2, <2>1, SMTT(40)
  <2> QED BY <2>2 DEF HasCell
<1>4. ASSUME HasCell(t, d, k) PROVE HasCell(s \o t, m + d, k)
  <2>1. PICK j \in 1..Len(t) : t[j].w = k /\ Running(t)[j - 1] = d
    BY <1>4 DEF HasCell
  <2> DEFINE i == Len(s) + j
  <2>2. i \in 1..Len(s \o t) /\ i - 1 = Len(s) + (j - 1) /\ j - 1 \in 0..Len(t)
    BY <1>1
  <2>3. (s \o t)[i].w = k /\ Running(s \o t)[i - 1] = m + d
    BY <1>2, <2>1, <2>2
  <2> HIDE DEF i
  <2> QED BY <2>2, <2>3 DEF HasCell
<1> QED BY <1>3, <1>4

----------------------------------------------------------------------------
(* The lengths of the fields and of the headers. *)

LEMMA NumCells ==
  ASSUME NEW w \in Nat, NEW v
  PROVE  Sized(Num(w, v), w) /\ HasCell(Num(w, v), 0, w)
<1> DEFINE c == [w |-> w, kind |-> "num", v |-> v]
<1>1. c.w = w
  OBVIOUS
<1> HIDE DEF c
<1>2. Sized(<<c>>, c.w) /\ HasCell(<<c>>, 0, c.w)
  BY <1>1, OneCell
<1> QED BY <1>1, <1>2 DEF Num, c

\* The numbers of one, two and four bytes.
LEMMA Numbers ==
  ASSUME NEW v
  PROVE  /\ Sized(U8(v), 1) /\ HasCell(U8(v), 0, 1)
         /\ Sized(U16(v), 2) /\ HasCell(U16(v), 0, 2)
         /\ Sized(U32(v), 4) /\ HasCell(U32(v), 0, 4)
BY NumCells DEF U8, U16, U32

\* Flags, node ids and the magic.
LEMMA Marks ==
  ASSUME NEW x
  PROVE  Sized(Flags(x), 1) /\ Sized(NodeId(x), 16) /\ Sized(Magic, 4)
<1> DEFINE a == [w |-> 1, kind |-> "flags", v |-> x]
           b == [w |-> 16, kind |-> "id", v |-> x]
           c == [w |-> 4, kind |-> "magic", v |-> "RRAC"]
<1>1. a.w = 1 /\ b.w = 16 /\ c.w = 4
  OBVIOUS
<1> HIDE DEF a, b, c
<1>2. Sized(<<a>>, a.w) /\ Sized(<<b>>, b.w) /\ Sized(<<c>>, c.w)
  BY <1>1, OneCell
<1> QED BY <1>1, <1>2 DEF Flags, NodeId, Magic, a, b, c

\* Texts and data are as wide as their lengths.
LEMMA Payloads ==
  /\ \A s \in DOMAIN NameLen : Sized(Text(s), NameLen[s])
  /\ \A d, w : w \in Nat => Sized(Data(d, w), w)
<1>1. ASSUME NEW s \in DOMAIN NameLen PROVE Sized(Text(s), NameLen[s])
  <2> DEFINE c == [w |-> NameLen[s], kind |-> "text", v |-> s]
  <2>1. c.w = NameLen[s] /\ NameLen[s] \in Nat
    BY NamesAssumption
  <2> HIDE DEF c
  <2>2. Sized(<<c>>, c.w)
    BY <2>1, OneCell
  <2> QED BY <2>1, <2>2 DEF Text, c
<1>2. ASSUME NEW d, NEW w \in Nat PROVE Sized(Data(d, w), w)
  <2> DEFINE c == [w |-> w, kind |-> "data", v |-> d]
  <2>1. c.w = w
    OBVIOUS
  <2> HIDE DEF c
  <2>2. Sized(<<c>>, c.w)
    BY <2>1, OneCell
  <2> QED BY <2>1, <2>2 DEF Data, c
<1> QED BY <1>1, <1>2

\* Joining fields: the sums worked out.
LEMMA Join ==
  ASSUME NEW s, NEW m, Sized(s, m), NEW t, NEW n, Sized(t, n), NEW k, k = m + n
  PROVE  Sized(s \o t, k)
<1>1. Sized(s \o t, m + n)
  BY Joined, Zenon
<1> QED BY <1>1

\* A number of variable width is as wide as UintXSize says; one that is filled in later has
\* five bytes, four of them to be filled in.
LEMMA Variable ==
  ASSUME NEW v
  PROVE  /\ Sized(UintX(v), UintXSize(v))
         /\ Sized(PaddedUintX(v), 5) /\ HasCell(PaddedUintX(v), 1, 4)
         /\ \E n : Sized(IntX(v), n)
<1>1. \A x, y : Sized(U8(x) \o U16(y), 3) /\ Sized(U8(x) \o U32(y), 5)
  BY Numbers, Join
<1>2. \A x, y : HasCell(U8(x) \o U32(y), 1, 4)
  <2> SUFFICES ASSUME NEW x, NEW y PROVE HasCell(U8(x) \o U32(y), 1, 4)
    OBVIOUS
  <2>1. HasCell(U8(x) \o U32(y), 1 + 0, 4)
    BY Numbers, JoinedHas
  <2> QED BY <2>1
<1>3. Sized(UintX(v), UintXSize(v))
  <2>1. CASE v <= 252
    BY <2>1, Numbers DEF UintX, UintXSize
  <2>2. CASE ~(v <= 252) /\ v <= 65535
    BY <1>1, <2>2 DEF UintX, UintXSize
  <2>3. CASE ~(v <= 252) /\ ~(v <= 65535)
    BY <1>1, <2>3 DEF UintX, UintXSize
  <2> QED BY <2>1, <2>2, <2>3
<1>4. Sized(PaddedUintX(v), 5) /\ HasCell(PaddedUintX(v), 1, 4)
  BY <1>1, <1>2 DEF PaddedUintX
<1>5. \E n : Sized(IntX(v), n)
  <2>1. IntX(v) = U8(v) \/ IntX(v) = U8(125) \o U16(v) \/ IntX(v) = U8(126) \o U32(v)
    <3> DEFINE p == v \in -128..124
               q == v \in -32768..32767
               x == U8(v)
               y == U8(125) \o U16(v)
               z == U8(126) \o U32(v)
    <3>1. IntX(v) = IF p THEN x ELSE IF q THEN y ELSE z
      BY DEF IntX
    <3> HIDE DEF p, q, x, y, z
    <3>2. IntX(v) = x \/ IntX(v) = y \/ IntX(v) = z
      BY <3>1, Zenon
    <3> QED BY <3>2, Zenon DEF x, y, z
  <2>2. Sized(U8(v), 1) /\ Sized(U8(125) \o U16(v), 3) /\ Sized(U8(126) \o U32(v), 5)
    BY <1>1, Numbers
  <2> QED BY <2>1, <2>2, Zenon
<1> QED BY <1>3, <1>4, <1>5

\* A string is as wide as its length and the number before it.
LEMMA Strings ==
  ASSUME NEW s \in DOMAIN NameLen
  PROVE  /\ NameLen[s] \in Nat /\ StringSize4(s) \in Nat
         /\ Sized(String2(s), 2 + NameLen[s]) /\ Sized(String4(s), StringSize4(s))
<1>0. NameLen[s] \in Nat
  BY NamesAssumption
<1>1. UintXSize(NameLen[s]) \in Nat
  BY <1>0 DEF UintXSize
<1>2. Sized(U16(NameLen[s] % 65536), 2) /\ Sized(Text(s), NameLen[s])
      /\ Sized(UintX(NameLen[s]), UintXSize(NameLen[s]))
  BY Numbers, Payloads, Variable
<1>3. Sized(String2(s), 2 + NameLen[s])
  <2> DEFINE x == U16(NameLen[s] % 65536)
             y == Text(s)
  <2>1. Sized(x, 2) /\ Sized(y, NameLen[s])
    BY <1>2
  <2> HIDE DEF x, y
  <2>2. Sized(x \o y, 2 + NameLen[s])
    BY <2>1, Joined
  <2> QED BY <2>2 DEF x, y, String2
<1>4. Sized(String4(s), StringSize4(s))
  <2> DEFINE x == UintX(NameLen[s])
             y == Text(s)
             n == UintXSize(NameLen[s])
  <2>1. Sized(x, n) /\ Sized(y, NameLen[s])
    BY <1>2
  <2> HIDE DEF x, y, n
  <2>2. Sized(x \o y, n + NameLen[s])
    BY <2>1, Joined
  <2> QED BY <2>2 DEF x, y, n, String4, StringSize4
<1> QED BY <1>0, <1>1, <1>3, <1>4 DEF StringSize4

\* What is left out has no width.
LEMMA Optional ==
  ASSUME NEW p, NEW s, NEW n, Sized(s, n)
  PROVE  Sized(Opt(p, s), IF p THEN n ELSE 0)
BY NoCells DEF Opt

\* Three and four sequences in a row, and where their cells lie.
LEMMA Three ==
  ASSUME NEW a, NEW i, Sized(a, i), NEW b, NEW j, Sized(b, j), NEW c, NEW k, Sized(c, k)
  PROVE  /\ Sized(a \o b \o c, i + j + k) /\ i + j + k \in Nat
         /\ \A d \in Nat : \A w : /\ HasCell(a, d, w) => HasCell(a \o b \o c, d, w)
                                  /\ HasCell(b, d, w) => HasCell(a \o b \o c, i + d, w)
                                  /\ HasCell(c, d, w) => HasCell(a \o b \o c, i + j + d, w)
<1> DEFINE ab == a \o b
           abc == ab \o c
<1>1. i \in Nat /\ j \in Nat /\ k \in Nat
  BY DEF Sized
<1>2. Sized(ab, i + j) /\ i + j \in Nat
  <2>1. Sized(ab, i + j)
    BY Joined
  <2> QED BY <1>1, <2>1
<1>3. \A d \in Nat : \A w : /\ HasCell(a, d, w) => HasCell(ab, d, w)
                            /\ HasCell(b, d, w) => HasCell(ab, i + d, w)
  BY JoinedHas
<1> HIDE DEF ab
<1>4. Sized(abc, i + j + k)
  BY <1>2, Joined
<1>5. \A d \in Nat : \A w : /\ HasCell(ab, d, w) => HasCell(abc, d, w)
                            /\ HasCell(c, d, w) => HasCell(abc, i + j + d, w)
  BY <1>2, JoinedHas
<1> HIDE DEF abc
<1>6. \A d \in Nat : i + d \in Nat
  BY <1>1
<1>7. \A d \in Nat : \A w : /\ HasCell(a, d, w) => HasCell(abc, d, w)
                            /\ HasCell(b, d, w) => HasCell(abc, i + d, w)
                            /\ HasCell(c, d, w) => HasCell(abc, i + j + d, w)
  BY <1>3, <1>5, <1>6
<1>8. i + j + k \in Nat
  BY <1>1
<1> QED BY <1>4, <1>7, <1>8 DEF ab, abc

\* Four of them.
LEMMA Four ==
  ASSUME NEW a, NEW i, Sized(a, i), NEW b, NEW j, Sized(b, j), NEW c, NEW k, Sized(c, k),
         NEW e, NEW l, Sized(e, l)
  PROVE  /\ Sized(a \o b \o c \o e, i + j + k + l) /\ i + j + k + l \in Nat
         /\ \A d \in Nat : \A w :
              /\ HasCell(a, d, w) => HasCell(a \o b \o c \o e, d, w)
              /\ HasCell(b, d, w) => HasCell(a \o b \o c \o e, i + d, w)
              /\ HasCell(c, d, w) => HasCell(a \o b \o c \o e, i + j + d, w)
              /\ HasCell(e, d, w) => HasCell(a \o b \o c \o e, i + j + k + d, w)
<1> DEFINE abc == a \o b \o c
           all == abc \o e
           n == i + j + k
<1>1. i \in Nat /\ j \in Nat /\ k \in Nat /\ l \in Nat
  BY DEF Sized
<1>2. /\ Sized(abc, n) /\ n \in Nat
      /\ \A d \in Nat : \A w : /\ HasCell(a, d, w) => HasCell(abc, d, w)
                               /\ HasCell(b, d, w) => HasCell(abc, i + d, w)
                               /\ HasCell(c, d, w) => HasCell(abc, i + j + d, w)
  BY Three
<1> HIDE DEF abc, n
<1>3. Sized(all, n + l)
  BY <1>2, Joined
<1>4. \A d \in Nat : \A w : /\ HasCell(abc, d, w) => HasCell(all, d, w)
                            /\ HasCell(e, d, w) => HasCell(all, n + d, w)
  BY <1>2, JoinedHas
<1> HIDE DEF all
<1>5. \A d \in Nat : i + d \in Nat /\ i + j + d \in Nat
  BY <1>1
<1>6. \A d \in Nat : \A w : /\ HasCell(a, d, w) => HasCell(all, d, w)
                            /\ HasCell(b, d, w) => HasCell(all, i + d, w)
                            /\ HasCell(c, d, w) => HasCell(all, i + j + d, w)
                            /\ HasCell(e, d, w) => HasCell(all, n + d, w)
  BY <1>2, <1>4, <1>5
<1>7. n + l \in Nat
  BY <1>1, <1>2
<1> QED BY <1>3, <1>6, <1>7 DEF abc, all, n

\* The entry's header: its size is filled in near its start, its count at its end.

LEMMA EntryShape2 ==
  ASSUME NEW h, {h.service_path, h.member_name, h.metadata} \subseteq DOMAIN NameLen
  PROVE  \E n \in Nat : /\ n >= 2 /\ Sized(EntryCells2(h), n)
                        /\ HasCell(EntryCells2(h), 0, 4) /\ HasCell(EntryCells2(h), n - 2, 2)
<1> DEFINE a1 == U32(0)
           a2 == U16(h.entry_type)
           a3 == U16(0)
           a4 == String2(h.service_path)
           b2 == String2(h.member_name)
           b3 == U32(h.request_id)
           b4 == U16(h.error)
           c2 == String2(h.metadata)
           x == a1 \o a2 \o a3 \o a4
           y == x \o b2 \o b3 \o b4
           z == y \o c2 \o a3
           l4 == 2 + NameLen[h.service_path]
           m2 == 2 + NameLen[h.member_name]
           n2 == 2 + NameLen[h.metadata]
<1>1. /\ Sized(a1, 4) /\ HasCell(a1, 0, 4) /\ Sized(a2, 2) /\ Sized(a3, 2) /\ HasCell(a3, 0, 2)
      /\ Sized(b3, 4) /\ Sized(b4, 2)
  BY Numbers
<1>2. Sized(a4, l4) /\ Sized(b2, m2) /\ Sized(c2, n2)
  BY Strings
<1>3. EntryCells2(h) = z
  BY DEF EntryCells2
<1> HIDE DEF a1, a2, a3, a4, b2, b3, b4, c2, l4, m2, n2
<1> DEFINE i == 4 + 2 + 2 + l4
           j == i + m2 + 4 + 2
           k == j + n2 + 2
<1>4. Sized(x, i) /\ HasCell(x, 0, 4)
  BY <1>1, <1>2, Four
<1> HIDE DEF x, i
<1>5. Sized(y, j) /\ HasCell(y, 0, 4)
  BY <1>1, <1>2, <1>4, Four
<1> HIDE DEF y, j
<1>6. Sized(z, k) /\ HasCell(z, 0, 4) /\ HasCell(z, j + n2 + 0, 2)
  BY <1>1, <1>2, <1>5, Three
<1> HIDE DEF z
<1>7. j \in Nat /\ n2 \in Nat
  BY <1>2, <1>5 DEF Sized
<1>8. k \in Nat /\ k >= 2 /\ k - 2 = j + n2 + 0
  BY <1>7
<1> QED BY <1>3, <1>6, <1>8

\* The same in version 4, where the size is a number of five bytes.
LEMMA EntryShape4 ==
  ASSUME NEW h, {h.service_path, h.member_name, h.metadata} \subseteq DOMAIN NameLen
  PROVE  \E n \in Nat : /\ n >= 4 /\ Sized(EntryCells4(h), n)
                        /\ HasCell(EntryCells4(h), 1, 4) /\ HasCell(EntryCells4(h), n - 4, 4)
<1> DEFINE flags == EntryFlags(h)
           a1 == PaddedUintX(0)
           a2 == Flags(flags)
           a3 == U16(h.entry_type)
           a4 == Opt("path" \in flags, String4(h.service_path))
           b2 == Opt("path_code" \in flags, UintX(h.service_path_code))
           b3 == Opt("member" \in flags, String4(h.member_name))
           b4 == Opt("member_code" \in flags, UintX(h.member_name_code))
           c2 == Opt("request" \in flags, UintX(h.request_id))
           c3 == Opt("error" \in flags, U16(h.error))
           c4 == Opt("meta" \in flags, String4(h.metadata))
           x == a1 \o a2 \o a3 \o a4
           y == x \o b2 \o b3 \o b4
           u == y \o c2 \o c3 \o c4
           z == u \o a1
<1>1. Sized(a1, 5) /\ HasCell(a1, 1, 4)
  BY Variable
<1>2. Sized(a2, 1) /\ Sized(a3, 2)
  BY Marks, Numbers
<1>3. \A p, s : s \in DOMAIN NameLen => \E n : Sized(Opt(p, String4(s)), n)
  BY Strings, Optional
<1>4. \A p, v : \E n : Sized(Opt(p, UintX(v)), n)
  BY Variable, Optional
<1>5. \A p, v : \E n : Sized(Opt(p, U16(v)), n)
  BY Numbers, Optional
<1>6. PICK l4, m2, m3, m4, n2, n3, n4 :
        /\ Sized(a4, l4) /\ Sized(b2, m2) /\ Sized(b3, m3) /\ Sized(b4, m4)
        /\ Sized(c2, n2) /\ Sized(c3, n3) /\ Sized(c4, n4)
  BY <1>3, <1>4, <1>5, SMTT(40)
<1>7. EntryCells4(h) = z
  BY DEF EntryCells4
<1> HIDE DEF a1, a2, a3, a4, b2, b3, b4, c2, c3, c4
<1> DEFINE i == 5 + 1 + 2 + l4
           j == i + m2 + m3 + m4
           k == j + n2 + n3 + n4
<1>8. Sized(x, i) /\ HasCell(x, 1, 4)
  BY <1>1, <1>2, <1>6, Four
<1> HIDE DEF x, i
<1>9. Sized(y, j) /\ HasCell(y, 1, 4)
  BY <1>6, <1>8, Four
<1> HIDE DEF y, j
<1>10. Sized(u, k) /\ HasCell(u, 1, 4)
  BY <1>6, <1>9, Four
<1> HIDE DEF u, k
<1>11. Sized(z, k + 5) /\ HasCell(z, 1, 4) /\ HasCell(z, k + 1, 4)
  BY <1>1, <1>10, Joined, JoinedHas
<1> HIDE DEF z
<1>12. k \in Nat
  BY <1>10 DEF Sized
<1> HIDE DEF k
<1>13. PICK n : n = k + 5
  OBVIOUS
<1>14. n \in Nat /\ n >= 4 /\ n - 4 = k + 1
  BY <1>12, <1>13
<1>15. Sized(z, n) /\ HasCell(z, 1, 4) /\ HasCell(z, n - 4, 4)
  BY <1>11, <1>13, <1>14
<1> QED BY <1>7, <1>14, <1>15, Zenon

\* The header of a structure: the count is its last four bytes in either version.
LEMMA ElementShape2 ==
  ASSUME NEW h, {h.element_name, h.element_type_name, h.metadata} \subseteq DOMAIN NameLen
  PROVE  \E n \in Nat : /\ n >= 4 /\ Sized(ElementCells2(h), n)
                        /\ HasCell(ElementCells2(h), 0, 4) /\ HasCell(ElementCells2(h), n - 4, 4)
<1> DEFINE a1 == U32(0)
           a2 == String2(h.element_name)
           a3 == U16(h.element_type)
           a4 == String2(h.element_type_name)
           b2 == String2(h.metadata)
           x == a1 \o a2 \o a3 \o a4
           z == x \o b2 \o a1
           l2 == 2 + NameLen[h.element_name]
           l4 == 2 + NameLen[h.element_type_name]
           m2 == 2 + NameLen[h.metadata]
<1>1. Sized(a1, 4) /\ HasCell(a1, 0, 4) /\ Sized(a3, 2)
  BY Numbers
<1>2. Sized(a2, l2) /\ Sized(a4, l4) /\ Sized(b2, m2)
  BY Strings
<1>3. ElementCells2(h) = z
  BY DEF ElementCells2
<1> HIDE DEF a1, a2, a3, a4, b2, l2, l4, m2
<1> DEFINE i == 4 + l2 + 2 + l4
           k == i + m2 + 4
<1>4. Sized(x, i) /\ HasCell(x, 0, 4)
  BY <1>1, <1>2, Four
<1> HIDE DEF x, i
<1>5. Sized(z, k) /\ HasCell(z, 0, 4) /\ HasCell(z, i + m2 + 0, 4)
  BY <1>1, <1>2, <1>4, Three
<1> HIDE DEF z
<1>6. i \in Nat /\ m2 \in Nat
  BY <1>2, <1>4 DEF Sized
<1>7. k \in Nat /\ k >= 4 /\ k - 4 = i + m2 + 0
  BY <1>6
<1> QED BY <1>3, <1>5, <1>7

\* The same in version 4.
LEMMA ElementShape4 ==
  ASSUME NEW h, {h.element_name, h.element_type_name, h.metadata} \subseteq DOMAIN NameLen
  PROVE  \E n \in Nat : /\ n >= 4 /\ Sized(ElementCells4(h), n)
                        /\ HasCell(ElementCells4(h), 1, 4) /\ HasCell(ElementCells4(h), n - 4, 4)
<1> DEFINE flags == ElementFlags(h)
           a1 == PaddedUintX(0)
           a2 == Flags(flags)
           a3 == Opt("name" \in flags, String4(h.element_name))
           a4 == Opt("name_code" \in flags, UintX(h.element_name_code))
           b2 == Opt("number" \in flags, IntX(h.element_number))
           b3 == U16(h.element_type)
           b4 == Opt("type_name" \in flags, String4(h.element_type_name))
           c2 == Opt("type_code" \in flags, UintX(h.element_type_name_code))
           c3 == Opt("meta" \in flags, String4(h.metadata))
           x == a1 \o a2 \o a3 \o a4
           y == x \o b2 \o b3 \o b4
           u == y \o c2 \o c3
           z == u \o a1
<1>1. Sized(a1, 5) /\ HasCell(a1, 1, 4)
  BY Variable
<1>2. Sized(a2, 1) /\ Sized(b3, 2)
  BY Marks, Numbers
<1>3. \A p, s : s \in DOMAIN NameLen => \E n : Sized(Opt(p, String4(s)), n)
  BY Strings, Optional
<1>4. \A p, v : \E n : Sized(Opt(p, UintX(v)), n)
  BY Variable, Optional
<1>5. \A p, v : \E n : Sized(Opt(p, IntX(v)), n)
  BY Variable, Optional
<1>6. PICK l3, l4, m2, m4, n2, n3 :
        /\ Sized(a3, l3) /\ Sized(a4, l4) /\ Sized(b2, m2) /\ Sized(b4, m4)
        /\ Sized(c2, n2) /\ Sized(c3, n3)
  BY <1>3, <1>4, <1>5
<1>7. ElementCells4(h) = z
  BY DEF ElementCells4
<1> HIDE DEF a1, a2, a3, a4, b2, b3, b4, c2, c3
<1> DEFINE i == 5 + 1 + l3 + l4
           j == i + m2 + 2 + m4
           k == j + n2 + n3
<1>8. Sized(x, i) /\ HasCell(x, 1, 4)
  BY <1>1, <1>2, <1>6, Four
<1> HIDE DEF x, i
<1>9. Sized(y, j) /\ HasCell(y, 1, 4)
  BY <1>2, <1>6, <1>8, Four
<1> HIDE DEF y, j
<1>10. Sized(u, k) /\ HasCell(u, 1, 4)
  BY <1>6, <1>9, Three
<1> HIDE DEF u, k
<1>11. Sized(z, k + 5) /\ HasCell(z, 1, 4) /\ HasCell(z, k + 1, 4)
  BY <1>1, <1>10, Joined, JoinedHas
<1> HIDE DEF z
<1>12. k \in Nat
  BY <1>10 DEF Sized
<1> HIDE DEF k
<1>13. PICK n : n = k + 5
  OBVIOUS
<1>14. n \in Nat /\ n >= 4 /\ n - 4 = k + 1
  BY <1>12, <1>13
<1>15. Sized(z, n) /\ HasCell(z, 1, 4) /\ HasCell(z, n - 4, 4)
  BY <1>11, <1>13, <1>14
<1> QED BY <1>7, <1>14, <1>15, Zenon

\* The message's own header: its size is the second field, the number of entries is 6 bytes
\* from the end in version 2, and in the last 4, if at all, in version 4.
LEMMA MessageShape2 ==
  ASSUME NEW h, {h.sender_nodename, h.receiver_nodename, h.metadata} \subseteq DOMAIN NameLen
  PROVE  \E n \in Nat : /\ n >= 12 /\ Sized(MessageCells2(h), n) /\ HasCell(MessageCells2(h), 4, 4)
                        /\ Count2Fits(h) => HasCell(MessageCells2(h), n - 6, 2)
<1> DEFINE hs == (StringBytes(h) + 64) % 65536
           a1 == Magic
           a2 == U32(0)
           a3 == U16(2)
           a4 == U16(hs)
           b2 == NodeId(h.sender_nodeid)
           b3 == NodeId(h.receiver_nodeid)
           b4 == U32(h.sender_endpoint)
           c2 == U32(h.receiver_endpoint)
           c3 == String2(h.sender_nodename)
           c4 == String2(h.receiver_nodename)
           d2 == String2(h.metadata)
           e2 == U16(h.entry_count)
           e3 == U16(h.message_id)
           e4 == U16(h.message_res_id)
           x == a1 \o a2 \o a3 \o a4
           y == x \o b2 \o b3 \o b4
           u == y \o c2 \o c3 \o c4
           c == e2 \o e3 \o e4
           t == Opt(Count2Fits(h), c)
           z == u \o d2 \o t
           l1 == 2 + NameLen[h.sender_nodename]
           l2 == 2 + NameLen[h.receiver_nodename]
           l3 == 2 + NameLen[h.metadata]
<1>1. /\ Sized(a1, 4) /\ Sized(a2, 4) /\ HasCell(a2, 0, 4) /\ Sized(a3, 2) /\ Sized(a4, 2)
      /\ Sized(b2, 16) /\ Sized(b3, 16) /\ Sized(b4, 4) /\ Sized(c2, 4)
      /\ Sized(e2, 2) /\ HasCell(e2, 0, 2) /\ Sized(e3, 2) /\ Sized(e4, 2)
  BY Numbers, Marks
<1>2. Sized(c3, l1) /\ Sized(c4, l2) /\ Sized(d2, l3)
  BY Strings
<1>3. MessageCells2(h) = z
  BY DEF MessageCells2
<1> HIDE DEF a1, a2, a3, a4, b2, b3, b4, c2, c3, c4, d2, e2, e3, e4, l1, l2, l3
<1> DEFINE p == 12 + 36
           i == p + 4 + l1 + l2
           k == IF Count2Fits(h) THEN 6 ELSE 0
<1>4. Sized(x, 4 + 4 + 2 + 2) /\ HasCell(x, 4 + 0, 4)
  BY <1>1, Four
<1>5. Sized(x, 12) /\ HasCell(x, 4, 4)
  BY <1>4
<1> HIDE DEF x
<1>6. Sized(y, 12 + 16 + 16 + 4) /\ HasCell(y, 4, 4)
  BY <1>1, <1>5, Four
<1>7. Sized(y, p) /\ HasCell(y, 4, 4)
  BY <1>6
<1> HIDE DEF y, p
<1>8. Sized(u, i) /\ HasCell(u, 4, 4)
  BY <1>1, <1>2, <1>7, Four
<1> HIDE DEF u
<1>9. i \in Nat /\ l3 \in Nat /\ i >= 12
  BY <1>2, <1>7, <1>8 DEF Sized, i, p, l1, l2
<1> HIDE DEF i
<1>10. Sized(c, 6) /\ HasCell(c, 0, 2)
  <2>1. Sized(c, 2 + 2 + 2) /\ HasCell(c, 0, 2)
    BY <1>1, Three
  <2> QED BY <2>1
<1> HIDE DEF c
<1>11. Sized(t, k) /\ k \in Nat /\ (Count2Fits(h) => k = 6 /\ HasCell(t, 0, 2))
  <2>1. Sized(t, k)
    BY <1>10, Optional, Zenon
  <2>2. Count2Fits(h) => t = c
    BY DEF Opt
  <2> QED BY <1>10, <2>1, <2>2
<1> HIDE DEF t, k
<1>12. /\ Sized(z, i + l3 + k) /\ HasCell(z, 4, 4)
       /\ Count2Fits(h) => HasCell(z, i + l3 + 0, 2)
  BY <1>2, <1>8, <1>11, Three
<1> HIDE DEF z
<1>13. PICK n : n = i + l3 + k
  OBVIOUS
<1>14. n \in Nat /\ n >= 12 /\ (Count2Fits(h) => n - 6 = i + l3 + 0)
  BY <1>9, <1>11, <1>13
<1>15. Sized(z, n) /\ HasCell(z, 4, 4) /\ (Count2Fits(h) => HasCell(z, n - 6, 2))
  BY <1>12, <1>13, <1>14
<1> QED BY <1>3, <1>14, <1>15, Zenon

\* A length that counts the number it is written in.
LEMMA CountsItself ==
  ASSUME NEW n \in Nat
  PROVE  /\ LenPlusUintX(n) \in Nat
         /\ LenPlusUintX(n) = n + UintXSize(LenPlusUintX(n))
         /\ UintXSize(LenPlusUintX(n)) \in {1, 3, 5}
BY DEF LenPlusUintX, UintXSize

\* Version 4 works the size of the header out before it writes it.
LEMMA MessageShape4 ==
  ASSUME NEW h, {h.sender_nodename, h.receiver_nodename, h.metadata} \subseteq DOMAIN NameLen,
         NEW flags
  PROVE  \E n \in Nat : /\ n = HeaderSize4(h, flags) /\ n >= 12 /\ Sized(MessageCells4(h, flags), n)
                        /\ HasCell(MessageCells4(h, flags), 4, 4)
                        /\ "multiple" \in flags => HasCell(MessageCells4(h, flags), n - 4, 4)
<1> DEFINE hs == HeaderSize4(h, flags)
           a1 == Magic
           a2 == U32(0)
           a3 == U16(4)
           a4 == UintX(hs)
           b2 == Flags(flags)
           r1 == NodeId(h.sender_nodeid)
           r2 == NodeId(h.receiver_nodeid)
           r3 == String4(h.sender_nodename)
           r4 == String4(h.receiver_nodename)
           b3 == Opt("routing" \in flags, r1 \o r2 \o r3 \o r4)
           s1 == UintX(h.sender_endpoint)
           s2 == UintX(h.receiver_endpoint)
           b4 == Opt("endpoint" \in flags, s1 \o s2)
           c2 == Opt("priority" \in flags, U16(h.priority))
           m1 == String4(h.metadata)
           m2 == U16(h.message_id)
           m3 == U16(h.message_res_id)
           c3 == Opt("meta" \in flags, m1 \o m2 \o m3)
           p1 == PaddedUintX(h.entry_count)
           c4 == Opt("multiple" \in flags, p1)
           x == a1 \o a2 \o a3 \o a4
           y == x \o b2 \o b3 \o b4
           z == y \o c2 \o c3 \o c4
           ux == UintXSize(hs)
           l1 == StringSize4(h.sender_nodename)
           l2 == StringSize4(h.receiver_nodename)
           l3 == StringSize4(h.metadata)
           e1 == UintXSize(h.sender_endpoint)
           e2 == UintXSize(h.receiver_endpoint)
           R == IF "routing" \in flags THEN 32 + l1 + l2 ELSE 0
           E == IF "endpoint" \in flags THEN e1 + e2 ELSE 0
           P == IF "priority" \in flags THEN 2 ELSE 0
           M == IF "meta" \in flags THEN l3 + 4 ELSE 0
           X == IF "multiple" \in flags THEN 5 ELSE 0
           len == 11 + R + E + P + M + X
<1>1. /\ Sized(a1, 4) /\ Sized(a2, 4) /\ HasCell(a2, 0, 4) /\ Sized(a3, 2) /\ Sized(b2, 1)
      /\ Sized(r1, 16) /\ Sized(r2, 16) /\ Sized(m2, 2) /\ Sized(m3, 2) /\ Sized(U16(h.priority), 2)
  BY Numbers, Marks
<1>2. /\ Sized(r3, l1) /\ Sized(r4, l2) /\ Sized(m1, l3)
      /\ l1 \in Nat /\ l2 \in Nat /\ l3 \in Nat
  BY Strings
<1>3. /\ Sized(a4, ux) /\ Sized(s1, e1) /\ Sized(s2, e2)
      /\ Sized(p1, 5) /\ HasCell(p1, 1, 4)
  BY Variable
<1>4. e1 \in Nat /\ e2 \in Nat
  BY DEF UintXSize
<1>5. hs = LenPlusUintX(len)
  BY DEF HeaderSize4
<1>6. MessageCells4(h, flags) = z
  BY DEF MessageCells4
<1> HIDE DEF hs, a1, a2, a3, a4, b2, r1, r2, r3, r4, s1, s2, m1, m2, m3, p1, ux, l1, l2, l3, e1, e2
<1>7. Sized(b3, R) /\ R \in Nat
  <2>1. Sized(r1 \o r2 \o r3 \o r4, 16 + 16 + l1 + l2)
    BY <1>1, <1>2, Four
  <2>2. 16 + 16 + l1 + l2 = 32 + l1 + l2 /\ 32 + l1 + l2 \in Nat
    BY <1>2
  <2>3. Sized(r1 \o r2 \o r3 \o r4, 32 + l1 + l2)
    BY <2>1, <2>2
  <2> QED BY <2>2, <2>3, Optional
<1>8. Sized(b4, E) /\ E \in Nat
  <2>1. Sized(s1 \o s2, e1 + e2)
    BY <1>3, Joined
  <2>2. Sized(b4, E)
    BY <2>1, Optional, Zenon
  <2>3. E \in Nat
    BY <1>4
  <2> QED BY <2>2, <2>3
<1>9. Sized(c2, P) /\ P \in Nat
  BY <1>1, Optional
<1>10. Sized(c3, M) /\ M \in Nat
  <2>1. Sized(m1 \o m2 \o m3, l3 + 2 + 2)
    BY <1>1, <1>2, Three
  <2>2. l3 + 2 + 2 = l3 + 4 /\ l3 + 4 \in Nat
    BY <1>2
  <2>3. Sized(m1 \o m2 \o m3, l3 + 4)
    BY <2>1, <2>2
  <2> QED BY <2>2, <2>3, Optional
<1>11. /\ Sized(c4, X) /\ X \in Nat
       /\ "multiple" \in flags => X = 5 /\ HasCell(c4, 1, 4)
  BY <1>3, Optional DEF Opt
<1> HIDE DEF b3, b4, c2, c3, c4, R, E, P, M, X
<1>12. Sized(x, 4 + 4 + 2 + ux) /\ HasCell(x, 4 + 0, 4)
  BY <1>1, <1>3, Four
<1>13. ux \in Nat
  BY <1>3 DEF Sized
<1> DEFINE i == 10 + ux
           j == i + 1 + R + E
           k == j + P + M + X
<1>14. 4 + 4 + 2 + ux = i /\ i \in Nat
  BY <1>13
<1>15. Sized(x, i) /\ HasCell(x, 4, 4)
  BY <1>12, <1>14
<1> HIDE DEF x, i
<1>16. Sized(y, j) /\ HasCell(y, 4, 4)
  BY <1>1, <1>7, <1>8, <1>15, Four
<1> HIDE DEF y
<1>17. j \in Nat
  BY <1>7, <1>8, <1>14
<1> HIDE DEF j
<1>18. /\ Sized(z, k) /\ HasCell(z, 4, 4)
       /\ "multiple" \in flags => HasCell(z, j + P + M + 1, 4)
  BY <1>9, <1>10, <1>11, <1>16, Four
<1> HIDE DEF z
<1>19. len \in Nat
  BY <1>7, <1>8, <1>9, <1>10, <1>11
<1>20. hs = len + ux /\ ux \in {1, 3, 5}
  BY <1>5, <1>19, CountsItself DEF ux
<1>21. k = hs /\ hs \in Nat /\ hs >= 12
  BY <1>7, <1>8, <1>9, <1>10, <1>11, <1>20 DEF i, j
<1>22. "multiple" \in flags => j + P + M + 1 = hs - 4
  BY <1>9, <1>10, <1>11, <1>17, <1>21
<1> HIDE DEF k
<1>23. /\ Sized(z, hs) /\ HasCell(z, 4, 4)
       /\ "multiple" \in flags => HasCell(z, hs - 4, 4)
  BY <1>18, <1>21, <1>22
<1>24. hs = HeaderSize4(h, flags)
  BY DEF hs
<1> QED BY <1>6, <1>21, <1>23, <1>24

\* The size of an array, a scalar or a string, which goes into its header, is what is written.
LEMMA DataShape2 ==
  ASSUME NEW name \in DOMAIN NameLen, NEW type, NEW len, NEW bytes \in Nat, NEW d
  PROVE  Sized(DataHeader2(name, type, len, bytes) \o Data(d, bytes), DataSize2(name, bytes))
<1> DEFINE a1 == U32(DataSize2(name, bytes))
           a2 == String2(name)
           a3 == U16(type)
           a4 == U16(0)
           b4 == U32(len)
           c == Data(d, bytes)
           x == a1 \o a2 \o a3 \o a4
           z == x \o a4 \o b4
           l == NameLen[name]
           s == DataSize2(name, bytes)
<1>1. Sized(a1, 4) /\ Sized(a3, 2) /\ Sized(a4, 2) /\ Sized(b4, 4)
  BY Numbers
<1>2. Sized(a2, 2 + l) /\ l \in Nat
  BY Strings
<1>3. Sized(c, bytes)
  BY Payloads
<1>4. DataHeader2(name, type, len, bytes) = z
  BY DEF DataHeader2
<1>5. s = 16 + l + bytes
  BY DEF DataSize2
<1> HIDE DEF a1, a2, a3, a4, b4, c, l, s
<1> DEFINE i == 4 + (2 + l) + 2 + 2
           j == i + 2 + 4
<1>6. Sized(x, i)
  BY <1>1, <1>2, Four
<1> HIDE DEF x, i
<1>7. Sized(z, j)
  BY <1>1, <1>6, Three
<1>8. j + bytes = s
  BY <1>2, <1>5 DEF i
<1> HIDE DEF z, j
<1>9. Sized(z \o c, j + bytes)
  BY <1>3, <1>7, Joined
<1>10. Sized(z \o c, s)
  BY <1>8, <1>9
<1> QED BY <1>4, <1>10 DEF c, s

\* The same in version 4, where the size counts the number it is written in.
LEMMA DataShape4 ==
  ASSUME NEW name \in DOMAIN NameLen, NEW type, NEW len, NEW bytes \in Nat, NEW d
  PROVE  Sized(DataHeader4(name, type, len, bytes) \o Data(d, bytes), DataSize4(name, len, bytes))
<1> DEFINE s == DataSize4(name, len, bytes)
           us == UintXSize(s)
           ul == UintXSize(len)
           l == StringSize4(name)
           L == IF name # "" THEN l ELSE 0
           a1 == UintX(s)
           a2 == Flags({f \in {"name"} : name # ""})
           r == String4(name)
           a3 == Opt(name # "", r)
           a4 == U16(type)
           b2 == UintX(len)
           c == Data(d, bytes)
           x == a1 \o a2 \o a3 \o a4
           z == x \o b2 \o c
           n == 3 + L + ul + bytes
<1>1. Sized(a2, 1) /\ Sized(a4, 2)
  BY Numbers, Marks
<1>2. Sized(r, l) /\ l \in Nat
  BY Strings
<1>3. Sized(c, bytes)
  BY Payloads
<1>4. Sized(a1, us) /\ Sized(b2, ul)
  BY Variable
<1>5. us \in Nat /\ ul \in Nat
  BY DEF UintXSize
<1>6. DataHeader4(name, type, len, bytes) \o Data(d, bytes) = z
  BY DEF DataHeader4
<1>7. s = LenPlusUintX(n)
  BY DEF DataSize4
<1> HIDE DEF a1, a2, r, a4, b2, c, l, s, us, ul
<1>8. Sized(a3, L) /\ L \in Nat
  BY <1>2, Optional
<1> HIDE DEF a3, L
<1> DEFINE i == us + 1 + L + 2
           j == i + ul + bytes
<1>9. Sized(x, i)
  BY <1>1, <1>4, <1>8, Four
<1> HIDE DEF x, i
<1>10. Sized(z, j)
  BY <1>3, <1>4, <1>9, Three
<1>11. n \in Nat
  BY <1>5, <1>8
<1>12. s = n + us
  BY <1>7, <1>11, CountsItself DEF us
<1>13. j = s
  BY <1>5, <1>8, <1>12 DEF i
<1> HIDE DEF z, j
<1>14. Sized(z, s)
  BY <1>10, <1>13
<1> QED BY <1>6, <1>14 DEF s

----------------------------------------------------------------------------
(* What the writers keep. *)

\* The cells lie side by side within a buffer of z bytes.
Sound(z, b) == Disjoint(b) /\ \A p \in DOMAIN b : p + b[p].w <= z

\* A cell of w bytes lies at p, before e: one that is filled in later.
Hole(b, p, w, e) == p \in DOMAIN b /\ b[p].w = w /\ p + w <= e

Writers == [off : Nat, n : Nat, total : Nat, size_off : Nat, count_off : Nat, hsize : Nat]

\* The number of entries has 16 bits in version 2.
CountWidth == IF ver = 2 THEN 2 ELSE 4

WTypes ==
  /\ size \in Nat /\ ver \in {2, 4} /\ Sound(size, buf)
  /\ ew \in Writers /\ els \in Seq(Writers)
  /\ mw \in [hsize : Nat, count_off : Nat \cup {NoOffset}]
  /\ els # <<>> => wphase = "message"
  /\ wphase = "message" => begun \in Messages

\* All up to the next child is written, and the message's own header is there to be filled in.
Laid ==
  wphase # "idle" =>
    /\ End <= size /\ Filled(buf, 0, End)
    /\ ew.total + mw.hsize = ew.off
    /\ Hole(buf, 4, 4, End)
    /\ mw.count_off # NoOffset => Hole(buf, mw.count_off, CountWidth, End)

\* The entry and the structures that are open each begin where the one around them says, and
\* their headers are there to be filled in.
Chain ==
  els # <<>> =>
    /\ els[1].off = ew.off + ew.hsize + els[1].total
    /\ Hole(buf, ew.size_off, 4, End) /\ Hole(buf, ew.count_off, CountWidth, End)
    /\ \A i \in 1..Len(els) - 1 :
          /\ els[i + 1].off = els[i].off + els[i].hsize + els[i + 1].total
          /\ Hole(buf, els[i].size_off, 4, End) /\ Hole(buf, els[i].count_off, 4, End)

IInv == WTypes /\ Laid /\ Chain

\* Cells that end by e stay, with their widths.
Keeps(b, c, e) == \A p \in DOMAIN b : p + b[p].w <= e => p \in DOMAIN c /\ c[p].w = b[p].w

\* What is kept can still be filled in and still leaves no gap.
LEMMA KeptParts ==
  ASSUME NEW b, NEW c, NEW e \in Nat, Keeps(b, c, e), Disjoint(b)
  PROVE  /\ \A p, w : Hole(b, p, w, e) => Hole(c, p, w, e)
         /\ \A m \in Nat : Filled(b, m, e) => Filled(c, m, e)
<1>1. \A p, w : Hole(b, p, w, e) => Hole(c, p, w, e)
  BY DEF Keeps, Hole
<1>2. ASSUME NEW m \in Nat, Filled(b, m, e) PROVE Filled(c, m, e)
  <2> SUFFICES ASSUME NEW x \in m..e - 1
               PROVE  \E o \in DOMAIN c : m <= o /\ o <= x /\ x < o + c[o].w /\ o + c[o].w <= e
    BY DEF Filled
  <2>1. PICK o \in DOMAIN b : m <= o /\ o <= x /\ x < o + b[o].w /\ o + b[o].w <= e
    BY <1>2 DEF Filled
  <2>2. o \in DOMAIN c /\ c[o].w = b[o].w
    BY <2>1 DEF Keeps
  <2> QED BY <2>1, <2>2
<1> QED BY <1>1, <1>2

\* One stretch that is filled after another.
LEMMA FilledOn ==
  ASSUME NEW b, NEW m \in Nat, NEW n \in Nat, NEW e \in Nat, m <= n, n <= e, Disjoint(b),
         Filled(b, m, n), Filled(b, n, e)
  PROVE  Filled(b, m, e)
<1> SUFFICES ASSUME NEW x \in m..e - 1
             PROVE  \E o \in DOMAIN b : m <= o /\ o <= x /\ x < o + b[o].w /\ o + b[o].w <= e
  BY DEF Filled
<1>1. \A o \in DOMAIN b : o \in Nat /\ b[o].w \in Nat
  BY DEF Disjoint
<1>2. CASE x < n
  <2>1. x \in m..n - 1
    BY <1>2
  <2>2. PICK o \in DOMAIN b : m <= o /\ o <= x /\ x < o + b[o].w /\ o + b[o].w <= n
    BY <2>1 DEF Filled
  <2>3. o + b[o].w <= e
    BY <1>1, <2>2
  <2> QED BY <2>2, <2>3
<1>3. CASE x >= n
  <2>1. x \in n..e - 1
    BY <1>3
  <2>2. PICK o \in DOMAIN b : n <= o /\ o <= x /\ x < o + b[o].w /\ o + b[o].w <= e
    BY <2>1 DEF Filled
  <2>3. m <= o
    BY <1>1, <2>2
  <2> QED BY <2>2, <2>3
<1> QED BY <1>2, <1>3

\* One copy into the buffer: what it does not overwrite stays.
LEMMA LayingParts ==
  ASSUME NEW b, NEW o, NEW c
  PROVE  /\ o \in DOMAIN Laying(b, o, c) /\ Laying(b, o, c)[o] = c
         /\ \A p \in DOMAIN Laying(b, o, c) \ {o} :
               /\ p \in DOMAIN b /\ (p + b[p].w <= o \/ p >= o + c.w)
               /\ Laying(b, o, c)[p] = b[p]
         /\ \A p \in DOMAIN b :
               (p + b[p].w <= o \/ p >= o + c.w) /\ p # o =>
                  p \in DOMAIN Laying(b, o, c) /\ Laying(b, o, c)[p] = b[p]
BY DEF Laying

\* A copy fills its bytes and leaves the cells side by side.
LEMMA LayingFacts ==
  ASSUME NEW z \in Nat, NEW b, Sound(z, b), NEW o \in Nat, NEW c, c.w \in Nat \ {0}, o + c.w <= z
  PROVE  /\ Sound(z, Laying(b, o, c)) /\ Keeps(b, Laying(b, o, c), o)
         /\ Filled(Laying(b, o, c), o, o + c.w)
<1> DEFINE nb == Laying(b, o, c)
<1>1. /\ o \in DOMAIN nb /\ nb[o] = c
      /\ \A p \in DOMAIN nb \ {o} :
            p \in DOMAIN b /\ (p + b[p].w <= o \/ p >= o + c.w) /\ nb[p] = b[p]
      /\ \A p \in DOMAIN b : (p + b[p].w <= o \/ p >= o + c.w) /\ p # o =>
            p \in DOMAIN nb /\ nb[p] = b[p]
  BY LayingParts
<1>2. /\ DOMAIN b \subseteq Nat /\ \A p \in DOMAIN b : b[p].w \in Nat \ {0}
      /\ \A p, q \in DOMAIN b : p < q => p + b[p].w <= q
      /\ \A p \in DOMAIN b : p + b[p].w <= z
  BY DEF Sound, Disjoint
<1> HIDE DEF nb
<1>3. DOMAIN nb \subseteq Nat /\ \A p \in DOMAIN nb : nb[p].w \in Nat \ {0} /\ p + nb[p].w <= z
  BY <1>1, <1>2
<1>4. ASSUME NEW p \in DOMAIN nb, NEW q \in DOMAIN nb, p < q PROVE p + nb[p].w <= q
  <2>1. CASE p = o
    <3>1. q \in DOMAIN b /\ (q + b[q].w <= o \/ q >= o + c.w)
      BY <1>1, <1>4, <2>1
    <3> QED BY <1>1, <1>2, <1>4, <2>1, <3>1
  <2>2. CASE q = o
    <3>1. p \in DOMAIN b /\ (p + b[p].w <= o \/ p >= o + c.w) /\ nb[p] = b[p]
      BY <1>1, <1>3, <1>4, <2>2
    <3> QED BY <1>2, <1>3, <1>4, <2>2, <3>1
  <2>3. CASE p # o /\ q # o
    BY <1>1, <1>2, <1>4, <2>3
  <2> QED BY <2>1, <2>2, <2>3
<1>5. Sound(z, nb)
  BY <1>3, <1>4 DEF Sound, Disjoint
<1>6. Keeps(b, nb, o)
  <2> SUFFICES ASSUME NEW p \in DOMAIN b, p + b[p].w <= o PROVE p \in DOMAIN nb /\ nb[p].w = b[p].w
    BY DEF Keeps
  <2>1. p # o
    BY <1>2
  <2> QED BY <1>1, <2>1
<1>7. Filled(nb, o, o + c.w)
  <2> SUFFICES ASSUME NEW x \in o..o + c.w - 1
               PROVE  \E p \in DOMAIN nb :
                         o <= p /\ p <= x /\ x < p + nb[p].w /\ p + nb[p].w <= o + c.w
    BY DEF Filled
  <2>1. o <= x /\ x < o + c.w
    OBVIOUS
  <2>2. o \in DOMAIN nb /\ o <= o /\ o <= x /\ x < o + nb[o].w /\ o + nb[o].w <= o + c.w
    BY <1>1, <2>1
  <2> QED BY <2>2
<1> QED BY <1>5, <1>6, <1>7 DEF nb

\* Filling a hole changes no width.
LEMMA LayingInHole ==
  ASSUME NEW z \in Nat, NEW b, Sound(z, b), NEW o, NEW w, NEW c, c.w = w, NEW f, Hole(b, o, w, f)
  PROVE  /\ Sound(z, Laying(b, o, c))
         /\ \A e \in Nat : Keeps(b, Laying(b, o, c), e)
<1> DEFINE nb == Laying(b, o, c)
<1>1. o \in DOMAIN b /\ b[o].w = c.w
  BY DEF Hole
<1>2. /\ DOMAIN b \subseteq Nat /\ \A p \in DOMAIN b : b[p].w \in Nat \ {0}
      /\ \A p, q \in DOMAIN b : p < q => p + b[p].w <= q
      /\ \A p \in DOMAIN b : p + b[p].w <= z
  BY DEF Sound, Disjoint
<1>3. o \in Nat /\ c.w \in Nat \ {0} /\ o + c.w <= z
  BY <1>1, <1>2
<1>4. Sound(z, nb)
  BY <1>3, LayingFacts
<1>5. ASSUME NEW e \in Nat PROVE Keeps(b, nb, e)
  <2> SUFFICES ASSUME NEW p \in DOMAIN b PROVE p \in DOMAIN nb /\ nb[p].w = b[p].w
    BY DEF Keeps
  <2>1. CASE p = o
    BY <1>1, <2>1, LayingParts
  <2>2. CASE p # o
    <3>1. p + b[p].w <= o \/ p >= o + c.w
      BY <1>1, <1>2, <2>2
    <3> QED BY <2>2, <3>1, LayingParts
  <2> QED BY <2>1, <2>2
<1> QED BY <1>4, <1>5

\* A copy at e, after what has been written since o.
LEMMA LayingOn ==
  ASSUME NEW z \in Nat, NEW b, NEW d, Sound(z, d), NEW o \in Nat, NEW e \in Nat, o <= e,
         Keeps(b, d, o), Disjoint(b), Filled(d, o, e), NEW c, c.w \in Nat \ {0}, e + c.w <= z
  PROVE  LET nb == Laying(d, e, c) IN
         /\ Sound(z, nb) /\ Keeps(b, nb, o) /\ Filled(nb, o, e + c.w)
         /\ Hole(nb, e, c.w, e + c.w)
         /\ \A p, w : Hole(d, p, w, e) => Hole(nb, p, w, e + c.w)
<1> DEFINE nb == Laying(d, e, c)
<1>1. Sound(z, nb) /\ Keeps(d, nb, e) /\ Filled(nb, e, e + c.w)
  BY LayingFacts
<1>2. Disjoint(d) /\ Disjoint(nb)
  BY <1>1 DEF Sound
<1>3. Filled(nb, o, e) /\ \A p, w : Hole(d, p, w, e) => Hole(nb, p, w, e)
  <2> HIDE DEF nb
  <2> QED BY <1>1, <1>2, KeptParts
<1>4. e \in DOMAIN nb /\ nb[e] = c
  BY LayingParts
<1> HIDE DEF nb
<1>5. Keeps(b, nb, o)
  <2> SUFFICES ASSUME NEW p \in DOMAIN b, p + b[p].w <= o PROVE p \in DOMAIN nb /\ nb[p].w = b[p].w
    BY DEF Keeps
  <2>1. p \in DOMAIN d /\ d[p].w = b[p].w
    BY DEF Keeps
  <2>2. p \in Nat /\ b[p].w \in Nat
    BY DEF Disjoint
  <2>3. p + d[p].w <= e
    BY <2>1, <2>2
  <2>4. p \in DOMAIN nb /\ nb[p].w = d[p].w
    BY <1>1, <2>1, <2>3 DEF Keeps
  <2> QED BY <2>1, <2>4
<1>6. PICK f \in Nat : f = e + c.w
  OBVIOUS
<1>7. Filled(nb, o, f)
  <2>1. e <= f
    BY <1>6
  <2>2. Filled(nb, e, f)
    BY <1>1, <1>6
  <2> QED BY <1>2, <1>3, <2>1, <2>2, FilledOn
<1>8. Hole(nb, e, c.w, e + c.w)
  BY <1>4 DEF Hole
<1>9. ASSUME NEW p, NEW w, Hole(d, p, w, e) PROVE Hole(nb, p, w, e + c.w)
  <2>1. Hole(nb, p, w, e)
    BY <1>3, <1>9
  <2>2. p \in DOMAIN nb /\ nb[p].w = w /\ p + w <= e
    BY <2>1 DEF Hole
  <2>3. p \in Nat /\ w \in Nat
    BY <1>2, <2>2 DEF Disjoint
  <2>4. p + w <= e + c.w
    BY <2>2, <2>3
  <2> QED BY <2>2, <2>4 DEF Hole
<1>10. Filled(nb, o, e + c.w)
  BY <1>6, <1>7
<1> QED BY <1>1, <1>5, <1>8, <1>9, <1>10 DEF nb

\* The states Write goes through.
Writes(z, b, o, s, after) ==
  after = [i \in 0..Len(s) |-> IF i = 0 THEN [ok |-> TRUE, o |-> o, buf |-> b]
                               ELSE WriteCell(z, after[i - 1], s[i])]

\* Write is defined by recursion over the cells: there is such a function.
LEMMA WritesExists ==
  ASSUME NEW z, NEW b, NEW o, NEW s, Len(s) \in Nat
  PROVE  \E after : Writes(z, b, o, s, after)
<1> DEFINE n == Len(s)
           start == [ok |-> TRUE, o |-> o, buf |-> b]
           Upto(k, f) == /\ f = [i \in 0..k |-> f[i]]
                         /\ f[0] = start
                         /\ \A i \in 1..k : f[i] = WriteCell(z, f[i - 1], s[i])
           S == {k \in Nat : \E f : Upto(k, f)}
<1>1. 0 \in S
  <2> DEFINE f == [i \in 0..0 |-> start]
  <2>1. Upto(0, f)
    OBVIOUS
  <2> QED BY <2>1
<1>2. ASSUME NEW k \in Nat, k \in S PROVE k + 1 \in S
  <2>1. PICK f : Upto(k, f)
    BY <1>2
  <2> DEFINE last == WriteCell(z, f[k], s[k + 1])
             g == [i \in 0..k + 1 |-> IF i = k + 1 THEN last ELSE f[i]]
  <2> HIDE DEF start
  <2>2. g = [i \in 0..k + 1 |-> g[i]]
    OBVIOUS
  <2>3. g[0] = start
    BY <2>1
  <2>4. ASSUME NEW i \in 1..k + 1 PROVE g[i] = WriteCell(z, g[i - 1], s[i])
    <3>1. CASE i = k + 1
      <4>1. g[i] = last /\ i - 1 = k /\ g[k] = f[k]
        BY <3>1
      <4> HIDE DEF g
      <4> QED BY <3>1, <4>1
    <3>2. CASE i # k + 1
      <4>1. i \in 1..k
        BY <3>2
      <4>2. g[i] = f[i] /\ g[i - 1] = f[i - 1]
        BY <3>2, <4>1
      <4>3. f[i] = WriteCell(z, f[i - 1], s[i])
        BY <2>1, <4>1
      <4> HIDE DEF g
      <4> QED BY <4>2, <4>3
    <3> QED BY <3>1, <3>2
  <2> HIDE DEF g
  <2>5. Upto(k + 1, g)
    BY <2>2, <2>3, <2>4
  <2> HIDE DEF Upto
  <2> QED BY <2>5
<1>3. n \in S
  <2> HIDE DEF S
  <2> QED BY <1>1, <1>2, Induction
<1>4. PICK f : Upto(n, f)
  BY <1>3
<1>5. \A i \in 0..n : f[i] = IF i = 0 THEN start ELSE WriteCell(z, f[i - 1], s[i])
  <2> HIDE DEF start
  <2> QED BY <1>4
<1>6. f = [i \in 0..n |-> IF i = 0 THEN start ELSE WriteCell(z, f[i - 1], s[i])]
  <2> HIDE DEF start
  <2> QED BY <1>4, <1>5
<1> QED BY <1>6 DEF Writes

\* After the first i of the cells of s.
Reached(z, b, o, s, st, i) ==
  LET e == o + Running(s)[i] IN
  /\ st = [ok |-> st.ok, o |-> st.o, buf |-> st.buf] /\ st.ok \in BOOLEAN
  /\ Sound(z, st.buf) /\ Keeps(b, st.buf, o)
  /\ st.ok <=> e <= z
  /\ st.ok => /\ st.o = e /\ Filled(st.buf, o, e)
              /\ \A j \in 1..i : s[j].w # 0 => Hole(st.buf, o + Running(s)[j - 1], s[j].w, e)

\* The step of the induction over the cells.
LEMMA OneMore ==
  ASSUME NEW z \in Nat, NEW b, Disjoint(b), NEW o \in Nat, NEW s, IsCells(s),
         NEW i \in Nat, i + 1 <= Len(s), NEW st, Reached(z, b, o, s, st, i)
  PROVE  Reached(z, b, o, s, WriteCell(z, st, s[i + 1]), i + 1)
<1> DEFINE R == Running(s)
           c == s[i + 1]
           e == o + R[i]
           f == o + R[i + 1]
           new == WriteCell(z, st, c)
<1>1. /\ Len(s) \in Nat /\ i \in 0..Len(s) /\ i + 1 \in 1..Len(s) /\ i + 1 - 1 = i
      /\ c.w \in Nat
  BY DEF IsCells
<1>2. R[i] \in Nat /\ R[i + 1] = R[i] + c.w
  <2> HIDE DEF c
  <2>1. /\ \A j \in 0..Len(s) : R[j] \in Nat
        /\ \A j \in 1..Len(s) : R[j] = R[j - 1] + s[j].w
    BY RunningFacts
  <2>2. R[i] \in Nat
    BY <1>1, <2>1
  <2> HIDE DEF R
  <2>3. R[i + 1] = R[i + 1 - 1] + s[i + 1].w
    BY <1>1, <2>1
  <2> QED BY <1>1, <2>2, <2>3 DEF c
<1>3. e \in Nat /\ f = e + c.w /\ f \in Nat /\ o <= e
  BY <1>1, <1>2, SMTT(40)
<1>4. /\ st = [ok |-> st.ok, o |-> st.o, buf |-> st.buf] /\ st.ok \in BOOLEAN
      /\ Sound(z, st.buf) /\ Keeps(b, st.buf, o)
      /\ st.ok <=> e <= z
      /\ st.ok => /\ st.o = e /\ Filled(st.buf, o, e)
                  /\ \A j \in 1..i : s[j].w # 0 => Hole(st.buf, o + R[j - 1], s[j].w, e)
  BY DEF Reached
<1>5. SUFFICES /\ new = [ok |-> new.ok, o |-> new.o, buf |-> new.buf] /\ new.ok \in BOOLEAN
               /\ Sound(z, new.buf) /\ Keeps(b, new.buf, o)
               /\ new.ok <=> f <= z
               /\ new.ok => /\ new.o = f /\ Filled(new.buf, o, f)
                            /\ \A j \in 1..i + 1 :
                                  s[j].w # 0 => Hole(new.buf, o + R[j - 1], s[j].w, f)
  BY DEF Reached
<1>6. CASE ~st.ok
  <2>1. new = st
    BY <1>6 DEF WriteCell
  <2> HIDE DEF e, f, new, c
  <2> QED BY <1>1, <1>3, <1>4, <1>6, <2>1
<1>7. CASE st.ok /\ c.w = 0
  <2>1. new = st
    BY <1>7 DEF WriteCell
  <2>2. f = e
    BY <1>3, <1>7
  <2>3. \A j \in 1..i + 1 : s[j].w # 0 => j \in 1..i
    BY <1>1, <1>7
  <2> HIDE DEF e, f, new, c, R
  <2> QED BY <1>4, <1>7, <2>1, <2>2, <2>3
<1>8. CASE st.ok /\ c.w # 0 /\ e + c.w > z
  <2>1. new = [st EXCEPT !.ok = FALSE]
    BY <1>4, <1>8 DEF WriteCell
  <2>2. new = [ok |-> FALSE, o |-> st.o, buf |-> st.buf]
    BY <1>4, <2>1
  <2>3. new.ok = FALSE /\ new.o = st.o /\ new.buf = st.buf
    BY <2>2
  <2>4. ~(f <= z)
    BY <1>1, <1>3, <1>8
  <2> HIDE DEF e, f, new, c
  <2> QED BY <1>4, <2>2, <2>3, <2>4
<1>9. CASE st.ok /\ c.w # 0 /\ e + c.w <= z
  <2> DEFINE nb == Laying(st.buf, e, c)
  <2>1. new = [ok |-> TRUE, o |-> e + c.w, buf |-> nb]
    <3>1. st.o = e
      BY <1>4, <1>9
    <3>2. ~(e + c.w > z)
      BY <1>1, <1>3, <1>9
    <3> HIDE DEF c, e
    <3>3. new = [ok |-> TRUE, o |-> st.o + c.w, buf |-> Laying(st.buf, st.o, c)]
      BY <1>9, <3>1, <3>2, Zenon DEF WriteCell
    <3> QED BY <3>1, <3>3
  <2>2. new.ok = TRUE /\ new.o = f /\ new.buf = nb
    BY <1>3, <2>1
  <2>3. c.w \in Nat \ {0} /\ f <= z
    BY <1>1, <1>3, <1>9
  <2>4. Filled(st.buf, o, e) /\ \A j \in 1..i : s[j].w # 0 => Hole(st.buf, o + R[j - 1], s[j].w, e)
    BY <1>4, <1>9
  <2>5. /\ Sound(z, nb) /\ Keeps(b, nb, o) /\ Filled(nb, o, e + c.w)
        /\ Hole(nb, e, c.w, e + c.w)
        /\ \A p, w : Hole(st.buf, p, w, e) => Hole(nb, p, w, e + c.w)
    <3> DEFINE d == st.buf
    <3>1. Sound(z, d) /\ Keeps(b, d, o) /\ Filled(d, o, e)
      BY <1>4, <2>4
    <3> HIDE DEF d, e, c
    <3> QED BY <1>3, <1>9, <2>3, <3>1, LayingOn DEF d
  <2>6. ASSUME NEW j \in 1..i + 1, s[j].w # 0
        PROVE  Hole(nb, o + R[j - 1], s[j].w, f)
    <3> HIDE DEF nb, f
    <3>1. CASE j \in 1..i
      <4> HIDE DEF e, c, R
      <4> QED BY <1>3, <2>4, <2>5, <2>6, <3>1
    <3>2. CASE j = i + 1
      <4>1. s[j] = c /\ o + R[j - 1] = e
        BY <1>1, <3>2
      <4> HIDE DEF e, c, R
      <4> QED BY <1>3, <2>5, <4>1
    <3> QED BY <1>1, <3>1, <3>2
  <2> HIDE DEF nb, e, f, new, c, R
  <2> QED BY <1>3, <2>1, <2>2, <2>3, <2>5, <2>6
<1> QED
  <2> HIDE DEF e, f, new, c, R
  <2>1. e + c.w <= z \/ e + c.w > z
    BY <1>1, <1>3
  <2> QED BY <1>6, <1>7, <1>8, <1>9, <2>1

\* Cells that are written all fit or the write fails; what ends at or before o stays; if they
\* fit they lie without a gap, each one where Running says.
LEMMA WriteFacts ==
  ASSUME NEW z \in Nat, NEW b, Sound(z, b), NEW o \in 0..z, NEW s, NEW n, Sized(s, n)
  PROVE  LET w == Write(z, b, o, s) IN
         /\ Sound(z, w.buf) /\ Keeps(b, w.buf, o)
         /\ w.ok \in BOOLEAN /\ (w.ok <=> o + n <= z)
         /\ w.ok => /\ w.o = o + n /\ Filled(w.buf, o, o + n)
                    /\ \A d, k : HasCell(s, d, k) /\ k # 0 => Hole(w.buf, o + d, k, o + n)
<1> DEFINE l == Len(s)
           R == Running(s)
<1>1. IsCells(s) /\ l \in Nat /\ Disjoint(b) /\ o \in Nat /\ o <= z
  BY DEF Sized, IsCells, Sound
<1>2. R[0] = 0 /\ R[l] = n
  BY RunningFacts DEF Sized
<1> DEFINE after == CHOOSE f : Writes(z, b, o, s, f)
<1>3. Writes(z, b, o, s, after)
  BY <1>1, WritesExists, Zenon
<1>4. Write(z, b, o, s) = after[l]
  BY DEF Write, Writes
<1> HIDE DEF after
<1> DEFINE S == {i \in Nat : i <= l => Reached(z, b, o, s, after[i], i)}
<1>5. 0 \in S
  <2>1. after[0] = [ok |-> TRUE, o |-> o, buf |-> b]
    BY <1>1, <1>3 DEF Writes
  <2>2. Filled(b, o, o)
    BY <1>1 DEF Filled
  <2>3. Keeps(b, b, o)
    BY DEF Keeps
  <2>4. o + R[0] = o
    BY <1>1, <1>2
  <2>5. Reached(z, b, o, s, after[0], 0)
    <3> HIDE DEF l
    <3> QED BY <1>1, <2>1, <2>2, <2>3, <2>4 DEF Reached
  <2> QED BY <2>5
<1>6. ASSUME NEW i \in Nat, i \in S PROVE i + 1 \in S
  <2> SUFFICES ASSUME i + 1 <= l PROVE Reached(z, b, o, s, after[i + 1], i + 1)
    OBVIOUS
  <2>1. i <= l /\ i + 1 \in 0..l /\ i + 1 # 0 /\ i + 1 - 1 = i
    BY <1>1
  <2>2. Reached(z, b, o, s, after[i], i)
    BY <1>6, <2>1
  <2>3. after[i + 1] = WriteCell(z, after[i], s[i + 1])
    <3>1. \A j \in 0..l : after[j] = IF j = 0 THEN [ok |-> TRUE, o |-> o, buf |-> b]
                                   ELSE WriteCell(z, after[j - 1], s[j])
      BY <1>3, Zenon DEF Writes
    <3> HIDE DEF l
    <3> QED BY <2>1, <3>1
  <2>4. Reached(z, b, o, s, WriteCell(z, after[i], s[i + 1]), i + 1)
    <3> DEFINE st == after[i]
    <3>1. Reached(z, b, o, s, st, i)
      BY <2>2
    <3> HIDE DEF st
    <3>2. Reached(z, b, o, s, WriteCell(z, st, s[i + 1]), i + 1)
      BY <1>1, <3>1, OneMore
    <3> QED BY <3>2 DEF st
  <2> QED BY <2>3, <2>4
<1>7. l \in S
  <2> HIDE DEF S, l
  <2> QED BY <1>1, <1>5, <1>6, Induction
<1>8. Reached(z, b, o, s, after[l], l)
  BY <1>1, <1>7
<1> DEFINE w == Write(z, b, o, s)
           e == o + R[l]
<1>9. /\ w.ok \in BOOLEAN /\ Sound(z, w.buf) /\ Keeps(b, w.buf, o)
      /\ w.ok <=> e <= z
      /\ w.ok => /\ w.o = e /\ Filled(w.buf, o, e)
                 /\ \A j \in 1..l : s[j].w # 0 => Hole(w.buf, o + R[j - 1], s[j].w, e)
  <2> HIDE DEF w, l
  <2>1. w = after[l]
    BY <1>4 DEF w
  <2> QED BY <1>8, <2>1 DEF Reached
<1>10. e = o + n
  BY <1>2
<1>11. ASSUME NEW d, NEW k, HasCell(s, d, k), k # 0, w.ok PROVE Hole(w.buf, o + d, k, e)
  <2>1. PICK j \in 1..l : s[j].w = k /\ R[j - 1] = d
    BY <1>11 DEF HasCell
  <2> HIDE DEF e, w, R, l
  <2> QED BY <1>9, <1>11, <2>1
<1> HIDE DEF e, w, R, l
<1> QED BY <1>9, <1>10, <1>11 DEF w

\* What two calls keep, both together keep.
LEMMA KeepsBoth ==
  ASSUME NEW a, NEW b, NEW c, NEW e, Keeps(a, b, e), Keeps(b, c, e)
  PROVE  Keeps(a, c, e)
BY DEF Keeps

\* Filling in a number of the width of the hole moves nothing.
LEMMA FillFacts ==
  ASSUME size \in Nat, NEW b, Sound(size, b), NEW o, NEW w, w # 0, NEW v, NEW f, Hole(b, o, w, f)
  PROVE  /\ Sound(size, FillIn(b, o, Num(w, v)))
         /\ \A e \in Nat : Keeps(b, FillIn(b, o, Num(w, v)), e)
<1> DEFINE c == [w |-> w, kind |-> "num", v |-> v]
           s == <<c>>
           start == [ok |-> TRUE, o |-> o, buf |-> b]
           after == CHOOSE g : Writes(size, b, o, s, g)
<1>1. Num(w, v) = s /\ Len(s) = 1 /\ s[1] = c /\ c.w = w
  BY DEF Num
<1>2. Writes(size, b, o, s, after)
  <2> HIDE DEF s
  <2>1. Len(s) \in Nat
    BY <1>1
  <2> QED BY <2>1, WritesExists, Zenon
<1>3. Write(size, b, o, s) = after[Len(s)]
  BY DEF Write, Writes
<1> HIDE DEF after, s, c
<1>4. \A j \in 0..Len(s) : after[j] = IF j = 0 THEN start ELSE WriteCell(size, after[j - 1], s[j])
  BY <1>2, Zenon DEF Writes
<1>5. after[1] = WriteCell(size, start, c)
  <2> HIDE DEF start
  <2>1. 0 \in 0..Len(s) /\ 1 \in 0..Len(s) /\ 1 - 1 = 0 /\ 1 # 0
    BY <1>1
  <2> QED BY <1>1, <1>4, <2>1
<1>6. o + c.w <= size
  BY <1>1 DEF Hole, Sound
<1>7. ~(o + c.w > size)
  <2>1. o \in Nat /\ c.w \in Nat
    BY <1>1 DEF Hole, Sound, Disjoint
  <2> QED BY <1>6, <2>1
<1>8. WriteCell(size, start, c).buf = Laying(b, o, c)
  BY <1>1, <1>7 DEF WriteCell
<1>9. FillIn(b, o, Num(w, v)) = Laying(b, o, c)
  BY <1>1, <1>3, <1>5, <1>8 DEF FillIn
<1>10. Sound(size, Laying(b, o, c)) /\ \A e \in Nat : Keeps(b, Laying(b, o, c), e)
  BY <1>1, LayingInHole
<1> QED BY <1>9, <1>10

\* A size and a count are filled in, one after the other.
LEMMA TwoFills ==
  ASSUME size \in Nat, Sound(size, buf), NEW o, NEW v, NEW p, NEW w \in {2, 4}, NEW u,
         NEW e \in Nat, Hole(buf, o, 4, e), Hole(buf, p, w, e)
  PROVE  LET once == FillIn(buf, o, U32(v))
             twice == FillIn(once, p, Num(w, u))
         IN /\ Sound(size, once) /\ Keeps(buf, once, e)
            /\ Sound(size, twice) /\ Keeps(buf, twice, e)
<1> DEFINE once == FillIn(buf, o, U32(v))
           twice == FillIn(once, p, Num(w, u))
<1>1. Sound(size, once) /\ Keeps(buf, once, e)
  BY FillFacts DEF U32
<1> HIDE DEF once
<1>2. Hole(once, p, w, e)
  <2>1. Disjoint(buf)
    BY DEF Sound
  <2> QED BY <1>1, <2>1, KeptParts
<1>3. Sound(size, twice) /\ Keeps(once, twice, e)
  <2>1. w # 0
    OBVIOUS
  <2> QED BY <1>1, <1>2, <2>1, FillFacts
<1> HIDE DEF twice
<1>4. Keeps(buf, twice, e)
  BY <1>1, <1>3, KeepsBoth
<1> QED BY <1>1, <1>3, <1>4 DEF once, twice

\* The innermost writer replaced, and the last two made one.
LEMMA Topped ==
  ASSUME els \in Seq(Writers), els # <<>>, NEW x \in Writers
  PROVE  /\ Len(els) \in Nat \ {0} /\ SetTop(x) \in Seq(Writers)
         /\ Len(SetTop(x)) = Len(els) /\ SetTop(x) # <<>>
         /\ \A i \in 1..Len(els) - 1 : SetTop(x)[i] = els[i]
         /\ SetTop(x)[Len(els)] = x
BY DEF SetTop

\* A writer added.
LEMMA Nested ==
  ASSUME NEW s \in Seq(Writers), NEW x \in Writers
  PROVE  /\ Append(s, x) \in Seq(Writers) /\ Len(Append(s, x)) = Len(s) + 1 /\ Append(s, x) # <<>>
         /\ \A i \in 1..Len(s) : Append(s, x)[i] = s[i]
         /\ Append(s, x)[Len(s) + 1] = x
<1>1. Append(s, x) \in Seq(Writers)
  OBVIOUS
<1>2. Len(Append(s, x)) = Len(s) + 1
  OBVIOUS
<1>3. \A i \in 1..Len(s) : Append(s, x)[i] = s[i]
  OBVIOUS
<1>4. Append(s, x)[Len(s) + 1] = x
  OBVIOUS
<1>5. Append(s, x) # <<>>
  <2> DEFINE t == Append(s, x)
  <2>1. Len(t) # 0
    BY <1>2
  <2> HIDE DEF t
  <2>2. t # <<>>
    BY <2>1
  <2> QED BY <2>2 DEF t
<1> QED BY <1>1, <1>2, <1>3, <1>4, <1>5

\* The last two made one.
LEMMA Unnested ==
  ASSUME els \in Seq(Writers), Len(els) > 1, NEW x \in Writers
  PROVE  LET t == Append(SubSeq(els, 1, Len(els) - 2), x) IN
         /\ t \in Seq(Writers) /\ Len(t) = Len(els) - 1 /\ t # <<>>
         /\ \A i \in 1..Len(els) - 2 : t[i] = els[i]
         /\ t[Len(els) - 1] = x
<1> DEFINE s == SubSeq(els, 1, Len(els) - 2)
           t == Append(s, x)
<1>1. PICK m \in Nat : m = Len(els) - 2 /\ m <= Len(els)
  OBVIOUS
<1>2. SubSeq(els, 1, m) \in Seq(Writers)
  BY <1>1
<1>3. Len(SubSeq(els, 1, m)) = m
  BY <1>1
<1>4. \A i \in 1..m : SubSeq(els, 1, m)[i] = els[i]
  BY <1>1
<1>5. s = SubSeq(els, 1, m)
  BY <1>1
<1> HIDE DEF s
<1>6. /\ t \in Seq(Writers) /\ Len(t) = m + 1 /\ t # <<>>
      /\ \A i \in 1..m : t[i] = s[i]
      /\ t[m + 1] = x
  BY <1>2, <1>3, <1>5, Nested
<1>7. Len(els) - 1 = m + 1
  BY <1>1
<1> HIDE DEF t
<1> QED BY <1>1, <1>4, <1>5, <1>6, <1>7 DEF t, s

----------------------------------------------------------------------------
(* The calls of the writers. *)

\* A header of n bytes written at o, its size d bytes from its start, its count back from its end.
Wrote(w, o, n, d, back, k) ==
  /\ Sound(size, w.buf) /\ Keeps(buf, w.buf, o)
  /\ w.ok \in BOOLEAN /\ (w.ok <=> o + n <= size)
  /\ w.ok => /\ w.o = o + n /\ Filled(w.buf, o, w.o)
             /\ Hole(w.buf, o + d, 4, w.o) /\ Hole(w.buf, w.o - back, k, w.o)

\* A header at o: if it fits it lies there in full, its size and count where they belong.
LEMMA HeaderAt ==
  ASSUME size \in Nat, Sound(size, buf), NEW o \in 0..size, NEW s, NEW n \in Nat, Sized(s, n),
         NEW d, HasCell(s, d, 4),
         NEW back \in Nat, back <= n, NEW k \in {2, 4}, HasCell(s, n - back, k)
  PROVE  Wrote(Write(size, buf, o, s), o, n, d, back, k)
<1> DEFINE w == Write(size, buf, o, s)
<1>1. /\ Sound(size, w.buf) /\ Keeps(buf, w.buf, o)
      /\ w.ok \in BOOLEAN /\ (w.ok <=> o + n <= size)
      /\ w.ok => /\ w.o = o + n /\ Filled(w.buf, o, o + n)
                 /\ \A c, l : HasCell(s, c, l) /\ l # 0 => Hole(w.buf, o + c, l, o + n)
  BY WriteFacts
<1> HIDE DEF w
<1>2. o + n - back = o + (n - back) /\ k # 0 /\ 4 # 0
  OBVIOUS
<1>3. ASSUME w.ok PROVE Hole(w.buf, o + d, 4, w.o) /\ Hole(w.buf, w.o - back, k, w.o)
  BY <1>1, <1>2, <1>3
<1> QED BY <1>1, <1>3 DEF Wrote, w

\* Where the writers stand is a place in the buffer.
LEMMA EndPlace ==
  ASSUME WTypes
  PROVE  End \in Nat /\ ew.off \in Nat /\ (els # <<>> => Len(els) \in Nat \ {0} /\ Top \in Writers)
<1>1. ew.off \in Nat
  BY DEF WTypes, Writers
<1>2. ASSUME els # <<>> PROVE Len(els) \in Nat \ {0} /\ Top \in Writers
  <2>1. els \in Seq(Writers)
    BY DEF WTypes
  <2>2. Len(els) \in Nat \ {0}
    BY <1>2, <2>1
  <2>3. els[Len(els)] \in Writers
    BY <2>1, <2>2
  <2> QED BY <2>2, <2>3 DEF Top
<1>3. End \in Nat
  <2>1. CASE els = <<>>
    BY <1>1, <2>1 DEF End
  <2>2. CASE els # <<>>
    <3>1. Top.off \in Nat
      BY <1>2, <2>2 DEF Writers
    <3> QED BY <2>2, <3>1 DEF End
  <2> QED BY <2>1, <2>2
<1> QED BY <1>1, <1>2, <1>3

\* Nothing to fill.
LEMMA NoStretch ==
  ASSUME NEW b, NEW e \in Nat
  PROVE  Filled(b, e, e)
BY DEF Filled

\* All that stands before the next child stays, and what is laid down up to the next one
\* leaves no gap.
LEMMA Grown ==
  ASSUME NEW z, Sound(z, buf), NEW b, Sound(z, b), NEW e \in Nat, NEW f \in Nat, e <= f,
         Keeps(buf, b, e), Filled(b, e, f)
  PROVE  /\ Filled(buf, 0, e) => Filled(b, 0, f)
         /\ \A p, w : Hole(buf, p, w, e) => Hole(b, p, w, f)
<1>1. Disjoint(buf) /\ Disjoint(b)
  BY DEF Sound
<1>2. ASSUME Filled(buf, 0, e) PROVE Filled(b, 0, f)
  <2>1. Filled(b, 0, e)
    BY <1>1, <1>2, KeptParts
  <2>2. 0 \in Nat /\ 0 <= e
    OBVIOUS
  <2> QED BY <1>1, <2>1, <2>2, FilledOn
<1>3. ASSUME NEW p, NEW w, Hole(buf, p, w, e) PROVE Hole(b, p, w, f)
  <2>1. Hole(b, p, w, e)
    BY <1>1, <1>3, KeptParts
  <2>2. p \in Nat /\ w \in Nat
    BY <1>1, <2>1 DEF Hole, Disjoint
  <2> QED BY <2>1, <2>2 DEF Hole
<1> QED BY <1>2, <1>3

\* A call on a message that is being written.
LEMMA Going ==
  ASSUME IInv, wphase # "idle", wphase' # "idle", size' = size, ver' = ver, mw' = mw,
         Sound(size, buf'), Keeps(buf, buf', End), End' \in Nat, End <= End', End' <= size,
         Filled(buf', End, End'), ew'.total + mw.hsize = ew'.off
  PROVE  /\ Laid'
         /\ \A p, w : Hole(buf, p, w, End) => Hole(buf', p, w, End')
<1>1. /\ End \in Nat /\ Sound(size, buf) /\ size \in Nat
      /\ Filled(buf, 0, End) /\ Hole(buf, 4, 4, End)
      /\ mw.count_off # NoOffset => Hole(buf, mw.count_off, CountWidth, End)
  BY EndPlace DEF IInv, WTypes, Laid
<1> DEFINE b == buf'
           e == End
           f == End'
<1>2. Sound(size, b) /\ e \in Nat /\ f \in Nat /\ e <= f /\ Keeps(buf, b, e) /\ Filled(b, e, f)
  BY <1>1
<1>3. Filled(b, 0, f) /\ \A p, w : Hole(buf, p, w, e) => Hole(b, p, w, f)
  <2>1. Filled(buf, 0, e)
    BY <1>1
  <2> HIDE DEF b, e, f
  <2> QED BY <1>1, <1>2, <2>1, Grown
<1>4. Filled(buf', 0, End') /\ \A p, w : Hole(buf, p, w, End) => Hole(buf', p, w, End')
  BY <1>3
<1>5. CountWidth' = CountWidth
  BY DEF CountWidth
<1>6. /\ Hole(buf', 4, 4, End')
      /\ mw'.count_off # NoOffset => Hole(buf', mw'.count_off, CountWidth', End')
  BY <1>1, <1>4, <1>5
<1>7. Laid'
  <2>1. End' <= size'
    OBVIOUS
  <2>2. ew'.total + mw'.hsize = ew'.off
    OBVIOUS
  <2> QED BY <1>4, <1>6, <2>1, <2>2 DEF Laid
<1> QED BY <1>4, <1>7

\* The header of a message: it fits exactly when its bytes do, and version 4 has worked out
\* how many they are.
BeginCells(m) ==
  IF ver = 2 THEN MessageCells2(m.header)
  ELSE MessageCells4(m.header, MessageFlags(m.header, m.mask))

LEMMA MessageHeader ==
  ASSUME WTypes, NEW m \in Messages
  PROVE  \E n \in Nat :
           /\ n = TotalWidth(BeginCells(m))
           /\ ver = 4 => n = HeaderSize4(m.header, MessageFlags(m.header, m.mask))
           /\ LET w == Write(size, buf, 0, BeginCells(m)) IN
              /\ Sound(size, w.buf) /\ w.ok \in BOOLEAN /\ (w.ok <=> n <= size)
              /\ w.ok => /\ w.o = n /\ Filled(w.buf, 0, n) /\ Hole(w.buf, 4, 4, n)
                         /\ ver = 2 /\ Count2Fits(m.header) => n - 6 \in Nat /\ Hole(w.buf, n - 6, 2, n)
                         /\ ver = 4 /\ "multiple" \in MessageFlags(m.header, m.mask) =>
                               n - 4 \in Nat /\ Hole(w.buf, n - 4, 4, n)
<1> DEFINE h == m.header
           flags == MessageFlags(h, m.mask)
           fits == ver = 2 /\ Count2Fits(h)
           s == BeginCells(m)
           w == Write(size, buf, 0, s)
<1>1. {h.sender_nodename, h.receiver_nodename, h.metadata} \subseteq DOMAIN NameLen
  BY WriterAssumption
<1>2. size \in Nat /\ Sound(size, buf) /\ ver \in {2, 4}
  BY DEF WTypes
<1>3. PICK n \in Nat : /\ n >= 12 /\ Sized(s, n) /\ HasCell(s, 4, 4)
                       /\ ver = 4 => n = HeaderSize4(h, flags)
                       /\ fits => HasCell(s, n - 6, 2)
                       /\ ver = 4 /\ "multiple" \in flags => HasCell(s, n - 4, 4)
  <2>1. CASE ver = 2
    <3>1. s = MessageCells2(h)
      BY <2>1 DEF BeginCells
    <3> HIDE DEF h, s
    <3>2. PICK n \in Nat : /\ n >= 12 /\ Sized(s, n) /\ HasCell(s, 4, 4)
                           /\ Count2Fits(h) => HasCell(s, n - 6, 2)
      BY <1>1, <3>1, MessageShape2
    <3> QED BY <2>1, <3>2
  <2>2. CASE ver = 4
    <3>1. s = MessageCells4(h, flags)
      BY <2>2 DEF BeginCells
    <3> HIDE DEF h, s, flags
    <3>2. PICK n \in Nat : /\ n = HeaderSize4(h, flags) /\ n >= 12 /\ Sized(s, n) /\ HasCell(s, 4, 4)
                           /\ "multiple" \in flags => HasCell(s, n - 4, 4)
      BY <1>1, <3>1, MessageShape4
    <3> QED BY <2>2, <3>2
  <2> QED BY <1>2, <2>1, <2>2
<1> HIDE DEF h, flags, s, fits
<1>4. 0 \in 0..size
  BY <1>2
<1>5. /\ Sound(size, w.buf) /\ w.ok \in BOOLEAN /\ (w.ok <=> 0 + n <= size)
      /\ w.ok => /\ w.o = 0 + n /\ Filled(w.buf, 0, 0 + n)
                 /\ \A d, k : HasCell(s, d, k) /\ k # 0 => Hole(w.buf, 0 + d, k, 0 + n)
  BY <1>2, <1>3, <1>4, WriteFacts
<1> HIDE DEF w
<1>6. 0 + n = n /\ 0 + 4 = 4 /\ 0 + (n - 6) = n - 6 /\ 0 + (n - 4) = n - 4
      /\ n - 6 \in Nat /\ n - 4 \in Nat
  BY <1>3
<1>7. n = TotalWidth(s)
  BY <1>3 DEF Sized
<1>8. ASSUME w.ok
      PROVE  /\ w.o = n /\ Filled(w.buf, 0, n) /\ Hole(w.buf, 4, 4, n)
             /\ fits => Hole(w.buf, n - 6, 2, n)
             /\ ver = 4 /\ "multiple" \in flags => Hole(w.buf, n - 4, 4, n)
  <2>1. \A d, k : HasCell(s, d, k) /\ k # 0 => Hole(w.buf, 0 + d, k, n)
    BY <1>5, <1>6, <1>8
  <2>2. Hole(w.buf, 4, 4, n)
    BY <1>3, <1>6, <2>1
  <2>3. fits => Hole(w.buf, n - 6, 2, n)
    BY <1>3, <1>6, <2>1
  <2>4. ver = 4 /\ "multiple" \in flags => Hole(w.buf, n - 4, 4, n)
    BY <1>3, <1>6, <2>1
  <2> QED BY <1>5, <1>6, <1>8, <2>2, <2>3, <2>4
<1>9. w.ok <=> n <= size
  BY <1>5, <1>6
<1> DEFINE Q(k) ==
             /\ k = TotalWidth(s)
             /\ ver = 4 => k = HeaderSize4(h, flags)
             /\ Sound(size, w.buf) /\ w.ok \in BOOLEAN /\ (w.ok <=> k <= size)
             /\ w.ok => /\ w.o = k /\ Filled(w.buf, 0, k) /\ Hole(w.buf, 4, 4, k)
                        /\ fits => k - 6 \in Nat /\ Hole(w.buf, k - 6, 2, k)
                        /\ ver = 4 /\ "multiple" \in flags =>
                              k - 4 \in Nat /\ Hole(w.buf, k - 4, 4, k)
<1>10. Q(n)
  BY <1>3, <1>5, <1>6, <1>7, <1>8, <1>9
<1>11. \E k \in Nat : Q(k)
  <2> HIDE DEF Q
  <2> QED BY <1>10
<1> QED BY <1>11, Zenon DEF w, s, h, flags, fits

\* The header is written in full if it fits: no version 4 header is given up for its size.
LEMMA BeginFits ==
  ASSUME WTypes, NEW m \in Messages, BeginMessage(m), wphase' = "idle",
         ver = 2 => Count2Fits(m.header)
  PROVE  TotalWidth(BeginCells(m)) > size
<1> DEFINE s == BeginCells(m)
           w == Write(size, buf, 0, s)
           hs == HeaderSize4(m.header, MessageFlags(m.header, m.mask))
           good == w.ok /\ IF ver = 2 THEN Count2Fits(m.header) ELSE w.o = hs
<1>1. PICK n \in Nat : /\ n = TotalWidth(s) /\ (ver = 4 => n = hs)
                       /\ w.ok <=> n <= size
                       /\ w.ok => w.o = n
  BY MessageHeader
<1>2. good => wphase' = "message"
  BY DEF BeginMessage, BeginCells
<1> HIDE DEF s, w, hs
<1>3. size \in Nat /\ ver \in {2, 4}
  BY DEF WTypes
<1>4. ~w.ok
  BY <1>1, <1>2, <1>3
<1> QED BY <1>1, <1>3, <1>4 DEF s

\* The writer of the children of what has just been begun.
LEMMA FreshWriter ==
  ASSUME NEW o \in Nat
  PROVE  Writer(o) \in Writers /\ Writer(o).off = o /\ Writer(o).total = 0
BY DEF Writer, Writers

\* begin_message lays the first bytes of the buffer down, or leaves the writer idle.
LEMMA BeginMessageStep ==
  ASSUME IInv, NEW m \in Messages, BeginMessage(m)
  PROVE  IInv'
<1> DEFINE h == m.header
           flags == MessageFlags(h, m.mask)
           s == BeginCells(m)
           w == Write(size, buf, 0, s)
           fits == Count2Fits(h)
           good == w.ok /\ IF ver = 2 THEN fits ELSE w.o = HeaderSize4(h, flags)
           count == IF ver = 2 THEN w.o - 6 ELSE IF "multiple" \in flags THEN w.o - 4 ELSE NoOffset
<1>1. WTypes /\ size \in Nat /\ ver \in {2, 4}
  BY DEF IInv, WTypes
<1>2. PICK n \in Nat :
           /\ ver = 4 => n = HeaderSize4(h, flags)
           /\ Sound(size, w.buf) /\ w.ok \in BOOLEAN /\ (w.ok <=> n <= size)
           /\ w.ok => /\ w.o = n /\ Filled(w.buf, 0, n) /\ Hole(w.buf, 4, 4, n)
                      /\ ver = 2 /\ fits => n - 6 \in Nat /\ Hole(w.buf, n - 6, 2, n)
                      /\ ver = 4 /\ "multiple" \in flags => n - 4 \in Nat /\ Hole(w.buf, n - 4, 4, n)
  BY <1>1, MessageHeader
<1>3. /\ wphase = "idle" /\ buf' = w.buf
      /\ IF good THEN /\ wphase' = "message" /\ begun' = m
                      /\ mw' = [hsize |-> w.o, count_off |-> count]
                      /\ ew' = Writer(w.o)
                 ELSE UNCHANGED <<wphase, begun, mw, ew>>
      /\ size' = size /\ ver' = ver /\ els' = els
  BY DEF BeginMessage, BeginCells
<1>4. els = <<>>
  BY <1>1, <1>3 DEF WTypes
<1> HIDE DEF w, h, flags, s, fits
<1>5. CASE good
  <2>1. w.ok /\ w.o = n /\ n <= size
    BY <1>2, <1>5
  <2>2. count \in Nat \cup {NoOffset} /\ (count # NoOffset => Hole(w.buf, count, CountWidth, n))
    <3>1. CASE ver = 2
      BY <1>2, <1>5, <2>1, <3>1 DEF CountWidth
    <3>2. CASE ver = 4 /\ "multiple" \in flags
      BY <1>2, <2>1, <3>2 DEF CountWidth
    <3>3. CASE ver = 4 /\ "multiple" \notin flags
      BY <3>3
    <3> QED BY <1>1, <3>1, <3>2, <3>3
  <2> HIDE DEF count
  <2>3. /\ mw' = [hsize |-> n, count_off |-> count] /\ ew' = Writer(n)
        /\ wphase' = "message" /\ begun' = m
    BY <1>3, <1>5, <2>1
  <2>4. ew' \in Writers /\ ew'.off = n /\ ew'.total = 0
    BY <2>3, FreshWriter
  <2>5. mw'.hsize = n /\ mw'.count_off = count
    BY <2>3
  <2>6. WTypes'
    <3>1. mw' \in [hsize : Nat, count_off : Nat \cup {NoOffset}]
      BY <2>2, <2>3
    <3>2. size' \in Nat /\ ver' \in {2, 4} /\ Sound(size', buf') /\ els' \in Seq(Writers)
      BY <1>1, <1>2, <1>3 DEF WTypes
    <3>3. els' = <<>> /\ begun' \in Messages
      BY <1>3, <1>4, <2>3
    <3> QED BY <2>4, <3>1, <3>2, <3>3 DEF WTypes
  <2>7. End' = n
    BY <1>3, <1>4, <2>4 DEF End
  <2>8. Laid'
    <3>1. CountWidth' = CountWidth
      BY <1>3 DEF CountWidth
    <3>2. Hole(buf', 4, 4, n) /\ Filled(buf', 0, n)
      BY <1>2, <1>3, <2>1
    <3>3. mw'.count_off # NoOffset => Hole(buf', mw'.count_off, CountWidth', n)
      BY <1>3, <2>2, <2>5, <3>1
    <3>4. n <= size' /\ ew'.total + mw'.hsize = ew'.off
      BY <1>3, <2>1, <2>4, <2>5
    <3> QED BY <2>7, <3>2, <3>3, <3>4 DEF Laid
  <2>9. Chain'
    BY <1>3, <1>4 DEF Chain
  <2> QED BY <2>6, <2>8, <2>9 DEF IInv
<1>6. CASE ~good
  <2>1. wphase' = "idle" /\ ew' = ew /\ mw' = mw /\ els' = <<>>
    BY <1>3, <1>4, <1>6
  <2>2. WTypes'
    <3>1. Sound(size', buf')
      BY <1>2, <1>3
    <3> QED BY <1>1, <1>3, <2>1, <3>1 DEF WTypes
  <2>3. Laid' /\ Chain'
    BY <2>1 DEF Laid, Chain
  <2> QED BY <2>2, <2>3 DEF IInv
<1> QED BY <1>5, <1>6

\* begin_entry writes the size first or after one byte, the count last.
LEMMA EntryHeader ==
  ASSUME WTypes, wphase = "message", NEW h \in begun.entries, NEW o \in 0..size
  PROVE  \E n \in Nat : n >= CountWidth /\
           Wrote(Write(size, buf, o, IF ver = 2 THEN EntryCells2(h) ELSE EntryCells4(h)),
                 o, n, IF ver = 2 THEN 0 ELSE 1, CountWidth, CountWidth)
<1>1. {h.service_path, h.member_name, h.metadata} \subseteq DOMAIN NameLen
  BY WriterAssumption DEF WTypes
<1>2. size \in Nat /\ Sound(size, buf) /\ ver \in {2, 4}
  BY DEF WTypes
<1>3. CASE ver = 2
  <2> DEFINE s == EntryCells2(h)
  <2>1. PICK n \in Nat : n >= 2 /\ Sized(s, n) /\ HasCell(s, 0, 4) /\ HasCell(s, n - 2, 2)
    BY <1>1, EntryShape2
  <2> HIDE DEF s
  <2>2. Wrote(Write(size, buf, o, s), o, n, 0, 2, 2)
    BY <1>2, <2>1, HeaderAt
  <2>3. CountWidth = 2
    BY <1>3 DEF CountWidth
  <2> QED BY <1>3, <2>1, <2>2, <2>3 DEF s
<1>4. CASE ver = 4
  <2> DEFINE s == EntryCells4(h)
  <2>1. PICK n \in Nat : n >= 4 /\ Sized(s, n) /\ HasCell(s, 1, 4) /\ HasCell(s, n - 4, 4)
    BY <1>1, EntryShape4
  <2> HIDE DEF s
  <2>2. Wrote(Write(size, buf, o, s), o, n, 1, 4, 4)
    BY <1>2, <2>1, HeaderAt
  <2>3. CountWidth = 4
    BY <1>4 DEF CountWidth
  <2> QED BY <1>4, <2>1, <2>2, <2>3 DEF s
<1> QED BY <1>2, <1>3, <1>4

\* begin_nested_element likewise, with a count of four bytes.
LEMMA ElementHeader ==
  ASSUME WTypes, wphase = "message", NEW h \in begun.nested, NEW o \in 0..size
  PROVE  \E n \in Nat : n >= 4 /\
           Wrote(Write(size, buf, o, IF ver = 2 THEN ElementCells2(h) ELSE ElementCells4(h)),
                 o, n, IF ver = 2 THEN 0 ELSE 1, 4, 4)
<1>1. {h.element_name, h.element_type_name, h.metadata} \subseteq DOMAIN NameLen
  BY WriterAssumption DEF WTypes
<1>2. size \in Nat /\ Sound(size, buf) /\ ver \in {2, 4}
  BY DEF WTypes
<1>3. CASE ver = 2
  <2> DEFINE s == ElementCells2(h)
  <2>1. PICK n \in Nat : n >= 4 /\ Sized(s, n) /\ HasCell(s, 0, 4) /\ HasCell(s, n - 4, 4)
    BY <1>1, ElementShape2
  <2> HIDE DEF s
  <2>2. Wrote(Write(size, buf, o, s), o, n, 0, 4, 4)
    BY <1>2, <2>1, HeaderAt
  <2> QED BY <1>3, <2>1, <2>2 DEF s
<1>4. CASE ver = 4
  <2> DEFINE s == ElementCells4(h)
  <2>1. PICK n \in Nat : n >= 4 /\ Sized(s, n) /\ HasCell(s, 1, 4) /\ HasCell(s, n - 4, 4)
    BY <1>1, ElementShape4
  <2> HIDE DEF s
  <2>2. Wrote(Write(size, buf, o, s), o, n, 1, 4, 4)
    BY <1>2, <2>1, HeaderAt
  <2> QED BY <1>4, <2>1, <2>2 DEF s
<1> QED BY <1>2, <1>3, <1>4

\* A call that fails has written over nothing that counts, and the writers stay as they were.
LEMMA Failing ==
  ASSUME IInv, wphase # "idle", Sound(size, buf'), Keeps(buf, buf', End),
         UNCHANGED <<size, ver, wphase, begun, mw, ew, els>>
  PROVE  IInv'
<1>1. WTypes'
  BY DEF IInv, WTypes
<1>2. End' = End
  BY DEF End, Top
<1>3. End \in Nat /\ End <= size /\ ew.total + mw.hsize = ew.off
  BY EndPlace DEF IInv, Laid
<1>4. Filled(buf', End, End)
  BY <1>3, NoStretch
<1>5. Laid' /\ \A p, w : Hole(buf, p, w, End) => Hole(buf', p, w, End')
  <2>1. End' \in Nat /\ End <= End' /\ End' <= size /\ Filled(buf', End, End')
    BY <1>2, <1>3, <1>4
  <2>2. ew'.total + mw.hsize = ew'.off
    BY <1>3
  <2> QED BY <2>1, <2>2, Going
<1>6. CountWidth' = CountWidth
  BY DEF CountWidth
<1>7. Chain'
  BY <1>5, <1>6 DEF IInv, Chain
<1> QED BY <1>1, <1>5, <1>7 DEF IInv

\* begin_entry.
LEMMA BeginEntryStep ==
  ASSUME IInv, NEW h \in begun.entries, BeginEntry(h)
  PROVE  IInv'
<1> DEFINE s == IF ver = 2 THEN EntryCells2(h) ELSE EntryCells4(h)
           o == ew.off
           w == Write(size, buf, o, s)
           skip == IF ver = 2 THEN 0 ELSE 1
           hs == w.o - o
           so == IF ver = 2 THEN o ELSE o + 1
           co == IF ver = 2 THEN w.o - 2 ELSE w.o - 4
<1>1. WTypes /\ size \in Nat /\ ver \in {2, 4} /\ ew \in Writers
  BY DEF IInv, WTypes
<1>2. /\ wphase = "message" /\ els = <<>> /\ buf' = w.buf
      /\ IF w.ok THEN /\ ew' = [ew EXCEPT !.hsize = hs, !.size_off = so, !.count_off = co]
                      /\ els' = <<Writer(w.o)>>
                 ELSE ew' = ew /\ els' = els
      /\ size' = size /\ ver' = ver /\ wphase' = wphase /\ begun' = begun /\ mw' = mw
  BY DEF BeginEntry
<1>3. End = o /\ o \in 0..size
  BY <1>1, <1>2, EndPlace DEF IInv, Laid, End
<1>4. PICK n \in Nat : n >= CountWidth /\ Wrote(w, o, n, skip, CountWidth, CountWidth)
  BY <1>1, <1>2, <1>3, EntryHeader
<1> HIDE DEF w, s
<1>5. /\ Sound(size, w.buf) /\ Keeps(buf, w.buf, o)
      /\ w.ok \in BOOLEAN /\ (w.ok <=> o + n <= size)
      /\ w.ok => /\ w.o = o + n /\ Filled(w.buf, o, w.o)
                 /\ Hole(w.buf, o + skip, 4, w.o) /\ Hole(w.buf, w.o - CountWidth, CountWidth, w.o)
  BY <1>4 DEF Wrote
<1>6. CASE ~w.ok
  <2>1. UNCHANGED <<size, ver, wphase, begun, mw, ew, els>>
    BY <1>2, <1>6
  <2>2. Sound(size, buf') /\ Keeps(buf, buf', End) /\ wphase # "idle"
    BY <1>2, <1>3, <1>5
  <2> QED BY <2>1, <2>2, Failing
<1>7. CASE w.ok
  <2>1. w.o = o + n /\ w.o \in Nat /\ o <= w.o /\ w.o <= size /\ hs = n
    BY <1>1, <1>3, <1>5, <1>7
  <2>2. so = o + skip /\ co = w.o - CountWidth /\ so \in Nat /\ co \in Nat
    BY <1>1, <1>3, <1>4, <2>1 DEF CountWidth
  <2> HIDE DEF hs, so, co, skip
  <2>3. ew' = [ew EXCEPT !.hsize = n, !.size_off = so, !.count_off = co] /\ els' = <<Writer(w.o)>>
    BY <1>2, <1>7, <2>1
  <2>4. /\ ew' \in Writers /\ ew'.off = o /\ ew'.total = ew.total
        /\ ew'.hsize = n /\ ew'.size_off = so /\ ew'.count_off = co
    BY <1>1, <2>2, <2>3 DEF Writers
  <2>5. Writer(w.o) \in Writers /\ Writer(w.o).off = w.o /\ Writer(w.o).total = 0
    BY <2>1, FreshWriter
  <2>6. els' \in Seq(Writers) /\ els' # <<>> /\ Len(els') = 1 /\ els'[1] = Writer(w.o)
    <3> DEFINE v == Writer(w.o)
    <3> HIDE DEF v
    <3>1. els' = <<v>> /\ v \in Writers
      BY <2>3, <2>5 DEF v
    <3> QED BY <3>1 DEF v
  <2>7. End' = w.o
    BY <2>5, <2>6 DEF End, Top
  <2>8. Laid' /\ \A p, q : Hole(buf, p, q, End) => Hole(buf', p, q, End')
    <3>1. Sound(size, buf') /\ Keeps(buf, buf', End) /\ Filled(buf', End, End')
      BY <1>2, <1>3, <1>5, <1>7, <2>7
    <3>2. ew'.total + mw.hsize = ew'.off
      BY <1>2, <2>4 DEF IInv, Laid
    <3>3. End' \in Nat /\ End <= End' /\ End' <= size /\ wphase # "idle" /\ wphase' # "idle"
      BY <1>2, <1>3, <2>1, <2>7
    <3> QED BY <1>2, <3>1, <3>2, <3>3, Going
  <2>9. WTypes'
    <3>1. Sound(size', buf') /\ size' \in Nat /\ ver' \in {2, 4}
      BY <1>1, <1>2, <1>5
    <3>2. mw' \in [hsize : Nat, count_off : Nat \cup {NoOffset}] /\ begun' \in Messages
      BY <1>1, <1>2 DEF WTypes
    <3>3. wphase' = "message"
      BY <1>2
    <3> QED BY <2>4, <2>6, <3>1, <3>2, <3>3 DEF WTypes
  <2>10. Chain'
    <3>1. CountWidth' = CountWidth
      BY <1>2 DEF CountWidth
    <3>2. els'[1].off = ew'.off + ew'.hsize + els'[1].total
      BY <1>1, <1>3, <2>1, <2>4, <2>5, <2>6
    <3>3. Hole(buf', ew'.size_off, 4, End')
      BY <1>2, <1>5, <1>7, <2>2, <2>4, <2>7
    <3>4. Hole(buf', ew'.count_off, CountWidth', End')
      BY <1>2, <1>5, <1>7, <2>2, <2>4, <2>7, <3>1
    <3>5. 1..Len(els') - 1 = {}
      BY <2>6
    <3> QED BY <3>2, <3>3, <3>4, <3>5 DEF Chain
  <2> QED BY <2>8, <2>9, <2>10 DEF IInv
<1> QED BY <1>5, <1>6, <1>7

\* What the application finishes is counted.
LEMMA Finished ==
  ASSUME NEW x \in Writers, NEW n \in Nat
  PROVE  /\ Finish(x, n) \in Writers
         /\ Finish(x, n).off = x.off + n /\ Finish(x, n).total = x.total + n
         /\ Finish(x, n).hsize = x.hsize
         /\ Finish(x, n).size_off = x.size_off /\ Finish(x, n).count_off = x.count_off
<1> DEFINE y == [x EXCEPT !.n = @ + 1, !.total = @ + n, !.off = @ + n]
<1>1. /\ x.off \in Nat /\ x.n \in Nat /\ x.total \in Nat
      /\ x.size_off \in Nat /\ x.count_off \in Nat /\ x.hsize \in Nat
  BY DEF Writers
<1>2. DOMAIN x = {"off", "n", "total", "size_off", "count_off", "hsize"}
  BY DEF Writers
<1>3. /\ y.off = x.off + n /\ y.total = x.total + n /\ y.hsize = x.hsize
      /\ y.size_off = x.size_off /\ y.count_off = x.count_off
  BY <1>2
<1>4. y \in Writers
  <2> DEFINE a == x.off + n
             b == x.n + 1
             c == x.total + n
  <2>1. a \in Nat /\ b \in Nat /\ c \in Nat
    BY <1>1
  <2>2. y = [x EXCEPT !.n = b, !.total = c, !.off = a]
    OBVIOUS
  <2> HIDE DEF a, b, c, y
  <2> QED BY <2>1, <2>2 DEF Writers
<1>5. Finish(x, n) = y
  BY DEF Finish
<1> HIDE DEF y
<1> QED BY <1>3, <1>4, <1>5

\* end_entry: what the entry held becomes the length of the entry.
LEMMA EndEntryStep ==
  ASSUME IInv, EndEntry
  PROVE  IInv'
<1> DEFINE n == ew.hsize + Top.total
           once == FillIn(buf, ew.size_off, U32(n))
           number == IF ver = 2 THEN Top.n % 65536 ELSE Top.n
           twice == FillIn(once, ew.count_off, IF ver = 2 THEN U16(Top.n % 65536) ELSE U32(Top.n))
<1>1. WTypes /\ size \in Nat /\ Sound(size, buf) /\ ver \in {2, 4} /\ ew \in Writers
  BY DEF IInv, WTypes
<1>2. /\ wphase = "message" /\ Len(els) = 1 /\ buf' = twice
      /\ ew' = Finish(ew, n) /\ els' = <<>>
      /\ size' = size /\ ver' = ver /\ wphase' = wphase /\ begun' = begun /\ mw' = mw
  BY DEF EndEntry
<1>3. els # <<>>
  BY <1>2
<1>4. Top = els[1] /\ Top \in Writers /\ Top.total \in Nat /\ Top.off \in Nat
  BY <1>1, <1>2, <1>3, EndPlace DEF Top, Writers
<1>5. /\ Top.off = ew.off + ew.hsize + Top.total /\ End = Top.off
      /\ Hole(buf, ew.size_off, 4, End) /\ Hole(buf, ew.count_off, CountWidth, End)
  BY <1>3, <1>4 DEF IInv, Chain, End
<1>6. n \in Nat /\ End = ew.off + n /\ End \in Nat
  BY <1>1, <1>4, <1>5 DEF Writers
<1>7. twice = FillIn(once, ew.count_off, Num(CountWidth, number))
  BY <1>1 DEF CountWidth, U16, U32
<1>8. CountWidth \in {2, 4}
  BY DEF CountWidth
<1> HIDE DEF n, number
<1>9. Sound(size, buf') /\ Keeps(buf, buf', End)
  <2>1. Sound(size, twice) /\ Keeps(buf, twice, End)
    <3> HIDE DEF twice
    <3> QED BY <1>1, <1>5, <1>6, <1>7, <1>8, TwoFills
  <2> QED BY <1>2, <2>1
<1> HIDE DEF once, twice
<1>10. ew' \in Writers /\ ew'.off = ew.off + n /\ ew'.total = ew.total + n
  BY <1>1, <1>2, <1>6, Finished
<1>11. End' = End
  BY <1>2, <1>6, <1>10 DEF End
<1>12. Laid'
  <2>1. End' \in Nat /\ End <= End' /\ End' <= size /\ wphase # "idle" /\ wphase' # "idle"
    BY <1>2, <1>6, <1>11 DEF IInv, Laid
  <2>2. Filled(buf', End, End')
    BY <1>6, <1>11, NoStretch
  <2>3. ew'.total + mw.hsize = ew'.off
    <3>1. ew.total + mw.hsize = ew.off /\ ew.total \in Nat /\ mw.hsize \in Nat /\ ew.off \in Nat
      BY <1>1, <1>2 DEF IInv, Laid, WTypes, Writers
    <3> QED BY <1>6, <1>10, <3>1
  <2> QED BY <1>2, <1>9, <2>1, <2>2, <2>3, Going
<1>13. WTypes'
  <2>1. Sound(size', buf') /\ size' \in Nat /\ ver' \in {2, 4} /\ els' \in Seq(Writers)
    BY <1>1, <1>2, <1>9
  <2>2. mw' \in [hsize : Nat, count_off : Nat \cup {NoOffset}] /\ begun' \in Messages
    BY <1>1, <1>2 DEF WTypes
  <2> QED BY <1>2, <1>10, <2>1, <2>2 DEF WTypes
<1>14. Chain'
  BY <1>2 DEF Chain
<1> QED BY <1>12, <1>13, <1>14 DEF IInv

\* end_message: the two fields it fills in lie within the header; nothing else moves.
LEMMA EndMessageStep ==
  ASSUME IInv, EndMessage
  PROVE  IInv'
<1> DEFINE once == FillIn(buf, 4, U32(ew.total + mw.hsize))
           number == IF ver = 2 THEN ew.n % 65536 ELSE ew.n
           twice == FillIn(once, mw.count_off, IF ver = 2 THEN U16(ew.n % 65536) ELSE U32(ew.n))
<1>1. WTypes /\ size \in Nat /\ Sound(size, buf) /\ ver \in {2, 4}
  BY DEF IInv, WTypes
<1>2. /\ wphase = "message" /\ els = <<>>
      /\ IF mw.count_off # NoOffset
         THEN buf' = twice /\ wphase' = "ended"
         ELSE buf' = once /\ wphase' = IF ew.n = 1 THEN "ended" ELSE "refused"
      /\ size' = size /\ ver' = ver /\ begun' = begun /\ mw' = mw /\ ew' = ew /\ els' = els
  BY DEF EndMessage
<1>3. End \in Nat /\ Hole(buf, 4, 4, End) /\ End <= size /\ ew.total + mw.hsize = ew.off
      /\ (mw.count_off # NoOffset => Hole(buf, mw.count_off, CountWidth, End))
  BY <1>1, <1>2, EndPlace DEF IInv, Laid
<1>4. CountWidth \in {2, 4} /\ 4 # 0
  BY DEF CountWidth
<1>5. twice = FillIn(once, mw.count_off, Num(CountWidth, number))
  BY <1>1 DEF CountWidth, U16, U32
<1> HIDE DEF number
<1>6. Sound(size, buf') /\ Keeps(buf, buf', End)
  <2>1. CASE mw.count_off # NoOffset
    <3>1. Sound(size, twice) /\ Keeps(buf, twice, End)
      <4> HIDE DEF twice
      <4> QED BY <1>1, <1>3, <1>4, <1>5, <2>1, TwoFills
    <3> HIDE DEF twice, once
    <3> QED BY <1>2, <2>1, <3>1
  <2>2. CASE mw.count_off = NoOffset
    <3>1. Sound(size, once) /\ Keeps(buf, once, End)
      BY <1>1, <1>3, <1>4, FillFacts DEF U32
    <3> HIDE DEF twice, once
    <3> QED BY <1>2, <2>2, <3>1
  <2> QED BY <2>1, <2>2
<1> HIDE DEF once, twice
<1>7. wphase # "idle" /\ wphase' # "idle"
  BY <1>2
<1>8. End' = End
  BY <1>2 DEF End
<1>9. Laid'
  <2>1. Filled(buf', End, End')
    BY <1>3, <1>8, NoStretch
  <2>2. End' \in Nat /\ End <= End' /\ End' <= size /\ ew'.total + mw.hsize = ew'.off
    BY <1>2, <1>3, <1>8
  <2> QED BY <1>2, <1>6, <1>7, <2>1, <2>2, Going
<1>10. WTypes'
  <2>1. Sound(size', buf') /\ size' \in Nat /\ ver' \in {2, 4} /\ els' \in Seq(Writers)
        /\ ew' \in Writers /\ els' = <<>> /\ wphase' # "message"
    BY <1>1, <1>2, <1>6 DEF WTypes
  <2>2. mw' \in [hsize : Nat, count_off : Nat \cup {NoOffset}]
    BY <1>1, <1>2 DEF WTypes
  <2> QED BY <2>1, <2>2 DEF WTypes
<1>11. Chain'
  BY <1>2 DEF Chain
<1> QED BY <1>9, <1>10, <1>11 DEF IInv

\* What a chain says of the writers before and after a call that changes the last ones.
ChainOf(w, ws, b, e, k) ==
  /\ ws[1].off = w.off + w.hsize + ws[1].total
  /\ Hole(b, w.size_off, 4, e) /\ Hole(b, w.count_off, k, e)
  /\ \A i \in 1..Len(ws) - 1 :
        /\ ws[i + 1].off = ws[i].off + ws[i].hsize + ws[i + 1].total
        /\ Hole(b, ws[i].size_off, 4, e) /\ Hole(b, ws[i].count_off, 4, e)

\* A longer chain, with the last of the old writers the parent of a new one.
LEMMA LongerChain ==
  ASSUME NEW w, NEW ws, NEW vs, NEW b, NEW c, NEW e, NEW f, NEW k, Len(ws) \in Nat \ {0},
         ChainOf(w, ws, b, e, k), \A p, q : Hole(b, p, q, e) => Hole(c, p, q, f),
         Len(vs) = Len(ws) + 1, \A i \in 1..Len(ws) - 1 : vs[i] = ws[i],
         vs[Len(ws)].off = ws[Len(ws)].off, vs[Len(ws)].total = ws[Len(ws)].total,
         vs[Len(ws) + 1].off = vs[Len(ws)].off + vs[Len(ws)].hsize + vs[Len(ws) + 1].total,
         Hole(c, vs[Len(ws)].size_off, 4, f), Hole(c, vs[Len(ws)].count_off, 4, f)
  PROVE  ChainOf(w, vs, c, f, k)
<1> DEFINE l == Len(ws)
<1>1. \A i \in 1..l : vs[i].off = ws[i].off /\ vs[i].total = ws[i].total
  OBVIOUS
<1>2. vs[1].off = w.off + w.hsize + vs[1].total
  <2>1. 1 \in 1..l
    OBVIOUS
  <2> QED BY <1>1, <2>1 DEF ChainOf
<1>3. Hole(c, w.size_off, 4, f) /\ Hole(c, w.count_off, k, f)
  BY DEF ChainOf
<1>4. ASSUME NEW i \in 1..Len(vs) - 1
      PROVE  /\ vs[i + 1].off = vs[i].off + vs[i].hsize + vs[i + 1].total
             /\ Hole(c, vs[i].size_off, 4, f) /\ Hole(c, vs[i].count_off, 4, f)
  <2>1. CASE i = l
    BY <2>1
  <2>2. CASE i # l
    <3>1. i \in 1..l - 1 /\ i + 1 \in 1..l /\ i \in 1..l
      BY <2>2
    <3>2. vs[i] = ws[i] /\ vs[i + 1].off = ws[i + 1].off /\ vs[i + 1].total = ws[i + 1].total
      BY <1>1, <3>1
    <3>3. /\ ws[i + 1].off = ws[i].off + ws[i].hsize + ws[i + 1].total
          /\ Hole(b, ws[i].size_off, 4, e) /\ Hole(b, ws[i].count_off, 4, e)
      BY <3>1 DEF ChainOf
    <3> QED BY <3>2, <3>3
  <2> QED BY <2>1, <2>2
<1> QED BY <1>2, <1>3, <1>4 DEF ChainOf

\* A chain cut off at its j-th writer, which has n bytes more.
LEMMA ShorterChain ==
  ASSUME NEW w \in Writers, NEW ws \in Seq(Writers), NEW vs, NEW b, NEW c, NEW e, NEW f, NEW k,
         ChainOf(w, ws, b, e, k), \A p, q : Hole(b, p, q, e) => Hole(c, p, q, f),
         NEW j \in 1..Len(ws), Len(vs) = j, \A i \in 1..j - 1 : vs[i] = ws[i],
         NEW n \in Nat, vs[j].off = ws[j].off + n, vs[j].total = ws[j].total + n
  PROVE  ChainOf(w, vs, c, f, k)
<1>1. \A i \in 1..Len(ws) : ws[i].off \in Nat /\ ws[i].total \in Nat /\ ws[i].hsize \in Nat
  <2>1. \A i \in 1..Len(ws) : ws[i] \in Writers
    OBVIOUS
  <2>2. \A x \in Writers : x.off \in Nat /\ x.total \in Nat /\ x.hsize \in Nat
    BY DEF Writers
  <2> QED BY <2>1, <2>2
<1>2. w.off \in Nat /\ w.hsize \in Nat
  BY DEF Writers
<1>3. vs[1].off = w.off + w.hsize + vs[1].total
  <2>1. ws[1].off = w.off + w.hsize + ws[1].total /\ 1 \in 1..Len(ws)
    BY DEF ChainOf
  <2>2. CASE j = 1
    BY <1>1, <1>2, <2>1, <2>2
  <2>3. CASE j # 1
    <3>1. 1 \in 1..j - 1
      BY <2>3
    <3> QED BY <2>1, <3>1
  <2> QED BY <2>2, <2>3
<1>4. Hole(c, w.size_off, 4, f) /\ Hole(c, w.count_off, k, f)
  BY DEF ChainOf
<1>5. ASSUME NEW i \in 1..Len(vs) - 1
      PROVE  /\ vs[i + 1].off = vs[i].off + vs[i].hsize + vs[i + 1].total
             /\ Hole(c, vs[i].size_off, 4, f) /\ Hole(c, vs[i].count_off, 4, f)
  <2>1. /\ Len(ws) \in Nat /\ i \in 1..j - 1 /\ i \in 1..Len(ws) - 1
        /\ i \in 1..Len(ws) /\ i + 1 \in 1..Len(ws)
    OBVIOUS
  <2>2. /\ ws[i + 1].off = ws[i].off + ws[i].hsize + ws[i + 1].total
        /\ Hole(b, ws[i].size_off, 4, e) /\ Hole(b, ws[i].count_off, 4, e)
    BY <2>1 DEF ChainOf
  <2>3. vs[i] = ws[i]
    BY <2>1
  <2>4. vs[i + 1].off = vs[i].off + vs[i].hsize + vs[i + 1].total
    <3>1. CASE i + 1 = j
      <4>1. vs[i + 1].off = ws[i + 1].off + n /\ vs[i + 1].total = ws[i + 1].total + n
        BY <3>1
      <4>2. /\ ws[i + 1].off \in Nat /\ ws[i + 1].total \in Nat
            /\ ws[i].off \in Nat /\ ws[i].hsize \in Nat
        BY <1>1, <2>1
      <4>3. \A a, b1, c1, d \in Nat : a = b1 + c1 + d => a + n = b1 + c1 + (d + n)
        OBVIOUS
      <4>4. ws[i + 1].off + n = ws[i].off + ws[i].hsize + (ws[i + 1].total + n)
        <5> DEFINE a1 == ws[i + 1].off
                   a2 == ws[i].off
                   a3 == ws[i].hsize
                   a4 == ws[i + 1].total
        <5>1. /\ a1 = a2 + a3 + a4
              /\ a1 \in Nat /\ a2 \in Nat /\ a3 \in Nat /\ a4 \in Nat
          BY <2>2, <4>2
        <5> HIDE DEF a1, a2, a3, a4
        <5>2. a1 + n = a2 + a3 + (a4 + n)
          BY <5>1, <4>3
        <5> QED BY <5>2 DEF a1, a2, a3, a4
      <4> QED BY <2>3, <4>1, <4>4
    <3>2. CASE i + 1 # j
      <4>1. vs[i + 1] = ws[i + 1]
        BY <2>1, <3>2
      <4> QED BY <2>2, <2>3, <4>1
    <3> QED BY <3>1, <3>2
  <2> QED BY <2>2, <2>3, <2>4
<1> QED BY <1>3, <1>4, <1>5 DEF ChainOf

\* begin_nested_element: the innermost writer becomes the parent of a new one.
LEMMA BeginNestedStep ==
  ASSUME IInv, NEW h \in begun.nested, BeginNested(h)
  PROVE  IInv'
<1> DEFINE s == IF ver = 2 THEN ElementCells2(h) ELSE ElementCells4(h)
           o == Top.off
           w == Write(size, buf, o, s)
           skip == IF ver = 2 THEN 0 ELSE 1
           hs == w.o - o
           so == IF ver = 2 THEN o ELSE o + 1
           co == w.o - 4
           x == [Top EXCEPT !.hsize = hs, !.size_off = so, !.count_off = co]
           L == Len(els)
<1>1. WTypes /\ size \in Nat /\ ver \in {2, 4} /\ els \in Seq(Writers) /\ ew \in Writers
  BY DEF IInv, WTypes
<1>2. /\ els # <<>> /\ buf' = w.buf
      /\ IF w.ok THEN els' = Append(SetTop(x), Writer(w.o)) ELSE els' = els
      /\ size' = size /\ ver' = ver /\ wphase' = wphase /\ begun' = begun /\ mw' = mw /\ ew' = ew
  BY DEF BeginNested
<1>3. wphase = "message" /\ begun \in Messages
  BY <1>1, <1>2 DEF WTypes
<1>4. End = o /\ o \in 0..size /\ L \in Nat \ {0} /\ Top \in Writers
  BY <1>1, <1>2, <1>3, EndPlace DEF IInv, Laid, End
<1>5. PICK n \in Nat : n >= 4 /\ Wrote(w, o, n, skip, 4, 4)
  BY <1>1, <1>3, <1>4, ElementHeader
<1> HIDE DEF w, s
<1>6. /\ Sound(size, w.buf) /\ Keeps(buf, w.buf, o)
      /\ w.ok \in BOOLEAN /\ (w.ok <=> o + n <= size)
      /\ w.ok => /\ w.o = o + n /\ Filled(w.buf, o, w.o)
                 /\ Hole(w.buf, o + skip, 4, w.o) /\ Hole(w.buf, w.o - 4, 4, w.o)
  BY <1>5 DEF Wrote
<1>7. CASE ~w.ok
  <2>1. UNCHANGED <<size, ver, wphase, begun, mw, ew, els>>
    BY <1>2, <1>7
  <2>2. Sound(size, buf') /\ Keeps(buf, buf', End) /\ wphase # "idle"
    BY <1>2, <1>3, <1>4, <1>6
  <2> QED BY <2>1, <2>2, Failing
<1>8. CASE w.ok
  <2>1. w.o = o + n /\ w.o \in Nat /\ o <= w.o /\ w.o <= size /\ hs = n
    BY <1>1, <1>4, <1>6, <1>8
  <2>2. so = o + skip /\ co = w.o - 4 /\ so \in Nat /\ co \in Nat
    BY <1>1, <1>4, <1>5, <2>1, SMTT(40)
  <2>3. /\ x \in Writers /\ x.off = o /\ x.total = Top.total
        /\ x.hsize = n /\ x.size_off = so /\ x.count_off = co
    <3> DEFINE top == Top
    <3> HIDE DEF hs, so, co
    <3>1. x = [top EXCEPT !.hsize = n, !.size_off = so, !.count_off = co]
      BY <2>1
    <3>2. top \in Writers /\ o = top.off
      BY <1>4
    <3> HIDE DEF x, top, o
    <3>3. /\ x \in Writers /\ x.off = o /\ x.total = top.total
          /\ x.hsize = n /\ x.size_off = so /\ x.count_off = co
      BY <2>2, <3>1, <3>2 DEF Writers
    <3> QED BY <3>3 DEF top
  <2> HIDE DEF hs, so, co, skip, x
  <2>4. Writer(w.o) \in Writers /\ Writer(w.o).off = w.o /\ Writer(w.o).total = 0
    BY <2>1, FreshWriter
  <2> DEFINE v == Writer(w.o)
             mid == SetTop(x)
  <2>5. /\ mid \in Seq(Writers) /\ Len(mid) = L /\ mid[L] = x
        /\ \A i \in 1..L - 1 : mid[i] = els[i]
    BY <1>1, <1>2, <2>3, Topped
  <2>6. els' = Append(mid, v)
    BY <1>2, <1>8
  <2> HIDE DEF v, mid, L
  <2>7. v \in Writers /\ v.off = w.o /\ v.total = 0
    BY <2>4 DEF v
  <2>8. /\ els' \in Seq(Writers) /\ Len(els') = L + 1 /\ els' # <<>>
        /\ \A i \in 1..L : els'[i] = mid[i]
        /\ els'[L + 1] = v
    BY <2>5, <2>6, <2>7, Nested
  <2>9. End' = w.o
    BY <2>7, <2>8 DEF End, Top
  <2>10. Laid' /\ \A p, q : Hole(buf, p, q, End) => Hole(buf', p, q, End')
    <3>1. Sound(size, buf') /\ Keeps(buf, buf', End) /\ Filled(buf', End, End')
      BY <1>2, <1>4, <1>6, <1>8, <2>9
    <3>2. ew'.total + mw.hsize = ew'.off
      BY <1>2, <1>3 DEF IInv, Laid
    <3>3. End' \in Nat /\ End <= End' /\ End' <= size /\ wphase # "idle" /\ wphase' # "idle"
      BY <1>2, <1>3, <1>4, <2>1, <2>9
    <3> QED BY <1>2, <3>1, <3>2, <3>3, Going
  <2>11. WTypes'
    <3>1. Sound(size', buf') /\ size' \in Nat /\ ver' \in {2, 4} /\ ew' \in Writers
      BY <1>1, <1>2, <1>6
    <3>2. mw' \in [hsize : Nat, count_off : Nat \cup {NoOffset}] /\ begun' \in Messages
      BY <1>1, <1>2, <1>3 DEF WTypes
    <3>3. wphase' = "message"
      BY <1>2, <1>3
    <3> QED BY <2>8, <3>1, <3>2, <3>3 DEF WTypes
  <2>12. Chain'
    <3>1. ChainOf(ew, els, buf, End, CountWidth)
      BY <1>2 DEF IInv, Chain, ChainOf
    <3>2. \A i \in 1..L - 1 : els'[i] = els[i]
      BY <1>4, <2>5, <2>8
    <3>3. els'[L] = x
      BY <1>4, <2>5, <2>8
    <3>4. x.off = els[L].off /\ x.total = els[L].total
      BY <2>3 DEF Top, L
    <3>5. els'[L + 1].off = x.off + x.hsize + els'[L + 1].total
      BY <1>4, <2>1, <2>3, <2>7, <2>8
    <3>6. Hole(buf', x.size_off, 4, End') /\ Hole(buf', x.count_off, 4, End')
      BY <1>2, <1>6, <1>8, <2>2, <2>3, <2>9
    <3>7. ChainOf(ew, els', buf', End', CountWidth)
      <4> DEFINE ws == els
                 vs == els'
                 b == buf
                 c == buf'
                 e == End
                 f == End'
                 k == CountWidth
      <4>1. /\ Len(ws) = L /\ ChainOf(ew, ws, b, e, k)
            /\ \A p, q : Hole(b, p, q, e) => Hole(c, p, q, f)
            /\ Len(vs) = L + 1 /\ \A i \in 1..L - 1 : vs[i] = ws[i]
            /\ vs[L].off = ws[L].off /\ vs[L].total = ws[L].total
            /\ vs[L + 1].off = vs[L].off + vs[L].hsize + vs[L + 1].total
            /\ Hole(c, vs[L].size_off, 4, f) /\ Hole(c, vs[L].count_off, 4, f)
        BY <2>8, <2>10, <3>1, <3>2, <3>3, <3>4, <3>5, <3>6 DEF L
      <4> HIDE DEF ws, vs, b, c, e, f, k
      <4>2. Len(ws) \in Nat \ {0}
        BY <1>4, <4>1
      <4>3. ChainOf(ew, vs, c, f, k)
        BY <4>1, <4>2, LongerChain
      <4> QED BY <4>3 DEF vs, c, f, k
    <3>8. CountWidth' = CountWidth
      BY <1>2 DEF CountWidth
    <3>9. ChainOf(ew', els', buf', End', CountWidth')
      BY <1>2, <3>7, <3>8
    <3> QED BY <3>9 DEF Chain, ChainOf
  <2> QED BY <2>10, <2>11, <2>12 DEF IInv
<1> QED BY <1>6, <1>7, <1>8

\* The chain of the open writers cut off at the j-th, which has n bytes more.
LEMMA Shorter ==
  ASSUME IInv, els # <<>>, ew' = ew, CountWidth' = CountWidth,
         \A p, q : Hole(buf, p, q, End) => Hole(buf', p, q, End'),
         NEW j \in 1..Len(els), els' # <<>>, Len(els') = j, \A i \in 1..j - 1 : els'[i] = els[i],
         NEW n \in Nat, els'[j].off = els[j].off + n, els'[j].total = els[j].total + n
  PROVE  Chain'
<1> DEFINE w == ew
           ws == els
           vs == els'
           b == buf
           c == buf'
           e == End
           f == End'
           k == CountWidth
<1>1. w \in Writers /\ ws \in Seq(Writers)
  BY DEF IInv, WTypes
<1>2. ChainOf(w, ws, b, e, k)
  BY DEF IInv, Chain, ChainOf
<1>3. /\ \A p, q : Hole(b, p, q, e) => Hole(c, p, q, f)
      /\ j \in 1..Len(ws) /\ Len(vs) = j /\ \A i \in 1..j - 1 : vs[i] = ws[i]
      /\ vs[j].off = ws[j].off + n /\ vs[j].total = ws[j].total + n
  OBVIOUS
<1> HIDE DEF w, ws, vs, b, c, e, f, k
<1>4. ChainOf(w, vs, c, f, k)
  BY <1>1, <1>2, <1>3, ShorterChain
<1>5. ChainOf(ew', els', buf', End', CountWidth')
  BY <1>4 DEF w, vs, c, f, k
<1> QED BY <1>5 DEF Chain, ChainOf

\* end_nested_element: what the structure held becomes its length, counted by the one around it.
LEMMA EndNestedStep ==
  ASSUME IInv, EndNested
  PROVE  IInv'
<1> DEFINE L == Len(els)
           outer == els[L - 1]
           n == outer.hsize + Top.total
           once == FillIn(buf, outer.size_off, U32(n))
           twice == FillIn(once, outer.count_off, U32(Top.n))
           x == Finish(outer, n)
           front == SubSeq(els, 1, L - 2)
<1>1. WTypes /\ size \in Nat /\ Sound(size, buf) /\ els \in Seq(Writers) /\ ew \in Writers
  BY DEF IInv, WTypes
<1>2. /\ L > 1 /\ buf' = twice /\ els' = Append(front, x)
      /\ size' = size /\ ver' = ver /\ wphase' = wphase /\ begun' = begun /\ mw' = mw /\ ew' = ew
  BY DEF EndNested
<1>3. els # <<>> /\ L \in Nat
  BY <1>1, <1>2
<1>4. wphase = "message" /\ begun \in Messages
  BY <1>1, <1>3 DEF WTypes
<1>5. Top = els[L] /\ Top \in Writers /\ outer \in Writers
  BY <1>1, <1>2, <1>3, EndPlace DEF Top
<1>6. /\ Top.total \in Nat /\ Top.off \in Nat
      /\ outer.off \in Nat /\ outer.hsize \in Nat /\ outer.total \in Nat
  BY <1>5 DEF Writers
<1>7. L - 1 \in 1..L - 1 /\ L - 1 + 1 = L /\ L - 1 \in 1..L
  BY <1>2, <1>3
<1>8. /\ Top.off = outer.off + outer.hsize + Top.total /\ End = Top.off
      /\ Hole(buf, outer.size_off, 4, End) /\ Hole(buf, outer.count_off, 4, End)
  BY <1>3, <1>5, <1>7 DEF IInv, Chain, End
<1>9. n \in Nat /\ End = outer.off + n /\ End \in Nat
  BY <1>6, <1>8, SMTT(40)
<1>10. x \in Writers /\ x.off = outer.off + n /\ x.total = outer.total + n
  BY <1>5, <1>9, Finished
<1>11. Sound(size, buf') /\ Keeps(buf, buf', End)
  <2>1. twice = FillIn(once, outer.count_off, Num(4, Top.n)) /\ 4 \in {2, 4}
    BY DEF U32
  <2>2. Sound(size, twice) /\ Keeps(buf, twice, End)
    <3> HIDE DEF twice, outer, n
    <3> QED BY <1>1, <1>8, <1>9, <2>1, TwoFills
  <2> QED BY <1>2, <2>2
<1> HIDE DEF once, twice
<1>12. /\ els' \in Seq(Writers) /\ Len(els') = L - 1 /\ els' # <<>>
       /\ \A i \in 1..L - 2 : els'[i] = els[i]
       /\ els'[L - 1] = x
  <2> HIDE DEF x
  <2> QED BY <1>1, <1>2, <1>10, Unnested
<1>13. End' = End
  BY <1>9, <1>10, <1>12 DEF End, Top
<1> HIDE DEF n, x, front
<1>14. Laid' /\ \A p, q : Hole(buf, p, q, End) => Hole(buf', p, q, End')
  <2>1. End' \in Nat /\ End <= End' /\ End' <= size /\ wphase # "idle" /\ wphase' # "idle"
    BY <1>2, <1>4, <1>9, <1>13 DEF IInv, Laid
  <2>2. Filled(buf', End, End')
    BY <1>9, <1>13, NoStretch
  <2>3. ew'.total + mw.hsize = ew'.off
    BY <1>2, <1>4 DEF IInv, Laid
  <2> QED BY <1>2, <1>11, <2>1, <2>2, <2>3, Going
<1>15. WTypes'
  <2>1. Sound(size', buf') /\ size' \in Nat /\ ver' \in {2, 4} /\ ew' \in Writers
    BY <1>1, <1>2, <1>11 DEF WTypes
  <2>2. mw' \in [hsize : Nat, count_off : Nat \cup {NoOffset}] /\ begun' \in Messages
    BY <1>1, <1>2, <1>4 DEF WTypes
  <2>3. wphase' = "message"
    BY <1>2, <1>4
  <2> QED BY <1>12, <2>1, <2>2, <2>3 DEF WTypes
<1>16. Chain'
  <2> DEFINE j == L - 1
  <2>1. j \in 1..Len(els) /\ Len(els') = j /\ j - 1 = L - 2
    BY <1>3, <1>7, <1>12
  <2>2. els'[j].off = els[j].off + n /\ els'[j].total = els[j].total + n
    BY <1>10, <1>12
  <2>3. \A i \in 1..j - 1 : els'[i] = els[i]
    BY <1>12, <2>1
  <2>4. CountWidth' = CountWidth
    BY <1>2 DEF CountWidth
  <2> HIDE DEF j
  <2> QED BY <1>2, <1>3, <1>9, <1>12, <1>14, <2>1, <2>2, <2>3, <2>4, Shorter
<1> QED BY <1>14, <1>15, <1>16 DEF IInv

\* write_raw: the size that is counted is what has been written.
LEMMA WriteRawStep ==
  ASSUME IInv, NEW d \in begun.blocks, WriteRaw(d)
  PROVE  IInv'
<1> DEFINE bytes == Bytes(d)
           s == (IF ver = 2 THEN DataHeader2(d.name, d.type, d.len, bytes)
                            ELSE DataHeader4(d.name, d.type, d.len, bytes)) \o Data(d.data, bytes)
           n == IF ver = 2 THEN DataSize2(d.name, bytes) ELSE DataSize4(d.name, d.len, bytes)
           o == Top.off
           w == Write(size, buf, o, s)
           x == Finish(Top, n)
           L == Len(els)
<1>1. /\ WTypes /\ size \in Nat /\ Sound(size, buf) /\ ver \in {2, 4}
      /\ els \in Seq(Writers) /\ ew \in Writers
  BY DEF IInv, WTypes
<1>2. /\ els # <<>> /\ buf' = w.buf
      /\ IF w.ok THEN els' = SetTop(x) ELSE els' = els
      /\ size' = size /\ ver' = ver /\ wphase' = wphase /\ begun' = begun /\ mw' = mw /\ ew' = ew
  BY DEF WriteRaw
<1>3. wphase = "message" /\ begun \in Messages
  BY <1>1, <1>2 DEF WTypes
<1>4. End = o /\ o \in 0..size /\ L \in Nat \ {0} /\ Top \in Writers
  BY <1>1, <1>2, <1>3, EndPlace DEF IInv, Laid, End
<1>5. Sized(s, n)
  <2>1. d.name \in DOMAIN NameLen /\ bytes \in Nat
    BY <1>3, WriterAssumption
  <2> HIDE DEF bytes
  <2>2. CASE ver = 2
    <3>1. Sized(DataHeader2(d.name, d.type, d.len, bytes) \o Data(d.data, bytes),
                DataSize2(d.name, bytes))
      BY <2>1, DataShape2
    <3> QED BY <2>2, <3>1
  <2>3. CASE ver = 4
    <3>1. Sized(DataHeader4(d.name, d.type, d.len, bytes) \o Data(d.data, bytes),
                DataSize4(d.name, d.len, bytes))
      BY <2>1, DataShape4
    <3> QED BY <2>3, <3>1
  <2> QED BY <1>1, <2>2, <2>3
<1>6. n \in Nat
  BY <1>5 DEF Sized
<1> HIDE DEF s, n, bytes
<1>7. /\ Sound(size, w.buf) /\ Keeps(buf, w.buf, o)
      /\ w.ok \in BOOLEAN /\ (w.ok <=> o + n <= size)
      /\ w.ok => Filled(w.buf, o, o + n)
  <2> HIDE DEF o
  <2> QED BY <1>1, <1>4, <1>5, WriteFacts
<1> HIDE DEF w
<1>8. CASE ~w.ok
  <2>1. UNCHANGED <<size, ver, wphase, begun, mw, ew, els>>
    BY <1>2, <1>8
  <2>2. Sound(size, buf') /\ Keeps(buf, buf', End) /\ wphase # "idle"
    BY <1>2, <1>3, <1>4, <1>7
  <2> QED BY <2>1, <2>2, Failing
<1>9. CASE w.ok
  <2>1. x \in Writers /\ x.off = o + n /\ x.total = Top.total + n
    BY <1>4, <1>6, Finished
  <2>2. /\ els' \in Seq(Writers) /\ Len(els') = L /\ els' # <<>>
        /\ \A i \in 1..L - 1 : els'[i] = els[i]
        /\ els'[L] = x
    <3> HIDE DEF x
    <3>1. els' = SetTop(x)
      BY <1>2, <1>9
    <3>2. /\ SetTop(x) \in Seq(Writers) /\ Len(SetTop(x)) = Len(els) /\ SetTop(x) # <<>>
          /\ \A i \in 1..Len(els) - 1 : SetTop(x)[i] = els[i]
          /\ SetTop(x)[Len(els)] = x
      BY <1>1, <1>2, <2>1, Topped
    <3> QED BY <3>1, <3>2
  <2> HIDE DEF x
  <2>3. End' = o + n
    BY <2>1, <2>2 DEF End, Top
  <2>4. Laid' /\ \A p, q : Hole(buf, p, q, End) => Hole(buf', p, q, End')
    <3>1. Sound(size, buf') /\ Keeps(buf, buf', End) /\ Filled(buf', End, End')
      BY <1>2, <1>4, <1>7, <1>9, <2>3
    <3>2. ew'.total + mw.hsize = ew'.off
      BY <1>2, <1>3 DEF IInv, Laid
    <3>3. End' \in Nat /\ End <= End' /\ End' <= size /\ wphase # "idle" /\ wphase' # "idle"
      BY <1>1, <1>2, <1>3, <1>4, <1>6, <1>7, <1>9, <2>3
    <3> QED BY <1>2, <3>1, <3>2, <3>3, Going
  <2>5. WTypes'
    <3>1. Sound(size', buf') /\ size' \in Nat /\ ver' \in {2, 4} /\ ew' \in Writers
      BY <1>1, <1>2, <1>7
    <3>2. mw' \in [hsize : Nat, count_off : Nat \cup {NoOffset}] /\ begun' \in Messages
      BY <1>1, <1>2, <1>3 DEF WTypes
    <3>3. wphase' = "message"
      BY <1>2, <1>3
    <3> QED BY <2>2, <3>1, <3>2, <3>3 DEF WTypes
  <2>6. Chain'
    <3>1. L \in 1..Len(els) /\ Top = els[L]
      BY <1>4 DEF Top
    <3>2. els'[L].off = els[L].off + n /\ els'[L].total = els[L].total + n
      BY <2>1, <2>2, <3>1
    <3>3. CountWidth' = CountWidth
      BY <1>2 DEF CountWidth
    <3> HIDE DEF L
    <3> QED BY <1>2, <1>6, <2>2, <2>4, <3>1, <3>2, <3>3, Shorter
  <2> QED BY <2>4, <2>5, <2>6 DEF IInv
<1> QED BY <1>7, <1>8, <1>9

----------------------------------------------------------------------------
(* The theorems. *)

LEMMA InitIInv == Init => IInv
<1> SUFFICES ASSUME Init PROVE IInv
  OBVIOUS
<1>1. /\ size \in BufSizes /\ ver \in Versions /\ buf = <<>> /\ wphase = "idle"
      /\ mw = [hsize |-> 0, count_off |-> NoOffset] /\ ew = Writer(0) /\ els = <<>>
  BY DEF Init, WInit
<1>2. size \in Nat /\ ver \in {2, 4}
  BY <1>1, WriterAssumption
<1>3. Sound(size, buf)
  BY <1>1 DEF Sound, Disjoint
<1>4. ew \in Writers
  BY <1>1, FreshWriter
<1>5. els \in Seq(Writers) /\ mw \in [hsize : Nat, count_off : Nat \cup {NoOffset}]
  BY <1>1
<1> QED BY <1>1, <1>2, <1>3, <1>4, <1>5 DEF IInv, WTypes, Laid, Chain

\* The reader changes nothing of the writers.
LEMMA Unmoved ==
  ASSUME IInv, UNCHANGED wvars
  PROVE  IInv'
<1>1. End' = End /\ CountWidth' = CountWidth
  BY DEF End, Top, CountWidth, wvars
<1>2. WTypes' /\ Laid' /\ Chain'
  BY <1>1 DEF IInv, WTypes, Laid, Chain, wvars
<1> QED BY <1>2 DEF IInv

\* Every step keeps the invariant.
LEMMA StepIInv == IInv /\ [Next]_vars => IInv'
<1> SUFFICES ASSUME IInv, [Next]_vars PROVE IInv'
  OBVIOUS
<1>1. ASSUME NEW m \in Messages, BeginMessage(m) PROVE IInv'
  BY <1>1, BeginMessageStep
<1>2. ASSUME NEW h \in begun.entries, BeginEntry(h) PROVE IInv'
  BY <1>2, BeginEntryStep
<1>3. ASSUME EndEntry PROVE IInv'
  BY <1>3, EndEntryStep
<1>4. ASSUME NEW h \in begun.nested, BeginNested(h) PROVE IInv'
  BY <1>4, BeginNestedStep
<1>5. ASSUME EndNested PROVE IInv'
  BY <1>5, EndNestedStep
<1>6. ASSUME NEW d \in begun.blocks, WriteRaw(d) PROVE IInv'
  BY <1>6, WriteRawStep
<1>7. ASSUME EndMessage PROVE IInv'
  BY <1>7, EndMessageStep
<1>8. CASE WriterStep
  BY <1>1, <1>2, <1>3, <1>4, <1>5, <1>6, <1>7, <1>8 DEF WriterStep, WNext
<1>9. CASE Arrive
  BY <1>9, Unmoved DEF Arrive
<1>10. CASE ReaderStep
  BY <1>10, Unmoved DEF ReaderStep
<1>11. CASE UNCHANGED vars
  BY <1>11, Unmoved DEF vars
<1> QED BY <1>8, <1>9, <1>10, <1>11 DEF Next

\* At every moment, the cells of the send buffer lie side by side within it, what has been
\* written up to the next child leaves no gap, the open entry and structures nest as their
\* offsets say, and every size and count that is filled in later has a field of its width
\* that no other call has written over (message.c:2721-3756).
THEOREM WritersInvariant == Spec => []IInv
<1> QED BY InitIInv, StepIInv, PTL DEF Spec

\* What end_message announces is what has been written, byte for byte, in both versions, for
\* any headers, any structures within structures and any size of the buffer, whatever calls
\* have failed (message.c:3038-3105, 3363-3427, 3674-3745).
THEOREM WritersTile == Spec => []Tiled
<1>1. IInv => Tiled
  <2> SUFFICES ASSUME IInv, wphase # "idle"
               PROVE  End <= size /\ Width(Prefix(buf, End)) = End /\ MessageSize = ew.off
    BY DEF Tiled
  <2>1. End <= size /\ Filled(buf, 0, End) /\ ew.total + mw.hsize = ew.off
    BY DEF IInv, Laid
  <2>2. Disjoint(buf) /\ End \in Nat
    BY EndPlace DEF IInv, WTypes, Sound
  <2>3. Width(Prefix(buf, End)) = End
    <3> DEFINE e == End
    <3>1. e \in Nat /\ Filled(buf, 0, e)
      BY <2>1, <2>2
    <3> HIDE DEF e
    <3>2. Width(Prefix(buf, e)) = e
      BY <2>2, <3>1, FilledWidth
    <3> QED BY <3>2 DEF e
  <2> QED BY <2>1, <2>3 DEF MessageSize
<1> QED BY <1>1, WritersInvariant, PTL

\* begin_message never gives a message up whose header fits: the size of a version 4 header,
\* which counts the number it is written in, is worked out right for strings and numbers of
\* any length (message.c:2721-2988).
THEOREM HeadersFit == Spec => BegunIfItFits
<1> DEFINE P == \A m \in Messages :
             BeginMessage(m) /\ wphase' = "idle" /\ (ver = 2 => Count2Fits(m.header)) =>
               TotalWidth(IF ver = 2 THEN MessageCells2(m.header)
                          ELSE MessageCells4(m.header, MessageFlags(m.header, m.mask))) > size
<1>1. IInv => P
  BY BeginFits DEF IInv, BeginCells
<1>2. IInv /\ [Next]_vars => [P]_vars
  BY <1>1
<1>3. BegunIfItFits <=> [][P]_vars
  <2> QED BY PTL DEF BegunIfItFits
<1> HIDE DEF P
<1> QED BY <1>2, <1>3, WritersInvariant, PTL DEF Spec
=============================================================================
