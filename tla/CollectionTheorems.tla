------------------------- MODULE CollectionTheorems -------------------------
(***************************************************************************)
(* Facts about the operators of Collections.  The induction theorems of    *)
(* the library take the induction hypothesis as an operator; here it is a  *)
(* set, and the least counterexample that WFMin gives takes the place of   *)
(* the induction.                                                          *)
(***************************************************************************)
EXTENDS Collections, WellFoundedInduction, TLAPS

-----------------------------------------------------------------------------
(* Induction.                                                               *)

(* A set of natural numbers has a least member.                             *)
LEMMA LeastNatural ==
  ASSUME NEW T \in SUBSET Nat, T # {}
  PROVE  \E m \in T : \A k \in T : m <= k
<1>1. PICK R : IsWellFoundedOn(R, Nat) /\ \A x, y \in Nat : x < y => <<x, y>> \in R
  <2>1. IsWellFoundedOn(OpToRel(<, Nat), Nat)
    BY NatLessThanWellFounded, Zenon
  <2>2. \A x, y \in Nat : x < y => <<x, y>> \in OpToRel(<, Nat)
    BY Zenon DEF OpToRel
  <2> QED
    BY <2>1, <2>2, Zenon
<1>2. IsWellFoundedOn(R, Nat) /\ T \subseteq Nat
  BY <1>1, Zenon
<1>3. PICK m \in T : \A k \in T : ~(<<k, m>> \in R)
  BY <1>2, WFMin, Zenon
<1>4. ASSUME NEW k \in T PROVE m <= k
  <2>1. ~(k < m)
    BY <1>1, <1>3, Zenon
  <2> QED
    BY <2>1
<1> QED
  BY <1>4, Zenon

(* Induction on the natural numbers, for a set.                             *)
LEMMA NatSetInduction ==
  ASSUME NEW T, 0 \in T, \A n \in Nat : n \in T => n + 1 \in T
  PROVE  \A n \in Nat : n \in T
<1> SUFFICES ASSUME Nat \ T # {} PROVE FALSE
  BY Zenon
<1>1. PICK m \in Nat \ T : \A k \in Nat \ T : m <= k
  BY LeastNatural, Zenon
<1>2. m # 0 /\ m - 1 \in Nat /\ m - 1 < m
  BY <1>1
<1>3. m - 1 \in T
  BY <1>1, <1>2
<1>4. (m - 1) + 1 = m
  BY <1>2
<1> QED
  BY <1>1, <1>2, <1>3, <1>4, Zenon

-----------------------------------------------------------------------------
(* Finite sets.                                                             *)

(* n values list every member of s, so that s has at most n members.        *)
Listed(s, n) == \E f : \A x \in s : \E i \in 1 .. n : f[i] = x

(* A set is finite when some number of values lists it.                     *)
LEMMA FiniteIsListed == ASSUME NEW S PROVE IsFiniteSet(S) <=> \E n \in Nat : Listed(S, n)
<1>1. ASSUME IsFiniteSet(S) PROVE \E n \in Nat : Listed(S, n)
  <2>1. PICK q \in Seq(S) : \A x \in S : \E i \in 1 .. Len(q) : q[i] = x
    BY <1>1, Zenon DEF IsFiniteSet
  <2>2. Len(q) \in Nat
    OBVIOUS
  <2> QED
    BY <2>1, <2>2, Zenon DEF Listed
<1>2. ASSUME NEW n \in Nat, NEW f, \A x \in S : \E i \in 1 .. n : f[i] = x PROVE IsFiniteSet(S)
  <2>1. CASE S = {}
    <3>1. <<>> \in Seq({})
      OBVIOUS
    <3> QED
      BY <2>1, <3>1, Zenon DEF IsFiniteSet
  <2>2. CASE S # {}
    <3>1. PICK e \in S : TRUE
      BY <2>2, Zenon
    <3> DEFINE q == [i \in 1 .. n |-> IF f[i] \in S THEN f[i] ELSE e]
    <3>2. q \in Seq(S) /\ Len(q) = n
      <4>1. q \in [1 .. n -> S]
        BY Zenon
      <4> QED
        BY <4>1
    <3>3. \A x \in S : \E i \in 1 .. Len(q) : q[i] = x
      BY <1>2, <3>2, Zenon
    <3> HIDE DEF q
    <3> QED
      BY <3>2, <3>3, Zenon DEF IsFiniteSet
  <2> QED
    BY <2>1, <2>2, Zenon
<1> QED
  BY <1>1, <1>2, Zenon DEF Listed

(* A set without one of its members is listed by one value less; no values  *)
(* list only the empty set.                                                 *)
LEMMA ListedWithout ==
  ASSUME NEW s
  PROVE  /\ Listed(s, 0) => s = {}
         /\ \A n \in Nat, c \in s : Listed(s, n + 1) => Listed(s \ {c}, n)
<1>1. Listed(s, 0) => s = {}
  BY DEF Listed
<1>2. ASSUME NEW n \in Nat, NEW c \in s, Listed(s, n + 1) PROVE Listed(s \ {c}, n)
  <2>1. PICK f : \A x \in s : \E i \in 1 .. n + 1 : f[i] = x
    BY <1>2, Zenon DEF Listed
  <2>2. PICK k \in 1 .. n + 1 : f[k] = c
    BY <2>1, Zenon
  <2> DEFINE g == [i \in 1 .. n |-> IF i < k THEN f[i] ELSE f[i + 1]]
  <2>3. ASSUME NEW x \in s \ {c} PROVE \E i \in 1 .. n : g[i] = x
    <3>1. PICK i \in 1 .. n + 1 : f[i] = x
      BY <2>1, Zenon
    <3>2. i # k
      BY <2>2, <3>1, Zenon
    <3>3. CASE i < k
      <4>1. i \in 1 .. n /\ g[i] = f[i]
        BY <3>3
      <4> QED
        BY <3>1, <4>1, Zenon
    <3>4. CASE k < i
      <4>1. i - 1 \in 1 .. n /\ ~(i - 1 < k) /\ (i - 1) + 1 = i
        BY <3>4
      <4>2. g[i - 1] = f[i]
        BY <4>1, Zenon
      <4> QED
        BY <3>1, <4>1, <4>2, Zenon
    <3> QED
      BY <3>2, <3>3, <3>4
  <2> HIDE DEF g
  <2> QED
    BY <2>3, Zenon DEF Listed
<1> QED
  BY <1>1, <1>2, Zenon

(* The empty set is finite.                                                 *)
LEMMA FiniteEmpty == IsFiniteSet({})
<1>1. Listed({}, 0)
  BY Zenon DEF Listed
<1> QED
  BY <1>1, FiniteIsListed, Zenon

(* The subsets of a finite set are finite.                                  *)
LEMMA FiniteSubset ==
  ASSUME NEW S, IsFiniteSet(S), NEW s \in SUBSET S
  PROVE  IsFiniteSet(s)
<1>1. PICK n \in Nat : Listed(S, n)
  BY FiniteIsListed, Zenon
<1>2. Listed(s, n)
  BY <1>1, Zenon DEF Listed
<1> QED
  BY <1>2, FiniteIsListed, Zenon

(* A finite set with one more member is finite.                             *)
LEMMA FiniteAdd ==
  ASSUME NEW S, IsFiniteSet(S), NEW x
  PROVE  IsFiniteSet(S \cup {x})
<1>1. PICK n \in Nat : Listed(S, n)
  BY FiniteIsListed, Zenon
<1>2. PICK f : \A y \in S : \E i \in 1 .. n : f[i] = y
  BY <1>1, Zenon DEF Listed
<1> DEFINE g == [i \in 1 .. n + 1 |-> IF i = n + 1 THEN x ELSE f[i]]
<1>3. ASSUME NEW y \in S \cup {x} PROVE \E i \in 1 .. n + 1 : g[i] = y
  <2>1. CASE y \in S
    <3>1. PICK i \in 1 .. n : f[i] = y
      BY <1>2, <2>1, Zenon
    <3>2. i \in 1 .. n + 1 /\ g[i] = y
      BY <3>1
    <3> QED
      BY <3>2, Zenon
  <2>2. CASE y = x
    BY <2>2
  <2> QED
    BY <2>1, <2>2, Zenon
<1> HIDE DEF g
<1>4. n + 1 \in Nat /\ Listed(S \cup {x}, n + 1)
  BY <1>3 DEF Listed
<1> QED
  BY <1>4, FiniteIsListed, Zenon

(* An interval of naturals from 1 is finite.                                *)
LEMMA FiniteInterval == ASSUME NEW n \in Nat PROVE IsFiniteSet(1 .. n)
<1> DEFINE f == [i \in 1 .. n |-> i]
<1>1. \A x \in 1 .. n : \E i \in 1 .. n : f[i] = x
  BY Zenon
<1> HIDE DEF f
<1>2. Listed(1 .. n, n)
  BY <1>1, Zenon DEF Listed
<1> QED
  BY <1>2, FiniteIsListed, Zenon

(* Induction on the subsets of a finite set, for a set of sets.             *)
LEMMA FiniteInduction ==
  ASSUME NEW S, IsFiniteSet(S), NEW T, {} \in T,
         \A s \in SUBSET S : s # {} /\ (\A x \in s : s \ {x} \in T) => s \in T
  PROVE  S \in T
<1> DEFINE N == {n \in Nat : \A s \in SUBSET S : Listed(s, n) => s \in T}
<1>1. 0 \in N
  BY ListedWithout, Zenon
<1>2. ASSUME NEW n \in Nat, n \in N PROVE n + 1 \in N
  <2> SUFFICES ASSUME NEW s \in SUBSET S, Listed(s, n + 1), s # {} PROVE s \in T
    OBVIOUS
  <2>1. ASSUME NEW x \in s PROVE s \ {x} \in T
    <3>1. Listed(s \ {x}, n)
      BY ListedWithout, Zenon
    <3>2. s \ {x} \in SUBSET S
      BY Zenon
    <3> QED
      BY <1>2, <3>1, <3>2, Zenon
  <2> HIDE DEF N
  <2> QED
    BY <2>1, Zenon
<1> HIDE DEF N
<1>3. \A n \in Nat : n \in N
  BY <1>1, <1>2, NatSetInduction, Zenon
<1>4. PICK n \in Nat : Listed(S, n)
  BY FiniteIsListed, Zenon
<1> QED
  BY <1>3, <1>4, Zenon DEF N

-----------------------------------------------------------------------------
(* Sums.                                                                    *)

(* A sum over a set that is not empty is the value of one of its members,   *)
(* the same for every f, and the sum over the others.  The recursion that   *)
(* defines the sum has a solution on the subsets of S (one that is right    *)
(* for the sets of n members gives one right for n + 1), and two solutions  *)
(* agree where both are defined.                                            *)
LEMMA SumUnfold ==
  ASSUME NEW S, IsFiniteSet(S)
  PROVE  /\ \A f : SumOver(f, {}) = 0
         /\ S # {} => \E c \in S : \A f : SumOver(f, S) = f[c] + SumOver(f, S \ {c})
<1> DEFINE Chosen(s) == CHOOSE x \in s : TRUE
           Partial(g, f, s) == IF s = {} THEN 0 ELSE f[Chosen(s)] + g[s \ {Chosen(s)}]
           IsSum(g, f, U) == g = [s \in SUBSET U |-> Partial(g, f, s)]
<1>1. ASSUME NEW s, s # {} PROVE Chosen(s) \in s
  BY <1>1, Zenon
<1> HIDE DEF Chosen, Partial, IsSum
<1>2. PICK m \in Nat : \A s \in SUBSET S : Listed(s, m)
  <2>1. PICK m \in Nat : Listed(S, m)
    BY FiniteIsListed, Zenon
  <2> QED
    BY <2>1, Zenon DEF Listed
<1>3. ASSUME NEW U \in SUBSET S, NEW f PROVE \E g : IsSum(g, f, U)
  <2> DEFINE Upto(g, n) == \A s \in SUBSET U : Listed(s, n) => g[s] = Partial(g, f, s)
             T == {n \in Nat : \E g : g = [s \in SUBSET U |-> g[s]] /\ Upto(g, n)}
  <2>1. 0 \in T
    <3> DEFINE g == [s \in SUBSET U |-> 0]
    <3>1. ASSUME NEW s \in SUBSET U, Listed(s, 0) PROVE g[s] = Partial(g, f, s)
      <4>1. s = {}
        BY <3>1, ListedWithout, Zenon
      <4> QED
        BY <4>1, Zenon DEF Partial
    <3>2. g = [s \in SUBSET U |-> g[s]]
      BY Zenon
    <3> HIDE DEF g
    <3> QED
      BY <3>1, <3>2, Zenon
  <2>2. ASSUME NEW n \in Nat, n \in T PROVE n + 1 \in T
    <3>1. PICK g : g = [s \in SUBSET U |-> g[s]] /\ Upto(g, n)
      BY <2>2, Zenon
    <3> DEFINE h == [s \in SUBSET U |-> Partial(g, f, s)]
    <3>2. ASSUME NEW s \in SUBSET U, Listed(s, n + 1) PROVE h[s] = Partial(h, f, s)
      <4>1. CASE s = {}
        BY <4>1, Zenon DEF Partial
      <4>2. CASE s # {}
        <5> DEFINE r == s \ {Chosen(s)}
        <5>1. Chosen(s) \in s
          BY <1>1, <4>2, Zenon
        <5>2. Listed(r, n)
          BY <3>2, <5>1, ListedWithout, Zenon
        <5>3. r \in SUBSET U /\ Listed(r, n)
          BY <5>2, Zenon
        <5>4. g[r] = Partial(g, f, r)
          BY <3>1, <5>3, Zenon
        <5>5. h[r] = g[r]
          BY <5>3, <5>4, Zenon
        <5>6. h[s] = f[Chosen(s)] + g[r] /\ Partial(h, f, s) = f[Chosen(s)] + h[r]
          BY <4>2, Zenon DEF Partial
        <5> QED
          BY <5>5, <5>6, Zenon
      <4> QED
        BY <4>1, <4>2, Zenon
    <3>3. h = [s \in SUBSET U |-> h[s]]
      BY Zenon
    <3>4. Upto(h, n + 1)
      BY <3>2, Zenon
    <3>5. n + 1 \in Nat
      OBVIOUS
    <3> HIDE DEF h, Upto
    <3> QED
      BY <3>3, <3>4, <3>5, Zenon
  <2>3. m \in T
    <3> HIDE DEF T
    <3> QED
      BY <2>1, <2>2, NatSetInduction, Zenon
  <2>4. PICK g : g = [s \in SUBSET U |-> g[s]] /\ Upto(g, m)
    BY <2>3, Zenon
  <2>5. \A s \in SUBSET U : g[s] = Partial(g, f, s)
    BY <1>2, <2>4, Zenon
  <2>6. g = [s \in SUBSET U |-> Partial(g, f, s)]
    BY <2>4, <2>5, Zenon
  <2> QED
    BY <2>6, Zenon DEF IsSum
<1>4. ASSUME NEW U \in SUBSET S, NEW f PROVE \E g : IsSum(g, f, U) /\ SumOver(f, U) = g[U]
  <2> DEFINE g == CHOOSE g : g = [s \in SUBSET U |->
                    IF s = {} THEN 0 ELSE f[CHOOSE x \in s : TRUE] + g[s \ {CHOOSE x \in s : TRUE}]]
  <2>1. SumOver(f, U) = g[U]
    BY Zenon DEF SumOver, MapThenSumSet, MapThenFoldSet
  <2>2. \E h : h = [s \in SUBSET U |->
                    IF s = {} THEN 0 ELSE f[CHOOSE x \in s : TRUE] + h[s \ {CHOOSE x \in s : TRUE}]]
    <3>1. PICK h : IsSum(h, f, U)
      BY <1>3, Zenon
    <3>2. h = [s \in SUBSET U |->
                 IF s = {} THEN 0 ELSE f[CHOOSE x \in s : TRUE] + h[s \ {CHOOSE x \in s : TRUE}]]
      BY <3>1, Zenon DEF IsSum, Partial, Chosen
    <3> QED
      BY <3>2, Zenon
  <2>3. IsSum(g, f, U)
    BY <2>2, Zenon DEF IsSum, Partial, Chosen
  <2> QED
    BY <2>1, <2>3, Zenon
<1>5. ASSUME NEW U \in SUBSET S, NEW f, NEW g, NEW h, IsSum(g, f, S), IsSum(h, f, U)
      PROVE  g[U] = h[U]
  <2> DEFINE T == {s \in SUBSET U : g[s] = h[s]}
  <2>1. IsFiniteSet(U)
    BY FiniteSubset, Zenon
  <2>2. {} \in T
    BY <1>5, Zenon DEF IsSum, Partial
  <2>3. ASSUME NEW s \in SUBSET U, s # {}, \A x \in s : s \ {x} \in T PROVE s \in T
    <3> DEFINE r == s \ {Chosen(s)}
    <3>1. g[r] = h[r]
      BY <1>1, <2>3, Zenon
    <3>2. g[s] = f[Chosen(s)] + g[r] /\ h[s] = f[Chosen(s)] + h[r]
      BY <1>5, <2>3, Zenon DEF IsSum, Partial
    <3> QED
      BY <3>1, <3>2, Zenon
  <2> HIDE DEF T
  <2>4. U \in T
    BY <2>1, <2>2, <2>3, FiniteInduction, Zenon
  <2> QED
    BY <2>4, Zenon DEF T
<1>6. ASSUME NEW f PROVE SumOver(f, {}) = 0
  <2>1. PICK g : IsSum(g, f, {}) /\ SumOver(f, {}) = g[{}]
    BY <1>4, Zenon
  <2> QED
    BY <2>1, Zenon DEF IsSum, Partial
<1>7. ASSUME NEW f, S # {} PROVE SumOver(f, S) = f[Chosen(S)] + SumOver(f, S \ {Chosen(S)})
  <2> DEFINE U == S \ {Chosen(S)}
  <2>1. PICK g : IsSum(g, f, S) /\ SumOver(f, S) = g[S]
    BY <1>4, Zenon
  <2>2. PICK h : IsSum(h, f, U) /\ SumOver(f, U) = h[U]
    BY <1>4, Zenon
  <2>3. g[U] = h[U]
    <3>1. U \in SUBSET S
      BY Zenon
    <3> HIDE DEF U
    <3> QED BY <1>5, <2>1, <2>2, <3>1, Zenon
  <2>4. g[S] = f[Chosen(S)] + g[U]
    BY <1>7, <2>1, Zenon DEF IsSum, Partial
  <2> QED
    BY <2>1, <2>2, <2>3, <2>4, Zenon
<1> QED
  BY <1>1, <1>6, <1>7, Zenon

(* The sum over no members is 0.                                            *)
LEMMA SumEmpty == ASSUME NEW f PROVE SumOver(f, {}) = 0
BY SumUnfold, FiniteEmpty, Zenon

(* Values of a set that has 0 and the sums of its members sum up to one of  *)
(* it: integers to an integer, natural numbers to a natural number, zeros   *)
(* to zero.                                                                 *)
LEMMA SumType ==
  ASSUME NEW S, IsFiniteSet(S), NEW Typ, Typ \in {Int, Nat, {0}}, NEW f, \A x \in S : f[x] \in Typ
  PROVE  SumOver(f, S) \in Typ
<1> DEFINE T == {s \in SUBSET S : SumOver(f, s) \in Typ}
<1>1. {} \in T
  BY SumEmpty
<1>2. ASSUME NEW s \in SUBSET S, s # {}, \A x \in s : s \ {x} \in T PROVE s \in T
  <2>1. PICK c \in s : \A h : SumOver(h, s) = h[c] + SumOver(h, s \ {c})
    BY <1>2, SumUnfold, FiniteSubset, Zenon
  <2>2. f[c] \in Typ /\ SumOver(f, s \ {c}) \in Typ
    BY <1>2, Zenon
  <2>3. \A a, b \in Typ : a + b \in Typ
    OBVIOUS
  <2> QED
    BY <2>1, <2>2, <2>3, Zenon
<1> HIDE DEF T
<1>3. S \in T
  BY <1>1, <1>2, FiniteInduction, Zenon
<1> QED
  BY <1>3, Zenon DEF T

(* A sum of zeros is 0.                                                     *)
LEMMA SumZero ==
  ASSUME NEW S, IsFiniteSet(S), NEW f, \A x \in S : f[x] = 0
  PROVE  SumOver(f, S) = 0
<1>1. SumOver(f, S) \in {0}
  <2> DEFINE Z == {0}
  <2>1. Z \in {Int, Nat, {0}} /\ \A x \in S : f[x] \in Z
    BY Zenon
  <2> HIDE DEF Z
  <2>2. SumOver(f, S) \in Z
    BY <2>1, SumType, Zenon
  <2> QED
    BY <2>2, Zenon DEF Z
<1> QED
  BY <1>1, Zenon

(* A sum depends only on the values at the set's members.                   *)
LEMMA SumSame ==
  ASSUME NEW S, IsFiniteSet(S), NEW f, NEW g, \A x \in S : f[x] = g[x]
  PROVE  SumOver(f, S) = SumOver(g, S)
<1> DEFINE T == {s \in SUBSET S : SumOver(f, s) = SumOver(g, s)}
<1>1. {} \in T
  BY SumEmpty, Zenon
<1>2. ASSUME NEW s \in SUBSET S, s # {}, \A x \in s : s \ {x} \in T PROVE s \in T
  <2>1. PICK c \in s : \A h : SumOver(h, s) = h[c] + SumOver(h, s \ {c})
    BY <1>2, SumUnfold, FiniteSubset, Zenon
  <2>2. f[c] = g[c] /\ SumOver(f, s \ {c}) = SumOver(g, s \ {c})
    BY <1>2, Zenon
  <2>3. SumOver(f, s) = f[c] + SumOver(f, s \ {c}) /\ SumOver(g, s) = g[c] + SumOver(g, s \ {c})
    BY <2>1, Zenon
  <2> QED
    BY <2>2, <2>3, Zenon
<1> HIDE DEF T
<1>3. S \in T
  BY <1>1, <1>2, FiniteInduction, Zenon
<1> QED
  BY <1>3, Zenon DEF T

(* The order of summation does not matter: any member can be taken last, so *)
(* that a new member adds its value.                                        *)
LEMMA SumAdd ==
  ASSUME NEW S, IsFiniteSet(S), NEW x, x \notin S, NEW f, \A y \in S \cup {x} : f[y] \in Int
  PROVE  SumOver(f, S \cup {x}) = f[x] + SumOver(f, S)
<1> DEFINE U == S \cup {x}
           T == {s \in SUBSET U : \A y \in s : SumOver(f, s) = f[y] + SumOver(f, s \ {y})}
<1>1. IsFiniteSet(U) /\ \A s \in SUBSET U : IsFiniteSet(s)
  BY FiniteAdd, FiniteSubset, Zenon
<1>2. {} \in T
  BY Zenon
<1>3. ASSUME NEW s \in SUBSET U, s # {}, \A y \in s : s \ {y} \in T, NEW y \in s
      PROVE  SumOver(f, s) = f[y] + SumOver(f, s \ {y})
  <2>1. PICK c \in s : \A h : SumOver(h, s) = h[c] + SumOver(h, s \ {c})
    BY <1>1, <1>3, SumUnfold, Zenon
  <2>2. CASE y = c
    BY <2>1, <2>2, Zenon
  <2>3. CASE y # c
    <3> DEFINE r == s \ {c}
               q == s \ {y}
    <3>1. SumOver(f, r) = f[y] + SumOver(f, r \ {y})
      BY <1>3, <2>3, Zenon
    <3>2. SumOver(f, q) = f[c] + SumOver(f, q \ {c})
      BY <1>3, <2>3, Zenon
    <3>3. r \ {y} = q \ {c}
      BY Zenon
    <3>4. f[c] \in Int /\ f[y] \in Int
      BY Zenon
    <3>5. IsFiniteSet(r \ {y}) /\ \A z \in r \ {y} : f[z] \in Int
      BY <1>1, Zenon
    <3>6. SumOver(f, r \ {y}) \in Int
      BY <3>5, SumType, Zenon
    <3>7. SumOver(f, q) = f[c] + SumOver(f, r \ {y})
      BY <3>2, <3>3, Zenon
    <3> HIDE DEF r, q
    <3>8. SumOver(f, s) = f[y] + SumOver(f, q)
      BY <2>1, <3>1, <3>4, <3>6, <3>7 DEF r
    <3> QED
      BY <3>8, Zenon DEF q
  <2> QED
    BY <2>2, <2>3, Zenon
<1>4. \A s \in SUBSET U : s # {} /\ (\A y \in s : s \ {y} \in T) => s \in T
  BY <1>3, Zenon
<1> HIDE DEF T
<1>5. U \in T
  <2> HIDE DEF U
  <2> QED BY <1>1, <1>2, <1>4, FiniteInduction, Zenon
<1>6. U \ {x} = S
  BY Zenon
<1>7. SumOver(f, U) = f[x] + SumOver(f, U \ {x})
  BY <1>5, Zenon DEF T
<1> QED
  BY <1>6, <1>7, Zenon

(* Changing one value changes the sum by as much.                           *)
LEMMA SumChange ==
  ASSUME NEW S, IsFiniteSet(S)
  PROVE  \A f, g \in [S -> Int], x \in S :
           (\A y \in S : y # x => g[y] = f[y]) => SumOver(g, S) = SumOver(f, S) - f[x] + g[x]
<1> SUFFICES ASSUME NEW f \in [S -> Int], NEW g \in [S -> Int], NEW x \in S,
                    \A y \in S : y # x => g[y] = f[y]
             PROVE  SumOver(g, S) = SumOver(f, S) - f[x] + g[x]
  BY Zenon
<1> DEFINE R == S \ {x}
<1>1. IsFiniteSet(R) /\ x \notin R /\ R \cup {x} = S
  BY FiniteSubset, Zenon
<1>2. \A y \in R \cup {x} : f[y] \in Int /\ g[y] \in Int
  BY Zenon
<1>3. \A y \in R : f[y] = g[y] /\ f[y] \in Int
  BY Zenon
<1> HIDE DEF R
<1>4. SumOver(f, S) = f[x] + SumOver(f, R) /\ SumOver(g, S) = g[x] + SumOver(g, R)
  BY <1>1, <1>2, SumAdd, Zenon
<1>5. SumOver(f, R) = SumOver(g, R)
  BY <1>1, <1>3, SumSame, Zenon
<1>6. SumOver(f, R) \in Int
  BY <1>1, <1>3, SumType, Zenon
<1> QED
  BY <1>4, <1>5, <1>6

-----------------------------------------------------------------------------
(* Parts of sequences.                                                      *)

(* A filter keeps the elements that are in S and no others, as often as     *)
(* they were there; it is shorter if something is left out.                 *)
LEMMA FilterFacts ==
  ASSUME NEW X, NEW s \in Seq(X), NEW S
  PROVE  /\ Filter(s, S) \in Seq(X \cap S) /\ Range(Filter(s, S)) = Range(s) \cap S
         /\ IsInjective(s) => IsInjective(Filter(s, S))
         /\ Len(Filter(s, S)) <= Len(s)
         /\ (\E x \in Range(s) : x \notin S) => Len(Filter(s, S)) < Len(s)
<1> DEFINE Kept(g, n) ==
             IF n = 0 THEN <<>> ELSE IF s[n] \in S THEN Append(g[n - 1], s[n]) ELSE g[n - 1]
           IsFilter(g, m) == g = [n \in 0 .. m |-> Kept(g, n)]
           KeepsIn(r, n) ==
             /\ r \in Seq(S)
             /\ \A i \in 1 .. Len(r) : \E j \in 1 .. n : r[i] = s[j]
             /\ \A j \in 1 .. n : s[j] \in S => \E i \in 1 .. Len(r) : r[i] = s[j]
             /\ Len(r) <= n
             /\ (\E j \in 1 .. n : s[j] \notin S) => Len(r) < n
             /\ (\A i, j \in 1 .. n : s[i] = s[j] => i = j) =>
                  \A i, j \in 1 .. Len(r) : r[i] = r[j] => i = j
<1> HIDE DEF Kept, IsFilter, KeepsIn
<1>1. \A m \in Nat : \E g : IsFilter(g, m)
  <2> DEFINE T == {m \in Nat : \E g : IsFilter(g, m)}
  <2>1. 0 \in T
    <3> DEFINE g == [n \in 0 .. 0 |-> <<>>]
    <3>1. \A n \in 0 .. 0 : Kept(g, n) = <<>>
      BY DEF Kept
    <3>2. IsFilter(g, 0)
      BY <3>1, Zenon DEF IsFilter
    <3> QED
      BY <3>2, Zenon
  <2>2. ASSUME NEW m \in Nat, m \in T PROVE m + 1 \in T
    <3>1. PICK g : IsFilter(g, m)
      BY <2>2, Zenon
    <3>2. g = [n \in 0 .. m |-> Kept(g, n)]
      BY <3>1, Zenon DEF IsFilter
    <3> DEFINE h == [n \in 0 .. m + 1 |-> IF n \in 0 .. m THEN g[n] ELSE Kept(g, n)]
    <3>3. ASSUME NEW n \in 0 .. m + 1 PROVE Kept(h, n) = Kept(g, n)
      <4>1. n # 0 => n - 1 \in 0 .. m /\ n - 1 \in 0 .. m + 1
        OBVIOUS
      <4>2. n # 0 => h[n - 1] = g[n - 1]
        BY <4>1, Zenon
      <4> HIDE DEF h
      <4> QED
        BY <4>2, Zenon DEF Kept
    <3>4. ASSUME NEW n \in 0 .. m + 1 PROVE h[n] = Kept(h, n)
      <4>1. CASE n \in 0 .. m
        <5>1. g[n] = Kept(g, n)
          BY <3>2, <4>1, Zenon
        <5>2. h[n] = g[n]
          BY <4>1, Zenon
        <5> HIDE DEF h
        <5> QED
          BY <3>3, <5>1, <5>2, Zenon
      <4>2. CASE n \notin 0 .. m
        <5>1. h[n] = Kept(g, n)
          BY <4>2, Zenon
        <5> HIDE DEF h
        <5> QED
          BY <3>3, <5>1, Zenon
      <4> QED
        BY <4>1, <4>2, Zenon
    <3>5. h = [n \in 0 .. m + 1 |-> h[n]]
      BY Zenon
    <3> HIDE DEF h
    <3>6. h = [n \in 0 .. m + 1 |-> Kept(h, n)]
      BY <3>4, <3>5, Zenon
    <3> QED
      BY <3>6 DEF IsFilter
  <2> HIDE DEF T
  <2>3. \A m \in Nat : m \in T
    BY <2>1, <2>2, NatSetInduction, Zenon
  <2> QED
    BY <2>3, Zenon DEF T
<1>2. PICK g : IsFilter(g, Len(s)) /\ Filter(s, S) = g[Len(s)]
  <2> DEFINE g == CHOOSE g : g = [n \in 0 .. Len(s) |->
                    IF n = 0 THEN <<>> ELSE IF s[n] \in S THEN Append(g[n - 1], s[n]) ELSE g[n - 1]]
  <2>1. Filter(s, S) = g[Len(s)]
    BY Zenon DEF Filter
  <2>2. \E h : h = [n \in 0 .. Len(s) |->
                    IF n = 0 THEN <<>> ELSE IF s[n] \in S THEN Append(h[n - 1], s[n]) ELSE h[n - 1]]
    <3>1. PICK h : IsFilter(h, Len(s))
      BY <1>1
    <3>2. h = [n \in 0 .. Len(s) |->
             IF n = 0 THEN <<>> ELSE IF s[n] \in S THEN Append(h[n - 1], s[n]) ELSE h[n - 1]]
      BY <3>1, Zenon DEF IsFilter, Kept
    <3> QED
      BY <3>2, Zenon
  <2>3. IsFilter(g, Len(s))
    BY <2>2, Zenon DEF IsFilter, Kept
  <2> QED
    BY <2>1, <2>3, Zenon
<1>3. ASSUME NEW n \in Nat, NEW r, KeepsIn(r, n), NEW q,
             q = IF s[n + 1] \in S THEN Append(r, s[n + 1]) ELSE r
      PROVE  KeepsIn(q, n + 1)
  <2>1. /\ r \in Seq(S) /\ Len(r) \in Nat /\ Len(r) <= n
        /\ \A i \in 1 .. Len(r) : \E j \in 1 .. n : r[i] = s[j]
        /\ \A j \in 1 .. n : s[j] \in S => \E i \in 1 .. Len(r) : r[i] = s[j]
        /\ (\E j \in 1 .. n : s[j] \notin S) => Len(r) < n
        /\ (\A i, j \in 1 .. n : s[i] = s[j] => i = j) =>
             \A i, j \in 1 .. Len(r) : r[i] = r[j] => i = j
    BY <1>3 DEF KeepsIn
  <2>2. CASE s[n + 1] \in S
    <3>1. /\ q \in Seq(S) /\ Len(q) = Len(r) + 1 /\ q[Len(r) + 1] = s[n + 1]
          /\ \A i \in 1 .. Len(r) : q[i] = r[i]
      BY <1>3, <2>1, <2>2
    <3>2. \A i \in 1 .. Len(q) : \E j \in 1 .. n + 1 : q[i] = s[j]
      <4> SUFFICES ASSUME NEW i \in 1 .. Len(q) PROVE \E j \in 1 .. n + 1 : q[i] = s[j]
        BY Zenon
      <4>1. CASE i = Len(q)
        BY <2>1, <3>1, <4>1
      <4>2. CASE i # Len(q)
        <5>1. i \in 1 .. Len(r)
          BY <2>1, <3>1, <4>2
        <5>2. PICK j \in 1 .. n : r[i] = s[j]
          BY <2>1, <5>1, Zenon
        <5> QED
          BY <3>1, <5>1, <5>2
      <4> QED
        BY <4>1, <4>2, Zenon
    <3>3. \A j \in 1 .. n + 1 : s[j] \in S => \E i \in 1 .. Len(q) : q[i] = s[j]
      <4> SUFFICES ASSUME NEW j \in 1 .. n + 1, s[j] \in S PROVE \E i \in 1 .. Len(q) : q[i] = s[j]
        BY Zenon
      <4>1. CASE j = n + 1
        BY <2>1, <3>1, <4>1
      <4>2. CASE j # n + 1
        <5>1. j \in 1 .. n /\ s[j] \in S
          BY <4>2
        <5>2. PICK i \in 1 .. Len(r) : r[i] = s[j]
          BY <2>1, <5>1, Zenon
        <5>3. i \in 1 .. Len(q) /\ q[i] = s[j]
          BY <2>1, <3>1, <5>2
        <5> QED
          BY <5>3, Zenon
      <4> QED
        BY <4>1, <4>2, Zenon
    <3>4. Len(q) <= n + 1
      BY <2>1, <3>1
    <3>5. (\E j \in 1 .. n + 1 : s[j] \notin S) => Len(q) < n + 1
      <4> SUFFICES ASSUME NEW j \in 1 .. n + 1, s[j] \notin S PROVE Len(q) < n + 1
        BY Zenon
      <4>1. j \in 1 .. n
        BY <2>2
      <4> QED
        BY <2>1, <3>1, <4>1
    <3>6. ASSUME \A i, j \in 1 .. n + 1 : s[i] = s[j] => i = j, NEW i \in 1 .. Len(q), NEW j \in 1 .. Len(q),
                 q[i] = q[j]
          PROVE  i = j
      <4>1. \A k \in 1 .. Len(r) : r[k] # s[n + 1]
        <5> SUFFICES ASSUME NEW k \in 1 .. Len(r) PROVE r[k] # s[n + 1]
          BY Zenon
        <5>1. PICK m \in 1 .. n : r[k] = s[m]
          BY <2>1, Zenon
        <5>2. m \in 1 .. n + 1 /\ n + 1 \in 1 .. n + 1 /\ m # n + 1
          OBVIOUS
        <5> QED
          BY <3>6, <5>1, <5>2, Zenon
      <4>2. \A k, m \in 1 .. Len(r) : r[k] = r[m] => k = m
        <5>1. \A k, m \in 1 .. n : s[k] = s[m] => k = m
          BY <3>6
        <5> QED
          BY <2>1, <5>1, Zenon
      <4>3. \A k \in 1 .. Len(q) : k # Len(q) => k \in 1 .. Len(r)
        BY <2>1, <3>1
      <4> QED
        BY <2>1, <3>1, <3>6, <4>1, <4>2, <4>3
    <3> QED
      BY <3>1, <3>2, <3>3, <3>4, <3>5, <3>6, Zenon DEF KeepsIn
  <2>3. CASE s[n + 1] \notin S
    <3>1. q = r
      BY <1>3, <2>3, Zenon
    <3>2. \A i \in 1 .. Len(r) : \E j \in 1 .. n + 1 : r[i] = s[j]
      BY <2>1
    <3>3. \A j \in 1 .. n + 1 : s[j] \in S => \E i \in 1 .. Len(r) : r[i] = s[j]
      <4>1. \A j \in 1 .. n + 1 : s[j] \in S => j \in 1 .. n
        BY <2>3
      <4> QED
        BY <2>1, <4>1, Zenon
    <3>4. Len(r) <= n + 1 /\ Len(r) < n + 1
      BY <2>1
    <3>5. (\A i, j \in 1 .. n + 1 : s[i] = s[j] => i = j) =>
            \A i, j \in 1 .. Len(r) : r[i] = r[j] => i = j
      <4>1. \A i \in 1 .. n : i \in 1 .. n + 1
        OBVIOUS
      <4> QED
        BY <2>1, <4>1, Zenon
    <3> QED
      BY <2>1, <3>1, <3>2, <3>3, <3>4, <3>5, Zenon DEF KeepsIn
  <2> QED
    BY <2>2, <2>3, Zenon
<1>4. KeepsIn(Filter(s, S), Len(s))
  <2>1. \A n \in 0 .. Len(s) : g[n] = Kept(g, n)
    BY <1>2, Zenon DEF IsFilter
  <2> DEFINE T == {n \in Nat : n <= Len(s) => KeepsIn(g[n], n)}
  <2>2. 0 \in T
    <3>1. g[0] = <<>>
      BY <2>1 DEF Kept
    <3>2. KeepsIn(<<>>, 0)
      BY DEF KeepsIn
    <3> QED
      BY <3>1, <3>2, Zenon
  <2>3. ASSUME NEW n \in Nat, n \in T PROVE n + 1 \in T
    <3> SUFFICES ASSUME n + 1 <= Len(s) PROVE KeepsIn(g[n + 1], n + 1)
      OBVIOUS
    <3>1. n + 1 \in 0 .. Len(s) /\ n + 1 # 0 /\ (n + 1) - 1 = n /\ n <= Len(s)
      OBVIOUS
    <3>2. g[n + 1] = IF s[n + 1] \in S THEN Append(g[n], s[n + 1]) ELSE g[n]
      BY <2>1, <3>1, Zenon DEF Kept
    <3>3. KeepsIn(g[n], n)
      BY <2>3, <3>1, Zenon
    <3> HIDE DEF T
    <3> QED
      BY <3>2, <3>3, <1>3, Zenon
  <2> HIDE DEF T
  <2>4. Len(s) \in T
    BY <2>2, <2>3, NatSetInduction
  <2> QED
    BY <1>2, <2>4 DEF T
<1> DEFINE r == Filter(s, S)
<1> HIDE DEF r
<1>5. /\ r \in Seq(S) /\ Len(r) <= Len(s)
      /\ \A i \in 1 .. Len(r) : \E j \in 1 .. Len(s) : r[i] = s[j]
      /\ \A j \in 1 .. Len(s) : s[j] \in S => \E i \in 1 .. Len(r) : r[i] = s[j]
      /\ (\E j \in 1 .. Len(s) : s[j] \notin S) => Len(r) < Len(s)
      /\ (\A i, j \in 1 .. Len(s) : s[i] = s[j] => i = j) =>
           \A i, j \in 1 .. Len(r) : r[i] = r[j] => i = j
  BY <1>4, Zenon DEF KeepsIn, r
<1>6. /\ DOMAIN r = 1 .. Len(r) /\ \A i \in 1 .. Len(r) : r[i] \in S
      /\ DOMAIN s = 1 .. Len(s) /\ \A j \in 1 .. Len(s) : s[j] \in X
  BY <1>5
<1>7. Range(r) = Range(s) \cap S
  <2>1. ASSUME NEW x \in Range(r) PROVE x \in Range(s) \cap S
    <3>1. PICK i \in 1 .. Len(r) : x = r[i]
      BY <1>6, Zenon DEF Range
    <3> QED
      BY <1>5, <1>6, <3>1, Zenon DEF Range
  <2>2. ASSUME NEW x \in Range(s), x \in S PROVE x \in Range(r)
    <3>1. PICK j \in 1 .. Len(s) : x = s[j]
      BY <1>6, Zenon DEF Range
    <3> QED
      BY <1>5, <1>6, <2>2, <3>1, Zenon DEF Range
  <2> QED
    BY <2>1, <2>2, Zenon
<1>8. r \in Seq(X \cap S)
  <2>1. \A i \in 1 .. Len(r) : r[i] \in X \cap S
    BY <1>5, <1>6, Zenon
  <2> QED
    BY <1>5, <2>1
<1>9. IsInjective(s) => IsInjective(r)
  BY <1>5, <1>6, Zenon DEF IsInjective
<1>10. (\E x \in Range(s) : x \notin S) => Len(r) < Len(s)
  BY <1>5, <1>6, Zenon DEF Range
<1> QED
  BY <1>5, <1>7, <1>8, <1>9, <1>10, Zenon DEF r

(* The head and the tail of a sequence, one without repetitions too.        *)
LEMMA HeadTail ==
  ASSUME NEW X, NEW s \in Seq(X), s # <<>>
  PROVE  /\ Head(s) \in X /\ Head(s) \in Range(s) /\ Tail(s) \in Seq(X)
         /\ Range(s) = {Head(s)} \cup Range(Tail(s))
         /\ IsInjective(s) => IsInjective(Tail(s)) /\ Head(s) \notin Range(Tail(s))
<1>1. /\ DOMAIN s = 1 .. Len(s) /\ Len(s) \in Nat \ {0} /\ Head(s) = s[1]
      /\ Tail(s) \in Seq(X) /\ Len(Tail(s)) = Len(s) - 1
      /\ \A i \in 1 .. Len(Tail(s)) : Tail(s)[i] = s[i + 1]
  OBVIOUS
<1>2. DOMAIN Tail(s) = 1 .. Len(Tail(s))
  BY <1>1
<1>3. Head(s) \in X /\ Head(s) \in Range(s)
  BY <1>1 DEF Range
<1>4. \A i \in 1 .. Len(Tail(s)) : i + 1 \in 1 .. Len(s) /\ i + 1 # 1
  BY <1>1
<1>5. Range(s) = {Head(s)} \cup Range(Tail(s))
  <2>1. ASSUME NEW i \in 1 .. Len(s), i # 1 PROVE s[i] \in Range(Tail(s))
    <3>1. i - 1 \in 1 .. Len(Tail(s)) /\ (i - 1) + 1 = i
      BY <1>1, <2>1
    <3>2. Tail(s)[i - 1] = s[i]
      BY <1>1, <3>1, Zenon
    <3> QED
      BY <1>2, <3>1, <3>2, Zenon DEF Range
  <2>2. Range(s) \subseteq {Head(s)} \cup Range(Tail(s))
    BY <1>1, <2>1, Zenon DEF Range
  <2>3. Range(Tail(s)) \subseteq Range(s)
    BY <1>1, <1>2, <1>4 DEF Range
  <2> QED
    BY <1>3, <2>2, <2>3, Zenon
<1>6. ASSUME IsInjective(s) PROVE IsInjective(Tail(s)) /\ Head(s) \notin Range(Tail(s))
  <2>1. \A i, j \in 1 .. Len(s) : s[i] = s[j] => i = j
    BY <1>1, <1>6, Zenon DEF IsInjective
  <2>2. ASSUME NEW i \in 1 .. Len(Tail(s)), NEW j \in 1 .. Len(Tail(s)), Tail(s)[i] = Tail(s)[j]
        PROVE  i = j
    <3>1. i + 1 = j + 1
      BY <1>1, <1>4, <2>1, <2>2
    <3> QED
      BY <3>1
  <2>3. ASSUME NEW i \in 1 .. Len(Tail(s)) PROVE Tail(s)[i] # s[1]
    <3>1. 1 \in 1 .. Len(s)
      BY <1>1
    <3> QED
      BY <1>1, <1>4, <2>1, <3>1, Zenon
  <2> QED
    BY <1>1, <1>2, <2>2, <2>3, Zenon DEF IsInjective, Range
<1> QED
  BY <1>1, <1>3, <1>5, <1>6, Zenon

(* What two sequences one after the other hold, and when they hold it once. *)
LEMMA ConcatFacts ==
  ASSUME NEW X, NEW s \in Seq(X), NEW t \in Seq(X)
  PROVE  /\ s \o t \in Seq(X) /\ Range(s \o t) = Range(s) \cup Range(t)
         /\ IsInjective(s \o t) <=>
              IsInjective(s) /\ IsInjective(t) /\ Range(s) \cap Range(t) = {}
<1> DEFINE m == Len(s)
           n == Len(t)
           u == s \o t
<1>1. /\ m \in Nat /\ n \in Nat /\ DOMAIN s = 1 .. m /\ DOMAIN t = 1 .. n
      /\ u \in Seq(X) /\ Len(u) = m + n
      /\ \A i \in 1 .. m : u[i] = s[i]
      /\ \A i \in 1 .. n : u[m + i] = t[i]
  OBVIOUS
<1>2. DOMAIN u = 1 .. (m + n)
  BY <1>1
<1> HIDE DEF m, n, u
<1>3. /\ \A i \in 1 .. m : i \in 1 .. (m + n)
      /\ \A i \in 1 .. n : m + i \in 1 .. (m + n)
      /\ \A i \in 1 .. (m + n) : i \in 1 .. m \/ \E j \in 1 .. n : i = m + j
  <2>1. ASSUME NEW i \in 1 .. (m + n), i \notin 1 .. m PROVE i - m \in 1 .. n /\ i = m + (i - m)
    BY <1>1, <2>1
  <2> QED
    BY <1>1, <2>1
<1>4. Range(u) = Range(s) \cup Range(t)
  <2>1. ASSUME NEW i \in 1 .. (m + n) PROVE u[i] \in Range(s) \cup Range(t)
    <3>1. CASE i \in 1 .. m
      BY <1>1, <3>1, Zenon DEF Range
    <3>2. ASSUME NEW j \in 1 .. n, i = m + j PROVE u[i] \in Range(t)
      BY <1>1, <3>2, Zenon DEF Range
    <3> QED
      BY <1>3, <3>1, <3>2, Zenon
  <2>2. Range(s) \subseteq Range(u)
    BY <1>1, <1>2, <1>3, Zenon DEF Range
  <2>3. ASSUME NEW j \in 1 .. n PROVE t[j] \in Range(u)
    <3>1. u[m + j] = t[j] /\ m + j \in DOMAIN u
      BY <1>1, <1>2, <1>3, Zenon
    <3> QED
      BY <3>1, Zenon DEF Range
  <2>4. Range(u) \subseteq Range(s) \cup Range(t)
    BY <1>2, <2>1, Zenon DEF Range
  <2>5. Range(t) \subseteq Range(u)
    BY <1>1, <2>3, Zenon DEF Range
  <2> QED
    BY <2>2, <2>4, <2>5, Zenon
<1>5. ASSUME IsInjective(u)
      PROVE  IsInjective(s) /\ IsInjective(t) /\ Range(s) \cap Range(t) = {}
  <2>1. \A i, j \in 1 .. (m + n) : u[i] = u[j] => i = j
    BY <1>2, <1>5, Zenon DEF IsInjective
  <2>2. IsInjective(s)
    BY <1>1, <1>3, <2>1, Zenon DEF IsInjective
  <2>3. ASSUME NEW i \in 1 .. n, NEW j \in 1 .. n, t[i] = t[j] PROVE i = j
    <3>1. m + i = m + j
      BY <1>1, <1>3, <2>1, <2>3
    <3> QED
      BY <1>1, <3>1
  <2>4. ASSUME NEW i \in 1 .. m, NEW j \in 1 .. n, s[i] = t[j] PROVE FALSE
    <3>1. i = m + j
      BY <1>1, <1>3, <2>1, <2>4, Zenon
    <3> QED
      BY <1>1, <3>1
  <2> QED
    BY <1>1, <2>2, <2>3, <2>4 DEF IsInjective, Range
<1>6. ASSUME IsInjective(s), IsInjective(t), Range(s) \cap Range(t) = {}
      PROVE  IsInjective(u)
  <2>1. /\ \A i, j \in 1 .. m : s[i] = s[j] => i = j
        /\ \A i, j \in 1 .. n : t[i] = t[j] => i = j
    BY <1>1, <1>6, Zenon DEF IsInjective
  <2>0. \A i \in 1 .. m, j \in 1 .. n : s[i] # t[j]
    <3>1. \A i \in 1 .. m : s[i] \in Range(s)
      BY <1>1, Zenon DEF Range
    <3>2. \A j \in 1 .. n : t[j] \in Range(t)
      BY <1>1, Zenon DEF Range
    <3> QED
      BY <1>6, <3>1, <3>2, Zenon
  <2> SUFFICES ASSUME NEW i \in 1 .. (m + n), NEW j \in 1 .. (m + n), u[i] = u[j] PROVE i = j
    BY <1>2, Zenon DEF IsInjective
  <2>2. CASE i \in 1 .. m /\ j \in 1 .. m
    BY <1>1, <2>1, <2>2, Zenon
  <2>3. ASSUME NEW k \in 1 .. n, NEW l \in 1 .. n, i = m + k, j = m + l PROVE i = j
    <3>1. u[i] = t[k] /\ u[j] = t[l]
      BY <1>1, <2>3, Zenon
    <3>2. k = l
      BY <2>1, <3>1, Zenon
    <3> QED
      BY <2>3, <3>2, Zenon
  <2>4. ASSUME NEW k \in 1 .. n, (i \in 1 .. m /\ j = m + k) \/ (j \in 1 .. m /\ i = m + k) PROVE FALSE
    <3>1. u[m + k] = t[k]
      BY <1>1, Zenon
    <3>2. \A x \in 1 .. m : u[x] = s[x] /\ s[x] # t[k]
      BY <1>1, <2>0, Zenon
    <3> QED
      BY <2>4, <3>1, <3>2, Zenon
  <2> QED
    BY <1>3, <2>2, <2>3, <2>4, Zenon
<1> QED
  BY <1>1, <1>4, <1>5, <1>6, Zenon DEF u

(* A sequence cut in two is the two parts one after the other.              *)
LEMMA CutFacts ==
  ASSUME NEW X, NEW s \in Seq(X), NEW n \in 0 .. Len(s)
  PROVE  /\ SubSeq(s, 1, n) \in Seq(X) /\ SubSeq(s, n + 1, Len(s)) \in Seq(X)
         /\ SubSeq(s, 1, n) \o SubSeq(s, n + 1, Len(s)) = s
<1> DEFINE a == SubSeq(s, 1, n)
           b == SubSeq(s, n + 1, Len(s))
<1>1. /\ Len(s) \in Nat /\ s = [i \in 1 .. Len(s) |-> s[i]]
      /\ \A i \in 1 .. Len(s) : s[i] \in X
  OBVIOUS
<1>2. a \in Seq(X) /\ Len(a) = n /\ \A i \in 1 .. n : a[i] = s[i]
  BY <1>1
<1>3. b \in Seq(X) /\ Len(b) = Len(s) - n /\ \A i \in 1 .. Len(s) - n : b[i] = s[n + i]
  BY <1>1
<1> HIDE DEF a, b
<1>4. a \o b \in Seq(X) /\ Len(a \o b) = Len(s)
  <2>0. a \in Seq(X) /\ b \in Seq(X)
    BY <1>2, <1>3, Zenon
  <2>1. a \o b \in Seq(X) /\ Len(a \o b) = Len(a) + Len(b)
    BY ONLY <2>0
  <2> QED
    BY <1>1, <1>2, <1>3, <2>1
<1>5. ASSUME NEW i \in 1 .. Len(s) PROVE (a \o b)[i] = s[i]
  <2>1. CASE i \in 1 .. n
    BY <1>1, <1>2, <1>3, <2>1
  <2>2. CASE i \notin 1 .. n
    <3>1. i - n \in 1 .. Len(s) - n /\ n + (i - n) = i
      BY <1>1, <2>2
    <3>2. b[i - n] = s[i]
      BY <1>3, <3>1, Zenon
    <3> QED
      BY <1>1, <1>2, <1>3, <2>2, <3>1, <3>2
  <2> QED
    BY <2>1, <2>2, Zenon
<1>6. a \o b = s
  <2>0. \A q \in Seq(X) : q = [i \in 1 .. Len(q) |-> q[i]]
    OBVIOUS
  <2>1. a \o b = [i \in 1 .. Len(s) |-> (a \o b)[i]]
    BY <1>4, <2>0, Zenon
  <2>2. [i \in 1 .. Len(s) |-> (a \o b)[i]] = [i \in 1 .. Len(s) |-> s[i]]
    BY <1>5, Zenon
  <2> QED
    BY <1>1, <2>1, <2>2, Zenon
<1> QED
  BY <1>2, <1>3, <1>6, Zenon DEF a, b
=============================================================================
