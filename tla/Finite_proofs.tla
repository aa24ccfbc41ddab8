--------------------------- MODULE Finite_proofs ---------------------------
(***************************************************************************)
(* What the proofs need to know of finite data: the orders in which a bulk *)
(* statement or a list goes through a finite set of rows, and sums over    *)
(* such sets; of the cycles in a relation, which are what deadlocks are;   *)
(* and of the pieces of which a sequence is put together.                  *)
(***************************************************************************)
EXTENDS Integers, Sequences, FiniteSets, SequencesExt, FiniteSetTheorems,
        WellFoundedInduction, TLAPS

(***************************************************************************)
(* An order of a finite set is a sequence of its elements that leaves none *)
(* out.                                                                    *)
(***************************************************************************)
LEMMA OrderCoversSet ==
  ASSUME NEW S, IsFiniteSet(S), NEW s \in SetToSeqs(S)
  PROVE  /\ s \in Seq(S)
         /\ \A x \in S : \E i \in 1 .. Len(s) : s[i] = x
<1> DEFINE n == Cardinality(S)
           D == 1 .. n
<1>1. n \in Nat
  BY FS_CardinalityType
<1>2. s \in [D -> S] /\ \A i, j \in D : i # j => s[i] # s[j]
  BY DEF SetToSeqs
<1>3. IsFiniteSet(D) /\ Cardinality(D) = n
  BY <1>1, FS_Interval
<1>4. s \in Injection(D, S)
  BY <1>2 DEF Injection, IsInjective
<1>5. s \in Surjection(D, S)
  BY <1>3, <1>4, FS_Injection
<1>6. s \in Seq(S) /\ Len(s) = n
  BY <1>1, <1>2
<1> QED
  BY <1>5, <1>6 DEF Surjection

(***************************************************************************)
(* Whoever goes on to the tail of a sequence has only dealt with its head. *)
(***************************************************************************)
LEMMA HeadOrTail ==
  ASSUME NEW S, NEW s \in Seq(S), s # << >>
  PROVE  /\ Head(s) \in S
         /\ Tail(s) \in Seq(S)
         /\ \A i \in 1 .. Len(s) : s[i] = Head(s) \/ \E j \in 1 .. Len(Tail(s)) : Tail(s)[j] = s[i]
         /\ \A j \in 1 .. Len(Tail(s)) : \E i \in 1 .. Len(s) : Tail(s)[j] = s[i]
<1>1. Head(s) = s[1] /\ Len(s) \in Nat \ {0} /\ Tail(s) \in Seq(S) /\ Len(Tail(s)) = Len(s) - 1
  OBVIOUS
<1>2. \A j \in 1 .. Len(Tail(s)) : Tail(s)[j] = s[j + 1]
  OBVIOUS
<1>3. Head(s) \in S
  BY <1>1
<1>4. ASSUME NEW i \in 1 .. Len(s)
      PROVE  s[i] = Head(s) \/ \E j \in 1 .. Len(Tail(s)) : Tail(s)[j] = s[i]
  <2>1. CASE i = 1
    BY <1>1, <2>1
  <2>2. CASE i # 1
    <3>1. i - 1 \in 1 .. Len(Tail(s)) /\ (i - 1) + 1 = i
      BY <1>1, <2>2
    <3> QED
      BY <1>2, <3>1
  <2> QED
    BY <2>1, <2>2
<1>5. ASSUME NEW j \in 1 .. Len(Tail(s))
      PROVE  \E i \in 1 .. Len(s) : Tail(s)[j] = s[i]
  <2>1. j + 1 \in 1 .. Len(s)
    BY <1>1
  <2> QED
    BY <1>2, <2>1
<1> QED
  BY <1>1, <1>3, <1>4, <1>5

-----------------------------------------------------------------------------
(***************************************************************************)
(* Induction.  The library states it for an operator, which the provers    *)
(* cannot instantiate; for a set of numbers it follows from the theorem    *)
(* that a set of natural numbers, unless empty, has a least element.       *)
(***************************************************************************)
LEMMA CountingUp ==
  ASSUME NEW T, 0 \in T, \A n \in Nat : n \in T => n + 1 \in T
  PROVE  \A n \in Nat : n \in T
<1> DEFINE R == OpToRel(<, Nat)  F == Nat \ T
<1> SUFFICES ASSUME F # {}  PROVE FALSE
  OBVIOUS
<1>1. IsWellFoundedOn(R, Nat) /\ F \subseteq Nat
  BY NatLessThanWellFounded
<1> HIDE DEF R
<1>2. PICK x \in F : \A y \in F : ~ (<<y, x>> \in R)
  BY <1>1, WFMin
<1>3. x \in Nat /\ x # 0 /\ x - 1 \in Nat /\ x - 1 \notin F /\ (x - 1) + 1 = x
  <2>1. x \in Nat /\ x # 0
    OBVIOUS
  <2>2. x - 1 \in Nat /\ x - 1 < x /\ (x - 1) + 1 = x
    BY <2>1
  <2>3. <<x - 1, x>> \in R
    BY <2>1, <2>2 DEF R, OpToRel
  <2> QED BY <1>2, <2>1, <2>2, <2>3
<1> QED BY <1>3

-----------------------------------------------------------------------------
(***************************************************************************)
(* Sums.  MapThenFoldSet of module Folds is a function on the subsets of   *)
(* its set, defined by recursion, and TLA+ gives it a meaning by CHOOSE.   *)
(* So it has to be shown that a function with the recursion exists. Sums   *)
(* says that h is one, for the sum of the values of f.                     *)
(***************************************************************************)
Chosen(s) == CHOOSE x \in s : TRUE
Sums(h, f, S) == h = [s \in SUBSET S |-> IF s = {} THEN 0 ELSE f[Chosen(s)] + h[s \ {Chosen(s)}]]

LEMMA SumsExist ==
  ASSUME NEW S, IsFiniteSet(S), NEW f
  PROVE  \E h : Sums(h, f, S)
<1> DEFINE U(n) == {s \in SUBSET S : Cardinality(s) <= n}
           I(h, n) == \A s \in U(n) : h[s] = IF s = {} THEN 0 ELSE f[Chosen(s)] + h[s \ {Chosen(s)}]
           T == {n \in Nat : \E h : I(h, n)}
<1>0. \A s \in SUBSET S : IsFiniteSet(s) /\ Cardinality(s) \in Nat /\ Cardinality(s) <= Cardinality(S)
  BY FS_Subset, FS_CardinalityType
<1>1. \A s \in SUBSET S : s # {} => /\ Chosen(s) \in s /\ s \ {Chosen(s)} \in SUBSET S
                                    /\ Cardinality(s \ {Chosen(s)}) = Cardinality(s) - 1
  BY <1>0, FS_RemoveElement DEF Chosen
<1>2. 0 \in T
  <2> DEFINE h == [s \in U(0) |-> 0]
  <2>1. \A s \in U(0) : s = {}
    BY <1>0, FS_EmptySet
  <2>2. I(h, 0)
    BY <2>1
  <2> QED BY <2>2
<1>3. ASSUME NEW n \in Nat, n \in T
      PROVE  n + 1 \in T
  <2>1. PICK h : I(h, n)
    BY <1>3
  <2> DEFINE g == [s \in U(n + 1) |-> IF s = {} THEN 0 ELSE f[Chosen(s)] + h[s \ {Chosen(s)}]]
  <2>2. \A s \in U(n) : s \in U(n + 1) /\ g[s] = h[s]
    <3>1. \A s \in U(n) : s \in U(n + 1)
      BY <1>0
    <3>2. \A s \in U(n) : h[s] = IF s = {} THEN 0 ELSE f[Chosen(s)] + h[s \ {Chosen(s)}]
      BY <2>1
    <3>3. \A s \in U(n + 1) : g[s] = IF s = {} THEN 0 ELSE f[Chosen(s)] + h[s \ {Chosen(s)}]
      OBVIOUS
    <3> HIDE DEF U, g
    <3> QED BY <3>1, <3>2, <3>3
  <2>3. \A s \in U(n + 1) : s # {} => s \ {Chosen(s)} \in U(n)
    BY <1>0, <1>1
  <2>4. \A s \in U(n + 1) : s # {} => g[s \ {Chosen(s)}] = h[s \ {Chosen(s)}]
    BY <2>2, <2>3
  <2>5. I(g, n + 1)
    BY <2>4
  <2> HIDE DEF g
  <2>6. \E k : I(k, n + 1)
    BY <2>5
  <2>7. n + 1 \in Nat
    OBVIOUS
  <2> HIDE DEF I
  <2> QED BY <2>6, <2>7
<1>4. Cardinality(S) \in T
  <2>1. \A n \in Nat : n \in T
    <3> HIDE DEF T
    <3> QED BY <1>2, <1>3, CountingUp
  <2> QED BY <1>0, <2>1
<1>5. U(Cardinality(S)) = SUBSET S
  BY <1>0
<1>6. PICK h : I(h, Cardinality(S))
  BY <1>4
<1>7. \A s \in SUBSET S : h[s] = IF s = {} THEN 0 ELSE f[Chosen(s)] + h[s \ {Chosen(s)}]
  BY <1>5, <1>6
<1> DEFINE k == [s \in SUBSET S |-> h[s]]
<1>8. \A s \in SUBSET S : s # {} => k[s \ {Chosen(s)}] = h[s \ {Chosen(s)}]
  BY <1>1
<1>9. k = [s \in SUBSET S |-> IF s = {} THEN 0 ELSE f[Chosen(s)] + k[s \ {Chosen(s)}]]
  BY <1>7, <1>8
<1> HIDE DEF k
<1> QED BY <1>9 DEF Sums

(***************************************************************************)
(* Induction over the subsets of a finite set, again for a set and not for *)
(* an operator.                                                            *)
(***************************************************************************)
LEMMA SumsInduction ==
  ASSUME NEW S, IsFiniteSet(S), NEW P,
         \A s \in SUBSET S : (\A x \in s : s \ {x} \in P) => s \in P
  PROVE  SUBSET S \subseteq P
<1> DEFINE T == {n \in Nat : \A s \in SUBSET S : Cardinality(s) = n => s \in P}
<1>0. \A s \in SUBSET S : IsFiniteSet(s) /\ Cardinality(s) \in Nat
  BY FS_Subset, FS_CardinalityType
<1>1. 0 \in T
  <2>1. \A s \in SUBSET S : Cardinality(s) = 0 => s = {}
    BY <1>0, FS_EmptySet
  <2> QED BY <2>1
<1>2. ASSUME NEW n \in Nat, n \in T
      PROVE  n + 1 \in T
  <2>1. SUFFICES ASSUME NEW s \in SUBSET S, Cardinality(s) = n + 1
                 PROVE  s \in P
    OBVIOUS
  <2>2. ASSUME NEW x \in s
        PROVE  Cardinality(s \ {x}) = n /\ s \ {x} \in SUBSET S
    <3>1. IsFiniteSet(s)
      BY <1>0
    <3>2. Cardinality(s \ {x}) = Cardinality(s) - 1
      BY <3>1, FS_RemoveElement
    <3> QED BY <2>1, <3>2
  <2> QED BY <1>2, <2>2
<1> HIDE DEF T
<1>3. \A n \in Nat : n \in T
  BY <1>1, <1>2, CountingUp
<1> QED BY <1>0, <1>3 DEF T

(***************************************************************************)
(* What such a function is worth: a sum of integers is one, and does not   *)
(* depend on the order in which the elements are chosen.                   *)
(***************************************************************************)
LEMMA SumsTyped ==
  ASSUME NEW S, IsFiniteSet(S), NEW f, \A x \in S : f[x] \in Int, NEW h, Sums(h, f, S)
  PROVE  \A s \in SUBSET S : h[s] \in Int
<1> DEFINE P == {s \in SUBSET S : h[s] \in Int}
<1>1. ASSUME NEW s \in SUBSET S, \A x \in s : s \ {x} \in P
      PROVE  s \in P
  <2>1. h[s] = IF s = {} THEN 0 ELSE f[Chosen(s)] + h[s \ {Chosen(s)}]
    BY DEF Sums
  <2>2. CASE s = {}
    BY <2>1, <2>2
  <2>3. CASE s # {}
    <3> DEFINE c == Chosen(s)
    <3>1. c \in s
      BY <2>3 DEF Chosen
    <3>2. h[s] = f[c] + h[s \ {c}]
      BY <2>1, <2>3
    <3> HIDE DEF c
    <3>3. f[c] \in Int /\ h[s \ {c}] \in Int
      BY <1>1, <3>1
    <3> QED BY <3>2, <3>3
  <2> QED BY <2>2, <2>3
<1> HIDE DEF P
<1>2. SUBSET S \subseteq P
  BY <1>1, SumsInduction
<1> QED BY <1>2 DEF P

LEMMA SumsInAnyOrder ==
  ASSUME NEW S, IsFiniteSet(S), NEW f, \A x \in S : f[x] \in Int, NEW h, Sums(h, f, S)
  PROVE  \A s \in SUBSET S : \A x \in s : h[s] = f[x] + h[s \ {x}]
<1> DEFINE P == {s \in SUBSET S : \A x \in s : h[s] = f[x] + h[s \ {x}]}
<1>0. \A s \in SUBSET S : h[s] \in Int
  BY SumsTyped
<1>1. ASSUME NEW s \in SUBSET S, \A x \in s : s \ {x} \in P
      PROVE  s \in P
  <2>0. SUFFICES ASSUME NEW x \in s PROVE h[s] = f[x] + h[s \ {x}]
    OBVIOUS
  <2> DEFINE c == Chosen(s)
  <2>1. c \in s
    BY DEF Chosen
  <2>2. h[s] = f[c] + h[s \ {c}]
    BY DEF Sums
  <2> HIDE DEF c
  <2>3. CASE x = c
    BY <2>2, <2>3
  <2>4. CASE x # c
    <3> DEFINE d == s \ {c}  e == s \ {x}  w == d \ {x}
    <3>1. x \in d /\ c \in e /\ e \ {c} = w /\ d \in P /\ e \in P
      BY <1>1, <2>1, <2>4
    <3>2. {d, e, w} \subseteq SUBSET S
      OBVIOUS
    <3> HIDE DEF d, e, w
    <3>3. h[d] = f[x] + h[d \ {x}] /\ h[e] = f[c] + h[e \ {c}]
      BY <3>1
    <3>4. h[d] = f[x] + h[w] /\ h[e] = f[c] + h[w]
      BY <3>1, <3>3 DEF w
    <3>5. f[x] \in Int /\ f[c] \in Int /\ h[w] \in Int
      BY <1>0, <2>1, <3>2
    <3>6. h[s] = f[c] + h[d]
      BY <2>2 DEF d
    <3>7. h[s] = f[x] + h[e]
      BY <3>4, <3>5, <3>6
    <3> QED BY <3>7 DEF e
  <2> QED BY <2>3, <2>4
<1> HIDE DEF P
<1>2. SUBSET S \subseteq P
  BY <1>1, SumsInduction
<1> QED BY <1>2 DEF P

(***************************************************************************)
(* Two functions that sum the same values agree.                           *)
(***************************************************************************)
LEMMA SumsAgree ==
  ASSUME NEW S, NEW T, NEW A \in SUBSET (S \cap T), IsFiniteSet(A), NEW f, NEW g,
         \A x \in A : f[x] = g[x], NEW h, NEW k, Sums(h, f, S), Sums(k, g, T)
  PROVE  h[A] = k[A]
<1> DEFINE P == {s \in SUBSET A : h[s] = k[s]}
<1>0. \A s \in SUBSET A : /\ h[s] = IF s = {} THEN 0 ELSE f[Chosen(s)] + h[s \ {Chosen(s)}]
                          /\ k[s] = IF s = {} THEN 0 ELSE g[Chosen(s)] + k[s \ {Chosen(s)}]
  BY DEF Sums
<1>1. ASSUME NEW s \in SUBSET A, \A x \in s : s \ {x} \in P
      PROVE  s \in P
  <2>1. s # {} => Chosen(s) \in s
    BY DEF Chosen
  <2> QED BY <1>0, <1>1, <2>1
<1> HIDE DEF P
<1>2. SUBSET A \subseteq P
  BY <1>1, SumsInduction
<1> QED BY <1>2 DEF P

(***************************************************************************)
(* The sum of the values of f over a finite set S, and what changes it.    *)
(***************************************************************************)
Total(f, S) == (CHOOSE h : Sums(h, f, S))[S]

LEMMA TotalIs ==
  ASSUME NEW S, NEW T, NEW A \in SUBSET (S \cap T), IsFiniteSet(S), NEW f, NEW g,
         \A x \in A : f[x] = g[x], NEW h, Sums(h, g, T)
  PROVE  IsFiniteSet(A) /\ h[A] = Total(f, A)
<1>1. IsFiniteSet(A)
  BY FS_Subset
<1>2. Sums(CHOOSE k : Sums(k, f, A), f, A)
  BY <1>1, SumsExist
<1> DEFINE k == CHOOSE k : Sums(k, f, A)
<1> HIDE DEF k
<1>3. k[A] = h[A]
  BY <1>1, <1>2, SumsAgree DEF k
<1> QED BY <1>1, <1>3 DEF Total, k

LEMMA TotalFacts ==
  ASSUME NEW S, IsFiniteSet(S), NEW f, \A x \in S : f[x] \in Int
  PROVE  /\ Total(f, S) \in Int
         /\ \A x \in S : Total(f, S) = f[x] + Total(f, S \ {x})
<1>1. PICK h : Sums(h, f, S)
  BY SumsExist
<1>2. \A A \in SUBSET S : h[A] = Total(f, A)
  BY <1>1, TotalIs
<1>3. h[S] \in Int
  BY <1>1, SumsTyped
<1>4. \A x \in S : h[S] = f[x] + h[S \ {x}]
  BY <1>1, SumsInAnyOrder
<1> QED BY <1>2, <1>3, <1>4

LEMMA TotalAgrees ==
  ASSUME NEW S, IsFiniteSet(S), NEW f, NEW g, \A x \in S : f[x] = g[x]
  PROVE  Total(f, S) = Total(g, S)
<1>1. PICK h : Sums(h, g, S)
  BY SumsExist
<1>2. h[S] = Total(f, S)
  BY <1>1, TotalIs
<1>3. h[S] = Total(g, S)
  BY <1>1, TotalIs
<1> QED BY <1>2, <1>3

LEMMA TotalMoves ==
  ASSUME NEW S, IsFiniteSet(S), NEW f, \A x \in S : f[x] \in Int,
         NEW g, \A x \in S : g[x] \in Int, NEW x \in S, \A y \in S \ {x} : f[y] = g[y]
  PROVE  Total(g, S) = Total(f, S) + (g[x] - f[x])
<1> DEFINE A == S \ {x}
<1>1. IsFiniteSet(A) /\ \A y \in A : y \in S /\ f[y] = g[y]
  BY FS_RemoveElement
<1>2. Total(f, S) = f[x] + Total(f, A)
  BY TotalFacts
<1>3. Total(g, S) = g[x] + Total(g, A)
  BY TotalFacts
<1> HIDE DEF A
<1>4. Total(f, A) = Total(g, A)
  BY <1>1, TotalAgrees
<1>5. Total(f, A) \in Int
  BY <1>1, TotalFacts
<1> QED BY <1>2, <1>3, <1>4, <1>5

LEMMA TotalOfSome ==
  ASSUME NEW S, IsFiniteSet(S), NEW f, \A x \in S : f[x] \in Int,
         NEW A \in SUBSET S, \A x \in S \ A : f[x] = 0
  PROVE  Total(f, S) = Total(f, A)
<1> DEFINE P == {s \in SUBSET S : Total(f, s) = Total(f, s \cap A)}
<1>1. ASSUME NEW s \in SUBSET S, \A x \in s : s \ {x} \in P
      PROVE  s \in P
  <2>1. CASE s \subseteq A
    <3>1. s \cap A = s
      BY <2>1
    <3> QED BY <3>1
  <2>2. CASE ~ (s \subseteq A)
    <3>1. PICK x \in s : x \notin A
      BY <2>2
    <3>2. (s \ {x}) \cap A = s \cap A
      BY <3>1
    <3>3. Total(f, s \ {x}) = Total(f, s \cap A)
      BY <1>1, <3>2
    <3>4. IsFiniteSet(s) /\ \A y \in s : f[y] \in Int
      BY FS_Subset
    <3>5. Total(f, s) = f[x] + Total(f, s \ {x}) /\ f[x] = 0
      BY <3>1, <3>4, TotalFacts
    <3>6. Total(f, s) \in Int /\ Total(f, s \ {x}) \in Int
      <4>1. IsFiniteSet(s \ {x}) /\ \A y \in s \ {x} : f[y] \in Int
        BY <3>4, FS_RemoveElement
      <4>2. Total(f, s) \in Int
        BY <3>4, TotalFacts
      <4>3. Total(f, s \ {x}) \in Int
        BY <4>1, TotalFacts
      <4> QED BY <4>2, <4>3
    <3>7. Total(f, s) = Total(f, s \ {x})
      BY <3>5, <3>6
    <3> QED BY <3>3, <3>7
  <2> QED BY <2>1, <2>2
<1> HIDE DEF P
<1>2. SUBSET S \subseteq P
  BY <1>1, SumsInduction
<1>3. S \in P /\ S \cap A = A
  BY <1>2
<1> QED BY <1>3 DEF P

LEMMA TotalOfNone == \A f : Total(f, {}) = 0
<1> TAKE f
<1>1. Sums(CHOOSE k : Sums(k, f, {}), f, {})
  BY SumsExist, FS_EmptySet
<1> QED BY <1>1 DEF Sums, Total

LEMMA TotalOfZeros ==
  ASSUME NEW S, IsFiniteSet(S), NEW f, \A x \in S : f[x] = 0
  PROVE  Total(f, S) = 0
<1>1. Total(f, S) = Total(f, {})
  BY TotalOfSome
<1> QED BY <1>1, TotalOfNone

(***************************************************************************)
(* Cycles in a relation E on a set R, <<y, x>> \in E where x waits for y.  *)
(* Waits(R, E, r) has those that r waits for, those that these wait for,   *)
(* and so on; the ring of r those of them that wait for r.                 *)
(***************************************************************************)
Closed(R, E, S, r) == \A x \in S \cup {r}, y \in R : <<y, x>> \in E => y \in S

Waits(R, E, r) == {q \in R : \A S \in SUBSET R : Closed(R, E, S, r) => q \in S}

Ring(R, E, r) == {q \in Waits(R, E, r) : r \in Waits(R, E, q)}

LEMMA WaitsOn ==
  ASSUME NEW R, NEW E, NEW r \in R, NEW q \in Waits(R, E, r)
  PROVE  /\ q \in R
         /\ Waits(R, E, q) \subseteq Waits(R, E, r)
         /\ \A y \in R : <<y, q>> \in E => y \in Waits(R, E, r)
<1>1. q \in R /\ \A S \in SUBSET R : Closed(R, E, S, r) => q \in S
  BY DEF Waits
<1>2. ASSUME NEW S \in SUBSET R, Closed(R, E, S, r)
      PROVE  Closed(R, E, S, q)
  BY <1>1, <1>2 DEF Closed
<1>3. \A y \in R : <<y, q>> \in E => y \in Waits(R, E, r)
  BY <1>1 DEF Closed, Waits
<1> QED
  BY <1>1, <1>2, <1>3 DEF Waits

LEMMA WaitsDirectly ==
  ASSUME NEW R, NEW E, NEW r \in R, NEW y \in R, <<y, r>> \in E
  PROVE  y \in Waits(R, E, r)
BY DEF Waits, Closed

LEMMA OneRing ==
  ASSUME NEW R, NEW E, NEW r \in R, r \in Waits(R, E, r), NEW q \in Ring(R, E, r)
  PROVE  /\ q \in R /\ q \in Waits(R, E, q) /\ r \in Ring(R, E, r)
         /\ Ring(R, E, q) = Ring(R, E, r)
<1>1. q \in Waits(R, E, r) /\ r \in Waits(R, E, q) /\ q \in R
  BY DEF Ring, Waits
<1>2. Waits(R, E, q) = Waits(R, E, r)
  <2>1. Waits(R, E, q) \subseteq Waits(R, E, r)
    BY <1>1, WaitsOn
  <2>2. Waits(R, E, r) \subseteq Waits(R, E, q)
    BY <1>1, WaitsOn
  <2> QED
    BY <2>1, <2>2
<1>3. \A x \in Waits(R, E, r) : q \in Waits(R, E, x) <=> r \in Waits(R, E, x)
  BY <1>1, <1>2, WaitsOn
<1> QED
  BY <1>1, <1>2, <1>3 DEF Ring

\* What passes from one that waits to those in the ring that it waits for, holds
\* all the way round.
LEMMA AllTheWayRound ==
  ASSUME NEW R, NEW E, NEW r \in R, r \in Waits(R, E, r), NEW T,
         \A x \in (Ring(R, E, r) \cap T) \cup {r}, y \in Ring(R, E, r) : <<y, x>> \in E => y \in T
  PROVE  Ring(R, E, r) \subseteq T
<1>1. PICK S : S = {q \in Waits(R, E, r) : r \in Waits(R, E, q) => q \in T}
  OBVIOUS
<1>2. r \in Waits(R, E, r) /\ S \in SUBSET R
  BY <1>1 DEF Waits
<1>3. ASSUME NEW x \in S \cup {r}, NEW y \in R, <<y, x>> \in E
      PROVE  y \in S
  <2>1. x \in Waits(R, E, r) /\ x \in R
    BY <1>1, <1>2
  <2>2. y \in Waits(R, E, r) /\ y \in Waits(R, E, x)
    BY <1>3, <2>1, WaitsOn, WaitsDirectly
  <2>3. CASE r \in Waits(R, E, y)
    <3>1. r \in Waits(R, E, x)
      BY <2>1, <2>2, <2>3, WaitsOn
    <3>2. x \in (Ring(R, E, r) \cap T) \cup {r} /\ y \in Ring(R, E, r)
      BY <1>1, <2>1, <2>2, <2>3, <3>1 DEF Ring
    <3> QED
      BY <1>1, <1>3, <2>2, <3>2
  <2> QED
    BY <1>1, <2>2, <2>3
<1>4. Waits(R, E, r) \subseteq S
  BY <1>2, <1>3 DEF Closed, Waits
<1> QED
  BY <1>1, <1>4 DEF Ring

\* One of the ring waits for another of it, and another for it.
LEMMA NextInRing ==
  ASSUME NEW R, NEW E, NEW r \in R, r \in Waits(R, E, r)
  PROVE  /\ \E y \in Ring(R, E, r) : <<y, r>> \in E
         /\ \E x \in Ring(R, E, r) : <<r, x>> \in E
<1>1. r \in Ring(R, E, r)
  BY DEF Ring
<1>2. ASSUME \A y \in Ring(R, E, r) : <<y, r>> \notin E
      PROVE  FALSE
  <2>1. \A x \in (Ring(R, E, r) \cap {}) \cup {r}, y \in Ring(R, E, r) : <<y, x>> \in E => y \in {}
    BY <1>2
  <2>2. Ring(R, E, r) \subseteq {}
    BY <2>1, AllTheWayRound
  <2> QED
    BY <1>1, <2>2
<1>3. PICK T : T = {z \in Ring(R, E, r) : \E x \in Ring(R, E, r) : <<z, x>> \in E}
  OBVIOUS
<1>4. Ring(R, E, r) \subseteq T
  <2>1. \A x \in (Ring(R, E, r) \cap T) \cup {r}, y \in Ring(R, E, r) : <<y, x>> \in E => y \in T
    BY <1>1, <1>3
  <2> QED
    BY <2>1, AllTheWayRound
<1> QED
  BY <1>1, <1>2, <1>3, <1>4

-----------------------------------------------------------------------------
(***************************************************************************)
(* FlattenSeq of module SequencesExt is the last value of a function on    *)
(* positions, defined by recursion: one function has that recursion.       *)
(***************************************************************************)
Flattening(g, p, n) == g[1] = p[1] /\ \A i \in 1 .. n : i # 1 => g[i] = g[i - 1] \o p[i]

LEMMA FlattenedIs ==
  ASSUME NEW n \in Nat \ {0}, NEW p, Len(p) = n, NEW g, Flattening(g, p, n)
  PROVE  FlattenSeq(p) = g[n]
<1> DEFINE Flattens(f) == f = [i \in 1 .. n |-> IF i = 1 THEN p[i] ELSE f[i - 1] \o p[i]]
           h == CHOOSE f : Flattens(f)
<1>1. \E f : Flattens(f)
  <2> DEFINE f == [i \in 1 .. n |-> g[i]]
  <2>1. \A i \in 1 .. n : i # 1 => i - 1 \in 1 .. n
    OBVIOUS
  <2>2. \A i \in 1 .. n : f[i] = IF i = 1 THEN p[i] ELSE f[i - 1] \o p[i]
    BY <2>1 DEF Flattening
  <2>3. Flattens(f)
    BY <2>2
  <2> HIDE DEF f, Flattens
  <2> QED BY <2>3
<1>2. Flattens(h)
  <2> HIDE DEF Flattens
  <2> QED BY <1>1
<1>3. FlattenSeq(p) = h[n]
  BY DEF FlattenSeq
<1> HIDE DEF h
<1> DEFINE T == {k \in Nat : k + 1 <= n => h[k + 1] = g[k + 1]}
<1>4. 0 \in T
  <2>1. h[1] = p[1]
    BY <1>2
  <2> QED BY <2>1 DEF Flattening
<1>5. ASSUME NEW k \in Nat, k \in T
      PROVE  k + 1 \in T
  <2> SUFFICES ASSUME (k + 1) + 1 <= n PROVE h[(k + 1) + 1] = g[(k + 1) + 1]
    OBVIOUS
  <2> DEFINE i == (k + 1) + 1
  <2>1. i \in 1 .. n /\ i # 1 /\ i - 1 = k + 1 /\ h[k + 1] = g[k + 1]
    BY <1>5
  <2> HIDE DEF i
  <2>2. h[i] = h[i - 1] \o p[i]
    BY <1>2, <2>1
  <2>3. h[i] = g[i]
    BY <2>1, <2>2 DEF Flattening
  <2> QED BY <2>3 DEF i
<1> HIDE DEF T
<1>6. \A k \in Nat : k \in T
  BY <1>4, <1>5, CountingUp
<1>7. n - 1 \in Nat /\ (n - 1) + 1 = n
  OBVIOUS
<1>8. n - 1 \in T
  BY <1>6, <1>7
<1> QED BY <1>3, <1>7, <1>8 DEF T

=============================================================================
