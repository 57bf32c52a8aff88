------------------------------- MODULE Counting -------------------------------
(***************************************************************************)
(* What the proofs need of finite sets and of sequences that the library   *)
(* does not state: induction over the natural numbers, with the set of the *)
(* numbers that have a property in the place of the property, so that the  *)
(* lemma can be cited for any of them; the ends of a finite set; and the   *)
(* places of its members in an order.                                      *)
(***************************************************************************)
EXTENDS Integers, Sequences, FiniteSets, FiniteSetTheorems, FunctionTheorems, TLAPS

\* If k were missing, n |-> n + 1 would map the members of P up to k one to one
\* to those that are not 0.
LEMMA NatSetInduction ==
  ASSUME NEW P, 0 \in P, \A n \in Nat : n \in P => n + 1 \in P
  PROVE  Nat \subseteq P
<1> SUFFICES ASSUME NEW k \in Nat, k \notin P PROVE FALSE
  OBVIOUS
<1> DEFINE D == {n \in 0..k : n \in P}
           f == [n \in D |-> n + 1]
<1>1. IsFiniteSet(D) /\ Cardinality(D) \in Nat
  <2>1. IsFiniteSet(0..k) /\ D \in SUBSET (0..k)
    BY FS_Interval
  <2> QED
    BY <2>1, FS_Subset, FS_CardinalityType
<1>2. 0 \in D
  OBVIOUS
<1>3. IsFiniteSet(D \ {0}) /\ Cardinality(D \ {0}) = Cardinality(D) - 1
  BY <1>1, <1>2, FS_RemoveElement
<1>4. f \in Injection(D, D \ {0})
  <2>1. f \in [D -> D \ {0}]
    OBVIOUS
  <2>2. \A a, b \in D : f[a] = f[b] => a = b
    OBVIOUS
  <2> QED
    BY <2>1, <2>2, Fun_IsInj, Zenon
<1>5. Cardinality(D) <= Cardinality(D \ {0})
  BY <1>3, <1>4, FS_Injection
<1> QED
  BY <1>1, <1>3, <1>5

\* A finite set of numbers has a first and a last, by induction over its size.
LEMMA FiniteSetHasEnds ==
  ASSUME NEW S \in SUBSET Nat, IsFiniteSet(S), S # {}
  PROVE  \E first, last \in S : \A m \in S : first <= m /\ m <= last
<1> DEFINE Ends(T) == \E first, last \in T : \A m \in T : first <= m /\ m <= last
           P == {n \in Nat : \A T \in SUBSET S :
                   IsFiniteSet(T) /\ T # {} /\ Cardinality(T) = n => Ends(T)}
<1>1. 0 \in P
  <2>1. ASSUME NEW T \in SUBSET S, IsFiniteSet(T), Cardinality(T) = 0 PROVE T = {}
    BY <2>1, FS_EmptySet
  <2> QED
    BY <2>1
<1>2. ASSUME NEW n \in Nat, n \in P PROVE n + 1 \in P
  <2> SUFFICES ASSUME NEW T \in SUBSET S, IsFiniteSet(T), T # {}, Cardinality(T) = n + 1
               PROVE  Ends(T)
    OBVIOUS
  <2>1. PICK x \in T : TRUE
    OBVIOUS
  <2>2. x \in Nat /\ T \subseteq Nat
    BY <2>1
  <2> DEFINE U == T \ {x}
  <2>3. IsFiniteSet(U) /\ Cardinality(U) = n /\ U \in SUBSET S
    <3>1. IsFiniteSet(T \ {x}) /\ Cardinality(T \ {x}) = Cardinality(T) - 1
      BY <2>1, FS_RemoveElement
    <3> QED
      BY <3>1
  <2>4. CASE U = {}
    BY <2>1, <2>2, <2>4
  <2>5. CASE U # {}
    <3>1. Ends(U)
      BY <1>2, <2>3, <2>5
    <3>2. PICK first \in U, last \in U : \A m \in U : first <= m /\ m <= last
      BY <3>1
    <3> DEFINE a == IF x <= first THEN x ELSE first
               b == IF last <= x THEN x ELSE last
    <3>3. a \in T /\ b \in T
      BY <2>1, <3>2
    <3>4. \A m \in T : a <= m /\ m <= b
      BY <2>2, <3>2
    <3> QED
      BY <3>3, <3>4
  <2> QED
    BY <2>4, <2>5
<1>3. Nat \subseteq P
  <2> HIDE DEF P
  <2> QED
    BY <1>1, <1>2, NatSetInduction
<1> QED
  BY <1>3, FS_CardinalityType

-----------------------------------------------------------------------------
(* Places in an order, and how many numbers are not left out.                 *)

\* before[x] is the set of the elements before x in a total order of S.
Orders(before, S) ==
  /\ \A x \in S : before[x] \subseteq S /\ x \notin before[x]
  /\ \A x, y, z \in S : x \in before[y] /\ y \in before[z] => x \in before[z]
  /\ \A x, y \in S : x # y => x \in before[y] \/ y \in before[x]

\* f[x] is the place of x, counted from 0, and every place is taken.
Places(f, before, S) ==
  /\ \A x \in S : f[x] \in 0..(Cardinality(S) - 1)
  /\ \A x, z \in S : x \in before[z] => f[x] < f[z]
  /\ \A k \in 0..(Cardinality(S) - 1) : \E x \in S : f[x] = k

Counts(f, before, S) == \A x \in S : f[x] = Cardinality(before[x])

\* In a finite set with a total order the number of those before it tells where an
\* element stands, and every place is taken.
LEMMA PlacesAreTaken ==
  ASSUME NEW S, IsFiniteSet(S), NEW before, NEW f, Orders(before, S), Counts(f, before, S)
  PROVE  Places(f, before, S)
<1> USE DEF Orders, Counts
<1> DEFINE n == Cardinality(S)
           g == [x \in S |-> f[x]]
<1>0. n \in Nat
  BY FS_CardinalityType
<1>1. ASSUME NEW x \in S PROVE IsFiniteSet(before[x]) /\ f[x] \in 0..(n - 1)
  <2>1. IsFiniteSet(S \ {x}) /\ Cardinality(S \ {x}) = n - 1
    BY FS_RemoveElement
  <2>2. before[x] \in SUBSET (S \ {x})
    OBVIOUS
  <2>3. IsFiniteSet(before[x]) /\ Cardinality(before[x]) <= n - 1
    <3> DEFINE B == before[x]
               T == S \ {x}
    <3>1. B \in SUBSET T /\ IsFiniteSet(T) /\ Cardinality(T) = n - 1
      BY <2>1, <2>2
    <3> HIDE DEF B, T
    <3>2. IsFiniteSet(B) /\ Cardinality(B) <= Cardinality(T)
      BY <3>1, FS_Subset
    <3> QED
      BY <3>1, <3>2 DEF B
  <2>4. Cardinality(before[x]) \in Nat
    BY <2>3, FS_CardinalityType
  <2> QED
    BY <1>0, <2>3, <2>4
<1>b. \A x \in S : f[x] \in 0..(n - 1) /\ f[x] \in Int
  <2>1. \A x \in S : f[x] \in 0..(n - 1)
    BY <1>1
  <2> HIDE DEF n
  <2> QED
    BY <1>0, <2>1
<1>2. ASSUME NEW x \in S, NEW z \in S, x \in before[z] PROVE f[x] < f[z]
  <2>1. before[x] \in SUBSET before[z] /\ x \in before[z] /\ x \notin before[x]
    BY <1>2
  <2>2. Cardinality(before[x]) <= Cardinality(before[z]) /\ Cardinality(before[x]) # Cardinality(before[z])
    <3> DEFINE A == before[x]
               B == before[z]
    <3>1. A \in SUBSET B /\ A # B /\ IsFiniteSet(B)
      BY <1>1, <2>1
    <3> HIDE DEF A, B
    <3>2. Cardinality(A) <= Cardinality(B) /\ Cardinality(B) # Cardinality(A)
      BY <3>1, FS_Subset
    <3> QED
      BY <3>2 DEF A, B
  <2> HIDE DEF n
  <2>3. f[x] = Cardinality(before[x]) /\ f[z] = Cardinality(before[z])
    OBVIOUS
  <2>4. f[x] \in Int /\ f[z] \in Int
    BY <1>b
  <2> QED
    BY <2>2, <2>3, <2>4
<1>c. \A x, z \in S : x \in before[z] => f[x] < f[z]
  BY <1>2
<1>3. g \in Injection(S, 0..(n - 1))
  <2>1. g \in [S -> 0..(n - 1)]
    BY <1>b
  <2>2. \A x, y \in S : x # y => f[x] # f[y]
    BY <1>b, <1>c
  <2>3. \A x, y \in S : g[x] = g[y] => x = y
    BY <2>2
  <2> HIDE DEF g
  <2> QED
    BY <2>1, <2>3, Fun_IsInj, Zenon
<1>4. IsFiniteSet(0..(n - 1)) /\ Cardinality(0..(n - 1)) = n
  <2> HIDE DEF n
  <2>1. /\ IsFiniteSet(0..(n - 1))
        /\ Cardinality(0..(n - 1)) = IF 0 > n - 1 THEN 0 ELSE n - 1 - 0 + 1
    BY <1>0, FS_Interval
  <2> QED
    BY <1>0, <2>1
<1>5. g \in Surjection(S, 0..(n - 1))
  <2> HIDE DEF g
  <2> QED
    BY <1>3, <1>4, FS_Injection
<1>6. \A k \in 0..(n - 1) : \E x \in S : g[x] = k
  <2> HIDE DEF n, g
  <2> QED
    BY <1>5 DEF Surjection
<1> QED
  BY <1>b, <1>c, <1>6 DEF Places

LEMMA ImageIsFinite ==
  ASSUME NEW S, IsFiniteSet(S), NEW f
  PROVE  IsFiniteSet({f[x] : x \in S})
<1> DEFINE T == {f[x] : x \in S}
           g == [x \in S |-> f[x]]
<1>1. g \in Surjection(S, T)
  BY DEF Surjection
<1> HIDE DEF T, g
<1>2. IsFiniteSet(T)
  BY <1>1, FS_Surjection
<1> QED
  BY <1>2 DEF T

LEMMA Appended ==
  ASSUME NEW n \in Nat, NEW m \in Nat, NEW f, f = [i \in 1..n |-> f[i]],
         NEW g, g = [k \in 1..m |-> g[k]]
  PROVE  /\ Len(f \o g) = n + m /\ DOMAIN (f \o g) = 1..(n + m)
         /\ \A i \in 1..n : (f \o g)[i] = f[i]
         /\ \A k \in 1..m : (f \o g)[n + k] = g[k]
<1> DEFINE S == {f[i] : i \in 1..n} \cup {g[k] : k \in 1..m}
<1>1. f \in [1..n -> S] /\ g \in [1..m -> S]
  OBVIOUS
<1>2. f \in Seq(S) /\ g \in Seq(S)
  BY <1>1
<1> HIDE DEF S
<1>3. Len(f) = n /\ Len(g) = m
  BY <1>1, <1>2
<1> QED
  BY <1>2, <1>3

\* One list after another, as a function of the places.
LEMMA AppendedIsFunction ==
  ASSUME NEW n \in Nat, NEW m \in Nat, NEW f, f = [i \in 1..n |-> f[i]],
         NEW g, g = [k \in 1..m |-> g[k]]
  PROVE  f \o g = [k \in 1..(n + m) |-> (f \o g)[k]]
<1> DEFINE S == {f[i] : i \in 1..n} \cup {g[k] : k \in 1..m}
<1>1. f \in [1..n -> S] /\ g \in [1..m -> S]
  OBVIOUS
<1>2. f \in Seq(S) /\ g \in Seq(S) /\ Len(f) = n /\ Len(g) = m
  BY <1>1
<1> HIDE DEF S
<1>3. PICK h : h = f \o g
  OBVIOUS
<1>4. h \in Seq(S) /\ Len(h) = n + m
  BY <1>2, <1>3
<1>5. h = [k \in 1..(n + m) |-> h[k]]
  BY <1>4
<1> QED
  BY <1>3, <1>5

\* How many of the first p members of a list are not free.
LEMMA NumbersGrow ==
  ASSUME NEW Free, NEW p \in Nat, NEW q \in Nat
  PROVE  /\ Cardinality({k \in 1..p : k \notin Free}) \in Nat
         /\ p < q /\ q \notin Free =>
              Cardinality({k \in 1..p : k \notin Free}) < Cardinality({k \in 1..q : k \notin Free})
<1> DEFINE P == {k \in 1..p : k \notin Free}
           Q == {k \in 1..q : k \notin Free}
<1>1. IsFiniteSet(P) /\ IsFiniteSet(Q)
  <2>1. IsFiniteSet(1..p) /\ IsFiniteSet(1..q)
    BY FS_Interval
  <2>2. P \in SUBSET (1..p) /\ Q \in SUBSET (1..q)
    OBVIOUS
  <2> HIDE DEF P, Q
  <2> QED
    BY <2>1, <2>2, FS_Subset
<1>2. Cardinality(P) \in Nat /\ Cardinality(Q) \in Nat
  <2> HIDE DEF P, Q
  <2> QED
    BY <1>1, FS_CardinalityType
<1>3. ASSUME p < q, q \notin Free PROVE Cardinality(P) < Cardinality(Q)
  <2>1. P \in SUBSET Q /\ q \in Q /\ q \notin P
    BY <1>3
  <2> HIDE DEF P, Q
  <2>2. Cardinality(P) <= Cardinality(Q) /\ (Cardinality(Q) = Cardinality(P) => P = Q)
    BY <1>1, <2>1, FS_Subset
  <2> QED
    BY <1>2, <2>1, <2>2
<1> QED
  BY <1>2, <1>3

\* One to one: there are no more of the first.
LEMMA OneToOne ==
  ASSUME NEW S, NEW T, IsFiniteSet(T), NEW f,
         \A x \in S : f[x] \in T,
         \A x, y \in S : f[x] = f[y] => x = y
  PROVE  IsFiniteSet(S) /\ Cardinality(S) <= Cardinality(T)
<1> DEFINE g == [x \in S |-> f[x]]
<1>1. g \in [S -> T] /\ \A x, y \in S : g[x] = g[y] => x = y
  OBVIOUS
<1> HIDE DEF g
<1>2. g \in Injection(S, T)
  BY <1>1, Fun_IsInj, Zenon
<1> QED
  BY <1>2, FS_Injection

\* One to one and onto: there are as many.
LEMMA AsMany ==
  ASSUME NEW S, NEW T, IsFiniteSet(T), NEW f,
         \A x \in S : f[x] \in T,
         \A x, y \in S : f[x] = f[y] => x = y,
         \A y \in T : \E x \in S : f[x] = y
  PROVE  IsFiniteSet(S) /\ Cardinality(S) = Cardinality(T)
<1>1. IsFiniteSet(S) /\ Cardinality(S) <= Cardinality(T)
  BY OneToOne
<1> DEFINE h == [y \in T |-> CHOOSE x \in S : f[x] = y]
<1>2. /\ \A y \in T : h[y] \in S /\ f[h[y]] = y
  OBVIOUS
<1>3. \A y, z \in T : h[y] = h[z] => y = z
  BY <1>2
<1> HIDE DEF h
<1>4. Cardinality(T) <= Cardinality(S)
  BY <1>1, <1>2, <1>3, OneToOne
<1>5. Cardinality(S) \in Nat /\ Cardinality(T) \in Nat
  BY <1>1, FS_CardinalityType
<1> QED
  BY <1>1, <1>4, <1>5

=============================================================================
