-------------------------------- MODULE Sums --------------------------------
(***************************************************************************)
(* Sums over finite sets, as the fold of the community modules computes    *)
(* them: they do not depend on the order in which elements are taken.      *)
(* Every induction is by a least counterexample.                           *)
(***************************************************************************)
EXTENDS Integers, FiniteSetTheorems, WellFoundedInduction, TLAPS

(* The fold takes one element after the other and keeps all partial sums.  *)
Pick(s) == CHOOSE x \in s : TRUE
Partial(g, h, s) == IF s = {} THEN 0 ELSE g[Pick(s)] + h[s \ {Pick(s)}]
IsSum(g, S, h) == h = [s \in SUBSET S |-> Partial(g, h, s)]

(* The sum of g over S.                                                    *)
Total(g, S) == (CHOOSE h : IsSum(g, S, h))[S]

-----------------------------------------------------------------------------
(* A set of numbers has a least element.                                   *)
LEMMA Least ==
  ASSUME NEW T \in SUBSET Nat, T # {}
  PROVE  \E n \in T : \A m \in T : n <= m
<1>1. PICK x \in T : \A y \in T : ~(<<y, x>> \in OpToRel(<, Nat))
  BY NatLessThanWellFounded, WFMin
<1>2. \A y \in T : ~(y < x)
  BY <1>1 DEF OpToRel
<1>3. \A y \in T : x <= y
  BY <1>2
<1> QED
  BY <1>3

(* A bounded set of numbers has a greatest element.                        *)
LEMMA Greatest ==
  ASSUME NEW T \in SUBSET Nat, T # {}, NEW b \in Nat, \A x \in T : x <= b
  PROVE  \E n \in T : \A m \in T : n >= m
<1> DEFINE U == {u \in Nat : \A x \in T : x <= u}
<1>1. PICK u \in U : \A m \in U : u <= m
  BY Least
<1>2. u \in Nat /\ \A x \in T : x <= u
  OBVIOUS
<1>3. u \in T
  <2> SUFFICES ASSUME u \notin T
               PROVE  FALSE
    OBVIOUS
  <2>1. \A x \in T : x <= u - 1 /\ u - 1 \in Nat
    BY <1>2
  <2>2. u - 1 \in U
    BY <2>1
  <2> HIDE DEF U
  <2> QED
    BY <1>1, <1>2, <2>2
<1> QED
  BY <1>2, <1>3

(* Taking an element from a finite set.                                    *)
LEMMA Taken ==
  ASSUME NEW S, IsFiniteSet(S), NEW s \in SUBSET S, NEW x \in s
  PROVE  /\ s \ {x} \in SUBSET S /\ Cardinality(s) \in Nat /\ Cardinality(s \ {x}) \in Nat
         /\ Cardinality(s \ {x}) = Cardinality(s) - 1 /\ Cardinality(s) > 0
<1>1. IsFiniteSet(s) /\ IsFiniteSet(s \ {x})
  BY FS_Subset, FS_RemoveElement
<1>2. Cardinality(s \ {x}) = Cardinality(s) - 1
  BY <1>1, FS_RemoveElement
<1>3. Cardinality(s) \in Nat /\ Cardinality(s \ {x}) \in Nat
  BY <1>1, FS_CardinalityType
<1> QED
  BY <1>2, <1>3

(* The element that the fold takes.                                        *)
LEMMA PickIs ==
  ASSUME NEW s, s # {}
  PROVE  Pick(s) \in s
BY DEF Pick

(* The partial sums of a finite set exist.                                 *)
LEMMA SumExists ==
  ASSUME NEW S, IsFiniteSet(S), NEW g
  PROVE  \E h : IsSum(g, S, h)
<1> DEFINE Upto(n, h) ==
             /\ h = [s \in SUBSET S |-> h[s]]
             /\ \A s \in SUBSET S : Cardinality(s) <= n => h[s] = Partial(g, h, s)
           Bad == {n \in Nat : ~\E h : Upto(n, h)}
<1>1. Cardinality(S) \in Nat /\ \A s \in SUBSET S :
        Cardinality(s) \in Nat /\ Cardinality(s) <= Cardinality(S) /\ (Cardinality(s) = 0 <=> s = {})
  BY FS_Subset, FS_CardinalityType, FS_EmptySet
<1>2. Bad = {}
  <2> SUFFICES ASSUME Bad # {}
               PROVE  FALSE
    OBVIOUS
  <2>1. PICK n \in Bad : \A m \in Bad : n <= m
    BY Least
  <2>2. n \in Nat /\ ~\E h : Upto(n, h)
    OBVIOUS
  <2>3. CASE n = 0
    <3> DEFINE h == [s \in SUBSET S |-> 0]
    <3>1. h = [s \in SUBSET S |-> h[s]]
      OBVIOUS
    <3>2. \A s \in SUBSET S : Cardinality(s) <= n => h[s] = Partial(g, h, s)
      <4> TAKE s \in SUBSET S
      <4> HAVE Cardinality(s) <= n
      <4>1. s = {}
        BY <1>1, <2>3
      <4> QED
        BY <4>1 DEF Partial
    <3>3. Upto(n, h)
      BY <3>1, <3>2
    <3> HIDE DEF h
    <3> QED
      BY <2>2, <3>3
  <2>4. CASE n > 0
    <3>1. n - 1 \in Nat /\ n - 1 \notin Bad
      <4> HIDE DEF Bad
      <4>1. n - 1 \in Nat /\ ~(n <= n - 1)
        BY <2>2, <2>4
      <4> QED
        BY <2>1, <4>1
    <3>2. PICK i : Upto(n - 1, i)
      BY <3>1
    <3> DEFINE h == [s \in SUBSET S |-> IF Cardinality(s) < n THEN i[s] ELSE Partial(g, i, s)]
    <3>3. h = [s \in SUBSET S |-> h[s]]
      OBVIOUS
    <3>4. ASSUME NEW s \in SUBSET S, Cardinality(s) <= n
          PROVE  h[s] = Partial(g, h, s)
      <4>1. h[s] = Partial(g, i, s)
        <5>1. CASE Cardinality(s) < n
          <6>1. Cardinality(s) <= n - 1
            BY <1>1, <2>2, <5>1
          <6> QED
            BY <3>2, <5>1, <6>1
        <5>2. CASE ~(Cardinality(s) < n)
          BY <5>2
        <5> QED
          BY <5>1, <5>2
      <4>2. CASE s = {}
        BY <4>1, <4>2 DEF Partial
      <4>3. CASE s # {}
        <5> PICK x : x = Pick(s)
          OBVIOUS
        <5>1. s \ {x} \in SUBSET S /\ Cardinality(s \ {x}) < n
          BY <1>1, <2>2, <3>4, <4>3, PickIs, Taken
        <5>2. h[s \ {x}] = i[s \ {x}]
          BY <5>1
        <5> HIDE DEF h
        <5> QED
          BY <4>1, <4>3, <5>2 DEF Partial
      <4> QED
        BY <4>2, <4>3
    <3>5. Upto(n, h)
      BY <3>3, <3>4
    <3> HIDE DEF h
    <3> QED
      BY <2>2, <3>5
  <2> QED
    BY <2>2, <2>3, <2>4
<1>3. PICK h : Upto(Cardinality(S), h)
  BY <1>1, <1>2
<1>4. \A s \in SUBSET S : h[s] = Partial(g, h, s)
  BY <1>1, <1>3
<1>5. h = [s \in SUBSET S |-> Partial(g, h, s)]
  BY <1>3, <1>4
<1> QED
  BY <1>5 DEF IsSum

-----------------------------------------------------------------------------
(* What holds of the partial sums whichever way they are computed.         *)

(* One element is taken.                                                   *)
Stepwise(g, S, h) ==
  \A s \in SUBSET S :
    /\ s = {} => h[s] = 0
    /\ s # {} => Pick(s) \in s /\ h[s] = g[Pick(s)] + h[s \ {Pick(s)}]

(* The partial sums follow the order in which elements are picked.         *)
LEMMA SumStep ==
  ASSUME NEW S, NEW g, NEW h, IsSum(g, S, h)
  PROVE  Stepwise(g, S, h)
<1> SUFFICES ASSUME NEW s \in SUBSET S
             PROVE  /\ s = {} => h[s] = 0
                    /\ s # {} => Pick(s) \in s /\ h[s] = g[Pick(s)] + h[s \ {Pick(s)}]
  BY DEF Stepwise
<1>1. h[s] = Partial(g, h, s)
  BY DEF IsSum
<1> QED
  BY <1>1, PickIs DEF Partial

(* Sums of numbers are numbers.                                            *)
LEMMA SumNat ==
  ASSUME NEW S, IsFiniteSet(S), NEW g, \A x \in S : g[x] \in Nat, NEW h, IsSum(g, S, h)
  PROVE  \A s \in SUBSET S : h[s] \in Nat
<1> DEFINE Bad == {n \in Nat : \E s \in SUBSET S : Cardinality(s) = n /\ h[s] \notin Nat}
<1>0. Stepwise(g, S, h)
  BY SumStep
<1>1. Bad = {}
  <2> SUFFICES ASSUME Bad # {}
               PROVE  FALSE
    OBVIOUS
  <2>1. PICK n \in Bad : \A m \in Bad : n <= m
    BY Least
  <2>2. PICK s \in SUBSET S : Cardinality(s) = n /\ h[s] \notin Nat
    OBVIOUS
  <2>3. s # {}
    <3> HIDE DEF Bad
    <3>1. s = {} => h[s] = 0
      BY <1>0 DEF Stepwise
    <3> QED
      BY <2>2, <3>1
  <2> PICK x : x = Pick(s)
    OBVIOUS
  <2>4. x \in s /\ s \ {x} \in SUBSET S /\ h[s] = g[x] + h[s \ {x}]
    <3> HIDE DEF Bad
    <3>1. x \in s /\ h[s] = g[x] + h[s \ {x}]
      BY <1>0, <2>3 DEF Stepwise
    <3> QED
      BY <3>1
  <2>5. Cardinality(s \ {x}) \in Nat /\ ~(n <= Cardinality(s \ {x}))
    BY <2>2, <2>4, Taken
  <2>6. Cardinality(s \ {x}) \notin Bad
    <3> HIDE DEF Bad
    <3> QED
      BY <2>1, <2>5
  <2>7. h[s \ {x}] \in Nat
    BY <2>4, <2>5, <2>6
  <2>8. g[x] \in Nat
    BY <2>4
  <2>9. h[s] \in Nat
    <3> PICK a \in Nat : a = g[x]
      BY <2>8
    <3> PICK b \in Nat : b = h[s \ {x}]
      BY <2>7
    <3> QED
      BY <2>4
  <2> QED
    BY <2>2, <2>9
<1>2. \A s \in SUBSET S : Cardinality(s) \in Nat
  BY FS_Subset, FS_CardinalityType
<1> QED
  BY <1>1, <1>2

(* Any element may be taken first.                                         *)
LEMMA SumAny ==
  ASSUME NEW S, IsFiniteSet(S), NEW g, \A x \in S : g[x] \in Nat, NEW h, IsSum(g, S, h)
  PROVE  \A s \in SUBSET S : \A y \in s : h[s] = g[y] + h[s \ {y}]
<1> DEFINE Bad == {n \in Nat : \E s \in SUBSET S : \E y \in s :
                                  Cardinality(s) = n /\ h[s] # g[y] + h[s \ {y}]}
<1>0. Stepwise(g, S, h)
  BY SumStep
<1>1. Bad = {}
  <2> SUFFICES ASSUME Bad # {}
               PROVE  FALSE
    OBVIOUS
  <2>1. PICK n \in Bad : \A m \in Bad : n <= m
    BY Least
  <2> PICK s \in SUBSET S : \E y \in s : Cardinality(s) = n /\ h[s] # g[y] + h[s \ {y}]
    OBVIOUS
  <2>2. PICK y \in s : Cardinality(s) = n /\ h[s] # g[y] + h[s \ {y}]
    OBVIOUS
  <2> PICK x : x = Pick(s)
    OBVIOUS
  <2>3. x \in s /\ s \ {x} \in SUBSET S /\ h[s] = g[x] + h[s \ {x}]
    BY <1>0, <2>2 DEF Stepwise
  <2>4. x # y
    BY <2>2, <2>3
  <2>5. \A z \in s : /\ s \ {z} \in SUBSET S /\ Cardinality(s \ {z}) \in Nat
                     /\ Cardinality(s \ {z}) \notin Bad
    <3> TAKE z \in s
    <3>1. s \ {z} \in SUBSET S /\ Cardinality(s \ {z}) \in Nat /\ ~(n <= Cardinality(s \ {z}))
      BY <2>2, Taken
    <3> HIDE DEF Bad
    <3> QED
      BY <2>1, <3>1
  <2>6. ASSUME NEW z \in s, NEW w \in s \ {z}
        PROVE  h[s \ {z}] = g[w] + h[(s \ {z}) \ {w}]
    <3> PICK u : u = s \ {z}
      OBVIOUS
    <3>1. u \in SUBSET S /\ Cardinality(u) \in Nat /\ Cardinality(u) \notin Bad /\ w \in u
      BY <2>5
    <3>2. h[u] = g[w] + h[u \ {w}]
      BY <3>1
    <3> QED
      BY <3>2
  <2>7. h[s \ {x}] = g[y] + h[(s \ {x}) \ {y}]
    BY <2>3, <2>4, <2>6
  <2>8. h[s \ {y}] = g[x] + h[(s \ {y}) \ {x}]
    BY <2>3, <2>4, <2>6
  <2>9. (s \ {x}) \ {y} = (s \ {y}) \ {x}
    OBVIOUS
  <2>10. h[s] = g[y] + h[s \ {y}]
    <3> PICK a \in Nat : a = g[x]
      BY <2>3
    <3> PICK b \in Nat : b = g[y]
      OBVIOUS
    <3> PICK c \in Nat : c = h[(s \ {x}) \ {y}]
      BY SumNat
    <3>1. h[s \ {x}] = b + c /\ h[s \ {y}] = a + c
      BY <2>7, <2>8, <2>9
    <3> QED
      BY <2>3, <3>1
  <2> QED
    BY <2>2, <2>10
<1>2. \A s \in SUBSET S : Cardinality(s) \in Nat
  BY FS_Subset, FS_CardinalityType
<1> QED
  BY <1>1, <1>2

(* A sum depends on the summands only.                                     *)
LEMMA SumSame ==
  ASSUME NEW S, NEW T, NEW g, NEW k, NEW h, NEW i, IsSum(g, S, h), IsSum(k, T, i),
         NEW U, IsFiniteSet(U), U \subseteq S, U \subseteq T, \A x \in U : g[x] = k[x]
  PROVE  \A s \in SUBSET U : h[s] = i[s]
<1> DEFINE Bad == {n \in Nat : \E s \in SUBSET U : Cardinality(s) = n /\ h[s] # i[s]}
<1>0. Stepwise(g, S, h) /\ Stepwise(k, T, i)
  BY SumStep
<1>1. Bad = {}
  <2> SUFFICES ASSUME Bad # {}
               PROVE  FALSE
    OBVIOUS
  <2>1. PICK n \in Bad : \A m \in Bad : n <= m
    BY Least
  <2>2. PICK s \in SUBSET U : Cardinality(s) = n /\ h[s] # i[s]
    OBVIOUS
  <2>3. s \in SUBSET S /\ s \in SUBSET T
    OBVIOUS
  <2>4. s # {}
    BY <1>0, <2>2, <2>3 DEF Stepwise
  <2> PICK x : x = Pick(s)
    OBVIOUS
  <2>5. x \in s /\ h[s] = g[x] + h[s \ {x}] /\ i[s] = k[x] + i[s \ {x}]
    BY <1>0, <2>3, <2>4 DEF Stepwise
  <2>6. s \ {x} \in SUBSET U /\ Cardinality(s \ {x}) \in Nat /\ ~(n <= Cardinality(s \ {x}))
    BY <2>2, <2>5, Taken
  <2>7. Cardinality(s \ {x}) \notin Bad
    <3> HIDE DEF Bad
    <3> QED
      BY <2>1, <2>6
  <2>8. h[s \ {x}] = i[s \ {x}]
    BY <2>6, <2>7
  <2> QED
    BY <2>2, <2>5, <2>8
<1>2. \A s \in SUBSET U : Cardinality(s) \in Nat
  BY FS_Subset, FS_CardinalityType
<1> QED
  BY <1>1, <1>2

(* A sum is the sum of its parts.                                          *)
LEMMA SumSplit ==
  ASSUME NEW S, IsFiniteSet(S), NEW g, \A x \in S : g[x] \in Nat, NEW h, IsSum(g, S, h)
  PROVE  \A s \in SUBSET S : \A t \in SUBSET s : h[s] = h[t] + h[s \ t]
<1> DEFINE Bad == {n \in Nat : \E s \in SUBSET S : \E t \in SUBSET s :
                                  Cardinality(t) = n /\ h[s] # h[t] + h[s \ t]}
<1>0. Stepwise(g, S, h) /\ \A s \in SUBSET S : h[s] \in Nat
  BY SumStep, SumNat
<1>1. Bad = {}
  <2> SUFFICES ASSUME Bad # {}
               PROVE  FALSE
    OBVIOUS
  <2>1. PICK n \in Bad : \A m \in Bad : n <= m
    BY Least
  <2> PICK s \in SUBSET S : \E t \in SUBSET s : Cardinality(t) = n /\ h[s] # h[t] + h[s \ t]
    OBVIOUS
  <2>2. PICK t \in SUBSET s : Cardinality(t) = n /\ h[s] # h[t] + h[s \ t]
    OBVIOUS
  <2>3. t \in SUBSET S /\ {} \in SUBSET S
    OBVIOUS
  <2>4. t # {}
    <3> SUFFICES ASSUME t = {}
                 PROVE  FALSE
      OBVIOUS
    <3> HIDE DEF Bad
    <3>1. h[t] = 0 /\ s \ t = s /\ h[s] \in Nat
      BY <1>0, <2>3 DEF Stepwise
    <3> QED
      BY <2>2, <3>1
  <2> PICK x : x \in t
    BY <2>4
  <2> PICK u : u = t \ {x}
    OBVIOUS
  <2> PICK r : r = s \ {x}
    OBVIOUS
  <2>5. u \in SUBSET S /\ r \in SUBSET S /\ u \in SUBSET r /\ r \ u = s \ t /\ r \ u \in SUBSET S
    <3> HIDE DEF Bad
    <3> QED
      BY <2>3
  <2>6. Cardinality(u) \in Nat /\ ~(n <= Cardinality(u))
    BY <2>2, <2>3, Taken
  <2>7. Cardinality(u) \notin Bad
    <3> HIDE DEF Bad
    <3> QED
      BY <2>1, <2>6
  <2>8. h[r] = h[u] + h[r \ u]
    BY <2>5, <2>6, <2>7
  <2> HIDE DEF Bad
  <2>9. h[s] = g[x] + h[r] /\ h[t] = g[x] + h[u]
    BY <2>3, SumAny
  <2>10. h[s] = h[t] + h[s \ t]
    <3> PICK a \in Nat : a = g[x]
      BY <2>3
    <3> PICK b \in Nat : b = h[u]
      BY <1>0, <2>5
    <3> PICK c \in Nat : c = h[s \ t]
      BY <1>0, <2>5
    <3>1. h[r] = b + c /\ h[t] = a + b
      BY <2>5, <2>8, <2>9
    <3> QED
      BY <2>9, <3>1
  <2> QED
    BY <2>2, <2>10
<1>2. \A s \in SUBSET S : \A t \in SUBSET s : Cardinality(t) \in Nat
  BY FS_Subset, FS_CardinalityType
<1> QED
  BY <1>1, <1>2

-----------------------------------------------------------------------------
(* Totals.                                                                 *)

(* A total is the last of some partial sums.                               *)
LEMMA TotalIs ==
  ASSUME NEW S, IsFiniteSet(S), NEW g
  PROVE  \E h : IsSum(g, S, h) /\ Total(g, S) = h[S]
<1>1. \E h : IsSum(g, S, h)
  BY SumExists
<1>2. PICK h : h = CHOOSE i : IsSum(g, S, i)
  OBVIOUS
<1>3. IsSum(g, S, h)
  BY <1>1, <1>2
<1> QED
  BY <1>2, <1>3 DEF Total

(* Nothing sums to 0.                                                      *)
LEMMA TotalEmpty ==
  ASSUME NEW g
  PROVE  Total(g, {}) = 0
<1>1. IsFiniteSet({})
  BY FS_EmptySet
<1>2. PICK h : IsSum(g, {}, h) /\ Total(g, {}) = h[{}]
  BY <1>1, TotalIs
<1> QED
  BY <1>2, SumStep DEF Stepwise

(* A total of numbers is a number.                                         *)
LEMMA TotalNat ==
  ASSUME NEW S, IsFiniteSet(S), NEW g, \A x \in S : g[x] \in Nat
  PROVE  Total(g, S) \in Nat
<1>1. PICK h : IsSum(g, S, h) /\ Total(g, S) = h[S]
  BY TotalIs
<1>2. \A s \in SUBSET S : h[s] \in Nat
  BY <1>1, SumNat
<1> QED
  BY <1>1, <1>2

(* Equal summands have the same total.                                     *)
LEMMA TotalSame ==
  ASSUME NEW S, IsFiniteSet(S), NEW g, NEW k, \A x \in S : g[x] = k[x]
  PROVE  Total(g, S) = Total(k, S)
<1>1. PICK h : IsSum(g, S, h) /\ Total(g, S) = h[S]
  BY TotalIs
<1>2. PICK i : IsSum(k, S, i) /\ Total(k, S) = i[S]
  BY TotalIs
<1>3. \A s \in SUBSET S : h[s] = i[s]
  BY <1>1, <1>2, SumSame
<1> QED
  BY <1>1, <1>2, <1>3

(* A total is the total of its parts.                                      *)
LEMMA TotalSplit ==
  ASSUME NEW S, IsFiniteSet(S), NEW g, \A x \in S : g[x] \in Nat, NEW T \in SUBSET S
  PROVE  Total(g, S) = Total(g, T) + Total(g, S \ T)
<1>0. IsFiniteSet(T) /\ IsFiniteSet(S \ T) /\ S \ T \in SUBSET S
  BY FS_Subset
<1>1. PICK h : IsSum(g, S, h) /\ Total(g, S) = h[S]
  BY TotalIs
<1>2. ASSUME NEW U \in SUBSET S, IsFiniteSet(U)
      PROVE  Total(g, U) = h[U]
  <2>1. PICK i : IsSum(g, U, i) /\ Total(g, U) = i[U]
    BY <1>2, TotalIs
  <2>2. \A s \in SUBSET U : h[s] = i[s]
    BY <1>1, <1>2, <2>1, SumSame
  <2> QED
    BY <2>1, <2>2
<1>3. h[S] = h[T] + h[S \ T]
  BY <1>1, SumSplit
<1> QED
  BY <1>0, <1>1, <1>2, <1>3

(* The total of one.                                                       *)
LEMMA TotalOne ==
  ASSUME NEW x, NEW g, g[x] \in Nat
  PROVE  Total(g, {x}) = g[x]
<1> PICK S : S = {x}
  OBVIOUS
<1>1. IsFiniteSet(S)
  BY FS_Singleton
<1>2. PICK h : IsSum(g, S, h) /\ Total(g, S) = h[S]
  BY <1>1, TotalIs
<1>3. h[S] = g[x] + h[S \ {x}]
  <2>1. Stepwise(g, S, h) /\ S \in SUBSET S /\ S # {}
    BY <1>2, SumStep
  <2>2. Pick(S) \in S /\ h[S] = g[Pick(S)] + h[S \ {Pick(S)}]
    BY <2>1 DEF Stepwise
  <2>3. Pick(S) = x
    BY <2>2
  <2> QED
    BY <2>2, <2>3
<1>4. S \ {x} = {}
  OBVIOUS
<1>5. h[{}] = 0
  <2>1. Stepwise(g, S, h) /\ {} \in SUBSET S
    BY <1>2, SumStep
  <2> QED
    BY <2>1 DEF Stepwise
<1> QED
  BY <1>2, <1>3, <1>4, <1>5
=============================================================================
