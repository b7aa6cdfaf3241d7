-------------------------------- MODULE Sums --------------------------------
(***************************************************************************)
(* Lemmas about the sums the money modules take, SumFunction and           *)
(* MapThenSumSet.  Both fold over a finite set in the order in which       *)
(* CHOOSE picks its members.                                               *)
(*                                                                         *)
(* Induction is stated about sets, of numbers and of subsets, that hold    *)
(* what has the property.                                                  *)
(***************************************************************************)
EXTENDS Integers, FiniteSetsExt, FiniteSetTheorems, TLAPS

\* A set that holds 0 and each successor of a member holds every natural.
LEMMA NaturalInduction ==
  ASSUME NEW P, 0 \in P, \A n \in Nat : n \in P => n + 1 \in P
  PROVE  Nat \subseteq P
<1> DEFINE T == Nat \ P
<1>1. SUFFICES ASSUME T # {} PROVE FALSE
  OBVIOUS
<1>2. PICK n \in T : \A m \in T : ~(<<m, n>> \in OpToRel(<, Nat))
  <2>1. T \subseteq Nat
    OBVIOUS
  <2> HIDE DEF T
  <2> QED BY <1>1, <2>1, NatLessThanWellFounded, WFMin
<1>3. n \in Nat /\ n # 0 /\ n - 1 \in Nat
  OBVIOUS
<1>4. <<n - 1, n>> \in OpToRel(<, Nat)
  <2>1. \A a, b \in Nat : a < b => <<a, b>> \in OpToRel(<, Nat)
    BY DEF OpToRel
  <2>2. n - 1 < n
    BY <1>3
  <2> QED BY <1>3, <2>1, <2>2
<1>5. n - 1 \in P
  <2>1. n - 1 \notin T
    BY <1>2, <1>4
  <2> QED BY <1>3, <2>1
<1>6. (n - 1) + 1 \in P /\ (n - 1) + 1 = n
  BY <1>3, <1>5
<1> QED BY <1>6

\* A set of subsets of a finite set that holds {}, and whatever is a member
\* once it is a member without one of its elements, holds the whole set.
LEMMA SubsetInduction ==
  ASSUME NEW S, IsFiniteSet(S), NEW P,
         {} \in P,
         \A s \in SUBSET S : s # {} /\ (\A x \in s : s \ {x} \in P) => s \in P
  PROVE  S \in P
<1> DEFINE Q == {n \in Nat : \A s \in SUBSET S : Cardinality(s) = n => s \in P}
<1>1. \A s \in SUBSET S : /\ IsFiniteSet(s) /\ Cardinality(s) \in Nat
                          /\ Cardinality(s) = 0 => s = {}
                          /\ \A x \in s : Cardinality(s \ {x}) = Cardinality(s) - 1
  BY FS_Subset, FS_CardinalityType, FS_EmptySet, FS_RemoveElement
<1>2. 0 \in Q
  BY <1>1
<1>3. ASSUME NEW n \in Nat, n \in Q PROVE n + 1 \in Q
  <2> SUFFICES ASSUME NEW s \in SUBSET S, Cardinality(s) = n + 1 PROVE s \in P
    OBVIOUS
  <2>1. s # {}
    BY <1>1, FS_EmptySet
  <2>2. ASSUME NEW x \in s PROVE s \ {x} \in P
    BY <1>1, <1>3
  <2> QED BY <2>1, <2>2
<1>4. Nat \subseteq Q
  <2> HIDE DEF Q
  <2> QED BY <1>2, <1>3, NaturalInduction
<1> QED BY <1>1, <1>4
-----------------------------------------------------------------------------
\* The member of a set that a fold takes first.
First(S) == CHOOSE x \in S : TRUE

\* g is the sum of fun over every subset of S.
IsSum(fun, S, g) ==
  g = [s \in SUBSET S |-> IF s = {} THEN 0 ELSE fun[First(s)] + g[s \ {First(s)}]]

LEMMA FirstIsMember == ASSUME NEW S, S # {} PROVE First(S) \in S
BY DEF First

LEMMA SumExists ==
  ASSUME NEW fun, NEW S, IsFiniteSet(S)
  PROVE  \E g : IsSum(fun, S, g)
<1> DEFINE Small(n) == {s \in SUBSET S : Cardinality(s) <= n}
           Body(g, s) == IF s = {} THEN 0 ELSE fun[First(s)] + g[s \ {First(s)}]
           Q == {n \in Nat : \E g : g = [s \in Small(n) |-> Body(g, s)]}
<1>1. \A s \in SUBSET S : /\ Cardinality(s) \in Nat
                          /\ Cardinality(s) = 0 <=> s = {}
                          /\ Cardinality(s) <= Cardinality(S)
                          /\ \A x \in s : Cardinality(s \ {x}) = Cardinality(s) - 1
  BY FS_Subset, FS_CardinalityType, FS_EmptySet, FS_RemoveElement
<1>2. 0 \in Q
  <2> DEFINE g == [s \in Small(0) |-> 0]
  <2>1. \A s \in Small(0) : s = {}
    BY <1>1
  <2>2. g = [s \in Small(0) |-> Body(g, s)]
    BY <2>1
  <2> QED BY <2>2
<1>3. ASSUME NEW n \in Nat, n \in Q PROVE n + 1 \in Q
  <2>1. PICK g : g = [s \in Small(n) |-> Body(g, s)]
    BY <1>3
  <2> DEFINE h == [s \in Small(n + 1) |-> Body(g, s)]
  <2>2. ASSUME NEW s \in Small(n + 1), NEW x \in s PROVE h[s \ {x}] = g[s \ {x}]
    <3>1. s \ {x} \in Small(n) /\ s \ {x} \in Small(n + 1)
      BY <1>1
    <3>2. h[s \ {x}] = Body(g, s \ {x})
      BY <3>1
    <3>3. g[s \ {x}] = Body(g, s \ {x})
      BY <2>1, <3>1
    <3> QED BY <3>2, <3>3
  <2>3. ASSUME NEW s \in Small(n + 1) PROVE Body(g, s) = Body(h, s)
    <3>1. CASE s = {}
      BY <3>1
    <3>2. CASE s # {}
      BY <2>2, <3>2, FirstIsMember
    <3> QED BY <3>1, <3>2
  <2>4. h = [s \in Small(n + 1) |-> Body(h, s)]
    <3> HIDE DEF Body, Small
    <3> QED BY <2>3
  <2>5. \E f : f = [s \in Small(n + 1) |-> Body(f, s)]
    <3> HIDE DEF h, Small, Body
    <3> QED BY <2>4
  <2>6. n + 1 \in Nat
    OBVIOUS
  <2> QED BY <2>5, <2>6, Zenon
<1>4. Cardinality(S) \in Q
  <2> HIDE DEF Q
  <2> QED BY <1>1, <1>2, <1>3, NaturalInduction, FS_CardinalityType
<1>5. Small(Cardinality(S)) = SUBSET S
  BY <1>1
<1>6. PICK g : g = [s \in Small(Cardinality(S)) |-> Body(g, s)]
  BY <1>4
<1>7. g = [s \in SUBSET S |-> Body(g, s)]
  <2> HIDE DEF Small, Body
  <2> QED BY <1>5, <1>6
<1> QED BY <1>7 DEF IsSum

\* Its value at a set without and with members.
LEMMA SumAtNone == ASSUME NEW fun, NEW S, NEW g, IsSum(fun, S, g) PROVE g[{}] = 0
<1>1. \A s \in SUBSET S : g[s] = IF s = {} THEN 0 ELSE fun[First(s)] + g[s \ {First(s)}]
  BY Zenon DEF IsSum
<1> QED BY <1>1

LEMMA SumAtSome ==
  ASSUME NEW fun, NEW S, NEW g, IsSum(fun, S, g), NEW s \in SUBSET S, s # {}
  PROVE  \E x \in s : x = First(s) /\ g[s] = fun[x] + g[s \ {x}]
<1>1. g[s] = IF s = {} THEN 0 ELSE fun[First(s)] + g[s \ {First(s)}]
  BY Zenon DEF IsSum
<1> QED BY <1>1, FirstIsMember

\* Whatever else the functions and the sets contain, their sums over a set
\* on which the functions agree are the same.
LEMMA SumUnique ==
  ASSUME NEW R, IsFiniteSet(R), NEW S, NEW T, R \subseteq S, R \subseteq T,
         NEW fun, NEW gun, \A x \in R : fun[x] = gun[x],
         NEW g, NEW h, IsSum(fun, S, g), IsSum(gun, T, h)
  PROVE  g[R] = h[R]
<1> DEFINE P == {s \in SUBSET R : g[s] = h[s]}
<1>1. {} \in P
  <2>1. g[{}] = 0 /\ h[{}] = 0
    BY SumAtNone
  <2> QED BY <2>1
<1>2. ASSUME NEW s \in SUBSET R, s # {}, \A x \in s : s \ {x} \in P PROVE s \in P
  <2>1. s \in SUBSET S /\ s \in SUBSET T
    OBVIOUS
  <2>2. PICK x \in s : x = First(s) /\ g[s] = fun[x] + g[s \ {x}]
    BY <1>2, <2>1, SumAtSome
  <2>3. PICK y \in s : y = First(s) /\ h[s] = gun[y] + h[s \ {y}]
    BY <1>2, <2>1, SumAtSome
  <2>4. fun[x] = gun[x] /\ g[s \ {x}] = h[s \ {x}]
    BY <1>2
  <2> QED BY <2>2, <2>3, <2>4
<1>3. R \in P
  <2> HIDE DEF P
  <2> QED BY <1>1, <1>2, SubsetInduction
<1> QED BY <1>3
-----------------------------------------------------------------------------
\* The sum of fun over S.
Sum(fun, S) == (CHOOSE g : IsSum(fun, S, g))[S]

LEMMA SumOf ==
  ASSUME NEW fun, NEW S, IsFiniteSet(S)
  PROVE  \E g : IsSum(fun, S, g) /\ \A s \in SUBSET S : g[s] = Sum(fun, s)
<1>1. PICK g : IsSum(fun, S, g) /\ g = CHOOSE h : IsSum(fun, S, h)
  BY SumExists
<1>2. ASSUME NEW s \in SUBSET S PROVE g[s] = Sum(fun, s)
  <2>1. IsFiniteSet(s)
    BY FS_Subset
  <2>2. PICK h : IsSum(fun, s, h) /\ h = CHOOSE f : IsSum(fun, s, f)
    BY <2>1, SumExists
  <2>3. g[s] = h[s]
    BY <1>1, <2>1, <2>2, SumUnique
  <2> QED BY <2>2, <2>3 DEF Sum
<1> QED BY <1>1, <1>2

\* What is summed up is decided by what the function says of the set.
LEMMA SumCongruence ==
  ASSUME NEW S, IsFiniteSet(S), NEW fun, NEW gun, \A x \in S : fun[x] = gun[x]
  PROVE  Sum(fun, S) = Sum(gun, S)
BY SumOf, SumUnique

LEMMA SumOfNone == ASSUME NEW fun PROVE Sum(fun, {}) = 0
<1>1. PICK g : IsSum(fun, {}, g) /\ g[{}] = Sum(fun, {})
  BY SumOf, FS_EmptySet
<1> QED BY <1>1, SumAtNone

\* Sums of integers are integers, and of naturals naturals.
LEMMA SumTyped ==
  ASSUME NEW S, IsFiniteSet(S), NEW fun, NEW N \in {Nat, Int}, \A x \in S : fun[x] \in N
  PROVE  Sum(fun, S) \in N
<1>1. PICK g : IsSum(fun, S, g) /\ \A s \in SUBSET S : g[s] = Sum(fun, s)
  BY SumOf
<1> DEFINE P == {s \in SUBSET S : g[s] \in N}
<1>2. {} \in P
  <2>1. g[{}] = 0
    BY <1>1, SumAtNone
  <2> QED BY <2>1
<1>3. ASSUME NEW s \in SUBSET S, s # {}, \A x \in s : s \ {x} \in P PROVE s \in P
  <2>1. PICK x \in s : g[s] = fun[x] + g[s \ {x}]
    BY <1>1, <1>3, SumAtSome
  <2>2. fun[x] \in N /\ g[s \ {x}] \in N
    BY <1>3
  <2> QED BY <2>1, <2>2
<1>4. S \in P
  <2> HIDE DEF P
  <2> QED BY <1>2, <1>3, SubsetInduction
<1> QED BY <1>1, <1>4

\* Any member may come first.
LEMMA SumWithout ==
  ASSUME NEW S, IsFiniteSet(S), NEW fun, \A x \in S : fun[x] \in Int, NEW a \in S
  PROVE  Sum(fun, S) = fun[a] + Sum(fun, S \ {a})
<1>1. PICK g : IsSum(fun, S, g) /\ \A s \in SUBSET S : g[s] = Sum(fun, s)
  BY SumOf
<1>2. \A s \in SUBSET S : g[s] \in Int
  BY <1>1, SumTyped, FS_Subset
<1> DEFINE P == {s \in SUBSET S : \A y \in s : g[s] = fun[y] + g[s \ {y}]}
<1>3. {} \in P
  OBVIOUS
<1>4. ASSUME NEW s \in SUBSET S, s # {}, \A x \in s : s \ {x} \in P PROVE s \in P
  <2> SUFFICES ASSUME NEW y \in s PROVE g[s] = fun[y] + g[s \ {y}]
    OBVIOUS
  <2>1. PICK x \in s : g[s] = fun[x] + g[s \ {x}]
    BY <1>1, <1>4, SumAtSome
  <2>2. CASE y = x
    BY <2>1, <2>2
  <2>3. CASE y # x
    <3>1. y \in s \ {x} /\ x \in s \ {y} /\ (s \ {x}) \ {y} = (s \ {y}) \ {x}
      BY <2>3
    <3>2. g[s \ {x}] = fun[y] + g[(s \ {x}) \ {y}]
      BY <1>4, <3>1
    <3>3. g[s \ {y}] = fun[x] + g[(s \ {y}) \ {x}]
      BY <1>4, <3>1
    <3>4. fun[x] \in Int /\ fun[y] \in Int /\ g[(s \ {x}) \ {y}] \in Int
      BY <1>2
    <3>5. g[(s \ {x}) \ {y}] = g[(s \ {y}) \ {x}]
      BY <3>1
    <3> QED BY <2>1, <3>2, <3>3, <3>4, <3>5
  <2> QED BY <2>2, <2>3
<1>5. S \in P
  <2> HIDE DEF P
  <2> QED BY <1>3, <1>4, SubsetInduction
<1> QED BY <1>1, <1>5

\* A sum over two sets without a common member is taken over one and the other.
LEMMA SumOfUnion ==
  ASSUME NEW S, IsFiniteSet(S), NEW fun, \A x \in S : fun[x] \in Int,
         NEW A \in SUBSET S, NEW B \in SUBSET S, A \cap B = {}
  PROVE  Sum(fun, A \cup B) = Sum(fun, A) + Sum(fun, B)
<1> DEFINE P == {s \in SUBSET B : Sum(fun, A \cup s) = Sum(fun, A) + Sum(fun, s)}
<1>1. \A s \in SUBSET S : IsFiniteSet(s) /\ Sum(fun, s) \in Int
  BY FS_Subset, SumTyped
<1>2. {} \in P
  <2>1. Sum(fun, {}) = 0 /\ A \cup {} = A /\ Sum(fun, A) \in Int
    BY <1>1, SumOfNone
  <2> QED BY <2>1
<1>3. ASSUME NEW s \in SUBSET B, s # {}, \A x \in s : s \ {x} \in P PROVE s \in P
  <2>1. PICK x \in s : TRUE
    BY <1>3
  <2>2. (A \cup s) \ {x} = A \cup (s \ {x})
    OBVIOUS
  <2>3. Sum(fun, A \cup s) = fun[x] + Sum(fun, (A \cup s) \ {x})
    <3>1. A \cup s \in SUBSET S /\ x \in A \cup s /\ \A y \in A \cup s : fun[y] \in Int
      OBVIOUS
    <3> QED BY <1>1, <3>1, SumWithout
  <2>4. Sum(fun, s) = fun[x] + Sum(fun, s \ {x})
    BY <1>1, SumWithout
  <2>5. Sum(fun, A \cup (s \ {x})) = Sum(fun, A) + Sum(fun, s \ {x})
    BY <1>3
  <2>6. fun[x] \in Int /\ Sum(fun, A) \in Int /\ Sum(fun, s \ {x}) \in Int
    BY <1>1
  <2>7. Sum(fun, A \cup s) = Sum(fun, A) + Sum(fun, s)
    <3>1. Sum(fun, A \cup s) = fun[x] + Sum(fun, A \cup (s \ {x}))
      BY <2>2, <2>3
    <3> QED BY ONLY <2>4, <2>5, <2>6, <3>1
  <2> QED BY <2>7
<1>4. B \in P
  <2>1. IsFiniteSet(B)
    BY <1>1
  <2> HIDE DEF P
  <2> QED BY <1>2, <1>3, <2>1, SubsetInduction
<1> QED BY <1>4

\* Columns that balance in every row balance in their sums.
LEMMA SumsBalance ==
  ASSUME NEW S, IsFiniteSet(S), NEW f, NEW g, NEW h, NEW k,
         \A x \in S : /\ f[x] \in Int /\ g[x] \in Int /\ h[x] \in Int /\ k[x] \in Int
                     /\ f[x] + g[x] = h[x] + k[x]
  PROVE  Sum(f, S) + Sum(g, S) = Sum(h, S) + Sum(k, S)
<1> DEFINE P == {s \in SUBSET S : Sum(f, s) + Sum(g, s) = Sum(h, s) + Sum(k, s)}
<1>1. {} \in P
  <2>1. Sum(f, {}) = 0 /\ Sum(g, {}) = 0 /\ Sum(h, {}) = 0 /\ Sum(k, {}) = 0
    BY SumOfNone
  <2> QED BY <2>1
<1>2. ASSUME NEW s \in SUBSET S, s # {}, \A x \in s : s \ {x} \in P PROVE s \in P
  <2>1. PICK x \in s : TRUE
    BY <1>2
  <2>2. IsFiniteSet(s) /\ IsFiniteSet(s \ {x})
    BY FS_Subset
  <2>3. /\ Sum(f, s) = f[x] + Sum(f, s \ {x}) /\ Sum(g, s) = g[x] + Sum(g, s \ {x})
        /\ Sum(h, s) = h[x] + Sum(h, s \ {x}) /\ Sum(k, s) = k[x] + Sum(k, s \ {x})
    BY <2>2, SumWithout
  <2>4. /\ Sum(f, s \ {x}) \in Int /\ Sum(g, s \ {x}) \in Int
        /\ Sum(h, s \ {x}) \in Int /\ Sum(k, s \ {x}) \in Int
    BY <2>2, SumTyped
  <2>5. Sum(f, s \ {x}) + Sum(g, s \ {x}) = Sum(h, s \ {x}) + Sum(k, s \ {x})
    BY <1>2
  <2>6. f[x] \in Int /\ g[x] \in Int /\ h[x] \in Int /\ k[x] \in Int /\ f[x] + g[x] = h[x] + k[x]
    OBVIOUS
  <2>7. Sum(f, s) + Sum(g, s) = Sum(h, s) + Sum(k, s)
    BY ONLY <2>3, <2>4, <2>5, <2>6
  <2> QED BY <2>7
<1>3. S \in P
  <2> HIDE DEF P
  <2> QED BY <1>1, <1>2, SubsetInduction
<1> QED BY <1>3

\* A running total that grows at each number of S by what fun says of it.
LEMMA SumOfSteps ==
  ASSUME NEW N \in Nat, NEW S \in SUBSET (1 .. N), NEW fun, \A x \in S : fun[x] \in Int,
         NEW total, total[0] = 0,
         \A n \in 0 .. N - 1 :
           total[n + 1] = IF n + 1 \in S THEN fun[n + 1] + total[n] ELSE total[n]
  PROVE  Sum(fun, S) = total[N]
<1> DEFINE UpTo(n) == {x \in S : x <= n}
           P == {n \in Nat : n <= N => Sum(fun, UpTo(n)) = total[n]}
<1>1. 0 \in P
  <2>1. UpTo(0) = {}
    <3>1. \A x \in S : ~(x <= 0)
      OBVIOUS
    <3> QED BY <3>1
  <2>2. Sum(fun, {}) = 0
    BY SumOfNone
  <2> QED BY <2>1, <2>2
<1>2. ASSUME NEW n \in Nat, n \in P PROVE n + 1 \in P
  <2> SUFFICES ASSUME n + 1 <= N PROVE Sum(fun, UpTo(n + 1)) = total[n + 1]
    OBVIOUS
  <2>1. n \in 0 .. N - 1 /\ Sum(fun, UpTo(n)) = total[n]
    BY <1>2
  <2>2. CASE n + 1 \in S
    <3>1. n + 1 \in UpTo(n + 1) /\ UpTo(n + 1) \ {n + 1} = UpTo(n)
      <4>1. \A x \in S : x \in Int /\ (x <= n <=> x <= n + 1 /\ x # n + 1)
        OBVIOUS
      <4>2. n + 1 <= n + 1
        OBVIOUS
      <4> QED BY <2>2, <4>1, <4>2
    <3>2. IsFiniteSet(UpTo(n + 1))
      <4>1. IsFiniteSet(1 .. N)
        BY FS_Interval
      <4>2. UpTo(n + 1) \subseteq 1 .. N
        OBVIOUS
      <4> HIDE DEF UpTo
      <4> QED BY <4>1, <4>2, FS_Subset
    <3>3. \A x \in UpTo(n + 1) : fun[x] \in Int
      OBVIOUS
    <3>4. Sum(fun, UpTo(n + 1)) = fun[n + 1] + Sum(fun, UpTo(n))
      <4> HIDE DEF UpTo
      <4> QED BY <3>1, <3>2, <3>3, SumWithout
    <3> QED BY <2>1, <2>2, <3>4
  <2>3. CASE n + 1 \notin S
    <3>1. UpTo(n + 1) = UpTo(n)
      <4>1. \A x \in S : x <= n <=> x <= n + 1
        BY <2>3
      <4> QED BY <4>1
    <3> QED BY <2>1, <2>3, <3>1
  <2> QED BY <2>2, <2>3
<1>3. N \in P
  <2> HIDE DEF P
  <2> QED BY <1>1, <1>2, NaturalInduction
<1>4. UpTo(N) = S
  <2>1. \A x \in S : x <= N
    OBVIOUS
  <2> QED BY <2>1
<1> QED BY <1>3, <1>4

LEMMA ImageIsFinite ==
  ASSUME NEW S, IsFiniteSet(S), NEW image
  PROVE  IsFiniteSet({image[x] : x \in S})
<1>1. [x \in S |-> image[x]] \in Surjection(S, {image[x] : x \in S})
  BY DEF Surjection
<1> QED BY <1>1, FS_Surjection

\* A sum over a set, and over its image under a function that tells its
\* members apart.
LEMMA SumOfImage ==
  ASSUME NEW S, IsFiniteSet(S), NEW image,
         \A x, y \in S : image[x] = image[y] => x = y,
         NEW fun, NEW gun,
         \A x \in S : fun[x] \in Int /\ gun[image[x]] = fun[x]
  PROVE  Sum(gun, {image[x] : x \in S}) = Sum(fun, S)
<1> DEFINE Image(s) == {image[x] : x \in s}
           P == {s \in SUBSET S : Sum(gun, Image(s)) = Sum(fun, s)}
<1>1. {} \in P
  <2>1. Image({}) = {}
    OBVIOUS
  <2> QED BY <2>1, SumOfNone
<1>2. ASSUME NEW s \in SUBSET S, s # {}, \A x \in s : s \ {x} \in P PROVE s \in P
  <2>1. PICK x \in s : TRUE
    BY <1>2
  <2>2. Image(s \ {x}) = Image(s) \ {image[x]} /\ image[x] \in Image(s)
    OBVIOUS
  <2>3. IsFiniteSet(s) /\ IsFiniteSet(Image(s))
    BY FS_Subset, ImageIsFinite
  <2>4. \A y \in Image(s) : gun[y] \in Int
    OBVIOUS
  <2>5. Sum(gun, Image(s)) = gun[image[x]] + Sum(gun, Image(s) \ {image[x]})
    <3> HIDE DEF Image
    <3> QED BY <2>2, <2>3, <2>4, SumWithout
  <2>6. Sum(fun, s) = fun[x] + Sum(fun, s \ {x})
    BY <2>3, SumWithout
  <2>7. Sum(gun, Image(s \ {x})) = Sum(fun, s \ {x})
    BY <1>2
  <2> QED BY <2>2, <2>5, <2>6, <2>7
<1>3. S \in P
  <2> HIDE DEF P
  <2> QED BY <1>1, <1>2, SubsetInduction
<1> QED BY <1>3
-----------------------------------------------------------------------------
\* The two sums of the money modules.
LEMMA SumFunctionIsSum == ASSUME NEW fun PROVE SumFunction(fun) = Sum(fun, DOMAIN fun)
BY Zenon DEF SumFunction, SumFunctionOnSet, FoldFunctionOnSet, MapThenFoldSet, Sum, IsSum, First

LEMMA SumOfCommissions ==
  ASSUME NEW S, IsFiniteSet(S)
  PROVE  MapThenSumSet(LAMBDA item : item.commission, S)
           = Sum([item \in S |-> item.commission], S)
<1> DEFINE fun == [item \in S |-> item.commission]
           Folds(g) == g = [s \in SUBSET S |-> IF s = {} THEN 0
                              ELSE First(s).commission + g[s \ {First(s)}]]
<1>1. MapThenSumSet(LAMBDA item : item.commission, S) = (CHOOSE g : Folds(g))[S]
  BY Zenon DEF MapThenSumSet, MapThenFoldSet, First
<1>2. ASSUME NEW g PROVE Folds(g) <=> IsSum(fun, S, g)
  <2>1. ASSUME NEW s \in SUBSET S, s # {} PROVE fun[First(s)] = First(s).commission
    BY <2>1, FirstIsMember
  <2> HIDE DEF fun
  <2> QED BY <2>1 DEF IsSum
<1>3. PICK h : IsSum(fun, S, h) /\ h[S] = Sum(fun, S)
  BY SumOf
<1>4. PICK f : Folds(f) /\ f = CHOOSE g : Folds(g)
  BY <1>2, <1>3
<1>5. f[S] = h[S]
  <2> HIDE DEF fun, Folds
  <2> QED BY <1>2, <1>3, <1>4, SumUnique
<1> QED BY <1>1, <1>3, <1>4, <1>5
=============================================================================
