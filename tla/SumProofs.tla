------------------------------ MODULE SumProofs ------------------------------
(***************************************************************************)
(* Facts about SumFunction, the sum of a function over a finite set, that  *)
(* the theorems about stock and journal rest on.  It folds over an order   *)
(* nobody knows; what it returns does not depend on that order.            *)
(*                                                                         *)
(* The induction is on finite sets, in the form of FiniteSubsetsFrom: a    *)
(* set of subsets that has every one whose smaller subsets it has, has     *)
(* them all.                                                               *)
(***************************************************************************)
EXTENDS Integers, Sequences, Functions, SequenceTheorems, FunctionTheorems,
        FiniteSetTheorems, WellFoundedInduction, TLAPS

\* A set of numbers has a least one.
LEMMA LeastOf ==
    ASSUME NEW T, T \subseteq Nat, T # {}
    PROVE  \E x \in T : \A y \in T : x <= y
<1>1. \E x \in T : \A y \in T : ~ (<<y, x>> \in OpToRel(<,Nat))
  BY WFMin, NatLessThanWellFounded, Zenon
<1>2. PICK x \in T : \A y \in T : ~ (<<y, x>> \in OpToRel(<,Nat))
  BY <1>1
<1>3. \A y \in T : ~(y < x)
  BY <1>2 DEF OpToRel
<1>. QED
  BY <1>3

\* A set G of subsets of U that has s as soon as it has s less any one of its
\* elements, has every finite subset of U.
LEMMA FiniteSubsetsFrom ==
    ASSUME NEW U, IsFiniteSet(U), NEW G,
           \A s \in SUBSET U : (\A x \in s : s \ {x} \in G) => s \in G
    PROVE  \A s \in SUBSET U : s \in G
<1> DEFINE T == {s \in SUBSET U : s \notin G}
<1>1. SUFFICES ASSUME T # {} PROVE FALSE
  OBVIOUS
<1>2. IsWellFoundedOn(StrictSubsetOrdering(U), SUBSET U)
  BY FS_StrictSubsetOrderingWellFounded, FS_FiniteSubsetsOfFinite
<1>3. PICK s \in T : \A t \in T : <<t, s>> \notin StrictSubsetOrdering(U)
  <2>1. T \subseteq SUBSET U /\ T # {}
    BY <1>1
  <2> HIDE DEF T
  <2>2. QED
    BY <1>2, <2>1, WFMin
<1>4. ASSUME NEW x \in s PROVE s \ {x} \in G
  <2>1. <<s \ {x}, s>> \in StrictSubsetOrdering(U)
    BY <1>3 DEF StrictSubsetOrdering
  <2>2. QED
    BY <1>3, <2>1
<1>5. QED
  BY <1>3, <1>4

(***************************************************************************)
(* The fold behind SumFunction                                             *)
(***************************************************************************)
Pick(s) == CHOOSE x \in s : TRUE

IsFold(g, f, S) ==
    g = [s \in SUBSET S |-> IF s = {} THEN 0 ELSE f[Pick(s)] + g[s \ {Pick(s)}]]

\* SumFunction is the value of such a fold, on all that f is defined on.
LEMMA SumIsAFold ==
    ASSUME NEW f
    PROVE  SumFunction(f) = (CHOOSE g : IsFold(g, f, DOMAIN f))[DOMAIN f]
BY DEF SumFunction, SumFunctionOnSet, FoldFunctionOnSet, MapThenFoldSet, IsFold, Pick

\* What is picked from a set that is not empty is in it.
LEMMA PickedIsThere ==
    ASSUME NEW s, s # {}
    PROVE  Pick(s) \in s
BY DEF Pick

\* One turn of a fold.
LEMMA FoldTurn ==
    ASSUME NEW S, NEW f, NEW g, IsFold(g, f, S), NEW s \in SUBSET S
    PROVE  /\ s = {} => g[s] = 0
           /\ s # {} => g[s] = f[Pick(s)] + g[s \ {Pick(s)}]
<1>1. g[s] = [t \in SUBSET S |->
                 IF t = {} THEN 0 ELSE f[Pick(t)] + g[t \ {Pick(t)}]][s]
  BY DEF IsFold
<1>2. QED
  BY <1>1

\* Two folds agree on a finite set where their functions do.
LEMMA FoldsAgree ==
    ASSUME NEW S, NEW T, NEW f, NEW e, NEW g, NEW h, IsFold(g, f, S), IsFold(h, e, T),
           NEW U \in SUBSET (S \cap T), IsFiniteSet(U),
           \A x \in U : f[x] = e[x]
    PROVE  g[U] = h[U]
<1> DEFINE G == {s \in SUBSET U : g[s] = h[s]}
<1>1. ASSUME NEW s \in SUBSET U, \A x \in s : s \ {x} \in G
      PROVE  s \in G
  <2>1. CASE s = {}
    BY <2>1, FoldTurn
  <2>2. CASE s # {}
    <3>1. Pick(s) \in s
      BY <2>2, PickedIsThere
    <3>2. s \in SUBSET S /\ s \in SUBSET T
      OBVIOUS
    <3>3. /\ g[s] = f[Pick(s)] + g[s \ {Pick(s)}]
          /\ h[s] = e[Pick(s)] + h[s \ {Pick(s)}]
      BY <2>2, <3>2, FoldTurn
    <3>4. f[Pick(s)] = e[Pick(s)] /\ g[s \ {Pick(s)}] = h[s \ {Pick(s)}]
      BY <1>1, <3>1
    <3>5. QED
      BY <3>3, <3>4
  <2>3. QED
    BY <2>1, <2>2
<1>2. \A s \in SUBSET U : s \in G
  <2> HIDE DEF G
  <2>1. QED
    BY <1>1, FiniteSubsetsFrom
<1>3. QED
  BY <1>2

\* There is a fold of any function over a finite set.
LEMMA FoldExists ==
    ASSUME NEW f, NEW S, IsFiniteSet(S)
    PROVE  \E g : IsFold(g, f, S)
<1> DEFINE G == {s \in SUBSET S : \E g : IsFold(g, f, s)}
<1>1. ASSUME NEW s \in SUBSET S, \A x \in s : s \ {x} \in G
      PROVE  s \in G
  <2> DEFINE h(x) == CHOOSE g : IsFold(g, f, s \ {x})
             out(t) == CHOOSE x \in s : x \notin t
             below(t) == h(out(t))[t]
             g == [t \in SUBSET s |->
                      IF t = {} THEN 0
                      ELSE f[Pick(t)] + below(t \ {Pick(t)})]
  <2>1. ASSUME NEW x \in s PROVE IsFold(h(x), f, s \ {x})
    BY <1>1
  <2>2. ASSUME NEW t \in SUBSET s, t # s
        PROVE  /\ out(t) \in s /\ t \in SUBSET (s \ {out(t)})
               /\ IsFold(h(out(t)), f, s \ {out(t)})
    <3>1. \E x \in s : x \notin t
      BY <2>2
    <3>2. out(t) \in s /\ out(t) \notin t
      BY <3>1
    <3>3. QED
      BY <2>1, <3>2
  <2> HIDE DEF h, out
  <2>3. ASSUME NEW t \in SUBSET s, t # s, t # {}
        PROVE  below(t) = f[Pick(t)] + below(t \ {Pick(t)})
    <3> DEFINE u == t \ {Pick(t)}
    <3>1. Pick(t) \in t
      BY <2>3, PickedIsThere
    <3>2. u \in SUBSET s /\ u # s
      BY <3>1
    <3>3. below(t) = f[Pick(t)] + h(out(t))[u]
      <4>1. t \in SUBSET (s \ {out(t)}) /\ IsFold(h(out(t)), f, s \ {out(t)})
        BY <2>2, <2>3
      <4>2. h(out(t))[t] = f[Pick(t)] + h(out(t))[t \ {Pick(t)}]
        <5> HIDE DEF u, g, below
        <5>1. QED
          BY <2>3, <4>1, FoldTurn
      <4>3. QED
        BY <4>2
    <3>4. h(out(t))[u] = h(out(u))[u]
      <4>1. IsFiniteSet(u)
        BY FS_Subset
      <4>2. /\ u \in SUBSET ((s \ {out(t)}) \cap (s \ {out(u)}))
            /\ IsFold(h(out(t)), f, s \ {out(t)})
            /\ IsFold(h(out(u)), f, s \ {out(u)})
        BY <2>2, <2>3, <3>1, <3>2
      <4> HIDE DEF u
      <4>3. QED
        BY <4>1, <4>2, FoldsAgree
    <3>5. QED
      BY <3>3, <3>4
  <2>4. ASSUME NEW t \in SUBSET s, t # s
        PROVE  below(t) = g[t]
    <3>1. CASE t = {}
      <4>1. below(t) = 0
        <5>1. t \in SUBSET (s \ {out(t)}) /\ IsFold(h(out(t)), f, s \ {out(t)})
          BY <2>2, <2>4
        <5>2. h(out(t))[t] = 0
          <6> HIDE DEF g, below
          <6>1. QED
            BY <3>1, <5>1, FoldTurn
        <5>3. QED
          BY <5>2
      <4>2. QED
        BY <3>1, <4>1
    <3>2. CASE t # {}
      BY <2>3, <2>4, <3>2
    <3>3. QED
      BY <3>1, <3>2
  <2>5. ASSUME NEW t \in SUBSET s, t # {}
        PROVE  below(t \ {Pick(t)}) = g[t \ {Pick(t)}]
    <3>1. Pick(t) \in t
      BY <2>5, PickedIsThere
    <3>2. t \ {Pick(t)} \in SUBSET s /\ t \ {Pick(t)} # s
      BY <3>1
    <3> HIDE DEF below, g
    <3>3. QED
      BY <2>4, <3>2
  <2>6. g = [t \in SUBSET s |-> IF t = {} THEN 0 ELSE f[Pick(t)] + g[t \ {Pick(t)}]]
    <3>1. ASSUME NEW t \in SUBSET s
          PROVE  (IF t = {} THEN 0 ELSE f[Pick(t)] + below(t \ {Pick(t)}))
                   = (IF t = {} THEN 0 ELSE f[Pick(t)] + g[t \ {Pick(t)}])
      <4> HIDE DEF below, g
      <4>1. QED
        BY <2>5
    <3>2. g = [t \in SUBSET s |->
                 IF t = {} THEN 0 ELSE f[Pick(t)] + below(t \ {Pick(t)})]
      OBVIOUS
    <3> HIDE DEF below, g
    <3>3. QED
      BY <3>1, <3>2
  <2>7. IsFold(g, f, s)
    <3> HIDE DEF g
    <3>1. QED
      BY <2>6 DEF IsFold
  <2> HIDE DEF g
  <2>8. QED
    BY <2>7
<1>2. \A s \in SUBSET S : s \in G
  <2> HIDE DEF G
  <2>1. QED
    BY <1>1, FiniteSubsetsFrom
<1>3. QED
  BY <1>2

(***************************************************************************)
(* The sum of a function over a finite set                                 *)
(***************************************************************************)
\* The sum starts with what is picked first.
LEMMA SumTurn ==
    ASSUME NEW S, IsFiniteSet(S), NEW f, DOMAIN f = S
    PROVE  /\ S = {} => SumFunction(f) = 0
           /\ S # {} => SumFunction(f) = f[Pick(S)] + SumFunction(Restrict(f, S \ {Pick(S)}))
<1> DEFINE U == S \ {Pick(S)}
           e == Restrict(f, U)
           g == CHOOSE g : IsFold(g, f, S)
           h == CHOOSE h : IsFold(h, e, U)
<1>1. IsFold(g, f, S) /\ SumFunction(f) = g[S]
  BY FoldExists, SumIsAFold
<1>2. IsFiniteSet(U) /\ DOMAIN e = U /\ \A x \in U : e[x] = f[x]
  BY FS_RemoveElement DEF Restrict
<1> HIDE DEF g, e
<1>3. IsFold(h, e, U) /\ SumFunction(e) = h[U]
  BY <1>2, FoldExists, SumIsAFold
<1> HIDE DEF h
<1>4. S = {} => g[S] = 0
  <2>1. \A s \in SUBSET S : s = {} => g[s] = 0
    BY <1>1, FoldTurn
  <2>2. QED
    BY <2>1
<1>5. S # {} => g[S] = f[Pick(S)] + g[U]
  BY <1>1, FoldTurn
<1>6. g[U] = h[U]
  <2>1. U \in SUBSET (S \cap U)
    OBVIOUS
  <2> HIDE DEF U
  <2>2. QED
    BY <1>1, <1>2, <1>3, <2>1, FoldsAgree
<1>7. QED
  BY <1>1, <1>3, <1>4, <1>5, <1>6 DEF e

\* A function is all there is to its sum.
LEMMA RestrictAll ==
    ASSUME NEW S, NEW R, NEW f \in [S -> R]
    PROVE  Restrict(f, S) = f
BY DEF Restrict

LEMMA RestrictTwice ==
    ASSUME NEW S, NEW f, NEW T \in SUBSET S
    PROVE  Restrict(Restrict(f, S), T) = Restrict(f, T)
BY DEF Restrict

LEMMA RestrictType ==
    ASSUME NEW S, NEW R, NEW f \in [S -> R], NEW T \in SUBSET S
    PROVE  /\ Restrict(f, T) \in [T -> R] /\ DOMAIN Restrict(f, T) = T
           /\ \A x \in T : Restrict(f, T)[x] = f[x]
BY DEF Restrict

\* A sum of integers is one.
LEMMA SumIsInt ==
    ASSUME NEW S, IsFiniteSet(S), NEW f \in [S -> Int]
    PROVE  SumFunction(f) \in Int
<1> DEFINE G == {s \in SUBSET S : SumFunction(Restrict(f, s)) \in Int}
<1>1. ASSUME NEW s \in SUBSET S, \A x \in s : s \ {x} \in G
      PROVE  s \in G
  <2>1. IsFiniteSet(s) /\ DOMAIN Restrict(f, s) = s
    BY FS_Subset DEF Restrict
  <2>2. CASE s = {}
    <3>1. SumFunction(Restrict(f, s)) = 0
      BY <2>1, <2>2, SumTurn
    <3>2. QED
      BY <3>1
  <2>3. CASE s # {}
    <3> DEFINE p == Pick(s)
    <3>1. p \in s
      BY <2>3, PickedIsThere
    <3>2. SumFunction(Restrict(f, s))
            = Restrict(f, s)[p] + SumFunction(Restrict(Restrict(f, s), s \ {p}))
      BY <2>1, <2>3, SumTurn
    <3>3. Restrict(f, s)[p] = f[p] /\ f[p] \in Int
      BY <3>1, RestrictType
    <3>4. Restrict(Restrict(f, s), s \ {p}) = Restrict(f, s \ {p})
      BY RestrictTwice
    <3>5. SumFunction(Restrict(f, s \ {p})) \in Int
      BY <1>1, <3>1
    <3> HIDE DEF p
    <3>6. SumFunction(Restrict(f, s)) = f[p] + SumFunction(Restrict(f, s \ {p}))
      BY <3>2, <3>3, <3>4
    <3>7. SumFunction(Restrict(f, s)) \in Int
      BY <3>3, <3>5, <3>6
    <3>8. QED
      BY <3>7
  <2>4. QED
    BY <2>2, <2>3
<1>2. \A s \in SUBSET S : s \in G
  <2> HIDE DEF G
  <2>1. QED
    BY <1>1, FiniteSubsetsFrom
<1>3. QED
  BY <1>2, RestrictAll

\* Any element may come first: the order does not matter.
LEMMA SumRemove ==
    ASSUME NEW S, IsFiniteSet(S), NEW f \in [S -> Int], NEW x \in S
    PROVE  SumFunction(f) = f[x] + SumFunction(Restrict(f, S \ {x}))
<1> DEFINE sum(s) == SumFunction(Restrict(f, s))
           G == {s \in SUBSET S : \A y \in s : sum(s) = f[y] + sum(s \ {y})}
<1>1. \A s \in SUBSET S : sum(s) \in Int
  BY FS_Subset, RestrictType, SumIsInt
<1>2. ASSUME NEW s \in SUBSET S, s # {}
      PROVE  Pick(s) \in s /\ sum(s) = f[Pick(s)] + sum(s \ {Pick(s)})
  <2>1. IsFiniteSet(s) /\ DOMAIN Restrict(f, s) = s /\ Pick(s) \in s
    BY <1>2, FS_Subset, RestrictType, PickedIsThere
  <2>2. sum(s) = Restrict(f, s)[Pick(s)] + SumFunction(Restrict(Restrict(f, s), s \ {Pick(s)}))
    BY <1>2, <2>1, SumTurn
  <2>3. Restrict(f, s)[Pick(s)] = f[Pick(s)]
    BY <2>1, RestrictType
  <2>4. QED
    BY <2>1, <2>2, <2>3, RestrictTwice
<1> HIDE DEF sum
<1>3. ASSUME NEW s \in SUBSET S, \A y \in s : s \ {y} \in G
      PROVE  s \in G
  <2>1. SUFFICES ASSUME NEW y \in s PROVE sum(s) = f[y] + sum(s \ {y})
    OBVIOUS
  <2> DEFINE p == Pick(s)
  <2>2. p \in s /\ sum(s) = f[p] + sum(s \ {p})
    BY <1>2
  <2> HIDE DEF p
  <2>3. CASE y = p
    BY <2>2, <2>3
  <2>4. CASE y # p
    <3>1. sum(s \ {p}) = f[y] + sum((s \ {p}) \ {y})
      BY <1>3, <2>2, <2>4
    <3>2. sum(s \ {y}) = f[p] + sum((s \ {y}) \ {p})
      BY <1>3, <2>2, <2>4
    <3>3. sum((s \ {p}) \ {y}) = sum((s \ {y}) \ {p})
      <4>1. (s \ {p}) \ {y} = (s \ {y}) \ {p}
        OBVIOUS
      <4>2. QED
        BY <4>1
    <3>4. f[y] \in Int /\ f[p] \in Int /\ sum((s \ {y}) \ {p}) \in Int
      BY <1>1, <2>2
    <3>5. QED
      BY <2>2, <3>1, <3>2, <3>3, <3>4
  <2>5. QED
    BY <2>3, <2>4
<1>4. \A s \in SUBSET S : s \in G
  <2> HIDE DEF G
  <2>1. QED
    BY <1>3, FiniteSubsetsFrom
<1>5. sum(S) = f[x] + sum(S \ {x})
  BY <1>4
<1>6. QED
  BY <1>5, RestrictAll DEF sum

\* The sum over nothing.
LEMMA SumEmpty ==
    ASSUME NEW f, DOMAIN f = {}
    PROVE  SumFunction(f) = 0
BY FS_EmptySet, SumTurn

\* A set of subsets that has the empty one, and any one with one element more,
\* has them all.
LEMMA FiniteSubsetsGrow ==
    ASSUME NEW U, IsFiniteSet(U), NEW G, {} \in G,
           \A s \in SUBSET U : \A x \in U \ s : s \in G => s \cup {x} \in G
    PROVE  \A s \in SUBSET U : s \in G
<1>1. ASSUME NEW s \in SUBSET U, \A x \in s : s \ {x} \in G
      PROVE  s \in G
  <2>1. CASE s = {}
    BY <2>1
  <2>2. CASE s # {}
    <3>1. PICK x : x \in s
      BY <2>2
    <3>2. s \ {x} \in G /\ s \ {x} \in SUBSET U /\ x \in U \ (s \ {x})
      BY <1>1, <3>1
    <3>3. (s \ {x}) \cup {x} \in G
      BY <3>2
    <3>4. (s \ {x}) \cup {x} = s
      BY <3>1
    <3>5. QED
      BY <3>3, <3>4
  <2>3. QED
    BY <2>1, <2>2
<1>2. QED
  BY <1>1, FiniteSubsetsFrom

\* One element more.
LEMMA SumInsert ==
    ASSUME NEW S, IsFiniteSet(S), NEW x, x \notin S, NEW f \in [S \cup {x} -> Int]
    PROVE  SumFunction(f) = f[x] + SumFunction(Restrict(f, S))
<1>1. IsFiniteSet(S \cup {x}) /\ x \in S \cup {x} /\ (S \cup {x}) \ {x} = S
  BY FS_AddElement
<1>2. SumFunction(f) = f[x] + SumFunction(Restrict(f, (S \cup {x}) \ {x}))
  BY <1>1, SumRemove
<1>3. QED
  BY <1>1, <1>2

\* The same for the sum over a part of what a function is defined on.
LEMMA SumGrows ==
    ASSUME NEW S, NEW f \in [S -> Int], NEW s \in SUBSET S, IsFiniteSet(s),
           NEW x \in S \ s
    PROVE  /\ SumFunction(Restrict(f, s \cup {x})) = f[x] + SumFunction(Restrict(f, s))
           /\ SumFunction(Restrict(f, s)) \in Int /\ f[x] \in Int
<1> DEFINE e == Restrict(f, s \cup {x})
<1>1. e \in [s \cup {x} -> Int] /\ e[x] = f[x]
  BY DEF Restrict
<1>2. Restrict(e, s) = Restrict(f, s)
  BY DEF Restrict
<1>3. Restrict(f, s) \in [s -> Int]
  BY DEF Restrict
<1> HIDE DEF e
<1>4. SumFunction(e) = e[x] + SumFunction(Restrict(e, s))
  BY <1>1, SumInsert
<1>5. SumFunction(Restrict(f, s)) \in Int
  BY <1>3, SumIsInt
<1>6. QED
  BY <1>1, <1>2, <1>4, <1>5 DEF e

\* A sum over nothing.
LEMMA SumOverNothing ==
    ASSUME NEW f
    PROVE  SumFunction(Restrict(f, {})) = 0
<1>1. DOMAIN Restrict(f, {}) = {}
  BY DEF Restrict
<1>2. QED
  BY <1>1, SumEmpty

\* Two parts that share nothing.
LEMMA SumUnion ==
    ASSUME NEW S, NEW T, IsFiniteSet(S), IsFiniteSet(T), S \cap T = {},
           NEW f \in [S \cup T -> Int]
    PROVE  /\ SumFunction(f) = SumFunction(Restrict(f, S)) + SumFunction(Restrict(f, T))
           /\ SumFunction(Restrict(f, S)) \in Int /\ SumFunction(Restrict(f, T)) \in Int
<1> DEFINE sum(s) == SumFunction(Restrict(f, s))
           G == {s \in SUBSET T : sum(S \cup s) = sum(S) + sum(s)}
<1>1. \A s \in SUBSET (S \cup T) : IsFiniteSet(s) /\ sum(s) \in Int
  <2>1. IsFiniteSet(S \cup T)
    BY FS_Union
  <2>2. ASSUME NEW s \in SUBSET (S \cup T) PROVE IsFiniteSet(s) /\ sum(s) \in Int
    <3>1. IsFiniteSet(s) /\ Restrict(f, s) \in [s -> Int]
      BY <2>1, FS_Subset DEF Restrict
    <3>2. QED
      BY <3>1, SumIsInt
  <2>3. QED
    BY <2>2
<1>2. ASSUME NEW s \in SUBSET (S \cup T), NEW x \in (S \cup T) \ s
      PROVE  sum(s \cup {x}) = f[x] + sum(s) /\ f[x] \in Int
  BY <1>1, SumGrows
<1>3. sum({}) = 0
  BY SumOverNothing
<1> HIDE DEF sum
<1>4. {} \in G
  <2>1. S \cup {} = S /\ sum(S) \in Int
    BY <1>1
  <2>2. QED
    BY <1>3, <2>1
<1>5. ASSUME NEW s \in SUBSET T, NEW x \in T \ s, s \in G
      PROVE  s \cup {x} \in G
  <2>1. sum(s \cup {x}) = f[x] + sum(s) /\ f[x] \in Int
    BY <1>2
  <2>2. sum((S \cup s) \cup {x}) = f[x] + sum(S \cup s)
    <3>1. S \cup s \in SUBSET (S \cup T) /\ x \in (S \cup T) \ (S \cup s)
      OBVIOUS
    <3>2. QED
      BY <1>2, <3>1
  <2>3. sum(S) \in Int /\ sum(s) \in Int
    BY <1>1
  <2>4. sum(S \cup (s \cup {x})) = sum((S \cup s) \cup {x})
    <3>1. S \cup (s \cup {x}) = (S \cup s) \cup {x}
      OBVIOUS
    <3>2. QED
      BY <3>1
  <2>5. sum(S \cup s) = sum(S) + sum(s)
    BY <1>5
  <2>6. sum(S \cup (s \cup {x})) = sum(S) + sum(s \cup {x})
    BY <2>1, <2>2, <2>3, <2>4, <2>5
  <2>7. QED
    BY <2>6
<1>6. \A s \in SUBSET T : s \in G
  <2> HIDE DEF G
  <2>1. QED
    BY <1>4, <1>5, FiniteSubsetsGrow
<1>7. sum(S \cup T) = sum(S) + sum(T) /\ sum(S) \in Int /\ sum(T) \in Int
  BY <1>1, <1>6
<1>8. QED
  BY <1>7, RestrictAll DEF sum

(***************************************************************************)
(* What a sum over a finite set is made of                                 *)
(***************************************************************************)
\* There is a sum of f over S.
Summable(f, S) == IsFiniteSet(S) /\ f \in [S -> Int]

LEMMA SummableSays ==
    ASSUME NEW S, NEW f, Summable(f, S)
    PROVE  /\ IsFiniteSet(S) /\ f \in [S -> Int] /\ SumFunction(f) \in Int
           /\ \A x \in S : f[x] \in Int
BY SumIsInt DEF Summable

\* There is one over every part of S, and it is made of the same.
LEMMA SummablePart ==
    ASSUME NEW S, NEW f, Summable(f, S), NEW T \in SUBSET S
    PROVE  /\ Summable(Restrict(f, T), T)
           /\ \A x \in T : Restrict(f, T)[x] = f[x]
<1>1. IsFiniteSet(S) /\ f \in [S -> Int]
  BY DEF Summable
<1>2. IsFiniteSet(T)
  BY <1>1, FS_Subset
<1>3. Restrict(f, T) \in [T -> Int] /\ \A x \in T : Restrict(f, T)[x] = f[x]
  BY <1>1 DEF Restrict
<1>4. QED
  BY <1>2, <1>3 DEF Summable

\* Two parts of S that share nothing.
LEMMA SumOfParts ==
    ASSUME NEW S, NEW f, Summable(f, S), NEW T \in SUBSET S
    PROVE  SumFunction(f) = SumFunction(Restrict(f, T)) + SumFunction(Restrict(f, S \ T))
<1>1. IsFiniteSet(S) /\ f \in [S -> Int]
  BY DEF Summable
<1> DEFINE R == S \ T
<1>2. IsFiniteSet(T) /\ IsFiniteSet(R) /\ T \cap R = {} /\ T \cup R = S
  BY <1>1, FS_Subset
<1>3. f \in [T \cup R -> Int]
  BY <1>1, <1>2
<1> HIDE DEF R
<1>4. SumFunction(f) = SumFunction(Restrict(f, T)) + SumFunction(Restrict(f, R))
  BY <1>2, <1>3, SumUnion
<1>5. QED
  BY <1>4 DEF R

\* The part of a sum that a subset makes grows by what each newcomer adds.
Part(f, s) == SumFunction(Restrict(f, s))

PartsGrow(f, S) ==
    \A s \in SUBSET S : \A x \in S \ s :
        /\ Part(f, s \cup {x}) = f[x] + Part(f, s)
        /\ Part(f, s) \in Int
        /\ f[x] \in Int

LEMMA PartGrows ==
    ASSUME NEW S, NEW f, Summable(f, S)
    PROVE  PartsGrow(f, S)
<1> SUFFICES ASSUME NEW s \in SUBSET S, NEW x \in S \ s
             PROVE  /\ Part(f, s \cup {x}) = f[x] + Part(f, s)
                    /\ Part(f, s) \in Int
                    /\ f[x] \in Int
  BY DEF PartsGrow
<1>1. IsFiniteSet(s) /\ f \in [S -> Int]
  BY FS_Subset DEF Summable
<1>2. QED
  BY <1>1, SumGrows DEF Part

\* The whole sum is the part that everything makes; nothing makes nothing.
LEMMA PartOverAll ==
    ASSUME NEW S, NEW f, Summable(f, S)
    PROVE  Part(f, {}) = 0 /\ Part(f, S) = SumFunction(f)
BY SumOverNothing, RestrictAll DEF Part, Summable

\* A sum of zeros.
LEMMA SumOfZeros ==
    ASSUME NEW S, NEW f, Summable(f, S), \A x \in S : f[x] = 0
    PROVE  SumFunction(f) = 0
<1>0. PartsGrow(f, S) /\ Part(f, {}) = 0 /\ Part(f, S) = SumFunction(f)
  BY PartGrows, PartOverAll
<1> DEFINE G == {s \in SUBSET S : Part(f, s) = 0}
<1>1. {} \in G
  BY <1>0
<1>2. ASSUME NEW s \in SUBSET S, NEW x \in S \ s, s \in G
      PROVE  s \cup {x} \in G
  BY <1>0, <1>2 DEF PartsGrow
<1>3. \A s \in SUBSET S : s \in G
  <2>1. IsFiniteSet(S)
    BY DEF Summable
  <2> HIDE DEF G
  <2>2. QED
    BY <1>1, <1>2, <2>1, FiniteSubsetsGrow
<1>4. QED
  BY <1>0, <1>3

\* What is zero does not count.
LEMMA SumOfTheRest ==
    ASSUME NEW S, NEW f, Summable(f, S), NEW T \in SUBSET S, \A x \in S \ T : f[x] = 0
    PROVE  SumFunction(f) = SumFunction(Restrict(f, T))
<1> DEFINE r == Restrict(f, S \ T)
<1>1. Summable(r, S \ T) /\ \A x \in S \ T : r[x] = 0
  BY SummablePart
<1>2. Summable(Restrict(f, T), T)
  BY SummablePart
<1>3. SumFunction(f) = SumFunction(Restrict(f, T)) + SumFunction(r)
  BY SumOfParts
<1> HIDE DEF r
<1>4. SumFunction(r) = 0
  BY <1>1, SumOfZeros
<1>5. SumFunction(Restrict(f, T)) \in Int
  BY <1>2, SummableSays
<1>6. QED
  BY <1>3, <1>4, <1>5

\* A sum over the places where f is something.
LEMMA SumWhere ==
    ASSUME NEW S, NEW f, Summable(f, S), NEW T \in SUBSET S, NEW g,
           g = [x \in T |-> f[x]], \A x \in S \ T : f[x] = 0
    PROVE  SumFunction(f) = SumFunction(g)
<1>1. g = Restrict(f, T)
  BY DEF Restrict
<1>2. SumFunction(f) = SumFunction(Restrict(f, T))
  BY SumOfTheRest
<1>3. QED
  BY <1>1, <1>2

\* A sum of sums.
LEMMA SumAdds ==
    ASSUME NEW S, NEW f, NEW g, NEW h, Summable(f, S), Summable(g, S), Summable(h, S),
           \A x \in S : h[x] = f[x] + g[x]
    PROVE  SumFunction(h) = SumFunction(f) + SumFunction(g)
<1>1. PartsGrow(f, S) /\ PartsGrow(g, S) /\ PartsGrow(h, S)
  BY PartGrows
<1>2. /\ Part(f, {}) = 0 /\ Part(f, S) = SumFunction(f)
      /\ Part(g, {}) = 0 /\ Part(g, S) = SumFunction(g)
      /\ Part(h, {}) = 0 /\ Part(h, S) = SumFunction(h)
  BY PartOverAll
<1> DEFINE G == {s \in SUBSET S : Part(h, s) = Part(f, s) + Part(g, s)}
<1>3. {} \in G
  BY <1>2
<1>4. ASSUME NEW s \in SUBSET S, NEW x \in S \ s, s \in G
      PROVE  s \cup {x} \in G
  <2>1. Part(h, s) = Part(f, s) + Part(g, s) /\ h[x] = f[x] + g[x]
    BY <1>4
  <2>2. /\ Part(f, s \cup {x}) = f[x] + Part(f, s) /\ Part(f, s) \in Int /\ f[x] \in Int
        /\ Part(g, s \cup {x}) = g[x] + Part(g, s) /\ Part(g, s) \in Int /\ g[x] \in Int
        /\ Part(h, s \cup {x}) = h[x] + Part(h, s)
    BY <1>1 DEF PartsGrow
  <2>3. Part(h, s \cup {x}) = Part(f, s \cup {x}) + Part(g, s \cup {x})
    BY <2>1, <2>2
  <2>4. QED
    BY <2>3
<1>5. \A s \in SUBSET S : s \in G
  <2>1. IsFiniteSet(S)
    BY DEF Summable
  <2> HIDE DEF G
  <2>2. QED
    BY <1>3, <1>4, <2>1, FiniteSubsetsGrow
<1>6. QED
  BY <1>2, <1>5

\* Products distribute over sums.
LEMMA Distributes ==
    ASSUME NEW a \in Int, NEW b \in Int, NEW c \in Int
    PROVE  c * (a + b) = c * a + c * b
OBVIOUS

\* A factor comes out of the sum.
LEMMA SumScaled ==
    ASSUME NEW S, NEW c \in Int, NEW f, NEW g, Summable(f, S), Summable(g, S),
           \A x \in S : g[x] = c * f[x]
    PROVE  SumFunction(g) = c * SumFunction(f)
<1>1. PartsGrow(f, S) /\ PartsGrow(g, S)
  BY PartGrows
<1>2. /\ Part(f, {}) = 0 /\ Part(f, S) = SumFunction(f)
      /\ Part(g, {}) = 0 /\ Part(g, S) = SumFunction(g)
  BY PartOverAll
<1> DEFINE G == {s \in SUBSET S : Part(g, s) = c * Part(f, s)}
<1>3. {} \in G
  BY <1>2
<1>4. ASSUME NEW s \in SUBSET S, NEW x \in S \ s, s \in G
      PROVE  s \cup {x} \in G
  <2>1. Part(g, s) = c * Part(f, s) /\ g[x] = c * f[x]
    BY <1>4
  <2>2. /\ Part(f, s \cup {x}) = f[x] + Part(f, s) /\ Part(f, s) \in Int /\ f[x] \in Int
        /\ Part(g, s \cup {x}) = g[x] + Part(g, s)
    BY <1>1 DEF PartsGrow
  <2>3. c * (f[x] + Part(f, s)) = c * f[x] + c * Part(f, s)
    BY <2>2, Distributes
  <2>4. Part(g, s \cup {x}) = c * Part(f, s \cup {x})
    BY <2>1, <2>2, <2>3
  <2>5. QED
    BY <2>4
<1>5. \A s \in SUBSET S : s \in G
  <2>1. IsFiniteSet(S)
    BY DEF Summable
  <2> HIDE DEF G
  <2>2. QED
    BY <1>3, <1>4, <2>1, FiniteSubsetsGrow
<1>6. QED
  BY <1>2, <1>5

\* What is taken is the opposite of what is given.
LEMMA SumNegated ==
    ASSUME NEW S, NEW f, NEW g, Summable(f, S), Summable(g, S), \A x \in S : g[x] = -f[x]
    PROVE  SumFunction(g) = -SumFunction(f)
<1>1. PICK c \in Int : c = -1
  OBVIOUS
<1>2. SumFunction(f) \in Int /\ \A x \in S : f[x] \in Int
  BY SummableSays
<1>3. \A x \in S : g[x] = c * f[x]
  BY <1>1, <1>2
<1>4. SumFunction(g) = c * SumFunction(f)
  BY <1>3, SumScaled
<1>5. QED
  BY <1>1, <1>2, <1>4

\* A sum of less is no more.
LEMMA SumBounded ==
    ASSUME NEW S, NEW f, NEW g, Summable(f, S), Summable(g, S), \A x \in S : f[x] <= g[x]
    PROVE  SumFunction(f) <= SumFunction(g)
<1>1. PartsGrow(f, S) /\ PartsGrow(g, S)
  BY PartGrows
<1>2. /\ Part(f, {}) = 0 /\ Part(f, S) = SumFunction(f)
      /\ Part(g, {}) = 0 /\ Part(g, S) = SumFunction(g)
  BY PartOverAll
<1> DEFINE G == {s \in SUBSET S : Part(f, s) <= Part(g, s)}
<1>3. {} \in G
  BY <1>2
<1>4. ASSUME NEW s \in SUBSET S, NEW x \in S \ s, s \in G
      PROVE  s \cup {x} \in G
  <2>1. Part(f, s) <= Part(g, s) /\ f[x] <= g[x]
    BY <1>4
  <2>2. /\ Part(f, s \cup {x}) = f[x] + Part(f, s) /\ Part(f, s) \in Int /\ f[x] \in Int
        /\ Part(g, s \cup {x}) = g[x] + Part(g, s) /\ Part(g, s) \in Int /\ g[x] \in Int
    BY <1>1 DEF PartsGrow
  <2>3. Part(f, s \cup {x}) <= Part(g, s \cup {x})
    BY <2>1, <2>2
  <2>4. QED
    BY <2>3
<1>5. \A s \in SUBSET S : s \in G
  <2>1. IsFiniteSet(S)
    BY DEF Summable
  <2> HIDE DEF G
  <2>2. QED
    BY <1>3, <1>4, <2>1, FiniteSubsetsGrow
<1>6. QED
  BY <1>2, <1>5

\* The same numbers under other names.
LEMMA SumRenamed ==
    ASSUME NEW S, NEW T, NEW h \in Bijection(S, T), NEW f, NEW g,
           Summable(f, T), Summable(g, S), \A x \in S : g[x] = f[h[x]]
    PROVE  SumFunction(g) = SumFunction(f)
<1> DEFINE image(s) == {h[x] : x \in s}
           G == {s \in SUBSET S : Part(g, s) = Part(f, image(s))}
<1>1. /\ h \in [S -> T]
      /\ \A x, y \in S : h[x] = h[y] => x = y
      /\ \A y \in T : \E x \in S : h[x] = y
  BY DEF Bijection, Injection, Surjection, IsInjective
<1>2. PartsGrow(f, T) /\ PartsGrow(g, S)
  BY PartGrows
<1>3. /\ Part(f, {}) = 0 /\ Part(f, T) = SumFunction(f)
      /\ Part(g, {}) = 0 /\ Part(g, S) = SumFunction(g)
  BY PartOverAll
<1>4. {} \in G
  <2>1. image({}) = {}
    OBVIOUS
  <2>2. QED
    BY <1>3, <2>1
<1>5. ASSUME NEW s \in SUBSET S, NEW x \in S \ s, s \in G
      PROVE  s \cup {x} \in G
  <2>1. /\ image(s \cup {x}) = image(s) \cup {h[x]}
        /\ image(s) \in SUBSET T /\ h[x] \in T \ image(s)
    BY <1>1
  <2>2. Part(g, s) = Part(f, image(s)) /\ g[x] = f[h[x]]
    BY <1>5
  <2> HIDE DEF image
  <2>3. Part(f, image(s) \cup {h[x]}) = f[h[x]] + Part(f, image(s))
    BY <1>2, <2>1 DEF PartsGrow
  <2>4. Part(g, s \cup {x}) = g[x] + Part(g, s)
    BY <1>2 DEF PartsGrow
  <2>5. Part(g, s \cup {x}) = Part(f, image(s \cup {x}))
    BY <2>1, <2>2, <2>3, <2>4
  <2>6. QED
    BY <2>5
<1>6. \A s \in SUBSET S : s \in G
  <2>1. IsFiniteSet(S)
    BY DEF Summable
  <2> HIDE DEF G
  <2>2. QED
    BY <1>4, <1>5, <2>1, FiniteSubsetsGrow
<1>7. image(S) = T
  BY <1>1
<1>8. Part(g, S) = Part(f, T)
  BY <1>6, <1>7
<1>9. QED
  BY <1>3, <1>8

\* Where every x of C has a mirror h[x] in D that takes back what x gives, only
\* what has no part in it counts.
Mirrored(f, h, C, D) == h \in Bijection(C, D) /\ \A x \in C : f[x] = -f[h[x]]

LEMMA SumOfMirrors ==
    ASSUME NEW S, NEW f, Summable(f, S), NEW C \in SUBSET S, NEW D \in SUBSET S,
           C \cap D = {}, NEW h, Mirrored(f, h, C, D)
    PROVE  SumFunction(f) = SumFunction(Restrict(f, S \ (C \cup D)))
<1> DEFINE E == C \cup D
           e == Restrict(f, E)
           c == Restrict(f, C)
           d == Restrict(f, D)
<1>1. E \in SUBSET S /\ C \in SUBSET E /\ E \ C = D
  OBVIOUS
<1>2. Summable(c, C) /\ \A x \in C : c[x] = f[x]
  BY SummablePart
<1>3. Summable(d, D) /\ \A x \in D : d[x] = f[x]
  BY SummablePart
<1> HIDE DEF E
<1>4. Summable(e, E)
  BY <1>1, SummablePart
<1>5. SumFunction(f) = SumFunction(e) + SumFunction(Restrict(f, S \ E))
  BY <1>1, SumOfParts
<1>6. Restrict(e, C) = c /\ Restrict(e, D) = d
  <2>1. D \in SUBSET E
    BY <1>1
  <2>2. QED
    BY <1>1, <2>1 DEF Restrict
<1> HIDE DEF e
<1>7. SumFunction(e) = SumFunction(Restrict(e, C)) + SumFunction(Restrict(e, E \ C))
  BY <1>1, <1>4, SumOfParts
<1>8. h \in Bijection(C, D)
  BY DEF Mirrored
<1>9. \A x \in C : h[x] \in D
  BY <1>8 DEF Bijection, Injection
<1>10. PICK n \in [C -> Int] : \A x \in C : n[x] = d[h[x]]
  <2>1. \A x \in C : d[h[x]] \in Int
    BY <1>3, <1>9, SummableSays
  <2>2. [x \in C |-> d[h[x]]] \in [C -> Int]
    BY <2>1
  <2>3. QED
    BY <2>2
<1>11. Summable(n, C)
  BY <1>2, <1>10 DEF Summable
<1>12. \A x \in C : c[x] = -n[x]
  BY <1>2, <1>3, <1>9, <1>10 DEF Mirrored
<1> HIDE DEF c, d
<1>13. SumFunction(n) = SumFunction(d)
  BY <1>3, <1>8, <1>10, <1>11, SumRenamed
<1>14. SumFunction(c) = -SumFunction(n)
  BY <1>2, <1>11, <1>12, SumNegated
<1>15. SumFunction(d) \in Int
  BY <1>3, SummableSays
<1>16. SumFunction(e) = 0
  <2>1. SumFunction(e) = SumFunction(c) + SumFunction(d)
    BY <1>1, <1>6, <1>7
  <2>2. SumFunction(c) = -SumFunction(d)
    BY <1>13, <1>14
  <2>3. QED
    BY <1>15, <2>1, <2>2
<1>17. SumFunction(Restrict(f, S \ E)) \in Int
  <2>1. S \ E \in SUBSET S
    OBVIOUS
  <2>2. Summable(Restrict(f, S \ E), S \ E)
    BY <2>1, SummablePart
  <2>3. QED
    BY <2>2, SummableSays
<1>18. QED
  BY <1>5, <1>16, <1>17 DEF E

(***************************************************************************)
(* Sums that change, and sums of sequences                                 *)
(***************************************************************************)
\* What is zero but in one place.
LEMMA SumOfLonely ==
    ASSUME NEW S, NEW f, Summable(f, S), NEW x \in S, \A y \in S \ {x} : f[y] = 0
    PROVE  SumFunction(f) = f[x]
<1>1. PartsGrow(f, S) /\ Part(f, {}) = 0
  BY PartGrows, PartOverAll
<1>2. {} \in SUBSET S /\ x \in S \ {} /\ {} \cup {x} = {x}
  OBVIOUS
<1>3. Part(f, {x}) = f[x] + 0 /\ f[x] \in Int
  BY <1>1, <1>2 DEF PartsGrow
<1>4. SumFunction(f) = Part(f, {x})
  BY SumOfTheRest DEF Part
<1>5. QED
  BY <1>3, <1>4

\* The sum of what changed is what the sum changed by.
LEMMA SumDifference ==
    ASSUME NEW S, NEW f, NEW g, Summable(f, S), Summable(g, S)
    PROVE  /\ Summable([x \in S |-> g[x] - f[x]], S)
           /\ SumFunction(g) = SumFunction(f) + SumFunction([x \in S |-> g[x] - f[x]])
<1> DEFINE d == [x \in S |-> g[x] - f[x]]
<1>1. Summable(d, S) /\ \A x \in S : g[x] = f[x] + d[x]
  BY DEF Summable
<1> HIDE DEF d
<1>2. SumFunction(g) = SumFunction(f) + SumFunction(d)
  BY <1>1, SumAdds
<1>3. QED
  BY <1>1, <1>2 DEF d

\* A function that changes in one place.
LEMMA SumChanged ==
    ASSUME NEW S, NEW f, NEW g, Summable(f, S), Summable(g, S),
           NEW x \in S, \A y \in S \ {x} : g[y] = f[y]
    PROVE  SumFunction(g) = SumFunction(f) + (g[x] - f[x])
<1> DEFINE d == [y \in S |-> g[y] - f[y]]
<1>1. Summable(d, S) /\ SumFunction(g) = SumFunction(f) + SumFunction(d)
  BY SumDifference
<1>2. \A y \in S : f[y] \in Int
  BY SummableSays
<1>3. d[x] = g[x] - f[x] /\ \A y \in S \ {x} : d[y] = 0
  BY <1>2
<1> HIDE DEF d
<1>4. SumFunction(d) = d[x]
  BY <1>1, <1>3, SumOfLonely
<1>5. QED
  BY <1>1, <1>3, <1>4

\* Two sums that are equal, one nowhere above the other, are of the same numbers.
LEMMA SumTight ==
    ASSUME NEW S, NEW f, NEW g, Summable(f, S), Summable(g, S), \A x \in S : f[x] <= g[x],
           SumFunction(f) = SumFunction(g)
    PROVE  \A x \in S : f[x] = g[x]
<1> SUFFICES ASSUME NEW x \in S, f[x] # g[x] PROVE FALSE
  OBVIOUS
<1> DEFINE h == [y \in S |-> IF y = x THEN f[x] ELSE g[y]]
<1>1. IsFiniteSet(S) /\ \A y \in S : f[y] \in Int /\ g[y] \in Int
  BY SummableSays
<1>2. Summable(h, S)
  BY <1>1 DEF Summable
<1>3. \A y \in S : f[y] <= h[y]
  BY <1>1
<1>4. h[x] = f[x] /\ \A y \in S \ {x} : h[y] = g[y]
  OBVIOUS
<1> HIDE DEF h
<1>5. SumFunction(f) <= SumFunction(h)
  BY <1>2, <1>3, SumBounded
<1>6. SumFunction(h) = SumFunction(g) + (f[x] - g[x])
  BY <1>2, <1>4, SumChanged
<1>7. f[x] < g[x] /\ f[x] \in Int /\ g[x] \in Int
  BY <1>1
<1>8. SumFunction(f) \in Int /\ SumFunction(h) \in Int
  BY <1>2, SummableSays
<1> QED
  BY <1>5, <1>6, <1>7, <1>8

\* A function that is zero outside the places of an order, no place twice.
LEMMA SumOverOrder ==
    ASSUME NEW S, NEW d, Summable(d, S), NEW n \in Nat, NEW order \in [1..n -> S],
           \A i, j \in 1..n : order[i] = order[j] => i = j,
           \A x \in S : (\A i \in 1..n : order[i] # x) => d[x] = 0
    PROVE  /\ Summable([i \in 1..n |-> d[order[i]]], 1..n)
           /\ SumFunction(d) = SumFunction([i \in 1..n |-> d[order[i]]])
<1> DEFINE T == {order[i] : i \in 1..n}
           e == [i \in 1..n |-> d[order[i]]]
           r == Restrict(d, T)
<1>1. T \in SUBSET S /\ order \in [1..n -> T]
  OBVIOUS
<1>2. order \in Bijection(1..n, T)
  <2>1. \A x \in T : \E i \in 1..n : order[i] = x
    OBVIOUS
  <2> HIDE DEF T
  <2>2. QED
    BY <1>1, <2>1 DEF Bijection, Injection, Surjection, IsInjective
<1>3. \A x \in S \ T : d[x] = 0
  OBVIOUS
<1>4. Summable(e, 1..n)
  BY FS_Interval DEF Summable
<1>5. Summable(r, T) /\ \A x \in T : r[x] = d[x]
  <2> HIDE DEF T
  <2>1. QED
    BY <1>1, SummablePart
<1>6. \A i \in 1..n : e[i] = r[order[i]]
  BY <1>1, <1>5
<1>7. SumFunction(d) = SumFunction(r)
  <2> HIDE DEF T
  <2>1. QED
    BY <1>1, <1>3, SumOfTheRest
<1> HIDE DEF T, e, r
<1>8. SumFunction(e) = SumFunction(r)
  BY <1>2, <1>4, <1>5, <1>6, SumRenamed
<1>9. QED
  BY <1>4, <1>7, <1>8 DEF e

\* g is what taking from the places of an order, no place twice, leaves of f.
TakesAway(f, g, take, order, n, S) ==
    /\ order \in [1..n -> S]
    /\ \A i, j \in 1..n : order[i] = order[j] => i = j
    /\ \A x \in S : (\A i \in 1..n : order[i] # x) => g[x] = f[x]
    /\ \A i \in 1..n : g[order[i]] = f[order[i]] - take[i]

LEMMA SumTaken ==
    ASSUME NEW S, NEW f, NEW g, Summable(f, S), Summable(g, S), NEW n \in Nat,
           NEW take, Summable(take, 1..n), NEW order, TakesAway(f, g, take, order, n, S)
    PROVE  SumFunction(g) = SumFunction(f) - SumFunction(take)
<1> USE DEF TakesAway
<1> DEFINE d == [x \in S |-> g[x] - f[x]]
           e == [i \in 1..n |-> d[order[i]]]
<1>1. Summable(d, S) /\ SumFunction(g) = SumFunction(f) + SumFunction(d)
  BY SumDifference
<1>2. \A x \in S : f[x] \in Int
  BY SummableSays
<1>3. \A i \in 1..n : take[i] \in Int
  BY SummableSays
<1>4. ASSUME NEW x \in S, \A i \in 1..n : order[i] # x PROVE d[x] = 0
  <2>1. g[x] = f[x] /\ f[x] \in Int
    BY <1>2, <1>4
  <2>2. QED
    BY <2>1
<1>5. ASSUME NEW i \in 1..n PROVE e[i] = -take[i]
  <2>1. order[i] \in S /\ g[order[i]] = f[order[i]] - take[i]
    OBVIOUS
  <2>2. f[order[i]] \in Int /\ take[i] \in Int
    BY <1>2, <1>3, <2>1
  <2>3. QED
    BY <2>1, <2>2
<1> HIDE DEF d
<1>6. Summable(e, 1..n) /\ SumFunction(d) = SumFunction(e)
  BY <1>1, <1>4, SumOverOrder
<1> HIDE DEF e
<1>7. SumFunction(e) = -SumFunction(take)
  BY <1>5, <1>6, SumNegated
<1>8. SumFunction(f) \in Int /\ SumFunction(take) \in Int
  BY SummableSays
<1>9. QED
  BY <1>1, <1>6, <1>7, <1>8

\* A sum of one.
LEMMA SumOfOne ==
    ASSUME NEW f, Summable(f, 1..1)
    PROVE  SumFunction(f) = f[1]
<1>1. 1 \in 1..1 /\ \A y \in (1..1) \ {1} : f[y] = 0
  OBVIOUS
<1>2. QED
  BY <1>1, SumOfLonely

\* The sum over a longer sequence: the head and the rest.
LEMMA SumOfTwoParts ==
    ASSUME NEW m \in Nat, NEW n \in Nat, NEW f, Summable(f, 1..(m + n))
    PROVE  /\ Summable([i \in 1..m |-> f[i]], 1..m)
           /\ Summable([k \in 1..n |-> f[m + k]], 1..n)
           /\ SumFunction(f) = SumFunction([i \in 1..m |-> f[i]])
                               + SumFunction([k \in 1..n |-> f[m + k]])
<1> DEFINE U == 1..(m + n)
           A == 1..m
           B == U \ A
           shift == [k \in 1..n |-> m + k]
           rest  == [k \in 1..n |-> f[m + k]]
           tail  == Restrict(f, B)
<1>1. A \in SUBSET U /\ B \in SUBSET U /\ B = (m + 1)..(m + n)
  OBVIOUS
<1>2. Restrict(f, A) = [i \in 1..m |-> f[i]]
  BY DEF Restrict
<1>3. Summable(Restrict(f, A), A) /\ Summable(tail, B) /\ \A i \in B : tail[i] = f[i]
  <2> HIDE DEF A, B, U
  <2>1. Summable(f, U) /\ A \in SUBSET U /\ B \in SUBSET U
    BY <1>1 DEF U
  <2>2. Summable(Restrict(f, A), A)
    BY <2>1, SummablePart
  <2>3. Summable(Restrict(f, B), B) /\ \A i \in B : Restrict(f, B)[i] = f[i]
    BY <2>1, SummablePart
  <2>4. QED
    BY <2>2, <2>3
<1>4. shift \in Bijection(1..n, B)
  <2>1. shift \in [1..n -> B]
    BY <1>1
  <2>2. \A j, k \in 1..n : shift[j] = shift[k] => j = k
    OBVIOUS
  <2>3. \A i \in B : i - m \in 1..n /\ shift[i - m] = i
    BY <1>1
  <2> HIDE DEF shift, B
  <2>4. QED
    BY <2>1, <2>2, <2>3 DEF Bijection, Injection, Surjection, IsInjective
<1>5. \A k \in 1..n : rest[k] = tail[shift[k]]
  <2>1. \A k \in 1..n : m + k \in B
    BY <1>1
  <2> HIDE DEF B, tail
  <2>2. QED
    BY <1>3, <2>1
<1>6. Summable(rest, 1..n)
  <2>1. \A k \in 1..n : m + k \in 1..(m + n)
    OBVIOUS
  <2>2. \A k \in 1..n : f[m + k] \in Int
    BY <2>1, SummableSays
  <2>3. IsFiniteSet(1..n)
    BY FS_Interval
  <2>4. QED
    BY <2>2, <2>3 DEF Summable
<1>7. SumFunction(f) = SumFunction(Restrict(f, A)) + SumFunction(tail)
  <2> HIDE DEF A, U
  <2>1. QED
    BY <1>1, SumOfParts DEF U
<1> HIDE DEF A, B, U, shift, rest, tail
<1>8. SumFunction(rest) = SumFunction(tail)
  BY <1>3, <1>4, <1>5, <1>6, SumRenamed
<1>9. QED
  BY <1>2, <1>3, <1>6, <1>7, <1>8 DEF A, rest

\* One number more.
LEMMA SumOfOneMore ==
    ASSUME NEW n \in Nat, NEW f, Summable(f, 1..(n + 1))
    PROVE  SumFunction(f) = SumFunction([i \in 1..n |-> f[i]]) + f[n + 1]
<1>1. PICK one \in Nat : one = 1
  OBVIOUS
<1> DEFINE h == [k \in 1..one |-> f[n + k]]
<1>2. Summable(f, 1..(n + one))
  BY <1>1
<1>3. Summable(h, 1..one) /\ SumFunction(f) = SumFunction([i \in 1..n |-> f[i]]) + SumFunction(h)
  BY <1>2, SumOfTwoParts
<1>4. h[1] = f[n + 1]
  BY <1>1
<1> HIDE DEF h
<1>5. SumFunction(h) = h[1]
  BY <1>1, <1>3, SumOfOne
<1>6. QED
  BY <1>3, <1>4, <1>5

\* What is given and taken back, pair by pair, adds up to nothing.
LEMMA SumOfPairs ==
    ASSUME NEW n \in Nat, NEW f, Summable(f, 1..(2 * n)),
           \A i \in 1..n : f[2 * i] = -f[2 * i - 1]
    PROVE  SumFunction(f) = 0
<1> DEFINE U == 1..(2 * n)
           A == {2 * i - 1 : i \in 1..n}
           B == U \ A
           next == [k \in A |-> k + 1]
           g == [k \in A |-> f[k + 1]]
<1>1. \A k \in U : k \in B <=> \E i \in 1..n : k = 2 * i
  <2>1. ASSUME NEW k \in U, k % 2 = 0 PROVE \E i \in 1..n : k = 2 * i
    <3>1. k = 2 * (k \div 2) /\ k \div 2 \in 1..n
      BY <2>1
    <3>2. QED
      BY <3>1
  <2>2. ASSUME NEW k \in U, k % 2 = 1 PROVE k \in A
    <3>1. k = 2 * ((k + 1) \div 2) - 1 /\ (k + 1) \div 2 \in 1..n
      BY <2>2
    <3>2. QED
      BY <3>1
  <2>3. \A k \in U : k % 2 \in {0, 1}
    OBVIOUS
  <2>4. \A i, j \in 1..n : 2 * i # 2 * j - 1
    OBVIOUS
  <2>5. QED
    BY <2>1, <2>2, <2>3, <2>4
<1>2. A \in SUBSET U /\ B \in SUBSET U
  OBVIOUS
<1>3. next \in Bijection(A, B)
  <2>1. next \in [A -> B]
    BY <1>1
  <2>2. \A j, k \in A : next[j] = next[k] => j = k
    OBVIOUS
  <2>3. ASSUME NEW k \in B PROVE k - 1 \in A /\ next[k - 1] = k
    <3>1. PICK i \in 1..n : k = 2 * i
      BY <1>1, <1>2
    <3>2. k - 1 = 2 * i - 1 /\ k - 1 + 1 = k
      BY <3>1
    <3>3. k - 1 \in A
      BY <3>2
    <3>4. QED
      BY <3>2, <3>3
  <2> HIDE DEF next, A, B
  <2>4. QED
    BY <2>1, <2>2, <2>3 DEF Bijection, Injection, Surjection, IsInjective
<1>4. \A k \in A : k + 1 \in B /\ f[k + 1] = -f[k] /\ next[k] = k + 1 /\ g[k] = f[k + 1]
  BY <1>1
<1>5. \A k \in U : f[k] \in Int
  BY SummableSays
<1>6. g \in [A -> Int]
  BY <1>2, <1>4, <1>5
<1> HIDE DEF A, B, next, g
<1>7. /\ Summable(Restrict(f, A), A) /\ \A k \in A : Restrict(f, A)[k] = f[k]
      /\ Summable(Restrict(f, B), B) /\ \A k \in B : Restrict(f, B)[k] = f[k]
  <2> HIDE DEF U
  <2>1. QED
    BY <1>2, SummablePart DEF U
<1>8. Summable(g, A)
  BY <1>6, <1>7 DEF Summable
<1>9. SumFunction(g) = SumFunction(Restrict(f, B))
  <2>1. \A k \in A : g[k] = Restrict(f, B)[next[k]]
    BY <1>4, <1>7
  <2>2. Summable(Restrict(f, B), B)
    BY <1>7
  <2>3. QED
    BY <1>3, <1>8, <2>1, <2>2, SumRenamed
<1>10. SumFunction(g) = -SumFunction(Restrict(f, A))
  <2>1. Summable(Restrict(f, A), A)
    BY <1>7
  <2>2. \A k \in A : g[k] = -Restrict(f, A)[k]
    BY <1>4, <1>7
  <2>3. QED
    BY <1>8, <2>1, <2>2, SumNegated
<1>11. SumFunction(Restrict(f, A)) \in Int
  BY <1>7, SummableSays
<1>12. SumFunction(f) = SumFunction(Restrict(f, A)) + SumFunction(Restrict(f, B))
  <2> HIDE DEF U
  <2>1. QED
    BY <1>2, SumOfParts DEF U, B
<1>13. ASSUME NEW x \in Int, NEW y, NEW z, y = -x, z = x + y PROVE z = 0
  BY <1>13
<1>14. QED
  BY <1>9, <1>10, <1>11, <1>12, <1>13

(***************************************************************************)
(* Rows of a journal that name a batch                                     *)
(***************************************************************************)
\* What the rows of a batch say came and went.
OnLot(row, b)  == IF row.batch = b THEN row.quantity ELSE 0
LotOf(rows, b) == SumFunction([k \in DOMAIN rows |-> OnLot(rows[k], b)])

\* Rows with a whole quantity.
Counted(Rec) == \A r \in Rec : r.quantity \in Int

\* It is a sum of whole numbers.
LEMMA LotsAdd ==
    ASSUME NEW Rec, Counted(Rec), NEW rows \in Seq(Rec), NEW b
    PROVE  /\ Summable([k \in DOMAIN rows |-> OnLot(rows[k], b)], DOMAIN rows)
           /\ LotOf(rows, b) \in Int
<1> DEFINE f == [k \in DOMAIN rows |-> OnLot(rows[k], b)]
<1>1. DOMAIN rows = 1..Len(rows) /\ Len(rows) \in Nat
      /\ \A k \in DOMAIN rows : rows[k] \in Rec
  BY LenProperties, ElementOfSeq
<1>2. \A k \in DOMAIN rows : OnLot(rows[k], b) \in Int
  BY <1>1 DEF OnLot, Counted
<1>3. IsFiniteSet(DOMAIN rows)
  BY <1>1, FS_Interval
<1>4. Summable(f, DOMAIN rows)
  BY <1>2, <1>3 DEF Summable
<1> HIDE DEF f
<1>5. SumFunction(f) \in Int
  BY <1>4, SummableSays
<1>6. QED
  BY <1>4, <1>5 DEF LotOf, f

\* A longer journal says more by what its new rows say.
LEMMA LotOfMore ==
    ASSUME NEW Rec, Counted(Rec), NEW s \in Seq(Rec), NEW t \in Seq(Rec), NEW b
    PROVE  LotOf(s \o t, b) = LotOf(s, b) + LotOf(t, b)
<1>1. PICK m \in Nat : m = Len(s)
  BY LenProperties
<1>2. PICK n \in Nat : n = Len(t)
  BY LenProperties
<1>3. /\ s \o t \in Seq(Rec) /\ DOMAIN (s \o t) = 1..(m + n)
      /\ DOMAIN s = 1..m /\ DOMAIN t = 1..n
      /\ \A i \in 1..m : (s \o t)[i] = s[i]
      /\ \A k \in 1..n : (s \o t)[m + k] = t[k]
  BY <1>1, <1>2, ConcatProperties, LenProperties
<1> DEFINE st == s \o t
           f == [i \in DOMAIN st |-> OnLot(st[i], b)]
<1>4. Summable(f, 1..(m + n)) /\ LotOf(st, b) = SumFunction(f)
  <2>1. st \in Seq(Rec) /\ DOMAIN st = 1..(m + n)
    BY <1>3
  <2> HIDE DEF st
  <2>2. Summable(f, DOMAIN st)
    BY <2>1, LotsAdd
  <2>3. QED
    BY <2>1, <2>2 DEF LotOf
<1>5. [i \in 1..m |-> f[i]] = [i \in DOMAIN s |-> OnLot(s[i], b)]
  BY <1>3
<1>6. [k \in 1..n |-> f[m + k]] = [k \in DOMAIN t |-> OnLot(t[k], b)]
  BY <1>3
<1> HIDE DEF f
<1>7. SumFunction(f) = SumFunction([i \in 1..m |-> f[i]]) + SumFunction([k \in 1..n |-> f[m + k]])
  BY <1>4, SumOfTwoParts
<1>8. QED
  BY <1>4, <1>5, <1>6, <1>7 DEF LotOf

\* Over the rows of the batch alone.
LEMMA LotOverItsRows ==
    ASSUME NEW Rec, Counted(Rec), NEW rows \in Seq(Rec), NEW b
    PROVE  LotOf(rows, b)
             = SumFunction([i \in {j \in DOMAIN rows : rows[j].batch = b} |-> rows[i].quantity])
<1> DEFINE f == [k \in DOMAIN rows |-> OnLot(rows[k], b)]
           T == {i \in DOMAIN rows : rows[i].batch = b}
           g == [id \in T |-> rows[id].quantity]
<1>1. Summable(f, DOMAIN rows) /\ LotOf(rows, b) = SumFunction(f)
  BY LotsAdd DEF LotOf
<1>2. T \in SUBSET DOMAIN rows
  OBVIOUS
<1>3. g = Restrict(f, T)
  BY DEF OnLot, Restrict
<1>4. \A k \in DOMAIN rows \ T : f[k] = 0
  BY DEF OnLot
<1> HIDE DEF f, T, g
<1>5. SumFunction(f) = SumFunction(g)
  <2>1. SumFunction(f) = SumFunction(Restrict(f, T))
    BY <1>1, <1>2, <1>4, SumOfTheRest
  <2>2. QED
    BY <1>3, <2>1
<1>6. QED
  BY <1>1, <1>5 DEF T, g

\* One row.
LEMMA LotOfOneRow ==
    ASSUME NEW Rec, Counted(Rec), NEW row \in Rec, NEW b
    PROVE  LotOf(<<row>>, b) = OnLot(row, b)
<1> DEFINE rows == <<row>>
           f == [k \in DOMAIN rows |-> OnLot(rows[k], b)]
<1>1. rows \in Seq(Rec) /\ DOMAIN rows = 1..1 /\ rows[1] = row
  OBVIOUS
<1> HIDE DEF rows
<1>2. Summable(f, 1..1) /\ LotOf(rows, b) = SumFunction(f)
  <2>1. Summable(f, DOMAIN rows)
    BY <1>1, LotsAdd
  <2>2. QED
    BY <1>1, <2>1 DEF LotOf
<1>3. f[1] = OnLot(row, b)
  BY <1>1
<1> HIDE DEF f
<1>4. QED
  BY <1>2, <1>3, SumOfOne DEF rows

\* What the rows S of a journal say of a batch.
LotWithin(table, S, b) == SumFunction([i \in S |-> OnLot(table[i], b)])

\* Rows that take back the rows of S, each once, take away what S brought.
TakeBack(rows, n, order, table, S) ==
    /\ DOMAIN rows = 1..n /\ order \in Bijection(1..n, S)
    /\ \A k \in 1..n : /\ rows[k].batch = table[order[k]].batch
                       /\ rows[k].quantity = -table[order[k]].quantity

LEMMA LotTakenBack ==
    ASSUME NEW Rec, Counted(Rec), NEW rows \in Seq(Rec), NEW table \in Seq(Rec),
           NEW S \in SUBSET DOMAIN table, NEW n \in Nat, NEW order,
           TakeBack(rows, n, order, table, S), NEW b
    PROVE  /\ LotOf(rows, b) = -LotWithin(table, S, b)
           /\ Summable([i \in S |-> OnLot(table[i], b)], S)
<1> DEFINE f == [i \in DOMAIN table |-> OnLot(table[i], b)]
           g == [i \in S |-> OnLot(table[i], b)]
           e == [k \in DOMAIN rows |-> OnLot(rows[k], b)]
           h == [k \in 1..n |-> OnLot(table[order[k]], b)]
<1>1. Summable(f, DOMAIN table) /\ g = Restrict(f, S)
  BY LotsAdd DEF Restrict
<1>2. Summable(g, S)
  <2> HIDE DEF f, g
  <2>1. QED
    BY <1>1, SummablePart
<1>3. Summable(e, 1..n) /\ LotOf(rows, b) = SumFunction(e)
  BY LotsAdd DEF LotOf, TakeBack
<1>4. order \in Bijection(1..n, S) /\ order \in [1..n -> S]
  BY DEF TakeBack, Bijection, Injection
<1>5. \A k \in 1..n : h[k] = g[order[k]]
  BY <1>4
<1>6. Summable(h, 1..n)
  <2>1. IsFiniteSet(1..n)
    BY FS_Interval
  <2>2. \A i \in S : g[i] \in Int
    BY <1>2 DEF Summable
  <2>3. \A k \in 1..n : h[k] \in Int
    BY <1>4, <1>5, <2>2
  <2>4. QED
    BY <2>1, <2>3 DEF Summable
<1>7. \A k \in 1..n : e[k] = -h[k]
  <2> TAKE k \in 1..n
  <2>1. /\ rows[k].batch = table[order[k]].batch
        /\ rows[k].quantity = -table[order[k]].quantity
        /\ k \in DOMAIN rows
    BY DEF TakeBack
  <2>2. QED
    BY <2>1 DEF OnLot
<1> HIDE DEF f, g, e, h
<1>8. SumFunction(e) = -SumFunction(h)
  BY <1>3, <1>6, <1>7, SumNegated
<1>9. SumFunction(h) = SumFunction(g)
  BY <1>2, <1>4, <1>5, <1>6, SumRenamed
<1>10. QED
  BY <1>2, <1>3, <1>8, <1>9 DEF g, LotWithin
=============================================================================
