----------------------------- MODULE SumTheorems -----------------------------
(***************************************************************************)
(* What SumFunctionOnSet of the community modules computes.  The fold is a *)
(* recursive function on the subsets of a set; finite sets are inducted    *)
(* over by a minimal counterexample (WFMin), as is the first element of an *)
(* order, which the choice of a price and a circle of locks rest on.       *)
(***************************************************************************)
EXTENDS Integers, Functions, FiniteSets, FiniteSetTheorems, WellFoundedInduction, TLAPS

Pick(s) == CHOOSE x \in s : TRUE
\* One step of the fold of f, at s.
FoldStep(f, h, s) == IF s = {} THEN 0 ELSE f[Pick(s)] + h[s \ {Pick(s)}]
FoldFcn(f, S) == CHOOSE h : h = [s \in SUBSET S |-> FoldStep(f, h, s)]

LEMMA SumIsFold ==
  ASSUME NEW f, NEW S
  PROVE  SumFunctionOnSet(f, S) = FoldFcn(f, S)[S]
BY DEF SumFunctionOnSet, FoldFunctionOnSet, MapThenFoldSet, Pick, FoldStep, FoldFcn

\* A set of finite sets that is not empty has a smallest one.
LEMMA SmallestSet ==
  ASSUME NEW S, IsFiniteSet(S), NEW T \in SUBSET (SUBSET S), T # {}
  PROVE  \E m \in T : \A s \in T : s \subseteq m => s = m
<1>1. FiniteSubsetsOf(S) = SUBSET S  BY FS_FiniteSubsetsOfFinite
<1>2. IsWellFoundedOn(StrictSubsetOrdering(S), SUBSET S)
  BY <1>1, FS_StrictSubsetOrderingWellFounded
<1>3. PICK m \in T : \A s \in T : <<s, m>> \notin StrictSubsetOrdering(S)
  BY <1>2, WFMin
<1>4. \A s \in T : s \subseteq m => s = m
  BY <1>3 DEF StrictSubsetOrdering
<1>. QED  BY <1>4

Connected(R, C)   == \A i, j \in C : i # j => <<i, j>> \in R \/ <<j, i>> \in R
Transitive(R, C)  == \A i, j, k \in C : <<i, j>> \in R /\ <<j, k>> \in R => <<i, k>> \in R
FirstOf(R, C, i)  == i \in C /\ \A j \in C \ {i} : <<i, j>> \in R

\* A connected and transitive relation has a first element on a finite set.
THEOREM FirstExists ==
  ASSUME NEW C, IsFiniteSet(C), C # {}, NEW R, Connected(R, C), Transitive(R, C)
  PROVE  \E i \in C : FirstOf(R, C, i)
<1>1. DEFINE Bad == {s \in SUBSET C : s # {} /\ ~ \E i \in s : FirstOf(R, s, i)}
<1>2. SUFFICES ASSUME Bad # {} PROVE FALSE
  <2>1. C \in Bad \/ \E i \in C : FirstOf(R, C, i)  OBVIOUS
  <2>. QED  BY <2>1
<1>3. PICK m \in Bad : \A s \in Bad : s \subseteq m => s = m
  <2>1. Bad \in SUBSET (SUBSET C)  OBVIOUS
  <2>. HIDE DEF Bad
  <2>. QED  BY <1>2, <2>1, SmallestSet
<1>4. m \in SUBSET C /\ m # {} /\ \A i \in m : ~FirstOf(R, m, i)  OBVIOUS
<1>5. PICK x \in m : TRUE  BY <1>4
<1>6. m \ {x} # {}
  <2>1. m \ {x} = {} => FirstOf(R, m, x)  BY <1>5 DEF FirstOf
  <2>. QED  BY <1>4, <1>5, <2>1
<1>7. m \ {x} \notin Bad
  <2>1. m \ {x} \subseteq m /\ m \ {x} # m  BY <1>5
  <2>. HIDE DEF Bad
  <2>. QED  BY <1>3, <2>1
<1>8. PICK i \in m \ {x} : FirstOf(R, m \ {x}, i)  BY <1>4, <1>6, <1>7
<1>9. CASE <<i, x>> \in R
  <2>1. FirstOf(R, m, i)  BY <1>8, <1>9 DEF FirstOf
  <2>. QED  BY <1>4, <1>8, <2>1
<1>10. CASE <<i, x>> \notin R
  <2>1. <<x, i>> \in R  BY <1>4, <1>5, <1>8, <1>10 DEF Connected
  <2>2. \A j \in m \ {x} : <<x, j>> \in R
    <3>1. TAKE j \in m \ {x}
    <3>2. CASE j = i  BY <2>1, <3>2
    <3>3. CASE j # i
      <4>1. <<i, j>> \in R  BY <1>8, <3>3 DEF FirstOf
      <4>. QED  BY <1>4, <1>5, <1>8, <2>1, <3>1, <4>1 DEF Transitive
    <3>. QED  BY <3>2, <3>3
  <2>3. FirstOf(R, m, x)  BY <1>5, <2>2 DEF FirstOf
  <2>. QED  BY <1>4, <1>5, <2>3
<1>. QED  BY <1>9, <1>10

LEMMA PickIn == ASSUME NEW s, s # {} PROVE Pick(s) \in s
BY DEF Pick

\* The fold of a set and that of the set without its picked element.
Unfolds(f, S) ==
  SumFunctionOnSet(f, S) = IF S = {} THEN 0
                           ELSE f[Pick(S)] + SumFunctionOnSet(f, S \ {Pick(S)})

LEMMA UnfoldStep ==
  ASSUME NEW f, NEW S, IsFiniteSet(S), \A U \in SUBSET S : U # S => Unfolds(f, U)
  PROVE  Unfolds(f, S)
<1>1. DEFINE W(U) == SumFunctionOnSet(f, U)
             g == [s \in SUBSET S |-> IF s = {} THEN 0 ELSE f[Pick(s)] + W(s \ {Pick(s)})]
             h == FoldFcn(f, S)
<1>2. \A U \in SUBSET S : U # S => g[U] = W(U)  BY DEF Unfolds
<1>3. ASSUME NEW s \in SUBSET S, s # {} PROVE s \ {Pick(s)} \in SUBSET S /\ s \ {Pick(s)} # S
  BY <1>3, PickIn
<1>4. g = [s \in SUBSET S |-> FoldStep(f, g, s)]
  <2>1. ASSUME NEW s \in SUBSET S PROVE g[s] = FoldStep(f, g, s)
    <3>1. CASE s = {}  BY <3>1 DEF FoldStep
    <3>2. CASE s # {}  BY <1>2, <1>3, <3>2 DEF FoldStep
    <3>. QED  BY <3>1, <3>2
  <2>. QED  BY <2>1
<1>. HIDE DEF g
<1>5. h = [s \in SUBSET S |-> FoldStep(f, h, s)]  BY <1>4 DEF FoldFcn
<1>. HIDE DEF h
<1>6. \A s \in SUBSET S : h[s] = g[s]
  <2>1. DEFINE Bad == {s \in SUBSET S : h[s] # g[s]}
  <2>2. SUFFICES ASSUME Bad # {} PROVE FALSE  OBVIOUS
  <2>3. PICK m \in Bad : \A s \in Bad : s \subseteq m => s = m
    <3>1. Bad \in SUBSET (SUBSET S)  OBVIOUS
    <3>. HIDE DEF Bad
    <3>. QED  BY <2>2, <3>1, SmallestSet
  <2>4. m \in SUBSET S /\ h[m] = FoldStep(f, h, m) /\ g[m] = FoldStep(f, g, m)
    BY <1>4, <1>5
  <2>5. m # {}  BY <2>3, <2>4 DEF FoldStep
  <2>6. /\ m \ {Pick(m)} \in SUBSET S /\ m \ {Pick(m)} # m
        /\ m \ {Pick(m)} \subseteq m
    BY <2>5, PickIn
  <2>7. h[m \ {Pick(m)}] = g[m \ {Pick(m)}]  BY <2>3, <2>6
  <2>. QED  BY <2>3, <2>4, <2>5, <2>7 DEF FoldStep
<1>7. W(S) = g[S]  BY <1>6, SumIsFold DEF h
<1>. QED  BY <1>7 DEF g, Unfolds

LEMMA SumUnfolds ==
  ASSUME NEW f, NEW S, IsFiniteSet(S)
  PROVE  Unfolds(f, S)
<1>1. DEFINE Bad == {s \in SUBSET S : ~Unfolds(f, s)}
<1>2. SUFFICES ASSUME Bad # {} PROVE FALSE  OBVIOUS
<1>3. PICK m \in Bad : \A s \in Bad : s \subseteq m => s = m
  <2>1. Bad \in SUBSET (SUBSET S)  OBVIOUS
  <2>. HIDE DEF Bad
  <2>. QED  BY <1>2, <2>1, SmallestSet
<1>4. IsFiniteSet(m)  BY <1>3, FS_Subset
<1>5. \A U \in SUBSET m : U # m => Unfolds(f, U)  BY <1>3
<1>. QED  BY <1>3, <1>4, <1>5, UnfoldStep

-------------------------------------------------------------------------------
\* The empty sum.
THEOREM SumEmpty == ASSUME NEW f PROVE SumFunctionOnSet(f, {}) = 0
BY SumUnfolds, FS_EmptySet DEF Unfolds

\* The element that the fold takes first.
LEMMA SumPick ==
  ASSUME NEW f, NEW S, IsFiniteSet(S), S # {}
  PROVE  /\ Pick(S) \in S /\ IsFiniteSet(S \ {Pick(S)})
         /\ SumFunctionOnSet(f, S) = f[Pick(S)] + SumFunctionOnSet(f, S \ {Pick(S)})
BY SumUnfolds, PickIn, FS_RemoveElement DEF Unfolds

\* A sum of integers is an integer.
THEOREM SumInt ==
  ASSUME NEW f, NEW S, IsFiniteSet(S), \A x \in S : f[x] \in Int
  PROVE  SumFunctionOnSet(f, S) \in Int
<1>1. DEFINE Bad == {s \in SUBSET S : SumFunctionOnSet(f, s) \notin Int}
<1>2. SUFFICES ASSUME Bad # {} PROVE FALSE  OBVIOUS
<1>3. PICK m \in Bad : \A s \in Bad : s \subseteq m => s = m
  <2>1. Bad \in SUBSET (SUBSET S)  OBVIOUS
  <2>. HIDE DEF Bad
  <2>. QED  BY <1>2, <2>1, SmallestSet
<1>4. m \in SUBSET S /\ IsFiniteSet(m) /\ SumFunctionOnSet(f, m) \notin Int  BY FS_Subset
<1>5. m # {}  BY <1>4, SumEmpty
<1>6. Pick(m) \in m /\ SumFunctionOnSet(f, m) = f[Pick(m)] + SumFunctionOnSet(f, m \ {Pick(m)})
  BY <1>4, <1>5, SumPick
<1>7. SumFunctionOnSet(f, m \ {Pick(m)}) \in Int  BY <1>3, <1>6
<1>. QED  BY <1>4, <1>6, <1>7

\* Any element can be taken out of a sum.
THEOREM SumRemove ==
  ASSUME NEW f, NEW S, IsFiniteSet(S), \A x \in S : f[x] \in Int, NEW a \in S
  PROVE  SumFunctionOnSet(f, S) = f[a] + SumFunctionOnSet(f, S \ {a})
<1>1. DEFINE Bad == {s \in SUBSET S : \E b \in s :
                        SumFunctionOnSet(f, s) # f[b] + SumFunctionOnSet(f, s \ {b})}
<1>2. SUFFICES ASSUME Bad # {} PROVE FALSE  BY DEF Bad
<1>3. PICK m \in Bad : \A s \in Bad : s \subseteq m => s = m
  <2>1. Bad \in SUBSET (SUBSET S)  OBVIOUS
  <2>. HIDE DEF Bad
  <2>. QED  BY <1>2, <2>1, SmallestSet
<1>4. m \in SUBSET S /\ IsFiniteSet(m)  BY FS_Subset
<1>5. PICK b \in m : SumFunctionOnSet(f, m) # f[b] + SumFunctionOnSet(f, m \ {b})  OBVIOUS
<1>6. PICK c \in m : SumFunctionOnSet(f, m) = f[c] + SumFunctionOnSet(f, m \ {c})
  BY <1>4, SumPick
<1>7. c # b /\ f[b] \in Int /\ f[c] \in Int  BY <1>4, <1>5, <1>6
<1>8. ASSUME NEW d \in m, NEW e \in m \ {d}
      PROVE  SumFunctionOnSet(f, m \ {d}) = f[e] + SumFunctionOnSet(f, (m \ {d}) \ {e})
  <2>1. m \ {d} \in SUBSET S /\ m \ {d} \subseteq m /\ m \ {d} # m  BY <1>4, <1>8
  <2>2. m \ {d} \notin Bad  BY <1>3, <2>1
  <2>. QED  BY <2>1, <2>2
<1>9. DEFINE rest == SumFunctionOnSet(f, (m \ {c}) \ {b})
<1>10. (m \ {b}) \ {c} = (m \ {c}) \ {b}  OBVIOUS
<1>11. /\ SumFunctionOnSet(f, m \ {c}) = f[b] + rest
       /\ SumFunctionOnSet(f, m \ {b}) = f[c] + rest
  BY <1>7, <1>8, <1>10
<1>12. rest \in Int
  <2>1. IsFiniteSet((m \ {c}) \ {b})  BY <1>4, FS_RemoveElement
  <2>. QED  BY <1>4, <2>1, SumInt
<1>. QED  BY <1>5, <1>6, <1>7, <1>11, <1>12

\* An element can be added to a sum.
THEOREM SumAdd ==
  ASSUME NEW f, NEW S, IsFiniteSet(S), NEW a, a \notin S, \A x \in S \cup {a} : f[x] \in Int
  PROVE  SumFunctionOnSet(f, S \cup {a}) = f[a] + SumFunctionOnSet(f, S)
<1>1. IsFiniteSet(S \cup {a}) /\ (S \cup {a}) \ {a} = S  BY FS_AddElement
<1>. QED  BY <1>1, SumRemove

\* A sum depends on the values it adds only.
THEOREM SumSame ==
  ASSUME NEW f, NEW g, NEW S, IsFiniteSet(S), \A x \in S : f[x] = g[x]
  PROVE  SumFunctionOnSet(f, S) = SumFunctionOnSet(g, S)
<1>1. DEFINE Bad == {s \in SUBSET S : SumFunctionOnSet(f, s) # SumFunctionOnSet(g, s)}
<1>2. SUFFICES ASSUME Bad # {} PROVE FALSE  OBVIOUS
<1>3. PICK m \in Bad : \A s \in Bad : s \subseteq m => s = m
  <2>1. Bad \in SUBSET (SUBSET S)  OBVIOUS
  <2>. HIDE DEF Bad
  <2>. QED  BY <1>2, <2>1, SmallestSet
<1>4. m \in SUBSET S /\ IsFiniteSet(m)  BY FS_Subset
<1>5. m # {}  BY <1>3, SumEmpty
<1>6. /\ Pick(m) \in m
      /\ SumFunctionOnSet(f, m) = f[Pick(m)] + SumFunctionOnSet(f, m \ {Pick(m)})
      /\ SumFunctionOnSet(g, m) = g[Pick(m)] + SumFunctionOnSet(g, m \ {Pick(m)})
  BY <1>4, <1>5, SumPick
<1>7. SumFunctionOnSet(f, m \ {Pick(m)}) = SumFunctionOnSet(g, m \ {Pick(m)})
  BY <1>3, <1>4, <1>6
<1>. QED  BY <1>3, <1>4, <1>6, <1>7

\* A change of one value changes the sum by as much.
THEOREM SumUpdate ==
  ASSUME NEW f, NEW g, NEW S, IsFiniteSet(S), NEW a \in S,
         \A x \in S : f[x] \in Int /\ g[x] \in Int,
         \A x \in S \ {a} : g[x] = f[x]
  PROVE  SumFunctionOnSet(g, S) = SumFunctionOnSet(f, S) - f[a] + g[a]
<1>1. IsFiniteSet(S \ {a})  BY FS_RemoveElement
<1>2. SumFunctionOnSet(g, S \ {a}) = SumFunctionOnSet(f, S \ {a})  BY <1>1, SumSame
<1>3. /\ SumFunctionOnSet(f, S) = f[a] + SumFunctionOnSet(f, S \ {a})
      /\ SumFunctionOnSet(g, S) = g[a] + SumFunctionOnSet(g, S \ {a})
  BY SumRemove
<1>4. SumFunctionOnSet(f, S \ {a}) \in Int  BY <1>1, SumInt
<1>. QED  BY <1>2, <1>3, <1>4

\* Sums are added term by term.
THEOREM SumPlus ==
  ASSUME NEW f, NEW g, NEW h, NEW S, IsFiniteSet(S),
         \A x \in S : f[x] \in Int /\ g[x] \in Int /\ h[x] = f[x] + g[x]
  PROVE  SumFunctionOnSet(h, S) = SumFunctionOnSet(f, S) + SumFunctionOnSet(g, S)
<1>1. DEFINE Bad == {s \in SUBSET S :
        SumFunctionOnSet(h, s) # SumFunctionOnSet(f, s) + SumFunctionOnSet(g, s)}
<1>2. SUFFICES ASSUME Bad # {} PROVE FALSE  OBVIOUS
<1>3. PICK m \in Bad : \A s \in Bad : s \subseteq m => s = m
  <2>1. Bad \in SUBSET (SUBSET S)  OBVIOUS
  <2>. HIDE DEF Bad
  <2>. QED  BY <1>2, <2>1, SmallestSet
<1>4. m \in SUBSET S /\ IsFiniteSet(m)  BY FS_Subset
<1>5. m # {}
  <2>1. SumFunctionOnSet(h, m) # SumFunctionOnSet(f, m) + SumFunctionOnSet(g, m)  BY <1>3
  <2>2. SumFunctionOnSet(h, {}) = SumFunctionOnSet(f, {}) + SumFunctionOnSet(g, {})
    <3>1. SumFunctionOnSet(f, {}) = 0 /\ SumFunctionOnSet(g, {}) = 0  BY SumEmpty
    <3>2. SumFunctionOnSet(h, {}) = 0  BY SumEmpty
    <3>. QED  BY <3>1, <3>2
  <2>. HIDE DEF Bad
  <2>. QED  BY <2>1, <2>2
<1>6. PICK c \in m :
        /\ SumFunctionOnSet(f, m) = f[c] + SumFunctionOnSet(f, m \ {c})
        /\ SumFunctionOnSet(g, m) = g[c] + SumFunctionOnSet(g, m \ {c})
        /\ SumFunctionOnSet(h, m) = h[c] + SumFunctionOnSet(h, m \ {c})
        /\ IsFiniteSet(m \ {c})
  BY <1>4, <1>5, SumPick
<1>7. SumFunctionOnSet(h, m \ {c}) = SumFunctionOnSet(f, m \ {c}) + SumFunctionOnSet(g, m \ {c})
  BY <1>3, <1>4
<1>8. SumFunctionOnSet(f, m \ {c}) \in Int /\ SumFunctionOnSet(g, m \ {c}) \in Int
  BY <1>4, <1>6, SumInt
<1>9. f[c] \in Int /\ g[c] \in Int /\ h[c] = f[c] + g[c]  BY <1>4
<1>. QED  BY <1>3, <1>6, <1>7, <1>8, <1>9

\* Sums are compared term by term.
THEOREM SumAtLeast ==
  ASSUME NEW f, NEW g, NEW S, IsFiniteSet(S),
         \A x \in S : f[x] \in Int /\ g[x] \in Int /\ f[x] <= g[x]
  PROVE  SumFunctionOnSet(f, S) <= SumFunctionOnSet(g, S)
<1>1. DEFINE Bad == {s \in SUBSET S : ~(SumFunctionOnSet(f, s) <= SumFunctionOnSet(g, s))}
<1>2. SUFFICES ASSUME Bad # {} PROVE FALSE  OBVIOUS
<1>3. PICK m \in Bad : \A s \in Bad : s \subseteq m => s = m
  <2>1. Bad \in SUBSET (SUBSET S)  OBVIOUS
  <2>. HIDE DEF Bad
  <2>. QED  BY <1>2, <2>1, SmallestSet
<1>4. m \in SUBSET S /\ IsFiniteSet(m)  BY FS_Subset
<1>5. m # {}
  <2>1. ~(SumFunctionOnSet(f, m) <= SumFunctionOnSet(g, m))  BY <1>3
  <2>2. SumFunctionOnSet(f, {}) = 0 /\ SumFunctionOnSet(g, {}) = 0  BY SumEmpty
  <2>. HIDE DEF Bad
  <2>. QED  BY <2>1, <2>2
<1>6. PICK c \in m :
        /\ SumFunctionOnSet(f, m) = f[c] + SumFunctionOnSet(f, m \ {c})
        /\ SumFunctionOnSet(g, m) = g[c] + SumFunctionOnSet(g, m \ {c})
        /\ IsFiniteSet(m \ {c})
  BY <1>4, <1>5, SumPick
<1>7. SumFunctionOnSet(f, m \ {c}) <= SumFunctionOnSet(g, m \ {c})  BY <1>3, <1>4
<1>8. SumFunctionOnSet(f, m \ {c}) \in Int /\ SumFunctionOnSet(g, m \ {c}) \in Int
  BY <1>4, <1>6, SumInt
<1>9. f[c] \in Int /\ g[c] \in Int /\ f[c] <= g[c]  BY <1>4
<1>. QED  BY <1>3, <1>6, <1>7, <1>8, <1>9

\* Terms that are not negative: no part of the sum is larger than the sum.
THEOREM SumPart ==
  ASSUME NEW f, NEW S, IsFiniteSet(S), \A x \in S : f[x] \in Nat
  PROVE  /\ SumFunctionOnSet(f, S) \in Nat
         /\ \A a \in S : f[a] <= SumFunctionOnSet(f, S)
<1>1. DEFINE Bad == {s \in SUBSET S : SumFunctionOnSet(f, s) \notin Nat}
<1>2. Bad = {}
  <2>1. SUFFICES ASSUME Bad # {} PROVE FALSE  OBVIOUS
  <2>2. PICK m \in Bad : \A s \in Bad : s \subseteq m => s = m
    <3>1. Bad \in SUBSET (SUBSET S)  OBVIOUS
    <3>. HIDE DEF Bad
    <3>. QED  BY <2>1, <3>1, SmallestSet
  <2>3. m \in SUBSET S /\ IsFiniteSet(m)  BY FS_Subset
  <2>4. m # {}
    <3>1. SumFunctionOnSet(f, m) \notin Nat  BY <2>2
    <3>2. SumFunctionOnSet(f, {}) = 0  BY SumEmpty
    <3>. HIDE DEF Bad
    <3>. QED  BY <3>1, <3>2
  <2>5. PICK c \in m : SumFunctionOnSet(f, m) = f[c] + SumFunctionOnSet(f, m \ {c})
    BY <2>3, <2>4, SumPick
  <2>6. SumFunctionOnSet(f, m \ {c}) \in Nat /\ f[c] \in Nat  BY <2>2, <2>3
  <2>. QED  BY <2>2, <2>5, <2>6
<1>3. \A s \in SUBSET S : SumFunctionOnSet(f, s) \in Nat  BY <1>2
<1>4. ASSUME NEW a \in S PROVE f[a] <= SumFunctionOnSet(f, S)
  <2>1. SumFunctionOnSet(f, S) = f[a] + SumFunctionOnSet(f, S \ {a})  BY SumRemove
  <2>2. SumFunctionOnSet(f, S \ {a}) \in Nat  BY <1>3
  <2>. QED  BY <2>1, <2>2
<1>. QED  BY <1>3, <1>4

\* What a adds to a sum over S.
Term(f, S, a) == IF a \in S THEN f[a] ELSE 0

\* Anything can be taken out of the set of a sum; only an element counts.
LEMMA SumSplit ==
  ASSUME NEW f, NEW S, IsFiniteSet(S), \A x \in S : f[x] \in Int, NEW a
  PROVE  SumFunctionOnSet(f, S) = Term(f, S, a) + SumFunctionOnSet(f, S \ {a})
<1>1. CASE a \in S  BY <1>1, SumRemove DEF Term
<1>2. CASE a \notin S
  <2>1. S \ {a} = S  BY <1>2
  <2>2. SumFunctionOnSet(f, S) \in Int  BY SumInt
  <2>. QED  BY <1>2, <2>1, <2>2 DEF Term
<1>. QED  BY <1>1, <1>2

\* Two sums that differ at one place at most: there the value may change, or
\* only one of the two may take it.
THEOREM SumChange ==
  ASSUME NEW f, NEW g, NEW S, NEW T, IsFiniteSet(S), IsFiniteSet(T), NEW a,
         S \ {a} = T \ {a}, \A x \in S : f[x] \in Int, \A x \in T : g[x] \in Int,
         \A x \in S \ {a} : g[x] = f[x]
  PROVE  SumFunctionOnSet(g, T) = SumFunctionOnSet(f, S) - Term(f, S, a)
                                                         + Term(g, T, a)
<1>1. IsFiniteSet(S \ {a})  BY FS_RemoveElement
<1>2. SumFunctionOnSet(g, T \ {a}) = SumFunctionOnSet(f, S \ {a})  BY <1>1, SumSame
<1>3. SumFunctionOnSet(f, S) = Term(f, S, a) + SumFunctionOnSet(f, S \ {a})
  BY SumSplit
<1>4. SumFunctionOnSet(g, T) = Term(g, T, a) + SumFunctionOnSet(g, T \ {a})
  BY SumSplit
<1>5. SumFunctionOnSet(f, S \ {a}) \in Int  BY <1>1, SumInt
<1>6. /\ Term(f, S, a) \in Int
      /\ Term(g, T, a) \in Int
  BY DEF Term
<1>. QED  BY <1>2, <1>3, <1>4, <1>5, <1>6
===============================================================================
