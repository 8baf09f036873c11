--------------------------- MODULE DirTree_proofs ---------------------------
(***************************************************************************)
(* Proofs about DirTree (core/src/tree.rs): the running totals are exact,   *)
(* the sizes a filter left are reused only while they hold, and a tab is    *)
(* told of every change under its view, for any tree, sizes and filters.    *)
(*                                                                          *)
(* First what a sum over a finite set is, then what saturating sizes and    *)
(* newest mtimes come to, then trees: who is above and under whom, and what *)
(* hanging one more directory changes.  The invariant is TreeInv.           *)
(***************************************************************************)
EXTENDS DirTree, FiniteSetTheorems, TLAPS

(* Of sets that are finite, some one holds none of the others.  This is how *)
(* the proofs below go from smaller sets to larger ones: a set of counter-   *)
(* examples would have a smallest.                                          *)
LEMMA Smallest ==
    ASSUME NEW T, T # {}, \A s \in T : IsFiniteSet(s)
    PROVE  \E s \in T : \A t \in T : t \subseteq s => t = s
  <1> DEFINE S == UNION T
  <1>1. T \subseteq FiniteSubsetsOf(S)
    BY DEF FiniteSubsetsOf
  <1>2. PICK s \in T : \A t \in T : ~ (<<t, s>> \in StrictSubsetOrdering(S))
    BY <1>1, FS_StrictSubsetOrderingWellFounded, WFMin, Zenon
  <1>3. ASSUME NEW t \in T, t \subseteq s, t # s PROVE FALSE
    <2>1. <<t, s>> \in StrictSubsetOrdering(S)
      BY <1>3 DEF StrictSubsetOrdering
    <2>2. QED BY <2>1, <1>2
  <1>4. QED BY <1>3

LEMMA Subfinite ==
    ASSUME NEW S, IsFiniteSet(S), NEW A \in SUBSET S
    PROVE  IsFiniteSet(A)
  BY FS_Subset

-----------------------------------------------------------------------------
(* Sums over finite sets.  h gives the sum of g over each subset of S.      *)
Adds(g, S, h) ==
    h = [s \in SUBSET S |-> IF s = {} THEN 0
                            ELSE LET x == CHOOSE x \in s : TRUE IN g[x] + h[s \ {x}]]

LEMMA SumIs ==
    ASSUME NEW g, NEW S
    PROVE  SumFunctionOnSet(g, S) = (CHOOSE h : Adds(g, S, h))[S]
  BY DEF SumFunctionOnSet, FoldFunctionOnSet, MapThenFoldSet, Adds

LEMMA AddsAt ==
    ASSUME NEW g, NEW S, NEW h, Adds(g, S, h), NEW s \in SUBSET S
    PROVE  h[s] = IF s = {} THEN 0 ELSE g[CHOOSE x \in s : TRUE] + h[s \ {CHOOSE x \in s : TRUE}]
  BY DEF Adds

LEMMA AddsUnique ==
    ASSUME NEW g, NEW A, IsFiniteSet(A), NEW B \in SUBSET A,
           NEW h1, Adds(g, A, h1), NEW h2, Adds(g, B, h2)
    PROVE  \A s \in SUBSET B : h1[s] = h2[s]
  <1> DEFINE Bad == {s \in SUBSET B : h1[s] # h2[s]}
  <1>1. SUFFICES ASSUME Bad # {} PROVE FALSE
    OBVIOUS
  <1>2. PICK s \in Bad : \A t \in Bad : t \subseteq s => t = s
    <2>1. \A t \in Bad : IsFiniteSet(t)
      BY FS_Subset
    <2> HIDE DEF Bad
    <2>2. QED BY <1>1, <2>1, Smallest
  <1>3. s # {}
    BY <1>2, AddsAt
  <1> DEFINE x == CHOOSE x \in s : TRUE
  <1>4. x \in s
    BY <1>3
  <1>5. s \ {x} \notin Bad
    BY <1>2, <1>4
  <1>6. h1[s \ {x}] = h2[s \ {x}]
    BY <1>2, <1>5
  <1>7. h1[s] = g[x] + h1[s \ {x}] /\ h2[s] = g[x] + h2[s \ {x}]
    <2>1. s \in SUBSET A /\ s \in SUBSET B
      BY <1>2
    <2>2. h1[s] = g[x] + h1[s \ {x}]
      BY <2>1, <1>3, AddsAt
    <2>3. h2[s] = g[x] + h2[s \ {x}]
      <3>1. \A t \in SUBSET B :
              h2[t] = IF t = {} THEN 0 ELSE g[CHOOSE y \in t : TRUE] + h2[t \ {CHOOSE y \in t : TRUE}]
        BY DEF Adds
      <3>2. s \in SUBSET B
        BY <2>1
      <3>3. h2[s] = IF s = {} THEN 0 ELSE g[x] + h2[s \ {x}]
        BY <3>1, <3>2, Zenon
      <3>4. QED BY <3>3, <1>3, Zenon
    <2>4. QED BY <2>2, <2>3
  <1>8. QED BY <1>2, <1>6, <1>7

(* What h gives on the subsets of a smaller set adds up there too.          *)
LEMMA AddsWithin ==
    ASSUME NEW g, NEW A, NEW B \in SUBSET A, NEW h, Adds(g, A, h)
    PROVE  Adds(g, B, [s \in SUBSET B |-> h[s]])
  <1> DEFINE k == [s \in SUBSET B |-> h[s]]
             at(s) == IF s = {} THEN 0
                      ELSE LET x == CHOOSE x \in s : TRUE IN g[x] + k[s \ {x}]
  <1>1. ASSUME NEW s \in SUBSET B PROVE k[s] = at(s)
    <2>1. s \in SUBSET A
      OBVIOUS
    <2>2. k[s] = h[s] /\ \A x : k[s \ {x}] = h[s \ {x}]
      OBVIOUS
    <2>3. QED BY <2>1, <2>2, AddsAt
  <1>2. k = [s \in SUBSET B |-> at(s)]
    BY <1>1
  <1>3. QED BY <1>2 DEF Adds

LEMMA AddsExists ==
    ASSUME NEW g, NEW S, IsFiniteSet(S)
    PROVE  \E h : Adds(g, S, h)
  <1> DEFINE Bad == {A \in SUBSET S : ~ \E h : Adds(g, A, h)}
  <1>1. SUFFICES ASSUME Bad # {} PROVE FALSE
    OBVIOUS
  <1>2. PICK A \in Bad : \A t \in Bad : t \subseteq A => t = A
    <2>1. \A t \in Bad : IsFiniteSet(t)
      BY FS_Subset
    <2> HIDE DEF Bad
    <2>2. QED BY <1>1, <2>1, Smallest
  <1>3. IsFiniteSet(A)
    BY <1>2, FS_Subset
  <1> DEFINE part(B) == CHOOSE h : Adds(g, B, h)
             x == CHOOSE x \in A : TRUE
             h == [s \in SUBSET A |->
                     IF s = A /\ A # {} THEN g[x] + part(A \ {x})[A \ {x}] ELSE part(s)[s]]
             at(s) == IF s = {} THEN 0
                      ELSE LET y == CHOOSE y \in s : TRUE IN g[y] + h[s \ {y}]
  <1>4. ASSUME NEW B \in SUBSET A, B # A PROVE Adds(g, B, part(B))
    <2>1. \E k : Adds(g, B, k)
      BY <1>2, <1>4
    <2>2. QED BY <2>1
  <1>5. ASSUME NEW s \in SUBSET A, s # A, s # {}, NEW y, y = CHOOSE z \in s : TRUE
        PROVE  part(s)[s] = g[y] + part(s \ {y})[s \ {y}]
    <2>1. y \in s /\ s \ {y} # A /\ s \ {y} \in SUBSET s /\ s \ {y} \in SUBSET A /\ IsFiniteSet(s)
      BY <1>3, <1>5, FS_Subset
    <2>2. Adds(g, s, part(s)) /\ Adds(g, s \ {y}, part(s \ {y}))
      BY <1>4, <1>5, <2>1
    <2>3. part(s)[s] = g[y] + part(s)[s \ {y}]
      <3> HIDE DEF part
      <3>1. QED BY <1>5, <2>2, AddsAt
    <2>4. part(s)[s \ {y}] = part(s \ {y})[s \ {y}]
      <3> HIDE DEF part
      <3>1. \A t \in SUBSET (s \ {y}) : part(s)[t] = part(s \ {y})[t]
        BY <2>1, <2>2, AddsUnique
      <3>2. QED BY <3>1
    <2>5. QED BY <2>3, <2>4
  <1> HIDE DEF part
  <1>6. ASSUME NEW s \in SUBSET A PROVE h[s] = at(s)
    <2>1. CASE s = {} /\ A # {}
      <3>1. Adds(g, {}, part({}))
        BY <1>4, <2>1
      <3>2. part({})[{}] = 0
        BY <3>1, AddsAt
      <3>3. QED BY <2>1, <3>2
    <2>2. CASE s # {} /\ s # A
      <3> DEFINE y == CHOOSE y \in s : TRUE
      <3>1. h[s] = part(s)[s]
        BY <2>2
      <3>2. y \in s /\ s \ {y} # A /\ s \ {y} \in SUBSET A
        BY <2>2
      <3>3. h[s \ {y}] = part(s \ {y})[s \ {y}]
        BY <3>2
      <3>4. part(s)[s] = g[y] + part(s \ {y})[s \ {y}]
        BY <2>2, <1>5
      <3>5. QED BY <2>2, <3>1, <3>3, <3>4
    <2>3. CASE s = A /\ A # {}
      <3>1. x \in A /\ A \ {x} # A /\ A \ {x} \in SUBSET A
        BY <2>3
      <3>2. h[A \ {x}] = part(A \ {x})[A \ {x}]
        BY <3>1
      <3>3. QED BY <2>3, <3>2
    <2>4. CASE A = {}
      <3>1. Adds(g, {}, [t \in SUBSET {} |-> 0])
        <4>1. \A t \in SUBSET {} : t = {}
          OBVIOUS
        <4>2. QED BY <4>1 DEF Adds
      <3>2. QED BY <2>4, <3>1, <1>2
    <2>5. QED BY <2>1, <2>2, <2>3, <2>4
  <1>7. h = [s \in SUBSET A |-> at(s)]
    BY <1>6
  <1>8. Adds(g, A, h)
    BY <1>7 DEF Adds
  <1>9. QED BY <1>2, <1>8

LEMMA SumEmpty ==
    ASSUME NEW g
    PROVE  SumFunctionOnSet(g, {}) = 0
  <1> DEFINE h == CHOOSE h : Adds(g, {}, h)
  <1>1. Adds(g, {}, h)
    BY AddsExists, FS_EmptySet
  <1>2. h[{}] = 0
    BY <1>1 DEF Adds
  <1>3. QED BY <1>2, SumIs

AnyOf(S) == CHOOSE x \in S : TRUE

LEMMA SumChosen ==
    ASSUME NEW g, NEW S, IsFiniteSet(S), S # {}, NEW x, x = AnyOf(S)
    PROVE  SumFunctionOnSet(g, S) = g[x] + SumFunctionOnSet(g, S \ {x})
  <1> DEFINE part(B) == CHOOSE h : Adds(g, B, h)
  <1>1. x \in S /\ S \ {x} \in SUBSET S /\ IsFiniteSet(S \ {x})
    BY FS_Subset DEF AnyOf
  <1>2. Adds(g, S, part(S)) /\ Adds(g, S \ {x}, part(S \ {x}))
    BY <1>1, AddsExists
  <1>3. SumFunctionOnSet(g, S) = part(S)[S]
    BY SumIs
  <1>4. SumFunctionOnSet(g, S \ {x}) = part(S \ {x})[S \ {x}]
    BY SumIs
  <1> HIDE DEF part
  <1>5. part(S)[S] = g[x] + part(S)[S \ {x}]
    BY <1>2 DEF Adds, AnyOf
  <1>6. \A t \in SUBSET (S \ {x}) : part(S)[t] = part(S \ {x})[t]
    BY <1>1, <1>2, AddsUnique
  <1>7. part(S)[S \ {x}] = part(S \ {x})[S \ {x}]
    BY <1>6
  <1>8. QED BY <1>3, <1>4, <1>5, <1>7

LEMMA SumNat ==
    ASSUME NEW g, NEW S, IsFiniteSet(S), \A x \in S : g[x] \in Nat
    PROVE  SumFunctionOnSet(g, S) \in Nat
  <1> DEFINE Bad == {s \in SUBSET S : SumFunctionOnSet(g, s) \notin Nat}
  <1>1. SUFFICES ASSUME Bad # {} PROVE FALSE
    OBVIOUS
  <1>2. PICK s \in Bad : \A t \in Bad : t \subseteq s => t = s
    <2>1. \A t \in Bad : IsFiniteSet(t)
      BY FS_Subset
    <2> HIDE DEF Bad
    <2>2. QED BY <1>1, <2>1, Smallest
  <1>3. s # {}
    <2>1. SumFunctionOnSet(g, s) \notin Nat
      BY <1>2
    <2>2. ASSUME s = {} PROVE SumFunctionOnSet(g, s) = 0
      BY <2>2, SumEmpty, Zenon
    <2>3. QED BY <2>1, <2>2
  <1>4. PICK x : x = AnyOf(s)
    OBVIOUS
  <1>5. x \in s /\ x \in S /\ IsFiniteSet(s)
    BY <1>2, <1>3, <1>4, FS_Subset DEF AnyOf
  <1>6. s \ {x} \notin Bad
    BY <1>2, <1>5
  <1>7. SumFunctionOnSet(g, s \ {x}) \in Nat
    BY <1>2, <1>6
  <1>8. SumFunctionOnSet(g, s) = g[x] + SumFunctionOnSet(g, s \ {x})
    BY <1>3, <1>4, <1>5, SumChosen
  <1>9. QED BY <1>2, <1>5, <1>7, <1>8

(* It doesn't matter in which order a sum is taken.                         *)
LEMMA SumAny ==
    ASSUME NEW g, NEW S, IsFiniteSet(S), \A x \in S : g[x] \in Nat, NEW x \in S
    PROVE  SumFunctionOnSet(g, S) = g[x] + SumFunctionOnSet(g, S \ {x})
  <1> DEFINE Bad == {s \in SUBSET S : \E y \in s :
                       SumFunctionOnSet(g, s) # g[y] + SumFunctionOnSet(g, s \ {y})}
  <1>1. SUFFICES ASSUME Bad # {} PROVE FALSE
    OBVIOUS
  <1>2. PICK s \in Bad : \A t \in Bad : t \subseteq s => t = s
    <2>1. \A t \in Bad : IsFiniteSet(t)
      BY FS_Subset
    <2> HIDE DEF Bad
    <2>2. QED BY <1>1, <2>1, Smallest
  <1>3. PICK y \in s : SumFunctionOnSet(g, s) # g[y] + SumFunctionOnSet(g, s \ {y})
    BY <1>2
  <1>4. PICK z : z = AnyOf(s)
    OBVIOUS
  <1>5. z \in s /\ z \in S /\ y \in S /\ s \in SUBSET S /\ IsFiniteSet(s)
    BY <1>2, <1>3, <1>4, FS_Subset DEF AnyOf
  <1>6. SumFunctionOnSet(g, s) = g[z] + SumFunctionOnSet(g, s \ {z})
    BY <1>3, <1>4, <1>5, SumChosen
  <1>7. y # z
    BY <1>3, <1>6
  <1>8. s \ {y} \notin Bad /\ s \ {z} \notin Bad
    BY <1>2, <1>5
  <1>9. SumFunctionOnSet(g, s \ {z}) = g[y] + SumFunctionOnSet(g, (s \ {z}) \ {y})
    BY <1>5, <1>7, <1>8
  <1>10. SumFunctionOnSet(g, s \ {y}) = g[z] + SumFunctionOnSet(g, (s \ {y}) \ {z})
    BY <1>5, <1>7, <1>8
  <1>11. (s \ {z}) \ {y} = (s \ {y}) \ {z}
    OBVIOUS
  <1>12. SumFunctionOnSet(g, (s \ {y}) \ {z}) \in Nat
    <2>1. IsFiniteSet((s \ {y}) \ {z})
      BY <1>5, FS_Subset
    <2>2. QED BY <1>5, <2>1, SumNat
  <1>13. g[y] \in Nat /\ g[z] \in Nat
    BY <1>5
  <1>14. QED BY <1>3, <1>6, <1>9, <1>10, <1>11, <1>12, <1>13

LEMMA SumUnion ==
    ASSUME NEW g, NEW A, NEW B, IsFiniteSet(A), IsFiniteSet(B), A \cap B = {},
           \A x \in A \cup B : g[x] \in Nat
    PROVE  SumFunctionOnSet(g, A \cup B) = SumFunctionOnSet(g, A) + SumFunctionOnSet(g, B)
  <1> DEFINE Bad == {s \in SUBSET A : SumFunctionOnSet(g, s \cup B)
                                        # SumFunctionOnSet(g, s) + SumFunctionOnSet(g, B)}
  <1>1. SUFFICES ASSUME Bad # {} PROVE FALSE
    OBVIOUS
  <1>2. PICK s \in Bad : \A t \in Bad : t \subseteq s => t = s
    <2>1. \A t \in Bad : IsFiniteSet(t)
      BY FS_Subset
    <2> HIDE DEF Bad
    <2>2. QED BY <1>1, <2>1, Smallest
  <1>3. SumFunctionOnSet(g, B) \in Nat
    BY SumNat
  <1>4. s # {}
    <2>1. {} \cup B = B
      OBVIOUS
    <2>2. SumFunctionOnSet(g, s \cup B) # SumFunctionOnSet(g, s) + SumFunctionOnSet(g, B)
      BY <1>2
    <2>3. ASSUME s = {}
          PROVE  SumFunctionOnSet(g, s) = 0 /\ SumFunctionOnSet(g, s \cup B) = SumFunctionOnSet(g, B)
      BY <2>1, <2>3, SumEmpty, Zenon
    <2>4. QED BY <1>3, <2>2, <2>3
  <1>5. PICK x \in s : TRUE
    BY <1>4
  <1>6. s \ {x} \notin Bad /\ s \in SUBSET A
    BY <1>2
  <1>7. SumFunctionOnSet(g, (s \ {x}) \cup B)
          = SumFunctionOnSet(g, s \ {x}) + SumFunctionOnSet(g, B)
    BY <1>6
  <1>8. (s \cup B) \ {x} = (s \ {x}) \cup B
    BY <1>5, <1>6
  <1>9. IsFiniteSet(s) /\ IsFiniteSet(s \ {x}) /\ IsFiniteSet(s \cup B)
    BY <1>6, FS_Subset, FS_Union
  <1>10. SumFunctionOnSet(g, s \cup B) = g[x] + SumFunctionOnSet(g, (s \cup B) \ {x})
    BY <1>5, <1>6, <1>9, SumAny
  <1>11. SumFunctionOnSet(g, s) = g[x] + SumFunctionOnSet(g, s \ {x})
    BY <1>5, <1>6, <1>9, SumAny
  <1>12. g[x] \in Nat /\ SumFunctionOnSet(g, s \ {x}) \in Nat
    BY <1>5, <1>6, <1>9, SumNat
  <1>13. QED BY <1>2, <1>3, <1>7, <1>8, <1>10, <1>11, <1>12

(* A sum depends only on what it adds up.                                   *)
LEMMA SumSame ==
    ASSUME NEW g, NEW h, NEW S, IsFiniteSet(S),
           \A x \in S : g[x] \in Nat /\ h[x] = g[x]
    PROVE  SumFunctionOnSet(h, S) = SumFunctionOnSet(g, S)
  <1> DEFINE Bad == {s \in SUBSET S : SumFunctionOnSet(h, s) # SumFunctionOnSet(g, s)}
  <1>1. SUFFICES ASSUME Bad # {} PROVE FALSE
    OBVIOUS
  <1>2. PICK s \in Bad : \A t \in Bad : t \subseteq s => t = s
    <2>1. \A t \in Bad : IsFiniteSet(t)
      BY FS_Subset
    <2> HIDE DEF Bad
    <2>2. QED BY <1>1, <2>1, Smallest
  <1>3. s # {}
    BY <1>2, SumEmpty
  <1>4. PICK x \in s : TRUE
    BY <1>3
  <1>5. s \ {x} \notin Bad /\ s \in SUBSET S
    BY <1>2
  <1>6. SumFunctionOnSet(h, s \ {x}) = SumFunctionOnSet(g, s \ {x})
    BY <1>5
  <1>7. IsFiniteSet(s)
    BY <1>5, FS_Subset
  <1>8. SumFunctionOnSet(g, s) = g[x] + SumFunctionOnSet(g, s \ {x})
    BY <1>4, <1>5, <1>7, SumAny
  <1>9. SumFunctionOnSet(h, s) = h[x] + SumFunctionOnSet(h, s \ {x})
    BY <1>4, <1>5, <1>7, SumAny
  <1>10. QED BY <1>2, <1>4, <1>5, <1>6, <1>8, <1>9

-----------------------------------------------------------------------------
(* Sizes that saturate, and the newest of finitely many mtimes.             *)
LEMMA SaturatedAdds ==
    ASSUME NEW m \in Nat, NEW n \in Nat
    PROVE  /\ Saturated(n) \in Nat
           /\ Saturated(Saturated(n)) = Saturated(n)
           /\ Saturated(Saturated(m) + n) = Saturated(m + n)
           /\ Saturated(m + Saturated(n)) = Saturated(m + n)
           /\ Saturated(Saturated(m) + Saturated(n)) = Saturated(m + n)
  BY FilesAssumption DEF Saturated

LEMMA SizeSumNat ==
    ASSUME NEW A \in SUBSET File
    PROVE  SizeSum(A) \in Nat /\ Saturated(SizeSum(A)) = SizeSum(A) /\ IsFiniteSet(A)
  <1>1. IsFiniteSet(A) /\ \A f \in A : SizeOf[f] \in Nat
    BY FilesAssumption, FS_Subset
  <1>2. SumFunctionOnSet(SizeOf, A) \in Nat
    BY <1>1, SumNat
  <1>3. QED BY <1>1, <1>2, SaturatedAdds DEF SizeSum

LEMMA SizeSumEmpty == SizeSum({}) = 0
  BY SumEmpty, FilesAssumption DEF SizeSum, Saturated

LEMMA SizeSumUnion ==
    ASSUME NEW A \in SUBSET File, NEW B \in SUBSET File, A \cap B = {}
    PROVE  SizeSum(A \cup B) = Saturated(SizeSum(A) + SizeSum(B))
  <1>1. IsFiniteSet(A) /\ IsFiniteSet(B) /\ \A f \in A \cup B : SizeOf[f] \in Nat
    BY FilesAssumption, FS_Subset
  <1>2. SumFunctionOnSet(SizeOf, A) \in Nat /\ SumFunctionOnSet(SizeOf, B) \in Nat
    BY <1>1, SumNat
  <1>3. SumFunctionOnSet(SizeOf, A \cup B)
          = SumFunctionOnSet(SizeOf, A) + SumFunctionOnSet(SizeOf, B)
    BY <1>1, SumUnion
  <1>4. QED BY <1>2, <1>3, SaturatedAdds DEF SizeSum

(* The saturated sum of the sizes of disjoint sets of files is the size of  *)
(* all those files.                                                         *)
LEMMA SizeSumOfParts ==
    ASSUME NEW K, IsFiniteSet(K), NEW F, \A c \in K : F[c] \in SUBSET File,
           \A c, e \in K : c # e => F[c] \cap F[e] = {},
           NEW s, \A c \in K : s[c] = SizeSum(F[c])
    PROVE  Saturated(SumFunctionOnSet(s, K)) = SizeSum(UNION {F[c] : c \in K})
  <1> DEFINE all(k) == UNION {F[c] : c \in k}
             Bad == {k \in SUBSET K : Saturated(SumFunctionOnSet(s, k)) # SizeSum(all(k))}
  <1>1. SUFFICES ASSUME Bad # {} PROVE FALSE
    OBVIOUS
  <1>2. PICK k \in Bad : \A t \in Bad : t \subseteq k => t = k
    <2>1. \A t \in Bad : IsFiniteSet(t)
      BY FS_Subset
    <2> HIDE DEF Bad
    <2>2. QED BY <1>1, <2>1, Smallest
  <1>3. k \in SUBSET K /\ IsFiniteSet(k) /\ Saturated(SumFunctionOnSet(s, k)) # SizeSum(all(k))
    BY <1>2, FS_Subset
  <1>4. \A c \in K : s[c] \in Nat
    BY SizeSumNat
  <1>5. k # {}
    <2>1. SUFFICES ASSUME k = {} PROVE FALSE
      OBVIOUS
    <2>2. all(k) = {}
      BY <2>1
    <2>3. SumFunctionOnSet(s, k) = 0
      BY <2>1, SumEmpty, Zenon
    <2>4. Saturated(0) = 0
      BY FilesAssumption DEF Saturated
    <2>5. QED BY <1>3, <2>2, <2>3, <2>4, SizeSumEmpty
  <1>6. PICK c \in k : TRUE
    BY <1>5
  <1>7. k \ {c} \notin Bad /\ k \ {c} \in SUBSET K
    BY <1>2, <1>3, <1>6
  <1>8. Saturated(SumFunctionOnSet(s, k \ {c})) = SizeSum(all(k \ {c}))
    BY <1>7
  <1>9. SumFunctionOnSet(s, k) = s[c] + SumFunctionOnSet(s, k \ {c})
    BY <1>3, <1>4, <1>6, SumAny
  <1>10. SumFunctionOnSet(s, k \ {c}) \in Nat
    <2>1. IsFiniteSet(k \ {c})
      BY <1>3, FS_Subset
    <2>2. QED BY <2>1, <1>4, <1>7, SumNat
  <1>11. all(k) = F[c] \cup all(k \ {c})
    BY <1>6
  <1>12. F[c] \cap all(k \ {c}) = {}
    BY <1>3, <1>6
  <1>13. F[c] \in SUBSET File /\ all(k \ {c}) \in SUBSET File
    BY <1>3, <1>6
  <1> HIDE DEF all
  <1>14. SizeSum(all(k)) = Saturated(SizeSum(F[c]) + SizeSum(all(k \ {c})))
    BY <1>11, <1>12, <1>13, SizeSumUnion
  <1>15. SizeSum(all(k)) = Saturated(s[c] + Saturated(SumFunctionOnSet(s, k \ {c})))
    BY <1>3, <1>6, <1>8, <1>14
  <1>16. Saturated(s[c] + Saturated(SumFunctionOnSet(s, k \ {c})))
           = Saturated(s[c] + SumFunctionOnSet(s, k \ {c}))
    BY <1>3, <1>4, <1>6, <1>10, SaturatedAdds
  <1>17. QED BY <1>3, <1>9, <1>15, <1>16

LEMMA HasNewest ==
    ASSUME NEW M \in SUBSET Nat, IsFiniteSet(M), M # {}
    PROVE  \E n \in M : \A m \in M : n >= m
  <1> DEFINE Bad == {s \in SUBSET M : s # {} /\ ~ \E n \in s : \A m \in s : n >= m}
  <1>1. SUFFICES ASSUME Bad # {} PROVE FALSE
    BY FS_Subset
  <1>2. PICK s \in Bad : \A t \in Bad : t \subseteq s => t = s
    <2>1. \A t \in Bad : IsFiniteSet(t)
      BY FS_Subset
    <2> HIDE DEF Bad
    <2>2. QED BY <1>1, <2>1, Smallest
  <1>3. PICK x \in s : TRUE
    BY <1>2
  <1>4. CASE s \ {x} = {}
    <2>1. \A m \in s : x >= m
      BY <1>2, <1>3, <1>4
    <2>2. QED BY <1>2, <1>3, <2>1
  <1>5. CASE s \ {x} # {}
    <2>1. s \ {x} \notin Bad
      BY <1>2, <1>3
    <2>2. PICK n \in s \ {x} : \A m \in s \ {x} : n >= m
      BY <1>2, <1>5, <2>1
    <2>3. n \in Nat /\ x \in Nat /\ s \subseteq Nat
      BY <1>2, <1>3
    <2>4. CASE n >= x
      <3>1. \A m \in s : n >= m
        BY <2>2, <2>4
      <3>2. QED BY <1>2, <2>2, <3>1
    <2>5. CASE ~ n >= x
      <3>1. \A m \in s : x >= m
        BY <2>2, <2>3, <2>5
      <3>2. QED BY <1>2, <1>3, <3>1
    <2>6. QED BY <2>4, <2>5
  <1>6. QED BY <1>4, <1>5

LEMMA NewestBounds ==
    ASSUME NEW M \in SUBSET Nat, IsFiniteSet(M)
    PROVE  /\ Newest(M) \in Nat
           /\ Newest(M) \in {0} \cup M
           /\ \A m \in M : m <= Newest(M)
  <1> DEFINE N == {0} \cup M
  <1>1. N \in SUBSET Nat /\ IsFiniteSet(N) /\ N # {}
    <2>1. IsFiniteSet(M \cup {0})
      BY FS_AddElement
    <2>2. N = M \cup {0}
      OBVIOUS
    <2>3. QED BY <2>1, <2>2
  <1>2. \E n \in N : \A m \in N : n >= m
    <2> HIDE DEF N
    <2>1. QED BY <1>1, HasNewest
  <1>3. Max(N) \in N /\ \A m \in N : Max(N) >= m
    BY <1>2 DEF Max
  <1>4. QED BY <1>1, <1>3 DEF Newest

LEMMA NewestIs ==
    ASSUME NEW M \in SUBSET Nat, IsFiniteSet(M), NEW n \in {0} \cup M, \A m \in M : m <= n
    PROVE  Newest(M) = n
  <1>1. /\ Newest(M) \in Nat
        /\ Newest(M) \in {0} \cup M
        /\ \A m \in M : m <= Newest(M)
    BY NewestBounds
  <1>2. QED BY <1>1

(* The newest of a set that grows by one mtime.                             *)
LEMMA NewestGrows ==
    ASSUME NEW M \in SUBSET Nat, IsFiniteSet(M), NEW m \in Nat
    PROVE  Newest(M \cup {m}) = Newest({Newest(M), m})
  <1>1. /\ Newest(M) \in Nat
        /\ Newest(M) \in {0} \cup M
        /\ \A k \in M : k <= Newest(M)
    BY NewestBounds
  <1>2. IsFiniteSet({Newest(M), m}) /\ {Newest(M), m} \in SUBSET Nat
    <2>1. IsFiniteSet({Newest(M)} \cup {m})
      BY FS_Singleton, FS_AddElement
    <2>2. {Newest(M), m} = {Newest(M)} \cup {m}
      OBVIOUS
    <2>3. QED BY <1>1, <2>1, <2>2
  <1>3. IsFiniteSet(M \cup {m}) /\ M \cup {m} \in SUBSET Nat
    BY FS_Singleton, FS_Union
  <1>4. PICK n : n = Newest({Newest(M), m})
    OBVIOUS
  <1>5. n \in Nat /\ n \in {0, Newest(M), m} /\ m <= n /\ Newest(M) <= n
    BY <1>2, <1>4, NewestBounds
  <1>6. n \in {0} \cup (M \cup {m})
    BY <1>1, <1>5
  <1>7. \A k \in M \cup {m} : k <= n
    BY <1>1, <1>5
  <1>8. QED BY <1>3, <1>4, <1>6, <1>7, NewestIs

-----------------------------------------------------------------------------
(* The directories above one, and those under one.                          *)
LEMMA AboveClosed ==
    ASSUME NEW ns, NEW d \in DOMAIN ns
    PROVE  /\ Above(ns, d) \subseteq DOMAIN ns
           /\ d \in Above(ns, d)
           /\ \A x \in Above(ns, d) : ns[x].parent \in DOMAIN ns => ns[x].parent \in Above(ns, d)
  BY DEF Above, ClosedUp

LEMMA AboveLeast ==
    ASSUME NEW ns, NEW d \in DOMAIN ns, NEW S, d \in S,
           \A x \in S \cap DOMAIN ns : ns[x].parent \in DOMAIN ns => ns[x].parent \in S
    PROVE  Above(ns, d) \subseteq S
  <1>1. S \cap DOMAIN ns \in ClosedUp(ns, d)
    BY DEF ClosedUp
  <1>2. QED BY <1>1 DEF Above

LEMMA AboveAll ==
    ASSUME NEW ns, NEW d \in DOMAIN ns, NEW x \in Above(ns, d)
    PROVE  Above(ns, x) \subseteq Above(ns, d)
  <1>1. x \in DOMAIN ns
    BY AboveClosed
  <1>2. \A y \in Above(ns, d) : ns[y].parent \in DOMAIN ns => ns[y].parent \in Above(ns, d)
    BY AboveClosed
  <1>3. QED BY <1>1, <1>2, AboveLeast

LEMMA AboveStep ==
    ASSUME NEW ns, NEW d \in DOMAIN ns, NEW p, ns[d].parent = p
    PROVE  Above(ns, d) = IF p \in DOMAIN ns THEN {d} \cup Above(ns, p) ELSE {d}
  <1>1. /\ Above(ns, d) \subseteq DOMAIN ns
        /\ d \in Above(ns, d)
        /\ \A x \in Above(ns, d) : ns[x].parent \in DOMAIN ns => ns[x].parent \in Above(ns, d)
    BY AboveClosed
  <1>2. CASE p \in DOMAIN ns
    <2>1. Above(ns, p) \subseteq Above(ns, d)
      BY <1>1, <1>2, AboveAll
    <2>2. /\ p \in Above(ns, p)
          /\ \A x \in Above(ns, p) : ns[x].parent \in DOMAIN ns => ns[x].parent \in Above(ns, p)
      BY <1>2, AboveClosed
    <2>3. Above(ns, d) \subseteq {d} \cup Above(ns, p)
      <3>1. PICK S : S = {d} \cup Above(ns, p)
        OBVIOUS
      <3>2. \A x \in S \cap DOMAIN ns : ns[x].parent \in DOMAIN ns => ns[x].parent \in S
        BY <2>2, <3>1
      <3>3. d \in S
        BY <3>1
      <3>4. Above(ns, d) \subseteq S
        BY <3>2, <3>3, AboveLeast
      <3>5. QED BY <3>1, <3>4
    <2>4. QED BY <1>1, <1>2, <2>1, <2>3
  <1>3. CASE p \notin DOMAIN ns
    <2>1. PICK S : S = {d}
      OBVIOUS
    <2>2. Above(ns, d) \subseteq S
      <3>1. \A x \in S \cap DOMAIN ns : ns[x].parent \in DOMAIN ns => ns[x].parent \in S
        BY <1>3, <2>1
      <3>2. d \in S
        BY <2>1
      <3>3. QED BY <3>1, <3>2, AboveLeast
    <2>3. QED BY <1>1, <1>3, <2>1, <2>2
  <1>4. QED BY <1>2, <1>3

(* Of two directories above d, one is above the other.                      *)
LEMMA AboveChain ==
    ASSUME NEW ns, NEW d \in DOMAIN ns, NEW a \in Above(ns, d), NEW b \in Above(ns, d)
    PROVE  a \in Above(ns, b) \/ b \in Above(ns, a)
  <1>1. PICK S : S = {z \in Above(ns, d) : b \in Above(ns, z) \/ z \in Above(ns, b)}
    OBVIOUS
  <1>2. /\ Above(ns, d) \subseteq DOMAIN ns
        /\ d \in Above(ns, d)
        /\ \A x \in Above(ns, d) : ns[x].parent \in DOMAIN ns => ns[x].parent \in Above(ns, d)
    BY AboveClosed
  <1>3. d \in S
    BY <1>1, <1>2
  <1>4. ASSUME NEW z \in S \cap DOMAIN ns, NEW w \in DOMAIN ns, ns[z].parent = w
        PROVE  w \in S
    <2>1. w \in Above(ns, d)
      BY <1>1, <1>2, <1>4
    <2>2. CASE z \in Above(ns, b)
      <3>1. w \in Above(ns, b)
        BY <1>2, <1>4, <2>2, AboveClosed
      <3>2. QED BY <1>1, <2>1, <3>1
    <2>3. CASE b \in Above(ns, z)
      <3>1. Above(ns, z) = {z} \cup Above(ns, w)
        BY <1>4, AboveStep
      <3>2. CASE b \in Above(ns, w)
        BY <1>1, <2>1, <3>2
      <3>3. CASE b = z
        <4>1. z \in Above(ns, b)
          BY <1>4, <3>3, AboveClosed
        <4>2. QED BY <2>2, <4>1
      <3>4. QED BY <2>3, <3>1, <3>2, <3>3
    <2>4. QED BY <1>1, <2>2, <2>3
  <1>5. Above(ns, d) \subseteq S
    BY <1>3, <1>4, AboveLeast
  <1>6. QED BY <1>1, <1>5

LEMMA SubtreeClosed ==
    ASSUME NEW ns, NEW d \in DOMAIN ns
    PROVE  /\ Subtree(ns, d) \subseteq DOMAIN ns
           /\ d \in Subtree(ns, d)
           /\ \A x \in Subtree(ns, d) : Kids(ns, x) \subseteq Subtree(ns, d)
  BY DEF Subtree, ClosedDown, Kids

LEMMA SubtreeLeast ==
    ASSUME NEW ns, NEW d \in DOMAIN ns, NEW S, d \in S,
           \A x \in S \cap DOMAIN ns : Kids(ns, x) \subseteq S
    PROVE  Subtree(ns, d) \subseteq S
  <1>1. S \cap DOMAIN ns \in ClosedDown(ns, d)
    BY DEF ClosedDown, Kids
  <1>2. QED BY <1>1 DEF Subtree

LEMMA SubtreeAll ==
    ASSUME NEW ns, NEW d \in DOMAIN ns, NEW x \in Subtree(ns, d)
    PROVE  Subtree(ns, x) \subseteq Subtree(ns, d)
  <1>1. x \in DOMAIN ns
    BY SubtreeClosed
  <1>2. \A y \in Subtree(ns, d) : Kids(ns, y) \subseteq Subtree(ns, d)
    BY SubtreeClosed
  <1>3. QED BY <1>1, <1>2, SubtreeLeast

LEMMA SubtreeStep ==
    ASSUME NEW ns, NEW d \in DOMAIN ns
    PROVE  Subtree(ns, d) = {d} \cup UNION {Subtree(ns, c) : c \in Kids(ns, d)}
  <1>1. PICK S : S = {d} \cup UNION {Subtree(ns, c) : c \in Kids(ns, d)}
    OBVIOUS
  <1>2. Kids(ns, d) \subseteq DOMAIN ns
    BY DEF Kids
  <1>3. \A c \in Kids(ns, d) :
          /\ c \in Subtree(ns, c)
          /\ \A x \in Subtree(ns, c) : Kids(ns, x) \subseteq Subtree(ns, c)
    BY <1>2, SubtreeClosed
  <1>4. S \subseteq Subtree(ns, d)
    <2>1. d \in Subtree(ns, d) /\ Kids(ns, d) \subseteq Subtree(ns, d)
      BY SubtreeClosed
    <2>2. \A c \in Kids(ns, d) : Subtree(ns, c) \subseteq Subtree(ns, d)
      BY <2>1, SubtreeAll
    <2>3. QED BY <1>1, <2>1, <2>2
  <1>5. Subtree(ns, d) \subseteq S
    <2>1. d \in S
      BY <1>1
    <2>2. ASSUME NEW x \in S \cap DOMAIN ns PROVE Kids(ns, x) \subseteq S
      <3>1. CASE x = d
        BY <1>1, <1>3, <3>1
      <3>2. CASE \E c \in Kids(ns, d) : x \in Subtree(ns, c)
        BY <1>1, <1>3, <3>2
      <3>3. QED BY <1>1, <3>1, <3>2
    <2>3. QED BY <2>1, <2>2, SubtreeLeast
  <1>6. QED BY <1>1, <1>4, <1>5

(* A directory lists those, and only those, that name it their parent.      *)
Linked(ns) ==
    /\ \A x \in DOMAIN ns : ns[x].children \subseteq DOMAIN ns
    /\ \A x, y \in DOMAIN ns : y \in ns[x].children <=> ns[y].parent = x

Acyclic(ns) ==
    \A x \in DOMAIN ns : ns[x].parent \in DOMAIN ns => x \notin Above(ns, ns[x].parent)

(* What is under r is what r is above.                                      *)
LEMMA UnderIsBelow ==
    ASSUME NEW ns, Linked(ns), NEW r \in DOMAIN ns, NEW x \in DOMAIN ns
    PROVE  x \in Subtree(ns, r) <=> r \in Above(ns, x)
  <1>1. ASSUME x \in Subtree(ns, r) PROVE r \in Above(ns, x)
    <2>1. PICK S : S = {y \in DOMAIN ns : r \in Above(ns, y)}
      OBVIOUS
    <2>2. r \in S
      BY <2>1, AboveClosed
    <2>3. ASSUME NEW y \in S \cap DOMAIN ns, NEW z \in Kids(ns, y) PROVE z \in S
      <3>1. z \in DOMAIN ns /\ ns[z].parent = y
        BY <2>3 DEF Kids, Linked
      <3>2. Above(ns, z) = {z} \cup Above(ns, y)
        BY <2>3, <3>1, AboveStep
      <3>3. QED BY <2>1, <3>1, <3>2
    <2>4. Subtree(ns, r) \subseteq S
      BY <2>2, <2>3, SubtreeLeast
    <2>5. QED BY <1>1, <2>1, <2>4
  <1>2. ASSUME r \in Above(ns, x) PROVE x \in Subtree(ns, r)
    <2>1. PICK S : S = {y \in DOMAIN ns : x \in Subtree(ns, y)}
      OBVIOUS
    <2>2. x \in S
      BY <2>1, SubtreeClosed
    <2>3. ASSUME NEW y \in S \cap DOMAIN ns, NEW z \in DOMAIN ns, ns[y].parent = z
          PROVE  z \in S
      <3>1. y \in Kids(ns, z)
        BY <2>3 DEF Kids, Linked
      <3>2. y \in Subtree(ns, z)
        BY <3>1, SubtreeClosed
      <3>3. Subtree(ns, y) \subseteq Subtree(ns, z)
        BY <3>2, SubtreeAll
      <3>4. QED BY <2>1, <3>3
    <2>4. Above(ns, x) \subseteq S
      BY <2>2, <2>3, AboveLeast
    <2>5. QED BY <1>2, <2>1, <2>4
  <1>3. QED BY <1>1, <1>2

(* A directory isn't under its subdirectories, and they share nothing.      *)
LEMMA SubtreesApart ==
    ASSUME NEW ns, Linked(ns), Acyclic(ns), NEW x \in DOMAIN ns,
           NEW c \in Kids(ns, x), NEW e \in Kids(ns, x), c # e
    PROVE  Subtree(ns, c) \cap Subtree(ns, e) = {}
  <1>1. c \in DOMAIN ns /\ e \in DOMAIN ns /\ ns[c].parent = x /\ ns[e].parent = x
    BY DEF Kids, Linked
  <1>2. SUFFICES ASSUME NEW y \in DOMAIN ns, y \in Subtree(ns, c), y \in Subtree(ns, e)
                 PROVE  FALSE
    BY <1>1, SubtreeClosed
  <1>3. c \in Above(ns, y) /\ e \in Above(ns, y)
    BY <1>1, <1>2, UnderIsBelow
  <1>4. c \in Above(ns, e) \/ e \in Above(ns, c)
    BY <1>3, AboveChain
  <1>5. Above(ns, c) = {c} \cup Above(ns, x) /\ Above(ns, e) = {e} \cup Above(ns, x)
    BY <1>1, AboveStep
  <1>6. c \notin Above(ns, x) /\ e \notin Above(ns, x)
    BY <1>1 DEF Acyclic
  <1>7. QED BY <1>4, <1>5, <1>6

LEMMA NotUnderItsKids ==
    ASSUME NEW ns, Linked(ns), Acyclic(ns), NEW x \in DOMAIN ns, NEW c \in Kids(ns, x)
    PROVE  x \notin Subtree(ns, c)
  <1>1. c \in DOMAIN ns /\ ns[c].parent = x
    BY DEF Kids, Linked
  <1>2. c \notin Above(ns, x)
    BY <1>1 DEF Acyclic
  <1>3. QED BY <1>1, <1>2, UnderIsBelow

(* Both depend on nothing but parents and children.                         *)
SameShape(m, ns) ==
    /\ DOMAIN m = DOMAIN ns
    /\ \A x \in DOMAIN ns : m[x].parent = ns[x].parent /\ m[x].children = ns[x].children

LEMMA ShapeIsEnough ==
    ASSUME NEW m, NEW ns, SameShape(m, ns), NEW d
    PROVE  /\ Above(m, d) = Above(ns, d)
           /\ Subtree(m, d) = Subtree(ns, d)
           /\ d \in DOMAIN ns => Kids(m, d) = Kids(ns, d)
  <1>1. ClosedUp(m, d) = ClosedUp(ns, d)
    BY DEF ClosedUp, SameShape
  <1>2. ClosedDown(m, d) = ClosedDown(ns, d)
    BY DEF ClosedDown, Kids, SameShape
  <1>3. QED BY <1>1, <1>2 DEF Above, Subtree, Kids, SameShape

LEMMA ShapeKeeps ==
    ASSUME NEW m, NEW ns, SameShape(m, ns), Linked(ns), Acyclic(ns)
    PROVE  Linked(m) /\ Acyclic(m)
  <1>1. Linked(m)
    BY DEF Linked, SameShape
  <1>2. \A d : Above(m, d) = Above(ns, d)
    BY ShapeIsEnough
  <1>3. Acyclic(m)
    BY <1>2 DEF Acyclic, SameShape
  <1>4. QED BY <1>1, <1>3

-----------------------------------------------------------------------------
(* What applying a Dir does to the tree.                                    *)
Node == [parent : Dir \cup {NoDir}, children : SUBSET Dir, files : SUBSET File,
         direct_size : Nat, size : Nat, direct_mtime : Nat, mtime : Nat, changed : Nat]

(* m is ns with d listed by p, its totals yet to come.                      *)
IsDeferred(D, ns, m, d, p, files, mtime) ==
    /\ m \in [D \cup {d} -> Node]
    /\ m[d].parent = p /\ m[d].children = {} /\ m[d].files = files
    /\ m[d].direct_size = SizeSum(files) /\ m[d].direct_mtime = mtime
    /\ m[d].size = 0 /\ m[d].mtime = 0
    /\ p \in D => m[p] = [ns[p] EXCEPT !.children = @ \cup {d}]
    /\ \A x \in D \ {p} : m[x] = ns[x]

LEMMA Deferred ==
    ASSUME NEW D \in SUBSET Dir, NEW ns \in [D -> Node],
           NEW d \in Dir \ D, NEW p \in D \cup {NoDir},
           NEW files \in SUBSET File, NEW mtime \in Nat,
           NEW m, m = InsertDeferred(ns, d, p, files, mtime)
    PROVE  IsDeferred(D, ns, m, d, p, files, mtime)
  <1>1. NoDir \notin D /\ d # p
    BY TreeAssumption
  <1>2. PICK known : known = [x \in D \cup {d} |-> IF x \in D THEN ns[x] ELSE NewNode]
    OBVIOUS
  <1>3. Ensure(IF p = NoDir THEN ns ELSE Ensure(ns, p), d) = known
    <2>1. Ensure(ns, d) = known
      BY <1>2 DEF Ensure
    <2>2. CASE p = NoDir
      BY <2>1, <2>2
    <2>3. CASE p # NoDir
      <3>1. D \cup {p} = D
        BY <2>3
      <3>2. Ensure(ns, p) = [x \in D |-> ns[x]]
        BY <3>1 DEF Ensure
      <3>3. Ensure(ns, p) = ns
        BY <3>2
      <3>4. QED BY <2>1, <2>3, <3>3
    <2>4. QED BY <2>2, <2>3
  <1>4. PICK a : a = IF p = NoDir THEN known ELSE [known EXCEPT ![p].children = @ \cup {d}]
    OBVIOUS
  <1>5. m = [a EXCEPT ![d] = Described(@, p, files, mtime)]
    BY <1>3, <1>4 DEF InsertDeferred
  <1>6. NewNode \in Node
    BY DEF NewNode, Node
  <1>7. known \in [D \cup {d} -> Node]
    BY <1>2, <1>6
  <1>8. /\ a \in [D \cup {d} -> Node]
        /\ a[d] = NewNode
        /\ p \in D => a[p] = [ns[p] EXCEPT !.children = @ \cup {d}]
        /\ \A x \in D \ {p} : a[x] = ns[x]
    <2>1. CASE p = NoDir
      BY <1>1, <1>2, <1>4, <1>7, <2>1
    <2>2. CASE p # NoDir
      <3>1. p \in D /\ known[p] = ns[p]
        BY <1>2, <2>2
      <3>2. PICK r : r = [ns[p] EXCEPT !.children = @ \cup {d}]
        OBVIOUS
      <3>3. r \in Node
        BY <3>1, <3>2 DEF Node
      <3>4. a = [known EXCEPT ![p] = r]
        BY <1>4, <2>2, <3>1, <3>2, <1>7
      <3>5. QED BY <1>1, <1>2, <1>7, <3>1, <3>2, <3>3, <3>4
    <2>3. QED BY <2>1, <2>2
  <1>9. PICK r : r = [parent |-> p, children |-> {}, files |-> files,
                      direct_size |-> SizeSum(files), size |-> 0,
                      direct_mtime |-> mtime, mtime |-> 0, changed |-> 0]
    OBVIOUS
  <1>10. r \in Node
    BY <1>9, SizeSumNat DEF Node
  <1>11. Described(a[d], p, files, mtime) = r
    <2>1. PICK q : q = NewNode
      OBVIOUS
    <2>2. PICK q1 : q1 = [q EXCEPT !.parent = p]
      OBVIOUS
    <2>3. PICK q2 : q2 = [q1 EXCEPT !.files = @ \cup files]
      OBVIOUS
    <2>4. PICK q3 : q3 = [q2 EXCEPT !.direct_size = SizeSum(files)]
      OBVIOUS
    <2>5. PICK q4 : q4 = [q3 EXCEPT !.direct_mtime = mtime]
      OBVIOUS
    <2>6. q1 = [parent |-> p, children |-> {}, files |-> {}, direct_size |-> 0, size |-> 0,
                direct_mtime |-> 0, mtime |-> 0, changed |-> 0]
      BY <2>1, <2>2 DEF NewNode
    <2>7. q2 = [parent |-> p, children |-> {}, files |-> files, direct_size |-> 0, size |-> 0,
                direct_mtime |-> 0, mtime |-> 0, changed |-> 0]
      BY <2>3, <2>6
    <2>8. q3 = [parent |-> p, children |-> {}, files |-> files,
                direct_size |-> SizeSum(files), size |-> 0,
                direct_mtime |-> 0, mtime |-> 0, changed |-> 0]
      BY <2>4, <2>7
    <2>9. q4 = [parent |-> p, children |-> {}, files |-> files,
                direct_size |-> SizeSum(files), size |-> 0,
                direct_mtime |-> mtime, mtime |-> 0, changed |-> 0]
      BY <2>5, <2>8
    <2>10. q = a[d]
      BY <1>8, <2>1
    <2>11. Described(q, p, files, mtime) = q4
      BY <2>1, <2>2, <2>3, <2>4, <2>5 DEF NewNode, Described
    <2>12. QED BY <1>9, <2>9, <2>10, <2>11, Zenon
  <1>12. m = [a EXCEPT ![d] = r]
    BY <1>5, <1>11
  <1>13. m[d].parent = p /\ m[d].children = {} /\ m[d].files = files
    BY <1>8, <1>9, <1>12
  <1>14. m[d].direct_size = SizeSum(files) /\ m[d].direct_mtime = mtime
    BY <1>8, <1>9, <1>12
  <1>15. m[d].size = 0 /\ m[d].mtime = 0
    BY <1>8, <1>9, <1>12
  <1>16. QED BY <1>1, <1>8, <1>10, <1>12, <1>13, <1>14, <1>15 DEF IsDeferred

(* q is r, brought up to date by size, mtime and mark.                      *)
Brought(q, r, size, mtime, mark) ==
    /\ q \in Node
    /\ q.parent = r.parent /\ q.children = r.children /\ q.files = r.files
    /\ q.direct_size = r.direct_size /\ q.direct_mtime = r.direct_mtime
    /\ q.size = Saturated(r.size + size)
    /\ q.mtime = Newest({r.mtime, mtime})
    /\ q.changed = mark

LEMMA ReachedIs ==
    ASSUME NEW r \in Node, NEW size \in Nat, NEW mtime \in Nat, NEW mark \in Nat,
           NEW q, q = Reached(r, size, mtime, mark)
    PROVE  Brought(q, r, size, mtime, mark)
  <1>1. r.size + size \in Nat /\ r.mtime \in Nat
    BY DEF Node
  <1>2. Saturated(r.size + size) \in Nat
    BY <1>1, SaturatedAdds
  <1>3. Newest({r.mtime, mtime}) \in Nat
    <2>1. IsFiniteSet({r.mtime} \cup {mtime})
      BY FS_Singleton, FS_AddElement
    <2>2. {r.mtime, mtime} = {r.mtime} \cup {mtime}
      OBVIOUS
    <2>3. IsFiniteSet({r.mtime, mtime}) /\ {r.mtime, mtime} \in SUBSET Nat
      BY <1>1, <2>1, <2>2
    <2>4. QED BY <2>3, NewestBounds
  <1>4. QED BY <1>2, <1>3 DEF Node, Reached, Brought

(* n2 is m with d and all above it brought up to date.                      *)
IsPropagated(E, m, n2, d, size, mtime, mark) ==
    /\ n2 \in [E -> Node]
    /\ SameShape(n2, m)
    /\ \A x \in E :
         /\ n2[x].files = m[x].files
         /\ n2[x].direct_size = m[x].direct_size
         /\ n2[x].direct_mtime = m[x].direct_mtime
    /\ \A x \in E : x \in Above(m, d) =>
         /\ n2[x].size = Saturated(m[x].size + size)
         /\ n2[x].mtime = Newest({m[x].mtime, mtime})
         /\ n2[x].changed = mark
    /\ \A x \in E : x \notin Above(m, d) => n2[x] = m[x]

LEMMA Propagated ==
    ASSUME NEW E \in SUBSET Dir, NEW m \in [E -> Node], NEW d \in E,
           NEW size \in Nat, NEW mtime \in Nat, NEW mark \in Nat,
           NEW n2, n2 = Propagate(m, d, size, mtime, mark)
    PROVE  IsPropagated(E, m, n2, d, size, mtime, mark)
  <1>1. DOMAIN n2 = E /\ n2 = [x \in E |-> n2[x]]
    BY DEF Propagate
  <1>2. \A x \in E : n2[x] = IF x \in Above(m, d) THEN Reached(m[x], size, mtime, mark) ELSE m[x]
    BY DEF Propagate
  <1>3. ASSUME NEW x \in E
        PROVE  /\ n2[x] \in Node
               /\ n2[x].parent = m[x].parent /\ n2[x].children = m[x].children
               /\ n2[x].files = m[x].files
               /\ n2[x].direct_size = m[x].direct_size
               /\ n2[x].direct_mtime = m[x].direct_mtime
               /\ x \in Above(m, d) =>
                    /\ n2[x].size = Saturated(m[x].size + size)
                    /\ n2[x].mtime = Newest({m[x].mtime, mtime})
                    /\ n2[x].changed = mark
               /\ x \notin Above(m, d) => n2[x] = m[x]
    <2>1. PICK r \in Node : r = m[x]
      OBVIOUS
    <2>2. CASE x \in Above(m, d)
      <3>1. PICK q : q = n2[x]
        OBVIOUS
      <3>2. q = Reached(r, size, mtime, mark)
        BY <1>2, <2>1, <2>2, <3>1
      <3>3. Brought(q, r, size, mtime, mark)
        BY <3>2, ReachedIs
      <3>4. QED BY <2>1, <2>2, <3>1, <3>3 DEF Brought
    <2>3. CASE x \notin Above(m, d)
      <3>1. n2[x] = m[x]
        BY <1>2, <2>3
      <3>2. QED BY <2>1, <2>3, <3>1
    <2>4. QED BY <2>2, <2>3
  <1>4. SameShape(n2, m)
    BY <1>1, <1>3 DEF SameShape
  <1>5. QED BY <1>1, <1>3, <1>4 DEF IsPropagated

(* n2 is ns with d hung under p, and all above d brought up to date.        *)
Hung(ns, n2, d, p, files, mtime, mark) ==
    /\ d \notin DOMAIN ns
    /\ p \in DOMAIN ns \cup {NoDir}
    /\ DOMAIN n2 = DOMAIN ns \cup {d}
    /\ n2[d].parent = p /\ n2[d].children = {} /\ n2[d].files = files
    /\ n2[d].direct_size = SizeSum(files) /\ n2[d].direct_mtime = mtime
    /\ n2[d].size = SizeSum(files) /\ n2[d].mtime = mtime /\ n2[d].changed = mark
    /\ \A x \in DOMAIN ns :
         /\ n2[x].parent = ns[x].parent
         /\ n2[x].children = IF x = p THEN ns[x].children \cup {d} ELSE ns[x].children
    /\ \A x \in DOMAIN ns :
         /\ n2[x].files = ns[x].files
         /\ n2[x].direct_size = ns[x].direct_size
         /\ n2[x].direct_mtime = ns[x].direct_mtime
    /\ \A x \in DOMAIN ns : x \in Above(n2, d) =>
         /\ n2[x].size = Saturated(ns[x].size + SizeSum(files))
         /\ n2[x].mtime = Newest({ns[x].mtime, mtime})
         /\ n2[x].changed = mark
    /\ \A x \in DOMAIN ns : x \notin Above(n2, d) => n2[x] = ns[x]

LEMMA Inserted ==
    ASSUME NEW D \in SUBSET Dir, NEW ns \in [D -> Node],
           NEW d \in Dir \ D, NEW p \in D \cup {NoDir},
           NEW files \in SUBSET File, NEW mtime \in Nat, NEW mark \in Nat,
           NEW n2, n2 = Propagate(InsertDeferred(ns, d, p, files, mtime),
                                  d, SizeSum(files), mtime, mark)
    PROVE  n2 \in [D \cup {d} -> Node] /\ Hung(ns, n2, d, p, files, mtime, mark)
  <1>1. PICK m : m = InsertDeferred(ns, d, p, files, mtime)
    OBVIOUS
  <1>2. PICK E \in SUBSET Dir : E = D \cup {d}
    OBVIOUS
  <1>3. IsDeferred(D, ns, m, d, p, files, mtime) /\ m \in [E -> Node]
    <2>1. IsDeferred(D, ns, m, d, p, files, mtime)
      BY <1>1, Deferred
    <2>2. QED BY <1>2, <2>1 DEF IsDeferred
  <1>4. SizeSum(files) \in Nat
    BY SizeSumNat
  <1>5. n2 = Propagate(m, d, SizeSum(files), mtime, mark)
    BY <1>1
  <1>6. /\ IsPropagated(E, m, n2, d, SizeSum(files), mtime, mark)
        /\ SameShape(n2, m) /\ n2 \in [E -> Node]
    <2>1. d \in E
      BY <1>2
    <2>2. IsPropagated(E, m, n2, d, SizeSum(files), mtime, mark)
      BY <1>3, <1>4, <1>5, <2>1, Propagated
    <2>3. QED BY <2>2 DEF IsPropagated
  <1>7. Above(m, d) = Above(n2, d)
    BY <1>6, ShapeIsEnough
  <1>8. d \in Above(n2, d) /\ (p \in D => p \in Above(n2, d))
    <2>1. d \in DOMAIN n2 /\ n2[d].parent = p
      BY <1>2, <1>3, <1>6 DEF SameShape, IsDeferred
    <2>2. QED BY <1>2, <1>6, <2>1, AboveClosed
  <1>9. /\ n2[d].parent = p /\ n2[d].children = {} /\ n2[d].files = files
        /\ n2[d].direct_size = SizeSum(files) /\ n2[d].direct_mtime = mtime
        /\ n2[d].size = SizeSum(files) /\ n2[d].mtime = mtime /\ n2[d].changed = mark
    <2>1. d \in E
      BY <1>2
    <2>2. n2[d].size = Saturated(0 + SizeSum(files)) /\ n2[d].mtime = Newest({0, mtime}) /\ n2[d].changed = mark
      BY SMTT(30), <1>3, <1>6, <1>7, <1>8, <2>1 DEF IsPropagated, IsDeferred
    <2>3. n2[d].parent = p /\ n2[d].children = {}
      BY <1>3, <1>6, <2>1 DEF SameShape, IsDeferred
    <2>4. n2[d].files = files /\ n2[d].direct_size = SizeSum(files) /\ n2[d].direct_mtime = mtime
      BY <1>3, <1>6, <2>1 DEF IsPropagated, IsDeferred
    <2>5. Saturated(0 + SizeSum(files)) = SizeSum(files)
      BY <1>4, SizeSumNat
    <2>6. Newest({0, mtime}) = mtime
      <3>1. IsFiniteSet({0} \cup {mtime})
        BY FS_Singleton, FS_AddElement
      <3>2. {0, mtime} = {0} \cup {mtime}
        OBVIOUS
      <3>3. QED BY <3>1, <3>2, NewestIs
    <2>7. QED BY <2>2, <2>3, <2>4, <2>5, <2>6
  <1>10. ASSUME NEW x \in D
         PROVE  /\ n2[x].parent = ns[x].parent
                /\ n2[x].children = IF x = p THEN ns[x].children \cup {d} ELSE ns[x].children
                /\ n2[x].files = ns[x].files
                /\ n2[x].direct_size = ns[x].direct_size
                /\ n2[x].direct_mtime = ns[x].direct_mtime
                /\ x \in Above(n2, d) =>
                     /\ n2[x].size = Saturated(ns[x].size + SizeSum(files))
                     /\ n2[x].mtime = Newest({ns[x].mtime, mtime})
                     /\ n2[x].changed = mark
                /\ x \notin Above(n2, d) => n2[x] = ns[x]
    <2>1. PICK r \in Node : r = ns[x]
      OBVIOUS
    <2>2. PICK q \in Node : q = m[x]
      BY <1>2, <1>3
    <2>3. /\ q.parent = r.parent /\ q.files = r.files /\ q.size = r.size /\ q.mtime = r.mtime
          /\ q.direct_size = r.direct_size /\ q.direct_mtime = r.direct_mtime
          /\ q.children = IF x = p THEN r.children \cup {d} ELSE r.children
          /\ x # p => q = r
      <3>1. CASE x = p
        <4>1. q = [r EXCEPT !.children = @ \cup {d}]
          BY <1>3, <2>1, <2>2, <3>1 DEF IsDeferred
        <4>2. QED BY <3>1, <4>1 DEF Node
      <3>2. CASE x # p
        BY <1>3, <2>1, <2>2, <3>2 DEF IsDeferred
      <3>3. QED BY <3>1, <3>2
    <2>4. n2[x].parent = q.parent /\ n2[x].children = q.children
      BY <1>2, <1>3, <1>6, <2>2 DEF SameShape
    <2>5. QED BY ZenonT(40), <1>2, <1>6, <1>7, <1>8, <2>1, <2>2, <2>3, <2>4 DEF IsPropagated
  <1>11. DOMAIN ns = D /\ DOMAIN n2 = D \cup {d} /\ n2 \in [D \cup {d} -> Node]
    BY <1>2, <1>6
  <1>12. QED BY <1>9, <1>10, <1>11 DEF Hung

(* Every directory's parent is there, but for the root's.                   *)
Rooted(ns) ==
    /\ NoDir \notin DOMAIN ns
    /\ \A x \in DOMAIN ns : ns[x].parent \in DOMAIN ns \cup {NoDir}

LEMMA HungShape ==
    ASSUME NEW ns, Linked(ns), Acyclic(ns), Rooted(ns),
           NEW n2, NEW d, d # NoDir, NEW p, NEW files, NEW mtime, NEW mark,
           Hung(ns, n2, d, p, files, mtime, mark)
    PROVE  /\ Linked(n2) /\ Acyclic(n2) /\ Rooted(n2)
           /\ \A x \in DOMAIN ns :
                /\ Above(n2, x) = Above(ns, x)
                /\ Subtree(n2, x) = IF x \in Above(n2, d) THEN Subtree(ns, x) \cup {d}
                                                          ELSE Subtree(ns, x)
           /\ Above(n2, d) = IF p \in DOMAIN ns THEN {d} \cup Above(ns, p) ELSE {d}
           /\ Subtree(n2, d) = {d}
  <1>1. /\ d \notin DOMAIN ns /\ DOMAIN n2 = DOMAIN ns \cup {d} /\ p \in DOMAIN ns \cup {NoDir}
        /\ n2[d].parent = p /\ n2[d].children = {}
        /\ \A x \in DOMAIN ns :
             /\ n2[x].parent = ns[x].parent
             /\ n2[x].children = IF x = p THEN ns[x].children \cup {d} ELSE ns[x].children
    BY DEF Hung
  <1>2. Rooted(n2)
    BY <1>1 DEF Rooted
  <1>3. Linked(n2)
    <2>1. ASSUME NEW x \in DOMAIN n2 PROVE n2[x].children \subseteq DOMAIN n2
      <3>1. CASE x = d
        BY <1>1, <3>1
      <3>2. CASE x \in DOMAIN ns
        <4>1. ns[x].children \subseteq DOMAIN ns
          BY <3>2 DEF Linked
        <4>2. n2[x].children \subseteq ns[x].children \cup {d}
          BY <1>1, <3>2
        <4>3. QED BY <1>1, <4>1, <4>2
      <3>3. QED BY <1>1, <3>1, <3>2
    <2>2. ASSUME NEW x \in DOMAIN n2, NEW y \in DOMAIN n2
          PROVE  y \in n2[x].children <=> n2[y].parent = x
      <3>1. \A z \in DOMAIN ns : ns[z].parent # d
        BY <1>1 DEF Rooted
      <3>2. CASE x = d
        <4>1. n2[y].parent # d
          BY ZenonT(40), <1>1, <1>2, <3>1 DEF Rooted
        <4>2. QED BY <1>1, <3>2, <4>1
      <3>3. CASE x \in DOMAIN ns /\ y = d
        <4>1. d \notin ns[x].children
          BY <1>1, <3>3 DEF Linked
        <4>2. y \in n2[x].children <=> x = p
          BY <1>1, <3>3, <4>1
        <4>3. QED BY <1>1, <3>3, <4>2
      <3>4. CASE x \in DOMAIN ns /\ y \in DOMAIN ns
        <4>1. y \in ns[x].children <=> ns[y].parent = x
          BY <3>4 DEF Linked
        <4>2. n2[x].children = IF x = p THEN ns[x].children \cup {d} ELSE ns[x].children
          BY <1>1, <3>4
        <4>3. y # d /\ n2[y].parent = ns[y].parent
          BY <1>1, <3>4
        <4>4. y \in n2[x].children <=> y \in ns[x].children
          BY <4>2, <4>3, Zenon
        <4>5. QED BY <4>1, <4>3, <4>4
      <3>5. QED BY <1>1, <3>2, <3>3, <3>4
    <2>3. QED BY <2>1, <2>2 DEF Linked
  <1>4. ASSUME NEW x \in DOMAIN ns PROVE Above(n2, x) = Above(ns, x)
    <2>1. Above(n2, x) \subseteq Above(ns, x)
      <3>1. \A y \in Above(ns, x) \cap DOMAIN n2 :
              n2[y].parent \in DOMAIN n2 => n2[y].parent \in Above(ns, x)
        <4>1. /\ Above(ns, x) \subseteq DOMAIN ns
              /\ \A y \in Above(ns, x) : ns[y].parent \in DOMAIN ns => ns[y].parent \in Above(ns, x)
          BY AboveClosed
        <4>2. QED BY <1>1, <4>1 DEF Rooted
      <3>2. x \in DOMAIN n2 /\ x \in Above(ns, x)
        BY <1>1, AboveClosed
      <3>3. QED BY <3>1, <3>2, AboveLeast
    <2>2. Above(ns, x) \subseteq Above(n2, x)
      <3>1. x \in DOMAIN n2
        BY <1>1
      <3>2. \A y \in Above(n2, x) : n2[y].parent \in DOMAIN n2 => n2[y].parent \in Above(n2, x)
        BY <3>1, AboveClosed
      <3>3. \A y \in Above(n2, x) \cap DOMAIN ns :
              ns[y].parent \in DOMAIN ns => ns[y].parent \in Above(n2, x)
        BY <1>1, <3>2
      <3>4. x \in Above(n2, x)
        BY <3>1, AboveClosed
      <3>5. QED BY <3>3, <3>4, AboveLeast
    <2>3. QED BY <2>1, <2>2
  <1>5. Above(n2, d) = IF p \in DOMAIN ns THEN {d} \cup Above(ns, p) ELSE {d}
    <2>1. p # d /\ (p \in DOMAIN n2 <=> p \in DOMAIN ns)
      BY <1>1, <1>2 DEF Rooted
    <2>2. d \in DOMAIN n2
      BY <1>1
    <2>3. Above(n2, d) = IF p \in DOMAIN n2 THEN {d} \cup Above(n2, p) ELSE {d}
      BY <1>1, <2>2, AboveStep
    <2>4. p \in DOMAIN ns => Above(n2, p) = Above(ns, p)
      BY <1>4
    <2>5. QED BY <2>1, <2>3, <2>4
  <1>6. \A x \in DOMAIN ns : Above(ns, x) \subseteq DOMAIN ns
    BY AboveClosed
  <1>7. Acyclic(n2)
    <2>1. SUFFICES ASSUME NEW x \in DOMAIN n2, n2[x].parent \in DOMAIN n2
                   PROVE  x \notin Above(n2, n2[x].parent)
      BY DEF Acyclic
    <2>2. CASE x = d
      <3>1. p \in DOMAIN ns
        BY <1>1, <2>1, <2>2, <1>2 DEF Rooted
      <3>2. QED BY <1>1, <1>4, <1>6, <2>2, <3>1
    <2>3. CASE x # d
      <3>1. x \in DOMAIN ns /\ ns[x].parent \in DOMAIN ns /\ n2[x].parent = ns[x].parent
        <4>1. x \in DOMAIN ns
          BY <1>1, <2>3
        <4>2. ns[x].parent \in DOMAIN ns \cup {NoDir} /\ NoDir \notin DOMAIN n2
          BY <1>2, <4>1 DEF Rooted
        <4>3. QED BY <1>1, <2>1, <4>1, <4>2
      <3>2. QED BY <1>4, <3>1 DEF Acyclic
    <2>4. QED BY <2>2, <2>3
  <1>8. ASSUME NEW x \in DOMAIN ns
        PROVE  Subtree(n2, x) = IF x \in Above(n2, d) THEN Subtree(ns, x) \cup {d}
                                                      ELSE Subtree(ns, x)
    <2>1. \A y \in DOMAIN ns : y \in Subtree(n2, x) <=> y \in Subtree(ns, x)
      BY <1>1, <1>3, <1>4, UnderIsBelow
    <2>2. d \in Subtree(n2, x) <=> x \in Above(n2, d)
      BY <1>1, <1>3, UnderIsBelow
    <2>3. Subtree(n2, x) \subseteq DOMAIN n2 /\ Subtree(ns, x) \subseteq DOMAIN ns
      BY <1>1, SubtreeClosed
    <2>4. QED BY <1>1, <2>1, <2>2, <2>3
  <1>9. Subtree(n2, d) = {d}
    <2>1. Subtree(n2, d) \subseteq DOMAIN n2 /\ d \in Subtree(n2, d)
      BY <1>1, SubtreeClosed
    <2>2. ASSUME NEW y \in DOMAIN ns PROVE y \notin Subtree(n2, d)
      <3>1. d \notin Above(n2, y)
        BY <1>1, <1>4, <1>6
      <3>2. QED BY <1>1, <1>3, <3>1, UnderIsBelow
    <2>3. QED BY <1>1, <2>1, <2>2
  <1>10. QED BY <1>2, <1>3, <1>4, <1>5, <1>7, <1>8, <1>9

-----------------------------------------------------------------------------
(* Exact totals, and that a Dir which hangs a directory keeps them exact.   *)
FilesUnder(ns, d) == UNION {ns[x].files : x \in Subtree(ns, d)}
MtimesUnder(ns, d) == {ns[x].direct_mtime : x \in Subtree(ns, d)}

Exactly(ns) ==
    \A d \in DOMAIN ns :
        /\ ns[d].direct_size = SizeSum(ns[d].files)
        /\ ns[d].size = SizeSum(FilesUnder(ns, d))
        /\ ns[d].mtime = Newest(MtimesUnder(ns, d))

(* No file is counted in two directories.                                   *)
Apart(ns) == \A x, y \in DOMAIN ns : x # y => ns[x].files \cap ns[y].files = {}

LEMMA MtimesUnderNat ==
    ASSUME NEW D, IsFiniteSet(D), NEW ns \in [D -> Node], NEW d \in D
    PROVE  MtimesUnder(ns, d) \in SUBSET Nat /\ IsFiniteSet(MtimesUnder(ns, d))
  <1>1. Subtree(ns, d) \subseteq D
    BY SubtreeClosed
  <1>2. \A x \in D : ns[x].direct_mtime \in Nat
    BY DEF Node
  <1>3. MtimesUnder(ns, d) \in SUBSET Nat
    BY <1>1, <1>2 DEF MtimesUnder
  <1>4. IsFiniteSet(Subtree(ns, d))
    BY <1>1, FS_Subset
  <1>5. IsFiniteSet({ns[x].direct_mtime : x \in Subtree(ns, d)})
    <2>1. PICK S : S = Subtree(ns, d)
      OBVIOUS
    <2>2. PICK g : g = [x \in S |-> ns[x].direct_mtime]
      OBVIOUS
    <2>3. {g[x] : x \in S} = {ns[x].direct_mtime : x \in S}
      BY <2>2
    <2>4. g \in Surjection(S, {g[x] : x \in S})
      BY <2>2 DEF Surjection
    <2>5. IsFiniteSet({g[x] : x \in S})
      BY <1>4, <2>1, <2>4, FS_Surjection
    <2>6. QED BY <2>1, <2>3, <2>5
  <1>6. QED BY <1>3, <1>5 DEF MtimesUnder

LEMMA HungExactly ==
    ASSUME NEW D \in SUBSET Dir, IsFiniteSet(D), NEW ns \in [D -> Node],
           Linked(ns), Acyclic(ns), Rooted(ns), Exactly(ns),
           NEW n2, NEW d \in Dir \ D, NEW p, NEW mtime \in Nat, NEW mark,
           NEW files \in SUBSET File, \A x \in D : ns[x].files \cap files = {},
           Hung(ns, n2, d, p, files, mtime, mark)
    PROVE  Exactly(n2)
  <1>1. /\ \A x \in D :
             /\ Above(n2, x) = Above(ns, x)
             /\ Subtree(n2, x) = IF x \in Above(n2, d) THEN Subtree(ns, x) \cup {d}
                                                       ELSE Subtree(ns, x)
        /\ Subtree(n2, d) = {d}
    <2>1. d # NoDir
      BY TreeAssumption
    <2>2. QED BY <2>1, HungShape
  <1>2. /\ DOMAIN n2 = D \cup {d}
        /\ n2[d].files = files /\ n2[d].direct_mtime = mtime
        /\ \A x \in D : n2[x].files = ns[x].files /\ n2[x].direct_mtime = ns[x].direct_mtime
    BY DEF Hung
  <1>3. \A x \in D : Subtree(ns, x) \subseteq D
    BY SubtreeClosed
  <1>4. SUFFICES ASSUME NEW x \in D \cup {d}
                 PROVE  /\ n2[x].direct_size = SizeSum(n2[x].files)
                        /\ n2[x].size = SizeSum(FilesUnder(n2, x))
                        /\ n2[x].mtime = Newest(MtimesUnder(n2, x))
    BY <1>2 DEF Exactly
  <1>5. CASE x = d
    <2>1. FilesUnder(n2, x) = files /\ MtimesUnder(n2, x) = {mtime}
      BY <1>1, <1>2, <1>5 DEF FilesUnder, MtimesUnder
    <2>2. Newest({mtime}) = mtime
      <3>1. PICK M : M = {mtime}
        OBVIOUS
      <3>2. M \in SUBSET Nat /\ mtime \in {0} \cup M /\ \A m \in M : m <= mtime
        BY <3>1
      <3>3. IsFiniteSet(M)
        BY <3>1, FS_Singleton
      <3>4. Newest(M) = mtime
        BY <3>2, <3>3, NewestIs
      <3>5. QED BY <3>1, <3>4
    <2>3. n2[d].direct_size = SizeSum(files) /\ n2[d].size = SizeSum(files) /\ n2[d].mtime = mtime
      BY DEF Hung
    <2>4. QED BY <1>2, <1>5, <2>1, <2>2, <2>3
  <1>6. CASE x \in D
    <2>1. /\ ns[x].direct_size = SizeSum(ns[x].files)
          /\ ns[x].size = SizeSum(FilesUnder(ns, x))
          /\ ns[x].mtime = Newest(MtimesUnder(ns, x))
      BY <1>6 DEF Exactly
    <2>2. n2[x].direct_size = SizeSum(n2[x].files)
      BY <1>6, <2>1 DEF Hung
    <2>3. CASE x \in Above(n2, d)
      <3>1. Subtree(n2, x) = Subtree(ns, x) \cup {d}
        BY <1>1, <1>6, <2>3
      <3>2. FilesUnder(n2, x) = FilesUnder(ns, x) \cup files
        BY <1>2, <1>3, <1>6, <3>1 DEF FilesUnder
      <3>3. MtimesUnder(n2, x) = MtimesUnder(ns, x) \cup {mtime}
        BY <1>2, <1>3, <1>6, <3>1 DEF MtimesUnder
      <3>4. FilesUnder(ns, x) \in SUBSET File /\ FilesUnder(ns, x) \cap files = {}
        <4>1. \A y \in D : ns[y].files \in SUBSET File
          BY DEF Node
        <4>2. QED BY <1>3, <1>6, <4>1 DEF FilesUnder
      <3>5. SizeSum(FilesUnder(n2, x)) = Saturated(SizeSum(FilesUnder(ns, x)) + SizeSum(files))
        BY <3>2, <3>4, SizeSumUnion
      <3>6. Newest(MtimesUnder(n2, x)) = Newest({Newest(MtimesUnder(ns, x)), mtime})
        BY <1>6, <3>3, MtimesUnderNat, NewestGrows
      <3>7. /\ n2[x].size = Saturated(ns[x].size + SizeSum(files))
            /\ n2[x].mtime = Newest({ns[x].mtime, mtime})
        BY <1>6, <2>3 DEF Hung
      <3>8. QED BY <2>1, <2>2, <3>5, <3>6, <3>7
    <2>4. CASE x \notin Above(n2, d)
      <3>1. Subtree(n2, x) = Subtree(ns, x)
        BY <1>1, <1>6, <2>4
      <3>2. FilesUnder(n2, x) = FilesUnder(ns, x) /\ MtimesUnder(n2, x) = MtimesUnder(ns, x)
        BY <1>2, <1>3, <1>6, <3>1 DEF FilesUnder, MtimesUnder
      <3>3. n2[x] = ns[x]
        BY <1>6, <2>4 DEF Hung
      <3>4. QED BY <2>1, <3>2, <3>3
    <2>5. QED BY <2>3, <2>4
  <1>7. QED BY <1>5, <1>6

-----------------------------------------------------------------------------
(* Totals, from who is whose child and what each has of its own.            *)
SizeAt(kids, own, h) ==
    h = [x \in DOMAIN kids |-> Saturated(own[x].size + SumFunctionOnSet(h, kids[x]))]
MtimeAt(kids, own, h) ==
    h = [x \in DOMAIN kids |-> Newest({own[x].mtime} \cup {h[c] : c \in kids[x]})]
TotalsOf(kids, own) ==
    [x \in DOMAIN kids |-> [size |-> (CHOOSE h : SizeAt(kids, own, h))[x],
                            mtime |-> (CHOOSE h : MtimeAt(kids, own, h))[x]]]

LEMMA TotalsAre ==
    ASSUME NEW ns, NEW root, NEW own
    PROVE  Totals(ns, root, own) = TotalsOf([x \in Subtree(ns, root) |-> Kids(ns, x)], own)
  BY DEF Totals, TotalsOf, SizeAt, MtimeAt

(* What filtering sees of the tree: the directories under the root, which   *)
(* of them lists which, and their files.                                    *)
LEMMA FilterSees ==
    ASSUME NEW ns, NEW m, NEW root, NEW filter,
           Subtree(m, root) = Subtree(ns, root),
           \A x \in Subtree(ns, root) : Kids(m, x) = Kids(ns, x) /\ m[x].files = ns[x].files
    PROVE  FilteredSizes(m, filter, root) = FilteredSizes(ns, filter, root)
  <1>1. [x \in Subtree(m, root) |-> Kids(m, x)] = [x \in Subtree(ns, root) |-> Kids(ns, x)]
    OBVIOUS
  <1>2. Matching(m, root, filter) = Matching(ns, root, filter)
    BY DEF Matching
  <1>3. QED BY <1>1, <1>2, TotalsAre DEF FilteredSizes

(* Where the totals are exact, they are what recomputing them gives: each   *)
(* directory's is that of what it has itself and of its children's, and no  *)
(* other totals are.                                                        *)
LEMMA ExactSizeStep ==
    ASSUME NEW D, IsFiniteSet(D), NEW ns \in [D -> Node],
           Linked(ns), Acyclic(ns), Exactly(ns), Apart(ns), NEW x \in D,
           NEW h, \A c \in Kids(ns, x) : h[c] = ns[c].size
    PROVE  ns[x].size = Saturated(ns[x].direct_size + SumFunctionOnSet(h, Kids(ns, x)))
  <1>1. PICK K : K = Kids(ns, x)
    OBVIOUS
  <1>2. K \subseteq D /\ IsFiniteSet(K)
    BY <1>1, FS_Subset DEF Kids
  <1>3. PICK F : F = [c \in K |-> FilesUnder(ns, c)]
    OBVIOUS
  <1>4. \A y \in D : Subtree(ns, y) \subseteq D /\ ns[y].files \in SUBSET File
    BY SubtreeClosed DEF Node
  <1>5. \A c \in K : F[c] \in SUBSET File
    BY <1>2, <1>3, <1>4 DEF FilesUnder
  <1>6. ASSUME NEW c \in K, NEW e \in K, c # e PROVE F[c] \cap F[e] = {}
    <2>1. Subtree(ns, c) \cap Subtree(ns, e) = {}
      BY <1>1, <1>6, SubtreesApart
    <2>2. \A y \in Subtree(ns, c), z \in Subtree(ns, e) : ns[y].files \cap ns[z].files = {}
      BY <1>2, <1>4, <2>1 DEF Apart
    <2>3. QED BY <1>3, <2>2 DEF FilesUnder
  <1>7. \A c \in K : h[c] = SizeSum(F[c])
    BY <1>1, <1>2, <1>3 DEF Exactly
  <1>8. Saturated(SumFunctionOnSet(h, K)) = SizeSum(UNION {F[c] : c \in K})
    BY <1>2, <1>5, <1>6, <1>7, SizeSumOfParts
  <1>9. PICK U : U = UNION {F[c] : c \in K}
    OBVIOUS
  <1>10. FilesUnder(ns, x) = ns[x].files \cup U
    <2>1. Subtree(ns, x) = {x} \cup UNION {Subtree(ns, c) : c \in K}
      BY <1>1, SubtreeStep
    <2>2. QED BY <1>3, <1>9, <2>1 DEF FilesUnder
  <1>11. ns[x].files \cap U = {}
    <2>1. ASSUME NEW c \in K PROVE ns[x].files \cap F[c] = {}
      <3>1. x \notin Subtree(ns, c)
        BY <1>1, NotUnderItsKids
      <3>2. \A y \in Subtree(ns, c) : ns[x].files \cap ns[y].files = {}
        BY <1>2, <1>4, <3>1 DEF Apart
      <3>3. QED BY <1>3, <3>2 DEF FilesUnder
    <2>2. QED BY <1>9, <2>1
  <1>12. ns[x].files \in SUBSET File /\ U \in SUBSET File
    BY <1>4, <1>5, <1>9
  <1>13. SizeSum(FilesUnder(ns, x)) = Saturated(SizeSum(ns[x].files) + SizeSum(U))
    BY <1>10, <1>11, <1>12, SizeSumUnion
  <1>14. SumFunctionOnSet(h, K) \in Nat /\ SizeSum(ns[x].files) \in Nat
    <2>1. \A c \in K : h[c] \in Nat
      BY <1>5, <1>7, SizeSumNat
    <2>2. QED BY <1>2, <1>12, <2>1, SumNat, SizeSumNat
  <1>15. SizeSum(FilesUnder(ns, x)) = Saturated(SizeSum(ns[x].files) + SumFunctionOnSet(h, K))
    BY <1>8, <1>9, <1>13, <1>14, SaturatedAdds
  <1>16. QED BY <1>1, <1>15 DEF Exactly

LEMMA ExactMtimeStep ==
    ASSUME NEW D, IsFiniteSet(D), NEW ns \in [D -> Node], Exactly(ns), NEW x \in D,
           NEW h, \A c \in Kids(ns, x) : h[c] = ns[c].mtime
    PROVE  ns[x].mtime = Newest({ns[x].direct_mtime} \cup {h[c] : c \in Kids(ns, x)})
  <1>1. PICK K : K = Kids(ns, x)
    OBVIOUS
  <1>2. K \subseteq D
    BY <1>1 DEF Kids
  <1>3. \A y \in D : ns[y].mtime = Newest(MtimesUnder(ns, y))
    BY DEF Exactly
  <1>4. \A y \in D : /\ MtimesUnder(ns, y) \in SUBSET Nat
                     /\ ns[y].mtime \in Nat
                     /\ ns[y].mtime \in {0} \cup MtimesUnder(ns, y)
                     /\ \A m \in MtimesUnder(ns, y) : m <= ns[y].mtime
    BY <1>3, MtimesUnderNat, NewestBounds
  <1>5. PICK M : M = {ns[x].direct_mtime} \cup {h[c] : c \in K}
    OBVIOUS
  <1>6. M = {ns[x].direct_mtime} \cup {ns[c].mtime : c \in K}
    BY <1>1, <1>5
  <1>7. MtimesUnder(ns, x) = {ns[x].direct_mtime} \cup UNION {MtimesUnder(ns, c) : c \in K}
    <2>1. Subtree(ns, x) = {x} \cup UNION {Subtree(ns, c) : c \in K}
      BY <1>1, SubtreeStep
    <2>2. QED BY <2>1 DEF MtimesUnder
  <1>8. M \in SUBSET Nat /\ IsFiniteSet(M)
    <2>1. IsFiniteSet(K)
      BY <1>2, FS_Subset
    <2>2. PICK g : g = [c \in K |-> ns[c].mtime]
      OBVIOUS
    <2>3. g \in Surjection(K, {g[c] : c \in K})
      BY <2>2 DEF Surjection
    <2>4. IsFiniteSet({g[c] : c \in K})
      BY <2>1, <2>3, FS_Surjection
    <2>5. IsFiniteSet({g[c] : c \in K} \cup {ns[x].direct_mtime})
      BY <2>4, FS_AddElement
    <2>6. M = {g[c] : c \in K} \cup {ns[x].direct_mtime}
      BY <1>6, <2>2
    <2>7. ns[x].direct_mtime \in Nat /\ \A c \in K : ns[c].mtime \in Nat
      BY <1>2 DEF Node
    <2>8. QED BY <1>6, <2>5, <2>6, <2>7
  <1>9. PICK n : n = ns[x].mtime
    OBVIOUS
  <1>10. n \in {0} \cup M
    <2>1. CASE n = 0 \/ n = ns[x].direct_mtime
      BY <1>6, <2>1
    <2>2. CASE n # 0 /\ n # ns[x].direct_mtime
      <3>1. PICK c \in K : n \in MtimesUnder(ns, c)
        BY <1>4, <1>7, <1>9, <2>2
      <3>2. n <= ns[c].mtime
        BY <1>2, <1>4, <3>1
      <3>3. ns[c].mtime \in {0} \cup MtimesUnder(ns, x)
        BY <1>2, <1>4, <1>7
      <3>4. ns[c].mtime <= n
        BY <1>4, <1>9, <3>3, <2>2
      <3>5. n \in Nat /\ ns[c].mtime \in Nat
        BY <1>2, <1>4, <1>9
      <3>6. n = ns[c].mtime
        BY <3>2, <3>4, <3>5
      <3>7. QED BY <1>6, <3>6
    <2>3. QED BY <2>1, <2>2
  <1>11. ASSUME NEW m \in M PROVE m <= n
    <2>1. CASE m = ns[x].direct_mtime
      BY <1>4, <1>7, <1>9, <2>1
    <2>2. CASE \E c \in K : m = ns[c].mtime
      <3>1. PICK c \in K : m = ns[c].mtime
        BY <2>2
      <3>2. m = 0 \/ m \in MtimesUnder(ns, x)
        BY <1>2, <1>4, <1>7, <3>1
      <3>3. QED BY <1>4, <1>9, <3>2
    <2>3. QED BY <1>6, <2>1, <2>2
  <1>12. Newest(M) = n
    BY <1>8, <1>10, <1>11, NewestIs
  <1>13. QED BY <1>1, <1>5, <1>9, <1>12

(* The smallest subtree a root of which P isn't so of, for P as bad roots.  *)
LEMMA LowestOf ==
    ASSUME NEW D, IsFiniteSet(D), NEW ns \in [D -> Node], Linked(ns), Acyclic(ns),
           NEW Bad \in SUBSET D, Bad # {}
    PROVE  \E x \in Bad : \A c \in Kids(ns, x) : c \notin Bad
  <1>1. PICK T : T = {Subtree(ns, x) : x \in Bad}
    OBVIOUS
  <1>2. T # {} /\ \A s \in T : IsFiniteSet(s)
    <2>1. \A x \in D : Subtree(ns, x) \subseteq D
      BY SubtreeClosed
    <2>2. \A x \in D : IsFiniteSet(Subtree(ns, x))
      BY <2>1, FS_Subset
    <2>3. QED BY <1>1, <2>2
  <1>3. PICK s \in T : \A t \in T : t \subseteq s => t = s
    BY <1>2, Smallest
  <1>4. PICK x \in Bad : s = Subtree(ns, x)
    BY <1>1, <1>3
  <1>5. ASSUME NEW c \in Kids(ns, x), c \in Bad PROVE FALSE
    <2>1. x \notin Subtree(ns, c) /\ x \in Subtree(ns, x)
      BY NotUnderItsKids, SubtreeClosed
    <2>2. Subtree(ns, c) \subseteq Subtree(ns, x)
      BY SubtreeClosed, SubtreeAll
    <2>3. Subtree(ns, c) \in T
      BY <1>1, <1>5
    <2>4. Subtree(ns, c) = Subtree(ns, x)
      BY <1>3, <1>4, <2>2, <2>3
    <2>5. QED BY <2>1, <2>4
  <1>6. QED BY <1>4, <1>5

LEMMA TotalsExactly ==
    ASSUME NEW D, IsFiniteSet(D), NEW ns \in [D -> Node],
           Linked(ns), Acyclic(ns), Exactly(ns), Apart(ns), NEW root \in D
    PROVE  Totals(ns, root, Direct(ns, root))
             = [x \in Subtree(ns, root) |-> [size |-> ns[x].size, mtime |-> ns[x].mtime]]
  <1>1. PICK S : S = Subtree(ns, root)
    OBVIOUS
  <1>2. S \subseteq D /\ \A x \in S : Kids(ns, x) \subseteq S
    BY <1>1, SubtreeClosed
  <1>3. PICK kids : kids = [x \in S |-> Kids(ns, x)]
    OBVIOUS
  <1>4. PICK own : own = Direct(ns, root)
    OBVIOUS
  <1>5. /\ DOMAIN kids = S
        /\ \A x \in S : /\ kids[x] = Kids(ns, x)
                        /\ own[x].size = ns[x].direct_size
                        /\ own[x].mtime = ns[x].direct_mtime
    BY <1>1, <1>3, <1>4 DEF Direct
  <1>6. PICK size : size = [x \in S |-> ns[x].size]
    OBVIOUS
  <1>7. PICK mtime : mtime = [x \in S |-> ns[x].mtime]
    OBVIOUS
  <1>8. SizeAt(kids, own, size)
    <2>1. ASSUME NEW x \in S
          PROVE  size[x] = Saturated(own[x].size + SumFunctionOnSet(size, kids[x]))
      <3>1. x \in D /\ \A c \in Kids(ns, x) : size[c] = ns[c].size
        BY <1>2, <1>6
      <3>2. ns[x].size = Saturated(ns[x].direct_size + SumFunctionOnSet(size, Kids(ns, x)))
        BY <3>1, ExactSizeStep
      <3>3. QED BY <1>5, <1>6, <3>2
    <2>2. size = [x \in S |-> Saturated(own[x].size + SumFunctionOnSet(size, kids[x]))]
      BY <1>6, <2>1
    <2>3. QED BY <1>5, <2>2 DEF SizeAt
  <1>9. MtimeAt(kids, own, mtime)
    <2>1. ASSUME NEW x \in S
          PROVE  mtime[x] = Newest({own[x].mtime} \cup {mtime[c] : c \in kids[x]})
      <3>1. x \in D /\ \A c \in Kids(ns, x) : mtime[c] = ns[c].mtime
        BY <1>2, <1>7
      <3>2. ns[x].mtime = Newest({ns[x].direct_mtime} \cup {mtime[c] : c \in Kids(ns, x)})
        BY <3>1, ExactMtimeStep
      <3>3. QED BY <1>5, <1>7, <3>2
    <2>2. mtime = [x \in S |-> Newest({own[x].mtime} \cup {mtime[c] : c \in kids[x]})]
      BY <1>7, <2>1
    <2>3. QED BY <1>5, <2>2 DEF MtimeAt
  <1>10. ASSUME NEW h, SizeAt(kids, own, h) PROVE \A x \in S : h[x] = ns[x].size
    <2>1. PICK Bad : Bad = {x \in S : h[x] # ns[x].size}
      OBVIOUS
    <2>2. SUFFICES ASSUME Bad # {} PROVE FALSE
      BY <2>1
    <2>3. Bad \in SUBSET D
      BY <1>2, <2>1
    <2>4. PICK x \in Bad : \A c \in Kids(ns, x) : c \notin Bad
      BY <2>2, <2>3, LowestOf
    <2>5. x \in S /\ x \in D /\ \A c \in Kids(ns, x) : h[c] = ns[c].size
      BY <1>2, <2>1, <2>4
    <2>6. ns[x].size = Saturated(ns[x].direct_size + SumFunctionOnSet(h, Kids(ns, x)))
      BY <2>5, ExactSizeStep
    <2>7. h[x] = Saturated(own[x].size + SumFunctionOnSet(h, kids[x]))
      BY <1>5, <1>10, <2>5 DEF SizeAt
    <2>8. QED BY <1>5, <2>1, <2>4, <2>5, <2>6, <2>7
  <1>11. ASSUME NEW h, MtimeAt(kids, own, h) PROVE \A x \in S : h[x] = ns[x].mtime
    <2>1. PICK Bad : Bad = {x \in S : h[x] # ns[x].mtime}
      OBVIOUS
    <2>2. SUFFICES ASSUME Bad # {} PROVE FALSE
      BY <2>1
    <2>3. Bad \in SUBSET D
      BY <1>2, <2>1
    <2>4. PICK x \in Bad : \A c \in Kids(ns, x) : c \notin Bad
      BY <2>2, <2>3, LowestOf
    <2>5. x \in S /\ x \in D /\ \A c \in Kids(ns, x) : h[c] = ns[c].mtime
      BY <1>2, <2>1, <2>4
    <2>6. ns[x].mtime = Newest({ns[x].direct_mtime} \cup {h[c] : c \in Kids(ns, x)})
      BY <2>5, ExactMtimeStep
    <2>7. h[x] = Newest({own[x].mtime} \cup {h[c] : c \in kids[x]})
      BY <1>5, <1>11, <2>5 DEF MtimeAt
    <2>8. QED BY <1>5, <2>1, <2>4, <2>5, <2>6, <2>7
  <1>12. PICK hs : hs = CHOOSE h : SizeAt(kids, own, h)
    OBVIOUS
  <1>13. SizeAt(kids, own, hs)
    BY <1>8, <1>12
  <1>14. PICK hm : hm = CHOOSE h : MtimeAt(kids, own, h)
    OBVIOUS
  <1>15. MtimeAt(kids, own, hm)
    BY <1>9, <1>14
  <1>16. \A x \in S : hs[x] = ns[x].size /\ hm[x] = ns[x].mtime
    BY <1>10, <1>11, <1>13, <1>15
  <1>17. TotalsOf(kids, own) = [x \in S |-> [size |-> hs[x], mtime |-> hm[x]]]
    BY <1>5, <1>12, <1>14 DEF TotalsOf
  <1>18. TotalsOf(kids, own) = [x \in S |-> [size |-> ns[x].size, mtime |-> ns[x].mtime]]
    BY <1>16, <1>17
  <1>19. Totals(ns, root, own) = TotalsOf(kids, own)
    BY <1>1, <1>3, TotalsAre
  <1>20. QED BY <1>1, <1>4, <1>18, <1>19

(* So a recount of exact totals changes nothing.                            *)
LEMMA RecomputedSame ==
    ASSUME NEW D, IsFiniteSet(D), NEW ns \in [D -> Node],
           Linked(ns), Acyclic(ns), Exactly(ns), Apart(ns),
           NEW root \in D \cup {NoDir}
    PROVE  Recomputed(ns, root) = ns
  <1>1. CASE root = NoDir
    BY <1>1 DEF Recomputed
  <1>2. CASE root # NoDir
    <2>1. PICK total : total = Totals(ns, root, Direct(ns, root))
      OBVIOUS
    <2>2. total = [x \in Subtree(ns, root) |-> [size |-> ns[x].size, mtime |-> ns[x].mtime]]
      BY <1>2, <2>1, TotalsExactly
    <2>3. Recomputed(ns, root)
            = [x \in D |-> IF x \in DOMAIN total
                           THEN [ns[x] EXCEPT !.size = total[x].size, !.mtime = total[x].mtime]
                           ELSE ns[x]]
      BY <1>2, <2>1 DEF Recomputed
    <2>4. ASSUME NEW x \in D, x \in DOMAIN total
          PROVE  [ns[x] EXCEPT !.size = total[x].size, !.mtime = total[x].mtime] = ns[x]
      <3>1. PICK r \in Node : r = ns[x]
        OBVIOUS
      <3>2. total[x].size = r.size /\ total[x].mtime = r.mtime
        BY <2>2, <2>4, <3>1
      <3>3. [r EXCEPT !.size = r.size, !.mtime = r.mtime] = r
        BY DEF Node
      <3>4. QED BY <3>1, <3>2, <3>3
    <2>5. Recomputed(ns, root) = [x \in D |-> ns[x]]
      BY <2>3, <2>4
    <2>6. QED BY <2>5
  <1>3. QED BY <1>1, <1>2

-----------------------------------------------------------------------------
(* The inductive invariant, in terms of the directories there are (D), the  *)
(* tree (ns), its root and the files counted so far.                        *)
TreeOf(D, ns, root, counted) ==
    /\ D \in SUBSET Dir /\ IsFiniteSet(D)
    /\ ns \in [D -> Node]
    /\ Linked(ns) /\ Acyclic(ns) /\ Rooted(ns)
    /\ root = IF D = {} THEN NoDir ELSE Root
    /\ \A x \in D : Root \in Above(ns, x) /\ (x # Root => ns[x].parent # NoDir)
    /\ Exactly(ns) /\ Apart(ns)
    /\ \A x \in D : ns[x].files \subseteq counted

TreeOK ==
    /\ sent \in Seq(DirEvent)
    /\ TreeOf(Announced, nodes, root_id, Counted)

(* The marks never run ahead of the count of changes, and what was shown of *)
(* a scan that runs was shown of it running.                                *)
Old(key) ==
    \E s \in 0 .. scans, c \in 0 .. changes, v \in Dir, b \in BOOLEAN :
        /\ key = <<s, v, c, b>>
        /\ done = "none" /\ s = scans => b = FALSE

MarksOK ==
    /\ scans \in Nat /\ changes \in Nat
    /\ \A x \in DOMAIN nodes : nodes[x].changed <= changes
    /\ cache # NoCache => cache.changed \in Nat /\ cache.changed <= changes
    /\ shown # NoCache => Old(shown.key)

TreeInv == TreeOK /\ MarksOK /\ CacheSound /\ ShownSound

(* A Dir hangs one directory in the tree.                                   *)
LEMMA TreeGrows ==
    ASSUME NEW D, NEW ns, NEW root, NEW counted, TreeOf(D, ns, root, counted),
           NEW d \in Dir \ D, NEW p, IF d = Root THEN p = NoDir ELSE p \in D,
           NEW files \in SUBSET File, files \cap counted = {},
           NEW mtime \in Nat, NEW mark \in Nat,
           NEW n2, n2 = Propagate(InsertDeferred(ns, d, p, files, mtime),
                                  d, SizeSum(files), mtime, mark),
           NEW root2, root2 = IF p = NoDir /\ root = NoDir THEN d ELSE root
    PROVE  TreeOf(D \cup {d}, n2, root2, counted \cup files)
           /\ Hung(ns, n2, d, p, files, mtime, mark)
  <1>1. /\ D \in SUBSET Dir /\ IsFiniteSet(D)
        /\ ns \in [D -> Node]
        /\ Linked(ns) /\ Acyclic(ns) /\ Rooted(ns)
        /\ root = IF D = {} THEN NoDir ELSE Root
        /\ \A x \in D : Root \in Above(ns, x) /\ (x # Root => ns[x].parent # NoDir)
        /\ Exactly(ns) /\ Apart(ns)
        /\ \A x \in D : ns[x].files \subseteq counted
    BY DEF TreeOf
  <1>2. d # NoDir /\ NoDir \notin D /\ p \in D \cup {NoDir} /\ Root # NoDir
    BY <1>1, TreeAssumption
  <1>3. n2 \in [D \cup {d} -> Node] /\ Hung(ns, n2, d, p, files, mtime, mark)
    BY <1>1, <1>2, Inserted
  <1>4. /\ Linked(n2) /\ Acyclic(n2) /\ Rooted(n2)
        /\ \A x \in D : Above(n2, x) = Above(ns, x)
        /\ Above(n2, d) = IF p \in D THEN {d} \cup Above(ns, p) ELSE {d}
    <2>1. DOMAIN ns = D
      BY <1>1
    <2>2. /\ Linked(n2) /\ Acyclic(n2) /\ Rooted(n2)
          /\ \A x \in DOMAIN ns : Above(n2, x) = Above(ns, x)
          /\ Above(n2, d) = IF p \in DOMAIN ns THEN {d} \cup Above(ns, p) ELSE {d}
      <3>1. Linked(ns) /\ Acyclic(ns) /\ Rooted(ns) /\ Hung(ns, n2, d, p, files, mtime, mark)
        BY <1>1, <1>3
      <3>2. QED BY ONLY <3>1, <1>2, HungShape
    <2>3. QED BY <2>1, <2>2
  <1>5. \A x \in D : ns[x].files \cap files = {}
    BY <1>1
  <1>6. Exactly(n2)
    BY <1>1, <1>3, <1>5, HungExactly
  <1>7. d = Root <=> D = {}
    <2>1. \A x \in D : Above(ns, x) \subseteq D
      BY <1>1, AboveClosed
    <2>2. QED BY <1>1, <1>2, <2>1
  <1>8. root2 = IF D \cup {d} = {} THEN NoDir ELSE Root
    BY <1>1, <1>2, <1>7
  <1>9. /\ n2[d].parent = p /\ n2[d].files = files
        /\ \A x \in D : n2[x].parent = ns[x].parent /\ n2[x].files = ns[x].files
    BY <1>1, <1>3 DEF Hung
  <1>10. \A x \in D \cup {d} : Root \in Above(n2, x) /\ (x # Root => n2[x].parent # NoDir)
    <2>1. CASE p \in D
      BY <1>1, <1>2, <1>4, <1>9, <2>1
    <2>2. CASE p \notin D
      BY <1>1, <1>4, <1>7, <1>9, <2>2
    <2>3. QED BY <2>1, <2>2
  <1>11. DOMAIN n2 = D \cup {d} /\ DOMAIN ns = D
    BY <1>1, <1>3
  <1>12. Apart(n2)
    BY <1>1, <1>5, <1>9, <1>11 DEF Apart
  <1>13. \A x \in D \cup {d} : n2[x].files \subseteq counted \cup files
    BY <1>1, <1>9
  <1>14. D \cup {d} \in SUBSET Dir /\ IsFiniteSet(D \cup {d})
    BY <1>1, FS_AddElement
  <1>15. QED BY <1>3, <1>4, <1>6, <1>8, <1>10, <1>12, <1>13, <1>14 DEF TreeOf

(* Where it left no mark, it changed nothing under the directory.           *)
LEMMA UnmarkedUnchanged ==
    ASSUME NEW ns, Linked(ns), Acyclic(ns), Rooted(ns),
           NEW n2, NEW d, d # NoDir, NEW p, NEW files, NEW mtime, NEW mark,
           Hung(ns, n2, d, p, files, mtime, mark),
           NEW r \in DOMAIN n2, n2[r].changed # mark
    PROVE  /\ r \in DOMAIN ns /\ ns[r].changed = n2[r].changed
           /\ View(n2, r) = View(ns, r)
           /\ \A filter : FilteredSizes(n2, filter, r) = FilteredSizes(ns, filter, r)
  <1>1. r \in DOMAIN ns /\ r \notin Above(n2, d) /\ n2[r] = ns[r] /\ d \in DOMAIN n2
    BY DEF Hung
  <1>2. /\ Linked(n2)
        /\ Subtree(n2, r) = Subtree(ns, r)
    BY <1>1, HungShape
  <1>3. Subtree(ns, r) \subseteq DOMAIN ns
    BY <1>1, SubtreeClosed
  <1>4. ASSUME NEW y \in Subtree(ns, r) PROVE n2[y] = ns[y]
    <2>1. y \in DOMAIN ns /\ y \in DOMAIN n2
      BY <1>3 DEF Hung
    <2>2. r \in Above(n2, y)
      BY <1>2, <2>1, UnderIsBelow
    <2>3. y \notin Above(n2, d)
      BY <1>1, <2>2, AboveAll
    <2>4. QED BY <2>1, <2>3 DEF Hung
  <1>5. \A y \in Subtree(ns, r) : Kids(n2, y) = Kids(ns, y) /\ n2[y].files = ns[y].files
    <2>1. \A y \in DOMAIN ns : ns[y].children \subseteq DOMAIN ns
      BY DEF Linked
    <2>2. DOMAIN ns \subseteq DOMAIN n2
      BY DEF Hung
    <2>3. QED BY <1>3, <1>4, <2>1, <2>2 DEF Kids
  <1>6. View(n2, r) = View(ns, r)
    BY <1>2, <1>4 DEF View
  <1>7. \A filter : FilteredSizes(n2, filter, r) = FilteredSizes(ns, filter, r)
    BY <1>2, <1>5, FilterSees
  <1>8. QED BY <1>1, <1>6, <1>7

-----------------------------------------------------------------------------
LEMMA TreeInvInit == Init => TreeInv
  <1> SUFFICES ASSUME Init PROVE TreeInv
    OBVIOUS
  <1> USE DEF Init
  <1>1. Announced = {} /\ Counted = {} /\ sent \in Seq(DirEvent)
    BY DEF Announced, Counted
  <1>2. DOMAIN nodes = {} /\ nodes \in [{} -> Node]
    BY DEF Empty
  <1>3. Linked(nodes) /\ Acyclic(nodes) /\ Rooted(nodes) /\ Exactly(nodes) /\ Apart(nodes)
    BY <1>2 DEF Linked, Acyclic, Rooted, Exactly, Apart
  <1>4. TreeOf({}, nodes, root_id, {})
    BY <1>2, <1>3, FS_EmptySet DEF TreeOf
  <1>5. TreeOK
    BY <1>1, <1>4 DEF TreeOK
  <1>6. MarksOK
    BY <1>2 DEF MarksOK
  <1>7. CacheSound /\ ShownSound
    BY DEF CacheSound, ShownSound
  <1>8. QED BY <1>5, <1>6, <1>7 DEF TreeInv

LEMMA TreeInvStart == TreeInv /\ ApplyStart => TreeInv'
  <1> SUFFICES ASSUME TreeInv, ApplyStart PROVE TreeInv'
    OBVIOUS
  <1>1. /\ sent' = <<>> /\ done' = "none" /\ nodes' = Empty /\ root_id' = NoDir
        /\ scans' = scans + 1 /\ changes' = changes + 1 /\ cache' = cache /\ shown' = shown
    BY DEF ApplyStart
  <1>2. Announced' = {} /\ Counted' = {} /\ (sent \in Seq(DirEvent))'
    BY <1>1 DEF Announced, Counted
  <1>3. PICK n2 : n2 = Empty
    OBVIOUS
  <1>4. DOMAIN n2 = {} /\ n2 \in [{} -> Node]
    BY <1>3 DEF Empty
  <1>5. Linked(n2) /\ Acyclic(n2) /\ Rooted(n2) /\ Exactly(n2) /\ Apart(n2)
    BY <1>4 DEF Linked, Acyclic, Rooted, Exactly, Apart
  <1>6. TreeOf({}, n2, NoDir, {})
    BY <1>4, <1>5, FS_EmptySet DEF TreeOf
  <1>7. nodes' = n2
    BY <1>1, <1>3
  <1>8. TreeOK'
    BY <1>1, <1>2, <1>6, <1>7 DEF TreeOK
  <1>9. MarksOK'
    <2>1. MarksOK
      BY DEF TreeInv
    <2>2. scans' \in Nat /\ changes' \in Nat /\ \A x \in DOMAIN n2 : n2[x].changed <= changes'
      BY <1>1, <1>4, <2>1 DEF MarksOK
    <2>3. cache' # NoCache => cache'.changed \in Nat /\ cache'.changed <= changes'
      BY <1>1, <2>1 DEF MarksOK
    <2>4. ASSUME shown' # NoCache PROVE Old(shown.key)'
      <3>1. Old(shown.key)
        BY <1>1, <2>1, <2>4 DEF MarksOK
      <3>2. PICK s \in 0 .. scans, c \in 0 .. changes, v \in Dir, b \in BOOLEAN :
              shown.key = <<s, v, c, b>>
        BY <3>1 DEF Old
      <3>3. s \in 0 .. scans' /\ c \in 0 .. changes' /\ s # scans'
        BY <1>1, <2>1 DEF MarksOK
      <3>4. QED BY <1>1, <3>2, <3>3, Zenon DEF Old
    <2>5. QED BY <1>1, <1>7, <2>2, <2>3, <2>4 DEF MarksOK
  <1>10. CacheSound'
    BY <1>4, <1>7 DEF CacheSound
  <1>11. ShownSound'
    BY <1>4, <1>7 DEF ShownSound
  <1>12. QED BY <1>8, <1>9, <1>10, <1>11 DEF TreeInv

LEMMA TreeInvDir ==
    ASSUME TreeInv, NEW d \in Dir, NEW p \in Dir \cup {NoDir}, NEW files \in SUBSET File,
           ApplyDir(d, p, files)
    PROVE  TreeInv'
  <1>1. /\ done = "none" /\ done' = done
        /\ d \notin Announced
        /\ IF d = Root THEN p = NoDir ELSE p \in Announced /\ d \in Contents[p]
        /\ files \subseteq (Contents[d] \cap File) \ Counted
        /\ sent' = Append(sent, [dir |-> d, parent |-> p, files |-> files])
    BY DEF ApplyDir, Announce
  <1>2. PICK dated \in SUBSET (Contents[d] \cap File) :
          Insert(d, p, files, Newest({MtimeOf[f] : f \in dated}))
    BY DEF ApplyDir
  <1>3. PICK mtime : mtime = Newest({MtimeOf[f] : f \in dated})
    OBVIOUS
  <1>4. mtime \in Nat
    <2>1. PICK M : M = {MtimeOf[f] : f \in dated}
      OBVIOUS
    <2>2. M \in SUBSET Nat
      BY <2>1, FilesAssumption
    <2>3. IsFiniteSet(M)
      <3>1. IsFiniteSet(dated)
        BY FilesAssumption, FS_Subset
      <3>2. PICK g : g = [f \in dated |-> MtimeOf[f]]
        OBVIOUS
      <3>3. M = {g[f] : f \in dated}
        BY <2>1, <3>2
      <3>4. g \in Surjection(dated, M)
        BY <3>2, <3>3 DEF Surjection
      <3>5. QED BY <3>1, <3>4, FS_Surjection
    <2>4. QED BY <1>3, <2>1, <2>2, <2>3, NewestBounds
  <1>5. /\ changes' = changes + 1
        /\ nodes' = Propagate(InsertDeferred(nodes, d, p, files, mtime),
                              d, SizeSum(files), mtime, changes')
        /\ root_id' = IF p = NoDir /\ root_id = NoDir THEN d ELSE root_id
        /\ scans' = scans /\ cache' = cache /\ shown' = shown
    BY <1>2, <1>3 DEF Insert
  <1>6. TreeOK /\ MarksOK /\ CacheSound /\ ShownSound
    BY DEF TreeInv
  <1>7. PICK ns : ns = nodes
    OBVIOUS
  <1>8. PICK n2 : n2 = nodes'
    OBVIOUS
  <1>9. PICK mark : mark = changes'
    OBVIOUS
  <1>10. PICK root2 : root2 = root_id'
    OBVIOUS
  <1>11. mark \in Nat /\ changes \in Nat /\ changes < mark
    BY <1>5, <1>6, <1>9 DEF MarksOK
  <1>12. PICK D : D = Announced
    OBVIOUS
  <1>13. PICK counted : counted = Counted
    OBVIOUS
  <1>14. PICK rt : rt = root_id
    OBVIOUS
  <1>15. TreeOf(D, ns, rt, counted)
    BY <1>6, <1>7, <1>12, <1>13, <1>14 DEF TreeOK
  <1>16. TreeOf(D \cup {d}, n2, root2, counted \cup files) /\ Hung(ns, n2, d, p, files, mtime, mark)
    <2>1. n2 = Propagate(InsertDeferred(ns, d, p, files, mtime), d, SizeSum(files), mtime, mark)
      BY <1>5, <1>7, <1>8, <1>9
    <2>2. root2 = IF p = NoDir /\ rt = NoDir THEN d ELSE rt
      BY <1>5, <1>10, <1>14
    <2>3. d \in Dir \ D /\ (IF d = Root THEN p = NoDir ELSE p \in D) /\ files \cap counted = {}
      BY <1>1, <1>12, <1>13
    <2>4. QED BY ZenonT(40), <1>4, <1>11, <1>15, <2>1, <2>2, <2>3, TreeGrows
  <1>17. /\ DOMAIN ns = D /\ DOMAIN n2 = D \cup {d}
         /\ Linked(ns) /\ Acyclic(ns) /\ Rooted(ns) /\ n2 \in [D \cup {d} -> Node]
    BY <1>15, <1>16 DEF TreeOf
  <1>18. TreeOK'
    <2>1. sent \in Seq(DirEvent) /\ [dir |-> d, parent |-> p, files |-> files] \in DirEvent
      BY <1>6 DEF TreeOK, DirEvent
    <2>2. sent' \in Seq(DirEvent)
      BY <1>1, <2>1
    <2>3. DOMAIN sent' = DOMAIN sent \cup {Len(sent) + 1} /\ DOMAIN sent = 1 .. Len(sent)
      BY <1>1, <2>1
    <2>4. /\ \A i \in DOMAIN sent : sent'[i] = sent[i]
          /\ sent'[Len(sent) + 1] = [dir |-> d, parent |-> p, files |-> files]
      BY <1>1, <2>1
    <2>5. Announced' = D \cup {d}
      BY <1>12, <2>3, <2>4 DEF Announced
    <2>6. Counted' = counted \cup files
      BY <1>13, <2>3, <2>4 DEF Counted
    <2>7. TreeOf(Announced', nodes', root_id', Counted')
      BY <1>8, <1>10, <1>16, <2>5, <2>6
    <2>8. QED BY <2>2, <2>7 DEF TreeOK
  <1>19. MarksOK'
    <2>1. scans' \in Nat /\ changes' \in Nat
      BY <1>5, <1>6 DEF MarksOK
    <2>2. \A x \in DOMAIN n2 : n2[x].changed <= mark
      <3>1. \A x \in DOMAIN ns : ns[x].changed <= changes /\ ns[x].changed \in Nat
        BY <1>6, <1>7, <1>15, <1>17 DEF MarksOK, TreeOf, Node
      <3>2. n2[d].changed = mark
        BY <1>16 DEF Hung
      <3>3. \A x \in DOMAIN ns : n2[x].changed = mark \/ n2[x] = ns[x]
        BY <1>16 DEF Hung
      <3>4. QED BY <1>11, <1>17, <3>1, <3>2, <3>3
    <2>3. cache' # NoCache => cache'.changed \in Nat /\ cache'.changed <= changes'
      BY <1>5, <1>6, <1>11 DEF MarksOK
    <2>4. ASSUME shown' # NoCache PROVE Old(shown.key)'
      <3>1. Old(shown.key)
        BY <1>5, <1>6, <2>4 DEF MarksOK
      <3>2. PICK s \in 0 .. scans, c \in 0 .. changes, v \in Dir, b \in BOOLEAN :
              shown.key = <<s, v, c, b>> /\ (done = "none" /\ s = scans => b = FALSE)
        BY <3>1 DEF Old
      <3>3. c \in 0 .. changes'
        BY <1>5, <1>6 DEF MarksOK
      <3>4. QED BY <1>1, <1>5, <3>2, <3>3, Zenon DEF Old
    <2>5. QED BY <1>8, <1>9, <2>1, <2>2, <2>3, <2>4 DEF MarksOK
  <1>20. ASSUME NEW r \in DOMAIN n2, NEW c \in Nat, c <= changes, n2[r].changed = c
         PROVE  /\ r \in DOMAIN ns /\ ns[r].changed = c
                /\ View(n2, r) = View(ns, r)
                /\ \A filter : FilteredSizes(n2, filter, r) = FilteredSizes(ns, filter, r)
    <2>1. n2[r].changed # mark
      BY <1>11, <1>20
    <2>2. d # NoDir
      BY TreeAssumption
    <2>3. /\ r \in DOMAIN ns /\ ns[r].changed = n2[r].changed
          /\ View(n2, r) = View(ns, r)
          /\ \A filter : FilteredSizes(n2, filter, r) = FilteredSizes(ns, filter, r)
      <3>1. r \in DOMAIN n2 /\ Linked(ns) /\ Acyclic(ns) /\ Rooted(ns)
        BY <1>17, <1>20
      <3>2. Hung(ns, n2, d, p, files, mtime, mark)
        BY <1>16
      <3>3. QED BY ONLY <3>1, <3>2, <2>1, <2>2, UnmarkedUnchanged
    <2>4. QED BY <1>20, <2>3
  <1>21. CacheSound'
    <2>1. SUFFICES ASSUME cache # NoCache, cache.root \in DOMAIN n2,
                          n2[cache.root].changed = cache.changed
                   PROVE  cache.sizes = FilteredSizes(n2, cache.filter, cache.root)
      BY <1>5, <1>8 DEF CacheSound
    <2>2. cache.changed \in Nat /\ cache.changed <= changes
      BY <1>6, <2>1 DEF MarksOK
    <2>3. /\ cache.root \in DOMAIN ns /\ ns[cache.root].changed = cache.changed
          /\ FilteredSizes(n2, cache.filter, cache.root) = FilteredSizes(ns, cache.filter, cache.root)
      BY <1>20, <2>1, <2>2
    <2>4. QED BY <1>6, <1>7, <2>1, <2>3 DEF CacheSound
  <1>22. ShownSound'
    <2>1. SUFFICES ASSUME shown # NoCache, shown.root \in DOMAIN n2,
                          <<scans, shown.root, n2[shown.root].changed, done # "none">> = shown.key
                   PROVE  shown.view = View(n2, shown.root)
      BY <1>1, <1>5, <1>8 DEF ShownSound
    <2>2. Old(shown.key)
      BY <1>6, <2>1 DEF MarksOK
    <2>3. PICK s \in 0 .. scans, c \in 0 .. changes, v \in Dir, b \in BOOLEAN :
            shown.key = <<s, v, c, b>>
      BY <2>2 DEF Old
    <2>4. n2[shown.root].changed = c
      BY <2>1, <2>3
    <2>5. c \in Nat /\ c <= changes
      BY <1>11
    <2>6. /\ shown.root \in DOMAIN ns /\ ns[shown.root].changed = c
          /\ View(n2, shown.root) = View(ns, shown.root)
      BY <1>20, <2>1, <2>4, <2>5
    <2>7. <<scans, shown.root, ns[shown.root].changed, done # "none">> = shown.key
      BY <2>1, <2>4, <2>6
    <2>8. QED BY <1>6, <1>7, <2>1, <2>6, <2>7 DEF ShownSound
  <1>23. QED BY <1>18, <1>19, <1>21, <1>22 DEF TreeInv

(* The recount that ends a scan finds the totals exact.                     *)
LEMMA RecountSame ==
    ASSUME TreeOK
    PROVE  Recomputed(nodes, root_id) = nodes
  <1>1. PICK D : D = Announced
    OBVIOUS
  <1>2. PICK ns : ns = nodes
    OBVIOUS
  <1>3. PICK root : root = root_id
    OBVIOUS
  <1>4. PICK counted : counted = Counted
    OBVIOUS
  <1>5. TreeOf(D, ns, root, counted)
    BY <1>1, <1>2, <1>3, <1>4 DEF TreeOK
  <1>6. root \in D \cup {NoDir}
    <2>1. \A x \in D : Above(ns, x) \subseteq D
      BY <1>5, AboveClosed DEF TreeOf
    <2>2. QED BY <1>5, <2>1 DEF TreeOf
  <1>7. Recomputed(ns, root) = ns
    BY <1>5, <1>6, RecomputedSame DEF TreeOf
  <1>8. QED BY <1>2, <1>3, <1>7

LEMMA TreeInvEnd ==
    ASSUME TreeInv, done = "none", done' # "none", nodes' = Recomputed(nodes, root_id),
           changes' \in {changes, changes + 1},
           UNCHANGED <<sent, root_id, scans, cache, shown>>
    PROVE  TreeInv'
  <1>1. TreeOK /\ MarksOK /\ CacheSound /\ ShownSound
    BY DEF TreeInv
  <1>2. nodes' = nodes
    BY <1>1, RecountSame
  <1>3. Announced' = Announced /\ Counted' = Counted
    BY DEF Announced, Counted
  <1>4. TreeOK'
    BY <1>1, <1>2, <1>3 DEF TreeOK
  <1>5. changes \in Nat /\ changes' \in Nat /\ changes <= changes'
    BY <1>1 DEF MarksOK
  <1>6. ASSUME shown' # NoCache PROVE Old(shown.key)'
    <2>1. Old(shown.key)
      BY <1>1, <1>6 DEF MarksOK
    <2>2. PICK s \in 0 .. scans, c \in 0 .. changes, v \in Dir, b \in BOOLEAN :
            shown.key = <<s, v, c, b>>
      BY <2>1 DEF Old
    <2>3. c \in 0 .. changes'
      BY <1>5
    <2>4. QED BY <2>2, <2>3, Zenon DEF Old
  <1>7. MarksOK'
    <2>1. ASSUME NEW x \in DOMAIN nodes PROVE nodes[x].changed <= changes'
      <3>1. nodes[x].changed <= changes /\ nodes[x].changed \in Nat
        BY <1>1 DEF MarksOK, TreeOK, TreeOf, Node
      <3>2. QED BY <1>5, <3>1
    <2>2. cache' # NoCache => cache'.changed \in Nat /\ cache'.changed <= changes'
      BY <1>1, <1>5 DEF MarksOK
    <2>3. scans' \in Nat
      BY <1>1 DEF MarksOK
    <2>4. QED BY <1>2, <1>5, <1>6, <2>1, <2>2, <2>3 DEF MarksOK
  <1>8. CacheSound'
    BY <1>1, <1>2 DEF CacheSound
  <1>9. ShownSound'
    <2>1. SUFFICES ASSUME shown # NoCache,
                          <<scans, shown.root, nodes[shown.root].changed, done' # "none">> = shown.key
                   PROVE  FALSE
      BY <1>2 DEF ShownSound
    <2>2. Old(shown.key)
      BY <1>1, <2>1 DEF MarksOK
    <2>3. PICK s \in 0 .. scans, c \in 0 .. changes, v \in Dir, b \in BOOLEAN :
            shown.key = <<s, v, c, b>> /\ (s = scans => b = FALSE)
      BY <2>2 DEF Old
    <2>4. PICK e \in BOOLEAN : e = (done' # "none")
      BY Zenon
    <2>5. e = TRUE
      BY <2>4, Zenon
    <2>6. <<scans, shown.root, nodes[shown.root].changed, e>> = <<s, v, c, b>>
      BY <2>1, <2>3, <2>4, Zenon
    <2>7. s = scans /\ b = e
      BY <2>6
    <2>8. QED BY <2>3, <2>5, <2>7, Zenon
  <1>10. QED BY <1>4, <1>7, <1>8, <1>9 DEF TreeInv

LEMMA TreeInvLayout ==
    ASSUME TreeInv, NEW view \in Dir, NEW filter \in Filters, Layout(view, filter)
    PROVE  TreeInv'
  <1>1. TreeOK /\ MarksOK /\ CacheSound /\ ShownSound
    BY DEF TreeInv
  <1>2. PICK changed : changed = nodes[view].changed
    OBVIOUS
  <1>3. /\ view \in DOMAIN nodes
        /\ UNCHANGED <<sent, done, nodes, root_id, scans, changes>>
        /\ \/ cache' = cache
           \/ cache' = [root |-> view, changed |-> changed, filter |-> filter,
                        sizes |-> FilteredSizes(nodes, filter, view)]
        /\ \/ shown' = shown
           \/ shown' = [root |-> view, key |-> <<scans, view, changed, done # "none">>,
                        view |-> View(nodes, view)]
    BY <1>2, Zenon DEF Layout, streamVars, treeVars
  <1>4. TreeOK'
    <2>1. Announced' = Announced /\ Counted' = Counted
      BY <1>3 DEF Announced, Counted
    <2>2. QED BY <1>1, <1>3, <2>1 DEF TreeOK
  <1>5. changed \in Nat /\ changed <= changes /\ scans \in Nat /\ changes \in Nat
    BY <1>1, <1>2, <1>3 DEF MarksOK, TreeOK, TreeOf, Node
  <1>6. ASSUME shown' # NoCache PROVE Old(shown.key)'
    <2>1. CASE shown' = shown
      <3>1. Old(shown.key)
        BY <1>1, <1>6, <2>1 DEF MarksOK
      <3>2. QED BY <1>3, <2>1, <3>1 DEF Old
    <2>2. CASE shown' = [root |-> view, key |-> <<scans, view, changed, done # "none">>,
                         view |-> View(nodes, view)]
      <3>1. PICK e \in BOOLEAN : e = (done # "none")
        BY Zenon
      <3>2. shown'.key = <<scans, view, changed, e>>
        BY <2>2, <3>1
      <3>3. done' = "none" /\ scans = scans' => e = FALSE
        BY <1>3, <3>1, Zenon
      <3>4. scans \in 0 .. scans' /\ changed \in 0 .. changes'
        BY <1>3, <1>5
      <3>5. QED BY <3>2, <3>3, <3>4, Zenon DEF Old
    <2>3. QED BY <1>3, <2>1, <2>2
  <1>7. MarksOK'
    <2>1. cache' # NoCache => cache'.changed \in Nat /\ cache'.changed <= changes'
      BY <1>1, <1>3, <1>5 DEF MarksOK
    <2>2. QED BY <1>1, <1>3, <1>6, <2>1 DEF MarksOK
  <1>8. CacheSound'
    <2>1. CASE cache' = cache
      BY <1>1, <1>3, <2>1 DEF CacheSound
    <2>2. CASE cache' = [root |-> view, changed |-> changed, filter |-> filter,
                         sizes |-> FilteredSizes(nodes, filter, view)]
      <3>1. /\ cache'.root = view /\ cache'.filter = filter
            /\ cache'.sizes = FilteredSizes(nodes, filter, view)
        BY <2>2
      <3>2. QED BY <1>3, <3>1 DEF CacheSound
    <2>3. QED BY <1>3, <2>1, <2>2
  <1>9. ShownSound'
    <2>1. CASE shown' = shown
      BY <1>1, <1>3, <2>1 DEF ShownSound
    <2>2. CASE shown' = [root |-> view, key |-> <<scans, view, changed, done # "none">>,
                         view |-> View(nodes, view)]
      <3>1. shown'.root = view /\ shown'.view = View(nodes, view)
        BY <2>2
      <3>2. QED BY <1>3, <3>1 DEF ShownSound
    <2>3. QED BY <1>3, <2>1, <2>2
  <1>10. QED BY <1>4, <1>7, <1>8, <1>9 DEF TreeInv

LEMMA TreeInvStutter == TreeInv /\ UNCHANGED vars => TreeInv'
  <1> SUFFICES ASSUME TreeInv, UNCHANGED vars PROVE TreeInv'
    OBVIOUS
  <1>1. UNCHANGED <<sent, done, nodes, root_id, scans, changes, cache, shown>>
    BY DEF vars, streamVars, treeVars
  <1>2. Announced' = Announced /\ Counted' = Counted
    BY <1>1 DEF Announced, Counted
  <1>3. TreeOK'
    BY <1>1, <1>2 DEF TreeInv, TreeOK
  <1>4. MarksOK'
    BY <1>1 DEF TreeInv, MarksOK, Old
  <1>5. CacheSound' /\ ShownSound'
    BY <1>1 DEF TreeInv, CacheSound, ShownSound
  <1>6. QED BY <1>3, <1>4, <1>5 DEF TreeInv

(* Every step keeps the invariant.                                          *)
THEOREM DirTreeInvStep == TreeInv /\ [Next]_vars => TreeInv'
  <1> SUFFICES ASSUME TreeInv, [Next]_vars PROVE TreeInv'
    OBVIOUS
  <1>1. CASE ApplyStart
    BY <1>1, TreeInvStart
  <1>2. CASE \E d \in Dir, p \in Dir \cup {NoDir}, files \in SUBSET File : ApplyDir(d, p, files)
    BY <1>2, TreeInvDir
  <1>3. CASE \E outcome \in Outcomes : ApplyDone(outcome)
    <2>1. PICK outcome \in Outcomes : ApplyDone(outcome)
      BY <1>3
    <2>2. done = "none" /\ done' # "none"
      BY <2>1 DEF ApplyDone, Finish, Outcomes
    <2>3. /\ changes' = changes + 1 /\ nodes' = Recomputed(nodes, root_id)
          /\ UNCHANGED <<sent, root_id, scans, cache, shown>>
      BY <2>1 DEF ApplyDone, Finish
    <2>4. QED BY <2>2, <2>3, TreeInvEnd
  <1>4. CASE StreamBroken
    <2>1. /\ done = "none" /\ done' # "none" /\ changes' = changes
          /\ nodes' = Recomputed(nodes, root_id)
          /\ UNCHANGED <<sent, root_id, scans, cache, shown>>
      BY <1>4 DEF StreamBroken
    <2>2. QED BY <2>1, TreeInvEnd
  <1>5. CASE \E view \in Dir, filter \in Filters : Layout(view, filter)
    BY <1>5, TreeInvLayout
  <1>6. CASE UNCHANGED vars
    BY <1>6, TreeInvStutter
  <1>7. QED BY <1>1, <1>2, <1>3, <1>4, <1>5, <1>6 DEF Next

(* The invariant's tree is what TotalsExact asks for.                       *)
LEMMA TreeInvTotals == TreeInv => TotalsExact
  <1> SUFFICES ASSUME TreeInv PROVE TotalsExact
    OBVIOUS
  <1>1. PICK ns : ns = nodes
    OBVIOUS
  <1>2. PICK D : D = Announced
    OBVIOUS
  <1>3. TreeOf(D, ns, root_id, Counted)
    BY <1>1, <1>2 DEF TreeInv, TreeOK
  <1>4. /\ DOMAIN ns = D
        /\ Linked(ns) /\ Acyclic(ns) /\ Rooted(ns) /\ Exactly(ns)
        /\ root_id = IF D = {} THEN NoDir ELSE Root
        /\ \A x \in D : Root \in Above(ns, x) /\ (x # Root => ns[x].parent # NoDir)
    BY <1>3 DEF TreeOf
  <1>5. ASSUME NEW d \in DOMAIN nodes PROVE Exact(d) /\ LeadsToRoot(d)
    <2>1. Exact(d)
      BY <1>1, <1>4, <1>5 DEF Exactly, Exact, ExactSize, ExactMtime, FilesUnder, MtimesUnder
    <2>2. d \in D /\ root_id = Root
      BY <1>1, <1>4, <1>5
    <2>3. ASSUME d # root_id
          PROVE  /\ ns[d].parent \in D
                 /\ d \in ns[ns[d].parent].children
                 /\ d \notin Above(ns, ns[d].parent)
      <3>1. ns[d].parent \in D
        BY <1>4, <2>2, <2>3 DEF Rooted
      <3>2. QED BY <1>4, <2>2, <3>1 DEF Linked, Acyclic
    <2>4. LeadsToRoot(d)
      BY <1>1, <1>4, <2>2, <2>3 DEF LeadsToRoot
    <2>5. QED BY <2>1, <2>4
  <1>6. root_id # NoDir => root_id \in DOMAIN nodes
    <2>1. \A x \in D : Above(ns, x) \subseteq D
      BY <1>4, AboveClosed
    <2>2. QED BY <1>1, <1>4, <2>1
  <1>7. root_id # NoDir => Subtree(nodes, root_id) \subseteq DOMAIN nodes
    BY <1>6, SubtreeClosed
  <1>8. QED BY <1>5, <1>7 DEF TotalsExact

THEOREM DirTreeInv == Spec => []TreeInv
  <1>1. Init => TreeInv
    BY TreeInvInit
  <1>2. TreeInv /\ [Next]_vars => TreeInv'
    BY DirTreeInvStep
  <1>3. QED BY <1>1, <1>2, PTL DEF Spec

(* Running totals are exact whenever the recount of recompute_totals may    *)
(* come: while streams keep their order it never changes a thing, so that a *)
(* page sees no size jump when the scan ends.                               *)
THEOREM DirTreeRecountSame == Spec => [](Recomputed(nodes, root_id) = nodes)
  <1>1. TreeInv => Recomputed(nodes, root_id) = nodes
    BY RecountSame DEF TreeInv
  <1>2. QED BY <1>1, DirTreeInv, PTL

(* The totals kept while a scan streams in are exact after every event, and *)
(* every directory leads up to the root: propagate ends, and recompute_-    *)
(* totals ends with everything found, sizes saturated or not.               *)
THEOREM DirTreeTotalsExact == Spec => []TotalsExact
  BY DirTreeInv, TreeInvTotals, PTL

(* FilteredSizes::get hands out kept sizes only while filtering the tree    *)
(* again would give the same: within a scan and across scans.               *)
THEOREM DirTreeCacheSound == Spec => []CacheSound
  <1>1. TreeInv => CacheSound
    BY DEF TreeInv
  <1>2. QED BY <1>1, DirTreeInv, PTL

(* update_tab tells a tab nothing only where the view is what it last       *)
(* showed: propagate's marks miss no change under the view's root.          *)
THEOREM DirTreeShownSound == Spec => []ShownSound
  <1>1. TreeInv => ShownSound
    BY DEF TreeInv
  <1>2. QED BY <1>1, DirTreeInv, PTL
=============================================================================
