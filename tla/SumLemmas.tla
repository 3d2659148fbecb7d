------------------------------ MODULE SumLemmas ------------------------------
(***************************************************************************)
(* Sums over finite sets and the order of their elements, as the books of  *)
(* the console use them: SumFunctionOnSet of the community modules is a    *)
(* recursive function that takes the elements in an order of its own, and  *)
(* these lemmas say that the order does not matter.  Induction is over     *)
(* sets, which are first-order: that a collection of sets which contains   *)
(* the empty one and is closed under adding an element contains every      *)
(* finite set.                                                             *)
(***************************************************************************)
EXTENDS Integers, FiniteSets, Functions, FiniteSetTheorems, WellFoundedInduction, TLAPS

\* A set of numbers has a least one.
LEMMA LeastOfNat ==
  ASSUME NEW T, T \subseteq Nat, T # {}
  PROVE  \E n \in T : \A m \in T : n <= m
<1>1. PICK n \in T : \A m \in T : ~(<<m, n>> \in OpToRel(<, Nat))
  BY NatLessThanWellFounded, WFMin, Zenon
<1>2. \A m \in T : ~(m < n)
  BY <1>1, Zenon DEF OpToRel
<1> QED BY <1>2

\* Induction over the numbers, with the set of those for which it is shown.
LEMMA NatSetInduction ==
  ASSUME NEW A, 0 \in A, \A n \in Nat : n \in A => n + 1 \in A
  PROVE  Nat \subseteq A
<1> SUFFICES ASSUME Nat \ A # {} PROVE FALSE
  OBVIOUS
<1>1. PICK n \in Nat \ A : \A m \in Nat \ A : n <= m
  BY LeastOfNat
<1>2. n # 0 /\ n - 1 \in Nat /\ n - 1 \notin A
  <2>1. n # 0 /\ n - 1 \in Nat
    BY <1>1
  <2> QED BY <2>1, <1>1
<1> QED BY <1>1, <1>2

\* Induction over a finite set, with the collection of its subsets for which it
\* is shown.
LEMMA SubsetInduction ==
  ASSUME NEW S, IsFiniteSet(S), NEW C, {} \in C,
         \A T \in SUBSET S : \A x \in S \ T : T \in C => T \cup {x} \in C
  PROVE  S \in C
<1> DEFINE A == {n \in Nat : \A T \in SUBSET S : Cardinality(T) = n => T \in C}
<1>1. \A T \in SUBSET S : IsFiniteSet(T) /\ Cardinality(T) \in Nat
  BY FS_Subset, FS_CardinalityType
<1>2. 0 \in A
  BY <1>1, FS_EmptySet
<1>3. ASSUME NEW n \in Nat, n \in A PROVE n + 1 \in A
  <2> SUFFICES ASSUME NEW T \in SUBSET S, Cardinality(T) = n + 1 PROVE T \in C
    OBVIOUS
  <2>1. T # {}
    <3>1. Cardinality({}) = 0
      BY FS_EmptySet
    <3>2. Cardinality(T) # 0
      OBVIOUS
    <3> QED BY <3>1, <3>2
  <2>2. PICK x \in T : TRUE
    BY <2>1
  <2>3. Cardinality(T \ {x}) = n
    <3>1. IsFiniteSet(T) /\ Cardinality(T) \in Nat
      BY <1>1
    <3>2. Cardinality(T \ {x}) = Cardinality(T) - 1
      BY <3>1, <2>2, FS_RemoveElement
    <3> QED BY <3>2
  <2>4. T \ {x} \in C
    BY <1>3, <2>3
  <2>5. (T \ {x}) \cup {x} = T
    BY <2>2
  <2> QED BY <2>2, <2>4, <2>5
<1>4. Nat \subseteq A
  <2> HIDE DEF A
  <2> QED BY <1>2, <1>3, NatSetInduction
<1> QED BY <1>1, <1>4

-----------------------------------------------------------------------------
(* The recursion of the sums                                               *)

\* The element a sum takes next.
Taken(T) == CHOOSE x \in T : TRUE

\* What a table of sums has for a set, if it is right for the smaller ones.
Entry(g, fun, T) == IF T = {} THEN 0 ELSE fun[Taken(T)] + g[T \ {Taken(T)}]

\* A table of the sums over all subsets of a set.
IsTable(g, fun, S) == g = [T \in SUBSET S |-> Entry(g, fun, T)]

Table(fun, S) == CHOOSE g : IsTable(g, fun, S)

\* The fold of the community modules looks its result up in such a table.
LEMMA SumIsTabled ==
  ASSUME NEW fun, NEW S
  PROVE  SumFunctionOnSet(fun, S) = Table(fun, S)[S]
BY DEF SumFunctionOnSet, FoldFunctionOnSet, MapThenFoldSet, Table, IsTable, Entry, Taken

\* One element less.
LEMMA TakenLess ==
  ASSUME NEW T, IsFiniteSet(T), T # {}
  PROVE  /\ Taken(T) \in T
         /\ IsFiniteSet(T \ {Taken(T)})
         /\ Cardinality(T) \in Nat /\ Cardinality(T) # 0
         /\ Cardinality(T \ {Taken(T)}) = Cardinality(T) - 1
<1>1. Taken(T) \in T
  BY DEF Taken
<1>2. Cardinality(T) \in Nat /\ Cardinality(T) # 0
  BY FS_CardinalityType, FS_EmptySet
<1> QED BY <1>1, <1>2, FS_RemoveElement

\* Every finite set has a table: a table that is right for sets of up to n
\* elements makes one for sets of n + 1.
LEMMA TableExists ==
  ASSUME NEW fun, NEW S, IsFiniteSet(S)
  PROVE  IsTable(Table(fun, S), fun, S)
<1> DEFINE Right(g, n) == \A T \in SUBSET S : Cardinality(T) <= n => g[T] = Entry(g, fun, T)
           A == {n \in Nat : \E g : Right(g, n)}
<1>1. \A T \in SUBSET S : IsFiniteSet(T) /\ Cardinality(T) \in Nat
  BY FS_Subset, FS_CardinalityType
<1>2. 0 \in A
  <2>1. \A T \in SUBSET S : Cardinality(T) <= 0 => T = {}
    BY <1>1, FS_EmptySet
  <2>2. Right([T \in SUBSET S |-> 0], 0)
    BY <2>1 DEF Entry
  <2> QED BY <2>2
<1>3. ASSUME NEW n \in Nat, n \in A PROVE n + 1 \in A
  <2>1. PICK g : Right(g, n)
    BY <1>3
  <2> DEFINE h == [T \in SUBSET S |-> Entry(g, fun, T)]
  <2>2. \A T \in SUBSET S : Cardinality(T) <= n => h[T] = g[T]
    BY <2>1
  <2>3. ASSUME NEW T \in SUBSET S, Cardinality(T) <= n + 1 PROVE h[T] = Entry(h, fun, T)
    <3>1. CASE T = {}
      BY <3>1 DEF Entry
    <3>2. CASE T # {}
      <4>1. T \ {Taken(T)} \in SUBSET S /\ Cardinality(T \ {Taken(T)}) <= n
        BY <1>1, <2>3, <3>2, TakenLess
      <4>2. h[T \ {Taken(T)}] = g[T \ {Taken(T)}]
        BY <2>2, <4>1
      <4> HIDE DEF h
      <4>3. h[T] = Entry(g, fun, T)
        BY DEF h
      <4> QED BY <3>2, <4>2, <4>3 DEF Entry
    <3> QED BY <3>1, <3>2
  <2>4. Right(h, n + 1)
    BY <2>3
  <2> HIDE DEF h
  <2> QED BY <2>4
<1>4. Nat \subseteq A
  <2> HIDE DEF A
  <2> QED BY <1>2, <1>3, NatSetInduction
<1>5. PICK g : Right(g, Cardinality(S))
  BY <1>1, <1>4
<1>6. \A T \in SUBSET S : Cardinality(T) <= Cardinality(S)
  BY FS_Subset
<1> DEFINE h == [T \in SUBSET S |-> Entry(g, fun, T)]
<1>7. \A T \in SUBSET S : h[T] = g[T]
  BY <1>5, <1>6
<1>8. \A T \in SUBSET S : Entry(h, fun, T) = Entry(g, fun, T)
  <2> HIDE DEF h
  <2> SUFFICES ASSUME NEW T \in SUBSET S PROVE Entry(h, fun, T) = Entry(g, fun, T)
    OBVIOUS
  <2>1. T \ {Taken(T)} \in SUBSET S
    OBVIOUS
  <2>2. h[T \ {Taken(T)}] = g[T \ {Taken(T)}]
    BY <1>7, <2>1
  <2> QED BY <2>2 DEF Entry
<1>9. IsTable(h, fun, S)
  <2>1. h = [T \in SUBSET S |-> Entry(g, fun, T)]
    OBVIOUS
  <2> HIDE DEF h
  <2>2. [T \in SUBSET S |-> Entry(g, fun, T)] = [T \in SUBSET S |-> Entry(h, fun, T)]
    BY <1>8
  <2> QED BY <2>1, <2>2 DEF IsTable
<1> HIDE DEF h
<1> QED BY <1>9 DEF Table

\* What the tables of a set and of a subset have for one set is the same.
LEMMA TablesAgree ==
  ASSUME NEW fun, NEW S, IsFiniteSet(S), NEW T \in SUBSET S
  PROVE  Table(fun, S)[T] = SumFunctionOnSet(fun, T)
<1> DEFINE g == Table(fun, S)
           h == Table(fun, T)
<1>1. IsFiniteSet(T)
  BY FS_Subset
<1>2. IsTable(g, fun, S) /\ IsTable(h, fun, T)
  BY <1>1, TableExists
<1> DEFINE A == {n \in Nat : \A U \in SUBSET T : Cardinality(U) = n => g[U] = h[U]}
<1> HIDE DEF g, h
<1>3. \A U \in SUBSET T : U \in SUBSET S /\ IsFiniteSet(U) /\ Cardinality(U) \in Nat
  BY <1>1, FS_Subset, FS_CardinalityType
<1>4. \A U \in SUBSET T : g[U] = Entry(g, fun, U) /\ h[U] = Entry(h, fun, U)
  BY <1>2, <1>3 DEF IsTable
<1>5. 0 \in A
  BY <1>3, <1>4, FS_EmptySet DEF Entry
<1>6. ASSUME NEW n \in Nat, n \in A PROVE n + 1 \in A
  <2> SUFFICES ASSUME NEW U \in SUBSET T, Cardinality(U) = n + 1 PROVE g[U] = h[U]
    OBVIOUS
  <2>1. U # {}
    <3>1. Cardinality({}) = 0 /\ Cardinality(U) # 0
      BY FS_EmptySet
    <3> QED BY <3>1
  <2>2. U \ {Taken(U)} \in SUBSET T /\ Cardinality(U \ {Taken(U)}) = n
    BY <1>3, <2>1, TakenLess
  <2>3. g[U \ {Taken(U)}] = h[U \ {Taken(U)}]
    BY <1>6, <2>2
  <2> QED BY <1>4, <2>1, <2>3 DEF Entry
<1>7. Nat \subseteq A
  <2> HIDE DEF A
  <2> QED BY <1>5, <1>6, NatSetInduction
<1>8. g[T] = h[T]
  BY <1>3, <1>7
<1> QED BY <1>8, SumIsTabled DEF g, h

-----------------------------------------------------------------------------
(* Sums                                                                    *)

\* Nothing adds up to zero.
LEMMA SumEmpty == ASSUME NEW fun PROVE SumFunctionOnSet(fun, {}) = 0
<1>1. IsTable(Table(fun, {}), fun, {})
  BY TableExists, FS_EmptySet
<1> QED BY <1>1, SumIsTabled DEF IsTable, Entry

\* The recursion, in terms of the sums alone.
LEMMA SumTakes ==
  ASSUME NEW fun, NEW S, IsFiniteSet(S), S # {}
  PROVE  SumFunctionOnSet(fun, S)
           = fun[Taken(S)] + SumFunctionOnSet(fun, S \ {Taken(S)})
<1>1. IsTable(Table(fun, S), fun, S)
  BY TableExists
<1>2. Table(fun, S)[S \ {Taken(S)}] = SumFunctionOnSet(fun, S \ {Taken(S)})
  BY TablesAgree
<1> QED BY <1>1, <1>2, SumIsTabled DEF IsTable, Entry

\* Integers add up to an integer.
LEMMA SumType ==
  ASSUME NEW fun, NEW S, IsFiniteSet(S), \A x \in S : fun[x] \in Int
  PROVE  SumFunctionOnSet(fun, S) \in Int
<1> DEFINE A == {n \in Nat : \A T \in SUBSET S :
                   Cardinality(T) = n => SumFunctionOnSet(fun, T) \in Int}
<1>1. \A T \in SUBSET S : IsFiniteSet(T) /\ Cardinality(T) \in Nat
  BY FS_Subset, FS_CardinalityType
<1>2. 0 \in A
  BY <1>1, FS_EmptySet, SumEmpty
<1>3. ASSUME NEW n \in Nat, n \in A PROVE n + 1 \in A
  <2> SUFFICES ASSUME NEW T \in SUBSET S, Cardinality(T) = n + 1
               PROVE  SumFunctionOnSet(fun, T) \in Int
    OBVIOUS
  <2>1. T # {}
    <3>1. Cardinality({}) = 0 /\ Cardinality(T) # 0
      BY FS_EmptySet
    <3> QED BY <3>1
  <2>2. Taken(T) \in T /\ T \ {Taken(T)} \in SUBSET S /\ Cardinality(T \ {Taken(T)}) = n
    BY <1>1, <2>1, TakenLess
  <2>3. SumFunctionOnSet(fun, T \ {Taken(T)}) \in Int /\ fun[Taken(T)] \in Int
    BY <1>3, <2>2
  <2>4. SumFunctionOnSet(fun, T) = fun[Taken(T)] + SumFunctionOnSet(fun, T \ {Taken(T)})
    BY <1>1, <2>1, SumTakes
  <2> QED BY <2>3, <2>4
<1>4. Nat \subseteq A
  <2> HIDE DEF A
  <2> QED BY <1>2, <1>3, NatSetInduction
<1> QED BY <1>1, <1>4

\* Any element can be taken first: the order does not matter.
LEMMA SumApart ==
  ASSUME NEW fun, NEW S, IsFiniteSet(S), \A x \in S : fun[x] \in Int, NEW e \in S
  PROVE  SumFunctionOnSet(fun, S) = fun[e] + SumFunctionOnSet(fun, S \ {e})
<1> DEFINE Sum(T) == SumFunctionOnSet(fun, T)
           A == {n \in Nat : \A T \in SUBSET S : Cardinality(T) = n =>
                   \A x \in T : Sum(T) = fun[x] + Sum(T \ {x})}
<1>1. \A T \in SUBSET S : IsFiniteSet(T) /\ Cardinality(T) \in Nat /\ Sum(T) \in Int
  BY FS_Subset, FS_CardinalityType, SumType
<1>2. 0 \in A
  BY <1>1, FS_EmptySet
<1>3. ASSUME NEW n \in Nat, n \in A PROVE n + 1 \in A
  <2> SUFFICES ASSUME NEW T \in SUBSET S, Cardinality(T) = n + 1, NEW x \in T
               PROVE  Sum(T) = fun[x] + Sum(T \ {x})
    OBVIOUS
  <2> DEFINE y == Taken(T)
  <2>1. y \in T /\ T \ {y} \in SUBSET S /\ Cardinality(T \ {y}) = n
    BY <1>1, TakenLess
  <2>2. Sum(T) = fun[y] + Sum(T \ {y})
    BY <1>1, SumTakes
  <2> HIDE DEF y, Sum
  <2>3. CASE x = y
    BY <2>2, <2>3
  <2>4. CASE x # y
    <3>1. Cardinality(T \ {x}) = n /\ T \ {x} \in SUBSET S
      <4>1. IsFiniteSet(T)
        BY <1>1
      <4>2. Cardinality(T \ {x}) = Cardinality(T) - 1
        BY <4>1, FS_RemoveElement
      <4> QED BY <4>2
    <3>2. x \in T \ {y} /\ y \in T \ {x}
      BY <2>1, <2>4
    <3>3. Sum(T \ {y}) = fun[x] + Sum((T \ {y}) \ {x})
      BY <1>3, <2>1, <3>2
    <3>4. Sum(T \ {x}) = fun[y] + Sum((T \ {x}) \ {y})
      BY <1>3, <3>1, <3>2
    <3>5. (T \ {y}) \ {x} = (T \ {x}) \ {y}
      OBVIOUS
    <3>6. fun[x] \in Int /\ fun[y] \in Int /\ Sum((T \ {x}) \ {y}) \in Int
      BY <1>1, <2>1
    <3>7. Sum(T) = fun[y] + (fun[x] + Sum((T \ {x}) \ {y}))
      BY <2>2, <3>3, <3>5, Zenon
    <3>8. fun[y] + (fun[x] + Sum((T \ {x}) \ {y})) = fun[x] + (fun[y] + Sum((T \ {x}) \ {y}))
      BY <3>6
    <3> QED BY <3>4, <3>7, <3>8, Zenon
  <2> QED BY <2>3, <2>4
<1>4. Nat \subseteq A
  <2> HIDE DEF A
  <2> QED BY <1>2, <1>3, NatSetInduction
<1> QED BY <1>1, <1>4

\* One element more.
LEMMA SumAdd ==
  ASSUME NEW fun, NEW S, IsFiniteSet(S), NEW e, e \notin S,
         \A x \in S \cup {e} : fun[x] \in Int
  PROVE  SumFunctionOnSet(fun, S \cup {e}) = fun[e] + SumFunctionOnSet(fun, S)
<1>1. IsFiniteSet(S \cup {e}) /\ (S \cup {e}) \ {e} = S
  BY FS_AddElement
<1>2. e \in S \cup {e}
  OBVIOUS
<1>3. SumFunctionOnSet(fun, S \cup {e}) = fun[e] + SumFunctionOnSet(fun, (S \cup {e}) \ {e})
  BY <1>1, <1>2, SumApart
<1> QED BY <1>1, <1>3

\* What is in one of two disjoint sets.
LEMMA SumSplit ==
  ASSUME NEW fun, NEW S, IsFiniteSet(S), NEW T, IsFiniteSet(T), S \cap T = {},
         \A x \in S \cup T : fun[x] \in Int
  PROVE  SumFunctionOnSet(fun, S \cup T)
           = SumFunctionOnSet(fun, S) + SumFunctionOnSet(fun, T)
<1> DEFINE C == {U \in SUBSET T : SumFunctionOnSet(fun, S \cup U)
                                    = SumFunctionOnSet(fun, S) + SumFunctionOnSet(fun, U)}
<1>1. \A U \in SUBSET T : IsFiniteSet(U) /\ IsFiniteSet(S \cup U)
  BY FS_Subset, FS_Union
<1>2. \A U \in SUBSET (S \cup T) : IsFiniteSet(U) => SumFunctionOnSet(fun, U) \in Int
  BY SumType
<1>3. {} \in C
  <2>1. SumFunctionOnSet(fun, S) \in Int /\ S \cup {} = S
    BY <1>2
  <2> QED BY <2>1, SumEmpty
<1>4. ASSUME NEW U \in SUBSET T, NEW e \in T \ U, U \in C PROVE U \cup {e} \in C
  <2>1. (S \cup U) \cup {e} = S \cup (U \cup {e}) /\ e \notin S \cup U
    OBVIOUS
  <2>2. SumFunctionOnSet(fun, (S \cup U) \cup {e}) = fun[e] + SumFunctionOnSet(fun, S \cup U)
    BY <1>1, <2>1, SumAdd
  <2>3. SumFunctionOnSet(fun, U \cup {e}) = fun[e] + SumFunctionOnSet(fun, U)
    BY <1>1, SumAdd
  <2>4. /\ fun[e] \in Int /\ SumFunctionOnSet(fun, S) \in Int
        /\ SumFunctionOnSet(fun, U) \in Int
    BY <1>1, <1>2
  <2>5. SumFunctionOnSet(fun, S \cup U) = SumFunctionOnSet(fun, S) + SumFunctionOnSet(fun, U)
    BY <1>4
  <2>6. SumFunctionOnSet(fun, S \cup (U \cup {e}))
          = SumFunctionOnSet(fun, S) + SumFunctionOnSet(fun, U \cup {e})
    <3>1. SumFunctionOnSet(fun, S \cup (U \cup {e}))
            = fun[e] + (SumFunctionOnSet(fun, S) + SumFunctionOnSet(fun, U))
      BY <2>1, <2>2, <2>5, Zenon
    <3>2. fun[e] + (SumFunctionOnSet(fun, S) + SumFunctionOnSet(fun, U))
            = SumFunctionOnSet(fun, S) + (fun[e] + SumFunctionOnSet(fun, U))
      BY <2>4
    <3> QED BY <2>3, <3>1, <3>2, Zenon
  <2> QED BY <2>6
<1>5. T \in C
  <2> HIDE DEF C
  <2> QED BY <1>3, <1>4, SubsetInduction
<1> QED BY <1>5

\* The same summands, under other names.
LEMMA SumRenamed ==
  ASSUME NEW f, NEW S, IsFiniteSet(S), \A x \in S : f[x] \in Int,
         NEW g, NEW T, IsFiniteSet(T),
         NEW h \in [S -> T], \A x, y \in S : h[x] = h[y] => x = y,
         \A t \in T : \E x \in S : h[x] = t,
         \A x \in S : g[h[x]] = f[x]
  PROVE  SumFunctionOnSet(g, T) = SumFunctionOnSet(f, S)
<1> DEFINE Image(U) == {h[x] : x \in U}
           C == {U \in SUBSET S : SumFunctionOnSet(g, Image(U)) = SumFunctionOnSet(f, U)}
<1>1. \A U \in SUBSET S : IsFiniteSet(U) /\ IsFiniteSet(Image(U)) /\ Image(U) \subseteq T
  <2>1. \A U \in SUBSET S : Image(U) \subseteq T
    OBVIOUS
  <2> QED BY <2>1, FS_Subset
<1>2. \A t \in T : g[t] \in Int
  OBVIOUS
<1>3. {} \in C
  <2>1. Image({}) = {}
    OBVIOUS
  <2> QED BY <2>1, SumEmpty
<1>4. ASSUME NEW U \in SUBSET S, NEW e \in S \ U, U \in C PROVE U \cup {e} \in C
  <2>1. Image(U \cup {e}) = Image(U) \cup {h[e]} /\ h[e] \notin Image(U)
    OBVIOUS
  <2>2. SumFunctionOnSet(f, U \cup {e}) = f[e] + SumFunctionOnSet(f, U)
    BY <1>1, SumAdd
  <2>3. SumFunctionOnSet(g, Image(U) \cup {h[e]}) = g[h[e]] + SumFunctionOnSet(g, Image(U))
    <3>1. \A t \in Image(U) \cup {h[e]} : g[t] \in Int
      BY <1>1, <1>2
    <3> HIDE DEF Image
    <3> QED BY <1>1, <2>1, <3>1, SumAdd
  <2>4. SumFunctionOnSet(g, Image(U)) = SumFunctionOnSet(f, U)
    BY <1>4
  <2> HIDE DEF Image
  <2> QED BY <2>1, <2>2, <2>3, <2>4
<1>5. S \in C
  <2> HIDE DEF C
  <2> QED BY <1>3, <1>4, SubsetInduction
<1>6. Image(S) = T
  OBVIOUS
<1> QED BY <1>5, <1>6

\* The same summands.
LEMMA SumSame ==
  ASSUME NEW f, NEW g, NEW S, IsFiniteSet(S), \A x \in S : f[x] \in Int /\ g[x] = f[x]
  PROVE  SumFunctionOnSet(g, S) = SumFunctionOnSet(f, S)
<1> DEFINE h == [x \in S |-> x]
<1>1. /\ h \in [S -> S] /\ (\A x, y \in S : h[x] = h[y] => x = y)
      /\ (\A t \in S : \E x \in S : h[x] = t)
      /\ \A x \in S : g[h[x]] = f[x]
  OBVIOUS
<1> HIDE DEF h
<1> QED BY <1>1, SumRenamed

\* A part of the summands and the others.
LEMMA SumParts ==
  ASSUME NEW fun, NEW S, IsFiniteSet(S), \A x \in S : fun[x] \in Int, NEW T \in SUBSET S
  PROVE  SumFunctionOnSet(fun, S)
           = SumFunctionOnSet(fun, T) + SumFunctionOnSet(fun, S \ T)
<1>1. IsFiniteSet(T) /\ IsFiniteSet(S \ T)
  BY FS_Subset
<1>2. T \cup (S \ T) = S /\ T \cap (S \ T) = {}
  OBVIOUS
<1>3. \A x \in T \cup (S \ T) : fun[x] \in Int
  OBVIOUS
<1> QED BY <1>1, <1>2, <1>3, SumSplit

\* How many elements of a set come before a number.
Rank(S, t) == Cardinality({u \in S : u < t})

\* An element has fewer elements before it than there are, and more than the
\* elements before it.
LEMMA RankGrows ==
  ASSUME NEW S, IsFiniteSet(S), S \subseteq Int
  PROVE  /\ \A t \in S : Rank(S, t) \in Nat /\ Rank(S, t) < Cardinality(S)
         /\ \A t, u \in S : t < u => Rank(S, t) < Rank(S, u)
<1> DEFINE Before(t) == {u \in S : u < t}
<1>1. \A t \in S : /\ IsFiniteSet(Before(t)) /\ Cardinality(Before(t)) \in Nat
                   /\ IsFiniteSet(Before(t) \cup {t})
                   /\ Cardinality(Before(t) \cup {t}) = Cardinality(Before(t)) + 1
  <2> SUFFICES ASSUME NEW t \in S
               PROVE  /\ IsFiniteSet(Before(t)) /\ Cardinality(Before(t)) \in Nat
                      /\ IsFiniteSet(Before(t) \cup {t})
                      /\ Cardinality(Before(t) \cup {t}) = Cardinality(Before(t)) + 1
    OBVIOUS
  <2>1. Before(t) \subseteq S /\ t \notin Before(t)
    OBVIOUS
  <2> HIDE DEF Before
  <2>2. IsFiniteSet(Before(t)) /\ Cardinality(Before(t)) \in Nat
    BY <2>1, FS_Subset, FS_CardinalityType
  <2> QED BY <2>1, <2>2, FS_AddElement
<1>2. ASSUME NEW t \in S PROVE Cardinality(Before(t)) < Cardinality(S)
  <2>1. Before(t) \cup {t} \subseteq S
    OBVIOUS
  <2> HIDE DEF Before
  <2>2. Cardinality(Before(t) \cup {t}) <= Cardinality(S) /\ Cardinality(S) \in Nat
    BY <2>1, FS_Subset, FS_CardinalityType
  <2> QED BY <1>1, <2>2
<1>3. ASSUME NEW t \in S, NEW u \in S, t < u
      PROVE  Cardinality(Before(t)) < Cardinality(Before(u))
  <2>1. Before(t) \cup {t} \subseteq Before(u)
    <3>1. \A x \in S : x < t => x < u
      <4> TAKE x \in S
      <4> x \in Int /\ t \in Int /\ u \in Int
        OBVIOUS
      <4> QED BY <1>3
    <3> QED BY <1>3, <3>1
  <2> HIDE DEF Before
  <2>2. Cardinality(Before(t) \cup {t}) <= Cardinality(Before(u))
    BY <1>1, <2>1, FS_Subset
  <2>3. /\ Cardinality(Before(t)) \in Nat /\ Cardinality(Before(u)) \in Nat
        /\ Cardinality(Before(t) \cup {t}) = Cardinality(Before(t)) + 1
    BY <1>1
  <2> QED BY <2>2, <2>3
<1> QED BY <1>1, <1>2, <1>3 DEF Rank

\* Every number of elements is before one of them.
LEMMA EveryRank ==
  ASSUME NEW S, IsFiniteSet(S), S \subseteq Nat, NEW i \in 1 .. Cardinality(S)
  PROVE  \E t \in S : Rank(S, t) = i - 1
<1> DEFINE n == Cardinality(S)
           A == {k \in Nat : k < n => \E t \in S : Rank(S, t) = k}
<1>1. n \in Nat
  BY FS_CardinalityType
<1>2. 0 \in A
  <2>1. CASE S = {}
    BY <2>1, FS_EmptySet
  <2>2. CASE S # {}
    <3>1. PICK t \in S : \A u \in S : t <= u
      BY <2>2, LeastOfNat
    <3>2. {u \in S : u < t} = {}
      <4>1. \A u \in S : ~(u < t)
        <5> TAKE u \in S
        <5> u \in Nat /\ t \in Nat
          OBVIOUS
        <5> QED BY <3>1
      <4> QED BY <4>1
    <3> QED BY <3>1, <3>2, FS_EmptySet DEF Rank
  <2> QED BY <2>1, <2>2
<1>3. ASSUME NEW k \in Nat, k \in A PROVE k + 1 \in A
  <2> SUFFICES ASSUME k + 1 < n PROVE \E t \in S : Rank(S, t) = k + 1
    OBVIOUS
  <2>1. PICK t \in S : Rank(S, t) = k
    BY <1>1, <1>3
  <2> DEFINE before == {u \in S : u < t}
             after  == {u \in S : t < u}
  <2>2. IsFiniteSet(before) /\ Cardinality(before) = k
    BY <2>1, FS_Subset DEF Rank
  <2>3. Cardinality(before \cup {t}) = k + 1
    <3>1. t \notin before
      OBVIOUS
    <3> HIDE DEF before
    <3> QED BY <2>2, <3>1, FS_AddElement
  <2>4. after # {}
    <3> SUFFICES ASSUME after = {} PROVE FALSE
      OBVIOUS
    <3>1. \A u \in S : u < t \/ u = t
      <4> TAKE u \in S
      <4>1. u \in Nat /\ t \in Nat /\ ~(t < u)
        OBVIOUS
      <4> QED BY <4>1
    <3>3. S = before \cup {t}
      BY <3>1
    <3>2. n = k + 1
      BY <2>3, <3>3
    <3> QED BY <1>1, <3>2
  <2>5. PICK w \in after : \A u \in after : w <= u
    <3>1. after \subseteq Nat
      OBVIOUS
    <3> HIDE DEF after
    <3> QED BY <2>4, <3>1, LeastOfNat
  <2>6. {u \in S : u < w} = before \cup {t}
    <3>1. \A u \in S : u < w <=> (u < t \/ u = t)
      <4> TAKE u \in S
      <4>1. u \in Nat /\ t \in Nat /\ w \in Nat /\ t < w
        BY <2>5
      <4>2. t < u => w <= u
        BY <2>5
      <4> QED BY <4>1, <4>2
    <3> QED BY <3>1
  <2>7. w \in S /\ Rank(S, w) = k + 1
    BY <2>3, <2>5, <2>6 DEF Rank
  <2> QED BY <2>7
<1>4. Nat \subseteq A
  <2> HIDE DEF A
  <2> QED BY <1>2, <1>3, NatSetInduction
<1>5. i - 1 \in Nat /\ i - 1 < n
  BY <1>1
<1> QED BY <1>4, <1>5
=============================================================================
