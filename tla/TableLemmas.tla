----------------------------- MODULE TableLemmas -----------------------------
(***************************************************************************)
(* What the table operators preserve and return, and how sums over the     *)
(* rows of a table change.                                                 *)
(***************************************************************************)
EXTENDS Tables, FiniteSetsExt, FiniteSetTheorems, TLAPS

(* No row is a row of every type.                                          *)
LEMMA EmptyIsTable == ASSUME NEW K, NEW R PROVE IsTable(EmptyTable, K, R)
  BY DEF IsTable, EmptyTable

(* Writing a row of the right type keeps the table's type.                 *)
LEMMA PutIsTable ==
    ASSUME NEW K, NEW R, NEW t, IsTable(t, K, R), NEW k \in K, NEW row \in R
    PROVE  IsTable(Put(t, k, row), K, R)
  BY DEF IsTable, Put

(* Writing several rows of the right type keeps the table's type.          *)
LEMMA PutAllIsTable ==
    ASSUME NEW K, NEW R, NEW t, IsTable(t, K, R), NEW new, IsTable(new, K, R)
    PROVE  IsTable(PutAll(t, new), K, R)
  BY DEF IsTable, PutAll

(* Erasing rows keeps the table's type.                                    *)
LEMMA EraseIsTable ==
    ASSUME NEW K, NEW R, NEW t, IsTable(t, K, R), NEW S
    PROVE  IsTable(Erase(t, S), K, R)
  BY DEF IsTable, Erase

(* Modifying a row that is there keeps the table's type.                   *)
LEMMA ModifyIsTable ==
    ASSUME NEW K, NEW R, NEW t, IsTable(t, K, R), NEW k \in DOMAIN t, NEW row \in R
    PROVE  IsTable([t EXCEPT ![k] = row], K, R)
  BY DEF IsTable

(* A row that is there has a key and a row of the right types.             *)
LEMMA RowOfTable ==
    ASSUME NEW K, NEW R, NEW t, IsTable(t, K, R), NEW k \in DOMAIN t
    PROVE  k \in K /\ t[k] \in R
  BY DEF IsTable

(* What can be read after a row was written.                               *)
LEMMA PutLookup ==
    ASSUME NEW t, NEW k, NEW row
    PROVE  /\ DOMAIN Put(t, k, row) = DOMAIN t \cup {k}
           /\ Put(t, k, row)[k] = row
           /\ \A x \in DOMAIN t \ {k} : Put(t, k, row)[x] = t[x]
  BY DEF Put

(* Modifying a row that is there writes it.                                *)
LEMMA ModifyIsPut ==
    ASSUME NEW K, NEW R, NEW t, IsTable(t, K, R), NEW k \in DOMAIN t, NEW row
    PROVE  [t EXCEPT ![k] = row] = Put(t, k, row)
  BY DEF IsTable, Put

(* What can be read after several rows were written.                       *)
LEMMA PutAllLookup ==
    ASSUME NEW t, NEW new
    PROVE  /\ DOMAIN PutAll(t, new) = DOMAIN t \cup DOMAIN new
           /\ \A x \in DOMAIN new : PutAll(t, new)[x] = new[x]
           /\ \A x \in DOMAIN t \ DOMAIN new : PutAll(t, new)[x] = t[x]
  BY DEF PutAll

(* What can be read after rows were erased.                                *)
LEMMA EraseLookup ==
    ASSUME NEW t, NEW S
    PROVE  /\ DOMAIN Erase(t, S) = DOMAIN t \ S
           /\ \A x \in DOMAIN t \ S : Erase(t, S)[x] = t[x]
  BY DEF Erase

-----------------------------------------------------------------------------
(* Induction on a finite set: what passes from the proper subsets of every *)
(* set to the set itself holds of all of them.                             *)
LEMMA SubsetInduction ==
    ASSUME NEW S, IsFiniteSet(S), NEW Good,
           \A T \in SUBSET S : (\A U \in SUBSET T : U # T => U \in Good) => T \in Good
    PROVE  \A T \in SUBSET S : T \in Good
<1> DEFINE Bad == (SUBSET S) \ Good
<1>1. SUFFICES ASSUME Bad # {} PROVE FALSE
  OBVIOUS
<1>2. IsWellFoundedOn(StrictSubsetOrdering(S), SUBSET S)
  BY FS_FiniteSubsetsOfFinite, FS_StrictSubsetOrderingWellFounded
<1>3. PICK T \in Bad : \A U \in Bad : ~ (<<U, T>> \in StrictSubsetOrdering(S))
  <2>1. Bad \subseteq SUBSET S /\ Bad # {} BY <1>1
  <2> HIDE DEF Bad
  <2> QED BY <2>1, <1>2, WFMin
<1>4. \A U \in SUBSET T : U # T => U \in Good
  BY <1>3 DEF StrictSubsetOrdering
<1> QED
  BY <1>3, <1>4

(* The sum as a function of the subsets summed over.                       *)
FirstOf(s) == CHOOSE x \in s : TRUE
IsSumOn(g, f, S) == g = [s \in SUBSET S |-> IF s = {} THEN 0 ELSE f[FirstOf(s)] + g[s \ {FirstOf(s)}]]

LEMMA SumIsChosen ==
    ASSUME NEW f, NEW S
    PROVE  SumFunctionOnSet(f, S) = (CHOOSE g : IsSumOn(g, f, S))[S]
  BY DEF SumFunctionOnSet, FoldFunctionOnSet, MapThenFoldSet, IsSumOn, FirstOf

LEMMA FirstIsIn == ASSUME NEW s, s # {} PROVE FirstOf(s) \in s
  BY DEF FirstOf

LEMMA SumsAgree ==
    ASSUME NEW f, NEW A, NEW B, NEW g, NEW h, IsSumOn(g, f, A), IsSumOn(h, f, B), IsFiniteSet(A)
    PROVE  \A T \in SUBSET A : T \subseteq B => g[T] = h[T]
<1> DEFINE Good == {T \in SUBSET A : T \subseteq B => g[T] = h[T]}
<1>1. ASSUME NEW T \in SUBSET A, \A U \in SUBSET T : U # T => U \in Good
      PROVE  T \in Good
  <2>1. CASE T = {} BY <2>1 DEF IsSumOn
  <2>2. CASE T # {} /\ T \subseteq B
    <3>1. FirstOf(T) \in T BY <2>2, FirstIsIn
    <3>2. T \ {FirstOf(T)} \in Good BY <3>1, <1>1
    <3>3. g[T] = f[FirstOf(T)] + g[T \ {FirstOf(T)}] BY <2>2 DEF IsSumOn
    <3>4. h[T] = f[FirstOf(T)] + h[T \ {FirstOf(T)}] BY <2>2 DEF IsSumOn
    <3> QED BY <3>2, <3>3, <3>4, <2>2
  <2> QED BY <2>1, <2>2
<1>2. \A T \in SUBSET A : T \in Good
  <2> HIDE DEF Good
  <2> QED BY <1>1, SubsetInduction
<1> QED BY <1>2

LEMMA SumsExist ==
    ASSUME NEW f, NEW S, IsFiniteSet(S)
    PROVE  \E g : IsSumOn(g, f, S)
<1> DEFINE Good == {T \in SUBSET S : \E g : IsSumOn(g, f, T)}
<1>1. ASSUME NEW T \in SUBSET S, \A U \in SUBSET T : U # T => U \in Good
      PROVE  T \in Good
  <2> DEFINE Of(U) == CHOOSE g : IsSumOn(g, f, U)
             low == [U \in (SUBSET T) \ {T} |-> Of(U)[U]]
             g == [U \in SUBSET T |-> IF U = {} THEN 0 ELSE f[FirstOf(U)] + low[U \ {FirstOf(U)}]]
  <2>1. \A U \in (SUBSET T) \ {T} : IsSumOn(Of(U), f, U)
    BY <1>1
  <2>2. ASSUME NEW U \in (SUBSET T) \ {T} PROVE low[U] = g[U]
    <3>0. Of(U)[U] = IF U = {} THEN 0 ELSE f[FirstOf(U)] + Of(U)[U \ {FirstOf(U)}]
      <4>1. IsSumOn(Of(U), f, U) /\ U \in SUBSET U BY <2>1, <2>2
      <4> HIDE DEF Of
      <4> QED BY <4>1 DEF IsSumOn
    <3>1. CASE U = {} BY <3>0, <3>1, <2>2
    <3>2. CASE U # {}
      <4> DEFINE V == U \ {FirstOf(U)}
      <4>1. FirstOf(U) \in U BY <3>2, FirstIsIn
      <4>2. V \in (SUBSET T) \ {T} /\ V \in SUBSET U BY <4>1
      <4>3. Of(U)[U] = f[FirstOf(U)] + Of(U)[V] BY <3>0, <3>2
      <4>4. IsFiniteSet(V) /\ V \in SUBSET V BY FS_Subset
      <4>5. IsSumOn(Of(V), f, V) /\ IsSumOn(Of(U), f, U) BY <2>1, <4>2
      <4>6. Of(V)[V] = Of(U)[V]
        <5> HIDE DEF V, Of
        <5> QED BY <4>2, <4>4, <4>5, SumsAgree
      <4> QED BY <4>2, <4>3, <4>6, <3>2
    <3> QED BY <3>1, <3>2
  <2>3. ASSUME NEW U \in SUBSET T, U # {} PROVE low[U \ {FirstOf(U)}] = g[U \ {FirstOf(U)}]
    <3>1. FirstOf(U) \in U BY <2>3, FirstIsIn
    <3>2. U \ {FirstOf(U)} \in (SUBSET T) \ {T} BY <3>1
    <3> HIDE DEF g, low
    <3> QED BY <2>2, <3>2
  <2>4. IsSumOn(g, f, T) 
    <3> HIDE DEF low
    <3>1. \A U \in SUBSET T : U # {} => low[U \ {FirstOf(U)}] = g[U \ {FirstOf(U)}] BY <2>3
    <3> QED BY <3>1 DEF IsSumOn
  <2> QED BY <2>4
<1>2. S \in Good
  <2> HIDE DEF Good
  <2> QED BY <1>1, SubsetInduction
<1> QED BY <1>2

(* The sum over no key is zero.                                            *)
LEMMA SumOfNone == ASSUME NEW f PROVE SumFunctionOnSet(f, {}) = 0
<1>1. IsSumOn(CHOOSE g : IsSumOn(g, f, {}), f, {})
  BY SumsExist, FS_EmptySet
<1> QED
  BY <1>1, SumIsChosen DEF IsSumOn

LEMMA SumUnfolds ==
    ASSUME NEW f, NEW S, IsFiniteSet(S), S # {}
    PROVE  SumFunctionOnSet(f, S) = f[FirstOf(S)] + SumFunctionOnSet(f, S \ {FirstOf(S)})
<1> DEFINE g == CHOOSE h : IsSumOn(h, f, S)
           T == S \ {FirstOf(S)}
           k == CHOOSE h : IsSumOn(h, f, T)
<1>1. IsFiniteSet(T) /\ T \in SUBSET T /\ T \in SUBSET S /\ FirstOf(S) \in S
  BY FS_Subset, FirstIsIn
<1>2. IsSumOn(g, f, S) /\ IsSumOn(k, f, T)
  BY <1>1, SumsExist
<1>3. SumFunctionOnSet(f, S) = g[S] /\ SumFunctionOnSet(f, T) = k[T]
  BY SumIsChosen
<1> HIDE DEF g, k, T
<1>4. g[T] = k[T]
  BY <1>1, <1>2, SumsAgree
<1>5. g[S] = f[FirstOf(S)] + g[T]
  BY <1>2 DEF IsSumOn, T
<1> QED
  BY <1>3, <1>4, <1>5 DEF T

(* A sum of integers is one, whichever key is taken first.                 *)
LEMMA SumsOfIntegers ==
    ASSUME NEW f, NEW S, IsFiniteSet(S), \A x \in S : f[x] \in Int
    PROVE  \A T \in SUBSET S :
             /\ SumFunctionOnSet(f, T) \in Int
             /\ \A x \in T : SumFunctionOnSet(f, T) = f[x] + SumFunctionOnSet(f, T \ {x})
<1> DEFINE sum(T) == SumFunctionOnSet(f, T)
           Good == {T \in SUBSET S : sum(T) \in Int /\ \A x \in T : sum(T) = f[x] + sum(T \ {x})}
<1>1. ASSUME NEW T \in SUBSET S, \A U \in SUBSET T : U # T => U \in Good
      PROVE  T \in Good
  <2>1. CASE T = {} BY <2>1, SumOfNone
  <2>2. CASE T # {}
    <3> DEFINE c == FirstOf(T)
    <3>1. c \in T /\ IsFiniteSet(T) BY <2>2, FirstIsIn, FS_Subset
    <3>2. sum(T) = f[c] + sum(T \ {c}) BY <2>2, <3>1, SumUnfolds
    <3>3. T \ {c} \in Good BY <3>1, <1>1
    <3>4. sum(T) \in Int BY <3>1, <3>2, <3>3
    <3>5. ASSUME NEW x \in T, x # c PROVE sum(T) = f[x] + sum(T \ {x})
      <4>1. T \ {x} \in Good BY <1>1
      <4>2. x \in T \ {c} /\ c \in T \ {x} BY <3>1, <3>5
      <4>3. sum(T \ {c}) = f[x] + sum((T \ {c}) \ {x}) BY <3>3, <4>2
      <4>4. sum(T \ {x}) = f[c] + sum((T \ {x}) \ {c}) BY <4>1, <4>2
      <4>5. (T \ {c}) \ {x} = (T \ {x}) \ {c} OBVIOUS
      <4>6. (T \ {c}) \ {x} \in Good
        <5>1. (T \ {c}) \ {x} \in SUBSET T /\ (T \ {c}) \ {x} # T BY <3>1
        <5> HIDE DEF Good, c
        <5> QED BY <5>1, <1>1
      <4>7. /\ sum((T \ {c}) \ {x}) \in Int /\ f[x] \in Int /\ f[c] \in Int
            /\ sum((T \ {x}) \ {c}) = sum((T \ {c}) \ {x})
        BY <4>5, <4>6, <3>1
      <4> HIDE DEF sum, c
      <4> QED BY <3>2, <4>3, <4>4, <4>7
    <3> QED BY <3>2, <3>4, <3>5
  <2> QED BY <2>1, <2>2
<1>2. \A T \in SUBSET S : T \in Good
  <2> HIDE DEF Good
  <2> QED BY <1>1, SubsetInduction
<1> QED BY <1>2

(* Equal terms have equal sums. *)
LEMMA SumsEqual ==
    ASSUME NEW f, NEW g, NEW S, IsFiniteSet(S), \A x \in S : f[x] = g[x]
    PROVE  SumFunctionOnSet(f, S) = SumFunctionOnSet(g, S)
<1> DEFINE Good == {T \in SUBSET S : SumFunctionOnSet(f, T) = SumFunctionOnSet(g, T)}
<1>1. ASSUME NEW T \in SUBSET S, \A U \in SUBSET T : U # T => U \in Good
      PROVE  T \in Good
  <2>1. CASE T = {} BY <2>1, SumOfNone
  <2>2. CASE T # {}
    <3>1. FirstOf(T) \in T /\ IsFiniteSet(T) BY <2>2, FirstIsIn, FS_Subset
    <3>2. T \ {FirstOf(T)} \in Good BY <3>1, <1>1
    <3>3. f[FirstOf(T)] = g[FirstOf(T)] BY <3>1
    <3>4. SumFunctionOnSet(f, T) = f[FirstOf(T)] + SumFunctionOnSet(f, T \ {FirstOf(T)}) BY <2>2, <3>1, SumUnfolds
    <3>5. SumFunctionOnSet(g, T) = g[FirstOf(T)] + SumFunctionOnSet(g, T \ {FirstOf(T)}) BY <2>2, <3>1, SumUnfolds
    <3> QED BY <3>2, <3>3, <3>4, <3>5
  <2> QED BY <2>1, <2>2
<1>2. S \in Good
  <2> HIDE DEF Good
  <2> QED BY <1>1, SubsetInduction
<1> QED BY <1>2

-----------------------------------------------------------------------------
(* Induction on a finite set, one element at a time.                       *)
LEMMA ElementInduction ==
    ASSUME NEW S, IsFiniteSet(S), NEW Good, {} \in Good,
           \A T \in SUBSET S, x \in S : T \in Good /\ x \notin T => T \cup {x} \in Good
    PROVE  S \in Good
<1>1. ASSUME NEW T \in SUBSET S, \A U \in SUBSET T : U # T => U \in Good
      PROVE  T \in Good
  <2>1. ASSUME NEW x \in T PROVE T \in Good
    <3>1. T \ {x} \in Good
      BY <1>1
    <3>2. (T \ {x}) \cup {x} = T
      OBVIOUS
    <3> QED
      BY <3>1, <3>2
  <2> QED
    BY <2>1
<1> QED
  BY <1>1, SubsetInduction

(* A sum of integers is an integer.                                        *)
LEMMA SumIsInt ==
    ASSUME NEW f, NEW S, IsFiniteSet(S), \A x \in S : f[x] \in Int
    PROVE  SumFunctionOnSet(f, S) \in Int
  BY SumsOfIntegers

(* A term leaves the sum with its key, and comes with it.                  *)
LEMMA SumWithout ==
    ASSUME NEW f, NEW S, IsFiniteSet(S), \A x \in S : f[x] \in Int, NEW x \in S
    PROVE  SumFunctionOnSet(f, S \ {x}) = SumFunctionOnSet(f, S) - f[x]
<1>1. /\ SumFunctionOnSet(f, S) = f[x] + SumFunctionOnSet(f, S \ {x})
      /\ SumFunctionOnSet(f, S \ {x}) \in Int /\ f[x] \in Int
  BY SumsOfIntegers
<1> QED
  BY <1>1

LEMMA SumWith ==
    ASSUME NEW f, NEW S, IsFiniteSet(S), NEW x, x \notin S,
           \A y \in S \cup {x} : f[y] \in Int
    PROVE  SumFunctionOnSet(f, S \cup {x}) = SumFunctionOnSet(f, S) + f[x]
<1>1. (S \cup {x}) \ {x} = S /\ IsFiniteSet(S \cup {x})
  BY FS_AddElement
<1>2. SumFunctionOnSet(f, S) = SumFunctionOnSet(f, S \cup {x}) - f[x]
  BY <1>1, SumWithout
<1> QED
  BY <1>1, <1>2, SumIsInt

(* One term changes.                                                       *)
LEMMA SumChanged ==
    ASSUME NEW f, NEW g, NEW S, IsFiniteSet(S), NEW x \in S,
           \A y \in S : f[y] \in Int /\ g[y] \in Int,
           \A y \in S \ {x} : g[y] = f[y]
    PROVE  SumFunctionOnSet(g, S) = SumFunctionOnSet(f, S) - f[x] + g[x]
<1> DEFINE T == S \ {x}
<1>1. IsFiniteSet(T)
  BY FS_RemoveElement
<1>2. SumFunctionOnSet(g, T) = SumFunctionOnSet(f, T)
  <2> HIDE DEF T
  <2> QED
    BY <1>1, SumsEqual DEF T
<1>3. /\ SumFunctionOnSet(g, T) = SumFunctionOnSet(g, S) - g[x]
      /\ SumFunctionOnSet(f, T) = SumFunctionOnSet(f, S) - f[x]
  BY SumWithout
<1>4. SumFunctionOnSet(g, S) \in Int /\ SumFunctionOnSet(f, S) \in Int
  BY SumIsInt
<1> QED
  BY <1>2, <1>3, <1>4

(* The sum over two sets that share no key.                                *)
LEMMA SumOfBoth ==
    ASSUME NEW f, NEW S, IsFiniteSet(S), NEW T, IsFiniteSet(T), S \cap T = {},
           \A x \in S \cup T : f[x] \in Int
    PROVE  SumFunctionOnSet(f, S \cup T) = SumFunctionOnSet(f, S) + SumFunctionOnSet(f, T)
<1> DEFINE sum(U) == SumFunctionOnSet(f, U)
           Good == {U \in SUBSET T : sum(S \cup U) = sum(S) + sum(U)}
<1>1. {} \in Good
  <2>1. sum(S) \in Int /\ S \cup {} = S
    BY SumIsInt
  <2> QED
    BY <2>1, SumOfNone
<1>2. ASSUME NEW U \in SUBSET T, NEW x \in T, U \in Good, x \notin U
      PROVE  U \cup {x} \in Good
  <2>1. IsFiniteSet(U) /\ IsFiniteSet(S \cup U)
    BY FS_Subset, FS_Union
  <2>2. sum(U \cup {x}) = sum(U) + f[x]
    BY <1>2, <2>1, SumWith
  <2>3. x \notin S \cup U /\ (S \cup U) \cup {x} = S \cup (U \cup {x})
    BY <1>2
  <2>4. sum((S \cup U) \cup {x}) = sum(S \cup U) + f[x]
    <3>1. \A y \in (S \cup U) \cup {x} : f[y] \in Int
      OBVIOUS
    <3> QED
      BY <2>1, <2>3, <3>1, SumWith
  <2>5. sum(S) \in Int /\ sum(U) \in Int /\ f[x] \in Int
    BY <2>1, SumIsInt
  <2>6. sum(S \cup U) = sum(S) + sum(U)
    BY <1>2
  <2>7. sum(S \cup (U \cup {x})) = sum(S) + sum(U \cup {x})
    <3>1. sum(S \cup (U \cup {x})) = sum((S \cup U) \cup {x})
      BY <2>3
    <3> HIDE DEF sum
    <3> QED
      BY <3>1, <2>2, <2>4, <2>5, <2>6
  <2> QED
    BY <2>7
<1>3. T \in Good
  <2> HIDE DEF Good
  <2> QED
    BY <1>1, <1>2, ElementInduction
<1> QED
  BY <1>3

(* Larger terms have a larger sum.                                         *)
LEMMA SumsOrdered ==
    ASSUME NEW f, NEW g, NEW S, IsFiniteSet(S),
           \A x \in S : f[x] \in Int /\ g[x] \in Int /\ f[x] <= g[x]
    PROVE  SumFunctionOnSet(f, S) <= SumFunctionOnSet(g, S)
<1> DEFINE Good == {T \in SUBSET S : SumFunctionOnSet(f, T) <= SumFunctionOnSet(g, T)}
<1>1. {} \in Good
  BY SumOfNone
<1>2. ASSUME NEW T \in SUBSET S, NEW x \in S, T \in Good, x \notin T
      PROVE  T \cup {x} \in Good
  <2>1. IsFiniteSet(T)
    BY FS_Subset
  <2>2. /\ SumFunctionOnSet(f, T \cup {x}) = SumFunctionOnSet(f, T) + f[x]
        /\ SumFunctionOnSet(g, T \cup {x}) = SumFunctionOnSet(g, T) + g[x]
        /\ SumFunctionOnSet(f, T) \in Int /\ SumFunctionOnSet(g, T) \in Int
    BY <1>2, <2>1, SumWith, SumIsInt
  <2> QED
    BY <1>2, <2>2
<1>3. S \in Good
  <2> HIDE DEF Good
  <2> QED
    BY <1>1, <1>2, ElementInduction
<1> QED
  BY <1>3

(* A sum of zeros is none.                                                 *)
LEMMA SumOfZeros ==
    ASSUME NEW f, NEW S, IsFiniteSet(S), \A x \in S : f[x] = 0
    PROVE  SumFunctionOnSet(f, S) = 0
<1> DEFINE Good == {U \in SUBSET S : SumFunctionOnSet(f, U) = 0}
<1>1. {} \in Good
  BY SumOfNone
<1>2. ASSUME NEW U \in SUBSET S, NEW x \in S, U \in Good, x \notin U
      PROVE  U \cup {x} \in Good
  <2>1. IsFiniteSet(U) /\ \A y \in U \cup {x} : f[y] = 0
    BY FS_Subset
  <2>2. SumFunctionOnSet(f, U \cup {x}) = SumFunctionOnSet(f, U) + f[x]
    BY <1>2, <2>1, SumWith
  <2> QED
    BY <1>2, <2>1, <2>2
<1>3. S \in Good
  <2> HIDE DEF Good
  <2> QED
    BY <1>1, <1>2, ElementInduction
<1> QED
  BY <1>3

(* A sum of natural numbers is one, and grows with the set.                *)
LEMMA SumOfNaturals ==
    ASSUME NEW f, NEW S, IsFiniteSet(S), \A x \in S : f[x] \in Nat
    PROVE  /\ SumFunctionOnSet(f, S) \in Nat
           /\ \A T \in SUBSET S : SumFunctionOnSet(f, T) <= SumFunctionOnSet(f, S)
<1>1. ASSUME NEW T \in SUBSET S PROVE SumFunctionOnSet(f, T) \in Nat
  <2> DEFINE none == [x \in T |-> 0]
  <2>1. IsFiniteSet(T)
    BY FS_Subset
  <2>4. SumFunctionOnSet(none, T) = 0
    <3>1. \A x \in T : none[x] = 0
      OBVIOUS
    <3> HIDE DEF none
    <3> QED
      BY <2>1, <3>1, SumOfZeros
  <2>5. SumFunctionOnSet(none, T) <= SumFunctionOnSet(f, T)
    BY <2>1, SumsOrdered
  <2>6. SumFunctionOnSet(f, T) \in Int
    BY <2>1, SumIsInt
  <2> QED
    BY <2>4, <2>5, <2>6
<1>2. ASSUME NEW T \in SUBSET S PROVE SumFunctionOnSet(f, T) <= SumFunctionOnSet(f, S)
  <2>1. IsFiniteSet(T) /\ IsFiniteSet(S \ T) /\ T \cup (S \ T) = S
    BY FS_Subset
  <2>2. SumFunctionOnSet(f, S) = SumFunctionOnSet(f, T) + SumFunctionOnSet(f, S \ T)
    <3>1. T \cap (S \ T) = {} /\ \A x \in T \cup (S \ T) : f[x] \in Int
      OBVIOUS
    <3> HIDE <1>1
    <3> QED
      BY <2>1, <3>1, SumOfBoth
  <2>3. SumFunctionOnSet(f, T) \in Nat /\ SumFunctionOnSet(f, S \ T) \in Nat
    BY <1>1
  <2> QED
    BY <2>2, <2>3
<1> QED
  BY <1>1, <1>2

(* The sum over a table of numbers when an entry is written or erased.     *)
LEMMA SumPut ==
    ASSUME NEW f, IsFiniteSet(DOMAIN f), \A x \in DOMAIN f : f[x] \in Int, NEW k, NEW n \in Int
    PROVE  SumFunction(Put(f, k, n)) = SumFunction(f) - (IF k \in DOMAIN f THEN f[k] ELSE 0) + n
<1> DEFINE S == DOMAIN f
           T == S \ {k}
           g == Put(f, k, n)
<1>1. DOMAIN g = T \cup {k} /\ g[k] = n /\ \A x \in T : g[x] = f[x]
  BY DEF Put
<1>2. SumFunction(g) = SumFunctionOnSet(g, T \cup {k}) /\ SumFunction(f) = SumFunctionOnSet(f, S)
  BY <1>1 DEF SumFunction
<1>3. IsFiniteSet(T) /\ k \notin T
  BY FS_Subset
<1> HIDE DEF T, g
<1>4. \A x \in T : f[x] \in Int
  BY DEF T
<1>5. SumFunctionOnSet(g, T \cup {k}) = SumFunctionOnSet(g, T) + n
  <2>1. \A x \in T \cup {k} : g[x] \in Int
    BY <1>1, <1>4
  <2> QED BY <1>1, <1>3, <2>1, SumWith
<1>6. SumFunctionOnSet(g, T) = SumFunctionOnSet(f, T)
  BY <1>1, <1>3, SumsEqual
<1>7. SumFunctionOnSet(f, S) \in Int
  BY SumIsInt
<1>8. CASE k \in S
  <2>1. SumFunctionOnSet(f, T) = SumFunctionOnSet(f, S) - f[k]
    BY <1>8, SumWithout DEF T
  <2>2. SumFunction(g) = SumFunction(f) - f[k] + n
    BY <1>1, <1>2, <1>5, <1>6, <2>1
  <2> QED BY <1>8, <2>2 DEF g
<1>9. CASE k \notin S
  <2>1. T = S
    BY <1>9 DEF T
  <2>2. SumFunction(g) = SumFunction(f) + n
    BY <1>1, <1>2, <1>5, <1>6, <2>1
  <2>3. SumFunction(f) \in Int
    BY <1>2, <1>7
  <2> QED BY <1>9, <2>2, <2>3 DEF g
<1> QED BY <1>8, <1>9

LEMMA SumErase ==
    ASSUME NEW f, IsFiniteSet(DOMAIN f), \A x \in DOMAIN f : f[x] \in Int, NEW k \in DOMAIN f
    PROVE  SumFunction(Erase(f, {k})) = SumFunction(f) - f[k]
<1> DEFINE S == DOMAIN f
           g == Erase(f, {k})
<1>1. DOMAIN g = S \ {k} /\ \A x \in S \ {k} : g[x] = f[x]
  BY DEF Erase
<1>2. SumFunction(g) = SumFunctionOnSet(g, S \ {k}) /\ SumFunction(f) = SumFunctionOnSet(f, S)
  BY <1>1 DEF SumFunction
<1> HIDE DEF g
<1>3. SumFunctionOnSet(g, S \ {k}) = SumFunctionOnSet(f, S \ {k})
  <2>1. IsFiniteSet(S \ {k})
    BY FS_Subset
  <2> QED BY <1>1, <2>1, SumsEqual
<1>4. SumFunctionOnSet(f, S \ {k}) = SumFunctionOnSet(f, S) - f[k]
  BY SumWithout
<1> QED BY <1>2, <1>3, <1>4 DEF g

(* The sum over a table of numbers is a number.                            *)
LEMMA SumOfTable ==
    ASSUME NEW f, IsFiniteSet(DOMAIN f), \A x \in DOMAIN f : f[x] \in Int
    PROVE  SumFunction(f) \in Int
  BY SumIsInt DEF SumFunction

LEMMA SumOfEmpty == ASSUME NEW f, DOMAIN f = {} PROVE SumFunction(f) = 0
  BY SumOfNone DEF SumFunction

(* Tables stay finite when rows are written and erased.                    *)
LEMMA FiniteTables ==
    ASSUME NEW t, IsFiniteSet(DOMAIN t), NEW k, NEW row, NEW S
    PROVE  IsFiniteSet(DOMAIN Put(t, k, row)) /\ IsFiniteSet(DOMAIN Erase(t, S))
<1>1. DOMAIN Put(t, k, row) = DOMAIN t \cup {k} /\ DOMAIN Erase(t, S) \subseteq DOMAIN t
  BY DEF Put, Erase
<1>2. IsFiniteSet(DOMAIN t \cup {k})
  BY FS_AddElement
<1> QED BY <1>1, <1>2, FS_Subset

(* The keys may be renamed.                                                *)
LEMMA SumRenamed ==
    ASSUME NEW f, NEW g, NEW h, NEW S, IsFiniteSet(S),
           \A x, y \in S : h[x] = h[y] => x = y,
           \A x \in S : f[x] = g[h[x]] /\ f[x] \in Int
    PROVE  SumFunctionOnSet(g, {h[x] : x \in S}) = SumFunctionOnSet(f, S)
<1> DEFINE Image(T) == {h[x] : x \in T}
           Good == {T \in SUBSET S : IsFiniteSet(Image(T))
                                     /\ SumFunctionOnSet(g, Image(T)) = SumFunctionOnSet(f, T)}
<1>1. {} \in Good
  <2>1. Image({}) = {}
    OBVIOUS
  <2> QED
    BY <2>1, SumOfNone, FS_EmptySet
<1>2. ASSUME NEW T \in SUBSET S, NEW x \in S, T \in Good, x \notin T
      PROVE  T \cup {x} \in Good
  <2>1. IsFiniteSet(T) /\ IsFiniteSet(Image(T))
    BY <1>2, FS_Subset
  <2>2. Image(T \cup {x}) = Image(T) \cup {h[x]} /\ h[x] \notin Image(T)
    BY <1>2
  <2>3. \A y \in Image(T) \cup {h[x]} : g[y] \in Int
    OBVIOUS
  <2> HIDE DEF Image
  <2>4. IsFiniteSet(Image(T \cup {x}))
    <3>1. IsFiniteSet(Image(T) \cup {h[x]})
      BY <2>1, FS_AddElement
    <3> QED
      BY <2>2, <3>1
  <2>5. SumFunctionOnSet(g, Image(T) \cup {h[x]}) = SumFunctionOnSet(g, Image(T)) + g[h[x]]
    BY <2>1, <2>2, <2>3, SumWith
  <2>6. SumFunctionOnSet(f, T \cup {x}) = SumFunctionOnSet(f, T) + f[x]
    BY <2>1, <1>2, SumWith
  <2> QED
    BY <1>2, <2>2, <2>4, <2>5, <2>6
<1>3. S \in Good
  <2> HIDE DEF Good
  <2> QED
    BY <1>1, <1>2, ElementInduction
<1> QED
  BY <1>3

(* Finitely many numbers have a largest.                                   *)
LEMMA HasLargest ==
    ASSUME NEW f, NEW S, IsFiniteSet(S), S # {}, \A x \in S : f[x] \in Int
    PROVE  \E x \in S : \A y \in S : f[y] <= f[x]
<1> DEFINE Good == {T \in SUBSET S : T # {} => \E x \in T : \A y \in T : f[y] <= f[x]}
<1>1. ASSUME NEW T \in SUBSET S, NEW x \in S, T \in Good, x \notin T
      PROVE  T \cup {x} \in Good
  <2>1. CASE T = {}
    BY <2>1
  <2>2. CASE T # {}
    <3>1. PICK z \in T : \A y \in T : f[y] <= f[z]
      BY <1>1, <2>2
    <3>2. CASE f[x] <= f[z]
      BY <3>1, <3>2
    <3>3. CASE f[z] <= f[x]
      <4>1. \A y \in T \cup {x} : f[y] <= f[x]
        BY <3>1, <3>3
      <4> QED
        BY <4>1
    <3> QED
      BY <3>2, <3>3
  <2> QED
    BY <2>1, <2>2
<1>2. S \in Good
  <2>1. {} \in Good
    OBVIOUS
  <2> HIDE DEF Good
  <2> QED
    BY <1>1, <2>1, ElementInduction
<1> QED
  BY <1>2

-----------------------------------------------------------------------------
(* Quotient and remainder.                                                 *)
LEMMA Division ==
    ASSUME NEW n \in Nat \ {0}, NEW a \in Int
    PROVE  /\ a % n \in 0 .. n - 1 /\ a \div n \in Int
           /\ a = n * (a \div n) + (a % n)
  BY SMTT(30)

(* A multiple of n other than 0 is not between -n and n.                   *)
LEMMA Multiples ==
    ASSUME NEW n \in Nat \ {0}, NEW k \in Int
    PROVE  /\ k >= 1 => n * k >= n
           /\ k <= -1 => n * k <= -n
           /\ n * k \in Int
           /\ k = 0 => n * k = 0
  OBVIOUS

(* The remainder is the only one.                                          *)
LEMMA ModUnique ==
    ASSUME NEW n \in Nat \ {0}, NEW q \in Int, NEW r \in 0 .. n - 1, NEW p \in Int, NEW s \in 0 .. n - 1,
           n * q + r = n * p + s
    PROVE  r = s
<1>1. n * (q - p) = s - r
  OBVIOUS
<1>2. -n < s - r /\ s - r < n
  OBVIOUS
<1>3. q - p \in Int
  OBVIOUS
<1>4. q - p = 0
  BY <1>1, <1>2, <1>3, Multiples
<1> QED BY <1>4

(* One round further is the same slot of a ring of n.                      *)
LEMMA ModShift ==
    ASSUME NEW n \in Nat \ {0}, NEW a \in Int
    PROVE  (a + n) % n = a % n
<1> DEFINE b == a + n
<1>1. a = n * (a \div n) + (a % n) /\ a % n \in 0 .. n - 1 /\ a \div n \in Int
  BY Division
<1>2. b \in Int
  OBVIOUS
<1>3. b = n * (b \div n) + (b % n) /\ b % n \in 0 .. n - 1 /\ b \div n \in Int
  <2> HIDE DEF b
  <2> QED BY <1>2, Division
<1>4. n * (a \div n + 1) + (a % n) = n * (b \div n) + (b % n)
  BY <1>1, <1>3
<1>5. a \div n + 1 \in Int
  BY <1>1
<1> HIDE DEF b
<1>6. a % n = b % n
  BY <1>1, <1>3, <1>4, <1>5, ModUnique
<1> QED BY <1>6 DEF b

(* Less than one round further is another slot.                            *)
LEMMA ModApart ==
    ASSUME NEW n \in Nat \ {0}, NEW a \in Int, NEW b \in Int, a < b, b < a + n
    PROVE  a % n # b % n
<1> SUFFICES ASSUME a % n = b % n PROVE FALSE
  OBVIOUS
<1> DEFINE r == a % n
           p == a \div n
           q == b \div n
<1>1. r \in 0 .. n - 1 /\ p \in Int /\ a = n * p + r
  BY Division
<1>2. q \in Int /\ b = n * q + (b % n)
  BY Division
<1>3. b = n * q + r
  BY <1>2
<1> HIDE DEF r, p, q
<1>4. b - a = n * (q - p)
  BY <1>1, <1>2, <1>3
<1>5. q - p \in Int /\ 0 < b - a /\ b - a < n
  BY <1>1, <1>2
<1> QED BY <1>4, <1>5, Multiples

(* A number below n is its own slot, and one from the round before wraps.  *)
LEMMA ModSmall ==
    ASSUME NEW n \in Nat \ {0}, NEW a \in Int
    PROVE  /\ 0 <= a /\ a < n => a % n = a
           /\ -n <= a /\ a < 0 => a % n = a + n
<1>1. ASSUME NEW b \in Int, 0 <= b, b < n PROVE b % n = b
  <2>1. b = n * (b \div n) + (b % n) /\ b % n \in 0 .. n - 1 /\ b \div n \in Int
    BY Division
  <2>2. n * 0 = 0
    OBVIOUS
  <2>3. n * 0 + b = n * (b \div n) + (b % n) /\ b \in 0 .. n - 1
    BY <1>1, <2>1, <2>2
  <2> QED BY <2>1, <2>3, ModUnique
<1>2. ASSUME -n <= a, a < 0 PROVE a % n = a + n
  <2>1. (a + n) % n = a + n
    BY <1>1, <1>2
  <2> QED BY <2>1, ModShift
<1> QED BY <1>1, <1>2
(* Any function that sums as the sum does gives the sum.                   *)
LEMMA SumOfChosen ==
    ASSUME NEW f, NEW S, IsFiniteSet(S), NEW g, IsSumOn(g, f, S)
    PROVE  g[S] = SumFunctionOnSet(f, S)
<1>1. \E h : IsSumOn(h, f, S)
  BY SumsExist
<1>2. PICK h : IsSumOn(h, f, S) /\ SumFunctionOnSet(f, S) = h[S]
  BY <1>1, SumIsChosen
<1>3. \A T \in SUBSET S : T \subseteq S => g[T] = h[T]
  BY <1>2, SumsAgree
<1> QED
  BY <1>2, <1>3

(* The sum over an interval, term by term from below.                      *)
LEMMA SumUpTo ==
    ASSUME NEW f, NEW m \in Int, NEW n \in Int, m <= n, \A x \in m .. n : f[x] \in Int
    PROVE  /\ SumFunctionOnSet(f, m .. n) = SumFunctionOnSet(f, m .. n - 1) + f[n]
           /\ SumFunctionOnSet(f, m .. n - 1) \in Int
<1>1. n - 1 \in Int /\ m .. n = (m .. n - 1) \cup {n} /\ n \notin m .. n - 1
  OBVIOUS
<1>2. IsFiniteSet(m .. n - 1)
  BY ONLY <1>1, m \in Int, FS_Interval
<1> DEFINE S == m .. n - 1
<1>3. \A x \in S \cup {n} : f[x] \in Int
  BY <1>1
<1>4. IsFiniteSet(S) /\ n \notin S /\ m .. n = S \cup {n} /\ \A x \in S : f[x] \in Int
  BY <1>1, <1>2, <1>3
<1> HIDE DEF S
<1>5. SumFunctionOnSet(f, S \cup {n}) = SumFunctionOnSet(f, S) + f[n]
  BY <1>3, <1>4, SumWith
<1>6. SumFunctionOnSet(f, S) \in Int
  BY <1>4, SumIsInt
<1> QED
  BY <1>4, <1>5, <1>6 DEF S

LEMMA SumOfOne ==
    ASSUME NEW f, NEW m \in Int, f[m] \in Int
    PROVE  SumFunctionOnSet(f, m .. m) = f[m]
<1>1. m .. m = {m} /\ m .. m - 1 = {} /\ m <= m /\ \A x \in m .. m : f[x] \in Int
  OBVIOUS
<1>2. SumFunctionOnSet(f, m .. m) = SumFunctionOnSet(f, {}) + f[m]
  BY <1>1, SumUpTo
<1> QED
  BY <1>2, SumOfNone

LEMMA SumOfFive ==
    ASSUME NEW f, NEW m \in Int, \A x \in m .. m + 4 : f[x] \in Int
    PROVE  SumFunctionOnSet(f, m .. m + 4) = f[m] + f[m + 1] + f[m + 2] + f[m + 3] + f[m + 4]
<1> DEFINE sum(k) == SumFunctionOnSet(f, m .. m + k)
<1>1. ASSUME NEW k \in 1 .. 4 PROVE sum(k) = sum(k - 1) + f[m + k]
  <2>1. m + k \in Int /\ m <= m + k /\ \A x \in m .. m + k : f[x] \in Int
    OBVIOUS
  <2>2. (m + k) - 1 = m + (k - 1)
    OBVIOUS
  <2> QED
    BY <2>1, <2>2, SumUpTo
<1>2. m + 0 = m /\ f[m] \in Int
  OBVIOUS
<1>3. sum(0) = f[m]
  BY <1>2, SumOfOne
<1> HIDE DEF sum
<1>4. sum(1) = sum(0) + f[m + 1] /\ sum(2) = sum(1) + f[m + 2]
  BY <1>1
<1>5. sum(3) = sum(2) + f[m + 3] /\ sum(4) = sum(3) + f[m + 4]
  BY <1>1
<1> QED
  BY <1>3, <1>4, <1>5 DEF sum

LEMMA SumOfTwenty ==
    ASSUME NEW f, \A x \in 0 .. 19 : f[x] \in Int
    PROVE  SumFunctionOnSet(f, 0 .. 19) =
              SumFunctionOnSet(f, 0 .. 4) + SumFunctionOnSet(f, 5 .. 9)
            + SumFunctionOnSet(f, 10 .. 14) + SumFunctionOnSet(f, 15 .. 19)
<1> DEFINE sum(S) == SumFunctionOnSet(f, S)
<1>1. ASSUME NEW k \in 0 .. 18, NEW n \in k + 1 .. 19 PROVE sum(0 .. n) = sum(0 .. k) + sum(k + 1 .. n)
  <2> DEFINE S == 0 .. k
             T == k + 1 .. n
  <2>1. 0 .. n = S \cup T /\ S \cap T = {} /\ \A x \in S \cup T : f[x] \in Int
    OBVIOUS
  <2>2. 0 \in Int /\ k \in Int /\ k + 1 \in Int /\ n \in Int
    OBVIOUS
  <2>3. IsFiniteSet(S) /\ IsFiniteSet(T)
    BY ONLY <2>2, FS_Interval
  <2> HIDE DEF S, T
  <2>4. sum(S \cup T) = sum(S) + sum(T)
    BY ONLY <2>1, <2>3, SumOfBoth
  <2> QED
    BY <2>1, <2>4 DEF S, T
<1> HIDE DEF sum
<1>2. sum(0 .. 9) = sum(0 .. 4) + sum(4 + 1 .. 9)
  BY <1>1
<1>3. sum(0 .. 14) = sum(0 .. 9) + sum(9 + 1 .. 14)
  BY <1>1
<1>4. sum(0 .. 19) = sum(0 .. 14) + sum(14 + 1 .. 19)
  BY <1>1
<1>5. 4 + 1 = 5 /\ 9 + 1 = 10 /\ 14 + 1 = 15
  OBVIOUS
<1> QED
  BY <1>2, <1>3, <1>4, <1>5 DEF sum
=============================================================================
