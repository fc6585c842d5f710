-------------------------- MODULE UsageLedgerProofs --------------------------
(* Theorems about UsageLedger, for any callers, scopes and quota.  They     *)
(* rest on what a sum over a finite set is, which MapThenSumSet defines by  *)
(* a recursive function and is found here by a least counterexample.        *)
EXTENDS UsageLedger, FiniteSetTheorems, NaturalsInduction, WellFoundedInduction, TLAPS

-----------------------------------------------------------------------------
(* Sums over finite sets.                                                  *)

\* The function that the sum of u over S is defined with.
Iterates(h, S, u) ==
    /\ h[{}] = 0
    /\ \A T \in SUBSET S : T # {} =>
          h[T] = u[CHOOSE e \in T : TRUE] + h[T \ {CHOOSE e \in T : TRUE}]

\* The sums of u over the subsets of S, whatever the order in which the elements are taken.
Sums(f, S, u) ==
    /\ f = [T \in SUBSET S |-> f[T]]
    /\ f[{}] = 0
    /\ \A T \in SUBSET S : f[T] \in Int
    /\ \A T \in SUBSET S : \A e \in T : f[T] = u[e] + f[T \ {e}]

\* Finite sets of what has a number.
Summable(S, u) == IsFiniteSet(S) /\ \A e \in S : u[e] \in Int

\* A set of numbers has a least one.
LEMMA UsageLeast == ASSUME NEW S \in SUBSET Nat, S # {} PROVE \E n \in S : \A m \in S : n <= m
  <1>1. PICK n \in S : \A m \in S : ~(<<m, n>> \in OpToRel(<, Nat))
    BY WFMin, NatLessThanWellFounded, Zenon
  <1>2. ASSUME NEW m \in S PROVE n <= m
    <2>1. ~(m < n)
      BY <1>1 DEF OpToRel
    <2> QED
      BY <2>1
  <1> QED
    BY <1>2

\* Every such set has its sums: if not, one with the fewest elements has none.
LEMMA SumsExist == ASSUME NEW S, NEW u, Summable(S, u) PROVE \E f : Sums(f, S, u)
  <1> DEFINE Bad == {n \in Nat : \E T : Summable(T, u) /\ Cardinality(T) = n /\ ~\E f : Sums(f, T, u)}
  <1>1. SUFFICES ASSUME Bad # {} PROVE FALSE
    BY FS_CardinalityType DEF Summable
  <1>2. PICK n \in Bad : \A k \in Bad : n <= k
    <2>1. Bad \subseteq Nat
      OBVIOUS
    <2> HIDE DEF Bad
    <2> QED
      BY <1>1, <2>1, UsageLeast
  <1>3. PICK T : Summable(T, u) /\ Cardinality(T) = n /\ ~\E f : Sums(f, T, u)
    BY <1>2
  <1>4. CASE T = {}
    <2> DEFINE f == [U \in SUBSET T |-> 0]
    <2>1. Sums(f, T, u)
      BY <1>4 DEF Sums
    <2> QED
      BY <1>3, <2>1
  <1>5. CASE T # {}
    <2>1. PICK e \in T : TRUE
      BY <1>5
    <2> DEFINE R == T \ {e}
    <2>2. Summable(R, u) /\ Cardinality(R) = n - 1 /\ n - 1 \in Nat
      <3>1. IsFiniteSet(T) /\ IsFiniteSet(R) /\ Cardinality(R) = Cardinality(T) - 1
        BY <1>3, FS_RemoveElement DEF Summable
      <3>2. Cardinality(R) \in Nat
        BY <3>1, FS_CardinalityType
      <3>3. \A d \in R : u[d] \in Int
        BY <1>3 DEF Summable
      <3> QED
        BY <1>3, <3>1, <3>2, <3>3 DEF Summable
    <2>3. PICK g : Sums(g, R, u)
      <3>1. n - 1 \notin Bad
        BY <1>2, <2>2
      <3> QED
        BY <2>2, <3>1
    <2> HIDE DEF R
    <2> DEFINE f == [U \in SUBSET T |-> IF e \in U THEN u[e] + g[U \ {e}] ELSE g[U]]
    <2>4. u[e] \in Int
      BY <1>3 DEF Summable
    <2>5. \A U \in SUBSET T : U \ {e} \in SUBSET R /\ (e \notin U => U \in SUBSET R)
      BY DEF R
    <2>6. \A U \in SUBSET T : f[U] \in Int
      <3> SUFFICES ASSUME NEW U \in SUBSET T PROVE f[U] \in Int
        OBVIOUS
      <3>1. g[U \ {e}] \in Int /\ (e \notin U => g[U] \in Int)
        BY <2>3, <2>5 DEF Sums
      <3>2. f[U] = IF e \in U THEN u[e] + g[U \ {e}] ELSE g[U]
        OBVIOUS
      <3> HIDE DEF f
      <3> QED
        BY <2>4, <3>1, <3>2
    <2>7. ASSUME NEW U \in SUBSET T, NEW d \in U PROVE f[U] = u[d] + f[U \ {d}]
      <3>1. U \ {d} \in SUBSET T /\ U \ {e} \in SUBSET R
        BY <2>5
      <3>2. CASE d = e
        BY <3>1, <3>2, <2>5
      <3>3. CASE d # e /\ e \in U
        <4>1. d \in U \ {e} /\ (U \ {e}) \ {d} = (U \ {d}) \ {e}
          BY <3>3
        <4>2. g[U \ {e}] = u[d] + g[(U \ {e}) \ {d}]
          BY <2>3, <3>1, <4>1 DEF Sums
        <4>3. f[U] = u[e] + g[U \ {e}] /\ f[U \ {d}] = u[e] + g[(U \ {d}) \ {e}]
          BY <3>1, <3>3
        <4>4. u[d] \in Int /\ g[(U \ {d}) \ {e}] \in Int
          BY <1>3, <2>3, <2>5, <3>1 DEF Summable, Sums
        <4>5. g[U \ {e}] = u[d] + g[(U \ {d}) \ {e}]
          BY <4>1, <4>2
        <4> HIDE DEF f
        <4> QED
          BY <2>4, <4>3, <4>4, <4>5
      <3>4. CASE e \notin U
        <4>1. U \in SUBSET R /\ U \ {d} \in SUBSET R
          BY <2>5, <3>4
        <4>2. f[U] = g[U] /\ f[U \ {d}] = g[U \ {d}]
          BY <3>1, <3>4
        <4> QED
          BY <2>3, <4>1, <4>2 DEF Sums
      <3> QED
        BY <3>2, <3>3, <3>4
    <2>8. f[{}] = 0
      BY <2>3 DEF Sums
    <2>9. f = [U \in SUBSET T |-> f[U]]
      OBVIOUS
    <2>10. Sums(f, T, u)
      <3> HIDE DEF f
      <3> QED
        BY <2>6, <2>7, <2>8, <2>9 DEF Sums
    <2> QED
      BY <1>3, <2>10
  <1> QED
    BY <1>4, <1>5

\* What is iterated is a sum: if not, the two differ first at a set from which one element was taken.
LEMMA IterationIsSum ==
    ASSUME NEW S, NEW u, Summable(S, u), NEW f, Sums(f, S, u), NEW h, Iterates(h, S, u)
    PROVE  h[S] = f[S]
  <1> DEFINE Bad == {n \in Nat : \E T \in SUBSET S : Cardinality(T) = n /\ h[T] # f[T]}
  <1>1. CASE Bad = {}
    <2>1. Cardinality(S) \in Nat /\ S \in SUBSET S
      BY FS_CardinalityType DEF Summable
    <2> QED
      BY <1>1, <2>1
  <1>2. CASE Bad # {}
    <2>1. PICK n \in Bad : \A k \in Bad : n <= k
      <3>1. Bad \subseteq Nat
        OBVIOUS
      <3> HIDE DEF Bad
      <3> QED
        BY <1>2, <3>1, UsageLeast
    <2>2. PICK T \in SUBSET S : Cardinality(T) = n /\ h[T] # f[T]
      BY <2>1
    <2>3. IsFiniteSet(T)
      BY FS_Subset DEF Summable
    <2> DEFINE e == CHOOSE e \in T : TRUE
    <2>4. T # {}
      BY <2>2 DEF Iterates, Sums
    <2>5. e \in T
      BY <2>4
    <2>6. h[T] = u[e] + h[T \ {e}] /\ f[T] = u[e] + f[T \ {e}]
      <3>1. h[T] = u[e] + h[T \ {e}]
        BY <2>4, Zenon DEF Iterates
      <3> QED
        BY <3>1, <2>5 DEF Sums
    <2> HIDE DEF e
    <2>7. T \ {e} \in SUBSET S /\ Cardinality(T \ {e}) = n - 1 /\ n - 1 \in Nat
      <3>1. IsFiniteSet(T \ {e}) /\ Cardinality(T \ {e}) = Cardinality(T) - 1
        BY <2>3, <2>5, FS_RemoveElement
      <3>2. Cardinality(T \ {e}) \in Nat
        BY <3>1, FS_CardinalityType
      <3> QED
        BY <2>2, <3>1, <3>2
    <2>8. n - 1 \notin Bad
      BY <2>1, <2>7
    <2>9. h[T \ {e}] = f[T \ {e}]
      BY <2>7, <2>8
    <2> QED
      BY <2>2, <2>6, <2>9
  <1> QED
    BY <1>1, <1>2

\* The sums of a set are those of its subsets.
LEMMA SumsOfPart ==
    ASSUME NEW S, NEW u, NEW f, Sums(f, S, u), NEW T \in SUBSET S
    PROVE  \E g : Sums(g, T, u) /\ g[T] = f[T]
  <1> DEFINE g == [U \in SUBSET T |-> f[U]]
  <1>1. SUBSET T \subseteq SUBSET S /\ \A U \in SUBSET T : \A d \in U : U \ {d} \in SUBSET T
    OBVIOUS
  <1>2. \A U \in SUBSET T : g[U] = f[U]
    OBVIOUS
  <1>3. g = [U \in SUBSET T |-> g[U]]
    OBVIOUS
  <1> HIDE DEF g
  <1>4. g[{}] = 0
    BY <1>2 DEF Sums
  <1>5. \A U \in SUBSET T : g[U] \in Int
    BY <1>1, <1>2 DEF Sums
  <1>6. ASSUME NEW U \in SUBSET T, NEW d \in U PROVE g[U] = u[d] + g[U \ {d}]
    <2>1. f[U] = u[d] + f[U \ {d}]
      BY <1>1 DEF Sums
    <2>2. g[U] = f[U] /\ g[U \ {d}] = f[U \ {d}]
      BY <1>1, <1>2
    <2> QED
      BY <2>1, <2>2
  <1>7. Sums(g, T, u)
    BY <1>3, <1>4, <1>5, <1>6 DEF Sums
  <1> QED
    BY <1>2, <1>7

\* The sum of natural numbers is one: if not, take an element from the smallest set of which it is not.
LEMMA SumsOfNaturals ==
    ASSUME NEW S, NEW u, Summable(S, u), NEW f, Sums(f, S, u), \A e \in S : u[e] \in Nat
    PROVE  f[S] \in Nat
  <1> DEFINE Bad == {n \in Nat : \E T \in SUBSET S : Cardinality(T) = n /\ f[T] \notin Nat}
  <1>1. CASE Bad = {}
    <2>1. Cardinality(S) \in Nat /\ S \in SUBSET S
      BY FS_CardinalityType DEF Summable
    <2> QED
      BY <1>1, <2>1
  <1>2. CASE Bad # {}
    <2>1. PICK n \in Bad : \A k \in Bad : n <= k
      <3>1. Bad \subseteq Nat
        OBVIOUS
      <3> HIDE DEF Bad
      <3> QED
        BY <1>2, <3>1, UsageLeast
    <2>2. PICK T \in SUBSET S : Cardinality(T) = n /\ f[T] \notin Nat
      BY <2>1
    <2>3. IsFiniteSet(T)
      BY FS_Subset DEF Summable
    <2>4. PICK e \in T : TRUE
      <3>1. f[{}] = 0
        BY DEF Sums
      <3> QED
        BY <2>2, <3>1
    <2>5. f[T] = u[e] + f[T \ {e}] /\ f[T \ {e}] \in Int /\ u[e] \in Nat
      BY DEF Sums
    <2>6. T \ {e} \in SUBSET S /\ Cardinality(T \ {e}) = n - 1 /\ n - 1 \in Nat
      <3>1. IsFiniteSet(T \ {e}) /\ Cardinality(T \ {e}) = Cardinality(T) - 1
        BY <2>3, FS_RemoveElement
      <3>2. Cardinality(T \ {e}) \in Nat
        BY <3>1, FS_CardinalityType
      <3> QED
        BY <2>2, <3>1, <3>2
    <2>7. n - 1 \notin Bad
      BY <2>1, <2>6
    <2>8. f[T \ {e}] \in Nat
      BY <2>6, <2>7
    <2> QED
      BY <2>2, <2>5, <2>8
  <1> QED
    BY <1>1, <1>2

\* The units of a set of entries.
Units(S) == [e \in S |-> e.units]

\* The sum over a set of entries is one of the sums.
LEMMA SumIsOne ==
    ASSUME NEW S, Summable(S, Units(S)), NEW f, Sums(f, S, Units(S)) PROVE SumUnits(S) = f[S]
  <1> DEFINE F(h) == h = [T \in SUBSET S |-> IF T = {} THEN 0
                          ELSE (CHOOSE e \in T : TRUE).units + h[T \ {CHOOSE e \in T : TRUE}]]
             h == CHOOSE g : F(g)
  <1>1. SumUnits(S) = h[S]
    BY Zenon DEF SumUnits, MapThenSumSet, MapThenFoldSet
  <1>2. F(f)
    <2>1. ASSUME NEW T \in SUBSET S, T # {}
          PROVE  f[T] = (CHOOSE e \in T : TRUE).units + f[T \ {CHOOSE e \in T : TRUE}]
      BY <2>1 DEF Sums, Units
    <2>2. f = [T \in SUBSET S |-> f[T]] /\ f[{}] = 0
      BY DEF Sums
    <2> QED
      BY <2>1, <2>2, Zenon
  <1>3. F(h)
    BY <1>2
  <1> HIDE DEF h
  <1>4. Iterates(h, S, Units(S))
    <2>1. h[{}] = 0
      BY <1>3, {} \in SUBSET S, Zenon
    <2>2. ASSUME NEW T \in SUBSET S, T # {}
          PROVE  h[T] = Units(S)[CHOOSE e \in T : TRUE] + h[T \ {CHOOSE e \in T : TRUE}]
      <3>1. h[T] = (CHOOSE e \in T : TRUE).units + h[T \ {CHOOSE e \in T : TRUE}]
        BY <1>3, <2>2, Zenon
      <3>2. (CHOOSE e \in T : TRUE) \in S
        BY <2>2
      <3> QED
        BY <3>1, <3>2 DEF Units
    <2> QED
      BY <2>1, <2>2, Zenon DEF Iterates
  <1> QED
    BY <1>1, <1>4, IterationIsSum

\* Entries with numbers of units.
Charged(S) == IsFiniteSet(S) /\ \A e \in S : e.units \in Int

\* The sum over a set of entries, by one of them.
LEMMA SumOfSome ==
    ASSUME NEW S, Charged(S)
    PROVE  /\ SumUnits(S) \in Int
           /\ S = {} => SumUnits(S) = 0
           /\ \A e \in S : SumUnits(S) = e.units + SumUnits(S \ {e})
           /\ (\A e \in S : e.units \in Nat) => SumUnits(S) \in Nat
  <1>1. Summable(S, Units(S))
    BY DEF Charged, Summable, Units
  <1>2. PICK f : Sums(f, S, Units(S))
    BY <1>1, SumsExist
  <1>3. SumUnits(S) = f[S]
    BY <1>1, <1>2, SumIsOne
  <1>4. ASSUME NEW e \in S PROVE SumUnits(S \ {e}) = f[S \ {e}]
    <2> DEFINE T == S \ {e}
    <2>1. Summable(T, Units(T))
      BY FS_RemoveElement DEF Charged, Summable, Units
    <2>2. PICK g : Sums(g, T, Units(S)) /\ g[T] = f[T]
      BY <1>2, SumsOfPart
    <2>3. \A U \in SUBSET T : \A d \in U : Units(S)[d] = Units(T)[d]
      BY DEF Units
    <2>4. Sums(g, T, Units(T))
      BY <2>2, <2>3 DEF Sums
    <2> QED
      BY <2>1, <2>2, <2>4, SumIsOne
  <1>5. \A e \in S : f[S] = Units(S)[e] + f[S \ {e}] /\ Units(S)[e] = e.units
    BY <1>2 DEF Sums, Units
  <1>6. f[S] \in Int /\ (S = {} => f[S] = 0)
    BY <1>2 DEF Sums
  <1>7. ASSUME \A e \in S : e.units \in Nat PROVE f[S] \in Nat
    BY <1>1, <1>2, <1>7, SumsOfNaturals DEF Units
  <1> QED
    BY <1>3, <1>4, <1>5, <1>6, <1>7

\* A set with one more element.
LEMMA SumOfOneMore ==
    ASSUME NEW S, Charged(S), NEW e, e \notin S, e.units \in Int
    PROVE  /\ Charged(S \cup {e})
           /\ SumUnits(S \cup {e}) = SumUnits(S) + e.units
  <1>1. Charged(S \cup {e})
    BY FS_AddElement DEF Charged
  <1>2. (S \cup {e}) \ {e} = S /\ e \in S \cup {e}
    OBVIOUS
  <1>3. SumUnits(S \cup {e}) = e.units + SumUnits((S \cup {e}) \ {e})
    BY <1>1, <1>2, SumOfSome
  <1>4. SumUnits(S) \in Int
    BY SumOfSome
  <1>5. SumUnits(S \cup {e}) = e.units + SumUnits(S)
    BY <1>2, <1>3
  <1> QED
    BY <1>1, <1>4, <1>5

\* Sets of no element, of one, of two.
LEMMA SmallSums ==
    /\ Charged({}) /\ SumUnits({}) = 0
    /\ \A e : e.units \in Int => Charged({e}) /\ SumUnits({e}) = e.units
    /\ \A e, f : e # f /\ e.units \in Int /\ f.units \in Int =>
           Charged({e, f}) /\ SumUnits({e, f}) = e.units + f.units
  <1>1. Charged({}) /\ SumUnits({}) = 0
    <2>1. Charged({})
      BY FS_EmptySet DEF Charged
    <2> QED
      BY <2>1, SumOfSome
  <1>2. ASSUME NEW e, e.units \in Int PROVE Charged({e}) /\ SumUnits({e}) = e.units
    <2>1. {} \cup {e} = {e} /\ e \notin {}
      OBVIOUS
    <2>2. Charged({} \cup {e}) /\ SumUnits({} \cup {e}) = SumUnits({}) + e.units
      BY <1>1, <1>2, <2>1, SumOfOneMore
    <2> QED
      BY <1>1, <1>2, <2>1, <2>2
  <1>3. ASSUME NEW e, NEW f, e # f, e.units \in Int, f.units \in Int
        PROVE  Charged({e, f}) /\ SumUnits({e, f}) = e.units + f.units
    <2>1. {e} \cup {f} = {e, f} /\ f \notin {e}
      BY <1>3
    <2>2. Charged({e} \cup {f}) /\ SumUnits({e} \cup {f}) = SumUnits({e}) + f.units
      BY <1>2, <1>3, <2>1, SumOfOneMore
    <2> QED
      BY <1>2, <1>3, <2>1, <2>2
  <1> QED
    BY <1>1, <1>2, <1>3

\* What the constants have to be.
UsageConstants == Limit \in Nat /\ MaxUnits \in Nat \ {0} /\ MaxCalls \in Nat

-----------------------------------------------------------------------------
(* The invariant. *)

\* The entries of a scope.
UsageAt(s) == {e \in ledger : e.scope = s}

\* The entries of a reservation.
UsageOf(r) == {e \in ledger : e.res = r}

\* The types of the rows and the entries.
UsageTyped ==
    /\ home \in [Reservations -> Callable]
    /\ IsFiniteSet(ledger) /\ \A e \in ledger : e \in Entries
    /\ reservation \in [Reservations -> Row \cup {NoRow}]

\* The type of what a caller has in hand, whose entries are still in the ledger.
UsageCall(k) ==
    /\ k.at \in {"idle", "entries", "rows", "write"} /\ k.kind \in Kinds
    /\ k.res \in Reservations \cup {"none"}
    /\ k.at # "idle" => k.res \in Reservations
    /\ k.scope \in Scopes /\ k.units \in 1 .. MaxUnits
    /\ k.entries \subseteq ledger
    /\ k.rows \in [Reservations -> Row \cup {NoRow}]

\* There is such a call for each caller.
UsageCalls ==
    /\ call = [c \in Callers |-> call[c]]
    /\ \A c \in Callers : UsageCall(call[c])

\* The sequence numbers of a set of entries leave no gap.
UsageNumbered(S) ==
    /\ Charged(S)
    /\ \A k \in 1 .. Cardinality(S) : \E e \in S : e.seq = k

\* A scope without gaps and within the limit.
UsageWithin(s) == UsageNumbered(UsageAt(s)) /\ SumUnits(UsageAt(s)) <= Limit

\* What the entries of a reservation are, by what its row says.
UsageTale(row, entries) ==
    \/ row = NoRow /\ entries = {}
    \/ /\ row # NoRow /\ row.status = "ACTIVE"
       /\ \E e : entries = {e} /\ e.kind = "reserve" /\ e.units = row.units
    \/ /\ row # NoRow /\ row.status = "RELEASED"
       /\ \E e, f : /\ entries = {e, f}
                    /\ e.kind = "reserve" /\ e.units = row.units
                    /\ f.kind = "release" /\ f.units = -row.units
    \/ /\ row # NoRow /\ row.status = "FINALIZED"
       /\ \E e, f, g : /\ entries = {e, f, g}
                       /\ e.kind = "reserve" /\ e.units = row.units
                       /\ f.kind = "finalize" /\ f.units = -row.units
                       /\ g.kind = "commit" /\ g.units \in 1 .. row.units

\* The entries of r are those of its row.
UsageStory(r) == UsageTale(reservation[r], UsageOf(r))

\* The inductive invariant: every scope is numbered without gaps and within the limit, and the
\* entries of a reservation are those its row tells of.
UsageInv ==
    /\ UsageTyped
    /\ UsageCalls
    /\ \A s \in Scopes : UsageWithin(s)
    /\ \A r \in Reservations : UsageStory(r)

\* An entry with the next number.
LEMMA UsageNumbersOn ==
    ASSUME NEW S, UsageNumbered(S), NEW e, e \notin S, e.units \in Int, e.seq = Cardinality(S) + 1
    PROVE  /\ UsageNumbered(S \cup {e})
           /\ Cardinality(S \cup {e}) = Cardinality(S) + 1 /\ Cardinality(S) \in Nat
           /\ SumUnits(S \cup {e}) = SumUnits(S) + e.units /\ SumUnits(S) \in Int
  <1>1. Charged(S)
    BY DEF UsageNumbered
  <1>2. Charged(S \cup {e}) /\ SumUnits(S \cup {e}) = SumUnits(S) + e.units
    BY <1>1, SumOfOneMore
  <1>3. Cardinality(S) \in Nat /\ Cardinality(S \cup {e}) = Cardinality(S) + 1
    BY <1>1, FS_CardinalityType, FS_AddElement DEF Charged
  <1>4. ASSUME NEW k \in 1 .. Cardinality(S \cup {e}) PROVE \E d \in S \cup {e} : d.seq = k
    <2>1. CASE k = Cardinality(S) + 1
      BY <2>1
    <2>2. CASE k # Cardinality(S) + 1
      <3>1. k \in 1 .. Cardinality(S)
        BY <1>3, <2>2
      <3> QED
        BY <3>1 DEF UsageNumbered
    <2> QED
      BY <2>1, <2>2
  <1>5. SumUnits(S) \in Int
    BY <1>1, SumOfSome
  <1> QED
    BY <1>2, <1>3, <1>4, <1>5 DEF UsageNumbered

\* A number that is free tells that what was read of the scope is all there is.
LEMMA UsageReadsAll ==
    ASSUME UsageInv, NEW c \in Callers, \A f \in ledger : f.scope = call[c].scope =>
        f.seq # nextSequence(c)
    PROVE  /\ nextSequence(c) = Cardinality(UsageAt(call[c].scope)) + 1
           /\ usageTotal(call[c].entries, call[c].scope) = SumUnits(UsageAt(call[c].scope))
  <1> DEFINE s == call[c].scope
             R == {e \in call[c].entries : e.scope = s}
  <1>1. UsageCall(call[c]) /\ s \in Scopes
    BY DEF UsageInv, UsageCalls, UsageCall
  <1>2. UsageNumbered(UsageAt(s)) /\ IsFiniteSet(UsageAt(s))
    BY <1>1 DEF UsageInv, UsageWithin, UsageNumbered, Charged
  <1>3. R \in SUBSET UsageAt(s)
    BY <1>1 DEF UsageCall, UsageAt
  <1>4. IsFiniteSet(R) /\ Cardinality(R) <= Cardinality(UsageAt(s))
        /\ (Cardinality(R) = Cardinality(UsageAt(s)) => UsageAt(s) = R)
    BY <1>2, <1>3, FS_Subset
  <1>5. Cardinality(R) \in Nat /\ Cardinality(UsageAt(s)) \in Nat
    BY <1>2, <1>4, FS_CardinalityType
  <1>6. nextSequence(c) = Cardinality(R) + 1
    BY DEF nextSequence
  <1>7. ~(Cardinality(R) + 1 \in 1 .. Cardinality(UsageAt(s)))
    <2> SUFFICES ASSUME Cardinality(R) + 1 \in 1 .. Cardinality(UsageAt(s)) PROVE FALSE
      OBVIOUS
    <2>1. PICK e \in UsageAt(s) : e.seq = Cardinality(R) + 1
      BY <1>2 DEF UsageNumbered
    <2> QED
      BY <1>6, <2>1 DEF UsageAt
  <1>8. Cardinality(R) = Cardinality(UsageAt(s))
    BY <1>4, <1>5, <1>7
  <1>9. usageTotal(call[c].entries, s) = SumUnits(R)
    BY DEF usageTotal
  <1> QED
    BY <1>4, <1>6, <1>8, <1>9

\* The four outcomes that are written.  Nothing new is.
UsageRepeats(c) == Decision(c).entries = {} /\ Decision(c).row = reservation[call[c].res]

\* A reservation is made, within the limit of what was read.
UsageMakes(c) ==
    /\ call[c].kind = "reserve"
    /\ reservation[call[c].res] = NoRow
    /\ usageTotal(call[c].entries, call[c].scope) + call[c].units <= Limit
    /\ Decision(c).entries = {Entry(c, "reserve", call[c].units, nextSequence(c))}
    /\ Decision(c).row = [scope |-> call[c].scope, units |-> call[c].units,
                          status |-> "ACTIVE", revision |-> 1]

\* What was reserved is given back.
UsageReleases(c) ==
    LET row == reservation[call[c].res]
    IN /\ call[c].kind = "release"
       /\ row # NoRow /\ row.status = "ACTIVE"
       /\ Decision(c).entries = {Entry(c, "release", -row.units, nextSequence(c))}
       /\ Decision(c).row = [row EXCEPT !.revision = 2, !.status = "RELEASED"]

\* What was reserved is given back, and what was used of it is committed.
UsageFinalizes(c) ==
    LET row == reservation[call[c].res]
    IN /\ call[c].kind = "finalize"
       /\ row # NoRow /\ row.status = "ACTIVE"
       /\ call[c].units <= row.units
       /\ Decision(c).entries = {Entry(c, "finalize", -row.units, nextSequence(c)),
                                 Entry(c, "commit", call[c].units, nextSequence(c) + 1)}
       /\ Decision(c).row = [row EXCEPT !.revision = 2, !.status = "FINALIZED"]

\* A reservation that is accepted is made now or was made before.
LEMMA UsageReserves ==
    ASSUME UsageConstants, UsageInv, NEW c \in Callers, call[c].at = "write", call[c].kind = "reserve",
           Decision(c).code = "accepted", RowsUnchanged(c)
    PROVE  UsageRepeats(c) \/ UsageMakes(c)
  <1> DEFINE found == call[c].rows[call[c].res]
             total == usageTotal(call[c].entries, call[c].scope)
             new == {Entry(c, "reserve", call[c].units, nextSequence(c))}
             made == [scope |-> call[c].scope, units |-> call[c].units, status |-> "ACTIVE",
                 revision |-> 1]
  <1>1. call[c].res \in Reservations /\ call[c].units \in Nat
    BY DEF UsageInv, UsageCalls, UsageCall, UsageConstants
  <1>2. Decision(c) = reserveUsage(c)
    BY DEF Decision
  <1>3. Rejected("conflict").code # "accepted" /\ Rejected("exceeded").code # "accepted"
    BY DEF Rejected
  <1>4. CASE found # NoRow
    <2>1. Decision(c) = [code |-> "accepted", entries |-> {}, row |-> found]
      BY <1>2, <1>3, <1>4 DEF reserveUsage
    <2>2. reservation[call[c].res] = found
      BY <1>1, <1>4 DEF RowsUnchanged
    <2> QED
      BY <2>1, <2>2 DEF UsageRepeats
  <1>5. CASE found = NoRow
    <2>1. Decision(c) = IF hasKey(c) THEN Rejected("conflict")
                        ELSE IF total + call[c].units > Limit THEN Rejected("exceeded")
                        ELSE [code |-> "accepted", entries |-> new, row |-> made]
      BY <1>2, <1>5 DEF reserveUsage
    <2> HIDE DEF total, new, made
    <2>2. ~(total + call[c].units > Limit)
          /\ Decision(c) = [code |-> "accepted", entries |-> new, row |-> made]
      BY <1>3, <2>1
    <2>3. made # NoRow
      BY DEF made, NoRow
    <2>4. reservation[call[c].res] = NoRow
      BY <1>1, <1>5, <2>2, <2>3 DEF RowsUnchanged
    <2>5. UsageNumbered(UsageAt(call[c].scope)) /\ call[c].scope \in Scopes
      BY DEF UsageInv, UsageWithin, UsageCalls, UsageCall
    <2>6. total \in Int
      <3> DEFINE R == {e \in call[c].entries : e.scope = call[c].scope}
      <3>1. R \in SUBSET UsageAt(call[c].scope)
        BY DEF UsageInv, UsageCalls, UsageCall, UsageAt
      <3>2. Charged(R)
        BY <2>5, <3>1, FS_Subset DEF UsageNumbered, Charged
      <3>3. total = SumUnits(R)
        BY DEF total, usageTotal
      <3> QED
        BY <3>2, <3>3, SumOfSome
    <2>7. total + call[c].units <= Limit
      BY <1>1, <2>2, <2>6 DEF UsageConstants
    <2> QED
      BY <2>2, <2>4, <2>7 DEF UsageMakes, total, new, made
  <1> QED
    BY <1>4, <1>5

\* A settlement that is accepted is made now or was made before.
LEMMA UsageSettles ==
    ASSUME UsageConstants, UsageInv, NEW c \in Callers, call[c].at = "write", call[c].kind # "reserve",
           Decision(c).code = "accepted", RowsUnchanged(c)
    PROVE  UsageRepeats(c) \/ UsageReleases(c) \/ UsageFinalizes(c)
  <1> DEFINE found == call[c].rows[call[c].res]
             back == Entry(c, call[c].kind, -found.units, nextSequence(c))
             used == Entry(c, "commit", call[c].units, nextSequence(c) + 1)
             added == {back} \cup IF call[c].kind = "finalize" THEN {used} ELSE {}
             made == [found EXCEPT !.revision = 2,
                                   !.status = IF call[c].kind = "finalize" THEN "FINALIZED" ELSE "RELEASED"]
  <1>1. call[c].res \in Reservations /\ call[c].kind \in {"release", "finalize"}
    BY DEF UsageInv, UsageCalls, UsageCall, Kinds
  <1>2. Decision(c) = settleReservation(c)
    BY DEF Decision
  <1>3. Rejected("invalid").code # "accepted" /\ Rejected("conflict").code # "accepted"
    BY DEF Rejected
  <1>4. found # NoRow
    BY <1>2, <1>3 DEF settleReservation
  <1>5. reservation[call[c].res] = found
    BY <1>1, <1>4 DEF RowsUnchanged
  <1>6. CASE found.status # "ACTIVE"
    <2>1. Decision(c) = [code |-> "accepted", entries |-> {}, row |-> found]
      BY <1>2, <1>3, <1>4, <1>6 DEF settleReservation
    <2> QED
      BY <1>5, <2>1 DEF UsageRepeats
  <1>7. CASE found.status = "ACTIVE"
    <2>1. Decision(c) = IF call[c].kind = "finalize"
              /\ call[c].units > found.units THEN Rejected("invalid")
                        ELSE IF hasKey(c) THEN Rejected("conflict")
                        ELSE [code |-> "accepted", entries |-> added, row |-> made]
      BY <1>2, <1>4, <1>7, Zenon DEF settleReservation
    <2> HIDE DEF added, made
    <2>2. ~(call[c].kind = "finalize" /\ call[c].units > found.units)
          /\ Decision(c) = [code |-> "accepted", entries |-> added, row |-> made]
      BY <1>3, <2>1
    <2>3. Decision(c).entries = added /\ Decision(c).row = made
      BY <2>2
    <2>4. CASE call[c].kind = "release"
      <3>1. added = {Entry(c, "release", -reservation[call[c].res].units, nextSequence(c))}
        BY <1>5, <2>4, Zenon DEF added
      <3>2. made = [reservation[call[c].res] EXCEPT !.revision = 2, !.status = "RELEASED"]
        BY <1>5, <2>4 DEF made
      <3> QED
        BY <1>4, <1>5, <1>7, <2>3, <2>4, <3>1, <3>2 DEF UsageReleases
    <2>5. CASE call[c].kind = "finalize"
      <3>1. added = {Entry(c, "finalize", -reservation[call[c].res].units, nextSequence(c)), used}
        BY <1>5, <2>5 DEF added
      <3>2. made = [reservation[call[c].res] EXCEPT !.revision = 2, !.status = "FINALIZED"]
        BY <1>5, <2>5 DEF made
      <3>3. call[c].units \in Nat /\ found \in Row \cup {NoRow}
        BY <1>1 DEF UsageInv, UsageCalls, UsageCall, UsageConstants
      <3>4. found.units \in Nat
        BY <1>4, <3>3 DEF Row
      <3>5. call[c].units <= found.units
        BY <2>2, <2>5, <3>3, <3>4
      <3> QED
        BY <1>4, <1>5, <1>7, <2>3, <2>5, <3>1, <3>2, <3>5 DEF UsageFinalizes
    <2> QED
      BY <1>1, <2>4, <2>5
  <1> QED
    BY <1>6, <1>7

\* A process that has nothing to do.
LEMMA UsageIdle == ASSUME UsageConstants PROVE UsageCall(Idle) /\ UsageCall(Idle)'
  <1>1. Idle.rows \in [Reservations -> Row \cup {NoRow}] /\ Idle.entries = {} /\ Idle.at = "idle"
        /\ Idle.kind = "reserve" /\ Idle.res = "none" /\ Idle.units = 1 /\ Idle.scope = <<>>
    BY DEF Idle
  <1>2. <<>> \in Scopes /\ 1 \in 1 .. MaxUnits
    BY DEF Scopes, UsageConstants
  <1> QED
    BY <1>1, <1>2 DEF UsageCall, Kinds

\* The callers, when one of them has done something and the ledger has not lost anything.
LEMMA UsageCallersGoOn ==
    ASSUME UsageInv, NEW c \in Callers, NEW k, call' = [call EXCEPT ![c] = k], UsageCall(k)',
           ledger \subseteq ledger'
    PROVE  UsageCalls'
  <1>1. call' = [d \in Callers |-> call'[d]]
    BY DEF UsageInv, UsageCalls
  <1>2. ASSUME NEW d \in Callers PROVE UsageCall(call[d])'
    <2>1. CASE d = c
      BY <2>1, <1>1 DEF UsageInv, UsageCalls
    <2>2. CASE d # c
      <3>1. call'[d] = call[d]
        BY <2>2
      <3>2. UsageCall(call[d])
        BY DEF UsageInv, UsageCalls
      <3> QED
        BY <3>1, <3>2 DEF UsageCall
    <2> QED
      BY <2>1, <2>2
  <1> QED
    BY <1>1, <1>2 DEF UsageCalls

\* The invariant, when rows and entries stay.
LEMMA UsageStays ==
    ASSUME UsageInv, UNCHANGED <<home, ledger, reservation>>, UsageCalls' PROVE UsageInv'
  <1>1. UsageTyped'
    BY DEF UsageInv, UsageTyped
  <1>2. ASSUME NEW s \in Scopes PROVE UsageWithin(s)'
    <2>1. UsageWithin(s) /\ UsageAt(s)' = UsageAt(s)
      BY DEF UsageInv, UsageAt
    <2> QED
      BY <2>1 DEF UsageWithin
  <1>3. ASSUME NEW r \in Reservations PROVE UsageStory(r)'
    <2>1. UsageStory(r) /\ UsageOf(r)' = UsageOf(r) /\ reservation' = reservation
      BY DEF UsageInv, UsageOf
    <2> QED
      BY <2>1 DEF UsageStory
  <1> QED
    BY <1>1, <1>2, <1>3 DEF UsageInv

\* The invariant, when entries for one reservation are added and its row is written: the numbers,
\* the sum and the story remain to be shown.
LEMMA UsageWrites ==
    ASSUME UsageInv, UsageCalls', NEW s \in Scopes, NEW r \in Reservations, NEW E, IsFiniteSet(E),
        NEW row \in Row,
           ledger' = ledger \cup E, \A e \in E : e \in Entries /\ e.scope = s /\ e.res = r,
           reservation' = [reservation EXCEPT ![r] = row], home' = home,
           UsageNumbered(UsageAt(s) \cup E), SumUnits(UsageAt(s) \cup E) <= Limit,
           UsageTale(row, UsageOf(r) \cup E)
    PROVE  UsageInv'
  <1>1. UsageTyped'
    <2>1. IsFiniteSet(ledger \cup E)
      BY FS_Union DEF UsageInv, UsageTyped
    <2> QED
      BY <2>1 DEF UsageInv, UsageTyped
  <1>2. ASSUME NEW t \in Scopes PROVE UsageWithin(t)'
    <2>1. CASE t = s
      <3>1. UsageAt(t)' = UsageAt(s) \cup E
        BY <2>1 DEF UsageAt
      <3> QED
        BY <3>1 DEF UsageWithin
    <2>2. CASE t # s
      <3>1. UsageAt(t)' = UsageAt(t)
        BY <2>2 DEF UsageAt
      <3>2. UsageWithin(t)
        BY DEF UsageInv
      <3> QED
        BY <3>1, <3>2 DEF UsageWithin
    <2> QED
      BY <2>1, <2>2
  <1>3. ASSUME NEW q \in Reservations PROVE UsageStory(q)'
    <2>1. CASE q = r
      <3>1. UsageOf(q)' = UsageOf(r) \cup E /\ reservation'[q] = row
        BY <2>1 DEF UsageOf, UsageInv, UsageTyped
      <3> QED
        BY <3>1 DEF UsageStory
    <2>2. CASE q # r
      <3>1. UsageOf(q)' = UsageOf(q)
        BY <2>2 DEF UsageOf
      <3>2. reservation'[q] = reservation[q]
        BY <2>2 DEF UsageInv, UsageTyped
      <3>3. UsageStory(q)
        BY DEF UsageInv
      <3> QED
        BY <3>1, <3>2, <3>3 DEF UsageStory
    <2> QED
      BY <2>1, <2>2
  <1> QED
    BY <1>1, <1>2, <1>3 DEF UsageInv

\* A transaction commits: its number is free, so nothing was added to its scope since it has read, and
\* what it has checked against the limit is the whole.
LEMMA UsagePersists == ASSUME UsageConstants, UsageInv, NEW c \in Callers, Persist(c) PROVE UsageInv'
  <1> PICK s, r, units : s = call[c].scope /\ r = call[c].res /\ units = call[c].units
    OBVIOUS
  <1>1. /\ s \in Scopes /\ r \in Reservations /\ units \in 1 .. MaxUnits /\ units \in Nat \ {0}
        /\ reservation[r] \in Row \cup {NoRow}
    BY DEF Persist, UsageInv, UsageCalls, UsageCall, UsageTyped, UsageConstants
  <1>2. UsageCalls'
    <2>1. ledger \subseteq ledger' /\ call' = [call EXCEPT ![c] = Idle]
      BY DEF Persist
    <2> QED
      BY <2>1, UsageIdle, UsageCallersGoOn
  <1>3. home' = home /\ ledger' = ledger \cup Decision(c).entries
        /\ reservation' = [reservation EXCEPT ![r] = Decision(c).row]
        /\ Decision(c).code = "accepted" /\ RowsUnchanged(c) /\ SequenceFree(Decision(c).entries)
    BY DEF Persist, Persistable
  <1>4. CASE UsageRepeats(c)
    <2>1. ledger' = ledger
      BY <1>3, <1>4 DEF UsageRepeats
    <2>2. reservation' = reservation
      BY <1>3, <1>4 DEF UsageRepeats, UsageInv, UsageTyped
    <2> QED
      BY <1>2, <1>3, <2>1, <2>2, UsageStays
  <1>5. UsageNumbered(UsageAt(s)) /\ SumUnits(UsageAt(s)) <= Limit /\ UsageStory(r)
        /\ UsageNumbered(UsageAt(s)) /\ SumUnits(UsageAt(s)) \in Int /\ Cardinality(UsageAt(s)) \in Nat
    <2>1. UsageWithin(s) /\ UsageStory(r)
      BY <1>1 DEF UsageInv
    <2> QED
      BY <2>1, SumOfSome, FS_CardinalityType DEF UsageWithin, UsageNumbered, Charged
  <1>6. ASSUME NEW e \in Decision(c).entries, e.scope = s, e.seq = nextSequence(c)
        PROVE  /\ nextSequence(c) = Cardinality(UsageAt(s)) + 1
               /\ usageTotal(call[c].entries, s) = SumUnits(UsageAt(s))
    <2>1. \A f \in ledger : f.scope = call[c].scope => f.seq # nextSequence(c)
      BY <1>3, <1>6 DEF SequenceFree
    <2> QED
      BY <2>1, UsageReadsAll
  <1>7. ASSUME NEW e \in Decision(c).entries, e.scope = s PROVE e \notin ledger
    BY <1>3, <1>7 DEF SequenceFree
  <1>8. ASSUME NEW kind \in EntryKinds, NEW n \in Int, NEW q \in Nat \ {0}
        PROVE  LET e == Entry(c, kind, n, q)
               IN /\ e \in Entries /\ e.scope = s /\ e.res = r /\ e.kind = kind
                  /\ e.units = n /\ e.seq = q
    BY <1>1 DEF Entry, Entries
  <1>9. CASE UsageMakes(c)
    <2> PICK e : e = Entry(c, "reserve", units, nextSequence(c))
      OBVIOUS
    <2>1. e \in Decision(c).entries /\ Decision(c).entries = {e}
      BY <1>9 DEF UsageMakes
    <2>2. e.scope = s /\ e.seq = nextSequence(c)
      BY DEF Entry
    <2>3. nextSequence(c) = Cardinality(UsageAt(s)) + 1 /\ usageTotal(call[c].entries,
              s) = SumUnits(UsageAt(s))
      BY <1>6, <2>1, <2>2
    <2>4. e \in Entries /\ e.res = r /\ e.kind = "reserve" /\ e.units = units
      BY <1>1, <1>5, <1>8, <2>3 DEF EntryKinds, Kinds
    <2>5. e \notin UsageAt(s)
      BY <1>7, <2>1, <2>2 DEF UsageAt
    <2>6. UsageNumbered(UsageAt(s) \cup {e})
              /\ SumUnits(UsageAt(s) \cup {e}) = SumUnits(UsageAt(s)) + units
      BY <1>1, <1>5, <2>2, <2>3, <2>4, <2>5, UsageNumbersOn
    <2>7. SumUnits(UsageAt(s) \cup {e}) <= Limit
      BY <1>9, <2>3, <2>6 DEF UsageMakes
    <2> PICK row : row = [scope |-> s, units |-> units, status |-> "ACTIVE", revision |-> 1]
      OBVIOUS
    <2>8. row \in Row /\ Decision(c).row = row
      BY <1>1, <1>9 DEF UsageMakes, Row
    <2>9. UsageTale(row, UsageOf(r) \cup {e})
      <3>1. UsageOf(r) = {}
        BY <1>5, <1>9 DEF UsageMakes, UsageStory, UsageTale, NoRow
      <3>3. UsageOf(r) \cup {e} = {e}
        BY <3>1
      <3>5. row # NoRow /\ row.status = "ACTIVE" /\ row.units = units
        BY DEF NoRow
      <3> QED
        BY <2>4, <3>3, <3>5 DEF UsageTale
    <2> QED
      <3> PICK E : E = {e}
        OBVIOUS
      <3>1. ledger' = ledger \cup E /\ reservation' = [reservation EXCEPT ![r] = row] /\ home' = home
        BY <1>3, <2>1, <2>8
      <3>2. IsFiniteSet(E) /\ \A d \in E : d \in Entries /\ d.scope = s /\ d.res = r
        BY <2>2, <2>4, FS_Singleton
      <3>3. UsageNumbered(UsageAt(s) \cup E) /\ SumUnits(UsageAt(s) \cup E) <= Limit /\ UsageTale(row,
                UsageOf(r) \cup E)
        BY <2>6, <2>7, <2>9
      <3> QED
        BY <1>1, <1>2, <2>8, <3>1, <3>2, <3>3, UsageWrites
  <1>10. CASE UsageReleases(c)
    <2> PICK old : old = reservation[r]
      OBVIOUS
    <2> PICK e : e = Entry(c, "release", -old.units, nextSequence(c))
      OBVIOUS
    <2>1. e \in Decision(c).entries /\ Decision(c).entries = {e} /\ old \in Row /\ old.status = "ACTIVE"
      BY <1>1, <1>10 DEF UsageReleases
    <2>2. e.scope = s /\ e.seq = nextSequence(c) /\ old.units \in Nat
      BY <2>1 DEF Entry, Row
    <2>3. nextSequence(c) = Cardinality(UsageAt(s)) + 1
      BY <1>6, <2>1, <2>2
    <2>4. e \in Entries /\ e.res = r /\ e.kind = "release" /\ e.units = -old.units
      BY <1>1, <1>5, <1>8, <2>2, <2>3 DEF EntryKinds, Kinds
    <2>5. e \notin UsageAt(s)
      BY <1>7, <2>1, <2>2 DEF UsageAt
    <2>6. UsageNumbered(UsageAt(s) \cup {e})
              /\ SumUnits(UsageAt(s) \cup {e}) = SumUnits(UsageAt(s)) + -old.units
      BY <1>1, <1>5, <2>2, <2>3, <2>4, <2>5, UsageNumbersOn
    <2>7. SumUnits(UsageAt(s) \cup {e}) <= Limit
      <3> PICK sum : sum = SumUnits(UsageAt(s))
        OBVIOUS
      <3>1. sum \in Int /\ sum <= Limit /\ SumUnits(UsageAt(s) \cup {e}) = sum + -old.units
        BY <1>5, <2>6
      <3> QED
        BY <2>2, <3>1 DEF UsageConstants
    <2>13. PICK row : row = [old EXCEPT !.revision = 2, !.status = "RELEASED"]
      OBVIOUS
    <2>8. row \in Row /\ Decision(c).row = row
      BY <1>10, <2>1, <2>13 DEF UsageReleases, Row
    <2>9. UsageTale(row, UsageOf(r) \cup {e})
      <3>1. PICK d : UsageOf(r) = {d} /\ d.kind = "reserve" /\ d.units = old.units
        BY <1>5, <2>1 DEF UsageStory, UsageTale, NoRow
      <3>3. UsageOf(r) \cup {e} = {d, e}
        BY <3>1
      <3>5. row # NoRow /\ row.status = "RELEASED" /\ row.units = old.units
        BY <2>1, <2>13 DEF NoRow, Row
      <3> QED
        BY <2>4, <3>1, <3>3, <3>5 DEF UsageTale
    <2> QED
      <3> PICK E : E = {e}
        OBVIOUS
      <3>1. ledger' = ledger \cup E /\ reservation' = [reservation EXCEPT ![r] = row] /\ home' = home
        BY <1>3, <2>1, <2>8
      <3>2. IsFiniteSet(E) /\ \A d \in E : d \in Entries /\ d.scope = s /\ d.res = r
        BY <2>2, <2>4, FS_Singleton
      <3>3. UsageNumbered(UsageAt(s) \cup E) /\ SumUnits(UsageAt(s) \cup E) <= Limit /\ UsageTale(row,
                UsageOf(r) \cup E)
        BY <2>6, <2>7, <2>9
      <3> QED
        BY <1>1, <1>2, <2>8, <3>1, <3>2, <3>3, UsageWrites
  <1>11. CASE UsageFinalizes(c)
    <2> PICK old : old = reservation[r]
      OBVIOUS
    <2> PICK e : e = Entry(c, "finalize", -old.units, nextSequence(c))
      OBVIOUS
    <2> PICK f : f = Entry(c, "commit", units, nextSequence(c) + 1)
      OBVIOUS
    <2>1. e \in Decision(c).entries /\ f \in Decision(c).entries /\ Decision(c).entries = {e, f}
          /\ old \in Row /\ old.status = "ACTIVE" /\ units <= old.units
      BY <1>1, <1>11 DEF UsageFinalizes
    <2>2. e.scope = s /\ e.seq = nextSequence(c) /\ old.units \in Nat /\ f.scope = s
      BY <2>1 DEF Entry, Row
    <2>3. nextSequence(c) = Cardinality(UsageAt(s)) + 1
      BY <1>6, <2>1, <2>2
    <2>4. e \in Entries /\ e.res = r /\ e.kind = "finalize" /\ e.units = -old.units
      BY <1>1, <1>5, <1>8, <2>2, <2>3 DEF EntryKinds, Kinds
    <2>5. f \in Entries /\ f.res = r /\ f.kind = "commit" /\ f.units = units
          /\ f.seq = Cardinality(UsageAt(s)) + 1 + 1
      BY <1>1, <1>5, <1>8, <2>2, <2>3 DEF EntryKinds, Kinds
    <2>14. PICK S : S = UsageAt(s) \cup {e}
      OBVIOUS
    <2>6. e \notin UsageAt(s) /\ f \notin S
      BY <1>7, <2>1, <2>2, <2>4, <2>5, <2>14 DEF UsageAt
    <2>7. UsageNumbered(S) /\ Cardinality(S) = Cardinality(UsageAt(s)) + 1
          /\ SumUnits(S) = SumUnits(UsageAt(s)) + -old.units
      BY <1>1, <1>5, <2>2, <2>3, <2>4, <2>6, <2>14, UsageNumbersOn
    <2>8. UsageNumbered(S \cup {f}) /\ SumUnits(S \cup {f}) = SumUnits(S) + units
      BY <1>1, <2>5, <2>6, <2>7, UsageNumbersOn
    <2>9. SumUnits(S \cup {f}) <= Limit
      <3> PICK sum : sum = SumUnits(UsageAt(s))
        OBVIOUS
      <3>1. sum \in Int /\ sum <= Limit /\ SumUnits(S \cup {f}) = (sum + -old.units) + units
        BY <1>5, <2>7, <2>8
      <3> QED
        BY <1>1, <2>1, <2>2, <3>1 DEF UsageConstants
    <2>10. S \cup {f} = UsageAt(s) \cup {e, f}
      BY <2>14
    <2>13. PICK row : row = [old EXCEPT !.revision = 2, !.status = "FINALIZED"]
      OBVIOUS
    <2>11. row \in Row /\ Decision(c).row = row
      BY <1>11, <2>1, <2>13 DEF UsageFinalizes, Row
    <2>12. UsageTale(row, UsageOf(r) \cup {e, f})
      <3>1. PICK d : UsageOf(r) = {d} /\ d.kind = "reserve" /\ d.units = old.units
        BY <1>5, <2>1 DEF UsageStory, UsageTale, NoRow
      <3>3. UsageOf(r) \cup {e, f} = {d, e, f}
        BY <3>1
      <3>5. row # NoRow /\ row.status = "FINALIZED" /\ row.units = old.units
        BY <2>1, <2>13 DEF NoRow, Row
      <3>6. f.units \in 1 .. row.units
        BY <1>1, <2>1, <2>2, <2>5, <3>5
      <3> QED
        BY <2>4, <2>5, <3>1, <3>3, <3>5, <3>6 DEF UsageTale
    <2> QED
      <3>4. PICK E : E = {e, f}
        OBVIOUS
      <3>1. ledger' = ledger \cup E /\ reservation' = [reservation EXCEPT ![r] = row] /\ home' = home
        BY <1>3, <2>1, <2>11, <3>4
      <3>2. IsFiniteSet(E) /\ \A d \in E : d \in Entries /\ d.scope = s /\ d.res = r
        <4>1. E = {e} \cup {f}
          BY <3>4
        <4>2. IsFiniteSet({e}) /\ IsFiniteSet({f})
          BY FS_Singleton
        <4>3. IsFiniteSet(E)
          BY <4>1, <4>2, FS_Union
        <4> QED
          BY <2>2, <2>4, <2>5, <3>4, <4>3
      <3>3. UsageNumbered(UsageAt(s) \cup E) /\ SumUnits(UsageAt(s) \cup E) <= Limit /\ UsageTale(row,
                UsageOf(r) \cup E)
        BY <2>8, <2>9, <2>10, <2>12, <3>4
      <3> QED
        BY <1>1, <1>2, <2>11, <3>1, <3>2, <3>3, UsageWrites
  <1>12. call[c].at = "write"
    BY DEF Persist
  <1> QED
    BY <1>3, <1>4, <1>9, <1>10, <1>11, <1>12, UsageReserves, UsageSettles

\* Every step keeps the invariant.
LEMMA UsageStep == ASSUME UsageConstants, UsageInv, [Next]_vars PROVE UsageInv'
  <1>1. ASSUME NEW c \in Callers, NEW kind \in Kinds, NEW r \in Reservations,
            NEW units \in 1 .. MaxUnits,
               Begin(c, kind, r, units)
        PROVE  UsageInv'
    <2> PICK k : k = [Idle EXCEPT !.at = "entries", !.kind = kind, !.res = r, !.scope = home[r],
            !.units = units]
      OBVIOUS
    <2>1. /\ k.at = "entries" /\ k.kind = kind /\ k.res = r /\ k.scope = home[r] /\ k.units = units
          /\ k.entries = {} /\ k.rows = [q \in Reservations |-> NoRow]
      BY DEF Idle
    <2>2. home[r] \in Scopes
      BY DEF UsageInv, UsageTyped, Callable
    <2>3. UsageCall(k)'
      BY <2>1, <2>2 DEF UsageCall
    <2>4. call' = [call EXCEPT ![c] = k] /\ UNCHANGED <<home, ledger, reservation>>
      BY <1>1 DEF Begin
    <2>5. UsageCalls'
      BY <2>3, <2>4, UsageCallersGoOn
    <2> QED
      BY <2>4, <2>5, UsageStays
  <1>2. ASSUME NEW c \in Callers, ListEntries(c) PROVE UsageInv'
    <2> PICK k : k = [call[c] EXCEPT !.at = "rows",
            !.entries = {e \in ledger : e.scope \in Visible(call[c].scope)}]
      OBVIOUS
    <2>1. call' = [call EXCEPT ![c] = k] /\ UNCHANGED <<home, ledger, reservation>>
              /\ call[c].at = "entries"
      BY <1>2 DEF ListEntries
    <2>2. UsageCall(call[c])
      BY DEF UsageInv, UsageCalls
    <2>3. k.at = "rows" /\ k.entries \subseteq ledger /\ k.kind = call[c].kind /\ k.res = call[c].res
          /\ k.scope = call[c].scope /\ k.units = call[c].units /\ k.rows = call[c].rows
      BY <2>2
    <2>4. UsageCall(k)'
      BY <2>1, <2>2, <2>3 DEF UsageCall
    <2>5. UsageCalls'
      BY <2>1, <2>4, UsageCallersGoOn
    <2> QED
      BY <2>1, <2>5, UsageStays
  <1>3. ASSUME NEW c \in Callers, ListReservations(c) PROVE UsageInv'
    <2> PICK rows : rows = [r \in Reservations |->
                                IF reservation[r].scope \in Visible(call[c].scope)
                                THEN reservation[r] ELSE NoRow]
      OBVIOUS
    <2> PICK k : k = [call[c] EXCEPT !.at = "write", !.rows = rows]
      OBVIOUS
    <2>1. call' = [call EXCEPT ![c] = k] /\ UNCHANGED <<home, ledger, reservation>>
              /\ call[c].at = "rows"
      BY <1>3 DEF ListReservations
    <2>2. UsageCall(call[c]) /\ rows \in [Reservations -> Row \cup {NoRow}]
      BY DEF UsageInv, UsageCalls, UsageTyped
    <2>3. k.at = "write" /\ k.entries = call[c].entries /\ k.kind = call[c].kind /\ k.res = call[c].res
          /\ k.scope = call[c].scope /\ k.units = call[c].units /\ k.rows = rows
      BY <2>2
    <2>4. UsageCall(k)'
      BY <2>1, <2>2, <2>3 DEF UsageCall
    <2>5. UsageCalls'
      BY <2>1, <2>4, UsageCallersGoOn
    <2> QED
      BY <2>1, <2>5, UsageStays
  <1>4. ASSUME NEW c \in Callers, Reject(c) \/ Throw(c) PROVE UsageInv'
    <2>1. call' = [call EXCEPT ![c] = Idle] /\ UNCHANGED <<home, ledger, reservation>>
      BY <1>4 DEF Reject, Throw
    <2>2. UsageCalls'
      BY <2>1, UsageIdle, UsageCallersGoOn
    <2> QED
      BY <2>1, <2>2, UsageStays
  <1>5. ASSUME (\E s \in Scopes : summary(s)) \/ ReadUsed \/ ReadHeld \/ UNCHANGED vars PROVE UsageInv'
    <2>1. UNCHANGED <<home, ledger, reservation, call>>
      BY <1>5 DEF summary, ReadUsed, ReadHeld, vars
    <2>2. UsageCalls'
      BY <2>1 DEF UsageInv, UsageCalls, UsageCall
    <2> QED
      BY <2>1, <2>2, UsageStays
  <1> QED
    BY <1>1, <1>2, <1>3, <1>4, <1>5, UsagePersists DEF Next

\* At first nothing is reserved.
LEMMA UsageInit == ASSUME UsageConstants, Init PROVE UsageInv
  <1>1. ledger = {} /\ reservation = [r \in Reservations |-> NoRow] /\ call = [c \in Callers |-> Idle]
        /\ home \in [Reservations -> Callable]
    BY DEF Init
  <1>2. UsageTyped
    BY <1>1, FS_EmptySet DEF UsageTyped
  <1>3. UsageCalls
    BY <1>1, UsageIdle DEF UsageCalls
  <1>4. ASSUME NEW s \in Scopes PROVE UsageWithin(s)
    <2>1. UsageAt(s) = {}
      BY <1>1 DEF UsageAt
    <2>2. Charged({}) /\ SumUnits({}) = 0 /\ Cardinality({}) = 0
      BY SmallSums, FS_EmptySet
    <2>3. 0 <= Limit
      BY DEF UsageConstants
    <2> QED
      BY <2>1, <2>2, <2>3 DEF UsageWithin, UsageNumbered
  <1>5. ASSUME NEW r \in Reservations PROVE UsageStory(r)
    <2>1. UsageOf(r) = {} /\ reservation[r] = NoRow
      BY <1>1 DEF UsageOf
    <2> QED
      BY <2>1 DEF UsageStory, UsageTale
  <1> QED
    BY <1>2, <1>3, <1>4, <1>5 DEF UsageInv

\* The invariant says that the quota holds and that ledger and reservations agree.
LEMMA UsageHolds == UsageInv => NotOversubscribed /\ LedgerAgrees
  <1> SUFFICES ASSUME UsageInv PROVE NotOversubscribed /\ LedgerAgrees
    OBVIOUS
  <1>1. NotOversubscribed
    <2>1. ASSUME NEW s \in Scopes PROVE usageTotal(ledger, s) <= Limit
      <3>1. usageTotal(ledger, s) = SumUnits(UsageAt(s))
        BY DEF usageTotal, UsageAt
      <3>2. SumUnits(UsageAt(s)) <= Limit
        BY DEF UsageInv, UsageWithin
      <3> QED
        BY <3>1, <3>2
    <2> QED
      BY <2>1 DEF NotOversubscribed
  <1>2. ASSUME NEW r \in Reservations
        PROVE  /\ SumUnits(UsageOf(r) \ Committed(UsageOf(r)))
                  = IF reservation[r].status = "ACTIVE" THEN reservation[r].units ELSE 0
               /\ Cardinality(Committed(UsageOf(r))) = IF reservation[r].status = "FINALIZED" THEN 1 ELSE 0
               /\ SumUnits(Committed(UsageOf(r))) <= reservation[r].units
    <2> PICK row, all, used : row = reservation[r] /\ all = UsageOf(r) /\ used = Committed(all)
      OBVIOUS
    <2>1. UsageTale(row, all) /\ row \in Row \cup {NoRow}
      BY DEF UsageInv, UsageTyped, UsageStory
    <2>2. NoRow.status = "NONE" /\ NoRow.units = 0
      BY DEF NoRow
    <2>3. SumUnits({}) = 0 /\ Cardinality({}) = 0
      BY SmallSums, FS_EmptySet
    <2>4. CASE row = NoRow /\ all = {}
      <3>1. used = {} /\ all \ used = {}
        BY <2>4 DEF Committed
      <3> QED
        BY <2>2, <2>3, <2>4, <3>1
    <2>5. row # NoRow => row \in Row /\ row.units \in Nat
      BY <2>1 DEF Row
    <2>6. CASE row # NoRow /\ row.status = "ACTIVE"
      <3>1. PICK e : all = {e} /\ e.kind = "reserve" /\ e.units = row.units
        BY <2>1, <2>6, <2>2 DEF UsageTale
      <3>2. used = {} /\ all \ used = {e}
        BY <3>1 DEF Committed
      <3>3. SumUnits({e}) = row.units
        <4>1. e.units \in Int
          BY <2>5, <2>6, <3>1
        <4> QED
          BY <3>1, <4>1, SmallSums
      <3>4. 0 <= row.units
        BY <2>5, <2>6
      <3> QED
        BY <2>3, <2>6, <3>2, <3>3, <3>4
    <2>7. CASE row # NoRow /\ row.status = "RELEASED"
      <3>1. PICK e, f : all = {e, f} /\ e.kind = "reserve" /\ e.units = row.units
                        /\ f.kind = "release" /\ f.units = -row.units
        BY <2>1, <2>7, <2>2 DEF UsageTale
      <3>2. used = {} /\ all \ used = {e, f} /\ e # f
        BY <3>1 DEF Committed
      <3>3. SumUnits({e, f}) = row.units + -row.units
        <4>1. e.units \in Int /\ f.units \in Int
          BY <2>5, <2>7, <3>1
        <4>2. SumUnits({e, f}) = e.units + f.units
          BY <3>2, <4>1, SmallSums
        <4> QED
          BY <3>1, <4>2
      <3>4. 0 <= row.units /\ row.units + -row.units = 0
        BY <2>5, <2>7
      <3> QED
        BY <2>3, <2>7, <3>2, <3>3, <3>4
    <2>8. CASE row # NoRow /\ row.status = "FINALIZED"
      <3>1. PICK e, f, g : /\ all = {e, f, g}
                           /\ e.kind = "reserve" /\ e.units = row.units
                           /\ f.kind = "finalize" /\ f.units = -row.units
                           /\ g.kind = "commit" /\ g.units \in 1 .. row.units
        BY <2>1, <2>8, <2>2 DEF UsageTale
      <3>2. used = {g} /\ all \ used = {e, f} /\ e # f
        BY <3>1 DEF Committed
      <3>3. SumUnits({e, f}) = row.units + -row.units
        <4>1. e.units \in Int /\ f.units \in Int
          BY <2>5, <2>8, <3>1
        <4>2. SumUnits({e, f}) = e.units + f.units
          BY <3>2, <4>1, SmallSums
        <4> QED
          BY <3>1, <4>2
      <3>4. row.units + -row.units = 0 /\ g.units \in Int /\ g.units <= row.units
        BY <2>5, <2>8, <3>1
      <3>5. SumUnits({g}) = g.units /\ Cardinality({g}) = 1
        BY <3>4, SmallSums, FS_Singleton
      <3> QED
        BY <2>8, <3>2, <3>3, <3>4, <3>5
    <2> QED
      BY <2>1, <2>4, <2>6, <2>7, <2>8 DEF UsageTale
  <1>3. LedgerAgrees
    BY <1>2, Zenon DEF LedgerAgrees, UsageOf
  <1> QED
    BY <1>1, <1>3

\* The function that the units held are summed with.
HeldBy(h, S, rows) ==
    h = [T \in SUBSET S |-> IF T = {} THEN 0
         ELSE rows[CHOOSE e \in T : TRUE].units + h[T \ {CHOOSE e \in T : TRUE}]]

\* The units that are held, summed alike.
LEMMA HeldIsNatural ==
    ASSUME NEW rows, NEW scopes, NEW S,
           S = {r \in Reservations : rows[r].status = "ACTIVE" /\ rows[r].scope \in scopes},
           IsFiniteSet(S), \A r \in S : rows[r].units \in Nat
    PROVE  HeldUnits(rows, scopes) \in Nat
  <1> DEFINE u == [r \in S |-> rows[r].units]
             h == CHOOSE g : HeldBy(g, S, rows)
  <1>1. HeldUnits(rows, scopes) = h[S]
    BY Zenon DEF HeldUnits, MapThenSumSet, MapThenFoldSet, HeldBy
  <1>2. Summable(S, u) /\ \A r \in S : u[r] \in Nat
    BY DEF Summable
  <1>3. PICK f : Sums(f, S, u)
    <2> HIDE DEF u
    <2> QED
      BY <1>2, SumsExist
  <1>4. HeldBy(f, S, rows)
    <2>1. ASSUME NEW T \in SUBSET S, T # {}
          PROVE  f[T] = rows[CHOOSE e \in T : TRUE].units + f[T \ {CHOOSE e \in T : TRUE}]
      BY <1>3, <2>1 DEF Sums
    <2>2. f = [T \in SUBSET S |-> f[T]] /\ f[{}] = 0
      BY <1>3 DEF Sums
    <2> QED
      BY <2>1, <2>2, Zenon DEF HeldBy
  <1>5. HeldBy(h, S, rows)
    BY <1>4
  <1> HIDE DEF h
  <1>6. Iterates(h, S, u)
    <2>1. h[{}] = 0
      BY <1>5, {} \in SUBSET S, Zenon DEF HeldBy
    <2>2. ASSUME NEW T \in SUBSET S, T # {}
          PROVE  h[T] = u[CHOOSE e \in T : TRUE] + h[T \ {CHOOSE e \in T : TRUE}]
      <3>1. h[T] = rows[CHOOSE e \in T : TRUE].units + h[T \ {CHOOSE e \in T : TRUE}]
        BY <1>5, <2>2, Zenon DEF HeldBy
      <3>2. (CHOOSE e \in T : TRUE) \in S
        BY <2>2
      <3> QED
        BY <3>1, <3>2
    <2> HIDE DEF u
    <2> QED
      BY <2>1, <2>2, Zenon DEF Iterates
  <1> HIDE DEF u
  <1>7. h[S] = f[S] /\ f[S] \in Nat
    BY <1>2, <1>3, <1>6, IterationIsSum, SumsOfNaturals
  <1> QED
    BY <1>1, <1>7

\* What a summary reads are numbers.
LEMMA UsageReads ==
    ASSUME UsageInv, NEW scopes
    PROVE  UsedUnits(ledger, scopes) \in Nat /\ HeldUnits(reservation, scopes) \in Nat
  <1>1. UsedUnits(ledger, scopes) \in Nat
    <2> DEFINE S == {e \in Committed(ledger) : e.scope \in scopes}
    <2>1. IsFiniteSet(S)
      BY FS_Subset, S \in SUBSET ledger DEF Committed, UsageInv, UsageTyped
    <2>2. ASSUME NEW e \in S PROVE e.units \in Nat
      <3>1. e \in ledger /\ e.kind = "commit" /\ e.res \in Reservations /\ e \in UsageOf(e.res)
        BY DEF Committed, UsageInv, UsageTyped, Entries, UsageOf
      <3> PICK r, all, row : r = e.res /\ all = UsageOf(r) /\ row = reservation[r]
        OBVIOUS
      <3>2. UsageTale(row, all) /\ e \in all /\ row \in Row \cup {NoRow}
        BY <3>1 DEF UsageInv, UsageStory, UsageTyped
      <3>3. \E g : g = e /\ g.units \in 1 .. row.units
        BY <3>1, <3>2, Zenon DEF UsageTale
      <3> QED
        BY <3>2, <3>3 DEF Row, NoRow
    <2>3. Charged(S) /\ \A e \in S : e.units \in Nat
      BY <2>1, <2>2 DEF Charged
    <2> HIDE DEF S
    <2>4. SumUnits(S) \in Nat
      BY <2>3, SumOfSome
    <2> QED
      BY <2>4 DEF UsedUnits, S
  <1>2. HeldUnits(reservation, scopes) \in Nat
    <2> PICK S : S = {r \in Reservations : reservation[r].status = "ACTIVE"
            /\ reservation[r].scope \in scopes}
      OBVIOUS
    <2>1. ASSUME NEW r \in S PROVE reservation[r].units \in Nat /\ \E e \in ledger : e.res = r
      <3>1. r \in Reservations /\ reservation[r] \in Row /\ reservation[r] # NoRow
        BY DEF UsageInv, UsageTyped, NoRow
      <3>2. UsageTale(reservation[r], UsageOf(r))
        BY <3>1 DEF UsageInv, UsageStory
      <3>3. \E e : e \in UsageOf(r)
        BY <3>1, <3>2 DEF UsageTale
      <3> QED
        BY <3>1, <3>3 DEF UsageOf, Row
    <2>2. IsFiniteSet(S)
      <3> DEFINE T == {e \in ledger : e.res \in S}
                 f == [e \in T |-> e.res]
      <3>1. IsFiniteSet(T)
        BY FS_Subset, T \in SUBSET ledger DEF UsageInv, UsageTyped
      <3>2. f \in [T -> S] /\ \A r \in S : \E e \in T : f[e] = r
        BY <2>1
      <3>3. f \in Surjection(T, S)
        BY <3>2 DEF Surjection
      <3> QED
        BY <3>1, <3>3, FS_Surjection
    <2> QED
      BY <2>1, <2>2, HeldIsNatural
  <1> QED
    BY <1>1, <1>2

\* The types of what no other variable depends on.
UsageShown ==
    /\ answer \in [Callers -> {"none", "accepted", "conflict", "exceeded", "invalid", "failed"}]
    /\ view.scope \in Scopes /\ view.used \in Nat \cup {-1} /\ view.held \in Nat \cup {-1}
    /\ view = [scope |-> view.scope, used |-> view.used, held |-> view.held, since |-> view.since]
    /\ calls \in 0 .. MaxCalls

\* Every step keeps those types.
LEMMA UsageShows == ASSUME UsageConstants, UsageInv, UsageShown, [Next]_vars PROVE UsageShown'
  <1>1. ASSUME NEW c \in Callers, NEW kind \in Kinds, NEW r \in Reservations,
            NEW units \in 1 .. MaxUnits,
               Begin(c, kind, r, units)
        PROVE  UsageShown'
    BY <1>1 DEF Begin, UsageShown, UsageConstants
  <1>2. ASSUME NEW c \in Callers, ListEntries(c) \/ ListReservations(c) PROVE UsageShown'
    BY <1>2 DEF ListEntries, ListReservations, UsageShown
  <1>3. ASSUME NEW c \in Callers, Reject(c) PROVE UsageShown'
    <2>1. Decision(c).code \in {"accepted", "conflict", "exceeded", "invalid"}
      <3>1. \A code : Rejected(code).code = code
        BY DEF Rejected
      <3>2. reserveUsage(c).code \in {"accepted", "conflict", "exceeded"}
        BY <3>1 DEF reserveUsage
      <3>3. settleReservation(c).code \in {"accepted", "conflict", "invalid"}
        BY <3>1 DEF settleReservation
      <3> QED
        BY <3>2, <3>3 DEF Decision
    <2> QED
      BY <1>3, <2>1 DEF Reject, UsageShown
  <1>4. ASSUME NEW c \in Callers, Throw(c) PROVE UsageShown'
    BY <1>4 DEF Throw, UsageShown
  <1>5. ASSUME NEW c \in Callers, Persist(c) PROVE UsageShown'
    <2>1. \E since : view' = [view EXCEPT !.since = since]
      BY <1>5 DEF Persist
    <2>2. answer' = [answer EXCEPT ![c] = "accepted"] /\ calls' = calls
      BY <1>5 DEF Persist
    <2> QED
      BY <2>1, <2>2 DEF UsageShown
  <1>6. ASSUME NEW s \in Scopes, summary(s) PROVE UsageShown'
    <2>1. \E since : view' = [NoView EXCEPT !.scope = s, !.since = since]
      BY <1>6 DEF summary
    <2>2. answer' = answer /\ calls' = calls
      BY <1>6 DEF summary
    <2> QED
      BY <2>1, <2>2 DEF UsageShown, NoView
  <1>7. CASE ReadUsed
    <2>1. PICK n \in Nat : view' = [view EXCEPT !.used = n]
      BY <1>7, UsageReads DEF ReadUsed
    <2> QED
      BY <1>7, <2>1 DEF ReadUsed, UsageShown
  <1>8. CASE ReadHeld
    <2>1. PICK n \in Nat : view' = [view EXCEPT !.held = n]
      BY <1>8, UsageReads DEF ReadHeld
    <2> QED
      BY <1>8, <2>1 DEF ReadHeld, UsageShown
  <1>9. CASE UNCHANGED vars
    BY <1>9 DEF vars, UsageShown
  <1> QED
    BY <1>1, <1>2, <1>3, <1>4, <1>5, <1>6, <1>7, <1>8, <1>9 DEF Next

\* Both together are the types of the component.
LEMMA UsageTypes ==
    ASSUME UsageConstants PROVE (Init => UsageShown) /\ (UsageInv /\ UsageShown => TypeOK)
  <1>1. <<>> \in Scopes
    BY DEF Scopes
  <1>2. Init => UsageShown
    BY <1>1 DEF Init, UsageShown, NoView, UsageConstants
  <1> QED
    BY <1>2 DEF UsageInv, UsageShown, UsageTyped, UsageCalls, UsageCall, TypeOK

-----------------------------------------------------------------------------
(* What a reservation was settled with.                                    *)

\* An accepted decision about a reservation that was settled repeats its row and adds nothing.
LEMMA UsageReplays ==
    ASSUME NEW c \in Callers, Persist(c), NEW r \in Reservations, call[c].res = r,
           reservation[r].status \in {"FINALIZED", "RELEASED"}
    PROVE  Decision(c).row = reservation[r] /\ Decision(c).entries = {}
  <1> DEFINE found == call[c].rows[r]
  <1>1. Decision(c).code = "accepted" /\ RowsUnchanged(c)
    BY DEF Persist, Persistable
  <1>2. reservation[r] # NoRow
    BY DEF NoRow
  <1>3. found # NoRow => reservation[r] = found
    BY <1>1 DEF RowsUnchanged
  <1>4. Decision(c).row # NoRow => found # NoRow
    BY <1>1, <1>2 DEF RowsUnchanged
  <1>5. CASE call[c].kind = "reserve"
    <2>1. Decision(c) = reserveUsage(c)
      BY <1>5 DEF Decision
    <2>2. CASE found # NoRow
      <3>1. Decision(c) = [code |-> "accepted", entries |-> {}, row |-> found]
        BY <1>1, <2>1, <2>2 DEF reserveUsage, Rejected
      <3> QED
        BY <1>3, <2>2, <3>1
    <2>3. CASE found = NoRow
      <3> DEFINE made == [scope |-> call[c].scope, units |-> call[c].units, status |-> "ACTIVE",
              revision |-> 1]
                 new == {Entry(c, "reserve", call[c].units, nextSequence(c))}
      <3>1. Decision(c) = [code |-> "accepted", entries |-> new, row |-> made]
        <4> DEFINE full == usageTotal(call[c].entries,
                call[c].scope) + call[c].units > Limit
        <4>1. reserveUsage(c) = IF hasKey(c) THEN Rejected("conflict")
                                ELSE IF full THEN Rejected("exceeded")
                                ELSE [code |-> "accepted", entries |-> new, row |-> made]
          BY <2>3 DEF reserveUsage
        <4>2. Rejected("conflict").code # "accepted"
                  /\ Rejected("exceeded").code # "accepted"
          BY DEF Rejected
        <4> HIDE DEF full, new, made
        <4> QED
          BY <1>1, <2>1, <4>1, <4>2
      <3>2. made.status = "ACTIVE" /\ NoRow.status = "NONE"
        BY DEF NoRow
      <3>3. Decision(c).row = made
        BY <3>1
      <3> QED
        BY <1>4, <2>3, <3>2, <3>3
    <2> QED
      BY <2>2, <2>3
  <1>6. CASE call[c].kind # "reserve"
    <2>1. Decision(c) = settleReservation(c)
      BY <1>6 DEF Decision
    <2>2. Rejected("invalid").code = "invalid"
      BY DEF Rejected
    <2>3. found # NoRow
      BY <1>1, <2>1, <2>2 DEF settleReservation
    <2>4. found.status # "ACTIVE"
      BY <1>3, <2>3
    <2>5. Decision(c) = [code |-> "accepted", entries |-> {}, row |-> found]
      BY <1>1, <2>1, <2>2, <2>3, <2>4 DEF settleReservation
    <2> QED
      BY <1>3, <2>3, <2>5
  <1> QED
    BY <1>5, <1>6

\* What a decision adds is about the reservation it was asked for.
LEMMA UsageEntriesAreItsOwn ==
    ASSUME NEW c \in Callers PROVE \A e \in Decision(c).entries : e.res = call[c].res
  <1>1. \A kind, units, seq : Entry(c, kind, units, seq).res = call[c].res
    BY DEF Entry
  <1>2. \A code : Rejected(code).entries = {}
    BY DEF Rejected
  <1>3. \A e \in reserveUsage(c).entries : e.res = call[c].res
    <2> DEFINE e == Entry(c, "reserve", call[c].units, nextSequence(c))
    <2>1. reserveUsage(c).entries \in {{}, {e}}
      BY <1>2 DEF reserveUsage
    <2>2. e.res = call[c].res
      BY <1>1
    <2> HIDE DEF e
    <2> QED
      BY <2>1, <2>2
  <1>4. \A e \in settleReservation(c).entries : e.res = call[c].res
    <2> DEFINE e == Entry(c, call[c].kind, -call[c].rows[call[c].res].units,
            nextSequence(c))
               f == Entry(c, "commit", call[c].units, nextSequence(c) + 1)
    <2>1. settleReservation(c).entries \in {{}, {e}, {e} \cup {f}, {e} \cup {}}
      BY <1>2 DEF settleReservation
    <2>2. e.res = call[c].res /\ f.res = call[c].res
      BY <1>1
    <2> HIDE DEF e, f
    <2> QED
      BY <2>1, <2>2
  <1> QED
    BY <1>3, <1>4 DEF Decision

\* A step leaves a reservation that was settled, and its entries, as they are.
LEMMA UsageSettledStays ==
    ASSUME UsageInv, [Next]_vars, NEW r \in Reservations,
           reservation[r].status \in {"FINALIZED", "RELEASED"}
    PROVE  /\ reservation'[r] = reservation[r]
           /\ {e \in ledger' : e.res = r} = {e \in ledger : e.res = r}
  <1>1. ASSUME NEW c \in Callers, Persist(c)
        PROVE  /\ reservation'[r] = reservation[r]
               /\ {e \in ledger' : e.res = r} = {e \in ledger : e.res = r}
    <2>1. reservation' = [reservation EXCEPT ![call[c].res] = Decision(c).row]
          /\ ledger' = ledger \cup Decision(c).entries
      BY <1>1 DEF Persist
    <2>2. DOMAIN reservation = Reservations
      BY DEF UsageInv, UsageTyped
    <2>3. CASE call[c].res = r
      <3>1. Decision(c).row = reservation[r] /\ Decision(c).entries = {}
        BY <1>1, <2>3, UsageReplays
      <3> QED
        BY <2>1, <2>2, <2>3, <3>1
    <2>4. CASE call[c].res # r
      <3>1. \A e \in Decision(c).entries : e.res # r
        BY <2>4, UsageEntriesAreItsOwn
      <3>2. reservation'[r] = reservation[r]
        BY <2>1, <2>2, <2>4
      <3> QED
        BY <2>1, <3>1, <3>2
    <2> QED
      BY <2>3, <2>4
  <1>2. ASSUME NEW c \in Callers, NEW kind \in Kinds, NEW s \in Reservations,
            NEW units \in 1 .. MaxUnits,
               Begin(c, kind, s, units)
        PROVE  UNCHANGED <<reservation, ledger>>
    BY <1>2 DEF Begin
  <1>3. ASSUME NEW c \in Callers, ListEntries(c) \/ ListReservations(c)
            \/ Reject(c) \/ Throw(c)
        PROVE  UNCHANGED <<reservation, ledger>>
    BY <1>3 DEF ListEntries, ListReservations, Reject, Throw
  <1>4. ASSUME (\E s \in Scopes : summary(s)) \/ ReadUsed \/ ReadHeld
            \/ UNCHANGED vars
        PROVE  UNCHANGED <<reservation, ledger>>
    BY <1>4 DEF summary, ReadUsed, ReadHeld, vars
  <1> QED
    BY <1>1, <1>2, <1>3, <1>4 DEF Next

-----------------------------------------------------------------------------
(* The theorems.                                                           *)

\* The entries of a scope are numbered without gaps and stay within the limit, and the entries of a
\* reservation are those of its row, whatever requests overlap, are repeated or fail.
THEOREM UsageIsCounted == UsageConstants => (Spec => []UsageInv)
  <1> SUFFICES ASSUME UsageConstants PROVE Spec => []UsageInv
    OBVIOUS
  <1>1. Init => UsageInv
    BY UsageInit
  <1>2. UsageInv /\ [Next]_vars => UsageInv'
    BY UsageStep
  <1> QED
    BY <1>1, <1>2, PTL DEF Spec

\* Requests that overlap in READ COMMITTED transactions never reserve and use more of a scope than
\* its limit, and the entries of a reservation sum up to what it holds.
THEOREM QuotaIsKept == UsageConstants => (Spec => [](NotOversubscribed /\ LedgerAgrees))
  <1> SUFFICES ASSUME UsageConstants PROVE Spec => [](NotOversubscribed /\ LedgerAgrees)
    OBVIOUS
  <1>1. Spec => []UsageInv
    BY UsageIsCounted
  <1> QED
    BY <1>1, UsageHolds, PTL

\* The variables of the component have their types; what the summary adds up is never negative.
THEOREM UsageTypeOK == UsageConstants => (Spec => []TypeOK)
  <1> SUFFICES ASSUME UsageConstants PROVE Spec => []TypeOK
    OBVIOUS
  <1>1. Spec => []UsageInv
    BY UsageIsCounted
  <1>2. Init => UsageShown
    BY UsageTypes
  <1>3. UsageInv /\ UsageShown /\ [Next]_vars => UsageShown'
    BY UsageShows
  <1>4. UsageInv /\ UsageShown => TypeOK
    BY UsageTypes
  <1> QED
    BY <1>1, <1>2, <1>3, <1>4, PTL DEF Spec

\* A reservation that was released or finalized stays, and nothing is entered for it any more.
THEOREM ReservationsAreSettledOnce == UsageConstants => (Spec => ReservationSettledOnce)
  <1> SUFFICES ASSUME UsageConstants PROVE Spec => ReservationSettledOnce
    OBVIOUS
  <1>1. Spec => []UsageInv
    BY UsageIsCounted
  <1>2. UsageInv /\ [Next]_vars =>
          [\A r \in Reservations : reservation[r].status \in {"FINALIZED", "RELEASED"} =>
              /\ reservation'[r] = reservation[r]
              /\ {e \in ledger' : e.res = r} = {e \in ledger : e.res = r}]_vars
    BY UsageSettledStays
  <1> QED
    BY <1>1, <1>2, PTL DEF Spec, ReservationSettledOnce
==============================================================================
