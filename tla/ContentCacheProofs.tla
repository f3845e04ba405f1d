------------------------- MODULE ContentCacheProofs -------------------------
(***************************************************************************)
(* The byte count, the LRU and the refusals of ContentCache, for every     *)
(* set of blocks and sizes, every quota and LRU, and any disk.             *)
(*                                                                         *)
(* The count is compared with a sum over the files.  What SumFunction      *)
(* returns is shown first, from the definition of the fold: an induction   *)
(* over finite sets, in the form that a nonempty set of counterexamples    *)
(* has a smallest one.                                                     *)
(***************************************************************************)
EXTENDS ContentCache, FiniteSetTheorems, SequenceTheorems, WellFoundedInduction, TLAPS

-----------------------------------------------------------------------------
(* Sums over finite sets.                                                  *)

Pick(S) == CHOOSE x \in S : TRUE

\* g is a table of the sums of f over the subsets of S.
IsTable(g, f, S) ==
  g = [s \in SUBSET S |-> IF s = {} THEN 0 ELSE f[Pick(s)] + g[s \ {Pick(s)}]]

\* A nonempty set of subsets of a finite set has a smallest one: this is the induction.
LEMMA Smallest ==
  ASSUME NEW S, IsFiniteSet(S), NEW B \in SUBSET SUBSET S, B # {}
  PROVE  \E s \in B : \A t \in B : t \subseteq s => t = s
  <1>1. IsWellFoundedOn(StrictSubsetOrdering(S), SUBSET S)
    BY FS_StrictSubsetOrderingWellFounded, FS_FiniteSubsetsOfFinite, Zenon
  <1>2. PICK s \in B : \A t \in B : ~(<<t, s>> \in StrictSubsetOrdering(S))
    BY <1>1, WFMin, Zenon
  <1>3. ASSUME NEW t \in B, t \subseteq s, t # s PROVE FALSE
    <2>1. <<t, s>> \in (SUBSET S) \X (SUBSET S)
      OBVIOUS
    <2>2. <<t, s>> \in StrictSubsetOrdering(S)
      BY <1>3, <2>1 DEF StrictSubsetOrdering
    <2> QED BY <1>2, <2>2
  <1> QED BY <1>3

\* A sum is an entry of such a table.
LEMMA SumIsTable ==
  ASSUME NEW f, NEW S
  PROVE  SumFunctionOnSet(f, S) = (CHOOSE g : IsTable(g, f, S))[S]
  BY DEF SumFunctionOnSet, FoldFunctionOnSet, MapThenFoldSet, IsTable, Pick

\* The element picked from a set is one of its elements.
LEMMA PickIn == \A S : S # {} => Pick(S) \in S
  BY DEF Pick

\* The entry of one subset.
LEMMA TableAt ==
  ASSUME NEW g, NEW f, NEW S, IsTable(g, f, S), NEW s \in SUBSET S
  PROVE  g[s] = IF s = {} THEN 0 ELSE f[Pick(s)] + g[s \ {Pick(s)}]
  <1> HIDE DEF Pick
  <1>1. g = [u \in SUBSET S |-> IF u = {} THEN 0 ELSE f[Pick(u)] + g[u \ {Pick(u)}]]
    BY Zenon DEF IsTable
  <1> DEFINE h == [u \in SUBSET S |-> IF u = {} THEN 0 ELSE f[Pick(u)] + g[u \ {Pick(u)}]]
  <1>2. h[s] = IF s = {} THEN 0 ELSE f[Pick(s)] + g[s \ {Pick(s)}]
    BY Zenon
  <1>3. g[s] = h[s]
    BY <1>1, Zenon
  <1> HIDE DEF h
  <1> QED BY <1>2, <1>3, Zenon

\* Two tables agree where both are defined.
LEMMA TablesAgree ==
  ASSUME NEW f, NEW g, NEW h, NEW S, NEW T, IsTable(g, f, S), IsTable(h, f, T),
         NEW s, IsFiniteSet(s), s \subseteq S, s \subseteq T
  PROVE  g[s] = h[s]
  <1> DEFINE Bad == {t \in SUBSET s : g[t] # h[t]}
  <1>1. Bad = {}
    <2> SUFFICES ASSUME Bad # {} PROVE FALSE
      OBVIOUS
    <2>1. PICK t \in Bad : \A u \in Bad : u \subseteq t => u = t
      <3>1. Bad \in SUBSET SUBSET s
        OBVIOUS
      <3> HIDE DEF Bad
      <3> QED BY <3>1, Smallest
    <2>2. t \in SUBSET S /\ t \in SUBSET T /\ t \in SUBSET s
      BY <2>1
    <2>3. t # {}
      BY <2>1, <2>2, TableAt
    <2>4. t \ {Pick(t)} \notin Bad
      BY <2>1, <2>3, PickIn
    <2>5. g[t \ {Pick(t)}] = h[t \ {Pick(t)}]
      BY <2>2, <2>4
    <2>6. g[t] = f[Pick(t)] + g[t \ {Pick(t)}]
      BY <2>2, <2>3, TableAt
    <2>7. h[t] = f[Pick(t)] + h[t \ {Pick(t)}]
      BY <2>2, <2>3, TableAt
    <2> QED BY <2>1, <2>5, <2>6, <2>7
  <1> QED BY <1>1

\* Every finite set has a table: built from the sums of its proper subsets.
LEMMA TableExists ==
  ASSUME NEW f, NEW S, IsFiniteSet(S)
  PROVE  \E g : IsTable(g, f, S)
  <1> DEFINE Bad == {s \in SUBSET S : ~\E g : IsTable(g, f, s)}
             Sum(s) == (CHOOSE g : IsTable(g, f, s))[s]
             Table(t) == [s \in SUBSET t |->
                            IF s = {} THEN 0 ELSE f[Pick(s)] + Sum(s \ {Pick(s)})]
  <1>1. Bad = {}
    <2> SUFFICES ASSUME Bad # {} PROVE FALSE
      OBVIOUS
    <2>1. PICK t \in Bad : \A u \in Bad : u \subseteq t => u = t
      <3>1. Bad \in SUBSET SUBSET S
        OBVIOUS
      <3> HIDE DEF Bad
      <3> QED BY <3>1, Smallest
    <2>2. ASSUME NEW s \in SUBSET t, s # t
          PROVE  /\ IsTable(CHOOSE g : IsTable(g, f, s), f, s)
                 /\ IsFiniteSet(s)
      <3>1. s \notin Bad /\ s \in SUBSET S
        BY <2>1, <2>2
      <3>2. \E g : IsTable(g, f, s)
        BY <3>1
      <3> QED BY <3>1, <3>2, FS_Subset, Zenon
    <2>3. ASSUME NEW s \in SUBSET t, s # t
          PROVE  Sum(s) = IF s = {} THEN 0 ELSE f[Pick(s)] + Sum(s \ {Pick(s)})
      <3> DEFINE g == CHOOSE h : IsTable(h, f, s)
                 u == s \ {Pick(s)}
                 k == CHOOSE h : IsTable(h, f, u)
      <3>1. IsTable(g, f, s) /\ s \in SUBSET s
        BY <2>2, <2>3, Zenon
      <3>2. g[s] = IF s = {} THEN 0 ELSE f[Pick(s)] + g[u]
        BY <3>1, TableAt, Zenon
      <3>3. ASSUME s # {} PROVE g[u] = k[u]
        <4>1. u \in SUBSET t /\ u # t /\ u \subseteq s /\ u \subseteq u
          BY <2>3, <3>3, PickIn
        <4>2. IsTable(k, f, u) /\ IsFiniteSet(u)
          BY <2>2, <4>1, Zenon
        <4> HIDE DEF g, u, k
        <4> QED BY <3>1, <4>1, <4>2, TablesAgree
      <3>4. Sum(s) = g[s] /\ Sum(u) = k[u]
        BY Zenon
      <3> HIDE DEF Sum, g, k
      <3> QED BY <3>2, <3>3, <3>4
    <2>4. ASSUME NEW s \in SUBSET t
          PROVE  Table(t)[s] = IF s = {} THEN 0 ELSE f[Pick(s)] + Sum(s \ {Pick(s)})
      BY Zenon
    <2>5. ASSUME NEW s \in SUBSET t, s # {}
          PROVE  Sum(s \ {Pick(s)}) = Table(t)[s \ {Pick(s)}]
      <3> DEFINE u == s \ {Pick(s)}
      <3>1. u \in SUBSET t /\ u # t
        BY <2>5, PickIn
      <3> HIDE DEF u, Sum, Table
      <3>2. Sum(u) = IF u = {} THEN 0 ELSE f[Pick(u)] + Sum(u \ {Pick(u)})
        BY <2>3, <3>1
      <3>3. Table(t)[u] = IF u = {} THEN 0 ELSE f[Pick(u)] + Sum(u \ {Pick(u)})
        BY <2>4, <3>1
      <3>4. Sum(u) = Table(t)[u]
        BY <3>2, <3>3
      <3> QED BY <3>4 DEF u
    <2>6. [s \in SUBSET t |-> IF s = {} THEN 0 ELSE f[Pick(s)] + Sum(s \ {Pick(s)})]
        = [s \in SUBSET t |-> IF s = {} THEN 0 ELSE f[Pick(s)] + Table(t)[s \ {Pick(s)}]]
      <3> HIDE DEF Sum, Table
      <3> QED BY <2>5
    <2>7. IsTable(Table(t), f, t)
      BY <2>6, Zenon DEF IsTable
    <2> QED BY <2>1, <2>7
  <1>2. S \notin Bad
    BY <1>1
  <1> QED BY <1>2

\* The sum over a finite set, one element at a time.
LEMMA SumStep ==
  ASSUME NEW f, NEW S, IsFiniteSet(S)
  PROVE  SumFunctionOnSet(f, S) =
           IF S = {} THEN 0 ELSE f[Pick(S)] + SumFunctionOnSet(f, S \ {Pick(S)})
  <1> DEFINE g == CHOOSE h : IsTable(h, f, S)
             T == S \ {Pick(S)}
             k == CHOOSE h : IsTable(h, f, T)
  <1>1. SumFunctionOnSet(f, S) = g[S] /\ SumFunctionOnSet(f, T) = k[T]
    BY SumIsTable, Zenon
  <1>2. IsFiniteSet(T)
    BY FS_Subset
  <1>3. IsTable(g, f, S) /\ IsTable(k, f, T)
    BY <1>2, TableExists, Zenon
  <1>4. T \subseteq S /\ T \subseteq T
    OBVIOUS
  <1> HIDE DEF g, k
  <1>5. g[T] = k[T]
    BY <1>2, <1>3, <1>4, TablesAgree
  <1>6. g[S] = IF S = {} THEN 0 ELSE f[Pick(S)] + g[T]
    BY <1>3, TableAt
  <1> QED BY <1>1, <1>5, <1>6

\* The sum of natural numbers is one.
LEMMA SumType ==
  ASSUME NEW f, NEW S, IsFiniteSet(S), \A x \in S : f[x] \in Nat
  PROVE  SumFunctionOnSet(f, S) \in Nat
  <1> DEFINE Bad == {s \in SUBSET S : SumFunctionOnSet(f, s) \notin Nat}
  <1>1. Bad = {}
    <2> SUFFICES ASSUME Bad # {} PROVE FALSE
      OBVIOUS
    <2>1. PICK t \in Bad : \A u \in Bad : u \subseteq t => u = t
      <3>1. Bad \in SUBSET SUBSET S
        OBVIOUS
      <3> HIDE DEF Bad
      <3> QED BY <3>1, Smallest
    <2>2. IsFiniteSet(t)
      BY FS_Subset
    <2>3. t # {} /\ SumFunctionOnSet(f, t) = f[Pick(t)] + SumFunctionOnSet(f, t \ {Pick(t)})
      <3>1. SumFunctionOnSet(f, t) =
              IF t = {} THEN 0 ELSE f[Pick(t)] + SumFunctionOnSet(f, t \ {Pick(t)})
        BY <2>2, SumStep
      <3>2. SumFunctionOnSet(f, t) \notin Nat
        OBVIOUS
      <3> QED BY <3>1, <3>2
    <2>4. Pick(t) \in t
      BY <2>3, PickIn
    <2>5. SumFunctionOnSet(f, t \ {Pick(t)}) \in Nat
      BY <2>1, <2>4
    <2> QED BY <2>3, <2>4, <2>5
  <1>2. S \notin Bad
    BY <1>1
  <1> QED BY <1>2

\* Any element can be taken out of a sum.
LEMMA SumRemove ==
  ASSUME NEW f, NEW S, IsFiniteSet(S), \A x \in S : f[x] \in Nat, NEW y \in S
  PROVE  SumFunctionOnSet(f, S) = f[y] + SumFunctionOnSet(f, S \ {y})
  <1> DEFINE Out(s, x) == SumFunctionOnSet(f, s) = f[x] + SumFunctionOnSet(f, s \ {x})
             Bad == {s \in SUBSET S : ~\A x \in s : Out(s, x)}
  <1>1. Bad = {}
    <2> SUFFICES ASSUME Bad # {} PROVE FALSE
      OBVIOUS
    <2>1. PICK t \in Bad : \A u \in Bad : u \subseteq t => u = t
      <3>1. Bad \in SUBSET SUBSET S
        OBVIOUS
      <3> HIDE DEF Bad
      <3> QED BY <3>1, Smallest
    <2>2. PICK x \in t : ~Out(t, x)
      OBVIOUS
    <2> DEFINE p == Pick(t)
               Sum(s) == SumFunctionOnSet(f, s)
    <2>3. IsFiniteSet(t) /\ IsFiniteSet(t \ {p}) /\ IsFiniteSet(t \ {x}) /\ IsFiniteSet(t \ {p, x})
      BY FS_Subset
    <2>4. p \in t /\ Sum(t) = f[p] + Sum(t \ {p})
      BY <2>3, SumStep, PickIn
    <2>5. x # p
      BY <2>2, <2>4
    <2>6. t \ {p} \notin Bad /\ t \ {x} \notin Bad
      BY <2>1, <2>4
    <2>7. Out(t \ {p}, x) /\ Out(t \ {x}, p)
      BY <2>4, <2>5, <2>6
    <2>8. (t \ {p}) \ {x} = t \ {p, x} /\ (t \ {x}) \ {p} = t \ {p, x}
      OBVIOUS
    <2>9. Sum(t \ {p}) = f[x] + Sum(t \ {p, x}) /\ Sum(t \ {x}) = f[p] + Sum(t \ {p, x})
      BY <2>7, <2>8
    <2>10. f[p] \in Nat /\ f[x] \in Nat /\ Sum(t \ {p, x}) \in Nat
      <3>1. \A z \in t \ {p, x} : f[z] \in Nat
        OBVIOUS
      <3> QED BY <2>3, <2>4, <3>1, SumType
    <2>11. Sum(t) = f[x] + Sum(t \ {x})
      <3> HIDE DEF p, Sum
      <3> QED BY <2>4, <2>9, <2>10
    <2> QED BY <2>2, <2>11
  <1>2. S \notin Bad
    BY <1>1
  <1> QED BY <1>2

\* A sum depends on the values summed only.
LEMMA SumCongruence ==
  ASSUME NEW f, NEW g, NEW S, IsFiniteSet(S), \A x \in S : f[x] = g[x]
  PROVE  SumFunctionOnSet(f, S) = SumFunctionOnSet(g, S)
  <1> DEFINE Bad == {s \in SUBSET S : SumFunctionOnSet(f, s) # SumFunctionOnSet(g, s)}
  <1>1. Bad = {}
    <2> SUFFICES ASSUME Bad # {} PROVE FALSE
      OBVIOUS
    <2>1. PICK t \in Bad : \A u \in Bad : u \subseteq t => u = t
      <3>1. Bad \in SUBSET SUBSET S
        OBVIOUS
      <3> HIDE DEF Bad
      <3> QED BY <3>1, Smallest
    <2>2. IsFiniteSet(t)
      BY FS_Subset
    <2>3. /\ t # {}
          /\ SumFunctionOnSet(f, t) = f[Pick(t)] + SumFunctionOnSet(f, t \ {Pick(t)})
          /\ SumFunctionOnSet(g, t) = g[Pick(t)] + SumFunctionOnSet(g, t \ {Pick(t)})
      BY <2>2, SumStep
    <2>4. Pick(t) \in t
      BY <2>3, PickIn
    <2>5. SumFunctionOnSet(f, t \ {Pick(t)}) = SumFunctionOnSet(g, t \ {Pick(t)})
      BY <2>1, <2>4
    <2> QED BY <2>3, <2>4, <2>5
  <1>2. S \notin Bad
    BY <1>1
  <1> QED BY <1>2

-----------------------------------------------------------------------------
(* Sums over the whole of a function.                                      *)

IsCount(f) == IsFiniteSet(DOMAIN f) /\ \A x \in DOMAIN f : f[x] \in Nat

\* A file is removed.
LEMMA SumWithout ==
  ASSUME NEW f, IsCount(f), NEW p \in DOMAIN f
  PROVE  SumFunction(f) = f[p] + SumFunction(Restrict(f, DOMAIN f \ {p}))
  <1> DEFINE D == DOMAIN f \ {p}
             g == Restrict(f, D)
  <1>1. IsFiniteSet(D) /\ DOMAIN g = D /\ \A x \in D : g[x] = f[x]
    BY FS_Subset DEF IsCount, Restrict
  <1> HIDE DEF g
  <1>2. SumFunctionOnSet(f, DOMAIN f) = f[p] + SumFunctionOnSet(f, D)
    BY SumRemove DEF IsCount
  <1>3. SumFunctionOnSet(g, D) = SumFunctionOnSet(f, D)
    BY <1>1, SumCongruence
  <1> QED BY <1>1, <1>2, <1>3 DEF SumFunction, g

\* A sum of natural numbers is one; it is zero without terms, and only then or when
\* every term is.
LEMMA SumNat ==
  ASSUME NEW f, IsCount(f)
  PROVE  /\ SumFunction(f) \in Nat
         /\ DOMAIN f = {} => SumFunction(f) = 0
         /\ SumFunction(f) = 0 => \A x \in DOMAIN f : f[x] = 0
  <1>1. SumFunction(f) \in Nat
    BY SumType DEF SumFunction, IsCount
  <1>2. DOMAIN f = {} => SumFunction(f) = 0
    BY SumStep DEF SumFunction, IsCount
  <1>3. ASSUME NEW x \in DOMAIN f PROVE f[x] <= SumFunction(f)
    <2>1. IsFiniteSet(DOMAIN f \ {x})
      BY FS_Subset DEF IsCount
    <2>2. SumFunctionOnSet(f, DOMAIN f \ {x}) \in Nat
      BY <2>1, SumType DEF IsCount
    <2>3. SumFunction(f) = f[x] + SumFunctionOnSet(f, DOMAIN f \ {x})
      BY SumRemove DEF IsCount, SumFunction
    <2> QED BY <2>2, <2>3 DEF IsCount
  <1> QED BY <1>1, <1>2, <1>3 DEF IsCount

-----------------------------------------------------------------------------
(* The inductive invariant.                                                *)

Paths == Cids \X {"hashed", "flat"}
OpType == [pc : {"idle", "touch", "evict", "walk", "write"}, cid : Cids \cup {NoCid},
           old : Nat, need : Int, freed : Nat]

\* Every variable has its type, and the files are finitely many.
TypeOK ==
  /\ Files \subseteq Paths /\ IsFiniteSet(Files) /\ file \in [Files -> Nat]
  /\ current \in Int /\ maxBytes \in Nat
  /\ lru \in Seq(Cids)
  /\ op \in OpType /\ (op.pc \in {"touch", "write"} => op.cid \in Cids)
  /\ refused \in Cids \cup {NoCid}
  /\ sound \in BOOLEAN /\ partial \in BOOLEAN

\* A CID is tracked once.
Distinct(s) == \A i, j \in 1..Len(s) : s[i] = s[j] => i = j
TrackedOnce == Distinct(lru)

\* Between the steps of an operation, too, what is tracked has a file: the walk
\* over the disk starts with an empty LRU, and Get has read the file it touches.
AlwaysOnDisk ==
  /\ ~partial => \A i \in 1..Len(lru) : OnDisk(lru[i])
  /\ op.pc = "walk" => lru = <<>>
  /\ op.pc = "touch" => OnDisk(op.cid)

\* While the history is sound, the count is exact in every state.
Counted == sound => Whole /\ current = SumFunction(file) /\ current <= maxBytes

\* A Put that frees space replaces no file, and what it has still to free is what
\* its block exceeds the room by.
FreesTheRest ==
  sound /\ op.pc \in {"evict", "walk"} /\ op.cid # NoCid =>
    /\ ~OnDisk(op.cid) /\ op.old = 0
    /\ op.need - op.freed = Size[op.cid] - (maxBytes - current)

\* A Put that writes has room, and knows the size of what it replaces.
WritesWithinQuota ==
  sound /\ op.pc = "write" =>
    /\ op.old = IF OnDisk(op.cid) THEN Size[op.cid] ELSE 0
    /\ current + (Size[op.cid] - op.old) <= maxBytes

CacheInv ==
  /\ TypeOK
  /\ TrackedOnce /\ AlwaysOnDisk
  /\ Counted /\ FreesTheRest /\ WritesWithinQuota
  /\ RefusesOnlyTooLarge

-----------------------------------------------------------------------------
(* Files and the LRU.                                                      *)

\* What is left when a file is removed.
LEMMA RemovedFile ==
  ASSUME NEW f, IsCount(f), NEW p \in DOMAIN f, NEW g, g = Restrict(f, DOMAIN f \ {p})
  PROVE  /\ DOMAIN g = DOMAIN f \ {p} /\ IsCount(g)
         /\ g \in [DOMAIN g -> Nat]
         /\ \A q \in DOMAIN g : g[q] = f[q]
         /\ SumFunction(g) \in Int /\ SumFunction(g) = SumFunction(f) - f[p]
  <1>1. /\ DOMAIN g = DOMAIN f \ {p} /\ \A q \in DOMAIN g : g[q] = f[q]
        /\ g = [q \in DOMAIN g |-> g[q]]
    BY DEF Restrict
  <1>2. IsCount(g)
    BY <1>1, FS_Subset DEF IsCount
  <1>3. SumFunction(f) \in Nat /\ SumFunction(g) \in Nat /\ f[p] \in Nat
    BY <1>2, SumNat DEF IsCount
  <1>4. SumFunction(f) = f[p] + SumFunction(g)
    BY SumWithout
  <1>5. SumFunction(g) \in Int /\ SumFunction(g) = SumFunction(f) - f[p]
    BY <1>3, <1>4
  <1>6. g \in [DOMAIN g -> Nat]
    BY <1>1, <1>2 DEF IsCount
  <1> QED BY <1>1, <1>2, <1>5, <1>6

\* What there is when a file is written.
LEMMA WrittenFile ==
  ASSUME NEW f, IsCount(f), NEW p, NEW n \in Nat,
         NEW g, g = [q \in DOMAIN f \cup {p} |-> IF q = p THEN n ELSE f[q]]
  PROVE  /\ DOMAIN g = DOMAIN f \cup {p} /\ IsCount(g)
         /\ g \in [DOMAIN g -> Nat]
         /\ g[p] = n /\ \A q \in DOMAIN f \ {p} : g[q] = f[q]
         /\ SumFunction(g) = SumFunction(f) + (n - IF p \in DOMAIN f THEN f[p] ELSE 0)
  <1>1. /\ DOMAIN g = DOMAIN f \cup {p}
        /\ g[p] = n /\ \A q \in DOMAIN f \ {p} : g[q] = f[q]
        /\ g = [q \in DOMAIN g |-> g[q]]
    OBVIOUS
  <1>2. IsFiniteSet(DOMAIN g)
    BY <1>1, FS_AddElement DEF IsCount
  <1>3. IsCount(g)
    BY <1>1, <1>2 DEF IsCount
  <1> DEFINE D == DOMAIN f \ {p}
             h == Restrict(f, D)
  <1>4. Restrict(g, DOMAIN g \ {p}) = h
    BY <1>1 DEF Restrict
  <1>5. SumFunction(g) = n + SumFunction(h)
    BY <1>1, <1>3, <1>4, SumWithout
  <1>6. CASE p \in DOMAIN f
    <2>1. SumFunction(f) = f[p] + SumFunction(h)
      BY <1>6, SumWithout
    <2>2. SumFunction(h) \in Int /\ f[p] \in Nat
      BY <1>6, RemovedFile DEF IsCount
    <2>3. SumFunction(g) = SumFunction(f) + (n - f[p])
      <3> HIDE DEF h
      <3> QED BY <1>5, <2>1, <2>2
    <2> QED BY <1>1, <1>3, <1>6, <2>3 DEF IsCount
  <1>7. CASE p \notin DOMAIN f
    <2>1. IsFiniteSet(D) /\ D = DOMAIN f /\ DOMAIN h = D /\ \A q \in D : h[q] = f[q]
      BY <1>7 DEF IsCount, Restrict
    <2>2. SumFunctionOnSet(h, D) = SumFunctionOnSet(f, D)
      <3> HIDE DEF h, D
      <3> QED BY <2>1, SumCongruence
    <2>3. SumFunction(h) = SumFunction(f)
      BY <2>1, <2>2 DEF SumFunction
    <2>4. SumFunction(g) = SumFunction(f) + (n - 0)
      <3>1. SumFunction(f) \in Nat
        BY SumNat
      <3> HIDE DEF h
      <3> QED BY <1>5, <2>3, <3>1
    <2> QED BY <1>1, <1>3, <1>7, <2>4 DEF IsCount
  <1> QED BY <1>6, <1>7

\* s tracks CIDs of S once each.
Tracks(s, S) == s \in Seq(S) /\ Distinct(s)

\* The position that RemoveFirst removes.
LEMMA TheOccurrence ==
  ASSUME NEW S, NEW s, Tracks(s, S), NEW c, NEW k \in 1..Len(s), s[k] = c
  PROVE  {i \in 1..Len(s) : s[i] = c} = {k} /\ Min({k}) = k
  BY DEF Tracks, Distinct, Min

\* lru.Remove.
LEMMA Removed ==
  ASSUME NEW S, NEW s, Tracks(s, S), NEW c
  PROVE  LET r == RemoveFirst(s, c)
         IN  /\ Tracks(r, S)
             /\ \A i \in 1..Len(r) : r[i] # c /\ \E j \in 1..Len(s) : r[i] = s[j]
  <1> DEFINE r == RemoveFirst(s, c)
  <1>1. CASE \E k \in 1..Len(s) : s[k] = c
    <2>1. PICK k \in 1..Len(s) : s[k] = c
      BY <1>1
    <2>2. {i \in 1..Len(s) : s[i] = c} = {k} /\ Min({k}) = k
      BY <2>1, TheOccurrence
    <2>3. r = SubSeq(s, 1, k-1) \o SubSeq(s, k+1, Len(s))
      BY <1>1, <2>2 DEF RemoveFirst, RemoveAt, SelectInSeq
    <2>4. /\ r \in Seq(S) /\ Len(r) = Len(s) - 1
          /\ \A i \in 1..Len(r) : r[i] = IF i < k THEN s[i] ELSE s[i + 1]
      <3> DEFINE a == SubSeq(s, 1, k-1)
                 b == SubSeq(s, k+1, Len(s))
      <3>1. a \in Seq(S) /\ Len(a) = k - 1 /\ \A i \in 1..(k-1) : a[i] = s[i]
        BY DEF Tracks
      <3>2. /\ b \in Seq(S) /\ Len(b) = Len(s) - k
            /\ \A i \in 1..(Len(s) - k) : b[i] = s[k + i]
        BY DEF Tracks
      <3> HIDE DEF a, b
      <3>3. /\ a \o b \in Seq(S) /\ Len(a \o b) = Len(s) - 1
            /\ \A i \in 1..Len(a \o b) : (a \o b)[i] = IF i <= Len(a) THEN a[i] ELSE b[i - Len(a)]
        <4>1. /\ a \o b \in Seq(S) /\ Len(a \o b) = Len(a) + Len(b)
              /\ \A i \in 1..(Len(a) + Len(b)) :
                   (a \o b)[i] = IF i <= Len(a) THEN a[i] ELSE b[i - Len(a)]
          BY <3>1, <3>2, ConcatProperties, Zenon
        <4>2. Len(a) + Len(b) = Len(s) - 1
          BY <3>1, <3>2 DEF Tracks
        <4> QED BY <4>1, <4>2
      <3>4. ASSUME NEW i \in 1..(Len(s) - 1)
            PROVE  (a \o b)[i] = IF i < k THEN s[i] ELSE s[i + 1]
        <4>1. CASE i < k
          BY <3>1, <3>3, <4>1 DEF Tracks
        <4>2. CASE ~(i < k)
          <5>1. (a \o b)[i] = b[i - (k - 1)] /\ i - (k - 1) \in 1..(Len(s) - k)
            BY <3>1, <3>3, <4>2 DEF Tracks
          <5>2. b[i - (k - 1)] = s[k + (i - (k - 1))] /\ k + (i - (k - 1)) = i + 1
            BY <3>2, <5>1
          <5> QED BY <4>2, <5>1, <5>2
        <4> QED BY <4>1, <4>2
      <3>5. r = a \o b
        BY <2>3 DEF a, b
      <3> HIDE DEF r
      <3> QED BY <3>3, <3>4, <3>5
    <2> HIDE DEF r
    <2>5. Distinct(r)
      BY <2>4 DEF Tracks, Distinct
    <2>6. \A i \in 1..Len(r) : r[i] # c /\ \E j \in 1..Len(s) : r[i] = s[j]
      BY <2>1, <2>4 DEF Tracks, Distinct
    <2> QED BY <2>4, <2>5, <2>6 DEF Tracks, r
  <1>2. CASE ~\E k \in 1..Len(s) : s[k] = c
    BY <1>2 DEF RemoveFirst
  <1> QED BY <1>1, <1>2

\* lru.RemoveOldest.
LEMMA RemovedOldest ==
  ASSUME NEW S, NEW s, Tracks(s, S), s # <<>>
  PROVE  /\ Tracks(Tail(s), S) /\ Head(s) \in S
         /\ \A i \in 1..Len(Tail(s)) : Tail(s)[i] # Head(s) /\ \E j \in 1..Len(s) : Tail(s)[i] = s[j]
  <1>1. /\ Tail(s) \in Seq(S) /\ Len(Tail(s)) = Len(s) - 1 /\ Len(s) > 0
        /\ Head(s) = s[1] /\ \A i \in 1..Len(Tail(s)) : Tail(s)[i] = s[i + 1]
    BY DEF Tracks
  <1> QED BY <1>1 DEF Tracks, Distinct

\* lru.Add.
LEMMA Added ==
  ASSUME Tracks(lru, Cids), NEW c \in Cids
  PROVE  /\ Tracks(Touched(c), Cids)
         /\ \A i \in 1..Len(Touched(c)) :
              Touched(c)[i] = c \/ \E j \in 1..Len(lru) : Touched(c)[i] = lru[j]
  <1> DEFINE r == RemoveFirst(lru, c)
             s == Append(r, c)
  <1>1. /\ Tracks(r, Cids)
        /\ \A i \in 1..Len(r) : r[i] # c /\ \E j \in 1..Len(lru) : r[i] = lru[j]
    BY Removed
  <1>2. Touched(c) = IF Len(s) > LruSize THEN Tail(s) ELSE s
    BY DEF Touched
  <1> HIDE DEF r
  <1>3. /\ s \in Seq(Cids) /\ Len(s) = Len(r) + 1 /\ s # <<>> /\ s[Len(r) + 1] = c
        /\ \A i \in 1..Len(r) : s[i] = r[i]
    BY <1>1 DEF Tracks
  <1>4. Tracks(s, Cids)
    BY <1>1, <1>3 DEF Tracks, Distinct
  <1>5. \A i \in 1..Len(s) : s[i] = c \/ \E j \in 1..Len(lru) : s[i] = lru[j]
    BY <1>1, <1>3 DEF Tracks
  <1> HIDE DEF s
  <1>6. /\ Tracks(Tail(s), Cids)
        /\ \A i \in 1..Len(Tail(s)) : \E j \in 1..Len(s) : Tail(s)[i] = s[j]
    BY <1>3, <1>4, RemovedOldest
  <1> QED BY <1>2, <1>4, <1>5, <1>6

\* The CIDs that have one of finitely many files are finitely many.
LEMMA FinitelyMany ==
  ASSUME NEW F, IsFiniteSet(F)
  PROVE  IsFiniteSet({c \in Cids : Hashed(c) \in F \/ Flat(c) \in F})
  <1> DEFINE C == {c \in Cids : Hashed(c) \in F \/ Flat(c) \in F}
             f == [c \in C |-> IF Hashed(c) \in F THEN Hashed(c) ELSE Flat(c)]
  <1>1. f \in [C -> F]
    OBVIOUS
  <1>2. \A c, d \in C : f[c] = f[d] => c = d
    BY DEF Hashed, Flat
  <1>3. f \in Injection(C, F)
    BY <1>1, <1>2 DEF Injection, IsInjective
  <1> HIDE DEF C, f
  <1>4. IsFiniteSet(C)
    BY <1>3, FS_Injection
  <1> QED BY <1>4 DEF C

\* The LRU after a walk over a disk.
LEMMA Walked ==
  ASSUME NEW C, IsFiniteSet(C), NEW s \in SetToAllKPermutations(C)
  PROVE  Tracks(s, C)
  <1>1. PICK T \in SUBSET C : s \in SetToSeqs(T)
    BY DEF SetToAllKPermutations
  <1>2. Cardinality(T) \in Nat
    BY FS_Subset, FS_CardinalityType
  <1>3. /\ s \in [1..Cardinality(T) -> T]
        /\ \A i, j \in 1..Cardinality(T) : i # j => s[i] # s[j]
    BY <1>1 DEF SetToSeqs
  <1>4. s \in Seq(C) /\ Len(s) = Cardinality(T)
    BY <1>2, <1>3
  <1> QED BY <1>3, <1>4 DEF Tracks, Distinct

-----------------------------------------------------------------------------
(* Steps that leave the files, the count and the quota alone.              *)

\* Every file operation starts from files whose sizes can be summed.
LEMMA Summable ==
  ASSUME TypeOK
  PROVE  IsCount(file) /\ SumFunction(file) \in Nat
  <1>1. IsCount(file)
    BY DEF TypeOK, IsCount, Files
  <1> QED BY <1>1, SumNat

\* The invariant speaks of the disk in the same way before and after such a step.
LEMMA SameDisk ==
  ASSUME CacheInv, UNCHANGED <<file, current, maxBytes, sound>>
  PROVE  Counted' /\ \A c : OnDisk(c)' = OnDisk(c)
  BY DEF CacheInv, Counted, Whole, OnDisk, Files

\* Get has read the file of the CID it is about to touch.
LEMMA GetReadKeeps ==
  ASSUME CacheInv, NEW c \in Cids, GetRead(c)
  PROVE  CacheInv'
  <1>1. /\ UNCHANGED <<file, current, maxBytes, lru, refused, sound, partial>> /\ OnDisk(c)
        /\ op' = [NoOp EXCEPT !.pc = "touch", !.cid = c, !.old = file[PathOf(c)]]
    BY DEF GetRead
  <1>2. file[PathOf(c)] \in Nat
    BY <1>1 DEF OnDisk, PathOf, CacheInv, TypeOK
  <1>3. op'.pc = "touch" /\ op'.cid = c /\ op' \in OpType
    <2>1. PICK n \in Nat : op' = [NoOp EXCEPT !.pc = "touch", !.cid = c, !.old = n]
      BY <1>1, <1>2
    <2>2. op' = [pc |-> "touch", cid |-> c, old |-> n, need |-> 0, freed |-> 0]
      BY <2>1 DEF NoOp
    <2> QED BY <2>2 DEF OpType
  <1>4. TypeOK'
    BY <1>1, <1>3 DEF CacheInv, TypeOK, Files
  <1>5. Counted' /\ \A d : OnDisk(d)' = OnDisk(d)
    BY <1>1, SameDisk
  <1>6. AlwaysOnDisk'
    BY <1>1, <1>3, <1>5 DEF CacheInv, AlwaysOnDisk
  <1> QED BY <1>1, <1>3, <1>4, <1>5, <1>6
          DEF CacheInv, TrackedOnce, FreesTheRest, WritesWithinQuota, RefusesOnlyTooLarge

\* The LRU holds CIDs once each.
LEMMA LruTracks == CacheInv => Tracks(lru, Cids)
  BY DEF CacheInv, TypeOK, TrackedOnce, Tracks

\* The operation ends: nothing more is required of op.
LEMMA Unlocks ==
  ASSUME Unlock
  PROVE  op' \in OpType /\ op'.pc = "idle"
  BY DEF Unlock, NoOp, OpType

\* Get ends: the CID it touched has a file.
LEMMA GetTouchKeeps ==
  ASSUME CacheInv, GetTouch
  PROVE  CacheInv'
  <1>1. /\ UNCHANGED <<file, current, maxBytes, refused, sound, partial>>
        /\ lru' = Touched(op.cid) /\ Unlock /\ op.pc = "touch"
    BY DEF GetTouch
  <1>2. op' \in OpType /\ op'.pc = "idle"
    BY <1>1, Unlocks
  <1>3. op.cid \in Cids /\ OnDisk(op.cid)
    BY <1>1 DEF CacheInv, TypeOK, AlwaysOnDisk
  <1>4. /\ Tracks(lru', Cids)
        /\ \A i \in 1..Len(lru') : lru'[i] = op.cid \/ \E j \in 1..Len(lru) : lru'[i] = lru[j]
    BY <1>1, <1>3, LruTracks, Added
  <1>5. TypeOK' /\ TrackedOnce'
    BY <1>1, <1>2, <1>4 DEF CacheInv, TypeOK, Files, TrackedOnce, Tracks, Distinct
  <1>6. Counted' /\ \A d : OnDisk(d)' = OnDisk(d)
    BY <1>1, SameDisk
  <1>7. AlwaysOnDisk'
    BY <1>1, <1>2, <1>3, <1>4, <1>6 DEF CacheInv, AlwaysOnDisk
  <1> QED BY <1>1, <1>2, <1>5, <1>6, <1>7
          DEF CacheInv, FreesTheRest, WritesWithinQuota, RefusesOnlyTooLarge

\* A count of zero leaves no file, since no block is empty.
LEMMA NoFilesLeft ==
  ASSUME CacheInv, sound, current = 0
  PROVE  Files = {}
  <1>1. \A p \in Files : file[p] = 0
    BY Summable, SumNat DEF CacheInv, Counted, Files
  <1>2. \A p \in Files : file[p] = Size[p[1]] /\ p[1] \in Cids
    BY DEF CacheInv, Counted, Whole, TypeOK, Paths
  <1> QED BY <1>1, <1>2, SizesAssumption

\* What Put finds of the block it stores.
LEMMA FoundSize ==
  ASSUME CacheInv, NEW c \in Cids
  PROVE  /\ OnDisk(c) => PathOf(c) \in Files /\ file[PathOf(c)] \in Nat
         /\ OnDisk(c) /\ sound => file[PathOf(c)] = Size[c]
         /\ Size[c] \in Nat /\ Size[c] > 0
  <1>1. Size[c] \in Nat /\ Size[c] > 0
    BY SizesAssumption
  <1>2. OnDisk(c) => PathOf(c) \in Files /\ PathOf(c)[1] = c
    BY DEF OnDisk, PathOf, Hashed, Flat
  <1>3. \A p \in Files : file[p] \in Nat
    BY DEF CacheInv, TypeOK
  <1>4. sound => \A p \in Files : file[p] = Size[p[1]]
    BY DEF CacheInv, Counted, Whole
  <1> QED BY <1>1, <1>2, <1>3, <1>4

\* Put has room, is refused by an empty cache, or has to free what it lacks.
LEMMA PutStartKeeps ==
  ASSUME CacheInv, NEW c \in Cids, PutStart(c)
  PROVE  CacheInv'
  <1> DEFINE old == IF OnDisk(c) THEN file[PathOf(c)] ELSE 0
             grow == Size[c] - old
             o == [pc |-> "evict", cid |-> c, old |-> old,
                   need |-> grow - (maxBytes - current), freed |-> 0]
  <1>1. /\ UNCHANGED <<file, current, maxBytes, lru, sound, partial>>
        /\ IF HasSpace(grow)
             THEN op' = [o EXCEPT !.pc = "write", !.need = 0] /\ UNCHANGED refused
             ELSE BeginEvict(o)
    BY DEF PutStart
  <1>2. /\ old \in Nat /\ Size[c] \in Nat /\ Size[c] > 0
        /\ sound => old = IF OnDisk(c) THEN Size[c] ELSE 0
    BY FoundSize
  <1>3. /\ current \in Int /\ maxBytes \in Nat /\ sound \in BOOLEAN
        /\ sound => current <= maxBytes
    BY DEF CacheInv, TypeOK, Counted
  <1>4. Counted' /\ \A d : OnDisk(d)' = OnDisk(d)
    BY <1>1, SameDisk
  <1>5. TrackedOnce'
    BY <1>1 DEF CacheInv, TrackedOnce
  <1> HIDE DEF old
  <1>6. CASE HasSpace(grow)
    <2>1. op' = [pc |-> "write", cid |-> c, old |-> old, need |-> 0, freed |-> 0]
      BY <1>1, <1>6
    <2>2. op' \in OpType /\ op'.pc = "write" /\ op'.cid = c /\ op'.old = old
      BY <1>2, <2>1 DEF OpType
    <2>3. TypeOK'
      BY <1>1, <1>6, <2>2 DEF CacheInv, TypeOK, Files
    <2>4. AlwaysOnDisk'
      BY <1>1, <1>4, <2>2 DEF CacheInv, AlwaysOnDisk
    <2>5. WritesWithinQuota'
      BY <1>1, <1>2, <1>3, <1>4, <1>6, <2>2 DEF WritesWithinQuota, HasSpace
    <2>6. FreesTheRest' /\ RefusesOnlyTooLarge'
      BY <1>1, <1>6, <2>2 DEF CacheInv, FreesTheRest, RefusesOnlyTooLarge
    <2> QED BY <1>4, <1>5, <2>3, <2>4, <2>5, <2>6 DEF CacheInv
  <1>7. CASE ~HasSpace(grow) /\ current = 0
    <2>1. Unlock /\ refused' = c
      BY <1>1, <1>7 DEF BeginEvict
    <2>2. op' \in OpType /\ op'.pc = "idle"
      BY <2>1, Unlocks
    <2>3. TypeOK'
      BY <1>1, <2>1, <2>2 DEF CacheInv, TypeOK, Files
    <2>4. AlwaysOnDisk' /\ FreesTheRest' /\ WritesWithinQuota'
      BY <1>1, <1>4, <2>2 DEF CacheInv, AlwaysOnDisk, FreesTheRest, WritesWithinQuota
    <2>5. RefusesOnlyTooLarge'
      <3> SUFFICES ASSUME sound PROVE Size[c] > maxBytes
        BY <1>1, <2>1 DEF RefusesOnlyTooLarge
      <3>1. ~OnDisk(c)
        BY <1>7, NoFilesLeft DEF OnDisk
      <3> QED BY <1>2, <1>3, <1>7, <3>1 DEF HasSpace
    <2> QED BY <1>4, <1>5, <2>3, <2>4, <2>5 DEF CacheInv
  <1>8. CASE ~HasSpace(grow) /\ current # 0
    <2>1. op' = o /\ UNCHANGED refused
      BY <1>1, <1>8 DEF BeginEvict
    <2>2. /\ op' \in OpType /\ op'.pc = "evict" /\ op'.cid = c /\ op'.old = old
          /\ op'.need = grow - (maxBytes - current) /\ op'.freed = 0
      BY <1>2, <1>3, <2>1 DEF OpType
    <2>3. TypeOK'
      BY <1>1, <2>1, <2>2 DEF CacheInv, TypeOK, Files
    <2>4. AlwaysOnDisk' /\ WritesWithinQuota' /\ RefusesOnlyTooLarge'
      BY <1>1, <1>4, <2>1, <2>2
      DEF CacheInv, AlwaysOnDisk, WritesWithinQuota, RefusesOnlyTooLarge
    <2>5. FreesTheRest'
      <3> SUFFICES ASSUME sound PROVE ~OnDisk(c) /\ old = 0
        BY <1>1, <1>2, <1>3, <1>4, <2>2 DEF FreesTheRest
      <3> QED BY <1>2, <1>3, <1>8 DEF HasSpace
    <2> QED BY <1>4, <1>5, <2>3, <2>4, <2>5 DEF CacheInv
  <1> QED BY <1>6, <1>7, <1>8

\* Evict frees space for no block in particular.
LEMMA EvictStartKeeps ==
  ASSUME CacheInv, NEW n \in Nat, EvictStart(n)
  PROVE  CacheInv'
  <1> DEFINE o == [NoOp EXCEPT !.pc = "evict", !.need = n]
  <1>1. UNCHANGED <<file, current, maxBytes, lru, sound, partial>> /\ BeginEvict(o)
    BY DEF EvictStart
  <1>2. o = [pc |-> "evict", cid |-> NoCid, old |-> 0, need |-> n, freed |-> 0]
    <2>1. ASSUME NEW q, q = o
          PROVE  q = [pc |-> "evict", cid |-> NoCid, old |-> 0, need |-> n, freed |-> 0]
      BY <2>1 DEF NoOp
    <2> QED BY <2>1, Zenon
  <1>3. /\ op' \in OpType /\ op'.pc \in {"idle", "evict"} /\ op'.cid = NoCid
        /\ refused' \in {refused, NoCid}
    BY <1>1, <1>2 DEF BeginEvict, Unlock, NoOp, OpType
  <1>4. Counted' /\ \A d : OnDisk(d)' = OnDisk(d)
    BY <1>1, SameDisk
  <1>5. TypeOK'
    BY <1>1, <1>3 DEF CacheInv, TypeOK, Files
  <1> QED BY <1>1, <1>3, <1>4, <1>5
          DEF CacheInv, TrackedOnce, AlwaysOnDisk, FreesTheRest, WritesWithinQuota,
              RefusesOnlyTooLarge

\* The LRU is empty, and what is left to free is left to the walk.
LEMMA EvictWalkStartKeeps ==
  ASSUME CacheInv, EvictWalkStart
  PROVE  CacheInv'
  <1> DEFINE o == [op EXCEPT !.pc = "walk", !.need = @ - op.freed, !.freed = 0]
  <1>1. /\ UNCHANGED <<file, current, maxBytes, lru, sound, partial>> /\ BeginEvict(o)
        /\ op.pc = "evict" /\ op.freed < op.need /\ lru = <<>>
    BY DEF EvictWalkStart
  <1>2. op \in OpType /\ current \in Int /\ maxBytes \in Nat
    BY DEF CacheInv, TypeOK
  <1>3. /\ o \in OpType /\ o.pc = "walk" /\ o.cid = op.cid /\ o.old = op.old
        /\ o.need - o.freed = op.need - op.freed
    <2>1. PICK n \in Int : n = op.need - op.freed
      BY <1>2 DEF OpType
    <2>2. o = [op EXCEPT !.pc = "walk", !.need = n, !.freed = 0]
      BY <2>1
    <2>3. PICK q : q = [op EXCEPT !.pc = "walk", !.need = n, !.freed = 0]
      OBVIOUS
    <2>4. q = [pc |-> "walk", cid |-> op.cid, old |-> op.old, need |-> n, freed |-> 0]
      BY <1>2, <2>3 DEF OpType
    <2>5. op.cid \in Cids \cup {NoCid} /\ op.old \in Nat
      BY <1>2 DEF OpType
    <2>6. /\ q \in OpType /\ q.pc = "walk" /\ q.cid = op.cid /\ q.old = op.old
          /\ q.need = n /\ q.freed = 0
      BY <2>4, <2>5 DEF OpType
    <2>7. n - 0 = op.need - op.freed
      BY <2>1
    <2> QED BY <2>2, <2>3, <2>6, <2>7, Zenon
  <1>4. Counted' /\ \A d : OnDisk(d)' = OnDisk(d)
    BY <1>1, SameDisk
  <1>5. TrackedOnce'
    BY <1>1 DEF CacheInv, TrackedOnce
  <1> HIDE DEF o
  <1>6. CASE current = 0
    <2>1. Unlock /\ refused' = op.cid
      BY <1>1, <1>3, <1>6 DEF BeginEvict
    <2>2. op' \in OpType /\ op'.pc = "idle"
      BY <2>1, Unlocks
    <2>3. TypeOK'
      BY <1>1, <1>2, <2>1, <2>2 DEF CacheInv, TypeOK, Files, OpType
    <2>4. AlwaysOnDisk' /\ FreesTheRest' /\ WritesWithinQuota'
      BY <1>1, <1>4, <2>2 DEF CacheInv, AlwaysOnDisk, FreesTheRest, WritesWithinQuota
    <2>5. RefusesOnlyTooLarge'
      <3> SUFFICES ASSUME sound, op.cid # NoCid PROVE Size[op.cid] > maxBytes
        BY <1>1, <2>1 DEF RefusesOnlyTooLarge
      <3>1. op.need - op.freed = Size[op.cid] - (maxBytes - current)
        BY <1>1 DEF CacheInv, FreesTheRest
      <3>2. op.need \in Int /\ op.freed \in Nat /\ op.cid \in Cids
        BY <1>2 DEF OpType
      <3>3. Size[op.cid] \in Nat
        BY <3>2, SizesAssumption
      <3> QED BY <1>1, <1>2, <1>6, <3>1, <3>2, <3>3
    <2> QED BY <1>4, <1>5, <2>3, <2>4, <2>5 DEF CacheInv
  <1>7. CASE current # 0
    <2>1. op' = o /\ UNCHANGED refused
      BY <1>1, <1>7 DEF BeginEvict
    <2>2. TypeOK'
      BY <1>1, <1>3, <2>1 DEF CacheInv, TypeOK, Files
    <2>3. AlwaysOnDisk' /\ WritesWithinQuota' /\ RefusesOnlyTooLarge'
      BY <1>1, <1>3, <1>4, <2>1
      DEF CacheInv, AlwaysOnDisk, WritesWithinQuota, RefusesOnlyTooLarge
    <2>4. FreesTheRest'
      BY <1>1, <1>3, <1>4, <2>1 DEF CacheInv, FreesTheRest
    <2> QED BY <1>4, <1>5, <2>2, <2>3, <2>4 DEF CacheInv
  <1> QED BY <1>6, <1>7

\* The walk gives up: if the disk is empty, the block is larger than the quota.
LEMMA EvictFailsKeeps ==
  ASSUME CacheInv, EvictFails
  PROVE  CacheInv'
  <1>1. /\ UNCHANGED <<file, current, maxBytes, lru, partial>> /\ Unlock /\ refused' = op.cid
        /\ op.pc = "walk" /\ op.freed < op.need
        /\ sound' = (sound /\ Files = {})
    BY DEF EvictFails
  <1>2. op' \in OpType /\ op'.pc = "idle"
    BY <1>1, Unlocks
  <1>3. op \in OpType /\ current \in Int /\ maxBytes \in Nat
    BY DEF CacheInv, TypeOK
  <1>4. TypeOK'
    BY <1>1, <1>2, <1>3 DEF CacheInv, TypeOK, Files, OpType
  <1>5. \A d : OnDisk(d)' = OnDisk(d)
    BY <1>1 DEF OnDisk, Files
  <1>6. TrackedOnce' /\ AlwaysOnDisk' /\ FreesTheRest' /\ WritesWithinQuota'
    BY <1>1, <1>2, <1>5
    DEF CacheInv, TrackedOnce, AlwaysOnDisk, FreesTheRest, WritesWithinQuota
  <1>7. Counted'
    BY <1>1 DEF CacheInv, Counted, Whole, Files
  <1>8. RefusesOnlyTooLarge'
    <2> SUFFICES ASSUME sound, Files = {}, op.cid # NoCid PROVE Size[op.cid] > maxBytes
      BY <1>1 DEF RefusesOnlyTooLarge
    <2>1. op.need - op.freed = Size[op.cid] - (maxBytes - current)
      BY <1>1 DEF CacheInv, FreesTheRest
    <2>2. op.need \in Int /\ op.freed \in Nat /\ op.cid \in Cids
      BY <1>3 DEF OpType
    <2>3. Size[op.cid] \in Nat
      BY <2>2, SizesAssumption
    <2>4. current = 0
      BY Summable, SumNat DEF CacheInv, Counted, Files
    <2> QED BY <1>1, <1>3, <2>1, <2>2, <2>3, <2>4
  <1> QED BY <1>4, <1>6, <1>7, <1>8 DEF CacheInv

\* Enough is freed: the block fits.
LEMMA EvictDoneKeeps ==
  ASSUME CacheInv, EvictDone
  PROVE  CacheInv'
  <1>1. /\ UNCHANGED <<file, current, maxBytes, lru, refused, sound, partial>>
        /\ op.pc \in {"evict", "walk"} /\ op.freed >= op.need
        /\ op' = IF op.cid = NoCid THEN NoOp ELSE [op EXCEPT !.pc = "write"]
    BY DEF EvictDone
  <1>2. op \in OpType /\ current \in Int /\ maxBytes \in Nat
    BY DEF CacheInv, TypeOK
  <1>3. Counted' /\ \A d : OnDisk(d)' = OnDisk(d)
    BY <1>1, SameDisk
  <1>4. CASE op.cid = NoCid
    <2>1. op' \in OpType /\ op'.pc = "idle"
      BY <1>1, <1>4, Unlocks DEF Unlock
    <2>2. TypeOK'
      BY <1>1, <2>1 DEF CacheInv, TypeOK, Files
    <2> QED BY <1>1, <1>3, <2>1, <2>2
            DEF CacheInv, TrackedOnce, AlwaysOnDisk, FreesTheRest, WritesWithinQuota,
                RefusesOnlyTooLarge
  <1>5. CASE op.cid # NoCid
    <2>1. op' \in OpType /\ op'.pc = "write" /\ op'.cid = op.cid /\ op'.old = op.old
      BY <1>1, <1>2, <1>5 DEF OpType
    <2>2. op.cid \in Cids /\ op.need \in Int /\ op.freed \in Nat
      BY <1>2, <1>5 DEF OpType
    <2>3. TypeOK'
      BY <1>1, <2>1, <2>2 DEF CacheInv, TypeOK, Files
    <2>4. WritesWithinQuota'
      <3> SUFFICES ASSUME sound
                   PROVE  /\ op.old = IF OnDisk(op.cid) THEN Size[op.cid] ELSE 0
                          /\ current + (Size[op.cid] - op.old) <= maxBytes
        BY <1>1, <1>3, <2>1 DEF WritesWithinQuota
      <3>1. /\ ~OnDisk(op.cid) /\ op.old = 0
            /\ op.need - op.freed = Size[op.cid] - (maxBytes - current)
        BY <1>1, <1>5 DEF CacheInv, FreesTheRest
      <3>2. Size[op.cid] \in Nat
        BY <2>2, SizesAssumption
      <3> QED BY <1>1, <1>2, <2>2, <3>1, <3>2
    <2> QED BY <1>1, <1>3, <2>1, <2>3, <2>4
            DEF CacheInv, TrackedOnce, AlwaysOnDisk, FreesTheRest, RefusesOnlyTooLarge
  <1> QED BY <1>4, <1>5

-----------------------------------------------------------------------------
(* Steps that remove files.                                                *)

\* A file is removed and its size subtracted.
LEMMA FileRemoved ==
  ASSUME CacheInv, NEW p \in Files, file' = Without(p), current' = current - file[p],
         UNCHANGED <<maxBytes, sound>>
  PROVE  /\ Files' \subseteq Paths /\ IsFiniteSet(Files') /\ file' \in [Files' -> Nat]
         /\ current' \in Int /\ file[p] \in Nat
         /\ Counted'
         /\ \A c : OnDisk(c)' => OnDisk(c)
         /\ \A c : OnDisk(c) /\ c # p[1] => OnDisk(c)'
  <1>1. IsCount(file) /\ SumFunction(file) \in Nat
    BY Summable DEF CacheInv
  <1>2. /\ DOMAIN file' = DOMAIN file \ {p} /\ IsCount(file')
        /\ file' \in [DOMAIN file' -> Nat]
        /\ \A q \in DOMAIN file' : file'[q] = file[q]
        /\ SumFunction(file') = SumFunction(file) - file[p]
    <2>1. file' = Restrict(file, DOMAIN file \ {p}) /\ p \in DOMAIN file
      BY DEF Without, Files
    <2> QED BY <1>1, <2>1, RemovedFile
  <1>3. current \in Int /\ maxBytes \in Nat /\ file[p] \in Nat /\ Files \subseteq Paths
    BY DEF CacheInv, TypeOK
  <1>4. Counted'
    <2> SUFFICES ASSUME sound
                 PROVE  Whole' /\ current' = SumFunction(file') /\ current' <= maxBytes
      BY DEF Counted
    <2>1. Whole /\ current = SumFunction(file) /\ current <= maxBytes
      BY DEF CacheInv, Counted
    <2>2. Whole'
      BY <1>2, <2>1 DEF Whole, Files
    <2> QED BY <1>2, <1>3, <2>1, <2>2
  <1>5. /\ \A c : OnDisk(c)' => OnDisk(c)
        /\ \A c : OnDisk(c) /\ c # p[1] => OnDisk(c)'
    BY <1>2 DEF OnDisk, Files, Hashed, Flat
  <1> QED BY <1>2, <1>3, <1>4, <1>5 DEF Files, IsCount

\* A block that must go has been found at one of its paths.
LEMMA FoundPath ==
  ASSUME NEW c, OnDisk(c)
  PROVE  PathOf(c) \in Files /\ PathOf(c)[1] = c
  BY DEF OnDisk, PathOf, Hashed, Flat

\* What a removal frees is no longer to be freed.
LEMMA Freed ==
  ASSUME CacheInv, NEW p \in Files, file' = Without(p), current' = current - file[p],
         UNCHANGED <<maxBytes, sound>>, op' = [op EXCEPT !.freed = @ + file[p]],
         op.pc \in {"evict", "walk"}
  PROVE  /\ op' \in OpType /\ op'.pc = op.pc /\ FreesTheRest'
  <1>1. op \in OpType /\ current \in Int /\ maxBytes \in Nat
    BY DEF CacheInv, TypeOK
  <1>2. file[p] \in Nat /\ \A c : OnDisk(c)' => OnDisk(c)
    BY FileRemoved
  <1>3. /\ op' \in OpType /\ op'.pc = op.pc /\ op'.cid = op.cid /\ op'.old = op.old
        /\ op'.need = op.need /\ op'.freed = op.freed + file[p]
    <2>1. PICK n \in Nat : n = op.freed + file[p]
      BY <1>1, <1>2 DEF OpType
    <2>2. op' = [op EXCEPT !.freed = n]
      BY <2>1
    <2>3. /\ op' \in OpType /\ op'.pc = op.pc /\ op'.cid = op.cid /\ op'.old = op.old
          /\ op'.need = op.need /\ op'.freed = n
      BY <1>1, <2>2 DEF OpType
    <2> QED BY <2>1, <2>3
  <1>4. op.need \in Int /\ op.freed \in Nat
    BY <1>1 DEF OpType
  <1>5. FreesTheRest'
    <2> SUFFICES ASSUME sound, op.cid # NoCid
                 PROVE  /\ ~OnDisk(op.cid)' /\ op.old = 0
                        /\ op.need - (op.freed + file[p]) = Size[op.cid] - (maxBytes - current')
      BY <1>3 DEF FreesTheRest
    <2>1. /\ ~OnDisk(op.cid) /\ op.old = 0
          /\ op.need - op.freed = Size[op.cid] - (maxBytes - current)
      BY DEF CacheInv, FreesTheRest
    <2>2. Size[op.cid] \in Nat
      BY <1>1, SizesAssumption DEF OpType
    <2> QED BY <1>1, <1>2, <1>4, <2>1, <2>2
  <1> QED BY <1>3, <1>5

\* The oldest entry leaves the LRU, its file with it or before it.
LEMMA EvictOldestKeeps ==
  ASSUME CacheInv, EvictOldest
  PROVE  CacheInv'
  <1>1. /\ op.pc = "evict" /\ lru # <<>> /\ lru' = Tail(lru)
        /\ UNCHANGED <<maxBytes, refused, partial>>
    BY DEF EvictOldest
  <1>2. /\ Tracks(lru', Cids) /\ Head(lru) \in Cids
        /\ \A i \in 1..Len(lru') : lru'[i] # Head(lru) /\ \E j \in 1..Len(lru) : lru'[i] = lru[j]
    <2>1. Tracks(lru, Cids)
      BY LruTracks
    <2>2. /\ Tracks(Tail(lru), Cids) /\ Head(lru) \in Cids
          /\ \A i \in 1..Len(Tail(lru)) :
               Tail(lru)[i] # Head(lru) /\ \E j \in 1..Len(lru) : Tail(lru)[i] = lru[j]
      <3>1. PICK s : s = lru
        OBVIOUS
      <3>2. Tracks(s, Cids) /\ s # <<>>
        BY <1>1, <2>1, <3>1
      <3>3. Tracks(Tail(s), Cids) /\ Head(s) \in Cids
        BY <3>2, RemovedOldest
      <3>4. \A i \in 1..Len(Tail(s)) :
              Tail(s)[i] # Head(s) /\ \E j \in 1..Len(s) : Tail(s)[i] = s[j]
        <4>1. /\ Len(s) > 0 /\ Len(Tail(s)) = Len(s) - 1 /\ Head(s) = s[1]
              /\ \A i \in 1..Len(Tail(s)) : Tail(s)[i] = s[i + 1]
          BY <3>2 DEF Tracks
        <4> QED BY <3>2, <4>1 DEF Tracks, Distinct
      <3> QED BY <3>1, <3>3, <3>4
    <2>3. lru' = Tail(lru)
      BY <1>1
    <2> QED BY <2>2, <2>3, Zenon
  <1>3. TrackedOnce' /\ lru' \in Seq(Cids)
    BY <1>2 DEF TrackedOnce, Tracks, Distinct
  <1>4. CASE /\ OnDisk(Head(lru)) /\ file' = Without(PathOf(Head(lru)))
             /\ current' = current - file[PathOf(Head(lru))]
             /\ op' = [op EXCEPT !.freed = @ + file[PathOf(Head(lru))]]
             /\ UNCHANGED sound
    <2> DEFINE p == PathOf(Head(lru))
    <2>1. p \in Files /\ p[1] = Head(lru)
      BY <1>4, FoundPath
    <2>2. /\ file' = Without(p) /\ current' = current - file[p] /\ UNCHANGED <<maxBytes, sound>>
          /\ op' = [op EXCEPT !.freed = @ + file[p]]
      BY <1>1, <1>4
    <2> HIDE DEF p
    <2>3. /\ Files' \subseteq Paths /\ IsFiniteSet(Files') /\ file' \in [Files' -> Nat]
          /\ current' \in Int /\ Counted'
          /\ \A c : OnDisk(c) /\ c # p[1] => OnDisk(c)'
      BY <2>1, <2>2, FileRemoved
    <2>4. op' \in OpType /\ op'.pc = "evict" /\ FreesTheRest'
      BY <1>1, <2>1, <2>2, Freed
    <2>5. TypeOK'
      BY <1>1, <1>3, <2>2, <2>3, <2>4 DEF CacheInv, TypeOK
    <2>6. AlwaysOnDisk'
      BY <1>1, <1>2, <2>1, <2>3, <2>4 DEF CacheInv, AlwaysOnDisk
    <2> QED BY <1>1, <1>3, <2>2, <2>3, <2>4, <2>5, <2>6
            DEF CacheInv, WritesWithinQuota, RefusesOnlyTooLarge
  <1>5. CASE /\ sound' = (sound /\ ~OnDisk(Head(lru))) /\ UNCHANGED <<file, current, op>>
    <2>1. Files' = Files /\ Whole' = Whole /\ \A c : OnDisk(c)' = OnDisk(c)
      BY <1>5 DEF OnDisk, Files, Whole
    <2>2. TypeOK'
      BY <1>1, <1>3, <1>5, <2>1 DEF CacheInv, TypeOK
    <2>3. AlwaysOnDisk'
      BY <1>1, <1>2, <1>5, <2>1 DEF CacheInv, AlwaysOnDisk
    <2> QED BY <1>1, <1>3, <1>5, <2>1, <2>2, <2>3
            DEF CacheInv, Counted, FreesTheRest, WritesWithinQuota, RefusesOnlyTooLarge
  <1> QED BY <1>4, <1>5 DEF EvictOldest

\* The walk removes any file: the LRU is empty.
LEMMA EvictWalkKeeps ==
  ASSUME CacheInv, EvictWalk
  PROVE  CacheInv'
  <1>1. /\ op.pc = "walk" /\ lru = <<>>
        /\ UNCHANGED <<maxBytes, lru, refused, sound, partial>>
    BY DEF EvictWalk, CacheInv, AlwaysOnDisk
  <1>2. PICK p \in Files : /\ file' = Without(p) /\ current' = current - file[p]
                           /\ op' = [op EXCEPT !.freed = @ + file[p]]
    BY DEF EvictWalk
  <1>3. /\ Files' \subseteq Paths /\ IsFiniteSet(Files') /\ file' \in [Files' -> Nat]
        /\ current' \in Int /\ Counted'
    BY <1>1, <1>2, FileRemoved
  <1>4. op' \in OpType /\ op'.pc = "walk" /\ FreesTheRest'
    BY <1>1, <1>2, Freed
  <1>5. TypeOK'
    BY <1>1, <1>3, <1>4 DEF CacheInv, TypeOK
  <1> QED BY <1>1, <1>3, <1>4, <1>5
          DEF CacheInv, TrackedOnce, AlwaysOnDisk, WritesWithinQuota, RefusesOnlyTooLarge

\* A file and the tracking of its CID go together; a second file would remain.
LEMMA DeleteBlockKeeps ==
  ASSUME CacheInv, NEW c \in Cids, DeleteBlock(c)
  PROVE  CacheInv'
  <1>1. /\ op.pc = "idle" /\ OnDisk(c) /\ file' = Without(PathOf(c))
        /\ current' = current - file[PathOf(c)] /\ lru' = RemoveFirst(lru, c)
        /\ UNCHANGED <<maxBytes, op, refused, sound, partial>>
    BY DEF DeleteBlock, Free
  <1> DEFINE p == PathOf(c)
  <1>2. p \in Files /\ p[1] = c
    BY <1>1, FoundPath
  <1>3. file' = Without(p) /\ current' = current - file[p] /\ UNCHANGED <<maxBytes, sound>>
    BY <1>1
  <1> HIDE DEF p
  <1>4. /\ Files' \subseteq Paths /\ IsFiniteSet(Files') /\ file' \in [Files' -> Nat]
        /\ current' \in Int /\ Counted'
        /\ \A d : OnDisk(d) /\ d # c => OnDisk(d)'
    BY <1>2, <1>3, FileRemoved
  <1>5. /\ Tracks(lru', Cids)
        /\ \A i \in 1..Len(lru') : lru'[i] # c /\ \E j \in 1..Len(lru) : lru'[i] = lru[j]
    BY <1>1, LruTracks, Removed
  <1>6. TypeOK' /\ TrackedOnce'
    BY <1>1, <1>4, <1>5 DEF CacheInv, TypeOK, TrackedOnce, Tracks, Distinct
  <1>7. AlwaysOnDisk'
    BY <1>1, <1>4, <1>5 DEF CacheInv, AlwaysOnDisk
  <1> QED BY <1>1, <1>4, <1>6, <1>7
          DEF CacheInv, FreesTheRest, WritesWithinQuota, RefusesOnlyTooLarge

-----------------------------------------------------------------------------
(* Writes, Clear and restarts.                                             *)

\* The disk once the block is written: no other file has changed.
LEMMA FileWritten ==
  ASSUME CacheInv, NEW c \in Cids, NEW n \in Nat, file' = With(Hashed(c), n)
  PROVE  /\ Files' = Files \cup {Hashed(c)} /\ Files' \subseteq Paths /\ IsFiniteSet(Files')
         /\ file' \in [Files' -> Nat]
         /\ \A d : OnDisk(d) => OnDisk(d)'
         /\ file'[Hashed(c)] = n /\ \A q \in Files \ {Hashed(c)} : file'[q] = file[q]
         /\ SumFunction(file') =
              SumFunction(file) + (n - IF Hashed(c) \in Files THEN file[Hashed(c)] ELSE 0)
  <1> DEFINE p == Hashed(c)
  <1>1. IsCount(file)
    BY Summable DEF CacheInv
  <1>2. PICK g : g = file'
    OBVIOUS
  <1>3. g = [q \in DOMAIN file \cup {p} |-> IF q = p THEN n ELSE file[q]]
    BY <1>2 DEF With, Files
  <1> HIDE DEF p
  <1>4. /\ DOMAIN g = DOMAIN file \cup {p} /\ IsCount(g)
        /\ g \in [DOMAIN g -> Nat]
        /\ g[p] = n /\ \A q \in DOMAIN file \ {p} : g[q] = file[q]
        /\ SumFunction(g) = SumFunction(file) + (n - IF p \in DOMAIN file THEN file[p] ELSE 0)
    BY <1>1, <1>3, WrittenFile
  <1>5. Files' = Files \cup {p} /\ Files' = DOMAIN g /\ IsFiniteSet(Files')
    BY <1>2, <1>4 DEF Files, IsCount
  <1>6. p \in Paths /\ Files \subseteq Paths
    BY DEF p, Hashed, Paths, CacheInv, TypeOK
  <1>7. \A d : OnDisk(d) => OnDisk(d)'
    BY <1>5 DEF OnDisk
  <1> QED BY <1>2, <1>4, <1>5, <1>6, <1>7 DEF p, Files

\* The block is written: the count grows by what the disk does.
LEMMA PutWriteKeeps ==
  ASSUME CacheInv, PutWrite
  PROVE  CacheInv'
  <1> DEFINE c == op.cid
  <1>1. /\ op.pc = "write" /\ file' = With(Hashed(c), Size[c])
        /\ current' = current + (Size[c] - op.old)
        /\ lru' = Touched(c) /\ Unlock
        /\ sound' = (sound /\ (Flat(c) \in Files => Hashed(c) \in Files))
        /\ UNCHANGED <<maxBytes, refused, partial>>
    BY DEF PutWrite
  <1>2. c \in Cids /\ Size[c] \in Nat /\ op.old \in Nat
    BY <1>1, SizesAssumption DEF CacheInv, TypeOK, OpType
  <1>3. op' \in OpType /\ op'.pc = "idle"
    BY <1>1, Unlocks
  <1>4. WritesWithinQuota /\ Counted /\ current \in Int
    BY DEF CacheInv, TypeOK
  <1>5. sound => /\ op.old = IF OnDisk(c) THEN Size[c] ELSE 0
                 /\ current + (Size[c] - op.old) <= maxBytes
    BY <1>1, <1>4 DEF WritesWithinQuota
  <1>6. /\ Files' = Files \cup {Hashed(c)} /\ Files' \subseteq Paths /\ IsFiniteSet(Files')
        /\ file' \in [Files' -> Nat]
        /\ \A d : OnDisk(d) => OnDisk(d)'
        /\ file'[Hashed(c)] = Size[c] /\ \A q \in Files \ {Hashed(c)} : file'[q] = file[q]
        /\ SumFunction(file') =
             SumFunction(file) + (Size[c] - IF Hashed(c) \in Files THEN file[Hashed(c)] ELSE 0)
    BY <1>1, <1>2, FileWritten
  <1>7. /\ Tracks(lru', Cids)
        /\ \A i \in 1..Len(lru') : lru'[i] = c \/ \E j \in 1..Len(lru) : lru'[i] = lru[j]
    BY <1>1, <1>2, LruTracks, Added
  <1> HIDE DEF c
  <1>8. Counted'
    <2> SUFFICES ASSUME sound'
                 PROVE  Whole' /\ current' = SumFunction(file') /\ current' <= maxBytes'
      BY DEF Counted
    <2>1. sound /\ (Flat(c) \in Files => Hashed(c) \in Files)
      BY <1>1
    <2>2. Hashed(c)[1] = c
      BY DEF Hashed
    <2>3. Whole /\ current = SumFunction(file)
      BY <1>4, <2>1 DEF Counted
    <2>4. Whole'
      BY <1>6, <2>2, <2>3 DEF Whole
    <2>5. op.old = IF Hashed(c) \in Files THEN file[Hashed(c)] ELSE 0
      BY <1>5, <2>1, <2>2, <2>3 DEF OnDisk, Whole
    <2>6. current' = SumFunction(file')
      BY <1>1, <1>6, <2>3, <2>5
    <2> QED BY <1>1, <1>5, <2>1, <2>4, <2>6
  <1>9. TypeOK' /\ TrackedOnce'
    BY <1>1, <1>2, <1>3, <1>4, <1>6, <1>7 DEF CacheInv, TypeOK, Tracks, TrackedOnce, Distinct
  <1>10. AlwaysOnDisk'
    <2>1. PICK d : d = c
      OBVIOUS
    <2>2. OnDisk(d)'
      BY <1>6, <2>1 DEF OnDisk
    <2> QED BY <1>1, <1>3, <1>6, <1>7, <2>1, <2>2 DEF CacheInv, AlwaysOnDisk
  <1> QED BY <1>1, <1>3, <1>8, <1>9, <1>10
          DEF CacheInv, FreesTheRest, WritesWithinQuota, RefusesOnlyTooLarge

\* A write that does not complete removes no file.
LEMMA Torn ==
  ASSUME CacheInv, op.pc = "write", file' \in TornFiles
  PROVE  /\ Files' \subseteq Paths /\ IsFiniteSet(Files') /\ file' \in [Files' -> Nat]
         /\ \A d : OnDisk(d) => OnDisk(d)'
  <1>1. op.cid \in Cids /\ Size[op.cid] \in Nat
    BY SizesAssumption DEF CacheInv, TypeOK
  <1>2. CASE file' = file
    BY <1>2 DEF CacheInv, TypeOK, Files, OnDisk
  <1>3. CASE \E n \in 0..(Size[op.cid] - 1) : file' = With(Hashed(op.cid), n)
    <2>1. PICK n \in Nat : file' = With(Hashed(op.cid), n)
      BY <1>1, <1>3
    <2> QED BY <1>1, <2>1, FileWritten
  <1> QED BY <1>2, <1>3 DEF TornFiles

\* A failed write ends the soundness unless it left the file alone.
LEMMA PutWriteFailsKeeps ==
  ASSUME CacheInv, PutWriteFails
  PROVE  CacheInv'
  <1>1. /\ op.pc = "write" /\ file' \in TornFiles /\ Unlock /\ sound' = (sound /\ file' = file)
        /\ UNCHANGED <<current, maxBytes, lru, refused, partial>>
    BY DEF PutWriteFails
  <1>2. op' \in OpType /\ op'.pc = "idle"
    BY <1>1, Unlocks
  <1>3. /\ Files' \subseteq Paths /\ IsFiniteSet(Files') /\ file' \in [Files' -> Nat]
        /\ \A d : OnDisk(d) => OnDisk(d)'
    BY <1>1, Torn
  <1>4. TypeOK' /\ TrackedOnce'
    BY <1>1, <1>2, <1>3 DEF CacheInv, TypeOK, TrackedOnce
  <1>5. AlwaysOnDisk'
    BY <1>1, <1>2, <1>3 DEF CacheInv, AlwaysOnDisk
  <1>6. Counted'
    BY <1>1 DEF CacheInv, Counted, Whole, Files
  <1> QED BY <1>1, <1>2, <1>4, <1>5, <1>6
          DEF CacheInv, FreesTheRest, WritesWithinQuota, RefusesOnlyTooLarge

\* Clear starts afresh.
LEMMA ClearKeeps ==
  ASSUME CacheInv, Clear
  PROVE  CacheInv'
  <1>1. /\ op.pc = "idle" /\ file' = <<>> /\ lru' = <<>> /\ current' = 0
        /\ sound' = TRUE /\ partial' = FALSE /\ refused' = NoCid
        /\ UNCHANGED <<maxBytes, op>>
    BY DEF Clear, Free
  <1>2. Files' = {} /\ IsFiniteSet(Files') /\ file' \in [Files' -> Nat]
    BY <1>1, FS_EmptySet DEF Files
  <1>3. SumFunction(file') = 0
    <2>1. PICK g : g = file'
      OBVIOUS
    <2>2. DOMAIN g = {} /\ IsCount(g)
      BY <1>2, <2>1 DEF Files, IsCount
    <2>3. SumFunction(g) = 0
      BY <2>2, SumNat
    <2> QED BY <2>1, <2>3
  <1>4. TypeOK' /\ TrackedOnce'
    <2>1. lru' \in Seq(Cids) /\ TrackedOnce'
      BY <1>1 DEF TrackedOnce, Distinct
    <2>2. Files' \subseteq Paths
      BY <1>2
    <2>3. /\ current' \in Int /\ maxBytes' \in Nat /\ refused' \in Cids \cup {NoCid}
          /\ op' \in OpType /\ (op'.pc \in {"touch", "write"} => op'.cid \in Cids)
          /\ sound' \in BOOLEAN /\ partial' \in BOOLEAN
      <3>1. sound' \in BOOLEAN /\ partial' \in BOOLEAN
        BY <1>1, Zenon
      <3>2. current' = 0 /\ refused' = NoCid /\ op' = op /\ maxBytes' = maxBytes
        BY <1>1
      <3> QED BY <3>1, <3>2 DEF CacheInv, TypeOK
    <2> QED BY <1>2, <2>1, <2>2, <2>3 DEF TypeOK
  <1>5. AlwaysOnDisk'
    BY <1>1 DEF AlwaysOnDisk
  <1>6. Counted'
    BY <1>1, <1>2, <1>3 DEF CacheInv, TypeOK, Counted, Whole
  <1> QED BY <1>1, <1>4, <1>5, <1>6
          DEF CacheInv, FreesTheRest, WritesWithinQuota, RefusesOnlyTooLarge

\* A failed Clear is partial, whatever it has removed.
LEMMA ClearFailsKeeps ==
  ASSUME CacheInv, ClearFails
  PROVE  CacheInv'
  <1>1. /\ op.pc = "idle" /\ sound' = (sound /\ file' = file) /\ partial' = TRUE
        /\ UNCHANGED <<current, maxBytes, lru, op, refused>>
    BY DEF ClearFails, Free
  <1>2. PICK left \in SUBSET Files : file' = Restrict(file, left)
    BY DEF ClearFails
  <1>3. IsFiniteSet(left)
    BY FS_Subset DEF CacheInv, TypeOK
  <1>4. Files' = left /\ file' \in [left -> Nat]
    BY <1>2 DEF Files, Restrict, CacheInv, TypeOK
  <1>5. TypeOK' /\ TrackedOnce'
    BY <1>1, <1>3, <1>4 DEF CacheInv, TypeOK, TrackedOnce
  <1>6. AlwaysOnDisk'
    BY <1>1 DEF AlwaysOnDisk
  <1>7. Counted'
    BY <1>1 DEF CacheInv, Counted, Whole, Files
  <1> QED BY <1>1, <1>5, <1>6, <1>7
          DEF CacheInv, FreesTheRest, WritesWithinQuota, RefusesOnlyTooLarge

\* The disk as a start-up may find it: finitely many files, of any sizes.
DiskOK == Files \subseteq Paths /\ IsFiniteSet(Files) /\ file \in [Files -> Nat]

\* What a start-up establishes.
Started ==
  /\ current = SumFunction(file)
  /\ lru \in Walks
  /\ maxBytes \in Quotas
  /\ op = NoOp
  /\ sound = (Whole /\ current <= maxBytes) /\ partial = FALSE
  /\ refused = NoCid

\* initializeCacheSize establishes the invariant.
LEMMA StartUp == DiskOK /\ Started => CacheInv
  <1> SUFFICES ASSUME Files \subseteq Paths, IsFiniteSet(Files), file \in [Files -> Nat], Started
               PROVE  CacheInv
    BY DEF DiskOK
  <1>1. IsCount(file)
    BY DEF IsCount, Files
  <1>2. SumFunction(file) \in Nat
    BY <1>1, SumNat
  <1> DEFINE C == {c \in Cids : OnDisk(c)}
  <1>3. IsFiniteSet(C)
    BY FinitelyMany DEF OnDisk
  <1>4. lru \in SetToAllKPermutations(C)
    BY DEF Started, Walks
  <1> HIDE DEF C
  <1>5. Tracks(lru, C)
    BY <1>3, <1>4, Walked
  <1>6. /\ lru \in Seq(Cids) /\ TrackedOnce
        /\ \A i \in 1..Len(lru) : OnDisk(lru[i])
    BY <1>5 DEF Tracks, TrackedOnce, C
  <1>7. op \in OpType /\ op.pc = "idle"
    BY DEF Started, NoOp, OpType
  <1>8. TypeOK
    <2>1. sound \in BOOLEAN /\ partial \in BOOLEAN
      BY Zenon DEF Started
    <2>2. current \in Int /\ maxBytes \in Nat /\ refused \in Cids \cup {NoCid}
      BY <1>2, QuotaAssumption DEF Started
    <2> QED BY <1>6, <1>7, <2>1, <2>2 DEF TypeOK
  <1>9. AlwaysOnDisk
    BY <1>6, <1>7 DEF AlwaysOnDisk
  <1>10. Counted
    BY DEF Started, Counted
  <1>11. FreesTheRest /\ WritesWithinQuota /\ RefusesOnlyTooLarge
    BY <1>7 DEF Started, FreesTheRest, WritesWithinQuota, RefusesOnlyTooLarge
  <1> QED BY <1>6, <1>8, <1>9, <1>10, <1>11 DEF CacheInv

\* A restart rebuilds everything from the files it finds, torn ones included.
LEMMA RestartKeeps ==
  ASSUME CacheInv, Restart
  PROVE  CacheInv'
  <1>1. Started'
    BY DEF Restart, Started
  <1>2. file' = file \/ (op.pc = "write" /\ file' \in TornFiles)
    BY DEF Restart
  <1>3. DiskOK'
    <2>1. CASE file' = file
      BY <2>1 DEF CacheInv, TypeOK, Files, DiskOK
    <2>2. CASE op.pc = "write" /\ file' \in TornFiles
      BY <2>2, Torn DEF DiskOK
    <2> QED BY <1>2, <2>1, <2>2
  <1> QED BY <1>1, <1>3, StartUp, PTL

-----------------------------------------------------------------------------
(* The invariant holds.                                                    *)

\* The first start finds the legacy files.
LEMMA Initially == Init => CacheInv
  <1> SUFFICES ASSUME Init PROVE CacheInv
    OBVIOUS
  <1> DEFINE F == {Flat(c) : c \in Legacy}
             f == [c \in Legacy |-> Flat(c)]
  <1>1. f \in Surjection(Legacy, F)
    BY DEF Surjection
  <1>2. IsFiniteSet(F)
    BY <1>1, CidsAssumption, FS_Surjection
  <1>3. \A p \in F : p \in Paths /\ p[1] \in Cids
    BY CidsAssumption DEF Flat, Paths
  <1>4. file = [p \in F |-> Size[p[1]]] /\ Started
    BY DEF Init, Started
  <1> HIDE DEF F
  <1>5. Files = F /\ file \in [Files -> Nat]
    BY <1>3, <1>4, SizesAssumption DEF Files
  <1> QED BY <1>2, <1>3, <1>4, <1>5, StartUp DEF DiskOK

\* Every step keeps the invariant.
LEMMA Inductive == CacheInv /\ [Next]_vars => CacheInv'
  <1> SUFFICES ASSUME CacheInv, [Next]_vars PROVE CacheInv'
    OBVIOUS
  <1>1. ASSUME NEW c \in Cids, GetRead(c) \/ PutStart(c) \/ DeleteBlock(c) PROVE CacheInv'
    BY <1>1, GetReadKeeps, PutStartKeeps, DeleteBlockKeeps
  <1>2. ASSUME NEW n \in 1..maxBytes, EvictStart(n) PROVE CacheInv'
    <2>1. n \in Nat
      BY DEF CacheInv, TypeOK
    <2> QED BY <1>2, <2>1, EvictStartKeeps
  <1>3. CASE GetTouch
    BY <1>3, GetTouchKeeps
  <1>4. CASE EvictOldest \/ EvictWalkStart \/ EvictWalk \/ EvictFails \/ EvictDone
    BY <1>4, EvictOldestKeeps, EvictWalkStartKeeps, EvictWalkKeeps, EvictFailsKeeps, EvictDoneKeeps
  <1>5. CASE PutWrite \/ PutWriteFails
    BY <1>5, PutWriteKeeps, PutWriteFailsKeeps
  <1>6. CASE Clear \/ ClearFails \/ Restart
    BY <1>6, ClearKeeps, ClearFailsKeeps, RestartKeeps
  <1>7. CASE UNCHANGED vars
    BY <1>7 DEF vars, CacheInv, TypeOK, Files, TrackedOnce, AlwaysOnDisk, OnDisk, Counted, Whole,
       FreesTheRest, WritesWithinQuota, RefusesOnlyTooLarge
  <1> QED BY <1>1, <1>2, <1>3, <1>4, <1>5, <1>6, <1>7 DEF Next

\* So it holds in every state.
LEMMA Invariance == Spec => []CacheInv
  BY Initially, Inductive, PTL DEF Spec

\* However the operations, the failures and the restarts follow one another, and for
\* any blocks, quotas and sizes, currentBytes is the bytes on disk and these stay
\* within maxBytes, while no file operation failed and no flat file was replaced.
THEOREM CountIsExact == Spec => []Accounting
  <1>1. CacheInv => Accounting
    BY DEF CacheInv, Counted, Accounting
  <1> QED BY <1>1, Invariance, PTL

\* A CID that the LRU tracks has a file, so that Has is never wrong about it, unless
\* a Clear failed half-way.
THEOREM TrackedHasFile == Spec => []TrackedOnDisk
  <1>1. CacheInv => TrackedOnDisk
    BY DEF CacheInv, TypeOK, AlwaysOnDisk, TrackedOnDisk, ToSet
  <1> QED BY <1>1, Invariance, PTL

\* Put refuses only a block that is larger than the whole cache.
THEOREM RefusalsAreJustified == Spec => []RefusesOnlyTooLarge
  <1>1. CacheInv => RefusesOnlyTooLarge
    BY DEF CacheInv
  <1> QED BY <1>1, Invariance, PTL
=============================================================================
