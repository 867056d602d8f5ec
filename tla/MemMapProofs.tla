---------------------------- MODULE MemMapProofs ----------------------------
(***************************************************************************)
(* For every number of processes, pages and page tables: the counts of     *)
(* mm/memory.c are exact, a page that can be written to belongs to one     *)
(* process, and MemMap implements PrivateMemory.                           *)
(***************************************************************************)
EXTENDS MemMap, TLAPS, FiniteSetTheorems, WellFoundedInduction

-----------------------------------------------------------------------------
(* Finite sets of numbers: the least, the greatest, the one of a rank.     *)

(* A set of numbers that is not empty has a least element, and a finite    *)
(* one a greatest.                                                         *)
LEMMA Least ==
  ASSUME NEW S \in SUBSET Nat, S # {}
  PROVE  Min(S) \in S
<1> DEFINE R == OpToRel(<, Nat)
<1>1. PICK x \in S : \A y \in S : ~(<<y, x>> \in R)
  <2> HIDE DEF R
  <2> QED BY WFMin, NatLessThanWellFounded DEF R
<1>2. \A y \in S : x <= y
  <2>1. TAKE y \in S
  <2>2. x \in Nat /\ y \in Nat
    OBVIOUS
  <2>3. ~(y < x)
    BY <1>1, <2>1, <2>2 DEF OpToRel
  <2>4. QED
    BY <2>2, <2>3
<1>3. QED
  BY <1>2 DEF Min

Above(S, x) == {y \in S : y > x}

(* Whoever gives different numbers, all below the size of a finite set, to *)
(* its elements, gives each of these numbers.                              *)
LEMMA RanksTaken ==
  ASSUME NEW S, IsFiniteSet(S), NEW f \in [S -> Nat],
         \A x \in S : f[x] < Cardinality(S),
         \A x, y \in S : f[x] = f[y] => x = y,
         NEW k \in Nat, k < Cardinality(S)
  PROVE  \E x \in S : f[x] = k
<1> DEFINE n == Cardinality(S)
           T == 0 .. n - 1
<1>1. n \in Nat
  BY FS_CardinalityType
<1>2. IsFiniteSet(T) /\ Cardinality(T) = n
  <2>1. 0 \in Int /\ n - 1 \in Int /\ (IF 0 > n - 1 THEN 0 ELSE n - 1 - 0 + 1) = n
    BY <1>1
  <2>2. QED
    BY <2>1, FS_Interval
<1>3. SUFFICES ASSUME \A x \in S : f[x] # k  PROVE FALSE
  OBVIOUS
<1>4. k \in T
  BY <1>1
<1>5. IsFiniteSet(T \ {k}) /\ Cardinality(T \ {k}) = n - 1
  BY <1>2, <1>4, FS_RemoveElement
<1>6. f \in [S -> T \ {k}]
  <2>1. ASSUME NEW x \in S  PROVE f[x] \in T \ {k}
    BY <1>1, <1>3
  <2> HIDE DEF T
  <2>2. QED
    BY <2>1
<1> HIDE DEF T
<1>7. \E x, y \in S : x # y /\ f[x] = f[y]
  BY <1>1, <1>5, <1>6, FS_PigeonHole
<1>8. QED
  BY <1>7

(* Of two elements the greater one has fewer above it. *)
LEMMA AboveFalls ==
  ASSUME NEW S \in SUBSET Nat, IsFiniteSet(S)
  PROVE  /\ \A x \in S : /\ Cardinality(Above(S, x)) \in Nat
                         /\ Cardinality(Above(S, x)) < Cardinality(S)
         /\ \A x, y \in S : x < y => Cardinality(Above(S, y)) < Cardinality(Above(S, x))
<1>1. ASSUME NEW A \in SUBSET S, NEW B \in SUBSET A, NEW z \in A, z \notin B
      PROVE  /\ Cardinality(A) \in Nat /\ Cardinality(B) \in Nat
             /\ Cardinality(B) < Cardinality(A)
  <2>1. IsFiniteSet(A)
    BY FS_Subset
  <2>2. IsFiniteSet(B) /\ Cardinality(B) <= Cardinality(A)
        /\ (Cardinality(A) = Cardinality(B) => A = B)
    BY <2>1, FS_Subset
  <2>3. Cardinality(A) \in Nat /\ Cardinality(B) \in Nat
    BY <2>1, <2>2, FS_CardinalityType
  <2>4. QED
    BY <1>1, <2>2, <2>3
<1>2. ASSUME NEW x \in S
      PROVE  /\ Cardinality(Above(S, x)) \in Nat
             /\ Cardinality(Above(S, x)) < Cardinality(S)
  <2>1. Above(S, x) \in SUBSET S /\ x \notin Above(S, x)
    BY DEF Above
  <2>2. QED
    BY <1>1, <2>1
<1>3. ASSUME NEW x \in S, NEW y \in S, x < y
      PROVE  Cardinality(Above(S, y)) < Cardinality(Above(S, x))
  <2>1. Above(S, x) \in SUBSET S /\ Above(S, y) \in SUBSET Above(S, x)
        /\ y \in Above(S, x) /\ y \notin Above(S, y)
    <3>1. x \in Nat /\ y \in Nat /\ \A u \in S : u \in Nat
      OBVIOUS
    <3>2. \A u \in S : u > y => u > x
      BY <1>3, <3>1
    <3>3. ~(y > y) /\ y > x
      BY <1>3, <3>1
    <3>4. QED
      BY <3>2, <3>3 DEF Above
  <2>2. QED
    BY <1>1, <2>1
<1>4. QED
  BY <1>2, <1>3

(* In a finite set of numbers there is one with k of them above it. *)
LEMMA OneOfRank ==
  ASSUME NEW S \in SUBSET Nat, IsFiniteSet(S), NEW k \in Nat, k < Cardinality(S)
  PROVE  \E x \in S : Cardinality(Above(S, x)) = k
<1> DEFINE f == [x \in S |-> Cardinality(Above(S, x))]
<1>1. f \in [S -> Nat] /\ \A x \in S : f[x] < Cardinality(S)
  BY AboveFalls
<1>2. ASSUME NEW x \in S, NEW y \in S, f[x] = f[y]  PROVE x = y
  <2>1. x \in Nat /\ y \in Nat /\ f[x] \in Nat
    BY <1>1
  <2>2. ~(x < y) /\ ~(y < x)
    BY <1>2, <2>1, AboveFalls
  <2>3. QED
    BY <2>1, <2>2
<1>3. \E x \in S : f[x] = k
  <2> HIDE DEF f
  <2> QED BY <1>1, <1>2, RanksTaken
<1>4. QED
  BY <1>3

(* The greatest element of a finite set has none above it.                 *)
LEMMA Greatest ==
  ASSUME NEW S \in SUBSET Nat, IsFiniteSet(S), S # {}
  PROVE  Max(S) \in S
<1>1. Cardinality(S) \in Nat /\ Cardinality(S) # 0
  BY FS_CardinalityType, FS_EmptySet
<1>2. PICK x \in S : Cardinality(Above(S, x)) = 0
  BY <1>1, OneOfRank
<1>3. Above(S, x) = {}
  <2>1. IsFiniteSet(Above(S, x))
    BY FS_Subset DEF Above
  <2>2. QED
    BY <1>2, <2>1, FS_EmptySet
<1>4. \A y \in S : x >= y
  BY <1>3 DEF Above
<1>5. QED
  BY <1>4 DEF Max

(* The rank of an element tells it from the others. *)
LEMMA RankTells ==
  ASSUME NEW S \in SUBSET Nat, IsFiniteSet(S), NEW x \in S, NEW y \in S,
         Rank(x, S) = Rank(y, S)
  PROVE  x = y /\ Rank(x, S) \in Nat
<1> DEFINE B(z) == {u \in S : u < z}
<1>1. ASSUME NEW z \in S, NEW w \in S, z < w
      PROVE  Rank(z, S) < Rank(w, S)
  <2>1. B(w) \in SUBSET S /\ B(z) \in SUBSET B(w) /\ z \in B(w) /\ z \notin B(z)
    <3>1. z \in Nat /\ w \in Nat /\ \A u \in S : u \in Nat
      OBVIOUS
    <3>2. \A u \in S : u < z => u < w
      BY <1>1, <3>1
    <3>3. ~(z < z)
      BY <3>1
    <3>4. QED
      BY <1>1, <3>2, <3>3
  <2>2. IsFiniteSet(B(w)) /\ IsFiniteSet(B(z))
    BY <2>1, FS_Subset
  <2>3. Cardinality(B(z)) <= Cardinality(B(w)) /\ Cardinality(B(z)) # Cardinality(B(w))
    <3> HIDE DEF B
    <3> QED BY <2>1, <2>2, FS_Subset
  <2>4. Cardinality(B(w)) \in Nat /\ Cardinality(B(z)) \in Nat
    BY <2>2, FS_CardinalityType
  <2>5. QED
    BY <2>3, <2>4 DEF Rank
<1>2. x \in Nat /\ y \in Nat
  OBVIOUS
<1>3. Rank(x, S) \in Nat
  <2>1. IsFiniteSet(B(x))
    BY FS_Subset
  <2>2. QED
    BY <2>1, FS_CardinalityType DEF Rank
<1>4. ~(x < y) /\ ~(y < x)
  BY <1>1, <1>3
<1>5. QED
  BY <1>2, <1>3, <1>4
-----------------------------------------------------------------------------
(* What a memory comes to.                                                 *)

(* References of page tables and directories to page p *)
Mapped(m, p) == Cardinality(EntriesTo(m, p)) + Cardinality(TablesTo(m, p))

Counted(m, h) == \A p \in Pages : m.mem_map[p] = Mapped(m, p) + h[p]
Private(m) ==
  \A s \in Slots, a \in Addresses :
    LET x == m.pg_table[s][a]
    IN x # NotPresent /\ x.w => x.page \in Pages /\ m.mem_map[x.page] = 1
HasTable(m, s, a) == m.pg_dir[s][a[1]] # NoPage
Covered(m) ==
  \A s \in Slots, a \in Addresses :
    m.pg_table[s][a] # NotPresent => HasTable(m, s, a)

(* Memory m is in order when, besides its tables, h[p] others refer to p. *)
Sound(m, h) ==
  /\ m \in MemoryState /\ h \in [Pages -> Nat]
  /\ Counted(m, h) /\ Private(m) /\ Covered(m)

(* A holder of page p less *)
Less(h, p) == [h EXCEPT ![p] = @ - 1]

NoMemory == [a \in Addresses |-> NotPresent]

(* What the programs see of it *)
View(m) ==
  [s \in Slots |-> [a \in Addresses |->
     IF m.pg_table[s][a] = NotPresent THEN NotPresent
     ELSE m.data[m.pg_table[s][a].page]]]

(* The tables alone decide which references there are. *)
LEMMA SameTables ==
  ASSUME NEW m, NEW m2, m2.pg_table = m.pg_table, m2.pg_dir = m.pg_dir, NEW p
  PROVE  Mapped(m2, p) = Mapped(m, p)
BY DEF Mapped, EntriesTo, TablesTo, Refs, TablesAt

(* There are finitely many references to a page; when there are none there *)
(* is neither entry nor table.                                             *)
LEMMA MappedFinite ==
  ASSUME NEW m, NEW p
  PROVE  /\ IsFiniteSet(EntriesTo(m, p)) /\ IsFiniteSet(TablesTo(m, p))
         /\ Cardinality(EntriesTo(m, p)) \in Nat
         /\ Cardinality(TablesTo(m, p)) \in Nat
         /\ Mapped(m, p) \in Nat
         /\ Mapped(m, p) = 0 => EntriesTo(m, p) = {} /\ TablesTo(m, p) = {}
<1>1. IsFiniteSet(Addresses)
  BY MemoryAssumption, FS_Product DEF Addresses
<1>2. IsFiniteSet(Slots \X Addresses) /\ IsFiniteSet(Slots \X Dirs)
  BY <1>1, MemoryAssumption, FS_Product
<1>3. EntriesTo(m, p) \in SUBSET (Slots \X Addresses)
      /\ TablesTo(m, p) \in SUBSET (Slots \X Dirs)
  BY DEF EntriesTo, TablesTo
<1>4. IsFiniteSet(EntriesTo(m, p)) /\ IsFiniteSet(TablesTo(m, p))
  BY <1>2, <1>3, FS_Subset
<1>5. /\ Cardinality(EntriesTo(m, p)) \in Nat /\ Cardinality(TablesTo(m, p)) \in Nat
      /\ Cardinality(EntriesTo(m, p)) = 0 => EntriesTo(m, p) = {}
      /\ Cardinality(TablesTo(m, p)) = 0 => TablesTo(m, p) = {}
  BY <1>4, FS_CardinalityType, FS_EmptySet
<1>6. QED
  BY <1>4, <1>5 DEF Mapped

(* Nothing refers to a page that is not counted, and to one that is        *)
(* counted once there is one reference.                                    *)
LEMMA Unused ==
  ASSUME NEW m, NEW h, Sound(m, h), NEW p \in Pages, m.mem_map[p] = 0
  PROVE  /\ h[p] = 0 /\ Mapped(m, p) = 0
         /\ \A s \in Slots, a \in Addresses :
              m.pg_table[s][a] # NotPresent => m.pg_table[s][a].page # p
         /\ \A s \in Slots, d \in Dirs : m.pg_dir[s][d] # p
<1>1. h[p] \in Nat /\ m.mem_map[p] = Mapped(m, p) + h[p]
  BY DEF Sound, Counted
<1>2. h[p] = 0 /\ Mapped(m, p) = 0
  BY <1>1, MappedFinite
<1>3. EntriesTo(m, p) = {} /\ TablesTo(m, p) = {}
  BY <1>2, MappedFinite
<1>4. ASSUME NEW s \in Slots, NEW a \in Addresses,
             m.pg_table[s][a] # NotPresent, m.pg_table[s][a].page = p
      PROVE  FALSE
  <2>1. <<s, a>> \in EntriesTo(m, p)
    BY <1>4 DEF EntriesTo, Refs
  <2>2. QED
    BY <1>3, <2>1
<1>5. ASSUME NEW s \in Slots, NEW d \in Dirs, m.pg_dir[s][d] = p
      PROVE  FALSE
  <2>1. <<s, d>> \in TablesTo(m, p)
    BY <1>5 DEF TablesTo, TablesAt
  <2>2. QED
    BY <1>3, <2>1
<1>6. QED
  BY <1>2, <1>4, <1>5

(* A page counted once that an entry refers to is referred to by nothing   *)
(* else.                                                                   *)
LEMMA UsedOnce ==
  ASSUME NEW m, NEW h, Sound(m, h), NEW p \in Pages, m.mem_map[p] = 1,
         NEW s \in Slots, NEW a \in Addresses,
         m.pg_table[s][a] # NotPresent, m.pg_table[s][a].page = p
  PROVE  /\ h[p] = 0
         /\ \A s2 \in Slots, a2 \in Addresses :
              m.pg_table[s2][a2] # NotPresent /\ m.pg_table[s2][a2].page = p
                => s2 = s /\ a2 = a
         /\ \A s2 \in Slots, d \in Dirs : m.pg_dir[s2][d] # p
<1> DEFINE E == EntriesTo(m, p)
           T == TablesTo(m, p)
<1>1. <<s, a>> \in E
  BY DEF EntriesTo, Refs
<1>2. /\ h[p] \in Nat /\ Cardinality(E) \in Nat /\ Cardinality(T) \in Nat
      /\ IsFiniteSet(E) /\ IsFiniteSet(T)
      /\ 1 = Cardinality(E) + Cardinality(T) + h[p]
  BY MappedFinite DEF Sound, Counted, Mapped
<1>3. Cardinality(E) # 0
  BY <1>1, <1>2, FS_EmptySet
<1>4. Cardinality(E) = 1 /\ Cardinality(T) = 0 /\ h[p] = 0
  BY <1>2, <1>3
<1>5. T = {}
  BY <1>2, <1>4, FS_EmptySet
<1>6. E = {<<s, a>>}
  <2>1. PICK x : E = {x}
    <3> HIDE DEF E
    <3> QED BY <1>2, <1>4, FS_Singleton
  <2>2. QED
    BY <1>1, <2>1
<1>7. ASSUME NEW s2 \in Slots, NEW a2 \in Addresses,
             m.pg_table[s2][a2] # NotPresent, m.pg_table[s2][a2].page = p
      PROVE  s2 = s /\ a2 = a
  <2>1. <<s2, a2>> \in E
    BY <1>7 DEF EntriesTo, Refs
  <2>2. <<s2, a2>> = <<s, a>>
    BY <1>6, <2>1
  <2>3. QED
    BY <2>2
<1>8. ASSUME NEW s2 \in Slots, NEW d \in Dirs, m.pg_dir[s2][d] = p
      PROVE  FALSE
  <2>1. <<s2, d>> \in T
    BY <1>8 DEF TablesTo, TablesAt
  <2>2. QED
    BY <1>5, <2>1
<1>9. QED
  BY <1>4, <1>7, <1>8
-----------------------------------------------------------------------------
(* get_free_page and free_page *)

(* get_free_page finds a free page when there is one, ...                  *)
LEMMA LastFreeIsFree ==
  ASSUME NEW m, FreePages(m) # {}
  PROVE  LastFree(m) \in FreePages(m)
<1>1. FreePages(m) \in SUBSET Pages /\ IsFiniteSet(Pages) /\ Pages \subseteq Nat
  BY MemoryAssumption DEF FreePages
<1>2. FreePages(m) \in SUBSET Nat /\ IsFiniteSet(FreePages(m))
  BY <1>1, FS_Subset
<1>3. QED
  BY <1>2, Greatest DEF LastFree

(* ... nothing refers to it, and its first holder is who asked for it.     *)
LEMMA GetPage ==
  ASSUME NEW m, NEW h, Sound(m, h), FreePages(m) # {},
         NEW q, q = LastFree(m), NEW n, n = get_free_page(m)
  PROVE  /\ q \in Pages /\ m.mem_map[q] = 0 /\ h[q] = 0
         /\ n.pg_table = m.pg_table /\ n.pg_dir = m.pg_dir
         /\ n.mem_map = [m.mem_map EXCEPT ![q] = 1]
         /\ n.data = [m.data EXCEPT ![q] = Zero]
         /\ Sound(n, [h EXCEPT ![q] = 1])
         /\ View(n) = View(m)
<1>1. q \in Pages /\ m.mem_map[q] = 0 /\ q \in Frames
  BY LastFreeIsFree DEF FreePages, Frames
<1>2. h[q] = 0 /\ Mapped(m, q) = 0
      /\ \A s \in Slots, a \in Addresses :
           m.pg_table[s][a] # NotPresent => m.pg_table[s][a].page # q
  BY <1>1, Unused
<1>3. n = [m EXCEPT !.mem_map[q] = 1, !.data[q] = Zero]
  BY DEF get_free_page
<1>4. m \in MemoryState /\ h \in [Pages -> Nat]
  BY DEF Sound
<1>5. /\ n.pg_table = m.pg_table /\ n.pg_dir = m.pg_dir
      /\ n.mem_map = [m.mem_map EXCEPT ![q] = 1]
      /\ n.data = [m.data EXCEPT ![q] = Zero]
  BY <1>3, <1>4 DEF MemoryState
<1>6. n \in MemoryState
  <2>1. n.mem_map \in [Pages -> Nat] /\ n.data \in [Frames -> Values]
    BY <1>1, <1>4, <1>5, MemoryAssumption DEF MemoryState
  <2>2. QED
    BY <1>3, <1>4, <1>5, <2>1 DEF MemoryState
<1>7. Counted(n, [h EXCEPT ![q] = 1])
  <2>1. SUFFICES ASSUME NEW p \in Pages
                 PROVE  n.mem_map[p] = Mapped(n, p) + [h EXCEPT ![q] = 1][p]
    BY DEF Counted
  <2>2. Mapped(n, p) = Mapped(m, p) /\ Mapped(m, p) \in Nat
    BY <1>5, SameTables, MappedFinite
  <2>3. m.mem_map \in [Pages -> Nat] /\ m.mem_map[p] = Mapped(m, p) + h[p]
    BY <1>4 DEF MemoryState, Sound, Counted
  <2>4. CASE p = q
    BY <1>1, <1>2, <1>4, <1>5, <2>2, <2>3, <2>4
  <2>5. CASE p # q
    BY <1>1, <1>4, <1>5, <2>2, <2>3, <2>5
  <2>6. QED
    BY <2>4, <2>5
<1>8. Private(n)
  <2>1. m.mem_map \in [Pages -> Nat]
    BY <1>4 DEF MemoryState
  <2>2. QED
    BY <1>1, <1>2, <1>5, <2>1 DEF Private, Sound
<1>9. Covered(n)
  BY <1>5 DEF Covered, Sound, HasTable
<1>10. View(n) = View(m)
  <2>1. m.data \in [Frames -> Values]
    BY <1>4 DEF MemoryState
  <2>2. ASSUME NEW s \in Slots, NEW a \in Addresses, m.pg_table[s][a] # NotPresent
        PROVE  n.data[m.pg_table[s][a].page] = m.data[m.pg_table[s][a].page]
    BY <1>2, <1>5, <2>1, <2>2
  <2>3. QED
    BY <1>5, <2>2 DEF View
<1>11. [h EXCEPT ![q] = 1] \in [Pages -> Nat]
  BY <1>4
<1>12. QED
  BY <1>1, <1>2, <1>5, <1>6, <1>7, <1>8, <1>9, <1>10, <1>11 DEF Sound

(* free_page: a holder less; no entry loses its page.                      *)
LEMMA FreePage ==
  ASSUME NEW m, NEW h, Sound(m, h), NEW q \in Pages, h[q] > 0,
         NEW n, n = free_page(m, q)
  PROVE  /\ n.pg_table = m.pg_table /\ n.pg_dir = m.pg_dir /\ n.data = m.data
         /\ n.mem_map = [m.mem_map EXCEPT ![q] = @ - 1]
         /\ Sound(n, Less(h, q))
         /\ View(n) = View(m)
<1>1. m \in MemoryState /\ h \in [Pages -> Nat]
  BY DEF Sound
<1>2. n = [m EXCEPT !.mem_map[q] = @ - 1]
  BY DEF free_page
<1>3. /\ n.pg_table = m.pg_table /\ n.pg_dir = m.pg_dir /\ n.data = m.data
      /\ n.mem_map = [m.mem_map EXCEPT ![q] = @ - 1]
  BY <1>1, <1>2 DEF MemoryState
<1>4. m.mem_map \in [Pages -> Nat]
  BY <1>1 DEF MemoryState
<1>5. m.mem_map[q] = Mapped(m, q) + h[q] /\ Mapped(m, q) \in Nat /\ h[q] \in Nat
  BY <1>1, MappedFinite DEF Sound, Counted
<1>6. m.mem_map[q] - 1 \in Nat
  BY <1>4, <1>5
<1>7. n.mem_map \in [Pages -> Nat]
  BY <1>3, <1>4, <1>6
<1>8. n \in MemoryState
  BY <1>1, <1>2, <1>3, <1>7 DEF MemoryState
<1>9. Counted(n, Less(h, q))
  <2>1. SUFFICES ASSUME NEW p \in Pages
                 PROVE  n.mem_map[p] = Mapped(n, p) + Less(h, q)[p]
    BY DEF Counted
  <2>2. Mapped(n, p) = Mapped(m, p) /\ Mapped(m, p) \in Nat
    BY <1>3, SameTables, MappedFinite
  <2>3. m.mem_map[p] = Mapped(m, p) + h[p] /\ h[p] \in Nat
    BY <1>1 DEF Sound, Counted
  <2>4. CASE p = q
    BY <1>1, <1>3, <1>4, <2>2, <2>3, <2>4 DEF Less
  <2>5. CASE p # q
    BY <1>1, <1>3, <1>4, <2>2, <2>3, <2>5 DEF Less
  <2>6. QED
    BY <2>4, <2>5
<1>10. Private(n)
  <2>1. SUFFICES ASSUME NEW s \in Slots, NEW a \in Addresses,
                        m.pg_table[s][a] # NotPresent, m.pg_table[s][a].w
                 PROVE  m.pg_table[s][a].page \in Pages
                        /\ n.mem_map[m.pg_table[s][a].page] = 1
    BY <1>3 DEF Private
  <2>2. m.pg_table[s][a].page \in Pages /\ m.mem_map[m.pg_table[s][a].page] = 1
    BY <2>1 DEF Sound, Private
  <2>3. h[m.pg_table[s][a].page] = 0
    BY <2>1, <2>2, UsedOnce
  <2>4. m.pg_table[s][a].page # q
    BY <1>5, <2>3
  <2>5. QED
    BY <1>3, <1>4, <2>2, <2>4
<1>11. Covered(n) /\ View(n) = View(m)
  BY <1>3 DEF Covered, Sound, HasTable, View
<1>12. Less(h, q) \in [Pages -> Nat]
  BY <1>1 DEF Less
<1>13. QED
  BY <1>3, <1>8, <1>9, <1>10, <1>11, <1>12 DEF Sound

(* A pair for each element of R, all with the same first half *)
LEMMA Fiber ==
  ASSUME NEW s, NEW R, IsFiniteSet(R)
  PROVE  IsFiniteSet({s} \X R) /\ Cardinality({s} \X R) = Cardinality(R)
         /\ Cardinality(R) \in Nat
<1>1. IsFiniteSet({s}) /\ Cardinality({s}) = 1
  BY FS_Singleton
<1>2. IsFiniteSet({s} \X R) /\ Cardinality({s} \X R) = 1 * Cardinality(R)
  BY <1>1, FS_Product
<1>3. Cardinality(R) \in Nat
  BY FS_CardinalityType
<1>4. QED
  BY <1>2, <1>3

(* A task has finitely many entries and tables.                            *)
LEMMA RefsFinite ==
  ASSUME NEW m, NEW s, NEW p
  PROVE  IsFiniteSet(Refs(m, s, p)) /\ IsFiniteSet(TablesAt(m, s, p))
<1>1. IsFiniteSet(Addresses) /\ IsFiniteSet(Dirs)
  BY MemoryAssumption, FS_Product DEF Addresses
<1>2. Refs(m, s, p) \in SUBSET Addresses /\ TablesAt(m, s, p) \in SUBSET Dirs
  BY DEF Refs, TablesAt
<1>3. QED
  BY <1>1, <1>2, FS_Subset
-----------------------------------------------------------------------------
(* free_page_tables *)

(* Memory n is m without the tables of s, and pages somebody holds that    *)
(* are counted once stay so.                                               *)
Dropped(m, n, s, h) ==
  /\ \A d \in Dirs : n.pg_dir[s][d] = NoPage
  /\ \A a \in Addresses : n.pg_table[s][a] = NotPresent
  /\ \A t \in Slots \ {s} : n.pg_dir[t] = m.pg_dir[t] /\ n.pg_table[t] = m.pg_table[t]
  /\ \A p \in Pages : h[p] > 0 /\ m.mem_map[p] = 1 => n.mem_map[p] = 1
  /\ View(n) = [View(m) EXCEPT ![s] = NoMemory]

(* free_page_tables gives back each reference of s once, and s sees        *)
(* nothing any more.                                                       *)
LEMMA DropTables ==
  ASSUME NEW m, NEW h, Sound(m, h), NEW s \in Slots, NEW n, n = free_page_tables(m, s)
  PROVE  Sound(n, h) /\ Dropped(m, n, s, h)
<1> DEFINE count == [p \in Pages |-> m.mem_map[p] - Cardinality(Refs(m, s, p))
                                                   - Cardinality(TablesAt(m, s, p))]
           empty == [a \in Addresses |-> NotPresent]
           none == [d \in Dirs |-> NoPage]
<1>1. m \in MemoryState /\ h \in [Pages -> Nat]
  BY DEF Sound
<1>2. n = [m EXCEPT !.mem_map = count, !.pg_table[s] = empty, !.pg_dir[s] = none]
  BY DEF free_page_tables
<1>3. /\ n.mem_map = count /\ n.data = m.data
      /\ n.pg_table = [m.pg_table EXCEPT ![s] = empty]
      /\ n.pg_dir = [m.pg_dir EXCEPT ![s] = none]
  <2> HIDE DEF count, empty, none
  <2> QED BY <1>1, <1>2 DEF MemoryState
<1>4. /\ m.mem_map \in [Pages -> Nat]
      /\ m.pg_dir \in [Slots -> [Dirs -> Pages \cup {NoPage}]]
      /\ m.pg_table \in [Slots -> [Addresses -> Pte \cup {NotPresent}]]
      /\ m.data \in [Frames -> Values]
  BY <1>1 DEF MemoryState
<1>5. /\ \A d \in Dirs : n.pg_dir[s][d] = NoPage
      /\ \A a \in Addresses : n.pg_table[s][a] = NotPresent
      /\ \A t \in Slots \ {s} : n.pg_dir[t] = m.pg_dir[t] /\ n.pg_table[t] = m.pg_table[t]
  BY <1>3, <1>4
<1>6. ASSUME NEW p \in Pages
      PROVE  /\ Mapped(n, p) = Mapped(m, p) - Cardinality(Refs(m, s, p))
                                            - Cardinality(TablesAt(m, s, p))
             /\ Cardinality(Refs(m, s, p)) \in Nat
             /\ Cardinality(TablesAt(m, s, p)) \in Nat
  <2> DEFINE F == {s} \X Refs(m, s, p)
             G == {s} \X TablesAt(m, s, p)
  <2>1. EntriesTo(n, p) = EntriesTo(m, p) \ F
    BY <1>5 DEF EntriesTo, Refs
  <2>2. F \subseteq EntriesTo(m, p)
    BY DEF EntriesTo, Refs
  <2>3. TablesTo(n, p) = TablesTo(m, p) \ G
    <3>1. NoPage # p
      BY MemoryAssumption
    <3>2. QED
      BY <1>5, <3>1 DEF TablesTo, TablesAt
  <2>4. G \subseteq TablesTo(m, p)
    BY DEF TablesTo, TablesAt
  <2>5. /\ Cardinality(F) = Cardinality(Refs(m, s, p)) /\ Cardinality(F) \in Nat
        /\ Cardinality(G) = Cardinality(TablesAt(m, s, p)) /\ Cardinality(G) \in Nat
    BY RefsFinite, Fiber
  <2> HIDE DEF F, G
  <2>6. /\ Cardinality(EntriesTo(n, p)) = Cardinality(EntriesTo(m, p)) - Cardinality(F)
        /\ Cardinality(TablesTo(n, p)) = Cardinality(TablesTo(m, p)) - Cardinality(G)
    <3>1. EntriesTo(m, p) \cap F = F /\ TablesTo(m, p) \cap G = G
      BY <2>2, <2>4
    <3>2. IsFiniteSet(EntriesTo(m, p)) /\ IsFiniteSet(TablesTo(m, p))
      BY MappedFinite
    <3>3. Cardinality(EntriesTo(n, p)) = Cardinality(EntriesTo(m, p)) - Cardinality(F)
      BY <2>1, <3>1, <3>2, FS_Difference
    <3>4. Cardinality(TablesTo(n, p)) = Cardinality(TablesTo(m, p)) - Cardinality(G)
      BY <2>3, <3>1, <3>2, FS_Difference
    <3>5. QED
      BY <3>3, <3>4
  <2>7. QED
    BY <2>5, <2>6, MappedFinite DEF Mapped
<1>7. ASSUME NEW p \in Pages
      PROVE  /\ n.mem_map[p] = Mapped(n, p) + h[p] /\ n.mem_map[p] \in Nat
             /\ n.mem_map[p] <= m.mem_map[p] /\ n.mem_map[p] >= h[p]
  <2>1. m.mem_map[p] = Mapped(m, p) + h[p]
    BY DEF Sound, Counted
  <2>2. n.mem_map[p] = m.mem_map[p] - Cardinality(Refs(m, s, p))
                                    - Cardinality(TablesAt(m, s, p))
    BY <1>3
  <2>3. Mapped(n, p) \in Nat /\ Mapped(m, p) \in Nat /\ h[p] \in Nat
    BY <1>1, MappedFinite
  <2>4. /\ Mapped(n, p) = Mapped(m, p) - Cardinality(Refs(m, s, p))
                                      - Cardinality(TablesAt(m, s, p))
        /\ Cardinality(Refs(m, s, p)) \in Nat
        /\ Cardinality(TablesAt(m, s, p)) \in Nat
    BY <1>6
  <2> DEFINE x == Mapped(n, p)
             y == Mapped(m, p)
             r == Cardinality(Refs(m, s, p))
             u == Cardinality(TablesAt(m, s, p))
             c == n.mem_map[p]
             e == m.mem_map[p]
  <2>5. /\ e = y + h[p] /\ c = e - r - u /\ x = y - r - u
        /\ x \in Nat /\ y \in Nat /\ r \in Nat /\ u \in Nat /\ h[p] \in Nat
    BY <2>1, <2>2, <2>3, <2>4
  <2>6. c = x + h[p] /\ c \in Nat /\ c <= e /\ c >= h[p]
    <3> HIDE DEF x, y, r, u, c, e
    <3> QED BY <2>5
  <2>7. QED
    BY <2>6
<1>8. n \in MemoryState
  <2>1. n.mem_map \in [Pages -> Nat]
    BY <1>3, <1>7
  <2>2. empty \in [Addresses -> Pte \cup {NotPresent}]
        /\ none \in [Dirs -> Pages \cup {NoPage}]
    OBVIOUS
  <2>3. n.pg_dir \in [Slots -> [Dirs -> Pages \cup {NoPage}]]
        /\ n.pg_table \in [Slots -> [Addresses -> Pte \cup {NotPresent}]]
    <3> HIDE DEF empty, none
    <3> QED BY <1>3, <1>4, <2>2
  <2> HIDE DEF count, empty, none
  <2>4. QED
    BY <1>1, <1>2, <1>3, <2>1, <2>3 DEF MemoryState
<1>9. Counted(n, h)
  BY <1>7 DEF Counted
<1>10. Private(n)
  <2>1. SUFFICES ASSUME NEW t \in Slots, NEW a \in Addresses,
                        n.pg_table[t][a] # NotPresent, n.pg_table[t][a].w
                 PROVE  /\ n.pg_table[t][a].page \in Pages
                        /\ n.mem_map[n.pg_table[t][a].page] = 1
    BY DEF Private
  <2> DEFINE p == n.pg_table[t][a].page
  <2>2. t # s /\ n.pg_table[t][a] = m.pg_table[t][a]
    BY <1>5, <2>1
  <2>3. p \in Pages /\ m.mem_map[p] = 1
    BY <2>1, <2>2 DEF Sound, Private
  <2>4. <<t, a>> \in EntriesTo(n, p)
    BY <2>1 DEF EntriesTo, Refs
  <2> HIDE DEF p
  <2>5. Mapped(n, p) # 0
    BY <2>4, MappedFinite
  <2>6. n.mem_map[p] # 0
    BY <1>1, <1>7, <2>3, <2>5, MappedFinite
  <2>7. n.mem_map[p] = 1
    BY <1>7, <2>3, <2>6
  <2>8. QED
    BY <2>3, <2>7 DEF p
<1>11. Covered(n)
  <2>1. SUFFICES ASSUME NEW t \in Slots, NEW a \in Addresses,
                        n.pg_table[t][a] # NotPresent
                 PROVE  HasTable(n, t, a)
    BY DEF Covered
  <2>2. t # s
    BY <1>5, <2>1
  <2>3. QED
    BY <1>5, <2>1, <2>2 DEF Sound, Covered, HasTable
<1>12. View(n) = [View(m) EXCEPT ![s] = empty]
  <2>1. ASSUME NEW t \in Slots
        PROVE  View(n)[t] = (IF t = s THEN empty ELSE View(m)[t])
    BY <1>3, <1>5 DEF View
  <2>2. /\ View(n) = [t \in Slots |-> View(n)[t]]
        /\ View(m) = [t \in Slots |-> View(m)[t]]
    BY DEF View
  <2> HIDE DEF empty
  <2>3. QED
    BY <2>1, <2>2
<1>13. ASSUME NEW p \in Pages, h[p] > 0, m.mem_map[p] = 1  PROVE n.mem_map[p] = 1
  <2>1. h[p] \in Nat
    BY <1>1
  <2>2. QED
    BY <1>7, <1>13, <2>1
<1>14. QED
  BY <1>1, <1>5, <1>7, <1>8, <1>9, <1>10, <1>11, <1>12, <1>13 DEF Sound, Dropped, NoMemory

-----------------------------------------------------------------------------
(* One entry, one table, the contents.                                     *)

Put2(f, x, y, v) == [f EXCEPT ![x][y] = v]
WithTable(m, s, d, q) == [m EXCEPT !.pg_dir[s][d] = q]
WithEntry(m, s, a, y) == [m EXCEPT !.pg_table[s][a] = y]
Owned(p) == [page |-> p, w |-> TRUE]
WithData(m, d) == [m EXCEPT !.data = d]

Tables(S, T, V) == [S -> [T -> V]]

(* What one entry of a table of tables becomes, and that the others stay   *)
LEMMA PutTwo ==
  ASSUME NEW S, NEW T, NEW V, NEW f \in Tables(S, T, V),
         NEW s \in S, NEW t \in T, NEW v \in V
  PROVE  /\ Put2(f, s, t, v) \in Tables(S, T, V)
         /\ \A u \in S, w \in T :
              Put2(f, s, t, v)[u][w] = IF u = s /\ w = t THEN v ELSE f[u][w]
<1>1. f \in [S -> [T -> V]] /\ f[s] \in [T -> V]
  BY DEF Tables
<1> DEFINE e == [f[s] EXCEPT ![t] = v]
<1>2. e \in [T -> V] /\ \A w \in T : e[w] = IF w = t THEN v ELSE f[s][w]
  BY <1>1
<1>3. Put2(f, s, t, v) = [f EXCEPT ![s] = e]
  BY DEF Put2
<1> HIDE DEF e
<1>4. QED
  BY <1>1, <1>2, <1>3 DEF Tables

(* From m to n nothing changes in the tables but for address a of task s.  *)
Elsewhere(m, n, s, a) ==
  /\ \A t \in Slots, d \in Dirs : t # s => n.pg_dir[t][d] = m.pg_dir[t][d]
  /\ \A t \in Slots, b \in Addresses :
       t # s \/ b # a => n.pg_table[t][b] = m.pg_table[t][b]

(* Two tables of tables that differ at one place                           *)
LEMMA IsPutTwo ==
  ASSUME NEW S, NEW T, NEW f, f = [u \in S |-> [w \in T |-> f[u][w]]],
         NEW s \in S, NEW t \in T, NEW v,
         NEW g, g = [u \in S |-> [w \in T |-> g[u][w]]],
         \A u \in S, w \in T : g[u][w] = IF u = s /\ w = t THEN v ELSE f[u][w]
  PROVE  g = Put2(f, s, t, v)
<1> DEFINE e == [f[s] EXCEPT ![t] = v]
<1>1. f[s] = [w \in T |-> f[s][w]] /\ g[s] = [w \in T |-> g[s][w]]
  OBVIOUS
<1>2. e = [w \in T |-> IF w = t THEN v ELSE f[s][w]]
  BY <1>1
<1>3. g[s] = e
  BY <1>1, <1>2
<1>4. ASSUME NEW u \in S, u # s  PROVE g[u] = f[u]
  <2>1. g[u] = [w \in T |-> g[u][w]] /\ f[u] = [w \in T |-> f[u][w]]
    OBVIOUS
  <2>2. QED
    BY <1>4, <2>1
<1>5. Put2(f, s, t, v) = [f EXCEPT ![s] = e]
  BY DEF Put2
<1>6. f = [u \in S |-> f[u]] /\ g = [u \in S |-> g[u]]
  OBVIOUS
<1> HIDE DEF e
<1>7. QED
  BY <1>3, <1>4, <1>5, <1>6

(* Memories with the same entries and counts, entries and contents, ...    *)
LEMMA SamePrivate ==
  ASSUME NEW m, NEW n, n.pg_table = m.pg_table, n.mem_map = m.mem_map, Private(m)
  PROVE  Private(n)
BY DEF Private

(* ... or contents show the same.                                          *)
LEMMA SameView ==
  ASSUME NEW m, NEW n, n.pg_table = m.pg_table, n.data = m.data
  PROVE  View(n) = View(m)
BY DEF View

(* A view that differs from another at one address of one task             *)
LEMMA ViewSet ==
  ASSUME NEW m, NEW n, NEW s \in Slots, NEW a \in Addresses, NEW v,
         \A t \in Slots, b \in Addresses :
           View(n)[t][b] = IF t = s /\ b = a THEN v ELSE View(m)[t][b]
  PROVE  View(n) = Put2(View(m), s, a, v)
<1>1. /\ View(m) = [t \in Slots |-> [b \in Addresses |-> View(m)[t][b]]]
      /\ View(n) = [t \in Slots |-> [b \in Addresses |-> View(n)[t][b]]]
  BY DEF View
<1>2. QED
  BY <1>1, IsPutTwo

To(x, p) == IF x # NotPresent /\ x.page = p THEN 1 ELSE 0

(* An entry that changes takes its reference from one page to another.     *)
LEMMA EntrySet ==
  ASSUME NEW m \in MemoryState, NEW s \in Slots, NEW a \in Addresses, NEW y \in Pte,
         NEW n, n.pg_table = Put2(m.pg_table, s, a, y), n.pg_dir = m.pg_dir,
         NEW p \in Pages
  PROVE  Mapped(n, p) = Mapped(m, p) - To(m.pg_table[s][a], p) + To(y, p)
<1> DEFINE E == EntriesTo(m, p)
           F == EntriesTo(n, p)
           z == <<s, a>>
<1>1. \A t \in Slots, b \in Addresses :
        n.pg_table[t][b] = IF t = s /\ b = a THEN y ELSE m.pg_table[t][b]
  <2> DEFINE V == Pte \cup {NotPresent}
  <2>1. m.pg_table \in Tables(Slots, Addresses, V) /\ y \in V
    BY DEF Tables, MemoryState
  <2> HIDE DEF V
  <2>2. QED
    BY <2>1, PutTwo
<1>2. \A t \in Slots, b \in Addresses :
        t # s \/ b # a => n.pg_table[t][b] = m.pg_table[t][b]
  BY <1>1
<1>3. E \ {z} = F \ {z}
  <2>1. \A w \in Slots \X Addresses : w # z => (w \in E <=> w \in F)
    <3>1. TAKE w \in Slots \X Addresses
    <3>2. SUFFICES ASSUME w # z PROVE w \in E <=> w \in F
      OBVIOUS
    <3>3. n.pg_table[w[1]][w[2]] = m.pg_table[w[1]][w[2]]
      BY <1>2, <3>2
    <3>4. QED
      BY <3>3 DEF EntriesTo, Refs
  <2>2. E \in SUBSET (Slots \X Addresses) /\ F \in SUBSET (Slots \X Addresses)
    BY DEF EntriesTo
  <2> HIDE DEF E, F
  <2>3. QED
    BY <2>1, <2>2
<1>4. z \in E <=> To(m.pg_table[s][a], p) = 1
  BY DEF EntriesTo, Refs, To
<1>5. z \in F <=> To(y, p) = 1
  BY <1>1 DEF EntriesTo, Refs, To
<1>6. To(m.pg_table[s][a], p) \in {0, 1} /\ To(y, p) \in {0, 1}
  BY DEF To
<1>7. TablesTo(n, p) = TablesTo(m, p)
  BY DEF TablesTo, TablesAt
<1>8. IsFiniteSet(E) /\ IsFiniteSet(F)
      /\ Cardinality(E) \in Nat /\ Cardinality(F) \in Nat
      /\ Cardinality(TablesTo(m, p)) \in Nat
  BY MappedFinite
<1>9. ASSUME NEW S, IsFiniteSet(S)
      PROVE  Cardinality(S \ {z}) = IF z \in S THEN Cardinality(S) - 1 ELSE Cardinality(S)
  <2>1. CASE z \in S
    BY <1>9, <2>1, FS_RemoveElement
  <2>2. CASE z \notin S
    <3>1. S \ {z} = S
      BY <2>2
    <3>2. QED
      BY <2>2, <3>1
  <2>3. QED
    BY <2>1, <2>2
<1> HIDE DEF E, F, z
<1>10. Cardinality(E \ {z}) = Cardinality(E) - To(m.pg_table[s][a], p)
  <2>1. CASE z \in E
    BY <1>4, <1>8, <1>9, <2>1
  <2>2. CASE z \notin E
    BY <1>4, <1>6, <1>8, <1>9, <2>2
  <2>3. QED
    BY <2>1, <2>2
<1>11. Cardinality(F \ {z}) = Cardinality(F) - To(y, p)
  <2>1. CASE z \in F
    BY <1>5, <1>8, <1>9, <2>1
  <2>2. CASE z \notin F
    BY <1>5, <1>6, <1>8, <1>9, <2>2
  <2>3. QED
    BY <2>1, <2>2
<1>12. Cardinality(F) = Cardinality(E) - To(m.pg_table[s][a], p) + To(y, p)
  <2> DEFINE e == Cardinality(E)
             f == Cardinality(F)
             x == To(m.pg_table[s][a], p)
             u == To(y, p)
  <2>1. e - x = f - u
    BY <1>3, <1>10, <1>11
  <2>2. e \in Nat /\ f \in Nat /\ x \in {0, 1} /\ u \in {0, 1}
    BY <1>6, <1>8
  <2>3. f = e - x + u
    <3> HIDE DEF e, f, x, u
    <3> QED BY <2>1, <2>2
  <2>4. QED
    BY <2>3
<1>13. QED
  BY <1>6, <1>7, <1>8, <1>12 DEF Mapped, E, F

(* A table that is installed is a reference to its page.                   *)
LEMMA TableSet ==
  ASSUME NEW m, m.pg_dir \in [Slots -> [Dirs -> Pages \cup {NoPage}]],
         NEW s \in Slots, NEW d \in Dirs, m.pg_dir[s][d] = NoPage,
         NEW q \in Pages, NEW n,
         n.pg_dir = Put2(m.pg_dir, s, d, q), n.pg_table = m.pg_table,
         NEW p \in Pages
  PROVE  Mapped(n, p) = Mapped(m, p) + IF p = q THEN 1 ELSE 0
<1> DEFINE E == TablesTo(m, p)
           F == TablesTo(n, p)
           z == <<s, d>>
<1>1. \A t \in Slots, b \in Dirs :
        n.pg_dir[t][b] = IF t = s /\ b = d THEN q ELSE m.pg_dir[t][b]
  <2> DEFINE V == Pages \cup {NoPage}
  <2>1. m.pg_dir \in Tables(Slots, Dirs, V) /\ q \in V
    BY DEF Tables
  <2> HIDE DEF V
  <2>2. QED
    BY <2>1, PutTwo
<1>2. NoPage # p
  BY MemoryAssumption
<1>3. z \notin E
  BY <1>2 DEF TablesTo, TablesAt
<1>4. F = IF p = q THEN E \cup {z} ELSE E
  <2>1. \A w \in Slots \X Dirs : w \in F <=> w \in E \/ (p = q /\ w = z)
    <3>1. TAKE w \in Slots \X Dirs
    <3>2. CASE w = z
      BY <1>1, <1>2, <3>2 DEF TablesTo, TablesAt
    <3>3. CASE w # z
      <4>1. n.pg_dir[w[1]][w[2]] = m.pg_dir[w[1]][w[2]]
        BY <1>1, <3>3
      <4>2. QED
        BY <3>3, <4>1 DEF TablesTo, TablesAt
    <3>4. QED
      BY <3>2, <3>3
  <2>2. E \in SUBSET (Slots \X Dirs) /\ F \in SUBSET (Slots \X Dirs)
        /\ z \in Slots \X Dirs
    BY DEF TablesTo
  <2> HIDE DEF E, F, z
  <2>3. QED
    BY <2>1, <2>2
<1>5. EntriesTo(n, p) = EntriesTo(m, p)
  BY DEF EntriesTo, Refs
<1>6. IsFiniteSet(E) /\ Cardinality(E) \in Nat /\ Cardinality(EntriesTo(m, p)) \in Nat
  BY MappedFinite
<1> HIDE DEF E, F, z
<1>7. Cardinality(F) = Cardinality(E) + IF p = q THEN 1 ELSE 0
  <2>1. CASE p = q
    <3>1. Cardinality(E \cup {z}) = Cardinality(E) + 1
      BY <1>3, <1>6, FS_AddElement
    <3>2. QED
      BY <1>4, <2>1, <3>1
  <2>2. CASE p # q
    BY <1>4, <1>6, <2>2
  <2>3. QED
    BY <2>1, <2>2
<1>8. QED
  BY <1>5, <1>6, <1>7 DEF Mapped, E, F

(* What is in the pages counts for nothing. *)
LEMMA DataSet ==
  ASSUME NEW m, NEW h, Sound(m, h), NEW n, NEW d \in [Frames -> Values],
         n = WithData(m, d)
  PROVE  /\ n.pg_table = m.pg_table /\ n.pg_dir = m.pg_dir
         /\ n.mem_map = m.mem_map /\ n.data = d
         /\ Sound(n, h)
<1>1. m \in MemoryState /\ h \in [Pages -> Nat]
  BY DEF Sound
<1>2. /\ n.pg_table = m.pg_table /\ n.pg_dir = m.pg_dir
      /\ n.mem_map = m.mem_map /\ n.data = d
  BY <1>1 DEF MemoryState, WithData
<1>3. n \in MemoryState
  BY <1>1 DEF MemoryState, WithData
<1>4. Counted(n, h)
  <2>1. \A p \in Pages : Mapped(n, p) = Mapped(m, p)
    BY <1>2, SameTables
  <2>2. QED
    BY <1>2, <2>1 DEF Sound, Counted
<1>5. Private(n) /\ Covered(n)
  BY <1>2 DEF Sound, Private, Covered, HasTable
<1>6. QED
  BY <1>1, <1>2, <1>3, <1>4, <1>5 DEF Sound

(* A page that one other holds and that is counted once is in no table. *)
LEMMA HeldAlone ==
  ASSUME NEW m, NEW h, Sound(m, h), NEW p \in Pages, m.mem_map[p] = 1, h[p] >= 1
  PROVE  /\ h[p] = 1 /\ Mapped(m, p) = 0
         /\ \A s \in Slots, a \in Addresses :
              m.pg_table[s][a] # NotPresent => m.pg_table[s][a].page # p
         /\ \A s \in Slots, d \in Dirs : m.pg_dir[s][d] # p
<1>1. h[p] \in Nat /\ m.mem_map[p] = Mapped(m, p) + h[p] /\ Mapped(m, p) \in Nat
  BY MappedFinite DEF Sound, Counted
<1>2. h[p] = 1 /\ Mapped(m, p) = 0
  BY <1>1
<1>3. EntriesTo(m, p) = {} /\ TablesTo(m, p) = {}
  BY <1>2, MappedFinite
<1>4. ASSUME NEW s \in Slots, NEW a \in Addresses,
             m.pg_table[s][a] # NotPresent, m.pg_table[s][a].page = p
      PROVE  FALSE
  <2>1. <<s, a>> \in EntriesTo(m, p)
    BY <1>4 DEF EntriesTo, Refs
  <2>2. QED
    BY <1>3, <2>1
<1>5. ASSUME NEW s \in Slots, NEW d \in Dirs, m.pg_dir[s][d] = p
      PROVE  FALSE
  <2>1. <<s, d>> \in TablesTo(m, p)
    BY <1>5 DEF TablesTo, TablesAt
  <2>2. QED
    BY <1>3, <2>1
<1>6. QED
  BY <1>2, <1>4, <1>5

-----------------------------------------------------------------------------
(* put_page *)

(* put_page, get_empty_page: a page table where there was none             *)
LEMMA InstallTable ==
  ASSUME NEW m, NEW h, Sound(m, h), FreePages(m) # {},
         NEW s \in Slots, NEW d \in Dirs, m.pg_dir[s][d] = NoPage,
         NEW n, n = WithTable(get_free_page(m), s, d, LastFree(m))
  PROVE  /\ Sound(n, h) /\ View(n) = View(m)
         /\ n.pg_table = m.pg_table /\ n.pg_dir[s][d] # NoPage
         /\ \A a \in Addresses : Elsewhere(m, n, s, a)
         /\ \A p \in Pages : m.mem_map[p] # 0 => n.mem_map[p] = m.mem_map[p]
                                              /\ n.data[p] = m.data[p]
<1> DEFINE q == LastFree(m)
           g == get_free_page(m)
           k == [h EXCEPT ![q] = 1]
<1>1. /\ q \in Pages /\ m.mem_map[q] = 0 /\ h[q] = 0
      /\ g.pg_table = m.pg_table /\ g.pg_dir = m.pg_dir
      /\ g.mem_map = [m.mem_map EXCEPT ![q] = 1]
      /\ g.data = [m.data EXCEPT ![q] = Zero]
      /\ Sound(g, k) /\ View(g) = View(m)
  BY GetPage
<1>2. /\ m.mem_map \in [Pages -> Nat] /\ m.data \in [Frames -> Values]
      /\ m.pg_dir \in [Slots -> [Dirs -> Pages \cup {NoPage}]]
      /\ h \in [Pages -> Nat] /\ g \in MemoryState
  BY <1>1 DEF Sound, MemoryState
<1> HIDE DEF g, q
<1>3. n = WithTable(g, s, d, q)
  BY DEF g, q
<1>4. /\ n.pg_table = g.pg_table /\ n.mem_map = g.mem_map /\ n.data = g.data
      /\ n.pg_dir = Put2(g.pg_dir, s, d, q)
  BY <1>2, <1>3 DEF MemoryState, WithTable, Put2
<1>8. /\ n.pg_dir \in [Slots -> [Dirs -> Pages \cup {NoPage}]]
      /\ \A t \in Slots, b \in Dirs :
           n.pg_dir[t][b] = IF t = s /\ b = d THEN q ELSE m.pg_dir[t][b]
  <2> DEFINE V == Pages \cup {NoPage}
  <2>1. g.pg_dir \in Tables(Slots, Dirs, V) /\ q \in V
    BY <1>1, <1>2 DEF Tables
  <2> HIDE DEF V
  <2>2. /\ n.pg_dir \in Tables(Slots, Dirs, V)
        /\ \A t \in Slots, b \in Dirs :
             n.pg_dir[t][b] = IF t = s /\ b = d THEN q ELSE g.pg_dir[t][b]
    BY <1>4, <2>1, PutTwo
  <2>3. QED
    BY <1>1, <2>2 DEF Tables, V
<1>5. n \in MemoryState
  BY <1>2, <1>3, <1>4, <1>8 DEF MemoryState, WithTable
<1>6. Counted(n, h)
  <2>1. SUFFICES ASSUME NEW p \in Pages PROVE n.mem_map[p] = Mapped(n, p) + h[p]
    BY DEF Counted
  <2>2. Mapped(n, p) = Mapped(g, p) + IF p = q THEN 1 ELSE 0
    <3>1. /\ g.pg_dir \in [Slots -> [Dirs -> Pages \cup {NoPage}]]
          /\ g.pg_dir[s][d] = NoPage /\ q \in Pages
          /\ n.pg_dir = Put2(g.pg_dir, s, d, q) /\ n.pg_table = g.pg_table
      BY <1>1, <1>2, <1>4
    <3>2. QED
      BY <3>1, TableSet
  <2>3. g.mem_map[p] = Mapped(g, p) + k[p] /\ Mapped(g, p) \in Nat
    BY <1>1, MappedFinite DEF Sound, Counted
  <2>4. k[p] = (IF p = q THEN 1 ELSE h[p]) /\ h[p] \in Nat
    BY <1>1, <1>2
  <2>5. CASE p = q
    BY <1>1, <1>4, <2>2, <2>3, <2>4, <2>5
  <2>6. CASE p # q
    BY <1>4, <2>2, <2>3, <2>4, <2>6
  <2>7. QED
    BY <2>5, <2>6
<1>7. NoPage # q
  BY <1>1, MemoryAssumption
<1>9. \A a \in Addresses : a[1] \in Dirs
  BY DEF Addresses
<1>10. Covered(n)
  BY <1>1, <1>4, <1>7, <1>8, <1>9 DEF Covered, Sound, HasTable
<1>11. Private(n)
  BY <1>1, <1>4, SamePrivate DEF Sound
<1>12. View(n) = View(m)
  BY <1>1, <1>4, SameView
<1>13. n.pg_dir[s][d] # NoPage
  BY <1>7, <1>8
<1>14. ASSUME NEW p \in Pages, m.mem_map[p] # 0
       PROVE  n.mem_map[p] = m.mem_map[p] /\ n.data[p] = m.data[p]
  BY <1>1, <1>2, <1>4, <1>14 DEF Frames
<1>15. \A a \in Addresses : Elsewhere(m, n, s, a)
  BY <1>1, <1>4, <1>8 DEF Elsewhere
<1>16. QED
  BY <1>1, <1>2, <1>4, <1>5, <1>6, <1>10, <1>11, <1>12, <1>13, <1>14, <1>15 DEF Sound

(* What setting one entry leaves alone                                     *)
LEMMA EntryFields ==
  ASSUME NEW m \in MemoryState, NEW s \in Slots, NEW a \in Addresses,
         NEW y \in Pte \cup {NotPresent}, NEW n, n = WithEntry(m, s, a, y)
  PROVE  /\ n \in MemoryState
         /\ n.pg_table = Put2(m.pg_table, s, a, y)
         /\ n.mem_map = m.mem_map /\ n.data = m.data /\ n.pg_dir = m.pg_dir
         /\ \A t \in Slots, b \in Addresses :
              n.pg_table[t][b] = IF t = s /\ b = a THEN y ELSE m.pg_table[t][b]
<1>1. /\ n.mem_map = m.mem_map /\ n.data = m.data /\ n.pg_dir = m.pg_dir
      /\ n.pg_table = Put2(m.pg_table, s, a, y)
  BY DEF MemoryState, WithEntry, Put2
<1> DEFINE V == Pte \cup {NotPresent}
<1>2. m.pg_table \in Tables(Slots, Addresses, V) /\ y \in V
  BY DEF MemoryState, Tables
<1> HIDE DEF V
<1>3. /\ n.pg_table \in Tables(Slots, Addresses, V)
      /\ \A t \in Slots, b \in Addresses :
           n.pg_table[t][b] = IF t = s /\ b = a THEN y ELSE m.pg_table[t][b]
  BY <1>1, <1>2, PutTwo
<1>4. n \in MemoryState
  BY <1>1, <1>3 DEF MemoryState, WithEntry, Tables, V
<1>5. QED
  BY <1>1, <1>3, <1>4

(* put_page: the page of a holder becomes the page of an entry, which may  *)
(* be written to, since there is no other reference.                       *)
LEMMA InstallPage ==
  ASSUME NEW m, NEW h, Sound(m, h), NEW s \in Slots, NEW a \in Addresses,
         m.pg_table[s][a] = NotPresent, HasTable(m, s, a),
         NEW p \in Pages, m.mem_map[p] = 1, h[p] = 1,
         NEW n, n = WithEntry(m, s, a, Owned(p))
  PROVE  /\ Sound(n, Less(h, p))
         /\ n.mem_map = m.mem_map /\ Elsewhere(m, n, s, a)
         /\ View(n) = Put2(View(m), s, a, m.data[p])
<1> DEFINE y == Owned(p)
<1>1. /\ m \in MemoryState /\ h \in [Pages -> Nat]
      /\ m.pg_table \in [Slots -> [Addresses -> Pte \cup {NotPresent}]]
  BY DEF Sound, MemoryState
<1>2. n = WithEntry(m, s, a, y)
  OBVIOUS
<1>3. y \in Pte /\ y.page = p /\ y.w
  BY DEF Pte, Frames, Owned
<1> HIDE DEF y
<1>4. y # NotPresent
  BY <1>3, NotPresentAssumption
<1>5. /\ n \in MemoryState
      /\ n.pg_table = Put2(m.pg_table, s, a, y)
      /\ n.mem_map = m.mem_map /\ n.data = m.data /\ n.pg_dir = m.pg_dir
      /\ \A t \in Slots, b \in Addresses :
           n.pg_table[t][b] = IF t = s /\ b = a THEN y ELSE m.pg_table[t][b]
  <2>1. y \in Pte \cup {NotPresent}
    BY <1>3
  <2>2. m \in MemoryState
    BY <1>1
  <2>3. QED
    BY <1>2, <2>1, <2>2, EntryFields
<1>6. Counted(n, Less(h, p))
  <2>1. SUFFICES ASSUME NEW r \in Pages
                 PROVE  n.mem_map[r] = Mapped(n, r) + Less(h, p)[r]
    BY DEF Counted
  <2>2. Mapped(n, r) = Mapped(m, r) - To(m.pg_table[s][a], r) + To(y, r)
    <3>1. /\ m \in MemoryState /\ y \in Pte
          /\ n.pg_table = Put2(m.pg_table, s, a, y) /\ n.pg_dir = m.pg_dir
      BY <1>1, <1>3, <1>5
    <3>2. QED
      BY <3>1, EntrySet
  <2>3. To(m.pg_table[s][a], r) = 0 /\ To(y, r) = IF r = p THEN 1 ELSE 0
    BY <1>3, <1>4 DEF To
  <2>4. m.mem_map[r] = Mapped(m, r) + h[r] /\ Mapped(m, r) \in Nat /\ h[r] \in Nat
    BY <1>1, MappedFinite DEF Sound, Counted
  <2>5. CASE r = p
    BY <1>1, <1>5, <2>2, <2>3, <2>4, <2>5 DEF Less
  <2>6. CASE r # p
    BY <1>1, <1>5, <2>2, <2>3, <2>4, <2>6 DEF Less
  <2>7. QED
    BY <2>5, <2>6
<1>7. Private(n)
  <2>1. SUFFICES ASSUME NEW t \in Slots, NEW b \in Addresses,
                        n.pg_table[t][b] # NotPresent, n.pg_table[t][b].w
                 PROVE  /\ n.pg_table[t][b].page \in Pages
                        /\ n.mem_map[n.pg_table[t][b].page] = 1
    BY DEF Private
  <2>2. CASE t = s /\ b = a
    BY <1>3, <1>5, <2>2
  <2>3. CASE ~(t = s /\ b = a)
    BY <1>5, <2>1, <2>3 DEF Sound, Private
  <2>4. QED
    BY <2>2, <2>3
<1>8. Covered(n)
  <2>1. \A t \in Slots, b \in Addresses : HasTable(n, t, b) <=> HasTable(m, t, b)
    BY <1>5 DEF HasTable
  <2>2. QED
    BY <1>4, <1>5, <2>1 DEF Covered, Sound
<1>9. View(n) = Put2(View(m), s, a, m.data[p])
  <2> DEFINE v == m.data[p]
  <2>1. ASSUME NEW t \in Slots, NEW b \in Addresses
        PROVE  View(n)[t][b] = IF t = s /\ b = a THEN v ELSE View(m)[t][b]
    <3>1. CASE t = s /\ b = a
      BY <1>3, <1>4, <1>5, <3>1 DEF View
    <3>2. CASE ~(t = s /\ b = a)
      BY <1>5, <3>2 DEF View
    <3>3. QED
      BY <3>1, <3>2
  <2> HIDE DEF v
  <2>2. View(n) = Put2(View(m), s, a, v)
    BY <2>1, ViewSet
  <2>3. QED
    BY <2>2 DEF v
<1>10. Elsewhere(m, n, s, a)
  BY <1>5 DEF Elsewhere
<1>11. Less(h, p) \in [Pages -> Nat]
  BY <1>1 DEF Less
<1>12. QED
  BY <1>1, <1>5, <1>6, <1>7, <1>8, <1>9, <1>10, <1>11 DEF Sound

(* put_page with or without a new page table                               *)
LEMMA PutPage ==
  ASSUME NEW m, NEW h, Sound(m, h), NEW s \in Slots, NEW a \in Addresses,
         m.pg_table[s][a] = NotPresent, PutFits(m, s, a),
         NEW p \in Pages, m.mem_map[p] = 1, h[p] = 1,
         NEW n, n = put_page(m, s, a, p)
  PROVE  /\ Sound(n, Less(h, p))
         /\ View(n) = Put2(View(m), s, a, m.data[p])
         /\ Elsewhere(m, n, s, a)
         /\ \A r \in Pages : m.mem_map[r] # 0 => n.mem_map[r] = m.mem_map[r]
<1>1. a[1] \in Dirs
  BY DEF Addresses
<1> DEFINE g == IF HasTable(m, s, a) THEN m
                ELSE WithTable(get_free_page(m), s, a[1], LastFree(m))
<1>2. /\ Sound(g, h) /\ View(g) = View(m)
      /\ g.pg_table = m.pg_table /\ HasTable(g, s, a)
      /\ Elsewhere(m, g, s, a)
      /\ \A r \in Pages : m.mem_map[r] # 0 => g.mem_map[r] = m.mem_map[r]
                                           /\ g.data[r] = m.data[r]
  <2>1. CASE HasTable(m, s, a)
    BY <2>1 DEF Elsewhere
  <2>2. CASE ~HasTable(m, s, a)
    <3>1. FreePages(m) # {}
      BY <2>2 DEF PutFits, HasTable
    <3>2. g = WithTable(get_free_page(m), s, a[1], LastFree(m))
      BY <2>2
    <3> DEFINE d == a[1]
    <3>3. d \in Dirs /\ m.pg_dir[s][d] = NoPage
          /\ g = WithTable(get_free_page(m), s, d, LastFree(m))
      BY <1>1, <2>2, <3>2 DEF HasTable
    <3> HIDE DEF g, d
    <3>4. /\ Sound(g, h) /\ View(g) = View(m)
          /\ g.pg_table = m.pg_table /\ g.pg_dir[s][d] # NoPage
          /\ \A b \in Addresses : Elsewhere(m, g, s, b)
          /\ \A r \in Pages : m.mem_map[r] # 0 => g.mem_map[r] = m.mem_map[r]
                                               /\ g.data[r] = m.data[r]
      BY <3>1, <3>3, InstallTable
    <3>5. QED
      BY <3>4 DEF HasTable, d
  <2>3. QED
    BY <2>1, <2>2
<1>3. n = WithEntry(g, s, a, Owned(p))
  BY DEF put_page, WithTable, WithEntry, Owned, HasTable
<1> HIDE DEF g
<1>4. /\ g.pg_table[s][a] = NotPresent /\ g.mem_map[p] = 1 /\ g.data[p] = m.data[p]
  BY <1>2
<1>5. /\ Sound(n, Less(h, p))
      /\ n.mem_map = g.mem_map /\ Elsewhere(g, n, s, a)
      /\ View(n) = Put2(View(g), s, a, g.data[p])
  BY <1>2, <1>3, <1>4, InstallPage
<1>6. Elsewhere(m, n, s, a)
  BY <1>2, <1>5 DEF Elsewhere
<1>7. QED
  BY <1>2, <1>4, <1>5, <1>6

-----------------------------------------------------------------------------
(* un_wp_page and stores *)

(* Two views that show the same at each address are the same.              *)
LEMMA ViewSame ==
  ASSUME NEW m, NEW n,
         \A t \in Slots, b \in Addresses : View(n)[t][b] = View(m)[t][b]
  PROVE  View(n) = View(m)
<1>1. /\ View(m) = [t \in Slots |-> [b \in Addresses |-> View(m)[t][b]]]
      /\ View(n) = [t \in Slots |-> [b \in Addresses |-> View(n)[t][b]]]
  BY DEF View
<1>2. QED
  BY <1>1

(* Setting the write bit leaves the page of an entry.                      *)
LEMMA SetBit ==
  ASSUME NEW V, NEW x \in [page : Frames, w : V], NEW c \in V
  PROVE  [x EXCEPT !.w = c] = [page |-> x.page, w |-> c]
OBVIOUS

(* un_wp_page: a page counted once can be made writable, and nothing is    *)
(* seen of it.                                                             *)
LEMMA UnprotectKeeps ==
  ASSUME NEW m, NEW h, Sound(m, h), NEW s \in Slots, NEW a \in Addresses,
         m.pg_table[s][a] # NotPresent, MayUnprotect(m, s, a),
         NEW n, n = Unprotect(m, s, a)
  PROVE  /\ Sound(n, h) /\ View(n) = View(m) /\ n.mem_map = m.mem_map
         /\ Elsewhere(m, n, s, a)
<1> DEFINE x == m.pg_table[s][a]
           p == x.page
           y == Owned(p)
<1>1. /\ m \in MemoryState /\ h \in [Pages -> Nat]
      /\ m.pg_table \in [Slots -> [Addresses -> Pte \cup {NotPresent}]]
  BY DEF Sound, MemoryState
<1>2. x \in Pte /\ p \in Pages /\ m.mem_map[p] = 1
  BY <1>1 DEF MayUnprotect
<1>3. y \in Pte /\ y.page = p /\ y.w
  BY <1>2 DEF Pte, Frames, Owned
<1>4. n = WithEntry(m, s, a, y)
  <2>1. n = [m EXCEPT !.pg_table[s][a] = [x EXCEPT !.w = TRUE]]
    BY DEF Unprotect
  <2>2. [x EXCEPT !.w = TRUE] = y
    <3>1. x \in [page : Frames, w : BOOLEAN] /\ TRUE \in BOOLEAN
      BY <1>2 DEF Pte
    <3>2. QED
      BY <3>1, SetBit DEF Owned
  <2>3. QED
    BY <2>1, <2>2 DEF WithEntry
<1>5. y # NotPresent /\ y \in Pte \cup {NotPresent}
  BY <1>3, NotPresentAssumption
<1> HIDE DEF y
<1>6. /\ n \in MemoryState
      /\ n.pg_table = Put2(m.pg_table, s, a, y)
      /\ n.mem_map = m.mem_map /\ n.data = m.data /\ n.pg_dir = m.pg_dir
      /\ \A t \in Slots, b \in Addresses :
           n.pg_table[t][b] = IF t = s /\ b = a THEN y ELSE m.pg_table[t][b]
  BY <1>1, <1>4, <1>5, EntryFields
<1>7. Counted(n, h)
  <2>1. SUFFICES ASSUME NEW r \in Pages PROVE n.mem_map[r] = Mapped(n, r) + h[r]
    BY DEF Counted
  <2>2. Mapped(n, r) = Mapped(m, r) - To(x, r) + To(y, r)
    BY <1>1, <1>5, <1>6, EntrySet
  <2>3. To(x, r) = To(y, r) /\ To(x, r) \in {0, 1}
    BY <1>3, <1>5 DEF To
  <2>4. m.mem_map[r] = Mapped(m, r) + h[r] /\ Mapped(m, r) \in Nat
    BY MappedFinite DEF Sound, Counted
  <2>5. Mapped(n, r) = Mapped(m, r)
    BY <2>2, <2>3, <2>4
  <2>6. QED
    BY <1>6, <2>4, <2>5
<1>8. Private(n)
  <2>1. SUFFICES ASSUME NEW t \in Slots, NEW b \in Addresses,
                        n.pg_table[t][b] # NotPresent, n.pg_table[t][b].w
                 PROVE  /\ n.pg_table[t][b].page \in Pages
                        /\ n.mem_map[n.pg_table[t][b].page] = 1
    BY DEF Private
  <2>2. CASE t = s /\ b = a
    BY <1>2, <1>3, <1>6, <2>2
  <2>3. CASE ~(t = s /\ b = a)
    BY <1>6, <2>1, <2>3 DEF Sound, Private
  <2>4. QED
    BY <2>2, <2>3
<1>9. Covered(n)
  <2>1. \A t \in Slots, b \in Addresses : HasTable(n, t, b) <=> HasTable(m, t, b)
    BY <1>6 DEF HasTable
  <2>2. QED
    BY <1>5, <1>6, <2>1 DEF Covered, Sound
<1>10. View(n) = View(m)
  <2>1. ASSUME NEW t \in Slots, NEW b \in Addresses
        PROVE  View(n)[t][b] = View(m)[t][b]
    <3>1. CASE t = s /\ b = a
      BY <1>3, <1>5, <1>6, <3>1 DEF View
    <3>2. CASE ~(t = s /\ b = a)
      BY <1>6, <3>2 DEF View
    <3>3. QED
      BY <3>1, <3>2
  <2>2. QED
    BY <2>1, ViewSame
<1>11. Elsewhere(m, n, s, a)
  BY <1>6 DEF Elsewhere
<1>12. QED
  BY <1>1, <1>6, <1>7, <1>8, <1>9, <1>10, <1>11 DEF Sound

(* A store to a writable page is seen at one address of one task.          *)
LEMMA StoreShows ==
  ASSUME NEW m, NEW h, Sound(m, h), NEW s \in Slots, NEW a \in Addresses,
         m.pg_table[s][a] # NotPresent, m.pg_table[s][a].w, NEW v \in Values,
         NEW n, n = [m EXCEPT !.data[m.pg_table[s][a].page] = v]
  PROVE  /\ Sound(n, h) /\ View(n) = Put2(View(m), s, a, v)
         /\ n.mem_map = m.mem_map
         /\ n.pg_table = m.pg_table /\ n.pg_dir = m.pg_dir
<1> DEFINE p == m.pg_table[s][a].page
           d == [m.data EXCEPT ![p] = v]
<1>1. p \in Pages /\ m.mem_map[p] = 1
  BY DEF Sound, Private
<1>2. m.data \in [Frames -> Values]
  BY DEF Sound, MemoryState
<1>3. /\ d \in [Frames -> Values]
      /\ \A r \in Frames : d[r] = IF r = p THEN v ELSE m.data[r]
  BY <1>2 DEF Frames
<1>4. n = WithData(m, d)
  BY DEF WithData
<1> HIDE DEF d
<1>5. /\ n.pg_table = m.pg_table /\ n.pg_dir = m.pg_dir
      /\ n.mem_map = m.mem_map /\ n.data = d
      /\ Sound(n, h)
  BY <1>3, <1>4, DataSet
<1>6. \A t \in Slots, b \in Addresses :
        m.pg_table[t][b] # NotPresent /\ m.pg_table[t][b].page = p => t = s /\ b = a
  BY <1>1, UsedOnce
<1>7. \A t \in Slots, b \in Addresses :
        m.pg_table[t][b] # NotPresent => m.pg_table[t][b].page \in Frames
  BY DEF Sound, MemoryState, Pte
<1>8. ASSUME NEW t \in Slots, NEW b \in Addresses
      PROVE  View(n)[t][b] = IF t = s /\ b = a THEN v ELSE View(m)[t][b]
  <2>1. CASE t = s /\ b = a
    BY <1>1, <1>3, <1>5, <2>1 DEF View, Frames
  <2>2. CASE ~(t = s /\ b = a)
    BY <1>3, <1>5, <1>6, <1>7, <2>2 DEF View
  <2>3. QED
    BY <2>1, <2>2
<1>9. View(n) = Put2(View(m), s, a, v)
  BY <1>8, ViewSet
<1>10. QED
  BY <1>5, <1>9

(* The page of arguments, which no table refers to yet *)
LEMMA StoreHidden ==
  ASSUME NEW m, NEW h, Sound(m, h), NEW p \in Pages, m.mem_map[p] = 1, h[p] = 1,
         NEW v \in Values, NEW n, n = [m EXCEPT !.data[p] = v]
  PROVE  /\ Sound(n, h) /\ View(n) = View(m) /\ n.mem_map = m.mem_map
         /\ n.pg_table = m.pg_table /\ n.pg_dir = m.pg_dir
<1> DEFINE d == [m.data EXCEPT ![p] = v]
<1>1. m.data \in [Frames -> Values]
  BY DEF Sound, MemoryState
<1>2. /\ d \in [Frames -> Values]
      /\ \A r \in Frames : d[r] = IF r = p THEN v ELSE m.data[r]
  BY <1>1 DEF Frames
<1>3. n = WithData(m, d)
  BY DEF WithData
<1> HIDE DEF d
<1>4. /\ n.pg_table = m.pg_table /\ n.pg_dir = m.pg_dir
      /\ n.mem_map = m.mem_map /\ n.data = d
      /\ Sound(n, h)
  BY <1>2, <1>3, DataSet
<1>5. \A t \in Slots, b \in Addresses :
        m.pg_table[t][b] # NotPresent => m.pg_table[t][b].page # p
  BY HeldAlone
<1>6. \A t \in Slots, b \in Addresses :
        m.pg_table[t][b] # NotPresent => m.pg_table[t][b].page \in Frames
  BY DEF Sound, MemoryState, Pte
<1>7. ASSUME NEW t \in Slots, NEW b \in Addresses
      PROVE  View(n)[t][b] = View(m)[t][b]
  BY <1>2, <1>4, <1>5, <1>6 DEF View
<1>8. View(n) = View(m)
  BY <1>7, ViewSame
<1>9. QED
  BY <1>4, <1>8

(* un_wp_page: the copy takes over one reference and has the contents of   *)
(* the original.                                                           *)
LEMMA CopyOnWriteKeeps ==
  ASSUME NEW m, NEW h, Sound(m, h), FreePages(m) # {},
         NEW s \in Slots, NEW a \in Addresses, m.pg_table[s][a] # NotPresent,
         NEW n, n = CopyOnWrite(m, s, a)
  PROVE  /\ Sound(n, h) /\ View(n) = View(m) /\ Elsewhere(m, n, s, a)
         /\ \A r \in Pages : h[r] > 0 /\ m.mem_map[r] = 1 => n.mem_map[r] = 1
<1> DEFINE x == m.pg_table[s][a]
           p == x.page
           q == LastFree(m)
           g == get_free_page(m)
           y == Owned(q)
           k == [h EXCEPT ![q] = 1]
<1>1. /\ m \in MemoryState /\ h \in [Pages -> Nat] /\ m.mem_map \in [Pages -> Nat]
      /\ m.pg_table \in [Slots -> [Addresses -> Pte \cup {NotPresent}]]
      /\ m.data \in [Frames -> Values]
  BY DEF Sound, MemoryState
<1>2. /\ q \in Pages /\ m.mem_map[q] = 0 /\ h[q] = 0
      /\ g.pg_table = m.pg_table /\ g.pg_dir = m.pg_dir
      /\ g.mem_map = [m.mem_map EXCEPT ![q] = 1]
      /\ g.data = [m.data EXCEPT ![q] = Zero]
      /\ Sound(g, k)
  BY GetPage
<1>3. \A t \in Slots, b \in Addresses :
        m.pg_table[t][b] # NotPresent => m.pg_table[t][b].page # q
  BY <1>2, Unused
<1>4. x \in Pte /\ p \in Frames /\ p # q
  BY <1>1, <1>3 DEF Pte
<1>5. y \in Pte /\ y.page = q /\ y.w
  BY <1>2 DEF Pte, Frames, Owned
<1>6. y # NotPresent /\ y \in Pte \cup {NotPresent}
  BY <1>5, NotPresentAssumption
<1> DEFINE f == free_page(g, p)
           e == WithEntry(f, s, a, y)
<1>7. g \in MemoryState
  BY <1>2 DEF Sound
<1>8. /\ f.pg_table = m.pg_table /\ f.pg_dir = m.pg_dir /\ f.data = g.data
      /\ \A r \in Pages : f.mem_map[r] = g.mem_map[r] - (IF r = p THEN 1 ELSE 0)
      /\ f = [g EXCEPT !.mem_map = f.mem_map] /\ DOMAIN f.mem_map = Pages
      /\ f.mem_map = [r \in Pages |-> f.mem_map[r]]
  <2>1. g.mem_map \in [Pages -> Nat]
    BY <1>7 DEF MemoryState
  <2>2. CASE p \in Pages
    <3>1. f = [g EXCEPT !.mem_map[p] = @ - 1]
      BY <2>2 DEF free_page
    <3>2. f.mem_map = [g.mem_map EXCEPT ![p] = @ - 1]
      BY <1>7, <3>1 DEF MemoryState
    <3> HIDE DEF g, p, f
    <3>3. f.pg_table = g.pg_table /\ f.pg_dir = g.pg_dir /\ f.data = g.data
      BY <1>7, <3>1 DEF MemoryState
    <3>4. f = [g EXCEPT !.mem_map = f.mem_map]
      BY <1>7, <3>1, <3>2 DEF MemoryState
    <3>5. /\ \A r \in Pages : f.mem_map[r] = g.mem_map[r] - (IF r = p THEN 1 ELSE 0)
          /\ DOMAIN f.mem_map = Pages /\ f.mem_map = [r \in Pages |-> f.mem_map[r]]
      BY <2>1, <2>2, <3>2
    <3>6. QED
      BY <1>2, <3>3, <3>4, <3>5
  <2>3. CASE p \notin Pages
    <3>1. f = g
      BY <2>3 DEF free_page
    <3> HIDE DEF g, p, f
    <3>2. QED
      BY <1>2, <1>7, <2>1, <2>3, <3>1 DEF MemoryState
  <2>4. QED
    BY <2>2, <2>3
<1> HIDE DEF g, y, f
<1>9. n = [f EXCEPT !.pg_table[s][a] = y, !.data[q] = m.data[p]]
  BY DEF CopyOnWrite, f, y, g, Owned
<1>10. /\ n.pg_table = Put2(m.pg_table, s, a, y) /\ n.pg_dir = m.pg_dir
       /\ n.mem_map = f.mem_map
       /\ n.data = [g.data EXCEPT ![q] = m.data[p]]
  <2> DEFINE v == m.data[p]
  <2>1. n = [f EXCEPT !.pg_table[s][a] = y, !.data[q] = v]
    BY <1>9
  <2> HIDE DEF v
  <2>2. f = [g EXCEPT !.mem_map = f.mem_map]
    BY <1>8
  <2>3. DOMAIN f = {"mem_map", "pg_dir", "pg_table", "data"}
    BY <1>7, <2>2 DEF MemoryState
  <2>4. n.pg_table = Put2(f.pg_table, s, a, y) /\ n.pg_dir = f.pg_dir
    BY <2>1, <2>3 DEF Put2
  <2>5. n.mem_map = f.mem_map /\ n.data = [f.data EXCEPT ![q] = v]
    BY <2>1, <2>3
  <2>6. f.pg_table = m.pg_table /\ f.pg_dir = m.pg_dir /\ f.data = g.data
    BY <1>8
  <2>7. n.pg_table = Put2(m.pg_table, s, a, y) /\ n.pg_dir = m.pg_dir
    BY <2>4, <2>6
  <2>8. n.data = [g.data EXCEPT ![q] = v]
    BY <2>5, <2>6
  <2>9. QED
    BY <2>5, <2>7, <2>8 DEF v
<1>11. /\ n.pg_table \in [Slots -> [Addresses -> Pte \cup {NotPresent}]]
       /\ \A t \in Slots, b \in Addresses :
            n.pg_table[t][b] = IF t = s /\ b = a THEN y ELSE m.pg_table[t][b]
  <2> DEFINE V == Pte \cup {NotPresent}
  <2>1. m.pg_table \in Tables(Slots, Addresses, V) /\ y \in V
    BY <1>1, <1>6 DEF Tables
  <2> HIDE DEF V
  <2>2. /\ n.pg_table \in Tables(Slots, Addresses, V)
        /\ \A t \in Slots, b \in Addresses :
             n.pg_table[t][b] = IF t = s /\ b = a THEN y ELSE m.pg_table[t][b]
    BY <1>10, <2>1, PutTwo
  <2>3. QED
    BY <2>2 DEF Tables, V
<1>12. ASSUME NEW r \in Pages
       PROVE  /\ n.mem_map[r] = Mapped(n, r) + h[r] /\ Mapped(n, r) \in Nat
              /\ n.mem_map[r] = (IF r = q THEN 1 ELSE m.mem_map[r]) - (IF r = p THEN 1 ELSE 0)
  <2>1. Mapped(n, r) = Mapped(m, r) - To(x, r) + To(y, r)
    BY <1>1, <1>6, <1>10, EntrySet
  <2>2. To(x, r) = (IF r = p THEN 1 ELSE 0) /\ To(y, r) = (IF r = q THEN 1 ELSE 0)
    BY <1>5, <1>6 DEF To
  <2>3. /\ m.mem_map[r] = Mapped(m, r) + h[r] /\ h[r] \in Nat
        /\ Mapped(m, r) \in Nat /\ Mapped(n, r) \in Nat
    BY <1>1, MappedFinite DEF Sound, Counted
  <2>4. n.mem_map[r] = (IF r = q THEN 1 ELSE m.mem_map[r]) - (IF r = p THEN 1 ELSE 0)
    BY <1>1, <1>2, <1>8, <1>10
  <2> HIDE DEF x, p, q
  <2>5. CASE r = q
    BY <1>2, <1>4, <2>1, <2>2, <2>3, <2>4, <2>5
  <2>6. CASE r # q
    BY <2>1, <2>2, <2>3, <2>4, <2>6
  <2>7. QED
    BY <2>3, <2>4, <2>5, <2>6
<1>13. /\ n.mem_map \in [Pages -> Nat] /\ n.data \in [Frames -> Values]
       /\ \A r \in Frames : n.data[r] = IF r = q THEN m.data[p] ELSE m.data[r]
  <2>1. \A r \in Pages : n.mem_map[r] \in Nat
    <3>1. TAKE r \in Pages
    <3>2. h[r] \in Nat
      BY <1>1
    <3>3. QED
      BY <1>12, <3>2
  <2>2. q \in Frames
    BY <1>2 DEF Frames
  <2> HIDE DEF p, q
  <2>3. QED
    BY <1>1, <1>2, <1>4, <1>8, <1>10, <2>1, <2>2
<1>14. n \in MemoryState
  <2>1. n = [mem_map |-> n.mem_map, pg_dir |-> n.pg_dir,
             pg_table |-> n.pg_table, data |-> n.data]
    BY <1>7, <1>8, <1>9 DEF MemoryState
  <2>2. n.pg_dir \in [Slots -> [Dirs -> Pages \cup {NoPage}]]
    BY <1>1, <1>10 DEF MemoryState
  <2>3. QED
    BY <1>11, <1>13, <2>1, <2>2 DEF MemoryState
<1>15. Counted(n, h)
  BY <1>12 DEF Counted
<1>16. Private(n)
  <2>1. SUFFICES ASSUME NEW t \in Slots, NEW b \in Addresses,
                        n.pg_table[t][b] # NotPresent, n.pg_table[t][b].w
                 PROVE  /\ n.pg_table[t][b].page \in Pages
                        /\ n.mem_map[n.pg_table[t][b].page] = 1
    BY DEF Private
  <2>2. CASE t = s /\ b = a
    <3>1. n.pg_table[t][b].page = q
      BY <1>5, <1>11, <2>2
    <3>2. QED
      BY <1>2, <1>4, <1>12, <3>1
  <2>3. CASE ~(t = s /\ b = a)
    <3> DEFINE r == n.pg_table[t][b].page
    <3>1. n.pg_table[t][b] = m.pg_table[t][b]
      BY <1>11, <2>3
    <3>2. r \in Pages /\ m.mem_map[r] = 1
      BY <2>1, <3>1 DEF Sound, Private
    <3>3. r # q
      BY <1>2, <3>2
    <3>4. r # p
      BY <2>1, <2>3, <3>1, <3>2, UsedOnce
    <3> HIDE DEF r, p, q
    <3>5. n.mem_map[r] = 1
      BY <1>12, <3>2, <3>3, <3>4
    <3>6. QED
      BY <3>2, <3>5 DEF r
  <2>4. QED
    BY <2>2, <2>3
<1>17. Covered(n)
  <2>1. \A t \in Slots, b \in Addresses : HasTable(n, t, b) <=> HasTable(m, t, b)
    BY <1>10 DEF HasTable
  <2>2. QED
    BY <1>6, <1>11, <2>1 DEF Covered, Sound
<1>18. View(n) = View(m)
  <2>1. ASSUME NEW t \in Slots, NEW b \in Addresses
        PROVE  View(n)[t][b] = View(m)[t][b]
    <3>1. CASE t = s /\ b = a
      <4>1. n.pg_table[t][b] # NotPresent /\ n.pg_table[t][b].page = q
        BY <1>5, <1>6, <1>11, <3>1
      <4>2. n.data[q] = m.data[p]
        BY <1>2, <1>13 DEF Frames
      <4>3. QED
        BY <3>1, <4>1, <4>2 DEF View
    <3>2. CASE ~(t = s /\ b = a)
      <4>1. n.pg_table[t][b] = m.pg_table[t][b]
        BY <1>11, <3>2
      <4>2. m.pg_table[t][b] # NotPresent =>
               m.pg_table[t][b].page \in Frames /\ m.pg_table[t][b].page # q
        BY <1>1, <1>3 DEF Pte
      <4>3. QED
        BY <1>13, <4>1, <4>2 DEF View
    <3>3. QED
      BY <3>1, <3>2
  <2>2. QED
    BY <2>1, ViewSame
<1>19. ASSUME NEW r \in Pages, h[r] > 0, m.mem_map[r] = 1  PROVE n.mem_map[r] = 1
  <2>1. r # q
    BY <1>2, <1>19
  <2>2. h[r] \in Nat /\ h[r] >= 1
    BY <1>1, <1>19
  <2>3. r # p
    BY <1>19, <2>2, HeldAlone
  <2> HIDE DEF p, q
  <2>4. QED
    BY <1>12, <1>19, <2>1, <2>3
<1>20. Elsewhere(m, n, s, a)
  BY <1>10, <1>11 DEF Elsewhere
<1>21. QED
  BY <1>1, <1>14, <1>15, <1>16, <1>17, <1>18, <1>19, <1>20 DEF Sound

-----------------------------------------------------------------------------
(* copy_page_tables *)

(* What copy_page_tables does to an entry: the copy refers to the same     *)
(* page and cannot be written to, ...                                      *)
LEMMA ProtectedEntry ==
  ASSUME NEW x \in Pte \cup {NotPresent}, NEW y, y = Protected(x)
  PROVE  /\ y \in Pte \cup {NotPresent}
         /\ y = NotPresent <=> x = NotPresent
         /\ x # NotPresent => y.page = x.page /\ ~y.w
<1>1. CASE x = NotPresent
  BY <1>1 DEF Protected
<1>2. CASE x # NotPresent
  <2>1. x \in [page : Frames, w : BOOLEAN] /\ FALSE \in BOOLEAN
    BY <1>2 DEF Pte
  <2>2. y = [page |-> x.page, w |-> FALSE]
    <3>1. y = [x EXCEPT !.w = FALSE]
      BY <1>2 DEF Protected
    <3>2. QED
      BY <2>1, <3>1, SetBit
  <2>3. y.page = x.page /\ ~y.w /\ y \in Pte
    BY <2>1, <2>2 DEF Pte
  <2>4. QED
    BY <1>2, <2>3, NotPresentAssumption
<1>3. QED
  BY <1>1, <1>2

(* ... nor can the original, unless its page is the kernel's.              *)
LEMMA SourceEntry ==
  ASSUME NEW x \in Pte \cup {NotPresent}, NEW y, y = SourceProtected(x)
  PROVE  /\ y \in Pte \cup {NotPresent}
         /\ y = NotPresent <=> x = NotPresent
         /\ x # NotPresent => y.page = x.page /\ (y.w => x.w /\ x.page \in LowPages)
<1>1. CASE x = NotPresent \/ x.page \in LowPages
  BY <1>1 DEF SourceProtected
<1>2. CASE ~(x = NotPresent \/ x.page \in LowPages)
  <2>1. y = Protected(x)
    BY <1>2 DEF SourceProtected
  <2>2. QED
    BY <2>1, ProtectedEntry
<1>3. QED
  BY <1>1, <1>2

(* The copies of the tables are pages that were free, each once. *)
LEMMA NewTables ==
  ASSUME NEW m, NEW s
  PROVE  /\ Copied(m, s) \subseteq Present(m, s) /\ Present(m, s) \subseteq Dirs
         /\ \A d \in Copied(m, s) : NewTable(m, s, d) \in FreePages(m)
         /\ \A d, e \in Copied(m, s) : NewTable(m, s, d) = NewTable(m, s, e) => d = e
<1> DEFINE F == FreePages(m)
           P == Present(m, s)
<1>1. F \in SUBSET Pages /\ P \in SUBSET Dirs
  BY DEF FreePages, Present
<1>2. F \in SUBSET Nat /\ IsFiniteSet(F) /\ P \in SUBSET Nat /\ IsFiniteSet(P)
  BY <1>1, MemoryAssumption, FS_Subset
<1>3. \A d \in Copied(m, s) : d \in P /\ Rank(d, P) < Cardinality(F)
  BY DEF Copied
<1>4. ASSUME NEW d \in Copied(m, s)
      PROVE  /\ NewTable(m, s, d) \in F
             /\ Cardinality(Above(F, NewTable(m, s, d))) = Rank(d, P)
  <2>1. Rank(d, P) \in Nat /\ Rank(d, P) < Cardinality(F)
    BY <1>2, <1>3, RankTells
  <2> HIDE DEF F, P
  <2>2. \E p \in F : Cardinality(Above(F, p)) = Rank(d, P)
    BY <1>2, <2>1, OneOfRank
  <2>3. NewTable(m, s, d) = CHOOSE p \in F : Cardinality(Above(F, p)) = Rank(d, P)
    BY DEF NewTable, Above, F, P
  <2>4. QED
    BY <2>2, <2>3
<1>5. ASSUME NEW d \in Copied(m, s), NEW e \in Copied(m, s),
             NewTable(m, s, d) = NewTable(m, s, e)
      PROVE  d = e
  <2>1. Rank(d, P) = Rank(e, P) /\ d \in P /\ e \in P
    BY <1>3, <1>4, <1>5
  <2> HIDE DEF P
  <2>2. QED
    BY <1>2, <2>1, RankTells
<1>6. QED
  BY <1>1, <1>3, <1>4, <1>5

Within(a, D) == a[1] \in D
Given(m, s) == {NewTable(m, s, d) : d \in Copied(m, s)}

(* What copy_page_tables leaves in each place *)
DirsOfCopy(m, from) ==
  [d \in Dirs |-> IF d \in Copied(m, from) THEN NewTable(m, from, d) ELSE NoPage]
EntriesOfCopy(m, from) ==
  [a \in Addresses |-> IF Within(a, Copied(m, from))
                       THEN Protected(m.pg_table[from][a]) ELSE NotPresent]
EntriesLeft(m, from) ==
  [a \in Addresses |-> IF Within(a, Copied(m, from))
                       THEN SourceProtected(m.pg_table[from][a])
                       ELSE m.pg_table[from][a]]
CountsLeft(m, from) ==
  [p \in Pages |-> IF p \in Given(m, from) THEN 1
                   ELSE m.mem_map[p] + Cardinality(Shared(m, from, p))]
DataLeft(m, from) ==
  [p \in Frames |-> IF p \in Given(m, from) THEN Zero ELSE m.data[p]]

IsCopy(n, m, from, to) ==
  /\ n = [mem_map |-> n.mem_map, pg_dir |-> n.pg_dir,
          pg_table |-> n.pg_table, data |-> n.data]
  /\ n.pg_dir = [t \in Slots |-> n.pg_dir[t]]
  /\ n.pg_table = [t \in Slots |-> n.pg_table[t]]
  /\ n.pg_dir[to] = DirsOfCopy(m, from)
  /\ n.pg_table[from] = EntriesLeft(m, from)
  /\ n.pg_table[to] = EntriesOfCopy(m, from)
  /\ \A t \in Slots : t # to => n.pg_dir[t] = m.pg_dir[t]
  /\ \A t \in Slots : t # to /\ t # from => n.pg_table[t] = m.pg_table[t]
  /\ n.mem_map = CountsLeft(m, from) /\ n.data = DataLeft(m, from)

(* The four tables after copy_page_tables                                  *)
LEMMA CopyFields ==
  ASSUME NEW m \in MemoryState, NEW from \in Slots, NEW to \in Slots, from # to,
         NEW n, n = CopyTables(m, from, to)
  PROVE  IsCopy(n, m, from, to)
<1>1. n = [mem_map |-> n.mem_map, pg_dir |-> n.pg_dir,
           pg_table |-> n.pg_table, data |-> n.data]
  BY DEF CopyTables, MemoryState
<1>2. n.pg_dir = [m.pg_dir EXCEPT ![to] = DirsOfCopy(m, from)]
  BY DEF CopyTables, MemoryState, DirsOfCopy
<1>3. n.pg_table = [m.pg_table EXCEPT ![from] = EntriesLeft(m, from),
                                      ![to] = EntriesOfCopy(m, from)]
  BY DEF CopyTables, MemoryState, EntriesLeft, EntriesOfCopy, Within
<1>4. n.mem_map = CountsLeft(m, from) /\ n.data = DataLeft(m, from)
  BY DEF CopyTables, MemoryState, CountsLeft, DataLeft, Given
<1>5. DOMAIN m.pg_dir = Slots /\ DOMAIN m.pg_table = Slots
  BY DEF MemoryState
<1>6. QED
  BY <1>1, <1>2, <1>3, <1>4, <1>5 DEF IsCopy

(* In each task: what its table holds then *)
LEMMA CopyRows ==
  ASSUME NEW m \in MemoryState, NEW from \in Slots, NEW to \in Slots, from # to,
         NEW n, IsCopy(n, m, from, to),
         NEW t \in Slots, NEW a \in Addresses
  PROVE  /\ n.pg_table[t][a] \in Pte \cup {NotPresent}
         /\ t = to => /\ n.pg_table[t][a] = NotPresent
                           <=> ~Within(a, Copied(m, from)) \/ m.pg_table[from][a] = NotPresent
                      /\ n.pg_table[t][a] # NotPresent
                           => /\ n.pg_table[t][a].page = m.pg_table[from][a].page
                              /\ ~n.pg_table[t][a].w
         /\ t # to => /\ n.pg_table[t][a] = NotPresent <=> m.pg_table[t][a] = NotPresent
                      /\ m.pg_table[t][a] # NotPresent
                           => n.pg_table[t][a].page = m.pg_table[t][a].page
                      /\ m.pg_table[t][a] # NotPresent /\ n.pg_table[t][a].w
                           => /\ m.pg_table[t][a].w
                              /\ \/ m.pg_table[t][a].page \in LowPages
                                 \/ t # from \/ ~Within(a, Copied(m, from))
<1> DEFINE x == m.pg_table[from][a]
           y == n.pg_table[t][a]
           in == Within(a, Copied(m, from))
<1>1. m.pg_table \in [Slots -> [Addresses -> Pte \cup {NotPresent}]]
  BY DEF MemoryState
<1>2. /\ n.pg_table[from] = EntriesLeft(m, from)
      /\ n.pg_table[to] = EntriesOfCopy(m, from)
      /\ \A u \in Slots : u # to /\ u # from => n.pg_table[u] = m.pg_table[u]
  BY DEF IsCopy
<1>3. CASE t = to
  <2>1. y = IF in THEN Protected(x) ELSE NotPresent
    BY <1>2, <1>3 DEF EntriesOfCopy
  <2>2. x \in Pte \cup {NotPresent}
    BY <1>1
  <2> HIDE DEF x, y, in
  <2>3. /\ y \in Pte \cup {NotPresent}
        /\ y = NotPresent <=> ~in \/ x = NotPresent
        /\ y # NotPresent => y.page = x.page /\ ~y.w
    BY <2>1, <2>2, ProtectedEntry
  <2>4. QED
    BY <1>3, <2>3 DEF x, y, in
<1>4. CASE t = from
  <2>1. y = IF in THEN SourceProtected(x) ELSE x
    BY <1>2, <1>4 DEF EntriesLeft
  <2>2. x \in Pte \cup {NotPresent}
    BY <1>1
  <2> HIDE DEF x, y, in
  <2>3. /\ y \in Pte \cup {NotPresent}
        /\ y = NotPresent <=> x = NotPresent
        /\ x # NotPresent => y.page = x.page /\ (y.w => x.w /\ (x.page \in LowPages \/ ~in))
    <3>1. CASE in
      BY <2>1, <2>2, <3>1, SourceEntry
    <3>2. CASE ~in
      BY <2>1, <2>2, <3>2
    <3>3. QED
      BY <3>1, <3>2
  <2>4. QED
    BY <1>4, <2>3 DEF x, y, in
<1>5. CASE t # to /\ t # from
  <2>1. n.pg_table[t] = m.pg_table[t]
    BY <1>2, <1>5
  <2>2. QED
    BY <1>1, <1>5, <2>1
<1>6. QED
  BY <1>3, <1>4, <1>5

(* ... how many references there are then ... *)
LEMMA CopyMapped ==
  ASSUME NEW m, NEW h, Sound(m, h), NEW from \in Slots, NEW to \in Slots, from # to,
         \A d \in Dirs : m.pg_dir[to][d] = NoPage,
         \A a \in Addresses : m.pg_table[to][a] = NotPresent,
         NEW n, IsCopy(n, m, from, to), NEW p \in Pages
  PROVE  /\ Mapped(n, p) \in Nat /\ n.mem_map[p] = Mapped(n, p) + h[p]
         /\ p \in Given(m, from) => m.mem_map[p] = 0 /\ n.mem_map[p] = 1
         /\ p \notin Given(m, from) =>
              /\ n.mem_map[p] = m.mem_map[p] + Cardinality(Shared(m, from, p))
              /\ Cardinality(Shared(m, from, p)) \in Nat
<1> DEFINE G == Given(m, from)
           D == Copied(m, from)
           S == {to} \X Shared(m, from, p)
           E == EntriesTo(m, p)
           T == TablesTo(m, p)
<1>1. m \in MemoryState /\ h \in [Pages -> Nat] /\ m.mem_map \in [Pages -> Nat]
  BY DEF Sound, MemoryState
<1>2. /\ \A d \in D : NewTable(m, from, d) \in FreePages(m)
      /\ \A d, e \in D : NewTable(m, from, d) = NewTable(m, from, e) => d = e
      /\ D \subseteq Dirs
  BY NewTables
<1>3. n.mem_map[p] = IF p \in G THEN 1 ELSE m.mem_map[p] + Cardinality(Shared(m, from, p))
  BY DEF IsCopy, CountsLeft
<1>4. p \in G => m.mem_map[p] = 0
  BY <1>2 DEF Given, FreePages
<1>5. IsFiniteSet(Shared(m, from, p)) /\ Cardinality(Shared(m, from, p)) \in Nat
  <2>1. Shared(m, from, p) \in SUBSET Refs(m, from, p)
    BY DEF Shared
  <2>2. QED
    BY <2>1, RefsFinite, FS_Subset, FS_CardinalityType
<1>6. IsFiniteSet(S) /\ Cardinality(S) = Cardinality(Shared(m, from, p))
  BY <1>5, Fiber
<1>7. EntriesTo(n, p) = E \cup S
  <2>1. ASSUME NEW t \in Slots, NEW a \in Addresses
        PROVE  a \in Refs(n, t, p) <=>
                 a \in Refs(m, t, p) \/ (t = to /\ a \in Shared(m, from, p))
    <3>1. CASE t = to
      <4>1. a \notin Refs(m, t, p)
        BY <3>1 DEF Refs
      <4>2. a \in Refs(n, t, p) <=> Within(a, D) /\ a \in Refs(m, from, p)
        BY <1>1, <3>1, CopyRows DEF Refs
      <4>3. QED
        BY <3>1, <4>1, <4>2 DEF Shared, Within
    <3>2. CASE t # to
      <4>1. a \in Refs(n, t, p) <=> a \in Refs(m, t, p)
        BY <1>1, <3>2, CopyRows DEF Refs
      <4>2. QED
        BY <3>2, <4>1
    <3>3. QED
      BY <3>1, <3>2
  <2>2. \A w \in Slots \X Addresses : w \in EntriesTo(n, p) <=> w \in E \/ w \in S
    <3>1. TAKE w \in Slots \X Addresses
    <3>2. PICK t \in Slots, a \in Addresses : w = <<t, a>>
      OBVIOUS
    <3>3. QED
      BY <2>1, <3>2 DEF EntriesTo
  <2>3. /\ EntriesTo(n, p) \in SUBSET (Slots \X Addresses)
        /\ E \in SUBSET (Slots \X Addresses) /\ S \in SUBSET (Slots \X Addresses)
    BY DEF EntriesTo, Shared, Refs
  <2> HIDE DEF E, S
  <2>4. QED
    BY <2>2, <2>3
<1>8. E \cap S = {}
  BY DEF EntriesTo, Refs
<1>9. IsFiniteSet(E) /\ Cardinality(E) \in Nat /\ IsFiniteSet(T) /\ Cardinality(T) \in Nat
  BY MappedFinite
<1>10. Cardinality(EntriesTo(n, p)) = Cardinality(E) + Cardinality(Shared(m, from, p))
  <2> HIDE DEF E, S
  <2>1. Cardinality(E \cup S) = Cardinality(E) + Cardinality(S) - Cardinality(E \cap S)
    BY <1>6, <1>9, FS_Union
  <2>2. Cardinality(E \cap S) = 0
    BY <1>8, FS_EmptySet
  <2>3. QED
    BY <1>5, <1>6, <1>7, <1>9, <2>1, <2>2
<1>11. \A t \in Slots, d \in Dirs :
         n.pg_dir[t][d] = IF t = to THEN (IF d \in D THEN NewTable(m, from, d) ELSE NoPage)
                          ELSE m.pg_dir[t][d]
  BY DEF IsCopy, DirsOfCopy
<1>12. NoPage # p
  BY MemoryAssumption
<1>13. CASE p \in G
  <2>1. PICK d \in D : p = NewTable(m, from, d)
    BY <1>13 DEF Given
  <2>2. /\ h[p] = 0 /\ Mapped(m, p) = 0
        /\ E = {} /\ T = {}
    BY <1>4, <1>13, Unused, MappedFinite
  <2>3. Shared(m, from, p) = {}
    <3>1. ASSUME NEW a \in Shared(m, from, p)  PROVE FALSE
      BY <1>4, <1>13, Unused DEF Shared, Refs
    <3>2. QED
      BY <3>1
  <2>4. TablesTo(n, p) = {<<to, d>>}
    <3>1. ASSUME NEW t \in Slots, NEW e \in Dirs
          PROVE  e \in TablesAt(n, t, p) <=> t = to /\ e = d
      <4>1. CASE t = to
        BY <1>2, <1>11, <1>12, <2>1, <4>1 DEF TablesAt
      <4>2. CASE t # to
        BY <1>4, <1>11, <1>13, <4>2, Unused DEF TablesAt
      <4>3. QED
        BY <4>1, <4>2
    <3>2. d \in Dirs
      BY <1>2
    <3>3. QED
      BY <3>1, <3>2 DEF TablesTo
  <2>5. Cardinality(TablesTo(n, p)) = 1 /\ Cardinality(EntriesTo(n, p)) = 0
    <3>1. Cardinality({<<to, d>>}) = 1 /\ Cardinality({}) = 0
      BY FS_Singleton, FS_EmptySet
    <3> HIDE DEF E
    <3>2. QED
      BY <1>10, <2>2, <2>3, <2>4, <3>1
  <2>6. Mapped(n, p) = 1
    BY <2>5 DEF Mapped
  <2>7. QED
    BY <1>3, <1>4, <1>13, <2>2, <2>6
<1>14. CASE p \notin G
  <2>1. TablesTo(n, p) = T
    <3>1. ASSUME NEW t \in Slots, NEW e \in Dirs
          PROVE  e \in TablesAt(n, t, p) <=> e \in TablesAt(m, t, p)
      <4>1. CASE t = to
        BY <1>11, <1>12, <1>14, <4>1 DEF TablesAt, Given
      <4>2. CASE t # to
        BY <1>11, <4>2 DEF TablesAt
      <4>3. QED
        BY <4>1, <4>2
    <3>2. QED
      BY <3>1 DEF TablesTo
  <2>2. m.mem_map[p] = Cardinality(E) + Cardinality(T) + h[p] /\ h[p] \in Nat
    BY <1>1 DEF Sound, Counted, Mapped
  <2> DEFINE c == Cardinality(Shared(m, from, p))
             e == Cardinality(E)
             u == Cardinality(T)
  <2>3. Mapped(n, p) = e + c + u
    BY <1>10, <2>1 DEF Mapped
  <2>4. n.mem_map[p] = m.mem_map[p] + c
    BY <1>3, <1>14
  <2>5. c \in Nat /\ e \in Nat /\ u \in Nat
    BY <1>5, <1>9
  <2> HIDE DEF c, e, u
  <2>6. Mapped(n, p) \in Nat /\ n.mem_map[p] = Mapped(n, p) + h[p]
    BY <2>2, <2>3, <2>4, <2>5 DEF e, u
  <2>7. QED
    BY <1>14, <2>4, <2>5, <2>6 DEF c
<1>15. QED
  BY <1>13, <1>14

(* ... and that it keeps the order and shows nothing that was not there. *)
LEMMA CopyKeeps ==
  ASSUME NEW m, NEW h, Sound(m, h), NEW from \in Slots, NEW to \in Slots, from # to,
         \A d \in Dirs : m.pg_dir[to][d] = NoPage,
         \A a \in Addresses : m.pg_table[to][a] = NotPresent,
         NEW n, n = CopyTables(m, from, to)
  PROVE  /\ Sound(n, h)
         /\ \A p \in Pages : h[p] > 0 /\ m.mem_map[p] = 1 => n.mem_map[p] = 1
         /\ \A t \in Slots : t # to => View(n)[t] = View(m)[t]
         /\ CopyFits(m, from) => View(n) = [View(m) EXCEPT ![to] = View(m)[from]]
         /\ \A t \in Slots : t # to => /\ n.pg_dir[t] = m.pg_dir[t]
                                       /\ \A a \in Addresses :
                                            n.pg_table[t][a] = NotPresent
                                              <=> m.pg_table[t][a] = NotPresent
<1> DEFINE D == Copied(m, from)
           G == Given(m, from)
<1>1. m \in MemoryState /\ h \in [Pages -> Nat] /\ m.data \in [Frames -> Values]
  BY DEF Sound, MemoryState
<1>2. IsCopy(n, m, from, to)
  BY <1>1, CopyFields
<1>3. /\ \A d \in D : NewTable(m, from, d) \in FreePages(m)
      /\ D \subseteq Present(m, from)
  BY NewTables
<1>4. /\ \A p \in G : p \in Pages /\ m.mem_map[p] = 0
      /\ \A p \in G, t \in Slots, a \in Addresses :
           m.pg_table[t][a] # NotPresent => m.pg_table[t][a].page # p
  <2>1. \A p \in G : p \in Pages /\ m.mem_map[p] = 0
    BY <1>3 DEF Given, FreePages
  <2>2. QED
    BY <2>1, Unused
<1>5. ASSUME NEW p \in Pages
      PROVE  /\ Mapped(n, p) \in Nat /\ n.mem_map[p] = Mapped(n, p) + h[p]
             /\ p \in G => m.mem_map[p] = 0 /\ n.mem_map[p] = 1
             /\ p \notin G =>
                  /\ n.mem_map[p] = m.mem_map[p] + Cardinality(Shared(m, from, p))
                  /\ Cardinality(Shared(m, from, p)) \in Nat
  BY <1>2, CopyMapped
<1>6. \A t \in Slots, d \in Dirs :
        n.pg_dir[t][d] = IF t = to THEN (IF d \in D THEN NewTable(m, from, d) ELSE NoPage)
                         ELSE m.pg_dir[t][d]
  BY <1>2 DEF IsCopy, DirsOfCopy
<1>7. n \in MemoryState
  <2>1. n.mem_map \in [Pages -> Nat]
    <3>1. ASSUME NEW p \in Pages  PROVE n.mem_map[p] \in Nat
      <4>1. h[p] \in Nat
        BY <1>1
      <4>2. QED
        BY <1>5, <4>1
    <3>2. n.mem_map = [p \in Pages |-> n.mem_map[p]]
      BY <1>2 DEF IsCopy, CountsLeft
    <3>3. QED
      BY <3>1, <3>2
  <2>2. n.data \in [Frames -> Values]
    BY <1>1, <1>2, MemoryAssumption DEF IsCopy, DataLeft
  <2>3. n.pg_dir \in [Slots -> [Dirs -> Pages \cup {NoPage}]]
    <3>1. ASSUME NEW t \in Slots  PROVE n.pg_dir[t] \in [Dirs -> Pages \cup {NoPage}]
      <4>1. CASE t = to
        <5>1. \A d \in D : NewTable(m, from, d) \in Pages
          BY <1>3 DEF FreePages
        <5>2. n.pg_dir[t] = DirsOfCopy(m, from)
          BY <1>2, <4>1 DEF IsCopy
        <5>3. QED
          BY <5>1, <5>2 DEF DirsOfCopy
      <4>2. CASE t # to
        BY <1>1, <1>2, <4>2 DEF IsCopy, MemoryState
      <4>3. QED
        BY <4>1, <4>2
    <3>2. n.pg_dir = [t \in Slots |-> n.pg_dir[t]]
      BY <1>2 DEF IsCopy
    <3>3. QED
      BY <3>1, <3>2
  <2>4. n.pg_table \in [Slots -> [Addresses -> Pte \cup {NotPresent}]]
    <3>1. ASSUME NEW t \in Slots
          PROVE  n.pg_table[t] \in [Addresses -> Pte \cup {NotPresent}]
      <4>1. n.pg_table[t] = [a \in Addresses |-> n.pg_table[t][a]]
        <5>1. CASE t = to \/ t = from
          BY <1>2, <5>1 DEF IsCopy, EntriesLeft, EntriesOfCopy
        <5>2. CASE ~(t = to \/ t = from)
          <6>1. n.pg_table[t] = m.pg_table[t]
            BY <1>2, <5>2 DEF IsCopy
          <6>2. m.pg_table[t] \in [Addresses -> Pte \cup {NotPresent}]
            BY <1>1 DEF MemoryState
          <6>3. QED
            BY <6>1, <6>2
        <5>3. QED
          BY <5>1, <5>2
      <4>2. \A a \in Addresses : n.pg_table[t][a] \in Pte \cup {NotPresent}
        BY <1>1, <1>2, CopyRows
      <4>3. QED
        BY <4>1, <4>2
    <3>2. n.pg_table = [t \in Slots |-> n.pg_table[t]]
      BY <1>2 DEF IsCopy
    <3>3. QED
      BY <3>1, <3>2
  <2>5. n = [mem_map |-> n.mem_map, pg_dir |-> n.pg_dir,
             pg_table |-> n.pg_table, data |-> n.data]
    BY <1>2 DEF IsCopy
  <2>6. QED
    BY <2>1, <2>2, <2>3, <2>4, <2>5 DEF MemoryState
<1>8. Counted(n, h)
  BY <1>5 DEF Counted
<1>9. ASSUME NEW p \in Pages, m.mem_map[p] = 1,
             \A a \in Addresses : a \notin Shared(m, from, p)
      PROVE  n.mem_map[p] = 1
  <2>1. p \notin G
    BY <1>4, <1>9
  <2>2. Shared(m, from, p) = {}
    BY <1>9 DEF Shared, Refs
  <2>3. Cardinality(Shared(m, from, p)) = 0
    BY <2>2, FS_EmptySet
  <2>4. QED
    BY <1>5, <1>9, <2>1, <2>3
<1>10. Private(n)
  <2>1. SUFFICES ASSUME NEW t \in Slots, NEW a \in Addresses,
                        n.pg_table[t][a] # NotPresent, n.pg_table[t][a].w
                 PROVE  /\ n.pg_table[t][a].page \in Pages
                        /\ n.mem_map[n.pg_table[t][a].page] = 1
    BY DEF Private
  <2> DEFINE p == n.pg_table[t][a].page
  <2>2. /\ t # to /\ m.pg_table[t][a] # NotPresent
        /\ m.pg_table[t][a].page = p /\ m.pg_table[t][a].w
        /\ p \in LowPages \/ t # from \/ ~Within(a, D)
    BY <1>1, <1>2, <2>1, CopyRows
  <2>3. p \in Pages /\ m.mem_map[p] = 1
    BY <2>2 DEF Sound, Private
  <2>4. t # from \/ ~Within(a, D)
    BY <2>2, <2>3, MemoryAssumption
  <2>5. ASSUME NEW b \in Addresses, b \in Shared(m, from, p)  PROVE FALSE
    <3>1. /\ m.pg_table[from][b] # NotPresent /\ m.pg_table[from][b].page = p
          /\ Within(b, D)
      BY <2>5 DEF Shared, Refs, Within
    <3> HIDE DEF p, D
    <3>2. from = t /\ b = a
      BY <2>2, <2>3, <3>1, UsedOnce
    <3>3. QED
      BY <2>4, <3>1, <3>2
  <2> HIDE DEF p
  <2>6. n.mem_map[p] = 1
    BY <1>9, <2>3, <2>5
  <2>7. QED
    BY <2>3, <2>6 DEF p
<1>11. Covered(n)
  <2>1. SUFFICES ASSUME NEW t \in Slots, NEW a \in Addresses,
                        n.pg_table[t][a] # NotPresent
                 PROVE  HasTable(n, t, a)
    BY DEF Covered
  <2>2. CASE t = to
    <3>1. Within(a, D)
      BY <1>1, <1>2, <2>1, <2>2, CopyRows
    <3>2. a[1] \in D /\ a[1] \in Dirs
      BY <3>1 DEF Within, Addresses
    <3>3. n.pg_dir[t][a[1]] = NewTable(m, from, a[1])
      BY <1>6, <2>2, <3>2
    <3>4. NewTable(m, from, a[1]) \in Pages
      BY <1>3, <3>2 DEF FreePages
    <3>5. QED
      BY <3>3, <3>4, MemoryAssumption DEF HasTable
  <2>3. CASE t # to
    <3>1. HasTable(m, t, a)
      <4>1. m.pg_table[t][a] # NotPresent
        BY <1>1, <1>2, <2>1, <2>3, CopyRows
      <4>2. QED
        BY <4>1 DEF Sound, Covered
    <3>2. n.pg_dir[t] = m.pg_dir[t]
      BY <1>2, <2>3 DEF IsCopy
    <3>3. QED
      BY <3>1, <3>2 DEF HasTable
  <2>4. QED
    BY <2>2, <2>3
<1>12. ASSUME NEW t \in Slots, NEW a \in Addresses, m.pg_table[t][a] # NotPresent
       PROVE  n.data[m.pg_table[t][a].page] = m.data[m.pg_table[t][a].page]
  <2>1. m.pg_table[t][a].page \in Frames
    BY <1>1, <1>12 DEF MemoryState, Pte
  <2>2. m.pg_table[t][a].page \notin G
    BY <1>4, <1>12
  <2>3. QED
    BY <1>2, <2>1, <2>2 DEF IsCopy, DataLeft
<1>13. ASSUME NEW t \in Slots, t # to  PROVE View(n)[t] = View(m)[t]
  <2>1. ASSUME NEW a \in Addresses  PROVE View(n)[t][a] = View(m)[t][a]
    <3>1. /\ n.pg_table[t][a] = NotPresent <=> m.pg_table[t][a] = NotPresent
          /\ m.pg_table[t][a] # NotPresent
               => n.pg_table[t][a].page = m.pg_table[t][a].page
      BY <1>1, <1>2, <1>13, CopyRows
    <3>2. QED
      BY <1>12, <3>1 DEF View
  <2>2. /\ View(n)[t] = [a \in Addresses |-> View(n)[t][a]]
        /\ View(m)[t] = [a \in Addresses |-> View(m)[t][a]]
    BY DEF View
  <2>3. QED
    BY <2>1, <2>2
<1>14. ASSUME CopyFits(m, from)  PROVE View(n)[to] = View(m)[from]
  <2>1. ASSUME NEW a \in Addresses  PROVE View(n)[to][a] = View(m)[from][a]
    <3>1. /\ n.pg_table[to][a] = NotPresent
               <=> ~Within(a, D) \/ m.pg_table[from][a] = NotPresent
          /\ n.pg_table[to][a] # NotPresent
               => n.pg_table[to][a].page = m.pg_table[from][a].page
      BY <1>1, <1>2, CopyRows
    <3>2. ~Within(a, D) => m.pg_table[from][a] = NotPresent
      <4>1. ~Within(a, D) => ~HasTable(m, from, a)
        <5>1. a[1] \in Dirs
          BY DEF Addresses
        <5>2. QED
          BY <1>14, <5>1 DEF Within, HasTable, CopyFits, Present
      <4>2. QED
        BY <4>1 DEF Sound, Covered
    <3>3. QED
      BY <1>12, <3>1, <3>2 DEF View
  <2>2. /\ View(n)[to] = [a \in Addresses |-> View(n)[to][a]]
        /\ View(m)[from] = [a \in Addresses |-> View(m)[from][a]]
    BY DEF View
  <2>3. QED
    BY <2>1, <2>2
<1>15. ASSUME CopyFits(m, from)
       PROVE  View(n) = [View(m) EXCEPT ![to] = View(m)[from]]
  <2>1. /\ View(n) = [t \in Slots |-> View(n)[t]]
        /\ View(m) = [t \in Slots |-> View(m)[t]]
    BY DEF View
  <2>2. \A t \in Slots : View(n)[t] = IF t = to THEN View(m)[from] ELSE View(m)[t]
    BY <1>13, <1>14, <1>15
  <2>3. QED
    BY <2>1, <2>2
<1>16. ASSUME NEW p \in Pages, h[p] > 0, m.mem_map[p] = 1  PROVE n.mem_map[p] = 1
  <2>1. h[p] \in Nat /\ h[p] >= 1
    BY <1>1, <1>16
  <2>2. \A a \in Addresses : a \notin Shared(m, from, p)
    BY <1>16, <2>1, HeldAlone DEF Shared, Refs
  <2>3. QED
    BY <1>9, <1>16, <2>2
<1>17. ASSUME NEW t \in Slots, t # to
       PROVE  /\ n.pg_dir[t] = m.pg_dir[t]
              /\ \A a \in Addresses :
                   n.pg_table[t][a] = NotPresent <=> m.pg_table[t][a] = NotPresent
  <2>1. n.pg_dir[t] = m.pg_dir[t]
    BY <1>1, <1>2, <1>17 DEF IsCopy
  <2>2. m \in MemoryState
    BY <1>1
  <2>3. ASSUME NEW a \in Addresses
        PROVE  n.pg_table[t][a] = NotPresent <=> m.pg_table[t][a] = NotPresent
    BY <1>2, <1>17, <2>2, CopyRows
  <2>4. QED
    BY <2>1, <2>3
<1>18. Sound(n, h)
  BY <1>1, <1>7, <1>8, <1>10, <1>11 DEF Sound
<1> HIDE DEF D, G
<1>19. QED
  BY <1>13, <1>15, <1>16, <1>17, <1>18

-----------------------------------------------------------------------------
(* Who refers to a page besides the tables                                 *)

TasksAt(tk, p) == {s \in Slots : tk[s] = p}
ArgsAt(ar, p) == {s \in Slots : p \in ar[s]}
HeldBy(tk, ar, lk) ==
  [p \in Pages |-> Cardinality(TasksAt(tk, p)) + Cardinality(ArgsAt(ar, p))
                   + IF p \in lk THEN 1 ELSE 0]

(* The holders of a page are finitely many, and there is one when a        *)
(* task_struct or an execve refers to it.                                  *)
LEMMA HeldNumbers ==
  ASSUME NEW tk, NEW ar, NEW lk
  PROVE  /\ HeldBy(tk, ar, lk) \in [Pages -> Nat]
         /\ \A p \in Pages :
              /\ IsFiniteSet(TasksAt(tk, p)) /\ IsFiniteSet(ArgsAt(ar, p))
              /\ Cardinality(TasksAt(tk, p)) \in Nat /\ Cardinality(ArgsAt(ar, p)) \in Nat
              /\ HeldBy(tk, ar, lk)[p] = Cardinality(TasksAt(tk, p))
                   + Cardinality(ArgsAt(ar, p)) + IF p \in lk THEN 1 ELSE 0
              /\ \A s \in Slots : tk[s] = p \/ p \in ar[s] => HeldBy(tk, ar, lk)[p] > 0
<1>1. ASSUME NEW p
      PROVE  /\ IsFiniteSet(TasksAt(tk, p)) /\ IsFiniteSet(ArgsAt(ar, p))
             /\ Cardinality(TasksAt(tk, p)) \in Nat /\ Cardinality(ArgsAt(ar, p)) \in Nat
  <2>1. TasksAt(tk, p) \in SUBSET Slots /\ ArgsAt(ar, p) \in SUBSET Slots
    BY DEF TasksAt, ArgsAt
  <2>2. QED
    BY <2>1, MemoryAssumption, FS_Subset, FS_CardinalityType
<1>2. ASSUME NEW p \in Pages
      PROVE  /\ HeldBy(tk, ar, lk)[p] = Cardinality(TasksAt(tk, p))
                  + Cardinality(ArgsAt(ar, p)) + IF p \in lk THEN 1 ELSE 0
             /\ HeldBy(tk, ar, lk)[p] \in Nat
  BY <1>1 DEF HeldBy
<1>3. ASSUME NEW p \in Pages, NEW s \in Slots, tk[s] = p \/ p \in ar[s]
      PROVE  HeldBy(tk, ar, lk)[p] > 0
  <2>1. TasksAt(tk, p) # {} \/ ArgsAt(ar, p) # {}
    BY <1>3 DEF TasksAt, ArgsAt
  <2>2. Cardinality(TasksAt(tk, p)) # 0 \/ Cardinality(ArgsAt(ar, p)) # 0
    BY <1>1, <2>1, FS_EmptySet
  <2>3. QED
    BY <1>1, <1>2, <2>2
<1>4. HeldBy(tk, ar, lk) \in [Pages -> Nat]
  BY <1>2 DEF HeldBy
<1>5. QED
  BY <1>1, <1>2, <1>3, <1>4

(* One element more                                                        *)
LEMMA OneMore ==
  ASSUME NEW A, IsFiniteSet(A), NEW B, NEW s, s \notin A, B = A \cup {s}
  PROVE  Cardinality(B) = Cardinality(A) + 1
BY FS_AddElement

Put1(f, x, v) == [f EXCEPT ![x] = v]
MoreAt(h, k, q) == \A p \in Pages : k[p] = h[p] + IF p = q THEN 1 ELSE 0

(* A task_struct more; one less is the same in the other direction.        *)
LEMMA HeldTask ==
  ASSUME NEW tk \in [Slots -> Pages \cup {NoPage}], NEW ar, NEW lk,
         NEW s \in Slots, NEW q \in Pages, tk[s] = NoPage,
         NEW tk2, tk2 = Put1(tk, s, q)
  PROVE  MoreAt(HeldBy(tk, ar, lk), HeldBy(tk2, ar, lk), q)
<1>1. NoPage # q
  BY MemoryAssumption
<1>2. \A t \in Slots : tk2[t] = IF t = s THEN q ELSE tk[t]
  BY DEF Put1
<1>3. ASSUME NEW p \in Pages
      PROVE  HeldBy(tk2, ar, lk)[p] = HeldBy(tk, ar, lk)[p] + IF p = q THEN 1 ELSE 0
  <2>1. CASE p = q
    <3>1. s \notin TasksAt(tk, p) /\ TasksAt(tk2, p) = TasksAt(tk, p) \cup {s}
      BY <1>1, <1>2, <2>1 DEF TasksAt
    <3>2. Cardinality(TasksAt(tk2, p)) = Cardinality(TasksAt(tk, p)) + 1
      BY <3>1, HeldNumbers, OneMore
    <3>3. QED
      BY <2>1, <3>2, HeldNumbers
  <2>2. CASE p # q
    <3>1. TasksAt(tk2, p) = TasksAt(tk, p)
      <4>1. NoPage # p
        BY MemoryAssumption
      <4>2. QED
        BY <1>2, <2>2, <4>1 DEF TasksAt
    <3>2. QED
      BY <2>2, <3>1, HeldNumbers
  <2>3. QED
    BY <2>1, <2>2
<1>4. QED
  BY <1>3 DEF MoreAt

(* A page of arguments more *)
LEMMA HeldArgs ==
  ASSUME NEW tk, NEW ar \in [Slots -> SUBSET Pages], NEW lk,
         NEW s \in Slots, NEW q \in Pages, ar[s] = {},
         NEW ar2, ar2 = Put1(ar, s, {q})
  PROVE  MoreAt(HeldBy(tk, ar, lk), HeldBy(tk, ar2, lk), q)
<1>1. \A t \in Slots : ar2[t] = IF t = s THEN {q} ELSE ar[t]
  BY DEF Put1
<1>2. ASSUME NEW p \in Pages
      PROVE  HeldBy(tk, ar2, lk)[p] = HeldBy(tk, ar, lk)[p] + IF p = q THEN 1 ELSE 0
  <2>1. CASE p = q
    <3>1. s \notin ArgsAt(ar, p) /\ ArgsAt(ar2, p) = ArgsAt(ar, p) \cup {s}
      BY <1>1, <2>1 DEF ArgsAt
    <3>2. Cardinality(ArgsAt(ar2, p)) = Cardinality(ArgsAt(ar, p)) + 1
      BY <3>1, HeldNumbers, OneMore
    <3>3. QED
      BY <2>1, <3>2, HeldNumbers
  <2>2. CASE p # q
    <3>1. ArgsAt(ar2, p) = ArgsAt(ar, p)
      BY <1>1, <2>2 DEF ArgsAt
    <3>2. QED
      BY <2>2, <3>1, HeldNumbers
  <2>3. QED
    BY <2>1, <2>2
<1>3. QED
  BY <1>2 DEF MoreAt

(* The number of holders of each page is what counts. *)
LEMMA SameHolders ==
  ASSUME NEW m, NEW h, Sound(m, h), NEW k \in [Pages -> Nat],
         \A p \in Pages : k[p] = h[p]
  PROVE  Sound(m, k)
BY DEF Sound, Counted

-----------------------------------------------------------------------------
(* The inductive invariant: the counts, and what each place of a task      *)
(* means for its tables and its arguments.                                 *)

NoTables(m, s) ==
  /\ \A d \in Dirs : m.pg_dir[s][d] = NoPage
  /\ \A a \in Addresses : m.pg_table[s][a] = NotPresent
TasksInv == \A s \in Slots : task[s] = NoPage <=> pc[s] = "none"
EmptyInv == \A s \in Slots : pc[s] \in {"none", "dead"} => NoTables(mm, s)
ArgsInv ==
  \A s \in Slots :
    /\ pc[s] \notin {"strings", "load"} => args[s] = {}
    /\ pc[s] \in {"strings", "load"} =>
         \E p \in Pages : args[s] = {p} /\ mm.mem_map[p] = 1
TopInv == \A s \in Slots : pc[s] = "load" => mm.pg_table[s][TopAddress] = NotPresent
Held == HeldBy(task, args, leaked)
MemInv ==
  /\ TypeOK /\ Sound(mm, Held)
  /\ TasksInv /\ EmptyInv /\ ArgsInv /\ TopInv

(* Pages somebody holds and that are counted once stay so. *)
Kept(m, n, h) ==
  \A p \in Pages : h[p] > 0 /\ m.mem_map[p] = 1 => n.mem_map[p] = 1

(* The page of the arguments of an execve is held by that execve only.     *)
LEMMA ArgsHeld ==
  ASSUME MemInv, NEW s \in Slots, NEW p \in Pages, p \in args[s]
  PROVE  /\ args[s] = {p} /\ mm.mem_map[p] = 1 /\ Held[p] = 1
         /\ p \notin leaked /\ pc[s] \in {"strings", "load"}
<1>1. pc[s] \in {"strings", "load"} /\ args[s] = {p} /\ mm.mem_map[p] = 1
  BY DEF MemInv, ArgsInv
<1>2. /\ Held \in [Pages -> Nat] /\ Held[p] > 0
      /\ Held[p] = Cardinality(TasksAt(task, p)) + Cardinality(ArgsAt(args, p))
                     + IF p \in leaked THEN 1 ELSE 0
      /\ Cardinality(TasksAt(task, p)) \in Nat /\ Cardinality(ArgsAt(args, p)) \in Nat
      /\ IsFiniteSet(ArgsAt(args, p))
  <2> DEFINE h == HeldBy(task, args, leaked)
  <2>1. h[p] = Cardinality(TasksAt(task, p)) + Cardinality(ArgsAt(args, p))
                    + IF p \in leaked THEN 1 ELSE 0
    BY HeldNumbers
  <2>4. h \in [Pages -> Nat]
    BY HeldNumbers
  <2>5. /\ Cardinality(TasksAt(task, p)) \in Nat /\ Cardinality(ArgsAt(args, p)) \in Nat
        /\ IsFiniteSet(ArgsAt(args, p))
    BY HeldNumbers
  <2>2. h[p] > 0
    BY HeldNumbers
  <2>3. QED
    BY <2>1, <2>2, <2>4, <2>5 DEF Held
<1>3. Held[p] \in Nat /\ Held[p] >= 1
  BY <1>2
<1>4. Held[p] = 1
  BY <1>1, <1>3, HeldAlone DEF MemInv
<1>5. Cardinality(ArgsAt(args, p)) # 0
  <2>1. ArgsAt(args, p) # {}
    BY DEF ArgsAt
  <2>2. QED
    BY <1>2, <2>1, FS_EmptySet
<1>6. p \notin leaked
  BY <1>2, <1>4, <1>5
<1>7. QED
  BY <1>1, <1>4, <1>6

(* A step that changes nothing but memory, at an address of a process that *)
(* runs.                                                                   *)
LEMMA MemoryStep ==
  ASSUME MemInv, NEW s \in Slots, NEW a \in Addresses,
         pc[s] = "user" \/ (pc[s] = "load" /\ a # TopAddress),
         Sound(mm', Held), Elsewhere(mm, mm', s, a), Kept(mm, mm', Held), MemoryOnly
  PROVE  MemInv'
<1>1. task' = task /\ pc' = pc /\ args' = args /\ leaked' = leaked
  BY DEF MemoryOnly
<1>2. TypeOK'
  BY <1>1 DEF MemInv, TypeOK, Sound
<1>3. Sound(mm', Held') /\ TasksInv'
  BY <1>1 DEF MemInv, Held, TasksInv
<1>4. EmptyInv'
  <2>1. ASSUME NEW t \in Slots, pc[t] \in {"none", "dead"}  PROVE NoTables(mm', t)
    <3>1. t # s /\ NoTables(mm, t)
      BY <2>1 DEF MemInv, EmptyInv
    <3>2. QED
      BY <3>1 DEF NoTables, Elsewhere
  <2>2. QED
    BY <1>1, <2>1 DEF EmptyInv
<1>5. ArgsInv'
  <2>1. ASSUME NEW t \in Slots, pc[t] \in {"strings", "load"}
        PROVE  \E p \in Pages : args[t] = {p} /\ mm'.mem_map[p] = 1
    <3>1. PICK p \in Pages : args[t] = {p}
      BY <2>1 DEF MemInv, ArgsInv
    <3>2. mm.mem_map[p] = 1 /\ Held[p] = 1
      BY <3>1, ArgsHeld
    <3>3. mm'.mem_map[p] = 1
      BY <3>2 DEF Kept
    <3>4. QED
      BY <3>1, <3>3
  <2>2. \A t \in Slots : pc[t] \notin {"strings", "load"} => args[t] = {}
    BY DEF MemInv, ArgsInv
  <2>3. QED
    BY <1>1, <2>1, <2>2 DEF ArgsInv
<1>6. TopInv'
  <2>1. ASSUME NEW t \in Slots, pc[t] = "load"
        PROVE  mm'.pg_table[t][TopAddress] = NotPresent
    <3>1. t # s \/ TopAddress # a
      BY <2>1
    <3>2. mm'.pg_table[t][TopAddress] = mm.pg_table[t][TopAddress]
      BY <3>1, MemMapAssumption DEF Elsewhere
    <3>3. QED
      BY <2>1, <3>2 DEF MemInv, TopInv
  <2>2. QED
    BY <1>1, <2>1 DEF TopInv
<1>7. QED
  BY <1>2, <1>3, <1>4, <1>5, <1>6 DEF MemInv

(* The pages of an execve, and others nobody held, are forgotten. *)
LEMMA HeldForgotten ==
  ASSUME MemInv, NEW s \in Slots, NEW more, more \cap leaked = {},
         \A t \in Slots : more \cap args[t] = {},
         leaked' = leaked \cup args[s] \cup more,
         args' = [args EXCEPT ![s] = {}], task' = task
  PROVE  \A p \in Pages : Held'[p] = Held[p] + IF p \in more THEN 1 ELSE 0
<1>1. args \in [Slots -> SUBSET Pages]
  BY DEF MemInv, TypeOK
<1>2. \A t \in Slots : args'[t] = IF t = s THEN {} ELSE args[t]
  BY <1>1
<1>3. ASSUME NEW p \in Pages
      PROVE  Held'[p] = Held[p] + IF p \in more THEN 1 ELSE 0
  <2>2. Held'[p] = Cardinality(TasksAt(task, p)) + Cardinality(ArgsAt(args', p))
                     + IF p \in leaked' THEN 1 ELSE 0
    BY HeldNumbers DEF Held
  <2>3. Held[p] = Cardinality(TasksAt(task, p)) + Cardinality(ArgsAt(args, p))
                     + IF p \in leaked THEN 1 ELSE 0
    BY HeldNumbers DEF Held
  <2>4. /\ Cardinality(TasksAt(task, p)) \in Nat
        /\ Cardinality(ArgsAt(args, p)) \in Nat /\ Cardinality(ArgsAt(args', p)) \in Nat
        /\ IsFiniteSet(ArgsAt(args', p))
    BY HeldNumbers
  <2>5. CASE p \in args[s]
    <3>1. p \notin leaked /\ p \notin more /\ Held[p] = 1
      BY <2>5, ArgsHeld
    <3>2. ArgsAt(args, p) = ArgsAt(args', p) \cup {s} /\ s \notin ArgsAt(args', p)
      BY <1>2, <2>5 DEF ArgsAt
    <3>3. Cardinality(ArgsAt(args, p)) = Cardinality(ArgsAt(args', p)) + 1
      BY <2>4, <3>2, OneMore
    <3>4. p \in leaked'
      BY <2>5
    <3>5. QED
      BY <2>2, <2>3, <2>4, <3>1, <3>3, <3>4
  <2>6. CASE p \notin args[s]
    <3>1. ArgsAt(args, p) = ArgsAt(args', p)
      BY <1>2, <2>6 DEF ArgsAt
    <3>2. p \in leaked' <=> p \in leaked \/ p \in more
      BY <2>6
    <3>3. ~(p \in leaked /\ p \in more)
      OBVIOUS
    <3>4. QED
      BY <2>2, <2>3, <2>4, <3>1, <3>2, <3>3
  <2>7. QED
    BY <2>5, <2>6
<1>4. QED
  BY <1>3

(* do_exit, with the pages `more` forgotten besides those of its execve *)
LEMMA ExitStep ==
  ASSUME MemInv, NEW s \in Slots, pc[s] \in {"user", "load"}, NEW m, NEW more,
         more \subseteq Pages, do_exit(s, m, more),
         NEW g, Sound(m, g), Kept(mm, m, Held),
         \A p \in Pages : g[p] = Held[p] + IF p \in more THEN 1 ELSE 0,
         more \cap leaked = {}, \A t \in Slots : more \cap args[t] = {},
         m.pg_table = mm.pg_table, m.pg_dir = mm.pg_dir, View(m) = View(mm)
  PROVE  MemInv' /\ View(mm') = [View(mm) EXCEPT ![s] = NoMemory]
<1>1. /\ mm' = free_page_tables(m, s) /\ pc' = [pc EXCEPT ![s] = "dead"]
      /\ leaked' = leaked \cup args[s] \cup more
      /\ args' = [args EXCEPT ![s] = {}] /\ task' = task
  BY DEF do_exit
<1>2. /\ Sound(mm', g)
      /\ \A d \in Dirs : mm'.pg_dir[s][d] = NoPage
      /\ \A a \in Addresses : mm'.pg_table[s][a] = NotPresent
      /\ \A t \in Slots \ {s} : /\ mm'.pg_dir[t] = m.pg_dir[t]
                                /\ mm'.pg_table[t] = m.pg_table[t]
      /\ \A p \in Pages : g[p] > 0 /\ m.mem_map[p] = 1 => mm'.mem_map[p] = 1
      /\ View(mm') = [View(m) EXCEPT ![s] = NoMemory]
  <2>1. Sound(mm', g) /\ Dropped(m, mm', s, g)
    BY <1>1, DropTables
  <2>2. QED
    BY <2>1 DEF Dropped
<1>3. /\ args \in [Slots -> SUBSET Pages] /\ leaked \in SUBSET Pages
      /\ pc \in [Slots -> Places]
  BY DEF MemInv, TypeOK
<1>4. \A t \in Slots : /\ args'[t] = IF t = s THEN {} ELSE args[t]
                       /\ pc'[t] = IF t = s THEN "dead" ELSE pc[t]
  BY <1>1, <1>3
<1>5. TypeOK'
  <2>1. /\ args' \in [Slots -> SUBSET Pages] /\ leaked' \in SUBSET Pages
        /\ pc' \in [Slots -> Places]
    BY <1>1, <1>3 DEF Places
  <2>2. QED
    BY <1>1, <1>2, <2>1 DEF MemInv, TypeOK, Sound
<1>6. \A p \in Pages : Held'[p] = g[p]
  <2>1. \A p \in Pages : Held'[p] = Held[p] + IF p \in more THEN 1 ELSE 0
    BY <1>1, HeldForgotten
  <2>2. QED
    BY <2>1
<1>7. Sound(mm', Held')
  <2>1. Held' \in [Pages -> Nat]
    BY HeldNumbers DEF Held
  <2>2. QED
    BY <1>2, <1>6, <2>1, SameHolders
<1>8. TasksInv'
  BY <1>1, <1>4 DEF MemInv, TasksInv
<1>9. EmptyInv'
  <2>1. ASSUME NEW t \in Slots, pc'[t] \in {"none", "dead"}  PROVE NoTables(mm', t)
    <3>1. CASE t = s
      BY <1>2, <3>1 DEF NoTables
    <3>2. CASE t # s
      <4>1. NoTables(mm, t)
        BY <1>4, <2>1, <3>2 DEF MemInv, EmptyInv
      <4>2. mm'.pg_dir[t] = mm.pg_dir[t] /\ mm'.pg_table[t] = mm.pg_table[t]
        BY <1>2, <3>2
      <4>3. QED
        BY <4>1, <4>2 DEF NoTables
    <3>3. QED
      BY <3>1, <3>2
  <2>2. QED
    BY <2>1 DEF EmptyInv
<1>10. ArgsInv'
  <2>1. ASSUME NEW t \in Slots, pc'[t] \in {"strings", "load"}
        PROVE  \E p \in Pages : args'[t] = {p} /\ mm'.mem_map[p] = 1
    <3>1. t # s /\ pc[t] \in {"strings", "load"} /\ args'[t] = args[t]
      BY <1>4, <2>1
    <3>2. PICK p \in Pages : args[t] = {p}
      BY <3>1 DEF MemInv, ArgsInv
    <3>3. mm.mem_map[p] = 1 /\ Held[p] = 1
      BY <3>2, ArgsHeld
    <3>4. g[p] > 0 /\ m.mem_map[p] = 1
      <4>1. m.mem_map[p] = 1
        BY <3>3 DEF Kept
      <4>2. p \notin more
        BY <3>2
      <4>3. QED
        BY <3>3, <4>1, <4>2
    <3>5. mm'.mem_map[p] = 1
      BY <1>2, <3>4
    <3>6. QED
      BY <3>1, <3>2, <3>5
  <2>2. ASSUME NEW t \in Slots, pc'[t] \notin {"strings", "load"}
        PROVE  args'[t] = {}
    BY <1>4, <2>2 DEF MemInv, ArgsInv
  <2>3. QED
    BY <2>1, <2>2 DEF ArgsInv
<1>11. TopInv'
  <2>1. ASSUME NEW t \in Slots, pc'[t] = "load"
        PROVE  mm'.pg_table[t][TopAddress] = NotPresent
    <3>1. t # s /\ pc[t] = "load"
      BY <1>4, <2>1
    <3>2. mm'.pg_table[t] = mm.pg_table[t]
      BY <1>2, <3>1
    <3>3. QED
      BY <3>1, <3>2 DEF MemInv, TopInv
  <2>2. QED
    BY <2>1 DEF TopInv
<1>12. View(mm') = [View(mm) EXCEPT ![s] = NoMemory]
  BY <1>2
<1>13. QED
  BY <1>5, <1>7, <1>8, <1>9, <1>10, <1>11, <1>12 DEF MemInv

-----------------------------------------------------------------------------
(* The steps                                                               *)

Got(q) == [Held EXCEPT ![q] = 1]

(* A page got is nobody's until it is put somewhere. *)
LEMMA GotPage ==
  ASSUME MemInv, FreePages(mm) # {}, NEW q, q = LastFree(mm),
         NEW m, m = get_free_page(mm)
  PROVE  /\ q \in Pages /\ mm.mem_map[q] = 0 /\ Held[q] = 0
         /\ q \notin leaked /\ \A t \in Slots : q \notin args[t] /\ task[t] # q
         /\ m.pg_table = mm.pg_table /\ m.pg_dir = mm.pg_dir /\ View(m) = View(mm)
         /\ m.mem_map[q] = 1 /\ m.data[q] = Zero
         /\ \A p \in Pages : p # q => m.mem_map[p] = mm.mem_map[p]
         /\ Sound(m, Got(q)) /\ Kept(mm, m, Held)
         /\ \A p \in Pages : Got(q)[p] = Held[p] + IF p = q THEN 1 ELSE 0
<1>1. Sound(mm, Held)
  BY DEF MemInv
<1>2. /\ q \in Pages /\ mm.mem_map[q] = 0 /\ Held[q] = 0
      /\ m.pg_table = mm.pg_table /\ m.pg_dir = mm.pg_dir
      /\ m.mem_map = [mm.mem_map EXCEPT ![q] = 1]
      /\ m.data = [mm.data EXCEPT ![q] = Zero]
      /\ Sound(m, [Held EXCEPT ![q] = 1])
      /\ View(m) = View(mm)
  BY <1>1, GetPage
<1>3. /\ mm.mem_map \in [Pages -> Nat] /\ mm.data \in [Frames -> Values]
      /\ Held \in [Pages -> Nat]
  BY <1>1 DEF Sound, MemoryState
<1>4. q \notin leaked /\ \A t \in Slots : q \notin args[t] /\ task[t] # q
  <2>1. /\ Held[q] = Cardinality(TasksAt(task, q)) + Cardinality(ArgsAt(args, q))
                     + IF q \in leaked THEN 1 ELSE 0
        /\ Cardinality(TasksAt(task, q)) \in Nat /\ Cardinality(ArgsAt(args, q)) \in Nat
    BY <1>2, HeldNumbers DEF Held
  <2>2. \A t \in Slots : task[t] = q \/ q \in args[t] => Held[q] > 0
    BY <1>2, HeldNumbers DEF Held
  <2>3. ~(Held[q] > 0)
    BY <1>2
  <2>4. QED
    BY <1>2, <2>1, <2>2, <2>3
<1>5. /\ m.mem_map[q] = 1 /\ m.data[q] = Zero
      /\ \A p \in Pages : p # q => m.mem_map[p] = mm.mem_map[p]
      /\ Kept(mm, m, Held)
  BY <1>2, <1>3 DEF Frames, Kept
<1>6. \A p \in Pages : Got(q)[p] = Held[p] + IF p = q THEN 1 ELSE 0
  BY <1>2, <1>3 DEF Got
<1>7. QED
  BY <1>2, <1>4, <1>5, <1>6 DEF Got

(* do_exit from user mode, or from a fault without memory                  *)
LEMMA ExitKeeps ==
  ASSUME MemInv, NEW s \in Slots, pc[s] \in {"user", "load"}, do_exit(s, mm, {})
  PROVE  MemInv' /\ View(mm') = [View(mm) EXCEPT ![s] = NoMemory]
<1>1. Sound(mm, Held) /\ Held \in [Pages -> Nat]
  BY DEF MemInv, Sound
<1>2. /\ {} \subseteq Pages /\ {} \cap leaked = {}
      /\ \A t \in Slots : {} \cap args[t] = {}
      /\ \A p \in Pages : Held[p] = Held[p] + IF p \in {} THEN 1 ELSE 0
  BY <1>1
<1>3. Kept(mm, mm, Held)
  BY DEF Kept
<1>4. QED
  BY <1>1, <1>2, <1>3, ExitStep

(* do_exit with a page just got, which is forgotten *)
LEMMA ExitForgets ==
  ASSUME MemInv, FreePages(mm) # {}, NEW s \in Slots, pc[s] \in {"user", "load"},
         do_exit(s, get_free_page(mm), {LastFree(mm)})
  PROVE  MemInv' /\ View(mm') = [View(mm) EXCEPT ![s] = NoMemory]
<1> DEFINE q == LastFree(mm)
           m == get_free_page(mm)
<1>1. /\ q \in Pages /\ q \notin leaked /\ \A t \in Slots : q \notin args[t]
      /\ m.pg_table = mm.pg_table /\ m.pg_dir = mm.pg_dir /\ View(m) = View(mm)
      /\ Sound(m, Got(q)) /\ Kept(mm, m, Held)
      /\ \A p \in Pages : Got(q)[p] = Held[p] + IF p = q THEN 1 ELSE 0
  BY GotPage
<1>2. do_exit(s, m, {q})
  OBVIOUS
<1> HIDE DEF q, m
<1>3. /\ {q} \subseteq Pages /\ {q} \cap leaked = {}
      /\ \A t \in Slots : {q} \cap args[t] = {}
      /\ \A p \in Pages : Got(q)[p] = Held[p] + IF p \in {q} THEN 1 ELSE 0
  BY <1>1
<1>4. QED
  BY <1>1, <1>2, <1>3, ExitStep

(* release: the page of the task_struct is freed, a holder less.           *)
LEMMA ReleaseKeeps ==
  ASSUME MemInv, NEW s \in Slots, release(s)
  PROVE  MemInv' /\ View(mm') = View(mm)
<1> DEFINE p == task[s]
<1>1. /\ pc[s] = "dead" /\ mm' = free_page(mm, p)
      /\ task' = [task EXCEPT ![s] = NoPage] /\ pc' = [pc EXCEPT ![s] = "none"]
      /\ args' = args /\ leaked' = leaked
  BY DEF release
<1>2. /\ task \in [Slots -> Pages \cup {NoPage}] /\ pc \in [Slots -> Places]
      /\ args \in [Slots -> SUBSET Pages] /\ leaked \in SUBSET Pages
      /\ Sound(mm, Held)
  BY DEF MemInv, TypeOK
<1>3. p \in Pages
  BY <1>1, <1>2 DEF MemInv, TasksInv
<1>4. \A t \in Slots : /\ task'[t] = IF t = s THEN NoPage ELSE task[t]
                       /\ pc'[t] = IF t = s THEN "none" ELSE pc[t]
  BY <1>1, <1>2
<1>5. task' \in [Slots -> Pages \cup {NoPage}] /\ pc' \in [Slots -> Places]
  BY <1>1, <1>2 DEF Places
<1>6. \A r \in Pages : Held[r] = Held'[r] + IF r = p THEN 1 ELSE 0
  <2>1. task = Put1(task', s, p) /\ task'[s] = NoPage
    BY <1>1, <1>2 DEF Put1
  <2> HIDE DEF p
  <2>2. MoreAt(HeldBy(task', args, leaked), HeldBy(task, args, leaked), p)
    BY <1>3, <1>5, <2>1, HeldTask
  <2>3. QED
    BY <1>1, <2>2 DEF Held, MoreAt
<1>7. Held' \in [Pages -> Nat] /\ Held \in [Pages -> Nat]
  BY HeldNumbers DEF Held
<1>8. Held[p] > 0
  BY <1>3, <1>6, <1>7
<1>9. /\ mm'.pg_table = mm.pg_table /\ mm'.pg_dir = mm.pg_dir
      /\ mm'.mem_map = [mm.mem_map EXCEPT ![p] = @ - 1]
      /\ Sound(mm', Less(Held, p))
      /\ View(mm') = View(mm)
  <2> HIDE DEF p
  <2>1. /\ mm'.pg_table = mm.pg_table /\ mm'.pg_dir = mm.pg_dir /\ mm'.data = mm.data
        /\ mm'.mem_map = [mm.mem_map EXCEPT ![p] = @ - 1]
        /\ Sound(mm', Less(Held, p))
        /\ View(mm') = View(mm)
    <3>1. Sound(mm, Held) /\ p \in Pages /\ Held[p] > 0
      BY <1>2, <1>3, <1>8
    <3>2. mm' = free_page(mm, p)
      BY <1>1
    <3>3. QED
      BY <3>1, <3>2, FreePage
  <2>2. QED
    BY <2>1
<1>10. Sound(mm', Held')
  <2>1. \A r \in Pages : Held'[r] = Less(Held, p)[r]
    BY <1>3, <1>6, <1>7 DEF Less
  <2>2. QED
    BY <1>7, <1>9, <2>1, SameHolders
<1>11. TypeOK'
  BY <1>1, <1>2, <1>5, <1>9 DEF TypeOK, Sound
<1>12. TasksInv'
  BY <1>3, <1>4, MemoryAssumption DEF MemInv, TasksInv
<1>13. EmptyInv'
  <2>1. ASSUME NEW t \in Slots, pc'[t] \in {"none", "dead"}  PROVE NoTables(mm', t)
    <3>1. pc[t] \in {"none", "dead"}
      BY <1>1, <1>4, <2>1
    <3>2. NoTables(mm, t)
      BY <3>1 DEF MemInv, EmptyInv
    <3>3. QED
      BY <1>9, <3>2 DEF NoTables
  <2>2. QED
    BY <2>1 DEF EmptyInv
<1>14. ArgsInv'
  <2>1. ASSUME NEW t \in Slots, pc'[t] \in {"strings", "load"}
        PROVE  \E r \in Pages : args'[t] = {r} /\ mm'.mem_map[r] = 1
    <3>1. pc[t] \in {"strings", "load"}
      BY <1>4, <2>1
    <3>2. PICK r \in Pages : args[t] = {r} /\ mm.mem_map[r] = 1
      BY <3>1 DEF MemInv, ArgsInv
    <3>3. r # p
      <4>1. Held[r] = 1 /\ r \notin leaked
        BY <3>2, ArgsHeld
      <4>2. Held'[r] > 0
        <5>1. \A u \in Slots : r \in args'[u] => Held'[r] > 0
          BY <3>2, HeldNumbers DEF Held
        <5>2. QED
          BY <1>1, <3>2, <5>1
      <4>3. Held[r] = Held'[r] + (IF r = p THEN 1 ELSE 0) /\ Held'[r] \in Nat
        BY <1>6, <1>7
      <4>4. QED
        BY <4>1, <4>2, <4>3
    <3>4. mm'.mem_map[r] = 1
      <4>1. mm.mem_map \in [Pages -> Nat]
        BY <1>2 DEF Sound, MemoryState
      <4> HIDE DEF p
      <4>2. QED
        BY <1>9, <3>2, <3>3, <4>1
    <3>5. QED
      BY <1>1, <3>2, <3>4
  <2>2. ASSUME NEW t \in Slots, pc'[t] \notin {"strings", "load"}
        PROVE  args'[t] = {}
    BY <1>1, <1>4, <2>2 DEF MemInv, ArgsInv
  <2>3. QED
    BY <2>1, <2>2 DEF ArgsInv
<1>15. TopInv'
  BY <1>1, <1>4, <1>9 DEF MemInv, TopInv
<1>16. QED
  BY <1>9, <1>10, <1>11, <1>12, <1>13, <1>14, <1>15 DEF MemInv

(* do_no_page, when there is memory *)
LEMMA NoPageKeeps ==
  ASSUME MemInv, FreePages(mm) # {}, NEW s \in Slots, NEW a \in Addresses, Touches(s, a),
         mm.pg_table[s][a] = NotPresent, NEW m, m = get_free_page(mm),
         PutFits(m, s, a), mm' = put_page(m, s, a, LastFree(mm)), MemoryOnly
  PROVE  MemInv' /\ View(mm') = Put2(View(mm), s, a, Zero)
<1> DEFINE q == LastFree(mm)
           k == Less(Got(q), q)
<1>1. /\ q \in Pages /\ mm.mem_map[q] = 0 /\ Held[q] = 0
      /\ m.pg_table = mm.pg_table /\ m.pg_dir = mm.pg_dir /\ View(m) = View(mm)
      /\ m.mem_map[q] = 1 /\ m.data[q] = Zero
      /\ \A p \in Pages : p # q => m.mem_map[p] = mm.mem_map[p]
      /\ Sound(m, Got(q))
      /\ \A p \in Pages : Got(q)[p] = Held[p] + IF p = q THEN 1 ELSE 0
  BY GotPage
<1>2. Got(q) \in [Pages -> Nat] /\ Held \in [Pages -> Nat] /\ Got(q)[q] = 1
  BY <1>1 DEF Sound, MemInv
<1>3. mm' = put_page(m, s, a, q) /\ m.pg_table[s][a] = NotPresent
  BY <1>1
<1> HIDE DEF q
<1>4. /\ Sound(mm', k) /\ View(mm') = Put2(View(m), s, a, m.data[q])
      /\ Elsewhere(m, mm', s, a)
      /\ \A r \in Pages : m.mem_map[r] # 0 => mm'.mem_map[r] = m.mem_map[r]
  BY <1>1, <1>2, <1>3, PutPage
<1>5. Sound(mm', Held)
  <2>1. \A p \in Pages : Held[p] = k[p]
    BY <1>1, <1>2 DEF Less
  <2> HIDE DEF k
  <2>2. QED
    BY <1>2, <1>4, <2>1, SameHolders
<1>6. Elsewhere(mm, mm', s, a)
  BY <1>1, <1>4 DEF Elsewhere
<1>7. Kept(mm, mm', Held)
  BY <1>1, <1>4 DEF Kept
<1>8. pc[s] = "user" \/ (pc[s] = "load" /\ a # TopAddress)
  BY DEF Touches
<1>9. MemInv'
  BY <1>5, <1>6, <1>7, <1>8, MemoryStep
<1>10. QED
  BY <1>1, <1>4, <1>9

(* do_wp_page, when it does not end the process                            *)
LEMMA WriteFaultKeeps ==
  ASSUME MemInv, NEW s \in Slots, NEW a \in Addresses, Touches(s, a),
         mm.pg_table[s][a] # NotPresent, MemoryOnly,
         \/ MayUnprotect(mm, s, a) /\ mm' = Unprotect(mm, s, a)
         \/ FreePages(mm) # {} /\ mm' = CopyOnWrite(mm, s, a)
  PROVE  MemInv' /\ View(mm') = View(mm)
<1>1. Sound(mm, Held) /\ (pc[s] = "user" \/ (pc[s] = "load" /\ a # TopAddress))
  BY DEF MemInv, Touches
<1>2. Sound(mm', Held) /\ View(mm') = View(mm) /\ Elsewhere(mm, mm', s, a)
      /\ Kept(mm, mm', Held)
  <2>1. CASE MayUnprotect(mm, s, a) /\ mm' = Unprotect(mm, s, a)
    <3>1. Sound(mm', Held) /\ View(mm') = View(mm) /\ mm'.mem_map = mm.mem_map
          /\ Elsewhere(mm, mm', s, a)
      BY <1>1, <2>1, UnprotectKeeps
    <3>2. QED
      BY <3>1 DEF Kept
  <2>2. CASE FreePages(mm) # {} /\ mm' = CopyOnWrite(mm, s, a)
    <3>1. /\ Sound(mm', Held) /\ View(mm') = View(mm) /\ Elsewhere(mm, mm', s, a)
          /\ \A r \in Pages : Held[r] > 0 /\ mm.mem_map[r] = 1 => mm'.mem_map[r] = 1
      BY <1>1, <2>2, CopyOnWriteKeeps
    <3>2. QED
      BY <3>1 DEF Kept
  <2>3. QED
    BY <2>1, <2>2
<1>3. MemInv'
  BY <1>1, <1>2, MemoryStep
<1>4. QED
  BY <1>2, <1>3

(* A store of a program                                                    *)
LEMMA StoreKeeps ==
  ASSUME MemInv, NEW s \in Slots, NEW a \in Addresses, NEW v \in Values, Store(s, a, v)
  PROVE  MemInv' /\ View(mm') = Put2(View(mm), s, a, v) /\ mm.pg_table[s][a] # NotPresent
<1>1. Sound(mm, Held)
  BY DEF MemInv
<1>2. /\ pc[s] = "user" \/ (pc[s] = "load" /\ a # TopAddress)
      /\ mm.pg_table[s][a] # NotPresent /\ mm.pg_table[s][a].w
      /\ mm' = [mm EXCEPT !.data[mm.pg_table[s][a].page] = v]
      /\ MemoryOnly
  BY DEF Store, Touches
<1>3. /\ Sound(mm', Held) /\ View(mm') = Put2(View(mm), s, a, v)
      /\ mm'.mem_map = mm.mem_map
      /\ mm'.pg_table = mm.pg_table /\ mm'.pg_dir = mm.pg_dir
  BY <1>1, <1>2, StoreShows
<1>4. Elsewhere(mm, mm', s, a) /\ Kept(mm, mm', Held)
  BY <1>3 DEF Elsewhere, Kept
<1>5. MemInv'
  BY <1>2, <1>3, <1>4, MemoryStep
<1>6. QED
  BY <1>2, <1>3, <1>5

(* What a step must show of memory where it leaves the tables of all tasks *)
(* but n as they are, as far as the invariant says anything of them        *)
Others(m, m2, n) ==
  \A t \in Slots : t # n =>
    /\ m2.pg_dir[t] = m.pg_dir[t]
    /\ \A a \in Addresses :
         m2.pg_table[t][a] = NotPresent <=> m.pg_table[t][a] = NotPresent

(* The child's slot before the fork *)
LEMMA ChildSlot ==
  ASSUME MemInv, NEW s \in Slots, pc[s] = "user", NEW n \in Slots, task[n] = NoPage
  PROVE  /\ n # s /\ pc[n] = "none" /\ args[n] = {} /\ NoTables(mm, n)
         /\ View(mm)[n] = NoMemory
<1>1. n # s /\ pc[n] = "none"
  BY DEF MemInv, TasksInv
<1>2. NoTables(mm, n) /\ args[n] = {}
  BY <1>1 DEF MemInv, EmptyInv, ArgsInv
<1>3. View(mm)[n] = NoMemory
  BY <1>2 DEF NoTables, View, NoMemory
<1>4. QED
  BY <1>1, <1>2, <1>3

(* copy_process with memory enough *)
LEMMA ForkKeeps ==
  ASSUME MemInv, NEW s \in Slots, pc[s] = "user", NEW n \in Slots, task[n] = NoPage,
         FreePages(mm) # {}, NEW m, m = get_free_page(mm), CopyFits(m, s),
         mm' = CopyTables(m, s, n), task' = [task EXCEPT ![n] = LastFree(mm)],
         pc' = [pc EXCEPT ![n] = "user"], args' = args, leaked' = leaked
  PROVE  MemInv' /\ View(mm') = [View(mm) EXCEPT ![n] = View(mm)[s]]
<1> DEFINE q == LastFree(mm)
<1>1. /\ q \in Pages /\ mm.mem_map[q] = 0 /\ Held[q] = 0
      /\ q \notin leaked /\ \A t \in Slots : q \notin args[t] /\ task[t] # q
      /\ m.pg_table = mm.pg_table /\ m.pg_dir = mm.pg_dir /\ View(m) = View(mm)
      /\ m.mem_map[q] = 1 /\ m.data[q] = Zero
      /\ \A p \in Pages : p # q => m.mem_map[p] = mm.mem_map[p]
      /\ Sound(m, Got(q)) /\ Kept(mm, m, Held)
      /\ \A p \in Pages : Got(q)[p] = Held[p] + IF p = q THEN 1 ELSE 0
  BY GotPage
<1>2. task' = [task EXCEPT ![n] = q]
  OBVIOUS
<1> HIDE DEF q
<1>3. n # s /\ pc[n] = "none" /\ args[n] = {} /\ NoTables(mm, n)
  BY ChildSlot
<1>4. /\ \A d \in Dirs : m.pg_dir[n][d] = NoPage
      /\ \A a \in Addresses : m.pg_table[n][a] = NotPresent
  BY <1>1, <1>3 DEF NoTables
<1>5. /\ Sound(mm', Got(q))
      /\ \A p \in Pages : Got(q)[p] > 0 /\ m.mem_map[p] = 1 => mm'.mem_map[p] = 1
      /\ View(mm') = [View(m) EXCEPT ![n] = View(m)[s]]
      /\ Others(m, mm', n)
  <2>1. /\ Sound(mm', Got(q))
        /\ \A p \in Pages : Got(q)[p] > 0 /\ m.mem_map[p] = 1 => mm'.mem_map[p] = 1
        /\ \A t \in Slots : t # n => View(mm')[t] = View(m)[t]
        /\ CopyFits(m, s) => View(mm') = [View(m) EXCEPT ![n] = View(m)[s]]
        /\ \A t \in Slots : t # n => /\ mm'.pg_dir[t] = m.pg_dir[t]
                                     /\ \A a \in Addresses :
                                          mm'.pg_table[t][a] = NotPresent
                                            <=> m.pg_table[t][a] = NotPresent
    BY <1>1, <1>3, <1>4, CopyKeeps
  <2>2. QED
    BY <2>1 DEF Others
<1>6. /\ task \in [Slots -> Pages \cup {NoPage}] /\ pc \in [Slots -> Places]
      /\ args \in [Slots -> SUBSET Pages] /\ leaked \in SUBSET Pages
  BY DEF MemInv, TypeOK
<1>7. \A t \in Slots : /\ task'[t] = IF t = n THEN q ELSE task[t]
                       /\ pc'[t] = IF t = n THEN "user" ELSE pc[t]
  BY <1>2, <1>6
<1>8. Sound(mm', Held')
  <2>1. task' = Put1(task, n, q)
    BY <1>2 DEF Put1
  <2>6. q \in Pages /\ task \in [Slots -> Pages \cup {NoPage}] /\ task[n] = NoPage
    BY <1>1, <1>6
  <2>2. MoreAt(HeldBy(task, args, leaked), HeldBy(task', args, leaked), q)
    BY <2>1, <2>6, HeldTask
  <2>3. \A p \in Pages : Held'[p] = Got(q)[p]
    BY <1>1, <2>2 DEF Held, MoreAt
  <2>4. Held' \in [Pages -> Nat]
    BY HeldNumbers DEF Held
  <2>5. QED
    BY <1>5, <2>3, <2>4, SameHolders
<1>9. TypeOK'
  <2>1. task' \in [Slots -> Pages \cup {NoPage}] /\ pc' \in [Slots -> Places]
    BY <1>1, <1>2, <1>6 DEF Places
  <2>2. QED
    BY <1>5, <1>6, <2>1 DEF TypeOK, Sound
<1>10. TasksInv'
  <2>1. q # NoPage
    BY <1>1, MemoryAssumption
  <2>2. QED
    BY <1>7, <2>1 DEF MemInv, TasksInv
<1>11. EmptyInv'
  <2>1. ASSUME NEW t \in Slots, pc'[t] \in {"none", "dead"}  PROVE NoTables(mm', t)
    <3>1. t # n /\ pc[t] \in {"none", "dead"}
      BY <1>7, <2>1
    <3>2. NoTables(mm, t)
      BY <3>1 DEF MemInv, EmptyInv
    <3>3. QED
      BY <1>1, <1>5, <3>1, <3>2 DEF NoTables, Others
  <2>2. QED
    BY <2>1 DEF EmptyInv
<1>12. ArgsInv'
  <2>1. ASSUME NEW t \in Slots, pc'[t] \in {"strings", "load"}
        PROVE  \E p \in Pages : args'[t] = {p} /\ mm'.mem_map[p] = 1
    <3>1. pc[t] \in {"strings", "load"}
      BY <1>7, <2>1
    <3>2. PICK p \in Pages : args[t] = {p} /\ mm.mem_map[p] = 1
      BY <3>1 DEF MemInv, ArgsInv
    <3>3. p # q /\ Held[p] = 1
      BY <1>1, <3>2, ArgsHeld
    <3>4. Got(q)[p] > 0 /\ m.mem_map[p] = 1
      BY <1>1, <3>2, <3>3
    <3>5. QED
      BY <1>5, <3>2, <3>4
  <2>2. ASSUME NEW t \in Slots, pc'[t] \notin {"strings", "load"}
        PROVE  args'[t] = {}
    BY <1>3, <1>7, <2>2 DEF MemInv, ArgsInv
  <2>3. QED
    BY <2>1, <2>2 DEF ArgsInv
<1>13. TopInv'
  <2>1. ASSUME NEW t \in Slots, pc'[t] = "load"
        PROVE  mm'.pg_table[t][TopAddress] = NotPresent
    <3>1. t # n /\ pc[t] = "load"
      BY <1>7, <2>1
    <3>2. m.pg_table[t][TopAddress] = NotPresent
      BY <1>1, <3>1 DEF MemInv, TopInv
    <3>3. QED
      BY <1>5, <3>1, <3>2, MemMapAssumption DEF Others
  <2>2. QED
    BY <2>1 DEF TopInv
<1>14. QED
  BY <1>1, <1>5, <1>8, <1>9, <1>10, <1>11, <1>12, <1>13 DEF MemInv

(* copy_process that runs out of memory *)
LEMMA ForkFails ==
  ASSUME MemInv, NEW s \in Slots, pc[s] = "user", NEW n \in Slots, task[n] = NoPage,
         FreePages(mm) # {}, NEW m, m = get_free_page(mm),
         mm' = free_page(free_page_tables(CopyTables(m, s, n), n), LastFree(mm)),
         MemoryOnly
  PROVE  MemInv' /\ View(mm') = View(mm)
<1> DEFINE q == LastFree(mm)
           c == CopyTables(m, s, n)
           e == free_page_tables(c, n)
<1>1. /\ q \in Pages /\ mm.mem_map[q] = 0 /\ Held[q] = 0
      /\ q \notin leaked /\ \A t \in Slots : q \notin args[t] /\ task[t] # q
      /\ m.pg_table = mm.pg_table /\ m.pg_dir = mm.pg_dir /\ View(m) = View(mm)
      /\ m.mem_map[q] = 1 /\ m.data[q] = Zero
      /\ \A p \in Pages : p # q => m.mem_map[p] = mm.mem_map[p]
      /\ Sound(m, Got(q)) /\ Kept(mm, m, Held)
      /\ \A p \in Pages : Got(q)[p] = Held[p] + IF p = q THEN 1 ELSE 0
  BY GotPage
<1>2. mm' = free_page(e, q)
  OBVIOUS
<1> HIDE DEF q
<1>3. n # s /\ NoTables(mm, n) /\ View(mm)[n] = NoMemory
  BY ChildSlot
<1>4. /\ \A d \in Dirs : m.pg_dir[n][d] = NoPage
      /\ \A a \in Addresses : m.pg_table[n][a] = NotPresent
  BY <1>1, <1>3 DEF NoTables
<1>5. /\ Sound(c, Got(q))
      /\ \A p \in Pages : Got(q)[p] > 0 /\ m.mem_map[p] = 1 => c.mem_map[p] = 1
      /\ \A t \in Slots : t # n => View(c)[t] = View(m)[t]
      /\ \A t \in Slots : t # n => /\ c.pg_dir[t] = m.pg_dir[t]
                                   /\ \A a \in Addresses :
                                        c.pg_table[t][a] = NotPresent
                                          <=> m.pg_table[t][a] = NotPresent
  <2>1. c = CopyTables(m, s, n)
    OBVIOUS
  <2> HIDE DEF c, e
  <2>2. /\ Sound(c, Got(q))
        /\ \A p \in Pages : Got(q)[p] > 0 /\ m.mem_map[p] = 1 => c.mem_map[p] = 1
        /\ \A t \in Slots : t # n => View(c)[t] = View(m)[t]
        /\ CopyFits(m, s) => View(c) = [View(m) EXCEPT ![n] = View(m)[s]]
        /\ \A t \in Slots : t # n => /\ c.pg_dir[t] = m.pg_dir[t]
                                     /\ \A a \in Addresses :
                                          c.pg_table[t][a] = NotPresent
                                            <=> m.pg_table[t][a] = NotPresent
    BY <1>1, <1>3, <1>4, <2>1, CopyKeeps
  <2>3. QED
    BY <2>2
<1>6. e = free_page_tables(c, n)
  OBVIOUS
<1> HIDE DEF c, e
<1>7. /\ Sound(e, Got(q))
      /\ \A d \in Dirs : e.pg_dir[n][d] = NoPage
      /\ \A a \in Addresses : e.pg_table[n][a] = NotPresent
      /\ \A t \in Slots \ {n} : /\ e.pg_dir[t] = c.pg_dir[t]
                                /\ e.pg_table[t] = c.pg_table[t]
      /\ \A p \in Pages : Got(q)[p] > 0 /\ c.mem_map[p] = 1 => e.mem_map[p] = 1
      /\ View(e) = [View(c) EXCEPT ![n] = NoMemory]
  <2>1. Sound(c, Got(q))
    BY <1>5
  <2>2. Sound(e, Got(q)) /\ Dropped(c, e, n, Got(q))
    BY <1>6, <2>1, DropTables
  <2>3. QED
    BY <2>2 DEF Dropped
<1>8. Held \in [Pages -> Nat] /\ Got(q) \in [Pages -> Nat] /\ Got(q)[q] > 0
  BY <1>1 DEF Sound, MemInv
<1>9. /\ mm'.pg_table = e.pg_table /\ mm'.pg_dir = e.pg_dir /\ mm'.data = e.data
      /\ mm'.mem_map = [e.mem_map EXCEPT ![q] = @ - 1]
      /\ Sound(mm', Less(Got(q), q))
      /\ View(mm') = View(e)
  <2>1. Sound(e, Got(q)) /\ q \in Pages /\ Got(q)[q] > 0
    BY <1>1, <1>7, <1>8
  <2>2. QED
    BY <1>2, <2>1, FreePage
<1>10. Sound(mm', Held)
  <2>1. \A p \in Pages : Held[p] = Less(Got(q), q)[p]
    BY <1>1, <1>8 DEF Less
  <2>2. QED
    BY <1>8, <1>9, <2>1, SameHolders
<1>11. View(mm') = View(mm)
  <2>2. \A t \in Slots : View(e)[t] = IF t = n THEN NoMemory ELSE View(c)[t]
    BY <1>7 DEF View
  <2>3. \A t \in Slots : View(e)[t] = View(mm)[t]
    BY <1>1, <1>3, <1>5, <2>2
  <2>4. View(e) = View(mm)
    BY <2>3, ViewSame
  <2>5. QED
    BY <1>9, <2>4
<1>12. \A t \in Slots : NoTables(mm, t) => NoTables(mm', t)
  <2>1. ASSUME NEW t \in Slots, NoTables(mm, t)  PROVE NoTables(mm', t)
    <3>1. CASE t = n
      BY <1>7, <1>9, <3>1 DEF NoTables
    <3>2. CASE t # n
      <4>1. t \in Slots \ {n}
        BY <3>2
      <4>2. QED
        BY <1>1, <1>5, <1>7, <1>9, <2>1, <3>2, <4>1 DEF NoTables
    <3>3. QED
      BY <3>1, <3>2
  <2>2. QED
    BY <2>1
<1>13. ASSUME NEW p \in Pages, p # q, Held[p] = 1, mm.mem_map[p] = 1
       PROVE  mm'.mem_map[p] = 1
  <2>1. e.mem_map[p] = 1
    BY <1>1, <1>5, <1>7, <1>13
  <2>2. e.mem_map \in [Pages -> Nat]
    BY <1>7 DEF Sound, MemoryState
  <2>3. QED
    BY <1>9, <1>13, <2>1, <2>2
<1>14. task' = task /\ pc' = pc /\ args' = args /\ leaked' = leaked
  BY DEF MemoryOnly
<1>15. TypeOK' /\ TasksInv' /\ EmptyInv' /\ Sound(mm', Held')
  BY <1>10, <1>12, <1>14 DEF MemInv, TypeOK, TasksInv, EmptyInv, Held, Sound
<1>16. ArgsInv'
  <2>1. ASSUME NEW t \in Slots, pc[t] \in {"strings", "load"}
        PROVE  \E p \in Pages : args[t] = {p} /\ mm'.mem_map[p] = 1
    <3>1. PICK p \in Pages : args[t] = {p} /\ mm.mem_map[p] = 1
      BY <2>1 DEF MemInv, ArgsInv
    <3>2. p # q /\ Held[p] = 1
      BY <1>1, <3>1, ArgsHeld
    <3>3. QED
      BY <1>13, <3>1, <3>2
  <2>2. \A t \in Slots : pc[t] \notin {"strings", "load"} => args[t] = {}
    BY DEF MemInv, ArgsInv
  <2>3. QED
    BY <1>14, <2>1, <2>2 DEF ArgsInv
<1>17. TopInv'
  <2>1. ASSUME NEW t \in Slots, pc[t] = "load"
        PROVE  mm'.pg_table[t][TopAddress] = NotPresent
    <3>1. mm.pg_table[t][TopAddress] = NotPresent /\ TopAddress \in Addresses
      BY <2>1, MemMapAssumption DEF MemInv, TopInv
    <3>2. CASE t = n
      BY <1>7, <1>9, <3>1, <3>2
    <3>3. CASE t # n
      BY <1>1, <1>5, <1>7, <1>9, <3>1, <3>3
    <3>4. QED
      BY <3>2, <3>3
  <2>2. QED
    BY <1>14, <2>1 DEF TopInv
<1>18. QED
  BY <1>11, <1>15, <1>16, <1>17 DEF MemInv

(* execve: the page of the arguments *)
LEMMA StringsKeep ==
  ASSUME MemInv, NEW s \in Slots, NEW v \in Values, ExecStrings(s, v)
  PROVE  MemInv' /\ View(mm') = View(mm)
<1> DEFINE q == LastFree(mm)
           m == get_free_page(mm)
<1>1. /\ pc[s] = "user" /\ FreePages(mm) # {}
      /\ mm' = [m EXCEPT !.data[q] = v]
      /\ args' = [args EXCEPT ![s] = {q}] /\ pc' = [pc EXCEPT ![s] = "strings"]
      /\ task' = task /\ leaked' = leaked
  BY DEF ExecStrings
<1>2. /\ q \in Pages /\ mm.mem_map[q] = 0 /\ Held[q] = 0
      /\ q \notin leaked /\ \A t \in Slots : q \notin args[t] /\ task[t] # q
      /\ m.pg_table = mm.pg_table /\ m.pg_dir = mm.pg_dir /\ View(m) = View(mm)
      /\ m.mem_map[q] = 1 /\ m.data[q] = Zero
      /\ \A p \in Pages : p # q => m.mem_map[p] = mm.mem_map[p]
      /\ Sound(m, Got(q)) /\ Kept(mm, m, Held)
      /\ \A p \in Pages : Got(q)[p] = Held[p] + IF p = q THEN 1 ELSE 0
  BY <1>1, GotPage
<1> HIDE DEF q, m
<1>3. /\ task \in [Slots -> Pages \cup {NoPage}] /\ pc \in [Slots -> Places]
      /\ args \in [Slots -> SUBSET Pages] /\ leaked \in SUBSET Pages /\ args[s] = {}
  BY <1>1 DEF MemInv, TypeOK, ArgsInv
<1>4. \A t \in Slots : /\ args'[t] = IF t = s THEN {q} ELSE args[t]
                       /\ pc'[t] = IF t = s THEN "strings" ELSE pc[t]
  BY <1>1, <1>3
<1>5. /\ Sound(mm', Got(q)) /\ View(mm') = View(m) /\ mm'.mem_map = m.mem_map
      /\ mm'.pg_table = m.pg_table /\ mm'.pg_dir = m.pg_dir
  <2>1. Sound(m, Got(q)) /\ q \in Pages /\ m.mem_map[q] = 1 /\ Got(q)[q] = 1
    BY <1>2
  <2>2. QED
    BY <1>1, <2>1, StoreHidden
<1>6. Sound(mm', Held')
  <2>1. args' = Put1(args, s, {q})
    BY <1>1 DEF Put1
  <2>2. MoreAt(HeldBy(task, args, leaked), HeldBy(task, args', leaked), q)
    BY <1>2, <1>3, <2>1, HeldArgs
  <2>3. \A p \in Pages : Held'[p] = Got(q)[p]
    BY <1>1, <1>2, <2>2 DEF Held, MoreAt
  <2>4. Held' \in [Pages -> Nat]
    BY HeldNumbers DEF Held
  <2>5. QED
    BY <1>5, <2>3, <2>4, SameHolders
<1>7. TypeOK'
  <2>1. args' \in [Slots -> SUBSET Pages] /\ pc' \in [Slots -> Places]
    BY <1>1, <1>2, <1>3 DEF Places
  <2>2. QED
    BY <1>1, <1>3, <1>5, <2>1 DEF TypeOK, Sound
<1>8. TasksInv' /\ TopInv'
  BY <1>1, <1>2, <1>4, <1>5 DEF MemInv, TasksInv, TopInv
<1>9. EmptyInv'
  <2>1. ASSUME NEW t \in Slots, pc'[t] \in {"none", "dead"}  PROVE NoTables(mm', t)
    <3>1. NoTables(mm, t)
      BY <1>4, <2>1 DEF MemInv, EmptyInv
    <3>2. QED
      BY <1>2, <1>5, <3>1 DEF NoTables
  <2>2. QED
    BY <2>1 DEF EmptyInv
<1>10. ArgsInv'
  <2>1. ASSUME NEW t \in Slots, pc'[t] \in {"strings", "load"}
        PROVE  \E p \in Pages : args'[t] = {p} /\ mm'.mem_map[p] = 1
    <3>1. CASE t = s
      BY <1>2, <1>4, <1>5, <3>1
    <3>2. CASE t # s
      <4>1. PICK p \in Pages : args[t] = {p} /\ mm.mem_map[p] = 1
        BY <1>4, <2>1, <3>2 DEF MemInv, ArgsInv
      <4>2. p # q
        BY <1>2, <4>1
      <4>3. QED
        BY <1>2, <1>4, <1>5, <3>2, <4>1, <4>2
    <3>3. QED
      BY <3>1, <3>2
  <2>2. ASSUME NEW t \in Slots, pc'[t] \notin {"strings", "load"}
        PROVE  args'[t] = {}
    BY <1>4, <2>2 DEF MemInv, ArgsInv
  <2>3. QED
    BY <2>1, <2>2 DEF ArgsInv
<1>11. QED
  BY <1>2, <1>5, <1>6, <1>7, <1>8, <1>9, <1>10 DEF MemInv

(* execve: the memory of the old program goes *)
LEMMA CommitKeeps ==
  ASSUME MemInv, NEW s \in Slots, ExecCommit(s)
  PROVE  MemInv' /\ View(mm') = [View(mm) EXCEPT ![s] = NoMemory]
<1>1. /\ pc[s] = "strings" /\ mm' = free_page_tables(mm, s)
      /\ pc' = [pc EXCEPT ![s] = "load"]
      /\ task' = task /\ args' = args /\ leaked' = leaked
  BY DEF ExecCommit
<1>2. /\ pc \in [Slots -> Places] /\ Sound(mm, Held)
      /\ \A t \in Slots : pc'[t] = IF t = s THEN "load" ELSE pc[t]
  BY <1>1 DEF MemInv, TypeOK
<1>3. Sound(mm', Held) /\ Dropped(mm, mm', s, Held)
  BY <1>1, <1>2, DropTables
<1>4. /\ NoTables(mm', s)
      /\ \A t \in Slots \ {s} : /\ mm'.pg_dir[t] = mm.pg_dir[t]
                                /\ mm'.pg_table[t] = mm.pg_table[t]
      /\ \A p \in Pages : Held[p] > 0 /\ mm.mem_map[p] = 1 => mm'.mem_map[p] = 1
  BY <1>3 DEF Dropped, NoTables
<1>5. TypeOK' /\ Sound(mm', Held') /\ TasksInv'
  <2>1. pc' \in [Slots -> Places]
    BY <1>1, <1>2 DEF Places
  <2>2. QED
    BY <1>1, <1>2, <1>3, <2>1 DEF MemInv, TypeOK, TasksInv, Held, Sound
<1>6. EmptyInv'
  <2>1. ASSUME NEW t \in Slots, pc'[t] \in {"none", "dead"}  PROVE NoTables(mm', t)
    <3>1. t # s /\ NoTables(mm, t)
      BY <1>2, <2>1 DEF MemInv, EmptyInv
    <3>2. QED
      BY <1>4, <3>1 DEF NoTables
  <2>2. QED
    BY <2>1 DEF EmptyInv
<1>7. ArgsInv'
  <2>1. ASSUME NEW t \in Slots, pc'[t] \in {"strings", "load"}
        PROVE  \E p \in Pages : args'[t] = {p} /\ mm'.mem_map[p] = 1
    <3>1. pc[t] \in {"strings", "load"}
      BY <1>1, <1>2, <2>1
    <3>2. PICK p \in Pages : args[t] = {p} /\ mm.mem_map[p] = 1
      BY <3>1 DEF MemInv, ArgsInv
    <3>3. Held[p] = 1
      BY <3>2, ArgsHeld
    <3>4. QED
      BY <1>1, <1>4, <3>2, <3>3
  <2>2. ASSUME NEW t \in Slots, pc'[t] \notin {"strings", "load"}
        PROVE  args'[t] = {}
    BY <1>1, <1>2, <2>2 DEF MemInv, ArgsInv
  <2>3. QED
    BY <2>1, <2>2 DEF ArgsInv
<1>8. TopInv'
  <2>1. ASSUME NEW t \in Slots, pc'[t] = "load"
        PROVE  mm'.pg_table[t][TopAddress] = NotPresent
    <3>1. CASE t = s
      BY <1>4, <3>1, MemMapAssumption DEF NoTables
    <3>2. CASE t # s
      BY <1>2, <1>4, <2>1, <3>2 DEF MemInv, TopInv
    <3>3. QED
      BY <3>1, <3>2
  <2>2. QED
    BY <2>1 DEF TopInv
<1>9. QED
  BY <1>3, <1>5, <1>6, <1>7, <1>8 DEF MemInv, Dropped

(* execve ends: the process runs, and holds no arguments any more. *)
LEMMA ExecEnds ==
  ASSUME MemInv, NEW s \in Slots, pc[s] = "load", pc' = [pc EXCEPT ![s] = "user"],
         args' = [args EXCEPT ![s] = {}], task' = task, leaked' \subseteq Pages,
         Sound(mm', Held'), Elsewhere(mm, mm', s, TopAddress),
         \A p \in Pages : mm.mem_map[p] # 0 => mm'.mem_map[p] = mm.mem_map[p]
  PROVE  MemInv'
<1>1. /\ pc \in [Slots -> Places] /\ args \in [Slots -> SUBSET Pages]
      /\ \A t \in Slots : /\ pc'[t] = IF t = s THEN "user" ELSE pc[t]
                          /\ args'[t] = IF t = s THEN {} ELSE args[t]
  BY DEF MemInv, TypeOK
<1>2. TypeOK'
  <2>1. pc' \in [Slots -> Places] /\ args' \in [Slots -> SUBSET Pages]
    BY <1>1 DEF Places
  <2>2. QED
    BY <2>1 DEF MemInv, TypeOK, Sound
<1>3. TasksInv'
  BY <1>1 DEF MemInv, TasksInv
<1>4. EmptyInv'
  <2>1. ASSUME NEW t \in Slots, pc'[t] \in {"none", "dead"}  PROVE NoTables(mm', t)
    <3>1. t # s /\ NoTables(mm, t)
      BY <1>1, <2>1 DEF MemInv, EmptyInv
    <3>2. QED
      BY <3>1 DEF NoTables, Elsewhere
  <2>2. QED
    BY <2>1 DEF EmptyInv
<1>5. ArgsInv'
  <2>1. ASSUME NEW t \in Slots, pc'[t] \in {"strings", "load"}
        PROVE  \E p \in Pages : args'[t] = {p} /\ mm'.mem_map[p] = 1
    <3>1. t # s /\ pc[t] \in {"strings", "load"}
      BY <1>1, <2>1
    <3>2. PICK p \in Pages : args[t] = {p} /\ mm.mem_map[p] = 1
      BY <3>1 DEF MemInv, ArgsInv
    <3>3. QED
      BY <1>1, <3>1, <3>2
  <2>2. ASSUME NEW t \in Slots, pc'[t] \notin {"strings", "load"}
        PROVE  args'[t] = {}
    BY <1>1, <2>2 DEF MemInv, ArgsInv
  <2>3. QED
    BY <2>1, <2>2 DEF ArgsInv
<1>6. TopInv'
  <2>1. ASSUME NEW t \in Slots, pc'[t] = "load"
        PROVE  mm'.pg_table[t][TopAddress] = NotPresent
    <3>1. t # s /\ pc[t] = "load"
      BY <1>1, <2>1
    <3>2. QED
      BY <3>1, MemMapAssumption DEF MemInv, TopInv, Elsewhere
  <2>2. QED
    BY <2>1 DEF TopInv
<1>7. QED
  BY <1>2, <1>3, <1>4, <1>5, <1>6 DEF MemInv

(* ... they are forgotten, ... *)
LEMMA ArgsForgotten ==
  ASSUME MemInv, NEW s \in Slots, pc[s] = "load", pc' = [pc EXCEPT ![s] = "user"],
         args' = [args EXCEPT ![s] = {}], task' = task,
         leaked' = leaked \cup args[s], mm' = mm
  PROVE  MemInv'
<1>1. \A p \in Pages : Held'[p] = Held[p] + IF p \in {} THEN 1 ELSE 0
  <2> DEFINE more == {}
  <2>1. /\ more \cap leaked = {} /\ \A t \in Slots : more \cap args[t] = {}
        /\ leaked' = leaked \cup args[s] \cup more
    OBVIOUS
  <2> HIDE DEF more
  <2>2. \A p \in Pages : Held'[p] = Held[p] + IF p \in more THEN 1 ELSE 0
    BY <2>1, HeldForgotten
  <2>3. QED
    BY <2>2 DEF more
<1>2. Sound(mm, Held) /\ Held \in [Pages -> Nat] /\ Held' \in [Pages -> Nat]
  BY HeldNumbers DEF MemInv, Held
<1>3. \A p \in Pages : Held'[p] = Held[p]
  BY <1>1, <1>2
<1>4. Sound(mm', Held')
  BY <1>2, <1>3, SameHolders
<1>5. leaked' \subseteq Pages
  BY DEF MemInv, TypeOK
<1>6. Elsewhere(mm, mm', s, TopAddress)
      /\ \A p \in Pages : mm.mem_map[p] # 0 => mm'.mem_map[p] = mm.mem_map[p]
  BY DEF Elsewhere
<1>7. QED
  BY <1>4, <1>5, <1>6, ExecEnds

(* A load that fails changes nothing that is seen.                         *)
LEMMA FailKeeps ==
  ASSUME MemInv, NEW s \in Slots, ExecFail(s)
  PROVE  MemInv' /\ mm' = mm
<1>1. /\ pc[s] = "load" /\ pc' = [pc EXCEPT ![s] = "user"]
      /\ args' = [args EXCEPT ![s] = {}] /\ task' = task
      /\ leaked' = leaked \cup args[s] /\ mm' = mm
  BY DEF ExecFail
<1>2. QED
  BY <1>1, ArgsForgotten

(* ... or put at the top. *)
LEMMA LdtKeeps ==
  ASSUME MemInv, NEW s \in Slots, change_ldt(s)
  PROVE  /\ MemInv'
         /\ \/ mm' = mm
            \/ /\ mm.pg_table[s][TopAddress] = NotPresent
               /\ \E p \in Pages : View(mm') = Put2(View(mm), s, TopAddress, mm.data[p])
<1>1. /\ pc[s] = "load" /\ pc' = [pc EXCEPT ![s] = "user"]
      /\ args' = [args EXCEPT ![s] = {}] /\ task' = task
  BY DEF change_ldt
<1>2. CASE mm' = mm /\ leaked' = leaked \cup args[s]
  BY <1>1, <1>2, ArgsForgotten
<1>3. CASE /\ PutFits(mm, s, TopAddress)
           /\ mm' = put_page(mm, s, TopAddress, CHOOSE p \in args[s] : TRUE)
           /\ leaked' = leaked
  <2>1. PICK p \in Pages : args[s] = {p}
    BY <1>1 DEF MemInv, ArgsInv
  <2>2. mm.mem_map[p] = 1 /\ Held[p] = 1
    BY <2>1, ArgsHeld
  <2>3. mm' = put_page(mm, s, TopAddress, p)
    <3>1. (CHOOSE r \in args[s] : TRUE) = p
      BY <2>1
    <3>2. QED
      BY <1>3, <3>1
  <2>4. /\ Sound(mm, Held) /\ TopAddress \in Addresses
        /\ mm.pg_table[s][TopAddress] = NotPresent /\ PutFits(mm, s, TopAddress)
    BY <1>1, <1>3, MemMapAssumption DEF MemInv, TopInv
  <2>5. /\ Sound(mm', Less(Held, p))
        /\ View(mm') = Put2(View(mm), s, TopAddress, mm.data[p])
        /\ Elsewhere(mm, mm', s, TopAddress)
        /\ \A r \in Pages : mm.mem_map[r] # 0 => mm'.mem_map[r] = mm.mem_map[r]
    BY <2>2, <2>3, <2>4, PutPage
  <2>6. /\ args \in [Slots -> SUBSET Pages] /\ args' \in [Slots -> SUBSET Pages]
        /\ args'[s] = {} /\ leaked' \subseteq Pages
    BY <1>1, <1>3 DEF MemInv, TypeOK
  <2>7. args = Put1(args', s, {p})
    BY <1>1, <2>1, <2>6 DEF Put1
  <2>8. MoreAt(HeldBy(task, args', leaked), HeldBy(task, args, leaked), p)
    BY <2>6, <2>7, HeldArgs
  <2>9. Held \in [Pages -> Nat] /\ Held' \in [Pages -> Nat]
    BY HeldNumbers DEF Held
  <2>10. \A r \in Pages : Held[r] = Held'[r] + IF r = p THEN 1 ELSE 0
    BY <1>1, <1>3, <2>8 DEF Held, MoreAt
  <2>11. \A r \in Pages : Held'[r] = Less(Held, p)[r]
    BY <2>9, <2>10 DEF Less
  <2>12. Sound(mm', Held')
    BY <2>5, <2>9, <2>11, SameHolders
  <2>13. MemInv'
    BY <1>1, <2>5, <2>6, <2>12, ExecEnds
  <2>14. QED
    BY <2>4, <2>5, <2>13
<1>4. QED
  BY <1>2, <1>3 DEF change_ldt

-----------------------------------------------------------------------------
(* The start                                                               *)

(* The two pages and the table of process 1 *)
LEMMA FirstPages ==
  ASSUME NEW p1, p1 = Max(Pages), NEW p2, p2 = Max(Pages \ {p1}), NEW d, d = Min(Dirs)
  PROVE  p1 \in Pages /\ p2 \in Pages /\ p1 # p2 /\ d \in Dirs
<1>1. IsFiniteSet(Pages) /\ Pages \in SUBSET Nat /\ Cardinality(Pages) > 1
      /\ Cardinality(Pages) \in Nat
  BY MemoryAssumption, MemMapAssumption, FS_CardinalityType
<1>2. Pages # {}
  BY <1>1, FS_EmptySet
<1>3. p1 \in Pages
  BY <1>1, <1>2, Greatest
<1>4. IsFiniteSet(Pages \ {p1}) /\ Cardinality(Pages \ {p1}) = Cardinality(Pages) - 1
  BY <1>1, <1>3, FS_RemoveElement
<1>5. Pages \ {p1} # {} /\ Pages \ {p1} \in SUBSET Nat
  <2>1. Cardinality(Pages \ {p1}) # 0
    BY <1>1, <1>4
  <2>2. Pages \ {p1} # {}
    BY <2>1, FS_EmptySet
  <2>3. QED
    BY <1>1, <2>2
<1>6. p2 \in Pages \ {p1}
  <2> DEFINE S == Pages \ {p1}
  <2>1. S # {} /\ S \in SUBSET Nat /\ IsFiniteSet(S)
    BY <1>4, <1>5
  <2> HIDE DEF S
  <2>2. Max(S) \in S
    BY <2>1, Greatest
  <2>3. QED
    BY <2>2 DEF S
<1>7. Dirs # {} /\ Dirs \in SUBSET Nat
  BY MemoryAssumption, MemMapAssumption DEF Addresses
<1>8. d \in Dirs
  BY <1>7, Least
<1>9. QED
  BY <1>3, <1>6, <1>8

LowEntry(p) == [page |-> p, w |-> FALSE]

(* The memory of process 1 *)
Start(m, p1, p2, d, low) ==
  /\ m.mem_map = [p \in Pages |-> IF p \in {p1, p2} THEN 1 ELSE 0]
  /\ m.pg_dir = [s \in Slots |-> [b \in Dirs |->
                   IF s = FirstSlot /\ b = d THEN p2 ELSE NoPage]]
  /\ m.pg_table = [s \in Slots |-> [a \in Addresses |->
                     IF s = FirstSlot /\ a[1] = d THEN LowEntry(low[a[2]])
                     ELSE NotPresent]]
  /\ m.data = [p \in Frames |-> Zero]

(* Process 1 has two pages, its task_struct and its table. *)
LEMMA StartSound ==
  ASSUME NEW p1 \in Pages, NEW p2 \in Pages, p1 # p2, NEW d \in Dirs,
         NEW low \in [Entries -> LowPages], NEW m, Start(m, p1, p2, d, low),
         m = [mem_map |-> m.mem_map, pg_dir |-> m.pg_dir, pg_table |-> m.pg_table,
              data |-> m.data],
         NEW h \in [Pages -> Nat], \A p \in Pages : h[p] = IF p = p1 THEN 1 ELSE 0
  PROVE  Sound(m, h) /\ \A s \in Slots \ {FirstSlot} : NoTables(m, s)
<1>1. FirstSlot \in Slots /\ NoPage \notin Pages
  BY MemoryAssumption, MemMapAssumption
<1>2. ASSUME NEW a \in Addresses
      PROVE  /\ LowEntry(low[a[2]]) \in Pte /\ LowEntry(low[a[2]]).page \notin Pages
             /\ ~LowEntry(low[a[2]]).w /\ LowEntry(low[a[2]]) # NotPresent
  <2>1. a[2] \in Entries
    BY DEF Addresses
  <2>2. low[a[2]] \in LowPages
    BY <2>1
  <2> DEFINE r == low[a[2]]
  <2>3. r \in Frames /\ r \notin Pages
    BY <2>2, MemoryAssumption DEF Frames
  <2> HIDE DEF r
  <2>4. LowEntry(r) \in Pte /\ LowEntry(r).page = r /\ ~LowEntry(r).w
    BY <2>3 DEF LowEntry, Pte
  <2>5. QED
    BY <2>3, <2>4, NotPresentAssumption DEF r
<1>3. /\ \A s \in Slots, a \in Addresses :
           m.pg_table[s][a] = IF s = FirstSlot /\ a[1] = d THEN LowEntry(low[a[2]])
                              ELSE NotPresent
      /\ \A s \in Slots, b \in Dirs :
           m.pg_dir[s][b] = IF s = FirstSlot /\ b = d THEN p2 ELSE NoPage
      /\ \A p \in Pages : m.mem_map[p] = IF p = p1 \/ p = p2 THEN 1 ELSE 0
  BY DEF Start
<1>4. m \in MemoryState
  <2>1. m.mem_map \in [Pages -> Nat] /\ m.data \in [Frames -> Values]
    BY MemoryAssumption DEF Start
  <2>2. m.pg_dir \in [Slots -> [Dirs -> Pages \cup {NoPage}]]
    BY DEF Start
  <2>3. m.pg_table \in [Slots -> [Addresses -> Pte \cup {NotPresent}]]
    <3> DEFINE y(s, a) == IF s = FirstSlot /\ a[1] = d THEN LowEntry(low[a[2]])
                          ELSE NotPresent
               V == Pte \cup {NotPresent}
    <3>1. \A s \in Slots, a \in Addresses : y(s, a) \in V
      BY <1>2
    <3>2. m.pg_table = [s \in Slots |-> [a \in Addresses |-> y(s, a)]]
      BY DEF Start
    <3> HIDE DEF y, V
    <3>3. m.pg_table \in [Slots -> [Addresses -> V]]
      BY <3>1, <3>2
    <3>4. QED
      BY <3>3 DEF V
  <2>4. QED
    BY <2>1, <2>2, <2>3 DEF MemoryState
<1>5. ASSUME NEW p \in Pages  PROVE m.mem_map[p] = Mapped(m, p) + h[p]
  <2>1. EntriesTo(m, p) = {}
    <3>1. ASSUME NEW s \in Slots, NEW a \in Addresses, m.pg_table[s][a] # NotPresent
          PROVE  m.pg_table[s][a].page # p
      BY <1>2, <1>3, <3>1
    <3>2. QED
      BY <3>1 DEF EntriesTo, Refs
  <2>2. TablesTo(m, p) = IF p = p2 THEN {<<FirstSlot, d>>} ELSE {}
    BY <1>1, <1>3 DEF TablesTo, TablesAt
  <2>3. Mapped(m, p) = IF p = p2 THEN 1 ELSE 0
    <3>1. Cardinality(EntriesTo(m, p)) = 0
      BY <2>1, FS_EmptySet
    <3>2. Cardinality(TablesTo(m, p)) = IF p = p2 THEN 1 ELSE 0
      <4>1. CASE p = p2
        <5> DEFINE x == <<FirstSlot, d>>
        <5>1. TablesTo(m, p) = {x}
          BY <2>2, <4>1
        <5> HIDE DEF x
        <5>2. Cardinality(TablesTo(m, p)) = 1
          BY <5>1, FS_Singleton
        <5>3. QED
          BY <4>1, <5>2
      <4>2. CASE p # p2
        BY <2>2, <4>2, FS_EmptySet
      <4>3. QED
        BY <4>1, <4>2
    <3>3. QED
      BY <3>1, <3>2 DEF Mapped
  <2>4. QED
    BY <1>3, <2>3
<1>6. Private(m)
  <2>1. \A s \in Slots, a \in Addresses :
          m.pg_table[s][a] # NotPresent => ~m.pg_table[s][a].w
    BY <1>2, <1>3
  <2>2. QED
    BY <2>1 DEF Private
<1>7. Covered(m)
  <2>1. ASSUME NEW s \in Slots, NEW a \in Addresses, m.pg_table[s][a] # NotPresent
        PROVE  m.pg_dir[s][a[1]] # NoPage
    BY <1>1, <1>3, <2>1
  <2>2. QED
    BY <2>1 DEF Covered, HasTable
<1>8. \A s \in Slots \ {FirstSlot} : NoTables(m, s)
  BY <1>3 DEF NoTables
<1>9. QED
  BY <1>4, <1>5, <1>6, <1>7, <1>8 DEF Sound, Counted

(* Init establishes the invariant. *)
LEMMA InitKeeps ==
  ASSUME Init
  PROVE  MemInv
<1> DEFINE p1 == Max(Pages)
           p2 == Max(Pages \ {p1})
           d == Min(Dirs)
<1>1. p1 \in Pages /\ p2 \in Pages /\ p1 # p2 /\ d \in Dirs
  BY FirstPages
<1>2. PICK low \in [Entries -> LowPages] :
        mm = [mem_map |-> [p \in Pages |-> IF p \in {p1, p2} THEN 1 ELSE 0],
              pg_dir |-> [s \in Slots |-> [b \in Dirs |->
                 IF s = FirstSlot /\ b = d THEN p2 ELSE NoPage]],
              pg_table |-> [s \in Slots |-> [a \in Addresses |->
                 IF s = FirstSlot /\ a[1] = d
                 THEN [page |-> low[a[2]], w |-> FALSE] ELSE NotPresent]],
              data |-> [p \in Frames |-> Zero]]
  BY DEF Init
<1> HIDE DEF p1, p2, d
<1>3. Start(mm, p1, p2, d, low)
      /\ mm = [mem_map |-> mm.mem_map, pg_dir |-> mm.pg_dir, pg_table |-> mm.pg_table,
               data |-> mm.data]
  BY <1>2 DEF Start, LowEntry
<1>4. /\ task = [s \in Slots |-> IF s = FirstSlot THEN p1 ELSE NoPage]
      /\ pc = [s \in Slots |-> IF s = FirstSlot THEN "user" ELSE "none"]
      /\ args = [s \in Slots |-> {}] /\ leaked = {}
  BY DEF Init, p1
<1>5. FirstSlot \in Slots /\ NoPage \notin Pages
  BY MemoryAssumption, MemMapAssumption
<1>6. Held \in [Pages -> Nat] /\ \A p \in Pages : Held[p] = IF p = p1 THEN 1 ELSE 0
  <2>1. ASSUME NEW p \in Pages  PROVE Held[p] = IF p = p1 THEN 1 ELSE 0
    <3>1. TasksAt(task, p) = (IF p = p1 THEN {FirstSlot} ELSE {}) /\ ArgsAt(args, p) = {}
      BY <1>4, <1>5 DEF TasksAt, ArgsAt
    <3>2. /\ Cardinality(TasksAt(task, p)) = IF p = p1 THEN 1 ELSE 0
          /\ Cardinality(ArgsAt(args, p)) = 0
      BY <3>1, FS_EmptySet, FS_Singleton
    <3>3. Held[p] = Cardinality(TasksAt(task, p)) + Cardinality(ArgsAt(args, p))
                      + IF p \in leaked THEN 1 ELSE 0
      BY HeldNumbers DEF Held
    <3>4. p \notin leaked
      BY <1>4
    <3>5. QED
      BY <3>2, <3>3, <3>4
  <2>2. Held \in [Pages -> Nat]
    BY HeldNumbers DEF Held
  <2>3. QED
    BY <2>1, <2>2
<1>7. Sound(mm, Held) /\ \A s \in Slots \ {FirstSlot} : NoTables(mm, s)
  BY <1>1, <1>3, <1>6, StartSound
<1>8. TypeOK
  <2>1. task \in [Slots -> Pages \cup {NoPage}] /\ pc \in [Slots -> Places]
        /\ args \in [Slots -> SUBSET Pages] /\ leaked \subseteq Pages
    BY <1>1, <1>4 DEF Places
  <2>2. QED
    BY <1>7, <2>1 DEF TypeOK, Sound
<1>9. \A s \in Slots : /\ task[s] = IF s = FirstSlot THEN p1 ELSE NoPage
                       /\ pc[s] = IF s = FirstSlot THEN "user" ELSE "none"
                       /\ args[s] = {}
  BY <1>4
<1>10. TasksInv /\ ArgsInv /\ TopInv
  BY <1>1, <1>5, <1>9 DEF TasksInv, ArgsInv, TopInv
<1>11. EmptyInv
  BY <1>7, <1>9 DEF EmptyInv
<1>12. QED
  BY <1>7, <1>8, <1>10, <1>11 DEF MemInv

-----------------------------------------------------------------------------
(* What a step may do to what the programs see, as module PrivateMemory    *)
(* says it                                                                 *)

Stored(w, w2) == \E s \in Slots, a \in Addresses, v \in Values :
                   w[s][a] # NotPresent /\ w2 = Put2(w, s, a, v)
Appeared(w, w2) == \E s \in Slots, a \in Addresses, v \in Values :
                     /\ w[s][a] = NotPresent /\ (v = Zero \/ a = TopAddress)
                     /\ w2 = Put2(w, s, a, v)
Vanished(w, w2) == \E s \in Slots : w2 = [w EXCEPT ![s] = NoMemory]
Inherited(w, w2) == \E s \in Slots, n \in Slots :
                      n # s /\ w[n] = NoMemory /\ w2 = [w EXCEPT ![n] = w[s]]
Visible(w, w2) ==
  w2 = w \/ Stored(w, w2) \/ Appeared(w, w2) \/ Vanished(w, w2) \/ Inherited(w, w2)

(* A program sees contents where there is an entry, and nothing elsewhere: *)
(* no contents are NotPresent.                                             *)
LEMMA ViewCells ==
  ASSUME MemInv
  PROVE  /\ \A s \in Slots, a \in Addresses :
              /\ View(mm)[s][a] = NotPresent <=> mm.pg_table[s][a] = NotPresent
              /\ View(mm)[s][a] \in Values \cup {NotPresent}
         /\ View(mm) \in [Slots -> [Addresses -> Values \cup {NotPresent}]]
         /\ mm.data \in [Frames -> Values]
<1>1. /\ mm.pg_table \in [Slots -> [Addresses -> Pte \cup {NotPresent}]]
      /\ mm.data \in [Frames -> Values]
  BY DEF MemInv, Sound, MemoryState
<1>2. ASSUME NEW s \in Slots, NEW a \in Addresses
      PROVE  /\ View(mm)[s][a] = NotPresent <=> mm.pg_table[s][a] = NotPresent
             /\ View(mm)[s][a] \in Values \cup {NotPresent}
  <2>1. CASE mm.pg_table[s][a] = NotPresent
    BY <2>1 DEF View
  <2>2. CASE mm.pg_table[s][a] # NotPresent
    <3>1. mm.pg_table[s][a] \in Pte
      BY <1>1, <2>2
    <3>2. mm.pg_table[s][a].page \in Frames
      BY <3>1 DEF Pte
    <3>3. mm.data[mm.pg_table[s][a].page] \in Values
      BY <1>1, <3>2
    <3>4. View(mm)[s][a] = mm.data[mm.pg_table[s][a].page]
      BY <2>2 DEF View
    <3>5. QED
      BY <2>2, <3>3, <3>4, MemMapAssumption
  <2>3. QED
    BY <2>1, <2>2
<1>3. View(mm) \in [Slots -> [Addresses -> Values \cup {NotPresent}]]
  <2>1. View(mm) = [s \in Slots |-> [a \in Addresses |-> View(mm)[s][a]]]
    BY DEF View
  <2> DEFINE V == Values \cup {NotPresent}
  <2>2. \A s \in Slots, a \in Addresses : View(mm)[s][a] \in V
    BY <1>2
  <2> HIDE DEF V
  <2>3. View(mm) \in [Slots -> [Addresses -> V]]
    BY <2>1, <2>2
  <2>4. QED
    BY <2>3 DEF V
<1>4. QED
  BY <1>1, <1>2, <1>3

(* fork, with or without memory: the child's memory is its father's, or    *)
(* nothing happens.                                                        *)
LEMMA ForkStep ==
  ASSUME MemInv, NEW s \in Slots, copy_process(s)
  PROVE  MemInv' /\ Visible(View(mm), View(mm'))
<1> DEFINE n == Min(Free)
           m == get_free_page(mm)
           c == CopyTables(m, s, n)
<1>1. /\ pc[s] = "user" /\ Free # {} /\ FreePages(mm) # {}
      /\ args' = args /\ leaked' = leaked
      /\ \/ /\ mm' = free_page(free_page_tables(c, n), LastFree(mm))
            /\ task' = task /\ pc' = pc
         \/ /\ CopyFits(m, s) /\ mm' = c
            /\ task' = [task EXCEPT ![n] = LastFree(mm)]
            /\ pc' = [pc EXCEPT ![n] = "user"]
  BY DEF copy_process
<1>2. n \in Slots /\ task[n] = NoPage
  <2>1. Free \in SUBSET Nat
    BY MemMapAssumption DEF Free
  <2>2. Min(Free) \in Free
    BY <1>1, <2>1, Least
  <2>3. QED
    BY <2>2 DEF Free
<1> HIDE DEF n
<1>3. n # s /\ View(mm)[n] = NoMemory
  BY <1>1, <1>2, ChildSlot
<1>4. CASE /\ mm' = free_page(free_page_tables(c, n), LastFree(mm))
           /\ task' = task /\ pc' = pc
  <2>1. MemoryOnly
    BY <1>1, <1>4 DEF MemoryOnly
  <2>2. MemInv' /\ View(mm') = View(mm)
    BY <1>1, <1>2, <1>4, <2>1, ForkFails
  <2>3. QED
    BY <2>2 DEF Visible
<1>5. CASE /\ CopyFits(m, s) /\ mm' = c
           /\ task' = [task EXCEPT ![n] = LastFree(mm)]
           /\ pc' = [pc EXCEPT ![n] = "user"]
  <2>1. MemInv' /\ View(mm') = [View(mm) EXCEPT ![n] = View(mm)[s]]
    BY <1>1, <1>2, <1>5, ForkKeeps
  <2>2. Inherited(View(mm), View(mm'))
    BY <1>2, <1>3, <2>1 DEF Inherited
  <2>3. QED
    BY <2>1, <2>2 DEF Visible
<1>6. QED
  BY <1>1, <1>4, <1>5

(* The memory of one process that goes                                     *)
LEMMA ExitVisible ==
  ASSUME NEW s \in Slots, View(mm') = [View(mm) EXCEPT ![s] = NoMemory]
  PROVE  Visible(View(mm), View(mm'))
BY DEF Visible, Vanished

(* A page that is not there: a page of zeros appears, or the process ends. *)
LEMMA NoPageStep ==
  ASSUME MemInv, NEW s \in Slots, NEW a \in Addresses, do_no_page(s, a)
  PROVE  MemInv' /\ Visible(View(mm), View(mm'))
<1> DEFINE m == get_free_page(mm)
           q == LastFree(mm)
<1>1. /\ Touches(s, a) /\ mm.pg_table[s][a] = NotPresent
      /\ \/ do_exit(s, mm, {})
         \/ FreePages(mm) # {} /\ PutFits(m, s, a) /\ mm' = put_page(m, s, a, q)
              /\ MemoryOnly
         \/ FreePages(mm) # {} /\ do_exit(s, m, {q})
  BY DEF do_no_page
<1>2. pc[s] \in {"user", "load"}
  BY <1>1 DEF Touches
<1>3. CASE do_exit(s, mm, {})
  BY <1>2, <1>3, ExitKeeps, ExitVisible
<1>4. CASE FreePages(mm) # {} /\ PutFits(m, s, a) /\ mm' = put_page(m, s, a, q)
           /\ MemoryOnly
  <2>1. MemInv' /\ View(mm') = Put2(View(mm), s, a, Zero)
    BY <1>1, <1>4, NoPageKeeps
  <2>2. View(mm)[s][a] = NotPresent
    BY <1>1, ViewCells
  <2>3. Appeared(View(mm), View(mm'))
    BY <2>1, <2>2, MemoryAssumption DEF Appeared
  <2>4. QED
    BY <2>1, <2>3 DEF Visible
<1>5. CASE FreePages(mm) # {} /\ do_exit(s, m, {q})
  BY <1>2, <1>5, ExitForgets, ExitVisible
<1>6. QED
  BY <1>1, <1>3, <1>4, <1>5

(* A page that is protected: nothing is seen, or the process ends.         *)
LEMMA WriteFaultStep ==
  ASSUME MemInv, NEW s \in Slots, NEW a \in Addresses, do_wp_page(s, a)
  PROVE  MemInv' /\ Visible(View(mm), View(mm'))
<1>1. /\ Touches(s, a) /\ mm.pg_table[s][a] # NotPresent
      /\ \/ do_exit(s, mm, {})
         \/ /\ MemoryOnly
            /\ \/ MayUnprotect(mm, s, a) /\ mm' = Unprotect(mm, s, a)
               \/ FreePages(mm) # {} /\ mm' = CopyOnWrite(mm, s, a)
  BY DEF do_wp_page
<1>2. CASE do_exit(s, mm, {})
  <2>1. pc[s] \in {"user", "load"}
    BY <1>1 DEF Touches
  <2>2. QED
    BY <1>2, <2>1, ExitKeeps, ExitVisible
<1>3. CASE /\ MemoryOnly
           /\ \/ MayUnprotect(mm, s, a) /\ mm' = Unprotect(mm, s, a)
              \/ FreePages(mm) # {} /\ mm' = CopyOnWrite(mm, s, a)
  BY <1>1, <1>3, WriteFaultKeeps DEF Visible
<1>4. QED
  BY <1>1, <1>2, <1>3

(* A store changes what its process sees at one address.                   *)
LEMMA StoreStep ==
  ASSUME MemInv, NEW s \in Slots, NEW a \in Addresses, NEW v \in Values, Store(s, a, v)
  PROVE  MemInv' /\ Visible(View(mm), View(mm'))
<1>1. /\ MemInv' /\ View(mm') = Put2(View(mm), s, a, v)
      /\ mm.pg_table[s][a] # NotPresent
  BY StoreKeeps
<1>2. View(mm)[s][a] # NotPresent
  BY <1>1, ViewCells
<1>3. Stored(View(mm), View(mm'))
  BY <1>1, <1>2 DEF Stored
<1>4. QED
  BY <1>1, <1>3 DEF Visible

(* execve ends: the arguments appear at the top, or nothing is seen.       *)
LEMMA LdtStep ==
  ASSUME MemInv, NEW s \in Slots, change_ldt(s)
  PROVE  MemInv' /\ Visible(View(mm), View(mm'))
<1>1. /\ MemInv'
      /\ \/ mm' = mm
         \/ /\ mm.pg_table[s][TopAddress] = NotPresent
            /\ \E p \in Pages : View(mm') = Put2(View(mm), s, TopAddress, mm.data[p])
  BY LdtKeeps
<1>2. CASE mm' = mm
  BY <1>1, <1>2 DEF Visible
<1>3. ASSUME mm.pg_table[s][TopAddress] = NotPresent, NEW p \in Pages,
             View(mm') = Put2(View(mm), s, TopAddress, mm.data[p])
      PROVE  Visible(View(mm), View(mm'))
  <2>1. View(mm)[s][TopAddress] = NotPresent /\ mm.data[p] \in Values
    BY <1>3, ViewCells, MemMapAssumption DEF Frames
  <2>2. Appeared(View(mm), View(mm'))
    BY <1>3, <2>1, MemMapAssumption DEF Appeared
  <2>3. QED
    BY <2>2 DEF Visible
<1>4. QED
  BY <1>1, <1>2, <1>3

(* Every step keeps the invariant and shows what it may. *)
LEMMA StepKeeps ==
  ASSUME MemInv, [Next]_vars
  PROVE  MemInv' /\ Visible(View(mm), View(mm'))
<1>1. ASSUME NEW s \in Slots, Exit(s)
      PROVE  MemInv' /\ Visible(View(mm), View(mm'))
  <2>1. pc[s] \in {"user", "load"} /\ do_exit(s, mm, {})
    BY <1>1 DEF Exit
  <2>2. QED
    BY <2>1, ExitKeeps, ExitVisible
<1>2. ASSUME NEW s \in Slots, release(s)
      PROVE  MemInv' /\ Visible(View(mm), View(mm'))
  BY <1>2, ReleaseKeeps DEF Visible
<1>3. ASSUME NEW s \in Slots, NEW v \in Values, ExecStrings(s, v)
      PROVE  MemInv' /\ Visible(View(mm), View(mm'))
  BY <1>3, StringsKeep DEF Visible
<1>4. ASSUME NEW s \in Slots, ExecCommit(s)
      PROVE  MemInv' /\ Visible(View(mm), View(mm'))
  BY <1>4, CommitKeeps, ExitVisible
<1>5. ASSUME NEW s \in Slots, ExecFail(s)
      PROVE  MemInv' /\ Visible(View(mm), View(mm'))
  BY <1>5, FailKeeps DEF Visible
<1>6. CASE UNCHANGED vars
  <2>1. mm' = mm /\ task' = task /\ pc' = pc /\ args' = args /\ leaked' = leaked
    BY <1>6 DEF vars
  <2>2. MemInv'
    BY <2>1 DEF MemInv, TypeOK, Held, TasksInv, EmptyInv, ArgsInv, TopInv
  <2>3. QED
    BY <2>1, <2>2 DEF Visible
<1>7. QED
  BY <1>1, <1>2, <1>3, <1>4, <1>5, <1>6, ForkStep, NoPageStep, WriteFaultStep,
     StoreStep, LdtStep DEF Next

-----------------------------------------------------------------------------
(* The theorems                                                            *)

(* The invariant of mm/memory.c and of those who hold its pages: at each   *)
(* page the count, whoever refers to it, and what every place of fork,     *)
(* execve and exit means for the tables of a process and its arguments.    *)
THEOREM MemoryInvariant == Spec => []MemInv
<1>1. Init => MemInv
  BY InitKeeps
<1>2. MemInv /\ [Next]_vars => MemInv'
  BY StepKeeps
<1>3. QED
  BY <1>1, <1>2, PTL DEF Spec

(* MemoryExact: mem_map counts exactly who refers to a page, and a page    *)
(* that can be written to is mapped once.                                  *)
THEOREM CountsAreExact == Spec => []MemoryExact
<1>1. MemInv => MemoryExact
  <2>1. SUFFICES ASSUME MemInv  PROVE MemoryExact
    OBVIOUS
  <2>2. TypeOK /\ Sound(mm, Held)
    BY <2>1 DEF MemInv
  <2>3. WritablePrivate
    BY <2>2 DEF WritablePrivate, Sound, Private
  <2>4. ASSUME NEW p \in Pages
        PROVE  mm.mem_map[p] = References(p) + IF p \in leaked THEN 1 ELSE 0
    <3>1. mm.mem_map[p] = Mapped(mm, p) + Held[p]
      BY <2>2 DEF Sound, Counted
    <3>2. Held[p] = Cardinality(TasksAt(task, p)) + Cardinality(ArgsAt(args, p))
                      + IF p \in leaked THEN 1 ELSE 0
      BY HeldNumbers DEF Held
    <3>3. /\ Cardinality(TasksAt(task, p)) \in Nat /\ Cardinality(ArgsAt(args, p)) \in Nat
          /\ Cardinality(EntriesTo(mm, p)) \in Nat /\ Cardinality(TablesTo(mm, p)) \in Nat
      BY HeldNumbers, MappedFinite
    <3>4. References(p) = Cardinality(EntriesTo(mm, p)) + Cardinality(TablesTo(mm, p))
                          + Cardinality(TasksAt(task, p)) + Cardinality(ArgsAt(args, p))
      BY DEF References, TasksAt, ArgsAt
    <3>5. QED
      BY <3>1, <3>2, <3>3, <3>4 DEF Mapped
  <2>5. QED
    BY <2>2, <2>3, <2>4 DEF MemoryExact, CountExact
<1>2. QED
  BY <1>1, MemoryInvariant, PTL

(* MemoryIsPrivate: what a program sees of memory is a memory of its own,  *)
(* its father's at fork, which shared pages, copy on write and running out *)
(* of memory do not show.                                                  *)
THEOREM MemoryOfItsOwn == Spec => MemoryIsPrivate
<1>1. Init => Abstract!MemoryInit
  <2>1. SUFFICES ASSUME Init  PROVE Abstract!MemoryInit
    OBVIOUS
  <2>2. View(mm) \in [Slots -> [Addresses -> Values \cup {NotPresent}]]
    BY <2>1, InitKeeps, ViewCells
  <2>3. QED
    BY <2>2 DEF Abstract!MemoryInit, Abstract!Cells, View
<1>2. MemInv /\ [Next]_vars
        => [Abstract!MemoryNext]_([s \in Slots |-> [a \in Addresses |->
             IF mm.pg_table[s][a] = NotPresent THEN NotPresent
             ELSE mm.data[mm.pg_table[s][a].page]]])
  <2>1. SUFFICES ASSUME MemInv, [Next]_vars
                 PROVE  Abstract!MemoryNext \/ View(mm') = View(mm)
    BY DEF View
  <2>2. Visible(View(mm), View(mm'))
    BY <2>1, StepKeeps
  <2>3. ASSUME Stored(View(mm), View(mm'))  PROVE \E s \in Slots : Abstract!Store(s)
    BY <2>3 DEF Stored, Put2, Abstract!Store, View
  <2>4. ASSUME Appeared(View(mm), View(mm'))  PROVE \E s \in Slots : Abstract!Appear(s)
    BY <2>4 DEF Appeared, Put2, Abstract!Appear, View
  <2>5. ASSUME Vanished(View(mm), View(mm'))  PROVE \E s \in Slots : Abstract!Vanish(s)
    BY <2>5 DEF Vanished, NoMemory, Abstract!Vanish, Abstract!Empty, View
  <2>6. ASSUME Inherited(View(mm), View(mm'))
        PROVE  \E s \in Slots : \E child \in Slots \ {s} : Abstract!Copy(s, child)
    BY <2>6 DEF Inherited, NoMemory, Abstract!Copy, Abstract!Empty, View
  <2>7. QED
    BY <2>2, <2>3, <2>4, <2>5, <2>6 DEF Visible, Abstract!MemoryNext
<1>3. QED
  BY <1>1, <1>2, MemoryInvariant, PTL DEF Spec, MemoryIsPrivate, Abstract!MemorySpec
=============================================================================
