--------------------------- MODULE InodeTableProofs ---------------------------
(***************************************************************************)
(* For every number of tasks, of slots and of inodes, as long as none of   *)
(* the races of Odd has happened: there is one in-core copy of an inode,   *)
(* i_count is the number of its users, and no change of an inode is lost.  *)
(*                                                                         *)
(* An action is what a task does until it sleeps, and goes through several *)
(* parts of the code, iget into iput for instance.  So the invariant is a  *)
(* predicate on the table T, the disk D, the bitmap M, the names N, where  *)
(* the tasks are, A and W, what they have open, R, and the latest contents *)
(* L: it also holds of the states between two parts, which no task but the *)
(* one that makes the step ever sees.                                      *)
(***************************************************************************)
EXTENDS InodeTable, FiniteSetTheorems, WellFoundedInduction, TLAPS

(* Where a task counts on the slot it is at, where it has it locked, and   *)
(* where nobody else counts on it                                          *)
Holding == {"read", "put", "putwrite", "trunc", "link"}
Locking == {"read", "putwrite", "syncwrite"}
Alone == {"read", "putwrite", "trunc", "link"}

Inode == [i_num : Nums \cup {0}, i_count : Nat,
          i_lock : BOOLEAN, i_dirt : BOOLEAN, d : Contents]

Uses(A, W, R, u, s) ==
  \/ R[u] = s
  \/ W[u].slot = s /\ A[u] \in Holding
  \/ W[u].empty = s /\ A[u] = "found"
UsersIn(A, W, R, s) == {u \in Tasks : Uses(A, W, R, u, s)}

TasksTyped(A, W, R) ==
  /\ A \in [Tasks -> Places] /\ W \in [Tasks -> Works]
  /\ R \in [Tasks -> Slots \cup {NoSlot}]
Typed(D, M, N, L) ==
  D \in [Nums -> Contents] /\ M \subseteq Nums /\ N \subseteq Nums /\ L \in [Nums -> 0 .. 1]

(* OneCopy and InodeCountExact *)
One(T) ==
  \A r, s \in Slots : r # s /\ T[r].i_num = T[s].i_num => T[r].i_num = 0
CountsOK(T, A, W, R) ==
  \A s \in Slots : T[s].i_count = Cardinality(UsersIn(A, W, R, s))

(* The bit of an inode with a name, or in the table, is set. *)
BitsOK(T, M, N) ==
  N \subseteq M /\ \A s \in Slots : T[s].i_num # 0 => T[s].i_num \in M

(* A locked inode is locked by one task. *)
LocksOK(T, A, W) ==
  /\ \A s \in Slots : T[s].i_lock <=> \E u \in Tasks : A[u] \in Locking /\ W[u].slot = s
  /\ \A u, v \in Tasks : u # v /\ A[u] \in Locking /\ A[v] \in Locking
                          => W[u].slot # W[v].slot

(* An unused slot is clean and unlocked, one without an inode too. *)
IdleOK(T) ==
  \A s \in Slots : T[s].i_dirt \/ T[s].i_lock => T[s].i_num # 0 /\ T[s].i_count # 0

PlaceOK(T, N, A, W, R, u) ==
  /\ A[u] \notin {"user", "sync", "syncwrite"} => R[u] = NoSlot
  /\ R[u] # NoSlot => T[R[u]].i_num # 0
  /\ A[u] \in Holding => W[u].slot \in Slots /\ T[W[u].slot].i_num # 0
  /\ A[u] \in {"sync", "syncwrite"} => W[u].slot \in Slots
  /\ A[u] = "found" => W[u].empty \in Slots /\ T[W[u].empty].i_num = 0
  /\ A[u] = "read" => T[W[u].slot].i_num \in N
  /\ A[u] = "trunc" => T[W[u].slot].d.i_nlinks = 0
  /\ A[u] = "link" => T[W[u].slot].i_num \notin N /\ T[W[u].slot].d.i_nlinks = 1
PlacesOK(T, N, A, W, R) == \A u \in Tasks : PlaceOK(T, N, A, W, R, u)

(* What somebody has alone *)
AloneOK(A, W, R) ==
  \A u, v \in Tasks : u # v =>
    /\ A[u] \in Alone => ~ Uses(A, W, R, v, W[u].slot)
    /\ A[u] = "found" => ~ Uses(A, W, R, v, W[u].empty)

Reading(A, W, s) == \E u \in Tasks : A[u] = "read" /\ W[u].slot = s
Linking(A, W, s) == \E u \in Tasks : A[u] = "link" /\ W[u].slot = s

(* An inode in the table, once it has been read: with a name it has its    *)
(* link, with its link it is the latest, and on the disk when it is clean, *)
(* and it has its name or is about to get it.                              *)
DataOK(T, D, N, A, W, L) ==
  \A s \in Slots : T[s].i_num # 0 /\ ~ Reading(A, W, s) =>
    LET n == T[s].i_num IN
    /\ n \in N => T[s].d.i_nlinks = 1
    /\ T[s].d.i_nlinks = 1 => T[s].d.ver = L[n]
    /\ T[s].d.i_nlinks = 1 /\ ~ T[s].i_dirt => D[n] = T[s].d
    /\ T[s].d.i_nlinks = 1 /\ n \notin N => Linking(A, W, s)

(* An inode that is not in the table is the latest on the disk. *)
DiskOK(T, D, N, A, W, L) ==
  \A n \in N :
    (\A s \in Slots : T[s].i_num = n => Reading(A, W, s)) =>
      D[n].i_nlinks = 1 /\ D[n].ver = L[n]

(* Without a name it is used, so that somebody frees it. *)
OrphansOK(T, M, N) ==
  \A n \in M \ N : \E s \in Slots : T[s].i_num = n /\ T[s].i_count # 0

Good(T, D, M, N, A, W, R, L) ==
  /\ T \in [Slots -> Inode] /\ TasksTyped(A, W, R) /\ Typed(D, M, N, L)
  /\ One(T) /\ CountsOK(T, A, W, R) /\ BitsOK(T, M, N) /\ LocksOK(T, A, W)
  /\ IdleOK(T) /\ PlacesOK(T, N, A, W, R) /\ AloneOK(A, W, R)
  /\ DataOK(T, D, N, A, W, L) /\ DiskOK(T, D, N, A, W, L) /\ OrphansOK(T, M, N)

(* Who waits in iget waits for an inode that has a name. *)
WaitsOK(N, A, W) ==
  \A u \in Tasks : A[u] = "found" => W[u].slot \in Slots /\ W[u].num \in N

InodeInv ==
  /\ odd \in Odd /\ last_allocated_inode \in Slots
  /\ odd = "no" =>
       /\ Good(inode_table, d_inode, s_imap, names, at, work, ref, latest)
       /\ WaitsOK(names, at, work)

InodesSpec == InodesInit /\ [][InodesNext]_inodeVars

-----------------------------------------------------------------------------
(* Steps of one task t that change one slot s of the table *)
Moves(t, A, W, R, A2, W2, R2) ==
  /\ TasksTyped(A2, W2, R2)
  /\ \A u \in Tasks \ {t} : A2[u] = A[u] /\ W2[u] = W[u] /\ R2[u] = R[u]
Alters(s, T, T2) ==
  T2 \in [Slots -> Inode] /\ \A x \in Slots \ {s} : T2[x] = T[x]

(* Slots are not NoSlot, and there are finitely many tasks. *)
LEMMA Basics ==
  /\ NoSlot \notin Slots
  /\ IsFiniteSet(Tasks) /\ Cardinality(Tasks) \in Nat
  /\ Slots \subseteq Nat /\ Nums \subseteq Nat \ {0}
<1>1. IsFiniteSet(Tasks)
  BY InodeAssumption
<1>2. Cardinality(Tasks) \in Nat
  BY <1>1, FS_CardinalityType
<1>3. QED
  BY <1>2, InodeAssumption DEF NoSlot, Slots, Nums

(* The users of a slot are finitely many, and no more than the tasks. *)
LEMMA UsersFinite ==
  ASSUME NEW A, NEW W, NEW R, NEW s
  PROVE  /\ IsFiniteSet(UsersIn(A, W, R, s))
         /\ Cardinality(UsersIn(A, W, R, s)) \in Nat
         /\ Cardinality(UsersIn(A, W, R, s)) <= Cardinality(Tasks)
<1>1. UsersIn(A, W, R, s) \subseteq Tasks
  BY DEF UsersIn
<1>2. QED
  BY <1>1, Basics, FS_Subset, FS_CardinalityType

(* i_count stays the number of users when it changes by what t does. *)
LEMMA Recount ==
  ASSUME NEW T, NEW T2, NEW t \in Tasks,
         NEW A, NEW W, NEW R, NEW A2, NEW W2, NEW R2,
         T \in [Slots -> Inode], T2 \in [Slots -> Inode], CountsOK(T, A, W, R),
         \A u \in Tasks \ {t} : A2[u] = A[u] /\ W2[u] = W[u] /\ R2[u] = R[u],
         \A s \in Slots :
           T2[s].i_count =
             (T[s].i_count - (IF Uses(A, W, R, t, s) THEN 1 ELSE 0))
               + IF Uses(A2, W2, R2, t, s) THEN 1 ELSE 0
  PROVE  CountsOK(T2, A2, W2, R2)
<1> SUFFICES ASSUME NEW s \in Slots
             PROVE  T2[s].i_count = Cardinality(UsersIn(A2, W2, R2, s))
  BY DEF CountsOK
<1> DEFINE U == UsersIn(A, W, R, s)
           U2 == UsersIn(A2, W2, R2, s)
           O == U \ {t}
<1>1. T[s].i_count = Cardinality(U)
  BY DEF CountsOK
<1>2. \A u \in Tasks \ {t} : u \in U <=> u \in U2
  BY DEF UsersIn, Uses
<1>3. U \subseteq Tasks /\ U2 \subseteq Tasks
  BY DEF UsersIn
<1>4. (t \in U <=> Uses(A, W, R, t, s)) /\ (t \in U2 <=> Uses(A2, W2, R2, t, s))
  BY DEF UsersIn
<1>5. IsFiniteSet(U) /\ IsFiniteSet(O) /\ t \notin O /\ Cardinality(O) \in Nat
  BY UsersFinite, FS_Subset, FS_CardinalityType
<1>6. Cardinality(O \cup {t}) = Cardinality(O) + 1
  BY <1>5, FS_AddElement
<1>7. U = (IF Uses(A, W, R, t, s) THEN O \cup {t} ELSE O)
  BY <1>3, <1>4
<1>8. U2 = (IF Uses(A2, W2, R2, t, s) THEN O \cup {t} ELSE O)
  BY <1>2, <1>3, <1>4
<1> HIDE DEF U, U2, O
<1>9. Cardinality(U) = Cardinality(O) + (IF Uses(A, W, R, t, s) THEN 1 ELSE 0)
  BY <1>5, <1>6, <1>7
<1>10. Cardinality(U2) = Cardinality(O) + (IF Uses(A2, W2, R2, t, s) THEN 1 ELSE 0)
  BY <1>5, <1>6, <1>8
<1>11. T2[s].i_count = Cardinality(U2)
  BY <1>1, <1>5, <1>9, <1>10
<1>12. QED
  BY <1>11 DEF U2

(* A slot with count 0 has no user, one with count 1 that t uses no other. *)
LEMMA FewUsers ==
  ASSUME NEW T, NEW A, NEW W, NEW R, NEW s \in Slots, CountsOK(T, A, W, R)
  PROVE  /\ T[s].i_count = 0 => \A u \in Tasks : ~ Uses(A, W, R, u, s)
         /\ T[s].i_count = 1 =>
              \A u, v \in Tasks : u # v /\ Uses(A, W, R, u, s) => ~ Uses(A, W, R, v, s)
<1> DEFINE U == UsersIn(A, W, R, s)
<1>1. T[s].i_count = Cardinality(U) /\ IsFiniteSet(U)
  BY UsersFinite DEF CountsOK
<1>2. Cardinality(U) = 0 => U = {}
  BY <1>1, FS_EmptySet
<1>3. Cardinality(U) = 1 => \E x : U = {x}
  BY <1>1, FS_Singleton
<1>4. \A u \in Tasks : Uses(A, W, R, u, s) <=> u \in U
  BY DEF UsersIn
<1> HIDE DEF U
<1>5. QED
  BY <1>1, <1>2, <1>3, <1>4

(* What PlaceOK says of a task depends on the inodes and links of slots.   *)
LEMMA PlaceSame ==
  ASSUME NEW T, NEW T2, NEW N, NEW A, NEW W, NEW R, NEW A2, NEW W2, NEW R2, NEW u,
         PlaceOK(T, N, A, W, R, u), R[u] \in Slots \cup {NoSlot},
         A2[u] = A[u], W2[u] = W[u], R2[u] = R[u],
         \A x \in Slots :
           T2[x].i_num = T[x].i_num /\ T2[x].d.i_nlinks = T[x].d.i_nlinks
  PROVE  PlaceOK(T2, N, A2, W2, R2, u)
<1>4. QED
  BY DEF PlaceOK, Holding

-----------------------------------------------------------------------------
(* get_empty_inode: t has the empty slot s in hand. *)
LEMMA TakeStep ==
  ASSUME NEW T, NEW D, NEW M, NEW N, NEW A, NEW W, NEW R, NEW L,
         NEW T2, NEW A2, NEW W2, NEW R2, NEW t \in Tasks, NEW s \in Slots,
         Good(T, D, M, N, A, W, R, L), Moves(t, A, W, R, A2, W2, R2), Alters(s, T, T2),
         A[t] = "user", R[t] = NoSlot, T[s].i_count = 0,
         A2[t] = "found", R2[t] = NoSlot, W2[t].empty = s,
         T2[s].i_num = 0, T2[s].i_count = 1, ~ T2[s].i_lock, ~ T2[s].i_dirt
  PROVE  Good(T2, D, M, N, A2, W2, R2, L)
<1> USE Basics
<1>1. T \in [Slots -> Inode] /\ T2 \in [Slots -> Inode] /\ TasksTyped(A, W, R)
      /\ TasksTyped(A2, W2, R2) /\ Typed(D, M, N, L)
  BY DEF Good, Moves, Alters
<1>2. \A u \in Tasks : ~ Uses(A, W, R, u, s)
  BY FewUsers DEF Good
<1>3. One(T2)
  BY DEF Good, One, Alters
<1>4. CountsOK(T2, A2, W2, R2)
  <2>1. \A x \in Slots : Uses(A2, W2, R2, t, x) <=> x = s
    BY DEF Uses, Holding
  <2>2. \A x \in Slots : ~ Uses(A, W, R, t, x)
    BY DEF Uses, Holding
  <2>3. \A x \in Slots : T[x].i_count \in Nat
    BY <1>1 DEF Inode
  <2>4. CountsOK(T, A, W, R)
    BY DEF Good
  <2>5. \A x \in Slots : T2[x].i_count =
           (T[x].i_count - (IF Uses(A, W, R, t, x) THEN 1 ELSE 0))
             + IF Uses(A2, W2, R2, t, x) THEN 1 ELSE 0
    BY <2>1, <2>2, <2>3 DEF Alters
  <2>6. \A u \in Tasks \ {t} : A2[u] = A[u] /\ W2[u] = W[u] /\ R2[u] = R[u]
    BY DEF Moves
  <2>7. QED
    BY ONLY <1>1, <2>4, <2>5, <2>6, Recount
<1>5. BitsOK(T2, M, N)
  BY DEF Good, BitsOK, Alters
<1>6. ~ T[s].i_lock /\ ~ T[s].i_dirt
  BY DEF Good, IdleOK
<1>7. LocksOK(T2, A2, W2)
  BY <1>6 DEF Good, LocksOK, Alters, Moves, Locking
<1>8. IdleOK(T2)
  BY DEF Good, IdleOK, Alters
<1>9. PlacesOK(T2, N, A2, W2, R2)
  <2> SUFFICES ASSUME NEW u \in Tasks PROVE PlaceOK(T2, N, A2, W2, R2, u)
    BY DEF PlacesOK
  <2>1. CASE u = t
    BY <2>1 DEF PlaceOK, Holding
  <2>2. CASE u # t
    <3>1. PlaceOK(T, N, A, W, R, u)
      BY DEF Good, PlacesOK
    <3>2. A2[u] = A[u] /\ W2[u] = W[u] /\ R2[u] = R[u] /\ ~ Uses(A, W, R, u, s)
      BY <1>2, <2>2 DEF Moves
    <3>3. \A x \in Slots : x # s => T2[x] = T[x]
      BY DEF Alters
    <3>4. R[u] \in Slots \cup {NoSlot}
      BY <1>1 DEF TasksTyped
    <3>5. QED
      BY <3>1, <3>2, <3>3, <3>4 DEF PlaceOK, Uses, Holding
  <2>3. QED
    BY <2>1, <2>2
<1>10. AloneOK(A2, W2, R2)
  BY <1>2 DEF Good, AloneOK, Moves, Uses, Holding, Alone
<1>11. DataOK(T2, D, N, A2, W2, L)
  BY DEF Good, DataOK, Reading, Linking, Moves, Alters
<1>12. DiskOK(T2, D, N, A2, W2, L)
  BY <1>6 DEF Good, DiskOK, DataOK, Reading, Moves, Alters
<1>13. OrphansOK(T2, M, N)
  BY DEF Good, OrphansOK, Alters
<1>14. QED
  BY <1>1, <1>3, <1>4, <1>5, <1>7, <1>8, <1>9, <1>10, <1>11, <1>12, <1>13 DEF Good

(* iget has not found inode n, and begins to read it into its empty slot. *)
LEMMA ClaimStep ==
  ASSUME NEW T, NEW D, NEW M, NEW N, NEW A, NEW W, NEW R, NEW L,
         NEW A2, NEW W2, NEW R2, NEW t \in Tasks, NEW T2, NEW s \in Slots, NEW n \in Nums,
         Good(T, D, M, N, A, W, R, L), Moves(t, A, W, R, A2, W2, R2), Alters(s, T, T2),
         A[t] = "found", W[t].empty = s, n \in N, \A x \in Slots : T[x].i_num # n,
         A2[t] = "read", R2[t] = R[t], W2[t].slot = s,
         T2[s].i_num = n, T2[s].i_lock, T2[s].i_count = T[s].i_count, T2[s].i_dirt = T[s].i_dirt
  PROVE  Good(T2, D, M, N, A2, W2, R2, L)
<1> USE Basics
<1>1. T \in [Slots -> Inode] /\ T2 \in [Slots -> Inode] /\ TasksTyped(A, W, R)
      /\ TasksTyped(A2, W2, R2) /\ Typed(D, M, N, L)
  BY DEF Good, Moves, Alters
<1>2. PlaceOK(T, N, A, W, R, t)
  BY DEF Good, PlacesOK
<1>3. R[t] = NoSlot /\ T[s].i_num = 0
  BY <1>1, <1>2 DEF PlaceOK
<1>4. \A u \in Tasks \ {t} : ~ Uses(A, W, R, u, s)
  BY DEF Good, AloneOK
<1>5. ~ T[s].i_lock /\ ~ T[s].i_dirt /\ T[s].i_count # 0 /\ T[s].i_count \in Nat
  BY <1>3, FewUsers DEF Good, IdleOK, Uses, Inode
<1>6. \A x \in Slots : Reading(A2, W2, x) <=> Reading(A, W, x) \/ x = s
  BY DEF Reading, Moves
<1>7. \A x \in Slots : Linking(A2, W2, x) <=> Linking(A, W, x)
  BY DEF Linking, Moves
<1>8. One(T2)
  BY <1>2 DEF Good, One, Alters
<1>9. CountsOK(T2, A2, W2, R2)
  <2>1. \A x \in Slots : Uses(A, W, R, t, x) <=> x = s
    BY <1>3 DEF Uses, Holding
  <2>2. \A x \in Slots : Uses(A2, W2, R2, t, x) <=> x = s
    BY <1>3 DEF Uses, Holding
  <2>3. \A x \in Slots : T[x].i_count \in Nat
    BY <1>1 DEF Inode
  <2>4. CountsOK(T, A, W, R)
    BY DEF Good
  <2>5. \A x \in Slots : T2[x].i_count =
           (T[x].i_count - (IF Uses(A, W, R, t, x) THEN 1 ELSE 0))
             + IF Uses(A2, W2, R2, t, x) THEN 1 ELSE 0
    BY <1>5, <2>1, <2>2, <2>3 DEF Alters
  <2>6. \A u \in Tasks \ {t} : A2[u] = A[u] /\ W2[u] = W[u] /\ R2[u] = R[u]
    BY DEF Moves
  <2>7. QED
    BY ONLY <1>1, <2>4, <2>5, <2>6, Recount
<1>10. BitsOK(T2, M, N)
  BY DEF Good, BitsOK, Alters
<1>11. LocksOK(T2, A2, W2)
  BY <1>5 DEF Good, LocksOK, Alters, Moves, Locking
<1>12. IdleOK(T2)
  BY <1>5 DEF Good, IdleOK, Alters
<1>13. PlacesOK(T2, N, A2, W2, R2)
  <2> SUFFICES ASSUME NEW u \in Tasks PROVE PlaceOK(T2, N, A2, W2, R2, u)
    BY DEF PlacesOK
  <2>1. PlaceOK(T, N, A, W, R, u)
    BY DEF Good, PlacesOK
  <2>2. R[u] \in Slots \cup {NoSlot}
    BY <1>1 DEF TasksTyped
  <2>3. CASE u = t
    BY <2>1, <2>3 DEF PlaceOK
  <2>4. CASE u # t
    <3>1. A2[u] = A[u] /\ W2[u] = W[u] /\ R2[u] = R[u]
      BY <2>4 DEF Moves
    <3>2. \A x \in Slots : x # s => T2[x] = T[x]
      BY DEF Alters
    <3>3. /\ R[u] # s
          /\ A[u] \in Holding => W[u].slot # s
          /\ A[u] = "found" => W[u].empty # s
      BY <1>4, <2>4 DEF Uses
    <3>8. /\ A[u] \in Holding => W[u].slot \in Slots
          /\ A[u] = "found" => W[u].empty \in Slots /\ T[W[u].empty].i_num = 0
          /\ R[u] # NoSlot => T[R[u]].i_num # 0
      BY <2>1 DEF PlaceOK
    <3>4. R[u] # NoSlot => T2[R[u]].i_num # 0
      BY <2>2, <3>2, <3>3, <3>8
    <3>5. A[u] \in Holding => W[u].slot \in Slots /\ T2[W[u].slot] = T[W[u].slot]
      BY <3>2, <3>3, <3>8
    <3>6. A[u] = "found" => W[u].empty \in Slots /\ T2[W[u].empty].i_num = 0
      BY <3>2, <3>3, <3>8
    <3>7. QED
      BY <2>1, <3>1, <3>4, <3>5, <3>6 DEF PlaceOK, Holding
  <2>5. QED
    BY <2>3, <2>4
<1>14. AloneOK(A2, W2, R2)
  BY DEF Good, AloneOK, Moves, Uses
<1>15. DataOK(T2, D, N, A2, W2, L)
  BY <1>6, <1>7 DEF Good, DataOK, Alters
<1>16. DiskOK(T2, D, N, A2, W2, L)
  BY <1>3, <1>6 DEF Good, DiskOK, Typed, Alters
<1>17. OrphansOK(T2, M, N)
  <2> SUFFICES ASSUME NEW m \in M \ N
               PROVE  \E x \in Slots : T2[x].i_num = m /\ T2[x].i_count # 0
    BY DEF OrphansOK
  <2>1. PICK x \in Slots : T[x].i_num = m /\ T[x].i_count # 0
    BY DEF Good, OrphansOK
  <2>2. m # 0
    BY <1>1 DEF Typed
  <2>3. QED
    BY <1>3, <2>1, <2>2 DEF Alters
<1>18. QED
  BY <1>1, <1>8, <1>9, <1>10, <1>11, <1>12, <1>13, <1>14, <1>15, <1>16, <1>17 DEF Good

(* iget waits for an inode that is locked. *)
LEMMA WaitStep ==
  ASSUME NEW T, NEW D, NEW M, NEW N, NEW A, NEW W, NEW R, NEW L,
         NEW A2, NEW W2, NEW R2, NEW t \in Tasks,
         Good(T, D, M, N, A, W, R, L), Moves(t, A, W, R, A2, W2, R2),
         A[t] = "found", A2[t] = "found", R2[t] = R[t], W2[t].empty = W[t].empty
  PROVE  Good(T, D, M, N, A2, W2, R2, L)
<1> USE Basics
<1>1. T \in [Slots -> Inode] /\ TasksTyped(A, W, R)
      /\ TasksTyped(A2, W2, R2) /\ Typed(D, M, N, L)
  BY DEF Good, Moves
<1>2. PlaceOK(T, N, A, W, R, t)
  BY DEF Good, PlacesOK
<1>3. R[t] = NoSlot
  BY <1>1, <1>2 DEF PlaceOK
<1>4. \A x \in Slots : Reading(A2, W2, x) <=> Reading(A, W, x)
  BY DEF Reading, Moves
<1>5. \A x \in Slots : Linking(A2, W2, x) <=> Linking(A, W, x)
  BY DEF Linking, Moves
<1>7. CountsOK(T, A2, W2, R2)
  <2>1. \A x \in Slots : Uses(A, W, R, t, x) <=> x = W[t].empty
    BY <1>3 DEF Uses, Holding
  <2>2. \A x \in Slots : Uses(A2, W2, R2, t, x) <=> x = W[t].empty
    BY <1>3 DEF Uses, Holding
  <2>3. \A x \in Slots : T[x].i_count \in Nat
    BY <1>1 DEF Inode
  <2>4. CountsOK(T, A, W, R)
    BY DEF Good
  <2>5. \A x \in Slots : T[x].i_count =
           (T[x].i_count - (IF Uses(A, W, R, t, x) THEN 1 ELSE 0))
             + IF Uses(A2, W2, R2, t, x) THEN 1 ELSE 0
    BY <2>1, <2>2, <2>3
  <2>6. \A u \in Tasks \ {t} : A2[u] = A[u] /\ W2[u] = W[u] /\ R2[u] = R[u]
    BY DEF Moves
  <2>7. QED
    BY ONLY <1>1, <2>4, <2>5, <2>6, Recount
<1>9. LocksOK(T, A2, W2)
  BY DEF Good, LocksOK, Moves, Locking
<1>11. PlacesOK(T, N, A2, W2, R2)
  <2> SUFFICES ASSUME NEW u \in Tasks PROVE PlaceOK(T, N, A2, W2, R2, u)
    BY DEF PlacesOK
  <2>1. PlaceOK(T, N, A, W, R, u)
    BY DEF Good, PlacesOK
  <2>3. CASE u = t
    BY <2>1, <2>3 DEF PlaceOK, Holding
  <2>4. CASE u # t
    <3>1. A2[u] = A[u] /\ W2[u] = W[u] /\ R2[u] = R[u]
      BY <2>4 DEF Moves
    <3>3. QED
      BY <2>1, <3>1 DEF PlaceOK
  <2>5. QED
    BY <2>3, <2>4
<1>12. AloneOK(A2, W2, R2)
  BY DEF Good, AloneOK, Moves, Uses, Holding, Alone
<1>13. DataOK(T, D, N, A2, W2, L)
  BY <1>4, <1>5 DEF Good, DataOK
<1>14. DiskOK(T, D, N, A2, W2, L)
  BY <1>4 DEF Good, DiskOK
<1>16. QED
  BY <1>1, <1>7, <1>9, <1>11, <1>12, <1>13, <1>14 DEF Good

(* iget counts itself on the inode it has found, which nobody has alone,   *)
(* and gives the empty slot back.                                          *)
LEMMA HitStep ==
  ASSUME NEW T, NEW D, NEW M, NEW N, NEW A, NEW W, NEW R, NEW L,
         NEW A2, NEW W2, NEW R2, NEW t \in Tasks, NEW T2, NEW s \in Slots, NEW e \in Slots,
         Good(T, D, M, N, A, W, R, L), Moves(t, A, W, R, A2, W2, R2),
         T2 \in [Slots -> Inode], \A x \in Slots \ {s, e} : T2[x] = T[x],
         A[t] = "found", W[t].empty = e, T[s].i_num \in N, ~ T[s].i_lock,
         A2[t] = "put", R2[t] = R[t], W2[t].slot = s,
         T2[s].i_num = T[s].i_num, T2[s].i_count = T[s].i_count + 1, ~ T2[s].i_lock,
         T2[s].i_dirt = T[s].i_dirt, T2[s].d = T[s].d,
         T2[e].i_num = T[e].i_num, T2[e].i_count = T[e].i_count - 1,
         T2[e].i_lock = T[e].i_lock, T2[e].i_dirt = T[e].i_dirt
  PROVE  Good(T2, D, M, N, A2, W2, R2, L)
<1> USE Basics
<1>1. T \in [Slots -> Inode] /\ T2 \in [Slots -> Inode] /\ TasksTyped(A, W, R)
      /\ TasksTyped(A2, W2, R2) /\ Typed(D, M, N, L)
  BY DEF Good, Moves, Alters
<1>2. PlaceOK(T, N, A, W, R, t)
  BY DEF Good, PlacesOK
<1>3. R[t] = NoSlot /\ T[e].i_num = 0 /\ T[s].i_num # 0 /\ s # e
  BY <1>1, <1>2 DEF PlaceOK, Typed
<1>4. \A u \in Tasks \ {t} : ~ Uses(A, W, R, u, e)
  BY DEF Good, AloneOK
<1>5. ~ T[e].i_lock /\ ~ T[e].i_dirt /\ T[s].i_count \in Nat /\ T[e].i_count \in Nat
  BY <1>3 DEF Good, IdleOK, Inode
<1>6. T[s].d.i_nlinks = 1
  BY <1>3 DEF Good, LocksOK, Locking, DataOK, Reading
<1>7. \A u \in Tasks : (A[u] \in Alone => W[u].slot # s) /\ (A[u] = "found" => W[u].empty # s)
  BY <1>3, <1>6 DEF Good, LocksOK, Locking, Alone, PlacesOK, PlaceOK
<1>8. \A x \in Slots : Reading(A2, W2, x) <=> Reading(A, W, x)
  BY DEF Reading, Moves
<1>9. \A x \in Slots : Linking(A2, W2, x) <=> Linking(A, W, x)
  BY DEF Linking, Moves
<1>10. One(T2)
  BY DEF Good, One
<1>11. CountsOK(T2, A2, W2, R2)
  <2>1. \A x \in Slots : Uses(A, W, R, t, x) <=> x = e
    BY <1>3 DEF Uses, Holding
  <2>2. \A x \in Slots : Uses(A2, W2, R2, t, x) <=> x = s
    BY <1>3 DEF Uses, Holding
  <2>3. \A x \in Slots : T[x].i_count \in Nat
    BY <1>1 DEF Inode
  <2>4. CountsOK(T, A, W, R)
    BY DEF Good
  <2>5. \A x \in Slots : T2[x].i_count =
           (T[x].i_count - (IF Uses(A, W, R, t, x) THEN 1 ELSE 0))
             + IF Uses(A2, W2, R2, t, x) THEN 1 ELSE 0
    BY <1>7, <2>1, <2>2, <2>3
  <2>6. \A u \in Tasks \ {t} : A2[u] = A[u] /\ W2[u] = W[u] /\ R2[u] = R[u]
    BY DEF Moves
  <2>7. QED
    BY ONLY <1>1, <2>4, <2>5, <2>6, Recount
<1>12. BitsOK(T2, M, N)
  BY DEF Good, BitsOK
<1>13. LocksOK(T2, A2, W2)
  BY DEF Good, LocksOK, Moves, Locking
<1>14. IdleOK(T2)
  BY <1>5 DEF Good, IdleOK
<1>15. PlacesOK(T2, N, A2, W2, R2)
  <2> SUFFICES ASSUME NEW u \in Tasks PROVE PlaceOK(T2, N, A2, W2, R2, u)
    BY DEF PlacesOK
  <2>1. PlaceOK(T, N, A, W, R, u)
    BY DEF Good, PlacesOK
  <2>2. R[u] \in Slots \cup {NoSlot}
    BY <1>1 DEF TasksTyped
  <2>3. CASE u = t
    BY <1>3, <2>3 DEF PlaceOK
  <2>4. CASE u # t
    <3>1. A2[u] = A[u] /\ W2[u] = W[u] /\ R2[u] = R[u]
      BY <2>4 DEF Moves
    <3>2. /\ R[u] # e
          /\ A[u] \in Holding => W[u].slot # e
          /\ A[u] = "found" => W[u].empty \notin {s, e}
          /\ A[u] \in Alone => W[u].slot # s
      BY <1>4, <1>7, <2>4 DEF Uses
    <3>3. /\ A[u] \in Holding => W[u].slot \in Slots /\ T[W[u].slot].i_num # 0
          /\ A[u] = "found" => W[u].empty \in Slots /\ T[W[u].empty].i_num = 0
          /\ R[u] # NoSlot => T[R[u]].i_num # 0
      BY <2>1 DEF PlaceOK
    <3>4. R[u] # NoSlot => T2[R[u]].i_num # 0
      BY <1>3, <2>2, <3>2, <3>3, ZenonT(60)
    <3>5. A[u] \in Holding => W[u].slot \in Slots /\ T2[W[u].slot].i_num # 0
      BY <1>3, <3>2, <3>3, ZenonT(60)
    <3>6. A[u] = "found" => W[u].empty \in Slots /\ T2[W[u].empty].i_num = 0
      BY <3>2, <3>3
    <3>7. A[u] \in Alone => A[u] \in Holding /\ T2[W[u].slot] = T[W[u].slot]
      BY <3>2, <3>3 DEF Alone, Holding
    <3>8. QED
      BY <2>1, <3>1, <3>4, <3>5, <3>6, <3>7 DEF PlaceOK, Alone
  <2>5. QED
    BY <2>3, <2>4
<1>16. AloneOK(A2, W2, R2)
  BY <1>7 DEF Good, AloneOK, Moves, Uses, Alone
<1>17. DataOK(T2, D, N, A2, W2, L)
  BY <1>3, <1>8, <1>9 DEF Good, DataOK
<1>18. DiskOK(T2, D, N, A2, W2, L)
  BY <1>8 DEF Good, DiskOK
<1>19. OrphansOK(T2, M, N)
  <2> SUFFICES ASSUME NEW m \in M \ N
               PROVE  \E x \in Slots : T2[x].i_num = m /\ T2[x].i_count # 0
    BY DEF OrphansOK
  <2>1. PICK x \in Slots : T[x].i_num = m /\ T[x].i_count # 0
    BY DEF Good, OrphansOK
  <2>2. m # 0
    BY <1>1 DEF Typed
  <2>3. QED
    BY <1>3, <2>1, <2>2
<1>20. QED
  BY <1>1, <1>10, <1>11, <1>12, <1>13, <1>14, <1>15, <1>16, <1>17, <1>18, <1>19 DEF Good

(* new_inode makes inode n in its empty slot.                              *)
LEMMA CreateStep ==
  ASSUME NEW T, NEW D, NEW M, NEW N, NEW A, NEW W, NEW R, NEW L,
         NEW A2, NEW W2, NEW R2, NEW t \in Tasks, NEW T2, NEW M2, NEW L2, NEW s \in Slots,
            NEW n \in Nums,
         Good(T, D, M, N, A, W, R, L), Moves(t, A, W, R, A2, W2, R2), Alters(s, T, T2),
         A[t] = "found", W[t].empty = s, n \notin M,
         A2[t] = "link", R2[t] = R[t], W2[t].slot = s,
         T2[s].i_num = n, T2[s].i_count = T[s].i_count, ~ T2[s].i_lock, T2[s].i_dirt,
         T2[s].d.i_nlinks = 1, T2[s].d.ver = 0,
         M2 = M \cup {n}, L2 \in [Nums -> 0 .. 1], L2[n] = 0, \A m \in Nums \ {n} : L2[m] = L[m]
  PROVE  Good(T2, D, M2, N, A2, W2, R2, L2)
<1> USE Basics
<1>1. T \in [Slots -> Inode] /\ T2 \in [Slots -> Inode] /\ TasksTyped(A, W, R)
      /\ TasksTyped(A2, W2, R2) /\ Typed(D, M, N, L)
  BY DEF Good, Moves, Alters
<1>2. PlaceOK(T, N, A, W, R, t)
  BY DEF Good, PlacesOK
<1>3. R[t] = NoSlot /\ T[s].i_num = 0
  BY <1>1, <1>2 DEF PlaceOK
<1>4. \A u \in Tasks \ {t} : ~ Uses(A, W, R, u, s)
  BY DEF Good, AloneOK
<1>5. T[s].i_count # 0 /\ T[s].i_count \in Nat
  BY FewUsers DEF Good, Uses, Inode
<1>6. ~ T[s].i_lock
  BY <1>3 DEF Good, IdleOK
<1>7. n \notin N /\ \A x \in Slots : T[x].i_num # n
  BY DEF Good, BitsOK
<1>8. \A m \in N : m # n /\ m # 0 /\ L2[m] = L[m]
  BY <1>1, <1>7 DEF Typed
<1>9. \A x \in Slots : Reading(A2, W2, x) <=> Reading(A, W, x)
  BY DEF Reading, Moves
<1>10. \A x \in Slots : Linking(A2, W2, x) <=> Linking(A, W, x) \/ x = s
  BY DEF Linking, Moves
<1>11. Typed(D, M2, N, L2)
  BY <1>1 DEF Typed
<1>12. One(T2)
  BY <1>7 DEF Good, One, Alters
<1>13. CountsOK(T2, A2, W2, R2)
  <2>1. \A x \in Slots : Uses(A, W, R, t, x) <=> x = s
    BY <1>3 DEF Uses, Holding
  <2>2. \A x \in Slots : Uses(A2, W2, R2, t, x) <=> x = s
    BY <1>3 DEF Uses, Holding
  <2>3. \A x \in Slots : T[x].i_count \in Nat
    BY <1>1 DEF Inode
  <2>4. CountsOK(T, A, W, R)
    BY DEF Good
  <2>5. \A x \in Slots : T2[x].i_count =
           (T[x].i_count - (IF Uses(A, W, R, t, x) THEN 1 ELSE 0))
             + IF Uses(A2, W2, R2, t, x) THEN 1 ELSE 0
    BY <2>1, <2>2, <2>3 DEF Alters
  <2>6. \A u \in Tasks \ {t} : A2[u] = A[u] /\ W2[u] = W[u] /\ R2[u] = R[u]
    BY DEF Moves
  <2>7. QED
    BY ONLY <1>1, <2>4, <2>5, <2>6, Recount
<1>14. BitsOK(T2, M2, N)
  BY DEF Good, BitsOK, Alters
<1>15. LocksOK(T2, A2, W2)
  BY <1>6 DEF Good, LocksOK, Alters, Moves, Locking
<1>16. IdleOK(T2)
  BY <1>5 DEF Good, IdleOK, Alters
<1>17. PlacesOK(T2, N, A2, W2, R2)
  <2> SUFFICES ASSUME NEW u \in Tasks PROVE PlaceOK(T2, N, A2, W2, R2, u)
    BY DEF PlacesOK
  <2>1. PlaceOK(T, N, A, W, R, u)
    BY DEF Good, PlacesOK
  <2>2. R[u] \in Slots \cup {NoSlot}
    BY <1>1 DEF TasksTyped
  <2>3. CASE u = t
    BY <1>8, <2>1, <2>3 DEF PlaceOK
  <2>4. CASE u # t
    <3>1. A2[u] = A[u] /\ W2[u] = W[u] /\ R2[u] = R[u]
      BY <2>4 DEF Moves
    <3>2. /\ R[u] # NoSlot => T2[R[u]] = T[R[u]]
          /\ A[u] \in Holding => T2[W[u].slot] = T[W[u].slot]
          /\ A[u] = "found" => T2[W[u].empty] = T[W[u].empty]
      BY <1>4, <2>1, <2>2, <2>4 DEF PlaceOK, Uses, Alters
    <3>3. QED
      BY <2>1, <3>1, <3>2 DEF PlaceOK, Holding
  <2>5. QED
    BY <2>3, <2>4
<1>18. AloneOK(A2, W2, R2)
  BY DEF Good, AloneOK, Moves, Uses
<1>19. DataOK(T2, D, N, A2, W2, L2)
  <2> SUFFICES ASSUME NEW x \in Slots, T2[x].i_num # 0, ~ Reading(A2, W2, x)
               PROVE  LET m == T2[x].i_num IN
                      /\ m \in N => T2[x].d.i_nlinks = 1
                      /\ T2[x].d.i_nlinks = 1 => T2[x].d.ver = L2[m]
                      /\ T2[x].d.i_nlinks = 1 /\ ~ T2[x].i_dirt => D[m] = T2[x].d
                      /\ T2[x].d.i_nlinks = 1 /\ m \notin N => Linking(A2, W2, x)
    BY DEF DataOK
  <2>1. CASE x = s
    BY <1>10, <2>1
  <2>2. CASE x # s
    <3>1. T2[x] = T[x] /\ T[x].i_num \in Nums \ {n}
      BY <1>7, <2>2 DEF Alters, Inode
    <3>2. LET m == T[x].i_num IN
          /\ m \in N => T[x].d.i_nlinks = 1
          /\ T[x].d.i_nlinks = 1 => T[x].d.ver = L[m]
          /\ T[x].d.i_nlinks = 1 /\ ~ T[x].i_dirt => D[m] = T[x].d
          /\ T[x].d.i_nlinks = 1 /\ m \notin N => Linking(A, W, x)
      BY <1>9, <3>1 DEF Good, DataOK
    <3>3. QED
      BY <1>10, <3>1, <3>2, ZenonT(60)
  <2>3. QED
    BY <2>1, <2>2
<1>20. DiskOK(T2, D, N, A2, W2, L2)
  BY <1>3, <1>8, <1>9 DEF Good, DiskOK, Alters
<1>21. OrphansOK(T2, M2, N)
  <2> SUFFICES ASSUME NEW m \in M2 \ N
               PROVE  \E x \in Slots : T2[x].i_num = m /\ T2[x].i_count # 0
    BY DEF OrphansOK
  <2>1. CASE m = n
    BY <1>5, <2>1
  <2>2. CASE m # n
    <3>1. PICK x \in Slots : T[x].i_num = m /\ T[x].i_count # 0
      BY <2>2 DEF Good, OrphansOK
    <3>2. m # 0
      BY <1>1 DEF Typed
    <3>3. QED
      BY <1>3, <3>1, <3>2 DEF Alters
  <2>3. QED
    BY <2>1, <2>2
<1>22. QED
  BY <1>1, <1>11, <1>12, <1>13, <1>14, <1>15, <1>16, <1>17, <1>18, <1>19, <1>20, <1>21 DEF
     Good

(* new_inode finds no free inode and gives the empty slot back.            *)
LEMMA GiveBackStep ==
  ASSUME NEW T, NEW D, NEW M, NEW N, NEW A, NEW W, NEW R, NEW L,
         NEW A2, NEW W2, NEW R2, NEW t \in Tasks, NEW T2, NEW s \in Slots,
         Good(T, D, M, N, A, W, R, L), Moves(t, A, W, R, A2, W2, R2), Alters(s, T, T2),
         A[t] = "found", W[t].empty = s,
         A2[t] = "user", R2[t] = R[t],
         T2[s].i_num = T[s].i_num, T2[s].i_count = T[s].i_count - 1,
         T2[s].i_lock = T[s].i_lock, T2[s].i_dirt = T[s].i_dirt
  PROVE  Good(T2, D, M, N, A2, W2, R2, L)
<1> USE Basics
<1>1. T \in [Slots -> Inode] /\ T2 \in [Slots -> Inode] /\ TasksTyped(A, W, R)
      /\ TasksTyped(A2, W2, R2) /\ Typed(D, M, N, L)
  BY DEF Good, Moves, Alters
<1>2. PlaceOK(T, N, A, W, R, t)
  BY DEF Good, PlacesOK
<1>3. R[t] = NoSlot /\ T[s].i_num = 0
  BY <1>1, <1>2 DEF PlaceOK
<1>4. \A u \in Tasks \ {t} : ~ Uses(A, W, R, u, s)
  BY DEF Good, AloneOK
<1>5. ~ T[s].i_lock /\ ~ T[s].i_dirt /\ T[s].i_count \in Nat
  BY <1>3 DEF Good, IdleOK, Inode
<1>6. \A x \in Slots : Reading(A2, W2, x) <=> Reading(A, W, x)
  BY DEF Reading, Moves
<1>7. \A x \in Slots : Linking(A2, W2, x) <=> Linking(A, W, x)
  BY DEF Linking, Moves
<1>8. One(T2)
  BY DEF Good, One, Alters
<1>9. CountsOK(T2, A2, W2, R2)
  <2>1. \A x \in Slots : Uses(A, W, R, t, x) <=> x = s
    BY <1>3 DEF Uses, Holding
  <2>2. \A x \in Slots : Uses(A2, W2, R2, t, x) <=> FALSE
    BY <1>3 DEF Uses, Holding
  <2>3. \A x \in Slots : T[x].i_count \in Nat
    BY <1>1 DEF Inode
  <2>4. CountsOK(T, A, W, R)
    BY DEF Good
  <2>5. \A x \in Slots : T2[x].i_count =
           (T[x].i_count - (IF Uses(A, W, R, t, x) THEN 1 ELSE 0))
             + IF Uses(A2, W2, R2, t, x) THEN 1 ELSE 0
    BY <2>1, <2>2, <2>3 DEF Alters
  <2>6. \A u \in Tasks \ {t} : A2[u] = A[u] /\ W2[u] = W[u] /\ R2[u] = R[u]
    BY DEF Moves
  <2>7. QED
    BY ONLY <1>1, <2>4, <2>5, <2>6, Recount
<1>10. BitsOK(T2, M, N)
  BY DEF Good, BitsOK, Alters
<1>11. LocksOK(T2, A2, W2)
  BY DEF Good, LocksOK, Alters, Moves, Locking
<1>12. IdleOK(T2)
  BY <1>5 DEF Good, IdleOK, Alters
<1>13. PlacesOK(T2, N, A2, W2, R2)
  <2> SUFFICES ASSUME NEW u \in Tasks PROVE PlaceOK(T2, N, A2, W2, R2, u)
    BY DEF PlacesOK
  <2>1. PlaceOK(T, N, A, W, R, u)
    BY DEF Good, PlacesOK
  <2>2. R[u] \in Slots \cup {NoSlot}
    BY <1>1 DEF TasksTyped
  <2>3. CASE u = t
    BY <2>1, <2>3 DEF PlaceOK, Holding
  <2>4. CASE u # t
    <3>1. A2[u] = A[u] /\ W2[u] = W[u] /\ R2[u] = R[u]
      BY <2>4 DEF Moves
    <3>2. /\ R[u] # NoSlot => T2[R[u]] = T[R[u]]
          /\ A[u] \in Holding => T2[W[u].slot] = T[W[u].slot]
          /\ A[u] = "found" => T2[W[u].empty] = T[W[u].empty]
      BY <1>4, <2>1, <2>2, <2>4 DEF PlaceOK, Uses, Alters
    <3>3. QED
      BY <2>1, <3>1, <3>2 DEF PlaceOK, Holding
  <2>5. QED
    BY <2>3, <2>4
<1>14. AloneOK(A2, W2, R2)
  BY DEF Good, AloneOK, Moves, Uses, Holding, Alone
<1>15. DataOK(T2, D, N, A2, W2, L)
  BY <1>3, <1>6, <1>7 DEF Good, DataOK, Alters
<1>16. DiskOK(T2, D, N, A2, W2, L)
  BY <1>6 DEF Good, DiskOK, Alters
<1>17. OrphansOK(T2, M, N)
  <2> SUFFICES ASSUME NEW m \in M \ N
               PROVE  \E x \in Slots : T2[x].i_num = m /\ T2[x].i_count # 0
    BY DEF OrphansOK
  <2>1. PICK x \in Slots : T[x].i_num = m /\ T[x].i_count # 0
    BY DEF Good, OrphansOK
  <2>2. m # 0
    BY <1>1 DEF Typed
  <2>3. QED
    BY <1>3, <2>1, <2>2 DEF Alters
<1>18. QED
  BY <1>1, <1>8, <1>9, <1>10, <1>11, <1>12, <1>13, <1>14, <1>15, <1>16, <1>17 DEF Good

(* The end of read_inode                                                   *)
LEMMA ReadEndStep ==
  ASSUME NEW T, NEW D, NEW M, NEW N, NEW A, NEW W, NEW R, NEW L,
         NEW A2, NEW W2, NEW R2, NEW t \in Tasks, NEW T2, NEW s \in Slots,
         Good(T, D, M, N, A, W, R, L), Moves(t, A, W, R, A2, W2, R2), Alters(s, T, T2),
         A[t] = "read", W[t].slot = s,
         A2[t] = "put", R2[t] = R[t], W2[t].slot = s,
         T2[s].i_num = T[s].i_num, T2[s].i_count = T[s].i_count, ~ T2[s].i_lock,
         T2[s].i_dirt = T[s].i_dirt, T2[s].d = D[T[s].i_num]
  PROVE  Good(T2, D, M, N, A2, W2, R2, L)
<1> USE Basics
<1>1. T \in [Slots -> Inode] /\ T2 \in [Slots -> Inode] /\ TasksTyped(A, W, R)
      /\ TasksTyped(A2, W2, R2) /\ Typed(D, M, N, L)
  BY DEF Good, Moves, Alters
<1>2. PlaceOK(T, N, A, W, R, t)
  BY DEF Good, PlacesOK
<1>3. R[t] = NoSlot /\ T[s].i_num \in N /\ T[s].i_num # 0
  BY <1>1, <1>2 DEF PlaceOK, Typed
<1>4. \A u \in Tasks \ {t} : ~ Uses(A, W, R, u, s)
  BY DEF Good, AloneOK, Alone
<1>6. Reading(A, W, s) /\ \A x \in Slots : T[x].i_num = T[s].i_num => x = s
  BY <1>3 DEF Reading, Good, One
<1>7. D[T[s].i_num].i_nlinks = 1 /\ D[T[s].i_num].ver = L[T[s].i_num]
  BY <1>3, <1>6 DEF Good, DiskOK
<1>8. \A x \in Slots : Reading(A2, W2, x) <=> Reading(A, W, x) /\ x # s
  BY <1>4 DEF Reading, Moves, Uses, Holding
<1>9. \A x \in Slots : Linking(A2, W2, x) <=> Linking(A, W, x)
  BY DEF Linking, Moves
<1>10. One(T2)
  BY DEF Good, One, Alters
<1>11. CountsOK(T2, A2, W2, R2)
  <2>1. \A x \in Slots : Uses(A, W, R, t, x) <=> x = s
    BY <1>3 DEF Uses, Holding
  <2>2. \A x \in Slots : Uses(A2, W2, R2, t, x) <=> x = s
    BY <1>3 DEF Uses, Holding
  <2>3. \A x \in Slots : T[x].i_count \in Nat
    BY <1>1 DEF Inode
  <2>4. CountsOK(T, A, W, R)
    BY DEF Good
  <2>5. \A x \in Slots : T2[x].i_count =
           (T[x].i_count - (IF Uses(A, W, R, t, x) THEN 1 ELSE 0))
             + IF Uses(A2, W2, R2, t, x) THEN 1 ELSE 0
    BY <2>1, <2>2, <2>3 DEF Alters
  <2>6. \A u \in Tasks \ {t} : A2[u] = A[u] /\ W2[u] = W[u] /\ R2[u] = R[u]
    BY DEF Moves
  <2>7. QED
    BY ONLY <1>1, <2>4, <2>5, <2>6, Recount
<1>12. BitsOK(T2, M, N)
  BY DEF Good, BitsOK, Alters
<1>13. LocksOK(T2, A2, W2)
  BY DEF Good, LocksOK, Alters, Moves, Locking
<1>14. IdleOK(T2)
  BY DEF Good, IdleOK, Alters
<1>15. PlacesOK(T2, N, A2, W2, R2)
  <2> SUFFICES ASSUME NEW u \in Tasks PROVE PlaceOK(T2, N, A2, W2, R2, u)
    BY DEF PlacesOK
  <2>1. PlaceOK(T, N, A, W, R, u)
    BY DEF Good, PlacesOK
  <2>2. R[u] \in Slots \cup {NoSlot}
    BY <1>1 DEF TasksTyped
  <2>3. CASE u = t
    BY <2>1, <2>3 DEF PlaceOK, Holding
  <2>4. CASE u # t
    <3>1. A2[u] = A[u] /\ W2[u] = W[u] /\ R2[u] = R[u]
      BY <2>4 DEF Moves
    <3>2. /\ R[u] # NoSlot => T2[R[u]] = T[R[u]]
          /\ A[u] \in Holding => T2[W[u].slot] = T[W[u].slot]
          /\ A[u] = "found" => T2[W[u].empty] = T[W[u].empty]
      BY <1>4, <2>1, <2>2, <2>4 DEF PlaceOK, Uses, Alters
    <3>3. QED
      BY <2>1, <3>1, <3>2 DEF PlaceOK, Holding
  <2>5. QED
    BY <2>3, <2>4
<1>16. AloneOK(A2, W2, R2)
  BY DEF Good, AloneOK, Moves, Uses, Holding, Alone
<1>17. DataOK(T2, D, N, A2, W2, L)
  BY <1>1, <1>3, <1>7, <1>8, <1>9 DEF Good, DataOK, Alters
<1>18. DiskOK(T2, D, N, A2, W2, L)
  BY <1>8 DEF Good, DiskOK, Alters
<1>19. OrphansOK(T2, M, N)
  <2> SUFFICES ASSUME NEW m \in M \ N
               PROVE  \E x \in Slots : T2[x].i_num = m /\ T2[x].i_count # 0
    BY DEF OrphansOK
  <2>1. PICK x \in Slots : T[x].i_num = m /\ T[x].i_count # 0
    BY DEF Good, OrphansOK
  <2>3. QED
    BY <2>1 DEF Alters
<1>20. QED
  BY <1>1, <1>10, <1>11, <1>12, <1>13, <1>14, <1>15, <1>16, <1>17, <1>18, <1>19 DEF Good

(* open has its inode.                                                     *)
LEMMA OpenStep ==
  ASSUME NEW T, NEW D, NEW M, NEW N, NEW A, NEW W, NEW R, NEW L,
         NEW A2, NEW W2, NEW R2, NEW t \in Tasks, NEW s \in Slots,
         Good(T, D, M, N, A, W, R, L), Moves(t, A, W, R, A2, W2, R2),
         A[t] = "put", W[t].slot = s,
         A2[t] = "user", R2[t] = s
  PROVE  Good(T, D, M, N, A2, W2, R2, L)
<1> USE Basics
<1>1. T \in [Slots -> Inode] /\ TasksTyped(A, W, R)
      /\ TasksTyped(A2, W2, R2) /\ Typed(D, M, N, L)
  BY DEF Good, Moves
<1>2. PlaceOK(T, N, A, W, R, t)
  BY DEF Good, PlacesOK
<1>3. R[t] = NoSlot /\ T[s].i_num # 0
  BY <1>2 DEF PlaceOK, Holding
<1>4. \A x \in Slots : Reading(A2, W2, x) <=> Reading(A, W, x)
  BY DEF Reading, Moves
<1>5. \A x \in Slots : Linking(A2, W2, x) <=> Linking(A, W, x)
  BY DEF Linking, Moves
<1>7. CountsOK(T, A2, W2, R2)
  <2>1. \A x \in Slots : Uses(A, W, R, t, x) <=> x = s
    BY <1>3 DEF Uses, Holding
  <2>2. \A x \in Slots : Uses(A2, W2, R2, t, x) <=> x = s
    BY DEF Uses, Holding
  <2>3. \A x \in Slots : T[x].i_count \in Nat
    BY <1>1 DEF Inode
  <2>4. CountsOK(T, A, W, R)
    BY DEF Good
  <2>5. \A x \in Slots : T[x].i_count =
           (T[x].i_count - (IF Uses(A, W, R, t, x) THEN 1 ELSE 0))
             + IF Uses(A2, W2, R2, t, x) THEN 1 ELSE 0
    BY <2>1, <2>2, <2>3
  <2>6. \A u \in Tasks \ {t} : A2[u] = A[u] /\ W2[u] = W[u] /\ R2[u] = R[u]
    BY DEF Moves
  <2>7. QED
    BY ONLY <1>1, <2>4, <2>5, <2>6, Recount
<1>9. LocksOK(T, A2, W2)
  BY DEF Good, LocksOK, Moves, Locking
<1>11. PlacesOK(T, N, A2, W2, R2)
  <2> SUFFICES ASSUME NEW u \in Tasks PROVE PlaceOK(T, N, A2, W2, R2, u)
    BY DEF PlacesOK
  <2>1. PlaceOK(T, N, A, W, R, u)
    BY DEF Good, PlacesOK
  <2>3. CASE u = t
    BY <2>1, <2>3 DEF PlaceOK, Holding
  <2>4. CASE u # t
    <3>1. A2[u] = A[u] /\ W2[u] = W[u] /\ R2[u] = R[u]
      BY <2>4 DEF Moves
    <3>2. QED
      BY <2>1, <3>1 DEF PlaceOK
  <2>5. QED
    BY <2>3, <2>4
<1>12. AloneOK(A2, W2, R2)
  BY DEF Good, AloneOK, Moves, Uses, Holding, Alone
<1>13. DataOK(T, D, N, A2, W2, L)
  BY <1>4, <1>5 DEF Good, DataOK
<1>14. DiskOK(T, D, N, A2, W2, L)
  BY <1>4 DEF Good, DiskOK
<1>16. QED
  BY <1>1, <1>7, <1>9, <1>11, <1>12, <1>13, <1>14 DEF Good

(* sys_unlink takes the name and the link of the inode it has got.         *)
LEMMA UnlinkStep ==
  ASSUME NEW T, NEW D, NEW M, NEW N, NEW A, NEW W, NEW R, NEW L,
         NEW A2, NEW W2, NEW R2, NEW t \in Tasks, NEW T2, NEW N2, NEW s \in Slots,
         Good(T, D, M, N, A, W, R, L), Moves(t, A, W, R, A2, W2, R2), Alters(s, T, T2),
         A[t] = "put", W[t].slot = s,
         A2[t] = "put", R2[t] = R[t], W2[t].slot = s,
         T2[s].i_num = T[s].i_num, T2[s].i_count = T[s].i_count, T2[s].i_lock = T[s].i_lock,
         T2[s].i_dirt, T2[s].d.i_nlinks = 0,
         N2 = N \ {T[s].i_num}
  PROVE  Good(T2, D, M, N2, A2, W2, R2, L)
<1> USE Basics
<1>1. T \in [Slots -> Inode] /\ T2 \in [Slots -> Inode] /\ TasksTyped(A, W, R)
      /\ TasksTyped(A2, W2, R2) /\ Typed(D, M, N, L)
  BY DEF Good, Moves, Alters
<1>2. PlaceOK(T, N, A, W, R, t)
  BY DEF Good, PlacesOK
<1>3. R[t] = NoSlot /\ T[s].i_num # 0
  BY <1>2 DEF PlaceOK, Holding
<1>4. T[s].i_count # 0 /\ T[s].i_count \in Nat
  BY FewUsers DEF Good, Uses, Inode, Holding
<1>5. \A u \in Tasks \ {t} : A[u] \in Alone => W[u].slot # s
  BY DEF Good, AloneOK, Uses, Holding
<1>7. \A x \in Slots : T[x].i_num = T[s].i_num => x = s
  BY <1>3 DEF Good, One
<1>9. \A x \in Slots : Reading(A2, W2, x) <=> Reading(A, W, x)
  BY DEF Reading, Moves
<1>10. \A x \in Slots : Linking(A2, W2, x) <=> Linking(A, W, x)
  BY DEF Linking, Moves
<1>11. Typed(D, M, N2, L)
  BY <1>1 DEF Typed
<1>12. One(T2)
  BY DEF Good, One, Alters
<1>13. CountsOK(T2, A2, W2, R2)
  <2>1. \A x \in Slots : Uses(A, W, R, t, x) <=> x = s
    BY <1>3 DEF Uses, Holding
  <2>2. \A x \in Slots : Uses(A2, W2, R2, t, x) <=> x = s
    BY <1>3 DEF Uses, Holding
  <2>3. \A x \in Slots : T[x].i_count \in Nat
    BY <1>1 DEF Inode
  <2>4. CountsOK(T, A, W, R)
    BY DEF Good
  <2>5. \A x \in Slots : T2[x].i_count =
           (T[x].i_count - (IF Uses(A, W, R, t, x) THEN 1 ELSE 0))
             + IF Uses(A2, W2, R2, t, x) THEN 1 ELSE 0
    BY <2>1, <2>2, <2>3 DEF Alters
  <2>6. \A u \in Tasks \ {t} : A2[u] = A[u] /\ W2[u] = W[u] /\ R2[u] = R[u]
    BY DEF Moves
  <2>7. QED
    BY ONLY <1>1, <2>4, <2>5, <2>6, Recount
<1>14. BitsOK(T2, M, N2)
  BY DEF Good, BitsOK, Alters
<1>15. LocksOK(T2, A2, W2)
  BY DEF Good, LocksOK, Alters, Moves
<1>16. IdleOK(T2)
  BY <1>3, <1>4 DEF Good, IdleOK, Alters
<1>17. PlacesOK(T2, N2, A2, W2, R2)
  <2> SUFFICES ASSUME NEW u \in Tasks PROVE PlaceOK(T2, N2, A2, W2, R2, u)
    BY DEF PlacesOK
  <2>1. PlaceOK(T, N, A, W, R, u)
    BY DEF Good, PlacesOK
  <2>2. R[u] \in Slots \cup {NoSlot}
    BY <1>1 DEF TasksTyped
  <2>3. CASE u = t
    BY <2>1, <2>3 DEF PlaceOK
  <2>4. CASE u # t
    <3>1. A2[u] = A[u] /\ W2[u] = W[u] /\ R2[u] = R[u]
      BY <2>4 DEF Moves
    <3>2. \A x \in Slots : T2[x].i_num = T[x].i_num
      BY DEF Alters
    <3>3. A[u] \in Alone => /\ T2[W[u].slot] = T[W[u].slot]
                           /\ T[W[u].slot].i_num # T[s].i_num
      BY <1>5, <1>7, <2>1 DEF Alters, PlaceOK, Alone, Holding
    <3>4. R[u] # NoSlot => T2[R[u]].i_num # 0
      BY <2>1, <2>2, <3>2 DEF PlaceOK
    <3>5. A[u] \in Holding => W[u].slot \in Slots /\ T2[W[u].slot].i_num # 0
      BY <2>1, <3>2 DEF PlaceOK
    <3>6. A[u] = "found" => W[u].empty \in Slots /\ T2[W[u].empty].i_num = 0
      BY <2>1, <3>2 DEF PlaceOK
    <3>7. A[u] = "read" => T2[W[u].slot].i_num \in N2
      BY <2>1, <3>2, <3>3 DEF PlaceOK, Alone
    <3>8. A[u] \in {"trunc", "link"} => T2[W[u].slot] = T[W[u].slot]
      BY <3>3 DEF Alone
    <3>9. QED
      BY <2>1, <3>1, <3>4, <3>5, <3>6, <3>7, <3>8 DEF PlaceOK
  <2>5. QED
    BY <2>3, <2>4
<1>18. AloneOK(A2, W2, R2)
  BY DEF Good, AloneOK, Moves, Uses
<1>19. DataOK(T2, D, N2, A2, W2, L)
  BY <1>7, <1>9, <1>10 DEF Good, DataOK, Alters
<1>20. DiskOK(T2, D, N2, A2, W2, L)
  BY <1>9 DEF Good, DiskOK, Alters
<1>21. OrphansOK(T2, M, N2)
  <2> SUFFICES ASSUME NEW m \in M \ N2
               PROVE  \E x \in Slots : T2[x].i_num = m /\ T2[x].i_count # 0
    BY DEF OrphansOK
  <2>1. CASE m = T[s].i_num
    BY <1>4, <2>1
  <2>2. CASE m # T[s].i_num
    <3>1. PICK x \in Slots : T[x].i_num = m /\ T[x].i_count # 0
      BY <2>2 DEF Good, OrphansOK
    <3>2. QED
      BY <3>1 DEF Alters
  <2>3. QED
    BY <2>1, <2>2
<1>22. QED
  BY <1>1, <1>11, <1>12, <1>13, <1>14, <1>15, <1>16, <1>17, <1>18, <1>19, <1>20, <1>21 DEF
     Good

(* iput counts t off: others use the inode, or it is on the disk.          *)
LEMMA DropStep ==
  ASSUME NEW T, NEW D, NEW M, NEW N, NEW A, NEW W, NEW R, NEW L,
         NEW A2, NEW W2, NEW R2, NEW t \in Tasks, NEW T2, NEW s \in Slots,
         Good(T, D, M, N, A, W, R, L), Moves(t, A, W, R, A2, W2, R2), Alters(s, T, T2),
         A[t] = "put", W[t].slot = s,
         A2[t] = "user", R2[t] = R[t],
         T2[s].i_num = T[s].i_num, T2[s].i_count = T[s].i_count - 1, T2[s].i_lock = T[s].i_lock,
         T2[s].i_dirt = T[s].i_dirt, T2[s].d = T[s].d,
         T[s].i_count > 1 \/ (T[s].d.i_nlinks = 1 /\ ~ T[s].i_dirt /\ ~ T[s].i_lock)
  PROVE  Good(T2, D, M, N, A2, W2, R2, L)
<1> USE Basics
<1>1. T \in [Slots -> Inode] /\ T2 \in [Slots -> Inode] /\ TasksTyped(A, W, R)
      /\ TasksTyped(A2, W2, R2) /\ Typed(D, M, N, L)
  BY DEF Good, Moves, Alters
<1>2. PlaceOK(T, N, A, W, R, t)
  BY DEF Good, PlacesOK
<1>3. R[t] = NoSlot /\ T[s].i_num # 0
  BY <1>2 DEF PlaceOK, Holding
<1>4. T[s].i_count # 0 /\ T[s].i_count \in Nat
  BY FewUsers DEF Good, Uses, Inode, Holding
<1>5. \A u \in Tasks \ {t} : A[u] \in Alone => W[u].slot # s
  BY DEF Good, AloneOK, Uses, Holding
<1>7. ~ Reading(A, W, s)
  BY <1>5 DEF Reading, Alone
<1>8. T[s].i_count > 1 \/ T[s].i_num \in N
  BY <1>3, <1>5, <1>7 DEF Good, DataOK, Linking, Alone
<1>9. \A x \in Slots : Reading(A2, W2, x) <=> Reading(A, W, x)
  BY DEF Reading, Moves
<1>10. \A x \in Slots : Linking(A2, W2, x) <=> Linking(A, W, x)
  BY DEF Linking, Moves
<1>11. One(T2)
  BY DEF Good, One, Alters
<1>12. CountsOK(T2, A2, W2, R2)
  <2>1. \A x \in Slots : Uses(A, W, R, t, x) <=> x = s
    BY <1>3 DEF Uses, Holding
  <2>2. \A x \in Slots : Uses(A2, W2, R2, t, x) <=> FALSE
    BY <1>3 DEF Uses, Holding
  <2>3. \A x \in Slots : T[x].i_count \in Nat
    BY <1>1 DEF Inode
  <2>4. CountsOK(T, A, W, R)
    BY DEF Good
  <2>5. \A x \in Slots : T2[x].i_count =
           (T[x].i_count - (IF Uses(A, W, R, t, x) THEN 1 ELSE 0))
             + IF Uses(A2, W2, R2, t, x) THEN 1 ELSE 0
    BY <2>1, <2>2, <2>3 DEF Alters
  <2>6. \A u \in Tasks \ {t} : A2[u] = A[u] /\ W2[u] = W[u] /\ R2[u] = R[u]
    BY DEF Moves
  <2>7. QED
    BY ONLY <1>1, <2>4, <2>5, <2>6, Recount
<1>13. BitsOK(T2, M, N)
  BY DEF Good, BitsOK, Alters
<1>14. LocksOK(T2, A2, W2)
  BY DEF Good, LocksOK, Alters, Moves, Locking
<1>15. IdleOK(T2)
  BY <1>4 DEF Good, IdleOK, Alters
<1>16. PlacesOK(T2, N, A2, W2, R2)
  <2> SUFFICES ASSUME NEW u \in Tasks PROVE PlaceOK(T2, N, A2, W2, R2, u)
    BY DEF PlacesOK
  <2>1. PlaceOK(T, N, A, W, R, u)
    BY DEF Good, PlacesOK
  <2>2. R[u] \in Slots \cup {NoSlot}
    BY <1>1 DEF TasksTyped
  <2>6. \A x \in Slots : T2[x].i_num = T[x].i_num /\ T2[x].d.i_nlinks = T[x].d.i_nlinks
    BY DEF Alters
  <2>3. CASE u = t
    BY <2>1, <2>3 DEF PlaceOK, Holding
  <2>4. CASE u # t
    <3>1. A2[u] = A[u] /\ W2[u] = W[u] /\ R2[u] = R[u]
      BY <2>4 DEF Moves
    <3>2. QED
      BY ONLY <2>1, <2>2, <2>6, <3>1, PlaceSame
  <2>5. QED
    BY <2>3, <2>4
<1>17. AloneOK(A2, W2, R2)
  BY DEF Good, AloneOK, Moves, Uses, Holding, Alone
<1>18. DataOK(T2, D, N, A2, W2, L)
  BY <1>9, <1>10 DEF Good, DataOK, Alters
<1>19. DiskOK(T2, D, N, A2, W2, L)
  BY <1>9 DEF Good, DiskOK, Alters
<1>20. OrphansOK(T2, M, N)
  <2> SUFFICES ASSUME NEW m \in M \ N
               PROVE  \E x \in Slots : T2[x].i_num = m /\ T2[x].i_count # 0
    BY DEF OrphansOK
  <2>1. PICK x \in Slots : T[x].i_num = m /\ T[x].i_count # 0
    BY DEF Good, OrphansOK
  <2>3. QED
    BY <1>4, <1>8, <2>1 DEF Alters
<1>21. QED
  BY <1>1, <1>11, <1>12, <1>13, <1>14, <1>15, <1>16, <1>17, <1>18, <1>19, <1>20 DEF Good

(* The last user of an inode without links truncates it.                   *)
LEMMA TruncStep ==
  ASSUME NEW T, NEW D, NEW M, NEW N, NEW A, NEW W, NEW R, NEW L,
         NEW A2, NEW W2, NEW R2, NEW t \in Tasks, NEW s \in Slots,
         Good(T, D, M, N, A, W, R, L), Moves(t, A, W, R, A2, W2, R2),
         A[t] = "put", W[t].slot = s,
         A2[t] = "trunc", R2[t] = R[t], W2[t].slot = s,
         T[s].d.i_nlinks = 0, T[s].i_count = 1
  PROVE  Good(T, D, M, N, A2, W2, R2, L)
<1> USE Basics
<1>1. T \in [Slots -> Inode] /\ TasksTyped(A, W, R)
      /\ TasksTyped(A2, W2, R2) /\ Typed(D, M, N, L)
  BY DEF Good, Moves
<1>2. PlaceOK(T, N, A, W, R, t)
  BY DEF Good, PlacesOK
<1>3. R[t] = NoSlot /\ T[s].i_num # 0
  BY <1>2 DEF PlaceOK, Holding
<1>4. \A u \in Tasks \ {t} : ~ Uses(A, W, R, u, s)
  BY FewUsers DEF Good, Uses, Holding
<1>5. \A x \in Slots : Reading(A2, W2, x) <=> Reading(A, W, x)
  BY DEF Reading, Moves
<1>6. \A x \in Slots : Linking(A2, W2, x) <=> Linking(A, W, x)
  BY DEF Linking, Moves
<1>8. CountsOK(T, A2, W2, R2)
  <2>1. \A x \in Slots : Uses(A, W, R, t, x) <=> x = s
    BY <1>3 DEF Uses, Holding
  <2>2. \A x \in Slots : Uses(A2, W2, R2, t, x) <=> x = s
    BY <1>3 DEF Uses, Holding
  <2>3. \A x \in Slots : T[x].i_count \in Nat
    BY <1>1 DEF Inode
  <2>4. CountsOK(T, A, W, R)
    BY DEF Good
  <2>5. \A x \in Slots : T[x].i_count =
           (T[x].i_count - (IF Uses(A, W, R, t, x) THEN 1 ELSE 0))
             + IF Uses(A2, W2, R2, t, x) THEN 1 ELSE 0
    BY <2>1, <2>2, <2>3
  <2>6. \A u \in Tasks \ {t} : A2[u] = A[u] /\ W2[u] = W[u] /\ R2[u] = R[u]
    BY DEF Moves
  <2>7. QED
    BY ONLY <1>1, <2>4, <2>5, <2>6, Recount
<1>10. LocksOK(T, A2, W2)
  BY DEF Good, LocksOK, Moves, Locking
<1>12. PlacesOK(T, N, A2, W2, R2)
  <2> SUFFICES ASSUME NEW u \in Tasks PROVE PlaceOK(T, N, A2, W2, R2, u)
    BY DEF PlacesOK
  <2>1. PlaceOK(T, N, A, W, R, u)
    BY DEF Good, PlacesOK
  <2>3. CASE u = t
    BY <2>1, <2>3 DEF PlaceOK, Holding
  <2>4. CASE u # t
    <3>1. A2[u] = A[u] /\ W2[u] = W[u] /\ R2[u] = R[u]
      BY <2>4 DEF Moves
    <3>2. QED
      BY <2>1, <3>1 DEF PlaceOK
  <2>5. QED
    BY <2>3, <2>4
<1>13. AloneOK(A2, W2, R2)
  BY <1>4 DEF Good, AloneOK, Moves, Uses, Holding
<1>14. DataOK(T, D, N, A2, W2, L)
  BY <1>5, <1>6 DEF Good, DataOK
<1>15. DiskOK(T, D, N, A2, W2, L)
  BY <1>5 DEF Good, DiskOK
<1>17. QED
  BY <1>1, <1>8, <1>10, <1>12, <1>13, <1>14, <1>15 DEF Good

(* The last user of a dirty inode writes it.                               *)
LEMMA PutWriteStep ==
  ASSUME NEW T, NEW D, NEW M, NEW N, NEW A, NEW W, NEW R, NEW L,
         NEW A2, NEW W2, NEW R2, NEW t \in Tasks, NEW T2, NEW s \in Slots,
         Good(T, D, M, N, A, W, R, L), Moves(t, A, W, R, A2, W2, R2), Alters(s, T, T2),
         A[t] = "put", W[t].slot = s,
         A2[t] = "putwrite", R2[t] = R[t], W2[t].slot = s,
         ~ T[s].i_lock, T[s].i_count = 1,
         T2[s].i_num = T[s].i_num, T2[s].i_count = T[s].i_count, T2[s].i_lock,
         T2[s].i_dirt = T[s].i_dirt, T2[s].d = T[s].d
  PROVE  Good(T2, D, M, N, A2, W2, R2, L)
<1> USE Basics
<1>1. T \in [Slots -> Inode] /\ T2 \in [Slots -> Inode] /\ TasksTyped(A, W, R)
      /\ TasksTyped(A2, W2, R2) /\ Typed(D, M, N, L)
  BY DEF Good, Moves, Alters
<1>2. PlaceOK(T, N, A, W, R, t)
  BY DEF Good, PlacesOK
<1>3. R[t] = NoSlot /\ T[s].i_num # 0
  BY <1>2 DEF PlaceOK, Holding
<1>5. \A u \in Tasks \ {t} : ~ Uses(A, W, R, u, s)
  BY FewUsers DEF Good, Uses, Holding
<1>7. \A x \in Slots : Reading(A2, W2, x) <=> Reading(A, W, x)
  BY DEF Reading, Moves
<1>8. \A x \in Slots : Linking(A2, W2, x) <=> Linking(A, W, x)
  BY DEF Linking, Moves
<1>9. One(T2)
  BY DEF Good, One, Alters
<1>10. CountsOK(T2, A2, W2, R2)
  <2>1. \A x \in Slots : Uses(A, W, R, t, x) <=> x = s
    BY <1>3 DEF Uses, Holding
  <2>2. \A x \in Slots : Uses(A2, W2, R2, t, x) <=> x = s
    BY <1>3 DEF Uses, Holding
  <2>3. \A x \in Slots : T[x].i_count \in Nat
    BY <1>1 DEF Inode
  <2>4. CountsOK(T, A, W, R)
    BY DEF Good
  <2>5. \A x \in Slots : T2[x].i_count =
           (T[x].i_count - (IF Uses(A, W, R, t, x) THEN 1 ELSE 0))
             + IF Uses(A2, W2, R2, t, x) THEN 1 ELSE 0
    BY <2>1, <2>2, <2>3 DEF Alters
  <2>6. \A u \in Tasks \ {t} : A2[u] = A[u] /\ W2[u] = W[u] /\ R2[u] = R[u]
    BY DEF Moves
  <2>7. QED
    BY ONLY <1>1, <2>4, <2>5, <2>6, Recount
<1>11. BitsOK(T2, M, N)
  BY DEF Good, BitsOK, Alters
<1>12. LocksOK(T2, A2, W2)
  BY DEF Good, LocksOK, Alters, Moves, Locking
<1>13. IdleOK(T2)
  BY <1>3 DEF Good, IdleOK, Alters
<1>14. PlacesOK(T2, N, A2, W2, R2)
  <2> SUFFICES ASSUME NEW u \in Tasks PROVE PlaceOK(T2, N, A2, W2, R2, u)
    BY DEF PlacesOK
  <2>1. PlaceOK(T, N, A, W, R, u)
    BY DEF Good, PlacesOK
  <2>2. R[u] \in Slots \cup {NoSlot}
    BY <1>1 DEF TasksTyped
  <2>3. CASE u = t
    BY <2>1, <2>3 DEF PlaceOK, Holding
  <2>4. CASE u # t
    <3>1. A2[u] = A[u] /\ W2[u] = W[u] /\ R2[u] = R[u]
      BY <2>4 DEF Moves
    <3>2. /\ R[u] # NoSlot => T2[R[u]] = T[R[u]]
          /\ A[u] \in Holding => T2[W[u].slot] = T[W[u].slot]
          /\ A[u] = "found" => T2[W[u].empty] = T[W[u].empty]
      BY <1>5, <2>1, <2>2, <2>4 DEF PlaceOK, Uses, Alters
    <3>3. QED
      BY <2>1, <3>1, <3>2 DEF PlaceOK, Holding
  <2>5. QED
    BY <2>3, <2>4
<1>15. AloneOK(A2, W2, R2)
  BY <1>5 DEF Good, AloneOK, Moves, Uses, Holding
<1>16. DataOK(T2, D, N, A2, W2, L)
  BY <1>7, <1>8 DEF Good, DataOK, Alters
<1>17. DiskOK(T2, D, N, A2, W2, L)
  BY <1>7 DEF Good, DiskOK, Alters
<1>18. OrphansOK(T2, M, N)
  <2> SUFFICES ASSUME NEW m \in M \ N
               PROVE  \E x \in Slots : T2[x].i_num = m /\ T2[x].i_count # 0
    BY DEF OrphansOK
  <2>1. PICK x \in Slots : T[x].i_num = m /\ T[x].i_count # 0
    BY DEF Good, OrphansOK
  <2>3. QED
    BY <2>1 DEF Alters
<1>19. QED
  BY <1>1, <1>9, <1>10, <1>11, <1>12, <1>13, <1>14, <1>15, <1>16, <1>17, <1>18 DEF Good

(* The end of the write_inode of iput                                      *)
LEMMA PutWrittenStep ==
  ASSUME NEW T, NEW D, NEW M, NEW N, NEW A, NEW W, NEW R, NEW L,
         NEW A2, NEW W2, NEW R2, NEW t \in Tasks, NEW T2, NEW D2, NEW s \in Slots,
         Good(T, D, M, N, A, W, R, L), Moves(t, A, W, R, A2, W2, R2), Alters(s, T, T2),
         A[t] = "putwrite", W[t].slot = s,
         A2[t] = "put", R2[t] = R[t], W2[t].slot = s,
         T2[s].i_num = T[s].i_num, T2[s].i_count = T[s].i_count, ~ T2[s].i_lock,
         ~ T2[s].i_dirt, T2[s].d = T[s].d,
         D2 \in [Nums -> Contents], D2[T[s].i_num] = T[s].d,
         \A m \in Nums \ {T[s].i_num} : D2[m] = D[m]
  PROVE  Good(T2, D2, M, N, A2, W2, R2, L)
<1> USE Basics
<1>1. T \in [Slots -> Inode] /\ T2 \in [Slots -> Inode] /\ TasksTyped(A, W, R)
      /\ TasksTyped(A2, W2, R2) /\ Typed(D, M, N, L)
  BY DEF Good, Moves, Alters
<1>2. PlaceOK(T, N, A, W, R, t)
  BY DEF Good, PlacesOK
<1>3. R[t] = NoSlot /\ T[s].i_num # 0
  BY <1>2 DEF PlaceOK, Holding
<1>5. \A u \in Tasks \ {t} : ~ Uses(A, W, R, u, s)
  BY DEF Good, AloneOK, Alone
<1>6. \A x \in Slots : T[x].i_num = T[s].i_num => x = s
  BY <1>3 DEF Good, One
<1>7. ~ Reading(A, W, s)
  BY <1>5 DEF Reading, Uses, Holding
<1>8. \A x \in Slots \ {s} : T[x].i_num # 0 => T[x].i_num \in Nums \ {T[s].i_num}
  BY <1>1, <1>6 DEF Inode
<1>9. \A x \in Slots : Reading(A2, W2, x) <=> Reading(A, W, x)
  BY DEF Reading, Moves
<1>10. \A x \in Slots : Linking(A2, W2, x) <=> Linking(A, W, x)
  BY DEF Linking, Moves
<1>11. Typed(D2, M, N, L)
  BY <1>1 DEF Typed
<1>12. One(T2)
  BY DEF Good, One, Alters
<1>13. CountsOK(T2, A2, W2, R2)
  <2>1. \A x \in Slots : Uses(A, W, R, t, x) <=> x = s
    BY <1>3 DEF Uses, Holding
  <2>2. \A x \in Slots : Uses(A2, W2, R2, t, x) <=> x = s
    BY <1>3 DEF Uses, Holding
  <2>3. \A x \in Slots : T[x].i_count \in Nat
    BY <1>1 DEF Inode
  <2>4. CountsOK(T, A, W, R)
    BY DEF Good
  <2>5. \A x \in Slots : T2[x].i_count =
           (T[x].i_count - (IF Uses(A, W, R, t, x) THEN 1 ELSE 0))
             + IF Uses(A2, W2, R2, t, x) THEN 1 ELSE 0
    BY <2>1, <2>2, <2>3 DEF Alters
  <2>6. \A u \in Tasks \ {t} : A2[u] = A[u] /\ W2[u] = W[u] /\ R2[u] = R[u]
    BY DEF Moves
  <2>7. QED
    BY ONLY <1>1, <2>4, <2>5, <2>6, Recount
<1>14. BitsOK(T2, M, N)
  BY DEF Good, BitsOK, Alters
<1>15. LocksOK(T2, A2, W2)
  BY DEF Good, LocksOK, Alters, Moves, Locking
<1>16. IdleOK(T2)
  BY DEF Good, IdleOK, Alters
<1>17. PlacesOK(T2, N, A2, W2, R2)
  <2> SUFFICES ASSUME NEW u \in Tasks PROVE PlaceOK(T2, N, A2, W2, R2, u)
    BY DEF PlacesOK
  <2>1. PlaceOK(T, N, A, W, R, u)
    BY DEF Good, PlacesOK
  <2>2. R[u] \in Slots \cup {NoSlot}
    BY <1>1 DEF TasksTyped
  <2>3. CASE u = t
    BY <2>1, <2>3 DEF PlaceOK, Holding
  <2>4. CASE u # t
    <3>1. A2[u] = A[u] /\ W2[u] = W[u] /\ R2[u] = R[u]
      BY <2>4 DEF Moves
    <3>2. /\ R[u] # NoSlot => T2[R[u]] = T[R[u]]
          /\ A[u] \in Holding => T2[W[u].slot] = T[W[u].slot]
          /\ A[u] = "found" => T2[W[u].empty] = T[W[u].empty]
      BY <1>5, <2>1, <2>2, <2>4 DEF PlaceOK, Uses, Alters
    <3>3. QED
      BY <2>1, <3>1, <3>2 DEF PlaceOK, Holding
  <2>5. QED
    BY <2>3, <2>4
<1>18. AloneOK(A2, W2, R2)
  BY DEF Good, AloneOK, Moves, Uses, Holding, Alone
<1>19. DataOK(T2, D2, N, A2, W2, L)
  <2> SUFFICES ASSUME NEW x \in Slots, T2[x].i_num # 0, ~ Reading(A2, W2, x)
               PROVE  LET m == T2[x].i_num IN
                      /\ m \in N => T2[x].d.i_nlinks = 1
                      /\ T2[x].d.i_nlinks = 1 => T2[x].d.ver = L[m]
                      /\ T2[x].d.i_nlinks = 1 /\ ~ T2[x].i_dirt => D2[m] = T2[x].d
                      /\ T2[x].d.i_nlinks = 1 /\ m \notin N => Linking(A2, W2, x)
    BY DEF DataOK
  <2>1. ~ Reading(A, W, x) /\ T[x].i_num # 0 /\ T2[x].i_num = T[x].i_num
    BY <1>9 DEF Alters
  <2>2. LET m == T[x].i_num IN
        /\ m \in N => T[x].d.i_nlinks = 1
        /\ T[x].d.i_nlinks = 1 => T[x].d.ver = L[m]
        /\ T[x].d.i_nlinks = 1 /\ ~ T[x].i_dirt => D[m] = T[x].d
        /\ T[x].d.i_nlinks = 1 /\ m \notin N => Linking(A, W, x)
    BY <2>1 DEF Good, DataOK
  <2>3. CASE x = s
    BY <1>10, <2>2, <2>3
  <2>4. CASE x # s
    <3>1. T2[x] = T[x]
      BY <2>4 DEF Alters
    <3>2. T[x].i_num \in Nums \ {T[s].i_num}
      BY <1>8, <2>1, <2>4
    <3>3. QED
      BY <1>10, <2>2, <3>1, <3>2
  <2>5. QED
    BY <2>3, <2>4
<1>20. DiskOK(T2, D2, N, A2, W2, L)
  BY <1>7, <1>9 DEF Good, DiskOK, Typed, Alters
<1>21. OrphansOK(T2, M, N)
  <2> SUFFICES ASSUME NEW m \in M \ N
               PROVE  \E x \in Slots : T2[x].i_num = m /\ T2[x].i_count # 0
    BY DEF OrphansOK
  <2>1. PICK x \in Slots : T[x].i_num = m /\ T[x].i_count # 0
    BY DEF Good, OrphansOK
  <2>3. QED
    BY <2>1 DEF Alters
<1>22. QED
  BY <1>1, <1>11, <1>12, <1>13, <1>14, <1>15, <1>16, <1>17, <1>18, <1>19, <1>20, <1>21 DEF
     Good

(* The end of the write_inode of sync_inodes                               *)
LEMMA SyncWrittenStep ==
  ASSUME NEW T, NEW D, NEW M, NEW N, NEW A, NEW W, NEW R, NEW L,
         NEW A2, NEW W2, NEW R2, NEW t \in Tasks, NEW T2, NEW D2, NEW s \in Slots,
         Good(T, D, M, N, A, W, R, L), Moves(t, A, W, R, A2, W2, R2), Alters(s, T, T2),
         A[t] = "syncwrite", W[t].slot = s,
         A2[t] = "sync", R2[t] = R[t], W2[t].slot \in Slots,
         T2[s].i_num = T[s].i_num, T2[s].i_count = T[s].i_count, ~ T2[s].i_lock,
         ~ T2[s].i_dirt, T2[s].d = T[s].d,
         D2 \in [Nums -> Contents], D2[T[s].i_num] = T[s].d,
         \A m \in Nums \ {T[s].i_num} : D2[m] = D[m]
  PROVE  Good(T2, D2, M, N, A2, W2, R2, L)
<1> USE Basics
<1>1. T \in [Slots -> Inode] /\ T2 \in [Slots -> Inode] /\ TasksTyped(A, W, R)
      /\ TasksTyped(A2, W2, R2) /\ Typed(D, M, N, L)
  BY DEF Good, Moves, Alters
<1>3. T[s].i_lock
  BY DEF Good, LocksOK, Locking
<1>4. T[s].i_num # 0 /\ T[s].i_count # 0 /\ T[s].i_count \in Nat
  BY <1>3 DEF Good, IdleOK, Inode
<1>5. \A x \in Slots : T[x].i_num = T[s].i_num => x = s
  BY <1>4 DEF Good, One
<1>6. ~ Reading(A, W, s)
  BY DEF Reading, Good, LocksOK, Locking
<1>7. \A x \in Slots \ {s} : T[x].i_num # 0 => T[x].i_num \in Nums \ {T[s].i_num}
  BY <1>1, <1>5 DEF Inode
<1>8. \A x \in Slots : Reading(A2, W2, x) <=> Reading(A, W, x)
  BY DEF Reading, Moves
<1>9. \A x \in Slots : Linking(A2, W2, x) <=> Linking(A, W, x)
  BY DEF Linking, Moves
<1>10. Typed(D2, M, N, L)
  BY <1>1 DEF Typed
<1>11. One(T2)
  BY DEF Good, One, Alters
<1>12. CountsOK(T2, A2, W2, R2)
  <2>1. \A x \in Slots : Uses(A, W, R, t, x) <=> x = R[t]
    BY DEF Uses, Holding
  <2>2. \A x \in Slots : Uses(A2, W2, R2, t, x) <=> x = R[t]
    BY DEF Uses, Holding
  <2>3. \A x \in Slots : T[x].i_count \in Nat
    BY <1>1 DEF Inode
  <2>4. CountsOK(T, A, W, R)
    BY DEF Good
  <2>5. \A x \in Slots : T2[x].i_count =
           (T[x].i_count - (IF Uses(A, W, R, t, x) THEN 1 ELSE 0))
             + IF Uses(A2, W2, R2, t, x) THEN 1 ELSE 0
    BY <2>1, <2>2, <2>3 DEF Alters
  <2>6. \A u \in Tasks \ {t} : A2[u] = A[u] /\ W2[u] = W[u] /\ R2[u] = R[u]
    BY DEF Moves
  <2>7. QED
    BY ONLY <1>1, <2>4, <2>5, <2>6, Recount
<1>13. BitsOK(T2, M, N)
  BY DEF Good, BitsOK, Alters
<1>14. LocksOK(T2, A2, W2)
  BY DEF Good, LocksOK, Alters, Moves, Locking
<1>15. IdleOK(T2)
  BY DEF Good, IdleOK, Alters
<1>16. PlacesOK(T2, N, A2, W2, R2)
  <2> SUFFICES ASSUME NEW u \in Tasks PROVE PlaceOK(T2, N, A2, W2, R2, u)
    BY DEF PlacesOK
  <2>1. PlaceOK(T, N, A, W, R, u)
    BY DEF Good, PlacesOK
  <2>2. R[u] \in Slots \cup {NoSlot}
    BY <1>1 DEF TasksTyped
  <2>6. \A x \in Slots : T2[x].i_num = T[x].i_num /\ T2[x].d.i_nlinks = T[x].d.i_nlinks
    BY DEF Alters
  <2>3. CASE u = t
    BY <2>1, <2>2, <2>3, <2>6, ZenonT(60) DEF PlaceOK, Holding
  <2>4. CASE u # t
    <3>1. A2[u] = A[u] /\ W2[u] = W[u] /\ R2[u] = R[u]
      BY <2>4 DEF Moves
    <3>2. QED
      BY ONLY <2>1, <2>2, <2>6, <3>1, PlaceSame
  <2>5. QED
    BY <2>3, <2>4
<1>17. AloneOK(A2, W2, R2)
  BY DEF Good, AloneOK, Moves, Uses, Holding, Alone
<1>18. DataOK(T2, D2, N, A2, W2, L)
  <2> SUFFICES ASSUME NEW x \in Slots, T2[x].i_num # 0, ~ Reading(A2, W2, x)
               PROVE  LET m == T2[x].i_num IN
                      /\ m \in N => T2[x].d.i_nlinks = 1
                      /\ T2[x].d.i_nlinks = 1 => T2[x].d.ver = L[m]
                      /\ T2[x].d.i_nlinks = 1 /\ ~ T2[x].i_dirt => D2[m] = T2[x].d
                      /\ T2[x].d.i_nlinks = 1 /\ m \notin N => Linking(A2, W2, x)
    BY DEF DataOK
  <2>1. ~ Reading(A, W, x) /\ T[x].i_num # 0 /\ T2[x].i_num = T[x].i_num
    BY <1>8 DEF Alters
  <2>2. LET m == T[x].i_num IN
        /\ m \in N => T[x].d.i_nlinks = 1
        /\ T[x].d.i_nlinks = 1 => T[x].d.ver = L[m]
        /\ T[x].d.i_nlinks = 1 /\ ~ T[x].i_dirt => D[m] = T[x].d
        /\ T[x].d.i_nlinks = 1 /\ m \notin N => Linking(A, W, x)
    BY <2>1 DEF Good, DataOK
  <2>3. CASE x = s
    BY <1>9, <2>2, <2>3
  <2>4. CASE x # s
    <3>1. T2[x] = T[x]
      BY <2>4 DEF Alters
    <3>2. T[x].i_num \in Nums \ {T[s].i_num}
      BY <1>7, <2>1, <2>4
    <3>3. QED
      BY <1>9, <2>2, <3>1, <3>2
  <2>5. QED
    BY <2>3, <2>4
<1>19. DiskOK(T2, D2, N, A2, W2, L)
  BY <1>6, <1>8 DEF Good, DiskOK, Typed, Alters
<1>20. OrphansOK(T2, M, N)
  <2> SUFFICES ASSUME NEW m \in M \ N
               PROVE  \E x \in Slots : T2[x].i_num = m /\ T2[x].i_count # 0
    BY DEF OrphansOK
  <2>1. PICK x \in Slots : T[x].i_num = m /\ T[x].i_count # 0
    BY DEF Good, OrphansOK
  <2>3. QED
    BY <2>1 DEF Alters
<1>21. QED
  BY <1>1, <1>10, <1>11, <1>12, <1>13, <1>14, <1>15, <1>16, <1>17, <1>18, <1>19, <1>20 DEF
     Good

(* free_inode wipes the inode and clears its bit.                          *)
LEMMA FreeStep ==
  ASSUME NEW T, NEW D, NEW M, NEW N, NEW A, NEW W, NEW R, NEW L,
         NEW A2, NEW W2, NEW R2, NEW t \in Tasks, NEW T2, NEW M2, NEW s \in Slots,
         Good(T, D, M, N, A, W, R, L), Moves(t, A, W, R, A2, W2, R2), Alters(s, T, T2),
         A[t] = "trunc", W[t].slot = s, ~ T[s].i_lock,
         A2[t] = "user", R2[t] = R[t],
         T2[s].i_num = 0, T2[s].i_count = 0, ~ T2[s].i_lock, ~ T2[s].i_dirt,
         M2 = M \ {T[s].i_num}
  PROVE  Good(T2, D, M2, N, A2, W2, R2, L)
<1> USE Basics
<1>1. T \in [Slots -> Inode] /\ T2 \in [Slots -> Inode] /\ TasksTyped(A, W, R)
      /\ TasksTyped(A2, W2, R2) /\ Typed(D, M, N, L)
  BY DEF Good, Moves, Alters
<1>2. PlaceOK(T, N, A, W, R, t)
  BY DEF Good, PlacesOK
<1>3. R[t] = NoSlot /\ T[s].i_num # 0 /\ T[s].d.i_nlinks = 0
  BY <1>2 DEF PlaceOK, Holding
<1>4. \A u \in Tasks \ {t} : ~ Uses(A, W, R, u, s)
  BY DEF Good, AloneOK, Alone
<1>5. T[s].i_count = 1
  <2>1. \A u \in Tasks : Uses(A, W, R, u, s) <=> u = t
    BY <1>4 DEF Uses, Holding
  <2>2. UsersIn(A, W, R, s) = {t}
    BY <2>1 DEF UsersIn
  <2>3. QED
    BY <2>2, FS_Singleton DEF Good, CountsOK
<1>6. \A x \in Slots : T[x].i_num = T[s].i_num => x = s
  BY <1>3 DEF Good, One
<1>7. ~ Reading(A, W, s)
  BY <1>4 DEF Reading, Uses, Holding
<1>8. T[s].i_num \notin N
  BY <1>3, <1>7 DEF Good, DataOK
<1>9. \A x \in Slots : Reading(A2, W2, x) <=> Reading(A, W, x)
  BY DEF Reading, Moves
<1>10. \A x \in Slots : Linking(A2, W2, x) <=> Linking(A, W, x)
  BY DEF Linking, Moves
<1>11. Typed(D, M2, N, L)
  BY <1>1 DEF Typed
<1>12. One(T2)
  BY DEF Good, One, Alters
<1>13. CountsOK(T2, A2, W2, R2)
  <2>1. \A x \in Slots : Uses(A, W, R, t, x) <=> x = s
    BY <1>3 DEF Uses, Holding
  <2>2. \A x \in Slots : Uses(A2, W2, R2, t, x) <=> FALSE
    BY <1>3 DEF Uses, Holding
  <2>3. \A x \in Slots : T[x].i_count \in Nat
    BY <1>1 DEF Inode
  <2>4. CountsOK(T, A, W, R)
    BY DEF Good
  <2>5. \A x \in Slots : T2[x].i_count =
           (T[x].i_count - (IF Uses(A, W, R, t, x) THEN 1 ELSE 0))
             + IF Uses(A2, W2, R2, t, x) THEN 1 ELSE 0
    BY <1>5, <2>1, <2>2, <2>3 DEF Alters
  <2>6. \A u \in Tasks \ {t} : A2[u] = A[u] /\ W2[u] = W[u] /\ R2[u] = R[u]
    BY DEF Moves
  <2>7. QED
    BY ONLY <1>1, <2>4, <2>5, <2>6, Recount
<1>14. BitsOK(T2, M2, N)
  BY <1>6, <1>8 DEF Good, BitsOK, Alters
<1>15. LocksOK(T2, A2, W2)
  BY DEF Good, LocksOK, Alters, Moves, Locking
<1>16. IdleOK(T2)
  BY DEF Good, IdleOK, Alters
<1>17. PlacesOK(T2, N, A2, W2, R2)
  <2> SUFFICES ASSUME NEW u \in Tasks PROVE PlaceOK(T2, N, A2, W2, R2, u)
    BY DEF PlacesOK
  <2>1. PlaceOK(T, N, A, W, R, u)
    BY DEF Good, PlacesOK
  <2>2. R[u] \in Slots \cup {NoSlot}
    BY <1>1 DEF TasksTyped
  <2>3. CASE u = t
    BY <2>1, <2>3 DEF PlaceOK, Holding
  <2>4. CASE u # t
    <3>1. A2[u] = A[u] /\ W2[u] = W[u] /\ R2[u] = R[u]
      BY <2>4 DEF Moves
    <3>2. /\ R[u] # NoSlot => T2[R[u]] = T[R[u]]
          /\ A[u] \in Holding => T2[W[u].slot] = T[W[u].slot]
          /\ A[u] = "found" => T2[W[u].empty] = T[W[u].empty]
      BY <1>4, <2>1, <2>2, <2>4 DEF PlaceOK, Uses, Alters
    <3>3. QED
      BY <2>1, <3>1, <3>2 DEF PlaceOK, Holding
  <2>5. QED
    BY <2>3, <2>4
<1>18. AloneOK(A2, W2, R2)
  BY DEF Good, AloneOK, Moves, Uses, Holding, Alone
<1>19. DataOK(T2, D, N, A2, W2, L)
  BY <1>9, <1>10 DEF Good, DataOK, Alters
<1>20. DiskOK(T2, D, N, A2, W2, L)
  BY <1>8, <1>9 DEF Good, DiskOK, Alters
<1>21. OrphansOK(T2, M2, N)
  <2> SUFFICES ASSUME NEW m \in M2 \ N
               PROVE  \E x \in Slots : T2[x].i_num = m /\ T2[x].i_count # 0
    BY DEF OrphansOK
  <2>1. PICK x \in Slots : T[x].i_num = m /\ T[x].i_count # 0
    BY DEF Good, OrphansOK
  <2>3. QED
    BY <2>1 DEF Alters
<1>22. QED
  BY <1>1, <1>11, <1>12, <1>13, <1>14, <1>15, <1>16, <1>17, <1>18, <1>19, <1>20, <1>21 DEF
     Good

(* add_entry gives a new inode its name, and creat has it open.            *)
LEMMA LinkStep ==
  ASSUME NEW T, NEW D, NEW M, NEW N, NEW A, NEW W, NEW R, NEW L,
         NEW A2, NEW W2, NEW R2, NEW t \in Tasks, NEW N2, NEW s \in Slots,
         Good(T, D, M, N, A, W, R, L), Moves(t, A, W, R, A2, W2, R2),
         A[t] = "link", W[t].slot = s,
         A2[t] = "user", R2[t] = s,
         N2 = N \cup {T[s].i_num}
  PROVE  Good(T, D, M, N2, A2, W2, R2, L)
<1> USE Basics
<1>1. T \in [Slots -> Inode] /\ TasksTyped(A, W, R)
      /\ TasksTyped(A2, W2, R2) /\ Typed(D, M, N, L)
  BY DEF Good, Moves
<1>2. PlaceOK(T, N, A, W, R, t)
  BY DEF Good, PlacesOK
<1>3. R[t] = NoSlot /\ T[s].i_num \in Nums /\ T[s].d.i_nlinks = 1
  BY <1>1, <1>2 DEF PlaceOK, Holding, Inode
<1>4. \A u \in Tasks \ {t} : ~ Uses(A, W, R, u, s)
  BY DEF Good, AloneOK, Alone
<1>5. \A x \in Slots : T[x].i_num = T[s].i_num => x = s
  BY <1>3 DEF Good, One
<1>6. ~ Reading(A, W, s)
  BY <1>4 DEF Reading, Uses, Holding
<1>7. \A x \in Slots : Reading(A2, W2, x) <=> Reading(A, W, x)
  BY DEF Reading, Moves
<1>8. \A x \in Slots : Linking(A2, W2, x) <=> Linking(A, W, x) /\ x # s
  BY <1>4 DEF Linking, Moves, Uses, Holding
<1>9. Typed(D, M, N2, L)
  BY <1>1, <1>3 DEF Typed
<1>11. CountsOK(T, A2, W2, R2)
  <2>1. \A x \in Slots : Uses(A, W, R, t, x) <=> x = s
    BY <1>3 DEF Uses, Holding
  <2>2. \A x \in Slots : Uses(A2, W2, R2, t, x) <=> x = s
    BY DEF Uses, Holding
  <2>3. \A x \in Slots : T[x].i_count \in Nat
    BY <1>1 DEF Inode
  <2>4. CountsOK(T, A, W, R)
    BY DEF Good
  <2>5. \A x \in Slots : T[x].i_count =
           (T[x].i_count - (IF Uses(A, W, R, t, x) THEN 1 ELSE 0))
             + IF Uses(A2, W2, R2, t, x) THEN 1 ELSE 0
    BY <2>1, <2>2, <2>3
  <2>6. \A u \in Tasks \ {t} : A2[u] = A[u] /\ W2[u] = W[u] /\ R2[u] = R[u]
    BY DEF Moves
  <2>7. QED
    BY ONLY <1>1, <2>4, <2>5, <2>6, Recount
<1>12. BitsOK(T, M, N2)
  BY <1>3 DEF Good, BitsOK
<1>13. LocksOK(T, A2, W2)
  BY DEF Good, LocksOK, Moves, Locking
<1>15. PlacesOK(T, N2, A2, W2, R2)
  <2> SUFFICES ASSUME NEW u \in Tasks PROVE PlaceOK(T, N2, A2, W2, R2, u)
    BY DEF PlacesOK
  <2>1. PlaceOK(T, N, A, W, R, u)
    BY DEF Good, PlacesOK
  <2>3. CASE u = t
    BY <2>1, <2>3 DEF PlaceOK, Holding
  <2>4. CASE u # t
    <3>1. A2[u] = A[u] /\ W2[u] = W[u] /\ R2[u] = R[u]
      BY <2>4 DEF Moves
    <3>2. QED
      BY <1>4, <1>5, <2>1, <3>1 DEF PlaceOK, Uses, Holding
  <2>5. QED
    BY <2>3, <2>4
<1>16. AloneOK(A2, W2, R2)
  BY DEF Good, AloneOK, Moves, Uses, Holding, Alone
<1>17. DataOK(T, D, N2, A2, W2, L)
  BY <1>3, <1>5, <1>7, <1>8 DEF Good, DataOK
<1>18. DiskOK(T, D, N2, A2, W2, L)
  BY <1>6, <1>7 DEF Good, DiskOK
<1>19. OrphansOK(T, M, N2)
  BY DEF Good, OrphansOK
<1>20. QED
  BY <1>1, <1>9, <1>11, <1>12, <1>13, <1>15, <1>16, <1>17, <1>18, <1>19 DEF Good

(* add_entry fails, and creat takes the link of the new inode back.        *)
LEMMA UnmakeStep ==
  ASSUME NEW T, NEW D, NEW M, NEW N, NEW A, NEW W, NEW R, NEW L,
         NEW A2, NEW W2, NEW R2, NEW t \in Tasks, NEW T2, NEW s \in Slots,
         Good(T, D, M, N, A, W, R, L), Moves(t, A, W, R, A2, W2, R2), Alters(s, T, T2),
         A[t] = "link", W[t].slot = s,
         A2[t] = "put", R2[t] = R[t], W2[t].slot = s,
         T2[s].i_num = T[s].i_num, T2[s].i_count = T[s].i_count, T2[s].i_lock = T[s].i_lock,
         T2[s].i_dirt = T[s].i_dirt, T2[s].d.i_nlinks = 0
  PROVE  Good(T2, D, M, N, A2, W2, R2, L)
<1> USE Basics
<1>1. T \in [Slots -> Inode] /\ T2 \in [Slots -> Inode] /\ TasksTyped(A, W, R)
      /\ TasksTyped(A2, W2, R2) /\ Typed(D, M, N, L)
  BY DEF Good, Moves, Alters
<1>2. PlaceOK(T, N, A, W, R, t)
  BY DEF Good, PlacesOK
<1>3. R[t] = NoSlot /\ T[s].i_num # 0 /\ T[s].i_num \notin N
  BY <1>2 DEF PlaceOK, Holding
<1>5. \A u \in Tasks \ {t} : ~ Uses(A, W, R, u, s)
  BY DEF Good, AloneOK, Alone
<1>6. \A x \in Slots : Reading(A2, W2, x) <=> Reading(A, W, x)
  BY DEF Reading, Moves
<1>7. \A x \in Slots : Linking(A2, W2, x) <=> Linking(A, W, x) /\ x # s
  BY <1>5 DEF Linking, Moves, Uses, Holding
<1>8. One(T2)
  BY DEF Good, One, Alters
<1>9. CountsOK(T2, A2, W2, R2)
  <2>1. \A x \in Slots : Uses(A, W, R, t, x) <=> x = s
    BY <1>3 DEF Uses, Holding
  <2>2. \A x \in Slots : Uses(A2, W2, R2, t, x) <=> x = s
    BY <1>3 DEF Uses, Holding
  <2>3. \A x \in Slots : T[x].i_count \in Nat
    BY <1>1 DEF Inode
  <2>4. CountsOK(T, A, W, R)
    BY DEF Good
  <2>5. \A x \in Slots : T2[x].i_count =
           (T[x].i_count - (IF Uses(A, W, R, t, x) THEN 1 ELSE 0))
             + IF Uses(A2, W2, R2, t, x) THEN 1 ELSE 0
    BY <2>1, <2>2, <2>3 DEF Alters
  <2>6. \A u \in Tasks \ {t} : A2[u] = A[u] /\ W2[u] = W[u] /\ R2[u] = R[u]
    BY DEF Moves
  <2>7. QED
    BY ONLY <1>1, <2>4, <2>5, <2>6, Recount
<1>10. BitsOK(T2, M, N)
  BY DEF Good, BitsOK, Alters
<1>11. LocksOK(T2, A2, W2)
  BY DEF Good, LocksOK, Alters, Moves, Locking
<1>12. IdleOK(T2)
  BY DEF Good, IdleOK, Alters
<1>13. PlacesOK(T2, N, A2, W2, R2)
  <2> SUFFICES ASSUME NEW u \in Tasks PROVE PlaceOK(T2, N, A2, W2, R2, u)
    BY DEF PlacesOK
  <2>1. PlaceOK(T, N, A, W, R, u)
    BY DEF Good, PlacesOK
  <2>2. R[u] \in Slots \cup {NoSlot}
    BY <1>1 DEF TasksTyped
  <2>3. CASE u = t
    BY <2>1, <2>3 DEF PlaceOK, Holding
  <2>4. CASE u # t
    <3>1. A2[u] = A[u] /\ W2[u] = W[u] /\ R2[u] = R[u]
      BY <2>4 DEF Moves
    <3>2. /\ R[u] # NoSlot => T2[R[u]] = T[R[u]]
          /\ A[u] \in Holding => T2[W[u].slot] = T[W[u].slot]
          /\ A[u] = "found" => T2[W[u].empty] = T[W[u].empty]
      BY <1>5, <2>1, <2>2, <2>4 DEF PlaceOK, Uses, Alters
    <3>3. QED
      BY <2>1, <3>1, <3>2 DEF PlaceOK, Holding
  <2>5. QED
    BY <2>3, <2>4
<1>14. AloneOK(A2, W2, R2)
  BY DEF Good, AloneOK, Moves, Uses, Holding, Alone
<1>15. DataOK(T2, D, N, A2, W2, L)
  BY <1>3, <1>6, <1>7 DEF Good, DataOK, Alters
<1>16. DiskOK(T2, D, N, A2, W2, L)
  BY <1>6 DEF Good, DiskOK, Alters
<1>17. OrphansOK(T2, M, N)
  <2> SUFFICES ASSUME NEW m \in M \ N
               PROVE  \E x \in Slots : T2[x].i_num = m /\ T2[x].i_count # 0
    BY DEF OrphansOK
  <2>1. PICK x \in Slots : T[x].i_num = m /\ T[x].i_count # 0
    BY DEF Good, OrphansOK
  <2>3. QED
    BY <2>1 DEF Alters
<1>18. QED
  BY <1>1, <1>8, <1>9, <1>10, <1>11, <1>12, <1>13, <1>14, <1>15, <1>16, <1>17 DEF Good

(* A change of an inode that t has open                                    *)
LEMMA ModifyStep ==
  ASSUME NEW T, NEW D, NEW M, NEW N, NEW A, NEW W, NEW R, NEW L,
         NEW A2, NEW W2, NEW R2, NEW t \in Tasks, NEW T2, NEW L2, NEW s \in Slots,
         Good(T, D, M, N, A, W, R, L), Moves(t, A, W, R, A2, W2, R2), Alters(s, T, T2),
         A[t] = "user", R[t] = s, A2[t] = A[t], R2[t] = R[t], W2[t] = W[t],
         T2[s].i_num = T[s].i_num, T2[s].i_count = T[s].i_count, T2[s].i_lock = T[s].i_lock,
         T2[s].i_dirt, T2[s].d.i_nlinks = T[s].d.i_nlinks,
         L2 \in [Nums -> 0 .. 1], L2[T[s].i_num] = T2[s].d.ver,
         \A m \in Nums \ {T[s].i_num} : L2[m] = L[m]
  PROVE  Good(T2, D, M, N, A2, W2, R2, L2)
<1> USE Basics
<1>1. T \in [Slots -> Inode] /\ T2 \in [Slots -> Inode] /\ TasksTyped(A, W, R)
      /\ TasksTyped(A2, W2, R2) /\ Typed(D, M, N, L)
  BY DEF Good, Moves, Alters
<1>2. PlaceOK(T, N, A, W, R, t)
  BY DEF Good, PlacesOK
<1>3. T[s].i_num # 0
  BY <1>1, <1>2 DEF PlaceOK
<1>4. T[s].i_count # 0 /\ T[s].i_count \in Nat
  BY FewUsers DEF Good, Uses, Inode
<1>5. \A u \in Tasks \ {t} : (A[u] \in Alone => W[u].slot # s) /\ (A[u] = "found" => W[u].empty # s)
  <2>1. Uses(A, W, R, t, s)
    BY DEF Uses
  <2>2. QED
    BY <2>1 DEF Good, AloneOK
<1>6. \A x \in Slots : T[x].i_num = T[s].i_num => x = s
  BY <1>3 DEF Good, One
<1>7. ~ Reading(A, W, s)
  BY <1>5 DEF Reading, Alone
<1>8. \A x \in Slots \ {s} : T[x].i_num # 0 => T[x].i_num \in Nums \ {T[s].i_num}
  <2>1. \A x \in Slots : T[x].i_num \in Nums \cup {0}
    BY <1>1 DEF Inode
  <2>2. QED
    BY <1>6, <2>1
<1>9. \A x \in Slots : Reading(A2, W2, x) <=> Reading(A, W, x)
  BY DEF Reading, Moves
<1>10. \A x \in Slots : Linking(A2, W2, x) <=> Linking(A, W, x)
  BY DEF Linking, Moves
<1>11. Typed(D, M, N, L2)
  BY <1>1 DEF Typed
<1>12. One(T2)
  BY DEF Good, One, Alters
<1>13. CountsOK(T2, A2, W2, R2)
  <2>1. \A x \in Slots : Uses(A, W, R, t, x) <=> x = s
    BY DEF Uses, Holding
  <2>2. \A x \in Slots : Uses(A2, W2, R2, t, x) <=> x = s
    BY DEF Uses, Holding
  <2>3. \A x \in Slots : T[x].i_count \in Nat
    BY <1>1 DEF Inode
  <2>4. CountsOK(T, A, W, R)
    BY DEF Good
  <2>5. \A x \in Slots : T2[x].i_count =
           (T[x].i_count - (IF Uses(A, W, R, t, x) THEN 1 ELSE 0))
             + IF Uses(A2, W2, R2, t, x) THEN 1 ELSE 0
    BY <2>1, <2>2, <2>3 DEF Alters
  <2>6. \A u \in Tasks \ {t} : A2[u] = A[u] /\ W2[u] = W[u] /\ R2[u] = R[u]
    BY DEF Moves
  <2>7. QED
    BY ONLY <1>1, <2>4, <2>5, <2>6, Recount
<1>14. BitsOK(T2, M, N)
  BY DEF Good, BitsOK, Alters
<1>15. LocksOK(T2, A2, W2)
  BY DEF Good, LocksOK, Alters, Moves
<1>16. IdleOK(T2)
  BY <1>3, <1>4 DEF Good, IdleOK, Alters
<1>17. PlacesOK(T2, N, A2, W2, R2)
  <2> SUFFICES ASSUME NEW u \in Tasks PROVE PlaceOK(T2, N, A2, W2, R2, u)
    BY DEF PlacesOK
  <2>1. PlaceOK(T, N, A, W, R, u)
    BY DEF Good, PlacesOK
  <2>2. R[u] \in Slots \cup {NoSlot}
    BY <1>1 DEF TasksTyped
  <2>6. \A x \in Slots : T2[x].i_num = T[x].i_num /\ T2[x].d.i_nlinks = T[x].d.i_nlinks
    BY DEF Alters
  <2>3. CASE u = t
    BY <2>1, <2>3 DEF PlaceOK, Holding
  <2>4. CASE u # t
    <3>1. A2[u] = A[u] /\ W2[u] = W[u] /\ R2[u] = R[u]
      BY <2>4 DEF Moves
    <3>2. QED
      BY ONLY <2>1, <2>2, <2>6, <3>1, PlaceSame
  <2>5. QED
    BY <2>3, <2>4
<1>18. AloneOK(A2, W2, R2)
  BY DEF Good, Moves, TasksTyped
<1>19. DataOK(T2, D, N, A2, W2, L2)
  <2> SUFFICES ASSUME NEW x \in Slots, T2[x].i_num # 0, ~ Reading(A2, W2, x)
               PROVE  LET m == T2[x].i_num IN
                      /\ m \in N => T2[x].d.i_nlinks = 1
                      /\ T2[x].d.i_nlinks = 1 => T2[x].d.ver = L2[m]
                      /\ T2[x].d.i_nlinks = 1 /\ ~ T2[x].i_dirt => D[m] = T2[x].d
                      /\ T2[x].d.i_nlinks = 1 /\ m \notin N => Linking(A2, W2, x)
    BY DEF DataOK
  <2>1. ~ Reading(A, W, x) /\ T[x].i_num # 0 /\ T2[x].i_num = T[x].i_num
    BY <1>9 DEF Alters
  <2>2. LET m == T[x].i_num IN
        /\ m \in N => T[x].d.i_nlinks = 1
        /\ T[x].d.i_nlinks = 1 => T[x].d.ver = L[m]
        /\ T[x].d.i_nlinks = 1 /\ ~ T[x].i_dirt => D[m] = T[x].d
        /\ T[x].d.i_nlinks = 1 /\ m \notin N => Linking(A, W, x)
    BY <2>1 DEF Good, DataOK
  <2>3. CASE x = s
    BY <1>10, <2>2, <2>3
  <2>4. CASE x # s
    <3>1. T2[x] = T[x]
      BY <2>4 DEF Alters
    <3>2. T[x].i_num \in Nums \ {T[s].i_num}
      BY <1>8, <2>1, <2>4
    <3>3. QED
      BY <1>10, <2>2, <3>1, <3>2, ZenonT(60)
  <2>5. QED
    BY <2>3, <2>4
<1>20. DiskOK(T2, D, N, A2, W2, L2)
  BY <1>7, <1>9 DEF Good, DiskOK, Typed, Alters
<1>21. OrphansOK(T2, M, N)
  <2> SUFFICES ASSUME NEW m \in M \ N
               PROVE  \E x \in Slots : T2[x].i_num = m /\ T2[x].i_count # 0
    BY DEF OrphansOK
  <2>1. PICK x \in Slots : T[x].i_num = m /\ T[x].i_count # 0
    BY DEF Good, OrphansOK
  <2>3. QED
    BY <2>1 DEF Alters
<1>22. QED
  BY <1>1, <1>11, <1>12, <1>13, <1>14, <1>15, <1>16, <1>17, <1>18, <1>19, <1>20, <1>21 DEF
     Good

(* sys_close puts the inode that t had open.                               *)
LEMMA CloseStep ==
  ASSUME NEW T, NEW D, NEW M, NEW N, NEW A, NEW W, NEW R, NEW L,
         NEW A2, NEW W2, NEW R2, NEW t \in Tasks, NEW s \in Slots,
         Good(T, D, M, N, A, W, R, L), Moves(t, A, W, R, A2, W2, R2),
         A[t] = "user", R[t] = s,
         A2[t] = "put", R2[t] = NoSlot, W2[t].slot = s
  PROVE  Good(T, D, M, N, A2, W2, R2, L)
<1> USE Basics
<1>1. T \in [Slots -> Inode] /\ TasksTyped(A, W, R)
      /\ TasksTyped(A2, W2, R2) /\ Typed(D, M, N, L)
  BY DEF Good, Moves
<1>4. \A x \in Slots : Reading(A2, W2, x) <=> Reading(A, W, x)
  BY DEF Reading, Moves
<1>5. \A x \in Slots : Linking(A2, W2, x) <=> Linking(A, W, x)
  BY DEF Linking, Moves
<1>7. CountsOK(T, A2, W2, R2)
  <2>1. \A x \in Slots : Uses(A, W, R, t, x) <=> x = s
    BY DEF Uses, Holding
  <2>2. \A x \in Slots : Uses(A2, W2, R2, t, x) <=> x = s
    BY DEF Uses, Holding
  <2>3. \A x \in Slots : T[x].i_count \in Nat
    BY <1>1 DEF Inode
  <2>4. CountsOK(T, A, W, R)
    BY DEF Good
  <2>5. \A x \in Slots : T[x].i_count =
           (T[x].i_count - (IF Uses(A, W, R, t, x) THEN 1 ELSE 0))
             + IF Uses(A2, W2, R2, t, x) THEN 1 ELSE 0
    BY <2>1, <2>2, <2>3
  <2>6. \A u \in Tasks \ {t} : A2[u] = A[u] /\ W2[u] = W[u] /\ R2[u] = R[u]
    BY DEF Moves
  <2>7. QED
    BY ONLY <1>1, <2>4, <2>5, <2>6, Recount
<1>9. LocksOK(T, A2, W2)
  BY DEF Good, LocksOK, Moves, Locking
<1>11. PlacesOK(T, N, A2, W2, R2)
  <2> SUFFICES ASSUME NEW u \in Tasks PROVE PlaceOK(T, N, A2, W2, R2, u)
    BY DEF PlacesOK
  <2>1. PlaceOK(T, N, A, W, R, u)
    BY DEF Good, PlacesOK
  <2>3. CASE u = t
    BY <2>1, <2>3 DEF PlaceOK
  <2>4. CASE u # t
    <3>1. A2[u] = A[u] /\ W2[u] = W[u] /\ R2[u] = R[u]
      BY <2>4 DEF Moves
    <3>2. QED
      BY <2>1, <3>1 DEF PlaceOK
  <2>5. QED
    BY <2>3, <2>4
<1>12. AloneOK(A2, W2, R2)
  BY DEF Good, AloneOK, PlacesOK, PlaceOK, Moves, Uses, Holding, Alone
<1>13. DataOK(T, D, N, A2, W2, L)
  BY <1>4, <1>5 DEF Good, DataOK
<1>14. DiskOK(T, D, N, A2, W2, L)
  BY <1>4 DEF Good, DiskOK
<1>16. QED
  BY <1>1, <1>7, <1>9, <1>11, <1>12, <1>13, <1>14 DEF Good

(* sync_inodes begins, waits for a slot or ends.                           *)
LEMMA SyncGoStep ==
  ASSUME NEW T, NEW D, NEW M, NEW N, NEW A, NEW W, NEW R, NEW L,
         NEW A2, NEW W2, NEW R2, NEW t \in Tasks,
         Good(T, D, M, N, A, W, R, L), Moves(t, A, W, R, A2, W2, R2),
         A[t] \in {"user", "sync"}, A2[t] \in {"user", "sync"}, R2[t] = R[t],
         A2[t] = "sync" => W2[t].slot \in Slots
  PROVE  Good(T, D, M, N, A2, W2, R2, L)
<1> USE Basics
<1>1. T \in [Slots -> Inode] /\ TasksTyped(A, W, R)
      /\ TasksTyped(A2, W2, R2) /\ Typed(D, M, N, L)
  BY DEF Good, Moves
<1>3. \A x \in Slots : Reading(A2, W2, x) <=> Reading(A, W, x)
  BY DEF Reading, Moves
<1>4. \A x \in Slots : Linking(A2, W2, x) <=> Linking(A, W, x)
  BY DEF Linking, Moves
<1>6. CountsOK(T, A2, W2, R2)
  <2>1. \A x \in Slots : Uses(A, W, R, t, x) <=> x = R[t]
    BY DEF Uses, Holding
  <2>2. \A x \in Slots : Uses(A2, W2, R2, t, x) <=> x = R[t]
    BY DEF Uses, Holding
  <2>3. \A x \in Slots : T[x].i_count \in Nat
    BY <1>1 DEF Inode
  <2>4. CountsOK(T, A, W, R)
    BY DEF Good
  <2>5. \A x \in Slots : T[x].i_count =
           (T[x].i_count - (IF Uses(A, W, R, t, x) THEN 1 ELSE 0))
             + IF Uses(A2, W2, R2, t, x) THEN 1 ELSE 0
    BY <2>1, <2>2, <2>3
  <2>6. \A u \in Tasks \ {t} : A2[u] = A[u] /\ W2[u] = W[u] /\ R2[u] = R[u]
    BY DEF Moves
  <2>7. QED
    BY ONLY <1>1, <2>4, <2>5, <2>6, Recount
<1>8. LocksOK(T, A2, W2)
  BY DEF Good, LocksOK, Moves, Locking
<1>10. PlacesOK(T, N, A2, W2, R2)
  <2> SUFFICES ASSUME NEW u \in Tasks PROVE PlaceOK(T, N, A2, W2, R2, u)
    BY DEF PlacesOK
  <2>1. PlaceOK(T, N, A, W, R, u)
    BY DEF Good, PlacesOK
  <2>3. CASE u = t
    BY <2>1, <2>3 DEF PlaceOK, Holding
  <2>4. CASE u # t
    <3>1. A2[u] = A[u] /\ W2[u] = W[u] /\ R2[u] = R[u]
      BY <2>4 DEF Moves
    <3>2. QED
      BY <2>1, <3>1 DEF PlaceOK
  <2>5. QED
    BY <2>3, <2>4
<1>11. AloneOK(A2, W2, R2)
  BY DEF Good, AloneOK, Moves, Uses, Holding, Alone
<1>12. DataOK(T, D, N, A2, W2, L)
  BY <1>3, <1>4 DEF Good, DataOK
<1>13. DiskOK(T, D, N, A2, W2, L)
  BY <1>3 DEF Good, DiskOK
<1>15. QED
  BY <1>1, <1>6, <1>8, <1>10, <1>11, <1>12, <1>13 DEF Good

(* sync_inodes locks a dirty inode to write it.                            *)
LEMMA SyncLockStep ==
  ASSUME NEW T, NEW D, NEW M, NEW N, NEW A, NEW W, NEW R, NEW L,
         NEW A2, NEW W2, NEW R2, NEW t \in Tasks, NEW T2, NEW s \in Slots,
         Good(T, D, M, N, A, W, R, L), Moves(t, A, W, R, A2, W2, R2), Alters(s, T, T2),
         A[t] \in {"user", "sync"}, A2[t] = "syncwrite", R2[t] = R[t], W2[t].slot = s,
         ~ T[s].i_lock, T[s].i_dirt,
         T2[s].i_num = T[s].i_num, T2[s].i_count = T[s].i_count, T2[s].i_lock,
         T2[s].i_dirt = T[s].i_dirt, T2[s].d = T[s].d
  PROVE  Good(T2, D, M, N, A2, W2, R2, L)
<1> USE Basics
<1>1. T \in [Slots -> Inode] /\ T2 \in [Slots -> Inode] /\ TasksTyped(A, W, R)
      /\ TasksTyped(A2, W2, R2) /\ Typed(D, M, N, L)
  BY DEF Good, Moves, Alters
<1>7. \A x \in Slots : Reading(A2, W2, x) <=> Reading(A, W, x)
  BY DEF Reading, Moves
<1>8. \A x \in Slots : Linking(A2, W2, x) <=> Linking(A, W, x)
  BY DEF Linking, Moves
<1>9. One(T2)
  BY DEF Good, One, Alters
<1>10. CountsOK(T2, A2, W2, R2)
  <2>1. \A x \in Slots : Uses(A, W, R, t, x) <=> x = R[t]
    BY DEF Uses, Holding
  <2>2. \A x \in Slots : Uses(A2, W2, R2, t, x) <=> x = R[t]
    BY DEF Uses, Holding
  <2>3. \A x \in Slots : T[x].i_count \in Nat
    BY <1>1 DEF Inode
  <2>4. CountsOK(T, A, W, R)
    BY DEF Good
  <2>5. \A x \in Slots : T2[x].i_count =
           (T[x].i_count - (IF Uses(A, W, R, t, x) THEN 1 ELSE 0))
             + IF Uses(A2, W2, R2, t, x) THEN 1 ELSE 0
    BY <2>1, <2>2, <2>3 DEF Alters
  <2>6. \A u \in Tasks \ {t} : A2[u] = A[u] /\ W2[u] = W[u] /\ R2[u] = R[u]
    BY DEF Moves
  <2>7. QED
    BY ONLY <1>1, <2>4, <2>5, <2>6, Recount
<1>11. BitsOK(T2, M, N)
  BY DEF Good, BitsOK, Alters
<1>12. LocksOK(T2, A2, W2)
  BY DEF Good, LocksOK, Alters, Moves, Locking
<1>13. IdleOK(T2)
  BY DEF Good, IdleOK, Alters
<1>14. PlacesOK(T2, N, A2, W2, R2)
  <2> SUFFICES ASSUME NEW u \in Tasks PROVE PlaceOK(T2, N, A2, W2, R2, u)
    BY DEF PlacesOK
  <2>1. PlaceOK(T, N, A, W, R, u)
    BY DEF Good, PlacesOK
  <2>2. R[u] \in Slots \cup {NoSlot}
    BY <1>1 DEF TasksTyped
  <2>6. \A x \in Slots : T2[x].i_num = T[x].i_num /\ T2[x].d.i_nlinks = T[x].d.i_nlinks
    BY DEF Alters
  <2>3. CASE u = t
    BY <2>1, <2>2, <2>3, <2>6, ZenonT(60) DEF PlaceOK, Holding
  <2>4. CASE u # t
    <3>1. A2[u] = A[u] /\ W2[u] = W[u] /\ R2[u] = R[u]
      BY <2>4 DEF Moves
    <3>2. QED
      BY ONLY <2>1, <2>2, <2>6, <3>1, PlaceSame
  <2>5. QED
    BY <2>3, <2>4
<1>15. AloneOK(A2, W2, R2)
  BY DEF Good, AloneOK, Moves, Uses, Holding, Alone
<1>16. DataOK(T2, D, N, A2, W2, L)
  <2> SUFFICES ASSUME NEW x \in Slots, T2[x].i_num # 0, ~ Reading(A2, W2, x)
               PROVE  LET m == T2[x].i_num IN
                      /\ m \in N => T2[x].d.i_nlinks = 1
                      /\ T2[x].d.i_nlinks = 1 => T2[x].d.ver = L[m]
                      /\ T2[x].d.i_nlinks = 1 /\ ~ T2[x].i_dirt => D[m] = T2[x].d
                      /\ T2[x].d.i_nlinks = 1 /\ m \notin N => Linking(A2, W2, x)
    BY DEF DataOK
  <2>1. ~ Reading(A, W, x) /\ T[x].i_num # 0 /\ T2[x].i_num = T[x].i_num
    BY <1>7 DEF Alters
  <2>2. LET m == T[x].i_num IN
        /\ m \in N => T[x].d.i_nlinks = 1
        /\ T[x].d.i_nlinks = 1 => T[x].d.ver = L[m]
        /\ T[x].d.i_nlinks = 1 /\ ~ T[x].i_dirt => D[m] = T[x].d
        /\ T[x].d.i_nlinks = 1 /\ m \notin N => Linking(A, W, x)
    BY <2>1 DEF Good, DataOK
  <2>3. CASE x = s
    BY <1>8, <2>2, <2>3
  <2>4. CASE x # s
    <3>1. T2[x] = T[x]
      BY <2>4 DEF Alters
    <3>3. QED
      BY <1>8, <2>2, <3>1
  <2>5. QED
    BY <2>3, <2>4
<1>17. DiskOK(T2, D, N, A2, W2, L)
  BY <1>7 DEF Good, DiskOK, Alters
<1>18. OrphansOK(T2, M, N)
  <2> SUFFICES ASSUME NEW m \in M \ N
               PROVE  \E x \in Slots : T2[x].i_num = m /\ T2[x].i_count # 0
    BY DEF OrphansOK
  <2>1. PICK x \in Slots : T[x].i_num = m /\ T[x].i_count # 0
    BY DEF Good, OrphansOK
  <2>3. QED
    BY <2>1 DEF Alters
<1>19. QED
  BY <1>1, <1>9, <1>10, <1>11, <1>12, <1>13, <1>14, <1>15, <1>16, <1>17, <1>18 DEF Good

(* iput waits for the inode that is locked.                                *)
LEMMA PutStayStep ==
  ASSUME NEW T, NEW D, NEW M, NEW N, NEW A, NEW W, NEW R, NEW L,
         NEW A2, NEW W2, NEW R2, NEW t \in Tasks, NEW s \in Slots,
         Good(T, D, M, N, A, W, R, L), Moves(t, A, W, R, A2, W2, R2),
         A[t] = "put", W[t].slot = s, A2[t] = "put", R2[t] = R[t], W2[t].slot = s
  PROVE  Good(T, D, M, N, A2, W2, R2, L)
<1> USE Basics
<1>1. T \in [Slots -> Inode] /\ TasksTyped(A, W, R)
      /\ TasksTyped(A2, W2, R2) /\ Typed(D, M, N, L)
  BY DEF Good, Moves
<1>2. PlaceOK(T, N, A, W, R, t)
  BY DEF Good, PlacesOK
<1>3. R[t] = NoSlot /\ T[s].i_num # 0
  BY <1>2 DEF PlaceOK, Holding
<1>4. \A x \in Slots : Reading(A2, W2, x) <=> Reading(A, W, x)
  BY DEF Reading, Moves
<1>5. \A x \in Slots : Linking(A2, W2, x) <=> Linking(A, W, x)
  BY DEF Linking, Moves
<1>7. CountsOK(T, A2, W2, R2)
  <2>1. \A x \in Slots : Uses(A, W, R, t, x) <=> x = s
    BY <1>3 DEF Uses, Holding
  <2>2. \A x \in Slots : Uses(A2, W2, R2, t, x) <=> x = s
    BY <1>3 DEF Uses, Holding
  <2>3. \A x \in Slots : T[x].i_count \in Nat
    BY <1>1 DEF Inode
  <2>4. CountsOK(T, A, W, R)
    BY DEF Good
  <2>5. \A x \in Slots : T[x].i_count =
           (T[x].i_count - (IF Uses(A, W, R, t, x) THEN 1 ELSE 0))
             + IF Uses(A2, W2, R2, t, x) THEN 1 ELSE 0
    BY <2>1, <2>2, <2>3
  <2>6. \A u \in Tasks \ {t} : A2[u] = A[u] /\ W2[u] = W[u] /\ R2[u] = R[u]
    BY DEF Moves
  <2>7. QED
    BY ONLY <1>1, <2>4, <2>5, <2>6, Recount
<1>9. LocksOK(T, A2, W2)
  BY DEF Good, LocksOK, Moves
<1>11. PlacesOK(T, N, A2, W2, R2)
  <2> SUFFICES ASSUME NEW u \in Tasks PROVE PlaceOK(T, N, A2, W2, R2, u)
    BY DEF PlacesOK
  <2>1. PlaceOK(T, N, A, W, R, u)
    BY DEF Good, PlacesOK
  <2>3. CASE u = t
    BY <2>1, <2>3 DEF PlaceOK
  <2>4. CASE u # t
    <3>1. A2[u] = A[u] /\ W2[u] = W[u] /\ R2[u] = R[u]
      BY <2>4 DEF Moves
    <3>2. QED
      BY <2>1, <3>1 DEF PlaceOK
  <2>5. QED
    BY <2>3, <2>4
<1>12. AloneOK(A2, W2, R2)
  BY DEF Good, AloneOK, Moves, Uses
<1>13. DataOK(T, D, N, A2, W2, L)
  BY <1>4, <1>5 DEF Good, DataOK
<1>14. DiskOK(T, D, N, A2, W2, L)
  BY <1>4 DEF Good, DiskOK
<1>16. QED
  BY <1>1, <1>7, <1>9, <1>11, <1>12, <1>13, <1>14 DEF Good

-----------------------------------------------------------------------------
(* The state between two parts of a step of t: the other tasks are where   *)
(* they were, and wait for inodes that have names.                         *)
Apart(t, N, A, W, R) ==
  /\ TasksTyped(at, work, ref)
  /\ \A u \in Tasks \ {t} :
       /\ A[u] = at[u] /\ W[u] = work[u] /\ R[u] = ref[u]
       /\ at[u] = "found" => work[u].slot \in Slots /\ work[u].num \in N
Between(t, T, D, M, N, A, W, R, L) ==
  Good(T, D, M, N, A, W, R, L) /\ Apart(t, N, A, W, R)

(* What a step is to establish *)
Kept ==
  /\ Good(inode_table', d_inode', s_imap', names', at', work', ref', latest')
  /\ WaitsOK(names', at', work')

(* t goes on to a place, and the others stay. *)
LEMMA GotoMoves ==
  ASSUME NEW N, NEW A, NEW W, NEW R, NEW t \in Tasks, Apart(t, N, A, W, R),
         NEW place \in Places, NEW w \in Works, NEW r \in Slots \cup {NoSlot},
         Goto(t, place, w), ref' = [ref EXCEPT ![t] = r]
  PROVE  /\ Moves(t, A, W, R, at', work', ref')
         /\ at'[t] = place /\ work'[t] = w /\ ref'[t] = r
         /\ place # "found" => WaitsOK(N, at', work')
         /\ w.slot \in Slots /\ w.num \in N => WaitsOK(N, at', work')
<1>1. TasksTyped(at, work, ref)
  BY DEF Apart
<1>2. at' = [at EXCEPT ![t] = place] /\ work' = [work EXCEPT ![t] = w]
  BY DEF Goto
<1>3. TasksTyped(at', work', ref') /\ at'[t] = place /\ work'[t] = w /\ ref'[t] = r
  BY <1>1, <1>2 DEF TasksTyped
<1>4. \A u \in Tasks \ {t} : at'[u] = at[u] /\ work'[u] = work[u] /\ ref'[u] = ref[u]
  BY <1>1, <1>2 DEF TasksTyped
<1>5. Moves(t, A, W, R, at', work', ref')
  BY <1>3, <1>4 DEF Moves, Apart
<1>6. \A u \in Tasks \ {t} :
        at'[u] = "found" => work'[u].slot \in Slots /\ work'[u].num \in N
  BY <1>4 DEF Apart
<1>7. QED
  BY <1>3, <1>5, <1>6 DEF WaitsOK

(* The same, when t keeps its slot and what it has open *)
LEMMA GotoSlotMoves ==
  ASSUME NEW N, NEW A, NEW W, NEW R, NEW t \in Tasks, Apart(t, N, A, W, R),
         NEW place \in Places, NEW s \in Slots,
         GotoSlot(t, place, s), NEW r \in Slots \cup {NoSlot}, ref' = [ref EXCEPT ![t] = r],
         place # "found"
  PROVE  /\ Moves(t, A, W, R, at', work', ref')
         /\ at'[t] = place /\ work'[t].slot = s /\ ref'[t] = r
         /\ WaitsOK(N, at', work')
<1>1. \A w \in Works : [w EXCEPT !.slot = s] \in Works /\ [w EXCEPT !.slot = s].slot = s
  BY DEF Works
<1>2. PICK w \in Works : w.slot = s /\ Goto(t, place, w)
  BY <1>1 DEF Apart, TasksTyped, GotoSlot
<1>3. at' = [at EXCEPT ![t] = place] /\ work' = [work EXCEPT ![t] = w]
  BY <1>2 DEF Goto
<1>4. /\ TasksTyped(at, work, ref) /\ TasksTyped(at', work', ref')
      /\ at'[t] = place /\ work'[t] = w /\ ref'[t] = r
  BY <1>3 DEF TasksTyped, Apart
<1>5. \A u \in Tasks \ {t} : at'[u] = at[u] /\ work'[u] = work[u] /\ ref'[u] = ref[u]
  BY <1>3, <1>4 DEF TasksTyped
<1>6. Moves(t, A, W, R, at', work', ref')
  BY <1>4, <1>5 DEF Moves, Apart
<1>7. \A u \in Tasks \ {t} :
        at'[u] = "found" => work'[u].slot \in Slots /\ work'[u].num \in N
  BY <1>5 DEF Apart
<1>8. QED
  BY <1>2, <1>4, <1>6, <1>7 DEF WaitsOK

(* The same, when t goes back to its program *)
LEMMA ReturnMoves ==
  ASSUME NEW N, NEW A, NEW W, NEW R, NEW t \in Tasks, Apart(t, N, A, W, R),
         Return(t), ref' = [ref EXCEPT ![t] = NoSlot]
  PROVE  /\ Moves(t, A, W, R, at', work', ref')
         /\ at'[t] = "user" /\ ref'[t] = NoSlot
         /\ WaitsOK(N, at', work')
<1>1. NoWork \in Works /\ "user" \in Places
  BY DEF NoWork, Works, Places
<1>2. at' = [at EXCEPT ![t] = "user"] /\ work' = [work EXCEPT ![t] = NoWork]
  BY DEF Return, Goto
<1>3. /\ TasksTyped(at, work, ref) /\ TasksTyped(at', work', ref')
      /\ at'[t] = "user" /\ ref'[t] = NoSlot
  BY <1>1, <1>2 DEF TasksTyped, Apart
<1>4. \A u \in Tasks \ {t} : at'[u] = at[u] /\ work'[u] = work[u] /\ ref'[u] = ref[u]
  BY <1>2, <1>3 DEF TasksTyped
<1>5. Moves(t, A, W, R, at', work', ref')
  BY <1>3, <1>4 DEF Moves, Apart
<1>6. \A u \in Tasks \ {t} :
        at'[u] = "found" => work'[u].slot \in Slots /\ work'[u].num \in N
  BY <1>4 DEF Apart
<1>7. QED
  BY <1>3, <1>5, <1>6 DEF WaitsOK

(* A table changed in one slot *)
LEMMA TableSteps ==
  ASSUME NEW T \in [Slots -> Inode], NEW s \in Slots
  PROVE  /\ Alters(s, T, Locked(T, s)) /\ Alters(s, T, Counted(T, s))
         /\ T[s].i_count # 0 => Alters(s, T, Released(T, s))
         /\ Locked(T, s)[s].i_num = T[s].i_num /\ Locked(T, s)[s].i_count = T[s].i_count
         /\ Locked(T, s)[s].i_lock /\ Locked(T, s)[s].i_dirt = T[s].i_dirt
         /\ Locked(T, s)[s].d = T[s].d
         /\ Counted(T, s)[s].i_num = T[s].i_num
         /\ Counted(T, s)[s].i_count = T[s].i_count + 1
         /\ Counted(T, s)[s].i_lock = T[s].i_lock /\ Counted(T, s)[s].i_dirt = T[s].i_dirt
         /\ Counted(T, s)[s].d = T[s].d
         /\ Released(T, s)[s].i_num = T[s].i_num
         /\ Released(T, s)[s].i_count = T[s].i_count - 1
         /\ Released(T, s)[s].i_lock = T[s].i_lock /\ Released(T, s)[s].i_dirt = T[s].i_dirt
         /\ Released(T, s)[s].d = T[s].d
<1>1. T[s] \in Inode
  OBVIOUS
<1>2. /\ [T[s] EXCEPT !.i_lock = TRUE] \in Inode
      /\ [T[s] EXCEPT !.i_count = T[s].i_count + 1] \in Inode
      /\ T[s].i_count # 0 => [T[s] EXCEPT !.i_count = T[s].i_count - 1] \in Inode
  <2>1. \A x \in Inode : [x EXCEPT !.i_lock = TRUE] \in Inode
    BY DEF Inode
  <2>2. \A x \in Inode, k \in Nat : [x EXCEPT !.i_count = k] \in Inode
    BY DEF Inode
  <2>3. T[s].i_count \in Nat
    BY <1>1 DEF Inode
  <2>4. T[s].i_count + 1 \in Nat /\ (T[s].i_count # 0 => T[s].i_count - 1 \in Nat)
    BY <2>3
  <2>5. QED
    BY <2>1, <2>2, <2>4
<1>3. T[s].i_count # 0 => [T[s] EXCEPT !.i_count = @ - 1] \in Inode
  BY <1>2
<1>4. Alters(s, T, Locked(T, s)) /\ Alters(s, T, Counted(T, s))
  BY <1>2 DEF Alters, Locked, Counted
<1>5. T[s].i_count # 0 => Alters(s, T, Released(T, s))
  BY <1>3 DEF Alters, Released
<1>6. /\ Locked(T, s)[s] = [T[s] EXCEPT !.i_lock = TRUE]
      /\ Counted(T, s)[s] = [T[s] EXCEPT !.i_count = @ + 1]
      /\ Released(T, s)[s] = [T[s] EXCEPT !.i_count = @ - 1]
  BY DEF Locked, Counted, Released
<1>7. QED
  BY <1>4, <1>5, <1>6

-----------------------------------------------------------------------------
(* iput of an inode that is unlocked and has one user, t. *)
LEMMA PutLastStep ==
  ASSUME NEW T, NEW A, NEW W, NEW R, NEW t \in Tasks, NEW s \in Slots,
         Between(t, T, d_inode', s_imap', names', A, W, R, latest'),
         A[t] = "put", W[t].slot = s, R[t] = NoSlot, ref' = [ref EXCEPT ![t] = NoSlot],
         T[s].i_count = 1, ~ T[s].i_lock, PutLast(t, s, T)
  PROVE  Kept
<1>1. Good(T, d_inode', s_imap', names', A, W, R, latest') /\ T \in [Slots -> Inode]
  BY DEF Between, Good
<1>2. T[s].d.i_nlinks \in {0, 1}
  BY <1>1 DEF Inode, Contents
<1>0. Apart(t, names', A, W, R) /\ ref' = [ref EXCEPT ![t] = NoSlot]
  BY DEF Between
<1>3. "trunc" # "found" /\ "putwrite" # "found"
      /\ "trunc" \in Places /\ "putwrite" \in Places /\ NoSlot \in Slots \cup {NoSlot}
  BY DEF Places
<1>4. CASE T[s].d.i_nlinks = 0 /\ GotoSlot(t, "trunc", s) /\ inode_table' = T
  <2>1. /\ Moves(t, A, W, R, at', work', ref')
        /\ at'[t] = "trunc" /\ work'[t].slot = s /\ ref'[t] = NoSlot
        /\ WaitsOK(names', at', work')
    BY ONLY <1>0, <1>3, <1>4, GotoSlotMoves
  <2>2. Good(T, d_inode', s_imap', names', at', work', ref', latest')
    BY <1>1, <1>4, <2>1, TruncStep
  <2>3. QED
    BY <1>4, <2>1, <2>2 DEF Kept
<1>5. CASE /\ T[s].d.i_nlinks # 0 /\ T[s].i_dirt
           /\ GotoSlot(t, "putwrite", s) /\ inode_table' = Locked(T, s)
  <2>1. /\ Moves(t, A, W, R, at', work', ref')
        /\ at'[t] = "putwrite" /\ work'[t].slot = s /\ ref'[t] = NoSlot
        /\ WaitsOK(names', at', work')
    BY ONLY <1>0, <1>3, <1>5, GotoSlotMoves
  <2> DEFINE T2 == Locked(T, s)
  <2>2. /\ Alters(s, T, T2) /\ T2[s].i_num = T[s].i_num /\ T2[s].i_count = T[s].i_count
        /\ T2[s].i_lock /\ T2[s].i_dirt = T[s].i_dirt /\ T2[s].d = T[s].d
    BY <1>1, TableSteps
  <2> HIDE DEF T2
  <2>3. Good(T2, d_inode', s_imap', names', at', work', ref', latest')
    BY <1>1, <2>1, <2>2, PutWriteStep
  <2>4. QED
    BY <1>5, <2>1, <2>3 DEF Kept, T2
<1>6. CASE /\ T[s].d.i_nlinks # 0 /\ ~ T[s].i_dirt
           /\ Return(t) /\ inode_table' = Released(T, s)
  <2>1. /\ Moves(t, A, W, R, at', work', ref')
        /\ at'[t] = "user" /\ ref'[t] = NoSlot
        /\ WaitsOK(names', at', work')
    BY ONLY <1>0, <1>6, ReturnMoves
  <2> DEFINE T2 == Released(T, s)
  <2>2. /\ Alters(s, T, T2) /\ T2[s].i_num = T[s].i_num /\ T2[s].i_count = T[s].i_count - 1
        /\ T2[s].i_lock = T[s].i_lock /\ T2[s].i_dirt = T[s].i_dirt /\ T2[s].d = T[s].d
    BY <1>1, TableSteps
  <2> HIDE DEF T2
  <2>3. Good(T2, d_inode', s_imap', names', at', work', ref', latest')
    <3>1. T[s].i_count > 1 \/ (T[s].d.i_nlinks = 1 /\ ~ T[s].i_dirt /\ ~ T[s].i_lock)
      BY <1>2, <1>6
    <3>2. A[t] = "put" /\ W[t].slot = s /\ R[t] = NoSlot
      OBVIOUS
    <3>3. QED
      BY ONLY <1>1, <2>1, <2>2, <3>1, <3>2, DropStep
  <2>4. QED
    BY <1>6, <2>1, <2>3 DEF Kept, T2
<1>7. QED
  BY <1>4, <1>5, <1>6 DEF PutLast

(* iput *)
LEMMA PutStep ==
  ASSUME NEW T, NEW A, NEW W, NEW R, NEW t \in Tasks, NEW s \in Slots,
         Between(t, T, d_inode', s_imap', names', A, W, R, latest'),
         A[t] = "put", W[t].slot = s, R[t] = NoSlot, ref' = [ref EXCEPT ![t] = NoSlot],
         iput(t, s, T)
  PROVE  Kept
<1>1. Good(T, d_inode', s_imap', names', A, W, R, latest') /\ T \in [Slots -> Inode]
  BY DEF Between, Good
<1>0. Apart(t, names', A, W, R) /\ ref' = [ref EXCEPT ![t] = NoSlot]
  BY DEF Between
<1>2. "put" # "found" /\ "put" \in Places /\ NoSlot \in Slots \cup {NoSlot}
  BY DEF Places
<1>3. CASE T[s].i_lock /\ GotoSlot(t, "put", s) /\ inode_table' = T
  <2>1. /\ Moves(t, A, W, R, at', work', ref')
        /\ at'[t] = "put" /\ work'[t].slot = s /\ ref'[t] = NoSlot
        /\ WaitsOK(names', at', work')
    BY ONLY <1>0, <1>2, <1>3, GotoSlotMoves
  <2>2. Good(T, d_inode', s_imap', names', at', work', ref', latest')
    BY <1>1, <2>1, PutStayStep
  <2>3. QED
    BY <1>3, <2>1, <2>2 DEF Kept
<1>4. CASE /\ ~ T[s].i_lock /\ T[s].i_count > 1
           /\ Return(t) /\ inode_table' = Released(T, s)
  <2>1. /\ Moves(t, A, W, R, at', work', ref')
        /\ at'[t] = "user" /\ ref'[t] = NoSlot
        /\ WaitsOK(names', at', work')
    BY ONLY <1>0, <1>4, ReturnMoves
  <2> DEFINE T2 == Released(T, s)
  <2>2. T[s].i_count # 0
    BY <1>4
  <2>3. /\ Alters(s, T, T2) /\ T2[s].i_num = T[s].i_num /\ T2[s].i_count = T[s].i_count - 1
        /\ T2[s].i_lock = T[s].i_lock /\ T2[s].i_dirt = T[s].i_dirt /\ T2[s].d = T[s].d
    BY <1>1, <2>2, TableSteps
  <2> HIDE DEF T2
  <2>4. Good(T2, d_inode', s_imap', names', at', work', ref', latest')
    <3>1. T[s].i_count > 1 \/ (T[s].d.i_nlinks = 1 /\ ~ T[s].i_dirt /\ ~ T[s].i_lock)
      BY <1>4
    <3>2. A[t] = "put" /\ W[t].slot = s /\ R[t] = NoSlot
      OBVIOUS
    <3>3. QED
      BY ONLY <1>1, <2>1, <2>3, <3>1, <3>2, DropStep
  <2>5. QED
    BY <1>4, <2>1, <2>4 DEF Kept, T2
<1>5. CASE ~ T[s].i_lock /\ T[s].i_count = 1 /\ PutLast(t, s, T)
  BY <1>5, PutLastStep
<1>6. QED
  BY <1>3, <1>4, <1>5 DEF iput

(* What a task does with the inode it has got *)
LEMMA GotStep ==
  ASSUME NEW T, NEW A, NEW W, NEW R, NEW t \in Tasks, NEW s \in Slots, NEW op,
         Between(t, T, d_inode', s_imap', names, A, W, R, latest'),
         A[t] = "put", W[t].slot = s, R[t] = NoSlot, ref[t] = NoSlot,
         odd' = "no", Got(t, op, s, T)
  PROVE  Kept
<1>1. Good(T, d_inode', s_imap', names, A, W, R, latest') /\ T \in [Slots -> Inode]
      /\ Apart(t, names, A, W, R) /\ TasksTyped(at, work, ref) /\ TasksTyped(A, W, R)
  BY DEF Between, Good, Apart
<1>2. CASE /\ op = "open" /\ inode_table' = T
           /\ Return(t) /\ ref' = [ref EXCEPT ![t] = s]
           /\ UNCHANGED <<names, odd>>
  <2>2. /\ Moves(t, A, W, R, at', work', ref') /\ at'[t] = "user" /\ ref'[t] = s
        /\ WaitsOK(names, at', work')
    <3>1. /\ at' = [at EXCEPT ![t] = "user"] /\ work' = [work EXCEPT ![t] = NoWork]
          /\ ref' = [ref EXCEPT ![t] = s]
      BY <1>2 DEF Return, Goto
    <3>2. NoWork \in Works /\ "user" \in Places
      BY DEF NoWork, Works, Places
    <3>3. TasksTyped(at', work', ref') /\ at'[t] = "user" /\ ref'[t] = s
      BY <1>1, <3>1, <3>2 DEF TasksTyped
    <3>4. \A u \in Tasks \ {t} : at'[u] = at[u] /\ work'[u] = work[u] /\ ref'[u] = ref[u]
      BY <1>1, <3>1 DEF TasksTyped
    <3>5. Moves(t, A, W, R, at', work', ref')
      BY <1>1, <3>3, <3>4 DEF Moves, Apart
    <3>6. WaitsOK(names, at', work')
      BY <1>1, <3>3, <3>4 DEF WaitsOK, Apart
    <3>7. QED
      BY <3>3, <3>5, <3>6
  <2>3. Good(T, d_inode', s_imap', names, at', work', ref', latest')
    BY <1>1, <2>2, OpenStep
  <2>4. inode_table' = T /\ names' = names
    BY <1>2
  <2>5. QED
    BY <2>2, <2>3, <2>4 DEF Kept
<1>3. CASE /\ op = "unlink" /\ names' = names \ {T[s].i_num}
           /\ odd' = IF \E u \in Tasks \ {t} : at[u] = "found" /\ work[u].num = T[s].i_num
                     THEN "stale" ELSE odd
           /\ iput(t, s, [T EXCEPT ![s].d.i_nlinks = 0, ![s].i_dirt = TRUE])
           /\ ref' = ref
  <2> DEFINE T2 == [T EXCEPT ![s].d.i_nlinks = 0, ![s].i_dirt = TRUE]
  <2>1. \A x \in Inode :
          /\ [x EXCEPT !.d.i_nlinks = 0, !.i_dirt = TRUE] \in Inode
          /\ [x EXCEPT !.d.i_nlinks = 0, !.i_dirt = TRUE].i_num = x.i_num
          /\ [x EXCEPT !.d.i_nlinks = 0, !.i_dirt = TRUE].i_count = x.i_count
          /\ [x EXCEPT !.d.i_nlinks = 0, !.i_dirt = TRUE].i_lock = x.i_lock
          /\ [x EXCEPT !.d.i_nlinks = 0, !.i_dirt = TRUE].i_dirt
          /\ [x EXCEPT !.d.i_nlinks = 0, !.i_dirt = TRUE].d.i_nlinks = 0
    <3>1. \A c \in Contents : /\ [c EXCEPT !.i_nlinks = 0] \in Contents
                              /\ [c EXCEPT !.i_nlinks = 0].i_nlinks = 0
      BY DEF Contents
    <3>2. \A x \in Inode, c \in Contents :
            /\ [x EXCEPT !.d = c, !.i_dirt = TRUE] \in Inode
            /\ [x EXCEPT !.d = c, !.i_dirt = TRUE].i_num = x.i_num
            /\ [x EXCEPT !.d = c, !.i_dirt = TRUE].i_count = x.i_count
            /\ [x EXCEPT !.d = c, !.i_dirt = TRUE].i_lock = x.i_lock
            /\ [x EXCEPT !.d = c, !.i_dirt = TRUE].i_dirt
            /\ [x EXCEPT !.d = c, !.i_dirt = TRUE].d = c
      BY DEF Inode
    <3>3. \A x \in Inode : x.d \in Contents
      BY DEF Inode
    <3>4. \A x \in Inode : [x EXCEPT !.d.i_nlinks = 0, !.i_dirt = TRUE]
                             = [x EXCEPT !.d = [x.d EXCEPT !.i_nlinks = 0], !.i_dirt = TRUE]
      BY DEF Inode
    <3>5. TAKE x \in Inode
    <3> DEFINE c == [x.d EXCEPT !.i_nlinks = 0]
    <3>6. c \in Contents /\ c.i_nlinks = 0
      BY <3>1, <3>3
    <3> DEFINE y == [x EXCEPT !.d = c, !.i_dirt = TRUE]
               z == [x EXCEPT !.d.i_nlinks = 0, !.i_dirt = TRUE]
    <3>7. z = y
      BY <3>4
    <3> HIDE DEF c
    <3>8. /\ y \in Inode /\ y.i_num = x.i_num /\ y.i_count = x.i_count
          /\ y.i_lock = x.i_lock /\ y.i_dirt /\ y.d.i_nlinks = 0
      BY <3>2, <3>6
    <3> HIDE DEF y, z
    <3>9. /\ z \in Inode /\ z.i_num = x.i_num /\ z.i_count = x.i_count
          /\ z.i_lock = x.i_lock /\ z.i_dirt /\ z.d.i_nlinks = 0
      BY <3>7, <3>8
    <3>10. QED
      BY <3>9 DEF z
  <2>2. T2 = [T EXCEPT ![s] = [T[s] EXCEPT !.d.i_nlinks = 0, !.i_dirt = TRUE]]
    BY <1>1
  <2>3. T[s] \in Inode
    BY <1>1
  <2>4. /\ Alters(s, T, T2) /\ T2[s].i_num = T[s].i_num /\ T2[s].i_count = T[s].i_count
        /\ T2[s].i_lock = T[s].i_lock /\ T2[s].i_dirt /\ T2[s].d.i_nlinks = 0
    <3> DEFINE x2 == [T[s] EXCEPT !.d.i_nlinks = 0, !.i_dirt = TRUE]
    <3>1. /\ x2 \in Inode /\ x2.i_num = T[s].i_num /\ x2.i_count = T[s].i_count
          /\ x2.i_lock = T[s].i_lock /\ x2.i_dirt /\ x2.d.i_nlinks = 0
      BY <2>1, <2>3
    <3>2. T2 = [T EXCEPT ![s] = x2]
      BY <2>2
    <3> HIDE DEF x2, T2
    <3>3. QED
      BY <1>1, <3>1, <3>2 DEF Alters
  <2>5. Moves(t, A, W, R, A, W, R)
    BY <1>1 DEF Moves
  <2>6. iput(t, s, T2)
    BY <1>3
  <2> HIDE DEF T2
  <2>7. Good(T2, d_inode', s_imap', names', A, W, R, latest')
    <3>1. names' = names \ {T[s].i_num}
      BY <1>3
    <3>2. A[t] = "put" /\ W[t].slot = s /\ R[t] = NoSlot
      OBVIOUS
    <3>3. QED
      BY ONLY <1>1, <2>4, <2>5, <3>1, <3>2, UnlinkStep
  <2>9. Apart(t, names', A, W, R)
    BY <1>1, <1>3 DEF Apart
  <2>10. ref' = [ref EXCEPT ![t] = NoSlot]
    BY <1>1, <1>3 DEF TasksTyped
  <2>11. Between(t, T2, d_inode', s_imap', names', A, W, R, latest')
    BY <2>7, <2>9 DEF Between
  <2>12. A[t] = "put" /\ W[t].slot = s /\ R[t] = NoSlot
    OBVIOUS
  <2>13. QED
    BY ONLY <2>6, <2>10, <2>11, <2>12, PutStep
<1>4. QED
  BY <1>2, <1>3 DEF Got

(* iget has found the inode unlocked, and has the empty slot e in hand. *)
LEMMA HitKept ==
  ASSUME NEW T, NEW A, NEW W, NEW R, NEW t \in Tasks, NEW s \in Slots, NEW e \in Slots, NEW w,
         Between(t, T, d_inode', s_imap', names, A, W, R, latest'),
         A[t] = "found", W[t].empty = e, R[t] = NoSlot, ref[t] = NoSlot,
         T[s].i_num \in names, ~ T[s].i_lock, odd' = "no", Hit(t, w, s, e, T)
  PROVE  Kept
<1> DEFINE T1 == Counted(T, s)
           T2 == Released(T1, e)
           A2 == [A EXCEPT ![t] = "put"]
           W2 == [W EXCEPT ![t] = [NoWork EXCEPT !.slot = s]]
<1>1. Good(T, d_inode', s_imap', names, A, W, R, latest') /\ T \in [Slots -> Inode]
      /\ Apart(t, names, A, W, R) /\ TasksTyped(A, W, R)
  BY DEF Between, Good, Apart
<1>2. [NoWork EXCEPT !.slot = s] \in Works /\ [NoWork EXCEPT !.slot = s].slot = s
      /\ "put" \in Places
  BY DEF NoWork, Works, Places
<1>3. TasksTyped(A2, W2, R) /\ A2[t] = "put" /\ W2[t].slot = s
  BY <1>1, <1>2 DEF TasksTyped
<1>4. \A u \in Tasks \ {t} : A2[u] = A[u] /\ W2[u] = W[u]
  BY <1>1 DEF TasksTyped
<1>5. Moves(t, A, W, R, A2, W2, R)
  BY <1>3, <1>4 DEF Moves
<1>6. Apart(t, names, A2, W2, R)
  BY <1>1, <1>4 DEF Apart
<1>7. T[e].i_num = 0 /\ T[s].i_num # 0 /\ s # e
  BY <1>1, Basics DEF Good, PlacesOK, PlaceOK, Typed
<1>8. T[e].i_count # 0
  BY <1>1, FewUsers DEF Good, Uses
<1>9. Alters(s, T, T1) /\ T1 \in [Slots -> Inode]
      /\ T1[s].i_num = T[s].i_num /\ T1[s].i_count = T[s].i_count + 1
      /\ T1[s].i_lock = T[s].i_lock /\ T1[s].i_dirt = T[s].i_dirt /\ T1[s].d = T[s].d
  BY <1>1, TableSteps DEF Alters
<1> HIDE DEF T1
<1>10. T1[e] = T[e]
  BY <1>7, <1>9 DEF Alters
<1>11. Alters(e, T1, T2) /\ T2 \in [Slots -> Inode]
      /\ T2[e].i_num = T1[e].i_num /\ T2[e].i_count = T1[e].i_count - 1
      /\ T2[e].i_lock = T1[e].i_lock /\ T2[e].i_dirt = T1[e].i_dirt
  BY <1>8, <1>9, <1>10, TableSteps DEF Alters
<1>12. Got(t, w.op, s, T2)
  BY DEF Hit, T1
<1> HIDE DEF T2, A2, W2
<1>13. /\ T2 \in [Slots -> Inode] /\ \A x \in Slots \ {s, e} : T2[x] = T[x]
       /\ T2[s] = T1[s]
  BY <1>7, <1>9, <1>11 DEF Alters
<1>14. Good(T2, d_inode', s_imap', names, A2, W2, R, latest')
  <2>1. A[t] = "found" /\ W[t].empty = e /\ T[s].i_num \in names /\ ~ T[s].i_lock
    OBVIOUS
  <2>2. /\ T2[s].i_num = T[s].i_num /\ T2[s].i_count = T[s].i_count + 1 /\ ~ T2[s].i_lock
        /\ T2[s].i_dirt = T[s].i_dirt /\ T2[s].d = T[s].d
        /\ T2[e].i_num = T[e].i_num /\ T2[e].i_count = T[e].i_count - 1
        /\ T2[e].i_lock = T[e].i_lock /\ T2[e].i_dirt = T[e].i_dirt
    BY <1>9, <1>10, <1>11, <1>13
  <2>3. QED
    BY ONLY <1>1, <1>3, <1>5, <1>13, <2>1, <2>2, HitStep
<1>15. Between(t, T2, d_inode', s_imap', names, A2, W2, R, latest')
  BY <1>6, <1>14 DEF Between
<1>16. R[t] = NoSlot /\ ref[t] = NoSlot /\ odd' = "no"
  OBVIOUS
<1>17. QED
  BY ONLY <1>3, <1>12, <1>15, <1>16, GotStep

(* The loop of iget over the table *)
LEMMA SearchStep ==
  ASSUME NEW T, NEW A, NEW W, NEW R, NEW t \in Tasks, NEW e \in Slots, NEW w \in Works,
         Between(t, T, d_inode', s_imap', names, A, W, R, latest'),
         A[t] = "found", W[t].empty = e, R[t] = NoSlot, ref[t] = NoSlot,
         w.num \in names, odd' = "no", Search(t, w, e, T)
  PROVE  Kept
<1> DEFINE same == {s \in Slots : T[s].i_num = w.num}
<1>1. Good(T, d_inode', s_imap', names, A, W, R, latest') /\ T \in [Slots -> Inode]
      /\ Apart(t, names, A, W, R) /\ TasksTyped(at, work, ref)
  BY DEF Between, Good, Apart
<1>2. w.num \in Nums /\ w.num # 0
  BY <1>1, Basics DEF Good, Typed
<1>3. same # {} => Min(same) \in same
  <2>1. SUFFICES ASSUME NEW s \in same PROVE Min(same) \in same
    OBVIOUS
  <2>2. same = {s}
    BY <1>1, <1>2 DEF Good, One
  <2>3. s \in Nat
    BY Basics
  <2> HIDE DEF same
  <2>4. Min(same) = s
    BY <2>2, <2>3 DEF Min
  <2>5. QED
    BY <2>1, <2>4
<1>4. "read" \in Places /\ "found" \in Places /\ ref' = ref =>
        ref' = [ref EXCEPT ![t] = NoSlot]
  BY <1>1 DEF TasksTyped
<1>5. "read" \in Places /\ "found" \in Places /\ NoSlot \in Slots \cup {NoSlot}
  BY DEF Places
<1>6. CASE same = {} /\ Claim(t, w, e, T)
  <2> DEFINE w2 == [w EXCEPT !.slot = e]
             T2 == [T EXCEPT ![e].i_num = w.num, ![e].i_lock = TRUE]
  <2>1. w2 \in Works /\ w2.slot = e
    BY DEF Works
  <2>2. inode_table' = T2 /\ Goto(t, "read", w2) /\ names' = names /\ ref' = ref
    BY <1>6 DEF Claim
  <2>3. T[e] \in Inode
    BY <1>1
  <2>4. \A x \in Inode, n \in Nums :
          /\ [x EXCEPT !.i_num = n, !.i_lock = TRUE] \in Inode
          /\ [x EXCEPT !.i_num = n, !.i_lock = TRUE].i_num = n
          /\ [x EXCEPT !.i_num = n, !.i_lock = TRUE].i_lock
          /\ [x EXCEPT !.i_num = n, !.i_lock = TRUE].i_count = x.i_count
          /\ [x EXCEPT !.i_num = n, !.i_lock = TRUE].i_dirt = x.i_dirt
    BY DEF Inode
  <2>5. T2 = [T EXCEPT ![e] = [T[e] EXCEPT !.i_num = w.num, !.i_lock = TRUE]]
    BY <1>1
  <2>6. /\ Alters(e, T, T2) /\ T2[e].i_num = w.num /\ T2[e].i_lock
        /\ T2[e].i_count = T[e].i_count /\ T2[e].i_dirt = T[e].i_dirt
    <3> DEFINE x2 == [T[e] EXCEPT !.i_num = w.num, !.i_lock = TRUE]
    <3>1. /\ x2 \in Inode /\ x2.i_num = w.num /\ x2.i_lock
          /\ x2.i_count = T[e].i_count /\ x2.i_dirt = T[e].i_dirt
      BY <1>2, <2>3, <2>4
    <3>2. T2 = [T EXCEPT ![e] = x2]
      BY <2>5
    <3> HIDE DEF x2, T2
    <3>3. QED
      BY <1>1, <3>1, <3>2 DEF Alters
  <2> HIDE DEF w2, T2
  <2>7. \A x \in Slots : T[x].i_num # w.num
    BY <1>6
  <2>8. /\ Moves(t, A, W, R, at', work', ref')
        /\ at'[t] = "read" /\ work'[t] = w2 /\ ref'[t] = NoSlot
        /\ "read" # "found" => WaitsOK(names, at', work')
    BY ONLY <1>1, <1>4, <1>5, <2>1, <2>2, GotoMoves
  <2>9. Good(T2, d_inode', s_imap', names, at', work', ref', latest')
    <3>1. A[t] = "found" /\ W[t].empty = e /\ R[t] = NoSlot /\ w.num \in names
      OBVIOUS
    <3>2. work'[t].slot = e /\ ref'[t] = R[t]
      BY <2>1, <2>8
    <3>3. QED
      BY ONLY <1>1, <1>2, <2>6, <2>7, <2>8, <3>1, <3>2, ClaimStep
  <2>10. QED
    BY <2>2, <2>8, <2>9 DEF Kept
<1>7. CASE same # {} /\ T[Min(same)].i_lock
           /\ Goto(t, "found", [w EXCEPT !.slot = Min(same), !.empty = e])
           /\ inode_table' = T /\ UNCHANGED <<names, ref, odd>>
  <2> DEFINE w2 == [w EXCEPT !.slot = Min(same), !.empty = e]
  <2>1. w2 \in Works /\ w2.slot \in Slots /\ w2.empty = e /\ w2.num = w.num
    BY <1>3, <1>7 DEF Works
  <2>2. inode_table' = T /\ Goto(t, "found", w2) /\ names' = names /\ ref' = ref
    BY <1>7
  <2> HIDE DEF w2
  <2>3. /\ Moves(t, A, W, R, at', work', ref')
        /\ at'[t] = "found" /\ work'[t] = w2 /\ ref'[t] = NoSlot
        /\ w2.slot \in Slots /\ w2.num \in names => WaitsOK(names, at', work')
    BY ONLY <1>1, <1>4, <1>5, <2>1, <2>2, GotoMoves
  <2>4. Good(T, d_inode', s_imap', names, at', work', ref', latest')
    BY <1>1, <2>1, <2>3, WaitStep
  <2>5. QED
    BY <2>1, <2>2, <2>3, <2>4 DEF Kept
<1>8. CASE same # {} /\ ~ T[Min(same)].i_lock /\ Hit(t, w, Min(same), e, T)
  <2>1. Min(same) \in Slots /\ T[Min(same)].i_num \in names
    BY <1>3, <1>8
  <2>2. A[t] = "found" /\ W[t].empty = e /\ R[t] = NoSlot /\ ref[t] = NoSlot /\ odd' = "no"
        /\ Between(t, T, d_inode', s_imap', names, A, W, R, latest')
    OBVIOUS
  <2> HIDE DEF same
  <2>3. QED
    BY ONLY <1>8, <2>1, <2>2, HitKept
<1>9. QED
  BY <1>6, <1>7, <1>8 DEF Search

(* A set of naturals that is not empty has its minimum. *)
LEMMA MinIsMember ==
  ASSUME NEW S \in SUBSET Nat, S # {}
  PROVE  Min(S) \in S /\ \A y \in S : Min(S) <= y
<1> DEFINE R == OpToRel(<, Nat)
<1>1. PICK m \in S : \A y \in S : <<y, m>> \notin R
  <2>1. IsWellFoundedOn(R, Nat)
    BY NatLessThanWellFounded
  <2>2. QED
    BY <2>1, WFMin
<1>2. \A y \in S : m <= y
  <2>1. TAKE y \in S
  <2>2. m \in Nat /\ y \in Nat
    OBVIOUS
  <2>3. ~(y < m)
    BY <1>1 DEF OpToRel
  <2>4. QED
    BY <2>2, <2>3
<1>3. QED
  BY <1>2 DEF Min

(* The same, when t keeps what it has open: at a slot, or in its program *)
LEMMA SlotStays ==
  ASSUME NEW N, NEW A, NEW W, NEW R, NEW t \in Tasks, Apart(t, N, A, W, R),
         NEW place \in Places, NEW s \in Slots,
         GotoSlot(t, place, s), ref' = ref, place # "found"
  PROVE  /\ Moves(t, A, W, R, at', work', ref')
         /\ at'[t] = place /\ work'[t].slot = s /\ ref'[t] = ref[t]
         /\ WaitsOK(N, at', work')
<1>1. \A w \in Works : [w EXCEPT !.slot = s] \in Works /\ [w EXCEPT !.slot = s].slot = s
  BY DEF Works
<1>2. PICK w \in Works : w.slot = s /\ Goto(t, place, w)
  BY <1>1 DEF Apart, TasksTyped, GotoSlot
<1>3. at' = [at EXCEPT ![t] = place] /\ work' = [work EXCEPT ![t] = w]
  BY <1>2 DEF Goto
<1>4. /\ TasksTyped(at, work, ref) /\ TasksTyped(at', work', ref')
      /\ at'[t] = place /\ work'[t] = w
  BY <1>3 DEF TasksTyped, Apart
<1>5. \A u \in Tasks \ {t} : at'[u] = at[u] /\ work'[u] = work[u] /\ ref'[u] = ref[u]
  BY <1>3, <1>4 DEF TasksTyped
<1>6. Moves(t, A, W, R, at', work', ref')
  BY <1>4, <1>5 DEF Moves, Apart
<1>7. \A u \in Tasks \ {t} :
        at'[u] = "found" => work'[u].slot \in Slots /\ work'[u].num \in N
  BY <1>5 DEF Apart
<1>8. QED
  BY <1>2, <1>4, <1>6, <1>7 DEF WaitsOK

(* The same, when t goes back to its program                               *)
LEMMA ReturnStays ==
  ASSUME NEW N, NEW A, NEW W, NEW R, NEW t \in Tasks, Apart(t, N, A, W, R),
         Return(t), ref' = ref
  PROVE  /\ Moves(t, A, W, R, at', work', ref')
         /\ at'[t] = "user" /\ ref'[t] = ref[t]
         /\ WaitsOK(N, at', work')
<1>1. NoWork \in Works /\ "user" \in Places
  BY DEF NoWork, Works, Places
<1>2. at' = [at EXCEPT ![t] = "user"] /\ work' = [work EXCEPT ![t] = NoWork]
  BY DEF Return, Goto
<1>3. TasksTyped(at, work, ref) /\ TasksTyped(at', work', ref') /\ at'[t] = "user"
  BY <1>1, <1>2 DEF TasksTyped, Apart
<1>4. \A u \in Tasks \ {t} : at'[u] = at[u] /\ work'[u] = work[u] /\ ref'[u] = ref[u]
  BY <1>2, <1>3 DEF TasksTyped
<1>5. Moves(t, A, W, R, at', work', ref')
  BY <1>3, <1>4 DEF Moves, Apart
<1>6. \A u \in Tasks \ {t} :
        at'[u] = "found" => work'[u].slot \in Slots /\ work'[u].num \in N
  BY <1>4 DEF Apart
<1>7. QED
  BY <1>3, <1>5, <1>6 DEF WaitsOK

(* sync_inodes: it goes on to the first inode that is locked or dirty. *)
LEMMA SyncFromStep ==
  ASSUME NEW T, NEW A, NEW W, NEW R, NEW t \in Tasks, NEW s,
         Between(t, T, d_inode', s_imap', names', A, W, R, latest'),
         A[t] \in {"user", "sync"}, R[t] = ref[t], ref' = ref, SyncFrom(t, s, T)
  PROVE  Kept
<1> DEFINE todo == {x \in Slots : x >= s /\ (T[x].i_lock \/ T[x].i_dirt)}
           x == Min(todo)
<1>1. Good(T, d_inode', s_imap', names', A, W, R, latest') /\ T \in [Slots -> Inode]
      /\ Apart(t, names', A, W, R) /\ TasksTyped(at, work, ref)
  BY DEF Between, Good, Apart
<1>2. todo # {} => x \in Slots /\ (T[x].i_lock \/ T[x].i_dirt)
  <2>1. todo \in SUBSET Nat
    BY Basics
  <2>2. todo # {} => x \in todo
    BY <2>1, MinIsMember
  <2>3. QED
    BY <2>2
<1>3. ref' = ref
  OBVIOUS
<1>4. "sync" \in Places /\ "syncwrite" \in Places /\ "sync" # "found" /\ "syncwrite" # "found"
  BY DEF Places
<1> HIDE DEF todo, x
<1>5. CASE todo = {} /\ Return(t) /\ inode_table' = T
  <2>1. Moves(t, A, W, R, at', work', ref') /\ at'[t] = "user" /\ ref'[t] = ref[t]
        /\ WaitsOK(names', at', work')
    BY ONLY <1>1, <1>3, <1>5, ReturnStays
  <2>2. Good(T, d_inode', s_imap', names', at', work', ref', latest')
    BY <1>1, <2>1, SyncGoStep
  <2>3. QED
    BY <1>5, <2>1, <2>2 DEF Kept
<1>6. CASE todo # {} /\ T[x].i_lock /\ GotoSlot(t, "sync", x) /\ inode_table' = T
  <2>1. x \in Slots
    BY <1>2, <1>6
  <2>2. Moves(t, A, W, R, at', work', ref') /\ at'[t] = "sync" /\ work'[t].slot = x
        /\ ref'[t] = ref[t] /\ WaitsOK(names', at', work')
    BY ONLY <1>1, <1>3, <1>4, <1>6, <2>1, SlotStays
  <2>3. Good(T, d_inode', s_imap', names', at', work', ref', latest')
    BY <1>1, <2>1, <2>2, SyncGoStep
  <2>4. QED
    BY <1>6, <2>2, <2>3 DEF Kept
<1>7. CASE /\ todo # {} /\ ~ T[x].i_lock /\ GotoSlot(t, "syncwrite", x)
           /\ inode_table' = Locked(T, x)
  <2>1. x \in Slots /\ T[x].i_dirt /\ ~ T[x].i_lock
    BY <1>2, <1>7
  <2>2. Moves(t, A, W, R, at', work', ref') /\ at'[t] = "syncwrite" /\ work'[t].slot = x
        /\ ref'[t] = ref[t] /\ WaitsOK(names', at', work')
    BY ONLY <1>1, <1>3, <1>4, <1>7, <2>1, SlotStays
  <2> DEFINE T2 == Locked(T, x)
  <2>3. /\ Alters(x, T, T2) /\ T2[x].i_num = T[x].i_num /\ T2[x].i_count = T[x].i_count
        /\ T2[x].i_lock /\ T2[x].i_dirt = T[x].i_dirt /\ T2[x].d = T[x].d
    BY <1>1, <2>1, TableSteps
  <2> HIDE DEF T2
  <2>4. Good(T2, d_inode', s_imap', names', at', work', ref', latest')
    <3>1. A[t] \in {"user", "sync"} /\ ref'[t] = R[t]
      BY <2>2
    <3>2. QED
      BY ONLY <1>1, <2>1, <2>2, <2>3, <3>1, SyncLockStep, ZenonT(60)
  <2>5. QED
    BY <1>7, <2>2, <2>4 DEF Kept, T2
<1>8. QED
  BY <1>5, <1>6, <1>7 DEF SyncFrom, todo, x

-----------------------------------------------------------------------------
(* As long as no race has happened, every task is between two steps.       *)
LEMMA Here ==
  ASSUME InodeInv, odd = "no", NEW t \in Tasks
  PROVE  /\ Between(t, inode_table, d_inode, s_imap, names, at, work, ref, latest)
         /\ Good(inode_table, d_inode, s_imap, names, at, work, ref, latest)
         /\ Apart(t, names, at, work, ref) /\ TasksTyped(at, work, ref)
         /\ inode_table \in [Slots -> Inode] /\ last_allocated_inode \in Slots /\ odd \in Odd
         /\ PlaceOK(inode_table, names, at, work, ref, t)
<1>1. Good(inode_table, d_inode, s_imap, names, at, work, ref, latest)
      /\ WaitsOK(names, at, work)
  BY DEF InodeInv
<1>2. TasksTyped(at, work, ref)
  BY <1>1 DEF Good
<1>3. Apart(t, names, at, work, ref)
  BY <1>1, <1>2 DEF Apart, WaitsOK
<1>4. PlaceOK(inode_table, names, at, work, ref, t)
  BY <1>1 DEF Good, PlacesOK
<1>5. QED
  BY <1>3, <1>4 DEF Between, Good, InodeInv

(* So it is enough to show of a step that nothing races, or else Kept.     *)
LEMMA Established ==
  ASSUME odd' \in Odd, last_allocated_inode' \in Slots, odd' = "no" => Kept
  PROVE  InodeInv'
BY DEF InodeInv, Kept

(* The bits of Got and of the iput in it that are about races *)
LEMMA GotOdd ==
  ASSUME NEW t, NEW op, NEW s, NEW T, Got(t, op, s, T), odd \in Odd
  PROVE  odd' \in Odd
BY DEF Got, Odd

(* And so of the loop of iget                                              *)
LEMMA SearchOdd ==
  ASSUME NEW t, NEW w, NEW e, NEW T, Search(t, w, e, T), odd \in Odd
  PROVE  odd' \in Odd
BY GotOdd DEF Search, Claim, Hit

(* The state in iget and new_inode behind get_empty_inode *)
LEMMA InHand ==
  ASSUME InodeInv, odd = "no", NEW t \in Tasks, NEW s \in Slots,
         at[t] = "user", ref[t] = NoSlot, get_empty_inode(s)
  PROVE  /\ last_allocated_inode' \in Slots
         /\ Emptied(s)[s].i_count = 1 /\ Emptied(s)[s].i_num = 0
         /\ ~ Emptied(s)[s].i_lock /\ ~ Emptied(s)[s].i_dirt
         /\ \E A, W :
              /\ Between(t, Emptied(s), d_inode, s_imap, names, A, W, ref, latest)
              /\ A[t] = "found" /\ W[t].empty = s
<1> DEFINE T2 == Emptied(s)
           w == [NoWork EXCEPT !.empty = s]
           A == [at EXCEPT ![t] = "found"]
           W == [work EXCEPT ![t] = w]
<1>1. /\ Good(inode_table, d_inode, s_imap, names, at, work, ref, latest)
      /\ Apart(t, names, at, work, ref) /\ TasksTyped(at, work, ref)
      /\ inode_table \in [Slots -> Inode]
  BY Here
<1>2. last_allocated_inode' \in Slots /\ inode_table[s].i_count = 0
  BY DEF get_empty_inode
<1>3. w \in Works /\ w.empty = s /\ "found" \in Places
  BY DEF NoWork, Works, Places
<1> HIDE DEF w
<1>4. TasksTyped(A, W, ref) /\ A[t] = "found" /\ W[t].empty = s
  BY <1>1, <1>3 DEF TasksTyped
<1>5. \A u \in Tasks \ {t} : A[u] = at[u] /\ W[u] = work[u]
  BY <1>1 DEF TasksTyped
<1> HIDE DEF A, W
<1>6. Moves(t, at, work, ref, A, W, ref)
  BY <1>4, <1>5 DEF Moves
<1>7. Apart(t, names, A, W, ref)
  BY <1>1, <1>5 DEF Apart
<1>8. /\ [NoInode EXCEPT !.i_count = 1] \in Inode
      /\ [NoInode EXCEPT !.i_count = 1].i_count = 1 /\ [NoInode EXCEPT !.i_count = 1].i_num = 0
      /\ ~ [NoInode EXCEPT !.i_count = 1].i_lock /\ ~ [NoInode EXCEPT !.i_count = 1].i_dirt
  <2> DEFINE c == [i_nlinks |-> 0, ver |-> 0]
             y == [i_num |-> 0, i_count |-> 0, i_lock |-> FALSE, i_dirt |-> FALSE, d |-> c]
  <2>1. c \in Contents
    BY DEF Contents
  <2>2. NoInode = y
    BY Zenon DEF NoInode
  <2> HIDE DEF c
  <2>3. y \in Inode /\ y.i_num = 0 /\ ~ y.i_lock /\ ~ y.i_dirt
    BY <2>1 DEF Inode
  <2>4. \A x \in Inode :
          /\ [x EXCEPT !.i_count = 1] \in Inode /\ [x EXCEPT !.i_count = 1].i_count = 1
          /\ [x EXCEPT !.i_count = 1].i_num = x.i_num
          /\ [x EXCEPT !.i_count = 1].i_lock = x.i_lock
          /\ [x EXCEPT !.i_count = 1].i_dirt = x.i_dirt
    BY DEF Inode
  <2> HIDE DEF y
  <2>5. QED
    BY ONLY <2>2, <2>3, <2>4
<1>9. /\ Alters(s, inode_table, T2) /\ T2[s].i_count = 1 /\ T2[s].i_num = 0
      /\ ~ T2[s].i_lock /\ ~ T2[s].i_dirt
  BY <1>1, <1>8 DEF Emptied, Alters
<1> HIDE DEF T2
<1>10. Good(T2, d_inode, s_imap, names, A, W, ref, latest)
  <2>1. at[t] = "user" /\ ref[t] = NoSlot
    OBVIOUS
  <2>2. QED
    BY ONLY <1>1, <1>2, <1>4, <1>6, <1>9, <2>1, TakeStep
<1>11. Between(t, T2, d_inode, s_imap, names, A, W, ref, latest)
  BY <1>7, <1>10 DEF Between
<1>12. QED
  BY <1>2, <1>4, <1>9, <1>11 DEF T2

(* open and unlink: iget up to its first sleep                             *)
LEMMA IgetKeeps ==
  ASSUME InodeInv, odd = "no", NEW t \in Tasks, NEW op \in {"open", "unlink"}, NEW n \in Nums,
         iget(t, op, n)
  PROVE  InodeInv'
<1> DEFINE w == [NoWork EXCEPT !.op = op, !.num = n]
<1>1. PICK s \in Slots : get_empty_inode(s) /\ Search(t, w, s, Emptied(s))
  BY DEF iget
<1>2. w \in Works /\ w.num = n
  BY DEF NoWork, Works
<1> HIDE DEF w
<1>3. at[t] = "user" /\ ref[t] = NoSlot /\ n \in names
      /\ d_inode' = d_inode /\ s_imap' = s_imap /\ latest' = latest
  BY DEF iget
<1>4. /\ last_allocated_inode' \in Slots
      /\ \E A, W :
           /\ Between(t, Emptied(s), d_inode, s_imap, names, A, W, ref, latest)
           /\ A[t] = "found" /\ W[t].empty = s
  BY <1>1, <1>3, InHand
<1>5. odd' \in Odd
  BY <1>1, SearchOdd DEF InodeInv
<1>6. ASSUME odd' = "no" PROVE Kept
  <2>1. PICK A, W : /\ Between(t, Emptied(s), d_inode, s_imap, names, A, W, ref, latest)
                    /\ A[t] = "found" /\ W[t].empty = s
    BY <1>4
  <2>3. QED
    BY ONLY <1>1, <1>2, <1>3, <1>6, <2>1, SearchStep
<1>7. QED
  BY <1>4, <1>5, <1>6, Established

(* new_inode takes inode n, whose bit is clear, into its empty slot s. *)
Created(T, s, n) ==
  [T EXCEPT ![s].i_num = n, ![s].i_dirt = TRUE, ![s].d = [i_nlinks |-> 1, ver |-> 0]]

(* What its slot holds then, and that the others stay *)
LEMMA CreatedSlot ==
  ASSUME NEW T \in [Slots -> Inode], NEW s \in Slots, NEW n \in Nums
  PROVE  /\ Alters(s, T, Created(T, s, n)) /\ Created(T, s, n)[s].i_num = n
         /\ Created(T, s, n)[s].i_count = T[s].i_count
         /\ Created(T, s, n)[s].i_lock = T[s].i_lock /\ Created(T, s, n)[s].i_dirt
         /\ Created(T, s, n)[s].d.i_nlinks = 1 /\ Created(T, s, n)[s].d.ver = 0
<1> DEFINE c == [i_nlinks |-> 1, ver |-> 0]
           y == [T[s] EXCEPT !.i_num = n, !.i_dirt = TRUE, !.d = c]
           T2 == [T EXCEPT ![s].i_num = n, ![s].i_dirt = TRUE, ![s].d = c]
<1>1. c \in Contents /\ c.i_nlinks = 1 /\ c.ver = 0
  BY DEF Contents
<1>2. T2 = [T EXCEPT ![s] = y]
  OBVIOUS
<1> HIDE DEF c
<1>3. \A x \in Inode :
        LET z == [x EXCEPT !.i_num = n, !.i_dirt = TRUE, !.d = c] IN
        /\ z \in Inode /\ z.i_num = n /\ z.i_count = x.i_count /\ z.i_lock = x.i_lock
        /\ z.i_dirt /\ z.d = c
  BY <1>1, Basics DEF Inode
<1>4. /\ y \in Inode /\ y.i_num = n /\ y.i_count = T[s].i_count /\ y.i_lock = T[s].i_lock
      /\ y.i_dirt /\ y.d = c
  BY <1>3
<1> HIDE DEF y, T2
<1>5. /\ Alters(s, T, T2) /\ T2[s].i_num = n /\ T2[s].i_count = T[s].i_count
      /\ T2[s].i_lock = T[s].i_lock /\ T2[s].i_dirt
      /\ T2[s].d.i_nlinks = 1 /\ T2[s].d.ver = 0
  BY <1>1, <1>2, <1>4 DEF Alters
<1>6. QED
  BY <1>5 DEF T2, c, Created

(* creat: new_inode up to add_entry                                        *)
LEMMA NewInodeKeeps ==
  ASSUME InodeInv, odd = "no", NEW t \in Tasks, new_inode(t)
  PROVE  InodeInv'
<1> DEFINE free == Nums \ s_imap
           n == Min(free)
<1>1. PICK s \in Slots :
        /\ get_empty_inode(s)
        /\ \/ /\ free = {} /\ inode_table' = Released(Emptied(s), s)
              /\ UNCHANGED <<at, work, s_imap, latest>>
           \/ /\ free # {} /\ s_imap' = s_imap \cup {n} /\ latest' = [latest EXCEPT ![n] = 0]
              /\ inode_table' = [Emptied(s) EXCEPT
                                   ![s].i_num = n, ![s].i_dirt = TRUE,
                                   ![s].d = [i_nlinks |-> 1, ver |-> 0]]
              /\ Goto(t, "link", [NoWork EXCEPT !.slot = s])
  BY DEF new_inode
<1>2. at[t] = "user" /\ ref[t] = NoSlot
      /\ d_inode' = d_inode /\ names' = names /\ ref' = ref /\ odd' = odd
  BY DEF new_inode
<1>3. free # {} => n \in Nums /\ n \notin s_imap
  <2>1. free \in SUBSET Nat
    BY Basics
  <2>2. free # {} => n \in free
    BY <2>1, MinIsMember
  <2>3. QED
    BY <2>2
<1> HIDE DEF free, n
<1> DEFINE T == Emptied(s)
<1>4. /\ last_allocated_inode' \in Slots
      /\ T[s].i_count = 1 /\ T[s].i_num = 0 /\ ~ T[s].i_lock /\ ~ T[s].i_dirt
      /\ \E A, W : /\ Between(t, T, d_inode, s_imap, names, A, W, ref, latest)
                   /\ A[t] = "found" /\ W[t].empty = s
  BY <1>1, <1>2, InHand
<1>5. PICK A, W : /\ Between(t, T, d_inode, s_imap, names, A, W, ref, latest)
                  /\ A[t] = "found" /\ W[t].empty = s
  BY <1>4
<1>6. Good(T, d_inode, s_imap, names, A, W, ref, latest) /\ T \in [Slots -> Inode]
      /\ Apart(t, names, A, W, ref) /\ TasksTyped(at, work, ref)
      /\ Typed(d_inode, s_imap, names, latest)
  BY <1>5 DEF Between, Good, Apart
<1>7. ASSUME free = {}, inode_table' = Released(T, s), UNCHANGED <<at, work, s_imap, latest>>
      PROVE  Kept
  <2> DEFINE T2 == Released(T, s)
  <2>1. /\ Alters(s, T, T2) /\ T2[s].i_num = T[s].i_num /\ T2[s].i_count = T[s].i_count - 1
        /\ T2[s].i_lock = T[s].i_lock /\ T2[s].i_dirt = T[s].i_dirt
    BY <1>4, <1>6, TableSteps
  <2> HIDE DEF T2, T
  <2>2. Moves(t, A, W, ref, at', work', ref')
    BY <1>2, <1>6, <1>7 DEF Moves, Apart
  <2>3. WaitsOK(names', at', work')
    BY <1>2, <1>7 DEF InodeInv
  <2>4. at'[t] = "user" /\ ref'[t] = ref[t]
    BY <1>2, <1>7
  <2>5. Good(T2, d_inode, s_imap, names, at', work', ref', latest)
    BY ONLY <1>5, <1>6, <2>1, <2>2, <2>4, GiveBackStep
  <2>6. inode_table' = T2 /\ s_imap' = s_imap /\ latest' = latest
    BY <1>7 DEF T2
  <2>7. QED
    BY <1>2, <2>3, <2>5, <2>6 DEF Kept
<1>8. ASSUME free # {}, s_imap' = s_imap \cup {n}, latest' = [latest EXCEPT ![n] = 0],
             inode_table' = [T EXCEPT ![s].i_num = n, ![s].i_dirt = TRUE,
                                      ![s].d = [i_nlinks |-> 1, ver |-> 0]],
             Goto(t, "link", [NoWork EXCEPT !.slot = s])
      PROVE  Kept
  <2> DEFINE T2 == Created(T, s, n)
             w == [NoWork EXCEPT !.slot = s]
  <2>1. n \in Nums /\ n \notin s_imap
    BY <1>3, <1>8
  <2> HIDE DEF T
  <2>2. /\ Alters(s, T, T2) /\ T2[s].i_num = n /\ T2[s].i_count = T[s].i_count
        /\ T2[s].i_lock = T[s].i_lock /\ T2[s].i_dirt
        /\ T2[s].d.i_nlinks = 1 /\ T2[s].d.ver = 0
    BY <1>6, <2>1, CreatedSlot
  <2>3. inode_table' = T2
    BY <1>8 DEF Created
  <2> HIDE DEF T2
  <2>4. w \in Works /\ w.slot = s /\ "link" \in Places /\ "link" # "found"
        /\ NoSlot \in Slots \cup {NoSlot}
    BY DEF NoWork, Works, Places
  <2>5. Goto(t, "link", w)
    BY <1>8
  <2> HIDE DEF w
  <2>6. ref' = [ref EXCEPT ![t] = NoSlot]
    BY <1>2, <1>6 DEF TasksTyped
  <2>7. /\ Moves(t, A, W, ref, at', work', ref')
        /\ at'[t] = "link" /\ work'[t] = w /\ ref'[t] = NoSlot
        /\ "link" # "found" => WaitsOK(names, at', work')
    BY ONLY <1>6, <2>4, <2>5, <2>6, GotoMoves
  <2>8. /\ latest' \in [Nums -> 0 .. 1] /\ latest'[n] = 0
        /\ \A m \in Nums \ {n} : latest'[m] = latest[m]
    BY <1>6, <1>8, <2>1 DEF Typed
  <2>9. Good(T2, d_inode, s_imap', names, at', work', ref', latest')
    <3>1. ref'[t] = ref[t] /\ work'[t].slot = s /\ ~ T2[s].i_lock /\ s_imap' = s_imap \cup {n}
      BY <1>2, <1>4, <1>8, <2>2, <2>4, <2>7
    <3>2. QED
      BY ONLY <1>5, <1>6, <2>1, <2>2, <2>7, <2>8, <3>1, CreateStep
  <2>10. QED
    BY <1>2, <2>3, <2>7, <2>9 DEF Kept
<1>9. Kept
  BY <1>1, <1>7, <1>8
<1>10. QED
  BY <1>2, <1>4, <1>9, Established DEF Odd

(* Behind the wait in iget: the same inode, or the loop from the start *)
LEMMA FoundReturnKeeps ==
  ASSUME InodeInv, odd = "no", NEW t \in Tasks, FoundReturn(t)
  PROVE  InodeInv'
<1> DEFINE w == work[t]
<1>1. /\ Between(t, inode_table, d_inode, s_imap, names, at, work, ref, latest)
      /\ TasksTyped(at, work, ref) /\ last_allocated_inode \in Slots /\ odd \in Odd
      /\ PlaceOK(inode_table, names, at, work, ref, t)
  BY Here
<1>2. /\ at[t] = "found" /\ ~ inode_table[w.slot].i_lock
      /\ d_inode' = d_inode /\ s_imap' = s_imap /\ latest' = latest
      /\ last_allocated_inode' = last_allocated_inode
  BY DEF FoundReturn, Unlocked
<1>3. w \in Works /\ w.slot \in Slots /\ w.num \in names
  BY <1>1, <1>2 DEF TasksTyped, InodeInv, WaitsOK
<1>4. ref[t] = NoSlot /\ w.empty \in Slots
  BY <1>1, <1>2 DEF PlaceOK
<1>5. Between(t, inode_table, d_inode', s_imap', names, at, work, ref, latest')
  BY <1>1, <1>2
<1>6. \/ inode_table[w.slot].i_num = w.num /\ Hit(t, w, w.slot, w.empty, inode_table)
      \/ Search(t, w, w.empty, inode_table)
  BY DEF FoundReturn
<1>7. odd' \in Odd
  BY <1>1, <1>6, GotOdd, SearchOdd DEF Hit
<1>8. work[t].empty = w.empty
  OBVIOUS
<1> HIDE DEF w
<1>9. ASSUME odd' = "no", inode_table[w.slot].i_num = w.num,
             Hit(t, w, w.slot, w.empty, inode_table)
      PROVE  Kept
  <2>2. QED
    BY ONLY <1>2, <1>3, <1>4, <1>5, <1>8, <1>9, HitKept
<1>10. ASSUME odd' = "no", Search(t, w, w.empty, inode_table) PROVE Kept
  BY ONLY <1>2, <1>3, <1>4, <1>5, <1>8, <1>10, SearchStep
<1>11. QED
  BY <1>1, <1>2, <1>6, <1>7, <1>9, <1>10, Established

(* The end of read_inode, and what the task does with the inode *)
LEMMA ReadReturnKeeps ==
  ASSUME InodeInv, odd = "no", NEW t \in Tasks, ReadReturn(t)
  PROVE  InodeInv'
<1> DEFINE s == work[t].slot
           c == d_inode[inode_table[s].i_num]
           T2 == [inode_table EXCEPT ![s].d = c, ![s].i_lock = FALSE]
           A == [at EXCEPT ![t] = "put"]
<1>1. /\ Good(inode_table, d_inode, s_imap, names, at, work, ref, latest)
      /\ Apart(t, names, at, work, ref) /\ inode_table \in [Slots -> Inode]
      /\ TasksTyped(at, work, ref) /\ last_allocated_inode \in Slots /\ odd \in Odd
      /\ PlaceOK(inode_table, names, at, work, ref, t)
      /\ d_inode \in [Nums -> Contents] /\ names \subseteq Nums
  BY Here DEF Good, Typed
<1>2. /\ at[t] = "read" /\ Got(t, work[t].op, s, T2)
      /\ d_inode' = d_inode /\ s_imap' = s_imap /\ latest' = latest
      /\ last_allocated_inode' = last_allocated_inode
  BY DEF ReadReturn
<1>3. s \in Slots /\ inode_table[s].i_num \in Nums /\ ref[t] = NoSlot
  BY <1>1, <1>2 DEF PlaceOK, Holding
<1>4. c \in Contents
  BY <1>1, <1>3
<1>5. /\ Alters(s, inode_table, T2) /\ T2[s].i_num = inode_table[s].i_num
      /\ T2[s].i_count = inode_table[s].i_count /\ ~ T2[s].i_lock
      /\ T2[s].i_dirt = inode_table[s].i_dirt /\ T2[s].d = c
  <2> DEFINE y == [inode_table[s] EXCEPT !.d = c, !.i_lock = FALSE]
  <2>1. T2 = [inode_table EXCEPT ![s] = y]
    BY <1>1, <1>3
  <2> HIDE DEF c
  <2>2. \A x \in Inode :
          /\ [x EXCEPT !.d = c, !.i_lock = FALSE] \in Inode
          /\ [x EXCEPT !.d = c, !.i_lock = FALSE].i_num = x.i_num
          /\ [x EXCEPT !.d = c, !.i_lock = FALSE].i_count = x.i_count
          /\ ~ [x EXCEPT !.d = c, !.i_lock = FALSE].i_lock
          /\ [x EXCEPT !.d = c, !.i_lock = FALSE].i_dirt = x.i_dirt
          /\ [x EXCEPT !.d = c, !.i_lock = FALSE].d = c
    BY <1>4 DEF Inode
  <2>3. /\ y \in Inode /\ y.i_num = inode_table[s].i_num
        /\ y.i_count = inode_table[s].i_count /\ ~ y.i_lock
        /\ y.i_dirt = inode_table[s].i_dirt /\ y.d = c
    BY <1>1, <1>3, <2>2
  <2> HIDE DEF y, T2
  <2>4. QED
    BY <1>1, <1>3, <2>1, <2>3 DEF Alters
<1>6. work[t].slot = s /\ T2[s].d = d_inode[inode_table[s].i_num]
  BY <1>5
<1> HIDE DEF T2, c, s
<1>7. "put" \in Places
  BY DEF Places
<1>8. TasksTyped(A, work, ref) /\ A[t] = "put" /\ \A u \in Tasks \ {t} : A[u] = at[u]
  BY <1>1, <1>7 DEF TasksTyped
<1> HIDE DEF A
<1>9. Moves(t, at, work, ref, A, work, ref) /\ Apart(t, names, A, work, ref)
  BY <1>1, <1>8 DEF Moves, Apart
<1>10. Good(T2, d_inode, s_imap, names, A, work, ref, latest)
  BY ONLY <1>1, <1>2, <1>3, <1>5, <1>6, <1>8, <1>9, ReadEndStep
<1>11. Between(t, T2, d_inode', s_imap', names, A, work, ref, latest')
  BY <1>2, <1>9, <1>10 DEF Between
<1>12. odd' \in Odd
  BY <1>1, <1>2, GotOdd
<1>13. ASSUME odd' = "no" PROVE Kept
  BY ONLY <1>2, <1>3, <1>6, <1>8, <1>11, <1>13, GotStep
<1>14. QED
  BY <1>1, <1>2, <1>12, <1>13, Established

(* iput, behind its wait for the lock *)
LEMMA PutReturnKeeps ==
  ASSUME InodeInv, odd = "no", NEW t \in Tasks, PutReturn(t)
  PROVE  InodeInv'
<1> DEFINE s == work[t].slot
<1>1. /\ Between(t, inode_table, d_inode, s_imap, names, at, work, ref, latest)
      /\ TasksTyped(at, work, ref) /\ last_allocated_inode \in Slots /\ odd \in Odd
      /\ PlaceOK(inode_table, names, at, work, ref, t)
  BY Here
<1>2. /\ at[t] = "put" /\ iput(t, s, inode_table)
      /\ d_inode' = d_inode /\ s_imap' = s_imap /\ names' = names /\ latest' = latest
      /\ last_allocated_inode' = last_allocated_inode /\ ref' = ref /\ odd' = odd
  BY DEF PutReturn
<1>3. s \in Slots /\ ref[t] = NoSlot /\ work[t].slot = s
  BY <1>1, <1>2 DEF PlaceOK, Holding
<1>4. ref' = [ref EXCEPT ![t] = NoSlot]
  BY <1>1, <1>2, <1>3 DEF TasksTyped
<1>5. Between(t, inode_table, d_inode', s_imap', names', at, work, ref, latest')
  BY <1>1, <1>2
<1> HIDE DEF s
<1>6. Kept
  BY ONLY <1>2, <1>3, <1>4, <1>5, PutStep
<1>7. QED
  BY <1>1, <1>2, <1>6, Established

(* The end of a write_inode of slot s *)
LEMMA WrittenSlot ==
  ASSUME NEW s \in Slots, inode_table \in [Slots -> Inode], d_inode \in [Nums -> Contents],
         inode_table[s].i_num \in Nums, write_inode(s)
  PROVE  /\ Alters(s, inode_table, Written(s))
         /\ Written(s)[s].i_num = inode_table[s].i_num
         /\ Written(s)[s].i_count = inode_table[s].i_count
         /\ ~ Written(s)[s].i_lock /\ ~ Written(s)[s].i_dirt
         /\ Written(s)[s].d = inode_table[s].d
         /\ d_inode' \in [Nums -> Contents] /\ d_inode'[inode_table[s].i_num] = inode_table[s].d
         /\ \A m \in Nums \ {inode_table[s].i_num} : d_inode'[m] = d_inode[m]
<1> DEFINE y == [inode_table[s] EXCEPT !.i_dirt = FALSE, !.i_lock = FALSE]
<1>1. Written(s) = [inode_table EXCEPT ![s] = y]
  BY DEF Written
<1>2. \A x \in Inode :
        /\ [x EXCEPT !.i_dirt = FALSE, !.i_lock = FALSE] \in Inode
        /\ [x EXCEPT !.i_dirt = FALSE, !.i_lock = FALSE].i_num = x.i_num
        /\ [x EXCEPT !.i_dirt = FALSE, !.i_lock = FALSE].i_count = x.i_count
        /\ ~ [x EXCEPT !.i_dirt = FALSE, !.i_lock = FALSE].i_lock
        /\ ~ [x EXCEPT !.i_dirt = FALSE, !.i_lock = FALSE].i_dirt
        /\ [x EXCEPT !.i_dirt = FALSE, !.i_lock = FALSE].d = x.d
  BY DEF Inode
<1>3. inode_table[s] \in Inode /\ inode_table[s].d \in Contents
  BY DEF Inode
<1>4. /\ y \in Inode /\ y.i_num = inode_table[s].i_num
      /\ y.i_count = inode_table[s].i_count /\ ~ y.i_lock /\ ~ y.i_dirt
      /\ y.d = inode_table[s].d
  BY <1>2, <1>3
<1> HIDE DEF y
<1>5. /\ Alters(s, inode_table, Written(s)) /\ Written(s)[s] = y
  BY <1>1, <1>4 DEF Alters
<1>6. /\ d_inode' \in [Nums -> Contents] /\ d_inode'[inode_table[s].i_num] = inode_table[s].d
      /\ \A m \in Nums \ {inode_table[s].i_num} : d_inode'[m] = d_inode[m]
  BY <1>3 DEF write_inode
<1>7. QED
  BY <1>4, <1>5, <1>6

(* iput, behind its write_inode *)
LEMMA PutWriteReturnKeeps ==
  ASSUME InodeInv, odd = "no", NEW t \in Tasks, PutWriteReturn(t)
  PROVE  InodeInv'
<1> DEFINE s == work[t].slot
           T2 == Written(s)
           A == [at EXCEPT ![t] = "put"]
<1>1. /\ Good(inode_table, d_inode, s_imap, names, at, work, ref, latest)
      /\ Apart(t, names, at, work, ref) /\ inode_table \in [Slots -> Inode]
      /\ TasksTyped(at, work, ref) /\ last_allocated_inode \in Slots /\ odd \in Odd
      /\ PlaceOK(inode_table, names, at, work, ref, t)
      /\ d_inode \in [Nums -> Contents]
  BY Here DEF Good, Typed
<1>2. /\ at[t] = "putwrite" /\ write_inode(s) /\ PutLast(t, s, T2)
      /\ s_imap' = s_imap /\ names' = names /\ latest' = latest
      /\ last_allocated_inode' = last_allocated_inode /\ ref' = ref /\ odd' = odd
  BY DEF PutWriteReturn
<1>3. s \in Slots /\ inode_table[s].i_num # 0 /\ ref[t] = NoSlot /\ work[t].slot = s
  BY <1>1, <1>2 DEF PlaceOK, Holding
<1>4. inode_table[s].i_num \in Nums
  BY <1>1, <1>3 DEF Inode
<1>5. inode_table[s].i_count = 1
  <2>1. \A u \in Tasks : Uses(at, work, ref, u, s) <=> u = t
    BY <1>1, <1>2 DEF Good, AloneOK, Alone, Uses, Holding
  <2>2. UsersIn(at, work, ref, s) = {t}
    BY <2>1 DEF UsersIn
  <2>3. QED
    BY <1>1, <1>3, <2>2, FS_Singleton DEF Good, CountsOK
<1> HIDE DEF s
<1>6. /\ Alters(s, inode_table, T2) /\ T2[s].i_num = inode_table[s].i_num
      /\ T2[s].i_count = inode_table[s].i_count /\ ~ T2[s].i_lock /\ ~ T2[s].i_dirt
      /\ T2[s].d = inode_table[s].d
      /\ d_inode' \in [Nums -> Contents] /\ d_inode'[inode_table[s].i_num] = inode_table[s].d
      /\ \A m \in Nums \ {inode_table[s].i_num} : d_inode'[m] = d_inode[m]
  BY <1>1, <1>2, <1>3, <1>4, WrittenSlot
<1> HIDE DEF T2
<1>7. "put" \in Places
  BY DEF Places
<1>8. TasksTyped(A, work, ref) /\ A[t] = "put" /\ \A u \in Tasks \ {t} : A[u] = at[u]
  BY <1>1, <1>7 DEF TasksTyped
<1> HIDE DEF A
<1>9. Moves(t, at, work, ref, A, work, ref) /\ Apart(t, names, A, work, ref)
  BY <1>1, <1>8 DEF Moves, Apart
<1>10. Good(T2, d_inode', s_imap, names, A, work, ref, latest)
  BY ONLY <1>1, <1>2, <1>3, <1>6, <1>8, <1>9, PutWrittenStep
<1>11. Between(t, T2, d_inode', s_imap', names', A, work, ref, latest')
  BY <1>2, <1>9, <1>10 DEF Between
<1>12. ref' = [ref EXCEPT ![t] = NoSlot]
  BY <1>1, <1>2, <1>3 DEF TasksTyped
<1>13. T2[s].i_count = 1 /\ ~ T2[s].i_lock
  BY <1>5, <1>6
<1>14. Kept
  BY ONLY <1>2, <1>3, <1>8, <1>11, <1>12, <1>13, PutLastStep
<1>15. QED
  BY <1>1, <1>2, <1>14, Established

(* free_inode, unless it races with sync *)
LEMMA FreeInodeKeeps ==
  ASSUME InodeInv, odd = "no", NEW t \in Tasks, free_inode(t)
  PROVE  InodeInv'
<1> DEFINE s == work[t].slot
           T2 == [inode_table EXCEPT ![s] = NoInode]
<1>1. /\ Good(inode_table, d_inode, s_imap, names, at, work, ref, latest)
      /\ Apart(t, names, at, work, ref) /\ inode_table \in [Slots -> Inode]
      /\ TasksTyped(at, work, ref) /\ last_allocated_inode \in Slots /\ odd \in Odd
      /\ PlaceOK(inode_table, names, at, work, ref, t)
  BY Here
<1>2. /\ at[t] = "trunc" /\ odd' = IF inode_table[s].i_lock THEN "wiped" ELSE odd
      /\ s_imap' = s_imap \ {inode_table[s].i_num} /\ inode_table' = T2 /\ Return(t)
      /\ d_inode' = d_inode /\ names' = names /\ latest' = latest
      /\ last_allocated_inode' = last_allocated_inode /\ ref' = ref
  BY DEF free_inode
<1>3. s \in Slots /\ work[t].slot = s
  BY <1>1, <1>2 DEF PlaceOK, Holding
<1> HIDE DEF s
<1>4. NoInode \in Inode /\ NoInode.i_num = 0 /\ NoInode.i_count = 0
      /\ ~ NoInode.i_lock /\ ~ NoInode.i_dirt
  BY DEF NoInode, Inode, Contents
<1>5. /\ Alters(s, inode_table, T2) /\ T2[s].i_num = 0 /\ T2[s].i_count = 0
      /\ ~ T2[s].i_lock /\ ~ T2[s].i_dirt
  BY <1>1, <1>3, <1>4 DEF Alters
<1> HIDE DEF T2
<1>6. /\ Moves(t, at, work, ref, at', work', ref')
      /\ at'[t] = "user" /\ ref'[t] = ref[t]
      /\ WaitsOK(names, at', work')
  BY ONLY <1>1, <1>2, ReturnStays
<1>7. ASSUME odd' = "no" PROVE Kept
  <2>1. ~ inode_table[s].i_lock
    BY <1>2, <1>7
  <2>2. Good(T2, d_inode, s_imap', names, at', work', ref', latest)
    BY ONLY <1>1, <1>2, <1>3, <1>5, <1>6, <2>1, FreeStep
  <2>3. QED
    BY <1>2, <1>6, <2>2 DEF Kept
<1>8. odd' \in Odd
  BY <1>1, <1>2 DEF Odd
<1>9. QED
  BY <1>1, <1>2, <1>7, <1>8, Established

(* A slot whose contents change: one that loses its link *)
LEMMA UnlinkedSlot ==
  ASSUME NEW T \in [Slots -> Inode], NEW s \in Slots
  PROVE  \E T2 : /\ T2 = [T EXCEPT ![s].d.i_nlinks = 0]
                 /\ Alters(s, T, T2) /\ T2[s].i_num = T[s].i_num
                 /\ T2[s].i_count = T[s].i_count /\ T2[s].i_lock = T[s].i_lock
                 /\ T2[s].i_dirt = T[s].i_dirt /\ T2[s].d.i_nlinks = 0
<1> DEFINE c == [T[s].d EXCEPT !.i_nlinks = 0]
           y == [T[s] EXCEPT !.d = c]
           T2 == [T EXCEPT ![s].d.i_nlinks = 0]
<1>1. T[s] \in Inode /\ T[s].d \in Contents
  BY DEF Inode
<1>2. c \in Contents /\ c.i_nlinks = 0
  BY <1>1 DEF Contents
<1>3. T2 = [T EXCEPT ![s] = y]
  OBVIOUS
<1> HIDE DEF c
<1>4. \A x \in Inode :
        /\ [x EXCEPT !.d = c] \in Inode
        /\ [x EXCEPT !.d = c].i_num = x.i_num /\ [x EXCEPT !.d = c].i_count = x.i_count
        /\ [x EXCEPT !.d = c].i_lock = x.i_lock /\ [x EXCEPT !.d = c].i_dirt = x.i_dirt
        /\ [x EXCEPT !.d = c].d = c
  BY <1>2 DEF Inode
<1>5. /\ y \in Inode /\ y.i_num = T[s].i_num /\ y.i_count = T[s].i_count
      /\ y.i_lock = T[s].i_lock /\ y.i_dirt = T[s].i_dirt /\ y.d = c
  BY <1>1, <1>4
<1> HIDE DEF y
<1>6. T2 = [T EXCEPT ![s].d.i_nlinks = 0]
  OBVIOUS
<1> HIDE DEF T2
<1>7. /\ Alters(s, T, T2) /\ T2[s].i_num = T[s].i_num
      /\ T2[s].i_count = T[s].i_count /\ T2[s].i_lock = T[s].i_lock
      /\ T2[s].i_dirt = T[s].i_dirt /\ T2[s].d.i_nlinks = 0
  BY <1>2, <1>3, <1>5 DEF Alters
<1>8. QED
  BY <1>6, <1>7

(* One that is written to, and is dirty then *)
Modified(T, s, new) == [T EXCEPT ![s].d.ver = new, ![s].i_dirt = TRUE]

(* What the slot holds then *)
LEMMA ModifiedSlot ==
  ASSUME NEW T \in [Slots -> Inode], NEW s \in Slots, NEW new \in 0 .. 1
  PROVE  /\ Alters(s, T, Modified(T, s, new)) /\ Modified(T, s, new)[s].i_num = T[s].i_num
         /\ Modified(T, s, new)[s].i_count = T[s].i_count
         /\ Modified(T, s, new)[s].i_lock = T[s].i_lock /\ Modified(T, s, new)[s].i_dirt
         /\ Modified(T, s, new)[s].d.i_nlinks = T[s].d.i_nlinks
         /\ Modified(T, s, new)[s].d.ver = new
<1> DEFINE c == [T[s].d EXCEPT !.ver = new]
           y == [T[s] EXCEPT !.d = c, !.i_dirt = TRUE]
           T2 == Modified(T, s, new)
<1>1. T[s] \in Inode /\ T[s].d \in Contents
  BY DEF Inode
<1>2. c \in Contents /\ c.i_nlinks = T[s].d.i_nlinks /\ c.ver = new
  BY <1>1 DEF Contents
<1>3. T2 = [T EXCEPT ![s] = y]
  BY DEF Modified
<1> HIDE DEF c
<1>4. \A x \in Inode :
        /\ [x EXCEPT !.d = c, !.i_dirt = TRUE] \in Inode
        /\ [x EXCEPT !.d = c, !.i_dirt = TRUE].i_num = x.i_num
        /\ [x EXCEPT !.d = c, !.i_dirt = TRUE].i_count = x.i_count
        /\ [x EXCEPT !.d = c, !.i_dirt = TRUE].i_lock = x.i_lock
        /\ [x EXCEPT !.d = c, !.i_dirt = TRUE].i_dirt
        /\ [x EXCEPT !.d = c, !.i_dirt = TRUE].d = c
  BY <1>2 DEF Inode
<1>5. /\ y \in Inode /\ y.i_num = T[s].i_num /\ y.i_count = T[s].i_count
      /\ y.i_lock = T[s].i_lock /\ y.i_dirt /\ y.d = c
  BY <1>1, <1>4
<1> HIDE DEF y
<1> HIDE DEF T2
<1>6. /\ Alters(s, T, T2) /\ T2[s].i_num = T[s].i_num
      /\ T2[s].i_count = T[s].i_count /\ T2[s].i_lock = T[s].i_lock
      /\ T2[s].i_dirt /\ T2[s].d.i_nlinks = T[s].d.i_nlinks /\ T2[s].d.ver = new
  BY <1>2, <1>3, <1>5 DEF Alters
<1>7. QED
  BY <1>6 DEF T2

(* add_entry gives the inode its name, or takes its link away. *)
LEMMA AddEntryKeeps ==
  ASSUME InodeInv, odd = "no", NEW t \in Tasks, NEW fits \in BOOLEAN, AddEntry(t, fits)
  PROVE  InodeInv'
<1> DEFINE s == work[t].slot
<1>1. /\ Good(inode_table, d_inode, s_imap, names, at, work, ref, latest)
      /\ Apart(t, names, at, work, ref) /\ inode_table \in [Slots -> Inode]
      /\ TasksTyped(at, work, ref) /\ last_allocated_inode \in Slots /\ odd \in Odd
      /\ PlaceOK(inode_table, names, at, work, ref, t)
  BY Here
<1>2. /\ at[t] = "link"
      /\ d_inode' = d_inode /\ s_imap' = s_imap /\ latest' = latest
      /\ last_allocated_inode' = last_allocated_inode /\ odd' = odd
  BY DEF AddEntry
<1>3. s \in Slots /\ work[t].slot = s /\ ref[t] = NoSlot
  BY <1>1, <1>2 DEF PlaceOK, Holding
<1>4. \/ /\ Return(t) /\ ref' = [ref EXCEPT ![t] = s]
         /\ names' = names \cup {inode_table[s].i_num} /\ inode_table' = inode_table
      \/ /\ iput(t, s, [inode_table EXCEPT ![s].d.i_nlinks = 0])
         /\ names' = names /\ ref' = ref
  BY DEF AddEntry
<1> HIDE DEF s
<1>5. ASSUME Return(t), ref' = [ref EXCEPT ![t] = s],
             names' = names \cup {inode_table[s].i_num}, inode_table' = inode_table
      PROVE  Kept
  <2>1. /\ at' = [at EXCEPT ![t] = "user"] /\ work' = [work EXCEPT ![t] = NoWork]
    BY <1>5 DEF Return, Goto
  <2>2. NoWork \in Works /\ "user" \in Places
    BY DEF NoWork, Works, Places
  <2>3. TasksTyped(at', work', ref') /\ at'[t] = "user" /\ ref'[t] = s
    BY <1>1, <1>3, <1>5, <2>1, <2>2 DEF TasksTyped
  <2>4. \A u \in Tasks \ {t} : at'[u] = at[u] /\ work'[u] = work[u] /\ ref'[u] = ref[u]
    BY <1>5, <2>1
  <2>5. Moves(t, at, work, ref, at', work', ref')
    BY <2>3, <2>4 DEF Moves
  <2>6. WaitsOK(names', at', work')
    BY <1>1, <1>5, <2>3, <2>4 DEF WaitsOK, Apart
  <2>7. Good(inode_table, d_inode, s_imap, names', at', work', ref', latest)
    <3>1. names' = names \cup {inode_table[s].i_num} /\ at[t] = "link"
      BY <1>2, <1>5
    <3>2. QED
      BY ONLY <1>1, <1>3, <2>3, <2>5, <3>1, LinkStep
  <2>8. QED
    BY <1>2, <1>5, <2>6, <2>7 DEF Kept
<1>6. ASSUME iput(t, s, [inode_table EXCEPT ![s].d.i_nlinks = 0]),
             names' = names, ref' = ref
      PROVE  Kept
  <2>1. PICK T2 : /\ T2 = [inode_table EXCEPT ![s].d.i_nlinks = 0]
                  /\ Alters(s, inode_table, T2) /\ T2[s].i_num = inode_table[s].i_num
                  /\ T2[s].i_count = inode_table[s].i_count
                  /\ T2[s].i_lock = inode_table[s].i_lock
                  /\ T2[s].i_dirt = inode_table[s].i_dirt /\ T2[s].d.i_nlinks = 0
    BY <1>1, <1>3, UnlinkedSlot
  <2>2. iput(t, s, T2)
    BY <1>6, <2>1
  <2> DEFINE A == [at EXCEPT ![t] = "put"]
  <2>3. "put" \in Places
    BY DEF Places
  <2>4. TasksTyped(A, work, ref) /\ A[t] = "put" /\ \A u \in Tasks \ {t} : A[u] = at[u]
    BY <1>1, <2>3 DEF TasksTyped
  <2> HIDE DEF A
  <2>5. Moves(t, at, work, ref, A, work, ref) /\ Apart(t, names, A, work, ref)
    BY <1>1, <2>4 DEF Moves, Apart
  <2>6. /\ Alters(s, inode_table, T2) /\ T2[s].i_num = inode_table[s].i_num
        /\ T2[s].i_count = inode_table[s].i_count
        /\ T2[s].i_lock = inode_table[s].i_lock
        /\ T2[s].i_dirt = inode_table[s].i_dirt /\ T2[s].d.i_nlinks = 0
    BY <2>1
  <2>7. Good(T2, d_inode, s_imap, names, A, work, ref, latest)
    BY ONLY <1>1, <1>2, <1>3, <2>4, <2>5, <2>6, UnmakeStep
  <2>8. Between(t, T2, d_inode', s_imap', names', A, work, ref, latest')
    BY <1>2, <1>6, <2>5, <2>7 DEF Between
  <2>9. ref' = [ref EXCEPT ![t] = NoSlot]
    BY <1>1, <1>3, <1>6 DEF TasksTyped
  <2>10. QED
    BY ONLY <1>3, <2>2, <2>4, <2>8, <2>9, PutStep
<1>7. QED
  BY <1>1, <1>2, <1>4, <1>5, <1>6, Established

(* chmod, write and the like *)
LEMMA ModifyKeeps ==
  ASSUME InodeInv, odd = "no", NEW t \in Tasks, Modify(t)
  PROVE  InodeInv'
<1> DEFINE s == ref[t]
           new == 1 - inode_table[s].d.ver
<1>1. /\ Good(inode_table, d_inode, s_imap, names, at, work, ref, latest)
      /\ Apart(t, names, at, work, ref) /\ inode_table \in [Slots -> Inode]
      /\ TasksTyped(at, work, ref) /\ last_allocated_inode \in Slots /\ odd \in Odd
      /\ PlaceOK(inode_table, names, at, work, ref, t)
      /\ latest \in [Nums -> 0 .. 1]
  BY Here DEF Good, Typed
<1>2. /\ at[t] = "user" /\ s # NoSlot
      /\ inode_table' = [inode_table EXCEPT ![s].d.ver = new, ![s].i_dirt = TRUE]
      /\ latest' = [latest EXCEPT ![inode_table[s].i_num] = new]
      /\ d_inode' = d_inode /\ s_imap' = s_imap /\ names' = names
      /\ last_allocated_inode' = last_allocated_inode /\ odd' = odd
      /\ at' = at /\ work' = work /\ ref' = ref
  BY DEF Modify
<1>3. s \in Slots /\ ref[t] = s /\ inode_table[s].i_num # 0
  BY <1>1, <1>2 DEF PlaceOK, TasksTyped
<1>4. inode_table[s].i_num \in Nums /\ inode_table[s].d \in Contents
  BY <1>1, <1>3 DEF Inode
<1>5. new \in 0 .. 1
  BY <1>4 DEF Contents
<1> HIDE DEF s, new
<1> DEFINE T2 == Modified(inode_table, s, new)
<1>6. /\ Alters(s, inode_table, T2) /\ T2[s].i_num = inode_table[s].i_num
      /\ T2[s].i_count = inode_table[s].i_count
      /\ T2[s].i_lock = inode_table[s].i_lock /\ T2[s].i_dirt
      /\ T2[s].d.i_nlinks = inode_table[s].d.i_nlinks /\ T2[s].d.ver = new
  BY <1>1, <1>3, <1>5, ModifiedSlot
<1>7. inode_table' = T2
  BY <1>2 DEF Modified
<1> HIDE DEF T2
<1>8. /\ Alters(s, inode_table, T2) /\ T2[s].i_num = inode_table[s].i_num
      /\ T2[s].i_count = inode_table[s].i_count
      /\ T2[s].i_lock = inode_table[s].i_lock /\ T2[s].i_dirt
      /\ T2[s].d.i_nlinks = inode_table[s].d.i_nlinks
  BY <1>6
<1>9. /\ latest' \in [Nums -> 0 .. 1] /\ latest'[inode_table[s].i_num] = T2[s].d.ver
      /\ \A m \in Nums \ {inode_table[s].i_num} : latest'[m] = latest[m]
  BY <1>1, <1>2, <1>4, <1>5, <1>6
<1>10. Moves(t, at, work, ref, at', work', ref')
  BY <1>1, <1>2 DEF Moves
<1>11. Good(T2, d_inode, s_imap, names, at', work', ref', latest')
  <2>1. /\ at[t] = "user" /\ ref[t] = s
        /\ at'[t] = at[t] /\ work'[t] = work[t] /\ ref'[t] = ref[t]
    BY <1>2, <1>3
  <2>2. QED
    BY ONLY <1>1, <1>3, <1>8, <1>9, <1>10, <2>1, ModifyStep
<1>12. WaitsOK(names', at', work')
  BY <1>2 DEF InodeInv, WaitsOK
<1>13. Kept
  BY <1>2, <1>7, <1>11, <1>12 DEF Kept
<1>14. QED
  BY <1>1, <1>2, <1>13, Established

(* sys_close: the inode is put that was open. *)
LEMMA CloseKeeps ==
  ASSUME InodeInv, odd = "no", NEW t \in Tasks, Close(t)
  PROVE  InodeInv'
<1> DEFINE s == ref[t]
           w == [NoWork EXCEPT !.slot = s]
           A == [at EXCEPT ![t] = "put"]
           W == [work EXCEPT ![t] = w]
           R == [ref EXCEPT ![t] = NoSlot]
<1>1. /\ Good(inode_table, d_inode, s_imap, names, at, work, ref, latest)
      /\ Apart(t, names, at, work, ref) /\ inode_table \in [Slots -> Inode]
      /\ TasksTyped(at, work, ref) /\ last_allocated_inode \in Slots /\ odd \in Odd
  BY Here
<1>2. /\ at[t] = "user" /\ s # NoSlot /\ iput(t, s, inode_table)
      /\ d_inode' = d_inode /\ s_imap' = s_imap /\ names' = names /\ latest' = latest
      /\ last_allocated_inode' = last_allocated_inode /\ odd' = odd
      /\ ref' = [ref EXCEPT ![t] = NoSlot]
  BY DEF Close
<1>3. s \in Slots /\ ref[t] = s
  BY <1>1, <1>2 DEF TasksTyped
<1> HIDE DEF s
<1>4. w \in Works /\ w.slot = s /\ "put" \in Places
  BY <1>3 DEF NoWork, Works, Places
<1> HIDE DEF w
<1>5. TasksTyped(A, W, R) /\ A[t] = "put" /\ W[t].slot = s /\ R[t] = NoSlot
  BY <1>1, <1>4 DEF TasksTyped
<1>6. \A u \in Tasks \ {t} : A[u] = at[u] /\ W[u] = work[u] /\ R[u] = ref[u]
  BY <1>1 DEF TasksTyped
<1> HIDE DEF A, W, R
<1>7. Moves(t, at, work, ref, A, W, R) /\ Apart(t, names, A, W, R)
  BY <1>1, <1>5, <1>6 DEF Moves, Apart
<1>8. Good(inode_table, d_inode, s_imap, names, A, W, R, latest)
  BY ONLY <1>1, <1>2, <1>3, <1>5, <1>7, CloseStep
<1>9. Between(t, inode_table, d_inode', s_imap', names', A, W, R, latest')
  BY <1>2, <1>7, <1>8 DEF Between
<1>10. Kept
  BY ONLY <1>2, <1>3, <1>5, <1>9, PutStep
<1>11. QED
  BY <1>1, <1>2, <1>10, Established

-----------------------------------------------------------------------------
(* sync_inodes from its start, and behind its wait for a lock *)
LEMMA SyncKeeps ==
  ASSUME InodeInv, odd = "no", NEW t \in Tasks, sync_inodes(t) \/ SyncReturn(t)
  PROVE  InodeInv'
<1>1. /\ Between(t, inode_table, d_inode, s_imap, names, at, work, ref, latest)
      /\ last_allocated_inode \in Slots /\ odd \in Odd
  BY Here
<1>2. PICK s : SyncFrom(t, s, inode_table)
  BY DEF sync_inodes, SyncReturn
<1>3. /\ at[t] \in {"user", "sync"}
      /\ d_inode' = d_inode /\ s_imap' = s_imap /\ names' = names /\ latest' = latest
      /\ last_allocated_inode' = last_allocated_inode /\ ref' = ref /\ odd' = odd
  BY DEF sync_inodes, SyncReturn, SyncUnchanged
<1>4. Between(t, inode_table, d_inode', s_imap', names', at, work, ref, latest')
  BY <1>1, <1>3
<1>5. Kept
  BY <1>2, <1>3, <1>4, SyncFromStep
<1>6. QED
  BY <1>1, <1>3, <1>5, Established

(* sync_inodes behind its write_inode: it goes on with the next slot. *)
LEMMA SyncWriteReturnKeeps ==
  ASSUME InodeInv, odd = "no", NEW t \in Tasks, SyncWriteReturn(t)
  PROVE  InodeInv'
<1> DEFINE s == work[t].slot
           T2 == Written(s)
           A == [at EXCEPT ![t] = "sync"]
<1>1. /\ Good(inode_table, d_inode, s_imap, names, at, work, ref, latest)
      /\ Apart(t, names, at, work, ref) /\ inode_table \in [Slots -> Inode]
      /\ TasksTyped(at, work, ref) /\ last_allocated_inode \in Slots /\ odd \in Odd
      /\ PlaceOK(inode_table, names, at, work, ref, t)
      /\ d_inode \in [Nums -> Contents]
  BY Here DEF Good, Typed
<1>2. /\ at[t] = "syncwrite" /\ write_inode(s) /\ SyncFrom(t, s + 1, T2)
      /\ s_imap' = s_imap /\ names' = names /\ latest' = latest
      /\ last_allocated_inode' = last_allocated_inode /\ ref' = ref /\ odd' = odd
  BY DEF SyncWriteReturn, SyncUnchanged
<1>3. s \in Slots /\ work[t].slot = s
  BY <1>1, <1>2 DEF PlaceOK
<1>4. inode_table[s].i_num \in Nums
  <2>1. inode_table[s].i_lock
    BY <1>1, <1>2, <1>3 DEF Good, LocksOK, Locking
  <2>2. QED
    BY <1>1, <1>3, <2>1 DEF Good, IdleOK, Inode
<1> HIDE DEF s
<1>5. /\ Alters(s, inode_table, T2) /\ T2[s].i_num = inode_table[s].i_num
      /\ T2[s].i_count = inode_table[s].i_count /\ ~ T2[s].i_lock /\ ~ T2[s].i_dirt
      /\ T2[s].d = inode_table[s].d
      /\ d_inode' \in [Nums -> Contents] /\ d_inode'[inode_table[s].i_num] = inode_table[s].d
      /\ \A m \in Nums \ {inode_table[s].i_num} : d_inode'[m] = d_inode[m]
  BY <1>1, <1>2, <1>3, <1>4, WrittenSlot
<1> HIDE DEF T2
<1>6. "sync" \in Places
  BY DEF Places
<1>7. TasksTyped(A, work, ref) /\ A[t] = "sync" /\ \A u \in Tasks \ {t} : A[u] = at[u]
  BY <1>1, <1>6 DEF TasksTyped
<1> HIDE DEF A
<1>8. Moves(t, at, work, ref, A, work, ref) /\ Apart(t, names, A, work, ref)
  BY <1>1, <1>7 DEF Moves, Apart
<1>9. Good(T2, d_inode', s_imap, names, A, work, ref, latest)
  BY ONLY <1>1, <1>2, <1>3, <1>5, <1>7, <1>8, SyncWrittenStep
<1>10. Between(t, T2, d_inode', s_imap', names', A, work, ref, latest')
  BY <1>2, <1>8, <1>9 DEF Between
<1>11. A[t] \in {"user", "sync"} /\ ref[t] = ref[t]
  BY <1>7
<1>12. Kept
  BY ONLY <1>2, <1>10, <1>11, SyncFromStep
<1>13. QED
  BY <1>1, <1>2, <1>12, Established

-----------------------------------------------------------------------------
(* The system starts with an empty table. *)
LEMMA InodesStart == InodesInit => InodeInv
<1> SUFFICES ASSUME InodesInit PROVE InodeInv
  OBVIOUS
<1> USE Basics
<1>1. 1 \in Slots /\ 1 \in Nums
  BY InodeAssumption DEF Slots, Nums
<1>2. NoInode \in Inode /\ NoInode.i_num = 0 /\ NoInode.i_count = 0
      /\ ~ NoInode.i_lock /\ ~ NoInode.i_dirt
  BY DEF NoInode, Inode, Contents
<1>3. NoWork \in Works /\ NoWork.slot = NoSlot /\ NoWork.empty = NoSlot /\ "user" \in Places
  BY DEF NoWork, Works, Places
<1>4. /\ inode_table \in [Slots -> Inode]
      /\ \A s \in Slots : /\ inode_table[s].i_num = 0 /\ inode_table[s].i_count = 0
                          /\ ~ inode_table[s].i_lock /\ ~ inode_table[s].i_dirt
  BY <1>2 DEF InodesInit
<1>5. TasksTyped(at, work, ref)
      /\ \A u \in Tasks : at[u] = "user" /\ work[u] = NoWork /\ ref[u] = NoSlot
  BY <1>3 DEF InodesInit, TasksTyped
<1>6. /\ Typed(d_inode, s_imap, names, latest) /\ names = {1} /\ s_imap = {1}
      /\ d_inode[1].i_nlinks = 1 /\ d_inode[1].ver = latest[1]
  <2>1. names = {1} /\ s_imap = {1} /\ latest \in [Nums -> 0 .. 1] /\ latest[1] = 0
    BY <1>1 DEF InodesInit
  <2>2. \A k \in 0 .. 1 : [i_nlinks |-> k, ver |-> 0] \in Contents
    BY DEF Contents
  <2> DEFINE D(n) == [i_nlinks |-> IF n = 1 THEN 1 ELSE 0, ver |-> 0]
  <2>3. d_inode = [n \in Nums |-> D(n)]
    BY Zenon DEF InodesInit
  <2>4. \A n \in Nums : D(n) \in Contents
    <3>1. \A n \in Nums : (IF n = 1 THEN 1 ELSE 0) \in 0 .. 1
      OBVIOUS
    <3>2. QED
      BY <2>2, <3>1
  <2>8. D(1).i_nlinks = 1 /\ D(1).ver = 0
    OBVIOUS
  <2> HIDE DEF D
  <2>5. d_inode \in [Nums -> Contents]
    BY <2>3, <2>4
  <2>6. d_inode[1].i_nlinks = 1 /\ d_inode[1].ver = 0
    BY <1>1, <2>3, <2>8
  <2>7. QED
    BY <1>1, <2>1, <2>5, <2>6 DEF Typed
<1>7. CountsOK(inode_table, at, work, ref)
  <2> SUFFICES ASSUME NEW s \in Slots
               PROVE  inode_table[s].i_count = Cardinality(UsersIn(at, work, ref, s))
    BY DEF CountsOK
  <2>1. UsersIn(at, work, ref, s) = {}
    BY <1>5 DEF UsersIn, Uses, Holding
  <2>2. QED
    BY <1>4, <2>1, FS_EmptySet
<1>8. One(inode_table) /\ BitsOK(inode_table, s_imap, names) /\ IdleOK(inode_table)
      /\ OrphansOK(inode_table, s_imap, names)
  BY <1>4, <1>6 DEF One, BitsOK, IdleOK, OrphansOK
<1>9. LocksOK(inode_table, at, work)
  BY <1>4, <1>5 DEF LocksOK, Locking
<1>10. PlacesOK(inode_table, names, at, work, ref)
  BY <1>5 DEF PlacesOK, PlaceOK, Holding
<1>11. AloneOK(at, work, ref)
  BY <1>5 DEF AloneOK, Alone
<1>12. DataOK(inode_table, d_inode, names, at, work, latest)
       /\ DiskOK(inode_table, d_inode, names, at, work, latest)
  BY <1>4, <1>6 DEF DataOK, DiskOK
<1>13. Good(inode_table, d_inode, s_imap, names, at, work, ref, latest)
  BY <1>4, <1>5, <1>6, <1>7, <1>8, <1>9, <1>10, <1>11, <1>12 DEF Good
<1>14. WaitsOK(names, at, work)
  BY <1>5 DEF WaitsOK
<1>15. odd \in Odd /\ last_allocated_inode \in Slots
  BY <1>1 DEF InodesInit, Odd
<1>16. QED
  BY <1>13, <1>14, <1>15 DEF InodeInv

(* Every step of every task keeps InodeInv. *)
LEMMA InodesStep == InodeInv /\ [InodesNext]_inodeVars => InodeInv'
<1> SUFFICES ASSUME InodeInv, [InodesNext]_inodeVars PROVE InodeInv'
  OBVIOUS
<1>1. CASE UNCHANGED inodeVars
  <2>1. /\ inode_table' = inode_table /\ d_inode' = d_inode /\ s_imap' = s_imap
        /\ names' = names /\ last_allocated_inode' = last_allocated_inode
        /\ at' = at /\ work' = work /\ ref' = ref /\ latest' = latest /\ odd' = odd
    BY <1>1 DEF inodeVars
  <2>2. QED
    BY <2>1 DEF InodeInv
<1>2. CASE InodesNext
  <2>1. odd = "no"
    BY <1>2 DEF InodesNext
  <2>2. PICK t \in Tasks :
          \/ \E op \in {"open", "unlink"}, n \in Nums : iget(t, op, n)
          \/ new_inode(t) \/ Modify(t) \/ Close(t) \/ sync_inodes(t)
          \/ FoundReturn(t) \/ ReadReturn(t)
          \/ PutReturn(t) \/ PutWriteReturn(t) \/ free_inode(t)
          \/ \E fits \in BOOLEAN : AddEntry(t, fits)
          \/ SyncReturn(t) \/ SyncWriteReturn(t)
    BY <1>2 DEF InodesNext
  <2>3. ASSUME NEW op \in {"open", "unlink"}, NEW n \in Nums, iget(t, op, n) PROVE InodeInv'
    BY <2>1, <2>3, IgetKeeps
  <2>4. CASE new_inode(t)
    BY <2>1, <2>4, NewInodeKeeps
  <2>5. CASE Modify(t)
    BY <2>1, <2>5, ModifyKeeps
  <2>6. CASE Close(t)
    BY <2>1, <2>6, CloseKeeps
  <2>7. CASE sync_inodes(t) \/ SyncReturn(t)
    BY <2>1, <2>7, SyncKeeps
  <2>8. CASE FoundReturn(t)
    BY <2>1, <2>8, FoundReturnKeeps
  <2>9. CASE ReadReturn(t)
    BY <2>1, <2>9, ReadReturnKeeps
  <2>10. CASE PutReturn(t)
    BY <2>1, <2>10, PutReturnKeeps
  <2>11. CASE PutWriteReturn(t)
    BY <2>1, <2>11, PutWriteReturnKeeps
  <2>12. CASE free_inode(t)
    BY <2>1, <2>12, FreeInodeKeeps
  <2>13. ASSUME NEW fits \in BOOLEAN, AddEntry(t, fits) PROVE InodeInv'
    BY <2>1, <2>13, AddEntryKeeps
  <2>14. CASE SyncWriteReturn(t)
    BY <2>1, <2>14, SyncWriteReturnKeeps
  <2>15. QED
    BY <2>2, <2>3, <2>4, <2>5, <2>6, <2>7, <2>8, <2>9, <2>10, <2>11, <2>12, <2>13, <2>14
<1>3. QED
  BY <1>1, <1>2

(* InodeInv is inductive, for every number of tasks, slots and inodes. *)
THEOREM InodesInvariant == InodesSpec => []InodeInv
<1>1. QED
  BY InodesStart, InodesStep, PTL DEF InodesSpec

(* iget, while it sleeps on locked inodes and in read_inode, never makes a *)
(* second in-core copy of an inode, used or not.                           *)
THEOREM OneInCoreCopy == InodesSpec => []OneCopy
<1>1. InodeInv => OneCopy
  BY DEF InodeInv, Good, One, OneCopy
<1>2. QED
  BY <1>1, InodesInvariant, PTL

(* Users are the tasks that InodeCountExact counts. *)
LEMMA UsersAreUsers == \A s : Users(s) = UsersIn(at, work, ref, s)
BY DEF Users, UsersIn, Uses, Holding

(* iget, iput, new_inode and free_inode: on every path, and while a task   *)
(* sleeps, i_count is the number of tasks that count on the inode.         *)
THEOREM CountsAreUsers == InodesSpec => []InodeCountExact
<1>1. InodeInv => InodeCountExact
  BY UsersAreUsers DEF InodeInv, Good, CountsOK, InodeCountExact
<1>2. QED
  BY <1>1, InodesInvariant, PTL

(* The types of the state, with i_count no larger than the model says *)
LEMMA InodesTyped == InodeInv /\ odd = "no" => InodesTypeOK
<1> SUFFICES ASSUME InodeInv, odd = "no" PROVE InodesTypeOK
  OBVIOUS
<1>1. /\ Good(inode_table, d_inode, s_imap, names, at, work, ref, latest)
      /\ inode_table \in [Slots -> Inode] /\ TasksTyped(at, work, ref)
      /\ Typed(d_inode, s_imap, names, latest) /\ CountsOK(inode_table, at, work, ref)
  BY DEF InodeInv, Good
<1>2. \A s \in Slots : inode_table[s].i_count \in 0 .. 2 * Cardinality(Tasks)
  <2> TAKE s \in Slots
  <2> DEFINE k == Cardinality(UsersIn(at, work, ref, s))
  <2>1. inode_table[s].i_count = k
    BY <1>1 DEF CountsOK
  <2>2. k \in Nat /\ k <= Cardinality(Tasks) /\ Cardinality(Tasks) \in Nat
    BY UsersFinite, Basics
  <2> HIDE DEF k
  <2>3. QED
    BY <2>1, <2>2
<1>3. \A x \in Inode : x.i_count \in 0 .. 2 * Cardinality(Tasks) => x \in m_inode
  BY DEF Inode, m_inode
<1>4. inode_table \in [Slots -> m_inode]
  BY <1>1, <1>2, <1>3
<1>5. QED
  BY <1>1, <1>4 DEF InodesTypeOK, TasksTyped, Typed, InodeInv

(* A reader of an inode with a name finds its link and its latest contents. *)
LEMMA SeenIsLatest ==
  ASSUME InodeInv, odd = "no", NEW n \in names
  PROVE  Seen(n) = [i_nlinks |-> 1, ver |-> latest[n]]
<1>1. /\ Good(inode_table, d_inode, s_imap, names, at, work, ref, latest)
      /\ inode_table \in [Slots -> Inode] /\ d_inode \in [Nums -> Contents]
      /\ n \in Nums /\ n # 0
  BY Basics DEF InodeInv, Good, Typed
<1>2. \A c \in Contents :
        c.i_nlinks = 1 /\ c.ver = latest[n] => c = [i_nlinks |-> 1, ver |-> latest[n]]
  BY DEF Contents
<1>3. InCore(n) = {s \in Slots : inode_table[s].i_num = n /\ ~ Reading(at, work, s)}
  BY DEF InCore, Reading
<1>4. CASE InCore(n) = {}
  <2>1. d_inode[n].i_nlinks = 1 /\ d_inode[n].ver = latest[n]
    BY <1>1, <1>3, <1>4 DEF Good, DiskOK
  <2>2. Seen(n) = d_inode[n]
    BY <1>4 DEF Seen
  <2>3. QED
    BY <1>1, <1>2, <2>1, <2>2
<1>5. CASE InCore(n) # {}
  <2>1. PICK s : s \in InCore(n)
    BY <1>5
  <2>2. s \in Slots /\ inode_table[s].i_num = n /\ ~ Reading(at, work, s)
    BY <1>3, <2>1
  <2>3. InCore(n) = {s}
    BY <1>1, <1>3, <2>2 DEF Good, One
  <2>4. s \in Nat
    BY <2>2, Basics
  <2>5. Min({s}) = s
    BY <2>4 DEF Min
  <2>6. Seen(n) = inode_table[s].d
    BY <2>3, <2>5 DEF Seen
  <2>7. inode_table[s].d.i_nlinks = 1 /\ inode_table[s].d.ver = latest[n]
    BY <1>1, <2>2 DEF Good, DataOK
  <2>8. inode_table[s].d \in Contents
    BY <1>1, <2>2 DEF Inode
  <2>9. QED
    BY <1>2, <2>6, <2>7, <2>8
<1>6. QED
  BY <1>4, <1>5

(* write_inode, get_empty_inode, iput and free_inode: no change of an      *)
(* inode with a name is lost, one without a name has a user who will free  *)
(* it, and get_empty_inode never finds a slot it would have to wait for.   *)
THEOREM InodesAreKept == InodesSpec => []InodesKept
<1>1. InodeInv => InodesKept
  <2> SUFFICES ASSUME InodeInv, odd = "no"
               PROVE  /\ InodesTypeOK
                      /\ \A n \in names :
                           n \in s_imap /\ Seen(n) = [i_nlinks |-> 1, ver |-> latest[n]]
                      /\ \A n \in s_imap \ names : \E s \in InCore(n) : Users(s) # {}
                      /\ \A s \in Slots : inode_table[s].i_count = 0
                           => ~ inode_table[s].i_dirt /\ ~ inode_table[s].i_lock
    BY DEF InodesKept
  <2>1. Good(inode_table, d_inode, s_imap, names, at, work, ref, latest)
    BY DEF InodeInv
  <2>2. \A n \in names : n \in s_imap
    BY <2>1 DEF Good, BitsOK
  <2>3. ASSUME NEW n \in s_imap \ names PROVE \E s \in InCore(n) : Users(s) # {}
    <3>1. PICK s \in Slots : inode_table[s].i_num = n /\ inode_table[s].i_count # 0
      BY <2>1 DEF Good, OrphansOK
    <3>2. \A u \in Tasks : ~ (at[u] = "read" /\ work[u].slot = s)
      BY <2>1, <3>1 DEF Good, PlacesOK, PlaceOK
    <3>3. s \in InCore(n)
      BY <3>1, <3>2 DEF InCore
    <3>4. Cardinality(Users(s)) # 0
      BY <2>1, <3>1, UsersAreUsers DEF Good, CountsOK
    <3>5. Users(s) # {}
      BY <3>4, FS_EmptySet
    <3>6. QED
      BY <3>3, <3>5
  <2>4. \A s \in Slots : inode_table[s].i_count = 0
           => ~ inode_table[s].i_dirt /\ ~ inode_table[s].i_lock
    BY <2>1 DEF Good, IdleOK
  <2>5. QED
    BY <2>2, <2>3, <2>4, InodesTyped, SeenIsLatest
<1>2. QED
  BY <1>1, InodesInvariant, PTL
=============================================================================
