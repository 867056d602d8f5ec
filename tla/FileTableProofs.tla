--------------------------- MODULE FileTableProofs ---------------------------
(***************************************************************************)
(* For every number of tasks, descriptors, files and inodes: f_count is    *)
(* the number of descriptors of a file, and i_count the number of files    *)
(* and directories that refer to an inode, with those nobody gives back.   *)
(***************************************************************************)
EXTENDS FileTable, FiniteSetTheorems, WellFoundedInduction, TLAPS

Inode0 == Inodes \cup {NoInode}
File == [f_count : Nat, f_inode : Inode0]

(* The descriptors open on f in the tables P *)
OpenAt(P, f) == {x \in Tasks \X Fds : P[x[1]][x[2]] = f}

(* How many of the descriptors p are open on f; how many of the tables P,  *)
(* that of t aside                                                         *)
HeldAt(p, f) == {fd \in Fds : p[fd] = f}
Held(p, f) == Cardinality(HeldAt(p, f))
Elsewhere(P, t, f) == {x \in Tasks \X Fds : x[1] # t /\ P[x[1]][x[2]] = f}
OthersHold(P, t, f) == Cardinality(Elsewhere(P, t, f))

(* How many files refer to inode i, and how many tasks with the directory D *)
InodeOf(F, i) == {f \in Files : F[f].f_inode = i}
TasksAt(D, i) == {t \in Tasks : D[t] = i}
AtDir(D, i) == Cardinality(TasksAt(D, i))
One(a, i) == IF a = i THEN 1 ELSE 0

(* The table D with v for the task t *)
Put(D, t, v) == [D EXCEPT ![t] = v]

(* What the descriptors of a task, the files and the counts have to be for *)
(* the rest of the system, given that G[i] other references to i exist     *)
Fits(t, S, G) ==
  /\ S = [filp |-> S.filp, cloexec |-> S.cloexec, file |-> S.file, count |-> S.count]
  /\ S.filp \in [Fds -> Files \cup {NoFile}] /\ S.cloexec \in SUBSET Fds
  /\ S.file \in [Files -> File] /\ S.count \in [Inodes -> Nat] /\ G \in [Inodes -> Nat]
  /\ \A f \in Files : S.file[f].f_count = OthersHold(filp, t, f) + Held(S.filp, f)
  /\ \A f \in Files : S.file[f].f_count = 0 => S.file[f].f_inode = NoInode
  /\ \A i \in Inodes : S.count[i] = Cardinality(InodeOf(S.file, i)) + G[i]
  /\ \A u \in Tasks \ {t} :
       opening[u] # NoFd =>
         /\ filp[u][opening[u]] \in Files
         /\ S.file[filp[u][opening[u]]] = [f_count |-> 1, f_inode |-> NoInode]

(* The step that leaves t with S, and with descriptor o reserved or NoFd *)
Stored(t, S, o) ==
  /\ filp' = Put(filp, t, S.filp) /\ close_on_exec' = Put(close_on_exec, t, S.cloexec)
  /\ file_table' = S.file /\ i_count' = S.count
  /\ o \in Fds \cup {NoFd} /\ opening' = Put(opening, t, o)
  /\ o # NoFd => /\ S.filp[o] \in Files
                 /\ S.file[S.filp[o]] = [f_count |-> 1, f_inode |-> NoInode]

(* ... and the directories with G references to each inode *)
Around(G) ==
  /\ pwd' \in [Tasks -> Inode0] /\ root' \in [Tasks -> Inode0]
  /\ forsaken' \in [Inodes -> Nat] /\ alive' \subseteq Tasks /\ no_root' \in BOOLEAN
  /\ \A i \in Inodes : G[i] = AtDir(pwd', i) + AtDir(root', i) + forsaken'[i]
  /\ \A u \in Tasks \ alive' :
       /\ filp'[u] = [fd \in Fds |-> NoFile]
       /\ pwd'[u] = NoInode /\ root'[u] = NoInode /\ opening'[u] = NoFd

(* The references from directories, and those that nobody gives back *)
Dirs == [i \in Inodes |-> AtDir(pwd, i) + AtDir(root, i) + forsaken[i]]

(* What makes FileCountsExact inductive: a file is given back without an   *)
(* inode, one that is reserved has none yet and no other descriptor, and a *)
(* task that does not live has nothing open.                               *)
FilesInv ==
  /\ FilesTypeOK /\ CountsExact
  /\ \A f \in Files : file_table[f].f_count = 0 => file_table[f].f_inode = NoInode
  /\ \A t \in Tasks :
       opening[t] # NoFd =>
         /\ filp[t][opening[t]] \in Files
         /\ file_table[filp[t][opening[t]]] = [f_count |-> 1, f_inode |-> NoInode]
  /\ \A t \in Tasks \ alive :
       /\ filp[t] = [fd \in Fds |-> NoFile]
       /\ pwd[t] = NoInode /\ root[t] = NoInode /\ opening[t] = NoFd

-----------------------------------------------------------------------------
(* There is a least one among numbers. *)
LEMMA LeastOf ==
  ASSUME NEW S \in SUBSET Nat, S # {}
  PROVE  Min(S) \in S
<1> DEFINE R == OpToRel(<, Nat)
<1>1. PICK x \in S : \A y \in S : ~(<<y, x>> \in R)
  <2> HIDE DEF R
  <2> QED BY WFMin, NatLessThanWellFounded DEF R
<1>2. \A y \in S : x <= y
  <2>1. TAKE y \in S
  <2>2. x \in Nat /\ y \in Nat
    OBVIOUS
  <2>3. ~(y < x)
    BY <1>1, <2>1, <2>2 DEF OpToRel
  <2>4. QED
    BY <2>2, <2>3
<1>3. QED
  BY <1>2 DEF Min

(* The sets that are counted are finite. *)
LEMMA SetsFinite ==
  /\ IsFiniteSet(Fds) /\ IsFiniteSet(Files) /\ IsFiniteSet(Tasks)
  /\ IsFiniteSet(Tasks \X Fds)
<1>1. /\ IsFiniteSet(Tasks) /\ 0 \in Int /\ 1 \in Int
      /\ NR_OPEN - 1 \in Int /\ NR_FILE \in Int
  BY FilesConstants
<1>2. IsFiniteSet(0 .. NR_OPEN - 1) /\ IsFiniteSet(1 .. NR_FILE)
  BY <1>1, FS_Interval
<1>3. IsFiniteSet(Fds) /\ IsFiniteSet(Files)
  BY <1>2 DEF Fds, Files
<1>4. QED
  BY <1>1, <1>3, FS_Product

(* A part of a finite set has a number of members, and what is left is     *)
(* that many fewer.                                                        *)
LEMMA Part ==
  ASSUME NEW S, IsFiniteSet(S), NEW T \in SUBSET S
  PROVE  /\ IsFiniteSet(T) /\ Cardinality(T) \in Nat /\ Cardinality(S) \in Nat
         /\ Cardinality(T) <= Cardinality(S)
         /\ Cardinality(S \ T) = Cardinality(S) - Cardinality(T)
<1>1. IsFiniteSet(T) /\ Cardinality(T) <= Cardinality(S)
  BY FS_Subset
<1>2. Cardinality(T) \in Nat /\ Cardinality(S) \in Nat
  BY <1>1, FS_CardinalityType
<1>3. Cardinality(S \ T) = Cardinality(S) - Cardinality(S \cap T) /\ S \cap T = T
  BY FS_Difference
<1>4. QED
  BY <1>1, <1>2, <1>3

(* Sets that have nothing in common are counted one by one. *)
LEMMA Apart ==
  ASSUME NEW S, IsFiniteSet(S), NEW T, IsFiniteSet(T), S \cap T = {}
  PROVE  /\ IsFiniteSet(S \cup T) /\ Cardinality(S) \in Nat /\ Cardinality(T) \in Nat
         /\ Cardinality(S \cup T) = Cardinality(S) + Cardinality(T)
<1>1. Cardinality(S) \in Nat /\ Cardinality(T) \in Nat
  BY FS_CardinalityType
<1>2. /\ IsFiniteSet(S \cup T)
      /\ Cardinality(S \cup T) = Cardinality(S) + Cardinality(T) - Cardinality(S \cap T)
  BY FS_Union
<1>3. Cardinality(S \cap T) = 0
  BY FS_EmptySet
<1>4. QED
  BY <1>1, <1>2, <1>3

(* The counts are numbers. *)
LEMMA CountsAreNumbers ==
  /\ \A p, f : IsFiniteSet(HeldAt(p, f)) /\ Held(p, f) \in Nat
  /\ \A P, t, f : IsFiniteSet(Elsewhere(P, t, f)) /\ OthersHold(P, t, f) \in Nat
  /\ \A F, i : IsFiniteSet(InodeOf(F, i)) /\ Cardinality(InodeOf(F, i)) \in Nat
  /\ \A D, i : IsFiniteSet(TasksAt(D, i)) /\ AtDir(D, i) \in Nat
<1>1. /\ IsFiniteSet(Fds) /\ IsFiniteSet(Files) /\ IsFiniteSet(Tasks)
      /\ IsFiniteSet(Tasks \X Fds)
  BY SetsFinite
<1>2. \A p, f : HeldAt(p, f) \in SUBSET Fds
  BY DEF HeldAt
<1>3. \A P, t, f : Elsewhere(P, t, f) \in SUBSET (Tasks \X Fds)
  BY DEF Elsewhere
<1>4. \A F, i : InodeOf(F, i) \in SUBSET Files
  BY DEF InodeOf
<1>5. \A D, i : TasksAt(D, i) \in SUBSET Tasks
  BY DEF TasksAt
<1>6. \A p, f : IsFiniteSet(HeldAt(p, f)) /\ Held(p, f) \in Nat
  BY <1>1, <1>2, Part DEF Held
<1>7. \A P, t, f : IsFiniteSet(Elsewhere(P, t, f)) /\ OthersHold(P, t, f) \in Nat
  BY <1>1, <1>3, Part DEF OthersHold
<1>8. \A F, i : IsFiniteSet(InodeOf(F, i)) /\ Cardinality(InodeOf(F, i)) \in Nat
  BY <1>1, <1>4, Part
<1>9. \A D, i : IsFiniteSet(TasksAt(D, i)) /\ AtDir(D, i) \in Nat
  BY <1>1, <1>5, Part DEF AtDir
<1>10. QED
  BY <1>6, <1>7, <1>8, <1>9

(* The descriptors of a file are those of t and those of others. *)
LEMMA DescriptorsSplit ==
  ASSUME NEW P, NEW t \in Tasks, NEW f
  PROVE  Cardinality(OpenAt(P, f)) = OthersHold(P, t, f) + Held(P[t], f)
<1> DEFINE mine == {t} \X HeldAt(P[t], f)
<1>1. OpenAt(P, f) = Elsewhere(P, t, f) \cup mine /\ Elsewhere(P, t, f) \cap mine = {}
  BY DEF OpenAt, Elsewhere, HeldAt
<1>2. IsFiniteSet(mine) /\ Cardinality(mine) = Held(P[t], f)
  <2>1. IsFiniteSet({t}) /\ Cardinality({t}) = 1
    BY FS_Singleton
  <2>2. IsFiniteSet(HeldAt(P[t], f)) /\ Held(P[t], f) \in Nat
    BY CountsAreNumbers
  <2>3. IsFiniteSet(mine) /\ Cardinality(mine) = 1 * Cardinality(HeldAt(P[t], f))
    BY <2>1, <2>2, FS_Product
  <2>4. QED
    BY <2>2, <2>3 DEF Held
<1>3. IsFiniteSet(Elsewhere(P, t, f))
  BY CountsAreNumbers
<1> HIDE DEF mine
<1>4. Cardinality(OpenAt(P, f)) = Cardinality(Elsewhere(P, t, f)) + Cardinality(mine)
  BY <1>1, <1>2, <1>3, Apart
<1>5. QED
  BY <1>2, <1>4 DEF OthersHold

(* A change of what t has open does not change what others have. *)
LEMMA OthersHoldSame ==
  ASSUME NEW P, NEW Q, NEW t, \A u \in Tasks \ {t} : Q[u] = P[u], NEW f
  PROVE  OthersHold(Q, t, f) = OthersHold(P, t, f)
<1>1. Elsewhere(Q, t, f) = Elsewhere(P, t, f)
  BY DEF Elsewhere
<1>2. QED
  BY <1>1 DEF OthersHold

(* One task changes its directory. *)
LEMMA DirMoves ==
  ASSUME NEW D, DOMAIN D = Tasks, NEW t \in Tasks, NEW b, NEW i
  PROVE  /\ AtDir(Put(D, t, b), i) = AtDir(D, i) - One(D[t], i) + One(b, i)
         /\ AtDir(D, i) \in Nat /\ One(D[t], i) <= AtDir(D, i)
<1> DEFINE new == Put(D, t, b)
           rest == TasksAt(D, i) \ {t}
<1>1. IsFiniteSet(TasksAt(D, i)) /\ AtDir(D, i) \in Nat
  BY CountsAreNumbers
<1>2. IsFiniteSet(rest) /\ Cardinality(rest) = AtDir(D, i) - One(D[t], i)
  <2>1. /\ IsFiniteSet(rest)
        /\ Cardinality(rest) = IF t \in TasksAt(D, i) THEN AtDir(D, i) - 1 ELSE AtDir(D, i)
    BY <1>1, FS_RemoveElement DEF AtDir
  <2>2. t \in TasksAt(D, i) <=> D[t] = i
    BY DEF TasksAt
  <2>3. QED
    BY <1>1, <2>1, <2>2 DEF One
<1>3. TasksAt(new, i) = (IF b = i THEN rest \cup {t} ELSE rest)
  BY DEF TasksAt, Put
<1>4. t \notin rest
  OBVIOUS
<1> HIDE DEF rest, new
<1>5. Cardinality(rest \cup {t}) = Cardinality(rest) + 1
  BY <1>2, <1>4, FS_AddElement
<1>6. Cardinality(rest) \in Nat
  BY <1>2, FS_CardinalityType
<1>7. One(D[t], i) \in {0, 1} /\ One(b, i) = IF b = i THEN 1 ELSE 0
  BY DEF One
<1>8. AtDir(new, i) = Cardinality(rest) + One(b, i)
  BY <1>3, <1>5, <1>6, <1>7 DEF AtDir
<1>9. QED
  BY <1>1, <1>2, <1>6, <1>7, <1>8 DEF new

(* One descriptor changes from one file, or none, to another. *)
LEMMA HeldMoves ==
  ASSUME NEW p, DOMAIN p = Fds, NEW fd \in Fds, NEW g, NEW f
  PROVE  Held([p EXCEPT ![fd] = g], f) = Held(p, f) - One(p[fd], f) + One(g, f)
<1> DEFINE new == [p EXCEPT ![fd] = g]
           rest == HeldAt(p, f) \ {fd}
<1>1. IsFiniteSet(HeldAt(p, f)) /\ Held(p, f) \in Nat
  BY CountsAreNumbers
<1>2. IsFiniteSet(rest) /\ Cardinality(rest) = Held(p, f) - One(p[fd], f)
  <2>1. /\ IsFiniteSet(rest)
        /\ Cardinality(rest) = IF fd \in HeldAt(p, f) THEN Held(p, f) - 1 ELSE Held(p, f)
    BY <1>1, FS_RemoveElement DEF Held
  <2>2. fd \in HeldAt(p, f) <=> p[fd] = f
    BY DEF HeldAt
  <2>3. QED
    BY <1>1, <2>1, <2>2 DEF One
<1>3. HeldAt(new, f) = (IF g = f THEN rest \cup {fd} ELSE rest)
  BY DEF HeldAt
<1>4. fd \notin rest
  OBVIOUS
<1> HIDE DEF rest, new
<1>5. Cardinality(rest \cup {fd}) = Cardinality(rest) + 1
  BY <1>2, <1>4, FS_AddElement
<1>6. Cardinality(rest) \in Nat
  BY <1>2, FS_CardinalityType
<1>7. One(p[fd], f) \in {0, 1} /\ One(g, f) = IF g = f THEN 1 ELSE 0
  BY DEF One
<1>8. Held(new, f) = Cardinality(rest) + One(g, f)
  BY <1>3, <1>5, <1>6, <1>7 DEF Held
<1>9. QED
  BY <1>1, <1>2, <1>6, <1>7, <1>8 DEF new

(* What another task has open, others hold. *)
LEMMA OthersDo ==
  ASSUME NEW P, NEW t, NEW u \in Tasks \ {t}, NEW x \in Fds
  PROVE  OthersHold(P, t, P[u][x]) > 0
<1> DEFINE E == Elsewhere(P, t, P[u][x])
<1>1. <<u, x>> \in E
  BY DEF Elsewhere
<1>2. IsFiniteSet(E) /\ Cardinality(E) \in Nat
  BY CountsAreNumbers DEF OthersHold
<1> HIDE DEF E
<1>3. Cardinality(E) # 0
  BY <1>1, <1>2, FS_EmptySet
<1>4. QED
  BY <1>2, <1>3 DEF OthersHold, E

(* As it stands, each task fits. *)
LEMMA InvFits ==
  ASSUME FilesInv, NEW t \in Tasks
  PROVE  Fits(t, State(t), Dirs)
<1> DEFINE S == State(t)
<1>1. /\ S.filp = filp[t] /\ S.cloexec = close_on_exec[t]
      /\ S.file = file_table /\ S.count = i_count
      /\ S = [filp |-> S.filp, cloexec |-> S.cloexec, file |-> S.file, count |-> S.count]
  BY DEF State
<1>2. /\ S.filp \in [Fds -> Files \cup {NoFile}] /\ S.cloexec \in SUBSET Fds
      /\ S.file \in [Files -> File] /\ S.count \in [Inodes -> Nat]
  BY <1>1 DEF FilesInv, FilesTypeOK, File, Inode0
<1>3. \A f \in Files : S.file[f].f_count = OthersHold(filp, t, f) + Held(S.filp, f)
  <2>1. TAKE f \in Files
  <2>2. file_table[f].f_count = Cardinality(Descriptors(f)) /\ Descriptors(f) = OpenAt(filp, f)
    BY DEF FilesInv, CountsExact, Descriptors, OpenAt
  <2>3. Cardinality(OpenAt(filp, f)) = OthersHold(filp, t, f) + Held(filp[t], f)
    BY DescriptorsSplit
  <2>4. QED
    BY <1>1, <2>2, <2>3
<1>4. \A i \in Inodes : S.count[i] = Cardinality(InodeOf(S.file, i)) + Dirs[i]
  <2>1. TAKE i \in Inodes
  <2>2. i_count[i] = Cardinality(InodeOf(file_table, i)) + AtDir(pwd, i) + AtDir(root, i)
                       + forsaken[i]
    BY DEF FilesInv, CountsExact, InodeOf, AtDir, TasksAt
  <2>3. /\ Cardinality(InodeOf(file_table, i)) \in Nat /\ AtDir(pwd, i) \in Nat
        /\ AtDir(root, i) \in Nat /\ forsaken[i] \in Nat
    BY CountsAreNumbers DEF FilesInv, FilesTypeOK
  <2>4. Dirs[i] = AtDir(pwd, i) + AtDir(root, i) + forsaken[i]
    BY DEF Dirs
  <2>5. QED
    BY <1>1, <2>2, <2>3, <2>4
<1>5. Dirs \in [Inodes -> Nat]
  BY CountsAreNumbers DEF Dirs, FilesInv, FilesTypeOK
<1>6. /\ \A f \in Files : S.file[f].f_count = 0 => S.file[f].f_inode = NoInode
      /\ \A u \in Tasks \ {t} :
           opening[u] # NoFd =>
             /\ filp[u][opening[u]] \in Files
             /\ S.file[filp[u][opening[u]]] = [f_count |-> 1, f_inode |-> NoInode]
  BY <1>1 DEF FilesInv
<1> HIDE DEF S
<1>7. QED
  BY <1>1, <1>2, <1>3, <1>4, <1>5, <1>6 DEF Fits, S

(* And what fits one task is right for the system. *)
LEMMA FitsInv ==
  ASSUME FilesInv, NEW t \in Tasks, NEW S, NEW G, NEW o,
         Fits(t, S, G), Stored(t, S, o), Around(G)
  PROVE  FilesInv'
<1>0. /\ filp' = [filp EXCEPT ![t] = S.filp]
      /\ close_on_exec' = [close_on_exec EXCEPT ![t] = S.cloexec]
      /\ file_table' = S.file /\ i_count' = S.count
      /\ o \in Fds \cup {NoFd} /\ opening' = [opening EXCEPT ![t] = o]
      /\ o # NoFd => /\ S.filp[o] \in Files
                     /\ S.file[S.filp[o]] = [f_count |-> 1, f_inode |-> NoInode]
  BY DEF Stored, Put
<1>1. /\ filp \in [Tasks -> [Fds -> Files \cup {NoFile}]]
      /\ close_on_exec \in [Tasks -> SUBSET Fds] /\ opening \in [Tasks -> Fds \cup {NoFd}]
  BY DEF FilesInv, FilesTypeOK
<1>2. /\ S.filp \in [Fds -> Files \cup {NoFile}] /\ S.cloexec \in SUBSET Fds
      /\ S.file \in [Files -> File] /\ S.count \in [Inodes -> Nat]
  BY DEF Fits
<1>3. FilesTypeOK'
  <2>1. filp' \in [Tasks -> [Fds -> Files \cup {NoFile}]]
    BY <1>0, <1>1, <1>2
  <2>2. close_on_exec' \in [Tasks -> SUBSET Fds]
    BY <1>0, <1>1, <1>2
  <2>3. opening' \in [Tasks -> Fds \cup {NoFd}]
    BY <1>0, <1>1
  <2>4. QED
    BY <1>0, <1>2, <2>1, <2>2, <2>3 DEF Around, FilesTypeOK, File, Inode0
<1>4. \A f \in Files : file_table'[f].f_count = Cardinality(Descriptors(f)')
  <2>1. TAKE f \in Files
  <2> DEFINE P == [filp EXCEPT ![t] = S.filp]
  <2>2. Cardinality(OpenAt(P, f)) = OthersHold(P, t, f) + Held(P[t], f)
    <3> HIDE DEF P
    <3> QED BY DescriptorsSplit
  <2>3. OthersHold(P, t, f) = OthersHold(filp, t, f)
    <3>1. \A u \in Tasks \ {t} : P[u] = filp[u]
      BY <1>0, <1>1
    <3> HIDE DEF P
    <3>2. QED
      BY <3>1, OthersHoldSame
  <2>4. P[t] = S.filp /\ filp' = P /\ Descriptors(f)' = OpenAt(filp', f)
    BY <1>0, <1>1 DEF Descriptors, OpenAt
  <2>5. S.file[f].f_count = OthersHold(filp, t, f) + Held(S.filp, f)
    BY DEF Fits
  <2>6. QED
    <3> HIDE DEF P
    <3> QED BY <1>0, <2>2, <2>3, <2>4, <2>5
<1>5. \A i \in Inodes :
        i_count'[i] = Cardinality({f \in Files : file_table'[f].f_inode = i})
                      + Cardinality({u \in Tasks : pwd'[u] = i})
                      + Cardinality({u \in Tasks : root'[u] = i}) + forsaken'[i]
  <2>1. TAKE i \in Inodes
  <2>2. S.count[i] = Cardinality(InodeOf(S.file, i)) + G[i]
    BY DEF Fits
  <2>3. /\ Cardinality(InodeOf(S.file, i)) \in Nat /\ AtDir(pwd', i) \in Nat
        /\ AtDir(root', i) \in Nat /\ forsaken'[i] \in Nat
    BY CountsAreNumbers DEF Around
  <2>4. i_count'[i] = Cardinality(InodeOf(file_table', i)) + AtDir(pwd', i) + AtDir(root', i)
                        + forsaken'[i]
    BY <1>0, <2>2, <2>3 DEF Around
  <2>5. QED
    BY <2>4 DEF InodeOf, AtDir, TasksAt
<1>6. \A u \in Tasks :
        opening'[u] # NoFd =>
          /\ filp'[u][opening'[u]] \in Files
          /\ file_table'[filp'[u][opening'[u]]] = [f_count |-> 1, f_inode |-> NoInode]
  <2>1. TAKE u \in Tasks
  <2>2. CASE u = t
    BY <1>0, <1>1, <2>2
  <2>3. CASE u # t
    <3>1. opening'[u] = opening[u] /\ filp'[u] = filp[u]
      BY <1>0, <1>1, <2>3
    <3>2. opening[u] # NoFd =>
            /\ filp[u][opening[u]] \in Files
            /\ S.file[filp[u][opening[u]]] = [f_count |-> 1, f_inode |-> NoInode]
      BY <2>3 DEF Fits
    <3>3. QED
      BY <1>0, <3>1, <3>2
  <2>4. QED
    BY <2>2, <2>3
<1>7. \A f \in Files : file_table'[f].f_count = 0 => file_table'[f].f_inode = NoInode
  BY <1>0 DEF Fits
<1>8. CountsExact'
  BY <1>4, <1>5 DEF CountsExact
<1>9. QED
  BY <1>3, <1>6, <1>7, <1>8 DEF FilesInv, Around

(* Closing descriptors takes from the counts what they stood for. *)
LEMMA CloseFits ==
  ASSUME FilesInv, NEW t \in Tasks, NEW S, NEW G, Fits(t, S, G),
         NEW fds \in SUBSET Fds
  PROVE  /\ Fits(t, ClosedAll(S, fds), G)
         /\ ClosedAll(S, fds).filp = [fd \in Fds |-> IF fd \in fds THEN NoFile ELSE S.filp[fd]]
<1> DEFINE U == ClosedAll(S, fds)
           closing(f) == {fd \in fds : S.filp[fd] = f}
           last == {f \in Files : closing(f) # {} /\ S.file[f].f_count = Cardinality(closing(f))}
           gone(i) == {f \in last : S.file[f].f_inode = i}
<1>1. /\ U.filp = [fd \in Fds |-> IF fd \in fds THEN NoFile ELSE S.filp[fd]]
      /\ U.cloexec = S.cloexec \ fds
      /\ U.file = [f \in Files |->
                    [f_count |-> S.file[f].f_count - Cardinality(closing(f)),
                     f_inode |-> IF f \in last THEN NoInode ELSE S.file[f].f_inode]]
      /\ U.count = [i \in Inodes |-> S.count[i] - Cardinality(gone(i))]
      /\ U = [filp |-> U.filp, cloexec |-> U.cloexec, file |-> U.file, count |-> U.count]
  BY DEF ClosedAll
<1>2. /\ S.filp \in [Fds -> Files \cup {NoFile}] /\ S.cloexec \in SUBSET Fds
      /\ S.file \in [Files -> File] /\ S.count \in [Inodes -> Nat] /\ G \in [Inodes -> Nat]
  BY DEF Fits
<1>3. \A f \in Files :
        /\ Cardinality(closing(f)) \in Nat /\ Cardinality(closing(f)) <= Held(S.filp, f)
        /\ Held(U.filp, f) = Held(S.filp, f) - Cardinality(closing(f))
        /\ Cardinality(closing(f)) = 0 <=> closing(f) = {}
  <2>1. TAKE f \in Files
  <2>2. closing(f) \in SUBSET HeldAt(S.filp, f)
    BY DEF HeldAt
  <2>3. HeldAt(U.filp, f) = HeldAt(S.filp, f) \ closing(f)
    BY <1>1 DEF HeldAt, Files, NoFile
  <2>4. IsFiniteSet(HeldAt(S.filp, f))
    BY CountsAreNumbers
  <2> HIDE DEF closing, U
  <2>5. /\ IsFiniteSet(closing(f)) /\ Cardinality(closing(f)) \in Nat
        /\ Cardinality(closing(f)) <= Cardinality(HeldAt(S.filp, f))
        /\ Cardinality(HeldAt(S.filp, f) \ closing(f))
             = Cardinality(HeldAt(S.filp, f)) - Cardinality(closing(f))
    BY <2>2, <2>4, Part
  <2>6. Cardinality(closing(f)) = 0 <=> closing(f) = {}
    BY <2>5, FS_EmptySet
  <2>7. QED
    BY <2>3, <2>5, <2>6 DEF Held
<1>4. \A f \in Files :
        /\ S.file[f].f_count = OthersHold(filp, t, f) + Held(S.filp, f)
        /\ OthersHold(filp, t, f) \in Nat /\ Held(S.filp, f) \in Nat
  BY CountsAreNumbers DEF Fits
<1>5. \A f \in Files :
        /\ U.file[f].f_count = S.file[f].f_count - Cardinality(closing(f))
        /\ U.file[f].f_inode = IF f \in last THEN NoInode ELSE S.file[f].f_inode
  BY <1>1
<1>6. \A f \in Files :
        /\ U.file[f].f_count \in Nat
        /\ U.file[f].f_count = OthersHold(filp, t, f) + Held(U.filp, f)
  <2> HIDE DEF U, closing, last
  <2>1. TAKE f \in Files
  <2>2. QED
    BY <1>3, <1>4, <1>5
<1>7. U.filp \in [Fds -> Files \cup {NoFile}] /\ U.cloexec \in SUBSET Fds
  BY <1>1, <1>2
<1>8. U.file \in [Files -> File]
  <2>1. \A f \in Files :
          S.file[f].f_count - Cardinality(closing(f)) \in Nat
    BY <1>5, <1>6
  <2>2. \A f \in Files : (IF f \in last THEN NoInode ELSE S.file[f].f_inode) \in Inode0
    BY <1>2 DEF File, Inode0
  <2> HIDE DEF closing, last, U
  <2>3. QED
    BY <1>1, <2>1, <2>2 DEF File
<1>9. \A f \in Files : U.file[f].f_count = 0 => U.file[f].f_inode = NoInode
  <2>1. TAKE f \in Files
  <2>2. S.file[f].f_count = 0 => S.file[f].f_inode = NoInode
    BY DEF Fits
  <2>3. S.file[f].f_count \in Nat
    BY <1>2 DEF File
  <2>4. closing(f) # {} /\ S.file[f].f_count = Cardinality(closing(f)) => f \in last
    OBVIOUS
  <2> HIDE DEF closing, last, U
  <2>5. QED
    BY <1>3, <1>5, <2>2, <2>3, <2>4
<1>10. \A i \in Inodes :
         /\ Cardinality(gone(i)) \in Nat
         /\ Cardinality(gone(i)) <= Cardinality(InodeOf(S.file, i))
         /\ Cardinality(InodeOf(U.file, i))
              = Cardinality(InodeOf(S.file, i)) - Cardinality(gone(i))
  <2>1. TAKE i \in Inodes
  <2>2. i # NoInode
    BY FilesConstants DEF NoInode
  <2>3. gone(i) \in SUBSET InodeOf(S.file, i)
    BY DEF InodeOf
  <2>4. InodeOf(U.file, i) = InodeOf(S.file, i) \ gone(i)
    <3> HIDE DEF U, last
    <3> QED BY <1>5, <2>2 DEF InodeOf
  <2>5. IsFiniteSet(InodeOf(S.file, i))
    BY CountsAreNumbers
  <2> HIDE DEF gone, U
  <2>6. QED
    BY <2>3, <2>4, <2>5, Part
<1>11. /\ U.count \in [Inodes -> Nat]
       /\ \A i \in Inodes : U.count[i] = Cardinality(InodeOf(U.file, i)) + G[i]
  <2>1. \A i \in Inodes : /\ S.count[i] = Cardinality(InodeOf(S.file, i)) + G[i]
                          /\ Cardinality(InodeOf(S.file, i)) \in Nat /\ G[i] \in Nat
    BY <1>2, CountsAreNumbers DEF Fits
  <2>2. \A i \in Inodes : U.count[i] = S.count[i] - Cardinality(gone(i))
    BY <1>1
  <2>3. DOMAIN U.count = Inodes /\ U.count = [i \in Inodes |-> U.count[i]]
    BY <1>1
  <2> HIDE DEF gone, U
  <2>4. \A i \in Inodes : /\ U.count[i] \in Nat
                          /\ U.count[i] = Cardinality(InodeOf(U.file, i)) + G[i]
    BY <1>10, <2>1, <2>2
  <2>5. QED
    BY <2>3, <2>4
<1>12. \A u \in Tasks \ {t} :
         opening[u] # NoFd =>
           /\ filp[u][opening[u]] \in Files
           /\ U.file[filp[u][opening[u]]] = [f_count |-> 1, f_inode |-> NoInode]
  <2>1. SUFFICES ASSUME NEW u \in Tasks \ {t}, opening[u] # NoFd
                 PROVE  /\ filp[u][opening[u]] \in Files
                        /\ U.file[filp[u][opening[u]]] = [f_count |-> 1, f_inode |-> NoInode]
    OBVIOUS
  <2> DEFINE f == filp[u][opening[u]]
  <2>2. f \in Files /\ S.file[f] = [f_count |-> 1, f_inode |-> NoInode]
    BY <2>1 DEF Fits
  <2>3. opening[u] \in Fds
    BY <2>1 DEF FilesInv, FilesTypeOK
  <2>4. OthersHold(filp, t, f) > 0
    BY <2>3, OthersDo
  <2> HIDE DEF f, U, last, closing
  <2>5. Held(S.filp, f) = 0 /\ Cardinality(closing(f)) = 0
    BY <1>3, <1>4, <2>2, <2>4
  <2>6. closing(f) = {} /\ f \notin last
    <3>1. closing(f) = {}
      BY <1>3, <2>2, <2>5
    <3>2. QED
      BY <3>1 DEF last
  <2>7. U.file[f].f_count = 1 /\ U.file[f].f_inode = NoInode
    <3>1. S.file[f].f_count = 1 /\ S.file[f].f_inode = NoInode
      BY <2>2
    <3>2. /\ U.file[f].f_count = S.file[f].f_count - Cardinality(closing(f))
          /\ U.file[f].f_inode = S.file[f].f_inode
      BY <1>5, <2>2, <2>6
    <3>3. QED
      BY <2>5, <3>1, <3>2
  <2>8. U.file[f] \in File
    BY <1>8, <2>2
  <2>9. U.file[f] = [f_count |-> 1, f_inode |-> NoInode]
    BY <2>7, <2>8 DEF File
  <2>10. QED
    BY <2>2, <2>9 DEF f
<1> HIDE DEF U, last, closing, gone
<1>13. Fits(t, U, G)
  BY <1>1, <1>2, <1>6, <1>7, <1>8, <1>9, <1>11, <1>12 DEF Fits
<1>14. QED
  BY <1>1, <1>13 DEF U

(* A duplicate of a descriptor, if there is room for it, counts once more. *)
LEMMA DupFits ==
  ASSUME FilesInv, NEW t \in Tasks, NEW S, NEW G, Fits(t, S, G),
         NEW fd \in Fds, NEW arg
  PROVE  Fits(t, Dupped(S, fd, arg), G)
<1> DEFINE free == {x \in Fds : x >= arg /\ S.filp[x] = NoFile}
           m == Min(free)
           g == S.filp[fd]
           U == Dupped(S, fd, arg)
<1>1. CASE g = NoFile \/ free = {}
  BY <1>1 DEF Dupped
<1>2. CASE g # NoFile /\ free # {}
  <2>1. m \in free
    <3>1. free \in SUBSET Nat
      BY FilesConstants DEF Fds
    <3> HIDE DEF free
    <3>2. QED
      BY <1>2, <3>1, LeastOf
  <2>2. /\ S = [filp |-> S.filp, cloexec |-> S.cloexec, file |-> S.file, count |-> S.count]
        /\ S.filp \in [Fds -> Files \cup {NoFile}] /\ S.cloexec \in SUBSET Fds
        /\ S.file \in [Files -> File] /\ S.count \in [Inodes -> Nat] /\ G \in [Inodes -> Nat]
    BY DEF Fits
  <2>3. m \in Fds /\ S.filp[m] = NoFile /\ g \in Files
    BY <1>2, <2>1, <2>2
  <2>4. U = [S EXCEPT !.filp[m] = g, !.cloexec = @ \ {m}, !.file[g].f_count = @ + 1]
    BY <1>2 DEF Dupped
  <2> HIDE DEF free, m, g, U
  <2>5. /\ U.filp = [S.filp EXCEPT ![m] = g] /\ U.cloexec = S.cloexec \ {m}
        /\ U.file = [S.file EXCEPT ![g].f_count = @ + 1] /\ U.count = S.count
        /\ U = [filp |-> U.filp, cloexec |-> U.cloexec, file |-> U.file, count |-> U.count]
    <3> DEFINE p == S.filp
               c == S.cloexec
               F == S.file
               n == S.count
    <3>1. S = [filp |-> p, cloexec |-> c, file |-> F, count |-> n]
      BY <2>2
    <3> HIDE DEF p, c, F, n
    <3>2. U = [filp |-> [p EXCEPT ![m] = g], cloexec |-> c \ {m},
               file |-> [F EXCEPT ![g].f_count = @ + 1], count |-> n]
      BY <2>4, <3>1
    <3>3. QED
      BY <3>2 DEF p, c, F, n
  <2>6. \A f \in Files : /\ S.file[f] \in File /\ S.file[f].f_count \in Nat
                         /\ S.file[f].f_inode \in Inode0
    BY <2>2 DEF File
  <2>20. /\ U.file[g] = [S.file[g] EXCEPT !.f_count = @ + 1]
         /\ \A f \in Files \ {g} : U.file[f] = S.file[f]
         /\ DOMAIN U.file = Files /\ U.file = [f \in Files |-> U.file[f]]
    BY <2>2, <2>3, <2>5
  <2>21. /\ U.file[g] \in File /\ U.file[g].f_count = S.file[g].f_count + 1
         /\ U.file[g].f_inode = S.file[g].f_inode
    BY <2>3, <2>6, <2>20 DEF File
  <2>22. U.file \in [Files -> File]
    BY <2>6, <2>20, <2>21
  <2>7. \A f \in Files : /\ U.file[f].f_count = S.file[f].f_count + One(g, f)
                         /\ U.file[f].f_inode = S.file[f].f_inode
                         /\ f # g => U.file[f] = S.file[f]
    <3>1. TAKE f \in Files
    <3>2. CASE f = g
      BY <2>21, <3>2 DEF One
    <3>3. CASE f # g
      <4>1. One(g, f) = 0 /\ S.file[f].f_count \in Nat /\ U.file[f] = S.file[f]
        BY <2>6, <2>20, <3>3 DEF One
      <4>2. QED
        BY <3>3, <4>1
    <3>4. QED
      BY <3>2, <3>3
  <2>8. \A f \in Files : Held(U.filp, f) = Held(S.filp, f) + One(g, f)
    <3>1. TAKE f \in Files
    <3>2. DOMAIN S.filp = Fds
      BY <2>2
    <3>3. Held([S.filp EXCEPT ![m] = g], f) = Held(S.filp, f) - One(S.filp[m], f) + One(g, f)
      BY <2>3, <3>2, HeldMoves
    <3>4. One(S.filp[m], f) = 0
      BY <2>3 DEF One, Files, NoFile
    <3>5. Held(S.filp, f) \in Nat /\ One(g, f) \in Nat
      BY CountsAreNumbers DEF One
    <3>6. QED
      BY <2>5, <3>3, <3>4, <3>5
  <2>9. \A f \in Files :
          /\ S.file[f].f_count = OthersHold(filp, t, f) + Held(S.filp, f)
          /\ OthersHold(filp, t, f) \in Nat /\ Held(S.filp, f) \in Nat /\ One(g, f) \in {0, 1}
    BY CountsAreNumbers DEF Fits, One
  <2>10. \A f \in Files : U.file[f].f_count = OthersHold(filp, t, f) + Held(U.filp, f)
    BY <2>7, <2>8, <2>9
  <2>11. Held(S.filp, g) > 0
    <3>1. fd \in HeldAt(S.filp, g)
      BY DEF HeldAt, g
    <3>2. IsFiniteSet(HeldAt(S.filp, g)) /\ Held(S.filp, g) \in Nat
      BY CountsAreNumbers
    <3>3. Cardinality(HeldAt(S.filp, g)) # 0
      BY <3>1, <3>2, FS_EmptySet
    <3>4. QED
      BY <3>2, <3>3 DEF Held
  <2>12. \A f \in Files : U.file[f].f_count = 0 => U.file[f].f_inode = NoInode
    <3>1. TAKE f \in Files
    <3>2. S.file[f].f_count = 0 => S.file[f].f_inode = NoInode
      BY DEF Fits
    <3>3. /\ U.file[f].f_count = S.file[f].f_count + One(g, f)
          /\ U.file[f].f_inode = S.file[f].f_inode
          /\ S.file[f].f_count \in Nat /\ One(g, f) \in Nat
      BY <2>6, <2>7, <2>9
    <3>4. QED
      BY <3>2, <3>3
  <2>13. \A i \in Inodes : U.count[i] = Cardinality(InodeOf(U.file, i)) + G[i]
    <3>1. TAKE i \in Inodes
    <3>2. InodeOf(U.file, i) = InodeOf(S.file, i)
      BY <2>7 DEF InodeOf
    <3>3. QED
      BY <2>5, <3>2 DEF Fits
  <2>14. \A u \in Tasks \ {t} :
           opening[u] # NoFd =>
             /\ filp[u][opening[u]] \in Files
             /\ U.file[filp[u][opening[u]]] = [f_count |-> 1, f_inode |-> NoInode]
    <3>1. SUFFICES ASSUME NEW u \in Tasks \ {t}, opening[u] # NoFd
                   PROVE  /\ filp[u][opening[u]] \in Files
                          /\ U.file[filp[u][opening[u]]] = [f_count |-> 1, f_inode |-> NoInode]
      OBVIOUS
    <3> DEFINE f == filp[u][opening[u]]
    <3>2. f \in Files /\ S.file[f] = [f_count |-> 1, f_inode |-> NoInode]
      BY <3>1 DEF Fits
    <3>3. opening[u] \in Fds
      BY <3>1 DEF FilesInv, FilesTypeOK
    <3>4. OthersHold(filp, t, f) > 0
      BY <3>3, OthersDo
    <3> HIDE DEF f
    <3>5. S.file[f].f_count = 1
      BY <3>2
    <3>6. f # g
      BY <2>9, <2>11, <3>2, <3>4, <3>5
    <3>7. QED
      BY <2>7, <3>2, <3>6 DEF f
  <2>15. U.filp \in [Fds -> Files \cup {NoFile}] /\ U.cloexec \in SUBSET Fds
    BY <2>2, <2>3, <2>5
  <2>16. U.count \in [Inodes -> Nat]
    BY <2>2, <2>5
  <2>17. QED
    BY <2>2, <2>5, <2>22, <2>10, <2>12, <2>13, <2>14, <2>15, <2>16 DEF Fits, U
<1>3. QED
  BY <1>1, <1>2

-----------------------------------------------------------------------------
(* Before mount_root there is nothing to count. *)
LEMMA FilesInvInit == ASSUME FilesInit PROVE FilesInv
<1>1. FilesTypeOK
  BY FilesConstants DEF FilesInit, FilesTypeOK, NoFd
<1>2. \A f \in Files : Descriptors(f) = {}
  BY DEF FilesInit, Descriptors, Files, NoFile
<1>3. \A i \in Inodes : /\ {f \in Files : file_table[f].f_inode = i} = {}
                        /\ {t \in Tasks : pwd[t] = i} = {} /\ {t \in Tasks : root[t] = i} = {}
  BY FilesConstants DEF FilesInit, NoInode
<1>4. CountsExact
  <2>1. \A f \in Files : file_table[f].f_count = 0
    BY DEF FilesInit
  <2>2. \A i \in Inodes : i_count[i] = 0 /\ forsaken[i] = 0
    BY DEF FilesInit
  <2>3. Cardinality({}) = 0
    BY FS_EmptySet
  <2>4. \A f \in Files : file_table[f].f_count = Cardinality(Descriptors(f))
    BY <1>2, <2>1, <2>3
  <2>5. \A i \in Inodes :
          i_count[i] = Cardinality({f \in Files : file_table[f].f_inode = i})
                       + Cardinality({t \in Tasks : pwd[t] = i})
                       + Cardinality({t \in Tasks : root[t] = i}) + forsaken[i]
    <3>1. TAKE i \in Inodes
    <3>2. /\ Cardinality({f \in Files : file_table[f].f_inode = i}) = 0
          /\ Cardinality({t \in Tasks : pwd[t] = i}) = 0
          /\ Cardinality({t \in Tasks : root[t] = i}) = 0
      BY <1>3, <2>3
    <3>3. QED
      BY <2>2, <3>2
  <2>6. QED
    BY <2>4, <2>5 DEF CountsExact
<1>5. \A f \in Files : file_table[f].f_count = 0 => file_table[f].f_inode = NoInode
  BY DEF FilesInit
<1>6. \A t \in Tasks : opening[t] = NoFd
  BY DEF FilesInit
<1>7. \A t \in Tasks \ alive : /\ filp[t] = [fd \in Fds |-> NoFile]
                               /\ pwd[t] = NoInode /\ root[t] = NoInode /\ opening[t] = NoFd
  BY DEF FilesInit
<1>8. QED
  BY <1>1, <1>4, <1>5, <1>6, <1>7 DEF FilesInv

(* A step that leaves the directories alone *)
LEMMA SetKeeps ==
  ASSUME FilesInv, NEW t \in Tasks, t \in alive, NEW S, Fits(t, S, Dirs),
         opening[t] = NoFd, Set(t, S), UNCHANGED <<opening, alive>>, DirsUnchanged
  PROVE  FilesInv'
<1>1. /\ pwd' = pwd /\ root' = root /\ forsaken' = forsaken /\ no_root' = no_root
      /\ opening' = opening /\ alive' = alive
  BY DEF DirsUnchanged
<1>2. /\ filp' = Put(filp, t, S.filp) /\ close_on_exec' = Put(close_on_exec, t, S.cloexec)
      /\ file_table' = S.file /\ i_count' = S.count
  BY DEF Set, Put
<1>3. /\ filp \in [Tasks -> [Fds -> Files \cup {NoFile}]]
      /\ opening \in [Tasks -> Fds \cup {NoFd}] /\ alive \subseteq Tasks
      /\ pwd \in [Tasks -> Inode0] /\ root \in [Tasks -> Inode0]
      /\ forsaken \in [Inodes -> Nat] /\ no_root \in BOOLEAN
  BY DEF FilesInv, FilesTypeOK, Inode0
<1>4. opening' = Put(opening, t, NoFd)
  BY <1>1, <1>3 DEF Put
<1>5. \A i \in Inodes : Dirs[i] = AtDir(pwd', i) + AtDir(root', i) + forsaken'[i]
  BY <1>1 DEF Dirs
<1>6. \A u \in Tasks \ alive' :
        /\ filp'[u] = [fd \in Fds |-> NoFile]
        /\ pwd'[u] = NoInode /\ root'[u] = NoInode /\ opening'[u] = NoFd
  <2>1. \A u \in Tasks \ alive : filp'[u] = filp[u]
    BY <1>2, <1>3 DEF Put
  <2>2. QED
    BY <1>1, <2>1 DEF FilesInv
<1>7. Around(Dirs)
  BY <1>1, <1>3, <1>5, <1>6 DEF Around
<1>8. Stored(t, S, NoFd)
  BY <1>2, <1>4 DEF Stored
<1>9. QED
  BY <1>7, <1>8, FitsInv

(* sys_open reserves a descriptor and a file that nobody has. *)
LEMMA OpenKeeps ==
  ASSUME FilesInv, NEW t \in Tasks, Open(t)
  PROVE  FilesInv'
<1> DEFINE fds == {x \in Fds : filp[t][x] = NoFile}
           files == {x \in Files : file_table[x].f_count = 0}
           fd == Min(fds)
           f == Min(files)
           p == [filp[t] EXCEPT ![fd] = f]
           F == [file_table EXCEPT ![f].f_count = 1]
           bits == close_on_exec[t] \ {fd}
           S == [filp |-> p, cloexec |-> bits, file |-> F, count |-> i_count]
           S0 == [filp |-> filp[t], cloexec |-> bits, file |-> file_table, count |-> i_count]
<1>1. /\ filp \in [Tasks -> [Fds -> Files \cup {NoFile}]]
      /\ close_on_exec \in [Tasks -> SUBSET Fds] /\ opening \in [Tasks -> Fds \cup {NoFd}]
      /\ file_table \in [Files -> File] /\ i_count \in [Inodes -> Nat]
      /\ pwd \in [Tasks -> Inode0] /\ root \in [Tasks -> Inode0]
      /\ forsaken \in [Inodes -> Nat] /\ no_root \in BOOLEAN /\ alive \subseteq Tasks
  BY DEF FilesInv, FilesTypeOK, File, Inode0
<1>2. /\ t \in alive /\ opening[t] = NoFd /\ fds # {}
      /\ close_on_exec' = [close_on_exec EXCEPT ![t] = bits]
      /\ i_count' = i_count /\ pwd' = pwd /\ root' = root /\ alive' = alive
      /\ forsaken' = forsaken /\ no_root' \in BOOLEAN
  BY <1>1 DEF Open, Running
<1>3. \/ UNCHANGED <<filp, file_table, opening>>
      \/ /\ files # {} /\ filp' = [filp EXCEPT ![t][fd] = f]
         /\ file_table' = F /\ opening' = [opening EXCEPT ![t] = fd]
  BY DEF Open
<1>4. fd \in fds
  <2>1. fds \in SUBSET Nat
    BY FilesConstants DEF Fds
  <2> HIDE DEF fds
  <2>2. QED
    BY <1>2, <2>1, LeastOf
<1>5. fd \in Fds /\ filp[t][fd] = NoFile /\ bits \in SUBSET Fds
  BY <1>1, <1>4
<1>6. Fits(t, State(t), Dirs)
  BY InvFits
<1>7. State(t) = [filp |-> filp[t], cloexec |-> close_on_exec[t], file |-> file_table,
                  count |-> i_count]
  BY DEF State
<1>8. \A i \in Inodes : Dirs[i] = AtDir(pwd', i) + AtDir(root', i) + forsaken'[i]
  BY <1>2 DEF Dirs
<1> HIDE DEF bits, fd, fds
<1>9. \A u \in Tasks \ alive :
        /\ u # t /\ filp[u] = [x \in Fds |-> NoFile]
        /\ pwd[u] = NoInode /\ root[u] = NoInode /\ opening[u] = NoFd
  BY <1>2 DEF FilesInv
<1>10. CASE UNCHANGED <<filp, file_table, opening>>
  <2>1. Fits(t, S0, Dirs)
    BY <1>5, <1>6, <1>7 DEF Fits
  <2>2. Stored(t, S0, NoFd)
    BY <1>1, <1>2, <1>10 DEF Stored, Put
  <2>3. Around(Dirs)
    BY <1>1, <1>2, <1>8, <1>9, <1>10 DEF Around
  <2> HIDE DEF S0
  <2>4. QED
    BY <2>1, <2>2, <2>3, FitsInv
<1>11. CASE /\ files # {} /\ filp' = [filp EXCEPT ![t][fd] = f]
            /\ file_table' = F /\ opening' = [opening EXCEPT ![t] = fd]
  <2>1. f \in files
    <3>1. files \in SUBSET Nat
      BY FilesConstants DEF Files
    <3> HIDE DEF files
    <3>2. QED
      BY <1>11, <3>1, LeastOf
  <2>2. f \in Files /\ file_table[f].f_count = 0
    BY <2>1
  <2>3. file_table[f] \in File /\ file_table[f].f_inode = NoInode
    BY <1>1, <2>2 DEF FilesInv
  <2> HIDE DEF f, files
  <2>4. F[f] = [f_count |-> 1, f_inode |-> NoInode] /\ \A g \in Files \ {f} : F[g] = file_table[g]
    BY <1>1, <2>2, <2>3 DEF File
  <2>5. F \in [Files -> File]
    <3>1. [f_count |-> 1, f_inode |-> NoInode] \in File
      BY DEF File, Inode0
    <3>2. F = [g \in Files |-> F[g]]
      BY <1>1
    <3> HIDE DEF F
    <3>3. QED
      BY <1>1, <2>4, <3>1, <3>2
  <2>6. p \in [Fds -> Files \cup {NoFile}] /\ p[fd] = f
    BY <1>1, <1>5, <2>2
  <2>7. \A g \in Files : Held(p, g) = Held(filp[t], g) + One(f, g)
    <3>1. TAKE g \in Files
    <3>2. DOMAIN filp[t] = Fds
      BY <1>1
    <3>3. Held([filp[t] EXCEPT ![fd] = f], g) = Held(filp[t], g) - One(filp[t][fd], g) + One(f, g)
      BY <1>5, <3>2, HeldMoves
    <3>4. One(filp[t][fd], g) = 0
      BY <1>5 DEF One, Files, NoFile
    <3>5. Held(filp[t], g) \in Nat /\ One(f, g) \in Nat
      BY CountsAreNumbers DEF One
    <3>6. QED
      BY <3>3, <3>4, <3>5
  <2>8. \A g \in Files : /\ file_table[g].f_count = OthersHold(filp, t, g) + Held(filp[t], g)
                         /\ OthersHold(filp, t, g) \in Nat /\ Held(filp[t], g) \in Nat
    BY <1>6, <1>7, CountsAreNumbers DEF Fits
  <2>9. \A g \in Files : F[g].f_count = OthersHold(filp, t, g) + Held(p, g)
    <3> HIDE DEF F, p
    <3>1. TAKE g \in Files
    <3>2. CASE g = f
      <4>1. F[g].f_count = 1 /\ One(f, g) = 1
        BY <2>4, <3>2 DEF One
      <4>2. OthersHold(filp, t, g) = 0 /\ Held(filp[t], g) = 0
        BY <2>2, <2>8, <3>2
      <4>3. QED
        BY <2>7, <4>1, <4>2
    <3>3. CASE g # f
      <4>1. F[g].f_count = file_table[g].f_count /\ One(f, g) = 0
        BY <2>4, <3>3 DEF One
      <4>2. QED
        BY <2>7, <2>8, <4>1
    <3>4. QED
      BY <3>2, <3>3
  <2>10. \A g \in Files : F[g].f_inode = file_table[g].f_inode
    <3> HIDE DEF F
    <3>1. [f_count |-> 1, f_inode |-> NoInode].f_inode = NoInode
      OBVIOUS
    <3>2. QED
      BY <2>3, <2>4, <3>1
  <2>11. \A g \in Files : F[g].f_count = 0 => F[g].f_inode = NoInode
    <3> HIDE DEF F
    <3>1. TAKE g \in Files
    <3>2. CASE g = f
      BY <2>3, <2>10, <3>2
    <3>3. CASE g # f
      BY <2>4, <3>3 DEF FilesInv
    <3>4. QED
      BY <3>2, <3>3
  <2>12. \A i \in Inodes : i_count[i] = Cardinality(InodeOf(F, i)) + Dirs[i]
    <3>1. TAKE i \in Inodes
    <3>2. InodeOf(F, i) = InodeOf(file_table, i)
      <4> HIDE DEF F
      <4> QED BY <2>10 DEF InodeOf
    <3>3. QED
      BY <1>6, <1>7, <3>2 DEF Fits
  <2>13. \A u \in Tasks \ {t} :
           opening[u] # NoFd =>
             /\ filp[u][opening[u]] \in Files
             /\ F[filp[u][opening[u]]] = [f_count |-> 1, f_inode |-> NoInode]
    <3> HIDE DEF F
    <3>1. TAKE u \in Tasks \ {t}
    <3>2. opening[u] # NoFd =>
            /\ filp[u][opening[u]] \in Files
            /\ file_table[filp[u][opening[u]]] = [f_count |-> 1, f_inode |-> NoInode]
      BY DEF FilesInv
    <3>3. QED
      BY <2>4, <3>2
  <2>14. Dirs \in [Inodes -> Nat]
    BY <1>6 DEF Fits
  <2>15. filp' = [filp EXCEPT ![t] = p]
    BY <1>1, <1>11
  <2> HIDE DEF F, p
  <2>16. Fits(t, S, Dirs)
    BY <1>1, <1>5, <2>5, <2>6, <2>9, <2>11, <2>12, <2>13, <2>14 DEF Fits
  <2>17. Stored(t, S, fd)
    BY <1>2, <1>5, <1>11, <2>2, <2>4, <2>6, <2>15 DEF Stored, Put
  <2>18. Around(Dirs)
    <3>1. \A u \in Tasks \ alive : filp'[u] = filp[u] /\ opening'[u] = opening[u]
      BY <1>1, <1>9, <1>11, <2>15
    <3>2. QED
      BY <1>1, <1>2, <1>8, <1>9, <3>1 DEF Around
  <2> HIDE DEF S
  <2>19. QED
    BY <2>16, <2>17, <2>18, FitsInv
<1>12. QED
  BY <1>3, <1>10, <1>11

(* What sys_open has reserved is its own. *)
LEMMA ReservedIsOwn ==
  ASSUME FilesInv, NEW t \in Tasks, opening[t] # NoFd
  PROVE  /\ opening[t] \in Fds /\ filp[t][opening[t]] \in Files
         /\ file_table[filp[t][opening[t]]] = [f_count |-> 1, f_inode |-> NoInode]
         /\ Held(filp[t], filp[t][opening[t]]) = 1
         /\ OthersHold(filp, t, filp[t][opening[t]]) = 0
<1> DEFINE fd == opening[t]
           f == filp[t][fd]
<1>1. fd \in Fds /\ f \in Files /\ file_table[f] = [f_count |-> 1, f_inode |-> NoInode]
  BY DEF FilesInv, FilesTypeOK
<1>2. file_table[f].f_count = 1
  BY <1>1
<1>3. file_table[f].f_count = OthersHold(filp, t, f) + Held(filp[t], f)
  <2>1. Fits(t, State(t), Dirs)
    BY InvFits
  <2>2. QED
    BY <1>1, <2>1 DEF Fits, State
<1>4. fd \in HeldAt(filp[t], f)
  BY <1>1 DEF HeldAt
<1> HIDE DEF f, fd
<1>5. /\ IsFiniteSet(HeldAt(filp[t], f)) /\ Held(filp[t], f) \in Nat
      /\ OthersHold(filp, t, f) \in Nat
  BY CountsAreNumbers
<1>6. Held(filp[t], f) # 0
  BY <1>4, <1>5, FS_EmptySet DEF Held
<1>7. Held(filp[t], f) = 1 /\ OthersHold(filp, t, f) = 0
  BY <1>2, <1>3, <1>5, <1>6
<1>8. QED
  BY <1>1, <1>7 DEF f, fd

(* Open_namei fails: the descriptor and the file are given back. *)
LEMMA FailedKeeps ==
  ASSUME FilesInv, NEW t \in Tasks, opening[t] # NoFd,
         opening' = [opening EXCEPT ![t] = NoFd],
         filp' = [filp EXCEPT ![t][opening[t]] = NoFile],
         file_table' = [file_table EXCEPT ![filp[t][opening[t]]].f_count = 0],
         i_count' = i_count, UNCHANGED <<close_on_exec, alive>>, DirsUnchanged
  PROVE  FilesInv'
<1> DEFINE fd == opening[t]
           f == filp[t][fd]
           p == [filp[t] EXCEPT ![fd] = NoFile]
           F == [file_table EXCEPT ![f].f_count = 0]
           S == [filp |-> p, cloexec |-> close_on_exec[t], file |-> F, count |-> i_count]
<1>1. /\ filp \in [Tasks -> [Fds -> Files \cup {NoFile}]]
      /\ close_on_exec \in [Tasks -> SUBSET Fds] /\ opening \in [Tasks -> Fds \cup {NoFd}]
      /\ file_table \in [Files -> File] /\ i_count \in [Inodes -> Nat]
      /\ pwd \in [Tasks -> Inode0] /\ root \in [Tasks -> Inode0]
      /\ forsaken \in [Inodes -> Nat] /\ no_root \in BOOLEAN /\ alive \subseteq Tasks
  BY DEF FilesInv, FilesTypeOK, File, Inode0
<1>2. /\ fd \in Fds /\ f \in Files /\ file_table[f] = [f_count |-> 1, f_inode |-> NoInode]
      /\ Held(filp[t], f) = 1 /\ OthersHold(filp, t, f) = 0
  BY ReservedIsOwn
<1>3. /\ pwd' = pwd /\ root' = root /\ forsaken' = forsaken /\ no_root' = no_root
      /\ alive' = alive /\ close_on_exec' = close_on_exec
  BY DEF DirsUnchanged
<1>4. /\ filp' = [filp EXCEPT ![t] = p] /\ file_table' = F
      /\ opening' = [opening EXCEPT ![t] = NoFd] /\ i_count' = i_count
  BY <1>1, <1>2
<1>5. Fits(t, State(t), Dirs)
  BY InvFits
<1>6. State(t) = [filp |-> filp[t], cloexec |-> close_on_exec[t], file |-> file_table,
                  count |-> i_count]
  BY DEF State
<1>7. \A i \in Inodes : Dirs[i] = AtDir(pwd', i) + AtDir(root', i) + forsaken'[i]
  BY <1>3 DEF Dirs
<1>8. f \in Files \cup {NoFile} /\ filp[t][fd] = f
  BY <1>2
<1> HIDE DEF f, fd
<1>9. /\ F[f] = [f_count |-> 0, f_inode |-> NoInode]
      /\ \A g \in Files \ {f} : F[g] = file_table[g]
  BY <1>1, <1>2
<1>10. F \in [Files -> File]
  <2>1. [f_count |-> 0, f_inode |-> NoInode] \in File
    BY DEF File, Inode0
  <2>2. F = [g \in Files |-> F[g]]
    BY <1>1
  <2> HIDE DEF F
  <2>3. QED
    BY <1>1, <1>9, <2>1, <2>2
<1>11. p \in [Fds -> Files \cup {NoFile}]
  BY <1>1, <1>2
<1>12. \A g \in Files : Held(p, g) = Held(filp[t], g) - One(f, g)
  <2>1. TAKE g \in Files
  <2>2. DOMAIN filp[t] = Fds
    BY <1>1
  <2>3. Held([filp[t] EXCEPT ![fd] = NoFile], g)
          = Held(filp[t], g) - One(filp[t][fd], g) + One(NoFile, g)
    BY <1>2, <2>2, HeldMoves
  <2>4. One(NoFile, g) = 0
    BY DEF One, Files, NoFile
  <2>5. Held(filp[t], g) \in Nat /\ One(f, g) \in Nat
    BY CountsAreNumbers DEF One
  <2>6. QED
    BY <1>8, <2>3, <2>4, <2>5
<1>13. \A g \in Files : /\ file_table[g].f_count = OthersHold(filp, t, g) + Held(filp[t], g)
                        /\ OthersHold(filp, t, g) \in Nat /\ Held(filp[t], g) \in Nat
  BY <1>5, <1>6, CountsAreNumbers DEF Fits
<1> HIDE DEF F, p
<1>14. \A g \in Files : F[g].f_count = OthersHold(filp, t, g) + Held(p, g)
  <2>1. TAKE g \in Files
  <2>2. CASE g = f
    <3>1. F[g].f_count = 0 /\ One(f, g) = 1
      BY <1>9, <2>2 DEF One
    <3>2. QED
      BY <1>2, <1>12, <2>2, <3>1
  <2>3. CASE g # f
    <3>1. F[g].f_count = file_table[g].f_count /\ One(f, g) = 0
      BY <1>9, <2>3 DEF One
    <3>2. QED
      BY <1>12, <1>13, <3>1
  <2>4. QED
    BY <2>2, <2>3
<1>15. \A g \in Files : F[g].f_inode = file_table[g].f_inode
  <2>1. [f_count |-> 0, f_inode |-> NoInode].f_inode = [f_count |-> 1, f_inode |-> NoInode].f_inode
    OBVIOUS
  <2>2. QED
    BY <1>2, <1>9, <2>1
<1>16. \A g \in Files : F[g].f_count = 0 => F[g].f_inode = NoInode
  <2>1. TAKE g \in Files
  <2>2. CASE g = f
    BY <1>9, <2>2
  <2>3. CASE g # f
    BY <1>9, <2>3 DEF FilesInv
  <2>4. QED
    BY <2>2, <2>3
<1>17. \A i \in Inodes : i_count[i] = Cardinality(InodeOf(F, i)) + Dirs[i]
  <2>1. TAKE i \in Inodes
  <2>2. InodeOf(F, i) = InodeOf(file_table, i)
    BY <1>15 DEF InodeOf
  <2>3. QED
    BY <1>5, <1>6, <2>2 DEF Fits
<1>18. \A u \in Tasks \ {t} :
         opening[u] # NoFd =>
           /\ filp[u][opening[u]] \in Files
           /\ F[filp[u][opening[u]]] = [f_count |-> 1, f_inode |-> NoInode]
  <2>1. SUFFICES ASSUME NEW u \in Tasks \ {t}, opening[u] # NoFd
                 PROVE  /\ filp[u][opening[u]] \in Files
                        /\ F[filp[u][opening[u]]] = [f_count |-> 1, f_inode |-> NoInode]
    OBVIOUS
  <2>2. /\ filp[u][opening[u]] \in Files /\ opening[u] \in Fds
        /\ file_table[filp[u][opening[u]]] = [f_count |-> 1, f_inode |-> NoInode]
    BY <2>1 DEF FilesInv, FilesTypeOK
  <2>3. OthersHold(filp, t, filp[u][opening[u]]) > 0
    BY <2>2, OthersDo
  <2>4. filp[u][opening[u]] # f
    BY <1>2, <2>3
  <2>5. QED
    BY <1>9, <2>2, <2>4
<1>19. Dirs \in [Inodes -> Nat]
  BY <1>5 DEF Fits
<1>20. Fits(t, S, Dirs)
  BY <1>1, <1>10, <1>11, <1>14, <1>16, <1>17, <1>18, <1>19 DEF Fits
<1>21. Stored(t, S, NoFd)
  BY <1>1, <1>3, <1>4 DEF Stored, Put
<1>22. Around(Dirs)
  <2>1. \A u \in Tasks \ alive :
          /\ u # t /\ filp[u] = [x \in Fds |-> NoFile]
          /\ pwd[u] = NoInode /\ root[u] = NoInode /\ opening[u] = NoFd
    BY DEF FilesInv
  <2>2. \A u \in Tasks \ alive : filp'[u] = filp[u] /\ opening'[u] = opening[u]
    BY <1>1, <1>4, <2>1
  <2>3. QED
    BY <1>1, <1>3, <1>7, <2>1, <2>2 DEF Around
<1> HIDE DEF S
<1>23. QED
  BY <1>20, <1>21, <1>22, FitsInv

(* It finds an inode: the file refers to it. *)
LEMMA FoundKeeps ==
  ASSUME FilesInv, NEW t \in Tasks, opening[t] # NoFd, NEW n \in Inodes,
         opening' = [opening EXCEPT ![t] = NoFd], filp' = filp,
         file_table' = [file_table EXCEPT ![filp[t][opening[t]]] = [f_count |-> 1, f_inode |-> n]],
         i_count' = iget(i_count, n), UNCHANGED <<close_on_exec, alive>>, DirsUnchanged
  PROVE  FilesInv'
<1> DEFINE f == filp[t][opening[t]]
           F == [file_table EXCEPT ![f] = [f_count |-> 1, f_inode |-> n]]
           S == [filp |-> filp[t], cloexec |-> close_on_exec[t], file |-> F,
                 count |-> iget(i_count, n)]
<1>1. /\ filp \in [Tasks -> [Fds -> Files \cup {NoFile}]]
      /\ close_on_exec \in [Tasks -> SUBSET Fds] /\ opening \in [Tasks -> Fds \cup {NoFd}]
      /\ file_table \in [Files -> File] /\ i_count \in [Inodes -> Nat]
      /\ pwd \in [Tasks -> Inode0] /\ root \in [Tasks -> Inode0]
      /\ forsaken \in [Inodes -> Nat] /\ no_root \in BOOLEAN /\ alive \subseteq Tasks
  BY DEF FilesInv, FilesTypeOK, File, Inode0
<1>2. /\ f \in Files /\ file_table[f] = [f_count |-> 1, f_inode |-> NoInode]
      /\ OthersHold(filp, t, f) = 0
  BY ReservedIsOwn
<1>3. /\ pwd' = pwd /\ root' = root /\ forsaken' = forsaken /\ no_root' = no_root
      /\ alive' = alive /\ close_on_exec' = close_on_exec
      /\ file_table' = F /\ filp' = filp
      /\ opening' = [opening EXCEPT ![t] = NoFd] /\ i_count' = iget(i_count, n)
  BY DEF DirsUnchanged
<1>4. Fits(t, State(t), Dirs)
  BY InvFits
<1>5. State(t) = [filp |-> filp[t], cloexec |-> close_on_exec[t], file |-> file_table,
                  count |-> i_count]
  BY DEF State
<1>6. \A i \in Inodes : Dirs[i] = AtDir(pwd', i) + AtDir(root', i) + forsaken'[i]
  BY <1>3 DEF Dirs
<1> HIDE DEF f
<1>7. /\ F[f] = [f_count |-> 1, f_inode |-> n]
      /\ \A g \in Files \ {f} : F[g] = file_table[g]
  BY <1>1, <1>2
<1>8. F \in [Files -> File]
  <2>1. [f_count |-> 1, f_inode |-> n] \in File
    BY DEF File, Inode0
  <2>2. F = [g \in Files |-> F[g]]
    BY <1>1
  <2> HIDE DEF F
  <2>3. QED
    BY <1>1, <1>7, <2>1, <2>2
<1> HIDE DEF F
<1>9. \A g \in Files : F[g].f_count = file_table[g].f_count
  <2>1. [f_count |-> 1, f_inode |-> n].f_count = [f_count |-> 1, f_inode |-> NoInode].f_count
    OBVIOUS
  <2>2. QED
    BY <1>2, <1>7, <2>1
<1>10. \A g \in Files : F[g].f_count = OthersHold(filp, t, g) + Held(filp[t], g)
  BY <1>4, <1>5, <1>9 DEF Fits
<1>11. \A g \in Files : F[g].f_count = 0 => F[g].f_inode = NoInode
  <2>1. TAKE g \in Files
  <2>2. CASE g = f
    BY <1>7, <2>2
  <2>3. CASE g # f
    BY <1>7, <2>3 DEF FilesInv
  <2>4. QED
    BY <2>2, <2>3
<1>12. \A i \in Inodes : Cardinality(InodeOf(F, i)) = Cardinality(InodeOf(file_table, i)) + One(n, i)
  <2>1. TAKE i \in Inodes
  <2>2. IsFiniteSet(InodeOf(file_table, i)) /\ Cardinality(InodeOf(file_table, i)) \in Nat
    BY CountsAreNumbers
  <2>3. i # NoInode
    BY FilesConstants DEF NoInode
  <2>4. f \notin InodeOf(file_table, i)
    BY <1>2, <2>3 DEF InodeOf
  <2>5. F[f].f_inode = n
    BY <1>7
  <2>6. CASE n = i
    <3>1. InodeOf(F, i) = InodeOf(file_table, i) \cup {f}
      BY <1>2, <1>7, <2>5, <2>6 DEF InodeOf
    <3>2. QED
      BY <2>2, <2>4, <2>6, <3>1, FS_AddElement DEF One
  <2>7. CASE n # i
    <3>1. InodeOf(F, i) = InodeOf(file_table, i)
      BY <1>2, <1>7, <2>4, <2>5, <2>7 DEF InodeOf
    <3>2. QED
      BY <2>2, <2>7, <3>1 DEF One
  <2>8. QED
    BY <2>6, <2>7
<1>13. /\ iget(i_count, n) \in [Inodes -> Nat]
       /\ \A i \in Inodes : iget(i_count, n)[i] = i_count[i] + One(n, i)
  BY <1>1 DEF iget, One
<1>14. \A i \in Inodes : iget(i_count, n)[i] = Cardinality(InodeOf(F, i)) + Dirs[i]
  <2>1. TAKE i \in Inodes
  <2>2. /\ i_count[i] = Cardinality(InodeOf(file_table, i)) + Dirs[i]
        /\ Cardinality(InodeOf(file_table, i)) \in Nat /\ Dirs[i] \in Nat
    BY <1>4, <1>5, CountsAreNumbers DEF Fits
  <2>3. One(n, i) \in Nat
    BY DEF One
  <2>4. QED
    BY <1>12, <1>13, <2>2, <2>3
<1>15. \A u \in Tasks \ {t} :
         opening[u] # NoFd =>
           /\ filp[u][opening[u]] \in Files
           /\ F[filp[u][opening[u]]] = [f_count |-> 1, f_inode |-> NoInode]
  <2>1. SUFFICES ASSUME NEW u \in Tasks \ {t}, opening[u] # NoFd
                 PROVE  /\ filp[u][opening[u]] \in Files
                        /\ F[filp[u][opening[u]]] = [f_count |-> 1, f_inode |-> NoInode]
    OBVIOUS
  <2>2. /\ filp[u][opening[u]] \in Files /\ opening[u] \in Fds
        /\ file_table[filp[u][opening[u]]] = [f_count |-> 1, f_inode |-> NoInode]
    BY <2>1 DEF FilesInv, FilesTypeOK
  <2>3. OthersHold(filp, t, filp[u][opening[u]]) > 0
    BY <2>2, OthersDo
  <2>4. filp[u][opening[u]] # f
    BY <1>2, <2>3
  <2>5. QED
    BY <1>7, <2>2, <2>4
<1>16. Dirs \in [Inodes -> Nat]
  BY <1>4 DEF Fits
<1>17. Fits(t, S, Dirs)
  BY <1>1, <1>8, <1>10, <1>11, <1>13, <1>14, <1>15, <1>16 DEF Fits
<1>18. Stored(t, S, NoFd)
  BY <1>1, <1>3 DEF Stored, Put
<1>19. Around(Dirs)
  <2>1. \A u \in Tasks \ alive :
          /\ u # t /\ filp[u] = [x \in Fds |-> NoFile]
          /\ pwd[u] = NoInode /\ root[u] = NoInode /\ opening[u] = NoFd
    BY DEF FilesInv
  <2>2. \A u \in Tasks \ alive : opening'[u] = opening[u]
    BY <1>1, <1>3, <2>1
  <2>3. QED
    BY <1>1, <1>3, <1>6, <2>1, <2>2 DEF Around
<1> HIDE DEF S
<1>20. QED
  BY <1>17, <1>18, <1>19, FitsInv


(* What t has fits with other references, when the counts move with them. *)
LEMMA FitsMoves ==
  ASSUME NEW t, NEW S, NEW G, Fits(t, S, G), NEW H \in [Inodes -> Nat],
         NEW C, C = [i \in Inodes |-> C[i]],
         \A i \in Inodes : C[i] = S.count[i] - G[i] + H[i]
  PROVE  Fits(t, [filp |-> S.filp, cloexec |-> S.cloexec, file |-> S.file, count |-> C], H)
<1> DEFINE U == [filp |-> S.filp, cloexec |-> S.cloexec, file |-> S.file, count |-> C]
<1>1. \A i \in Inodes :
        /\ S.count[i] = Cardinality(InodeOf(S.file, i)) + G[i] /\ H[i] \in Nat
        /\ Cardinality(InodeOf(S.file, i)) \in Nat /\ G[i] \in Nat
  BY CountsAreNumbers DEF Fits
<1>2. \A i \in Inodes : C[i] \in Nat /\ C[i] = Cardinality(InodeOf(S.file, i)) + H[i]
  BY <1>1
<1>3. C \in [Inodes -> Nat]
  BY <1>2
<1>4. /\ U.filp = S.filp /\ U.cloexec = S.cloexec /\ U.file = S.file /\ U.count = C
      /\ U = [filp |-> U.filp, cloexec |-> U.cloexec, file |-> U.file, count |-> U.count]
  OBVIOUS
<1> HIDE DEF U
<1>5. Fits(t, U, H)
  BY <1>2, <1>3, <1>4 DEF Fits
<1>6. QED
  BY <1>5 DEF U

(* The bits of the descriptors do not matter. *)
LEMMA BitsFit ==
  ASSUME NEW t, NEW S, NEW G, Fits(t, S, G), NEW bits \in SUBSET Fds
  PROVE  Fits(t, [filp |-> S.filp, cloexec |-> bits, file |-> S.file, count |-> S.count], G)
<1> DEFINE U == [filp |-> S.filp, cloexec |-> bits, file |-> S.file, count |-> S.count]
<1>1. /\ U.filp = S.filp /\ U.cloexec = bits /\ U.file = S.file /\ U.count = S.count
      /\ U = [filp |-> U.filp, cloexec |-> U.cloexec, file |-> U.file, count |-> U.count]
  OBVIOUS
<1> HIDE DEF U
<1>2. Fits(t, U, G)
  BY <1>1 DEF Fits
<1>3. QED
  BY <1>2 DEF U

(* The references from the directories when t changes both of its own *)
LEMMA DirsMove ==
  ASSUME FilesInv, NEW t \in Tasks, NEW a, NEW b, NEW i \in Inodes
  PROVE  /\ AtDir(Put(pwd, t, a), i) + AtDir(Put(root, t, b), i) + forsaken[i] \in Nat
         /\ AtDir(Put(pwd, t, a), i) + AtDir(Put(root, t, b), i) + forsaken[i]
              = Dirs[i] - One(pwd[t], i) - One(root[t], i) + One(a, i) + One(b, i)
         /\ Dirs[i] \in Nat /\ One(pwd[t], i) + One(root[t], i) <= Dirs[i]
<1>1. DOMAIN pwd = Tasks /\ DOMAIN root = Tasks /\ forsaken[i] \in Nat
  BY DEF FilesInv, FilesTypeOK
<1>2. /\ AtDir(Put(pwd, t, a), i) = AtDir(pwd, i) - One(pwd[t], i) + One(a, i)
      /\ AtDir(pwd, i) \in Nat /\ One(pwd[t], i) <= AtDir(pwd, i)
  BY <1>1, DirMoves
<1>3. /\ AtDir(Put(root, t, b), i) = AtDir(root, i) - One(root[t], i) + One(b, i)
      /\ AtDir(root, i) \in Nat /\ One(root[t], i) <= AtDir(root, i)
  BY <1>1, DirMoves
<1>4. Dirs[i] = AtDir(pwd, i) + AtDir(root, i) + forsaken[i]
  BY DEF Dirs
<1>5. One(pwd[t], i) \in Nat /\ One(root[t], i) \in Nat /\ One(a, i) \in Nat /\ One(b, i) \in Nat
  BY DEF One
<1>6. QED
  BY <1>1, <1>2, <1>3, <1>4, <1>5

(* The step that gives t the directories a and b in place of its own, and  *)
(* the descriptors and files of S; it may begin or cease to live with it.  *)
Redirects(t, S, a, b, C) ==
  /\ C = [i \in Inodes |-> C[i]]
  /\ \A i \in Inodes :
       C[i] = S.count[i] - One(pwd[t], i) - One(root[t], i) + One(a, i) + One(b, i)
  /\ filp' = Put(filp, t, S.filp) /\ close_on_exec' = Put(close_on_exec, t, S.cloexec)
  /\ file_table' = S.file /\ i_count' = C
  /\ pwd' = Put(pwd, t, a) /\ root' = Put(root, t, b)
  /\ opening[t] = NoFd /\ UNCHANGED <<opening, forsaken, no_root>>
  /\ alive' \in SUBSET Tasks /\ alive \ {t} \subseteq alive'
  /\ t \notin alive' => S.filp = [fd \in Fds |-> NoFile] /\ a = NoInode /\ b = NoInode

LEMMA DirsKeep ==
  ASSUME FilesInv, NEW t \in Tasks, NEW S, Fits(t, S, Dirs),
         NEW a \in Inode0, NEW b \in Inode0, NEW C, Redirects(t, S, a, b, C)
  PROVE  FilesInv'
<1> DEFINE H == [i \in Inodes |-> AtDir(pwd', i) + AtDir(root', i) + forsaken'[i]]
           U == [filp |-> S.filp, cloexec |-> S.cloexec, file |-> S.file, count |-> C]
<1>0. /\ C = [i \in Inodes |-> C[i]]
      /\ \A i \in Inodes :
           C[i] = S.count[i] - One(pwd[t], i) - One(root[t], i) + One(a, i) + One(b, i)
      /\ filp' = Put(filp, t, S.filp) /\ close_on_exec' = Put(close_on_exec, t, S.cloexec)
      /\ file_table' = S.file /\ i_count' = C
      /\ pwd' = Put(pwd, t, a) /\ root' = Put(root, t, b)
      /\ opening[t] = NoFd /\ UNCHANGED <<opening, forsaken, no_root>>
      /\ alive' \in SUBSET Tasks /\ alive \ {t} \subseteq alive'
      /\ t \notin alive' => S.filp = [fd \in Fds |-> NoFile] /\ a = NoInode /\ b = NoInode
  BY DEF Redirects
<1>1. /\ filp \in [Tasks -> [Fds -> Files \cup {NoFile}]]
      /\ opening \in [Tasks -> Fds \cup {NoFd}] /\ no_root \in BOOLEAN
      /\ pwd \in [Tasks -> Inode0] /\ root \in [Tasks -> Inode0] /\ forsaken \in [Inodes -> Nat]
  BY DEF FilesInv, FilesTypeOK, Inode0
<1>2. \A i \in Inodes :
        /\ AtDir(pwd', i) + AtDir(root', i) + forsaken'[i] \in Nat
        /\ AtDir(pwd', i) + AtDir(root', i) + forsaken'[i]
             = Dirs[i] - One(pwd[t], i) - One(root[t], i) + One(a, i) + One(b, i)
        /\ Dirs[i] \in Nat
  BY <1>0, DirsMove
<1>3. \A i \in Inodes : H[i] = AtDir(pwd', i) + AtDir(root', i) + forsaken'[i]
  OBVIOUS
<1>4. H \in [Inodes -> Nat]
  BY <1>2
<1> HIDE DEF H
<1>5. \A i \in Inodes : C[i] = S.count[i] - Dirs[i] + H[i]
  <2>1. TAKE i \in Inodes
  <2>2. S.count[i] \in Nat
    BY DEF Fits
  <2>3. /\ One(pwd[t], i) \in Nat /\ One(root[t], i) \in Nat
        /\ One(a, i) \in Nat /\ One(b, i) \in Nat
    BY DEF One
  <2>4. H[i] = Dirs[i] - One(pwd[t], i) - One(root[t], i) + One(a, i) + One(b, i)
    BY <1>2, <1>3
  <2>5. C[i] = S.count[i] - One(pwd[t], i) - One(root[t], i) + One(a, i) + One(b, i)
    BY <1>0
  <2>6. QED
    BY <1>2, <2>2, <2>3, <2>4, <2>5
<1>6. Fits(t, U, H)
  BY <1>0, <1>4, <1>5, FitsMoves
<1>7. Stored(t, U, NoFd)
  BY <1>0, <1>1 DEF Stored, Put
<1>8. \A u \in Tasks \ alive' :
        /\ filp'[u] = [fd \in Fds |-> NoFile]
        /\ pwd'[u] = NoInode /\ root'[u] = NoInode /\ opening'[u] = NoFd
  <2>1. TAKE u \in Tasks \ alive'
  <2>2. CASE u = t
    BY <1>0, <1>1, <2>2 DEF Put
  <2>3. CASE u # t
    <3>1. filp'[u] = filp[u] /\ pwd'[u] = pwd[u] /\ root'[u] = root[u] /\ opening'[u] = opening[u]
      BY <1>0, <1>1, <2>3 DEF Put
    <3>2. u \in Tasks \ alive
      BY <1>0, <2>3
    <3>3. QED
      BY <3>1, <3>2 DEF FilesInv
  <2>4. QED
    BY <2>2, <2>3
<1>9. pwd' \in [Tasks -> Inode0] /\ root' \in [Tasks -> Inode0]
  BY <1>0, <1>1 DEF Put
<1>10. Around(H)
  BY <1>0, <1>1, <1>3, <1>8, <1>9 DEF Around
<1> HIDE DEF U
<1>11. QED
  BY <1>6, <1>7, <1>10, FitsInv

(* iget and iput of an inode, or of none *)
LEMMA CountMoves ==
  ASSUME NEW C, C = [i \in Inodes |-> C[i]], NEW a, NEW b \in Inodes
  PROVE  /\ iput(C, a) = [i \in Inodes |-> iput(C, a)[i]]
         /\ iget(C, b) = [i \in Inodes |-> iget(C, b)[i]]
         /\ \A i \in Inodes : C[i] \in Nat =>
              iput(C, a)[i] = C[i] - One(a, i) /\ iget(C, b)[i] = C[i] + One(b, i)
<1>1. \A i \in Inodes : C[i] \in Int => C[i] - 0 = C[i] /\ C[i] + 0 = C[i]
  OBVIOUS
<1>2. \A i \in Inodes : i # NoInode
  BY FilesConstants DEF NoInode
<1>3. /\ iput(C, a) = [i \in Inodes |-> iput(C, a)[i]]
      /\ iget(C, b) = [i \in Inodes |-> iget(C, b)[i]]
  BY DEF iput, iget
<1>4. \A i \in Inodes : C[i] \in Nat => iput(C, a)[i] = C[i] - One(a, i)
  <2>1. CASE a = NoInode
    BY <1>1, <1>2, <2>1 DEF iput, One
  <2>2. CASE a # NoInode
    BY <1>1, <2>2 DEF iput, One
  <2>3. QED
    BY <2>1, <2>2
<1>5. \A i \in Inodes : C[i] \in Nat => iget(C, b)[i] = C[i] + One(b, i)
  BY <1>1 DEF iget, One
<1>6. QED
  BY <1>3, <1>4, <1>5

-----------------------------------------------------------------------------
(* mount_root *)
LEMMA MountKeeps ==
  ASSUME FilesInv, NEW t \in Tasks, mount_root(t)
  PROVE  FilesInv'
<1>1. /\ t \notin alive /\ alive' = {t} /\ alive = {}
      /\ pwd' = Put(pwd, t, 1) /\ root' = Put(root, t, 1)
      /\ i_count' = [i_count EXCEPT ![1] = @ + 2]
      /\ UNCHANGED <<filp, close_on_exec, file_table, opening, forsaken, no_root>>
  BY DEF mount_root, Put
<1>2. opening[t] = NoFd /\ pwd[t] = NoInode /\ root[t] = NoInode
  BY <1>1 DEF FilesInv
<1>3. /\ filp \in [Tasks -> [Fds -> Files \cup {NoFile}]]
      /\ close_on_exec \in [Tasks -> SUBSET Fds] /\ i_count \in [Inodes -> Nat]
  BY DEF FilesInv, FilesTypeOK
<1>4. Fits(t, State(t), Dirs)
  BY InvFits
<1>5. /\ State(t).filp = filp[t] /\ State(t).cloexec = close_on_exec[t]
      /\ State(t).file = file_table /\ State(t).count = i_count
  BY DEF State
<1>6. \A i \in Inodes :
        i_count'[i] = State(t).count[i] - One(pwd[t], i) - One(root[t], i) + One(1, i) + One(1, i)
  <2>1. TAKE i \in Inodes
  <2>2. One(pwd[t], i) = 0 /\ One(root[t], i) = 0
    BY <1>2, FilesConstants DEF One, NoInode
  <2>3. i_count[i] \in Nat /\ One(1, i) = IF i = 1 THEN 1 ELSE 0
    BY <1>3 DEF One
  <2>4. i_count'[i] = IF i = 1 THEN i_count[i] + 2 ELSE i_count[i]
    BY <1>1, <1>3
  <2>5. QED
    BY <1>5, <2>2, <2>3, <2>4
<1>7. i_count' = [i \in Inodes |-> i_count'[i]]
  BY <1>1, <1>3
<1>8. /\ filp' = Put(filp, t, State(t).filp)
      /\ close_on_exec' = Put(close_on_exec, t, State(t).cloexec)
      /\ file_table' = State(t).file
  BY <1>1, <1>3, <1>5 DEF Put
<1>9. 1 \in Inode0
  BY FilesConstants DEF Inode0
<1>10. Redirects(t, State(t), 1, 1, i_count')
  BY <1>1, <1>2, <1>6, <1>7, <1>8 DEF Redirects
<1>11. QED
  BY <1>4, <1>9, <1>10, DirsKeep

(* chdir and chroot *)
LEMMA ChdirKeeps ==
  ASSUME FilesInv, NEW t \in Tasks, NEW n \in Inodes,
         sys_chdir(t, n) \/ sys_chroot(t, n)
  PROVE  FilesInv'
<1>1. /\ t \in alive /\ opening[t] = NoFd
      /\ UNCHANGED <<filp, close_on_exec, file_table, opening, alive, forsaken, no_root>>
  BY DEF sys_chdir, sys_chroot, Running
<1>2. /\ filp \in [Tasks -> [Fds -> Files \cup {NoFile}]]
      /\ close_on_exec \in [Tasks -> SUBSET Fds] /\ i_count \in [Inodes -> Nat]
      /\ pwd \in [Tasks -> Inode0] /\ root \in [Tasks -> Inode0] /\ alive \subseteq Tasks
  BY DEF FilesInv, FilesTypeOK, Inode0
<1>3. Fits(t, State(t), Dirs)
  BY InvFits
<1>4. /\ State(t).filp = filp[t] /\ State(t).cloexec = close_on_exec[t]
      /\ State(t).file = file_table /\ State(t).count = i_count
  BY DEF State
<1>5. /\ filp' = Put(filp, t, State(t).filp)
      /\ close_on_exec' = Put(close_on_exec, t, State(t).cloexec)
      /\ file_table' = State(t).file
  BY <1>1, <1>2, <1>4 DEF Put
<1>6. n \in Inode0 /\ pwd[t] \in Inode0 /\ root[t] \in Inode0
  BY <1>2 DEF Inode0
<1>7. /\ \A a : \A i \in Inodes : One(a, i) \in Nat
      /\ \A i \in Inodes : i_count[i] \in Nat
  BY <1>2 DEF One
<1>8. ASSUME NEW old, i_count' = iput(iget(i_count, n), old)
      PROVE  /\ i_count' = [i \in Inodes |-> i_count'[i]]
             /\ \A i \in Inodes : i_count'[i] = i_count[i] + One(n, i) - One(old, i)
  <2> DEFINE C == iget(i_count, n)
  <2>1. i_count = [i \in Inodes |-> i_count[i]]
    BY <1>2
  <2>2. C = [i \in Inodes |-> C[i]] /\ \A i \in Inodes : C[i] = i_count[i] + One(n, i)
    BY <1>2, <2>1, CountMoves
  <2>3. \A i \in Inodes : C[i] \in Nat
    BY <1>7, <2>2
  <2> HIDE DEF C
  <2>4. /\ iput(C, old) = [i \in Inodes |-> iput(C, old)[i]]
        /\ \A i \in Inodes : iput(C, old)[i] = C[i] - One(old, i)
    BY <2>2, <2>3, CountMoves
  <2>5. i_count' = iput(C, old)
    BY <1>8 DEF C
  <2>6. i_count' = [i \in Inodes |-> i_count'[i]]
    BY <2>4, <2>5
  <2>7. \A i \in Inodes : i_count'[i] = i_count[i] + One(n, i) - One(old, i)
    <3>1. TAKE i \in Inodes
    <3>2. C[i] = i_count[i] + One(n, i)
      BY <2>2
    <3>3. i_count'[i] = C[i] - One(old, i)
      BY <2>4, <2>5
    <3>4. i_count[i] \in Nat /\ One(n, i) \in Nat /\ One(old, i) \in Nat
      BY <1>7
    <3>5. QED
      BY <3>2, <3>3, <3>4
  <2>8. QED
    BY <2>6, <2>7
<1>9. CASE sys_chdir(t, n)
  <2>1. /\ pwd' = Put(pwd, t, n) /\ root' = Put(root, t, root[t])
        /\ i_count' = iput(iget(i_count, n), pwd[t])
    BY <1>2, <1>9 DEF sys_chdir, Put
  <2>2. /\ i_count' = [i \in Inodes |-> i_count'[i]]
        /\ \A i \in Inodes : i_count'[i] = i_count[i] + One(n, i) - One(pwd[t], i)
    BY <1>8, <2>1
  <2>3. \A i \in Inodes :
          i_count'[i] = State(t).count[i] - One(pwd[t], i) - One(root[t], i)
                          + One(n, i) + One(root[t], i)
    BY <1>4, <1>7, <2>2
  <2>4. Redirects(t, State(t), n, root[t], i_count')
    BY <1>1, <1>2, <1>5, <2>1, <2>2, <2>3 DEF Redirects
  <2>5. QED
    BY <1>3, <1>6, <2>4, DirsKeep
<1>10. CASE sys_chroot(t, n)
  <2>1. /\ pwd' = Put(pwd, t, pwd[t]) /\ root' = Put(root, t, n)
        /\ i_count' = iput(iget(i_count, n), root[t])
    BY <1>2, <1>10 DEF sys_chroot, Put
  <2>2. /\ i_count' = [i \in Inodes |-> i_count'[i]]
        /\ \A i \in Inodes : i_count'[i] = i_count[i] + One(n, i) - One(root[t], i)
    BY <1>8, <2>1
  <2>3. \A i \in Inodes :
          i_count'[i] = State(t).count[i] - One(pwd[t], i) - One(root[t], i)
                          + One(pwd[t], i) + One(n, i)
    BY <1>4, <1>7, <2>2
  <2>4. Redirects(t, State(t), pwd[t], n, i_count')
    BY <1>1, <1>2, <1>5, <2>1, <2>2, <2>3 DEF Redirects
  <2>5. QED
    BY <1>3, <1>6, <2>4, DirsKeep
<1>11. QED
  BY <1>9, <1>10

(* exit closes what is open and gives both directories back. *)
LEMMA ExitKeeps ==
  ASSUME FilesInv, NEW t \in Tasks, Exit(t)
  PROVE  FilesInv'
<1> DEFINE open == {fd \in Fds : filp[t][fd] # NoFile}
           S == ClosedAll(State(t), open)
           C == iput(iput(S.count, pwd[t]), root[t])
           U == [filp |-> S.filp, cloexec |-> {}, file |-> S.file, count |-> S.count]
<1>1. /\ filp \in [Tasks -> [Fds -> Files \cup {NoFile}]] /\ alive \subseteq Tasks
      /\ pwd \in [Tasks -> Inode0] /\ root \in [Tasks -> Inode0]
  BY DEF FilesInv, FilesTypeOK, Inode0
<1>2. State(t).filp = filp[t]
  BY DEF State
<1>3. /\ Fits(t, S, Dirs)
      /\ S.filp = [fd \in Fds |-> IF fd \in open THEN NoFile ELSE State(t).filp[fd]]
  <2>1. Fits(t, State(t), Dirs) /\ open \in SUBSET Fds
    BY InvFits
  <2> HIDE DEF open
  <2>2. QED
    BY <2>1, CloseFits
<1>4. S.filp = [fd \in Fds |-> NoFile]
  BY <1>2, <1>3
<1>5. /\ S = [filp |-> S.filp, cloexec |-> S.cloexec, file |-> S.file, count |-> S.count]
      /\ S.count \in [Inodes -> Nat]
  <2> HIDE DEF S
  <2> QED BY <1>3 DEF Fits
<1>6. /\ filp' = [filp EXCEPT ![t] = S.filp] /\ close_on_exec' = [close_on_exec EXCEPT ![t] = {}]
      /\ file_table' = S.file /\ i_count' = C
      /\ t \in alive /\ opening[t] = NoFd /\ alive' = alive \ {t}
      /\ pwd' = Put(pwd, t, NoInode) /\ root' = Put(root, t, NoInode)
      /\ UNCHANGED <<opening, forsaken, no_root>>
  <2>1. /\ Set(t, [S EXCEPT !.count = iput(iput(@, pwd[t]), root[t]), !.cloexec = {}])
        /\ t \in alive /\ opening[t] = NoFd /\ alive' = alive \ {t}
        /\ pwd' = Put(pwd, t, NoInode) /\ root' = Put(root, t, NoInode)
        /\ UNCHANGED <<opening, forsaken, no_root>>
    BY DEF Exit, Running, Put
  <2> DEFINE V == [S EXCEPT !.count = iput(iput(@, pwd[t]), root[t]), !.cloexec = {}]
  <2>2. V.filp = S.filp /\ V.cloexec = {} /\ V.file = S.file /\ V.count = C
    <3> HIDE DEF S
    <3> QED BY <1>5
  <2>3. /\ filp' = [filp EXCEPT ![t] = V.filp]
        /\ close_on_exec' = [close_on_exec EXCEPT ![t] = V.cloexec]
        /\ file_table' = V.file /\ i_count' = V.count
    BY <2>1 DEF Set
  <2> HIDE DEF V, C, S
  <2>4. QED
    BY <2>1, <2>2, <2>3
<1> HIDE DEF S
<1>7. Fits(t, U, Dirs)
  <2>1. {} \in SUBSET Fds
    OBVIOUS
  <2>2. QED
    BY <1>3, <2>1, BitsFit
<1>8. /\ C = [i \in Inodes |-> C[i]]
      /\ \A i \in Inodes : C[i] = S.count[i] - One(pwd[t], i) - One(root[t], i)
  <2> DEFINE B == iput(S.count, pwd[t])
  <2>1. 1 \in Inodes
    BY FilesConstants
  <2>2. S.count = [i \in Inodes |-> S.count[i]] /\ \A i \in Inodes : S.count[i] \in Nat
    BY <1>5
  <2>3. B = [i \in Inodes |-> B[i]] /\ \A i \in Inodes : B[i] = S.count[i] - One(pwd[t], i)
    BY <2>1, <2>2, CountMoves
  <2>4. \A i \in Inodes : B[i] \in Nat
    <3>1. TAKE i \in Inodes
    <3>2. /\ One(pwd[t], i) \in Nat /\ One(root[t], i) \in Nat
          /\ One(pwd[t], i) + One(root[t], i) <= Dirs[i] /\ Dirs[i] \in Nat
      BY DirsMove DEF One
    <3>3. S.count[i] = Cardinality(InodeOf(S.file, i)) + Dirs[i]
      BY <1>3 DEF Fits
    <3>4. Cardinality(InodeOf(S.file, i)) \in Nat
      BY CountsAreNumbers
    <3>5. QED
      BY <2>3, <3>2, <3>3, <3>4
  <2> HIDE DEF B
  <2>5. /\ iput(B, root[t]) = [i \in Inodes |-> iput(B, root[t])[i]]
        /\ \A i \in Inodes : iput(B, root[t])[i] = B[i] - One(root[t], i)
    BY <2>1, <2>3, <2>4, CountMoves
  <2>6. C = iput(B, root[t])
    BY DEF B
  <2> HIDE DEF C
  <2>7. QED
    BY <2>3, <2>5, <2>6
<1> HIDE DEF C
<1>9. /\ U.filp = S.filp /\ U.cloexec = {} /\ U.file = S.file /\ U.count = S.count
  OBVIOUS
<1> HIDE DEF U
<1>10. \A i \in Inodes :
         C[i] = U.count[i] - One(pwd[t], i) - One(root[t], i) + One(NoInode, i) + One(NoInode, i)
  <2>1. TAKE i \in Inodes
  <2>2. One(NoInode, i) = 0
    BY FilesConstants DEF One, NoInode
  <2>3. S.count[i] \in Nat /\ One(pwd[t], i) \in Nat /\ One(root[t], i) \in Nat
    BY <1>5 DEF One
  <2>4. QED
    BY <1>8, <1>9, <2>2, <2>3
<1>11. /\ filp' = Put(filp, t, U.filp) /\ close_on_exec' = Put(close_on_exec, t, U.cloexec)
       /\ file_table' = U.file /\ i_count' = C
  BY <1>6, <1>9 DEF Put
<1>12. NoInode \in Inode0
  BY DEF Inode0
<1>13. /\ alive' \in SUBSET Tasks /\ alive \ {t} \subseteq alive'
       /\ U.filp = [fd \in Fds |-> NoFile]
  BY <1>1, <1>4, <1>6, <1>9
<1>14. Redirects(t, U, NoInode, NoInode, C)
  BY <1>6, <1>8, <1>10, <1>11, <1>13 DEF Redirects
<1>15. QED
  BY <1>7, <1>12, <1>14, DirsKeep

(* encr, decr and F2 lose both directories of a task: nothing is put. *)
LEMMA ForsakesKeeps ==
  ASSUME FilesInv, NEW t \in Tasks, t \in alive, Forsakes(t)
  PROVE  FilesInv'
<1>1. /\ filp \in [Tasks -> [Fds -> Files \cup {NoFile}]]
      /\ close_on_exec \in [Tasks -> SUBSET Fds] /\ opening \in [Tasks -> Fds \cup {NoFd}]
      /\ pwd \in [Tasks -> Inode0] /\ root \in [Tasks -> Inode0]
      /\ forsaken \in [Inodes -> Nat] /\ no_root \in BOOLEAN /\ alive \subseteq Tasks
  BY DEF FilesInv, FilesTypeOK, Inode0
<1>2. /\ pwd' = Put(pwd, t, NoInode) /\ root' = Put(root, t, NoInode)
      /\ UNCHANGED <<filp, close_on_exec, file_table, i_count, opening, alive, no_root>>
  BY DEF Forsakes, Put
<1>3. /\ forsaken' = [i \in Inodes |-> forsaken'[i]]
      /\ \A i \in Inodes : forsaken'[i] = forsaken[i] + One(pwd[t], i) + One(root[t], i)
  BY DEF Forsakes, One
<1>4. \A i \in Inodes :
        /\ forsaken'[i] \in Nat
        /\ Dirs[i] = AtDir(pwd', i) + AtDir(root', i) + forsaken'[i]
  <2>1. TAKE i \in Inodes
  <2>2. /\ AtDir(pwd', i) + AtDir(root', i) + forsaken[i]
             = Dirs[i] - One(pwd[t], i) - One(root[t], i) + One(NoInode, i) + One(NoInode, i)
        /\ Dirs[i] \in Nat
    BY <1>2, DirsMove
  <2>3. One(NoInode, i) = 0
    BY FilesConstants DEF One, NoInode
  <2>4. One(pwd[t], i) \in Nat /\ One(root[t], i) \in Nat /\ forsaken[i] \in Nat
    BY <1>1 DEF One
  <2>5. AtDir(pwd', i) \in Nat /\ AtDir(root', i) \in Nat
    BY CountsAreNumbers
  <2>6. forsaken'[i] = forsaken[i] + One(pwd[t], i) + One(root[t], i)
    BY <1>3
  <2>7. QED
    BY <2>2, <2>3, <2>4, <2>5, <2>6
<1>5. /\ forsaken' \in [Inodes -> Nat]
      /\ pwd' \in [Tasks -> Inode0] /\ root' \in [Tasks -> Inode0]
  BY <1>1, <1>2, <1>3, <1>4 DEF Put, Inode0
<1>6. \A u \in Tasks \ alive :
        /\ filp'[u] = [fd \in Fds |-> NoFile]
        /\ pwd'[u] = NoInode /\ root'[u] = NoInode /\ opening'[u] = NoFd
  <2>1. \A u \in Tasks \ alive : pwd'[u] = pwd[u] /\ root'[u] = root[u]
    BY <1>1, <1>2 DEF Put
  <2>2. QED
    BY <1>2, <2>1 DEF FilesInv
<1>7. Around(Dirs)
  BY <1>1, <1>2, <1>4, <1>5, <1>6 DEF Around
<1>8. Fits(t, State(t), Dirs)
  BY InvFits
<1>9. /\ State(t).filp = filp[t] /\ State(t).cloexec = close_on_exec[t]
      /\ State(t).file = file_table /\ State(t).count = i_count
  BY DEF State
<1>10. opening[t] # NoFd =>
         /\ filp[t][opening[t]] \in Files
         /\ file_table[filp[t][opening[t]]] = [f_count |-> 1, f_inode |-> NoInode]
  BY DEF FilesInv
<1>11. Stored(t, State(t), opening[t])
  BY <1>1, <1>2, <1>9, <1>10 DEF Stored, Put
<1>12. QED
  BY <1>7, <1>8, <1>11, FitsInv

(* fork gives the child the descriptors and the directories of its father. *)
LEMMA ForkKeeps ==
  ASSUME FilesInv, NEW t \in Tasks, NEW u \in Tasks, copy_process(t, u)
  PROVE  FilesInv'
<1> DEFINE H == [i \in Inodes |-> AtDir(pwd', i) + AtDir(root', i) + forsaken'[i]]
           S == [filp |-> filp[t], cloexec |-> close_on_exec[t], file |-> file_table',
                 count |-> i_count']
<1>1. /\ filp \in [Tasks -> [Fds -> Files \cup {NoFile}]]
      /\ close_on_exec \in [Tasks -> SUBSET Fds] /\ opening \in [Tasks -> Fds \cup {NoFd}]
      /\ file_table \in [Files -> File] /\ i_count \in [Inodes -> Nat]
      /\ pwd \in [Tasks -> Inode0] /\ root \in [Tasks -> Inode0]
      /\ forsaken \in [Inodes -> Nat] /\ no_root \in BOOLEAN /\ alive \subseteq Tasks
  BY DEF FilesInv, FilesTypeOK, File, Inode0
<1>2. /\ t \in alive /\ opening[t] = NoFd /\ u \notin alive /\ alive' = alive \cup {u}
      /\ filp' = Put(filp, u, filp[t]) /\ close_on_exec' = Put(close_on_exec, u, close_on_exec[t])
      /\ pwd' = Put(pwd, u, pwd[t]) /\ root' = Put(root, u, root[t])
      /\ UNCHANGED <<opening, forsaken, no_root>>
  BY DEF copy_process, Running, Put
<1>3. /\ file_table' = [f \in Files |-> file_table'[f]]
      /\ \A f \in Files :
           file_table'[f] = [file_table[f] EXCEPT !.f_count = @ + Held(filp[t], f)]
  BY DEF copy_process, Held, HeldAt
<1>4. /\ i_count' = [i \in Inodes |-> i_count'[i]]
      /\ \A i \in Inodes : i_count'[i] = i_count[i] + One(pwd[t], i) + One(root[t], i)
  BY DEF copy_process, One
<1>5. /\ filp[u] = [fd \in Fds |-> NoFile] /\ opening[u] = NoFd
      /\ pwd[u] = NoInode /\ root[u] = NoInode
  BY <1>2 DEF FilesInv
<1>6. Fits(u, State(u), Dirs) /\ Fits(t, State(t), Dirs)
  BY InvFits
<1>7. \A f \in Files :
        /\ file_table[f].f_count = OthersHold(filp, u, f)
        /\ OthersHold(filp, u, f) \in Nat /\ Held(filp[t], f) \in Nat
        /\ file_table[f].f_count = OthersHold(filp, t, f) + Held(filp[t], f)
        /\ OthersHold(filp, t, f) \in Nat
  <2>1. TAKE f \in Files
  <2>2. file_table[f].f_count = OthersHold(filp, u, f) + Held(filp[u], f)
    BY <1>6 DEF Fits, State
  <2>3. file_table[f].f_count = OthersHold(filp, t, f) + Held(filp[t], f)
    BY <1>6 DEF Fits, State
  <2>4. Held(filp[u], f) = 0
    <3>1. HeldAt(filp[u], f) = {}
      BY <1>5 DEF HeldAt, Files, NoFile
    <3>2. QED
      BY <3>1, FS_EmptySet DEF Held
  <2>5. /\ OthersHold(filp, u, f) \in Nat /\ Held(filp[t], f) \in Nat
        /\ OthersHold(filp, t, f) \in Nat
    BY CountsAreNumbers
  <2>6. QED
    BY <2>2, <2>3, <2>4, <2>5
<1>8. \A f \in Files :
        /\ file_table'[f] \in File
        /\ file_table'[f].f_count = file_table[f].f_count + Held(filp[t], f)
        /\ file_table'[f].f_inode = file_table[f].f_inode
  <2>1. TAKE f \in Files
  <2>2. file_table[f] \in File /\ Held(filp[t], f) \in Nat
    BY <1>1, <1>7
  <2>3. file_table'[f] = [file_table[f] EXCEPT !.f_count = @ + Held(filp[t], f)]
    BY <1>3
  <2>4. QED
    BY <2>2, <2>3 DEF File
<1>9. file_table' \in [Files -> File]
  BY <1>3, <1>8
<1>10. \A f \in Files : file_table'[f].f_count = OthersHold(filp, u, f) + Held(filp[t], f)
  BY <1>7, <1>8
<1>11. \A f \in Files : file_table'[f].f_count = 0 => file_table'[f].f_inode = NoInode
  <2>1. TAKE f \in Files
  <2>2. file_table'[f].f_count = 0 => file_table[f].f_count = 0
    <3>1. file_table[f].f_count \in Nat /\ Held(filp[t], f) \in Nat
      BY <1>1, <1>7 DEF File
    <3>2. file_table'[f].f_count = file_table[f].f_count + Held(filp[t], f)
      BY <1>8
    <3>3. QED
      BY <3>1, <3>2
  <2>3. file_table[f].f_count = 0 => file_table[f].f_inode = NoInode
    BY DEF FilesInv
  <2>4. QED
    BY <1>8, <2>2, <2>3
<1>12. \A i \in Inodes :
         /\ H[i] \in Nat /\ H[i] = AtDir(pwd', i) + AtDir(root', i) + forsaken'[i]
         /\ H[i] = Dirs[i] + One(pwd[t], i) + One(root[t], i)
         /\ Dirs[i] \in Nat
  <2>1. TAKE i \in Inodes
  <2>2. /\ AtDir(pwd', i) + AtDir(root', i) + forsaken'[i] \in Nat
        /\ AtDir(pwd', i) + AtDir(root', i) + forsaken'[i]
             = Dirs[i] - One(pwd[u], i) - One(root[u], i) + One(pwd[t], i) + One(root[t], i)
        /\ Dirs[i] \in Nat
    BY <1>2, DirsMove
  <2>3. One(pwd[u], i) = 0 /\ One(root[u], i) = 0
    BY <1>5, FilesConstants DEF One, NoInode
  <2>4. One(pwd[t], i) \in Nat /\ One(root[t], i) \in Nat
    BY DEF One
  <2>5. QED
    BY <2>2, <2>3, <2>4
<1>13. H \in [Inodes -> Nat]
  BY <1>12
<1> HIDE DEF H
<1>14. \A i \in Inodes : /\ i_count'[i] = Cardinality(InodeOf(file_table', i)) + H[i]
                         /\ i_count'[i] \in Nat
  <2>1. TAKE i \in Inodes
  <2>2. InodeOf(file_table', i) = InodeOf(file_table, i)
    BY <1>8 DEF InodeOf
  <2>3. i_count[i] = Cardinality(InodeOf(file_table, i)) + Dirs[i]
    BY <1>6 DEF Fits, State
  <2>4. /\ Cardinality(InodeOf(file_table, i)) \in Nat
        /\ One(pwd[t], i) \in Nat /\ One(root[t], i) \in Nat
    BY CountsAreNumbers DEF One
  <2>5. i_count'[i] = i_count[i] + One(pwd[t], i) + One(root[t], i)
    BY <1>4
  <2>6. QED
    BY <1>12, <2>2, <2>3, <2>4, <2>5
<1>15. i_count' \in [Inodes -> Nat]
  BY <1>4, <1>14
<1>16. \A v \in Tasks \ {u} :
         opening[v] # NoFd =>
           /\ filp[v][opening[v]] \in Files
           /\ file_table'[filp[v][opening[v]]] = [f_count |-> 1, f_inode |-> NoInode]
  <2>1. SUFFICES ASSUME NEW v \in Tasks \ {u}, opening[v] # NoFd
                 PROVE  /\ filp[v][opening[v]] \in Files
                        /\ file_table'[filp[v][opening[v]]] = [f_count |-> 1, f_inode |-> NoInode]
    OBVIOUS
  <2> DEFINE f == filp[v][opening[v]]
  <2>2. /\ f \in Files /\ opening[v] \in Fds
        /\ file_table[f] = [f_count |-> 1, f_inode |-> NoInode]
    BY <2>1 DEF FilesInv, FilesTypeOK
  <2>3. v \in Tasks \ {t}
    BY <1>2, <2>1
  <2>4. OthersHold(filp, t, f) > 0
    BY <2>2, <2>3, OthersDo
  <2> HIDE DEF f
  <2>5. file_table[f].f_count = 1 /\ file_table[f].f_inode = NoInode
    BY <2>2
  <2>6. Held(filp[t], f) = 0
    BY <1>7, <2>2, <2>4, <2>5
  <2>7. /\ file_table'[f] \in File /\ file_table'[f].f_count = 1
        /\ file_table'[f].f_inode = NoInode
    BY <1>8, <2>2, <2>5, <2>6
  <2>8. file_table'[f] = [f_count |-> 1, f_inode |-> NoInode]
    BY <2>7 DEF File
  <2>9. QED
    BY <2>2, <2>8 DEF f
<1>17. /\ S.filp = filp[t] /\ S.cloexec = close_on_exec[t]
       /\ S.file = file_table' /\ S.count = i_count'
       /\ S = [filp |-> S.filp, cloexec |-> S.cloexec, file |-> S.file, count |-> S.count]
  OBVIOUS
<1> HIDE DEF S
<1>18. Fits(u, S, H)
  BY <1>1, <1>9, <1>10, <1>11, <1>13, <1>14, <1>15, <1>16, <1>17 DEF Fits
<1>19. Stored(u, S, NoFd)
  BY <1>1, <1>2, <1>5, <1>17 DEF Stored, Put
<1>20. pwd' \in [Tasks -> Inode0] /\ root' \in [Tasks -> Inode0]
  BY <1>1, <1>2 DEF Put
<1>21. \A v \in Tasks \ alive' :
         /\ filp'[v] = [fd \in Fds |-> NoFile]
         /\ pwd'[v] = NoInode /\ root'[v] = NoInode /\ opening'[v] = NoFd
  <2>1. \A v \in Tasks \ {u} : filp'[v] = filp[v] /\ pwd'[v] = pwd[v] /\ root'[v] = root[v]
    BY <1>1, <1>2 DEF Put
  <2>2. QED
    BY <1>2, <2>1 DEF FilesInv
<1>22. Around(H)
  BY <1>1, <1>2, <1>12, <1>20, <1>21 DEF Around
<1>23. QED
  BY <1>18, <1>19, <1>22, FitsInv

(* close, dup, dup2, fcntl and execve *)
LEMMA DescriptorsKeep ==
  ASSUME FilesInv, NEW t \in Tasks,
         \/ Exec(t)
         \/ \E fd \in Fds : \/ sys_close(t, fd) \/ SetFd(t, fd)
                            \/ \E new \in Fds : sys_dup(t, fd, new) \/ sys_dup2(t, fd, new)
  PROVE  FilesInv'
<1>1. Fits(t, State(t), Dirs)
  BY InvFits
<1>2. /\ t \in alive /\ opening[t] = NoFd
      /\ UNCHANGED <<opening, alive>> /\ DirsUnchanged
  BY DEF Exec, sys_close, SetFd, sys_dup, sys_dup2, Running
<1>3. ASSUME NEW S, Set(t, S), Fits(t, S, Dirs)
      PROVE  FilesInv'
  BY <1>2, <1>3, SetKeeps
<1>4. CASE Exec(t)
  <2> DEFINE S == ClosedAll(State(t), close_on_exec[t])
             U == [filp |-> S.filp, cloexec |-> {}, file |-> S.file, count |-> S.count]
  <2>1. Fits(t, S, Dirs)
    <3>1. close_on_exec[t] \in SUBSET Fds
      BY DEF FilesInv, FilesTypeOK
    <3>2. QED
      BY <1>1, <3>1, CloseFits
  <2>2. Set(t, [S EXCEPT !.cloexec = {}])
    BY <1>4 DEF Exec
  <2> HIDE DEF S
  <2>3. S = [filp |-> S.filp, cloexec |-> S.cloexec, file |-> S.file, count |-> S.count]
    BY <2>1 DEF Fits
  <2>4. [S EXCEPT !.cloexec = {}] = U
    BY <2>3
  <2>5. Fits(t, U, Dirs)
    <3>1. {} \in SUBSET Fds
      OBVIOUS
    <3>2. QED
      BY <2>1, <3>1, BitsFit
  <2> HIDE DEF U
  <2>6. Set(t, U)
    BY <2>2, <2>4
  <2>7. QED
    BY <1>3, <2>5, <2>6
<1>5. ASSUME NEW fd \in Fds, sys_close(t, fd)
      PROVE  FilesInv'
  <2>1. Fits(t, ClosedAll(State(t), {fd}), Dirs)
    <3>1. {fd} \in SUBSET Fds
      OBVIOUS
    <3>2. QED
      BY <1>1, <3>1, CloseFits
  <2>2. Set(t, ClosedAll(State(t), {fd}))
    BY <1>5 DEF sys_close, Closed
  <2>3. QED
    BY <1>3, <2>1, <2>2
<1>6. ASSUME NEW fd \in Fds, SetFd(t, fd)
      PROVE  FilesInv'
  <2>1. PICK bits \in {close_on_exec[t] \cup {fd}, close_on_exec[t] \ {fd}} :
          close_on_exec' = [close_on_exec EXCEPT ![t] = bits]
    BY <1>6 DEF SetFd
  <2>2. UNCHANGED <<filp, file_table, i_count>>
    BY <1>6 DEF SetFd
  <2>3. /\ filp \in [Tasks -> [Fds -> Files \cup {NoFile}]]
        /\ close_on_exec \in [Tasks -> SUBSET Fds]
    BY DEF FilesInv, FilesTypeOK
  <2>4. bits \in SUBSET Fds
    BY <2>1, <2>3
  <2> DEFINE U == [filp |-> State(t).filp, cloexec |-> bits, file |-> State(t).file,
                   count |-> State(t).count]
  <2>5. Fits(t, U, Dirs)
    BY <1>1, <2>4, BitsFit
  <2>6. U.filp = filp[t] /\ U.cloexec = bits /\ U.file = file_table /\ U.count = i_count
    BY DEF State
  <2> HIDE DEF U
  <2>7. Set(t, U)
    BY <2>1, <2>2, <2>3, <2>6 DEF Set
  <2>8. QED
    BY <1>3, <2>5, <2>7
<1>7. ASSUME NEW fd \in Fds, NEW new \in Fds, sys_dup(t, fd, new)
      PROVE  FilesInv'
  <2>1. Fits(t, Dupped(State(t), fd, new), Dirs)
    BY <1>1, DupFits
  <2>2. Set(t, Dupped(State(t), fd, new))
    BY <1>7 DEF sys_dup
  <2>3. QED
    BY <1>3, <2>1, <2>2
<1>8. ASSUME NEW fd \in Fds, NEW new \in Fds, sys_dup2(t, fd, new)
      PROVE  FilesInv'
  <2> DEFINE S == ClosedAll(State(t), {new})
  <2>1. Fits(t, S, Dirs)
    <3>1. {new} \in SUBSET Fds
      OBVIOUS
    <3>2. QED
      BY <1>1, <3>1, CloseFits
  <2>2. Set(t, Dupped(S, fd, new))
    BY <1>8 DEF sys_dup2, Closed
  <2> HIDE DEF S
  <2>3. Fits(t, Dupped(S, fd, new), Dirs)
    BY <2>1, DupFits
  <2>4. QED
    BY <1>3, <2>2, <2>3
<1>9. QED
  BY <1>4, <1>5, <1>6, <1>7, <1>8

(* sys_open behind open_namei *)
LEMMA OpenedKeeps ==
  ASSUME FilesInv, NEW t \in Tasks, NEW i \in Inodes \cup {NoInode}, Opened(t, i)
  PROVE  FilesInv'
<1>1. /\ opening[t] # NoFd /\ opening' = [opening EXCEPT ![t] = NoFd]
      /\ UNCHANGED <<close_on_exec, alive>> /\ DirsUnchanged
  BY DEF Opened
<1>2. CASE i = NoInode
  <2>1. /\ filp' = [filp EXCEPT ![t][opening[t]] = NoFile]
        /\ file_table' = [file_table EXCEPT ![filp[t][opening[t]]].f_count = 0]
        /\ i_count' = i_count
    BY <1>2 DEF Opened
  <2>2. QED
    BY <1>1, <2>1, FailedKeeps
<1>3. CASE i # NoInode
  <2>1. /\ filp' = filp /\ i_count' = iget(i_count, i)
        /\ file_table' = [file_table EXCEPT
                            ![filp[t][opening[t]]] = [f_count |-> 1, f_inode |-> i]]
    BY <1>3 DEF Opened
  <2>2. i \in Inodes
    BY <1>3
  <2>3. QED
    BY <1>1, <2>1, <2>2, FoundKeeps
<1>4. QED
  BY <1>2, <1>3

-----------------------------------------------------------------------------
(* Every step keeps the invariant. *)
LEMMA FilesInvNext ==
  ASSUME FilesInv, [FilesNext]_fileVars
  PROVE  FilesInv'
<1>1. CASE UNCHANGED fileVars
  BY <1>1 DEF fileVars, FilesInv, FilesTypeOK, CountsExact, Descriptors
<1>2. CASE FilesNext
  <2>1. PICK t \in Tasks :
          \/ mount_root(t) \/ Open(t) \/ Exec(t) \/ Exit(t)
          \/ sys_encr(t) \/ get_children_from_fs(t)
          \/ \E i \in Inodes \cup {NoInode} : Opened(t, i)
          \/ \E fd \in Fds : \/ sys_close(t, fd) \/ SetFd(t, fd)
                             \/ \E new \in Fds : sys_dup(t, fd, new) \/ sys_dup2(t, fd, new)
          \/ \E u \in Tasks : copy_process(t, u)
          \/ \E i \in Inodes : sys_chdir(t, i) \/ sys_chroot(t, i)
    BY <1>2 DEF FilesNext
  <2>2. CASE mount_root(t)
    BY <2>2, MountKeeps
  <2>3. CASE Open(t)
    BY <2>3, OpenKeeps
  <2>4. CASE \/ Exec(t)
             \/ \E fd \in Fds :
                  \/ sys_close(t, fd) \/ SetFd(t, fd)
                  \/ \E new \in Fds : sys_dup(t, fd, new) \/ sys_dup2(t, fd, new)
    BY <2>4, DescriptorsKeep
  <2>5. CASE Exit(t)
    BY <2>5, ExitKeeps
  <2>6. CASE sys_encr(t) \/ get_children_from_fs(t)
    <3>1. t \in alive /\ Forsakes(t)
      BY <2>6 DEF sys_encr, get_children_from_fs, Running
    <3>2. QED
      BY <3>1, ForsakesKeeps
  <2>7. CASE \E i \in Inodes \cup {NoInode} : Opened(t, i)
    BY <2>7, OpenedKeeps
  <2>8. CASE \E u \in Tasks : copy_process(t, u)
    BY <2>8, ForkKeeps
  <2>9. CASE \E i \in Inodes : sys_chdir(t, i) \/ sys_chroot(t, i)
    BY <2>9, ChdirKeeps
  <2>10. QED
    BY <2>1, <2>2, <2>3, <2>4, <2>5, <2>6, <2>7, <2>8, <2>9
<1>3. QED
  BY <1>1, <1>2

(* open, close, dup, dup2, fcntl, fork, execve, exit, chdir, chroot, encr  *)
(* and F2, in any order and with a task asleep in open_namei: f_count is   *)
(* the number of descriptors of the file, so no file that is in use is     *)
(* given to another opener or given back; and what an inode is counted is  *)
(* what refers to it, with what encr, decr and F2 leave behind.            *)
THEOREM DescriptorsCounted == FilesSpec => []FileCountsExact
<1>1. FilesInit => FilesInv
  BY FilesInvInit
<1>2. FilesInv /\ [FilesNext]_fileVars => FilesInv'
  BY FilesInvNext
<1>3. FilesInv => FileCountsExact
  BY DEF FilesInv, FileCountsExact
<1>4. QED
  BY <1>1, <1>2, <1>3, PTL DEF FilesSpec
=============================================================================
