------------------------------ MODULE EncTable ------------------------------
(***************************************************************************)
(* The table of encrypted inodes of fs/security.c, open addressing over    *)
(* TABLE_SIZE entries, as operators on a table T.  An entry whose i_num is *)
(* 0 is free.                                                              *)
(***************************************************************************)
EXTENDS Naturals, FiniteSets

CONSTANTS TABLE_SIZE,
          INodes,   \* the inode numbers in use
          HKeys,    \* the hashed keys
          NoHash    \* and what clear_key makes of one

ASSUME TableAssumption ==
  /\ TABLE_SIZE \in Nat /\ TABLE_SIZE > 2
  /\ INodes \subseteq Nat \ {0} /\ IsFiniteSet(INodes)
  /\ NoHash \in HKeys

Indices == 0 .. TABLE_SIZE - 1
e_dir == [i_num : INodes \cup {0}, h_key : HKeys]
Tables == [Indices -> e_dir]

(* (HASH1(x) + i*HASH2(x)) % TABLE_SIZE.  HASH2 is `1+(x%(TABLE_SIZE-1))`  *)
(* without parentheses around it, so i steps by one.                       *)
Probe(x, i) == ((x % TABLE_SIZE) + i + (x % (TABLE_SIZE - 1))) % TABLE_SIZE

(* How far a loop that looks for x goes: to its entry or to a free one.    *)
(* (With neither in the table it would not end; CHOOSE then fails.)        *)
Distance(T, x) ==
  CHOOSE i \in Indices : /\ T[Probe(x, i)].i_num \in {x, 0}
                         /\ \A j \in 0 .. i - 1 : T[Probe(x, j)].i_num \notin {x, 0}
Place(T, x) == Probe(x, Distance(T, x))

(* search_func, and the tests of add_func and remove_func *)
Listed(T, x) == T[Place(T, x)].i_num = x

add_func(T, entry) ==
  IF Listed(T, entry.i_num) THEN T ELSE [T EXCEPT ![Place(T, entry.i_num)] = entry]

(* The h_key of a free entry, which nobody reads, is forgotten here. *)
FreeEntry == [i_num |-> 0, h_key |-> NoHash]
Freed(T, n) == [T EXCEPT ![n] = FreeEntry]
clear_table == [n \in Indices |-> FreeEntry]

(* Mutant: nothing is moved. *)
RehashNothing(x, start, table) == table

(* The loop of remove_func behind the entry removed: each entry is taken   *)
(* out and added again, up to the first free one.                          *)
Rehash(x, start, table) ==
  LET from[i \in Nat, T \in Tables] ==
        LET n == Probe(x, i) IN
        IF T[n].i_num = 0 THEN T
        ELSE from[i + 1, add_func(Freed(T, n), T[n])]
  IN from[start, table]

(* remove_func of a listed x: the index is advanced twice once the entry   *)
(* is found, so the loop goes on with the second one behind it.            *)
remove_func(T, x) == Rehash(x, Distance(T, x) + 2, Freed(T, Place(T, x)))

(* The inode whose entry the loop thus passes over, unless it is at home:  *)
(* it may not be found any more.                                           *)
PassedOver(T, x) ==
  LET n == Probe(x, Distance(T, x) + 1)
      y == T[n].i_num
  IN IF y # 0 /\ n # Probe(y, 0) THEN {y} ELSE {}
=============================================================================
