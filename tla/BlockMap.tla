------------------------------- MODULE BlockMap -------------------------------
(***************************************************************************)
(* The blocks of files: the zones of an inode and its indirect blocks      *)
(* (_bmap of fs/inode.c), new_block and free_block of fs/bitmap.c, and     *)
(* fs/truncate.c, as reads, writes, truncations and a failing mkdir call   *)
(* them for several files of one device.                                   *)
(*                                                                         *)
(* An action is what a task does until it sleeps: in the bread of an       *)
(* indirect block, in the getblk of new_block and in the get_hash_table of *)
(* free_block.                                                             *)
(***************************************************************************)
EXTENDS Naturals, Sequences, FiniteSetsExt

CONSTANTS Tasks, Files,
          NDIRECT,    \* the direct zones of an inode, 7
          FAN,        \* the entries of an indirect block, 512
          NBLOCKS     \* the data blocks of the device

Blocks == 1 .. NBLOCKS
FileBlocks == 0 .. NDIRECT + FAN + FAN * FAN - 1
Entries(h) == 0 .. (IF h \in Files THEN NDIRECT + 1 ELSE FAN - 1)

VARIABLES zmap,    \* the blocks whose bit is set
          table,   \* the zones of each file, the entries of each block
          where,   \* where each task is
          path,    \* bmap: the file and the entries still to follow
          hand,    \* new_block: the block it gets; bread: the one it reads
          walk,    \* truncate: the holders it is in, innermost first, and the
                   \* next entry of each
          mishap   \* history: the first race or panic, see Mishaps

(* twice: two tasks make a block for one entry; crossed: a file is read or *)
(* written while it is truncated; mkdir: sys_mkdir has freed the block of  *)
(* the directory it gives up; panic: "bit already cleared".                *)
Mishaps == {"no", "twice", "crossed", "mkdir", "panic"}

Cleared == [x \in 0 .. FAN - 1 |-> 0]
Junk == [x \in 0 .. FAN - 1 |-> 1]   \* what a block holds before it is cleared
Idle == [file |-> 0, holder |-> 0, rest |-> <<>>, create |-> FALSE]

BlocksTypeOK ==
  /\ zmap \subseteq Blocks
  /\ \A h \in Files \cup Blocks : table[h] \in [Entries(h) -> Blocks \cup {0}]
  /\ where \in [Tasks -> {"user", "bread", "getblk", "truncate"}]
  /\ \A t \in Tasks : hand[t] \in Blocks \cup {0} /\ path[t].file \in Files \cup {0}
  /\ mishap \in Mishaps

BlocksInit ==
  /\ zmap = {}
  /\ table = [h \in Files \cup Blocks |-> IF h \in Blocks THEN Junk ELSE [x \in Entries(h) |-> 0]]
  /\ where = [t \in Tasks |-> "user"] /\ path = [t \in Tasks |-> Idle]
  /\ hand = [t \in Tasks |-> 0] /\ walk = [t \in Tasks |-> <<>>] /\ mishap = "no"

-----------------------------------------------------------------------------
(* The zone of the inode, then the entries of the indirect blocks that     *)
(* lead to block n of a file                                               *)
Route(n) ==
  LET i == n - NDIRECT
      j == i - FAN
  IN IF n < NDIRECT THEN <<n>>
     ELSE IF i < FAN THEN <<NDIRECT, i>>
     ELSE <<NDIRECT + 1, j \div FAN, j % FAN>>

Leave(t, T, m) ==
  /\ where' = [where EXCEPT ![t] = "user"] /\ path' = [path EXCEPT ![t] = Idle]
  /\ hand' = [hand EXCEPT ![t] = 0] /\ walk' = [walk EXCEPT ![t] = <<>>]
  /\ table' = T /\ mishap' = m

(* The entry is b: the block is found, or the indirect block is read.      *)
Follow(t, p, b, T, m) ==
  \/ Len(p.rest) = 1 /\ Leave(t, T, m) /\ zmap' = zmap
  \/ /\ Len(p.rest) > 1
     /\ where' = [where EXCEPT ![t] = "bread"] /\ hand' = [hand EXCEPT ![t] = b]
     /\ path' = [path EXCEPT ![t] = [p EXCEPT !.holder = b, !.rest = Tail(p.rest)]]
     /\ table' = T /\ mishap' = m /\ UNCHANGED <<zmap, walk>>

(* Mutant: the bit is set when the block is there. *)
new_block_late(t, p) ==
  \/ zmap = Blocks /\ Leave(t, table, mishap) /\ zmap' = zmap
  \/ /\ zmap # Blocks /\ zmap' = zmap
     /\ hand' = [hand EXCEPT ![t] = Min(Blocks \ zmap)]
     /\ where' = [where EXCEPT ![t] = "getblk"] /\ path' = [path EXCEPT ![t] = p]
     /\ UNCHANGED <<table, walk, mishap>>

(* new_block up to its getblk *)
new_block(t, p) ==
  \/ zmap = Blocks /\ Leave(t, table, mishap) /\ zmap' = zmap
  \/ /\ zmap # Blocks /\ zmap' = zmap \cup {Min(Blocks \ zmap)}
     /\ hand' = [hand EXCEPT ![t] = Min(Blocks \ zmap)]
     /\ where' = [where EXCEPT ![t] = "getblk"] /\ path' = [path EXCEPT ![t] = p]
     /\ UNCHANGED <<table, walk, mishap>>

(* _bmap at one entry of the zones or of an indirect block *)
Lookup(t, p, h) ==
  LET b == table[h][Head(p.rest)] IN
  \/ b # 0 /\ Follow(t, p, b, table, mishap)
  \/ b = 0 /\ p.create /\ new_block(t, p)
  \/ b = 0 /\ ~p.create /\ Leave(t, table, mishap) /\ zmap' = zmap

Truncated(f) == \E t \in Tasks : where[t] = "truncate" /\ path[t].file = f
Mapped(f) == \E t \in Tasks : where[t] \in {"bread", "getblk"} /\ path[t].file = f
Crossed(f) == mishap' = IF Truncated(f) \/ Mapped(f) THEN "crossed" ELSE mishap

(* bmap and create_block of block n of file f *)
_bmap(t, f, n, create) ==
  /\ where[t] = "user" /\ ~Truncated(f)
  /\ Lookup(t, [file |-> f, holder |-> f, rest |-> Route(n), create |-> create], f)

BreadReturn(t) ==
  /\ where[t] = "bread" /\ Lookup(t, path[t], path[t].holder)

(* The end of new_block: the block is cleared; then the entry is set,      *)
(* whatever it is by now.                                                  *)
GetblkReturn(t) ==
  LET p == path[t]
      b == hand[t]
      x == Head(p.rest)
      T == [table EXCEPT ![b] = Cleared]
      twice == table[p.holder][x] # 0
  IN /\ where[t] = "getblk"
     /\ Follow(t, p, b, [T EXCEPT ![p.holder][x] = b], IF twice THEN "twice" ELSE mishap)

-----------------------------------------------------------------------------
(* free_block.  (It does nothing when somebody else holds the buffer of b, *)
(* who can only be reading the file: that is `crossed`.)                   *)
free_block(b, T) ==
  /\ zmap' = zmap \ {b} /\ table' = [T EXCEPT ![b] = Junk]
  /\ mishap' = IF b \in zmap THEN mishap ELSE "panic"

Holder(t) == walk[t][1][1]
(* The entries of the holder that are still to free *)
Left(t) == {x \in Entries(Holder(t)) : x >= walk[t][1][2] /\ table[Holder(t)][x] # 0}
(* How deep the tree below the first of them is: 0 for a data block *)
Depth(t) ==
  LET x == Min(Left(t)) IN
  IF Holder(t) \in Files THEN (IF x < NDIRECT THEN 0 ELSE x - NDIRECT + 1)
  ELSE walk[t][Len(walk[t])][2] - NDIRECT + 2 - Len(walk[t])
Beyond(w, x) == [w EXCEPT ![1][2] = x + 1]

(* O_TRUNC, or the last iput of a file without a link *)
truncate(t, f) ==
  /\ where[t] = "user"
  /\ where' = [where EXCEPT ![t] = "truncate"] /\ Crossed(f)
  /\ path' = [path EXCEPT ![t].file = f]
  /\ walk' = [walk EXCEPT ![t] = <<<<f, 0>>>>]
  /\ UNCHANGED <<zmap, table, hand>>

(* The next entry of the zones, or of an indirect block in free_ind or     *)
(* free_dind: a data block is freed, and its zone cleared; an indirect     *)
(* block is read.                                                          *)
FreeEntry(t) ==
  LET h == Holder(t)
      x == Min(Left(t))
      b == table[h][x]
  IN /\ where[t] = "truncate" /\ Left(t) # {}
     /\ \/ /\ Depth(t) = 0
           /\ free_block(b, IF h \in Files THEN [table EXCEPT ![h][x] = 0] ELSE table)
           /\ walk' = [walk EXCEPT ![t] = Beyond(@, x)]
        \/ /\ Depth(t) > 0
           /\ walk' = [walk EXCEPT ![t] = <<<<b, 0>>>> \o [@ EXCEPT ![1][2] = x]]
           /\ UNCHANGED <<zmap, table, mishap>>
     /\ UNCHANGED <<where, path, hand>>

(* The end of free_ind and free_dind: the indirect block itself is freed.  *)
FreeTable(t) ==
  /\ where[t] = "truncate" /\ Holder(t) \in Blocks /\ Left(t) = {}
  /\ free_block(Holder(t), table)
  /\ walk' = [walk EXCEPT ![t] = Beyond(Tail(@), @[2][2])]
  /\ UNCHANGED <<where, path, hand>>

(* The end of truncate *)
TruncateEnd(t) ==
  LET f == Holder(t) IN
  /\ where[t] = "truncate" /\ f \in Files /\ Left(t) = {}
  /\ Leave(t, [table EXCEPT ![f][NDIRECT] = 0, ![f][NDIRECT + 1] = 0], mishap)
  /\ zmap' = zmap

(* sys_mkdir, when add_entry finds no room for the new directory f: its    *)
(* block is freed, then its inode with the block still in it.              *)
MkdirFails(t, f) ==
  /\ where[t] = "user" /\ Cardinality({x \in Entries(f) : table[f][x] # 0}) = 1
  /\ table[f][0] # 0
  /\ ~Truncated(f) /\ ~Mapped(f)
  /\ zmap' = zmap \ {table[f][0]} /\ mishap' = "mkdir"
  /\ where' = [where EXCEPT ![t] = "truncate"]
  /\ path' = [path EXCEPT ![t].file = f] /\ walk' = [walk EXCEPT ![t] = <<<<f, 0>>>>]
  /\ UNCHANGED <<table, hand>>

(* Behind a mishap the device is not followed, but for the iput of mkdir.  *)
BlocksNext ==
  \/ mishap = "mkdir" /\ \E t \in Tasks : FreeEntry(t)
  \/ /\ mishap = "no"
     /\ \E t \in Tasks :
          \/ \E f \in Files, n \in FileBlocks, create \in BOOLEAN : _bmap(t, f, n, create)
          \/ BreadReturn(t) \/ GetblkReturn(t)
          \/ \E f \in Files : truncate(t, f) \/ MkdirFails(t, f)
          \/ FreeEntry(t) \/ FreeTable(t) \/ TruncateEnd(t)

-----------------------------------------------------------------------------
(* The entries that hold block b, but those truncate is done with and what *)
(* is left in a block that new_block has not cleared yet                   *)
Done(h, x) == \E t \in Tasks, i \in 1 .. 3 :
                 i \in DOMAIN walk[t] /\ walk[t][i][1] = h /\ x < walk[t][i][2]
InHand(b) == {t \in Tasks : where[t] = "getblk" /\ hand[t] = b}
Holds(b) ==
  UNION {{<<h, x>> : x \in {y \in Entries(h) : table[h][y] = b /\ ~Done(h, y)}} :
         h \in Files \cup {c \in zmap : InHand(c) = {}}}

(* new_block, free_block, _bmap and truncate: a block whose bit is set is  *)
(* in one place, an entry of one file or the hand of one task, and one     *)
(* whose bit is clear is in none, while tasks work on different files: no  *)
(* block is shared, lost or given out twice.                               *)
BlocksExact ==
  mishap = "no" =>
    \A b \in Blocks : Cardinality(Holds(b)) + Cardinality(InHand(b))
                       = (IF b \in zmap THEN 1 ELSE 0)

(* free_block: panic("free_block: bit already cleared") is not reached.     *)
(* No run checks this, for the code does reach it: sys_mkdir that finds no  *)
(* room in the parent frees the block of the new directory and leaves it in *)
(* i_zone[0], and its iput truncates the inode.                             *)
NeverFreedTwice == mishap # "panic"
=============================================================================
