------------------------------ MODULE InodeTable ------------------------------
(***************************************************************************)
(* The in-core inodes of fs/inode.c and the inode bitmap of fs/bitmap.c:   *)
(* iget, iput, get_empty_inode, sync_inodes, new_inode and free_inode, as  *)
(* open, close, creat, unlink and sync call them on one device.            *)
(*                                                                         *)
(* An action is what a task does until it sleeps: on a locked inode, in    *)
(* the bread of read_inode or write_inode, in truncate, in add_entry.      *)
(* sleep_on is a wait for the lock to go; by module Sleepers nobody is     *)
(* forgotten who waits like this.                                          *)
(***************************************************************************)
EXTENDS Naturals, FiniteSetsExt

CONSTANTS Tasks,
          NR_INODE,    \* the slots of inode_table
          s_ninodes    \* the inodes of the device

ASSUME InodeAssumption == /\ NR_INODE \in Nat \ {0} /\ NR_INODE >= Cardinality(Tasks)
                          /\ IsFiniteSet(Tasks) /\ s_ninodes \in Nat \ {0}

Slots == 1 .. NR_INODE
Nums == 1 .. s_ninodes
NoSlot == 0

VARIABLES inode_table,
          d_inode,   \* the inodes on the disk (or in their clean buffers)
          s_imap,    \* the inodes whose bit is set
          names,     \* the inodes some directory has an entry for
          last_allocated_inode,
          at,        \* where each task is, see Places
          work,      \* what it is doing: see Works
          ref,       \* the inode it has open
          latest,    \* history: the contents each inode was given last
          odd        \* history: the first race that has happened, see Odd
inodeVars == <<inode_table, d_inode, s_imap, names, last_allocated_inode, at,
               work, ref, latest, odd>>

(* The time stamps, the mode, the size and the zones are one bit, ver. *)
Contents == [i_nlinks : 0 .. 1, ver : 0 .. 1]
m_inode == [i_num : Nums \cup {0}, i_count : 0 .. 2 * Cardinality(Tasks),
            i_lock : BOOLEAN, i_dirt : BOOLEAN, d : Contents]
NoInode == [i_num |-> 0, i_count |-> 0, i_lock |-> FALSE, i_dirt |-> FALSE,
            d |-> [i_nlinks |-> 0, ver |-> 0]]

(* found, read: in iget; put, putwrite, trunc: in iput; link: in           *)
(* add_entry; sync, syncwrite: in sync_inodes.                             *)
Places == {"user", "found", "read", "put", "putwrite", "trunc", "link", "sync", "syncwrite"}
(* The slot it is at, and the empty one that iget has in hand *)
Works == [op : {"none", "open", "unlink"}, num : Nums \cup {0},
          slot : Slots \cup {NoSlot}, empty : Slots \cup {NoSlot}]
NoWork == [op |-> "none", num |-> 0, slot |-> NoSlot, empty |-> NoSlot]

(* stale: the entry that somebody gives iget the number of goes meanwhile; *)
(* wiped: free_inode wipes an inode that sync has locked.                  *)
Odd == {"no", "stale", "wiped"}

InodesTypeOK ==
  /\ inode_table \in [Slots -> m_inode] /\ d_inode \in [Nums -> Contents]
  /\ s_imap \subseteq Nums /\ names \subseteq Nums /\ last_allocated_inode \in Slots
  /\ at \in [Tasks -> Places] /\ work \in [Tasks -> Works]
  /\ ref \in [Tasks -> Slots \cup {NoSlot}] /\ latest \in [Nums -> 0 .. 1] /\ odd \in Odd

(* A device on which inode 1 has a name *)
InodesInit ==
  /\ inode_table = [s \in Slots |-> NoInode]
  /\ d_inode = [n \in Nums |-> [i_nlinks |-> IF n = 1 THEN 1 ELSE 0, ver |-> 0]]
  /\ s_imap = {1} /\ names = {1} /\ last_allocated_inode = 1
  /\ at = [t \in Tasks |-> "user"] /\ work = [t \in Tasks |-> NoWork]
  /\ ref = [t \in Tasks |-> NoSlot] /\ latest = [n \in Nums |-> 0] /\ odd = "no"

-----------------------------------------------------------------------------
(* The operators below say how task t goes on from a table T. *)

Goto(t, place, w) == at' = [at EXCEPT ![t] = place] /\ work' = [work EXCEPT ![t] = w]
GotoSlot(t, place, s) == Goto(t, place, [work[t] EXCEPT !.slot = s])
Return(t) == Goto(t, "user", NoWork)

Locked(T, s) == [T EXCEPT ![s].i_lock = TRUE]
Counted(T, s) == [T EXCEPT ![s].i_count = @ + 1]
Released(T, s) == [T EXCEPT ![s].i_count = @ - 1]

(* The end of write_inode, behind its bread: the inode as it is by now. *)
write_inode(s) ==
  d_inode' = [d_inode EXCEPT ![inode_table[s].i_num] = inode_table[s].d]
Written(s) == [inode_table EXCEPT ![s].i_dirt = FALSE, ![s].i_lock = FALSE]

(* Mutant: the last user leaves the writing to get_empty_inode. *)
PutLastLazy(t, s, T) ==
  \/ T[s].d.i_nlinks = 0 /\ GotoSlot(t, "trunc", s) /\ inode_table' = T
  \/ T[s].d.i_nlinks # 0 /\ Return(t) /\ inode_table' = Released(T, s)

(* iput from `repeat:` on, the inode being unlocked.  It is not asked      *)
(* again whether somebody else has got the inode since.                    *)
PutLast(t, s, T) ==
  /\ \/ /\ T[s].d.i_nlinks = 0
        /\ GotoSlot(t, "trunc", s) /\ inode_table' = T
     \/ /\ T[s].d.i_nlinks # 0 /\ T[s].i_dirt
        /\ GotoSlot(t, "putwrite", s) /\ inode_table' = Locked(T, s)
     \/ /\ T[s].d.i_nlinks # 0 /\ ~T[s].i_dirt
        /\ Return(t) /\ inode_table' = Released(T, s)

(* iput; wait_on_inode first *)
iput(t, s, T) ==
  \/ T[s].i_lock /\ GotoSlot(t, "put", s) /\ inode_table' = T
  \/ /\ ~T[s].i_lock /\ T[s].i_count > 1
     /\ Return(t) /\ inode_table' = Released(T, s)
  \/ ~T[s].i_lock /\ T[s].i_count = 1 /\ PutLast(t, s, T)

(* iget has the inode in slot s: open is done; sys_unlink clears the entry *)
(* of the directory, takes the link away and puts the inode.  Others who   *)
(* have read the entry and wait for the inode are not stopped.             *)
Got(t, op, s, T) ==
  \/ /\ op = "open" /\ inode_table' = T
     /\ Return(t) /\ ref' = [ref EXCEPT ![t] = s]
     /\ UNCHANGED <<names, odd>>
  \/ /\ op = "unlink" /\ names' = names \ {T[s].i_num}
     /\ odd' = IF \E u \in Tasks \ {t} : at[u] = "found" /\ work[u].num = T[s].i_num
               THEN "stale" ELSE odd
     /\ iput(t, s, [T EXCEPT ![s].d.i_nlinks = 0, ![s].i_dirt = TRUE])
     /\ ref' = ref

(* Mutant: the empty one is not given back. *)
HitLeaks(t, w, s, e, T) == Got(t, w.op, s, Counted(T, s))

(* An inode that is in the table already: the empty one is given back      *)
(* (which never sleeps, as its i_dev is 0).                                *)
Hit(t, w, s, e, T) == Got(t, w.op, s, Released(Counted(T, s), e))

Claim(t, w, e, T) ==
  /\ inode_table' = [T EXCEPT ![e].i_num = w.num, ![e].i_lock = TRUE]
  /\ Goto(t, "read", [w EXCEPT !.slot = e])
  /\ UNCHANGED <<names, ref, odd>>

(* Mutant: the loop skips the inodes nobody uses. *)
SearchUsed(t, w, e, T) ==
  LET same == {s \in Slots : T[s].i_num = w.num /\ T[s].i_count > 0}
      s == Min(same)
  IN \/ same = {} /\ Claim(t, w, e, T)
     \/ /\ same # {} /\ T[s].i_lock
        /\ Goto(t, "found", [w EXCEPT !.slot = s, !.empty = e])
        /\ inode_table' = T /\ UNCHANGED <<names, ref, odd>>
     \/ same # {} /\ ~T[s].i_lock /\ Hit(t, w, s, e, T)

(* The loop of iget over the table, with the empty slot e in hand *)
Search(t, w, e, T) ==
  LET same == {s \in Slots : T[s].i_num = w.num}
      s == Min(same)
  IN \/ same = {} /\ Claim(t, w, e, T)
     \/ /\ same # {} /\ T[s].i_lock
        /\ Goto(t, "found", [w EXCEPT !.slot = s, !.empty = e])
        /\ inode_table' = T /\ UNCHANGED <<names, ref, odd>>
     \/ same # {} /\ ~T[s].i_lock /\ Hit(t, w, s, e, T)

(* get_empty_inode: the unused slot the search comes to first.  With none  *)
(* the kernel panics; there are more slots than the tasks can use.  It     *)
(* would wait for a locked one and write a dirty one, then look again;     *)
(* InodesKept says that it never has to.                                   *)
get_empty_inode(s) ==
  LET Steps(x) == (x + NR_INODE - last_allocated_inode) % NR_INODE IN
  /\ inode_table[s].i_count = 0
  /\ \A x \in Slots : inode_table[x].i_count = 0 => Steps(s) <= Steps(x)
  /\ last_allocated_inode' = s
Emptied(s) == [inode_table EXCEPT ![s] = [NoInode EXCEPT !.i_count = 1]]

-----------------------------------------------------------------------------
(* The system calls up to their first sleep *)

(* sys_open or sys_unlink has found the entry of n. *)
iget(t, op, n) ==
  /\ at[t] = "user" /\ ref[t] = NoSlot /\ n \in names
  /\ \E s \in Slots : /\ get_empty_inode(s)
                     /\ Search(t, [NoWork EXCEPT !.op = op, !.num = n], s, Emptied(s))
  /\ UNCHANGED <<d_inode, s_imap, latest>>

(* sys_creat has not found its name: the first inode whose bit is clear.   *)
new_inode(t) ==
  LET free == Nums \ s_imap
      n == Min(free)
  IN /\ at[t] = "user" /\ ref[t] = NoSlot
     /\ \E s \in Slots :
          /\ get_empty_inode(s)
          /\ \/ /\ free = {}
                /\ inode_table' = Released(Emptied(s), s)
                /\ UNCHANGED <<at, work, s_imap, latest>>
             \/ /\ free # {}
                /\ s_imap' = s_imap \cup {n} /\ latest' = [latest EXCEPT ![n] = 0]
                /\ inode_table' = [Emptied(s) EXCEPT
                                     ![s].i_num = n, ![s].i_dirt = TRUE,
                                     ![s].d = [i_nlinks |-> 1, ver |-> 0]]
                /\ Goto(t, "link", [NoWork EXCEPT !.slot = s])
     /\ UNCHANGED <<d_inode, names, ref, odd>>

Unlocked(t) == ~inode_table[work[t].slot].i_lock

-----------------------------------------------------------------------------
(* iget *)

(* Behind wait_on_inode the slot must still be the same inode. *)
FoundReturn(t) ==
  LET w == work[t] IN
  /\ at[t] = "found" /\ Unlocked(t)
  /\ \/ inode_table[w.slot].i_num = w.num /\ Hit(t, w, w.slot, w.empty, inode_table)
     \/ inode_table[w.slot].i_num # w.num /\ Search(t, w, w.empty, inode_table)
  /\ UNCHANGED <<d_inode, s_imap, last_allocated_inode, latest>>

(* The end of read_inode *)
ReadReturn(t) ==
  LET s == work[t].slot IN
  /\ at[t] = "read"
  /\ Got(t, work[t].op, s, [inode_table EXCEPT ![s].d = d_inode[inode_table[s].i_num],
                                   ![s].i_lock = FALSE])
  /\ UNCHANGED <<d_inode, s_imap, last_allocated_inode, latest>>

-----------------------------------------------------------------------------
(* iput *)

PutReturn(t) ==
  /\ at[t] = "put" /\ Unlocked(t)
  /\ iput(t, work[t].slot, inode_table)
  /\ UNCHANGED <<d_inode, s_imap, names, last_allocated_inode, ref, latest, odd>>

PutWriteReturn(t) ==
  /\ at[t] = "putwrite" /\ write_inode(work[t].slot)
  /\ PutLast(t, work[t].slot, Written(work[t].slot))
  /\ UNCHANGED <<s_imap, names, last_allocated_inode, ref, latest, odd>>

(* free_inode, behind truncate.  (It would panic if somebody had got the   *)
(* inode meanwhile; by InodeCountExact nobody has.)  The inode on the disk *)
(* stays as it was.                                                        *)
free_inode(t) ==
  LET s == work[t].slot IN
  /\ at[t] = "trunc"
  /\ odd' = IF inode_table[s].i_lock THEN "wiped" ELSE odd
  /\ s_imap' = s_imap \ {inode_table[s].i_num}
  /\ inode_table' = [inode_table EXCEPT ![s] = NoInode]
  /\ Return(t)
  /\ UNCHANGED <<d_inode, names, last_allocated_inode, ref, latest>>

-----------------------------------------------------------------------------
(* The system calls *)

(* add_entry: the new inode gets its name, or loses its link. *)
AddEntry(t, fits) ==
  LET s == work[t].slot IN
  /\ at[t] = "link"
  /\ \/ /\ fits /\ Return(t) /\ ref' = [ref EXCEPT ![t] = s]
        /\ names' = names \cup {inode_table[s].i_num}
        /\ UNCHANGED inode_table
     \/ /\ ~fits /\ iput(t, s, [inode_table EXCEPT ![s].d.i_nlinks = 0])
        /\ UNCHANGED <<names, ref>>
  /\ UNCHANGED <<d_inode, s_imap, last_allocated_inode, latest, odd>>

(* chmod, write and the like change the inode in the table. *)
Modify(t) ==
  LET s == ref[t]
      new == 1 - inode_table[s].d.ver
  IN /\ at[t] = "user" /\ s # NoSlot
     /\ inode_table' = [inode_table EXCEPT ![s].d.ver = new, ![s].i_dirt = TRUE]
     /\ latest' = [latest EXCEPT ![inode_table[s].i_num] = new]
     /\ UNCHANGED <<d_inode, s_imap, names, last_allocated_inode, at, work, ref, odd>>

(* sys_close of the last descriptor *)
Close(t) ==
  /\ at[t] = "user" /\ ref[t] # NoSlot
  /\ iput(t, ref[t], inode_table)
  /\ ref' = [ref EXCEPT ![t] = NoSlot]
  /\ UNCHANGED <<d_inode, s_imap, names, last_allocated_inode, latest, odd>>

(* sync_inodes from slot s on: it waits for locked inodes and writes the   *)
(* dirty ones.                                                             *)
SyncFrom(t, s, T) ==
  LET todo == {x \in Slots : x >= s /\ (T[x].i_lock \/ T[x].i_dirt)}
      x == Min(todo)
  IN \/ todo = {} /\ Return(t) /\ inode_table' = T
     \/ todo # {} /\ T[x].i_lock /\ GotoSlot(t, "sync", x) /\ inode_table' = T
     \/ todo # {} /\ ~T[x].i_lock /\ GotoSlot(t, "syncwrite", x) /\ inode_table' = Locked(T, x)
SyncUnchanged == UNCHANGED <<s_imap, names, last_allocated_inode, ref, latest, odd>>

(* Bound: one sync at a time. *)
sync_inodes(t) ==
  /\ \A u \in Tasks : at[u] \notin {"sync", "syncwrite"}
  /\ at[t] = "user" /\ SyncFrom(t, 1, inode_table)
  /\ SyncUnchanged /\ UNCHANGED d_inode
SyncReturn(t) ==
  /\ at[t] = "sync" /\ Unlocked(t) /\ SyncFrom(t, work[t].slot, inode_table)
  /\ SyncUnchanged /\ UNCHANGED d_inode
SyncWriteReturn(t) ==
  /\ at[t] = "syncwrite" /\ write_inode(work[t].slot)
  /\ SyncFrom(t, work[t].slot + 1, Written(work[t].slot))
  /\ SyncUnchanged

(* Behind a race named in Odd the system is not followed. *)
InodesNext ==
  /\ odd = "no"
  /\ \E t \in Tasks :
       \/ \E op \in {"open", "unlink"}, n \in Nums : iget(t, op, n)
       \/ new_inode(t) \/ Modify(t) \/ Close(t) \/ sync_inodes(t)
       \/ FoundReturn(t) \/ ReadReturn(t)
       \/ PutReturn(t) \/ PutWriteReturn(t) \/ free_inode(t)
       \/ \E fits \in BOOLEAN : AddEntry(t, fits)
       \/ SyncReturn(t) \/ SyncWriteReturn(t)

-----------------------------------------------------------------------------
(* iget, while it sleeps on locked inodes and in read_inode: there are     *)
(* never two in-core copies of an inode, used or not, so that all its      *)
(* users see and change the same one.                                      *)
OneCopy ==
  odd = "no" =>
    \A r, s \in Slots : r # s /\ inode_table[r].i_num = inode_table[s].i_num
                         => inode_table[r].i_num = 0

(* The tasks that count on slot s: they have it open, are on their way to  *)
(* put it or to give it a name, are reading it, or have it empty in hand.  *)
Users(s) ==
  {t \in Tasks : \/ ref[t] = s
                 \/ work[t].slot = s /\ at[t] \in {"read", "put", "putwrite", "trunc", "link"}
                 \/ work[t].empty = s /\ at[t] = "found"}

(* iget, iput and get_empty_inode: i_count is the number of users, on      *)
(* every path and while they sleep; a slot that is given away has none.    *)
InodeCountExact ==
  odd = "no" => \A s \in Slots : inode_table[s].i_count = Cardinality(Users(s))

(* What a reader of inode n finds, in the table or else on the disk *)
InCore(n) == {s \in Slots : inode_table[s].i_num = n
                            /\ \A t \in Tasks : ~(at[t] = "read" /\ work[t].slot = s)}
Seen(n) == IF InCore(n) = {} THEN d_inode[n] ELSE inode_table[Min(InCore(n))].d

(* write_inode, get_empty_inode, iput and free_inode: an inode with a name *)
(* has its bit set and its latest contents, wherever it is; one without a  *)
(* name has its bit set only as long as somebody uses it, so that its last *)
(* user frees it.  An unused inode is clean and unlocked, so that          *)
(* get_empty_inode never sleeps with its choice made, and a changed inode  *)
(* is on the disk before its slot can be given away.                       *)
InodesKept ==
  odd = "no" =>
    /\ InodesTypeOK
    /\ \A n \in names : n \in s_imap /\ Seen(n) = [i_nlinks |-> 1, ver |-> latest[n]]
    /\ \A n \in s_imap \ names : \E s \in InCore(n) : Users(s) # {}
    /\ \A s \in Slots : inode_table[s].i_count = 0
                        => ~inode_table[s].i_dirt /\ ~inode_table[s].i_lock
=============================================================================
