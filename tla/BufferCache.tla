------------------------------ MODULE BufferCache ------------------------------
(***************************************************************************)
(* The buffer cache of fs/buffer.c: tasks that get blocks with bread, hold *)
(* and modify them, release them with brelse and write everything out with *)
(* sys_sync.                                                               *)
(*                                                                         *)
(* A task keeps the processor (`run`) until it sleeps or holds no buffer   *)
(* any more, so tasks interleave only where the code sleeps.  The disk is  *)
(* module HdRequest seen from here: a buffer is locked, later its data are *)
(* moved, and an interrupt changes its flags and unlocks it.               *)
(*                                                                         *)
(* A buffer stands for its queue b_wait too.  All blocks are on one        *)
(* device; NoBlock is the identity of a buffer whose b_dev is 0.           *)
(***************************************************************************)
EXTENDS WaitQueue, FiniteSets

CONSTANTS NR_BUFFERS,
          Blocks,
          NoBlock,
          buffer_wait,  \* the queue of those who wait for any buffer
          MaxHeld,      \* bound: the blocks a task holds at a time
          Failing,      \* the kinds of transfer that may fail
          Versions      \* keep the history of the versions of each block

Buffers == 1 .. NR_BUFFERS
NoBuffer == 0

(* getblk unlinks one buffer per task at most, so some stay in the list. *)
ASSUME CacheAssumption ==
  /\ NR_BUFFERS \in Nat /\ IsFiniteSet(Tasks)
  /\ NR_BUFFERS > Cardinality(Tasks)
  /\ Buffers \subseteq Queues /\ buffer_wait \in Queues \ Buffers
  /\ NoBlock \notin Blocks
  /\ MaxHeld \in Nat /\ Failing \subseteq {"read", "write"} /\ Versions \in BOOLEAN

VARIABLES wq,
          bh,         \* the buffer heads, see BufferHead
          free_list,  \* the pointer to the first buffer of the free list
          run,        \* the task that executes, if any is in the kernel
          pc,         \* where each task is
          want,       \* `block` of the getblk each task is in
          cur,        \* its local pointer to a buffer (tmp, bh)
          idx,        \* its place in the loop of sync_dev or sys_sync
          held,       \* the blocks a task holds, each with its buffer
          io,         \* what the disk does with each buffer
          latest,     \* history: the buffers with the last version of their
          disk        \* block, and the blocks whose last version is on disk
vars == <<wq, bh, free_list, run, pc, want, cur, idx, held, io, latest, disk>>
data == <<latest, disk>>

(* `linked`: between insert_into_queues and remove_from_queues. *)
BufferHead == [block : Blocks \cup {NoBlock}, uptodate : BOOLEAN,
               dirt : BOOLEAN, count : Nat, lock : BOOLEAN, linked : BOOLEAN,
               next_free : Buffers, prev_free : Buffers]

Waits == {"hashwait", "scanwait", "sync", "syncio", "readio", "release"}
Places == {"user", "find", "scan", "bufwait", "assign", "got"} \cup Waits

TypeOK ==
  /\ wq \in WaitState
  /\ bh \in [Buffers -> BufferHead]
  /\ free_list \in Buffers
  /\ run \in MaybeTask
  /\ pc \in [Tasks -> Places]
  /\ want \in [Tasks -> Blocks \cup {NoBlock}]
  /\ cur \in [Tasks -> Buffers \cup {NoBuffer}]
  /\ idx \in [Tasks -> 0 .. NR_BUFFERS + 1]
  /\ held \in [Tasks -> SUBSET (Blocks \X Buffers)]
  /\ io \in [Buffers -> {"none", "read", "write", "written"}]
  /\ latest \subseteq Buffers /\ disk \subseteq Blocks

(* buffer_init *)
Init ==
  /\ wq = AllAwake
  /\ bh = [b \in Buffers |->
            [block |-> NoBlock, uptodate |-> FALSE, dirt |-> FALSE, count |-> 0,
             lock |-> FALSE, linked |-> TRUE,
             next_free |-> IF b = NR_BUFFERS THEN 1 ELSE b + 1,
             prev_free |-> IF b = 1 THEN NR_BUFFERS ELSE b - 1]]
  /\ free_list = 1
  /\ run = NoTask
  /\ pc = [t \in Tasks |-> "user"]
  /\ want = [t \in Tasks |-> NoBlock]
  /\ cur = [t \in Tasks |-> NoBuffer]
  /\ idx = [t \in Tasks |-> 0]
  /\ held = [t \in Tasks |-> {}]
  /\ io = [b \in Buffers |-> "none"]
  /\ latest = {} /\ disk = Blocks
-----------------------------------------------------------------------------
(* The history, where it is kept. *)
Remember(buffers, blocks) ==
  IF Versions THEN latest' = buffers /\ disk' = blocks ELSE UNCHANGED data

InCaller(t) == pc[t] = "user" /\ run \in {t, NoTask} /\ ~ Asleep(wq, t)
At(t, place) == pc[t] = place /\ run = t
Go(t, place) == pc' = [pc EXCEPT ![t] = place] /\ run' = t
Point(t, b) == cur' = [cur EXCEPT ![t] = b]

(* The call is over; a task that holds nothing leaves the kernel. *)
BackToCaller(t) ==
  /\ pc' = [pc EXCEPT ![t] = "user"]
  /\ run' = IF held'[t] = {} THEN NoTask ELSE t
  /\ want' = [want EXCEPT ![t] = NoBlock]
  /\ Point(t, NoBuffer)
  /\ idx' = [idx EXCEPT ![t] = 0]

SleepIn(t, q, place) ==
  /\ wq' = SleepOn(wq, t, q, "UNINTERRUPTIBLE")
  /\ pc' = [pc EXCEPT ![t] = place]
  /\ run' = NoTask

(* wait_on_buffer in all its places: the code behind it runs once the      *)
(* buffer is not locked.                                                   *)
Awaited(t) == IF pc[t] \in {"sync", "syncio"} THEN idx[t] ELSE cur[t]

WaitOnBuffer(t) ==
  /\ run = t /\ pc[t] \in Waits /\ Awaited(t) \in Buffers
  /\ bh[Awaited(t)].lock
  /\ SleepIn(t, Awaited(t), pc[t])
  /\ UNCHANGED <<bh, free_list, want, cur, idx, held, io, data>>

Unlocked(t, place) == At(t, place) /\ ~ bh[Awaited(t)].lock

(* sleep_on returns: to wait_on_buffer, or to `goto repeat` in getblk. *)
Resume(t) ==
  /\ run = NoTask /\ pc[t] # "user" /\ ~ Asleep(wq, t)
  /\ wq' = WakeBehind(wq, t)
  /\ Go(t, IF pc[t] = "bufwait" THEN "find" ELSE pc[t])
  /\ UNCHANGED <<bh, free_list, want, cur, idx, held, io, data>>

(* The end of brelse. *)
Drop(b) ==
  /\ bh' = [bh EXCEPT ![b].count = @ - 1]
  /\ wq' = WakeUp(wq, buffer_wait)

(* ll_rw_block up to its wait_on_buffer. *)
StartIo(t, b, kind, place) ==
  /\ bh' = [bh EXCEPT ![b].lock = TRUE]
  /\ io' = [io EXCEPT ![b] = kind]
  /\ Go(t, place)
-----------------------------------------------------------------------------
(* bread, getblk and get_hash_table *)

(* A task does not bread a block twice. *)
Bread(t, x) ==
  /\ InCaller(t) /\ Cardinality(held[t]) < MaxHeld
  /\ \A h \in held[t] : h[1] # x
  /\ want' = [want EXCEPT ![t] = x]
  /\ Go(t, "find")
  /\ UNCHANGED <<wq, bh, free_list, cur, idx, held, io, data>>

(* find_buffer *)
Found(x) == {b \in Buffers : bh[b].linked /\ bh[b].block = x}

FindHit(t) ==
  /\ At(t, "find")
  /\ \E b \in Found(want[t]) :
       /\ bh' = [bh EXCEPT ![b].count = @ + 1]
       /\ Point(t, b)
  /\ Go(t, "hashwait")
  /\ UNCHANGED <<wq, free_list, want, idx, held, io, data>>

FindMiss(t) ==
  /\ At(t, "find") /\ Found(want[t]) = {}
  /\ Point(t, free_list)
  /\ Go(t, "scan")
  /\ UNCHANGED <<wq, bh, free_list, want, idx, held, io, data>>

(* What get_hash_table does when the buffer has another block by now is    *)
(* left out: HeldIsRight says that it never has.                           *)
HashReturn(t) ==
  /\ Unlocked(t, "hashwait") /\ bh[cur[t]].block = want[t]
  /\ Go(t, "got")
  /\ UNCHANGED <<wq, bh, free_list, want, cur, idx, held, io, data>>

(* One buffer of the free list in use; the last one ends the walk. *)
ScanNext(t) ==
  LET next == bh[cur[t]].next_free IN
  /\ At(t, "scan") \/ Unlocked(t, "scanwait")
  /\ bh[cur[t]].count # 0
  /\ IF next = free_list
     THEN SleepIn(t, buffer_wait, "bufwait") /\ Point(t, NoBuffer)
     ELSE Go(t, "scan") /\ Point(t, next) /\ UNCHANGED wq
  /\ UNCHANGED <<bh, free_list, want, idx, held, io, data>>

ScanFree(t) ==
  /\ At(t, "scan") /\ bh[cur[t]].count = 0
  /\ Go(t, "scanwait")
  /\ UNCHANGED <<wq, bh, free_list, want, cur, idx, held, io, data>>

(* remove_from_queues and insert_into_queues on the array h of buffers *)
Unlink(h, b) ==
  LET p == h[b].prev_free
      n == h[b].next_free
  IN [h EXCEPT ![b].linked = FALSE, ![p].next_free = n, ![n].prev_free = p]

Link(h, b) ==
  LET last == h[free_list].prev_free
  IN [h EXCEPT ![b].linked = TRUE, ![b].next_free = free_list,
               ![b].prev_free = last, ![last].next_free = b,
               ![free_list].prev_free = b]

(* Mutants: free_list stays where it was; the task does not count itself.  *)
TakeKeepsHead(t) ==
  LET b == cur[t] IN
  /\ Unlocked(t, "scanwait") /\ bh[b].count = 0
  /\ bh' = [Unlink(bh, b) EXCEPT ![b].count = 1]
  /\ IF bh[b].dirt
     THEN Go(t, "sync") /\ idx' = [idx EXCEPT ![t] = 1]
     ELSE Go(t, "assign") /\ UNCHANGED idx
  /\ UNCHANGED <<wq, free_list, want, cur, held, io, data>>
TakeUncounted(t) ==
  LET b == cur[t] IN
  /\ Unlocked(t, "scanwait") /\ bh[b].count = 0
  /\ bh' = Unlink(bh, b)
  /\ free_list' = IF free_list = b THEN bh[b].next_free ELSE free_list
  /\ IF bh[b].dirt
     THEN Go(t, "sync") /\ idx' = [idx EXCEPT ![t] = 1]
     ELSE Go(t, "assign") /\ UNCHANGED idx
  /\ UNCHANGED <<wq, want, cur, held, io, data>>

(* A free buffer is taken out of the lists; a dirty one makes sync_dev     *)
(* write out the device first.                                             *)
Take(t) ==
  LET b == cur[t] IN
  /\ Unlocked(t, "scanwait") /\ bh[b].count = 0
  /\ bh' = [Unlink(bh, b) EXCEPT ![b].count = 1]
  /\ free_list' = IF free_list = b THEN bh[b].next_free ELSE free_list
  /\ IF bh[b].dirt
     THEN Go(t, "sync") /\ idx' = [idx EXCEPT ![t] = 1]
     ELSE Go(t, "assign") /\ UNCHANGED idx
  /\ UNCHANGED <<wq, want, cur, held, io, data>>

(* Mutants: nobody looks whether the block has come in meanwhile; the      *)
(* buffer given back stays counted.                                        *)
AssignUnchecked(t) ==
  LET b == cur[t] IN
  /\ At(t, "assign")
  /\ bh' = Link([bh EXCEPT ![b].dirt = FALSE, ![b].uptodate = FALSE,
                           ![b].block = want[t]], b)
  /\ Go(t, "got")
  /\ Remember(latest \ {b}, disk)
  /\ UNCHANGED <<wq, free_list, want, cur, idx, held, io>>
AssignKeepsCount(t) ==
  LET b == cur[t]
      cleared == [bh EXCEPT ![b].dirt = FALSE, ![b].uptodate = FALSE]
  IN
  /\ At(t, "assign")
  /\ IF Found(want[t]) = {}
     THEN /\ bh' = Link([cleared EXCEPT ![b].block = want[t]], b)
          /\ Go(t, "got")
          /\ UNCHANGED cur
     ELSE /\ bh' = Link([cleared EXCEPT ![b].block = NoBlock], b)
          /\ Go(t, "find")
          /\ Point(t, NoBuffer)
  /\ Remember(latest \ {b}, disk)
  /\ UNCHANGED <<wq, free_list, want, idx, held, io>>

(* The buffer gets its new block, unless somebody else has brought that    *)
(* block in meanwhile.                                                     *)
Assign(t) ==
  LET b == cur[t]
      cleared == [bh EXCEPT ![b].dirt = FALSE, ![b].uptodate = FALSE]
  IN
  /\ At(t, "assign")
  /\ IF Found(want[t]) = {}
     THEN /\ bh' = Link([cleared EXCEPT ![b].block = want[t]], b)
          /\ Go(t, "got")
          /\ UNCHANGED cur
     ELSE /\ bh' = Link([cleared EXCEPT ![b].block = NoBlock, ![b].count = 0], b)
          /\ Go(t, "find")
          /\ Point(t, NoBuffer)
  /\ Remember(latest \ {b}, disk)
  /\ UNCHANGED <<wq, free_list, want, idx, held, io>>

BreadReturn(t) ==
  /\ At(t, "got") \/ Unlocked(t, "readio")
  /\ bh[cur[t]].uptodate
  /\ held' = [held EXCEPT ![t] = @ \cup {<<want[t], cur[t]>>}]
  /\ BackToCaller(t)
  /\ UNCHANGED <<wq, bh, free_list, io, data>>

BreadStart(t) ==
  /\ At(t, "got") /\ ~ bh[cur[t]].uptodate
  /\ StartIo(t, cur[t], "read", "readio")
  /\ UNCHANGED <<wq, free_list, want, cur, idx, held, data>>

(* The block could not be read: brelse and NULL. *)
BreadFail(t) ==
  /\ Unlocked(t, "readio") /\ ~ bh[cur[t]].uptodate
  /\ Drop(cur[t])
  /\ UNCHANGED held
  /\ BackToCaller(t)
  /\ UNCHANGED <<free_list, io, data>>
-----------------------------------------------------------------------------
(* The holders of a block *)

(* `b_data[...] = ...; b_dirt = 1`: a new version, unless it is based on   *)
(* an old one.  Nothing waits for the lock.                                *)
Modify(t, h) ==
  /\ InCaller(t) /\ h \in held[t]
  /\ bh' = [bh EXCEPT ![h[2]].dirt = TRUE]
  /\ Remember({b \in latest : bh[b].block = h[1] => b = h[2]}, disk \ {h[1]})
  /\ UNCHANGED <<wq, free_list, run, pc, want, cur, idx, held, io>>

Brelse(t, h) ==
  /\ InCaller(t) /\ h \in held[t]
  /\ held' = [held EXCEPT ![t] = @ \ {h}]
  /\ Point(t, h[2])
  /\ Go(t, "release")
  /\ UNCHANGED <<wq, bh, free_list, want, idx, io, data>>

BrelseReturn(t) ==
  /\ Unlocked(t, "release")
  /\ Drop(cur[t])
  /\ UNCHANGED held
  /\ BackToCaller(t)
  /\ UNCHANGED <<free_list, io, data>>
-----------------------------------------------------------------------------
(* sys_sync and sync_dev *)

SysSync(t) ==
  /\ InCaller(t) /\ held[t] = {}
  /\ idx' = [idx EXCEPT ![t] = 1]
  /\ Go(t, "sync")
  /\ UNCHANGED <<wq, bh, free_list, want, cur, held, io, data>>

(* Mutant: the end of the transfer is not awaited. *)
SyncNextEarly(t) ==
  /\ \/ At(t, "syncio")
     \/ /\ idx[t] \in Buffers
        /\ Unlocked(t, "sync") /\ ~ bh[idx[t]].dirt
  /\ idx' = [idx EXCEPT ![t] = @ + 1]
  /\ Go(t, "sync")
  /\ UNCHANGED <<wq, bh, free_list, want, cur, held, io, data>>

SyncNext(t) ==
  /\ \/ Unlocked(t, "syncio")
     \/ /\ idx[t] \in Buffers
        /\ Unlocked(t, "sync") /\ ~ bh[idx[t]].dirt
  /\ idx' = [idx EXCEPT ![t] = @ + 1]
  /\ Go(t, "sync")
  /\ UNCHANGED <<wq, bh, free_list, want, cur, held, io, data>>

SyncWrite(t) ==
  /\ idx[t] \in Buffers
  /\ Unlocked(t, "sync") /\ bh[idx[t]].dirt
  /\ StartIo(t, idx[t], "write", "syncio")
  /\ UNCHANGED <<wq, free_list, want, cur, idx, held, data>>

SyncDone(t) ==
  /\ At(t, "sync") /\ idx[t] \notin Buffers
  /\ UNCHANGED held
  /\ IF want[t] = NoBlock
     THEN BackToCaller(t)
     ELSE /\ Go(t, "assign")
          /\ idx' = [idx EXCEPT ![t] = 0]
          /\ UNCHANGED <<want, cur>>
  /\ UNCHANGED <<wq, bh, free_list, io, data>>
-----------------------------------------------------------------------------
(* The disk *)

(* The data of a write leave the buffer some time before the interrupt. *)
Transfer(b) ==
  LET x == bh[b].block IN
  /\ io[b] = "write"
  /\ io' = [io EXCEPT ![b] = "written"]
  /\ Remember(latest, IF b \in latest THEN disk \cup {x} ELSE disk \ {x})
  /\ UNCHANGED <<wq, bh, free_list, run, pc, want, cur, idx, held>>

(* The interrupt handlers of hd.c: the request ends well, or is given up.  *)
IoDone(b) ==
  /\ io[b] \in {"read", "written"}
  /\ bh' = [bh EXCEPT ![b].uptodate = TRUE, ![b].dirt = FALSE, ![b].lock = FALSE]
  /\ wq' = WakeUp(wq, b)
  /\ io' = [io EXCEPT ![b] = "none"]
  /\ Remember(IF io[b] = "read" /\ bh[b].block \in disk
              THEN latest \cup {b} ELSE latest, disk)
  /\ UNCHANGED <<free_list, run, pc, want, cur, idx, held>>

IoError(b) ==
  /\ io[b] \in Failing
  /\ bh' = [bh EXCEPT ![b].uptodate = FALSE, ![b].lock = FALSE]
  /\ wq' = WakeUp(wq, b)
  /\ io' = [io EXCEPT ![b] = "none"]
  /\ UNCHANGED <<free_list, run, pc, want, cur, idx, held, data>>

Disk == \E b \in Buffers : Transfer(b) \/ IoDone(b) \/ IoError(b)
-----------------------------------------------------------------------------
CallStep(t) ==
  \/ WaitOnBuffer(t)
  \/ FindHit(t) \/ FindMiss(t) \/ HashReturn(t)
  \/ ScanNext(t) \/ ScanFree(t) \/ Take(t) \/ Assign(t)
  \/ BreadReturn(t) \/ BreadStart(t) \/ BreadFail(t)
  \/ BrelseReturn(t)
  \/ SyncNext(t) \/ SyncWrite(t) \/ SyncDone(t)

CallerStep(t) ==
  \/ \E x \in Blocks : Bread(t, x)
  \/ \E h \in held[t] : Modify(t, h) \/ Brelse(t, h)
  \/ SysSync(t)

Next == Disk \/ \E t \in Tasks : CallStep(t) \/ Resume(t) \/ CallerStep(t)

Spec == Init /\ [][Next]_vars
-----------------------------------------------------------------------------
Linked == {b \in Buffers : bh[b].linked}

(* Although getblk sleeps between looking for a block and entering it, no  *)
(* two buffers in the hash queues ever stand for the same block.           *)
OneBufferPerBlock ==
  /\ TypeOK
  /\ \A b, c \in Linked : bh[b].block = bh[c].block /\ bh[b].block # NoBlock => b = c

(* b_count of a buffer is the number of those who use it: the holders and  *)
(* those inside getblk, bread and brelse who have counted themselves.  So  *)
(* brelse never finds a free buffer, and no buffer is lost.                *)
CountedBy(t, b) ==
  /\ cur[t] = b
  /\ pc[t] \in {"hashwait", "sync", "syncio", "assign", "got", "readio", "release"}

CountExact ==
  \A b \in Buffers :
    bh[b].count = Cardinality({t \in Tasks : CountedBy(t, b)})
                  + Cardinality({t \in Tasks : \E x \in Blocks : <<x, b>> \in held[t]})

(* The free list is one ring through exactly the linked buffers (whatever  *)
(* is closed under next_free is all of them), free_list is one of them,    *)
(* and a buffer taken by a sleeping getblk is not in it.                   *)
FreeListIsRing ==
  /\ free_list \in Linked
  /\ \A b \in Linked :
       /\ bh[b].next_free \in Linked /\ bh[bh[b].next_free].prev_free = b
       /\ bh[b].prev_free \in Linked /\ bh[bh[b].prev_free].next_free = b
  /\ \A S \in SUBSET Linked :
       S # {} /\ (\A b \in S : bh[b].next_free \in S) => S = Linked

(* Whoever holds a block, or waits for its disk transfer, has it in the    *)
(* buffer bread gave him, and finds it in the queues: nobody reassigns a   *)
(* buffer in use.                                                          *)
HeldIsRight ==
  \A t \in Tasks :
    /\ \A h \in held[t] : bh[h[2]].block = h[1] /\ bh[h[2]].linked
    /\ pc[t] \in {"hashwait", "got", "readio"} => bh[cur[t]].block = want[t]

(* The disk never has a buffer whose block is being changed, so what it    *)
(* transfers goes where the request was for.                               *)
BusyKeepsBlock ==
  [][\A b \in Buffers : bh[b].lock /\ bh'[b].lock
                           => bh'[b].block = bh[b].block]_vars

(* buffer.c:187-189: "Now, when we know nobody can get to this node ... We *)
(* can sleep here without fear of race-conditions."  Then a holder has the *)
(* last version of its block.                                              *)
HeldIsLatest ==
  \A t \in Tasks : \A h \in held[t] :
    bh[h[2]].uptodate /\ ~ bh[h[2]].lock => h[2] \in latest
=============================================================================
