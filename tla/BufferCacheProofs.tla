-------------------------- MODULE BufferCacheProofs --------------------------
(***************************************************************************)
(* For every number of buffers, tasks and blocks: the buffer cache has one *)
(* buffer per block, counts the users of each, keeps its free list whole   *)
(* and never takes a buffer from those who use it, wherever getblk sleeps. *)
(***************************************************************************)
EXTENDS BufferCache, FiniteSetTheorems, WellFoundedInduction, TLAPS

(* The operators of WaitQueue.tla keep the record well formed. *)
LEMMA WaitStateClosed ==
  ASSUME NEW w \in WaitState
  PROVE  /\ \A q \in Queues : WakeUp(w, q) \in WaitState
         /\ \A t \in Tasks : WakeBehind(w, t) \in WaitState
         /\ \A t \in Tasks, q \in Queues :
              SleepOn(w, t, q, "UNINTERRUPTIBLE") \in WaitState
<1>1. ASSUME NEW q \in Queues PROVE WakeUp(w, q) \in WaitState
  BY NoTaskAssumption DEF WakeUp, Awaken, WaitState, MaybeTask, TaskStates
<1>2. ASSUME NEW t \in Tasks PROVE WakeBehind(w, t) \in WaitState
  BY NoTaskAssumption DEF WakeBehind, Awaken, WaitState, MaybeTask, TaskStates
<1>3. ASSUME NEW t \in Tasks, NEW q \in Queues
      PROVE SleepOn(w, t, q, "UNINTERRUPTIBLE") \in WaitState
  BY DEF SleepOn, WaitState, MaybeTask, TaskStates
<1>4. QED
  BY <1>1, <1>2, <1>3
-----------------------------------------------------------------------------
(* The types, but for the sign of b_count, which needs the counting. *)
AnyCount == [block : Blocks \cup {NoBlock}, uptodate : BOOLEAN,
             dirt : BOOLEAN, count : Int, lock : BOOLEAN, linked : BOOLEAN,
             next_free : Buffers, prev_free : Buffers]

HeadInv == bh \in [Buffers -> AnyCount] /\ free_list \in Buffers

RestInv ==
  /\ wq \in WaitState
  /\ run \in MaybeTask
  /\ io \in [Buffers -> {"none", "read", "write", "written"}]

(* What the locals of a task are at each place p: x the block it wants, c  *)
(* its pointer to a buffer, i its place in a loop, H what it holds.        *)
CallOK(p, x, c, i, H) ==
  /\ p \in Places /\ x \in Blocks \cup {NoBlock} /\ c \in Buffers \cup {NoBuffer}
  /\ i \in 0 .. NR_BUFFERS + 1 /\ H \in SUBSET (Blocks \X Buffers)
  /\ p \in {"user", "find", "bufwait"} => c = NoBuffer
  /\ p \in {"scan", "scanwait", "hashwait", "assign", "got", "readio", "release"}
       => c \in Buffers
  /\ p \in {"sync", "syncio"} => (x = NoBlock <=> c = NoBuffer)
  /\ p \in {"user", "release"} => x = NoBlock
  /\ p \notin {"user", "release", "sync", "syncio"} => x # NoBlock
  /\ p = "sync" => i \in 1 .. NR_BUFFERS + 1
  /\ p = "syncio" => i \in Buffers
  /\ \A h \in H : h[1] # x

Locals == <<pc, want, cur, idx, held>>

LocalInv ==
  /\ pc \in [Tasks -> Places]
  /\ want \in [Tasks -> Blocks \cup {NoBlock}]
  /\ cur \in [Tasks -> Buffers \cup {NoBuffer}]
  /\ idx \in [Tasks -> 0 .. NR_BUFFERS + 1]
  /\ held \in [Tasks -> SUBSET (Blocks \X Buffers)]
  /\ \A t \in Tasks : CallOK(pc[t], want[t], cur[t], idx[t], held[t])

(* A step of t changes the locals of t only. *)
LocalsBecome(t, p, x, c, i, H) ==
  /\ pc' = [pc EXCEPT ![t] = p] /\ want' = [want EXCEPT ![t] = x]
  /\ cur' = [cur EXCEPT ![t] = c] /\ idx' = [idx EXCEPT ![t] = i]
  /\ held' = [held EXCEPT ![t] = H]

(* Buffer 1 exists, and 0 stands for none. *)
LEMMA BufferRange == NoBuffer \notin Buffers /\ 1 \in Buffers
<1>1. NR_BUFFERS > 0
  BY CacheAssumption, FS_CardinalityType
<1>2. QED
  BY <1>1, CacheAssumption DEF Buffers, NoBuffer

(* Assigning to a field of a buffer head keeps the types ... *)
LEMMA HeadUpdate ==
  ASSUME NEW h \in [Buffers -> AnyCount], NEW b \in Buffers
  PROVE  /\ \A c \in Int : [h EXCEPT ![b].count = c] \in [Buffers -> AnyCount]
         /\ \A v \in BOOLEAN :
              /\ [h EXCEPT ![b].dirt = v] \in [Buffers -> AnyCount]
              /\ [h EXCEPT ![b].uptodate = v] \in [Buffers -> AnyCount]
              /\ [h EXCEPT ![b].lock = v] \in [Buffers -> AnyCount]
              /\ [h EXCEPT ![b].linked = v] \in [Buffers -> AnyCount]
         /\ \A x \in Blocks \cup {NoBlock} :
              [h EXCEPT ![b].block = x] \in [Buffers -> AnyCount]
         /\ \A c \in Buffers :
              /\ [h EXCEPT ![b].next_free = c] \in [Buffers -> AnyCount]
              /\ [h EXCEPT ![b].prev_free = c] \in [Buffers -> AnyCount]
BY DEF AnyCount

(* ... and so do the list operations. *)
LEMMA ListTypes ==
  ASSUME NEW h \in [Buffers -> AnyCount], NEW b \in Buffers
  PROVE  /\ Unlink(h, b) \in [Buffers -> AnyCount]
         /\ free_list \in Buffers => Link(h, b) \in [Buffers -> AnyCount]
<1>1. Unlink(h, b) \in [Buffers -> AnyCount]
  <2> DEFINE p == h[b].prev_free
             n == h[b].next_free
             h1 == [h EXCEPT ![b].linked = FALSE]
             h2 == [h1 EXCEPT ![p].next_free = n]
  <2>1. p \in Buffers /\ n \in Buffers
    BY DEF AnyCount
  <2>2. h1 \in [Buffers -> AnyCount]
    BY HeadUpdate
  <2>3. h2 \in [Buffers -> AnyCount]
    BY <2>1, <2>2, HeadUpdate
  <2>4. [h2 EXCEPT ![n].prev_free = p] \in [Buffers -> AnyCount]
    BY <2>1, <2>3, HeadUpdate
  <2>5. QED
    BY <2>4 DEF Unlink
<1>2. ASSUME free_list \in Buffers
      PROVE  Link(h, b) \in [Buffers -> AnyCount]
  <2> DEFINE last == h[free_list].prev_free
             h1 == [h EXCEPT ![b].linked = TRUE]
             h2 == [h1 EXCEPT ![b].next_free = free_list]
             h3 == [h2 EXCEPT ![b].prev_free = last]
             h4 == [h3 EXCEPT ![last].next_free = b]
  <2>1. last \in Buffers
    BY <1>2 DEF AnyCount
  <2>2. h1 \in [Buffers -> AnyCount]
    BY HeadUpdate
  <2>3. h2 \in [Buffers -> AnyCount]
    BY <1>2, <2>2, HeadUpdate
  <2>4. h3 \in [Buffers -> AnyCount]
    BY <2>1, <2>3, HeadUpdate
  <2>5. h4 \in [Buffers -> AnyCount]
    BY <2>1, <2>4, HeadUpdate
  <2>6. [h4 EXCEPT ![free_list].prev_free = b] \in [Buffers -> AnyCount]
    BY <1>2, <2>5, HeadUpdate
  <2>7. QED
    BY <2>6 DEF Link
<1>3. QED
  BY <1>1, <1>2

(* A task that moves to a place with locals that fit it keeps them right. *)
LEMMA LocalsKept ==
  ASSUME LocalInv, NEW t \in Tasks, NEW p, NEW x, NEW c, NEW i, NEW H,
         LocalsBecome(t, p, x, c, i, H), CallOK(p, x, c, i, H)
  PROVE  LocalInv'
<1>1. /\ p \in Places /\ x \in Blocks \cup {NoBlock} /\ c \in Buffers \cup {NoBuffer}
      /\ i \in 0 .. NR_BUFFERS + 1 /\ H \in SUBSET (Blocks \X Buffers)
  BY DEF CallOK
<1>2. /\ pc' \in [Tasks -> Places]
      /\ want' \in [Tasks -> Blocks \cup {NoBlock}]
      /\ cur' \in [Tasks -> Buffers \cup {NoBuffer}]
      /\ idx' \in [Tasks -> 0 .. NR_BUFFERS + 1]
      /\ held' \in [Tasks -> SUBSET (Blocks \X Buffers)]
  BY <1>1 DEF LocalInv, LocalsBecome
<1>3. ASSUME NEW u \in Tasks
      PROVE  CallOK(pc[u], want[u], cur[u], idx[u], held[u])'
  <2>1. CASE u = t
    <3>1. pc'[u] = p /\ want'[u] = x /\ cur'[u] = c /\ idx'[u] = i /\ held'[u] = H
      BY <2>1 DEF LocalInv, LocalsBecome
    <3>2. QED
      BY <3>1 DEF CallOK
  <2>2. CASE u # t
    <3>1. /\ pc'[u] = pc[u] /\ want'[u] = want[u] /\ cur'[u] = cur[u]
          /\ idx'[u] = idx[u] /\ held'[u] = held[u]
      BY <2>2 DEF LocalInv, LocalsBecome
    <3>2. QED
      BY <3>1 DEF LocalInv, CallOK
  <2>3. QED
    BY <2>1, <2>2
<1>4. QED
  BY <1>2, <1>3 DEF LocalInv

(* buffer_init makes heads and lists of the right types. *)
LEMMA TypeInit == Init => HeadInv /\ RestInv /\ LocalInv
<1> SUFFICES ASSUME Init PROVE HeadInv /\ RestInv /\ LocalInv
  OBVIOUS
<1>1. AllAwake \in WaitState
  BY DEF AllAwake, WaitState, MaybeTask, TaskStates
<1>2. bh \in [Buffers -> AnyCount]
  BY BufferRange, CacheAssumption DEF Init, AnyCount, Buffers
<1>3. free_list \in Buffers
  BY BufferRange DEF Init
<1>4. CallOK("user", NoBlock, NoBuffer, 0, {})
  BY CacheAssumption DEF CallOK, Places
<1>5. QED
  BY <1>1, <1>2, <1>3, <1>4, CacheAssumption
  DEF Init, HeadInv, RestInv, LocalInv, Places, MaybeTask

(* Every step leaves the locals of every task in order. *)
LEMMA LocalStep == HeadInv /\ LocalInv /\ [Next]_vars => LocalInv'
<1> SUFFICES ASSUME HeadInv, LocalInv, [Next]_vars
             PROVE  LocalInv'
  OBVIOUS
<1> USE DEF Go, Point, At, Unlocked
<1>a. ASSUME NEW t \in Tasks
      PROVE  CallOK(pc[t], want[t], cur[t], idx[t], held[t])
  BY DEF LocalInv
<1>b. ASSUME UNCHANGED Locals
      PROVE  LocalInv'
  BY <1>b DEF Locals, LocalInv, CallOK
<1>1. ASSUME NEW t \in Tasks, WaitOnBuffer(t)
      PROVE  LocalInv'
  <2>1. LocalsBecome(t, pc[t], want[t], cur[t], idx[t], held[t])
    BY <1>1 DEF WaitOnBuffer, SleepIn, LocalsBecome, LocalInv
  <2>2. CallOK(pc[t], want[t], cur[t], idx[t], held[t])
    BY <1>1, <1>a DEF WaitOnBuffer, SleepIn, CallOK, Places, Waits
  <2>3. QED
    BY <2>1, <2>2, LocalsKept
<1>2. ASSUME NEW t \in Tasks, FindHit(t)
      PROVE  LocalInv'
  <2>1. PICK b \in Buffers : Point(t, b)
    BY <1>2 DEF FindHit, Found
  <2>2. LocalsBecome(t, "hashwait", want[t], b, idx[t], held[t])
    BY <1>2, <2>1 DEF FindHit, LocalsBecome, LocalInv
  <2>3. CallOK("hashwait", want[t], b, idx[t], held[t])
    BY <1>2, <1>a DEF FindHit, CallOK, Places, Waits
  <2>4. QED
    BY <2>2, <2>3, LocalsKept
<1>3. ASSUME NEW t \in Tasks, FindMiss(t)
      PROVE  LocalInv'
  <2>1. LocalsBecome(t, "scan", want[t], free_list, idx[t], held[t])
    BY <1>3 DEF FindMiss, HeadInv, LocalsBecome, LocalInv
  <2>2. CallOK("scan", want[t], free_list, idx[t], held[t])
    BY <1>3, <1>a DEF FindMiss, HeadInv, CallOK, Places, Waits
  <2>3. QED
    BY <2>1, <2>2, LocalsKept
<1>4. ASSUME NEW t \in Tasks, HashReturn(t)
      PROVE  LocalInv'
  <2>1. LocalsBecome(t, "got", want[t], cur[t], idx[t], held[t])
    BY <1>4 DEF HashReturn, LocalsBecome, LocalInv
  <2>2. CallOK("got", want[t], cur[t], idx[t], held[t])
    BY <1>4, <1>a DEF HashReturn, CallOK, Places, Waits
  <2>3. QED
    BY <2>1, <2>2, LocalsKept
<1>5. ASSUME NEW t \in Tasks, ScanFree(t)
      PROVE  LocalInv'
  <2>1. LocalsBecome(t, "scanwait", want[t], cur[t], idx[t], held[t])
    BY <1>5 DEF ScanFree, LocalsBecome, LocalInv
  <2>2. CallOK("scanwait", want[t], cur[t], idx[t], held[t])
    BY <1>5, <1>a DEF ScanFree, CallOK, Places, Waits
  <2>3. QED
    BY <2>1, <2>2, LocalsKept
<1>6. ASSUME NEW t \in Tasks, ScanNext(t)
      PROVE  LocalInv'
  <2> DEFINE next == bh[cur[t]].next_free
  <2>1. cur[t] \in Buffers /\ want[t] # NoBlock
    BY <1>6, <1>a DEF ScanNext, CallOK
  <2>2. next \in Buffers
    BY <2>1 DEF HeadInv, AnyCount
  <2>3. CASE next = free_list
    <3>1. LocalsBecome(t, "bufwait", want[t], NoBuffer, idx[t], held[t])
      BY <1>6, <2>3 DEF ScanNext, SleepIn, LocalsBecome, LocalInv
    <3>2. CallOK("bufwait", want[t], NoBuffer, idx[t], held[t])
      BY <2>1, <1>a DEF CallOK, Places
    <3>3. QED
      BY <3>1, <3>2, LocalsKept
  <2>4. CASE next # free_list
    <3>1. LocalsBecome(t, "scan", want[t], next, idx[t], held[t])
      BY <1>6, <2>4 DEF ScanNext, LocalsBecome, LocalInv
    <3>2. CallOK("scan", want[t], next, idx[t], held[t])
      BY <2>1, <2>2, <1>a DEF CallOK, Places
    <3>3. QED
      BY <3>1, <3>2, LocalsKept
  <2>5. QED
    BY <2>3, <2>4
<1>7. ASSUME NEW t \in Tasks, Take(t)
      PROVE  LocalInv'
  <2>1. cur[t] \in Buffers /\ cur[t] # NoBuffer /\ want[t] # NoBlock
    BY <1>7, <1>a, BufferRange DEF Take, CallOK
  <2>2. CASE bh[cur[t]].dirt
    <3>1. LocalsBecome(t, "sync", want[t], cur[t], 1, held[t])
      BY <1>7, <2>2 DEF Take, LocalsBecome, LocalInv
    <3>2. CallOK("sync", want[t], cur[t], 1, held[t])
      BY <2>1, <1>a, CacheAssumption DEF CallOK, Places, Waits
    <3>3. QED
      BY <3>1, <3>2, LocalsKept
  <2>3. CASE ~ bh[cur[t]].dirt
    <3>1. LocalsBecome(t, "assign", want[t], cur[t], idx[t], held[t])
      BY <1>7, <2>3 DEF Take, LocalsBecome, LocalInv
    <3>2. CallOK("assign", want[t], cur[t], idx[t], held[t])
      BY <2>1, <1>a DEF CallOK, Places
    <3>3. QED
      BY <3>1, <3>2, LocalsKept
  <2>4. QED
    BY <2>2, <2>3
<1>8. ASSUME NEW t \in Tasks, Assign(t)
      PROVE  LocalInv'
  <2>1. cur[t] \in Buffers /\ want[t] # NoBlock
    BY <1>8, <1>a DEF Assign, CallOK
  <2>2. CASE Found(want[t]) = {}
    <3>1. LocalsBecome(t, "got", want[t], cur[t], idx[t], held[t])
      BY <1>8, <2>2 DEF Assign, LocalsBecome, LocalInv
    <3>2. CallOK("got", want[t], cur[t], idx[t], held[t])
      BY <2>1, <1>a DEF CallOK, Places
    <3>3. QED
      BY <3>1, <3>2, LocalsKept
  <2>3. CASE Found(want[t]) # {}
    <3>1. LocalsBecome(t, "find", want[t], NoBuffer, idx[t], held[t])
      BY <1>8, <2>3 DEF Assign, LocalsBecome, LocalInv
    <3>2. CallOK("find", want[t], NoBuffer, idx[t], held[t])
      BY <2>1, <1>a DEF CallOK, Places
    <3>3. QED
      BY <3>1, <3>2, LocalsKept
  <2>4. QED
    BY <2>2, <2>3
<1>9. ASSUME NEW t \in Tasks, BreadReturn(t)
      PROVE  LocalInv'
  <2> DEFINE H == held[t] \cup {<<want[t], cur[t]>>}
  <2>1. LocalsBecome(t, "user", NoBlock, NoBuffer, 0, H)
    BY <1>9 DEF BreadReturn, BackToCaller, LocalsBecome
  <2>2. /\ want[t] \in Blocks /\ cur[t] \in Buffers
        /\ held[t] \in SUBSET (Blocks \X Buffers)
    BY <1>9, <1>a DEF BreadReturn, CallOK
  <2>3. H \in SUBSET (Blocks \X Buffers)
    BY <2>2
  <2>4. CallOK("user", NoBlock, NoBuffer, 0, H)
    BY <2>3, CacheAssumption DEF CallOK, Places
  <2>5. QED
    BY <2>1, <2>4, LocalsKept
<1>10. ASSUME NEW t \in Tasks, BreadStart(t)
       PROVE  LocalInv'
  <2>1. LocalsBecome(t, "readio", want[t], cur[t], idx[t], held[t])
    BY <1>10 DEF BreadStart, StartIo, LocalsBecome, LocalInv
  <2>2. CallOK("readio", want[t], cur[t], idx[t], held[t])
    BY <1>10, <1>a DEF BreadStart, StartIo, CallOK, Places, Waits
  <2>3. QED
    BY <2>1, <2>2, LocalsKept
<1>11. ASSUME NEW t \in Tasks, BreadFail(t) \/ BrelseReturn(t)
       PROVE  LocalInv'
  <2>1. LocalsBecome(t, "user", NoBlock, NoBuffer, 0, held[t])
    BY <1>11 DEF BreadFail, BrelseReturn, BackToCaller, LocalsBecome, LocalInv
  <2>2. CallOK("user", NoBlock, NoBuffer, 0, held[t])
    BY <1>11, <1>a, CacheAssumption DEF BreadFail, BrelseReturn, BackToCaller, CallOK, Places, Waits
  <2>3. QED
    BY <2>1, <2>2, LocalsKept
<1>12. ASSUME NEW t \in Tasks, SyncNext(t)
       PROVE  LocalInv'
  <2>1. LocalsBecome(t, "sync", want[t], cur[t], idx[t] + 1, held[t])
    BY <1>12 DEF SyncNext, LocalsBecome, LocalInv
  <2>2. idx[t] \in Buffers /\ pc[t] \in {"sync", "syncio"}
    BY <1>12, <1>a DEF SyncNext, CallOK
  <2>3. idx[t] + 1 \in 1 .. NR_BUFFERS + 1
    BY <2>2, CacheAssumption DEF Buffers
  <2>4. CallOK("sync", want[t], cur[t], idx[t] + 1, held[t])
    BY <2>2, <2>3, <1>a, CacheAssumption DEF CallOK, Places, Waits
  <2>5. QED
    BY <2>1, <2>4, LocalsKept
<1>13. ASSUME NEW t \in Tasks, SyncWrite(t)
       PROVE  LocalInv'
  <2>1. LocalsBecome(t, "syncio", want[t], cur[t], idx[t], held[t])
    BY <1>13 DEF SyncWrite, StartIo, LocalsBecome, LocalInv
  <2>2. CallOK("syncio", want[t], cur[t], idx[t], held[t])
    BY <1>13, <1>a DEF SyncWrite, StartIo, CallOK, Places, Waits
  <2>3. QED
    BY <2>1, <2>2, LocalsKept
<1>14. ASSUME NEW t \in Tasks, SyncDone(t)
       PROVE  LocalInv'
  <2>1. pc[t] = "sync"
    BY <1>14 DEF SyncDone
  <2>2. CASE want[t] = NoBlock
    <3>1. LocalsBecome(t, "user", NoBlock, NoBuffer, 0, held[t])
      BY <1>14, <2>2 DEF SyncDone, BackToCaller, LocalsBecome, LocalInv
    <3>2. CallOK("user", NoBlock, NoBuffer, 0, held[t])
      BY <2>1, <2>2, <1>a, CacheAssumption DEF CallOK, Places
    <3>3. QED
      BY <3>1, <3>2, LocalsKept
  <2>3. CASE want[t] # NoBlock
    <3>1. LocalsBecome(t, "assign", want[t], cur[t], 0, held[t])
      BY <1>14, <2>3 DEF SyncDone, LocalsBecome, LocalInv
    <3>2. CallOK("assign", want[t], cur[t], 0, held[t])
      BY <2>1, <2>3, <1>a, CacheAssumption DEF CallOK, Places
    <3>3. QED
      BY <3>1, <3>2, LocalsKept
  <2>4. QED
    BY <2>2, <2>3
<1>15. ASSUME NEW t \in Tasks, Resume(t)
       PROVE  LocalInv'
  <2> DEFINE place == IF pc[t] = "bufwait" THEN "find" ELSE pc[t]
  <2>1. LocalsBecome(t, place, want[t], cur[t], idx[t], held[t])
    BY <1>15 DEF Resume, LocalsBecome, LocalInv
  <2>2. CallOK(place, want[t], cur[t], idx[t], held[t])
    BY <1>a DEF CallOK, Places
  <2>3. QED
    BY <2>1, <2>2, LocalsKept
<1>16. ASSUME NEW t \in Tasks, NEW x \in Blocks, Bread(t, x)
       PROVE  LocalInv'
  <2>1. LocalsBecome(t, "find", x, cur[t], idx[t], held[t])
    BY <1>16 DEF Bread, LocalsBecome, LocalInv
  <2>2. CallOK("find", x, cur[t], idx[t], held[t])
    BY <1>16, <1>a, CacheAssumption DEF Bread, InCaller, CallOK, Places
  <2>3. QED
    BY <2>1, <2>2, LocalsKept
<1>17. ASSUME NEW t \in Tasks, NEW h \in held[t], Brelse(t, h)
       PROVE  LocalInv'
  <2>1. LocalsBecome(t, "release", want[t], h[2], idx[t], held[t] \ {h})
    BY <1>17 DEF Brelse, LocalsBecome, LocalInv
  <2>2. h[2] \in Buffers
    BY DEF LocalInv
  <2>3. CallOK("release", want[t], h[2], idx[t], held[t] \ {h})
    BY <1>17, <1>a, <2>2 DEF Brelse, InCaller, CallOK, Places, Waits
  <2>4. QED
    BY <2>1, <2>3, LocalsKept
<1>18. ASSUME NEW t \in Tasks, SysSync(t)
       PROVE  LocalInv'
  <2>1. LocalsBecome(t, "sync", want[t], cur[t], 1, held[t])
    BY <1>18 DEF SysSync, LocalsBecome, LocalInv
  <2>2. CallOK("sync", want[t], cur[t], 1, held[t])
    BY <1>18, <1>a, CacheAssumption, SMTT(30) DEF SysSync, InCaller, CallOK, Places, Waits
  <2>3. QED
    BY <2>1, <2>2, LocalsKept
<1>19. ASSUME Disk \/ \E t \in Tasks : \E h \in held[t] : Modify(t, h)
       PROVE  UNCHANGED Locals
  BY <1>19 DEF Disk, Transfer, IoDone, IoError, Modify, Locals
<1>20. CASE UNCHANGED vars
  BY <1>20, <1>b DEF vars, Locals
<1>21. QED
  BY <1>b, <1>1, <1>2, <1>3, <1>4, <1>5, <1>6, <1>7, <1>8, <1>9, <1>10, <1>11, <1>12,
     <1>13, <1>14, <1>15, <1>16, <1>17, <1>18, <1>19, <1>20
  DEF Next, CallStep, CallerStep

(* Every step leaves well-formed buffer heads and a free_list. *)
LEMMA HeadStep == HeadInv /\ LocalInv /\ [Next]_vars => HeadInv'
<1> SUFFICES ASSUME HeadInv, LocalInv, [Next]_vars
             PROVE  HeadInv'
  OBVIOUS
<1> DEFINE Heads == [Buffers -> AnyCount]
<1>a. bh \in Heads /\ free_list \in Buffers
  BY DEF HeadInv
<1>b. ASSUME NEW t \in Tasks
      PROVE  CallOK(pc[t], want[t], cur[t], idx[t], held[t])
  BY DEF LocalInv
<1>c. ASSUME bh' \in Heads, UNCHANGED free_list
      PROVE  HeadInv'
  BY <1>a, <1>c DEF HeadInv
<1>1. ASSUME NEW t \in Tasks, FindHit(t)
      PROVE  HeadInv'
  <2>1. PICK b \in Buffers : bh' = [bh EXCEPT ![b].count = @ + 1]
    BY <1>1 DEF FindHit, Found
  <2>2. bh[b].count + 1 \in Int
    BY <1>a DEF AnyCount
  <2>3. QED
    BY <1>1, <1>a, <1>c, <2>1, <2>2, HeadUpdate DEF FindHit
<1>2. ASSUME NEW t \in Tasks, Take(t)
      PROVE  HeadInv'
  <2>1. cur[t] \in Buffers
    BY <1>2, <1>b DEF Take, Unlocked, At, CallOK
  <2> DEFINE u == Unlink(bh, cur[t])
  <2>2. bh' = [u EXCEPT ![cur[t]].count = 1]
    BY <1>2 DEF Take
  <2>2a. u \in Heads
    BY <1>a, <2>1, ListTypes
  <2> HIDE DEF u
  <2>3. bh' \in Heads
    BY <2>1, <2>2, <2>2a, HeadUpdate, SMTT(30)
  <2>4. bh[cur[t]].next_free \in Buffers
    BY <1>a, <2>1 DEF AnyCount
  <2>5. free_list' \in Buffers
    BY <1>2, <1>a, <2>4 DEF Take
  <2>6. QED
    BY <2>3, <2>5 DEF HeadInv
<1>3. ASSUME NEW t \in Tasks, Assign(t)
      PROVE  HeadInv'
  <2> DEFINE b == cur[t]
             h1 == [bh EXCEPT ![b].dirt = FALSE]
             h2 == [h1 EXCEPT ![b].uptodate = FALSE]
             full == [h2 EXCEPT ![b].block = want[t]]
             h3 == [h2 EXCEPT ![b].block = NoBlock]
             none == [h3 EXCEPT ![b].count = 0]
  <2>1. b \in Buffers /\ want[t] \in Blocks \cup {NoBlock}
    BY <1>3, <1>b DEF Assign, At, CallOK
  <2>2. bh' = Link(full, b) \/ bh' = Link(none, b)
    <3>1. CASE Found(want[t]) = {}
      <4>1. bh' = Link(full, b)
        BY <1>3, <3>1 DEF Assign
      <4>2. QED
        BY <4>1
    <3>2. CASE Found(want[t]) # {}
      <4>1. bh' = Link(none, b)
        BY <1>3, <3>2 DEF Assign
      <4>2. QED
        BY <4>1
    <3>3. QED
      BY <3>1, <3>2
  <2>3. h1 \in Heads
    BY <1>a, <2>1, HeadUpdate
  <2> HIDE DEF h1
  <2>4. h2 \in Heads
    BY <2>1, <2>3, HeadUpdate
  <2> HIDE DEF h2
  <2>5. full \in Heads /\ h3 \in Heads
    BY <2>1, <2>4, HeadUpdate
  <2> HIDE DEF h3, full
  <2>6. none \in Heads
    <3>1. \A c \in Int : [h3 EXCEPT ![b].count = c] \in Heads
      BY <2>1, <2>5, HeadUpdate
    <3>2. QED
      BY <3>1
  <2> HIDE DEF none
  <2>7. bh' \in Heads
    BY <1>a, <2>1, <2>2, <2>5, <2>6, ListTypes
  <2>8. QED
    BY <1>3, <1>c, <2>7 DEF Assign
<1>4. ASSUME NEW t \in Tasks, BreadStart(t)
      PROVE  HeadInv'
  <2>1. cur[t] \in Buffers
    BY <1>4, <1>b DEF BreadStart, At, CallOK
  <2>2. QED
    BY <1>4, <1>a, <1>c, <2>1, HeadUpdate DEF BreadStart, StartIo
<1>5. ASSUME NEW t \in Tasks, BreadFail(t) \/ BrelseReturn(t)
      PROVE  HeadInv'
  <2>1. cur[t] \in Buffers
    BY <1>5, <1>b DEF BreadFail, BrelseReturn, Unlocked, At, CallOK
  <2>2. bh[cur[t]].count - 1 \in Int
    BY <1>a, <2>1 DEF AnyCount
  <2>3. QED
    BY <1>5, <1>a, <1>c, <2>1, <2>2, HeadUpdate DEF BreadFail, BrelseReturn, Drop
<1>6. ASSUME NEW t \in Tasks, SyncWrite(t)
      PROVE  HeadInv'
  BY <1>6, <1>a, <1>c, HeadUpdate DEF SyncWrite, StartIo
<1>7. ASSUME NEW t \in Tasks, NEW h \in held[t], Modify(t, h)
      PROVE  HeadInv'
  <2>1. h[2] \in Buffers
    BY <1>b DEF CallOK
  <2>2. QED
    BY <1>7, <1>a, <1>c, <2>1, HeadUpdate DEF Modify
<1>8. ASSUME NEW b \in Buffers, IoDone(b) \/ IoError(b)
      PROVE  HeadInv'
  <2> DEFINE h1 == [bh EXCEPT ![b].uptodate = TRUE]
             h2 == [h1 EXCEPT ![b].dirt = FALSE]
             h3 == [bh EXCEPT ![b].uptodate = FALSE]
  <2>1. h2 \in Heads /\ h3 \in Heads
    <3>1. h1 \in Heads /\ h3 \in Heads
      BY <1>a, HeadUpdate
    <3>2. QED
      BY <3>1, HeadUpdate
  <2>2. [h2 EXCEPT ![b].lock = FALSE] \in Heads /\ [h3 EXCEPT ![b].lock = FALSE] \in Heads
    BY <2>1, HeadUpdate
  <2>3. QED
    BY <1>8, <1>c, <2>2 DEF IoDone, IoError
<1>9. ASSUME UNCHANGED <<bh, free_list>>
      PROVE  HeadInv'
  BY <1>9, <1>c, <1>a
<1>10. ASSUME NEW t \in Tasks,
              \/ WaitOnBuffer(t) \/ FindMiss(t) \/ HashReturn(t) \/ ScanNext(t)
              \/ ScanFree(t) \/ BreadReturn(t) \/ SyncNext(t) \/ SyncDone(t)
              \/ Resume(t) \/ SysSync(t) \/ \E x \in Blocks : Bread(t, x)
              \/ \E h \in held[t] : Brelse(t, h)
       PROVE  UNCHANGED <<bh, free_list>>
  BY <1>10 DEF WaitOnBuffer, FindMiss, HashReturn, ScanNext, ScanFree, BreadReturn,
               SyncNext, SyncDone, Resume, SysSync, Bread, Brelse
<1>11. ASSUME NEW b \in Buffers, Transfer(b)
       PROVE  UNCHANGED <<bh, free_list>>
  BY <1>11 DEF Transfer
<1>12. CASE UNCHANGED vars
  BY <1>9, <1>12 DEF vars
<1>13. QED
  BY <1>1, <1>2, <1>3, <1>4, <1>5, <1>6, <1>7, <1>8, <1>9, <1>10, <1>11, <1>12
  DEF Next, CallStep, CallerStep, Disk

(* Every step leaves well-formed queues and transfers. *)
LEMMA RestStep == HeadInv /\ LocalInv /\ RestInv /\ [Next]_vars => RestInv'
<1> SUFFICES ASSUME HeadInv, LocalInv, RestInv, [Next]_vars
             PROVE  RestInv'
  OBVIOUS
<1>a. /\ wq \in WaitState
      /\ run \in MaybeTask
      /\ io \in [Buffers -> {"none", "read", "write", "written"}]
  BY DEF RestInv
<1>b. ASSUME NEW t \in Tasks
      PROVE  CallOK(pc[t], want[t], cur[t], idx[t], held[t])
  BY DEF LocalInv
<1>c. /\ \A q \in Queues : WakeUp(wq, q) \in WaitState
      /\ \A t \in Tasks : WakeBehind(wq, t) \in WaitState
      /\ \A t \in Tasks, q \in Queues :
           SleepOn(wq, t, q, "UNINTERRUPTIBLE") \in WaitState
  BY <1>a, WaitStateClosed
<1>d. Buffers \subseteq Queues /\ buffer_wait \in Queues
  BY CacheAssumption
<1>1. ASSUME NEW t \in Tasks, WaitOnBuffer(t)
      PROVE  RestInv'
  BY <1>1, <1>a, <1>c, <1>d DEF WaitOnBuffer, SleepIn, RestInv, MaybeTask
<1>2. ASSUME NEW t \in Tasks, ScanNext(t)
      PROVE  RestInv'
  BY <1>2, <1>a, <1>c, <1>d DEF ScanNext, SleepIn, Go, RestInv, MaybeTask
<1>3. ASSUME NEW t \in Tasks, Resume(t)
      PROVE  RestInv'
  BY <1>3, <1>a, <1>c DEF Resume, Go, RestInv, MaybeTask
<1>4. ASSUME NEW t \in Tasks, BreadFail(t) \/ BrelseReturn(t)
      PROVE  RestInv'
  BY <1>4, <1>a, <1>c, <1>d
  DEF BreadFail, BrelseReturn, Drop, BackToCaller, RestInv, MaybeTask
<1>5. ASSUME NEW t \in Tasks, BreadStart(t) \/ SyncWrite(t)
      PROVE  RestInv'
  BY <1>5, <1>a DEF BreadStart, SyncWrite, StartIo, Go, RestInv, MaybeTask
<1>6. ASSUME NEW t \in Tasks,
             \/ FindHit(t) \/ FindMiss(t) \/ HashReturn(t) \/ ScanFree(t)
             \/ Take(t) \/ Assign(t) \/ BreadReturn(t) \/ SyncNext(t)
             \/ SyncDone(t) \/ SysSync(t) \/ \E x \in Blocks : Bread(t, x)
             \/ \E h \in held[t] : Modify(t, h) \/ Brelse(t, h)
      PROVE  RestInv'
  <2>1. UNCHANGED <<wq, io>> /\ run' \in {t, NoTask, run}
    BY <1>6 DEF FindHit, FindMiss, HashReturn, ScanFree, Take, Assign, BreadReturn,
                SyncNext, SyncDone, SysSync, Bread, Modify, Brelse, Go, BackToCaller
  <2>2. QED
    BY <1>a, <2>1 DEF RestInv, MaybeTask
<1>7. ASSUME NEW b \in Buffers, Transfer(b) \/ IoDone(b) \/ IoError(b)
      PROVE  RestInv'
  BY <1>7, <1>a, <1>c, <1>d DEF Transfer, IoDone, IoError, RestInv
<1>8. CASE UNCHANGED vars
  BY <1>8, <1>a DEF vars, RestInv
<1>9. QED
  BY <1>1, <1>2, <1>3, <1>4, <1>5, <1>6, <1>7, <1>8
  DEF Next, CallStep, CallerStep, Disk
-----------------------------------------------------------------------------
(* The fields of a buffer head that the invariants read.                   *)
HeadIs(r, block, count, dirt, lock, linked, next, prev) ==
  /\ r.block = block /\ r.count = count /\ r.dirt = dirt /\ r.lock = lock
  /\ r.linked = linked /\ r.next_free = next /\ r.prev_free = prev

(* What an assignment to one field of the head of b leaves in each head x. *)
LEMMA FieldUpdate ==
  ASSUME NEW h \in [Buffers -> AnyCount], NEW b \in Buffers, NEW x \in Buffers
  PROVE  /\ \A v \in Int :
              HeadIs([h EXCEPT ![b].count = v][x], h[x].block,
                     IF x = b THEN v ELSE h[x].count, h[x].dirt, h[x].lock,
                     h[x].linked, h[x].next_free, h[x].prev_free)
         /\ \A v \in BOOLEAN :
              /\ HeadIs([h EXCEPT ![b].dirt = v][x], h[x].block, h[x].count,
                        IF x = b THEN v ELSE h[x].dirt, h[x].lock,
                        h[x].linked, h[x].next_free, h[x].prev_free)
              /\ HeadIs([h EXCEPT ![b].lock = v][x], h[x].block, h[x].count,
                        h[x].dirt, IF x = b THEN v ELSE h[x].lock,
                        h[x].linked, h[x].next_free, h[x].prev_free)
              /\ HeadIs([h EXCEPT ![b].uptodate = v][x], h[x].block, h[x].count,
                        h[x].dirt, h[x].lock,
                        h[x].linked, h[x].next_free, h[x].prev_free)
              /\ HeadIs([h EXCEPT ![b].linked = v][x], h[x].block, h[x].count,
                        h[x].dirt, h[x].lock, IF x = b THEN v ELSE h[x].linked,
                        h[x].next_free, h[x].prev_free)
         /\ \A v \in Blocks \cup {NoBlock} :
              HeadIs([h EXCEPT ![b].block = v][x], IF x = b THEN v ELSE h[x].block,
                     h[x].count, h[x].dirt, h[x].lock,
                     h[x].linked, h[x].next_free, h[x].prev_free)
         /\ \A v \in Buffers :
              /\ HeadIs([h EXCEPT ![b].next_free = v][x], h[x].block, h[x].count,
                        h[x].dirt, h[x].lock, h[x].linked,
                        IF x = b THEN v ELSE h[x].next_free, h[x].prev_free)
              /\ HeadIs([h EXCEPT ![b].prev_free = v][x], h[x].block, h[x].count,
                        h[x].dirt, h[x].lock, h[x].linked,
                        h[x].next_free, IF x = b THEN v ELSE h[x].prev_free)
BY DEF AnyCount, HeadIs

(* What remove_from_queues ... *)
LEMMA UnlinkFields ==
  ASSUME NEW h \in [Buffers -> AnyCount], NEW b \in Buffers, NEW x \in Buffers
  PROVE  HeadIs(Unlink(h, b)[x], h[x].block, h[x].count, h[x].dirt, h[x].lock,
                IF x = b THEN FALSE ELSE h[x].linked,
                IF x = h[b].prev_free THEN h[b].next_free ELSE h[x].next_free,
                IF x = h[b].next_free THEN h[b].prev_free ELSE h[x].prev_free)
<1> DEFINE p == h[b].prev_free
           n == h[b].next_free
           h1 == [h EXCEPT ![b].linked = FALSE]
           h2 == [h1 EXCEPT ![p].next_free = n]
           h3 == [h2 EXCEPT ![n].prev_free = p]
<1>1. p \in Buffers /\ n \in Buffers
  BY DEF AnyCount
<1>2. Unlink(h, b) = h3
  BY DEF Unlink
<1> HIDE DEF p, n
<1>3. h1 \in [Buffers -> AnyCount]
  BY HeadUpdate, Zenon
<1>4. HeadIs(h1[x], h[x].block, h[x].count, h[x].dirt, h[x].lock,
             IF x = b THEN FALSE ELSE h[x].linked, h[x].next_free, h[x].prev_free)
  BY FieldUpdate, Zenon
<1> HIDE DEF h1
<1>5. h2 \in [Buffers -> AnyCount]
  BY <1>1, <1>3, HeadUpdate, Zenon
<1>6. HeadIs(h2[x], h1[x].block, h1[x].count, h1[x].dirt, h1[x].lock, h1[x].linked,
             IF x = p THEN n ELSE h1[x].next_free, h1[x].prev_free)
  BY <1>1, <1>3, FieldUpdate, Zenon
<1> HIDE DEF h2
<1>7. HeadIs(h3[x], h2[x].block, h2[x].count, h2[x].dirt, h2[x].lock, h2[x].linked,
             h2[x].next_free, IF x = n THEN p ELSE h2[x].prev_free)
  BY <1>1, <1>5, FieldUpdate, Zenon
<1> HIDE DEF h3
<1>8. HeadIs(h3[x], h[x].block, h[x].count, h[x].dirt, h[x].lock,
             IF x = b THEN FALSE ELSE h[x].linked,
             IF x = p THEN n ELSE h[x].next_free, IF x = n THEN p ELSE h[x].prev_free)
  BY <1>4, <1>6, <1>7 DEF HeadIs
<1>9. QED
  BY <1>2, <1>8 DEF p, n

(* ... and insert_into_queues leave in each head x. *)
LEMMA LinkFields ==
  ASSUME NEW h \in [Buffers -> AnyCount], NEW b \in Buffers, NEW x \in Buffers,
         free_list \in Buffers
  PROVE  HeadIs(Link(h, b)[x], h[x].block, h[x].count, h[x].dirt, h[x].lock,
                IF x = b THEN TRUE ELSE h[x].linked,
                IF x = h[free_list].prev_free THEN b
                ELSE IF x = b THEN free_list ELSE h[x].next_free,
                IF x = free_list THEN b
                ELSE IF x = b THEN h[free_list].prev_free ELSE h[x].prev_free)
<1> DEFINE last == h[free_list].prev_free
           h1 == [h EXCEPT ![b].linked = TRUE]
           h2 == [h1 EXCEPT ![b].next_free = free_list]
           h3 == [h2 EXCEPT ![b].prev_free = last]
           h4 == [h3 EXCEPT ![last].next_free = b]
           h5 == [h4 EXCEPT ![free_list].prev_free = b]
<1>1. last \in Buffers
  BY DEF AnyCount
<1>2. Link(h, b) = h5
  BY DEF Link
<1> HIDE DEF last
<1>3. h1 \in [Buffers -> AnyCount]
  BY HeadUpdate, Zenon
<1>4. HeadIs(h1[x], h[x].block, h[x].count, h[x].dirt, h[x].lock,
             IF x = b THEN TRUE ELSE h[x].linked, h[x].next_free, h[x].prev_free)
  BY FieldUpdate, Zenon
<1> HIDE DEF h1
<1>5. h2 \in [Buffers -> AnyCount]
  BY <1>3, HeadUpdate, Zenon
<1>6. HeadIs(h2[x], h1[x].block, h1[x].count, h1[x].dirt, h1[x].lock, h1[x].linked,
             IF x = b THEN free_list ELSE h1[x].next_free, h1[x].prev_free)
  BY <1>3, FieldUpdate, Zenon
<1> HIDE DEF h2
<1>7. h3 \in [Buffers -> AnyCount]
  BY <1>1, <1>5, HeadUpdate, Zenon
<1>8. HeadIs(h3[x], h2[x].block, h2[x].count, h2[x].dirt, h2[x].lock, h2[x].linked,
             h2[x].next_free, IF x = b THEN last ELSE h2[x].prev_free)
  BY <1>1, <1>5, FieldUpdate, Zenon
<1> HIDE DEF h3
<1>9. h4 \in [Buffers -> AnyCount]
  BY <1>1, <1>7, HeadUpdate, Zenon
<1>10. HeadIs(h4[x], h3[x].block, h3[x].count, h3[x].dirt, h3[x].lock, h3[x].linked,
              IF x = last THEN b ELSE h3[x].next_free, h3[x].prev_free)
  BY <1>1, <1>7, FieldUpdate, Zenon
<1> HIDE DEF h4
<1>11. HeadIs(h5[x], h4[x].block, h4[x].count, h4[x].dirt, h4[x].lock, h4[x].linked,
              h4[x].next_free, IF x = free_list THEN b ELSE h4[x].prev_free)
  BY <1>9, FieldUpdate, Zenon
<1> HIDE DEF h5
<1>12. HeadIs(h2[x], h[x].block, h[x].count, h[x].dirt, h[x].lock,
              IF x = b THEN TRUE ELSE h[x].linked,
              IF x = b THEN free_list ELSE h[x].next_free, h[x].prev_free)
  BY <1>4, <1>6 DEF HeadIs
<1>13. HeadIs(h3[x], h[x].block, h[x].count, h[x].dirt, h[x].lock,
              IF x = b THEN TRUE ELSE h[x].linked,
              IF x = b THEN free_list ELSE h[x].next_free,
              IF x = b THEN last ELSE h[x].prev_free)
  BY <1>8, <1>12 DEF HeadIs
<1>14. HeadIs(h5[x], h[x].block, h[x].count, h[x].dirt, h[x].lock,
              IF x = b THEN TRUE ELSE h[x].linked,
              IF x = last THEN b ELSE IF x = b THEN free_list ELSE h[x].next_free,
              IF x = free_list THEN b ELSE IF x = b THEN last ELSE h[x].prev_free)
  BY <1>10, <1>11, <1>13 DEF HeadIs
<1>15. QED
  BY <1>2, <1>14 DEF last

(* The whole effect of Take on the buffer heads ...                        *)
LEMMA TakeEffect ==
  ASSUME HeadInv, LocalInv, NEW t \in Tasks, Take(t)
  PROVE  LET b == cur[t]
             p == bh[b].prev_free
             n == bh[b].next_free
         IN /\ b \in Buffers /\ bh[b].count = 0 /\ ~ bh[b].lock
            /\ free_list' = IF free_list = b THEN n ELSE free_list
            /\ \A x \in Buffers :
                 HeadIs(bh'[x], bh[x].block, IF x = b THEN 1 ELSE bh[x].count,
                        bh[x].dirt, bh[x].lock, IF x = b THEN FALSE ELSE bh[x].linked,
                        IF x = p THEN n ELSE bh[x].next_free,
                        IF x = n THEN p ELSE bh[x].prev_free)
<1> DEFINE b == cur[t]
           p == bh[b].prev_free
           n == bh[b].next_free
           u == Unlink(bh, b)
<1>1. b \in Buffers
  BY DEF Take, Unlocked, At, LocalInv, CallOK
<1>2. bh[b].count = 0 /\ ~ bh[b].lock
  BY DEF Take, Unlocked, At, Awaited
<1>3. bh' = [u EXCEPT ![b].count = 1]
  BY DEF Take
<1>4. free_list' = IF free_list = b THEN n ELSE free_list
  BY DEF Take
<1>5. bh \in [Buffers -> AnyCount]
  BY DEF HeadInv
<1>6. u \in [Buffers -> AnyCount]
  BY <1>1, <1>5, ListTypes, Zenon
<1>7. ASSUME NEW x \in Buffers
      PROVE  HeadIs(bh'[x], bh[x].block, IF x = b THEN 1 ELSE bh[x].count,
                    bh[x].dirt, bh[x].lock, IF x = b THEN FALSE ELSE bh[x].linked,
                    IF x = p THEN n ELSE bh[x].next_free,
                    IF x = n THEN p ELSE bh[x].prev_free)
  <2>1. HeadIs(u[x], bh[x].block, bh[x].count, bh[x].dirt, bh[x].lock,
               IF x = b THEN FALSE ELSE bh[x].linked,
               IF x = p THEN n ELSE bh[x].next_free,
               IF x = n THEN p ELSE bh[x].prev_free)
    BY <1>1, <1>5, UnlinkFields, Zenon
  <2> HIDE DEF u, p, n
  <2>2. 1 \in Int
    OBVIOUS
  <2>3. HeadIs([u EXCEPT ![b].count = 1][x], u[x].block,
               IF x = b THEN 1 ELSE u[x].count, u[x].dirt, u[x].lock,
               u[x].linked, u[x].next_free, u[x].prev_free)
    BY <1>1, <1>6, <2>2, FieldUpdate, Zenon
  <2>4. QED
    BY <1>3, <2>1, <2>3 DEF HeadIs
<1>8. QED
  BY <1>1, <1>2, <1>4, <1>7, Zenon

(* ... and of Assign, with the block b has then and how often it is in use. *)
LEMMA AssignEffect ==
  ASSUME HeadInv, LocalInv, NEW t \in Tasks, Assign(t)
  PROVE  LET b == cur[t]
             last == bh[free_list].prev_free
             missing == Found(want[t]) = {}
         IN /\ b \in Buffers /\ free_list' = free_list
            /\ \A x \in Buffers :
                 HeadIs(bh'[x],
                        IF x # b THEN bh[x].block
                        ELSE IF missing THEN want[t] ELSE NoBlock,
                        IF x = b /\ ~ missing THEN 0 ELSE bh[x].count,
                        IF x = b THEN FALSE ELSE bh[x].dirt, bh[x].lock,
                        IF x = b THEN TRUE ELSE bh[x].linked,
                        IF x = last THEN b
                        ELSE IF x = b THEN free_list ELSE bh[x].next_free,
                        IF x = free_list THEN b
                        ELSE IF x = b THEN last ELSE bh[x].prev_free)
<1> DEFINE b == cur[t]
           last == bh[free_list].prev_free
           missing == Found(want[t]) = {}
           h1 == [bh EXCEPT ![b].dirt = FALSE]
           h2 == [h1 EXCEPT ![b].uptodate = FALSE]
           full == [h2 EXCEPT ![b].block = want[t]]
           h3 == [h2 EXCEPT ![b].block = NoBlock]
           none == [h3 EXCEPT ![b].count = 0]
<1>1. b \in Buffers /\ free_list' = free_list /\ want[t] \in Blocks \cup {NoBlock}
  BY DEF Assign, At, LocalInv, CallOK
<1>2. bh \in [Buffers -> AnyCount] /\ free_list \in Buffers
  BY DEF HeadInv
<1>3. (missing => bh' = Link(full, b)) /\ (~ missing => bh' = Link(none, b))
  BY DEF Assign
<1> HIDE DEF missing
<1>4. h1 \in [Buffers -> AnyCount]
  BY <1>1, <1>2, HeadUpdate, Zenon
<1>5. \A x \in Buffers :
        HeadIs(h1[x], bh[x].block, bh[x].count, IF x = b THEN FALSE ELSE bh[x].dirt,
               bh[x].lock, bh[x].linked, bh[x].next_free, bh[x].prev_free)
  BY <1>1, <1>2, FieldUpdate, Zenon
<1> HIDE DEF h1
<1>6. h2 \in [Buffers -> AnyCount]
  BY <1>1, <1>4, HeadUpdate, Zenon
<1>7. \A x \in Buffers :
        HeadIs(h2[x], h1[x].block, h1[x].count, h1[x].dirt, h1[x].lock,
               h1[x].linked, h1[x].next_free, h1[x].prev_free)
  BY <1>1, <1>4, FieldUpdate, Zenon
<1> HIDE DEF h2
<1>8. full \in [Buffers -> AnyCount] /\ h3 \in [Buffers -> AnyCount]
  BY <1>1, <1>6, HeadUpdate, Zenon
<1>9. \A x \in Buffers :
        /\ HeadIs(full[x], IF x = b THEN want[t] ELSE h2[x].block, h2[x].count,
                  h2[x].dirt, h2[x].lock, h2[x].linked, h2[x].next_free,
                  h2[x].prev_free)
        /\ HeadIs(h3[x], IF x = b THEN NoBlock ELSE h2[x].block, h2[x].count,
                  h2[x].dirt, h2[x].lock, h2[x].linked, h2[x].next_free,
                  h2[x].prev_free)
  BY <1>1, <1>6, FieldUpdate, Zenon
<1> HIDE DEF full, h3
<1>10. 0 \in Int
  OBVIOUS
<1>11. none \in [Buffers -> AnyCount]
  BY <1>1, <1>8, <1>10, HeadUpdate, Zenon
<1>12. \A x \in Buffers :
         HeadIs(none[x], h3[x].block, IF x = b THEN 0 ELSE h3[x].count, h3[x].dirt,
                h3[x].lock, h3[x].linked, h3[x].next_free, h3[x].prev_free)
  BY <1>1, <1>8, <1>10, FieldUpdate, Zenon
<1> HIDE DEF none
<1>13. PICK m \in [Buffers -> AnyCount] :
         /\ bh' = Link(m, b)
         /\ \A x \in Buffers :
              HeadIs(m[x], IF x # b THEN bh[x].block
                           ELSE IF missing THEN want[t] ELSE NoBlock,
                     IF x = b /\ ~ missing THEN 0 ELSE bh[x].count,
                     IF x = b THEN FALSE ELSE bh[x].dirt, bh[x].lock,
                     bh[x].linked, bh[x].next_free, bh[x].prev_free)
  <2>1. CASE missing
    <3>1. ASSUME NEW x \in Buffers
          PROVE  HeadIs(full[x], IF x # b THEN bh[x].block
                                 ELSE IF missing THEN want[t] ELSE NoBlock,
                        IF x = b /\ ~ missing THEN 0 ELSE bh[x].count,
                        IF x = b THEN FALSE ELSE bh[x].dirt, bh[x].lock,
                        bh[x].linked, bh[x].next_free, bh[x].prev_free)
      <4>1. HeadIs(h1[x], bh[x].block, bh[x].count, IF x = b THEN FALSE ELSE bh[x].dirt,
                   bh[x].lock, bh[x].linked, bh[x].next_free, bh[x].prev_free)
        BY <1>5
      <4>2. HeadIs(h2[x], h1[x].block, h1[x].count, h1[x].dirt, h1[x].lock,
                   h1[x].linked, h1[x].next_free, h1[x].prev_free)
        BY <1>7
      <4>3. HeadIs(full[x], IF x = b THEN want[t] ELSE h2[x].block, h2[x].count,
                   h2[x].dirt, h2[x].lock, h2[x].linked, h2[x].next_free,
                   h2[x].prev_free)
        BY <1>9
      <4>4. QED
        BY <2>1, <4>1, <4>2, <4>3 DEF HeadIs
    <3>2. QED
      BY <1>3, <1>8, <2>1, <3>1, Zenon
  <2>2. CASE ~ missing
    <3>1. ASSUME NEW x \in Buffers
          PROVE  HeadIs(none[x], IF x # b THEN bh[x].block
                                 ELSE IF missing THEN want[t] ELSE NoBlock,
                        IF x = b /\ ~ missing THEN 0 ELSE bh[x].count,
                        IF x = b THEN FALSE ELSE bh[x].dirt, bh[x].lock,
                        bh[x].linked, bh[x].next_free, bh[x].prev_free)
      <4>1. HeadIs(h1[x], bh[x].block, bh[x].count, IF x = b THEN FALSE ELSE bh[x].dirt,
                   bh[x].lock, bh[x].linked, bh[x].next_free, bh[x].prev_free)
        BY <1>5
      <4>2. HeadIs(h2[x], h1[x].block, h1[x].count, h1[x].dirt, h1[x].lock,
                   h1[x].linked, h1[x].next_free, h1[x].prev_free)
        BY <1>7
      <4>3. HeadIs(h3[x], IF x = b THEN NoBlock ELSE h2[x].block, h2[x].count,
                   h2[x].dirt, h2[x].lock, h2[x].linked, h2[x].next_free,
                   h2[x].prev_free)
        BY <1>9
      <4>4. HeadIs(none[x], h3[x].block, IF x = b THEN 0 ELSE h3[x].count, h3[x].dirt,
                   h3[x].lock, h3[x].linked, h3[x].next_free, h3[x].prev_free)
        BY <1>12
      <4>5. QED
        BY <2>2, <4>1, <4>2, <4>3, <4>4 DEF HeadIs
    <3>2. QED
      BY <1>3, <1>11, <2>2, <3>1, Zenon
  <2>3. QED
    BY <2>1, <2>2, Zenon
<1>14. m[free_list].prev_free = last
  BY <1>2, <1>13 DEF HeadIs
<1>15. ASSUME NEW x \in Buffers
       PROVE  HeadIs(bh'[x], IF x # b THEN bh[x].block
                             ELSE IF missing THEN want[t] ELSE NoBlock,
                     IF x = b /\ ~ missing THEN 0 ELSE bh[x].count,
                     IF x = b THEN FALSE ELSE bh[x].dirt, bh[x].lock,
                     IF x = b THEN TRUE ELSE bh[x].linked,
                     IF x = last THEN b
                     ELSE IF x = b THEN free_list ELSE bh[x].next_free,
                     IF x = free_list THEN b
                     ELSE IF x = b THEN last ELSE bh[x].prev_free)
  <2>1. HeadIs(Link(m, b)[x], m[x].block, m[x].count, m[x].dirt, m[x].lock,
               IF x = b THEN TRUE ELSE m[x].linked,
               IF x = m[free_list].prev_free THEN b
               ELSE IF x = b THEN free_list ELSE m[x].next_free,
               IF x = free_list THEN b
               ELSE IF x = b THEN m[free_list].prev_free ELSE m[x].prev_free)
    BY <1>1, <1>2, <1>13, LinkFields, Zenon
  <2>2. HeadIs(m[x], IF x # b THEN bh[x].block
                     ELSE IF missing THEN want[t] ELSE NoBlock,
               IF x = b /\ ~ missing THEN 0 ELSE bh[x].count,
               IF x = b THEN FALSE ELSE bh[x].dirt, bh[x].lock,
               bh[x].linked, bh[x].next_free, bh[x].prev_free)
    BY <1>13, Zenon
  <2>3. bh'[x] = Link(m, b)[x]
    BY <1>13
  <2> HIDE DEF last, b
  <2>4. QED
    BY <1>14, <2>1, <2>2, <2>3 DEF HeadIs
<1>16. QED
  BY <1>1, <1>15, Zenon DEF missing
-----------------------------------------------------------------------------
(* Who uses a buffer: between get_hash_table and the return of bread, in   *)
(* brelse, or as the one who has taken it out of the lists in getblk.      *)
RoleOf(p, x) ==
  IF p \in {"hashwait", "got", "readio"} THEN "use"
  ELSE IF p = "release" THEN "release"
  ELSE IF p \in {"sync", "syncio", "assign"} /\ x # NoBlock THEN "own"
  ELSE "none"
Role(t) == RoleOf(pc[t], want[t])
Owns(t, b) == Role(t) = "own" /\ cur[t] = b

(* A buffer in use has the right block and is in the lists ...             *)
UseInv ==
  \A t \in Tasks :
    /\ \A h \in held[t] : bh[h[2]].block = h[1] /\ bh[h[2]].linked
    /\ Role(t) = "use" => bh[cur[t]].block = want[t]
    /\ Role(t) \in {"use", "release"} => bh[cur[t]].linked

(* ... and one that is not has been taken out by exactly one task.         *)
OwnInv ==
  /\ \A t \in Tasks : Role(t) = "own" => ~ bh[cur[t]].linked
  /\ \A t, u \in Tasks, b \in Buffers : Owns(t, b) /\ Owns(u, b) => t = u
  /\ \A b \in Buffers : ~ bh[b].linked => \E t \in Tasks : Owns(t, b)

UniqueInv ==
  \A b, c \in Linked : bh[b].block = bh[c].block /\ bh[b].block # NoBlock => b = c

Counters(b) == {t \in Tasks : CountedBy(t, b)}
Holders(b) == {t \in Tasks : \E x \in Blocks : <<x, b>> \in held[t]}

TypeInv == HeadInv /\ RestInv /\ LocalInv
CacheInv == UseInv /\ OwnInv /\ CountExact /\ UniqueInv /\ FreeListIsRing

(* What a step does to the lists and to the count of one buffer.           *)
SameLists ==
  /\ free_list' = free_list
  /\ \A x \in Buffers :
       /\ bh'[x].block = bh[x].block /\ bh'[x].linked = bh[x].linked
       /\ bh'[x].next_free = bh[x].next_free /\ bh'[x].prev_free = bh[x].prev_free
SameCounts == \A x \in Buffers : bh'[x].count = bh[x].count
CountBecomes(b, k) ==
  \A x \in Buffers : bh'[x].count = IF x = b THEN k ELSE bh[x].count

(* A task is counted for a buffer where it has a role, before and after a  *)
(* step.                                                                   *)
LEMMA CountedRole ==
  ASSUME LocalInv, LocalInv', NEW t \in Tasks, NEW b \in Buffers
  PROVE  /\ CountedBy(t, b) <=> Role(t) # "none" /\ cur[t] = b
         /\ CountedBy(t, b)' <=> Role(t)' # "none" /\ cur'[t] = b
<1>1. b # NoBuffer
  BY BufferRange
<1>2. CallOK(pc[t], want[t], cur[t], idx[t], held[t])
  BY DEF LocalInv
<1>3. CallOK(pc'[t], want'[t], cur'[t], idx'[t], held'[t])
  BY DEF LocalInv
<1>4. CountedBy(t, b) <=> Role(t) # "none" /\ cur[t] = b
  BY <1>1, <1>2 DEF CallOK, CountedBy, Role, RoleOf
<1>5. CountedBy(t, b)' <=> Role(t)' # "none" /\ cur'[t] = b
  BY <1>1, <1>3 DEF CallOK, CountedBy, Role, RoleOf
<1>6. QED
  BY <1>4, <1>5

(* The locals of every task after a step of t.                             *)
LEMMA LocalsRead ==
  ASSUME LocalInv, NEW t \in Tasks, NEW p, NEW x, NEW c, NEW i, NEW H,
         LocalsBecome(t, p, x, c, i, H)
  PROVE  /\ Role(t)' = RoleOf(p, x) /\ want'[t] = x /\ cur'[t] = c /\ held'[t] = H
         /\ \A u \in Tasks \ {t} :
              /\ Role(u)' = Role(u) /\ want'[u] = want[u] /\ cur'[u] = cur[u]
              /\ held'[u] = held[u]
<1>1. pc'[t] = p /\ want'[t] = x /\ cur'[t] = c /\ held'[t] = H
  BY DEF LocalInv, LocalsBecome
<1>2. ASSUME NEW u \in Tasks \ {t}
      PROVE  pc'[u] = pc[u] /\ want'[u] = want[u] /\ cur'[u] = cur[u] /\ held'[u] = held[u]
  BY DEF LocalInv, LocalsBecome
<1>3. QED
  BY <1>1, <1>2 DEF Role

(* Adding a task to a set of tasks and taking one out.                     *)
LEMMA Counting ==
  ASSUME NEW S \in SUBSET Tasks, NEW t \in Tasks
  PROVE  /\ Cardinality(S) \in Nat
         /\ Cardinality(S) = 0 <=> S = {}
         /\ t \notin S => Cardinality(S \cup {t}) = Cardinality(S) + 1
         /\ t \in S => Cardinality(S \ {t}) = Cardinality(S) - 1
<1>1. IsFiniteSet(S)
  BY CacheAssumption, FS_Subset
<1>2. QED
  BY <1>1, FS_CardinalityType, FS_EmptySet, FS_AddElement, FS_RemoveElement

(* The lists stay right where they stay as they are.                       *)
LEMMA ListsKept ==
  ASSUME SameLists, UniqueInv, FreeListIsRing
  PROVE  UniqueInv' /\ FreeListIsRing' /\ Linked' = Linked
<1>1. Linked' = Linked
  BY DEF SameLists, Linked
<1>2. UniqueInv'
  BY <1>1 DEF UniqueInv, SameLists, Linked
<1>3. ASSUME NEW b \in Linked
      PROVE  /\ bh'[b].next_free \in Linked /\ bh'[bh'[b].next_free].prev_free = b
             /\ bh'[b].prev_free \in Linked /\ bh'[bh'[b].prev_free].next_free = b
  BY <1>3 DEF FreeListIsRing, SameLists, Linked
<1>4. ASSUME NEW S \in SUBSET Linked, S # {}, \A b \in S : bh'[b].next_free \in S
      PROVE  S = Linked
  BY <1>4 DEF FreeListIsRing, SameLists, Linked
<1>5. free_list' \in Linked
  BY DEF FreeListIsRing, SameLists
<1>6. QED
  BY <1>1, <1>2, <1>3, <1>4, <1>5 DEF FreeListIsRing
(* Whoever has a role has a buffer, and holders hold buffers.              *)
LEMMA RoleBuffer ==
  ASSUME LocalInv, NEW t \in Tasks
  PROVE  /\ Role(t) \in {"use", "release", "own", "none"}
         /\ Role(t) # "none" => cur[t] \in Buffers
         /\ Role(t) \in {"use", "own"} => want[t] \in Blocks
         /\ \A h \in held[t] : h[1] \in Blocks /\ h[2] \in Buffers /\ h = <<h[1], h[2]>>
<1>1. CallOK(pc[t], want[t], cur[t], idx[t], held[t])
  BY DEF LocalInv
<1>2. Role(t) \in {"use", "release", "own", "none"}
  BY DEF Role, RoleOf
<1>3. Role(t) # "none" => cur[t] \in Buffers
  BY <1>1 DEF Role, RoleOf, CallOK
<1>4. Role(t) \in {"use", "own"} => want[t] \in Blocks
  BY <1>1 DEF Role, RoleOf, CallOK
<1>5. held[t] \in SUBSET (Blocks \X Buffers)
  BY <1>1 DEF CallOK
<1>6. QED
  BY <1>2, <1>3, <1>4, <1>5

(* The counts stay right where users and counts stay as they are.          *)
LEMMA CountsKept ==
  ASSUME CountExact, NEW b \in Buffers,
         bh'[b].count = bh[b].count, Counters(b)' = Counters(b), Holders(b)' = Holders(b)
  PROVE  bh'[b].count = Cardinality(Counters(b)') + Cardinality(Holders(b)')
<1>1. bh[b].count = Cardinality(Counters(b)) + Cardinality(Holders(b))
  BY DEF CountExact, Counters, Holders
<1>2. QED
  BY <1>1, Zenon

(* A quiet step changes neither the lists nor the users of any buffer.     *)
RoleKept(u) ==
  /\ Role(u)' = Role(u) /\ held'[u] = held[u]
  /\ Role(u) # "none" => cur'[u] = cur[u] /\ want'[u] = want[u]
Quiet == SameLists /\ SameCounts /\ \A u \in Tasks : RoleKept(u)

(* A quiet step changes nothing that the invariant of the cache is about. *)
LEMMA QuietStep ==
  ASSUME LocalInv, LocalInv', CacheInv, Quiet
  PROVE  CacheInv'
<1>1. UniqueInv' /\ FreeListIsRing'
  BY ListsKept DEF CacheInv, Quiet
<1>2. UseInv'
  <2> SUFFICES ASSUME NEW t \in Tasks
               PROVE  /\ \A h \in held'[t] : bh'[h[2]].block = h[1] /\ bh'[h[2]].linked
                      /\ Role(t)' = "use" => bh'[cur'[t]].block = want'[t]
                      /\ Role(t)' \in {"use", "release"} => bh'[cur'[t]].linked
    BY DEF UseInv
  <2>1. RoleKept(t) /\ SameLists
    BY DEF Quiet
  <2>2. \A h \in held[t] : h[2] \in Buffers
    BY RoleBuffer
  <2>3. Role(t) # "none" => cur[t] \in Buffers
    BY RoleBuffer
  <2>4. \A h \in held'[t] : bh'[h[2]].block = h[1] /\ bh'[h[2]].linked
    BY <2>1, <2>2 DEF CacheInv, UseInv, RoleKept, SameLists
  <2>5. CASE Role(t) = "none"
    BY <2>1, <2>4, <2>5 DEF RoleKept
  <2>6. CASE Role(t) # "none"
    BY <2>1, <2>3, <2>4, <2>6 DEF CacheInv, UseInv, RoleKept, SameLists
  <2>7. QED
    BY <2>5, <2>6
<1>3. OwnInv'
  <2>1. \A t \in Tasks, b \in Buffers : Owns(t, b)' <=> Owns(t, b)
    BY DEF Quiet, RoleKept, Owns
  <2>2. \A b \in Buffers : bh'[b].linked = bh[b].linked
    BY DEF Quiet, SameLists
  <2>3. \A t \in Tasks : Role(t)' = "own" => ~ bh'[cur'[t]].linked
    BY <2>2, RoleBuffer DEF CacheInv, OwnInv, Quiet, RoleKept
  <2>4. QED
    BY <2>1, <2>2, <2>3 DEF CacheInv, OwnInv
<1>4. CountExact'
  <2> SUFFICES ASSUME NEW b \in Buffers
               PROVE  bh'[b].count = Cardinality(Counters(b)') + Cardinality(Holders(b)')
    BY DEF CountExact, Counters, Holders
  <2>1. \A t \in Tasks : CountedBy(t, b)' <=> CountedBy(t, b)
    BY CountedRole DEF Quiet, RoleKept
  <2>2. Counters(b)' = Counters(b)
    BY <2>1 DEF Counters
  <2>3. Holders(b)' = Holders(b)
    BY DEF Quiet, RoleKept, Holders
  <2>4. bh'[b].count = bh[b].count
    BY DEF Quiet, SameCounts
  <2>5. QED
    BY <2>2, <2>3, <2>4, CountsKept DEF CacheInv
<1>5. QED
  BY <1>1, <1>2, <1>3, <1>4 DEF CacheInv
(* A step of t that leaves t the role it had.                              *)
LEMMA QuietMove ==
  ASSUME LocalInv, NEW t \in Tasks, NEW p, NEW x, NEW c, NEW i,
         LocalsBecome(t, p, x, c, i, held[t]),
         RoleOf(p, x) = Role(t), Role(t) # "none" => c = cur[t] /\ x = want[t]
  PROVE  \A u \in Tasks : RoleKept(u)
<1>1. /\ Role(t)' = RoleOf(p, x) /\ want'[t] = x /\ cur'[t] = c /\ held'[t] = held[t]
      /\ \A u \in Tasks \ {t} :
           /\ Role(u)' = Role(u) /\ want'[u] = want[u] /\ cur'[u] = cur[u]
           /\ held'[u] = held[u]
  BY LocalsRead
<1>2. QED
  BY <1>1 DEF RoleKept

(* The steps that are quiet.                                               *)
LEMMA QuietCalls ==
  ASSUME TypeInv, NEW t \in Tasks,
         \/ WaitOnBuffer(t) \/ FindMiss(t) \/ HashReturn(t) \/ ScanNext(t)
         \/ ScanFree(t) \/ BreadStart(t) \/ SyncNext(t) \/ SyncWrite(t)
         \/ SyncDone(t) \/ Resume(t) \/ SysSync(t) \/ \E x \in Blocks : Bread(t, x)
  PROVE  \A u \in Tasks : RoleKept(u)
<1> USE DEF Go, Point, At, Unlocked
<1>a. CallOK(pc[t], want[t], cur[t], idx[t], held[t])
  BY DEF TypeInv, LocalInv
<1>b. LocalInv
  BY DEF TypeInv
<1>1. CASE WaitOnBuffer(t)
  <2>1. LocalsBecome(t, pc[t], want[t], cur[t], idx[t], held[t])
    BY <1>1, <1>b DEF WaitOnBuffer, SleepIn, LocalsBecome, LocalInv
  <2>2. QED
    BY <1>b, <2>1, QuietMove DEF Role
<1>2. CASE FindMiss(t)
  <2>1. LocalsBecome(t, "scan", want[t], free_list, idx[t], held[t])
    BY <1>2, <1>b DEF FindMiss, LocalsBecome, LocalInv
  <2>2. RoleOf("scan", want[t]) = Role(t) /\ Role(t) = "none"
    BY <1>2 DEF FindMiss, Role, RoleOf
  <2>3. QED
    BY <1>b, <2>1, <2>2, QuietMove
<1>3. CASE HashReturn(t)
  <2>1. LocalsBecome(t, "got", want[t], cur[t], idx[t], held[t])
    BY <1>3, <1>b DEF HashReturn, LocalsBecome, LocalInv
  <2>2. RoleOf("got", want[t]) = Role(t)
    BY <1>3 DEF HashReturn, Role, RoleOf
  <2>3. QED
    BY <1>b, <2>1, <2>2, QuietMove
<1>4. CASE ScanFree(t)
  <2>1. LocalsBecome(t, "scanwait", want[t], cur[t], idx[t], held[t])
    BY <1>4, <1>b DEF ScanFree, LocalsBecome, LocalInv
  <2>2. RoleOf("scanwait", want[t]) = Role(t)
    BY <1>4 DEF ScanFree, Role, RoleOf
  <2>3. QED
    BY <1>b, <2>1, <2>2, QuietMove
<1>5. CASE ScanNext(t)
  <2> DEFINE next == bh[cur[t]].next_free
  <2>1. \/ LocalsBecome(t, "bufwait", want[t], NoBuffer, idx[t], held[t])
        \/ LocalsBecome(t, "scan", want[t], next, idx[t], held[t])
    BY <1>5, <1>b DEF ScanNext, SleepIn, LocalsBecome, LocalInv
  <2>2. /\ RoleOf("scan", want[t]) = Role(t) /\ RoleOf("bufwait", want[t]) = Role(t)
        /\ Role(t) = "none"
    BY <1>5 DEF ScanNext, Role, RoleOf
  <2>3. QED
    BY <1>b, <2>1, <2>2, QuietMove
<1>6. CASE BreadStart(t)
  <2>1. LocalsBecome(t, "readio", want[t], cur[t], idx[t], held[t])
    BY <1>6, <1>b DEF BreadStart, StartIo, LocalsBecome, LocalInv
  <2>2. RoleOf("readio", want[t]) = Role(t)
    BY <1>6 DEF BreadStart, Role, RoleOf
  <2>3. QED
    BY <1>b, <2>1, <2>2, QuietMove
<1>7. CASE SyncNext(t)
  <2>1. LocalsBecome(t, "sync", want[t], cur[t], idx[t] + 1, held[t])
    BY <1>7, <1>b DEF SyncNext, LocalsBecome, LocalInv
  <2>2. RoleOf("sync", want[t]) = Role(t)
    BY <1>7 DEF SyncNext, Role, RoleOf
  <2>3. QED
    BY <1>b, <2>1, <2>2, QuietMove
<1>8. CASE SyncWrite(t)
  <2>1. LocalsBecome(t, "syncio", want[t], cur[t], idx[t], held[t])
    BY <1>8, <1>b DEF SyncWrite, StartIo, LocalsBecome, LocalInv
  <2>2. RoleOf("syncio", want[t]) = Role(t)
    BY <1>8 DEF SyncWrite, Role, RoleOf
  <2>3. QED
    BY <1>b, <2>1, <2>2, QuietMove
<1>9. CASE SyncDone(t) /\ want[t] = NoBlock
  <2>1. LocalsBecome(t, "user", NoBlock, NoBuffer, 0, held[t])
    BY <1>9, <1>b DEF SyncDone, BackToCaller, LocalsBecome, LocalInv
  <2>2. RoleOf("user", NoBlock) = Role(t) /\ Role(t) = "none"
    BY <1>9 DEF SyncDone, Role, RoleOf
  <2>3. QED
    BY <1>b, <2>1, <2>2, QuietMove
<1>10. CASE SyncDone(t) /\ want[t] # NoBlock
  <2>1. LocalsBecome(t, "assign", want[t], cur[t], 0, held[t])
    BY <1>10, <1>b DEF SyncDone, LocalsBecome, LocalInv
  <2>2. RoleOf("assign", want[t]) = Role(t)
    BY <1>10 DEF SyncDone, Role, RoleOf
  <2>3. QED
    BY <1>b, <2>1, <2>2, QuietMove
<1>11. CASE Resume(t)
  <2> DEFINE p == IF pc[t] = "bufwait" THEN "find" ELSE pc[t]
  <2>1. LocalsBecome(t, p, want[t], cur[t], idx[t], held[t])
    BY <1>11, <1>b DEF Resume, LocalsBecome, LocalInv
  <2>2. RoleOf(p, want[t]) = Role(t)
    BY <1>11 DEF Role, RoleOf
  <2>3. QED
    BY <1>b, <2>1, <2>2, QuietMove
<1>12. CASE SysSync(t)
  <2>1. LocalsBecome(t, "sync", want[t], cur[t], 1, held[t])
    BY <1>12, <1>b DEF SysSync, LocalsBecome, LocalInv
  <2>2. RoleOf("sync", want[t]) = Role(t)
    BY <1>12, <1>a DEF SysSync, InCaller, CallOK, Role, RoleOf
  <2>3. QED
    BY <1>b, <2>1, <2>2, QuietMove
<1>13. ASSUME NEW x \in Blocks, Bread(t, x)
       PROVE  \A u \in Tasks : RoleKept(u)
  <2>1. LocalsBecome(t, "find", x, cur[t], idx[t], held[t])
    BY <1>13, <1>b DEF Bread, LocalsBecome, LocalInv
  <2>2. RoleOf("find", x) = Role(t) /\ Role(t) = "none"
    BY <1>13 DEF Bread, InCaller, Role, RoleOf
  <2>3. QED
    BY <1>b, <2>1, <2>2, QuietMove
<1>14. QED
  BY <1>1, <1>2, <1>3, <1>4, <1>5, <1>6, <1>7, <1>8, <1>9, <1>10, <1>11, <1>12, <1>13

(* Assigning to the flags of a head leaves the lists and the counts.       *)
LEMMA FlagsOnly ==
  ASSUME HeadInv, free_list' = free_list, NEW b \in Buffers,
         \/ bh' = bh
         \/ bh' = [bh EXCEPT ![b].lock = TRUE]
         \/ bh' = [bh EXCEPT ![b].dirt = TRUE]
         \/ bh' = [bh EXCEPT ![b].uptodate = TRUE, ![b].dirt = FALSE, ![b].lock = FALSE]
         \/ bh' = [bh EXCEPT ![b].uptodate = FALSE, ![b].lock = FALSE]
  PROVE  SameLists /\ SameCounts
BY DEF HeadInv, AnyCount, SameLists, SameCounts
(* So most steps are quiet.                                                *)
LEMMA QuietNext ==
  ASSUME TypeInv, [Next]_vars
  PROVE  \/ Quiet
         \/ \E t \in Tasks :
              \/ FindHit(t) \/ Take(t) \/ Assign(t) \/ BreadReturn(t)
              \/ BreadFail(t) \/ BrelseReturn(t)
              \/ \E h \in held[t] : Brelse(t, h)
<1>b. HeadInv /\ LocalInv
  BY DEF TypeInv
<1>a. ASSUME UNCHANGED <<pc, want, cur, idx, held>>
      PROVE  \A u \in Tasks : RoleKept(u)
  BY <1>a DEF RoleKept, Role
<1>1. ASSUME NEW t \in Tasks,
             \/ WaitOnBuffer(t) \/ FindMiss(t) \/ HashReturn(t) \/ ScanNext(t)
             \/ ScanFree(t) \/ SyncNext(t)
             \/ SyncDone(t) \/ Resume(t) \/ SysSync(t) \/ \E x \in Blocks : Bread(t, x)
      PROVE  Quiet
  <2>1. \A u \in Tasks : RoleKept(u)
    BY <1>1, QuietCalls
  <2>2. UNCHANGED <<bh, free_list>>
    BY <1>1 DEF WaitOnBuffer, FindMiss, HashReturn, ScanNext,
                ScanFree, SyncNext, SyncDone, Resume, SysSync, Bread
  <2>3. SameLists /\ SameCounts
    BY <2>2 DEF SameLists, SameCounts
  <2>4. QED
    BY <2>1, <2>3 DEF Quiet
<1>2. ASSUME NEW t \in Tasks, BreadStart(t)
      PROVE  Quiet
  <2>1. \A u \in Tasks : RoleKept(u)
    BY <1>2, QuietCalls
  <2>2. /\ cur[t] \in Buffers
        /\ bh' = [bh EXCEPT ![cur[t]].lock = TRUE] /\ free_list' = free_list
    BY <1>2, <1>b DEF BreadStart, StartIo, At, LocalInv, CallOK
  <2>3. SameLists /\ SameCounts
    BY <1>b, <2>2, FlagsOnly
  <2>4. QED
    BY <2>1, <2>3 DEF Quiet
<1>3. ASSUME NEW t \in Tasks, SyncWrite(t)
      PROVE  Quiet
  <2>1. \A u \in Tasks : RoleKept(u)
    BY <1>3, QuietCalls
  <2>2. /\ idx[t] \in Buffers
        /\ bh' = [bh EXCEPT ![idx[t]].lock = TRUE] /\ free_list' = free_list
    BY <1>3 DEF SyncWrite, StartIo
  <2>3. SameLists /\ SameCounts
    BY <1>b, <2>2, FlagsOnly
  <2>4. QED
    BY <2>1, <2>3 DEF Quiet
<1>4. ASSUME NEW t \in Tasks, NEW h \in held[t], Modify(t, h)
      PROVE  Quiet
  <2>1. \A u \in Tasks : RoleKept(u)
    BY <1>4, <1>a DEF Modify
  <2>2. /\ h[2] \in Buffers
        /\ bh' = [bh EXCEPT ![h[2]].dirt = TRUE] /\ free_list' = free_list
    BY <1>4, <1>b, RoleBuffer DEF Modify
  <2>3. SameLists /\ SameCounts
    BY <1>b, <2>2, FlagsOnly
  <2>4. QED
    BY <2>1, <2>3 DEF Quiet
<1>5. ASSUME NEW b \in Buffers, Transfer(b) \/ IoDone(b) \/ IoError(b)
      PROVE  Quiet
  <2>1. \A u \in Tasks : RoleKept(u)
    BY <1>5, <1>a, SMTT(30) DEF Transfer, IoDone, IoError
  <2>2. SameLists /\ SameCounts
    BY <1>5, <1>b, FlagsOnly DEF Transfer, IoDone, IoError
  <2>3. QED
    BY <2>1, <2>2 DEF Quiet
<1>6. ASSUME UNCHANGED vars
      PROVE  Quiet
  BY <1>6, <1>a DEF vars, Quiet, SameLists, SameCounts
<1>7. QED
  BY <1>1, <1>2, <1>3, <1>4, <1>5, <1>6 DEF Next, CallStep, CallerStep, Disk
-----------------------------------------------------------------------------
(* The steps that count a buffer once more or once less: b is the buffer,  *)
(* t the task.  Each is given by the new role and buffer of t, what t then *)
(* holds, and the count.                                                   *)
Moves(t, role, x, c, H) ==
  /\ Role(t)' = role /\ want'[t] = x /\ cur'[t] = c /\ held'[t] = H
  /\ \A u \in Tasks \ {t} : RoleKept(u)

(* What an assignment to the locals of t means for the use of buffers. *)
LEMMA MovesFrom ==
  ASSUME LocalInv, NEW t \in Tasks, NEW p, NEW x, NEW c, NEW i, NEW H,
         LocalsBecome(t, p, x, c, i, H)
  PROVE  Moves(t, RoleOf(p, x), x, c, H)
BY LocalsRead DEF Moves, RoleKept

(* Whether one who holds H holds buffer b.                                 *)
Has(H, b) == \E y \in Blocks : <<y, b>> \in H

(* The uses of buffers by the tasks other than t.                          *)
LEMMA OthersKept ==
  ASSUME LocalInv, LocalInv', NEW t \in Tasks, NEW role, NEW x, NEW c, NEW H,
         Moves(t, role, x, c, H), NEW b \in Buffers
  PROVE  /\ Counters(b)' \ {t} = Counters(b) \ {t}
         /\ Holders(b)' \ {t} = Holders(b) \ {t}
         /\ t \in Counters(b) <=> Role(t) # "none" /\ cur[t] = b
         /\ t \in Counters(b)' <=> role # "none" /\ c = b
         /\ t \in Holders(b) <=> Has(held[t], b)
         /\ t \in Holders(b)' <=> Has(H, b)
<1>1. ASSUME NEW u \in Tasks
      PROVE  /\ CountedBy(u, b) <=> Role(u) # "none" /\ cur[u] = b
             /\ CountedBy(u, b)' <=> Role(u)' # "none" /\ cur'[u] = b
  BY CountedRole
<1>2. ASSUME NEW u \in Tasks \ {t}
      PROVE  CountedBy(u, b)' <=> CountedBy(u, b)
  BY <1>1, <1>2 DEF Moves, RoleKept
<1>3. Counters(b)' \ {t} = Counters(b) \ {t}
  BY <1>2 DEF Counters
<1>4. Holders(b)' \ {t} = Holders(b) \ {t}
  BY DEF Moves, RoleKept, Holders
<1>5. /\ t \in Counters(b) <=> Role(t) # "none" /\ cur[t] = b
      /\ t \in Counters(b)' <=> role # "none" /\ c = b
  BY <1>1 DEF Counters, Moves
<1>6. /\ t \in Holders(b) <=> Has(held[t], b)
      /\ t \in Holders(b)' <=> Has(H, b)
  BY DEF Holders, Moves, Has
<1>7. QED
  BY <1>3, <1>4, <1>5, <1>6
(* b_count is right after the step when it has changed by what t changed.  *)
One(p) == IF p THEN 1 ELSE 0

(* A set of tasks is counted with or without one of them. *)
LEMMA SizeWith ==
  ASSUME NEW S \in SUBSET Tasks, NEW t \in Tasks
  PROVE  Cardinality(S) = Cardinality(S \ {t}) + One(t \in S) /\ Cardinality(S \ {t}) \in Nat
<1>1. CASE t \in S
  <2>1. Cardinality(S \ {t}) = Cardinality(S) - 1 /\ Cardinality(S) \in Nat
    BY <1>1, Counting
  <2>2. S \ {t} \in SUBSET Tasks
    OBVIOUS
  <2>3. Cardinality(S \ {t}) \in Nat
    BY <2>2, Counting
  <2>4. QED
    BY <1>1, <2>1, <2>3 DEF One
<1>2. CASE t \notin S
  <2>1. S \ {t} = S
    BY <1>2
  <2>2. Cardinality(S) \in Nat
    BY Counting
  <2>3. QED
    BY <1>2, <2>1, <2>2 DEF One
<1>3. QED
  BY <1>1, <1>2

(* b_count is right after a step that changes it as much as t's use of it. *)
LEMMA CountMoved ==
  ASSUME CountExact, NEW b \in Buffers, NEW t \in Tasks,
         Counters(b)' \ {t} = Counters(b) \ {t},
         Holders(b)' \ {t} = Holders(b) \ {t},
         bh'[b].count + One(t \in Counters(b)) + One(t \in Holders(b))
           = bh[b].count + One(t \in Counters(b)') + One(t \in Holders(b)'),
         bh'[b].count \in Int
  PROVE  bh'[b].count = Cardinality(Counters(b)') + Cardinality(Holders(b)')
<1> DEFINE C == Counters(b)
           D == Counters(b)'
           H == Holders(b)
           I == Holders(b)'
<1>1. bh[b].count = Cardinality(C) + Cardinality(H)
  BY DEF CountExact, Counters, Holders
<1>2. /\ C \in SUBSET Tasks /\ D \in SUBSET Tasks
      /\ H \in SUBSET Tasks /\ I \in SUBSET Tasks
  BY DEF Counters, Holders
<1>3. /\ C \ {t} = D \ {t} /\ H \ {t} = I \ {t}
      /\ bh'[b].count + One(t \in C) + One(t \in H)
           = bh[b].count + One(t \in D) + One(t \in I)
  OBVIOUS
<1> HIDE DEF C, D, H, I
<1>4. /\ Cardinality(C) = Cardinality(C \ {t}) + One(t \in C)
      /\ Cardinality(D) = Cardinality(D \ {t}) + One(t \in D)
      /\ Cardinality(H) = Cardinality(H \ {t}) + One(t \in H)
      /\ Cardinality(I) = Cardinality(I \ {t}) + One(t \in I)
      /\ Cardinality(C \ {t}) \in Nat /\ Cardinality(H \ {t}) \in Nat
  BY <1>2, SizeWith
<1>5. bh'[b].count = Cardinality(D) + Cardinality(I)
  <2> DEFINE m == Cardinality(C \ {t})
             n == Cardinality(H \ {t})
             c == One(t \in C)
             d == One(t \in D)
             h == One(t \in H)
             i == One(t \in I)
             old == bh[b].count
             new == bh'[b].count
  <2>1. c \in Int /\ d \in Int /\ h \in Int /\ i \in Int
    BY DEF One
  <2>2. old = (m + c) + (n + h)
    BY <1>1, <1>4
  <2>3. Cardinality(D) = m + d /\ Cardinality(I) = n + i
    BY <1>3, <1>4
  <2>4. m \in Nat /\ n \in Nat /\ new \in Int
    BY <1>4
  <2>5. new + c + h = old + d + i
    BY <1>3
  <2> HIDE DEF m, n, c, d, h, i, old, new
  <2>6. new = (m + d) + (n + i)
    BY <2>1, <2>2, <2>4, <2>5
  <2>7. QED
    BY <2>3, <2>6 DEF new
<1>6. QED
  BY <1>5 DEF D, I

(* What the uses ask for after a step of t that leaves the lists: only the *)
(* new role and what t holds must be looked at.                            *)
LEMMA SharedStep ==
  ASSUME LocalInv, LocalInv', CacheInv, SameLists, NEW t \in Tasks,
         NEW role, NEW x, NEW c, NEW H, Moves(t, role, x, c, H),
         Role(t) # "own", role # "own",
         \A h \in H : h[2] \in Buffers /\ bh[h[2]].block = h[1] /\ bh[h[2]].linked,
         role = "use" => bh[c].block = x,
         role \in {"use", "release"} => c \in Buffers /\ bh[c].linked
  PROVE  UseInv' /\ OwnInv' /\ UniqueInv' /\ FreeListIsRing'
<1>1. UniqueInv' /\ FreeListIsRing'
  BY ListsKept DEF CacheInv
<1>2. UseInv'
  <2> SUFFICES ASSUME NEW u \in Tasks
               PROVE  /\ \A h \in held'[u] : bh'[h[2]].block = h[1] /\ bh'[h[2]].linked
                      /\ Role(u)' = "use" => bh'[cur'[u]].block = want'[u]
                      /\ Role(u)' \in {"use", "release"} => bh'[cur'[u]].linked
    BY DEF UseInv
  <2>1. CASE u = t
    <3>1. Role(t)' = role /\ want'[t] = x /\ cur'[t] = c /\ held'[t] = H
      BY DEF Moves
    <3>2. QED
      BY <2>1, <3>1 DEF SameLists
  <2>2. CASE u # t
    <3>1. RoleKept(u)
      BY <2>2 DEF Moves
    <3>2. \A h \in held[u] : h[2] \in Buffers
      BY RoleBuffer
    <3>3. Role(u) # "none" => cur[u] \in Buffers
      BY RoleBuffer
    <3>4. \A h \in held'[u] : bh'[h[2]].block = h[1] /\ bh'[h[2]].linked
      BY <3>1, <3>2 DEF CacheInv, UseInv, RoleKept, SameLists
    <3>5. CASE Role(u) = "none"
      BY <3>1, <3>4, <3>5 DEF RoleKept
    <3>6. CASE Role(u) # "none"
      BY <3>1, <3>3, <3>4, <3>6 DEF CacheInv, UseInv, RoleKept, SameLists
    <3>7. QED
      BY <3>5, <3>6
  <2>3. QED
    BY <2>1, <2>2
<1>3. OwnInv'
  <2>1. ASSUME NEW u \in Tasks
        PROVE  /\ Role(u)' = "own" <=> Role(u) = "own"
               /\ Role(u) = "own" => cur'[u] = cur[u] /\ u # t
    BY <2>1 DEF Moves, RoleKept
  <2>2. \A u \in Tasks, b \in Buffers : Owns(u, b)' <=> Owns(u, b)
    BY <2>1 DEF Owns
  <2>3. \A b \in Buffers : bh'[b].linked = bh[b].linked
    BY DEF SameLists
  <2>4. \A u \in Tasks : Role(u)' = "own" => ~ bh'[cur'[u]].linked
    BY <2>1, <2>3, RoleBuffer DEF CacheInv, OwnInv
  <2>5. QED
    BY <2>2, <2>3, <2>4 DEF CacheInv, OwnInv
<1>4. QED
  BY <1>1, <1>2, <1>3
(* So b_count stays exact when it changes by what t changes.               *)
LEMMA CountStep ==
  ASSUME LocalInv, LocalInv', HeadInv', CacheInv, NEW t \in Tasks,
         NEW role, NEW x, NEW c, NEW H, Moves(t, role, x, c, H),
         \A b \in Buffers :
           bh'[b].count + One(Role(t) # "none" /\ cur[t] = b) + One(Has(held[t], b))
             = bh[b].count + One(role # "none" /\ c = b) + One(Has(H, b))
  PROVE  CountExact'
<1> SUFFICES ASSUME NEW b \in Buffers
             PROVE  bh'[b].count = Cardinality(Counters(b)') + Cardinality(Holders(b)')
  BY DEF CountExact, Counters, Holders
<1>1. /\ Counters(b)' \ {t} = Counters(b) \ {t}
      /\ Holders(b)' \ {t} = Holders(b) \ {t}
  BY OthersKept, Zenon
<1>2. /\ One(t \in Counters(b)) = One(Role(t) # "none" /\ cur[t] = b)
      /\ One(t \in Counters(b)') = One(role # "none" /\ c = b)
      /\ One(t \in Holders(b)) = One(Has(held[t], b))
      /\ One(t \in Holders(b)') = One(Has(H, b))
  <2>1. /\ t \in Counters(b) <=> Role(t) # "none" /\ cur[t] = b
        /\ t \in Counters(b)' <=> role # "none" /\ c = b
        /\ t \in Holders(b) <=> Has(held[t], b)
        /\ t \in Holders(b)' <=> Has(H, b)
    BY OthersKept, Zenon
  <2>2. QED
    BY <2>1 DEF One
<1>3. bh'[b].count \in Int
  BY DEF HeadInv, AnyCount
<1>4. bh'[b].count + One(t \in Counters(b)) + One(t \in Holders(b))
        = bh[b].count + One(t \in Counters(b)') + One(t \in Holders(b)')
  BY <1>2, Zenon
<1>5. CountExact
  BY DEF CacheInv
<1>6. QED
  BY <1>1, <1>3, <1>4, <1>5, CountMoved, Zenon

(* A step that assigns b_count of one buffer leaves the lists. *)
LEMMA CountChange ==
  ASSUME HeadInv, free_list' = free_list, NEW b \in Buffers, NEW k \in Int,
         bh' = [bh EXCEPT ![b].count = k]
  PROVE  SameLists /\ CountBecomes(b, k)
BY DEF HeadInv, AnyCount, SameLists, CountBecomes

(* get_hash_table counts the buffer that it has found.                     *)
LEMMA FindHitStep ==
  ASSUME TypeInv, TypeInv', CacheInv, NEW t \in Tasks, FindHit(t)
  PROVE  CacheInv'
<1>a. LocalInv /\ LocalInv' /\ HeadInv /\ HeadInv'
  BY DEF TypeInv
<1>1. PICK b \in Found(want[t]) : bh' = [bh EXCEPT ![b].count = @ + 1] /\ Point(t, b)
  BY DEF FindHit
<1> DEFINE k == bh[b].count + 1
<1>2. b \in Buffers /\ bh[b].linked /\ bh[b].block = want[t]
  BY <1>1 DEF Found
<1>3. LocalsBecome(t, "hashwait", want[t], b, idx[t], held[t])
  BY <1>1, <1>a DEF FindHit, Point, Go, LocalsBecome, LocalInv
<1>4. Moves(t, "use", want[t], b, held[t])
  <2>1. RoleOf("hashwait", want[t]) = "use"
    BY DEF RoleOf
  <2>2. QED
    BY <1>3, <1>a, <2>1, MovesFrom
<1>5. Role(t) = "none"
  BY DEF FindHit, At, Role, RoleOf
<1>6. k \in Int /\ bh[b].count \in Int
  BY <1>2, <1>a DEF HeadInv, AnyCount
<1>7. SameLists /\ CountBecomes(b, k)
  <2>1. bh' = [bh EXCEPT ![b].count = k] /\ free_list' = free_list
    BY <1>1 DEF FindHit
  <2>2. QED
    BY <1>a, <1>2, <1>6, <2>1, CountChange
<1>8. \A h \in held[t] : h[2] \in Buffers /\ bh[h[2]].block = h[1] /\ bh[h[2]].linked
  BY <1>a, RoleBuffer DEF CacheInv, UseInv
<1>9. UseInv' /\ OwnInv' /\ UniqueInv' /\ FreeListIsRing'
  BY <1>2, <1>4, <1>5, <1>7, <1>8, <1>a, SharedStep
<1>10. CountExact'
  <2>1. ASSUME NEW y \in Buffers
        PROVE  bh'[y].count + One(Role(t) # "none" /\ cur[t] = y) + One(Has(held[t], y))
                 = bh[y].count + One("use" # "none" /\ b = y) + One(Has(held[t], y))
    <3> DEFINE o == One(Has(held[t], y))
    <3>1. o \in Int
      BY DEF One
    <3>2. One(Role(t) # "none" /\ cur[t] = y) = 0
      BY <1>5 DEF One
    <3>3. One("use" # "none" /\ b = y) = IF y = b THEN 1 ELSE 0
      BY DEF One
    <3>4. bh'[y].count = IF y = b THEN k ELSE bh[y].count
      BY <1>7 DEF CountBecomes
    <3>5. bh[y].count \in Int
      BY <1>a DEF HeadInv, AnyCount
    <3> HIDE DEF o
    <3>6. QED
      BY <1>6, <3>1, <3>2, <3>3, <3>4, <3>5
  <2>2. QED
    BY <1>4, <1>a, <2>1, CountStep
<1>11. QED
  BY <1>9, <1>10 DEF CacheInv
(* A task that gives back its buffer counts itself out.                    *)
LEMMA DropStep ==
  ASSUME TypeInv, TypeInv', CacheInv, NEW t \in Tasks, BreadFail(t) \/ BrelseReturn(t)
  PROVE  CacheInv'
<1>a. LocalInv /\ LocalInv' /\ HeadInv /\ HeadInv'
  BY DEF TypeInv
<1> DEFINE b == cur[t]
           k == bh[b].count - 1
<1>1. Role(t) \in {"use", "release"}
  BY DEF BreadFail, BrelseReturn, Unlocked, At, Role, RoleOf
<1>2. b \in Buffers
  BY <1>1, <1>a, RoleBuffer
<1>3. LocalsBecome(t, "user", NoBlock, NoBuffer, 0, held[t])
  BY <1>a DEF BreadFail, BrelseReturn, BackToCaller, Point, LocalsBecome, LocalInv
<1>4. Moves(t, "none", NoBlock, NoBuffer, held[t])
  <2>1. RoleOf("user", NoBlock) = "none"
    BY DEF RoleOf
  <2>2. QED
    BY <1>3, <1>a, <2>1, MovesFrom
<1>5. k \in Int /\ bh[b].count \in Int
  BY <1>2, <1>a DEF HeadInv, AnyCount
<1>6. SameLists /\ CountBecomes(b, k)
  <2>1. bh' = [bh EXCEPT ![b].count = k] /\ free_list' = free_list
    BY DEF BreadFail, BrelseReturn, Drop
  <2>2. QED
    BY <1>a, <1>2, <1>5, <2>1, CountChange
<1>7. \A h \in held[t] : h[2] \in Buffers /\ bh[h[2]].block = h[1] /\ bh[h[2]].linked
  BY <1>a, RoleBuffer DEF CacheInv, UseInv
<1>8. UseInv' /\ OwnInv' /\ UniqueInv' /\ FreeListIsRing'
  BY <1>1, <1>4, <1>6, <1>7, <1>a, SharedStep
<1>9. CountExact'
  <2>1. ASSUME NEW y \in Buffers
        PROVE  bh'[y].count + One(Role(t) # "none" /\ cur[t] = y) + One(Has(held[t], y))
                 = bh[y].count + One("none" # "none" /\ NoBuffer = y) + One(Has(held[t], y))
    <3> DEFINE o == One(Has(held[t], y))
    <3>1. o \in Int
      BY DEF One
    <3>2. One(Role(t) # "none" /\ cur[t] = y) = IF y = b THEN 1 ELSE 0
      BY <1>1 DEF One
    <3>3. One("none" # "none" /\ NoBuffer = y) = 0
      BY DEF One
    <3>4. bh'[y].count = IF y = b THEN k ELSE bh[y].count
      BY <1>6 DEF CountBecomes
    <3>5. bh[y].count \in Int
      BY <1>a DEF HeadInv, AnyCount
    <3> HIDE DEF o
    <3>6. QED
      BY <1>5, <3>1, <3>2, <3>3, <3>4, <3>5
  <2>2. QED
    BY <1>4, <1>a, <2>1, CountStep
<1>10. QED
  BY <1>8, <1>9 DEF CacheInv

(* The buffer of a bread that returns is counted for its holder from now.  *)
LEMMA BreadReturnStep ==
  ASSUME TypeInv, TypeInv', CacheInv, NEW t \in Tasks, BreadReturn(t)
  PROVE  CacheInv'
<1>a. LocalInv /\ LocalInv' /\ HeadInv /\ HeadInv'
  BY DEF TypeInv
<1> DEFINE b == cur[t]
           x == want[t]
           H == held[t] \cup {<<x, b>>}
<1>1. Role(t) = "use"
  BY DEF BreadReturn, Unlocked, At, Role, RoleOf
<1>2. b \in Buffers /\ x \in Blocks
  BY <1>1, <1>a, RoleBuffer
<1>3. LocalsBecome(t, "user", NoBlock, NoBuffer, 0, H)
  BY <1>a DEF BreadReturn, BackToCaller, Point, LocalsBecome, LocalInv
<1>4. Moves(t, "none", NoBlock, NoBuffer, H)
  <2>1. RoleOf("user", NoBlock) = "none"
    BY DEF RoleOf
  <2> HIDE DEF H
  <2>2. QED
    BY <1>3, <1>a, <2>1, MovesFrom
<1>5. SameLists /\ SameCounts
  BY DEF BreadReturn, SameLists, SameCounts
<1>6. bh[b].block = x /\ bh[b].linked
  BY <1>1 DEF CacheInv, UseInv
<1>7. \A h \in held[t] : h[2] \in Buffers /\ bh[h[2]].block = h[1] /\ bh[h[2]].linked
  BY <1>a, RoleBuffer DEF CacheInv, UseInv
<1>8. \A h \in H : h[2] \in Buffers /\ bh[h[2]].block = h[1] /\ bh[h[2]].linked
  BY <1>2, <1>6, <1>7
<1>9. ~ Has(held[t], b) /\ \A y \in Buffers : Has(H, y) <=> y = b \/ Has(held[t], y)
  <2>1. \A h \in held[t] : h[1] # x
    BY <1>a DEF LocalInv, CallOK
  <2>2. ASSUME NEW z \in Blocks, <<z, b>> \in held[t]
        PROVE  FALSE
    BY <1>6, <1>7, <2>1, <2>2
  <2>3. QED
    BY <1>2, <2>2 DEF Has
<1> HIDE DEF H
<1>10. UseInv' /\ OwnInv' /\ UniqueInv' /\ FreeListIsRing'
  BY <1>1, <1>4, <1>5, <1>8, <1>a, SharedStep
<1>11. CountExact'
  <2>1. ASSUME NEW y \in Buffers
        PROVE  bh'[y].count + One(Role(t) # "none" /\ cur[t] = y) + One(Has(held[t], y))
                 = bh[y].count + One("none" # "none" /\ NoBuffer = y) + One(Has(H, y))
    <3>1. bh'[y].count = bh[y].count /\ bh[y].count \in Int
      BY <1>5, <1>a DEF SameCounts, HeadInv, AnyCount
    <3>2. One(Role(t) # "none" /\ cur[t] = y) = IF y = b THEN 1 ELSE 0
      BY <1>1 DEF One
    <3>3. One("none" # "none" /\ NoBuffer = y) = 0
      BY DEF One
    <3>4. CASE y = b
      <4>1. One(Has(held[t], y)) = 0 /\ One(Has(H, y)) = 1
        BY <1>2, <1>9, <3>4 DEF One
      <4>2. QED
        BY <3>1, <3>2, <3>3, <3>4, <4>1
    <3>5. CASE y # b
      <4>1. One(Has(held[t], y)) = One(Has(H, y)) /\ One(Has(H, y)) \in Int
        BY <1>9, <3>5 DEF One
      <4>2. QED
        BY <3>1, <3>2, <3>3, <3>5, <4>1
    <3>6. QED
      BY <3>4, <3>5
  <2>2. QED
    BY <1>4, <1>a, <2>1, CountStep
<1>12. QED
  BY <1>10, <1>11 DEF CacheInv

(* brelse: the buffer is no longer held, but counted until it is unlocked. *)
LEMMA BrelseStep ==
  ASSUME TypeInv, TypeInv', CacheInv, NEW t \in Tasks, NEW g \in held[t], Brelse(t, g)
  PROVE  CacheInv'
<1>a. LocalInv /\ LocalInv' /\ HeadInv /\ HeadInv'
  BY DEF TypeInv
<1> DEFINE b == g[2]
           H == held[t] \ {g}
<1>1. Role(t) = "none"
  BY DEF Brelse, InCaller, Role, RoleOf
<1>2. \A h \in held[t] : /\ h = <<h[1], h[2]>> /\ h[1] \in Blocks /\ h[2] \in Buffers
                         /\ bh[h[2]].block = h[1] /\ bh[h[2]].linked
  BY <1>a, RoleBuffer DEF CacheInv, UseInv
<1>3. LocalsBecome(t, "release", want[t], b, idx[t], H)
  BY <1>a DEF Brelse, Go, Point, LocalsBecome, LocalInv
<1>4. Moves(t, "release", want[t], b, H)
  <2>1. RoleOf("release", want[t]) = "release"
    BY DEF RoleOf
  <2> HIDE DEF H
  <2>2. QED
    BY <1>3, <1>a, <2>1, MovesFrom
<1>5. SameLists /\ SameCounts
  BY DEF Brelse, SameLists, SameCounts
<1>6. \A h \in H : h[2] \in Buffers /\ bh[h[2]].block = h[1] /\ bh[h[2]].linked
  BY <1>2
<1>7. /\ b \in Buffers /\ bh[b].linked /\ Has(held[t], b) /\ ~ Has(H, b)
      /\ \A y \in Buffers : y # b => (Has(H, y) <=> Has(held[t], y))
  <2>1. g = <<g[1], b>> /\ g[1] \in Blocks /\ b \in Buffers /\ bh[b].linked
    BY <1>2
  <2>2. Has(held[t], b)
    BY <2>1 DEF Has
  <2>3. ASSUME NEW z \in Blocks, <<z, b>> \in H
        PROVE  FALSE
    <3>1. bh[b].block = z /\ bh[b].block = g[1]
      BY <1>2, <2>3
    <3>2. <<z, b>> = g
      BY <2>1, <3>1
    <3>3. QED
      BY <2>3, <3>2
  <2>4. ASSUME NEW y \in Buffers, y # b
        PROVE  \A z \in Blocks : <<z, y>> \in H <=> <<z, y>> \in held[t]
    BY <2>1, <2>4
  <2>5. QED
    BY <2>1, <2>2, <2>3, <2>4 DEF Has
<1> HIDE DEF H
<1>8. UseInv' /\ OwnInv' /\ UniqueInv' /\ FreeListIsRing'
  BY <1>1, <1>4, <1>5, <1>6, <1>7, <1>a, SharedStep
<1>9. CountExact'
  <2>1. ASSUME NEW y \in Buffers
        PROVE  bh'[y].count + One(Role(t) # "none" /\ cur[t] = y) + One(Has(held[t], y))
                 = bh[y].count + One("release" # "none" /\ b = y) + One(Has(H, y))
    <3>1. bh'[y].count = bh[y].count /\ bh[y].count \in Int
      BY <1>5, <1>a DEF SameCounts, HeadInv, AnyCount
    <3>2. One(Role(t) # "none" /\ cur[t] = y) = 0
      BY <1>1 DEF One
    <3>3. One("release" # "none" /\ b = y) = IF y = b THEN 1 ELSE 0
      BY DEF One
    <3>4. CASE y = b
      <4>1. One(Has(held[t], y)) = 1 /\ One(Has(H, y)) = 0
        BY <1>7, <3>4 DEF One
      <4>2. QED
        BY <3>1, <3>2, <3>3, <3>4, <4>1
    <3>5. CASE y # b
      <4>1. One(Has(held[t], y)) = One(Has(H, y)) /\ One(Has(H, y)) \in Int
        BY <1>7, <3>5 DEF One
      <4>2. QED
        BY <3>1, <3>2, <3>3, <3>5, <4>1
    <3>6. QED
      BY <3>4, <3>5
  <2>2. QED
    BY <1>4, <1>a, <2>1, CountStep
<1>10. QED
  BY <1>8, <1>9 DEF CacheInv
-----------------------------------------------------------------------------
(* The free list as a ring: the set L of its members, their successors n   *)
(* and their predecessors p.                                               *)
Ring(L, n, p) ==
  /\ \A x \in L : n[x] \in L /\ p[n[x]] = x /\ p[x] \in L /\ n[p[x]] = x
  /\ \A S \in SUBSET L : S # {} /\ (\A x \in S : n[x] \in S) => S = L
Nexts == [x \in Buffers |-> bh[x].next_free]
Prevs == [x \in Buffers |-> bh[x].prev_free]

(* The property of the runs, said of the links as functions. *)
LEMMA RingIsRing ==
  FreeListIsRing <=> free_list \in Linked /\ Ring(Linked, Nexts, Prevs)
<1>1. \A x \in Linked : Nexts[x] = bh[x].next_free /\ Prevs[x] = bh[x].prev_free
  BY DEF Linked, Nexts, Prevs
<1>2. QED
  BY <1>1 DEF FreeListIsRing, Ring

(* Without one of its members, but not its only one, it is a ring ...      *)
LEMMA RingWithout ==
  ASSUME NEW L, NEW n, NEW p, Ring(L, n, p), NEW b \in L, n[b] # b,
         NEW n2, NEW p2,
         \A x \in L : n2[x] = IF x = p[b] THEN n[b] ELSE n[x],
         \A x \in L : p2[x] = IF x = n[b] THEN p[b] ELSE p[x]
  PROVE  Ring(L \ {b}, n2, p2)
<1>1. \A x \in L : n[x] \in L /\ p[n[x]] = x /\ p[x] \in L /\ n[p[x]] = x
  BY DEF Ring
<1>2. p[b] # b
  BY <1>1
<1>3. ASSUME NEW x \in L \ {b}
      PROVE  n2[x] \in L \ {b} /\ p2[n2[x]] = x
  <2>1. CASE x = p[b]
    BY <1>1, <1>2, <2>1
  <2>2. CASE x # p[b]
    <3>1. n2[x] = n[x] /\ n[x] \in L
      BY <1>1, <2>2
    <3>2. n[x] # b /\ n[x] # n[b]
      BY <1>1, <2>2
    <3>3. QED
      BY <1>1, <3>1, <3>2
  <2>3. QED
    BY <2>1, <2>2
<1>4. ASSUME NEW x \in L \ {b}
      PROVE  p2[x] \in L \ {b} /\ n2[p2[x]] = x
  <2>1. CASE x = n[b]
    BY <1>1, <1>2, <2>1
  <2>2. CASE x # n[b]
    <3>1. p2[x] = p[x] /\ p[x] \in L
      BY <1>1, <2>2
    <3>2. p[x] # b /\ p[x] # p[b]
      BY <1>1, <2>2
    <3>3. QED
      BY <1>1, <3>1, <3>2
  <2>3. QED
    BY <2>1, <2>2
<1>5. ASSUME NEW S \in SUBSET (L \ {b}), S # {}, \A x \in S : n2[x] \in S
      PROVE  S = L \ {b}
  <2> DEFINE T == IF p[b] \in S THEN S \cup {b} ELSE S
  <2>1. T \in SUBSET L /\ T # {}
    BY <1>5
  <2>2. ASSUME NEW x \in T
        PROVE  n[x] \in T
    <3>1. CASE x = b
      <4>1. p[b] \in S
        BY <3>1, <1>5
      <4>2. n2[p[b]] = n[b] /\ n2[p[b]] \in S
        BY <1>1, <1>5, <4>1
      <4>3. QED
        BY <3>1, <4>2
    <3>2. CASE x = p[b]
      <4>1. x \in S
        BY <1>2, <3>2
      <4>2. QED
        BY <1>1, <3>2, <4>1
    <3>3. CASE x # b /\ x # p[b]
      <4>1. x \in S
        BY <3>3
      <4>2. n2[x] = n[x]
        BY <3>3, <4>1
      <4>3. QED
        BY <1>5, <4>1, <4>2
    <3>4. QED
      BY <3>1, <3>2, <3>3
  <2>3. T = L
    BY <2>1, <2>2 DEF Ring
  <2>4. QED
    BY <2>3
<1>6. QED
  BY <1>3, <1>4, <1>5 DEF Ring

(* ... and with a new one between the last and the first member f.         *)
LEMMA RingWith ==
  ASSUME NEW L, NEW n, NEW p, Ring(L, n, p), NEW f \in L, NEW b, b \notin L,
         NEW n2, NEW p2,
         \A x \in L \cup {b} :
           n2[x] = IF x = p[f] THEN b ELSE IF x = b THEN f ELSE n[x],
         \A x \in L \cup {b} :
           p2[x] = IF x = f THEN b ELSE IF x = b THEN p[f] ELSE p[x]
  PROVE  Ring(L \cup {b}, n2, p2)
<1>1. \A x \in L : n[x] \in L /\ p[n[x]] = x /\ p[x] \in L /\ n[p[x]] = x
  BY DEF Ring
<1>2. /\ n2[b] = f /\ p2[b] = p[f]
      /\ n2[p[f]] = b /\ p2[f] = b
      /\ p[f] \in L
  BY <1>1
<1>3. ASSUME NEW x \in L \cup {b}
      PROVE  n2[x] \in L \cup {b} /\ p2[n2[x]] = x
  <2>1. CASE x = b \/ x = p[f]
    BY <1>2, <2>1
  <2>2. CASE x # b /\ x # p[f]
    <3>1. n2[x] = n[x] /\ n[x] \in L /\ x \in L
      BY <1>1, <2>2
    <3>2. n[x] # f /\ n[x] # b
      BY <1>1, <2>2, <3>1
    <3>3. p2[n[x]] = p[n[x]]
      BY <3>1, <3>2
    <3>4. QED
      BY <1>1, <3>1, <3>3
  <2>3. QED
    BY <2>1, <2>2
<1>4. ASSUME NEW x \in L \cup {b}
      PROVE  p2[x] \in L \cup {b} /\ n2[p2[x]] = x
  <2>1. CASE x = b \/ x = f
    BY <1>2, <2>1
  <2>2. CASE x # b /\ x # f
    <3>1. p2[x] = p[x] /\ p[x] \in L /\ x \in L
      BY <1>1, <2>2
    <3>2. p[x] # p[f] /\ p[x] # b
      BY <1>1, <2>2, <3>1
    <3>3. n2[p[x]] = n[p[x]]
      BY <3>1, <3>2
    <3>4. QED
      BY <1>1, <3>1, <3>3
  <2>3. QED
    BY <2>1, <2>2
<1>5. ASSUME NEW S \in SUBSET (L \cup {b}), S # {}, \A x \in S : n2[x] \in S
      PROVE  S = L \cup {b}
  <2> DEFINE T == S \ {b}
  <2>1. T \in SUBSET L
    OBVIOUS
  <2>2. T # {}
    BY <1>2, <1>5
  <2>3. ASSUME NEW x \in T
        PROVE  n[x] \in T
    <3>1. CASE x = p[f]
      <4>1. b \in S
        BY <1>2, <1>5, <3>1
      <4>2. f \in S
        BY <1>2, <1>5, <4>1
      <4>3. QED
        BY <1>1, <3>1, <4>2
    <3>2. CASE x # p[f]
      <4>1. n2[x] = n[x] /\ n[x] \in L
        BY <1>1, <2>1, <3>2
      <4>2. QED
        BY <1>5, <4>1
    <3>3. QED
      BY <3>1, <3>2
  <2>4. T = L
    BY <2>1, <2>2, <2>3 DEF Ring
  <2>5. b \in S
    BY <1>2, <1>5, <2>4
  <2>6. QED
    BY <2>4, <2>5
<1>6. QED
  BY <1>3, <1>4, <1>5 DEF Ring
(* There are more buffers than tasks, and a task takes out one at a time:  *)
(* one that has none can take one, and another stays.                      *)
LEMMA OtherLinked ==
  ASSUME LocalInv, OwnInv, NEW t \in Tasks, Role(t) = "none", NEW b \in Linked
  PROVE  \E y \in Linked : y # b
<1> SUFFICES ASSUME \A y \in Linked : y = b
             PROVE  FALSE
  OBVIOUS
<1> DEFINE S == Buffers \ {b}
           T == Tasks \ {t}
           f == [y \in S |-> CHOOSE u \in Tasks : Owns(u, y)]
<1>1. ASSUME NEW y \in S
      PROVE  f[y] \in T /\ Owns(f[y], y)
  <2>1. ~ bh[y].linked
    BY DEF Linked
  <2>2. \E u \in Tasks : Owns(u, y)
    BY <2>1 DEF OwnInv
  <2>3. f[y] \in Tasks /\ Owns(f[y], y)
    BY <2>2
  <2>4. QED
    BY <2>3 DEF Owns
<1>2. f \in [S -> T]
  BY <1>1
<1>3. ASSUME NEW y \in S, NEW z \in S, f[y] = f[z]
      PROVE  y = z
  BY <1>1, <1>3 DEF Owns
<1> HIDE DEF f
<1>4. IsFiniteSet(Buffers) /\ Cardinality(Buffers) = NR_BUFFERS /\ NR_BUFFERS \in Nat
  <2>1. NR_BUFFERS \in Nat /\ NR_BUFFERS > 0
    BY CacheAssumption, FS_CardinalityType
  <2>2. QED
    BY <2>1, FS_Interval DEF Buffers
<1>5. IsFiniteSet(S) /\ Cardinality(S) = NR_BUFFERS - 1
  BY <1>4, FS_RemoveElement DEF Linked
<1>6. IsFiniteSet(T) /\ Cardinality(T) = Cardinality(Tasks) - 1
  BY CacheAssumption, FS_RemoveElement
<1>7. Cardinality(T) < Cardinality(S)
  BY <1>4, <1>5, <1>6, CacheAssumption, FS_CardinalityType
<1> HIDE DEF S, T
<1>8. \E y, z \in S : y # z /\ f[y] = f[z]
  BY <1>2, <1>5, <1>6, <1>7, FS_PigeonHole
<1>9. QED
  BY <1>3, <1>8

(* getblk takes a buffer that nobody uses.                                 *)
LEMMA TakeFree ==
  ASSUME TypeInv, TypeInv', CacheInv, NEW t \in Tasks, Take(t)
  PROVE  /\ cur[t] \in Linked /\ Role(t) = "none"
         /\ \A u \in Tasks : ~ (Role(u) # "none" /\ cur[u] = cur[t])
         /\ \A u \in Tasks : \A h \in held[u] : h[2] # cur[t]
<1>a. LocalInv /\ LocalInv' /\ HeadInv
  BY DEF TypeInv
<1> DEFINE b == cur[t]
<1>1. b \in Buffers /\ bh[b].count = 0
  BY <1>a, TakeEffect
<1>2. Role(t) = "none"
  BY DEF Take, Unlocked, At, Role, RoleOf
<1>3. Cardinality(Counters(b)) + Cardinality(Holders(b)) = 0
  BY <1>1 DEF CacheInv, CountExact, Counters, Holders
<1>4. Counters(b) \in SUBSET Tasks /\ Holders(b) \in SUBSET Tasks
  BY DEF Counters, Holders
<1>5. Counters(b) = {} /\ Holders(b) = {}
  <2>1. Cardinality(Counters(b)) \in Nat /\ Cardinality(Holders(b)) \in Nat
    BY <1>4, Counting
  <2>2. Cardinality(Counters(b)) = 0 /\ Cardinality(Holders(b)) = 0
    BY <1>3, <2>1
  <2>3. QED
    BY <1>4, <2>2, Counting
<1>6. \A u \in Tasks : ~ (Role(u) # "none" /\ cur[u] = b)
  BY <1>1, <1>5, <1>a, CountedRole DEF Counters
<1>7. \A u \in Tasks : \A h \in held[u] : h[2] # b
  BY <1>5, <1>a, RoleBuffer DEF Holders
<1>8. b \in Linked
  BY <1>1, <1>6 DEF CacheInv, OwnInv, Owns, Linked
<1>9. QED
  BY <1>2, <1>6, <1>7, <1>8
(* getblk takes a free buffer off the list: nobody used it, its block stays *)
(* until it is assigned, and the list without it is whole.                  *)
LEMMA TakeStep ==
  ASSUME TypeInv, TypeInv', CacheInv, NEW t \in Tasks, Take(t)
  PROVE  CacheInv'
<1>a. LocalInv /\ LocalInv' /\ HeadInv /\ HeadInv'
  BY DEF TypeInv
<1> DEFINE b == cur[t]
           p == bh[b].prev_free
           n == bh[b].next_free
<1>1. /\ b \in Buffers /\ bh[b].count = 0
      /\ free_list' = IF free_list = b THEN n ELSE free_list
      /\ \A x \in Buffers :
           /\ bh'[x].block = bh[x].block
           /\ bh'[x].count = IF x = b THEN 1 ELSE bh[x].count
           /\ bh'[x].linked = IF x = b THEN FALSE ELSE bh[x].linked
           /\ bh'[x].next_free = IF x = p THEN n ELSE bh[x].next_free
           /\ bh'[x].prev_free = IF x = n THEN p ELSE bh[x].prev_free
  <2>1. /\ b \in Buffers /\ bh[b].count = 0
        /\ free_list' = IF free_list = b THEN n ELSE free_list
        /\ \A x \in Buffers :
             HeadIs(bh'[x], bh[x].block, IF x = b THEN 1 ELSE bh[x].count,
                    bh[x].dirt, bh[x].lock, IF x = b THEN FALSE ELSE bh[x].linked,
                    IF x = p THEN n ELSE bh[x].next_free,
                    IF x = n THEN p ELSE bh[x].prev_free)
    BY <1>a, TakeEffect, Zenon
  <2>2. QED
    BY <2>1, Zenon DEF HeadIs
<1>2. /\ b \in Linked /\ Role(t) = "none"
      /\ \A u \in Tasks : ~ (Role(u) # "none" /\ cur[u] = b)
      /\ \A u \in Tasks : \A h \in held[u] : h[2] # b
  BY TakeFree
<1>3. Moves(t, "own", want[t], b, held[t])
  <2>1. \/ LocalsBecome(t, "sync", want[t], b, 1, held[t])
        \/ LocalsBecome(t, "assign", want[t], b, idx[t], held[t])
    BY <1>a DEF Take, Go, LocalsBecome, LocalInv
  <2>2. want[t] # NoBlock
    BY <1>a DEF Take, Unlocked, At, LocalInv, CallOK
  <2>3. RoleOf("sync", want[t]) = "own" /\ RoleOf("assign", want[t]) = "own"
    BY <2>2 DEF RoleOf
  <2>4. QED
    BY <1>a, <2>1, <2>3, MovesFrom
<1> HIDE DEF b
<1>4. /\ Role(t)' = "own" /\ cur'[t] = b /\ held'[t] = held[t]
      /\ \A u \in Tasks \ {t} : RoleKept(u)
  BY <1>3 DEF Moves
<1>5. Linked' = Linked \ {b}
  BY <1>1 DEF Linked
<1>6. UniqueInv'
  <2>1. \A x \in Linked' : bh'[x].block = bh[x].block /\ x \in Linked
    BY <1>1, <1>5 DEF Linked
  <2>2. QED
    BY <2>1 DEF CacheInv, UniqueInv
<1>7. UseInv'
  <2> SUFFICES ASSUME NEW u \in Tasks
               PROVE  /\ \A h \in held'[u] : bh'[h[2]].block = h[1] /\ bh'[h[2]].linked
                      /\ Role(u)' = "use" => bh'[cur'[u]].block = want'[u]
                      /\ Role(u)' \in {"use", "release"} => bh'[cur'[u]].linked
    BY DEF UseInv
  <2>1. held'[u] = held[u]
    BY <1>4 DEF RoleKept
  <2>2. \A h \in held[u] : /\ h[2] \in Buffers /\ h[2] # b
                           /\ bh[h[2]].block = h[1] /\ bh[h[2]].linked
    BY <1>2, <1>a, RoleBuffer DEF CacheInv, UseInv
  <2>3. \A h \in held'[u] : bh'[h[2]].block = h[1] /\ bh'[h[2]].linked
    BY <1>1, <2>1, <2>2
  <2>4. CASE u = t
    BY <1>4, <2>3, <2>4
  <2>5. CASE u # t
    <3>1. RoleKept(u)
      BY <1>4, <2>5
    <3>2. Role(u) # "none" => cur[u] \in Buffers /\ cur[u] # b
      BY <1>2, <1>a, RoleBuffer
    <3>3. CASE Role(u) = "none"
      BY <2>3, <3>1, <3>3 DEF RoleKept
    <3>4. CASE Role(u) # "none"
      <4>1. Role(u)' = Role(u) /\ cur'[u] = cur[u] /\ want'[u] = want[u]
        BY <3>1, <3>4 DEF RoleKept
      <4>2. bh'[cur[u]].block = bh[cur[u]].block /\ bh'[cur[u]].linked = bh[cur[u]].linked
        BY <1>1, <3>2, <3>4
      <4>3. QED
        BY <2>3, <4>1, <4>2 DEF CacheInv, UseInv
    <3>5. QED
      BY <3>3, <3>4
  <2>6. QED
    BY <2>4, <2>5
<1>8. OwnInv'
  <2>1. \A u \in Tasks \ {t} : Role(u)' = Role(u) /\ (Role(u) = "own" => cur'[u] = cur[u])
    BY <1>4 DEF RoleKept
  <2>2. \A u \in Tasks, y \in Buffers : y # b => (Owns(u, y)' <=> Owns(u, y))
    BY <1>2, <1>4, <2>1 DEF Owns
  <2>3. ASSUME NEW u \in Tasks, NEW y \in Buffers, y = b
        PROVE  Owns(u, y)' <=> u = t
    <3>1. CASE u = t
      BY <1>4, <2>3, <3>1 DEF Owns
    <3>2. CASE u # t
      BY <1>2, <2>1, <2>3, <3>2 DEF Owns
    <3>3. QED
      BY <3>1, <3>2
  <2>4. ASSUME NEW u \in Tasks, Role(u)' = "own"
        PROVE  ~ bh'[cur'[u]].linked
    <3>1. CASE u = t
      BY <1>1, <1>4, <3>1
    <3>2. CASE u # t
      <4>1. cur'[u] = cur[u] /\ Role(u) = "own"
        BY <2>1, <2>4, <3>2
      <4>2. cur[u] \in Buffers /\ ~ bh[cur[u]].linked
        BY <1>a, <4>1, RoleBuffer DEF CacheInv, OwnInv
      <4>3. QED
        BY <1>1, <4>1, <4>2
    <3>3. QED
      BY <3>1, <3>2
  <2>5. \A u, v \in Tasks, y \in Buffers : Owns(u, y)' /\ Owns(v, y)' => u = v
    <3> SUFFICES ASSUME NEW u \in Tasks, NEW v \in Tasks, NEW y \in Buffers,
                        Owns(u, y)', Owns(v, y)'
                 PROVE  u = v
      OBVIOUS
    <3>1. CASE y = b
      BY <2>3, <3>1
    <3>2. CASE y # b
      <4>1. Owns(u, y) /\ Owns(v, y)
        BY <2>2, <3>2
      <4>2. QED
        BY <4>1 DEF CacheInv, OwnInv
    <3>3. QED
      BY <3>1, <3>2
  <2>6. ASSUME NEW y \in Buffers, ~ bh'[y].linked
        PROVE  \E u \in Tasks : Owns(u, y)'
    <3>1. CASE y = b
      BY <2>3, <3>1
    <3>2. CASE y # b
      <4>1. ~ bh[y].linked
        BY <1>1, <2>6, <3>2
      <4>2. \E u \in Tasks : Owns(u, y)
        BY <4>1 DEF CacheInv, OwnInv
      <4>3. QED
        BY <2>2, <3>2, <4>2
    <3>3. QED
      BY <3>1, <3>2
  <2>7. QED
    BY <2>4, <2>5, <2>6 DEF OwnInv
<1>9. CountExact'
  <2>1. ASSUME NEW y \in Buffers
        PROVE  bh'[y].count + One(Role(t) # "none" /\ cur[t] = y) + One(Has(held[t], y))
                 = bh[y].count + One("own" # "none" /\ b = y) + One(Has(held[t], y))
    <3> DEFINE o == One(Has(held[t], y))
    <3>1. o \in Int
      BY DEF One
    <3>2. One(Role(t) # "none" /\ cur[t] = y) = 0
      BY <1>2 DEF One
    <3>3. One("own" # "none" /\ b = y) = IF y = b THEN 1 ELSE 0
      BY DEF One
    <3>4. bh'[y].count = IF y = b THEN 1 ELSE bh[y].count
      BY <1>1
    <3>5. bh[y].count \in Int
      BY <1>a DEF HeadInv, AnyCount
    <3> HIDE DEF o
    <3>6. QED
      BY <1>1, <3>1, <3>2, <3>3, <3>4, <3>5
  <2>2. QED
    BY <1>3, <1>a, <2>1, CountStep
<1>10. FreeListIsRing'
  <2>1. free_list \in Linked /\ Ring(Linked, Nexts, Prevs)
    BY RingIsRing DEF CacheInv
  <2>2. n \in Linked /\ p \in Linked /\ Nexts[b] = n /\ Prevs[b] = p
    BY <1>1, <1>2, <2>1 DEF Ring, Nexts, Prevs
  <2>3. n # b
    <3>1. PICK y \in Linked : y # b
      BY <1>2, <1>a, OtherLinked DEF CacheInv
    <3>2. ASSUME n = b
          PROVE  {b} = Linked
      <4>1. {b} \in SUBSET Linked /\ {b} # {} /\ \A x \in {b} : Nexts[x] \in {b}
        BY <1>2, <2>2, <3>2
      <4>2. QED
        BY <2>1, <4>1, Zenon DEF Ring
    <3>3. QED
      BY <3>1, <3>2
  <2>4. Linked \subseteq Buffers
    BY DEF Linked
  <2>5. /\ \A x \in Linked : Nexts'[x] = IF x = Prevs[b] THEN Nexts[b] ELSE Nexts[x]
        /\ \A x \in Linked : Prevs'[x] = IF x = Nexts[b] THEN Prevs[b] ELSE Prevs[x]
    BY <1>1, <2>2, <2>4 DEF Nexts, Prevs
  <2>6. Nexts[b] # b
    BY <2>2, <2>3
  <2>7. Ring(Linked \ {b}, Nexts', Prevs')
    BY <1>2, <2>1, <2>5, <2>6, RingWithout
  <2>8. free_list' \in Linked \ {b}
    BY <1>1, <2>1, <2>2, <2>3
  <2>9. \A x \in Linked' : Nexts'[x] = bh'[x].next_free /\ Prevs'[x] = bh'[x].prev_free
    BY <1>5, <2>4 DEF Nexts, Prevs
  <2>10. QED
    BY <1>5, <2>7, <2>8, <2>9 DEF FreeListIsRing, Ring
<1>11. QED
  BY <1>6, <1>7, <1>8, <1>9, <1>10 DEF CacheInv
(* The buffer that getblk has taken out is its own.                        *)
LEMMA AssignOwn ==
  ASSUME TypeInv, TypeInv', CacheInv, NEW t \in Tasks, Assign(t)
  PROVE  /\ Role(t) = "own" /\ cur[t] \in Buffers /\ ~ bh[cur[t]].linked
         /\ bh[cur[t]].count = 1 /\ want[t] \in Blocks
         /\ \A u \in Tasks : Role(u) # "none" /\ cur[u] = cur[t] => u = t
         /\ \A u \in Tasks : \A h \in held[u] : h[2] # cur[t]
<1>a. LocalInv /\ LocalInv' /\ HeadInv
  BY DEF TypeInv
<1>1. Role(t) = "own"
  BY <1>a DEF Assign, At, LocalInv, CallOK, Role, RoleOf
<1>2. PICK b \in Buffers : b = cur[t]
  BY <1>1, <1>a, RoleBuffer
<1>3. ~ bh[b].linked
  BY <1>1, <1>2 DEF CacheInv, OwnInv
<1>4. ASSUME NEW u \in Tasks, Role(u) # "none", cur[u] = b
      PROVE  u = t
  <2>1. Role(u) \in {"use", "release", "own"}
    BY <1>4, <1>a, RoleBuffer
  <2>2. Role(u) = "own"
    BY <1>3, <1>4, <2>1 DEF CacheInv, UseInv
  <2>3. Owns(u, b) /\ Owns(t, b)
    BY <1>1, <1>2, <1>4, <2>2 DEF Owns
  <2>4. QED
    BY <2>3 DEF CacheInv, OwnInv
<1>5. \A u \in Tasks : \A h \in held[u] : h[2] # b
  BY <1>3 DEF CacheInv, UseInv
<1>6. Counters(b) = {t}
  BY <1>1, <1>2, <1>4, <1>a, CountedRole DEF Counters
<1>7. Holders(b) = {}
  BY <1>5 DEF Holders
<1>8. bh[b].count = Cardinality(Counters(b)) + Cardinality(Holders(b))
  BY DEF CacheInv, CountExact, Counters, Holders
<1>9. bh[b].count = 1
  <2>1. Cardinality({t}) = 1 /\ Cardinality({}) = 0
    BY FS_Singleton, FS_EmptySet
  <2>2. QED
    BY <1>6, <1>7, <1>8, <2>1
<1>10. want[t] \in Blocks
  BY <1>1, <1>a, RoleBuffer
<1>11. QED
  BY <1>1, <1>2, <1>3, <1>4, <1>5, <1>9, <1>10

(* getblk gives its buffer another block, or none if someone was faster, and *)
(* puts it at the end of the list.                                           *)
LEMMA AssignStep ==
  ASSUME TypeInv, TypeInv', CacheInv, NEW t \in Tasks, Assign(t)
  PROVE  CacheInv'
<1>a. LocalInv /\ LocalInv' /\ HeadInv /\ HeadInv'
  BY DEF TypeInv
<1> DEFINE missing == Found(want[t]) = {}
<1>1. PICK b \in Buffers :
        /\ b = cur[t] /\ Role(t) = "own" /\ ~ bh[b].linked
        /\ bh[b].count = 1 /\ want[t] \in Blocks
        /\ \A u \in Tasks : Role(u) # "none" /\ cur[u] = b => u = t
        /\ \A u \in Tasks : \A h \in held[u] : h[2] # b
  BY AssignOwn
<1>2. PICK f \in Buffers, last \in Buffers :
        f = free_list /\ last = bh[f].prev_free
  BY <1>a DEF HeadInv, AnyCount
<1>3. /\ free_list' = f
      /\ \A x \in Buffers :
           /\ bh'[x].block = IF x # b THEN bh[x].block
                             ELSE IF missing THEN want[t] ELSE NoBlock
           /\ bh'[x].count = IF x = b /\ ~ missing THEN 0 ELSE bh[x].count
           /\ bh'[x].linked = IF x = b THEN TRUE ELSE bh[x].linked
           /\ bh'[x].next_free = IF x = last THEN b
                                 ELSE IF x = b THEN f ELSE bh[x].next_free
           /\ bh'[x].prev_free = IF x = f THEN b
                                 ELSE IF x = b THEN last ELSE bh[x].prev_free
  <2>1. /\ free_list' = f
        /\ \A x \in Buffers :
             HeadIs(bh'[x],
                    IF x # b THEN bh[x].block
                    ELSE IF missing THEN want[t] ELSE NoBlock,
                    IF x = b /\ ~ missing THEN 0 ELSE bh[x].count,
                    IF x = b THEN FALSE ELSE bh[x].dirt, bh[x].lock,
                    IF x = b THEN TRUE ELSE bh[x].linked,
                    IF x = last THEN b ELSE IF x = b THEN f ELSE bh[x].next_free,
                    IF x = f THEN b ELSE IF x = b THEN last ELSE bh[x].prev_free)
    BY <1>1, <1>2, <1>a, AssignEffect, ZenonT(60)
  <2>2. QED
    BY <2>1, Zenon DEF HeadIs
<1>4. Linked' = Linked \cup {b}
  <2>1. \A x \in Buffers : bh'[x].linked = IF x = b THEN TRUE ELSE bh[x].linked
    BY <1>3, Zenon
  <2>2. QED
    BY <1>1, <2>1, ZenonT(60) DEF Linked
<1>5. missing => \A x \in Linked : bh[x].block # want[t]
  BY DEF Found, Linked
<1>6. \/ missing /\ Moves(t, "use", want[t], b, held[t])
      \/ ~ missing /\ Moves(t, "none", want[t], NoBuffer, held[t])
  <2>1. \/ missing /\ LocalsBecome(t, "got", want[t], b, idx[t], held[t])
        \/ ~ missing /\ LocalsBecome(t, "find", want[t], NoBuffer, idx[t], held[t])
    BY <1>1, <1>a DEF Assign, Go, Point, LocalsBecome, LocalInv
  <2>2. RoleOf("got", want[t]) = "use" /\ RoleOf("find", want[t]) = "none"
    BY DEF RoleOf
  <2>3. QED
    BY <1>a, <2>1, <2>2, MovesFrom
<1> HIDE DEF missing
<1>7. /\ missing => Role(t)' = "use" /\ cur'[t] = b /\ want'[t] = want[t]
      /\ ~ missing => Role(t)' = "none"
      /\ held'[t] = held[t]
      /\ \A u \in Tasks \ {t} : RoleKept(u)
  BY <1>6 DEF Moves
<1>8. UniqueInv'
  <2> SUFFICES ASSUME NEW x \in Linked', NEW y \in Linked',
                      bh'[x].block = bh'[y].block, bh'[x].block # NoBlock
               PROVE  x = y
    BY DEF UniqueInv
  <2>1. bh'[b].block = IF missing THEN want[t] ELSE NoBlock
    BY <1>3
  <2>2. \A z \in Linked : z # b /\ bh'[z].block = bh[z].block
    BY <1>1, <1>3 DEF Linked
  <2>3. CASE x = b \/ y = b
    BY <1>4, <1>5, <2>1, <2>2, <2>3
  <2>4. CASE x # b /\ y # b
    BY <1>4, <2>2, <2>4 DEF CacheInv, UniqueInv
  <2>5. QED
    BY <2>3, <2>4
<1>9. UseInv'
  <2> SUFFICES ASSUME NEW u \in Tasks
               PROVE  /\ \A h \in held'[u] : bh'[h[2]].block = h[1] /\ bh'[h[2]].linked
                      /\ Role(u)' = "use" => bh'[cur'[u]].block = want'[u]
                      /\ Role(u)' \in {"use", "release"} => bh'[cur'[u]].linked
    BY DEF UseInv
  <2>1. held'[u] = held[u]
    BY <1>7 DEF RoleKept
  <2>2. \A h \in held[u] : /\ h[2] \in Buffers /\ h[2] # b
                           /\ bh[h[2]].block = h[1] /\ bh[h[2]].linked
    BY <1>1, <1>a, RoleBuffer DEF CacheInv, UseInv
  <2>3. \A h \in held'[u] : bh'[h[2]].block = h[1] /\ bh'[h[2]].linked
    BY <1>3, <2>1, <2>2
  <2>4. CASE u = t
    <3>1. missing => bh'[b].block = want[t] /\ bh'[b].linked
      BY <1>3
    <3>2. QED
      BY <1>7, <2>3, <2>4, <3>1
  <2>5. CASE u # t
    <3>1. RoleKept(u)
      BY <1>7, <2>5
    <3>2. Role(u) # "none" => cur[u] \in Buffers /\ cur[u] # b
      BY <1>1, <1>a, <2>5, RoleBuffer
    <3>3. CASE Role(u) = "none"
      BY <2>3, <3>1, <3>3 DEF RoleKept
    <3>4. CASE Role(u) # "none"
      <4>1. Role(u)' = Role(u) /\ cur'[u] = cur[u] /\ want'[u] = want[u]
        BY <3>1, <3>4 DEF RoleKept
      <4>2. bh'[cur[u]].block = bh[cur[u]].block /\ bh'[cur[u]].linked = bh[cur[u]].linked
        BY <1>3, <3>2, <3>4
      <4>3. QED
        BY <2>3, <4>1, <4>2 DEF CacheInv, UseInv
    <3>5. QED
      BY <3>3, <3>4
  <2>6. QED
    BY <2>4, <2>5
<1>10. OwnInv'
  <2>1. \A u \in Tasks \ {t} : Role(u)' = Role(u) /\ (Role(u) = "own" => cur'[u] = cur[u])
    BY <1>7 DEF RoleKept
  <2>2. Role(t)' # "own"
    BY <1>7
  <2>3. \A u \in Tasks, y \in Buffers : Owns(u, y)' <=> u # t /\ Owns(u, y)
    BY <2>1, <2>2 DEF Owns
  <2>4. ASSUME NEW u \in Tasks, Role(u)' = "own"
        PROVE  ~ bh'[cur'[u]].linked
    <3>1. u # t /\ cur'[u] = cur[u] /\ Role(u) = "own"
      BY <2>1, <2>2, <2>4
    <3>2. cur[u] \in Buffers /\ ~ bh[cur[u]].linked /\ cur[u] # b
      BY <1>1, <1>a, <3>1, RoleBuffer DEF CacheInv, OwnInv
    <3>3. QED
      BY <1>3, <3>1, <3>2
  <2>5. \A u, v \in Tasks, y \in Buffers : Owns(u, y)' /\ Owns(v, y)' => u = v
    BY <2>3 DEF CacheInv, OwnInv
  <2>6. ASSUME NEW y \in Buffers, ~ bh'[y].linked
        PROVE  \E u \in Tasks : Owns(u, y)'
    <3>1. y # b /\ ~ bh[y].linked
      BY <1>3, <2>6
    <3>2. PICK u \in Tasks : Owns(u, y)
      BY <3>1 DEF CacheInv, OwnInv
    <3>3. u # t
      BY <1>1, <3>1, <3>2 DEF Owns
    <3>4. QED
      BY <2>3, <3>2, <3>3
  <2>7. QED
    BY <2>4, <2>5, <2>6 DEF OwnInv
<1>11. CountExact'
  <2>1. ASSUME NEW y \in Buffers
        PROVE  /\ bh[y].count \in Int /\ One(Has(held[t], y)) \in Int
               /\ One(Role(t) # "none" /\ cur[t] = y) = IF y = b THEN 1 ELSE 0
               /\ One("use" # "none" /\ b = y) = IF y = b THEN 1 ELSE 0
               /\ One("none" # "none" /\ NoBuffer = y) = 0
    <3>1. bh[y].count \in Int
      BY <1>a DEF HeadInv, AnyCount
    <3>2. One(Has(held[t], y)) \in Int
      BY DEF One
    <3>3. One(Role(t) # "none" /\ cur[t] = y) = IF y = b THEN 1 ELSE 0
      BY <1>1 DEF One
    <3>4. One("use" # "none" /\ b = y) = IF y = b THEN 1 ELSE 0
      BY DEF One
    <3>5. One("none" # "none" /\ NoBuffer = y) = 0
      BY DEF One
    <3>6. QED
      BY <3>1, <3>2, <3>3, <3>4, <3>5
  <2>2. CASE missing
    <3>1. \A y \in Buffers : bh'[y].count = bh[y].count
      BY <1>3, <2>2
    <3>2. ASSUME NEW y \in Buffers
          PROVE  bh'[y].count + One(Role(t) # "none" /\ cur[t] = y) + One(Has(held[t], y))
                   = bh[y].count + One("use" # "none" /\ b = y) + One(Has(held[t], y))
      BY <2>1, <3>1
    <3>3. Moves(t, "use", want[t], b, held[t])
      BY <1>6, <2>2
    <3>4. QED
      BY <3>2, <3>3, <1>a, CountStep
  <2>3. CASE ~ missing
    <3>1. \A y \in Buffers : bh'[y].count = IF y = b THEN 0 ELSE bh[y].count
      BY <1>3, <2>3
    <3>2. ASSUME NEW y \in Buffers
          PROVE  bh'[y].count + One(Role(t) # "none" /\ cur[t] = y) + One(Has(held[t], y))
                   = bh[y].count + One("none" # "none" /\ NoBuffer = y) + One(Has(held[t], y))
      <4> DEFINE o == One(Has(held[t], y))
      <4>1. /\ o \in Int /\ bh[y].count \in Int
            /\ One(Role(t) # "none" /\ cur[t] = y) = IF y = b THEN 1 ELSE 0
            /\ One("none" # "none" /\ NoBuffer = y) = 0
        BY <2>1
      <4> HIDE DEF o
      <4>2. QED
        BY <1>1, <3>1, <4>1
    <3>3. Moves(t, "none", want[t], NoBuffer, held[t])
      BY <1>6, <2>3
    <3>4. QED
      BY <3>2, <3>3, <1>a, CountStep
  <2>4. QED
    BY <2>2, <2>3
<1>12. FreeListIsRing'
  <2>1. f \in Linked /\ Ring(Linked, Nexts, Prevs)
    BY <1>2, RingIsRing DEF CacheInv
  <2>2. b \notin Linked /\ Linked \subseteq Buffers /\ Prevs[f] = last
    BY <1>1, <1>2 DEF Linked, Prevs
  <2>3. \A x \in Linked \cup {b} :
          /\ Nexts'[x] = IF x = Prevs[f] THEN b ELSE IF x = b THEN f ELSE Nexts[x]
          /\ Prevs'[x] = IF x = f THEN b ELSE IF x = b THEN Prevs[f] ELSE Prevs[x]
    BY <1>3, <2>2 DEF Nexts, Prevs
  <2>4. Ring(Linked \cup {b}, Nexts', Prevs')
    BY <2>1, <2>2, <2>3, RingWith
  <2>5. \A x \in Linked' : Nexts'[x] = bh'[x].next_free /\ Prevs'[x] = bh'[x].prev_free
    BY <1>4, <2>2 DEF Nexts, Prevs
  <2>6. free_list' \in Linked'
    BY <1>3, <1>4, <2>1
  <2>7. QED
    BY <1>4, <2>4, <2>5, <2>6 DEF FreeListIsRing, Ring
<1>13. QED
  BY <1>8, <1>9, <1>10, <1>11, <1>12 DEF CacheInv
-----------------------------------------------------------------------------
(* Among natural numbers there is a least one.                             *)
LEMMA LeastOf ==
  ASSUME NEW S \in SUBSET Nat, S # {}
  PROVE  \E m \in S : \A y \in S : m <= y
<1> DEFINE R == OpToRel(<, Nat)
<1>1. PICK m \in S : \A y \in S : ~(<<y, m>> \in R)
  <2> HIDE DEF R
  <2>1. QED
    BY WFMin, NatLessThanWellFounded DEF R
<1>2. \A y \in S : m <= y
  <2>1. TAKE y \in S
  <2>2. m \in Nat /\ y \in Nat
    OBVIOUS
  <2>3. ~(y < m)
    BY <1>1, <2>1, <2>2 DEF OpToRel
  <2>4. QED
    BY <2>2, <2>3
<1>3. QED
  BY <1>2

(* A set of buffers with each one's successor reaches the last one.        *)
LEMMA Upwards ==
  ASSUME NEW S \in SUBSET Buffers, NEW a \in S,
         \A x \in S : x # NR_BUFFERS => x + 1 \in S
  PROVE  \A y \in Buffers : y >= a => y \in S
<1> DEFINE T == {y \in Buffers : y >= a /\ y \notin S}
<1> SUFFICES ASSUME T # {}
             PROVE  FALSE
  OBVIOUS
<1>1. NR_BUFFERS \in Nat /\ Buffers \subseteq Nat /\ T \in SUBSET Nat
  BY CacheAssumption DEF Buffers
<1>2. PICK m \in T : \A y \in T : m <= y
  BY <1>1, LeastOf
<1>3. m \in Buffers /\ m >= a /\ m \notin S /\ a \in Nat /\ m \in Nat
  BY <1>1
<1>4. m > a
  BY <1>3
<1>5. m - 1 \in Buffers /\ m - 1 >= a /\ m - 1 # NR_BUFFERS
  BY <1>1, <1>3, <1>4 DEF Buffers
<1>6. m - 1 \in S
  <2>1. CASE m - 1 \notin S
    <3>1. m - 1 \in T
      BY <1>5, <2>1
    <3>2. m <= m - 1
      BY <1>2, <3>1
    <3>3. QED
      BY <1>3, <3>2
  <2>2. QED
    BY <2>1
<1>7. (m - 1) + 1 \in S
  BY <1>5, <1>6
<1>8. QED
  BY <1>3, <1>7

(* buffer_init links all the buffers in one ring.                          *)
LEMMA InitRing == Init => FreeListIsRing
<1> SUFFICES ASSUME Init PROVE FreeListIsRing
  OBVIOUS
<1>1. NR_BUFFERS \in Nat /\ NR_BUFFERS >= 1
  BY CacheAssumption, FS_CardinalityType
<1>2. Linked = Buffers
  BY DEF Init, Linked
<1>3. \A x \in Buffers :
        /\ bh[x].next_free = IF x = NR_BUFFERS THEN 1 ELSE x + 1
        /\ bh[x].prev_free = IF x = 1 THEN NR_BUFFERS ELSE x - 1
  BY DEF Init
<1>4. ASSUME NEW x \in Buffers
      PROVE  /\ bh[x].next_free \in Buffers /\ bh[bh[x].next_free].prev_free = x
             /\ bh[x].prev_free \in Buffers /\ bh[bh[x].prev_free].next_free = x
  <2>1. bh[x].next_free \in Buffers /\ bh[x].prev_free \in Buffers /\ x \in Nat
    BY <1>1, <1>3 DEF Buffers
  <2>2. bh[bh[x].next_free].prev_free = x
    <3>1. CASE x = NR_BUFFERS
      BY <1>1, <1>3, <2>1, <3>1
    <3>2. CASE x # NR_BUFFERS
      <4>1. x + 1 \in Buffers /\ x + 1 # 1 /\ bh[x].next_free = x + 1
        BY <1>1, <1>3, <3>2 DEF Buffers
      <4>2. bh[x + 1].prev_free = (x + 1) - 1
        BY <1>3, <4>1
      <4>3. QED
        BY <2>1, <4>1, <4>2
    <3>3. QED
      BY <3>1, <3>2
  <2>3. bh[bh[x].prev_free].next_free = x
    <3>1. CASE x = 1
      BY <1>1, <1>3, <2>1, <3>1
    <3>2. CASE x # 1
      <4>1. x - 1 \in Buffers /\ x - 1 # NR_BUFFERS /\ bh[x].prev_free = x - 1
        BY <1>1, <1>3, <3>2 DEF Buffers
      <4>2. bh[x - 1].next_free = (x - 1) + 1
        BY <1>3, <4>1
      <4>3. QED
        BY <2>1, <4>1, <4>2
    <3>3. QED
      BY <3>1, <3>2
  <2>4. QED
    BY <2>1, <2>2, <2>3
<1>5. ASSUME NEW S \in SUBSET Buffers, S # {}, \A x \in S : bh[x].next_free \in S
      PROVE  S = Buffers
  <2>1. \A x \in S : x # NR_BUFFERS => x + 1 \in S
    BY <1>3, <1>5
  <2>2. PICK a \in S : TRUE
    BY <1>5
  <2>3. NR_BUFFERS \in Buffers /\ 1 \in Buffers /\ NR_BUFFERS >= a
    BY <1>1 DEF Buffers
  <2>4. NR_BUFFERS \in S
    BY <2>1, <2>3, Upwards
  <2>5. 1 \in S
    BY <1>3, <1>5, <2>4
  <2>6. \A y \in Buffers : y >= 1
    BY DEF Buffers
  <2>7. \A y \in Buffers : y \in S
    BY <2>1, <2>5, <2>6, Upwards
  <2>8. QED
    BY <2>7
<1>6. free_list \in Buffers
  BY BufferRange DEF Init
<1>7. QED
  BY <1>2, <1>4, <1>5, <1>6 DEF FreeListIsRing

(* The invariant of the cache holds after buffer_init. *)
LEMMA InitCache == Init => TypeInv /\ CacheInv
<1> SUFFICES ASSUME Init PROVE TypeInv /\ CacheInv
  OBVIOUS
<1>1. TypeInv
  BY TypeInit DEF TypeInv
<1>2. \A t \in Tasks : Role(t) = "none" /\ held[t] = {}
  BY DEF Init, Role, RoleOf
<1>3. \A b \in Buffers : bh[b].linked /\ bh[b].block = NoBlock /\ bh[b].count = 0
  BY DEF Init
<1>4. UseInv /\ OwnInv
  BY <1>2, <1>3 DEF UseInv, OwnInv, Owns
<1>5. UniqueInv
  BY <1>3 DEF UniqueInv, Linked
<1>6. CountExact
  <2>1. \A b \in Buffers : Counters(b) = {} /\ Holders(b) = {}
    BY <1>2 DEF Counters, Holders, CountedBy, Init
  <2>2. \A b \in Buffers : bh[b].count = Cardinality(Counters(b)) + Cardinality(Holders(b))
    BY <1>3, <2>1, FS_EmptySet
  <2>3. QED
    BY <2>2 DEF CountExact, Counters, Holders
<1>7. QED
  BY <1>1, <1>4, <1>5, <1>6, InitRing DEF CacheInv

(* The types and the invariant hold before and after every step.           *)
LEMMA CacheStep == TypeInv /\ CacheInv /\ [Next]_vars => (TypeInv /\ CacheInv)'
<1> SUFFICES ASSUME TypeInv, CacheInv, [Next]_vars
             PROVE  TypeInv' /\ CacheInv'
  OBVIOUS
<1>1. TypeInv'
  BY HeadStep, LocalStep, RestStep DEF TypeInv
<1>2. CASE Quiet
  BY <1>1, <1>2, QuietStep DEF TypeInv
<1>3. ASSUME NEW t \in Tasks,
             \/ FindHit(t) \/ Take(t) \/ Assign(t) \/ BreadReturn(t)
             \/ BreadFail(t) \/ BrelseReturn(t)
             \/ \E h \in held[t] : Brelse(t, h)
      PROVE  CacheInv'
  BY <1>1, <1>3, FindHitStep, TakeStep, AssignStep, BreadReturnStep, DropStep, BrelseStep
<1>4. QED
  BY <1>1, <1>2, <1>3, QuietNext
-----------------------------------------------------------------------------
(* Only getblk gives a buffer another block.                               *)
LEMMA BlocksKept ==
  ASSUME TypeInv, [Next]_vars, \A t \in Tasks : ~ Assign(t), NEW b \in Buffers
  PROVE  bh'[b].block = bh[b].block
<1>a. LocalInv /\ HeadInv
  BY DEF TypeInv
<1>1. CASE Quiet
  BY <1>1 DEF Quiet, SameLists
<1>2. ASSUME NEW t \in Tasks, NEW c \in Buffers, NEW k \in Int,
             bh' = [bh EXCEPT ![c].count = k]
      PROVE  bh'[b].block = bh[b].block
  BY <1>2, <1>a DEF HeadInv, AnyCount
<1>3. ASSUME NEW t \in Tasks, FindHit(t)
      PROVE  bh'[b].block = bh[b].block
  <2>1. PICK c \in Buffers : bh' = [bh EXCEPT ![c].count = @ + 1]
    BY <1>3 DEF FindHit, Found
  <2>2. bh[c].count + 1 \in Int
    BY <1>a DEF HeadInv, AnyCount
  <2>3. QED
    BY <1>2, <1>3, <2>1, <2>2
<1>4. ASSUME NEW t \in Tasks, BreadFail(t) \/ BrelseReturn(t)
      PROVE  bh'[b].block = bh[b].block
  <2>1. cur[t] \in Buffers
    BY <1>4, <1>a DEF BreadFail, BrelseReturn, Unlocked, At, LocalInv, CallOK
  <2>2. bh' = [bh EXCEPT ![cur[t]].count = @ - 1]
    BY <1>4 DEF BreadFail, BrelseReturn, Drop
  <2>3. bh[cur[t]].count - 1 \in Int
    BY <1>a, <2>1 DEF HeadInv, AnyCount
  <2>4. QED
    BY <1>2, <1>4, <2>1, <2>2, <2>3
<1>5. ASSUME NEW t \in Tasks, Take(t)
      PROVE  bh'[b].block = bh[b].block
  BY <1>5, <1>a, TakeEffect DEF HeadIs
<1>6. ASSUME NEW t \in Tasks, BreadReturn(t) \/ \E h \in held[t] : Brelse(t, h)
      PROVE  bh'[b].block = bh[b].block
  BY <1>6 DEF BreadReturn, Brelse
<1>7. QED
  BY <1>1, <1>3, <1>4, <1>5, <1>6, QuietNext

(* The history is about buffers that have a block.                         *)
HistInv ==
  /\ latest \subseteq Buffers /\ disk \subseteq Blocks
  /\ \A b \in latest : bh[b].block \in Blocks
  /\ Versions \/ latest = {}

(* What a step may do to the history: forget buffers and blocks, or add a  *)
(* buffer that has a block, or the block of a buffer.                      *)
LEMMA HistMoves ==
  ASSUME TypeInv, HistInv, [Next]_vars, \A t \in Tasks : ~ Assign(t)
  PROVE  /\ \A b \in latest' : b \in Buffers /\ bh[b].block \in Blocks
         /\ disk' \subseteq Blocks
         /\ Versions \/ latest' = {}
<1> DEFINE Good == /\ \A b \in latest' : b \in Buffers /\ bh[b].block \in Blocks
                   /\ disk' \subseteq Blocks
                   /\ Versions \/ latest' = {}
<1>1. ASSUME latest' \subseteq latest, disk' \subseteq Blocks
      PROVE  Good
  BY <1>1 DEF HistInv
<1>2. disk \subseteq Blocks
  BY DEF HistInv
<1>3. ASSUME UNCHANGED data
      PROVE  Good
  BY <1>1, <1>2, <1>3 DEF data
<1>4. ASSUME NEW t \in Tasks, NEW h \in held[t], Modify(t, h)
      PROVE  Good
  <2>1. latest' \subseteq latest /\ disk' \subseteq disk
    BY <1>4 DEF Modify, Remember, data
  <2>2. QED
    BY <1>1, <1>2, <2>1
<1>5. ASSUME NEW b \in Buffers, Transfer(b)
      PROVE  Good
  <2>1. b \in latest => bh[b].block \in Blocks
    BY DEF HistInv
  <2>2. latest' = latest /\ disk' \subseteq Blocks
    BY <1>2, <1>5, <2>1 DEF Transfer, Remember, data
  <2>3. QED
    BY <1>1, <2>2
<1>6. ASSUME NEW b \in Buffers, IoDone(b)
      PROVE  Good
  <2>1. CASE UNCHANGED data
    BY <1>3, <2>1
  <2>2. CASE ~ UNCHANGED data
    <3>1. Versions /\ disk' = disk
      BY <1>6, <2>2 DEF IoDone, Remember, data
    <3>2. latest' = latest \/ (latest' = latest \cup {b} /\ bh[b].block \in disk)
      BY <1>6, <2>2 DEF IoDone, Remember, data
    <3>3. QED
      BY <1>2, <3>1, <3>2 DEF HistInv
  <2>3. QED
    BY <2>1, <2>2
<1>7. ASSUME NEW b \in Buffers, IoError(b)
      PROVE  Good
  BY <1>3, <1>7 DEF IoError
<1>8. ASSUME NEW t \in Tasks,
             \/ WaitOnBuffer(t) \/ FindHit(t) \/ FindMiss(t) \/ HashReturn(t)
             \/ ScanNext(t) \/ ScanFree(t) \/ Take(t) \/ BreadReturn(t)
             \/ BreadStart(t) \/ BreadFail(t) \/ BrelseReturn(t)
             \/ SyncNext(t) \/ SyncWrite(t) \/ SyncDone(t)
             \/ Resume(t) \/ SysSync(t) \/ \E x \in Blocks : Bread(t, x)
             \/ \E h \in held[t] : Brelse(t, h)
      PROVE  Good
  <2>1. UNCHANGED data
    BY <1>8 DEF WaitOnBuffer, FindHit, FindMiss, HashReturn, ScanNext, ScanFree, Take,
                BreadReturn, BreadStart, BreadFail, BrelseReturn, SyncNext, SyncWrite,
                SyncDone, Resume, SysSync, Bread, Brelse
  <2>2. QED
    BY <1>3, <2>1
<1>9. ASSUME UNCHANGED vars
      PROVE  Good
  BY <1>3, <1>9 DEF vars, data
<1>10. Good
  <2> HIDE DEF Good
  <2>1. ASSUME NEW t \in Tasks, CallStep(t) \/ Resume(t) \/ CallerStep(t)
        PROVE  Good
    BY <1>4, <1>8, <2>1 DEF CallStep, CallerStep
  <2>2. QED
    BY <1>5, <1>6, <1>7, <1>9, <2>1 DEF Next, Disk
<1>11. QED
  BY <1>10

(* Every step keeps the histories in order. *)
LEMMA HistStep == TypeInv /\ HistInv /\ [Next]_vars => HistInv'
<1> SUFFICES ASSUME TypeInv, HistInv, [Next]_vars
             PROVE  HistInv'
  OBVIOUS
<1>a. LocalInv /\ HeadInv
  BY DEF TypeInv
<1>1. ASSUME NEW t \in Tasks, Assign(t)
      PROVE  HistInv'
  <2> DEFINE c == cur[t]
  <2>1. ASSUME NEW x \in Buffers, x # c
        PROVE  bh'[x].block = bh[x].block
    <3> DEFINE last == bh[free_list].prev_free
               missing == Found(want[t]) = {}
    <3>1. HeadIs(bh'[x],
                 IF x # c THEN bh[x].block
                 ELSE IF missing THEN want[t] ELSE NoBlock,
                 IF x = c /\ ~ missing THEN 0 ELSE bh[x].count,
                 IF x = c THEN FALSE ELSE bh[x].dirt, bh[x].lock,
                 IF x = c THEN TRUE ELSE bh[x].linked,
                 IF x = last THEN c
                 ELSE IF x = c THEN free_list ELSE bh[x].next_free,
                 IF x = free_list THEN c
                 ELSE IF x = c THEN last ELSE bh[x].prev_free)
      BY <1>1, <1>a, AssignEffect, Zenon
    <3>2. QED
      BY <2>1, <3>1 DEF HeadIs
  <2>2. CASE Versions
    <3>1. latest' = latest \ {c} /\ disk' = disk
      BY <1>1, <2>2 DEF Assign, Remember
    <3>2. QED
      BY <2>1, <2>2, <3>1 DEF HistInv
  <2>3. CASE ~ Versions
    <3>1. latest' = latest /\ disk' = disk
      BY <1>1, <2>3 DEF Assign, Remember, data
    <3>2. QED
      BY <2>3, <3>1 DEF HistInv
  <2>4. QED
    BY <2>2, <2>3
<1>2. ASSUME \A t \in Tasks : ~ Assign(t)
      PROVE  HistInv'
  <2>1. /\ \A b \in latest' : b \in Buffers /\ bh[b].block \in Blocks
        /\ disk' \subseteq Blocks
        /\ Versions \/ latest' = {}
    BY <1>2, HistMoves
  <2>2. \A b \in Buffers : bh'[b].block = bh[b].block
    BY <1>2, BlocksKept
  <2>3. QED
    BY <2>1, <2>2 DEF HistInv
<1>3. QED
  BY <1>1, <1>2
-----------------------------------------------------------------------------
(* The types, the uses, the owners, the counts and the lists agree in      *)
(* every state: the inductive invariant of the cache.                      *)
THEOREM CacheInvariant == Spec => [](TypeInv /\ CacheInv /\ HistInv)
<1>1. Init => TypeInv /\ CacheInv /\ HistInv
  <2>1. Init => HistInv
    BY DEF Init, HistInv
  <2>2. QED
    BY <2>1, InitCache
<1>2. TypeInv /\ CacheInv /\ HistInv /\ [Next]_vars => (TypeInv /\ CacheInv /\ HistInv)'
  BY CacheStep, HistStep
<1>3. QED
  BY <1>1, <1>2, PTL DEF Spec

(* Although getblk sleeps between looking for a block and entering it, no  *)
(* block is in two buffers, and every variable keeps its type, b_count     *)
(* among them, which never gets negative.                                  *)
THEOREM BlocksUnique == Spec => []OneBufferPerBlock
<1>1. TypeInv /\ CacheInv /\ HistInv => OneBufferPerBlock
  <2> SUFFICES ASSUME TypeInv, CacheInv, HistInv PROVE OneBufferPerBlock
    OBVIOUS
  <2>1. bh \in [Buffers -> BufferHead]
    <3>1. \A b \in Buffers : bh[b].count \in Nat
      <4> SUFFICES ASSUME NEW b \in Buffers PROVE bh[b].count \in Nat
        OBVIOUS
      <4>1. Counters(b) \in SUBSET Tasks /\ Holders(b) \in SUBSET Tasks
        BY DEF Counters, Holders
      <4>2. Cardinality(Counters(b)) \in Nat /\ Cardinality(Holders(b)) \in Nat
        BY <4>1, CacheAssumption, FS_Subset, FS_CardinalityType
      <4>3. bh[b].count = Cardinality(Counters(b)) + Cardinality(Holders(b))
        BY DEF CacheInv, CountExact, Counters, Holders
      <4>4. QED
        BY <4>2, <4>3
    <3>2. bh \in [Buffers -> AnyCount]
      BY DEF TypeInv, HeadInv
    <3>3. QED
      BY <3>1, <3>2 DEF AnyCount, BufferHead
  <2>2. TypeOK
    BY <2>1 DEF TypeOK, TypeInv, HeadInv, RestInv, LocalInv, HistInv
  <2>3. QED
    BY <2>2 DEF OneBufferPerBlock, CacheInv, UniqueInv
<1>2. QED
  BY <1>1, CacheInvariant, PTL

(* b_count is the number of those who use the buffer: the holders and the  *)
(* calls that have counted themselves, wherever they sleep.                *)
THEOREM UsersCounted == Spec => []CountExact
<1>1. TypeInv /\ CacheInv /\ HistInv => CountExact
  BY DEF CacheInv
<1>2. QED
  BY <1>1, CacheInvariant, PTL

(* The free list stays one ring through all the buffers but those that a   *)
(* sleeping getblk has taken out, for every number of buffers and tasks.   *)
THEOREM FreeListWhole == Spec => []FreeListIsRing
<1>1. TypeInv /\ CacheInv /\ HistInv => FreeListIsRing
  BY DEF CacheInv
<1>2. QED
  BY <1>1, CacheInvariant, PTL

(* Nobody reassigns a buffer in use: whoever holds a block, or waits for   *)
(* its transfer, has it in the buffer that bread gave him.                 *)
THEOREM HoldersSafe == Spec => []HeldIsRight
<1>1. TypeInv /\ CacheInv /\ HistInv => HeldIsRight
  <2> SUFFICES ASSUME CacheInv,
                      NEW t \in Tasks
               PROVE  /\ \A h \in held[t] : bh[h[2]].block = h[1] /\ bh[h[2]].linked
                      /\ pc[t] \in {"hashwait", "got", "readio"} => bh[cur[t]].block = want[t]
    BY DEF HeldIsRight
  <2>1. pc[t] \in {"hashwait", "got", "readio"} => Role(t) = "use"
    BY DEF Role, RoleOf
  <2>2. QED
    BY <2>1 DEF CacheInv, UseInv
<1>2. QED
  BY <1>1, CacheInvariant, PTL
-----------------------------------------------------------------------------
(* Buffers and the disk.  A buffer that its owner is about to reassign is  *)
(* neither locked nor dirty; this needs that no write fails, because       *)
(* sync_dev goes on past a buffer that a failed write has left dirty.      *)
CleanInv ==
  /\ \A b \in Buffers : bh[b].lock <=> io[b] # "none"
  /\ \A t \in Tasks : Role(t) = "own" =>
       /\ io[cur[t]] # "read"
       /\ pc[t] = "assign" \/ idx[t] > cur[t] => ~ bh[cur[t]].lock /\ ~ bh[cur[t]].dirt
       /\ pc[t] = "syncio" /\ idx[t] = cur[t] => bh[cur[t]].lock \/ ~ bh[cur[t]].dirt

(* What a step does to the flags of a buffer: nothing, the end of a        *)
(* transfer, its data going to the disk, the start of a transfer.          *)
SameFlags(b) ==
  /\ bh'[b].lock = bh[b].lock /\ bh'[b].dirt = bh[b].dirt /\ io'[b] = io[b]
Ends(b) == ~ bh'[b].lock /\ ~ bh'[b].dirt /\ io'[b] = "none"
Moved(b) ==
  /\ bh'[b].lock = bh[b].lock /\ bh'[b].dirt = bh[b].dirt
  /\ io[b] = "write" /\ io'[b] = "written"
Starts(b, kind) ==
  bh'[b].lock /\ bh'[b].dirt = bh[b].dirt /\ io'[b] = kind

(* The flags after each kind of step.                                      *)
(* A request locks its buffer, and one buffer only. *)
LEMMA StartFlags ==
  ASSUME HeadInv, RestInv, NEW b \in Buffers, NEW kind,
         bh' = [bh EXCEPT ![b].lock = TRUE], io' = [io EXCEPT ![b] = kind]
  PROVE  Starts(b, kind) /\ \A x \in Buffers \ {b} : SameFlags(x)
BY DEF HeadInv, RestInv, AnyCount, Starts, SameFlags

(* A transfer that succeeds unlocks its buffer, valid and clean. *)
LEMMA DoneFlags ==
  ASSUME HeadInv, RestInv, NEW b \in Buffers, IoDone(b)
  PROVE  Ends(b) /\ \A x \in Buffers \ {b} : SameFlags(x)
BY DEF IoDone, HeadInv, RestInv, AnyCount, Ends, SameFlags

(* A transfer that fails unlocks its buffer, not valid. *)
LEMMA ErrorFlags ==
  ASSUME HeadInv, RestInv, NEW b \in Buffers, IoError(b)
  PROVE  /\ ~ bh'[b].lock /\ io'[b] = "none" /\ io[b] \in Failing
         /\ \A x \in Buffers \ {b} : SameFlags(x)
BY DEF IoError, HeadInv, RestInv, AnyCount, SameFlags

(* While the data move the flags stay. *)
LEMMA TransferFlags ==
  ASSUME HeadInv, RestInv, NEW b \in Buffers, Transfer(b)
  PROVE  Moved(b) /\ \A x \in Buffers \ {b} : SameFlags(x)
BY DEF Transfer, RestInv, Moved, SameFlags

(* A user makes its own buffer dirty and no other. *)
LEMMA ModifyFlags ==
  ASSUME HeadInv, NEW t \in Tasks, NEW h \in held[t], h[2] \in Buffers, Modify(t, h)
  PROVE  /\ bh'[h[2]].lock = bh[h[2]].lock /\ io' = io
         /\ \A x \in Buffers \ {h[2]} : SameFlags(x)
<1>1. PICK b \in Buffers : b = h[2]
  OBVIOUS
<1>2. bh' = [bh EXCEPT ![b].dirt = TRUE] /\ io' = io
  BY <1>1 DEF Modify
<1>3. /\ bh'[b].lock = bh[b].lock
      /\ \A x \in Buffers \ {b} : SameFlags(x)
  BY <1>2 DEF HeadInv, AnyCount, SameFlags
<1>4. QED
  BY <1>1, <1>2, <1>3

(* Counting a buffer leaves its flags. *)
LEMMA CountFlags ==
  ASSUME HeadInv, NEW b \in Buffers, NEW k \in Int,
         bh' = [bh EXCEPT ![b].count = k], io' = io
  PROVE  \A x \in Buffers : SameFlags(x)
BY DEF HeadInv, AnyCount, SameFlags

(* All other steps leave the flags, but for the buffer that is reassigned. *)
LEMMA OtherFlags ==
  ASSUME TypeInv, NEW t \in Tasks,
         \/ WaitOnBuffer(t) \/ FindHit(t) \/ FindMiss(t) \/ HashReturn(t)
         \/ ScanNext(t) \/ ScanFree(t) \/ Take(t) \/ BreadReturn(t)
         \/ BreadFail(t) \/ BrelseReturn(t) \/ SyncNext(t) \/ SyncDone(t)
         \/ Resume(t) \/ SysSync(t) \/ \E x \in Blocks : Bread(t, x)
         \/ \E h \in held[t] : Brelse(t, h)
  PROVE  \A x \in Buffers : SameFlags(x)
<1>a. LocalInv /\ HeadInv
  BY DEF TypeInv
<1>1. CASE FindHit(t)
  <2>1. PICK b \in Buffers : bh' = [bh EXCEPT ![b].count = @ + 1] /\ io' = io
    BY <1>1 DEF FindHit, Found
  <2>2. bh[b].count + 1 \in Int
    BY <1>a DEF HeadInv, AnyCount
  <2>3. QED
    BY <1>a, <2>1, <2>2, CountFlags
<1>2. CASE BreadFail(t) \/ BrelseReturn(t)
  <2>1. cur[t] \in Buffers
    BY <1>2, <1>a DEF BreadFail, BrelseReturn, Unlocked, At, LocalInv, CallOK
  <2>2. bh' = [bh EXCEPT ![cur[t]].count = @ - 1] /\ io' = io
    BY <1>2 DEF BreadFail, BrelseReturn, Drop
  <2>3. bh[cur[t]].count - 1 \in Int
    BY <1>a, <2>1 DEF HeadInv, AnyCount
  <2>4. QED
    BY <1>a, <2>1, <2>2, <2>3, CountFlags
<1>3. CASE Take(t)
  <2>1. \A x \in Buffers : bh'[x].lock = bh[x].lock /\ bh'[x].dirt = bh[x].dirt
    BY <1>3, <1>a, TakeEffect DEF HeadIs
  <2>2. QED
    BY <1>3, <2>1 DEF Take, SameFlags
<1>4. CASE \/ WaitOnBuffer(t) \/ FindMiss(t) \/ HashReturn(t)
           \/ ScanNext(t) \/ ScanFree(t) \/ BreadReturn(t)
           \/ SyncNext(t) \/ SyncDone(t)
           \/ Resume(t) \/ SysSync(t) \/ \E x \in Blocks : Bread(t, x)
           \/ \E h \in held[t] : Brelse(t, h)
  <2>1. UNCHANGED <<bh, io>>
    BY <1>4 DEF WaitOnBuffer, FindMiss, HashReturn, ScanNext, ScanFree, BreadReturn,
                SyncNext, SyncDone, Resume, SysSync, Bread, Brelse
  <2>2. QED
    BY <2>1 DEF SameFlags
<1>5. QED
  BY <1>1, <1>2, <1>3, <1>4

(* Reassigning a buffer leaves the flags of the others. *)
LEMMA AssignFlags ==
  ASSUME TypeInv, NEW t \in Tasks, Assign(t), NEW x \in Buffers
  PROVE  /\ bh'[x].lock = bh[x].lock /\ io' = io
         /\ x # cur[t] => SameFlags(x) /\ bh'[x].block = bh[x].block
<1> DEFINE c == cur[t]
           last == bh[free_list].prev_free
           missing == Found(want[t]) = {}
<1>1. HeadIs(bh'[x],
             IF x # c THEN bh[x].block
             ELSE IF missing THEN want[t] ELSE NoBlock,
             IF x = c /\ ~ missing THEN 0 ELSE bh[x].count,
             IF x = c THEN FALSE ELSE bh[x].dirt, bh[x].lock,
             IF x = c THEN TRUE ELSE bh[x].linked,
             IF x = last THEN c
             ELSE IF x = c THEN free_list ELSE bh[x].next_free,
             IF x = free_list THEN c
             ELSE IF x = c THEN last ELSE bh[x].prev_free)
  <2>1. HeadInv /\ LocalInv
    BY DEF TypeInv
  <2>2. QED
    BY <2>1, AssignEffect, Zenon
<1>2. io' = io
  BY DEF Assign
<1> HIDE DEF c, last, missing
<1>3. bh'[x].lock = bh[x].lock
  BY <1>1 DEF HeadIs
<1>4. x # c => bh'[x].dirt = bh[x].dirt /\ bh'[x].block = bh[x].block
  BY <1>1 DEF HeadIs
<1>5. QED
  BY <1>2, <1>3, <1>4 DEF SameFlags, c
(* No step makes a buffer that somebody has taken out dirty, or reads it.  *)
LEMMA OwnedFlags ==
  ASSUME TypeInv, CacheInv, CleanInv, "write" \notin Failing, [Next]_vars,
         NEW u \in Tasks, NEW b \in Buffers, Owns(u, b), ~ Assign(u)
  PROVE  SameFlags(b) \/ Ends(b) \/ Moved(b) \/ (bh[b].dirt /\ Starts(b, "write"))
<1>a. LocalInv /\ HeadInv /\ RestInv
  BY DEF TypeInv
<1>b. ~ bh[b].linked
  BY DEF Owns, CacheInv, OwnInv
<1>c. io[b] # "read"
  BY DEF Owns, CleanInv
<1>1. ASSUME NEW t \in Tasks, BreadStart(t)
      PROVE  SameFlags(b)
  <2>1. Role(t) = "use"
    BY <1>1 DEF BreadStart, At, Role, RoleOf
  <2>2. bh[cur[t]].linked /\ cur[t] \in Buffers
    BY <2>1, <1>a, RoleBuffer DEF CacheInv, UseInv
  <2>3. /\ bh' = [bh EXCEPT ![cur[t]].lock = TRUE]
        /\ io' = [io EXCEPT ![cur[t]] = "read"]
    BY <1>1 DEF BreadStart, StartIo
  <2>4. \A x \in Buffers \ {cur[t]} : SameFlags(x)
    BY <2>2, <2>3, <1>a, StartFlags
  <2>5. QED
    BY <1>b, <2>2, <2>4
<1>2. ASSUME NEW t \in Tasks, SyncWrite(t)
      PROVE  SameFlags(b) \/ (bh[b].dirt /\ Starts(b, "write"))
  <2>1. /\ idx[t] \in Buffers /\ bh[idx[t]].dirt
        /\ bh' = [bh EXCEPT ![idx[t]].lock = TRUE]
        /\ io' = [io EXCEPT ![idx[t]] = "write"]
    BY <1>2 DEF SyncWrite, StartIo
  <2>2. Starts(idx[t], "write") /\ \A x \in Buffers \ {idx[t]} : SameFlags(x)
    BY <2>1, <1>a, StartFlags
  <2>3. QED
    BY <2>1, <2>2
<1>3. ASSUME NEW t \in Tasks, NEW h \in held[t], Modify(t, h)
      PROVE  SameFlags(b)
  <2>1. h[2] \in Buffers /\ bh[h[2]].linked
    BY <1>a, RoleBuffer DEF CacheInv, UseInv
  <2>2. \A x \in Buffers \ {h[2]} : SameFlags(x)
    BY <1>3, <1>a, <2>1, ModifyFlags
  <2>3. QED
    BY <1>b, <2>1, <2>2
<1>4. ASSUME NEW c \in Buffers, IoDone(c)
      PROVE  SameFlags(b) \/ Ends(b)
  BY <1>4, <1>a, DoneFlags
<1>5. ASSUME NEW c \in Buffers, IoError(c)
      PROVE  SameFlags(b)
  <2>1. io[c] \in Failing /\ \A x \in Buffers \ {c} : SameFlags(x)
    BY <1>5, <1>a, ErrorFlags
  <2>2. io[c] = "read"
    BY <2>1, CacheAssumption
  <2>3. QED
    BY <1>c, <2>1, <2>2
<1>6. ASSUME NEW c \in Buffers, Transfer(c)
      PROVE  SameFlags(b) \/ Moved(b)
  BY <1>6, <1>a, TransferFlags
<1>7. ASSUME NEW t \in Tasks, Assign(t)
      PROVE  SameFlags(b)
  <2>1. t # u
    BY <1>7
  <2>2. Role(t) = "own" /\ cur[t] \in Buffers
    BY <1>7, <1>a, RoleBuffer DEF Assign, At, Role, RoleOf, LocalInv, CallOK
  <2>3. cur[t] # b
    BY <2>1, <2>2 DEF Owns, CacheInv, OwnInv
  <2>4. QED
    BY <1>7, <2>3, AssignFlags
<1>8. ASSUME UNCHANGED vars
      PROVE  SameFlags(b)
  BY <1>8 DEF vars, SameFlags
<1>9. ASSUME NEW t \in Tasks, CallStep(t) \/ Resume(t) \/ CallerStep(t)
      PROVE  SameFlags(b) \/ (bh[b].dirt /\ Starts(b, "write"))
  <2>1. CASE \/ WaitOnBuffer(t) \/ FindHit(t) \/ FindMiss(t) \/ HashReturn(t)
             \/ ScanNext(t) \/ ScanFree(t) \/ Take(t) \/ BreadReturn(t)
             \/ BreadFail(t) \/ BrelseReturn(t) \/ SyncNext(t) \/ SyncDone(t)
             \/ Resume(t) \/ SysSync(t) \/ \E x \in Blocks : Bread(t, x)
             \/ \E h \in held[t] : Brelse(t, h)
    BY <2>1, OtherFlags
  <2>2. QED
    BY <1>1, <1>2, <1>3, <1>7, <1>9, <2>1 DEF CallStep, CallerStep
<1>10. QED
  BY <1>4, <1>5, <1>6, <1>8, <1>9 DEF Next, Disk

(* A buffer is locked while the disk has it.                               *)
LEMMA LockStep ==
  ASSUME TypeInv, CleanInv, [Next]_vars, NEW b \in Buffers
  PROVE  bh'[b].lock <=> io'[b] # "none"
<1>a. LocalInv /\ HeadInv /\ RestInv
  BY DEF TypeInv
<1>b. bh[b].lock <=> io[b] # "none"
  BY DEF CleanInv
<1> DEFINE Good == bh'[b].lock <=> io'[b] # "none"
<1>c. ASSUME SameFlags(b)
      PROVE  Good
  BY <1>b, <1>c DEF SameFlags
<1>1. ASSUME NEW c \in Buffers, NEW kind \in {"read", "write"},
             bh' = [bh EXCEPT ![c].lock = TRUE], io' = [io EXCEPT ![c] = kind]
      PROVE  Good
  <2>1. Starts(c, kind) /\ \A x \in Buffers \ {c} : SameFlags(x)
    BY <1>1, <1>a, StartFlags
  <2>2. QED
    BY <1>c, <2>1 DEF Starts
<1>2. ASSUME NEW t \in Tasks, BreadStart(t) \/ SyncWrite(t)
      PROVE  Good
  <2>1. \E c \in Buffers, kind \in {"read", "write"} :
          bh' = [bh EXCEPT ![c].lock = TRUE] /\ io' = [io EXCEPT ![c] = kind]
    BY <1>2, <1>a DEF BreadStart, SyncWrite, StartIo, At, LocalInv, CallOK
  <2>2. QED
    BY <1>1, <2>1
<1>3. ASSUME NEW t \in Tasks, NEW h \in held[t], Modify(t, h)
      PROVE  Good
  <2>1. h[2] \in Buffers
    BY <1>a, RoleBuffer
  <2>2. /\ bh'[h[2]].lock = bh[h[2]].lock /\ io' = io
        /\ \A x \in Buffers \ {h[2]} : SameFlags(x)
    BY <1>3, <1>a, <2>1, ModifyFlags
  <2>3. QED
    BY <1>b, <1>c, <2>1, <2>2
<1>4. ASSUME NEW c \in Buffers, IoDone(c) \/ IoError(c) \/ Transfer(c)
      PROVE  Good
  <2>1. CASE IoDone(c)
    BY <1>c, <1>a, <2>1, DoneFlags DEF Ends
  <2>2. CASE IoError(c)
    BY <1>c, <1>a, <2>2, ErrorFlags
  <2>3. CASE Transfer(c)
    BY <1>b, <1>c, <1>a, <2>3, TransferFlags DEF Moved
  <2>4. QED
    BY <1>4, <2>1, <2>2, <2>3
<1>5. ASSUME NEW t \in Tasks, Assign(t)
      PROVE  Good
  BY <1>5, <1>b, AssignFlags
<1>6. ASSUME UNCHANGED vars
      PROVE  Good
  BY <1>6, <1>c DEF vars, SameFlags
<1>7. ASSUME NEW t \in Tasks, CallStep(t) \/ Resume(t) \/ CallerStep(t)
      PROVE  Good
  <2>1. CASE \/ WaitOnBuffer(t) \/ FindHit(t) \/ FindMiss(t) \/ HashReturn(t)
             \/ ScanNext(t) \/ ScanFree(t) \/ Take(t) \/ BreadReturn(t)
             \/ BreadFail(t) \/ BrelseReturn(t) \/ SyncNext(t) \/ SyncDone(t)
             \/ Resume(t) \/ SysSync(t) \/ \E x \in Blocks : Bread(t, x)
             \/ \E h \in held[t] : Brelse(t, h)
    BY <1>c, <2>1, OtherFlags
  <2> HIDE DEF Good
  <2>2. QED
    BY <1>2, <1>3, <1>5, <1>7, <2>1 DEF CallStep, CallerStep
<1>8. Good
  <2> HIDE DEF Good
  <2>1. QED
    BY <1>4, <1>6, <1>7 DEF Next, Disk
<1>9. QED
  BY <1>8
(* A task that has taken out a buffer after a step had it before and stays *)
(* where it is, or it takes one out or goes on in sync_dev.                *)
LEMMA OwnerMoves ==
  ASSUME TypeInv, [Next]_vars, NEW u \in Tasks, Role(u)' = "own"
  PROVE  \/ Take(u) \/ SyncNext(u) \/ SyncWrite(u) \/ SyncDone(u)
         \/ /\ Role(u) = "own" /\ ~ Assign(u)
            /\ pc'[u] = pc[u] /\ idx'[u] = idx[u] /\ cur'[u] = cur[u]
<1> USE DEF Go, Point, At, Unlocked
<1>a. /\ pc \in [Tasks -> Places] /\ want \in [Tasks -> Blocks \cup {NoBlock}]
      /\ cur \in [Tasks -> Buffers \cup {NoBuffer}]
      /\ idx \in [Tasks -> 0 .. NR_BUFFERS + 1]
  BY DEF TypeInv, LocalInv
<1>b. pc'[u] \in {"sync", "syncio", "assign"} /\ want'[u] # NoBlock
  BY DEF Role, RoleOf
<1> DEFINE Same == /\ pc'[u] = pc[u] /\ want'[u] = want[u]
                   /\ idx'[u] = idx[u] /\ cur'[u] = cur[u]
<1>c. ASSUME Same, ~ Assign(u)
      PROVE  /\ Role(u) = "own" /\ ~ Assign(u)
             /\ pc'[u] = pc[u] /\ idx'[u] = idx[u] /\ cur'[u] = cur[u]
  BY <1>c DEF Role
<1>d. Assign(u) => FALSE
  <2>1. Assign(u) => pc'[u] \in {"got", "find"}
    BY <1>a DEF Assign
  <2>2. QED
    BY <1>b, <2>1
<1>1. ASSUME NEW t \in Tasks, t # u, CallStep(t)
      PROVE  Same
  <2>1. CASE WaitOnBuffer(t) \/ FindHit(t) \/ FindMiss(t) \/ HashReturn(t)
    BY <1>1, <1>a, <2>1 DEF WaitOnBuffer, SleepIn, FindHit, FindMiss, HashReturn
  <2>2. CASE ScanNext(t) \/ ScanFree(t)
    BY <1>1, <1>a, <2>2 DEF ScanNext, SleepIn, ScanFree
  <2>3. CASE Take(t)
    BY <1>1, <1>a, <2>3 DEF Take
  <2>4. CASE Assign(t)
    BY <1>1, <1>a, <2>4 DEF Assign
  <2>5. CASE BreadReturn(t) \/ BreadFail(t) \/ BrelseReturn(t)
    BY <1>1, <1>a, <2>5 DEF BreadReturn, BreadFail, BrelseReturn, BackToCaller
  <2>6. CASE BreadStart(t) \/ SyncWrite(t)
    BY <1>1, <1>a, <2>6 DEF BreadStart, SyncWrite, StartIo
  <2>7. CASE SyncNext(t)
    BY <1>1, <1>a, <2>7 DEF SyncNext
  <2>8. CASE SyncDone(t)
    BY <1>1, <1>a, <2>8 DEF SyncDone, BackToCaller
  <2>9. QED
    BY <1>1, <2>1, <2>2, <2>3, <2>4, <2>5, <2>6, <2>7, <2>8 DEF CallStep
<1>2. ASSUME NEW t \in Tasks, t # u, Resume(t) \/ CallerStep(t)
      PROVE  Same
  BY <1>2, <1>a DEF Resume, CallerStep, Bread, Modify, Brelse, SysSync
<1>3. ASSUME CallStep(u) \/ Resume(u) \/ CallerStep(u)
      PROVE  Take(u) \/ SyncNext(u) \/ SyncWrite(u) \/ SyncDone(u) \/ Same
  <2>1. CASE FindHit(u) \/ FindMiss(u) \/ HashReturn(u)
    <3>1. pc'[u] \in {"hashwait", "scan", "got"}
      BY <1>a, <2>1 DEF FindHit, FindMiss, HashReturn
    <3>2. QED
      BY <1>b, <3>1
  <2>2. CASE ScanNext(u) \/ ScanFree(u)
    <3>1. pc'[u] \in {"scan", "bufwait", "scanwait"}
      BY <1>a, <2>2 DEF ScanNext, SleepIn, ScanFree
    <3>2. QED
      BY <1>b, <3>1
  <2>3. CASE BreadReturn(u) \/ BreadFail(u) \/ BrelseReturn(u) \/ BreadStart(u)
    <3>1. pc'[u] \in {"user", "readio"}
      BY <1>a, <2>3 DEF BreadReturn, BreadFail, BrelseReturn, BackToCaller,
                        BreadStart, StartIo
    <3>2. QED
      BY <1>b, <3>1
  <2>4. CASE WaitOnBuffer(u)
    BY <1>a, <2>4 DEF WaitOnBuffer, SleepIn
  <2>5. CASE Resume(u)
    <3>1. /\ pc'[u] = IF pc[u] = "bufwait" THEN "find" ELSE pc[u]
          /\ UNCHANGED <<want, cur, idx>>
      BY <1>a, <2>5 DEF Resume
    <3>2. QED
      BY <1>b, <3>1
  <2>6. CASE CallerStep(u)
    <3>1. ASSUME NEW x \in Blocks, Bread(u, x)
          PROVE  FALSE
      <4>1. pc'[u] = "find"
        BY <1>a, <3>1 DEF Bread
      <4>2. QED
        BY <1>b, <4>1
    <3>2. ASSUME NEW h \in held[u], Brelse(u, h)
          PROVE  FALSE
      <4>1. pc'[u] = "release"
        BY <1>a, <3>2 DEF Brelse
      <4>2. QED
        BY <1>b, <4>1
    <3>3. ASSUME NEW h \in held[u], Modify(u, h)
          PROVE  Same
      BY <3>3 DEF Modify
    <3>4. ASSUME SysSync(u)
          PROVE  FALSE
      <4>1. CallOK(pc[u], want[u], cur[u], idx[u], held[u])
        BY DEF TypeInv, LocalInv
      <4>2. want'[u] = NoBlock
        BY <3>4, <4>1, SMTT(30) DEF SysSync, InCaller, CallOK
      <4>3. QED
        BY <1>b, <4>2
    <3> HIDE DEF Same
    <3>5. QED
      BY <2>6, <3>1, <3>2, <3>3, <3>4 DEF CallerStep
  <2> HIDE DEF Same
  <2>7. QED
    BY <1>3, <1>d, <2>1, <2>2, <2>3, <2>4, <2>5, <2>6 DEF CallStep
<1>4. ASSUME Disk \/ UNCHANGED vars
      PROVE  Same
  BY <1>4 DEF Disk, Transfer, IoDone, IoError, vars
<1>5. Take(u) \/ SyncNext(u) \/ SyncWrite(u) \/ SyncDone(u) \/ Same
  <2> HIDE DEF Same
  <2>1. ASSUME NEW t \in Tasks, CallStep(t) \/ Resume(t) \/ CallerStep(t)
        PROVE  Take(u) \/ SyncNext(u) \/ SyncWrite(u) \/ SyncDone(u) \/ Same
    <3>1. CASE t = u
      BY <1>3, <2>1, <3>1
    <3>2. CASE t # u
      BY <1>1, <1>2, <2>1, <3>2
    <3>3. QED
      BY <3>1, <3>2
  <2>2. QED
    BY <1>4, <2>1 DEF Next
<1>6. QED
  BY <1>c, <1>d, <1>5
(* A buffer a task has taken stays clean and unlocked, once sync_dev has *)
(* written it, until it is assigned.                                     *)
LEMMA CleanStep ==
  ASSUME TypeInv, CacheInv, CleanInv, "write" \notin Failing, [Next]_vars
  PROVE  CleanInv'
<1>a. LocalInv /\ HeadInv /\ RestInv
  BY DEF TypeInv
<1>1. \A b \in Buffers : bh'[b].lock <=> io'[b] # "none"
  BY LockStep
<1>2. ASSUME NEW u \in Tasks, Role(u)' = "own"
      PROVE  /\ io'[cur'[u]] # "read"
             /\ pc'[u] = "assign" \/ idx'[u] > cur'[u]
                  => ~ bh'[cur'[u]].lock /\ ~ bh'[cur'[u]].dirt
             /\ pc'[u] = "syncio" /\ idx'[u] = cur'[u]
                  => bh'[cur'[u]].lock \/ ~ bh'[cur'[u]].dirt
  <2>0. /\ pc \in [Tasks -> Places] /\ want \in [Tasks -> Blocks \cup {NoBlock}]
        /\ cur \in [Tasks -> Buffers \cup {NoBuffer}]
        /\ idx \in [Tasks -> 0 .. NR_BUFFERS + 1]
    BY <1>a DEF LocalInv
  <2>1. CASE Take(u)
    <3>1. PICK b \in Buffers : b = cur[u] /\ ~ bh[b].lock
      BY <1>a, <2>1, TakeEffect
    <3>2. io[b] = "none"
      BY <3>1 DEF CleanInv
    <3>3. SameFlags(b)
      BY <2>1, OtherFlags
    <3>4. cur'[u] = b
      BY <2>1, <3>1 DEF Take
    <3>5. \/ pc'[u] = "sync" /\ idx'[u] = 1
          \/ pc'[u] = "assign" /\ ~ bh[b].dirt
      BY <2>0, <2>1, <3>1 DEF Take, Go
    <3>6. b \in Nat /\ b >= 1
      BY CacheAssumption DEF Buffers
    <3>7. QED
      BY <3>1, <3>2, <3>3, <3>4, <3>5, <3>6 DEF SameFlags
  <2>2. CASE SyncNext(u) \/ SyncWrite(u) \/ SyncDone(u)
    <3>1. want'[u] = want[u] /\ pc[u] \in {"sync", "syncio"} /\ cur'[u] = cur[u]
      <4>1. want'[u] # NoBlock
        BY <1>2 DEF Role, RoleOf
      <4>2. QED
        BY <2>0, <2>2, <4>1 DEF SyncNext, SyncWrite, SyncDone, StartIo, Go, At, Unlocked,
                                BackToCaller
    <3>2. Role(u) = "own"
      BY <1>2, <3>1 DEF Role, RoleOf
    <3>3. PICK b \in Buffers : b = cur[u]
      BY <1>a, <3>2, RoleBuffer
    <3>4. /\ io[b] # "read"
          /\ idx[u] > b => ~ bh[b].lock /\ ~ bh[b].dirt
          /\ pc[u] = "syncio" /\ idx[u] = b => bh[b].lock \/ ~ bh[b].dirt
      BY <3>2, <3>3 DEF CleanInv
    <3>5. b \in 1 .. NR_BUFFERS /\ idx[u] \in 0 .. NR_BUFFERS + 1 /\ NR_BUFFERS \in Nat
      BY <2>0, CacheAssumption DEF Buffers
    <3>6. CASE SyncNext(u)
      <4>1. SameFlags(b)
        BY <3>6, OtherFlags
      <4>2. pc'[u] = "sync" /\ idx'[u] = idx[u] + 1
        BY <2>0, <3>6 DEF SyncNext, Go
      <4>3. \/ pc[u] = "syncio" /\ ~ bh[idx[u]].lock
            \/ ~ bh[idx[u]].lock /\ ~ bh[idx[u]].dirt
        BY <3>6 DEF SyncNext, Unlocked, At, Awaited
      <4>4. idx'[u] > b => ~ bh[b].lock /\ ~ bh[b].dirt
        <5>1. CASE idx[u] = b
          BY <3>4, <4>3, <5>1
        <5>2. CASE idx[u] # b
          BY <3>4, <3>5, <4>2, <5>2
        <5>3. QED
          BY <5>1, <5>2
      <4>5. QED
        BY <3>1, <3>3, <3>4, <4>1, <4>2, <4>4 DEF SameFlags
    <3>7. CASE SyncWrite(u)
      <4>1. /\ pc'[u] = "syncio" /\ idx'[u] = idx[u] /\ idx[u] \in Buffers
            /\ bh' = [bh EXCEPT ![idx[u]].lock = TRUE]
            /\ io' = [io EXCEPT ![idx[u]] = "write"]
        BY <2>0, <3>7 DEF SyncWrite, StartIo, Go
      <4>2. Starts(idx[u], "write") /\ \A x \in Buffers \ {idx[u]} : SameFlags(x)
        BY <1>a, <4>1, StartFlags
      <4>3. CASE idx[u] = b
        BY <3>1, <3>3, <3>5, <4>1, <4>2, <4>3 DEF Starts
      <4>4. CASE idx[u] # b
        BY <3>1, <3>3, <3>4, <4>1, <4>2, <4>4 DEF SameFlags
      <4>5. QED
        BY <4>3, <4>4
    <3>8. CASE SyncDone(u)
      <4>1. SameFlags(b)
        BY <3>8, OtherFlags
      <4>2. CallOK(pc[u], want[u], cur[u], idx[u], held[u])
        BY <1>a DEF LocalInv
      <4>3. pc[u] = "sync" /\ idx[u] \in 1 .. NR_BUFFERS + 1 /\ idx[u] \notin Buffers
        BY <3>8, <4>2 DEF SyncDone, At, CallOK
      <4>4. idx[u] > b
        BY <3>5, <4>3 DEF Buffers
      <4>5. pc'[u] # "syncio"
        BY <2>0, <3>8 DEF SyncDone, BackToCaller, Go
      <4>6. QED
        BY <3>1, <3>3, <3>4, <4>1, <4>4, <4>5 DEF SameFlags
    <3>9. QED
      BY <2>2, <3>6, <3>7, <3>8
  <2>3. CASE /\ Role(u) = "own" /\ ~ Assign(u)
             /\ pc'[u] = pc[u] /\ idx'[u] = idx[u] /\ cur'[u] = cur[u]
    <3>1. PICK b \in Buffers : b = cur[u]
      BY <1>a, <2>3, RoleBuffer
    <3>2. SameFlags(b) \/ Ends(b) \/ Moved(b) \/ (bh[b].dirt /\ Starts(b, "write"))
      BY <2>3, <3>1, OwnedFlags DEF Owns
    <3>3. /\ io[b] # "read"
          /\ pc[u] = "assign" \/ idx[u] > b => ~ bh[b].lock /\ ~ bh[b].dirt
          /\ pc[u] = "syncio" /\ idx[u] = b => bh[b].lock \/ ~ bh[b].dirt
      BY <2>3, <3>1 DEF CleanInv
    <3>4. QED
      BY <2>3, <3>1, <3>2, <3>3 DEF SameFlags, Ends, Moved, Starts
  <2>4. QED
    BY <1>2, <2>1, <2>2, <2>3, OwnerMoves
<1>3. QED
  BY <1>1, <1>2 DEF CleanInv

(* Where no write fails, the disk never has a buffer whose block is being  *)
(* changed: what it transfers goes where the request was for.              *)
THEOREM RequestsKeepBlocks ==
  ASSUME "write" \notin Failing
  PROVE  Spec => BusyKeepsBlock
<1>1. Init => CleanInv
  BY DEF Init, CleanInv, Role, RoleOf
<1>2. TypeInv /\ CacheInv /\ HistInv /\ CleanInv /\ [Next]_vars => CleanInv'
  BY CleanStep
<1>3. TypeInv /\ CacheInv /\ HistInv /\ CleanInv /\ [Next]_vars =>
        [\A b \in Buffers : bh[b].lock /\ bh'[b].lock => bh'[b].block = bh[b].block]_vars
  <2> SUFFICES ASSUME TypeInv, CacheInv, CleanInv, [Next]_vars,
                      NEW b \in Buffers, bh[b].lock, bh'[b].lock
               PROVE  bh'[b].block = bh[b].block
    OBVIOUS
  <2>1. ASSUME NEW t \in Tasks, Assign(t)
        PROVE  bh'[b].block = bh[b].block
    <3>1. Role(t) = "own" /\ pc[t] = "assign"
      BY <2>1 DEF Assign, At, Role, RoleOf, TypeInv, LocalInv, CallOK
    <3>2. b # cur[t]
      BY <3>1 DEF CleanInv
    <3>3. QED
      BY <2>1, <3>2, AssignFlags
  <2>2. QED
    BY <2>1, BlocksKept
<1>4. QED
  BY <1>1, <1>2, <1>3, CacheInvariant, PTL DEF Spec, BusyKeepsBlock
=============================================================================
