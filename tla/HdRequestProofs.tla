---------------------------- MODULE HdRequestProofs ----------------------------
(***************************************************************************)
(* For every number of tasks, buffers and request slots, every order of    *)
(* the blocks and every pattern of failures: the request queue of          *)
(* kernel/hd.c loses no request, has a request for every locked buffer, an *)
(* interrupt finds its handler, and what is left valid was moved whole.    *)
(***************************************************************************)
EXTENDS HdRequest, FiniteSetTheorems, TLAPS

(* The operators of WaitQueue.tla keep the record well formed, and so do   *)
(* the three assignments that sleep_on is taken apart into.                *)
LEMMA WaitStateClosed ==
  ASSUME NEW w \in WaitState
  PROVE  /\ \A q \in Queues : WakeUp(w, q) \in WaitState
         /\ \A t \in Tasks : WakeBehind(w, t) \in WaitState
         /\ \A t \in Tasks, q \in Queues :
              /\ SleepOn(w, t, q, "UNINTERRUPTIBLE") \in WaitState
              /\ [w EXCEPT !.tmp[t] = w.head[q]] \in WaitState
              /\ [w EXCEPT !.head[q] = t] \in WaitState
              /\ [w EXCEPT !.state[t] = "UNINTERRUPTIBLE"] \in WaitState
<1>1. ASSUME NEW q \in Queues PROVE WakeUp(w, q) \in WaitState
  BY NoTaskAssumption DEF WakeUp, Awaken, WaitState, MaybeTask, TaskStates
<1>2. ASSUME NEW t \in Tasks PROVE WakeBehind(w, t) \in WaitState
  BY NoTaskAssumption DEF WakeBehind, Awaken, WaitState, MaybeTask, TaskStates
<1>3. ASSUME NEW t \in Tasks, NEW q \in Queues
      PROVE /\ SleepOn(w, t, q, "UNINTERRUPTIBLE") \in WaitState
            /\ [w EXCEPT !.tmp[t] = w.head[q]] \in WaitState
            /\ [w EXCEPT !.head[q] = t] \in WaitState
            /\ [w EXCEPT !.state[t] = "UNINTERRUPTIBLE"] \in WaitState
  BY DEF SleepOn, WaitState, MaybeTask, TaskStates
<1>4. QED
  BY <1>1, <1>2, <1>3

(* No slot is the null pointer, and no buffer either.                      *)
LEMMA NoneIsNone ==
  /\ NoSlot \notin Requests /\ NoBuffer \notin Buffers
  /\ wait_for_request \in Queues /\ Buffers \subseteq Queues
BY HdAssumption DEF NoSlot, Requests
-----------------------------------------------------------------------------
(* The driver seen as its fields.                                          *)
Fields(h, wq, lock, uptodate, moved, slot, this, sorting, do_hd, dev) ==
  /\ h.wq = wq /\ h.lock = lock /\ h.uptodate = uptodate /\ h.moved = moved
  /\ h.slot = slot /\ h.this = this /\ h.sorting = sorting
  /\ h.do_hd = do_hd /\ h.dev = dev

Commandable == {"idle", "specify"}

UsedOf(h) == {s \in Requests : h.slot[s].used}

(* The links: this_request and what follows a request in use are in use,   *)
(* and no request follows two or leads back to this_request.               *)
ListOK(h) ==
  /\ h.this # NoSlot => h.this \in UsedOf(h)
  /\ \A s \in UsedOf(h) : h.slot[s].next # NoSlot =>
       h.slot[s].next \in UsedOf(h) /\ h.slot[s].next # h.this
  /\ \A s, r \in UsedOf(h) :
       h.slot[s].next = h.slot[r].next /\ h.slot[s].next # NoSlot => s = r

(* The locks: one for each request in use and for each of the buffers C    *)
(* that are locked by callers without a slot.                              *)
LockOK(h, C) ==
  /\ \A s \in UsedOf(h) : h.slot[s].bh \in Buffers \ C /\ h.lock[h.slot[s].bh]
  /\ \A b \in C : h.lock[b]
  /\ \A s, r \in UsedOf(h) : h.slot[s].bh = h.slot[r].bh => s = r
  /\ \A b \in Buffers : h.lock[b] => b \in C \/ \E s \in UsedOf(h) : h.slot[s].bh = b

(* What the disk does is the first request's command, with its handler.    *)
DevOK(h, T) ==
  /\ h.dev \in {"read", "write"} =>
       /\ h.this # NoSlot
       /\ h.slot[h.this].cmd = IF h.dev = "read" THEN "READ" ELSE "WRITE"
       /\ h.do_hd = IF h.dev = "read" THEN "read_intr" ELSE "write_intr"
  /\ T = {} /\ h.dev = "specify" => h.do_hd = "do_request"

(* The data of a write whose first sector is written are with the disk,    *)
(* but for the buffers T.                                                  *)
HalfWay(h, T) == {s \in UsedOf(h) : h.slot[s].nsector = 1 /\ h.slot[s].bh \notin T}

ValidOK(h, T) ==
  \A b \in Buffers \ T : ~ h.lock[b] /\ h.uptodate[b] => h.moved[b] = Whole

SectorsOK(h) == \A s \in UsedOf(h) : h.slot[s].nsector \in {1, 2}

TransferOK(h, T) ==
  /\ SectorsOK(h)
  /\ \A s \in HalfWay(h, T) :
       s = h.this /\ h.dev = "write" /\ h.moved[h.slot[s].bh] = Whole
  /\ h.dev = "write" /\ h.slot[h.this].nsector = 2 => h.moved[h.slot[h.this].bh][1] = 1
  /\ ValidOK(h, T)
-----------------------------------------------------------------------------
(* reset_hd leaves everything but the handler and what the disk does.      *)
LEMMA ResetFields ==
  ASSUME NEW h \in DriverState
  PROVE  /\ reset_hd(h) \in DriverState
         /\ Fields(reset_hd(h), h.wq, h.lock, h.uptodate, h.moved, h.slot, h.this,
                   h.sorting, "do_request", "specify")
BY DEF reset_hd, DriverState, Fields

(* do_request: a new command for this_request, or none.                    *)
LEMMA CommandFields ==
  ASSUME NEW h \in DriverState, NEW drq \in BOOLEAN,
         h.this # NoSlot => h.slot[h.this].bh \in Buffers
  PROVE  LET r == do_request(h, drq)
             b == h.slot[h.this].bh
         IN /\ r \in DriverState
            /\ Fields(r, h.wq, h.lock, h.uptodate, r.moved, h.slot, h.this,
                      h.sorting, r.do_hd, r.dev)
            /\ \/ r = h /\ h.sorting
               \/ /\ h.this = NoSlot /\ r.dev = h.dev /\ r.do_hd = "NULL"
                  /\ r.moved = h.moved
               \/ /\ h.this # NoSlot /\ h.slot[h.this].cmd = "READ"
                  /\ r.dev = "read" /\ r.do_hd = "read_intr" /\ r.moved = h.moved
               \/ /\ h.this # NoSlot /\ r.dev = "specify" /\ r.do_hd = "do_request"
                  /\ r.moved = h.moved
               \/ /\ h.this # NoSlot /\ h.slot[h.this].cmd = "WRITE"
                  /\ r.dev = "write" /\ r.do_hd = "write_intr"
                  /\ r.moved = [h.moved EXCEPT
                       ![b][1] = IF h.slot[h.this].nsector = 2 THEN 1 ELSE 2]
<1> DEFINE r == do_request(h, drq)
           b == h.slot[h.this].bh
           v == IF h.slot[h.this].nsector = 2 THEN 1 ELSE 2
<1>1. CASE h.sorting
  <2>1. r = h
    BY <1>1 DEF do_request
  <2> HIDE DEF r
  <2>2. QED
    BY <1>1, <2>1 DEF Fields, r
<1>2. CASE ~ h.sorting /\ h.this = NoSlot
  <2>1. r = [h EXCEPT !.do_hd = "NULL"]
    BY <1>2 DEF do_request
  <2> HIDE DEF r
  <2>2. QED
    BY <1>2, <2>1 DEF Fields, DriverState, r
<1>3. CASE ~ h.sorting /\ h.this # NoSlot /\ h.slot[h.this].cmd = "READ"
  <2>1. r = [h EXCEPT !.do_hd = "read_intr", !.dev = "read"]
    BY <1>3 DEF do_request
  <2> HIDE DEF r
  <2>2. QED
    BY <1>3, <2>1 DEF Fields, DriverState, r
<1>4. CASE ~ h.sorting /\ h.this # NoSlot /\ h.slot[h.this].cmd # "READ" /\ ~ drq
  <2>1. r = reset_hd(h)
    BY <1>4 DEF do_request
  <2> HIDE DEF r
  <2>2. QED
    BY <1>4, <2>1, ResetFields DEF Fields, r
<1>5. CASE ~ h.sorting /\ h.this # NoSlot /\ h.slot[h.this].cmd # "READ" /\ drq
  <2>1. r = [h EXCEPT !.do_hd = "write_intr", !.dev = "write",
                      !.moved[b][1] = v]
    BY <1>5 DEF do_request
  <2>2. h.slot[h.this].cmd = "WRITE"
    BY <1>5 DEF DriverState, SlotState, Commands, MaybeSlot
  <2>3. v \in 0 .. 2 /\ b \in Buffers
    BY <1>5
  <2> HIDE DEF r, v, b
  <2>4. [h.moved EXCEPT ![b][1] = v] \in [Buffers -> Halves]
    BY <2>3 DEF DriverState, Halves
  <2>5. /\ r.moved = [h.moved EXCEPT ![b][1] = v]
        /\ r.dev = "write" /\ r.do_hd = "write_intr"
        /\ Fields(r, h.wq, h.lock, h.uptodate, r.moved, h.slot, h.this,
                  h.sorting, r.do_hd, r.dev)
    BY <2>1 DEF Fields, DriverState
  <2>6. r \in DriverState
    <3>1. r = [h EXCEPT !.do_hd = "write_intr", !.dev = "write", !.moved = r.moved]
      BY <2>1, <2>5 DEF DriverState
    <3>2. r.moved \in [Buffers -> Halves]
      BY <2>4, <2>5
    <3>3. QED
      BY <3>1, <3>2 DEF DriverState
  <2>7. QED
    BY <1>5, <2>2, <2>5, <2>6 DEF r, v, b
<1>6. QED
  BY <1>1, <1>2, <1>3, <1>4, <1>5

(* The slot of a request that is done.                                     *)
Cleared(slot, s) == [slot EXCEPT ![s] = [FreeSlot EXCEPT !.next = slot[s].next]]

(* Such a slot is free, still leads where it did, and the others are kept. *)
LEMMA ClearedIsFree ==
  ASSUME NEW slot \in [Requests -> SlotState], NEW s \in Requests
  PROVE  /\ Cleared(slot, s) \in [Requests -> SlotState]
         /\ ~ Cleared(slot, s)[s].used /\ Cleared(slot, s)[s].next = slot[s].next
         /\ \A x \in Requests \ {s} : Cleared(slot, s)[x] = slot[x]
<1> DEFINE f == [FreeSlot EXCEPT !.next = slot[s].next]
<1>1. FreeSlot \in SlotState /\ ~ FreeSlot.used
  BY HdAssumption DEF FreeSlot, SlotState, Commands, MaybeSlot
<1>2. f \in SlotState /\ ~ f.used /\ f.next = slot[s].next
  <2> HIDE DEF FreeSlot
  <2>1. QED
    BY <1>1 DEF SlotState
<1> HIDE DEF f
<1>3. Cleared(slot, s) = [slot EXCEPT ![s] = f]
  BY DEF Cleared, f
<1>4. QED
  BY <1>2, <1>3

(* The end of this_request: its buffer is unlocked, its slot is free, and  *)
(* the next one is this_request.                                           *)
LEMMA RetireFields ==
  ASSUME NEW h \in DriverState, NEW ok \in BOOLEAN, h.this # NoSlot,
         h.slot[h.this].bh \in Buffers
  PROVE  LET b == h.slot[h.this].bh
             r == Retire(h, ok)
         IN /\ r \in DriverState
            /\ Fields(r, r.wq, [h.lock EXCEPT ![b] = FALSE],
                      [h.uptodate EXCEPT ![b] = ok], h.moved,
                      Cleared(h.slot, h.this), h.slot[h.this].next,
                      h.sorting, h.do_hd, h.dev)
<1> DEFINE b == h.slot[h.this].bh
           r == Retire(h, ok)
           w == WakeUp(WakeUp(h.wq, wait_for_request), b)
           next == h.slot[h.this].next
           slot == Cleared(h.slot, h.this)
<1>1. /\ h.this \in Requests /\ b \in Buffers /\ b \in Queues
      /\ next \in MaybeSlot
  BY NoneIsNone DEF DriverState, MaybeSlot, SlotState
<1>2. w \in WaitState
  BY <1>1, WaitStateClosed, NoneIsNone DEF DriverState
<1>3. slot \in [Requests -> SlotState]
  BY <1>1, ClearedIsFree DEF DriverState
<1>4. r = [h EXCEPT !.uptodate[b] = ok, !.lock[b] = FALSE, !.wq = w,
                    !.slot = slot, !.this = next]
  BY DEF Retire, Cleared
<1> HIDE DEF b, r, w, next, slot
<1>5. r = [h EXCEPT !.uptodate = [h.uptodate EXCEPT ![b] = ok],
                    !.lock = [h.lock EXCEPT ![b] = FALSE], !.wq = w,
                    !.slot = slot, !.this = next]
  BY <1>4
<1>6. /\ [h.uptodate EXCEPT ![b] = ok] \in [Buffers -> BOOLEAN]
      /\ [h.lock EXCEPT ![b] = FALSE] \in [Buffers -> BOOLEAN]
  BY DEF DriverState
<1>7. r \in DriverState
  BY <1>1, <1>2, <1>3, <1>5, <1>6 DEF DriverState
<1>8. Fields(r, r.wq, [h.lock EXCEPT ![b] = FALSE], [h.uptodate EXCEPT ![b] = ok],
             h.moved, slot, next, h.sorting, h.do_hd, h.dev)
  BY <1>5 DEF Fields, DriverState
<1>9. QED
  BY <1>7, <1>8 DEF b, r, next, slot
-----------------------------------------------------------------------------
(* When do_request may be called: the disk does nothing, or was reset by a *)
(* handler in which it was not to be.                                      *)
Ready(h, T) ==
  /\ h \in DriverState
  /\ h.this # NoSlot => /\ h.this \in UsedOf(h) /\ h.slot[h.this].bh \in Buffers
                        /\ h.lock[h.slot[h.this].bh]
  /\ SectorsOK(h) /\ HalfWay(h, T) = {} /\ ValidOK(h, T)
  /\ h.dev \in Commandable /\ (T = {} => h.dev = "idle")

(* The queue and the locks are the same.                                   *)
SameQueue(g, h) ==
  /\ h.this = g.this /\ h.lock = g.lock /\ h.sorting = g.sorting
  /\ \A s \in Requests : /\ h.slot[s].used = g.slot[s].used
                         /\ h.slot[s].bh = g.slot[s].bh
                         /\ h.slot[s].next = g.slot[s].next

(* do_request leaves the queue, and a handler for what it has started.     *)
LEMMA DoRequestOK ==
  ASSUME NEW h, NEW T, Ready(h, T), NEW drq \in BOOLEAN
  PROVE  LET r == do_request(h, drq)
         IN /\ r \in DriverState /\ r.slot = h.slot /\ SameQueue(h, r)
            /\ DevOK(r, T) /\ TransferOK(r, T)
            /\ h.sorting => r.dev \in Commandable
<1> DEFINE r == do_request(h, drq)
           b == h.slot[h.this].bh
           v == IF h.slot[h.this].nsector = 2 THEN 1 ELSE 2
<1>1. h \in DriverState /\ (h.this # NoSlot => b \in Buffers)
  BY SMTT(30) DEF Ready
<1>2. /\ r \in DriverState
      /\ Fields(r, h.wq, h.lock, h.uptodate, r.moved, h.slot, h.this,
                h.sorting, r.do_hd, r.dev)
      /\ \/ r = h /\ h.sorting
         \/ /\ h.this = NoSlot /\ r.dev = h.dev /\ r.do_hd = "NULL"
            /\ r.moved = h.moved
         \/ /\ h.this # NoSlot /\ h.slot[h.this].cmd = "READ"
            /\ r.dev = "read" /\ r.do_hd = "read_intr" /\ r.moved = h.moved
         \/ /\ h.this # NoSlot /\ r.dev = "specify" /\ r.do_hd = "do_request"
            /\ r.moved = h.moved
         \/ /\ h.this # NoSlot /\ h.slot[h.this].cmd = "WRITE"
            /\ r.dev = "write" /\ r.do_hd = "write_intr"
            /\ r.moved = [h.moved EXCEPT ![b][1] = v]
  BY <1>1, CommandFields
<1> HIDE DEF r, b, v
<1>3. /\ r.slot = h.slot /\ SameQueue(h, r) /\ r.this = h.this
      /\ r.lock = h.lock /\ r.uptodate = h.uptodate
  BY <1>2 DEF Fields, SameQueue
<1>4. DevOK(r, T)
  BY <1>2, <1>3 DEF DevOK, Ready, Commandable
<1>5. h.sorting => r.dev \in Commandable
  <2>1. CASE r = h
    BY <2>1 DEF Ready
  <2>2. CASE ~ h.sorting
    BY <2>2
  <2>3. CASE h.sorting /\ r # h
    <3>1. r = h
      BY <2>3, <1>1 DEF do_request, r
    <3>2. QED
      BY <2>3, <3>1
  <2>4. QED
    BY <2>1, <2>2, <2>3
<1>6. SectorsOK(r) /\ HalfWay(r, T) = {}
  BY <1>3 DEF SectorsOK, HalfWay, UsedOf, Ready
<1>7. r.dev = "write" /\ r.slot[r.this].nsector = 2 => r.moved[r.slot[r.this].bh][1] = 1
  <2>1. SUFFICES ASSUME r.dev = "write", r.slot[r.this].nsector = 2
                 PROVE  r.moved[r.slot[r.this].bh][1] = 1
    OBVIOUS
  <2>2. /\ r.moved = [h.moved EXCEPT ![b][1] = v] /\ h.this # NoSlot
    BY <1>2, <2>1 DEF Ready, Commandable
  <2>3. v = 1 /\ b \in Buffers /\ r.slot[r.this].bh = b
    BY <1>1, <1>3, <2>1, <2>2 DEF v, b
  <2>4. h.moved \in [Buffers -> Halves]
    BY <1>1 DEF DriverState
  <2>5. QED
    BY <2>2, <2>3, <2>4 DEF Halves
<1>8. ValidOK(r, T)
  <2>1. SUFFICES ASSUME NEW x \in Buffers \ T, ~ r.lock[x], r.uptodate[x]
                 PROVE  r.moved[x] = Whole
    BY DEF ValidOK
  <2>2. h.moved[x] = Whole
    BY <1>3, <2>1 DEF Ready, ValidOK
  <2>3. r.moved[x] = h.moved[x]
    <3>1. CASE r.moved = h.moved
      BY <3>1
    <3>2. CASE r.moved = [h.moved EXCEPT ![b][1] = v] /\ h.this # NoSlot
      <4>1. x # b
        BY <1>3, <2>1, <3>2 DEF Ready, b
      <4>2. QED
        BY <1>1, <3>2, <4>1 DEF DriverState
    <3>3. QED
      BY <1>2, <3>1, <3>2
  <2>4. QED
    BY <2>2, <2>3
<1>9. QED
  BY <1>2, <1>3, <1>4, <1>5, <1>6, <1>7, <1>8 DEF TransferOK, r

(* this_request of g is done: its slot and its buffer are free.            *)
Retired(g, h) ==
  /\ g.this \in UsedOf(g) /\ h.this = g.slot[g.this].next
  /\ h.sorting = g.sorting
  /\ h.lock = [g.lock EXCEPT ![g.slot[g.this].bh] = FALSE]
  /\ ~ h.slot[g.this].used /\ h.slot[g.this].next = g.slot[g.this].next
  /\ \A s \in Requests \ {g.this} : h.slot[s] = g.slot[s]

(* The parts of the invariant that are about the driver alone.             *)
DriverOK(h, C, T) == /\ h \in DriverState /\ ListOK(h) /\ LockOK(h, C)
                     /\ DevOK(h, T) /\ TransferOK(h, T)

(* When this_request is completed, with its data m moved.                  *)
LEMMA RetireReady ==
  ASSUME NEW g, NEW C, NEW T, DriverOK(g, C, T), g.this # NoSlot,
         NEW U, T \subseteq U, NEW ok \in BOOLEAN, NEW m, NEW do_hd,
         NEW dev \in Commandable, U = {} => dev = "idle",
         NEW h \in DriverState,
         Fields(h, g.wq, g.lock, g.uptodate, m, g.slot, g.this, g.sorting, do_hd, dev),
         \A x \in Buffers \ {g.slot[g.this].bh} : m[x] = g.moved[x],
         ok /\ g.slot[g.this].bh \notin U => m[g.slot[g.this].bh] = Whole
  PROVE  Ready(Retire(h, ok), U) /\ Retired(g, Retire(h, ok))
<1> DEFINE s == g.this
           b == g.slot[g.this].bh
           r == Retire(h, ok)
<1>1. /\ s \in UsedOf(g) /\ s \in Requests /\ b \in Buffers
      /\ g.slot \in [Requests -> SlotState] /\ g.lock \in [Buffers -> BOOLEAN]
      /\ g.uptodate \in [Buffers -> BOOLEAN]
  BY DEF DriverOK, ListOK, LockOK, UsedOf, DriverState
<1>2. h.this = s /\ h.slot = g.slot /\ h.lock = g.lock
  BY DEF Fields
<1>3. /\ r \in DriverState /\ r.lock = [g.lock EXCEPT ![b] = FALSE]
      /\ r.uptodate = [g.uptodate EXCEPT ![b] = ok] /\ r.moved = m
      /\ r.slot = Cleared(g.slot, s) /\ r.this = g.slot[s].next
      /\ r.sorting = g.sorting /\ r.dev = dev
  <2>1. /\ r \in DriverState
        /\ Fields(r, r.wq, [h.lock EXCEPT ![h.slot[h.this].bh] = FALSE],
                  [h.uptodate EXCEPT ![h.slot[h.this].bh] = ok], h.moved,
                  Cleared(h.slot, h.this), h.slot[h.this].next,
                  h.sorting, h.do_hd, h.dev)
    BY <1>1, <1>2, RetireFields
  <2> HIDE DEF r
  <2>2. QED
    BY <2>1 DEF Fields
<1> HIDE DEF r
<1>4. /\ ~ r.slot[s].used /\ r.slot[s].next = g.slot[s].next
      /\ \A x \in Requests \ {s} : r.slot[x] = g.slot[x]
  BY <1>1, <1>3, ClearedIsFree
<1>5. Retired(g, r)
  BY <1>1, <1>3, <1>4 DEF Retired
<1>6. UsedOf(r) = UsedOf(g) \ {s}
  BY <1>4 DEF UsedOf
<1>7. \A x \in UsedOf(r) : /\ r.slot[x] = g.slot[x] /\ r.slot[x].bh \in Buffers
                           /\ r.slot[x].bh # b /\ r.lock[r.slot[x].bh]
  BY <1>1, <1>3, <1>4, <1>6 DEF DriverOK, LockOK, UsedOf
<1>8. r.this # NoSlot => r.this \in UsedOf(r)
  BY <1>1, <1>3, <1>6 DEF DriverOK, ListOK
<1>9. SectorsOK(r)
  BY <1>6, <1>7 DEF DriverOK, TransferOK, SectorsOK
<1>10. HalfWay(r, U) = {}
  BY <1>6, <1>7 DEF DriverOK, TransferOK, HalfWay
<1>11. ValidOK(r, U)
  <2>1. SUFFICES ASSUME NEW x \in Buffers \ U, ~ r.lock[x], r.uptodate[x]
                 PROVE  r.moved[x] = Whole
    BY DEF ValidOK
  <2>2. CASE x = b
    BY <1>1, <1>3, <2>1, <2>2
  <2>3. CASE x # b
    BY <1>1, <1>3, <2>1, <2>3 DEF DriverOK, TransferOK, ValidOK
  <2>4. QED
    BY <2>2, <2>3
<1>12. QED
  BY <1>3, <1>5, <1>7, <1>8, <1>9, <1>10, <1>11 DEF Ready, r
-----------------------------------------------------------------------------
(* What a handler does, of which the rest of the invariant depends on the  *)
(* queue only.                                                             *)
Serves(g, h, T) ==
  /\ h \in DriverState /\ DevOK(h, T) /\ TransferOK(h, T)
  /\ \/ SameQueue(g, h)
     \/ /\ Retired(g, h) /\ g.dev \notin Commandable
        /\ g.sorting => h.dev \in Commandable
  /\ g.sorting /\ g.dev \in Commandable => h.dev \in Commandable

(* The first request is done, and do_request goes on with the next.        *)
LEMMA RetireServes ==
  ASSUME NEW g, g.dev \notin Commandable, NEW T, NEW h, Ready(h, T), Retired(g, h),
         NEW drq \in BOOLEAN
  PROVE  Serves(g, do_request(h, drq), T)
<1> DEFINE r == do_request(h, drq)
<1>1. /\ r \in DriverState /\ r.slot = h.slot /\ SameQueue(h, r)
      /\ DevOK(r, T) /\ TransferOK(r, T)
      /\ h.sorting => r.dev \in Commandable
  BY DoRequestOK
<1> HIDE DEF r
<1>2. Retired(g, r)
  BY <1>1 DEF Retired, SameQueue
<1>3. g.sorting => r.dev \in Commandable
  BY <1>1 DEF Retired
<1>4. QED
  BY <1>1, <1>2, <1>3 DEF Serves, r

(* After an error the disk is reset instead.                               *)
LEMMA ResetServes ==
  ASSUME NEW g, g.dev \notin Commandable, NEW T, NEW h \in DriverState,
         SameQueue(g, h) \/ Retired(g, h),
         SectorsOK(h), HalfWay(h, T) = {}, ValidOK(h, T)
  PROVE  Serves(g, reset_hd(h), T)
<1> DEFINE r == reset_hd(h)
<1>1. /\ r \in DriverState
      /\ Fields(r, h.wq, h.lock, h.uptodate, h.moved, h.slot, h.this,
                h.sorting, "do_request", "specify")
  BY ResetFields
<1> HIDE DEF r
<1>2. /\ r.lock = h.lock /\ r.uptodate = h.uptodate /\ r.moved = h.moved
      /\ r.slot = h.slot /\ r.this = h.this /\ r.sorting = h.sorting
      /\ r.do_hd = "do_request" /\ r.dev = "specify"
  BY <1>1 DEF Fields
<1>3. DevOK(r, T) /\ TransferOK(r, T)
  BY <1>2 DEF DevOK, TransferOK, SectorsOK, HalfWay, UsedOf, ValidOK
<1>4. SameQueue(g, r) \/ Retired(g, r)
  BY <1>2 DEF SameQueue, Retired
<1>5. QED
  BY <1>1, <1>2, <1>3, <1>4 DEF Serves, Commandable, r

(* The state in which a handler starts, with the data m moved.             *)
LEMMA IdleFields ==
  ASSUME NEW g \in DriverState, NEW m \in [Buffers -> Halves]
  PROVE  LET h == [[g EXCEPT !.dev = "idle"] EXCEPT !.moved = m]
         IN /\ h \in DriverState
            /\ Fields(h, g.wq, g.lock, g.uptodate, m, g.slot, g.this, g.sorting,
                      g.do_hd, "idle")
            /\ [g EXCEPT !.dev = "idle"] \in DriverState
            /\ Fields([g EXCEPT !.dev = "idle"], g.wq, g.lock, g.uptodate, g.moved,
                      g.slot, g.this, g.sorting, g.do_hd, "idle")
BY DEF DriverState, Fields

(* What is known of this_request when its transfer ends.                   *)
LEMMA CurrentFacts ==
  ASSUME NEW C, DriverOK(d, C, torn), d.dev \in {"read", "write"}
  PROVE  /\ d.this # NoSlot /\ d.this \in Used /\ d.this \in Requests
         /\ UsedOf(d) = Used
         /\ Current.bh \in Buffers /\ Current.nsector \in {1, 2}
         /\ Current.errors \in 0 .. MAX_ERRORS /\ Current \in SlotState
         /\ d.dev \notin Commandable
         /\ d \in DriverState /\ d.moved \in [Buffers -> Halves]
         /\ d.slot \in [Requests -> SlotState]
<1>1. d.this # NoSlot /\ d.this \in UsedOf(d) /\ UsedOf(d) = Used
  BY DEF DriverOK, DevOK, ListOK, UsedOf, Used
<1>2. d.this \in Requests /\ d \in DriverState
  BY <1>1 DEF UsedOf, DriverOK
<1>3. Current \in SlotState
  BY <1>2 DEF Current, DriverState
<1>4. Current.bh \in Buffers /\ Current.nsector \in {1, 2}
  BY <1>1 DEF DriverOK, LockOK, TransferOK, SectorsOK, Current
<1>5. QED
  BY <1>1, <1>2, <1>3, <1>4 DEF SlotState, DriverState, Commandable

(* What a transfer leaves in `moved` is a value of it.                     *)
LEMMA WholeIsHalves ==
  /\ Whole \in Halves /\ Nothing \in Halves /\ [Nothing EXCEPT ![1] = 1] \in Halves
BY DEF Whole, Nothing, Halves

(* A read is done: both sectors have come into their halves.               *)
LEMMA read_intrServes ==
  ASSUME NEW C, DriverOK(d, C, torn), NEW drq \in BOOLEAN, read_intr(drq)
  PROVE  Serves(d, d', torn')
<1> DEFINE b == Current.bh
           m == [d.moved EXCEPT ![b] = Whole]
           h == [[d EXCEPT !.dev = "idle"] EXCEPT !.moved = m]
<1>1. d.dev \in {"read", "write"} /\ torn' = torn
  BY DEF read_intr, Answered
<1>2. /\ d.this # NoSlot /\ b \in Buffers /\ d \in DriverState
      /\ d.moved \in [Buffers -> Halves] /\ d.dev \notin Commandable
      /\ b = d.slot[d.this].bh
  BY <1>1, CurrentFacts DEF Current
<1>3. d' = do_request(Retire(h, TRUE), drq)
  <2>1. [Idle EXCEPT !.moved[b] = Whole] = h
    BY <1>2 DEF Idle, DriverState
  <2>2. QED
    BY <2>1 DEF read_intr, Handled
<1>4. m \in [Buffers -> Halves] /\ m[b] = Whole /\ \A x \in Buffers \ {b} : m[x] = d.moved[x]
  BY <1>2, WholeIsHalves
<1> HIDE DEF m, b
<1>5. /\ h \in DriverState
      /\ Fields(h, d.wq, d.lock, d.uptodate, m, d.slot, d.this, d.sorting,
                d.do_hd, "idle")
  BY <1>2, <1>4, IdleFields
<1> HIDE DEF h
<1>6. Ready(Retire(h, TRUE), torn) /\ Retired(d, Retire(h, TRUE))
  BY <1>2, <1>4, <1>5, RetireReady DEF Commandable
<1>7. QED
  BY <1>1, <1>2, <1>3, <1>6, RetireServes

(* The second sector of a read failed while the handler of the first ran.  *)
LEMMA read_intr_halfServes ==
  ASSUME NEW C, DriverOK(d, C, torn), NEW drq \in BOOLEAN, read_intr_half(drq)
  PROVE  Serves(d, d', torn')
<1> DEFINE b == Current.bh
           m == [d.moved EXCEPT ![b] = [Nothing EXCEPT ![1] = 1]]
           i == [[d EXCEPT !.dev = "idle"] EXCEPT !.moved = m]
           h == reset_hd(i)
<1>1. d.dev \in {"read", "write"} /\ torn' = torn \cup {b}
  BY DEF read_intr_half, Answered, SecondFailed
<1>2. /\ d.this # NoSlot /\ b \in Buffers /\ d \in DriverState
      /\ d.moved \in [Buffers -> Halves] /\ d.dev \notin Commandable
      /\ b = d.slot[d.this].bh
  BY <1>1, CurrentFacts DEF Current
<1>3. d' = do_request(Retire(h, TRUE), drq)
  <2>1. [Idle EXCEPT !.moved[b] = [Nothing EXCEPT ![1] = 1]] = i
    BY <1>2 DEF Idle, DriverState
  <2>2. QED
    BY <2>1 DEF read_intr_half, Handled
<1>4. m \in [Buffers -> Halves] /\ \A x \in Buffers \ {b} : m[x] = d.moved[x]
  BY <1>2, WholeIsHalves
<1> HIDE DEF m, b
<1>5. /\ i \in DriverState
      /\ Fields(i, d.wq, d.lock, d.uptodate, m, d.slot, d.this, d.sorting,
                d.do_hd, "idle")
  BY <1>2, <1>4, IdleFields
<1> HIDE DEF i
<1>6. /\ h \in DriverState
      /\ Fields(h, d.wq, d.lock, d.uptodate, m, d.slot, d.this, d.sorting,
                "do_request", "specify")
  BY <1>5, ResetFields DEF Fields
<1> HIDE DEF h
<1>7. Ready(Retire(h, TRUE), torn') /\ Retired(d, Retire(h, TRUE))
  <2>1. torn \subseteq torn' /\ torn' # {} /\ b \in torn'
    BY <1>1
  <2>2. "specify" \in Commandable
    BY DEF Commandable
  <2>3. QED
    BY <1>2, <1>4, <1>6, <2>1, <2>2, RetireReady, ZenonT(60)
<1>8. QED
  BY <1>2, <1>3, <1>7, RetireServes

(* The reset is done, and do_request starts again.                         *)
LEMMA SpecifyDoneServes ==
  ASSUME NEW C, DriverOK(d, C, torn), NEW drq \in BOOLEAN, SpecifyDone(drq)
  PROVE  Serves(d, d', torn')
<1> DEFINE h == [d EXCEPT !.dev = "idle"]
<1>1. /\ d.dev = "specify" /\ torn' = torn /\ d' = do_request(h, drq)
      /\ d \in DriverState
  BY DEF SpecifyDone, Answered, Handled, Idle, DriverOK
<1>2. /\ h \in DriverState
      /\ Fields(h, d.wq, d.lock, d.uptodate, d.moved, d.slot, d.this, d.sorting,
                d.do_hd, "idle")
  BY <1>1, IdleFields DEF DriverState
<1> HIDE DEF h
<1>3. /\ h.lock = d.lock /\ h.uptodate = d.uptodate /\ h.moved = d.moved
      /\ h.slot = d.slot /\ h.this = d.this /\ h.sorting = d.sorting /\ h.dev = "idle"
  BY <1>2 DEF Fields
<1>4. Ready(h, torn)
  <2>1. HalfWay(h, torn) = {} /\ SectorsOK(h) /\ ValidOK(h, torn)
    BY <1>1, <1>3 DEF DriverOK, TransferOK, HalfWay, UsedOf, SectorsOK, ValidOK
  <2>2. h.this # NoSlot => /\ h.this \in UsedOf(h) /\ h.slot[h.this].bh \in Buffers
                           /\ h.lock[h.slot[h.this].bh]
    BY <1>3 DEF DriverOK, ListOK, LockOK, UsedOf
  <2>3. QED
    BY <1>2, <1>3, <2>1, <2>2 DEF Ready, Commandable
<1>5. /\ d' \in DriverState /\ SameQueue(h, d')
      /\ DevOK(d', torn) /\ TransferOK(d', torn)
      /\ h.sorting => d'.dev \in Commandable
  BY <1>1, <1>4, DoRequestOK
<1>6. SameQueue(d, d')
  BY <1>3, <1>5 DEF SameQueue
<1>7. QED
  BY <1>1, <1>3, <1>5, <1>6 DEF Serves

(* The first sector of a write is written, or the second.                  *)
LEMMA write_intrServes ==
  ASSUME NEW C, DriverOK(d, C, torn), NEW drq \in BOOLEAN, write_intr(drq)
  PROVE  Serves(d, d', torn')
<1> DEFINE b == Current.bh
           s == d.this
<1>1. d.dev = "write" /\ torn' = torn
  BY DEF write_intr, Answered
<1>2. /\ s # NoSlot /\ b \in Buffers /\ d \in DriverState /\ s \in Requests
      /\ d.moved \in [Buffers -> Halves] /\ d.dev \notin Commandable
      /\ b = d.slot[s].bh /\ Current.nsector \in {1, 2} /\ Current = d.slot[s]
      /\ d.slot \in [Requests -> SlotState] /\ Current \in SlotState
      /\ s \in UsedOf(d)
  BY <1>1, CurrentFacts DEF Current
<1>3. CASE Current.nsector = 2
  <2> DEFINE m == [d.moved EXCEPT ![b][2] = 2]
             slot == [d.slot EXCEPT ![s].nsector = 1]
  <2>1. d' = [d EXCEPT !.slot = slot, !.moved = m]
    <3>1. d' = [d EXCEPT !.slot[d.this].nsector = 1, !.moved[Current.bh][2] = 2]
      BY <1>3 DEF write_intr, Handled
    <3>2. QED
      BY <3>1
  <2>2. slot \in [Requests -> SlotState] /\ slot[s] = [d.slot[s] EXCEPT !.nsector = 1]
        /\ \A x \in Requests \ {s} : slot[x] = d.slot[x]
    BY <1>2 DEF SlotState
  <2>3. /\ slot[s].used = d.slot[s].used /\ slot[s].bh = b /\ slot[s].cmd = d.slot[s].cmd
        /\ slot[s].nsector = 1 /\ slot[s].next = d.slot[s].next
    BY <1>2, <2>2 DEF SlotState
  <2>4. m[b] = Whole
    <3>1. d.moved[b][1] = 1 /\ d.moved[b] \in Halves
      BY <1>1, <1>2, <1>3 DEF DriverOK, TransferOK
    <3>2. m[b] = [d.moved[b] EXCEPT ![2] = 2]
      BY <1>2
    <3>3. m[b] \in Halves /\ m[b][1] = 1 /\ m[b][2] = 2
      BY <3>1, <3>2 DEF Halves
    <3>4. Whole \in Halves /\ \A i \in 1 .. 2 : m[b][i] = Whole[i]
      BY <3>3, WholeIsHalves DEF Whole
    <3> HIDE DEF m
    <3>5. QED
      BY <3>3, <3>4 DEF Halves
  <2>5. m \in [Buffers -> Halves] /\ \A x \in Buffers \ {b} : m[x] = d.moved[x]
    <3>1. d.moved \in [Buffers -> Halves] /\ b \in Buffers
      BY <1>2
    <3>2. [d.moved[b] EXCEPT ![2] = 2] \in Halves
      BY <3>1 DEF Halves
    <3>3. m = [d.moved EXCEPT ![b] = [d.moved[b] EXCEPT ![2] = 2]]
      OBVIOUS
    <3> HIDE DEF m
    <3>4. QED
      BY <3>1, <3>2, <3>3
  <2> HIDE DEF m, slot, b, s
  <2>6. /\ d' \in DriverState
        /\ Fields(d', d.wq, d.lock, d.uptodate, m, slot, d.this, d.sorting, d.do_hd, d.dev)
    BY <1>2, <2>1, <2>2, <2>5 DEF DriverState, Fields
  <2>7. /\ d'.lock = d.lock /\ d'.uptodate = d.uptodate /\ d'.moved = m
        /\ d'.slot = slot /\ d'.this = s /\ d.this = s /\ d'.sorting = d.sorting
        /\ d'.do_hd = d.do_hd /\ d'.dev = d.dev
    BY <2>6 DEF Fields, s
  <2>8. SameQueue(d, d') /\ UsedOf(d') = UsedOf(d)
    <3>1. \A x \in Requests : /\ slot[x].used = d.slot[x].used
                              /\ slot[x].bh = d.slot[x].bh
                              /\ slot[x].next = d.slot[x].next
      BY <1>2, <2>2, <2>3
    <3>2. \A x \in Requests : /\ d'.slot[x].used = d.slot[x].used
                              /\ d'.slot[x].bh = d.slot[x].bh
                              /\ d'.slot[x].next = d.slot[x].next
      BY <2>7, <3>1
    <3>3. QED
      BY <2>7, <3>2 DEF SameQueue, UsedOf
  <2>9. DevOK(d', torn)
    BY <1>1, <2>3, <2>7 DEF DriverOK, DevOK
  <2>10. TransferOK(d', torn)
    <3>1. SectorsOK(d')
      BY <2>2, <2>3, <2>7, <2>8 DEF DriverOK, TransferOK, SectorsOK, UsedOf
    <3>2. \A x \in HalfWay(d', torn) :
            x = d'.this /\ d'.dev = "write" /\ d'.moved[d'.slot[x].bh] = Whole
      <4>1. SUFFICES ASSUME NEW x \in HalfWay(d', torn), x # s PROVE FALSE
        BY <1>1, <2>3, <2>4, <2>7
      <4>2. x \in UsedOf(d) /\ x \in Requests /\ d'.slot[x].nsector = 1
            /\ d'.slot[x].bh \notin torn
        BY <2>8, <4>1 DEF HalfWay, UsedOf
      <4>3. d'.slot[x] = d.slot[x]
        BY <2>2, <2>7, <4>1, <4>2
      <4>4. x \in HalfWay(d, torn)
        BY <4>2, <4>3 DEF HalfWay
      <4>5. QED
        BY <2>7, <4>1, <4>4 DEF DriverOK, TransferOK
    <3>3. d'.slot[d'.this].nsector # 2
      BY <2>3, <2>7
    <3>4. ValidOK(d', torn)
      BY <2>4, <2>5, <2>7 DEF DriverOK, TransferOK, ValidOK
    <3>5. QED
      BY <3>1, <3>2, <3>3, <3>4 DEF TransferOK
  <2>11. QED
    BY <1>1, <1>2, <2>6, <2>8, <2>9, <2>10 DEF Serves
<1>4. CASE Current.nsector = 1
  <2> DEFINE h == [d EXCEPT !.dev = "idle"]
  <2>1. d' = do_request(Retire(h, TRUE), drq)
    BY <1>4 DEF write_intr, Handled, Idle
  <2>2. /\ h \in DriverState
        /\ Fields(h, d.wq, d.lock, d.uptodate, d.moved, d.slot, d.this, d.sorting,
                  d.do_hd, "idle")
    BY <1>2, IdleFields
  <2> HIDE DEF h
  <2>3. b \notin torn => d.moved[b] = Whole
    <3>1. b \notin torn => s \in HalfWay(d, torn)
      BY <1>2, <1>4 DEF HalfWay
    <3>2. QED
      BY <1>2, <3>1 DEF DriverOK, TransferOK
  <2>4. Ready(Retire(h, TRUE), torn) /\ Retired(d, Retire(h, TRUE))
    <3>1. "idle" \in Commandable
      BY DEF Commandable
    <3>2. QED
      BY <1>2, <2>2, <2>3, <3>1, RetireReady
  <2>5. QED
    BY <1>1, <1>2, <2>1, <2>4, RetireServes
<1>5. QED
  BY <1>2, <1>3, <1>4

(* An error: the request is given up or tried again, after a reset.        *)
LEMMA IntrFailsServes ==
  ASSUME NEW C, DriverOK(d, C, torn), IntrFails
  PROVE  Serves(d, d', torn')
<1> DEFINE b == Current.bh
           s == d.this
           h == [d EXCEPT !.dev = "idle"]
<1>1. /\ d.dev \in {"read", "write"} /\ d' = bad_rw_intr(h)
      /\ torn' = IF Current.nsector = 1 THEN torn \cup {b} ELSE torn
  BY DEF IntrFails, Answered, Handled, SecondFailed, Idle
<1>2. /\ s # NoSlot /\ b \in Buffers /\ d \in DriverState /\ s \in Requests
      /\ d.dev \notin Commandable
      /\ b = d.slot[s].bh /\ Current.nsector \in {1, 2} /\ Current = d.slot[s]
      /\ d.slot \in [Requests -> SlotState] /\ Current \in SlotState
      /\ Current.errors \in 0 .. MAX_ERRORS /\ d.moved \in [Buffers -> Halves]
  BY <1>1, CurrentFacts DEF Current
<1>3. /\ h \in DriverState
      /\ Fields(h, d.wq, d.lock, d.uptodate, d.moved, d.slot, d.this, d.sorting,
                d.do_hd, "idle")
  BY <1>2, IdleFields
<1> HIDE DEF h
<1>4. h.slot = d.slot /\ h.this = s
  BY <1>3 DEF Fields
<1>5. CASE Current.errors >= MAX_ERRORS
  <2>1. d' = reset_hd(Retire(h, FALSE))
    BY <1>1, <1>2, <1>4, <1>5 DEF bad_rw_intr
  <2>2. Ready(Retire(h, FALSE), torn') /\ Retired(d, Retire(h, FALSE))
    <3>1. "idle" \in Commandable /\ torn \subseteq torn'
      BY <1>1 DEF Commandable
    <3>2. QED
      BY <1>2, <1>3, <3>1, RetireReady
  <2>3. QED
    BY <1>2, <2>1, <2>2, ResetServes DEF Ready
<1>6. CASE ~ (Current.errors >= MAX_ERRORS)
  <2> DEFINE slot == [d.slot EXCEPT ![s].errors = @ + 1]
             i == [h EXCEPT !.slot = slot]
  <2>1. d' = reset_hd(i)
    <3>1. d' = reset_hd([h EXCEPT !.slot[h.this].errors = @ + 1])
      BY <1>1, <1>2, <1>4, <1>6 DEF bad_rw_intr
    <3>2. [h EXCEPT !.slot[h.this].errors = @ + 1] = i
      BY <1>4
    <3>3. QED
      BY <3>1, <3>2
  <2>2. d.slot[s].errors + 1 \in 0 .. MAX_ERRORS
    BY <1>2, <1>6, HdAssumption
  <2>3. /\ slot[s] = [d.slot[s] EXCEPT !.errors = d.slot[s].errors + 1]
        /\ \A x \in Requests \ {s} : slot[x] = d.slot[x]
    BY <1>2
  <2>4. /\ slot[s] \in SlotState /\ slot[s].used = d.slot[s].used /\ slot[s].bh = b
        /\ slot[s].nsector = d.slot[s].nsector /\ slot[s].next = d.slot[s].next
    BY <1>2, <2>2, <2>3 DEF SlotState
  <2>5. slot \in [Requests -> SlotState]
    BY <1>2, <2>3, <2>4
  <2> HIDE DEF slot, b, s
  <2>6. i \in DriverState /\ i.slot = slot
    BY <1>3, <2>5 DEF DriverState
  <2>7. /\ i.lock = d.lock /\ i.uptodate = d.uptodate /\ i.moved = d.moved
        /\ i.this = d.this /\ i.sorting = d.sorting
    BY <1>3 DEF DriverState, Fields
  <2> HIDE DEF i
  <2>8. SameQueue(d, i) /\ UsedOf(i) = UsedOf(d)
    BY <1>2, <2>3, <2>4, <2>6, <2>7 DEF SameQueue, UsedOf
  <2>9. SectorsOK(i)
    BY <2>3, <2>4, <2>6, <2>8 DEF DriverOK, TransferOK, SectorsOK, UsedOf
  <2>10. HalfWay(i, torn') = {}
    <3>1. SUFFICES ASSUME NEW x \in UsedOf(i), i.slot[x].nsector = 1,
                          i.slot[x].bh \notin torn'
                   PROVE  FALSE
      BY DEF HalfWay
    <3>2. d.slot[x].nsector = 1 /\ d.slot[x].bh \notin torn' /\ x \in UsedOf(d)
      BY <1>2, <2>3, <2>4, <2>6, <2>8, <3>1, ZenonT(60) DEF UsedOf
    <3>3. d.slot[x].bh \notin torn
      BY <1>1, <3>2
    <3>4. x = s
      BY <3>2, <3>3 DEF HalfWay, DriverOK, TransferOK, s
    <3>5. QED
      BY <1>1, <1>2, <3>2, <3>4
  <2>11. ValidOK(i, torn')
    BY <1>1, <2>7 DEF DriverOK, TransferOK, ValidOK
  <2>12. QED
    BY <1>2, <2>1, <2>6, <2>8, <2>9, <2>10, <2>11, ResetServes
<1>7. QED
  BY <1>5, <1>6

(* Every interrupt finds its handler, and the handler keeps the rules.     *)
LEMMA IrqServes ==
  ASSUME NEW C, DriverOK(d, C, torn), Irq
  PROVE  Serves(d, d', torn')
<1>1. \A drq \in Drq : drq \in BOOLEAN
  BY DEF Drq
<1>2. QED
  BY <1>1, IntrFailsServes, read_intrServes, read_intr_halfServes, write_intrServes,
     SpecifyDoneServes DEF Irq
-----------------------------------------------------------------------------
(* The tasks: who has locked a buffer without having a slot for it, and    *)
(* who has a request that is not on the list yet.                          *)
Calling == {"search", "slept"} \cup Falling
Loose == {"sort", "look", "insert"}
Sorting == {"look", "insert", "clear"}
Callers == {t \in Tasks : pc[t] \in Calling}
CallBuffers == {call[t].bh : t \in Callers}

OneBusy == \A t, u \in Tasks : pc[t] \in Busy /\ pc[u] \in Busy => t = u

CallInv ==
  /\ \A t \in Tasks : pc[t] # "out" => call[t].bh \in Buffers
  /\ \A t, u \in Callers : call[t].bh = call[u].bh => t = u

LooseOK(h, req) ==
  /\ req \in UsedOf(h) /\ req # h.this /\ h.slot[req].next = NoSlot
  /\ \A s \in UsedOf(h) : h.slot[s].next # req

LooseInv == \A t \in Tasks : pc[t] \in Loose => LooseOK(d, add.req)

(* A task about to insert its request has this_request, or it was done     *)
(* meanwhile; then nothing is transferred until the sorting ends.          *)
TmpOK(h, tmp, race) ==
  \/ tmp = h.this /\ tmp # NoSlot
  \/ /\ tmp \in Requests \ UsedOf(h) /\ h.slot[tmp].next = h.this
     /\ h.dev \in Commandable /\ race

SortInv ==
  /\ d.sorting <=> \E t \in Tasks : pc[t] \in Sorting
  /\ \A t \in Tasks : pc[t] = "insert" => TmpOK(d, add.tmp, raced)

(* All requests L are reached from this_request.                           *)
Closed(h, S) == \A s \in S : h.slot[s].next \in S \cup {NoSlot}
AllReached(h, L) ==
  /\ h.this \in L \cup {NoSlot} /\ Closed(h, L)
  /\ \A S \in SUBSET L : h.this \in S \cup {NoSlot} /\ Closed(h, S) => S = L

ReachInv == ~ raced => AllReached(d, Used \ BeingAdded)

HdInv ==
  /\ TypeOK /\ OneBusy /\ CallInv
  /\ DriverOK(d, CallBuffers, torn)
  /\ LooseInv /\ SortInv /\ ReachInv

(* The first request is done, and the list begins with the second.         *)
LEMMA RetiredList ==
  ASSUME NEW g, NEW h, g \in DriverState, h \in DriverState, ListOK(g), Retired(g, h)
  PROVE  /\ ListOK(h) /\ UsedOf(h) = UsedOf(g) \ {g.this}
         /\ h.this # g.this /\ g.this \in Requests
         /\ \A L \in SUBSET UsedOf(g) : AllReached(g, L) => AllReached(h, L \ {g.this})
         /\ \A req : LooseOK(g, req) => LooseOK(h, req)
<1>1. g.this \in UsedOf(g) /\ g.this \in Requests /\ g.this # NoSlot
  BY NoneIsNone DEF Retired, UsedOf
<1>2. h.this = g.slot[g.this].next
  BY DEF Retired
<1>3. UsedOf(h) = UsedOf(g) \ {g.this}
  BY <1>1 DEF Retired, UsedOf
<1>4. \A s \in UsedOf(h) : h.slot[s] = g.slot[s] /\ s \in UsedOf(g) /\ s # g.this
  BY <1>3 DEF Retired, UsedOf
<1>5. h.this # g.this
  BY <1>1, <1>2 DEF ListOK
<1>6. ListOK(h)
  <2>1. h.this # NoSlot => h.this \in UsedOf(h)
    BY <1>1, <1>2, <1>3, <1>5 DEF ListOK
  <2>2. \A s \in UsedOf(h) : h.slot[s].next # NoSlot =>
          h.slot[s].next \in UsedOf(h) /\ h.slot[s].next # h.this
    BY <1>1, <1>2, <1>3, <1>4 DEF ListOK
  <2>3. \A s, r \in UsedOf(h) :
          h.slot[s].next = h.slot[r].next /\ h.slot[s].next # NoSlot => s = r
    BY <1>4 DEF ListOK
  <2>4. QED
    BY <2>1, <2>2, <2>3 DEF ListOK
<1>7. ASSUME NEW L \in SUBSET UsedOf(g), AllReached(g, L)
      PROVE  AllReached(h, L \ {g.this})
  <2>1. g.this \in L
    BY <1>1, <1>7 DEF AllReached
  <2>2. h.this \in (L \ {g.this}) \cup {NoSlot}
    BY <1>2, <1>5, <1>7, <2>1 DEF AllReached, Closed
  <2>3. Closed(h, L \ {g.this})
    BY <1>1, <1>3, <1>4, <1>7 DEF AllReached, Closed, ListOK
  <2>4. ASSUME NEW S \in SUBSET (L \ {g.this}), h.this \in S \cup {NoSlot}, Closed(h, S)
        PROVE  S = L \ {g.this}
    <3>1. Closed(g, S \cup {g.this})
      BY <1>2, <1>3, <1>4, <2>4 DEF Closed
    <3>2. S \cup {g.this} = L
      BY <1>7, <2>1, <2>4, <3>1 DEF AllReached
    <3>3. QED
      BY <2>4, <3>2
  <2>5. QED
    BY <2>2, <2>3, <2>4 DEF AllReached
<1>8. ASSUME NEW req, LooseOK(g, req) PROVE LooseOK(h, req)
  BY <1>1, <1>2, <1>3, <1>4, <1>8 DEF LooseOK
<1>9. QED
  BY <1>1, <1>3, <1>5, <1>6, <1>7, <1>8

(* The buffer of the first request was locked for it alone.                *)
LEMMA RetiredLocks ==
  ASSUME NEW g, NEW h, g \in DriverState, h \in DriverState, NEW C, LockOK(g, C),
         UsedOf(h) = UsedOf(g) \ {g.this}, Retired(g, h)
  PROVE  LockOK(h, C)
<1> DEFINE b == g.slot[g.this].bh
<1>1. /\ b \in Buffers \ C /\ g.lock[b] /\ g.this \in UsedOf(g)
      /\ \A x \in UsedOf(h) : h.slot[x] = g.slot[x] /\ x # g.this /\ x \in UsedOf(g)
      /\ h.lock = [g.lock EXCEPT ![b] = FALSE] /\ g.lock \in [Buffers -> BOOLEAN]
  BY DEF LockOK, Retired, UsedOf, DriverState
<1>2. \A x \in UsedOf(h) : h.slot[x].bh # b /\ h.slot[x].bh \in Buffers \ C
  BY <1>1 DEF LockOK
<1> HIDE DEF b
<1>3. ~ h.lock[b] /\ \A x \in Buffers \ {b} : h.lock[x] = g.lock[x]
  BY <1>1
<1>4. \A x \in UsedOf(h) : h.slot[x].bh \in Buffers \ C /\ h.lock[h.slot[x].bh]
  BY <1>1, <1>2, <1>3 DEF LockOK
<1>5. \A x \in C : h.lock[x]
  BY <1>1 DEF LockOK
<1>6. \A s, r \in UsedOf(h) : h.slot[s].bh = h.slot[r].bh => s = r
  BY <1>1 DEF LockOK
<1>7. \A x \in Buffers : h.lock[x] => x \in C \/ \E s \in UsedOf(h) : h.slot[s].bh = x
  <2>1. SUFFICES ASSUME NEW x \in Buffers, h.lock[x], x \notin C
                 PROVE  \E s \in UsedOf(h) : h.slot[s].bh = x
    OBVIOUS
  <2>2. x # b /\ g.lock[x]
    BY <1>3, <2>1
  <2>3. PICK s \in UsedOf(g) : g.slot[s].bh = x
    BY <2>1, <2>2 DEF LockOK
  <2>4. s # g.this
    BY <2>2, <2>3 DEF b
  <2>5. QED
    BY <1>1, <2>3, <2>4
<1>8. QED
  BY <1>4, <1>5, <1>6, <1>7 DEF LockOK

(* The list and the locks are the same, and as right as before.            *)
SameLinks(g, h) ==
  /\ h.this = g.this /\ h.lock = g.lock
  /\ \A s \in Requests : /\ h.slot[s].used = g.slot[s].used
                         /\ h.slot[s].bh = g.slot[s].bh
                         /\ h.slot[s].next = g.slot[s].next

(* So everything said of the list and the locks still holds.               *)
LEMMA SameIsOK ==
  ASSUME NEW g, NEW h, SameLinks(g, h)
  PROVE  /\ UsedOf(h) = UsedOf(g)
         /\ ListOK(g) => ListOK(h)
         /\ \A C : LockOK(g, C) => LockOK(h, C)
         /\ \A req : LooseOK(g, req) => LooseOK(h, req)
         /\ \A L \in SUBSET Requests : AllReached(g, L) => AllReached(h, L)
<1>1. UsedOf(h) = UsedOf(g)
  BY DEF SameLinks, UsedOf
<1>2. \A s \in UsedOf(g) : s \in Requests
  BY DEF UsedOf
<1>3. ListOK(g) => ListOK(h)
  BY <1>1, <1>2 DEF SameLinks, ListOK
<1>4. \A C : LockOK(g, C) => LockOK(h, C)
  BY <1>1, <1>2 DEF SameLinks, LockOK
<1>5. \A req : LooseOK(g, req) => LooseOK(h, req)
  BY <1>1, <1>2 DEF SameLinks, LooseOK
<1>6. \A S \in SUBSET Requests : Closed(h, S) <=> Closed(g, S)
  BY DEF SameLinks, Closed
<1>7. \A L \in SUBSET Requests : AllReached(g, L) => AllReached(h, L)
  BY <1>6 DEF SameLinks, AllReached
<1>8. QED
  BY <1>1, <1>3, <1>4, <1>5, <1>7
-----------------------------------------------------------------------------
(* An interrupt keeps the invariant, whatever the tasks are doing.         *)
LEMMA IrqStep == ASSUME HdInv, Irq PROVE HdInv'
<1>1. /\ UNCHANGED <<pc, call, add, budget>>
      /\ raced' = \/ raced
                  \/ d.sorting /\ (d'.dev = "idle" \/ d'.this # d.this)
                  \/ d'.this # d.this /\ \E t \in Tasks : pc[t] \in Falling
  BY DEF Irq, IntrFails, read_intr, read_intr_half, write_intr, SpecifyDone, Handled
<1>2. DriverOK(d, CallBuffers, torn) /\ TypeOK
  BY DEF HdInv
<1>3. d \in DriverState
  BY <1>2 DEF DriverOK
<1>4. Serves(d, d', torn')
  BY <1>2, IrqServes
<1>5. d' \in DriverState /\ DevOK(d', torn') /\ TransferOK(d', torn')
  BY <1>4 DEF Serves
<1>6. Callers' = Callers /\ CallBuffers' = CallBuffers /\ BeingAdded' = BeingAdded
  BY <1>1 DEF Callers, CallBuffers, BeingAdded
<1>7. /\ Used = UsedOf(d) /\ Used' = UsedOf(d') /\ Used \in SUBSET Requests
  BY DEF Used, UsedOf
<1>8. TypeOK'
  <2>1. torn' \subseteq Buffers
    <3>1. d.dev \in {"read", "write"} => Current.bh \in Buffers
      BY <1>2, CurrentFacts
    <3>2. torn' \subseteq torn \cup {Current.bh} /\ (torn' # torn => d.dev \in {"read", "write"})
      BY DEF Irq, IntrFails, read_intr, read_intr_half, write_intr, SpecifyDone,
             SecondFailed, Answered
    <3>3. QED
      BY <1>2, <3>1, <3>2 DEF TypeOK
  <2>2. raced' \in BOOLEAN
    BY <1>1, <1>2 DEF TypeOK
  <2>3. QED
    BY <1>1, <1>2, <1>5, <2>1, <2>2 DEF TypeOK
<1>9. OneBusy' /\ CallInv'
  BY <1>1, <1>6 DEF HdInv, OneBusy, CallInv
<1>10. CASE SameQueue(d, d')
  <2>1. ListOK(d') /\ LockOK(d', CallBuffers) /\ UsedOf(d') = UsedOf(d)
        /\ \A req : LooseOK(d, req) => LooseOK(d', req)
    BY <1>2, <1>10, SameIsOK DEF DriverOK, SameQueue, SameLinks
  <2>2. DriverOK(d, CallBuffers, torn)'
    BY <1>5, <1>6, <2>1 DEF DriverOK
  <2>3. LooseInv'
    BY <1>1, <2>1 DEF HdInv, LooseInv
  <2>4. SortInv'
    <3>1. d'.sorting = d.sorting /\ d'.this = d.this
      BY <1>10 DEF SameQueue
    <3>2. ASSUME NEW t \in Tasks, pc[t] = "insert" PROVE TmpOK(d', add.tmp, raced')
      <4>1. TmpOK(d, add.tmp, raced)
        BY <3>2 DEF HdInv, SortInv
      <4>2. d.sorting
        BY <3>2 DEF HdInv, SortInv, Sorting
      <4>3. d.dev \in Commandable => d'.dev \in Commandable
        BY <1>4, <4>2 DEF Serves
      <4>4. add.tmp \in Requests => d'.slot[add.tmp].next = d.slot[add.tmp].next
        BY <1>10 DEF SameQueue
      <4>5. QED
        BY <1>1, <2>1, <3>1, <4>1, <4>3, <4>4 DEF TmpOK
    <3>3. QED
      BY <1>1, <3>1, <3>2 DEF HdInv, SortInv
  <2>5. ReachInv'
    <3>1. ~ raced' => ~ raced
      BY <1>1
    <3>2. AllReached(d, Used \ BeingAdded) => AllReached(d', Used \ BeingAdded)
      BY <1>7, <1>10, SameIsOK DEF SameQueue, SameLinks
    <3>3. Used' \ BeingAdded' = Used \ BeingAdded
      BY <1>6, <1>7, <2>1
    <3>4. QED
      BY <3>1, <3>2, <3>3 DEF HdInv, ReachInv
  <2>6. QED
    BY <1>8, <1>9, <2>2, <2>3, <2>4, <2>5 DEF HdInv
<1>11. CASE Retired(d, d') /\ d.dev \notin Commandable /\ (d.sorting => d'.dev \in Commandable)
  <2>1. /\ ListOK(d') /\ UsedOf(d') = UsedOf(d) \ {d.this}
        /\ d'.this # d.this /\ d.this \in Requests
        /\ \A L \in SUBSET UsedOf(d) : AllReached(d, L) => AllReached(d', L \ {d.this})
        /\ \A req : LooseOK(d, req) => LooseOK(d', req)
    BY <1>2, <1>3, <1>5, <1>11, RetiredList DEF DriverOK
  <2>2. LockOK(d', CallBuffers)
    BY <1>2, <1>3, <1>5, <1>11, <2>1, RetiredLocks DEF DriverOK
  <2>3. DriverOK(d, CallBuffers, torn)'
    BY <1>5, <1>6, <2>1, <2>2 DEF DriverOK
  <2>4. LooseInv'
    BY <1>1, <2>1 DEF HdInv, LooseInv
  <2>5. SortInv'
    <3>1. d'.sorting = d.sorting /\ d'.this = d.slot[d.this].next
          /\ d'.slot[d.this].next = d.slot[d.this].next
      BY <1>11 DEF Retired
    <3>2. ASSUME NEW t \in Tasks, pc[t] = "insert" PROVE TmpOK(d', add.tmp, raced')
      <4>1. TmpOK(d, add.tmp, raced) /\ d.sorting
        BY <3>2 DEF HdInv, SortInv, Sorting
      <4>2. add.tmp = d.this
        BY <1>11, <4>1 DEF TmpOK
      <4>3. d'.dev \in Commandable /\ raced'
        BY <1>1, <1>11, <2>1, <4>1
      <4>4. QED
        BY <2>1, <3>1, <4>2, <4>3 DEF TmpOK
    <3>3. QED
      BY <1>1, <3>1, <3>2 DEF HdInv, SortInv
  <2>6. ReachInv'
    <3>1. SUFFICES ASSUME ~ raced' PROVE AllReached(d', Used' \ BeingAdded')
      BY DEF ReachInv
    <3>2. AllReached(d, Used \ BeingAdded)
      BY <1>1, <3>1 DEF HdInv, ReachInv
    <3>3. AllReached(d', (Used \ BeingAdded) \ {d.this})
      <4>1. Used \ BeingAdded \in SUBSET UsedOf(d)
        BY <1>7
      <4>2. QED
        BY <2>1, <3>2, <4>1
    <3>4. Used' \ BeingAdded' = (Used \ BeingAdded) \ {d.this}
      BY <1>6, <1>7, <2>1
    <3>5. QED
      BY <3>3, <3>4
  <2>7. QED
    BY <1>8, <1>9, <2>3, <2>4, <2>5, <2>6 DEF HdInv
<1>12. QED
  BY <1>4, <1>10, <1>11 DEF Serves
-----------------------------------------------------------------------------
(* A step of a task: no other one is busy, before or after.                *)
Moves(t, q) == t \in Tasks /\ q \in Places /\ MayRun(t) /\ Go(t, q)

(* Such a step leaves the other tasks where they are, and not busy.        *)
LEMMA OthersIdle ==
  ASSUME HdInv, NEW t, NEW q, Moves(t, q)
  PROVE  /\ pc' \in [Tasks -> Places] /\ OneBusy'
         /\ pc'[t] = q
         /\ \A u \in Tasks \ {t} : pc'[u] = pc[u] /\ pc[u] \notin Busy
         /\ Sorting \cup Loose \cup (Calling \ {"slept"}) \subseteq Busy
<1>1. pc \in [Tasks -> Places]
  BY DEF HdInv, TypeOK
<1>2. /\ pc' \in [Tasks -> Places] /\ pc'[t] = q
      /\ \A u \in Tasks \ {t} : pc'[u] = pc[u]
  BY <1>1 DEF Moves, Go
<1>3. \A u \in Tasks \ {t} : pc[u] \notin Busy
  BY DEF Moves, MayRun
<1>4. OneBusy'
  BY <1>2, <1>3 DEF OneBusy
<1>5. QED
  BY <1>2, <1>3, <1>4 DEF Sorting, Loose, Calling, Falling, Busy, Adding

(* The sets of tasks and requests after such a step.                       *)
LEMMA SetsMoved ==
  ASSUME HdInv, NEW t, NEW q, Moves(t, q)
  PROVE  /\ Callers' = IF q \in Calling THEN Callers \cup {t} ELSE Callers \ {t}
         /\ BeingAdded = IF pc[t] \in Loose THEN {add.req} ELSE {}
         /\ BeingAdded' = IF q \in Loose THEN {add'.req} ELSE {}
         /\ \A u \in Tasks : pc'[u] \in Loose \/ pc'[u] \in Sorting => u = t
         /\ d.sorting <=> pc[t] \in Sorting
         /\ (\E u \in Tasks : pc'[u] \in Sorting) <=> q \in Sorting
         /\ t \in Tasks
<1>1. /\ pc'[t] = q
      /\ \A u \in Tasks \ {t} : pc'[u] = pc[u] /\ pc[u] \notin Busy
      /\ Sorting \cup Loose \cup (Calling \ {"slept"}) \subseteq Busy
  BY OthersIdle
<1>2. t \in Tasks
  BY DEF Moves
<1>3. \A u \in Tasks \ {t} : /\ pc'[u] = pc[u] /\ pc[u] \notin Loose
                             /\ pc[u] \notin Sorting
  BY <1>1
<1>4. Callers' = IF q \in Calling THEN Callers \cup {t} ELSE Callers \ {t}
  BY <1>1, <1>2 DEF Callers
<1>5. BeingAdded = IF pc[t] \in Loose THEN {add.req} ELSE {}
  BY <1>2, <1>3 DEF BeingAdded, Loose
<1>6. BeingAdded' = IF q \in Loose THEN {add'.req} ELSE {}
  BY <1>1, <1>2, <1>3 DEF BeingAdded, Loose
<1>7. d.sorting <=> pc[t] \in Sorting
  BY <1>2, <1>3 DEF HdInv, SortInv
<1>8. (\E u \in Tasks : pc'[u] \in Sorting) <=> q \in Sorting
  BY <1>1, <1>2, <1>3
<1>9. \A u \in Tasks : pc'[u] \in Loose \/ pc'[u] \in Sorting => u = t
  BY <1>3
<1>10. QED
  BY <1>2, <1>4, <1>5, <1>6, <1>7, <1>8, <1>9

(* A step that leaves the list and the locks.                              *)
LEMMA QueueStep ==
  ASSUME HdInv, NEW t, NEW q, Moves(t, q), TypeOK', SameLinks(d, d'),
         DevOK(d', torn), TransferOK(d', torn), torn' = torn, raced' = raced,
         pc[t] \in Calling <=> q \in Calling,
         pc[t] # "out", \A u \in Tasks : pc'[u] # "out" => call'[u] = call[u],
         d'.sorting <=> q \in Sorting,
         pc[t] \in Loose <=> q \in Loose, q \in Loose => add'.req = add.req,
         q = "insert" => TmpOK(d', add'.tmp, raced)
  PROVE  HdInv'
<1>1. /\ OneBusy' /\ pc'[t] = q /\ t \in Tasks
      /\ \A u \in Tasks \ {t} : pc'[u] = pc[u] /\ pc[u] \notin Busy
  BY OthersIdle, SetsMoved
<1>2. /\ Callers' = IF q \in Calling THEN Callers \cup {t} ELSE Callers \ {t}
      /\ BeingAdded = IF pc[t] \in Loose THEN {add.req} ELSE {}
      /\ BeingAdded' = IF q \in Loose THEN {add'.req} ELSE {}
      /\ \A u \in Tasks : pc'[u] \in Loose \/ pc'[u] \in Sorting => u = t
      /\ (\E u \in Tasks : pc'[u] \in Sorting) <=> q \in Sorting
  BY SetsMoved
<1>3. Callers' = Callers
  BY <1>1, <1>2 DEF Callers
<1>4. CallInv' /\ CallBuffers' = CallBuffers
  <2>1. \A u \in Callers : u \in Tasks /\ call'[u] = call[u]
    BY <1>3 DEF Callers, Calling, Falling
  <2>2. \A u \in Tasks : pc'[u] # "out" => call'[u].bh \in Buffers
    BY <1>1 DEF HdInv, CallInv
  <2>3. CallBuffers' = CallBuffers
    BY <1>3, <2>1 DEF CallBuffers
  <2>4. QED
    BY <1>3, <2>1, <2>2, <2>3 DEF HdInv, CallInv
<1>5. BeingAdded' = BeingAdded
  BY <1>2
<1>6. /\ UsedOf(d') = UsedOf(d)
      /\ ListOK(d) => ListOK(d')
      /\ \A C : LockOK(d, C) => LockOK(d', C)
      /\ \A req : LooseOK(d, req) => LooseOK(d', req)
      /\ \A L \in SUBSET Requests : AllReached(d, L) => AllReached(d', L)
  BY SameIsOK
<1>7. /\ Used = UsedOf(d) /\ Used' = UsedOf(d') /\ Used \in SUBSET Requests
  BY DEF Used, UsedOf
<1>8. DriverOK(d, CallBuffers, torn)'
  BY <1>4, <1>6 DEF HdInv, DriverOK, TypeOK
<1>9. LooseInv'
  BY <1>1, <1>2, <1>6 DEF HdInv, LooseInv
<1>10. SortInv'
  <2>1. \A u \in Tasks : pc'[u] = "insert" => u = t
    BY <1>2 DEF Loose
  <2>2. QED
    BY <1>1, <1>2, <2>1 DEF SortInv
<1>11. ReachInv'
  BY <1>5, <1>6, <1>7 DEF HdInv, ReachInv
<1>12. QED
  BY <1>1, <1>4, <1>8, <1>9, <1>10, <1>11 DEF HdInv

(* sleep_on, wake_up and wait_on_buffer change the wait queues only.       *)
LEMMA QueuesOnly ==
  ASSUME d \in DriverState, DevOK(d, torn), TransferOK(d, torn),
         NEW w \in WaitState, d' = [d EXCEPT !.wq = w]
  PROVE  /\ d' \in DriverState /\ SameLinks(d, d') /\ d'.sorting = d.sorting
         /\ DevOK(d', torn) /\ TransferOK(d', torn)
<1>1. /\ d' \in DriverState
      /\ Fields(d', w, d.lock, d.uptodate, d.moved, d.slot, d.this, d.sorting,
                d.do_hd, d.dev)
  BY DEF DriverState, Fields
<1>2. QED
  BY <1>1 DEF Fields, SameLinks, DevOK, TransferOK, HalfWay, SectorsOK, ValidOK, UsedOf

(* The steps of a task that change no more of the driver than that, and    *)
(* its place.                                                              *)
LEMMA WaitStep ==
  ASSUME HdInv, NEW t \in Tasks,
         \/ NoSlotFree(t) \/ SleepLoad(t) \/ SleepLink(t) \/ SleepMark(t)
         \/ SleepReturn(t) \/ WaitOnBuffer(t) \/ WaitReturn(t) \/ EndCall(t)
  PROVE  HdInv'
<1>1. /\ TypeOK /\ d \in DriverState /\ DevOK(d, torn) /\ TransferOK(d, torn)
      /\ d.wq \in WaitState
  BY DEF HdInv, DriverOK, DriverState
<1>2. PICK q \in {"load", "link", "mark", "slept", "search", "waiting", "wait", "out"} :
        /\ MayRun(t) /\ Go(t, q) /\ pc[t] \notin Loose \cup Sorting
        /\ pc[t] \in Calling <=> q \in Calling
        /\ pc[t] # "out" /\ (q = "out" => EndCall(t))
  BY DEF NoSlotFree, SleepLoad, SleepLink, SleepMark, SleepReturn, WaitOnBuffer,
         WaitReturn, EndCall, At, Loose, Sorting, Calling, Falling
<1>3. Moves(t, q) /\ q \notin Loose \cup Sorting /\ q # "insert"
  BY <1>2 DEF Moves, Places, Busy, Falling, Adding, Loose, Sorting
<1>4. UNCHANGED <<add, raced, torn, budget>>
  BY DEF NoSlotFree, SleepLoad, SleepLink, SleepMark, SleepReturn, WaitOnBuffer,
         WaitReturn, EndCall
<1>5. \/ call' = call
      \/ call' = [call EXCEPT ![t] = NoCall] /\ pc'[t] = "out"
  <2>1. EndCall(t) => pc'[t] = "out"
    BY <1>1 DEF EndCall, Go, TypeOK
  <2>2. QED
    BY <2>1 DEF NoSlotFree, SleepLoad, SleepLink, SleepMark, SleepReturn, WaitOnBuffer,
           WaitReturn, EndCall
<1>6. \E w \in WaitState : d' = [d EXCEPT !.wq = w]
  <2>1. d = [d EXCEPT !.wq = d.wq]
    BY <1>1 DEF DriverState
  <2>2. ASSUME NoSlotFree(t) \/ EndCall(t) PROVE d' = [d EXCEPT !.wq = d.wq]
    BY <2>1, <2>2 DEF NoSlotFree, EndCall
  <2>3. /\ SleepLoad(t) => d' = [d EXCEPT !.wq =
             [d.wq EXCEPT !.tmp[t] = d.wq.head[wait_for_request]]]
        /\ SleepLink(t) => d' = [d EXCEPT !.wq =
             [d.wq EXCEPT !.head[wait_for_request] = t]]
        /\ SleepMark(t) => d' = [d EXCEPT !.wq =
             [d.wq EXCEPT !.state[t] = "UNINTERRUPTIBLE"]]
    BY <1>1 DEF SleepLoad, SleepLink, SleepMark
  <2>4. ASSUME SleepLoad(t) \/ SleepLink(t) \/ SleepMark(t)
        PROVE  \E w \in WaitState : d' = [d EXCEPT !.wq = w]
    BY <1>1, <2>3, <2>4, WaitStateClosed, NoneIsNone
  <2>5. ASSUME SleepReturn(t) \/ WaitReturn(t)
        PROVE  \E w \in WaitState : d' = [d EXCEPT !.wq = w]
    <3>1. WakeBehind(d.wq, t) \in WaitState
      BY <1>1, WaitStateClosed
    <3>2. d' = [d EXCEPT !.wq = WakeBehind(d.wq, t)]
      BY <2>5 DEF SleepReturn, WaitReturn
    <3>3. QED
      BY <3>1, <3>2
  <2>6. ASSUME WaitOnBuffer(t) PROVE \E w \in WaitState : d' = [d EXCEPT !.wq = w]
    <3> DEFINE w == SleepOn(d.wq, t, call[t].bh, "UNINTERRUPTIBLE")
    <3>1. d' = [d EXCEPT !.wq = w]
      BY <2>6 DEF WaitOnBuffer
    <3>2. call[t].bh \in Buffers
      BY <1>2 DEF HdInv, CallInv
    <3>3. w \in WaitState
      BY <1>1, <3>2, WaitStateClosed, NoneIsNone
    <3>4. QED
      BY <3>1, <3>3
  <2>7. QED
    BY <1>1, <2>2, <2>4, <2>5, <2>6
<1>7. /\ d' \in DriverState /\ SameLinks(d, d') /\ d'.sorting = d.sorting
      /\ DevOK(d', torn) /\ TransferOK(d', torn)
  BY <1>1, <1>6, QueuesOnly
<1>8. d'.sorting <=> q \in Sorting
  BY <1>2, <1>3, <1>7, SetsMoved
<1>9. TypeOK'
  <2>1. NoCall \in [bh : Buffers \cup {NoBuffer}, cmd : Commands]
    BY DEF NoCall, Commands
  <2>2. call' \in [Tasks -> [bh : Buffers \cup {NoBuffer}, cmd : Commands]]
    BY <1>1, <1>5, <2>1 DEF TypeOK
  <2>3. pc' \in [Tasks -> Places]
    BY <1>3, OthersIdle
  <2>4. QED
    BY <1>1, <1>4, <1>7, <2>2, <2>3 DEF TypeOK
<1>10. \A u \in Tasks : pc'[u] # "out" => call'[u] = call[u]
  BY <1>1, <1>5 DEF TypeOK
<1>11. QED
  BY <1>2, <1>3, <1>4, <1>7, <1>8, <1>9, <1>10, QueueStep

(* The flag `sorting` and the walk's tmp.                                  *)
LEMMA FlagStep ==
  ASSUME HdInv, NEW t \in Tasks, SetSorting(t) \/ LoadThis(t) \/ ClearSorting(t)
  PROVE  HdInv'
<1> DEFINE q == IF SetSorting(t) THEN "look" ELSE IF LoadThis(t) THEN "insert"
                ELSE "restart"
           v == q \in Sorting
<1>1. /\ TypeOK /\ d \in DriverState /\ DevOK(d, torn) /\ TransferOK(d, torn)
      /\ (d.this # NoSlot => d.this \in UsedOf(d) /\ d.this \in Requests)
  BY DEF HdInv, DriverOK, ListOK, UsedOf
<1>2. /\ MayRun(t) /\ Go(t, q) /\ pc[t] \notin Calling /\ q \notin Calling
      /\ pc[t] # "out" /\ (pc[t] \in Loose <=> q \in Loose) /\ q \in Places
      /\ SetSorting(t) => pc[t] = "sort"
      /\ LoadThis(t) => pc[t] = "look"
      /\ ClearSorting(t) => pc[t] = "clear"
  BY DEF SetSorting, LoadThis, ClearSorting, At, Calling, Falling, Loose, Places, Busy, Adding
<1>3. d' = [d EXCEPT !.sorting = v]
  <2>1. CASE SetSorting(t)
    <3>1. v = TRUE
      BY <2>1 DEF Sorting
    <3> HIDE DEF v
    <3>2. QED
      BY <2>1, <3>1 DEF SetSorting
  <2>2. CASE LoadThis(t)
    <3>1. pc[t] = "look" /\ ~ SetSorting(t)
      BY <1>2, <2>2
    <3>2. v = TRUE
      BY <2>2, <3>1 DEF Sorting
    <3>3. d.sorting = TRUE
      BY <1>1, <3>1 DEF HdInv, SortInv, Sorting, DriverState
    <3>4. d' = d
      BY <2>2 DEF LoadThis
    <3> HIDE DEF v
    <3>5. QED
      BY <1>1, <3>2, <3>3, <3>4 DEF DriverState
  <2>3. CASE ClearSorting(t)
    <3>1. pc[t] = "clear" /\ ~ SetSorting(t) /\ ~ LoadThis(t)
      BY <1>2, <2>3
    <3>2. v = FALSE
      BY <3>1 DEF Sorting
    <3> HIDE DEF v
    <3>3. QED
      BY <2>3, <3>2 DEF ClearSorting
  <2>4. QED
    BY <2>1, <2>2, <2>3
<1>4. v \in BOOLEAN
  OBVIOUS
<1>5. q = "insert" => add'.tmp = d.this /\ d.this # NoSlot
  BY <1>1 DEF LoadThis, TypeOK
<1>6. add'.req = add.req /\ add' \in [req : MaybeSlot, tmp : MaybeSlot]
  BY <1>1 DEF SetSorting, LoadThis, ClearSorting, TypeOK, DriverState
<1>7. UNCHANGED <<call, budget, raced, torn>>
  BY DEF SetSorting, LoadThis, ClearSorting
<1>8. Moves(t, q)
  BY <1>2 DEF Moves
<1> HIDE DEF v, q
<1>9. /\ d' \in DriverState
      /\ Fields(d', d.wq, d.lock, d.uptodate, d.moved, d.slot, d.this, v,
                d.do_hd, d.dev)
  BY <1>1, <1>3, <1>4 DEF DriverState, Fields
<1>10. /\ SameLinks(d, d') /\ DevOK(d', torn) /\ TransferOK(d', torn)
       /\ d'.sorting = v /\ d'.this = d.this
  BY <1>1, <1>9 DEF Fields, SameLinks, DevOK, TransferOK, HalfWay, SectorsOK, ValidOK, UsedOf
<1>11. TypeOK'
  <2>1. pc' \in [Tasks -> Places]
    BY <1>8, OthersIdle
  <2>2. QED
    BY <1>1, <1>6, <1>7, <1>9, <2>1 DEF TypeOK
<1>12. q = "insert" => TmpOK(d', add'.tmp, raced)
  BY <1>5, <1>10 DEF TmpOK
<1>13. d'.sorting <=> q \in Sorting
  BY <1>10 DEF v
<1>14. QED
  BY <1>2, <1>6, <1>7, <1>8, <1>10, <1>11, <1>12, <1>13, QueueStep

(* The end of add_request: the handlers may have died down meanwhile.      *)
LEMMA RestartStep ==
  ASSUME HdInv, NEW t \in Tasks, NEW drq \in BOOLEAN, Restart(t, drq)
  PROVE  HdInv'
<1>1. /\ TypeOK /\ d \in DriverState /\ DevOK(d, torn) /\ TransferOK(d, torn)
      /\ ListOK(d) /\ LockOK(d, CallBuffers)
  BY DEF HdInv, DriverOK
<1>2. /\ MayRun(t) /\ Go(t, "wait") /\ pc[t] = "restart"
      /\ UNCHANGED <<call, budget, raced, torn>>
      /\ d' = IF d.do_hd = "NULL" THEN do_request(d, drq) ELSE d
      /\ add' = [req |-> NoSlot, tmp |-> NoSlot]
  BY DEF Restart, At
<1>3. Moves(t, "wait")
  BY <1>2 DEF Moves, Places, Busy
<1>4. ~ d.sorting
  BY <1>2, <1>3, SetsMoved DEF Sorting
<1>5. /\ d' \in DriverState /\ SameLinks(d, d') /\ d'.sorting = d.sorting
      /\ DevOK(d', torn) /\ TransferOK(d', torn)
  <2>1. CASE d.do_hd # "NULL"
    BY <1>1, <1>2, <2>1 DEF SameLinks
  <2>2. CASE d.do_hd = "NULL"
    <3>1. d.dev \in Commandable /\ (torn = {} => d.dev = "idle")
      BY <1>1, <2>2 DEF DevOK, Commandable, DriverState
    <3>2. HalfWay(d, torn) = {}
      BY <1>1, <3>1 DEF TransferOK, Commandable
    <3>3. Ready(d, torn)
      BY <1>1, <3>1, <3>2 DEF Ready, ListOK, LockOK, TransferOK
    <3>4. /\ d' \in DriverState /\ SameQueue(d, d')
          /\ DevOK(d', torn) /\ TransferOK(d', torn)
      BY <1>2, <2>2, <3>3, DoRequestOK
    <3>5. QED
      BY <3>4 DEF SameQueue, SameLinks
  <2>3. QED
    BY <2>1, <2>2
<1>6. TypeOK'
  <2>1. pc' \in [Tasks -> Places] /\ add' \in [req : MaybeSlot, tmp : MaybeSlot]
    BY <1>2, <1>3, OthersIdle DEF MaybeSlot
  <2>2. QED
    BY <1>1, <1>2, <1>5, <2>1 DEF TypeOK
<1>7. QED
  BY <1>2, <1>3, <1>4, <1>5, <1>6, QueueStep DEF Sorting, Loose, Calling, Falling

(* rw_abs_hd locks a buffer that nobody else has locked.                   *)
LEMMA BeginStep ==
  ASSUME HdInv, NEW t \in Tasks, NEW b \in Buffers, NEW c \in Commands, BeginCall(t, b, c)
  PROVE  HdInv'
<1> DEFINE lock == [d.lock EXCEPT ![b] = TRUE]
           moved == [d.moved EXCEPT ![b] = Nothing]
           uptodate == [d.uptodate EXCEPT ![b] = @ /\ c = "WRITE"]
           C == CallBuffers
<1>1. /\ TypeOK /\ d \in DriverState /\ DevOK(d, torn) /\ TransferOK(d, torn)
      /\ ListOK(d) /\ LockOK(d, C)
  BY DEF HdInv, DriverOK
<1>2. /\ MayRun(t) /\ Go(t, "search") /\ pc[t] = "out" /\ ~ d.lock[b] /\ budget[t] > 0
      /\ UNCHANGED <<add, raced, torn>>
      /\ call' = [call EXCEPT ![t] = [bh |-> b, cmd |-> c]]
      /\ budget' = [budget EXCEPT ![t] = @ - 1]
  BY DEF BeginCall, At
<1>3. d' = [d EXCEPT !.lock = lock, !.moved = moved, !.uptodate = uptodate]
  BY DEF BeginCall
<1>4. /\ lock \in [Buffers -> BOOLEAN] /\ lock[b] /\ \A x \in Buffers \ {b} : lock[x] = d.lock[x]
      /\ moved \in [Buffers -> Halves] /\ \A x \in Buffers \ {b} : moved[x] = d.moved[x]
      /\ uptodate \in [Buffers -> BOOLEAN]
      /\ \A x \in Buffers \ {b} : uptodate[x] = d.uptodate[x]
  BY <1>1, WholeIsHalves DEF DriverState
<1> HIDE DEF lock, moved, uptodate, C
<1>5. /\ d' \in DriverState
      /\ Fields(d', d.wq, lock, uptodate, moved, d.slot, d.this, d.sorting, d.do_hd, d.dev)
  BY <1>1, <1>3, <1>4 DEF DriverState, Fields
<1>6. /\ d'.lock = lock /\ d'.uptodate = uptodate /\ d'.moved = moved /\ d'.slot = d.slot
      /\ d'.this = d.this /\ d'.sorting = d.sorting /\ d'.do_hd = d.do_hd /\ d'.dev = d.dev
  BY <1>5 DEF Fields
<1>7. Moves(t, "search")
  BY <1>2 DEF Moves, Places, Busy
<1>8. /\ OneBusy' /\ pc' \in [Tasks -> Places] /\ pc'[t] = "search"
      /\ \A u \in Tasks \ {t} : pc'[u] = pc[u] /\ pc[u] \notin Busy
  BY <1>7, OthersIdle
<1>9. /\ Callers' = Callers \cup {t} /\ t \notin Callers
      /\ BeingAdded = {} /\ BeingAdded' = {} /\ ~ d.sorting
      /\ \A u \in Tasks : pc'[u] \notin Loose \cup Sorting
  <2>1. "search" \in Calling /\ "search" \notin Loose \cup Sorting
        /\ "out" \notin Calling \cup Loose \cup Sorting
    BY DEF Calling, Falling, Loose, Sorting
  <2>2. QED
    BY <1>2, <1>7, <1>8, <2>1, SetsMoved DEF Callers
<1>10. UsedOf(d') = UsedOf(d) /\ Used = UsedOf(d) /\ Used' = UsedOf(d')
  BY <1>6 DEF UsedOf, Used
<1>11. call'[t].bh = b /\ call'[t] \in [bh : Buffers \cup {NoBuffer}, cmd : Commands]
       /\ \A u \in Tasks \ {t} : call'[u] = call[u]
  BY <1>1, <1>2 DEF TypeOK
<1>12. TypeOK'
  <2>1. call' \in [Tasks -> [bh : Buffers \cup {NoBuffer}, cmd : Commands]]
    BY <1>1, <1>2 DEF TypeOK
  <2>2. budget' \in [Tasks -> 0 .. MaxCalls]
    BY <1>1, <1>2, HdAssumption DEF TypeOK
  <2>3. QED
    BY <1>1, <1>2, <1>5, <1>8, <2>1, <2>2 DEF TypeOK
<1>13. \A u \in Callers : u \in Tasks \ {t} /\ d.lock[call[u].bh] /\ call[u].bh \in C
  BY <1>1, <1>9 DEF LockOK, C, CallBuffers, Callers
<1>14. CallInv'
  <2>1. \A u \in Tasks : pc'[u] # "out" => call'[u].bh \in Buffers
    BY <1>8, <1>11 DEF HdInv, CallInv
  <2>2. \A u, v \in Callers' : call'[u].bh = call'[v].bh => u = v
    BY <1>2, <1>9, <1>11, <1>13 DEF HdInv, CallInv
  <2>3. QED
    BY <2>1, <2>2 DEF CallInv
<1>15. CallBuffers' = C \cup {b}
  BY <1>9, <1>11, <1>13 DEF C, CallBuffers
<1>16. \A s \in UsedOf(d) : d.slot[s].bh \in Buffers \ (C \cup {b}) /\ d.lock[d.slot[s].bh]
  BY <1>1, <1>2 DEF LockOK
<1>17. LockOK(d', C \cup {b})
  <2>1. \A s \in UsedOf(d') : d'.slot[s].bh \in Buffers \ (C \cup {b}) /\ d'.lock[d'.slot[s].bh]
    BY <1>4, <1>6, <1>10, <1>16
  <2>2. \A x \in C : x \in Buffers
    <3>1. \A u \in Callers : pc[u] # "out" /\ u \in Tasks
      BY DEF Callers, Calling, Falling
    <3>2. QED
      BY <3>1 DEF C, CallBuffers, HdInv, CallInv
  <2>3. \A x \in C \cup {b} : d'.lock[x]
    BY <1>1, <1>4, <1>6, <2>2 DEF LockOK
  <2>4. QED
    BY <1>1, <1>4, <1>6, <1>10, <2>1, <2>3 DEF LockOK
<1>18. ListOK(d') /\ DevOK(d', torn)
  BY <1>1, <1>6, <1>10 DEF ListOK, DevOK
<1>19. TransferOK(d', torn)
  <2>1. d'.dev = "write" => d.this \in UsedOf(d)
    BY <1>1, <1>6 DEF DevOK, ListOK
  <2>2. SectorsOK(d') /\ HalfWay(d', torn) = HalfWay(d, torn)
    BY <1>1, <1>6, <1>10 DEF TransferOK, SectorsOK, HalfWay
  <2>3. \A s \in UsedOf(d) : d'.moved[d'.slot[s].bh] = d.moved[d.slot[s].bh]
    BY <1>4, <1>6, <1>16
  <2>4. \A s \in HalfWay(d', torn) :
          s = d'.this /\ d'.dev = "write" /\ d'.moved[d'.slot[s].bh] = Whole
    <3>1. \A s \in HalfWay(d, torn) : s \in UsedOf(d)
      BY DEF HalfWay
    <3>2. QED
      BY <1>1, <1>6, <2>2, <2>3, <3>1 DEF TransferOK
  <2>5. d'.dev = "write" /\ d'.slot[d'.this].nsector = 2
          => d'.moved[d'.slot[d'.this].bh][1] = 1
    BY <1>1, <1>6, <2>1, <2>3 DEF TransferOK
  <2>6. ValidOK(d', torn)
    BY <1>1, <1>4, <1>6 DEF TransferOK, ValidOK
  <2>7. QED
    BY <2>2, <2>4, <2>5, <2>6 DEF TransferOK
<1>20. LooseInv' /\ SortInv'
  BY <1>6, <1>9 DEF LooseInv, SortInv, Loose
<1>21. ReachInv'
  BY <1>2, <1>6, <1>9, <1>10 DEF HdInv, ReachInv, AllReached, Closed
<1>22. QED
  BY <1>2, <1>5, <1>8, <1>12, <1>14, <1>15, <1>17, <1>18, <1>19, <1>20, <1>21
  DEF HdInv, DriverOK

(* The caller's request gets a free slot, which nothing leads to.          *)
LEMMA TakeSlotStep ==
  ASSUME HdInv, NEW t \in Tasks, NEW s \in Requests, TakeSlot(t, s)
  PROVE  HdInv'
<1> DEFINE b == call[t].bh
           new == [used |-> TRUE, bh |-> call[t].bh, cmd |-> call[t].cmd,
                   nsector |-> 2, errors |-> 0, next |-> NoSlot]
           slot == [d.slot EXCEPT ![s] = new]
           C == CallBuffers
<1>1. /\ TypeOK /\ d \in DriverState /\ DevOK(d, torn) /\ TransferOK(d, torn)
      /\ ListOK(d) /\ LockOK(d, C)
  BY DEF HdInv, DriverOK
<1>2. /\ MayRun(t) /\ Go(t, "sort") /\ pc[t] = "search" /\ ~ d.slot[s].used
      /\ UNCHANGED <<call, budget, raced, torn>>
      /\ d' = [d EXCEPT !.slot = slot] /\ add' = [add EXCEPT !.req = s]
  BY DEF TakeSlot, At
<1>3. b \in Buffers /\ t \in Callers /\ b \in C /\ s # NoSlot
  BY <1>2, NoneIsNone DEF HdInv, CallInv, Callers, Calling, C, CallBuffers
<1>4. /\ new \in SlotState /\ new.used /\ new.bh = b /\ new.nsector = 2 /\ new.next = NoSlot
  BY <1>1, <1>3, HdAssumption DEF TypeOK, SlotState, MaybeSlot
<1>5. /\ slot \in [Requests -> SlotState] /\ slot[s] = new
      /\ \A x \in Requests \ {s} : slot[x] = d.slot[x]
  BY <1>1, <1>4 DEF DriverState
<1> HIDE DEF slot, new, C, b
<1>6. /\ d' \in DriverState
      /\ Fields(d', d.wq, d.lock, d.uptodate, d.moved, slot, d.this, d.sorting, d.do_hd, d.dev)
  BY <1>1, <1>2, <1>5 DEF DriverState, Fields
<1>7. /\ d'.lock = d.lock /\ d'.uptodate = d.uptodate /\ d'.moved = d.moved /\ d'.slot = slot
      /\ d'.this = d.this /\ d'.sorting = d.sorting /\ d'.do_hd = d.do_hd /\ d'.dev = d.dev
  BY <1>6 DEF Fields
<1>8. Moves(t, "sort")
  BY <1>2 DEF Moves, Places, Busy, Adding
<1>9. /\ OneBusy' /\ pc' \in [Tasks -> Places] /\ pc'[t] = "sort"
      /\ \A u \in Tasks \ {t} : pc'[u] = pc[u] /\ pc[u] \notin Busy
  BY <1>8, OthersIdle
<1>10. /\ Callers' = Callers \ {t}
       /\ BeingAdded = {} /\ BeingAdded' = {s} /\ ~ d.sorting
       /\ \A u \in Tasks : pc'[u] \notin Sorting
       /\ add' \in [req : MaybeSlot, tmp : MaybeSlot] /\ add'.req = s
  <2>1. "sort" \notin Calling \cup Sorting /\ "sort" \in Loose
        /\ "search" \notin Loose \cup Sorting
    BY DEF Calling, Falling, Loose, Sorting
  <2>2. add' \in [req : MaybeSlot, tmp : MaybeSlot] /\ add'.req = s
    BY <1>1, <1>2 DEF TypeOK, MaybeSlot
  <2>3. QED
    BY <1>2, <1>8, <1>9, <2>1, <2>2, SetsMoved
<1>11. /\ UsedOf(d') = UsedOf(d) \cup {s} /\ s \notin UsedOf(d)
       /\ Used = UsedOf(d) /\ Used' = UsedOf(d')
       /\ \A x \in UsedOf(d) : x \in Requests \ {s} /\ d'.slot[x] = d.slot[x]
       /\ d'.slot[s] = new
  BY <1>2, <1>4, <1>5, <1>7 DEF UsedOf, Used
<1>12. TypeOK'
  BY <1>1, <1>2, <1>6, <1>9, <1>10 DEF TypeOK
<1>13. CallInv' /\ CallBuffers' = C \ {b}
  <2>1. CallInv'
    BY <1>2, <1>3, <1>9, <1>10 DEF HdInv, CallInv
  <2>2. \A u \in Callers : call[u].bh = b => u = t
    BY <1>3 DEF HdInv, CallInv, b
  <2>3. CallBuffers' = C \ {b}
    BY <1>2, <1>10, <2>2 DEF C, CallBuffers, b
  <2>4. QED
    BY <2>1, <2>3
<1>14. LockOK(d', C \ {b})
  <2>1. \A x \in UsedOf(d') : d'.slot[x].bh \in Buffers \ (C \ {b}) /\ d'.lock[d'.slot[x].bh]
    BY <1>1, <1>3, <1>4, <1>7, <1>11 DEF LockOK
  <2>2. \A x \in C \ {b} : d'.lock[x]
    BY <1>1, <1>7 DEF LockOK
  <2>3. \A x, y \in UsedOf(d') : d'.slot[x].bh = d'.slot[y].bh => x = y
    BY <1>1, <1>3, <1>4, <1>11 DEF LockOK
  <2>4. \A x \in Buffers : d'.lock[x] => x \in C \ {b} \/ \E y \in UsedOf(d') : d'.slot[y].bh = x
    BY <1>1, <1>4, <1>7, <1>11 DEF LockOK
  <2>5. QED
    BY <2>1, <2>2, <2>3, <2>4 DEF LockOK
<1>15. ListOK(d')
  <2>1. d.this # s
    BY <1>1, <1>3, <1>11 DEF ListOK
  <2>2. \A x \in UsedOf(d) : d.slot[x].next # s
    BY <1>1, <1>3, <1>11 DEF ListOK
  <2>3. QED
    BY <1>1, <1>4, <1>7, <1>11 DEF ListOK
<1>16. d.dev \in {"read", "write"} => d.this \in UsedOf(d)
  BY <1>1 DEF DevOK, ListOK
<1>17. DevOK(d', torn)
  BY <1>1, <1>7, <1>11, <1>16 DEF DevOK
<1>18. TransferOK(d', torn)
  <2>1. SectorsOK(d')
    BY <1>1, <1>4, <1>11 DEF TransferOK, SectorsOK
  <2>2. \A x \in HalfWay(d', torn) : x \in HalfWay(d, torn) /\ d'.slot[x] = d.slot[x]
    BY <1>4, <1>11 DEF HalfWay
  <2>3. \A x \in HalfWay(d', torn) :
          x = d'.this /\ d'.dev = "write" /\ d'.moved[d'.slot[x].bh] = Whole
    BY <1>1, <1>7, <2>2 DEF TransferOK
  <2>4. ValidOK(d', torn)
    BY <1>1, <1>7 DEF TransferOK, ValidOK
  <2>5. QED
    BY <1>1, <1>7, <1>11, <1>16, <2>1, <2>3, <2>4 DEF TransferOK
<1>19. LooseInv'
  <2>1. LooseOK(d', s)
    <3>1. s \in UsedOf(d') /\ d'.slot[s].next = NoSlot
      BY <1>4, <1>11
    <3>2. s # d'.this
      BY <1>1, <1>3, <1>7, <1>11 DEF ListOK
    <3>3. \A x \in UsedOf(d') : d'.slot[x].next # s
      BY <1>1, <1>3, <1>4, <1>11 DEF ListOK
    <3>4. QED
      BY <3>1, <3>2, <3>3 DEF LooseOK
  <2>2. QED
    BY <1>10, <2>1 DEF LooseInv
<1>20. SortInv'
  BY <1>7, <1>10 DEF SortInv, Sorting
<1>21. ReachInv'
  <2>1. SUFFICES ASSUME ~ raced PROVE AllReached(d', Used' \ BeingAdded')
    BY <1>2 DEF ReachInv
  <2>2. Used' \ BeingAdded' = UsedOf(d) /\ Used \ BeingAdded = UsedOf(d)
    BY <1>10, <1>11
  <2>3. AllReached(d, UsedOf(d))
    BY <2>1, <2>2 DEF HdInv, ReachInv
  <2>4. \A S \in SUBSET UsedOf(d) : Closed(d', S) <=> Closed(d, S)
    BY <1>11 DEF Closed
  <2>5. QED
    BY <1>7, <2>2, <2>3, <2>4 DEF AllReached
<1>22. QED
  BY <1>2, <1>6, <1>9, <1>12, <1>13, <1>14, <1>15, <1>17, <1>18, <1>19, <1>20, <1>21
  DEF HdInv, DriverOK

(* A step of add_request that links requests and changes nothing else.     *)
LEMMA LinksStep ==
  ASSUME HdInv, NEW t \in Tasks, Moves(t, "clear"), pc[t] \in {"look", "insert"},
         UNCHANGED <<call, add, budget, raced, torn>>, d' \in DriverState,
         NEW slot, NEW this,
         Fields(d', d.wq, d.lock, d.uptodate, d.moved, slot, this, d.sorting, d.do_hd, d.dev),
         \A s \in Requests : /\ slot[s].used = d.slot[s].used /\ slot[s].bh = d.slot[s].bh
                             /\ slot[s].cmd = d.slot[s].cmd
                             /\ slot[s].nsector = d.slot[s].nsector,
         this = d.this \/ d.dev \in Commandable,
         ListOK(d'), ~ raced => AllReached(d', Used)
  PROVE  HdInv'
<1>1. /\ TypeOK /\ d \in DriverState /\ DevOK(d, torn) /\ TransferOK(d, torn)
      /\ ListOK(d) /\ LockOK(d, CallBuffers)
  BY DEF HdInv, DriverOK
<1>2. /\ d'.lock = d.lock /\ d'.uptodate = d.uptodate /\ d'.moved = d.moved /\ d'.slot = slot
      /\ d'.this = this /\ d'.sorting = d.sorting /\ d'.do_hd = d.do_hd /\ d'.dev = d.dev
  BY DEF Fields
<1>3. /\ OneBusy' /\ pc' \in [Tasks -> Places] /\ pc'[t] = "clear"
      /\ \A u \in Tasks \ {t} : pc'[u] = pc[u] /\ pc[u] \notin Busy
  BY OthersIdle
<1>4. /\ Callers' = Callers /\ BeingAdded' = {} /\ d.sorting
      /\ (\E u \in Tasks : pc'[u] \in Sorting)
      /\ \A u \in Tasks : pc'[u] \notin Loose
  <2>1. /\ "clear" \in Sorting /\ "clear" \notin Calling \cup Loose
        /\ pc[t] \in Sorting /\ pc[t] \notin Calling
    BY DEF Calling, Falling, Loose, Sorting
  <2>2. Callers' = Callers \ {t} /\ t \notin Callers
    BY <2>1, SetsMoved DEF Callers
  <2>3. QED
    BY <1>3, <2>1, <2>2, SetsMoved
<1>5. /\ UsedOf(d') = UsedOf(d) /\ Used = UsedOf(d) /\ Used' = UsedOf(d')
      /\ \A s \in UsedOf(d) : s \in Requests
  BY <1>2 DEF UsedOf, Used
<1>6. CallInv' /\ CallBuffers' = CallBuffers
  <2>1. CallBuffers' = CallBuffers
    BY <1>4 DEF CallBuffers
  <2>2. pc[t] # "out"
    OBVIOUS
  <2>3. CallInv'
    BY <1>3, <1>4, <2>2 DEF HdInv, CallInv
  <2>4. QED
    BY <2>1, <2>3
<1>7. TypeOK'
  BY <1>1, <1>3 DEF TypeOK
<1>8. LockOK(d', CallBuffers)
  BY <1>1, <1>2, <1>5 DEF LockOK
<1>9. d.dev \in {"read", "write"} => this = d.this /\ d.this \in Requests
  BY <1>1, <1>5 DEF DevOK, ListOK, Commandable
<1>10. DevOK(d', torn)
  BY <1>1, <1>2, <1>9 DEF DevOK
<1>11. TransferOK(d', torn)
  <2>1. SectorsOK(d') /\ HalfWay(d', torn) = HalfWay(d, torn)
    BY <1>1, <1>2, <1>5 DEF TransferOK, SectorsOK, HalfWay
  <2>2. \A s \in HalfWay(d, torn) : s \in Requests /\ d.dev = "write" /\ s = d.this
    BY <1>1, <1>5 DEF TransferOK, HalfWay
  <2>3. \A s \in HalfWay(d', torn) :
          s = d'.this /\ d'.dev = "write" /\ d'.moved[d'.slot[s].bh] = Whole
    BY <1>1, <1>2, <1>9, <2>1, <2>2 DEF TransferOK
  <2>4. ValidOK(d', torn)
    BY <1>1, <1>2 DEF TransferOK, ValidOK
  <2>5. QED
    BY <1>1, <1>2, <1>9, <2>1, <2>3, <2>4 DEF TransferOK
<1>12. LooseInv' /\ SortInv'
  BY <1>2, <1>4, <1>5 DEF LooseInv, SortInv, Loose
<1>13. ReachInv'
  BY <1>4, <1>5 DEF ReachInv
<1>14. QED
  BY <1>3, <1>6, <1>7, <1>8, <1>10, <1>11, <1>12, <1>13 DEF HdInv, DriverOK

(* The first request of an empty list.                                     *)
LEMMA LinkFirstStep ==
  ASSUME HdInv, NEW t \in Tasks, LinkFirst(t)
  PROVE  HdInv'
<1>1. /\ TypeOK /\ d \in DriverState /\ DevOK(d, torn) /\ ListOK(d)
  BY DEF HdInv, DriverOK
<1>2. /\ MayRun(t) /\ Go(t, "clear") /\ pc[t] = "look" /\ d.this = NoSlot
      /\ UNCHANGED <<call, add, budget, raced, torn>>
      /\ d' = [d EXCEPT !.this = add.req]
  BY DEF LinkFirst, At
<1>3. LooseOK(d, add.req) /\ BeingAdded = {add.req}
  BY <1>2 DEF HdInv, LooseInv, Loose, BeingAdded
<1>4. /\ add.req \in UsedOf(d) /\ add.req \in Requests /\ d.slot[add.req].next = NoSlot
      /\ Used = UsedOf(d)
  BY <1>3 DEF LooseOK, UsedOf, Used
<1>5. /\ d' \in DriverState
      /\ Fields(d', d.wq, d.lock, d.uptodate, d.moved, d.slot, add.req, d.sorting,
                d.do_hd, d.dev)
  BY <1>1, <1>2, <1>4 DEF DriverState, Fields, MaybeSlot
<1>6. d'.slot = d.slot /\ d'.this = add.req /\ UsedOf(d') = UsedOf(d)
  BY <1>5 DEF Fields, UsedOf
<1>7. d.dev \in Commandable
  BY <1>1, <1>2 DEF DevOK, Commandable, DriverState
<1>8. ListOK(d')
  BY <1>1, <1>3, <1>4, <1>6 DEF ListOK, LooseOK
<1>9. ASSUME ~ raced PROVE AllReached(d', Used)
  <2>1. AllReached(d, Used \ {add.req})
    BY <1>3, <1>9 DEF HdInv, ReachInv
  <2>2. Used \ {add.req} = {}
    <3>1. Closed(d, {}) /\ {} \in SUBSET (Used \ {add.req})
      BY DEF Closed
    <3>2. QED
      BY <1>2, <2>1, <3>1 DEF AllReached
  <2>3. Used = {add.req}
    BY <1>4, <2>2
  <2>4. add.req # NoSlot
    BY <1>4, NoneIsNone
  <2>5. QED
    BY <1>4, <1>6, <2>3, <2>4 DEF AllReached, Closed
<1>10. Moves(t, "clear")
  BY <1>2 DEF Moves, Places, Busy, Adding
<1>11. QED
  BY <1>2, <1>5, <1>7, <1>8, <1>9, <1>10, LinksStep
-----------------------------------------------------------------------------
(* What leads from a finite set into it, no two to the same, reaches all   *)
(* of it.                                                                  *)
LEMMA Onto ==
  ASSUME NEW S, IsFiniteSet(S), NEW f,
         \A x \in S : f[x] \in S,
         \A x, y \in S : f[x] = f[y] => x = y,
         NEW z \in S
  PROVE  \E x \in S : f[x] = z
<1>1. SUFFICES ASSUME \A x \in S : f[x] # z PROVE FALSE
  OBVIOUS
<1> DEFINE g == [x \in S |-> f[x]]
<1>2. g \in [S -> S \ {z}]
  BY <1>1
<1>3. IsFiniteSet(S \ {z}) /\ Cardinality(S \ {z}) = Cardinality(S) - 1
  BY FS_RemoveElement
<1>4. Cardinality(S) \in Nat
  BY FS_CardinalityType
<1>5. Cardinality(S \ {z}) < Cardinality(S)
  BY <1>3, <1>4
<1>6. \E x, y \in S : x # y /\ g[x] = g[y]
  <2> HIDE DEF g
  <2>1. QED
    BY <1>2, <1>3, <1>5, FS_PigeonHole
<1>7. QED
  BY <1>6

(* There are finitely many slots.                                          *)
LEMMA SlotsFinite == \A S \in SUBSET Requests : IsFiniteSet(S)
<1>1. 1 \in Int /\ NR_REQUEST \in Int
  BY HdAssumption
<1>2. IsFiniteSet(Requests)
  BY <1>1, FS_Interval DEF Requests
<1>3. QED
  BY <1>2, FS_Subset

(* The walk of add_request ends: at a request on the list, behind which    *)
(* there is neither the one to be added nor the first one.                 *)
LEMMA WalkEnds ==
  ASSUME ListOK(d), LooseOK(d, add.req), TmpOK(d, add.tmp, raced),
         d.slot[add.tmp].next # NoSlot
  PROVE  LET s == Behind(d.slot[add.tmp].next)
         IN s \in Used /\ s # add.req /\ s # add.tmp
<1> DEFINE req == add.req
           tmp == add.tmp
           from == d.slot[add.tmp].next
           R == Walk(from)
           Through(S) == from \in S /\ \A x \in S : Stops(x) \/ d.slot[x].next \in S
<1>1. Used = UsedOf(d) /\ Used \in SUBSET Requests
  BY DEF Used, UsedOf
<1>2. from \in Used /\ from # req /\ from # tmp
  BY <1>1 DEF ListOK, LooseOK, TmpOK
<1>3. \A x \in Used : Stops(x) \/ d.slot[x].next # NoSlot
  BY DEF Stops
<1>4. Through(Used)
  BY <1>1, <1>2, <1>3 DEF ListOK
<1>5. Through(Used \ {req})
  BY <1>1, <1>2, <1>3 DEF ListOK, LooseOK
<1>6. Through(Used \ {tmp})
  BY <1>1, <1>2, <1>3 DEF ListOK, TmpOK
<1>7. \A S \in SUBSET Used : Through(S) => R \subseteq S
  BY DEF Walk
<1>8. R \in SUBSET Used /\ req \notin R /\ tmp \notin R
  BY <1>5, <1>6, <1>7 DEF Walk
<1>9. Through(R)
  BY <1>1, <1>2, <1>3 DEF Walk, ListOK
<1> HIDE DEF R, Through
<1>10. \E x \in R : Stops(x)
  <2>1. SUFFICES ASSUME \A x \in R : ~ Stops(x) PROVE FALSE
    OBVIOUS
  <2> DEFINE f == [x \in Requests |-> d.slot[x].next]
  <2>2. \A x \in R : f[x] = d.slot[x].next /\ f[x] # NoSlot
    BY <1>1, <1>3, <1>8, <2>1
  <2>3. \A x \in R : f[x] \in R
    BY <1>9, <2>1, <2>2 DEF Through
  <2>4. \A x, y \in R : f[x] = f[y] => x = y
    BY <1>1, <1>8, <2>2 DEF ListOK
  <2>5. from \in R /\ IsFiniteSet(R)
    BY <1>1, <1>8, <1>9, SlotsFinite DEF Through
  <2> HIDE DEF f, from
  <2>6. \E x \in R : f[x] = from
    BY ONLY <2>3, <2>4, <2>5, Onto
  <2>7. PICK x \in R : f[x] = from
    BY <2>6
  <2>8. d.slot[x].next = from /\ x \in UsedOf(d) /\ x # tmp
    BY <1>1, <1>8, <2>2, <2>7
  <2>9. CASE tmp = d.this /\ tmp # NoSlot
    BY <1>1, <1>2, <2>8, <2>9 DEF ListOK, from
  <2>10. CASE d.slot[tmp].next = d.this
    BY <1>1, <1>2, <2>8, <2>10 DEF ListOK, from
  <2>11. QED
    BY <2>9, <2>10 DEF TmpOK
<1>11. Behind(from) \in R
  BY <1>10 DEF Behind, R
<1>12. QED
  BY <1>8, <1>11

(* Where the request goes: behind one that is on the list, or, if that was *)
(* the last one and is done, behind no list at all.                        *)
LEMMA PlaceOK ==
  ASSUME HdInv, NEW t \in Tasks, pc[t] = "insert"
  PROVE  /\ Place \in Requests /\ Place # add.req /\ add.req \in Used
         /\ Place \in Used \/ (d.slot[Place].next = NoSlot /\ d.this = NoSlot /\ raced)
         /\ ~ raced /\ Place = d.this => d.slot[Place].next = NoSlot
<1>1. ListOK(d) /\ LooseOK(d, add.req) /\ TmpOK(d, add.tmp, raced)
  BY DEF HdInv, DriverOK, LooseInv, Loose, SortInv
<1>2. Used = UsedOf(d) /\ Used \in SUBSET Requests
  BY DEF Used, UsedOf
<1>3. CASE d.slot[add.tmp].next = NoSlot
  <2>1. Place = add.tmp
    BY <1>3 DEF Place
  <2>2. add.tmp \in Requests /\ add.tmp # add.req
    BY <1>1, <1>2 DEF TmpOK, ListOK, LooseOK
  <2>3. add.tmp \in Used \/ (d.this = NoSlot /\ raced)
    BY <1>1, <1>2, <1>3 DEF TmpOK, ListOK
  <2>4. QED
    BY <1>1, <1>2, <1>3, <2>1, <2>2, <2>3 DEF LooseOK
<1>4. CASE d.slot[add.tmp].next # NoSlot
  <2>1. Place = Behind(d.slot[add.tmp].next)
    BY <1>4 DEF Place
  <2>2. Place \in Used /\ Place # add.req /\ Place # add.tmp
    BY <1>1, <1>4, <2>1, WalkEnds
  <2>3. ~ raced => Place # d.this
    BY <1>1, <2>2 DEF TmpOK
  <2>4. QED
    BY <1>1, <1>2, <2>2, <2>3 DEF LooseOK
<1>5. QED
  BY <1>3, <1>4

(* The request is sorted in.                                               *)
LEMMA InsertStep ==
  ASSUME HdInv, NEW t \in Tasks, Insert(t)
  PROVE  HdInv'
<1> DEFINE req == add.req
           s == Place
           slot == [d.slot EXCEPT ![req].next = d.slot[s].next, ![s].next = req]
<1>1. /\ TypeOK /\ d \in DriverState /\ ListOK(d) /\ d.slot \in [Requests -> SlotState]
  BY DEF HdInv, DriverOK, DriverState
<1>2. /\ MayRun(t) /\ Go(t, "clear") /\ pc[t] = "insert"
      /\ UNCHANGED <<call, add, budget, raced, torn>>
  BY DEF Insert, At
<1>3. d' = [d EXCEPT !.slot = slot]
  BY DEF Insert
<1>4. LooseOK(d, req) /\ BeingAdded = {req}
  BY <1>2 DEF HdInv, LooseInv, Loose, BeingAdded
<1>5. /\ req \in UsedOf(d) /\ req \in Requests /\ d.slot[req].next = NoSlot /\ req # NoSlot
      /\ Used = UsedOf(d) /\ \A x \in UsedOf(d) : x \in Requests
  BY <1>4, NoneIsNone DEF LooseOK, UsedOf, Used
<1>6. /\ s \in Requests /\ s # req
      /\ s \in Used \/ (d.slot[s].next = NoSlot /\ d.this = NoSlot /\ raced)
  BY <1>2, PlaceOK
<1>7. /\ slot[req] = [d.slot[req] EXCEPT !.next = d.slot[s].next]
      /\ slot[s] = [d.slot[s] EXCEPT !.next = req]
      /\ \A x \in Requests \ {req, s} : slot[x] = d.slot[x]
  BY <1>1, <1>5, <1>6
<1>8. /\ slot \in [Requests -> SlotState]
      /\ slot[req].next = d.slot[s].next /\ slot[s].next = req
      /\ \A x \in Requests : /\ slot[x].used = d.slot[x].used /\ slot[x].bh = d.slot[x].bh
                             /\ slot[x].cmd = d.slot[x].cmd
                             /\ slot[x].nsector = d.slot[x].nsector
  <2> HIDE DEF s, req
  <2>1. d.slot[req] \in SlotState /\ d.slot[s] \in SlotState
        /\ d.slot[s].next \in MaybeSlot /\ req \in MaybeSlot
    BY <1>1, <1>5, <1>6 DEF SlotState, MaybeSlot
  <2>2. slot \in [Requests -> SlotState]
    BY <1>1, <2>1 DEF SlotState
  <2>3. ASSUME NEW r \in SlotState, NEW n \in MaybeSlot, NEW q, q = [r EXCEPT !.next = n]
        PROVE  /\ q.next = n /\ q.used = r.used /\ q.bh = r.bh /\ q.cmd = r.cmd
               /\ q.nsector = r.nsector
    BY <2>3 DEF SlotState
  <2> HIDE DEF slot
  <2>4. /\ slot[req].next = d.slot[s].next /\ slot[req].used = d.slot[req].used
        /\ slot[req].bh = d.slot[req].bh /\ slot[req].cmd = d.slot[req].cmd
        /\ slot[req].nsector = d.slot[req].nsector
    BY <1>7, <2>1, <2>3
  <2>5. /\ slot[s].next = req /\ slot[s].used = d.slot[s].used
        /\ slot[s].bh = d.slot[s].bh /\ slot[s].cmd = d.slot[s].cmd
        /\ slot[s].nsector = d.slot[s].nsector
    BY <1>7, <2>1, <2>3
  <2>6. QED
    BY <1>7, <2>2, <2>4, <2>5
<1> HIDE DEF slot, s, req
<1>9. /\ d' \in DriverState
      /\ Fields(d', d.wq, d.lock, d.uptodate, d.moved, slot, d.this, d.sorting,
                d.do_hd, d.dev)
  BY <1>1, <1>3, <1>8 DEF DriverState, Fields
<1>10. d'.slot = slot /\ d'.this = d.this /\ UsedOf(d') = UsedOf(d)
  BY <1>8, <1>9 DEF Fields, UsedOf
<1>11. \A x \in UsedOf(d) \ {req, s} : slot[x].next = d.slot[x].next
  BY <1>5, <1>7
<1>12. ListOK(d')
  <2>1. \A x \in UsedOf(d) : slot[x].next # NoSlot =>
          slot[x].next \in UsedOf(d) /\ slot[x].next # d.this
    BY <1>1, <1>4, <1>5, <1>6, <1>8, <1>11 DEF ListOK, LooseOK
  <2>2. \A x, y \in UsedOf(d) : slot[x].next = slot[y].next /\ slot[x].next # NoSlot => x = y
    BY <1>1, <1>4, <1>5, <1>6, <1>8, <1>11 DEF ListOK, LooseOK
  <2>3. QED
    BY <1>1, <1>10, <2>1, <2>2 DEF ListOK
<1>13. ASSUME ~ raced PROVE AllReached(d', Used)
  <2>1. AllReached(d, Used \ {req}) /\ s \in Used
    BY <1>4, <1>6, <1>13 DEF HdInv, ReachInv
  <2>2. d'.this \in Used \cup {NoSlot} /\ Closed(d', Used)
    BY <1>5, <1>10, <1>12 DEF ListOK, Closed
  <2>3. ASSUME NEW S \in SUBSET Used, d'.this \in S \cup {NoSlot}, Closed(d', S)
        PROVE  S = Used
    <3>1. d.this \in (S \ {req}) \cup {NoSlot}
      BY <1>4, <1>10, <2>3 DEF LooseOK
    <3>2. Closed(d, S \ {req})
      <4>1. \A x \in S \ {req, s} : d.slot[x].next \in (S \ {req}) \cup {NoSlot}
        BY <1>4, <1>5, <1>10, <1>11, <2>3 DEF Closed, LooseOK
      <4>2. s \in S => d.slot[s].next \in (S \ {req}) \cup {NoSlot}
        BY <1>4, <1>5, <1>8, <1>10, <2>1, <2>3 DEF Closed, LooseOK
      <4>3. QED
        BY <4>1, <4>2 DEF Closed
    <3>3. S \ {req} = Used \ {req}
      BY <2>1, <2>3, <3>1, <3>2 DEF AllReached
    <3>4. req \in S
      BY <1>5, <1>6, <1>8, <1>10, <2>1, <2>3, <3>3 DEF Closed
    <3>5. QED
      BY <1>5, <2>3, <3>3, <3>4
  <2>4. QED
    BY <2>2, <2>3 DEF AllReached
<1>14. Moves(t, "clear")
  BY <1>2 DEF Moves, Places, Busy, Adding
<1>15. QED
  BY <1>2, <1>8, <1>9, <1>12, <1>13, <1>14, LinksStep
-----------------------------------------------------------------------------
(* hd_init: no request, no lock, and the disk has nothing to do.           *)
LEMMA HdInit == Init => HdInv
<1> SUFFICES ASSUME Init PROVE HdInv
  OBVIOUS
<1>1. AllAwake \in WaitState
  BY NoTaskAssumption DEF AllAwake, WaitState, MaybeTask, TaskStates
<1>2. FreeSlot \in SlotState /\ ~ FreeSlot.used
  BY HdAssumption DEF FreeSlot, SlotState, Commands, MaybeSlot
<1>3. /\ d = [wq |-> AllAwake,
              lock |-> [b \in Buffers |-> FALSE],
              uptodate |-> [b \in Buffers |-> FALSE],
              moved |-> [b \in Buffers |-> Nothing],
              slot |-> [s \in Requests |-> FreeSlot],
              this |-> NoSlot, sorting |-> FALSE, do_hd |-> "NULL", dev |-> "idle"]
      /\ pc = [t \in Tasks |-> "out"] /\ call = [t \in Tasks |-> NoCall]
      /\ add = [req |-> NoSlot, tmp |-> NoSlot] /\ budget = [t \in Tasks |-> MaxCalls]
      /\ raced = FALSE /\ torn = {}
  BY DEF Init
<1>4. d \in DriverState
  BY <1>1, <1>2, <1>3, WholeIsHalves DEF DriverState, MaybeSlot
<1>5. TypeOK
  <2>1. NoCall \in [bh : Buffers \cup {NoBuffer}, cmd : Commands]
    BY DEF NoCall, Commands
  <2>2. add \in [req : MaybeSlot, tmp : MaybeSlot]
    BY <1>3 DEF MaybeSlot
  <2>3. MaxCalls \in 0 .. MaxCalls /\ "out" \in Places
    BY HdAssumption DEF Places
  <2>4. QED
    BY <1>3, <1>4, <2>1, <2>2, <2>3 DEF TypeOK
<1>6. /\ UsedOf(d) = {} /\ Used = {} /\ d.this = NoSlot /\ d.dev = "idle" /\ ~ d.sorting
      /\ \A b \in Buffers : ~ d.lock[b] /\ ~ d.uptodate[b]
  BY <1>2, <1>3 DEF UsedOf, Used
<1>7. Callers = {} /\ CallBuffers = {} /\ \A t \in Tasks : pc[t] = "out"
  BY <1>3 DEF Callers, CallBuffers, Calling, Falling
<1>8. OneBusy /\ CallInv /\ LooseInv /\ SortInv
  BY <1>6, <1>7 DEF OneBusy, CallInv, LooseInv, SortInv, Busy, Falling, Adding, Loose, Sorting
<1>9. ReachInv
  BY <1>6 DEF ReachInv, AllReached, Closed
<1>10. DriverOK(d, CallBuffers, torn)
  BY <1>4, <1>6, <1>7 DEF DriverOK, ListOK, LockOK, DevOK, TransferOK, SectorsOK, HalfWay, ValidOK
<1>11. QED
  BY <1>5, <1>8, <1>9, <1>10 DEF HdInv

(* Every step keeps the invariant: one lemma for each kind of step.        *)
LEMMA HdStep == HdInv /\ [Next]_vars => HdInv'
<1> SUFFICES ASSUME HdInv, [Next]_vars PROVE HdInv'
  OBVIOUS
<1>1. CASE Irq
  BY <1>1, IrqStep
<1>2. ASSUME NEW t \in Tasks, CallStep(t) \/ Resume(t) PROVE HdInv'
  <2>1. \A drq \in Drq : drq \in BOOLEAN
    BY DEF Drq
  <2>2. CASE \E s \in Requests : TakeSlot(t, s)
    BY <2>2, TakeSlotStep
  <2>3. CASE \/ NoSlotFree(t) \/ SleepLoad(t) \/ SleepLink(t) \/ SleepMark(t)
             \/ SleepReturn(t) \/ WaitOnBuffer(t) \/ WaitReturn(t) \/ EndCall(t)
    BY <2>3, WaitStep
  <2>4. CASE SetSorting(t) \/ LoadThis(t) \/ ClearSorting(t)
    BY <2>4, FlagStep
  <2>5. CASE LinkFirst(t)
    BY <2>5, LinkFirstStep
  <2>6. CASE Insert(t)
    BY <2>6, InsertStep
  <2>7. CASE \E drq \in Drq : Restart(t, drq)
    BY <2>1, <2>7, RestartStep
  <2>8. QED
    BY <1>2, <2>2, <2>3, <2>4, <2>5, <2>6, <2>7 DEF CallStep, Resume
<1>3. ASSUME NEW t \in Tasks, NEW b \in Buffers, NEW c \in Commands, BeginCall(t, b, c)
      PROVE  HdInv'
  BY <1>3, BeginStep
<1>4. CASE UNCHANGED vars
  <2>1. /\ d' = d /\ pc' = pc /\ call' = call /\ add' = add /\ budget' = budget
        /\ raced' = raced /\ torn' = torn
    BY <1>4 DEF vars
  <2>2. TypeOK' /\ OneBusy' /\ CallInv' /\ CallBuffers' = CallBuffers
    BY <2>1 DEF HdInv, TypeOK, OneBusy, CallInv, Callers, CallBuffers
  <2>3. DriverOK(d, CallBuffers, torn)'
    BY <2>1, <2>2 DEF HdInv
  <2>4. LooseInv' /\ SortInv'
    BY <2>1 DEF HdInv, LooseInv, SortInv
  <2>5. Used' = Used /\ BeingAdded' = BeingAdded
    BY <2>1 DEF Used, BeingAdded
  <2>6. ReachInv'
    BY <2>1, <2>5 DEF HdInv, ReachInv
  <2>7. QED
    BY <2>2, <2>3, <2>4, <2>6 DEF HdInv
<1>5. QED
  BY <1>1, <1>2, <1>3, <1>4 DEF Next

(* The inductive invariant of the request queue.                           *)
LEMMA HdInvariant == Spec => []HdInv
BY HdInit, HdStep, PTL DEF Spec
-----------------------------------------------------------------------------
(* The locks as LockExact counts them.                                     *)
LEMMA LocksCounted == HdInv => LockExact
<1> SUFFICES ASSUME HdInv PROVE LockExact
  OBVIOUS
<1>1. TypeOK /\ LockOK(d, CallBuffers) /\ CallInv
  BY DEF HdInv, DriverOK
<1>2. SUFFICES ASSUME NEW b \in Buffers
               PROVE  Cardinality({s \in Requests : d.slot[s].used /\ d.slot[s].bh = b})
                        + Cardinality({t \in Tasks : call[t].bh = b
                                         /\ pc[t] \in {"search", "slept"} \cup Falling})
                      = IF d.lock[b] THEN 1 ELSE 0
  BY <1>1 DEF LockExact
<1> DEFINE For == {s \in Requests : d.slot[s].used /\ d.slot[s].bh = b}
           By == {t \in Tasks : call[t].bh = b /\ pc[t] \in {"search", "slept"} \cup Falling}
<1>3. /\ \A s \in For : s \in UsedOf(d) /\ d.slot[s].bh = b
      /\ \A s \in UsedOf(d) : d.slot[s].bh = b => s \in For
  BY DEF UsedOf
<1>4. /\ \A t \in By : t \in Callers /\ call[t].bh = b
      /\ \A t \in Callers : call[t].bh = b => t \in By
  BY DEF Callers, Calling
<1>5. b \in CallBuffers <=> By # {}
  BY <1>4 DEF CallBuffers
<1> HIDE DEF For, By
<1>6. \A x, y \in For : x = y
  BY <1>1, <1>3 DEF LockOK
<1>7. \A x, y \in By : x = y
  BY <1>1, <1>4 DEF CallInv
<1>8. By # {} => For = {} /\ d.lock[b]
  BY <1>1, <1>3, <1>5 DEF LockOK
<1>9. For # {} => d.lock[b]
  BY <1>1, <1>3 DEF LockOK
<1>10. d.lock[b] => For # {} \/ By # {}
  BY <1>1, <1>3, <1>5 DEF LockOK
<1>11. \A S : (\A x, y \in S : x = y) => Cardinality(S) = IF S = {} THEN 0 ELSE 1
  <2>1. SUFFICES ASSUME NEW S, \A x, y \in S : x = y, S # {} PROVE Cardinality(S) = 1
    BY FS_EmptySet
  <2>2. PICK x : S = {x}
    BY <2>1
  <2>3. QED
    BY <2>2, FS_Singleton
<1>12. Cardinality(For) + Cardinality(By) = IF d.lock[b] THEN 1 ELSE 0
  <2>1. /\ Cardinality(For) = IF For = {} THEN 0 ELSE 1
        /\ Cardinality(By) = IF By = {} THEN 0 ELSE 1
    BY <1>6, <1>7, <1>11
  <2>2. QED
    BY <1>8, <1>9, <1>10, <2>1
<1>13. QED
  BY <1>12 DEF For, By

(* The locks of the buffers, hd.c and buffer.c: whatever races there are,  *)
(* a buffer is locked as long as one request for it is in use or its       *)
(* caller looks for a slot, and no two are for one buffer.                 *)
THEOREM LocksExact == Spec => []LockExact
BY HdInvariant, LocksCounted, PTL

(* do_hd: each interrupt finds the handler of the command it ends, and a   *)
(* transfer is that of this_request (until a second sector has failed).    *)
THEOREM HandlersReady == Spec => []HandlerReady
<1>1. HdInv => HandlerReady
  BY DEF HdInv, DriverOK, DevOK, ListOK, UsedOf, HandlerReady
<1>2. QED
  BY <1>1, HdInvariant, PTL

(* read_intr and write_intr, with every retry: a buffer left valid has had *)
(* both halves of its block moved (but for failures of a second sector).   *)
THEOREM ValidAreWhole == Spec => []ValidIsWhole
<1>1. HdInv => ValidIsWhole
  BY DEF HdInv, DriverOK, TransferOK, ValidOK, ValidIsWhole
<1>2. QED
  BY <1>1, HdInvariant, PTL

(* What is reached from this_request by links of which no two lead to one  *)
(* request is a list that ends.                                            *)
LEMMA ReachedIsList ==
  ASSUME ListOK(d), NEW L \in SUBSET UsedOf(d), AllReached(d, L)
  PROVE  IsList(L)
<1>1. \A s \in UsedOf(d) : s \in Requests /\ s # NoSlot
  BY NoneIsNone DEF UsedOf
<1>2. ASSUME NEW S \in SUBSET L, S # {}, \A s \in S : d.slot[s].next \in S
      PROVE  FALSE
  <2> DEFINE f == [x \in Requests |-> d.slot[x].next]
  <2>1. \A x \in S : f[x] \in S /\ f[x] = d.slot[x].next
    BY <1>1, <1>2
  <2>2. \A x, y \in S : f[x] = f[y] => x = y
    BY <1>1, <2>1 DEF ListOK
  <2>3. IsFiniteSet(S)
    BY <1>1, SlotsFinite
  <2> HIDE DEF f
  <2>4. ASSUME NEW z \in S PROVE \E x \in S : d.slot[x].next = z
    <3>1. \A x \in S : f[x] \in S
      BY <2>1
    <3>2. \E x \in S : f[x] = z
      BY ONLY <2>2, <2>3, <3>1, z \in S, Onto
    <3>3. QED
      BY <2>1, <3>2
  <2>5. d.this \notin S
    BY <1>1, <2>4 DEF ListOK
  <2>6. Closed(d, L \ S)
    <3>1. SUFFICES ASSUME NEW x \in L \ S, d.slot[x].next \in S PROVE FALSE
      BY DEF AllReached, Closed
    <3>2. PICK y \in S : d.slot[y].next = d.slot[x].next
      BY <2>4, <3>1
    <3>3. QED
      BY <1>1, <3>1, <3>2 DEF ListOK
  <2>7. L \ S = L
    BY <2>5, <2>6 DEF AllReached
  <2>8. QED
    BY <1>2, <2>7
<1>3. QED
  BY <1>2 DEF AllReached, Closed, IsList

(* add_request against the handlers: unless a handler came while the list  *)
(* was being sorted, the list holds exactly the requests in use.           *)
THEOREM RequestsAreKept == Spec => []RequestsKept
<1>1. HdInv => RequestsKept
  <2>1. SUFFICES ASSUME HdInv, ~ raced PROVE IsList(Used \ BeingAdded)
    BY DEF RequestsKept
  <2>2. ListOK(d) /\ AllReached(d, Used \ BeingAdded) /\ Used = UsedOf(d)
    BY <2>1 DEF HdInv, DriverOK, ReachInv, Used, UsedOf
  <2>3. QED
    BY <2>2, ReachedIsList
<1>2. QED
  BY <1>1, HdInvariant, PTL

(* No sorting comes between the first request and the second.              *)
THEOREM SecondOfList == Spec => SecondStays
<1> DEFINE Kept == LET first == d.this
                       second == d.slot[first].next
                   IN ~ raced /\ first # NoSlot /\ second # NoSlot /\ d'.this = first
                      => d'.slot[first].next = second
<1>1. HdInv /\ [Next]_vars => [Kept]_vars
  <2>1. SUFFICES ASSUME HdInv, Next, ~ raced, d.this # NoSlot,
                        d.slot[d.this].next # NoSlot, d'.this = d.this
                 PROVE  d'.slot[d.this].next = d.slot[d.this].next
    OBVIOUS
  <2>2. /\ d \in DriverState /\ ListOK(d) /\ d.this \in UsedOf(d) /\ d.this \in Requests
        /\ DriverOK(d, CallBuffers, torn) /\ d.slot \in [Requests -> SlotState]
    BY <2>1 DEF HdInv, DriverOK, ListOK, UsedOf, DriverState
  <2>3. CASE Irq
    <3>1. Serves(d, d', torn')
      BY <2>2, <2>3, IrqServes
    <3>2. ~ Retired(d, d')
      BY <2>1, <2>2 DEF Retired, ListOK
    <3>3. QED
      BY <2>2, <3>1, <3>2 DEF Serves, SameQueue
  <2>4. ASSUME NEW t \in Tasks, NEW s \in Requests, TakeSlot(t, s)
        PROVE  d'.slot[d.this].next = d.slot[d.this].next
    <3>1. s # d.this
      BY <2>2, <2>4 DEF TakeSlot, UsedOf
    <3>2. QED
      BY <2>2, <2>4, <3>1 DEF TakeSlot, DriverState
  <2>5. ASSUME NEW t \in Tasks, Insert(t)
        PROVE  d'.slot[d.this].next = d.slot[d.this].next
    <3>1. pc[t] = "insert"
      BY <2>5 DEF Insert, At
    <3>2. Place # d.this
      BY <2>1, <3>1, PlaceOK
    <3>3. add.req # d.this
      BY <2>1, <3>1 DEF HdInv, LooseInv, Loose, LooseOK
    <3> DEFINE place == Place
    <3>4. d' = [d EXCEPT !.slot = [d.slot EXCEPT ![add.req].next = d.slot[place].next,
                                                 ![place].next = add.req]]
      BY <2>5 DEF Insert
    <3> HIDE DEF place
    <3>5. d'.slot = [d.slot EXCEPT ![add.req].next = d.slot[place].next,
                                   ![place].next = add.req]
      BY <2>2, <3>4 DEF DriverState
    <3>6. QED
      BY <2>2, <3>2, <3>3, <3>5 DEF place
  <2>6. ASSUME NEW t \in Tasks, NEW drq \in Drq, Restart(t, drq)
        PROVE  d'.slot[d.this].next = d.slot[d.this].next
    <3>1. drq \in BOOLEAN /\ d.slot[d.this].bh \in Buffers
      BY <2>2 DEF Drq, DriverOK, LockOK
    <3>2. do_request(d, drq).slot = d.slot
      BY <2>2, <3>1, CommandFields DEF Fields
    <3>3. QED
      BY <2>6, <3>2 DEF Restart
  <2>7. ASSUME NEW t \in Tasks,
               \/ NoSlotFree(t) \/ SleepLoad(t) \/ SleepLink(t) \/ SleepMark(t)
               \/ SleepReturn(t) \/ WaitOnBuffer(t) \/ WaitReturn(t) \/ EndCall(t)
               \/ SetSorting(t) \/ LoadThis(t) \/ ClearSorting(t) \/ LinkFirst(t)
               \/ \E b \in Buffers, c \in Commands : BeginCall(t, b, c)
        PROVE  d'.slot[d.this].next = d.slot[d.this].next
    <3>1. d'.slot = d.slot
      BY <2>2, <2>7 DEF DriverState, NoSlotFree, SleepLoad, SleepLink, SleepMark, SleepReturn,
         WaitOnBuffer, WaitReturn, EndCall, SetSorting, LoadThis, ClearSorting, LinkFirst,
         BeginCall
    <3>2. QED
      BY <3>1
  <2>8. QED
    BY <2>1, <2>3, <2>4, <2>5, <2>6, <2>7 DEF Next, CallStep, Resume
<1>2. QED
  BY <1>1, HdInvariant, PTL DEF Spec, SecondStays
=============================================================================
