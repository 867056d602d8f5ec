------------------------------- MODULE HdRequest -------------------------------
(***************************************************************************)
(* The request queue of kernel/hd.c: tasks that call rw_abs_hd, the linked *)
(* list add_request sorts their requests into, the disk, and its interrupt *)
(* handler read_intr, write_intr or do_request.                            *)
(*                                                                         *)
(* Nothing here disables interrupts (but wait_on_buffer): a handler comes  *)
(* between any two steps of the task that runs.  Tasks exclude each other, *)
(* for the kernel is not preemptive: between two calls of schedule() only  *)
(* one of them is "busy".  A handler is one step: the interrupt of the     *)
(* second sector of a read falls into the handler of the first, as         *)
(* read_intr, which completes the request after the first, expects.        *)
(*                                                                         *)
(* A buffer stands for its queue b_wait too.                               *)
(***************************************************************************)
EXTENDS WaitQueue, FiniteSets

CONSTANTS Buffers,
          Key,          \* the place of each buffer's block, <<track, sector>>
          wait_for_request,
          NoBuffer,
          NR_REQUEST,
          MAX_ERRORS,
          Work,         \* bound: what each task may ask of rw_abs_hd ...
          MaxCalls,     \* ... and how often
          DrqTimeouts,  \* the disk may refuse the first sector of a write
          Failing       \* the sectors of a block, 1 and 2, that may fail

Commands == {"READ", "WRITE"}

ASSUME HdAssumption ==
  /\ Buffers \subseteq Queues
  /\ wait_for_request \in Queues \ Buffers
  /\ NoBuffer \notin Buffers
  /\ Key \in [Buffers -> Int \X Int]
  /\ NR_REQUEST \in Nat \ {0} /\ MAX_ERRORS \in Nat /\ MaxCalls \in Nat
  /\ Work \in [Tasks -> SUBSET (Buffers \X Commands)]
  /\ DrqTimeouts \in BOOLEAN /\ Failing \subseteq {1, 2}

Requests == 1 .. NR_REQUEST
NoSlot == 0
MaybeSlot == Requests \cup {NoSlot}

VARIABLES d,      \* the driver, see DriverState
          pc,     \* where each task is in rw_abs_hd and what it calls
          call,   \* the arguments bh and rw of that call
          add,    \* req and tmp of the task in add_request
          budget, \* calls each task may still make
          raced,  \* history: a handler has found the list being sorted, or a
                  \* slot was freed between a task's search for one and its sleep
          torn    \* history: the buffers for which the disk has reported an
                  \* error on the second sector
vars == <<d, pc, call, add, budget, raced, torn>>

(* hd >= 0 is `used`.  moved[b] tells which half of the block the present, *)
(* or the last, request for b has moved from or to each of its 2 sectors.  *)
SlotState == [used : BOOLEAN, bh : Buffers \cup {NoBuffer}, cmd : Commands,
              nsector : 0 .. 2, errors : 0 .. MAX_ERRORS,
              next : MaybeSlot]
Halves == [1 .. 2 -> 0 .. 2]
Nothing == [i \in 1 .. 2 |-> 0]
Whole == [i \in 1 .. 2 |-> i]

DriverState ==
  [wq : WaitState, lock : [Buffers -> BOOLEAN], uptodate : [Buffers -> BOOLEAN],
   moved : [Buffers -> Halves], slot : [Requests -> SlotState],
   this : MaybeSlot, sorting : BOOLEAN,
   do_hd : {"NULL", "read_intr", "write_intr", "do_request"},
   dev : {"idle", "read", "write", "specify"}]

FreeSlot == [used |-> FALSE, bh |-> NoBuffer, cmd |-> "READ", nsector |-> 0,
             errors |-> 0, next |-> NoSlot]
NoCall == [bh |-> NoBuffer, cmd |-> "READ"]

(* The points of rw_abs_hd and add_request at which an interrupt matters. *)
Falling == {"load", "link", "mark"}
Adding == {"sort", "look", "insert", "clear", "restart"}
Busy == {"search", "wait"} \cup Falling \cup Adding
Places == {"out", "slept", "waiting"} \cup Busy

TypeOK ==
  /\ d \in DriverState
  /\ pc \in [Tasks -> Places]
  /\ call \in [Tasks -> [bh : Buffers \cup {NoBuffer}, cmd : Commands]]
  /\ add \in [req : MaybeSlot, tmp : MaybeSlot]
  /\ budget \in [Tasks -> 0 .. MaxCalls]
  /\ raced \in BOOLEAN
  /\ torn \subseteq Buffers

(* hd_init *)
Init ==
  /\ d = [wq |-> AllAwake,
          lock |-> [b \in Buffers |-> FALSE],
          uptodate |-> [b \in Buffers |-> FALSE],
          moved |-> [b \in Buffers |-> Nothing],
          slot |-> [s \in Requests |-> FreeSlot],
          this |-> NoSlot, sorting |-> FALSE, do_hd |-> "NULL", dev |-> "idle"]
  /\ pc = [t \in Tasks |-> "out"]
  /\ call = [t \in Tasks |-> NoCall]
  /\ add = [req |-> NoSlot, tmp |-> NoSlot]
  /\ budget = [t \in Tasks |-> MaxCalls]
  /\ raced = FALSE
  /\ torn = {}
-----------------------------------------------------------------------------
(* The parts of the driver that handlers run. *)

(* Mutant: the handler of the transfer stays installed. *)
reset_hd_keeps(h) == [h EXCEPT !.dev = "specify"]

reset_hd(h) == [h EXCEPT !.do_hd = "do_request", !.dev = "specify"]

(* Mutant: the halves of the block are swapped. *)
do_request_swaps(h, drq) ==
  LET r == h.slot[h.this] IN
  IF h.sorting THEN h
  ELSE IF h.this = NoSlot THEN [h EXCEPT !.do_hd = "NULL"]
  ELSE IF r.cmd = "READ" THEN [h EXCEPT !.do_hd = "read_intr", !.dev = "read"]
  ELSE IF ~ drq THEN reset_hd(h)
  ELSE [h EXCEPT !.do_hd = "write_intr", !.dev = "write",
                 !.moved[r.bh][1] = IF r.nsector = 2 THEN 2 ELSE 1]

(* With drq the disk takes the command; a write then gets its first data,  *)
(* which is the second half of the block if one sector is left.            *)
do_request(h, drq) ==
  LET r == h.slot[h.this] IN
  IF h.sorting THEN h
  ELSE IF h.this = NoSlot THEN [h EXCEPT !.do_hd = "NULL"]
  ELSE IF r.cmd = "READ" THEN [h EXCEPT !.do_hd = "read_intr", !.dev = "read"]
  ELSE IF ~ drq THEN reset_hd(h)
  ELSE [h EXCEPT !.do_hd = "write_intr", !.dev = "write",
                 !.moved[r.bh][1] = IF r.nsector = 2 THEN 1 ELSE 2]

(* Mutant: nobody is told that a slot is free. *)
RetireSilent(h, ok) ==
  LET r == h.slot[h.this] IN
  [h EXCEPT !.uptodate[r.bh] = ok, !.lock[r.bh] = FALSE,
            !.wq = WakeUp(@, r.bh),
            !.slot[h.this] = [FreeSlot EXCEPT !.next = r.next],
            !.this = r.next]

(* The end of this_request: unlock_buffer, wake_up, hd = -1, next. *)
Retire(h, ok) ==
  LET r == h.slot[h.this] IN
  [h EXCEPT !.uptodate[r.bh] = ok, !.lock[r.bh] = FALSE,
            !.wq = WakeUp(WakeUp(@, wait_for_request), r.bh),
            !.slot[h.this] = [FreeSlot EXCEPT !.next = r.next],
            !.this = r.next]

(* Mutant: the buffer given up stays locked. *)
bad_rw_intr_locked(h) ==
  reset_hd(IF h.slot[h.this].errors >= MAX_ERRORS
           THEN [Retire(h, FALSE) EXCEPT !.lock = h.lock]
           ELSE [h EXCEPT !.slot[h.this].errors = @ + 1])

bad_rw_intr(h) ==
  reset_hd(IF h.slot[h.this].errors >= MAX_ERRORS
           THEN Retire(h, FALSE)
           ELSE [h EXCEPT !.slot[h.this].errors = @ + 1])

(* The disk has done what it was told, so it is idle when a handler starts. *)
(* Without a handler the kernel panics, and nothing happens any more.       *)
Answered(op) == d.dev = op /\ d.do_hd # "NULL"
Idle == [d EXCEPT !.dev = "idle"]
Current == d.slot[d.this]

Handled(h) ==
  /\ d' = h
  /\ raced' = \/ raced
              \/ d.sorting /\ (h.dev = "idle" \/ h.this # d.this)
              \/ h.this # d.this /\ \E t \in Tasks : pc[t] \in Falling
  /\ UNCHANGED <<pc, call, add, budget>>
SecondFailed(yes) ==
  torn' = IF yes THEN torn \cup {Current.bh} ELSE torn

Drq == IF DrqTimeouts THEN BOOLEAN ELSE {TRUE}

(* win_result reports an error of the first sector, or of the second. *)
IntrFails ==
  /\ Answered("read") \/ Answered("write")
  /\ (IF Current.nsector = 2 THEN 1 ELSE 2) \in Failing
  /\ Handled(bad_rw_intr(Idle))
  /\ SecondFailed(Current.nsector = 1)

read_intr(drq) ==
  LET done == [Idle EXCEPT !.moved[Current.bh] = Whole] IN
  /\ Answered("read")
  /\ Handled(do_request(Retire(done, TRUE), drq))
  /\ UNCHANGED torn

(* The nested handler of the second sector counts an error and resets the  *)
(* disk; the outer one goes on, completes the request and issues the next, *)
(* which here supersedes the reset.  (The error that is one too many is    *)
(* left out: the outer handler would then complete the request behind, or  *)
(* a null pointer.)                                                        *)
read_intr_half(drq) ==
  LET half == [Idle EXCEPT !.moved[Current.bh] = [Nothing EXCEPT ![1] = 1]] IN
  /\ Answered("read") /\ 2 \in Failing /\ Current.errors < MAX_ERRORS
  /\ Handled(do_request(Retire(reset_hd(half), TRUE), drq))
  /\ SecondFailed(TRUE)

write_intr(drq) ==
  /\ Answered("write")
  /\ IF Current.nsector = 2
     THEN Handled([d EXCEPT !.slot[d.this].nsector = 1,
                            !.moved[Current.bh][2] = 2])
     ELSE Handled(do_request(Retire(Idle, TRUE), drq))
  /\ UNCHANGED torn

SpecifyDone(drq) ==
  /\ Answered("specify")
  /\ Handled(do_request(Idle, drq))
  /\ UNCHANGED torn

Irq ==
  \/ IntrFails
  \/ \E drq \in Drq : \/ read_intr(drq) \/ read_intr_half(drq)
                      \/ write_intr(drq) \/ SpecifyDone(drq)
-----------------------------------------------------------------------------
(* rw_abs_hd and add_request *)

MayRun(t) == ~ Asleep(d.wq, t) /\ \A u \in Tasks \ {t} : pc[u] \notin Busy
At(t, place) == pc[t] = place /\ MayRun(t)
Go(t, place) == pc' = [pc EXCEPT ![t] = place]

(* The callers, bread and sync, have waited for the lock; a block is read  *)
(* when its buffer is not valid, because it failed or was just reassigned, *)
(* which happens to no buffer somebody still waits for.                    *)
BeginCall(t, b, c) ==
  /\ At(t, "out") /\ budget[t] > 0 /\ <<b, c>> \in Work[t]
  /\ ~ d.lock[b]
  /\ c = "READ" => ~ d.uptodate[b] \/ \A u \in Tasks : call[u].bh # b
  /\ d' = [d EXCEPT !.lock[b] = TRUE, !.moved[b] = Nothing,
                    !.uptodate[b] = @ /\ c = "WRITE"]
  /\ Go(t, "search")
  /\ call' = [call EXCEPT ![t] = [bh |-> b, cmd |-> c]]
  /\ budget' = [budget EXCEPT ![t] = @ - 1]
  /\ UNCHANGED <<add, raced, torn>>

(* The first free one; slots are alike, so it makes no difference that the *)
(* search overlooks one freed behind it.                                   *)
TakeSlot(t, s) ==
  /\ At(t, "search") /\ ~ d.slot[s].used
  /\ \A i \in 1 .. s - 1 : d.slot[i].used
  /\ d' = [d EXCEPT !.slot[s] =
            [used |-> TRUE, bh |-> call[t].bh, cmd |-> call[t].cmd,
             nsector |-> 2, errors |-> 0, next |-> NoSlot]]
  /\ add' = [add EXCEPT !.req = s]
  /\ Go(t, "sort")
  /\ UNCHANGED <<call, budget, raced, torn>>

NoSlotFree(t) ==
  /\ At(t, "search") /\ \A s \in Requests : d.slot[s].used
  /\ Go(t, "load")
  /\ UNCHANGED <<d, call, add, budget, raced, torn>>

(* sleep_on(&wait_for_request), interrupts on *)
SleepLoad(t) ==
  /\ At(t, "load")
  /\ d' = [d EXCEPT !.wq.tmp[t] = d.wq.head[wait_for_request]]
  /\ Go(t, "link")
  /\ UNCHANGED <<call, add, budget, raced, torn>>

SleepLink(t) ==
  /\ At(t, "link")
  /\ d' = [d EXCEPT !.wq.head[wait_for_request] = t]
  /\ Go(t, "mark")
  /\ UNCHANGED <<call, add, budget, raced, torn>>

SleepMark(t) ==
  /\ At(t, "mark")
  /\ d' = [d EXCEPT !.wq.state[t] = "UNINTERRUPTIBLE"]
  /\ Go(t, "slept")
  /\ UNCHANGED <<call, add, budget, raced, torn>>

SleepReturn(t) ==
  /\ At(t, "slept")
  /\ d' = [d EXCEPT !.wq = WakeBehind(@, t)]
  /\ Go(t, "search")
  /\ UNCHANGED <<call, add, budget, raced, torn>>

(* Mutant: the handlers are not told. *)
SetSortingNot(t) ==
  /\ At(t, "sort")
  /\ Go(t, "look")
  /\ UNCHANGED <<d, call, add, budget, raced, torn>>

SetSorting(t) ==
  /\ At(t, "sort")
  /\ d' = [d EXCEPT !.sorting = TRUE]
  /\ Go(t, "look")
  /\ UNCHANGED <<call, add, budget, raced, torn>>

(* `tmp = this_request`.  No handler changes an empty list. *)
LinkFirst(t) ==
  /\ At(t, "look") /\ d.this = NoSlot
  /\ d' = [d EXCEPT !.this = add.req]
  /\ Go(t, "clear")
  /\ UNCHANGED <<call, add, budget, raced, torn>>

LoadThis(t) ==
  /\ At(t, "look") /\ d.this # NoSlot
  /\ add' = [add EXCEPT !.tmp = d.this]
  /\ Go(t, "insert")
  /\ UNCHANGED <<d, call, budget, raced, torn>>

Used == {s \in Requests : d.slot[s].used}

(* IN_ORDER; hd, cyl and head are one number here, the track. *)
InOrder(s1, s2) ==
  LET k1 == Key[d.slot[s1].bh]
      k2 == Key[d.slot[s2].bh]
  IN k1[1] <= k2[1] /\ k1[2] < k2[2]

(* The walk of add_request ends at the last request, or at one behind which *)
(* req is in order.                                                        *)
Stops(tmp) ==
  LET next == d.slot[tmp].next
      req == add.req
  IN \/ next = NoSlot
     \/ (InOrder(tmp, req) \/ ~ InOrder(tmp, next)) /\ InOrder(req, next)

(* What a walk that starts at tmp comes to, and where it ends. *)
Walk(tmp) ==
  {s \in Used : \A S \in SUBSET Used :
     tmp \in S /\ (\A x \in S : Stops(x) \/ d.slot[x].next \in S) => s \in S}
Behind(tmp) == CHOOSE s \in Walk(tmp) : Stops(s)

(* The walk starts behind the first request, if there is a second one. *)
Place == IF d.slot[add.tmp].next = NoSlot THEN add.tmp ELSE Behind(d.slot[add.tmp].next)

(* Mutant: the walk starts at this_request. *)
InsertEarly(t) ==
  /\ At(t, "insert")
  /\ d' = LET s == Behind(add.tmp)
          IN [d EXCEPT !.slot[add.req].next = d.slot[s].next,
                       !.slot[s].next = add.req]
  /\ Go(t, "clear")
  /\ UNCHANGED <<call, add, budget, raced, torn>>

(* A handler completes this_request at most, and leaves its next. *)
Insert(t) ==
  /\ At(t, "insert")
  /\ d' = LET s == Place
          IN [d EXCEPT !.slot[add.req].next = d.slot[s].next,
                       !.slot[s].next = add.req]
  /\ Go(t, "clear")
  /\ UNCHANGED <<call, add, budget, raced, torn>>

ClearSorting(t) ==
  /\ At(t, "clear")
  /\ d' = [d EXCEPT !.sorting = FALSE]
  /\ Go(t, "restart")
  /\ UNCHANGED <<call, add, budget, raced, torn>>

Restart(t, drq) ==
  /\ At(t, "restart")
  /\ d' = IF d.do_hd = "NULL" THEN do_request(d, drq) ELSE d
  /\ add' = [req |-> NoSlot, tmp |-> NoSlot]
  /\ Go(t, "wait")
  /\ UNCHANGED <<call, budget, raced, torn>>

(* wait_on_buffer, interrupts off *)
WaitOnBuffer(t) ==
  /\ At(t, "wait") /\ d.lock[call[t].bh]
  /\ d' = [d EXCEPT !.wq = SleepOn(@, t, call[t].bh, "UNINTERRUPTIBLE")]
  /\ Go(t, "waiting")
  /\ UNCHANGED <<call, add, budget, raced, torn>>

WaitReturn(t) ==
  /\ At(t, "waiting")
  /\ d' = [d EXCEPT !.wq = WakeBehind(@, t)]
  /\ Go(t, "wait")
  /\ UNCHANGED <<call, add, budget, raced, torn>>

EndCall(t) ==
  /\ At(t, "wait") /\ ~ d.lock[call[t].bh]
  /\ Go(t, "out")
  /\ call' = [call EXCEPT ![t] = NoCall]
  /\ UNCHANGED <<d, add, budget, raced, torn>>
-----------------------------------------------------------------------------
Resume(t) == SleepReturn(t) \/ WaitReturn(t)

CallStep(t) ==
  \/ \E s \in Requests : TakeSlot(t, s)
  \/ NoSlotFree(t)
  \/ SleepLoad(t) \/ SleepLink(t) \/ SleepMark(t)
  \/ SetSorting(t) \/ LinkFirst(t) \/ LoadThis(t) \/ Insert(t)
  \/ ClearSorting(t) \/ \E drq \in Drq : Restart(t, drq)
  \/ WaitOnBuffer(t) \/ EndCall(t)

Next ==
  \/ Irq
  \/ \E t \in Tasks : \/ CallStep(t) \/ Resume(t)
                      \/ \E b \in Buffers, c \in Commands : BeginCall(t, b, c)

Spec == Init /\ [][Next]_vars

(* The disk answers every command and, reset often enough, takes a write;  *)
(* kernel code runs on until it sleeps, and the scheduler runs every       *)
(* runnable task.                                                          *)
FairSpec ==
  /\ Spec
  /\ WF_vars(Irq) /\ SF_vars(SpecifyDone(TRUE))
  /\ \A t \in Tasks : WF_vars(CallStep(t)) /\ SF_vars(Resume(t))
-----------------------------------------------------------------------------
BeingAdded ==
  IF \E t \in Tasks : pc[t] \in {"sort", "look", "insert"}
  THEN {add.req} ELSE {}

(* The requests L are a list: it begins at this_request and goes on with   *)
(* them only, it ends, and every one of them is on it.                     *)
IsList(L) ==
  LET Goes(S) == \A s \in S : d.slot[s].next \in S \cup {NoSlot}
  IN /\ d.this \in L \cup {NoSlot}
     /\ Goes(L)
     /\ \A S \in SUBSET L : S # {} => \E s \in S : d.slot[s].next \notin S
     /\ \A S \in SUBSET L : d.this \in S \cup {NoSlot} /\ Goes(S) => S = L

(* add_request while handlers take requests from the list's head: unless a *)
(* handler came while the list was being sorted, the list holds exactly    *)
(* the requests in use.                                                    *)
RequestsKept == ~ raced => IsList(Used \ BeingAdded)

(* The second request of the list stays second until the first is done:    *)
(* what has come that far is not overtaken by sorting any more (as long as *)
(* the list is intact, see RequestsKept).                                  *)
SecondStays ==
  [][LET first == d.this
         second == d.slot[first].next
     IN ~ raced /\ first # NoSlot /\ second # NoSlot /\ d'.this = first
          => d'.slot[first].next = second]_vars

(* Whatever races happen, a buffer is locked as long as one request for it *)
(* is in use or its caller looks for a slot, and by one request only.      *)
LockExact ==
  /\ TypeOK
  /\ \A b \in Buffers :
       Cardinality({s \in Requests : d.slot[s].used /\ d.slot[s].bh = b})
         + Cardinality({t \in Tasks : call[t].bh = b
                          /\ pc[t] \in {"search", "slept"} \cup Falling})
       = IF d.lock[b] THEN 1 ELSE 0

(* An interrupt always finds the handler of the command it ends (never a   *)
(* null do_hd, which is a panic), and for a transfer this_request is the   *)
(* request that command was issued for; until a second sector has failed,  *)
(* for the reset that follows may be answered when do_hd is null.          *)
HandlerReady == torn = {} =>
  /\ d.dev = "read" => d.do_hd = "read_intr"
  /\ d.dev = "write" => d.do_hd = "write_intr"
  /\ d.dev = "specify" => d.do_hd = "do_request"
  /\ d.dev \in {"read", "write"} =>
       /\ d.this # NoSlot /\ d.slot[d.this].used
       /\ d.slot[d.this].cmd = IF d.dev = "read" THEN "READ" ELSE "WRITE"

(* A buffer that a request leaves valid has had both halves of its block   *)
(* moved, each from or to its own sector, whatever had to be retried; all  *)
(* but those whose second sector failed, which read_intr and the retry of  *)
(* a write do get wrong.                                                   *)
ValidIsWhole ==
  \A b \in Buffers \ torn : ~ d.lock[b] /\ d.uptodate[b] => d.moved[b] = Whole

(* Every call of rw_abs_hd returns, whatever has to be retried or given    *)
(* up, unless one of the races or such a failure has happened.             *)
CallsFinish ==
  \A t \in Tasks : pc[t] # "out" ~> pc[t] = "out" \/ raced \/ torn # {}

(* hd.c:367-370: "the interrupts may have died down ... so we restart them *)
(* if necessary": with nobody in add_request, a pending request is served. *)
Restarted ==
  (\A t \in Tasks : pc[t] \notin Adding) /\ d.this # NoSlot => d.dev # "idle"
=============================================================================
