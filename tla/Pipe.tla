--------------------------------- MODULE Pipe ---------------------------------
(***************************************************************************)
(* One pipe of fs/pipe.c, from sys_pipe to the last close, and the         *)
(* processes that read, write, inherit (fork) and close its two ends.      *)
(*                                                                         *)
(* The pipe is one page used as a ring; readers and writers that cannot go *)
(* on sleep on the one queue i_wait of its inode.  `run` is the process    *)
(* inside read_pipe or write_pipe: the kernel is not preemptive, so nobody *)
(* else moves until that process returns or sleeps.                        *)
(***************************************************************************)
EXTENDS WaitQueue, FiniteSets

CONSTANTS Bytes,     \* the values a byte can take
          Zero,      \* the value of the bytes of a fresh page
          PageSize,  \* PAGE_SIZE, a power of two in the code
          MaxCount,  \* bound: the largest count given to read and write
          i_wait     \* the one queue of this pipe

ASSUME PipeAssumption ==
  /\ Zero \in Bytes
  /\ PageSize \in Nat /\ PageSize > 1
  /\ MaxCount \in Nat
  /\ i_wait \in Queues
  /\ IsFiniteSet(Tasks)

Ends == {"r", "w"}
Offsets == 0 .. PageSize - 1

VARIABLES wq,       \* the record of module WaitQueue
          page,     \* the page at inode->i_size
          head,     \* PIPE_HEAD, PIPE_TAIL
          tail,
          i_count,  \* number of ends open, by way of the two file structures
          f_count,  \* references to each of these
          ends,     \* the ends each process holds a descriptor of
          pc,       \* "user", or the loop of read_pipe or write_pipe it is in
          left,     \* `count`, what remains to be moved
          run,      \* the process that executes kernel code, if any
          out       \* the byte last put to user memory by read_pipe
vars == <<wq, page, head, tail, i_count, f_count, ends, pc, left, run, out>>
ring == <<page, head, tail>>
holders == <<i_count, f_count, ends>>

(* INC_PIPE: incl, then andl PAGE_SIZE-1. *)
Inc(i) == IF i = PageSize - 1 THEN 0 ELSE i + 1

(* PIPE_SIZE: (head - tail) & (PAGE_SIZE-1). *)
Size == IF head >= tail THEN head - tail ELSE head - tail + PageSize
Empty == head = tail
(* Mutant: one byte too many. *)
FullLate == Size = PageSize

Full == Size = PageSize - 1

TypeOK ==
  /\ wq \in WaitState
  /\ page \in [Offsets -> Bytes]
  /\ head \in Offsets /\ tail \in Offsets
  /\ i_count \in 0 .. 2
  /\ f_count \in [Ends -> Nat]
  /\ ends \in [Tasks -> SUBSET Ends]
  /\ pc \in [Tasks -> {"user", "read", "copy", "write"}]
  /\ left \in [Tasks -> 0 .. MaxCount]
  /\ run \in MaybeTask
  /\ out \in Bytes

(* sys_pipe has just returned to its caller. *)
Init ==
  /\ wq = AllAwake
  /\ page = [i \in Offsets |-> Zero]
  /\ head = 0 /\ tail = 0
  /\ i_count = 2
  /\ f_count = [e \in Ends |-> 1]
  /\ \E t \in Tasks : ends = [u \in Tasks |-> IF u = t THEN Ends ELSE {}]
  /\ pc = [t \in Tasks |-> "user"]
  /\ left = [t \in Tasks |-> 0]
  /\ run = NoTask
  /\ out = Zero

Wake == wq' = WakeUp(wq, i_wait)

(* The call goes on at `place`, or ends ("user"). *)
Continue(t, place) == pc' = [pc EXCEPT ![t] = place] /\ run' = t
Return(t) ==
  /\ pc' = [pc EXCEPT ![t] = "user"]
  /\ left' = [left EXCEPT ![t] = 0]
  /\ run' = NoTask

(* `wake_up(&i_wait)`, then `sleep_on(&i_wait)`. *)
WakeAndSleep(t) ==
  /\ wq' = SleepOn(WakeUp(wq, i_wait), t, i_wait, "UNINTERRUPTIBLE")
  /\ run' = NoTask
  /\ UNCHANGED <<pc, left>>

(* sleep_on returns and the loop tests its condition again. *)
Resume(t) ==
  /\ run = NoTask /\ pc[t] # "user" /\ ~ Asleep(wq, t)
  /\ wq' = WakeBehind(wq, t)
  /\ run' = t
  /\ UNCHANGED <<pc, left, out, ring, holders>>

InUser(t) == run = NoTask /\ pc[t] = "user"
InLoop(t, places) == run = t /\ pc[t] \in places
-----------------------------------------------------------------------------
(* read_pipe *)

BeginRead(t, n) ==
  /\ InUser(t) /\ "r" \in ends[t]
  /\ Continue(t, "read")
  /\ left' = [left EXCEPT ![t] = n]
  /\ UNCHANGED <<wq, out, ring, holders>>

(* Mutant: an empty pipe is taken for a finished one. *)
ReadEofEarly(t) ==
  /\ InLoop(t, {"read"}) /\ Empty
  /\ Wake
  /\ Return(t)
  /\ UNCHANGED <<out, ring, holders>>

ReadEof(t) ==
  /\ InLoop(t, {"read"}) /\ Empty /\ i_count # 2
  /\ Wake
  /\ Return(t)
  /\ UNCHANGED <<out, ring, holders>>

ReadBlock(t) ==
  /\ InLoop(t, {"read"}) /\ Empty /\ i_count = 2
  /\ WakeAndSleep(t)
  /\ UNCHANGED <<out, ring, holders>>

ReadByte(t) ==
  /\ InLoop(t, {"read", "copy"}) /\ ~ Empty /\ left[t] > 0
  /\ out' = page[tail]
  /\ tail' = Inc(tail)
  /\ left' = [left EXCEPT ![t] = @ - 1]
  /\ Continue(t, "copy")
  /\ UNCHANGED <<wq, page, head, holders>>

(* Mutant: the writers are not woken. *)
ReadDoneSilent(t) ==
  /\ InLoop(t, {"copy"}) /\ (Empty \/ left[t] = 0)
  /\ Return(t)
  /\ UNCHANGED <<wq, out, ring, holders>>

ReadDone(t) ==
  /\ InLoop(t, {"copy"}) /\ (Empty \/ left[t] = 0)
  /\ Wake
  /\ Return(t)
  /\ UNCHANGED <<out, ring, holders>>
-----------------------------------------------------------------------------
(* write_pipe *)

(* Without a reader the call fails at once, with SIGPIPE. *)
BeginWrite(t, n) ==
  /\ InUser(t) /\ "w" \in ends[t]
  /\ Wake
  /\ IF i_count = 2
     THEN Continue(t, "write") /\ left' = [left EXCEPT ![t] = n]
     ELSE UNCHANGED <<pc, left, run>>
  /\ UNCHANGED <<out, ring, holders>>

WriteByte(t, b) ==
  /\ InLoop(t, {"write"}) /\ left[t] > 0 /\ ~ Full
  /\ page' = [page EXCEPT ![head] = b]
  /\ head' = Inc(head)
  /\ left' = [left EXCEPT ![t] = @ - 1]
  /\ Wake
  /\ Continue(t, "write")
  /\ UNCHANGED <<out, tail, holders>>

WriteBlock(t) ==
  /\ InLoop(t, {"write"}) /\ left[t] > 0 /\ Full /\ i_count = 2
  /\ WakeAndSleep(t)
  /\ UNCHANGED <<out, ring, holders>>

(* The last reader has gone: SIGPIPE and a short count ... *)
WriteBroken(t) ==
  /\ InLoop(t, {"write"}) /\ left[t] > 0 /\ Full /\ i_count # 2
  /\ Wake
  /\ Return(t)
  /\ UNCHANGED <<out, ring, holders>>

WriteDone(t) ==
  /\ InLoop(t, {"write"}) /\ left[t] = 0
  /\ Wake
  /\ Return(t)
  /\ UNCHANGED <<out, ring, holders>>
-----------------------------------------------------------------------------
(* Descriptors: fork copies them all, close and exit drop them. *)

(* Mutant: the references of the child are not counted. *)
ForkUncounted(t, u) ==
  /\ InUser(t) /\ ends[t] # {} /\ InUser(u) /\ ends[u] = {}
  /\ ends' = [ends EXCEPT ![u] = ends[t]]
  /\ UNCHANGED <<wq, ring, i_count, f_count, pc, left, run, out>>

Fork(t, u) ==
  /\ InUser(t) /\ ends[t] # {} /\ InUser(u) /\ ends[u] = {}
  /\ ends' = [ends EXCEPT ![u] = ends[t]]
  /\ f_count' = [e \in Ends |-> f_count[e] + IF e \in ends[t] THEN 1 ELSE 0]
  /\ UNCHANGED <<wq, ring, i_count, pc, left, run, out>>

(* Mutant: iput does not wake the sleepers of the pipe. *)
CloseSilent(t, e) ==
  /\ InUser(t) /\ e \in ends[t]
  /\ ends' = [ends EXCEPT ![t] = @ \ {e}]
  /\ f_count' = [f_count EXCEPT ![e] = @ - 1]
  /\ i_count' = IF f_count[e] = 1 THEN i_count - 1 ELSE i_count
  /\ UNCHANGED <<wq, ring, pc, left, run, out>>

(* sys_close; the last reference to a file structure goes through iput,    *)
(* which wakes the sleepers of a pipe before it drops the end.             *)
Close(t, e) ==
  /\ InUser(t) /\ e \in ends[t]
  /\ ends' = [ends EXCEPT ![t] = @ \ {e}]
  /\ f_count' = [f_count EXCEPT ![e] = @ - 1]
  /\ IF f_count[e] = 1
     THEN Wake /\ i_count' = i_count - 1
     ELSE UNCHANGED <<wq, i_count>>
  /\ UNCHANGED <<ring, pc, left, run, out>>
-----------------------------------------------------------------------------
KernelStep(t) ==
  \/ ReadEof(t) \/ ReadBlock(t) \/ ReadByte(t) \/ ReadDone(t)
  \/ WriteBlock(t) \/ WriteBroken(t) \/ WriteDone(t)
  \/ \E b \in Bytes : WriteByte(t, b)

Next ==
  \E t \in Tasks :
    \/ \E n \in 1 .. MaxCount : BeginRead(t, n) \/ BeginWrite(t, n)
    \/ KernelStep(t)
    \/ Resume(t)
    \/ \E u \in Tasks : Fork(t, u)
    \/ \E e \in Ends : Close(t, e)

Spec == Init /\ [][Next]_vars

(* Kernel code runs until it returns or sleeps, and the scheduler lets     *)
(* every runnable task run; user programs owe nothing.                     *)
FairSpec ==
  Spec /\ \A t \in Tasks : WF_vars(KernelStep(t)) /\ SF_vars(Resume(t))
-----------------------------------------------------------------------------
(* The counters of the inode and of its two file structures agree with the *)
(* descriptors, in whatever order fork and close come: i_count # 2 means   *)
(* what read_pipe and write_pipe take it to mean.                          *)
EndsCounted ==
  /\ \A e \in Ends : f_count[e] = Cardinality({t \in Tasks : e \in ends[t]})
  /\ i_count = Cardinality({e \in Ends : f_count[e] > 0})

(* No wake-up is lost: when everybody inside the pipe is asleep, a reader  *)
(* sleeps on an empty pipe and a writer on a full one, and both ends are   *)
(* open.  So readers and writers never wait for each other.                *)
NoLostWakeup ==
  (\A t \in Tasks : pc[t] # "user" => Asleep(wq, t)) =>
    \A t \in Tasks :
      Asleep(wq, t) =>
        /\ i_count = 2
        /\ pc[t] = "read" => Empty
        /\ pc[t] = "write" => Full

(* A read returns 0, which means end of file, only when the pipe has been  *)
(* drained and no process holds the write end.                             *)
EofMeansDrained ==
  [][\A t \in Tasks :
       pc[t] = "read" /\ pc'[t] = "user" =>
         Empty /\ \A u \in Tasks : "w" \notin ends[u]]_vars

(* Once an end has no holder, everybody still inside the pipe gets out. *)
HangupReleases ==
  \A t \in Tasks : pc[t] # "user" /\ i_count # 2 ~> pc[t] = "user"

(* Whoever is in read_pipe or write_pipe holds the end it uses. *)
CallersHoldEnds ==
  \A t \in Tasks :
    /\ pc[t] \in {"read", "copy"} => "r" \in ends[t]
    /\ pc[t] = "write" => "w" \in ends[t]

(* The bytes between tail and head, oldest first. *)
Wrap(i) == IF i >= PageSize THEN i - PageSize ELSE i
Content == [i \in 1 .. Size |-> page[Wrap(tail + i - 1)]]

Channel == INSTANCE ByteChannel WITH
  Procs <- Tasks,
  Capacity <- PageSize - 1,
  queue <- Content,
  readers <- {t \in Tasks : "r" \in ends[t]},
  writers <- {t \in Tasks : "w" \in ends[t]}

(* The ring, its indices and its wake-ups implement a first-in first-out   *)
(* channel of PAGE_SIZE-1 bytes.                                           *)
PipeIsChannel == Channel!ChannelSpec
=============================================================================
