------------------------------- MODULE Sleepers -------------------------------
(***************************************************************************)
(* Tasks that sleep on and wake the wait queues of kernel/sched.c in every *)
(* order the kernel allows.                                                *)
(*                                                                         *)
(* The kernel is not preemptive: between two calls of schedule() a task    *)
(* runs alone, except for interrupt handlers.  An action is therefore one  *)
(* such stretch of one task, or one handler, and any RUNNING task may be   *)
(* the next to take one.                                                   *)
(*                                                                         *)
(* sleep_on itself is not atomic against handlers when its caller has not  *)
(* disabled interrupts: each of its three assignments is then a step.      *)
(* hd.c sleeps so on wait_for_request; the queues slept upon in that way   *)
(* are OpenQueues.                                                         *)
(***************************************************************************)
EXTENDS WaitQueue

CONSTANTS IrqQueues,   \* queues that interrupt handlers wake
          OpenQueues,  \* of these, the ones slept upon with interrupts on
          TtyQueues,   \* of these, the ones of interruptible_sleep_on
          NoQueue
ASSUME QueueAssumption ==
  /\ IrqQueues \subseteq Queues
  /\ OpenQueues \subseteq IrqQueues
  /\ TtyQueues \subseteq IrqQueues
  /\ TtyQueues \cap OpenQueues = {}

ClosedQueues == Queues \ (OpenQueues \cup TtyQueues)

ASSUME NoQueueAssumption == NoQueue \notin Queues

VARIABLES wq,    \* the record of module WaitQueue
          pc,    \* where each task is: out of these routines, after the first
                 \* or second assignment of an open sleep_on, or past its
                 \* schedule()
          on,    \* the queue each task sleeps on
          raced  \* history: a handler has woken the queue in the middle of
                 \* an open sleep_on, or a task has left a tty queue while
                 \* another one's tmp still referred to it
vars == <<wq, pc, on, raced>>

Places == {"out", "loaded", "linked", "in"}

(* Each component has its type and `on` is set inside the routines only. *)
TypeOK ==
  /\ wq \in WaitState
  /\ pc \in [Tasks -> Places]
  /\ on \in [Tasks -> Queues \cup {NoQueue}]
  /\ raced \in BOOLEAN
  /\ \A t \in Tasks : on[t] = NoQueue <=> pc[t] = "out"

Init ==
  /\ wq = AllAwake
  /\ pc = [t \in Tasks |-> "out"]
  /\ on = [t \in Tasks |-> NoQueue]
  /\ raced = FALSE

(* A task in the middle of an open sleep_on has not called schedule() yet. *)
Midway(t) == pc[t] \in {"loaded", "linked"}
NoneMidway == \A u \in Tasks : ~ Midway(u)

MayRun(t) == ~ Asleep(wq, t) /\ NoneMidway

Enter(t, q, place) ==
  /\ pc' = [pc EXCEPT ![t] = place]
  /\ on' = [on EXCEPT ![t] = q]

Leave(t) == Enter(t, NoQueue, "out")

(* sleep_on with interrupts off, or on a queue no handler wakes. *)
Sleep(t, q) ==
  /\ MayRun(t) /\ pc[t] = "out" /\ q \in ClosedQueues
  /\ wq' = SleepOn(wq, t, q, "UNINTERRUPTIBLE")
  /\ Enter(t, q, "in")
  /\ UNCHANGED raced

(* sleep_on with interrupts on: `tmp = *p`, `*p = current` and the state. *)
OpenSleepLoad(t, q) ==
  /\ MayRun(t) /\ pc[t] = "out" /\ q \in OpenQueues
  /\ wq' = [wq EXCEPT !.tmp[t] = wq.head[q]]
  /\ Enter(t, q, "loaded")
  /\ UNCHANGED raced

OpenSleepLink(t) ==
  /\ pc[t] = "loaded"
  /\ wq' = [wq EXCEPT !.head[on[t]] = t]
  /\ Enter(t, on[t], "linked")
  /\ raced' = (raced \/ wq.head[on[t]] # wq.tmp[t])

OpenSleepMark(t) ==
  /\ pc[t] = "linked"
  /\ wq' = [wq EXCEPT !.state[t] = "UNINTERRUPTIBLE"]
  /\ Enter(t, on[t], "in")
  /\ raced' = (raced \/ wq.head[on[t]] # t)

(* sleep_on after schedule() returned. *)
SleepReturn(t) ==
  /\ MayRun(t) /\ pc[t] = "in" /\ on[t] \notin TtyQueues
  /\ wq' = WakeBehind(wq, t)
  /\ Leave(t)
  /\ UNCHANGED raced

InterruptibleSleep(t, q) ==
  /\ MayRun(t) /\ pc[t] = "out" /\ q \in TtyQueues
  /\ wq' = SleepOn(wq, t, q, "INTERRUPTIBLE")
  /\ Enter(t, q, "in")
  /\ UNCHANGED raced

(* interruptible_sleep_on after schedule(): when another task is first in  *)
(* the queue it is woken instead, and this one sleeps again ...            *)
InterruptibleRetry(t) ==
  LET first == wq.head[on[t]] IN
  /\ MayRun(t) /\ pc[t] = "in" /\ on[t] \in TtyQueues
  /\ first \notin {NoTask, t}
  /\ wq' = [Awaken(wq, first) EXCEPT !.state[t] = "INTERRUPTIBLE"]
  /\ UNCHANGED <<pc, on, raced>>

(* ... otherwise it empties the queue and wakes the task it remembers. *)
InterruptibleReturn(t) ==
  /\ MayRun(t) /\ pc[t] = "in" /\ on[t] \in TtyQueues
  /\ wq.head[on[t]] \in {NoTask, t}
  /\ wq' = [WakeBehind(wq, t) EXCEPT !.head[on[t]] = NoTask]
  /\ Leave(t)
  /\ raced' = (raced \/ \E u \in Tasks \ {t} : wq.tmp[u] = t)

(* wake_up called by a task ... *)
TaskWakes(t, q) ==
  /\ MayRun(t) /\ pc[t] = "out" /\ q \in Queues \ IrqQueues
  /\ wq' = WakeUp(wq, q)
  /\ UNCHANGED <<pc, on, raced>>

(* ... and by an interrupt handler, whoever is running. *)
IrqWakes(q) ==
  /\ q \in IrqQueues
  /\ wq' = WakeUp(wq, q)
  /\ UNCHANGED <<pc, on, raced>>

(* rs_io.s and keyboard.s make the first task runnable but leave it first. *)
IrqWakesFirst(q) ==
  /\ q \in TtyQueues
  /\ wq' = Awaken(wq, wq.head[q])
  /\ UNCHANGED <<pc, on, raced>>

(* schedule() makes a task with a pending signal runnable. *)
SignalWakes(t) ==
  /\ NoneMidway
  /\ wq.state[t] = "INTERRUPTIBLE"
  /\ wq' = Awaken(wq, t)
  /\ UNCHANGED <<pc, on, raced>>

Returns(t) == SleepReturn(t) \/ InterruptibleReturn(t)

TaskStep(t) ==
  \/ \E q \in Queues : \/ Sleep(t, q)
                       \/ OpenSleepLoad(t, q)
                       \/ InterruptibleSleep(t, q)
                       \/ TaskWakes(t, q)
  \/ OpenSleepLink(t) \/ OpenSleepMark(t)
  \/ InterruptibleRetry(t)
  \/ Returns(t)
  \/ SignalWakes(t)

Next ==
  \/ \E t \in Tasks : TaskStep(t)
  \/ \E q \in Queues : IrqWakes(q) \/ IrqWakesFirst(q)

Spec == Init /\ [][Next]_vars

(***************************************************************************)
(* Fairness: the scheduler runs every runnable task (module Sched), so a   *)
(* pending return or link happens; and each queue keeps being woken, which *)
(* is the duty of the code that owns it.                                   *)
(***************************************************************************)
Wakes(q) == IrqWakes(q) \/ \E t \in Tasks : TaskWakes(t, q)

FairSpec ==
  /\ Spec
  /\ \A t \in Tasks : /\ SF_vars(Returns(t))
                      /\ WF_vars(OpenSleepLink(t) \/ OpenSleepMark(t))
  /\ \A q \in Queues : SF_vars(Wakes(q))
-----------------------------------------------------------------------------
(* A task asleep in sleep_on is always referred to by its queue or by the  *)
(* tmp of a task that is itself inside sleep_on on that queue: every       *)
(* overwriting of *p has saved the old pointer, and every pointer dropped  *)
(* has been used to wake its task.  It needs interrupts to be off: a       *)
(* handler that wakes the queue of an open sleep_on before the task has    *)
(* set its state puts it to sleep with nothing that refers to it.          *)
NoForgottenSleeper ==
  \A t \in Tasks :
    wq.state[t] = "UNINTERRUPTIBLE" /\ (on[t] \in OpenQueues => ~ raced) =>
      \/ wq.head[on[t]] = t
      \/ \E u \in Tasks : on[u] = on[t] /\ wq.tmp[u] = t

(* What makes it inductive: only a task past its schedule() is asleep, one *)
(* task at most is in the middle of an open sleep_on, and until it sleeps  *)
(* a handler can at most have emptied its queue.                           *)
SleepInv ==
  /\ NoForgottenSleeper
  /\ \A t \in Tasks : wq.state[t] = "UNINTERRUPTIBLE" => pc[t] = "in"
  /\ \A t \in Tasks : Midway(t) =>
       /\ on[t] \in OpenQueues
       /\ wq.head[on[t]] \in {NoTask, IF pc[t] = "linked" THEN t ELSE wq.tmp[t]}
       /\ \A u \in Tasks \ {t} : ~ Midway(u)

(* Until one of the two races has happened, the pointers of the sleep_on   *)
(* queues are exact: they lead to tasks asleep on this very queue (or just *)
(* about to be), so that nobody else is ever woken, or written to after    *)
(* its exit, through them.                                                 *)
ChainExact ==
  LET AsleepOn(t, q) ==
        on[t] = q /\ (wq.state[t] = "UNINTERRUPTIBLE" \/ pc[t] = "linked")
  IN
  ~ raced =>
    /\ \A q \in Queues \ TtyQueues :
         wq.head[q] # NoTask => AsleepOn(wq.head[q], q)
    /\ \A u \in Tasks :
         pc[u] = "in" /\ on[u] \notin TtyQueues /\ wq.tmp[u] # NoTask
           => AsleepOn(wq.tmp[u], on[u])

(* Whoever sleeps in sleep_on runs again as long as its queue keeps being  *)
(* woken, however many tasks join the queue behind the wake-ups; on a      *)
(* queue slept upon with interrupts on, only as long as no handler has     *)
(* fallen into the middle of a sleep_on.                                   *)
SleeperRuns ==
  \A t \in Tasks :
    wq.state[t] = "UNINTERRUPTIBLE" ~>
      wq.state[t] = "RUNNING" \/ (on[t] \in OpenQueues /\ raced)
=============================================================================
