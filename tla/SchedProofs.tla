----------------------------- MODULE SchedProofs -----------------------------
(***************************************************************************)
(* kernel/sched.c, for every set of tasks and queues, every priority and   *)
(* every number of forks.  Wait queues: no task that sleeps in sleep_on is *)
(* ever dropped by its queue.  schedule(): no counter grows beyond two     *)
(* priorities, alarms and signals are acted upon within one counter, and   *)
(* nobody who can run starves.                                             *)
(***************************************************************************)
EXTENDS Sleepers, Sched, TLAPS, WellFoundedInduction, FiniteSetTheorems

(***************************************************************************)
(* Wait queues                                                             *)
(***************************************************************************)
(* The operators of WaitQueue.tla keep the record well formed. *)
LEMMA WaitStateClosed ==
  ASSUME NEW w \in WaitState
  PROVE  /\ \A x \in MaybeTask : Awaken(w, x) \in WaitState
         /\ \A q \in Queues : WakeUp(w, q) \in WaitState
         /\ \A t \in Tasks : WakeBehind(w, t) \in WaitState
         /\ \A t \in Tasks, q \in Queues, how \in TaskStates :
              SleepOn(w, t, q, how) \in WaitState
<1>1. ASSUME NEW x \in MaybeTask PROVE Awaken(w, x) \in WaitState
  BY DEF Awaken, WaitState, MaybeTask, TaskStates
<1>2. ASSUME NEW q \in Queues PROVE WakeUp(w, q) \in WaitState
  BY NoTaskAssumption DEF WakeUp, Awaken, WaitState, MaybeTask, TaskStates
<1>3. ASSUME NEW t \in Tasks PROVE WakeBehind(w, t) \in WaitState
  BY NoTaskAssumption DEF WakeBehind, Awaken, WaitState, MaybeTask, TaskStates
<1>4. ASSUME NEW t \in Tasks, NEW q \in Queues, NEW how \in TaskStates
      PROVE SleepOn(w, t, q, how) \in WaitState
  BY DEF SleepOn, WaitState, MaybeTask
<1>5. QED
  BY <1>1, <1>2, <1>3, <1>4

(* The stores of a sleep_on with interrupts on, one component at a time. *)
LEMMA LinkEffect ==
  ASSUME TypeOK, NEW t \in Tasks, OpenSleepLink(t)
  PROVE  /\ pc[t] = "loaded" /\ on[t] \in Queues
         /\ wq' \in WaitState
         /\ wq'.state = wq.state
         /\ wq'.tmp = wq.tmp
         /\ wq'.head = [wq.head EXCEPT ![on[t]] = t]
         /\ pc' = [pc EXCEPT ![t] = "linked"]
         /\ on' = on
         /\ ~ raced' => ~ raced /\ wq.head[on[t]] = wq.tmp[t]
<1>1. pc[t] = "loaded" /\ on[t] \in Queues
  BY DEF OpenSleepLink, TypeOK
<1>2. wq \in WaitState /\ wq' = [wq EXCEPT !.head[on[t]] = t]
  BY DEF OpenSleepLink, TypeOK
<1>3. wq' \in WaitState
  BY <1>2 DEF WaitState, MaybeTask
<1>4. wq'.state = wq.state /\ wq'.tmp = wq.tmp
  BY <1>2 DEF WaitState
<1>5. wq'.head = [wq.head EXCEPT ![on[t]] = t]
  BY <1>2 DEF WaitState
<1>6. pc' = [pc EXCEPT ![t] = "linked"] /\ on' = [on EXCEPT ![t] = on[t]]
  BY DEF OpenSleepLink, Enter
<1>7. on' = on
  BY <1>6 DEF TypeOK
<1>8. ~ raced' => ~ raced /\ wq.head[on[t]] = wq.tmp[t]
  BY DEF OpenSleepLink
<1>9. QED
  BY <1>1, <1>3, <1>4, <1>5, <1>6, <1>7, <1>8

(* The state of the sleeping primitives keeps its type. *)
THEOREM TypeCorrect == Spec => []TypeOK
<1>1. Init => TypeOK
  <2>1. AllAwake \in WaitState
    BY DEF AllAwake, WaitState, MaybeTask, TaskStates
  <2>2. QED
    BY <2>1 DEF Init, TypeOK, Places
<1>2. TypeOK /\ [Next]_vars => TypeOK'
  <2> SUFFICES ASSUME TypeOK, [Next]_vars
               PROVE  TypeOK'
    OBVIOUS
  <2> USE WaitStateClosed, NoQueueAssumption DEF TypeOK, Enter, Places
  <2>1. ASSUME NEW t \in Tasks, NEW q \in Queues, Sleep(t, q)
        PROVE  TypeOK'
    BY <2>1 DEF Sleep, TaskStates
  <2>2. ASSUME NEW t \in Tasks, NEW q \in Queues, OpenSleepLoad(t, q)
        PROVE  TypeOK'
    <3>1. wq' \in WaitState
      BY <2>2 DEF OpenSleepLoad, WaitState, MaybeTask
    <3>2. QED
      BY <2>2, <3>1 DEF OpenSleepLoad
  <2>3. ASSUME NEW t \in Tasks, NEW q \in Queues, InterruptibleSleep(t, q)
        PROVE  TypeOK'
    BY <2>3 DEF InterruptibleSleep, TaskStates
  <2>4. ASSUME NEW t \in Tasks, NEW q \in Queues, TaskWakes(t, q)
        PROVE  TypeOK'
    BY <2>4 DEF TaskWakes
  <2>5. ASSUME NEW t \in Tasks, OpenSleepLink(t)
        PROVE  TypeOK'
    <3>1. wq' \in WaitState /\ pc' = [pc EXCEPT ![t] = "linked"] /\ on' = on
      BY <2>5, LinkEffect
    <3>2. raced' \in BOOLEAN
      BY <2>5 DEF OpenSleepLink
    <3>3. pc[t] = "loaded"
      BY <2>5, LinkEffect
    <3>4. QED
      BY <3>1, <3>2, <3>3
  <2>5a. ASSUME NEW t \in Tasks, OpenSleepMark(t)
         PROVE  TypeOK'
    <3>1. pc[t] = "linked" /\ on[t] \in Queues
      BY <2>5a DEF OpenSleepMark
    <3>2. wq' \in WaitState
      BY <2>5a DEF OpenSleepMark, WaitState, TaskStates
    <3>3. pc' = [pc EXCEPT ![t] = "in"] /\ on' = on /\ raced' \in BOOLEAN
      BY <2>5a DEF OpenSleepMark
    <3>4. QED
      BY <3>1, <3>2, <3>3
  <2>6. ASSUME NEW t \in Tasks, InterruptibleRetry(t)
        PROVE  TypeOK'
    <3>1. Awaken(wq, wq.head[on[t]]) \in WaitState
      BY <2>6, ZenonT(60) DEF InterruptibleRetry, WaitState
    <3>2. wq' \in WaitState
      BY <2>6, <3>1 DEF InterruptibleRetry, WaitState, TaskStates
    <3>3. QED
      BY <2>6, <3>2 DEF InterruptibleRetry
  <2>7. ASSUME NEW t \in Tasks, SleepReturn(t)
        PROVE  TypeOK'
    BY <2>7 DEF SleepReturn, Leave
  <2>8. ASSUME NEW t \in Tasks, InterruptibleReturn(t)
        PROVE  TypeOK'
    <3>1. WakeBehind(wq, t) \in WaitState
      OBVIOUS
    <3>2. wq' \in WaitState
      BY <2>8, <3>1 DEF InterruptibleReturn, WaitState, MaybeTask
    <3>3. QED
      BY <2>8, <3>2 DEF InterruptibleReturn, Leave
  <2>9. ASSUME NEW t \in Tasks, SignalWakes(t)
        PROVE  TypeOK'
    BY <2>9 DEF SignalWakes, MaybeTask
  <2>10. ASSUME NEW q \in Queues, IrqWakes(q)
         PROVE  TypeOK'
    BY <2>10 DEF IrqWakes
  <2>11. ASSUME NEW q \in Queues, IrqWakesFirst(q)
         PROVE  TypeOK'
    BY <2>11 DEF IrqWakesFirst, WaitState
  <2>12. CASE UNCHANGED vars
    BY <2>12 DEF vars
  <2>13. QED
    BY <2>1, <2>2, <2>3, <2>4, <2>5, <2>5a, <2>6, <2>7, <2>8, <2>9, <2>10, <2>11,
       <2>12 DEF Next, TaskStep, Returns
<1>3. QED
  BY <1>1, <1>2, PTL DEF Spec

(* A sleeper's pointer is dropped only by a step that makes it runnable. *)
LEMMA SleepInvStep == TypeOK /\ SleepInv /\ [Next]_vars => SleepInv'
<1> SUFFICES ASSUME TypeOK, SleepInv, [Next]_vars
             PROVE  SleepInv'
  OBVIOUS
<1> USE NoTaskAssumption, NoQueueAssumption
    DEF SleepInv, NoForgottenSleeper, TypeOK, WaitState, MaybeTask, Enter,
        Midway
<1>1. ASSUME NEW t \in Tasks, NEW q \in Queues, Sleep(t, q)
      PROVE  SleepInv'
  BY <1>1 DEF Sleep, SleepOn, MayRun, Asleep, NoneMidway
<1>2. ASSUME NEW t \in Tasks, NEW q \in Queues, OpenSleepLoad(t, q)
      PROVE  SleepInv'
  BY <1>2 DEF OpenSleepLoad, MayRun, Asleep, NoneMidway
<1>3. ASSUME NEW t \in Tasks, NEW q \in Queues, InterruptibleSleep(t, q)
      PROVE  SleepInv'
  BY <1>3 DEF InterruptibleSleep, SleepOn, MayRun, Asleep, NoneMidway
<1>4. ASSUME NEW q \in Queues, wq' = WakeUp(wq, q), UNCHANGED <<pc, on, raced>>
      PROVE  SleepInv'
  BY <1>4 DEF WakeUp, Awaken
<1>5. ASSUME NEW t \in Tasks, OpenSleepLink(t)
      PROVE  SleepInv'
  BY <1>5 DEF OpenSleepLink
<1>5a. ASSUME NEW t \in Tasks, OpenSleepMark(t)
       PROVE  SleepInv'
  <2>1. pc[t] = "linked" /\ on[t] \in OpenQueues
    BY <1>5a DEF OpenSleepMark
  <2>2. /\ wq' = [wq EXCEPT !.state[t] = "UNINTERRUPTIBLE"]
        /\ pc' = [pc EXCEPT ![t] = "in"] /\ on' = on
        /\ ~ raced' => ~ raced /\ wq.head[on[t]] = t
    BY <1>5a DEF OpenSleepMark
  <2>3. NoForgottenSleeper'
    BY <2>1, <2>2
  <2>4. QED
    BY <2>1, <2>2, <2>3
<1>6. ASSUME NEW t \in Tasks, InterruptibleRetry(t)
      PROVE  SleepInv'
  BY <1>6 DEF InterruptibleRetry, Awaken, MayRun, Asleep
<1>7. ASSUME NEW t \in Tasks, SleepReturn(t)
      PROVE  SleepInv'
  BY <1>7 DEF SleepReturn, Leave, WakeBehind, Awaken, MayRun, Asleep
<1>8. ASSUME NEW t \in Tasks, InterruptibleReturn(t)
      PROVE  SleepInv'
  BY <1>8 DEF InterruptibleReturn, Leave, WakeBehind, Awaken, MayRun, Asleep
<1>9. ASSUME NEW x \in MaybeTask, wq' = Awaken(wq, x), UNCHANGED <<pc, on, raced>>
      PROVE  SleepInv'
  BY <1>9 DEF Awaken
<1>10. CASE UNCHANGED vars
  BY <1>10 DEF vars
<1>11. QED
  BY <1>1, <1>2, <1>3, <1>4, <1>5, <1>5a, <1>6, <1>7, <1>8, <1>9, <1>10
  DEF Next, TaskStep, Returns, TaskWakes, IrqWakes, IrqWakesFirst, SignalWakes

(* No sleeper of sleep_on is forgotten, whatever tasks, queues and         *)
(* interrupts there are: the safety half of "whoever sleeps is woken".     *)
THEOREM SleepersKept == Spec => []NoForgottenSleeper
<1>1. Init => SleepInv
  BY DEF Init, SleepInv, NoForgottenSleeper, AllAwake, Midway
<1>2. SleepInv => NoForgottenSleeper
  BY DEF SleepInv
<1>3. QED
  BY <1>1, <1>2, SleepInvStep, TypeCorrect, PTL DEF Spec
-----------------------------------------------------------------------------
(* Waiting in sleep_on, or about to; past the assignment to *p. *)
Enqueued(t) == wq.state[t] = "UNINTERRUPTIBLE" \/ pc[t] = "linked"
Joined(u) == pc[u] \in {"linked", "in"}

(* What makes ChainExact inductive.  A pointer is exact only as long as no *)
(* second one leads to the same task, because waking through one of them   *)
(* would leave the other to a task that runs.  The queues of               *)
(* interruptible_sleep_on, which may point to runnable tasks, at least     *)
(* never point into another queue.                                         *)
HeadsInv ==
  \A q \in Queues : wq.head[q] # NoTask =>
    /\ on[wq.head[q]] = q
    /\ q \notin TtyQueues =>
         /\ Enqueued(wq.head[q])
         /\ \A u \in Tasks : Joined(u) => wq.tmp[u] # wq.head[q]

LinksInv ==
  \A u \in Tasks : Joined(u) /\ wq.tmp[u] # NoTask =>
    /\ on[wq.tmp[u]] = on[u]
    /\ on[u] \notin TtyQueues =>
         /\ Enqueued(wq.tmp[u])
         /\ \A v \in Tasks : Joined(v) /\ wq.tmp[v] = wq.tmp[u] => v = u

KindsInv ==
  \A t \in Tasks : /\ wq.state[t] = "UNINTERRUPTIBLE" => on[t] \notin TtyQueues
                   /\ wq.state[t] = "INTERRUPTIBLE" => on[t] \in TtyQueues

ChainInv == KindsInv /\ (~ raced => HeadsInv /\ LinksInv)

(* Every step that wakes a task uses up the only pointer to it. *)
LEMMA ChainInvStep == TypeOK /\ SleepInv /\ ChainInv /\ [Next]_vars => ChainInv'
<1> SUFFICES ASSUME TypeOK, SleepInv, ChainInv, [Next]_vars
             PROVE  ChainInv'
  OBVIOUS
<1> USE NoTaskAssumption, NoQueueAssumption, QueueAssumption
    DEF ChainInv, KindsInv, HeadsInv, LinksInv, Enqueued, Joined, TypeOK,
        WaitState, MaybeTask, TaskStates, Places, Enter
<1>1. ASSUME NEW t \in Tasks, NEW q \in Queues, Sleep(t, q)
      PROVE  ChainInv'
  BY <1>1 DEF Sleep, SleepOn, MayRun, Asleep, ClosedQueues
<1>2. ASSUME NEW t \in Tasks, NEW q \in Queues, OpenSleepLoad(t, q)
      PROVE  ChainInv'
  BY <1>2 DEF OpenSleepLoad, MayRun, Asleep
<1>3. ASSUME NEW t \in Tasks, NEW q \in Queues, InterruptibleSleep(t, q)
      PROVE  ChainInv'
  BY <1>3 DEF InterruptibleSleep, SleepOn, MayRun, Asleep
<1>4. ASSUME NEW q \in Queues, wq' = WakeUp(wq, q), UNCHANGED <<pc, on, raced>>
      PROVE  ChainInv'
  BY <1>4 DEF WakeUp, Awaken
<1>5. ASSUME NEW t \in Tasks, OpenSleepLink(t)
      PROVE  ChainInv'
  <2> HIDE DEF ChainInv, KindsInv, HeadsInv, LinksInv, Enqueued, Joined, TypeOK,
               WaitState, MaybeTask, TaskStates, Places, Enter
  <2>2. /\ pc[t] = "loaded" /\ on[t] \in Queues
        /\ wq'.state = wq.state /\ wq'.tmp = wq.tmp
        /\ wq'.head = [wq.head EXCEPT ![on[t]] = t]
        /\ pc' = [pc EXCEPT ![t] = "linked"] /\ on' = on
        /\ ~ raced' => ~ raced /\ wq.head[on[t]] = wq.tmp[t]
    BY <1>5, LinkEffect
  <2> USE DEF ChainInv, KindsInv, HeadsInv, LinksInv, Enqueued, Joined, TypeOK,
              WaitState, MaybeTask, TaskStates, Places, Enter
  <2>1. ~ Enqueued(t) /\ on[t] \in OpenQueues /\ \A u \in Tasks \ {t} : pc[u] # "linked"
    BY <2>2 DEF SleepInv, Midway
  <2>3. KindsInv'
    BY <2>2
  <2>4. ASSUME ~ raced'  PROVE  HeadsInv'
    BY <2>1, <2>2, <2>4
  <2>5. ASSUME ~ raced'  PROVE  LinksInv'
    BY <2>1, <2>2, <2>5
  <2>6. QED
    BY <2>3, <2>4, <2>5
<1>5a. ASSUME NEW t \in Tasks, OpenSleepMark(t)
       PROVE  ChainInv'
  BY <1>5a DEF OpenSleepMark, SleepInv, Midway
<1>6. ASSUME NEW t \in Tasks, InterruptibleRetry(t)
      PROVE  ChainInv'
  BY <1>6 DEF InterruptibleRetry, Awaken, MayRun, Asleep
<1>7. ASSUME NEW t \in Tasks, SleepReturn(t)
      PROVE  ChainInv'
  BY <1>7 DEF SleepReturn, Leave, WakeBehind, Awaken, MayRun, Asleep
<1>8. ASSUME NEW t \in Tasks, InterruptibleReturn(t)
      PROVE  ChainInv'
  <2>1. /\ wq.state[t] = "RUNNING" /\ pc[t] = "in" /\ on[t] \in TtyQueues
        /\ wq.head[on[t]] \in {NoTask, t}
    BY <1>8 DEF InterruptibleReturn, MayRun, Asleep
  <2>2. /\ wq'.head = [wq.head EXCEPT ![on[t]] = NoTask]
        /\ wq'.tmp = [wq.tmp EXCEPT ![t] = NoTask]
        /\ wq'.state = IF wq.tmp[t] = NoTask THEN wq.state
                       ELSE [wq.state EXCEPT ![wq.tmp[t]] = "RUNNING"]
    BY <1>8 DEF InterruptibleReturn, WakeBehind, Awaken
  <2>3. /\ pc' = [pc EXCEPT ![t] = "out"] /\ on' = [on EXCEPT ![t] = NoQueue]
        /\ ~ raced' => ~ raced /\ \A u \in Tasks \ {t} : wq.tmp[u] # t
    BY <1>8 DEF InterruptibleReturn, Leave
  <2>4. KindsInv'
    BY <2>1, <2>2, <2>3
  <2>5. ASSUME ~ raced'  PROVE  HeadsInv'
    BY <2>1, <2>2, <2>3, <2>5
  <2>6. ASSUME ~ raced'  PROVE  LinksInv'
    BY <2>1, <2>2, <2>3, <2>6
  <2>7. QED
    BY <2>4, <2>5, <2>6
<1>9. ASSUME NEW q \in TtyQueues, wq' = Awaken(wq, wq.head[q]),
             UNCHANGED <<pc, on, raced>>
      PROVE  ChainInv'
  BY <1>9 DEF Awaken
<1>9a. ASSUME NEW t \in Tasks, wq.state[t] = "INTERRUPTIBLE",
              wq' = Awaken(wq, t), UNCHANGED <<pc, on, raced>>
       PROVE  ChainInv'
  BY <1>9a DEF Awaken
<1>10. CASE UNCHANGED vars
  BY <1>10 DEF vars
<1>11. QED
  BY <1>1, <1>2, <1>3, <1>4, <1>5, <1>5a, <1>6, <1>7, <1>8, <1>9, <1>9a, <1>10
  DEF Next, TaskStep, Returns, TaskWakes, IrqWakes, IrqWakesFirst, SignalWakes

(* Until one of the two races has happened, every pointer of a sleep_on    *)
(* queue leads to a task asleep on that queue: sleep_on and wake_up never  *)
(* write to the state of a task that sleeps elsewhere or has gone.         *)
THEOREM ChainsExact == Spec => []ChainExact
<1>1. Init => SleepInv /\ ChainInv
  BY NoTaskAssumption
  DEF Init, SleepInv, NoForgottenSleeper, ChainInv, KindsInv, HeadsInv, LinksInv,
      Enqueued, Joined, AllAwake, Midway
<1>2. TypeOK /\ ChainInv => ChainExact
  BY DEF ChainInv, HeadsInv, LinksInv, Enqueued, Joined, ChainExact, TypeOK,
         WaitState, MaybeTask
<1>3. QED
  BY <1>1, <1>2, SleepInvStep, ChainInvStep, TypeCorrect, PTL DEF Spec

-----------------------------------------------------------------------------
(***************************************************************************)
(* schedule() and the timer                                                *)
(***************************************************************************)
(* Among numbers of tasks there are a greatest and a least one. *)
LEMMA Greatest ==
  ASSUME NEW S \in SUBSET Numbers, S # {}
  PROVE  Max(S) \in S
<1> DEFINE R == OpToRel(<, Nat)
           T == {NR_TASKS - i : i \in S}
<1>1. T \subseteq Nat /\ T # {}
  <2>1. \A i \in S : NR_TASKS - i \in Nat
    <3>1. NR_TASKS \in Nat
      BY SchedConstants
    <3>2. \A i \in S : i \in 0 .. NR_TASKS - 1
      BY DEF Numbers
    <3>3. QED
      BY <3>1, <3>2
  <2>2. QED
    BY <2>1
<1>2. PICK x \in T : \A y \in T : ~(<<y, x>> \in R)
  <2> HIDE DEF R, T
  <2> QED BY <1>1, WFMin, NatLessThanWellFounded DEF R
<1>3. \A y \in T : x <= y
  <2>1. TAKE y \in T
  <2>2. x \in Nat /\ y \in Nat
    BY <1>1
  <2>3. ~(y < x)
    <3> HIDE DEF T
    <3> QED BY <1>2, <2>1, <2>2 DEF OpToRel
  <2>4. QED
    BY <2>2, <2>3
<1>4. PICK i \in S : x = NR_TASKS - i
  OBVIOUS
<1>5. \A j \in S : i >= j
  <2>1. TAKE j \in S
  <2>2. NR_TASKS - i <= NR_TASKS - j
    BY <1>3, <1>4
  <2>3. NR_TASKS \in Nat /\ i \in Nat /\ j \in Nat
    BY SchedConstants DEF Numbers
  <2>4. QED
    BY <2>2, <2>3
<1>6. QED
  BY <1>5 DEF Max

(* A set of task numbers has a least one. *)
LEMMA Least ==
  ASSUME NEW S \in SUBSET Numbers, S # {}
  PROVE  Min(S) \in S
<1> DEFINE R == OpToRel(<, Nat)
<1>1. S \subseteq Nat
  BY SchedConstants DEF Numbers
<1>2. PICK x \in S : \A y \in S : ~(<<y, x>> \in R)
  <2> HIDE DEF R
  <2> QED BY <1>1, WFMin, NatLessThanWellFounded DEF R
<1>3. \A y \in S : x <= y
  <2>1. TAKE y \in S
  <2>2. x \in Nat /\ y \in Nat
    BY <1>1
  <2>3. ~(y < x)
    BY <1>2, <2>1, <2>2 DEF OpToRel
  <2>4. QED
    BY <2>2, <2>3
<1>4. QED
  BY <1>3 DEF Min

(* A table of tasks as the code keeps it *)
TaskTable(T) ==
  /\ DOMAIN T \subseteq Numbers /\ 0 \in DOMAIN T
  /\ \A i \in DOMAIN T : T[i] \in TaskStruct /\ T[i].counter <= Slice

(* Task 0 apart, the task that runs in user mode is a runnable one. *)
Running(t, i) == i # 0 /\ ~t.kernel => t.state = "running"

(* Schedule() owes the task nothing. *)
Quiet(t) == ~Overdue(t) /\ ~(t.signal /\ t.state = "interruptible")

(* The search of schedule() finds a task that is running, or task 0. *)
LEMMA ChoiceIsTask ==
  ASSUME NEW T, TaskTable(T)
  PROVE  Choice(T) \in DOMAIN T /\ (Choice(T) # 0 => T[Choice(T)].state = "running")
<1> DEFINE most == {i \in Runnable(T) : \A j \in Runnable(T) : T[j].counter <= T[i].counter}
<1>1. most \in SUBSET Numbers
  BY DEF TaskTable, Runnable
<1>2. CASE most = {}
  BY <1>2 DEF Choice, TaskTable
<1>3. CASE most # {}
  <2>1. Max(most) \in most
    BY <1>1, <1>3, Greatest
  <2>2. Choice(T) = Max(most)
    BY <1>3 DEF Choice
  <2>3. QED
    BY <2>1, <2>2 DEF Runnable
<1>4. QED
  BY <1>2, <1>3

(* A counter that is halved and refilled stays below two priorities. *)
LEMMA RechargeBounded ==
  ASSUME NEW t \in TaskStruct, t.counter <= Slice
  PROVE  Recharge(t) \in TaskStruct /\ Recharge(t).counter <= Slice
<1>1. t.counter \in Nat /\ t.priority \in 1 .. MaxPriority
  BY DEF TaskStruct
<1>2. t.counter \div 2 \in Nat /\ t.counter \div 2 <= MaxPriority - 1
  BY <1>1, SchedConstants DEF Slice
<1>3. t.counter \div 2 + t.priority \in Nat /\ t.counter \div 2 + t.priority <= Slice
  BY <1>1, <1>2, SchedConstants DEF Slice
<1>4. QED
  BY <1>3 DEF Recharge, TaskStruct

(* What schedule() does first with alarm and signals: a task that is acted *)
(* upon, and not recharged.                                                *)
LEMMA WokenIsTask ==
  ASSUME NEW t \in TaskStruct
  PROVE  /\ Woken(t) \in TaskStruct
         /\ Woken(t).counter = t.counter
         /\ Quiet(Woken(t))
BY SchedConstants DEF Woken, TaskStruct, States, Overdue, Quiet

(* The return from the kernel may drop the signals, and leaves the rest. *)
LEMMA ReturnedKeeps ==
  ASSUME NEW T, TaskTable(T), NEW i \in DOMAIN T, NEW j \in DOMAIN T
  PROVE  /\ Returned(T, i)[j] \in TaskStruct
         /\ Returned(T, i)[j].counter = T[j].counter
         /\ Quiet(T[j]) => Quiet(Returned(T, i)[j])
         /\ Running(T[j], j) => Running(Returned(T, i)[j], j)
<1>1. T[j] \in TaskStruct
  BY DEF TaskTable
<1>2. CASE Returned(T, i)[j] = T[j]
  BY <1>1, <1>2
<1>3. CASE Returned(T, i)[j] = [T[j] EXCEPT !.signal = FALSE]
  BY <1>1, <1>3 DEF TaskStruct, Quiet, Running, Overdue
<1>4. QED
  BY <1>2, <1>3 DEF Returned

(* A task that goes on keeps the table, its counter and the others' alarms. *)
LEMMA GoesKeeps ==
  ASSUME NEW T, TaskTable(T), NEW i \in DOMAIN T, Running(T[i], i), Goes(T, i)
  PROVE  /\ TaskTable(task') /\ DOMAIN task' = DOMAIN T /\ current' = i
         /\ Running(task'[i], i) /\ task'[i].counter = T[i].counter
         /\ \A j \in DOMAIN T : Quiet(T[j]) => Quiet(task'[j])
<1> DEFINE R == Returned(T, i)
<1>1. task' = R /\ current' = i
  BY DEF Goes
<1>2. DOMAIN R = DOMAIN T
  BY DEF Returned
<1>3. \A j \in DOMAIN T : R[j] \in TaskStruct /\ R[j].counter = T[j].counter
  BY ReturnedKeeps
<1>4. \A j \in DOMAIN T : Quiet(T[j]) => Quiet(R[j])
  BY ReturnedKeeps
<1>5. Running(R[i], i)
  BY ReturnedKeeps
<1> HIDE DEF R
<1>6. TaskTable(R)
  BY <1>2, <1>3 DEF TaskTable
<1>7. QED
  BY <1>1, <1>2, <1>3, <1>4, <1>5, <1>6

(* After schedule() the table is well formed, the task that runs can run,  *)
(* and nobody is owed a wake-up any more.                                  *)
LEMMA ScheduleWakes ==
  ASSUME NEW T, TaskTable(T), schedule(T)
  PROVE  /\ TaskTable(task') /\ current' \in DOMAIN task'
         /\ Running(task'[current'], current')
         /\ \A i \in DOMAIN task' \ {0} : Quiet(task'[i])
<1> DEFINE S == Signalled(T)
           U == Recharged(S)
           c == Choice(U)
<1>1. TaskTable(S) /\ \A i \in DOMAIN S \ {0} : Quiet(S[i])
  BY WokenIsTask DEF Signalled, TaskTable
<1>2. TaskTable(U) /\ DOMAIN U = DOMAIN S
  <2>1. CASE UsedUp(S)
    BY <1>1, <2>1, RechargeBounded DEF Recharged, TaskTable
  <2>2. CASE ~UsedUp(S)
    BY <1>1, <2>2 DEF Recharged
  <2>3. QED
    BY <2>1, <2>2
<1>3. \A i \in DOMAIN U \ {0} : Quiet(U[i])
  <2>1. TAKE i \in DOMAIN U \ {0}
  <2>2. S[i] \in TaskStruct /\ Quiet(S[i])
    BY <1>1, <1>2 DEF TaskTable
  <2>3. U[i] = S[i] \/ U[i] = Recharge(S[i])
    BY <1>2 DEF Recharged
  <2>4. QED
    BY <2>2, <2>3 DEF Recharge, TaskStruct, Quiet, Overdue
<1>4. c \in DOMAIN U /\ Running(U[c], c)
  BY <1>2, ChoiceIsTask DEF Running
<1>5. Goes(U, c)
  BY DEF schedule
<1> HIDE DEF S, U, c
<1>6. /\ TaskTable(task') /\ DOMAIN task' = DOMAIN U /\ current' = c
      /\ Running(task'[c], c) /\ \A j \in DOMAIN U : Quiet(U[j]) => Quiet(task'[j])
  BY <1>2, <1>4, <1>5, GoesKeeps
<1>7. QED
  BY <1>3, <1>4, <1>6

-----------------------------------------------------------------------------
(* What a step keeps, apart from the histories *)
Sound(T, i) == TaskTable(T) /\ i \in DOMAIN T /\ Running(T[i], i)

(* The invariant is one part about the table and one about the histories. *)
LEMMA InvIsSound ==
  SchedInv <=> /\ Sound(task, current) /\ watched \in Numbers \ {0}
               /\ waited \in Nat /\ born \in 0 .. MaxForks /\ late \in Nat
               /\ late <= Slice /\ late + task[current].counter <= Slice
BY DEF SchedInv, Timely, SchedTypeOK, Sound, TaskTable, Running

(* A step that schedules, and one after which the same task goes on *)
LEMMA StepSchedules ==
  ASSUME SchedInv, NEW T, TaskTable(T), schedule(T),
         NEW used \in {0, 1}, Count(used, 0)
  PROVE  SchedInv'
<1>1. watched' = watched /\ watched \in Numbers \ {0}
  BY InvIsSound DEF Count
<1>2. Sound(task', current') /\ \A i \in DOMAIN task' \ {0} : Quiet(task'[i])
  BY ScheduleWakes DEF Sound
<1>3. late' = 0 /\ waited' \in Nat /\ born' \in 0 .. MaxForks
  <2>1. ~Owed'
    BY <1>1, <1>2 DEF Owed, Quiet
  <2>2. waited \in Nat /\ born \in 0 .. MaxForks
    BY InvIsSound
  <2>3. QED
    BY <2>1, <2>2, SchedConstants DEF Count
<1>4. task'[current'].counter <= Slice /\ task'[current'].counter \in Nat
  BY <1>2 DEF Sound, TaskTable, TaskStruct
<1>5. Slice \in Nat
  BY SchedConstants DEF Slice
<1>6. SchedTypeOK' /\ Timely'
  BY <1>1, <1>2, <1>3, <1>5 DEF SchedTypeOK, Timely, Sound, TaskTable, Running
<1>7. QED
  BY <1>3, <1>4, <1>6 DEF SchedInv

(* A step without schedule() keeps the invariant. *)
LEMMA StepStays ==
  ASSUME SchedInv, NEW T, Sound(T, current), task' = T, current' = current,
         NEW forks \in {0, 1}, forks = 1 => born < MaxForks, Count(0, forks),
         T[current].counter = task[current].counter
  PROVE  SchedInv'
<1>1. /\ watched \in Numbers \ {0} /\ waited \in Nat /\ born \in 0 .. MaxForks
      /\ late \in Nat /\ late <= Slice /\ late + task[current].counter <= Slice
  BY InvIsSound
<1>2. task[current].counter \in Nat
  BY InvIsSound DEF Sound, TaskTable, TaskStruct
<1>3. watched' = watched /\ waited' \in Nat /\ born' \in 0 .. MaxForks /\ late' \in {0, late}
  BY <1>1, SchedConstants DEF Count
<1>4. Slice \in Nat
  BY SchedConstants DEF Slice
<1>5. late' \in Nat /\ late' <= Slice /\ late' + task'[current'].counter <= Slice
  BY <1>1, <1>2, <1>3, <1>4
<1>6. QED
  BY <1>1, <1>3, <1>5 DEF SchedInv, Timely, SchedTypeOK, Sound, TaskTable, Running

(* The table after the clock has ticked: one tick off the counter of       *)
(* current, and off every alarm                                            *)
Ticked ==
  [Aged(task) EXCEPT ![current].counter =
     IF task[current].counter > 0 THEN task[current].counter - 1 ELSE 0]

(* It is as sound as it was, and but for that tick the counters are. *)
LEMMA TickedTable ==
  ASSUME Sound(task, current)
  PROVE  /\ Sound(Ticked, current) /\ DOMAIN Ticked = DOMAIN task
         /\ Ticked[current].counter
              = task[current].counter - (IF task[current].counter > 0 THEN 1 ELSE 0)
         /\ \A i \in DOMAIN task : Ticked[i].state = task[i].state
         /\ \A i \in DOMAIN task \ {current} : Ticked[i].counter = task[i].counter
<1> DEFINE c == task[current].counter
           used == IF c > 0 THEN 1 ELSE 0
           n == IF c > 0 THEN c - 1 ELSE 0
           A == Aged(task)
<1>1. c \in Nat /\ c <= Slice /\ Slice \in Nat
  BY SchedConstants DEF Sound, TaskTable, TaskStruct, Slice
<1>2. \A i \in DOMAIN task :
        /\ A[i] \in TaskStruct /\ A[i].counter = task[i].counter
        /\ A[i].state = task[i].state /\ A[i].kernel = task[i].kernel
  <2>1. TAKE i \in DOMAIN task
  <2>2. task[i] \in TaskStruct
    BY DEF Sound, TaskTable
  <2>3. {IF r = -1 THEN r ELSE r - 1 : r \in task[i].alarm}
          \in {{}} \cup {{r} : r \in -1 .. MaxAlarm}
    BY <2>2, SchedConstants DEF TaskStruct
  <2>4. QED
    BY <2>2, <2>3 DEF Aged, TaskStruct
<1>3. n \in Nat /\ n <= Slice /\ n = c - used
  BY <1>1
<1>4. DOMAIN A = DOMAIN task
  BY DEF Aged
<1>5. /\ Ticked[current] = [A[current] EXCEPT !.counter = n]
      /\ \A i \in DOMAIN task \ {current} : Ticked[i] = A[i]
      /\ DOMAIN Ticked = DOMAIN task
  BY <1>4 DEF Sound, Ticked
<1> HIDE DEF n, A, used
<1>6. Ticked[current] \in TaskStruct /\ Ticked[current].counter = n
  BY <1>2, <1>3, <1>5 DEF Sound, TaskStruct
<1>7. Ticked[current].state = task[current].state /\ Ticked[current].kernel = task[current].kernel
  BY <1>2, <1>5 DEF Sound, TaskStruct
<1>8. Running(Ticked[current], current)
  BY <1>7 DEF Running, Sound
<1>9. TaskTable(Ticked)
  BY <1>2, <1>3, <1>5, <1>6 DEF Sound, TaskTable
<1>10. \A i \in DOMAIN task : Ticked[i].state = task[i].state
  BY <1>2, <1>5, <1>7
<1>11. Ticked[current].counter = c - used
  BY <1>3, <1>6
<1>12. QED
  BY <1>2, <1>5, <1>8, <1>9, <1>10, <1>11 DEF Sound, used

(* The tick is the one step that makes a task owed something wait longer:  *)
(* what it adds to the wait it takes from the counter.                     *)
LEMMA TickKeeps ==
  ASSUME SchedInv, Tick
  PROVE  SchedInv'
<1> DEFINE c == task[current].counter
           T == Ticked
           used == IF c > 0 THEN 1 ELSE 0
<1>1. /\ Sound(task, current) /\ watched \in Numbers \ {0} /\ waited \in Nat
      /\ born \in 0 .. MaxForks /\ late \in Nat /\ late + c <= Slice
  BY InvIsSound
<1>2. c \in Nat /\ c <= Slice /\ Slice \in Nat
  BY <1>1, SchedConstants DEF Sound, TaskTable, TaskStruct, Slice
<1>3. Sound(T, current) /\ T[current].counter = c - used
  BY <1>1, TickedTable
<1>4. Count(used, 0) /\ (Goes(T, current) \/ schedule(T))
  BY DEF Tick, Ticked
<1>5. CASE schedule(T)
  <2>1. used \in {0, 1} /\ TaskTable(T)
    BY <1>3 DEF Sound
  <2> HIDE DEF T, used
  <2>2. QED
    BY <1>4, <1>5, <2>1, StepSchedules
<1>6. CASE Goes(T, current)
  <2> HIDE DEF T
  <2>1. Sound(task', current') /\ task'[current'].counter = c - used
    BY <1>3, <1>6, GoesKeeps DEF Sound
  <2>2. /\ watched' = watched /\ waited' \in Nat /\ born' \in 0 .. MaxForks
        /\ late' \in {0, late + used}
    BY <1>1, <1>4, SchedConstants DEF Count
  <2>3. late' \in Nat /\ late' <= Slice /\ late' + task'[current'].counter <= Slice
    BY <1>1, <1>2, <2>1, <2>2
  <2>4. QED
    BY <1>1, <2>1, <2>2, <2>3 DEF SchedInv, Timely, SchedTypeOK, Sound, TaskTable, Running
<1>7. QED
  BY <1>4, <1>5, <1>6

-----------------------------------------------------------------------------
(* Task 0 alone is sound. *)
LEMMA InvInit == SchedInit => SchedInv
<1> SUFFICES ASSUME SchedInit PROVE SchedInv
  OBVIOUS
<1>1. NewTask(PRIORITY) \in TaskStruct /\ NewTask(PRIORITY).counter = PRIORITY
  BY SchedConstants DEF NewTask, TaskStruct, States
<1>2. PRIORITY <= Slice /\ Slice \in Nat /\ PRIORITY \in Nat
  BY SchedConstants DEF Slice
<1>3. \A i \in DOMAIN task : task[i] = NewTask(PRIORITY)
  BY DEF SchedInit
<1>4. DOMAIN task = {0, 1} /\ {0, 1} \subseteq Numbers
  BY SchedConstants DEF SchedInit, Numbers
<1>5. Sound(task, current)
  BY <1>1, <1>2, <1>3, <1>4 DEF Sound, TaskTable, Running, SchedInit
<1>6. late + task[current].counter <= Slice
  BY <1>1, <1>2, <1>3, <1>4 DEF SchedInit
<1>7. QED
  BY <1>2, <1>5, <1>6, InvIsSound, SchedConstants DEF SchedInit

(* A step that changes one task T of the table, not its counter, leaves a  *)
(* table that schedule() or the end of the step can go on with.            *)
LEMMA OneChanges ==
  ASSUME SchedInv, NEW i \in DOMAIN task, NEW t \in TaskStruct,
         t.counter = task[i].counter
  PROVE  /\ TaskTable([task EXCEPT ![i] = t])
         /\ current \in DOMAIN [task EXCEPT ![i] = t]
         /\ [task EXCEPT ![i] = t][current].counter = task[current].counter
         /\ i # current => [task EXCEPT ![i] = t][current] = task[current]
         /\ i = current => [task EXCEPT ![i] = t][current] = t
BY DEF SchedInv, Timely, SchedTypeOK, TaskTable

(* A step that changes one task, but not its counter, keeps the invariant. *)
LEMMA ChangeStays ==
  ASSUME SchedInv, NEW i \in DOMAIN task, NEW t \in TaskStruct,
         t.counter = task[i].counter, i = current => Running(t, i),
         task' = [task EXCEPT ![i] = t], current' = current, Count(0, 0)
  PROVE  SchedInv'
<1> DEFINE T == [task EXCEPT ![i] = t]
<1>1. /\ TaskTable(T) /\ current \in DOMAIN T /\ T[current].counter = task[current].counter
      /\ i # current => T[current] = task[current]
      /\ i = current => T[current] = t
  BY OneChanges
<1>2. Running(task[current], current)
  BY InvIsSound DEF Sound
<1>3. Running(T[current], current)
  <2> HIDE DEF T
  <2> QED BY <1>1, <1>2
<1>4. Sound(T, current) /\ task' = T
  <2> HIDE DEF T
  <2>1. Sound(T, current)
    BY <1>1, <1>3 DEF Sound
  <2>2. QED
    BY <2>1 DEF T
<1> HIDE DEF T
<1>5. QED
  BY <1>1, <1>4, StepStays

(* ... and so does one that calls schedule() after the change. *)
LEMMA ChangeSchedules ==
  ASSUME SchedInv, NEW t \in TaskStruct, t.counter = task[current].counter,
         schedule([task EXCEPT ![current] = t]), Count(0, 0)
  PROVE  SchedInv'
<1>1. TaskTable([task EXCEPT ![current] = t])
  BY OneChanges, InvIsSound DEF Sound
<1>2. QED
  BY <1>1, StepSchedules

(* Every step is one of those, or a tick of the clock. *)
LEMMA StepKeeps == SchedInv /\ [SchedNext]_schedVars => SchedInv'
<1> SUFFICES ASSUME SchedInv, [SchedNext]_schedVars PROVE SchedInv'
  OBVIOUS
<1> DEFINE me == task[current]
<1>0. /\ Sound(task, current) /\ me \in TaskStruct /\ current \in DOMAIN task
      /\ watched \in Numbers \ {0} /\ TaskTable(task)
  BY InvIsSound DEF Sound, TaskTable
<1>1. CASE Tick
  BY <1>1, TickKeeps
<1>2. CASE Call
  <2> DEFINE t == [me EXCEPT !.kernel = TRUE]
  <2>1. t \in TaskStruct /\ t.counter = me.counter /\ Running(t, current)
    BY <1>0, <1>2 DEF TaskStruct, Running
  <2>2. task' = [task EXCEPT ![current] = t] /\ current' = current /\ Count(0, 0)
    BY <1>2 DEF Call, Stays
  <2> HIDE DEF t
  <2>3. QED
    BY <1>0, <2>1, <2>2, ChangeStays
<1>3. CASE CallEnds
  <2> DEFINE t == [me EXCEPT !.kernel = FALSE]
             T == [task EXCEPT ![current] = t]
  <2>1. t \in TaskStruct /\ t.counter = me.counter
    BY <1>0 DEF TaskStruct
  <2>2. TaskTable(T) /\ T[current] = t /\ current \in DOMAIN T
    BY <1>0, <2>1, OneChanges
  <2>3. /\ Count(0, 0)
        /\ schedule(T) \/ (t.state = "running" /\ Goes(T, current))
    BY <1>3, <2>2 DEF CallEnds
  <2> HIDE DEF T, t
  <2>4. CASE schedule(T)
    BY <2>2, <2>3, <2>4, StepSchedules
  <2>5. CASE t.state = "running" /\ Goes(T, current)
    <3>1. Sound(T, current) /\ Running(T[current], current)
      BY <2>2, <2>5 DEF Sound, Running
    <3>2. TaskTable(task') /\ current' = current /\ Sound(task', current)
            /\ task'[current].counter = me.counter
      BY <2>1, <2>2, <2>5, <3>1, GoesKeeps DEF Sound
    <3>3. QED
      BY <2>3, <3>2, StepStays
  <2>6. QED
    BY <2>3, <2>4, <2>5
<1>4. CASE sys_pause
  <2> DEFINE t == [me EXCEPT !.state = "interruptible"]
  <2>1. t \in TaskStruct /\ t.counter = me.counter
    BY <1>0 DEF TaskStruct, States
  <2>2. schedule([task EXCEPT ![current] = t]) /\ Count(0, 0)
    BY <1>4 DEF sys_pause
  <2> HIDE DEF t
  <2>3. QED
    BY <2>1, <2>2, ChangeSchedules
<1>5. CASE FallAsleep
  <2> DEFINE t == [me EXCEPT !.state = "uninterruptible"]
  <2>1. t \in TaskStruct /\ t.counter = me.counter
    BY <1>0 DEF TaskStruct, States
  <2>2. schedule([task EXCEPT ![current] = t]) /\ Count(0, 0)
    BY <1>5 DEF FallAsleep
  <2> HIDE DEF t
  <2>3. QED
    BY <2>1, <2>2, ChangeSchedules
<1>6. CASE Exit
  <2> DEFINE t == [me EXCEPT !.state = "zombie"]
  <2>1. t \in TaskStruct /\ t.counter = me.counter
    BY <1>0 DEF TaskStruct, States
  <2>2. schedule([task EXCEPT ![current] = t]) /\ Count(0, 0)
    BY <1>6 DEF Exit
  <2> HIDE DEF t
  <2>3. QED
    BY <2>1, <2>2, ChangeSchedules
<1>7. CASE sys_fork
  <2> DEFINE nr == Min(Numbers \ DOMAIN task)
             child == NewTask(me.priority)
             T == [i \in DOMAIN task \cup {nr} |-> IF i = nr THEN child ELSE task[i]]
  <2>1. child \in TaskStruct /\ child.counter <= Slice
    BY <1>0, SchedConstants DEF NewTask, TaskStruct, States, Slice
  <2>2. nr \in Numbers /\ nr \notin DOMAIN task
    <3>1. Numbers \ DOMAIN task # {} /\ Numbers \ DOMAIN task \in SUBSET Numbers
      BY <1>0, <1>7 DEF sys_fork, TaskTable
    <3>2. nr \in Numbers \ DOMAIN task
      <4> HIDE DEF nr
      <4> QED BY <3>1, Least DEF nr
    <3>3. QED
      BY <3>2
  <2>3. task' = T /\ current' = current /\ Count(0, 1) /\ born < MaxForks
    BY <1>7 DEF sys_fork, Stays
  <2> HIDE DEF nr, child
  <2>4. TaskTable(T) /\ current \in DOMAIN T /\ T[current] = me
    BY <1>0, <2>1, <2>2 DEF TaskTable
  <2> HIDE DEF T
  <2>5. Sound(T, current)
    BY <1>0, <2>4 DEF Sound
  <2>6. QED
    BY <2>3, <2>4, <2>5, StepStays
<1>8. ASSUME NEW i \in Numbers, Wake(i) PROVE SchedInv'
  <2> DEFINE t == [task[i] EXCEPT !.state = "running"]
  <2>1. i \in DOMAIN task /\ task' = [task EXCEPT ![i] = t] /\ current' = current /\ Count(0, 0)
    BY <1>8 DEF Wake, Stays
  <2>2. t \in TaskStruct /\ t.counter = task[i].counter /\ Running(t, i)
    BY <1>0, <2>1 DEF TaskTable, TaskStruct, States, Running
  <2> HIDE DEF t
  <2>3. QED
    BY <2>1, <2>2, ChangeStays
<1>9. ASSUME NEW i \in Numbers, Kill(i) PROVE SchedInv'
  <2> DEFINE t == [task[i] EXCEPT !.signal = TRUE]
  <2>1. i \in DOMAIN task /\ task' = [task EXCEPT ![i] = t] /\ current' = current /\ Count(0, 0)
    BY <1>9 DEF Kill, Stays
  <2>2. t \in TaskStruct /\ t.counter = task[i].counter /\ (i = current => Running(t, i))
    BY <1>0, <2>1 DEF Sound, TaskTable, TaskStruct, Running
  <2> HIDE DEF t
  <2>3. QED
    BY <2>1, <2>2, ChangeStays
<1>10. ASSUME NEW i \in Numbers, Release(i) PROVE SchedInv'
  <2> DEFINE T == [j \in DOMAIN task \ {i} |-> task[j]]
  <2>1. schedule(T) /\ Count(0, 0) /\ i # 0
    BY <1>10 DEF Release
  <2>2. TaskTable(T)
    BY <1>0, <2>1 DEF TaskTable
  <2> HIDE DEF T
  <2>3. QED
    BY <2>1, <2>2, StepSchedules
<1>11. ASSUME NEW ticks \in 0 .. MaxAlarm, sys_alarm(ticks) PROVE SchedInv'
  <2> DEFINE t == [me EXCEPT !.alarm = IF ticks > 0 THEN {ticks} ELSE {}]
  <2>1. t \in TaskStruct /\ t.counter = me.counter /\ Running(t, current)
    BY <1>0, <1>11, SchedConstants DEF sys_alarm, InCall, TaskStruct, Running
  <2>2. task' = [task EXCEPT ![current] = t] /\ current' = current /\ Count(0, 0)
    BY <1>11 DEF sys_alarm, Stays
  <2> HIDE DEF t
  <2>3. QED
    BY <1>0, <2>1, <2>2, ChangeStays
<1>12. ASSUME NEW increment \in {-1, 1}, sys_nice(increment) PROVE SchedInv'
  <2> DEFINE t == [me EXCEPT !.priority = me.priority - increment]
  <2>1. t \in TaskStruct /\ t.counter = me.counter /\ Running(t, current)
    BY <1>0, <1>12 DEF sys_nice, InCall, TaskStruct, Running
  <2>2. task' = [task EXCEPT ![current] = t] /\ current' = current /\ Count(0, 0)
    BY <1>12 DEF sys_nice, Stays
  <2> HIDE DEF t
  <2>3. QED
    BY <1>0, <2>1, <2>2, ChangeStays
<1>13. CASE UNCHANGED schedVars
  BY <1>13 DEF schedVars, SchedInv, Timely, SchedTypeOK
<1>14. QED
  BY <1>1, <1>2, <1>3, <1>4, <1>5, <1>6, <1>7, <1>8, <1>9, <1>10, <1>11, <1>12, <1>13
  DEF SchedNext

(* Counters below two priorities, and no alarm or signal unattended for    *)
(* longer than one of them, whatever the tasks, handlers and calls do.     *)
THEOREM SchedTimely == SchedSpec => []Timely
<1>1. SchedInv => Timely
  BY DEF SchedInv
<1>2. QED
  BY <1>1, InvInit, StepKeeps, PTL DEF SchedSpec

-----------------------------------------------------------------------------
(***************************************************************************)
(* Nobody starves.  What the watched task may still have to wait is the    *)
(* ticks left to the others, and all their priorities once more if it has  *)
(* to wait for the next recharge.                                          *)
(***************************************************************************)
Others(w) == Numbers \ {0, w}
Ticks(T, w) ==
  {x \in Others(w) \X (1 .. Slice) : x[1] \in DOMAIN T /\ x[2] <= T[x[1]].counter}

Full == (NR_TASKS - 2) * Slice
Again == (NR_TASKS - 2) * MaxPriority
Given(forks) == MaxPriority * forks

Rest(T, w) == Cardinality(Ticks(T, w)) + IF T[w].counter = 0 THEN Again ELSE 0
Load(T, w, i) == Rest(T, w) + IF i = 0 THEN T[0].counter ELSE 0

Waiting == watched \in Runnable(task) /\ current # watched

(* What is left to wait and what has been waited stay below one bound.     *)
StarveInv ==
  /\ task[0].counter <= PRIORITY
  /\ ~Waiting => waited = 0 /\ born = 0
  /\ Waiting => waited + Load(task, watched, current) <= Full + Again + Given(born) + PRIORITY

(* The sizes are numbers, and a fork gives no more than one priority. *)
LEMMA Sizes ==
  /\ Slice \in Nat /\ Full \in Nat /\ Again \in Nat /\ Given(0) = 0 /\ Given(1) = MaxPriority
  /\ \A n \in Nat : Given(n) \in Nat /\ Given(n + 1) = Given(n) + MaxPriority
<1>1. NR_TASKS - 2 \in Nat /\ MaxPriority \in Nat /\ MaxPriority >= 1
  BY SchedConstants
<1>2. Slice \in Nat
  BY <1>1 DEF Slice
<1>3. \A m, n \in Nat : m * n \in Nat
  OBVIOUS
<1>4. Full \in Nat /\ Again \in Nat
  BY <1>1, <1>2, <1>3 DEF Full, Again
<1>5. \A n \in Nat : Given(n) \in Nat /\ Given(n + 1) = Given(n) + MaxPriority
  <2>1. TAKE n \in Nat
  <2>2. MaxPriority * (n + 1) = MaxPriority * n + MaxPriority
    BY <1>1
  <2>3. QED
    BY <1>1, <1>3, <2>2 DEF Given
<1>6. Given(0) = 0 /\ Given(1) = MaxPriority
  BY <1>1 DEF Given
<1>7. QED
  BY <1>2, <1>4, <1>5, <1>6

(* There are NR_TASKS - 2 others. *)
LEMMA OthersCounted ==
  ASSUME NEW w \in Numbers \ {0}
  PROVE  IsFiniteSet(Others(w)) /\ Cardinality(Others(w)) = NR_TASKS - 2
<1>1. NR_TASKS \in Nat /\ NR_TASKS > 1
  BY SchedConstants
<1>2. 0 \in Int /\ NR_TASKS - 1 \in Int /\ ~(0 > NR_TASKS - 1)
  BY <1>1
<1>3. IsFiniteSet(Numbers) /\ Cardinality(Numbers) = NR_TASKS
  <2>1. /\ IsFiniteSet(0 .. NR_TASKS - 1)
        /\ Cardinality(0 .. NR_TASKS - 1) =
             IF 0 > NR_TASKS - 1 THEN 0 ELSE NR_TASKS - 1 - 0 + 1
    BY <1>2, FS_Interval
  <2>2. QED
    BY <1>1, <2>1 DEF Numbers
<1>4. 0 \in Numbers
  BY <1>1 DEF Numbers
<1>5. IsFiniteSet(Numbers \ {0}) /\ Cardinality(Numbers \ {0}) = NR_TASKS - 1
  BY <1>3, <1>4, FS_RemoveElement
<1>6. /\ IsFiniteSet((Numbers \ {0}) \ {w})
      /\ Cardinality((Numbers \ {0}) \ {w}) = NR_TASKS - 1 - 1
  BY <1>5, FS_RemoveElement
<1>7. (Numbers \ {0}) \ {w} = Others(w)
  BY DEF Others
<1>8. QED
  BY <1>1, <1>6, <1>7

(* So many ticks have all of them who have n each. *)
LEMMA PairsCounted ==
  ASSUME NEW w \in Numbers \ {0}, NEW n \in Nat
  PROVE  /\ IsFiniteSet(Others(w) \X (1 .. n))
         /\ Cardinality(Others(w) \X (1 .. n)) = (NR_TASKS - 2) * n
<1>1. IsFiniteSet(1 .. n) /\ Cardinality(1 .. n) = n
  <2>1. IsFiniteSet(1 .. n) /\ Cardinality(1 .. n) = IF 1 > n THEN 0 ELSE n - 1 + 1
    BY FS_Interval
  <2>2. QED
    BY <2>1
<1>2. /\ IsFiniteSet(Others(w) \X (1 .. n))
      /\ Cardinality(Others(w) \X (1 .. n)) = Cardinality(Others(w)) * Cardinality(1 .. n)
  BY <1>1, OthersCounted, FS_Product
<1>3. QED
  BY <1>1, <1>2, OthersCounted

(* The ticks of the others are a number, and no more than full counters. *)
LEMMA TicksCounted ==
  ASSUME NEW T, NEW w \in Numbers \ {0}
  PROVE  /\ IsFiniteSet(Ticks(T, w)) /\ Cardinality(Ticks(T, w)) \in Nat
         /\ Cardinality(Ticks(T, w)) <= Full
         /\ Rest(T, w) \in Nat /\ Rest(T, w) <= Full + Again
<1> DEFINE all == Others(w) \X (1 .. Slice)
<1>1. IsFiniteSet(all) /\ Cardinality(all) = Full
  BY Sizes, PairsCounted DEF Full
<1>2. Ticks(T, w) \in SUBSET all
  BY DEF Ticks
<1> HIDE DEF all
<1>3. IsFiniteSet(Ticks(T, w)) /\ Cardinality(Ticks(T, w)) <= Full
  BY <1>1, <1>2, FS_Subset
<1>4. Cardinality(Ticks(T, w)) \in Nat
  BY <1>3, FS_CardinalityType
<1>5. QED
  BY <1>3, <1>4, Sizes DEF Rest

(* Fewer tasks with the counters they had: no more to wait *)
LEMMA RestShrinks ==
  ASSUME NEW w \in Numbers \ {0}, NEW T, NEW U, TaskTable(T), TaskTable(U),
         DOMAIN U \subseteq DOMAIN T, w \in DOMAIN U, U[w].counter = T[w].counter,
         \A i \in DOMAIN U \ {0} : U[i].counter <= T[i].counter
  PROVE  Rest(U, w) <= Rest(T, w)
<1>1. Ticks(U, w) \in SUBSET Ticks(T, w)
  <2>1. SUFFICES ASSUME NEW x \in Ticks(U, w) PROVE x \in Ticks(T, w)
    OBVIOUS
  <2>2. /\ x \in Others(w) \X (1 .. Slice)
        /\ x[1] \in DOMAIN U /\ x[2] <= U[x[1]].counter
    BY DEF Ticks
  <2>3. x[1] \in DOMAIN T /\ U[x[1]].counter <= T[x[1]].counter
    BY <2>2 DEF Others
  <2>4. x[2] \in Nat /\ U[x[1]].counter \in Nat /\ T[x[1]].counter \in Nat
    BY <2>2, <2>3, Sizes DEF TaskTable, TaskStruct
  <2>5. x[2] <= T[x[1]].counter
    BY <2>2, <2>3, <2>4
  <2>6. QED
    BY <2>2, <2>3, <2>5 DEF Ticks
<1>2. Cardinality(Ticks(U, w)) <= Cardinality(Ticks(T, w))
  BY <1>1, TicksCounted, FS_Subset
<1>3. QED
  BY <1>2, TicksCounted, Sizes DEF Rest

(* ... and one tick less when another task has used one *)
LEMMA RestUsed ==
  ASSUME NEW w \in Numbers \ {0}, NEW T, NEW U, TaskTable(T), TaskTable(U),
         DOMAIN U \subseteq DOMAIN T, w \in DOMAIN U, U[w].counter = T[w].counter,
         \A i \in DOMAIN U \ {0} : U[i].counter <= T[i].counter,
         NEW c \in DOMAIN T \ {0, w}, c \in DOMAIN U => U[c].counter < T[c].counter,
         T[c].counter > 0
  PROVE  Rest(U, w) + 1 <= Rest(T, w)
<1> DEFINE last == <<c, T[c].counter>>
<1>1. T[c].counter \in 1 .. Slice /\ c \in Others(w)
  BY Sizes DEF TaskTable, TaskStruct, Others
<1>2. last \in Ticks(T, w) /\ last \notin Ticks(U, w)
  <2>1. last \in Ticks(T, w)
    BY <1>1 DEF Ticks
  <2>2. c \in DOMAIN U => ~(T[c].counter <= U[c].counter)
    BY DEF TaskTable, TaskStruct
  <2>3. QED
    BY <2>1, <2>2 DEF Ticks
<1>3. Ticks(U, w) \in SUBSET Ticks(T, w)
  <2>1. SUFFICES ASSUME NEW x \in Ticks(U, w) PROVE x \in Ticks(T, w)
    OBVIOUS
  <2>2. /\ x \in Others(w) \X (1 .. Slice)
        /\ x[1] \in DOMAIN U /\ x[2] <= U[x[1]].counter
    BY DEF Ticks
  <2>3. x[1] \in DOMAIN T /\ U[x[1]].counter <= T[x[1]].counter
    BY <2>2 DEF Others
  <2>4. x[2] \in Nat /\ U[x[1]].counter \in Nat /\ T[x[1]].counter \in Nat
    BY <2>2, <2>3, Sizes DEF TaskTable, TaskStruct
  <2>5. x[2] <= T[x[1]].counter
    BY <2>2, <2>3, <2>4
  <2>6. QED
    BY <2>2, <2>3, <2>5 DEF Ticks
<1> HIDE DEF last
<1>4. Cardinality(Ticks(U, w)) < Cardinality(Ticks(T, w))
  <2>1. /\ Cardinality(Ticks(U, w)) <= Cardinality(Ticks(T, w))
        /\ Cardinality(Ticks(T, w)) = Cardinality(Ticks(U, w)) => Ticks(T, w) = Ticks(U, w)
    BY <1>3, TicksCounted, FS_Subset
  <2>2. Ticks(T, w) # Ticks(U, w)
    BY <1>2
  <2>3. Cardinality(Ticks(U, w)) \in Nat /\ Cardinality(Ticks(T, w)) \in Nat
    BY TicksCounted
  <2>4. QED
    BY <2>1, <2>2, <2>3
<1>5. QED
  BY <1>4, TicksCounted, Sizes DEF Rest

(* A recharge adds no more than a priority to each, a fork one in all. *)
LEMMA TicksAdded ==
  ASSUME NEW w \in Numbers \ {0}, NEW T, NEW U, NEW more, IsFiniteSet(more),
         Ticks(U, w) \subseteq Ticks(T, w) \cup more
  PROVE  Cardinality(Ticks(U, w)) <= Cardinality(Ticks(T, w)) + Cardinality(more)
<1>1. IsFiniteSet(Ticks(T, w)) /\ Cardinality(Ticks(T, w)) \in Nat
  BY TicksCounted
<1>2. /\ IsFiniteSet(Ticks(T, w) \cup more)
      /\ Cardinality(Ticks(T, w) \cup more)
           = Cardinality(Ticks(T, w)) + Cardinality(more) - Cardinality(Ticks(T, w) \cap more)
  BY <1>1, FS_Union
<1>3. IsFiniteSet(Ticks(T, w) \cap more)
  <2>1. Ticks(T, w) \cap more \in SUBSET Ticks(T, w)
    OBVIOUS
  <2>2. QED
    BY <1>1, <2>1, FS_Subset
<1>4. Cardinality(Ticks(T, w) \cap more) \in Nat /\ Cardinality(more) \in Nat
  BY <1>3, FS_CardinalityType
<1>5. Cardinality(Ticks(U, w)) <= Cardinality(Ticks(T, w) \cup more)
  BY <1>2, FS_Subset
<1>6. Cardinality(Ticks(U, w)) \in Nat
  BY TicksCounted
<1>7. QED
  BY <1>1, <1>2, <1>4, <1>5, <1>6

(* Half of a counter and a priority is no more than both whole. *)
LEMMA RechargeAdds ==
  ASSUME NEW t \in TaskStruct
  PROVE  /\ Recharge(t).counter \in Nat /\ Recharge(t).counter > 0
         /\ Recharge(t).counter <= t.counter + MaxPriority
         /\ Recharge(t).state = t.state
<1>1. t.counter \in Nat /\ t.priority \in 1 .. MaxPriority
  BY DEF TaskStruct
<1>2. t.counter \div 2 \in Nat /\ t.counter \div 2 <= t.counter
  BY <1>1
<1>3. /\ Recharge(t).counter = t.counter \div 2 + t.priority
      /\ Recharge(t).state = t.state
  BY DEF Recharge, TaskStruct
<1>4. QED
  BY <1>1, <1>2, <1>3, SchedConstants

(* What the watched task waits for the recharge covers what it adds. *)
LEMMA RestRecharged ==
  ASSUME NEW w \in Numbers \ {0}, NEW S, TaskTable(S), w \in Runnable(Recharged(S))
  PROVE  Rest(Recharged(S), w) <= Rest(S, w)
<1> DEFINE U == Recharged(S)
           wide == Others(w) \X (1 .. MaxPriority)
           up == [x \in wide |-> <<x[1], S[x[1]].counter + x[2]>>]
           more == {up[x] : x \in wide}
<1>1. CASE ~UsedUp(S)
  <2>1. U = S /\ Rest(S, w) \in Nat
    BY <1>1, TicksCounted DEF Recharged
  <2>2. QED
    BY <2>1
<1>2. CASE UsedUp(S)
  <2>1. U = [i \in DOMAIN S |-> IF i = 0 THEN S[i] ELSE Recharge(S[i])]
    BY <1>2 DEF Recharged
  <2>2. \A i \in DOMAIN S \ {0} :
          /\ S[i].counter \in Nat /\ U[i].counter \in Nat /\ U[i].counter > 0
          /\ U[i].counter <= S[i].counter + MaxPriority /\ U[i].state = S[i].state
    BY <2>1, RechargeAdds DEF TaskTable, TaskStruct
  <2>3. w \in DOMAIN S /\ w # 0 /\ S[w].counter = 0 /\ U[w].counter > 0
    <3>1. w \in DOMAIN U /\ DOMAIN U = DOMAIN S /\ w # 0 /\ U[w].state = "running"
      BY <2>1 DEF Runnable
    <3> HIDE DEF U
    <3>2. S[w].state = "running" /\ U[w].counter > 0
      BY <2>2, <3>1
    <3>3. S[w].counter = 0
      BY <1>2, <3>1, <3>2 DEF UsedUp, Runnable
    <3>4. QED
      BY <3>1, <3>2, <3>3
  <2>4. IsFiniteSet(more) /\ Cardinality(more) <= Again
    <3>1. IsFiniteSet(wide) /\ Cardinality(wide) = Again
      BY PairsCounted, SchedConstants DEF Again
    <3>2. up \in Surjection(wide, more)
      <4> HIDE DEF wide
      <4> QED BY DEF Surjection
    <3> HIDE DEF wide, up, more
    <3>3. QED
      BY <3>1, <3>2, FS_Surjection
  <2>5. Ticks(U, w) \subseteq Ticks(S, w) \cup more
    <3>1. SUFFICES ASSUME NEW x \in Ticks(U, w), x \notin Ticks(S, w) PROVE x \in more
      OBVIOUS
    <3>2. /\ x \in Others(w) \X (1 .. Slice)
          /\ x[1] \in DOMAIN S /\ x[2] <= U[x[1]].counter
      <4>1. DOMAIN U = DOMAIN S
        BY <2>1
      <4> HIDE DEF U
      <4>2. QED
        BY <4>1 DEF Ticks
    <3> DEFINE i == x[1]
               n == x[2]
               c == S[i].counter
    <3>3. x = <<i, n>> /\ i \in Others(w) /\ n \in Nat /\ n > 0
      BY <3>2, Sizes
    <3>4. i \in DOMAIN S \ {0} /\ n <= U[i].counter
      BY <3>2, <3>3 DEF Others
    <3>5. c \in Nat /\ U[i].counter \in Nat /\ U[i].counter <= c + MaxPriority
      <4> HIDE DEF U
      <4> QED BY <2>2, <3>4
    <3>6. ~(n <= c)
      BY <3>1, <3>2 DEF Ticks
    <3> HIDE DEF U
    <3>7. n - c \in 1 .. MaxPriority
      BY <3>3, <3>4, <3>5, <3>6, SchedConstants
    <3>8. <<i, n - c>> \in wide /\ up[<<i, n - c>>] = <<i, c + (n - c)>>
      <4>1. <<i, n - c>> \in wide
        BY <3>3, <3>7
      <4>2. up[<<i, n - c>>] = <<i, c + (n - c)>>
        <5> HIDE DEF wide
        <5>1. /\ up[<<i, n - c>>] = <<<<i, n - c>>[1], S[<<i, n - c>>[1]].counter + <<i, n - c>>[2]>>
              /\ <<i, n - c>>[1] = i /\ <<i, n - c>>[2] = n - c
          BY <4>1
        <5>2. QED
          BY <5>1
      <4>3. QED
        BY <4>1, <4>2
    <3>9. c + (n - c) = n
      BY <3>3, <3>5
    <3>10. QED
      <4> HIDE DEF wide, up, i, n, c
      <4> QED BY <3>3, <3>8, <3>9
  <2> HIDE DEF more, U
  <2>6. Cardinality(Ticks(U, w)) <= Cardinality(Ticks(S, w)) + Cardinality(more)
    BY <2>4, <2>5, TicksAdded
  <2>7. Cardinality(more) \in Nat
    BY <2>4, FS_CardinalityType
  <2>8. Rest(U, w) = Cardinality(Ticks(U, w)) /\ Rest(S, w) = Cardinality(Ticks(S, w)) + Again
    <3>1. /\ Cardinality(Ticks(U, w)) \in Nat /\ U[w].counter # 0
          /\ S[w].counter = 0
      BY <2>2, <2>3, TicksCounted
    <3>2. QED
      BY <3>1 DEF Rest
  <2>9. QED
    BY <2>4, <2>6, <2>7, <2>8, TicksCounted, Sizes DEF U
<1>3. QED
  BY <1>1, <1>2

(* As long as a task can run, task 0 is not chosen. *)
LEMMA SomebodyIsChosen ==
  ASSUME NEW U, TaskTable(U), NEW w \in Runnable(U)
  PROVE  Choice(U) # 0
<1> DEFINE R == OpToRel(<, Nat)
           lacks == {Slice - U[i].counter : i \in Runnable(U)}
           most == {i \in Runnable(U) : \A j \in Runnable(U) : U[j].counter <= U[i].counter}
<1>1. \A i \in Runnable(U) : U[i].counter \in Nat /\ U[i].counter <= Slice
  BY DEF Runnable, TaskTable, TaskStruct
<1>2. lacks \subseteq Nat /\ lacks # {}
  BY <1>1, Sizes
<1>3. PICK x \in lacks : \A y \in lacks : ~(<<y, x>> \in R)
  <2> HIDE DEF R, lacks
  <2> QED BY <1>2, WFMin, NatLessThanWellFounded DEF R
<1>4. \A y \in lacks : x <= y
  <2>1. TAKE y \in lacks
  <2>2. x \in Nat /\ y \in Nat
    BY <1>2
  <2>3. ~(y < x)
    <3> HIDE DEF lacks
    <3> QED BY <1>3, <2>1, <2>2 DEF OpToRel
  <2>4. QED
    BY <2>2, <2>3
<1>5. PICK i \in Runnable(U) : x = Slice - U[i].counter
  OBVIOUS
<1>6. \A j \in Runnable(U) : U[j].counter <= U[i].counter
  <2>1. TAKE j \in Runnable(U)
  <2>2. Slice - U[i].counter <= Slice - U[j].counter
    BY <1>4, <1>5
  <2>3. QED
    BY <1>1, <2>2, Sizes
<1>7. most # {} /\ most \in SUBSET Numbers
  BY <1>6 DEF Runnable, TaskTable
<1>8. Max(most) \in most
  <2> HIDE DEF most
  <2> QED BY <1>7, Greatest
<1>9. Choice(U) = Max(most) /\ Max(most) # 0
  BY <1>7, <1>8 DEF Choice, Runnable
<1>10. QED
  BY <1>9

(* After schedule() somebody runs, and the watched task, if it can run,    *)
(* has no more to wait than before.                                        *)
LEMMA ScheduleLoad ==
  ASSUME NEW T, TaskTable(T), schedule(T), NEW w \in Numbers \ {0}
  PROVE  /\ DOMAIN task' = DOMAIN T /\ task'[0].counter = T[0].counter
         /\ w \in Runnable(task') => current' # 0 /\ Rest(task', w) <= Rest(T, w)
<1> DEFINE S == Signalled(T)
           U == Recharged(S)
           c == Choice(U)
<1>1. /\ TaskTable(S) /\ DOMAIN S = DOMAIN T
      /\ \A i \in DOMAIN S : S[i].counter = T[i].counter
  BY WokenIsTask DEF Signalled, TaskTable
<1>2. TaskTable(U) /\ DOMAIN U = DOMAIN S /\ U[0] = S[0]
  <2>1. CASE UsedUp(S)
    BY <1>1, <2>1, RechargeBounded DEF Recharged, TaskTable
  <2>2. CASE ~UsedUp(S)
    BY <1>1, <2>2 DEF Recharged
  <2>3. QED
    BY <2>1, <2>2
<1>3. c \in DOMAIN U
  BY <1>2, ChoiceIsTask
<1>4. task' = Returned(U, c) /\ current' = c
  BY DEF schedule, Goes
<1> HIDE DEF S, U, c
<1>5. /\ DOMAIN task' = DOMAIN U
      /\ \A i \in DOMAIN U : task'[i] \in TaskStruct /\ task'[i].counter = U[i].counter
      /\ \A i \in DOMAIN U : task'[i].state = U[i].state
  <2>1. \A i \in DOMAIN U :
          /\ Returned(U, c)[i] \in TaskStruct /\ Returned(U, c)[i].counter = U[i].counter
    BY <1>2, <1>3, ReturnedKeeps
  <2>2. DOMAIN Returned(U, c) = DOMAIN U
    BY DEF Returned
  <2>3. \A i \in DOMAIN U : Returned(U, c)[i].state = U[i].state
    BY <1>2, <1>3 DEF Returned, TaskTable, TaskStruct
  <2>4. QED
    BY <1>4, <2>1, <2>2, <2>3
<1>6. TaskTable(task')
  BY <1>2, <1>5 DEF TaskTable
<1>7. task'[0].counter = T[0].counter
  BY <1>1, <1>2, <1>5 DEF TaskTable
<1>8. ASSUME w \in Runnable(task') PROVE current' # 0 /\ Rest(task', w) <= Rest(T, w)
  <2>1. w \in Runnable(U) /\ w \in DOMAIN U
    BY <1>5, <1>8 DEF Runnable
  <2>2. current' # 0
    BY <1>2, <1>4, <2>1, SomebodyIsChosen DEF c
  <2>3. Rest(U, w) <= Rest(S, w)
    BY <1>1, <2>1, RestRecharged DEF U
  <2>4. Rest(task', w) <= Rest(U, w)
    <3>1. \A i \in DOMAIN task' \ {0} : task'[i].counter <= U[i].counter
      BY <1>5 DEF TaskStruct
    <3>2. w \in DOMAIN task' /\ task'[w].counter = U[w].counter
      BY <1>5, <2>1
    <3>3. QED
      BY <1>2, <1>5, <1>6, <3>1, <3>2, RestShrinks
  <2>5. Rest(S, w) <= Rest(T, w)
    <3>1. \A i \in DOMAIN S \ {0} : S[i].counter <= T[i].counter
      BY <1>1 DEF TaskTable, TaskStruct
    <3>2. w \in DOMAIN S /\ S[w].counter = T[w].counter
      BY <1>1, <1>2, <2>1
    <3>3. QED
      BY <1>1, <3>1, <3>2, RestShrinks
  <2>6. Rest(U, w) \in Nat /\ Rest(S, w) \in Nat /\ Rest(T, w) \in Nat /\ Rest(task', w) \in Nat
    BY TicksCounted
  <2>7. QED
    BY <2>2, <2>3, <2>4, <2>5, <2>6
<1>9. QED
  BY <1>1, <1>2, <1>5, <1>7, <1>8

-----------------------------------------------------------------------------
(* What the counts have to show of a step *)
LEMMA StarveStep ==
  ASSUME SchedInv, SchedInv', StarveInv, task'[0].counter <= PRIORITY,
         NEW used \in {0, 1}, NEW forks \in {0, 1}, Count(used, forks),
         Waits /\ ~Waiting
           => used + Load(task', watched, current') <= Full + Again + Given(forks) + PRIORITY,
         Waits /\ Waiting
           => used + Load(task', watched, current')
                <= Load(task, watched, current) + Given(forks)
  PROVE  StarveInv'
<1> DEFINE load == Load(task, watched, current)
           next == Load(task', watched, current')
           given == Given(born)
<1>1. /\ watched' = watched
      /\ Waits => waited' = waited + used /\ born' = born + forks
      /\ ~Waits => waited' = 0 /\ born' = 0
  BY DEF Count
<1>2. Waiting' <=> Waits
  BY <1>1 DEF Waiting, Waits
<1>3. waited \in Nat /\ born \in Nat /\ PRIORITY \in Nat /\ watched \in Numbers \ {0}
  BY InvIsSound, SchedConstants
<1>4. load \in Nat /\ next \in Nat
  <2>1. TaskTable(task) /\ TaskTable(task)'
    BY InvIsSound DEF Sound, SchedInv, Timely, SchedTypeOK, TaskTable
  <2>2. task[0].counter \in Nat /\ task'[0].counter \in Nat
    BY <2>1 DEF TaskTable, TaskStruct
  <2>3. Rest(task, watched) \in Nat /\ Rest(task', watched) \in Nat
    BY <1>3, TicksCounted
  <2>4. QED
    BY <2>2, <2>3 DEF Load
<1>5. /\ given \in Nat /\ Given(born + forks) = given + Given(forks) /\ Given(forks) \in Nat
      /\ Given(0) = 0
  <2>1. Given(0) = 0 /\ Given(1) \in Nat /\ given \in Nat
    BY <1>3, Sizes, SchedConstants
  <2>2. CASE forks = 0
    <3>1. born + forks = born /\ Given(forks) = 0
      BY <1>3, <2>1, <2>2
    <3>2. QED
      BY <2>1, <3>1
  <2>3. CASE forks = 1
    <3>1. Given(born + 1) = given + MaxPriority /\ Given(1) = MaxPriority
      BY <1>3, Sizes
    <3>2. QED
      BY <2>1, <2>3, <3>1
  <2>4. QED
    BY <2>2, <2>3
<1>6. Waits => waited' + next <= Full + Again + Given(born') + PRIORITY
  <2>1. SUFFICES ASSUME Waits
                 PROVE  waited + used + next <= Full + Again + given + Given(forks) + PRIORITY
    <3>1. ASSUME Waits PROVE Given(born') = given + Given(forks)
      BY <1>1, <1>5, <3>1
    <3>2. QED
      BY <1>1, <3>1, <1>5, Sizes, <1>3
  <2>2. CASE Waiting
    <3>1. waited + load <= Full + Again + given + PRIORITY
      BY <2>2 DEF StarveInv
    <3>2. used + next <= load + Given(forks)
      BY <2>1, <2>2
    <3> HIDE DEF load, next, given
    <3>3. QED
      BY <1>3, <1>4, <1>5, <3>1, <3>2, Sizes
  <2>3. CASE ~Waiting
    <3>1. waited = 0 /\ born = 0
      BY <2>3 DEF StarveInv
    <3>2. used + next <= Full + Again + Given(forks) + PRIORITY
      BY <2>1, <2>3
    <3> HIDE DEF load, next, given
    <3>3. QED
      BY <1>3, <1>4, <1>5, <3>1, <3>2, Sizes
  <2>4. QED
    BY <2>2, <2>3
<1>7. QED
  BY <1>1, <1>2, <1>6 DEF StarveInv

(* A step that schedules, after which the watched task has what it had *)
LEMMA StarveSchedules ==
  ASSUME SchedInv, SchedInv', StarveInv, NEW T, TaskTable(T), schedule(T),
         T[0].counter <= PRIORITY, NEW used \in {0, 1}, Count(used, 0),
         Waiting /\ watched \in DOMAIN T
           => used + Rest(T, watched) <= Load(task, watched, current)
  PROVE  StarveInv'
<1>1. watched \in Numbers \ {0} /\ PRIORITY \in Nat /\ PRIORITY > 0
  BY InvIsSound, SchedConstants
<1>2. /\ DOMAIN task' = DOMAIN T /\ task'[0].counter = T[0].counter
      /\ watched \in Runnable(task')
           => current' # 0 /\ Rest(task', watched) <= Rest(T, watched)
  BY <1>1, ScheduleLoad
<1>3. /\ Rest(task', watched) \in Nat /\ Rest(task', watched) <= Full + Again
      /\ Rest(T, watched) \in Nat
  BY <1>1, TicksCounted
<1>4. Waits => /\ Load(task', watched, current') = Rest(task', watched)
               /\ watched \in DOMAIN T /\ Rest(task', watched) <= Rest(T, watched)
  BY <1>2, <1>3 DEF Waits, Runnable, Load
<1>5. Load(task, watched, current) \in Nat
  <2>1. TaskTable(task)
    BY InvIsSound DEF Sound
  <2>2. task[0].counter \in Nat
    BY <2>1 DEF TaskTable, TaskStruct
  <2>3. Rest(task, watched) \in Nat
    BY <1>1, TicksCounted
  <2>4. QED
    BY <2>2, <2>3 DEF Load
<1>6. Given(0) = 0
  BY Sizes
<1>7. Waits /\ ~Waiting
        => used + Load(task', watched, current') <= Full + Again + Given(0) + PRIORITY
  BY <1>1, <1>3, <1>4, <1>6, Sizes
<1>8. Waits /\ Waiting
        => used + Load(task', watched, current') <= Load(task, watched, current) + Given(0)
  BY <1>3, <1>4, <1>5, <1>6
<1>9. task'[0].counter <= PRIORITY
  BY <1>2
<1>10. QED
  BY <1>7, <1>8, <1>9, StarveStep

(* A step that leaves the counters alone *)
LEMMA StarveStays ==
  ASSUME SchedInv, SchedInv', StarveInv, current' = current, Count(0, 0),
         DOMAIN task' = DOMAIN task,
         \A i \in DOMAIN task : task'[i].counter = task[i].counter
  PROVE  StarveInv'
<1>1. /\ watched \in Numbers \ {0} /\ PRIORITY \in Nat
      /\ TaskTable(task) /\ TaskTable(task') /\ Given(0) = 0
  BY InvIsSound, Sizes, SchedConstants
     DEF Sound, SchedInv, Timely, SchedTypeOK, TaskTable
<1>2. task'[0].counter = task[0].counter /\ task[0].counter \in Nat
  BY <1>1 DEF TaskTable, TaskStruct
<1>3. task[0].counter <= PRIORITY
  BY DEF StarveInv
<1>4. /\ Rest(task', watched) \in Nat /\ Rest(task', watched) <= Full + Again
      /\ Rest(task, watched) \in Nat
  BY <1>1, TicksCounted
<1>5. Waits => Rest(task', watched) <= Rest(task, watched)
  <2>1. SUFFICES ASSUME Waits PROVE Rest(task', watched) <= Rest(task, watched)
    OBVIOUS
  <2>2. watched \in DOMAIN task' /\ task'[watched].counter = task[watched].counter
    BY <2>1 DEF Waits, Runnable
  <2>3. \A i \in DOMAIN task' \ {0} : task'[i].counter <= task[i].counter
    BY <1>1 DEF TaskTable, TaskStruct
  <2>4. DOMAIN task' \subseteq DOMAIN task
    OBVIOUS
  <2>5. QED
    BY <1>1, <2>2, <2>3, <2>4, RestShrinks
<1>6. Waits /\ ~Waiting
        => 0 + Load(task', watched, current') <= Full + Again + Given(0) + PRIORITY
  BY <1>1, <1>2, <1>3, <1>4, Sizes DEF Load
<1>7. Waits /\ Waiting
        => 0 + Load(task', watched, current') <= Load(task, watched, current) + Given(0)
  BY <1>1, <1>2, <1>4, <1>5 DEF Load
<1>8. task'[0].counter <= PRIORITY
  BY <1>2, <1>3
<1>9. QED
  BY <1>6, <1>7, <1>8, StarveStep

(* A step that calls schedule() with the counters as they were, for all    *)
(* tasks or all but a zombie                                               *)
LEMMA StarveGoesOn ==
  ASSUME SchedInv, SchedInv', StarveInv, NEW T, TaskTable(T), schedule(T), Count(0, 0),
         DOMAIN T \subseteq DOMAIN task, \A i \in DOMAIN T : T[i].counter = task[i].counter
  PROVE  StarveInv'
<1>1. watched \in Numbers \ {0} /\ TaskTable(task)
  BY InvIsSound DEF Sound
<1>2. T[0].counter = task[0].counter /\ task[0].counter \in Nat
  BY <1>1 DEF TaskTable, TaskStruct
<1>3. T[0].counter <= PRIORITY
  BY <1>2 DEF StarveInv
<1>4. Rest(T, watched) \in Nat /\ Rest(task, watched) \in Nat
  BY <1>1, TicksCounted
<1>5. watched \in DOMAIN T => Rest(T, watched) <= Rest(task, watched)
  <2>1. \A i \in DOMAIN T \ {0} : T[i].counter <= task[i].counter
    BY DEF TaskTable, TaskStruct
  <2>2. QED
    BY <1>1, <2>1, RestShrinks
<1>6. Waiting /\ watched \in DOMAIN T => 0 + Rest(T, watched) <= Load(task, watched, current)
  BY <1>2, <1>4, <1>5 DEF Load
<1>7. QED
  BY <1>3, <1>6, StarveSchedules

(* The tick takes from the watched task's wait what it adds to it. *)
LEMMA StarveTick ==
  ASSUME SchedInv, SchedInv', StarveInv, Tick
  PROVE  StarveInv'
<1> DEFINE c == task[current].counter
           T == Ticked
           used == IF c > 0 THEN 1 ELSE 0
<1>1. /\ Sound(task, current) /\ TaskTable(task) /\ current \in DOMAIN task
      /\ watched \in Numbers \ {0} /\ PRIORITY \in Nat /\ PRIORITY > 0
  BY InvIsSound, SchedConstants DEF Sound
<1>2. /\ Sound(T, current) /\ TaskTable(T) /\ DOMAIN T = DOMAIN task
      /\ T[current].counter = c - used
      /\ \A i \in DOMAIN task : T[i].state = task[i].state
      /\ \A i \in DOMAIN task \ {current} : T[i].counter = task[i].counter
  BY <1>1, TickedTable DEF Sound
<1>3. used \in {0, 1} /\ used <= c /\ c \in Nat
  BY <1>1 DEF TaskTable, TaskStruct
<1>4. Count(used, 0) /\ (Goes(T, current) \/ schedule(T))
  BY DEF Tick, Ticked
<1> HIDE DEF T, used
<1>5. \A i \in DOMAIN task :
        T[i].counter \in Nat /\ task[i].counter \in Nat /\ T[i].counter <= task[i].counter
  BY <1>1, <1>2, <1>3 DEF TaskTable, TaskStruct
<1>6. T[0].counter \in Nat /\ T[0].counter <= PRIORITY /\ T[0].counter <= task[0].counter
  BY <1>1, <1>5 DEF StarveInv, TaskTable
<1>7. /\ Rest(T, watched) \in Nat /\ Rest(T, watched) <= Full + Again
      /\ Rest(task, watched) \in Nat
  BY <1>1, TicksCounted
<1>8. ASSUME Waiting
      PROVE  used + Rest(T, watched) + (IF current = 0 THEN T[0].counter ELSE 0)
               <= Load(task, watched, current)
  <2>1. watched \in DOMAIN task /\ watched # current /\ watched \in DOMAIN T
    BY <1>2, <1>8 DEF Waiting, Runnable
  <2>2. T[watched].counter = task[watched].counter
    BY <1>2, <2>1
  <2>3. \A i \in DOMAIN T \ {0} : T[i].counter <= task[i].counter
    BY <1>2, <1>5
  <2>4. Rest(T, watched) <= Rest(task, watched)
    BY <1>1, <1>2, <2>1, <2>2, <2>3, RestShrinks
  <2>5. CASE current = 0
    <3>1. T[0].counter = task[0].counter - used
      BY <1>2, <2>5
    <3>2. Load(task, watched, current) = Rest(task, watched) + task[0].counter
      BY <2>5 DEF Load
    <3>3. task[0].counter \in Nat
      BY <1>1, <1>5, <2>5
    <3>4. QED
      BY <1>3, <1>7, <2>4, <2>5, <3>1, <3>2, <3>3
  <2>6. CASE current # 0 /\ c = 0
    BY <1>7, <2>4, <2>6 DEF Load, used
  <2>7. CASE current # 0 /\ c # 0
    <3>1. used = 1 /\ c > 0
      BY <1>3, <2>7 DEF used
    <3>2. T[current].counter < task[current].counter
      BY <1>2, <1>3, <3>1
    <3>3. current \in DOMAIN task \ {0, watched}
      BY <1>1, <2>1, <2>7
    <3>4. DOMAIN T \subseteq DOMAIN task /\ task[current].counter > 0
      BY <1>2, <3>1
    <3>5. Rest(T, watched) + 1 <= Rest(task, watched)
      BY <1>1, <1>2, <2>1, <2>2, <2>3, <3>2, <3>3, <3>4, RestUsed
    <3>6. QED
      BY <1>7, <2>7, <3>1, <3>5 DEF Load
  <2>8. QED
    BY <2>5, <2>6, <2>7
<1>9. CASE schedule(T)
  <2>1. Waiting /\ watched \in DOMAIN T
          => used + Rest(T, watched) <= Load(task, watched, current)
    <3>1. SUFFICES ASSUME Waiting PROVE used + Rest(T, watched) <= Load(task, watched, current)
      OBVIOUS
    <3>2. used + Rest(T, watched) + (IF current = 0 THEN T[0].counter ELSE 0)
            <= Load(task, watched, current)
      BY <1>8, <3>1
    <3>3. Load(task, watched, current) \in Nat
      BY <1>1, <1>5, <1>7 DEF Load, TaskTable
    <3>4. QED
      BY <1>3, <1>6, <1>7, <3>2, <3>3
  <2>2. QED
    BY <1>2, <1>3, <1>4, <1>6, <1>9, <2>1, StarveSchedules
<1>10. CASE Goes(T, current)
  <2>1. /\ DOMAIN task' = DOMAIN T /\ current' = current
        /\ \A i \in DOMAIN T : task'[i].counter = T[i].counter
        /\ \A i \in DOMAIN T : task'[i].state = T[i].state
        /\ TaskTable(task')
    <3>1. task' = Returned(T, current) /\ current' = current
      BY <1>10 DEF Goes
    <3>2. \A i \in DOMAIN T : Returned(T, current)[i].counter = T[i].counter
      BY <1>1, <1>2, ReturnedKeeps
    <3>3. DOMAIN Returned(T, current) = DOMAIN T
      BY DEF Returned
    <3>4. \A i \in DOMAIN T : Returned(T, current)[i].state = T[i].state
      BY <1>1, <1>2 DEF Returned, TaskTable, TaskStruct
    <3>5. TaskTable(task)'
      BY DEF SchedInv, Timely, SchedTypeOK, TaskTable
    <3>6. QED
      BY <3>1, <3>2, <3>3, <3>4, <3>5
  <2>2. Waits => Waiting
    BY <1>2, <2>1 DEF Waits, Waiting, Runnable
  <2>3. task'[0].counter = T[0].counter
    BY <1>1, <1>2, <2>1 DEF TaskTable
  <2>4. Waits => Rest(task', watched) <= Rest(T, watched)
    <3>1. SUFFICES ASSUME Waits PROVE Rest(task', watched) <= Rest(T, watched)
      OBVIOUS
    <3>2. watched \in DOMAIN task' /\ task'[watched].counter = T[watched].counter
      BY <2>1, <3>1 DEF Waits, Runnable
    <3>3. \A i \in DOMAIN task' \ {0} : task'[i].counter <= T[i].counter
      BY <1>2, <1>5, <2>1
    <3>4. QED
      BY <1>1, <1>2, <2>1, <3>2, <3>3, RestShrinks
  <2>5. Waits /\ Waiting
          => used + Load(task', watched, current') <= Load(task, watched, current) + Given(0)
    <3>1. SUFFICES ASSUME Waits, Waiting
                   PROVE  used + Load(task', watched, current')
                            <= Load(task, watched, current) + Given(0)
      OBVIOUS
    <3>2. Rest(task', watched) <= Rest(T, watched)
      BY <2>4, <3>1
    <3>3. used + Rest(T, watched) + (IF current = 0 THEN T[0].counter ELSE 0)
            <= Load(task, watched, current)
      BY <1>8, <3>1
    <3>4. Load(task', watched, current')
            = Rest(task', watched) + (IF current = 0 THEN T[0].counter ELSE 0)
      BY <2>1, <2>3 DEF Load
    <3>5. /\ Rest(task', watched) \in Nat /\ Load(task, watched, current) \in Nat
          /\ Given(0) = 0
      <4>1. Rest(task', watched) \in Nat
        BY <1>1, TicksCounted
      <4>2. Load(task, watched, current) \in Nat
        BY <1>1, <1>5, <1>7 DEF Load, TaskTable
      <4>3. QED
        BY <4>1, <4>2, Sizes
    <3> DEFINE zero == IF current = 0 THEN T[0].counter ELSE 0
               load == Load(task, watched, current)
               next == Load(task', watched, current')
    <3>6. zero \in Nat
      BY <1>6
    <3> HIDE DEF zero, load, next
    <3>7. /\ used + Rest(T, watched) + zero <= load
          /\ next = Rest(task', watched) + zero /\ load \in Nat
      BY <3>3, <3>4, <3>5 DEF zero, load, next
    <3>8. used + next <= load + Given(0)
      BY <1>3, <1>7, <3>2, <3>5, <3>6, <3>7
    <3>9. QED
      BY <3>8 DEF load, next
  <2>6. task'[0].counter <= PRIORITY
    BY <1>6, <2>3
  <2>7. QED
    BY <1>3, <1>4, <2>2, <2>5, <2>6, StarveStep
<1>11. QED
  BY <1>4, <1>9, <1>10

(* A child brings a counter of one priority. *)
LEMMA StarveFork ==
  ASSUME SchedInv, SchedInv', StarveInv, sys_fork
  PROVE  StarveInv'
<1> DEFINE nr == Min(Numbers \ DOMAIN task)
           child == NewTask(task[current].priority)
           w == watched
           more == {nr} \X (1 .. MaxPriority)
<1>1. /\ TaskTable(task) /\ TaskTable(task') /\ current \in DOMAIN task
      /\ w \in Numbers \ {0} /\ PRIORITY \in Nat /\ MaxPriority \in Nat
  BY InvIsSound, SchedConstants DEF Sound, SchedInv, Timely, SchedTypeOK, TaskTable
<1>2. nr \in Numbers /\ nr \notin DOMAIN task
  <2>1. Numbers \ DOMAIN task # {} /\ Numbers \ DOMAIN task \in SUBSET Numbers
    BY <1>1 DEF sys_fork, TaskTable
  <2>2. nr \in Numbers \ DOMAIN task
    <3> HIDE DEF nr
    <3> QED BY <2>1, Least DEF nr
  <2>3. QED
    BY <2>2
<1>3. child.counter \in 1 .. MaxPriority
  BY <1>1 DEF NewTask, TaskTable, TaskStruct
<1>4. /\ task' = [i \in DOMAIN task \cup {nr} |-> IF i = nr THEN child ELSE task[i]]
      /\ current' = current /\ Count(0, 1)
  BY DEF sys_fork, Stays
<1> HIDE DEF nr, child
<1>5. /\ DOMAIN task' = DOMAIN task \cup {nr} /\ task'[nr].counter \in 1 .. MaxPriority
      /\ \A i \in DOMAIN task : task'[i] = task[i]
  BY <1>2, <1>3, <1>4
<1>6. task'[0] = task[0] /\ task[0].counter \in Nat
  BY <1>1, <1>5 DEF TaskTable, TaskStruct
<1>7. task[0].counter <= PRIORITY
  BY DEF StarveInv
<1>8. /\ Rest(task', w) \in Nat /\ Rest(task', w) <= Full + Again /\ Rest(task, w) \in Nat
  BY <1>1, TicksCounted
<1>9. Given(1) = MaxPriority /\ Full \in Nat /\ Again \in Nat
  BY Sizes
<1>10. w \in DOMAIN task => Rest(task', w) <= Rest(task, w) + MaxPriority
  <2>1. SUFFICES ASSUME w \in DOMAIN task
                 PROVE  Rest(task', w) <= Rest(task, w) + MaxPriority
    OBVIOUS
  <2>2. IsFiniteSet(more) /\ Cardinality(more) = MaxPriority
    <3>1. IsFiniteSet({nr}) /\ Cardinality({nr}) = 1
      BY FS_Singleton
    <3>2. IsFiniteSet(1 .. MaxPriority) /\ Cardinality(1 .. MaxPriority) = MaxPriority
      <4>1. /\ IsFiniteSet(1 .. MaxPriority)
            /\ Cardinality(1 .. MaxPriority)
                 = IF 1 > MaxPriority THEN 0 ELSE MaxPriority - 1 + 1
        BY <1>1, FS_Interval
      <4>2. QED
        BY <1>1, <4>1
    <3>3. /\ IsFiniteSet(more)
          /\ Cardinality(more) = Cardinality({nr}) * Cardinality(1 .. MaxPriority)
      BY <3>1, <3>2, FS_Product
    <3> HIDE DEF more
    <3>4. QED
      BY <1>1, <3>1, <3>2, <3>3
  <2>3. Ticks(task', w) \subseteq Ticks(task, w) \cup more
    <3>1. SUFFICES ASSUME NEW x \in Ticks(task', w), x \notin Ticks(task, w) PROVE x \in more
      OBVIOUS
    <3>2. /\ x \in Others(w) \X (1 .. Slice) /\ x[1] \in DOMAIN task \cup {nr}
          /\ x[2] <= task'[x[1]].counter
      BY <1>5 DEF Ticks
    <3>3. x[1] = nr
      <4>1. SUFFICES ASSUME x[1] \in DOMAIN task PROVE FALSE
        BY <3>2
      <4>2. x[2] <= task[x[1]].counter
        BY <1>5, <3>2, <4>1
      <4>3. QED
        BY <3>1, <3>2, <4>1, <4>2 DEF Ticks
    <3>4. x = <<x[1], x[2]>> /\ x[2] \in Nat /\ x[2] >= 1
      BY <3>2, Sizes
    <3>5. x[2] \in 1 .. MaxPriority
      BY <1>1, <1>5, <3>2, <3>3, <3>4
    <3>6. QED
      BY <3>3, <3>4, <3>5
  <2> HIDE DEF more
  <2>4. Cardinality(Ticks(task', w)) <= Cardinality(Ticks(task, w)) + MaxPriority
    BY <1>1, <2>2, <2>3, TicksAdded
  <2>5. Cardinality(Ticks(task', w)) \in Nat /\ Cardinality(Ticks(task, w)) \in Nat
    BY <1>1, TicksCounted
  <2>6. task'[w].counter = task[w].counter
    BY <1>5, <2>1
  <2>7. QED
    BY <1>1, <1>9, <2>4, <2>5, <2>6 DEF Rest
<1> HIDE DEF more
<1>11. Waits /\ ~Waiting
         => 0 + Load(task', watched, current') <= Full + Again + Given(1) + PRIORITY
  BY <1>1, <1>6, <1>7, <1>8, <1>9 DEF Load
<1>12. Waits /\ Waiting
         => 0 + Load(task', watched, current') <= Load(task, watched, current) + Given(1)
  <2>1. SUFFICES ASSUME Waiting
                 PROVE  0 + Load(task', w, current') <= Load(task, w, current) + Given(1)
    OBVIOUS
  <2>2. w \in DOMAIN task
    BY <2>1 DEF Waiting, Runnable
  <2>3. QED
    BY <1>1, <1>4, <1>6, <1>8, <1>9, <1>10, <2>2 DEF Load
<1>13. task'[0].counter <= PRIORITY
  BY <1>6, <1>7
<1>14. QED
  BY <1>4, <1>11, <1>12, <1>13, StarveStep

(* At first task 1 may wait already, for task 0 and its own counter. *)
LEMMA StarveInit == SchedInit => StarveInv
<1> SUFFICES ASSUME SchedInit PROVE StarveInv
  OBVIOUS
<1>1. /\ task[0] = NewTask(PRIORITY) /\ PRIORITY \in Nat
      /\ watched \in Numbers \ {0} /\ waited = 0 /\ born = 0
  BY SchedConstants DEF SchedInit
<1>2. task[0].counter = PRIORITY
  BY <1>1 DEF NewTask
<1>3. Rest(task, watched) \in Nat /\ Rest(task, watched) <= Full + Again
  BY <1>1, TicksCounted
<1>4. Load(task, watched, current) <= Full + Again + PRIORITY
  BY <1>1, <1>2, <1>3, Sizes DEF Load
<1>5. Load(task, watched, current) \in Nat
  BY <1>1, <1>2, <1>3 DEF Load
<1>6. QED
  BY <1>1, <1>2, <1>4, <1>5, Sizes DEF StarveInv

(* Of one task something else than the counter changes. *)
LEMMA StarveOne ==
  ASSUME SchedInv, SchedInv', StarveInv, NEW i \in DOMAIN task, NEW t \in TaskStruct,
         t.counter = task[i].counter, Count(0, 0),
         \/ task' = [task EXCEPT ![i] = t] /\ current' = current
         \/ schedule([task EXCEPT ![i] = t])
  PROVE  StarveInv'
<1> DEFINE T == [task EXCEPT ![i] = t]
<1>1. TaskTable(T)
  BY OneChanges
<1>2. DOMAIN T = DOMAIN task /\ \A j \in DOMAIN T : T[j].counter = task[j].counter
  OBVIOUS
<1>3. (task' = T /\ current' = current) \/ schedule(T)
  OBVIOUS
<1> HIDE DEF T
<1>4. CASE task' = T /\ current' = current
  BY <1>2, <1>4, StarveStays
<1>5. CASE schedule(T)
  <2>1. DOMAIN T \subseteq DOMAIN task
    BY <1>2
  <2>2. QED
    BY <1>1, <1>2, <1>5, <2>1, StarveGoesOn
<1>6. QED
  BY <1>3, <1>4, <1>5

(* No step makes the watched task wait longer than it had to. *)
LEMMA StarveKeeps ==
  SchedInv /\ SchedInv' /\ StarveInv /\ [SchedNext]_schedVars => StarveInv'
<1> SUFFICES ASSUME SchedInv, SchedInv', StarveInv, [SchedNext]_schedVars PROVE StarveInv'
  OBVIOUS
<1> DEFINE me == task[current]
<1>0. TaskTable(task) /\ me \in TaskStruct /\ current \in DOMAIN task
  BY InvIsSound DEF Sound, TaskTable
<1>1. CASE Tick
  BY <1>1, StarveTick
<1>2. CASE Call
  <2> DEFINE t == [me EXCEPT !.kernel = TRUE]
  <2>1. t \in TaskStruct /\ t.counter = me.counter
    BY <1>0 DEF TaskStruct
  <2>2. task' = [task EXCEPT ![current] = t] /\ current' = current /\ Count(0, 0)
    BY <1>2 DEF Call, Stays
  <2> HIDE DEF t
  <2>3. QED
    BY <1>0, <2>1, <2>2, StarveOne
<1>3. CASE CallEnds
  <2> DEFINE t == [me EXCEPT !.kernel = FALSE]
             T == [task EXCEPT ![current] = t]
  <2>1. t \in TaskStruct /\ t.counter = me.counter
    BY <1>0 DEF TaskStruct
  <2>2. Count(0, 0) /\ (schedule(T) \/ Goes(T, current))
    BY <1>3 DEF CallEnds
  <2> HIDE DEF t
  <2>3. CASE schedule(T)
    BY <1>0, <2>1, <2>2, <2>3, StarveOne
  <2>4. CASE Goes(T, current)
    <3>1. TaskTable(T) /\ DOMAIN T = DOMAIN task
      BY <1>0, <2>1, OneChanges
    <3>2. \A j \in DOMAIN task : T[j].counter = task[j].counter
      BY <1>0, <2>1
    <3> HIDE DEF T
    <3>3. /\ DOMAIN task' = DOMAIN task /\ current' = current
          /\ \A j \in DOMAIN task : task'[j].counter = task[j].counter
      <4>1. task' = Returned(T, current) /\ current' = current
        BY <2>4 DEF Goes
      <4>2. \A j \in DOMAIN T : Returned(T, current)[j].counter = T[j].counter
        BY <1>0, <3>1, ReturnedKeeps
      <4>3. DOMAIN Returned(T, current) = DOMAIN T
        BY DEF Returned
      <4>4. QED
        BY <3>1, <3>2, <4>1, <4>2, <4>3
    <3>4. QED
      BY <2>2, <3>3, StarveStays
  <2>5. QED
    BY <2>2, <2>3, <2>4
<1>4. CASE sys_pause \/ FallAsleep \/ Exit
  <2>1. PICK s \in States : schedule([task EXCEPT ![current] = [me EXCEPT !.state = s]])
    BY <1>4 DEF sys_pause, FallAsleep, Exit, States
  <2> DEFINE t == [me EXCEPT !.state = s]
  <2>2. t \in TaskStruct /\ t.counter = me.counter
    BY <1>0 DEF TaskStruct
  <2>3. schedule([task EXCEPT ![current] = t]) /\ Count(0, 0)
    BY <1>4, <2>1 DEF sys_pause, FallAsleep, Exit
  <2> HIDE DEF t
  <2>4. QED
    BY <1>0, <2>2, <2>3, StarveOne
<1>5. CASE sys_fork
  BY <1>5, StarveFork
<1>6. ASSUME NEW i \in Numbers, Wake(i) \/ Kill(i) PROVE StarveInv'
  <2>1. i \in DOMAIN task /\ current' = current /\ Count(0, 0)
    BY <1>6 DEF Wake, Kill, Stays
  <2>2. \/ task' = [task EXCEPT ![i] = [task[i] EXCEPT !.state = "running"]]
        \/ task' = [task EXCEPT ![i] = [task[i] EXCEPT !.signal = TRUE]]
    BY <1>6 DEF Wake, Kill, Stays
  <2>3. PICK t \in TaskStruct : t.counter = task[i].counter /\ task' = [task EXCEPT ![i] = t]
    <3>1. task[i] \in TaskStruct
      BY <1>0, <2>1 DEF TaskTable
    <3>2. /\ [task[i] EXCEPT !.state = "running"] \in TaskStruct
          /\ [task[i] EXCEPT !.state = "running"].counter = task[i].counter
      BY <3>1 DEF TaskStruct, States
    <3>3. /\ [task[i] EXCEPT !.signal = TRUE] \in TaskStruct
          /\ [task[i] EXCEPT !.signal = TRUE].counter = task[i].counter
      BY <3>1 DEF TaskStruct
    <3>4. QED
      BY <2>2, <3>2, <3>3
  <2>4. QED
    BY <2>1, <2>3, StarveOne
<1>7. ASSUME NEW i \in Numbers, Release(i) PROVE StarveInv'
  <2> DEFINE T == [j \in DOMAIN task \ {i} |-> task[j]]
  <2>1. schedule(T) /\ Count(0, 0) /\ i # 0
    BY <1>7 DEF Release
  <2>2. /\ TaskTable(T) /\ DOMAIN T \subseteq DOMAIN task
        /\ \A j \in DOMAIN T : T[j].counter = task[j].counter
    BY <1>0, <2>1 DEF TaskTable
  <2> HIDE DEF T
  <2>3. QED
    BY <2>1, <2>2, StarveGoesOn
<1>8. ASSUME NEW ticks \in 0 .. MaxAlarm, sys_alarm(ticks) PROVE StarveInv'
  <2> DEFINE t == [me EXCEPT !.alarm = IF ticks > 0 THEN {ticks} ELSE {}]
  <2>1. t \in TaskStruct /\ t.counter = me.counter
    BY <1>0, SchedConstants DEF TaskStruct
  <2>2. task' = [task EXCEPT ![current] = t] /\ current' = current /\ Count(0, 0)
    BY <1>8 DEF sys_alarm, Stays
  <2> HIDE DEF t
  <2>3. QED
    BY <1>0, <2>1, <2>2, StarveOne
<1>9. ASSUME NEW increment \in {-1, 1}, sys_nice(increment) PROVE StarveInv'
  <2> DEFINE t == [me EXCEPT !.priority = me.priority - increment]
  <2>1. t \in TaskStruct /\ t.counter = me.counter
    BY <1>0, <1>9 DEF sys_nice, TaskStruct
  <2>2. task' = [task EXCEPT ![current] = t] /\ current' = current /\ Count(0, 0)
    BY <1>9 DEF sys_nice, Stays
  <2> HIDE DEF t
  <2>3. QED
    BY <1>0, <2>1, <2>2, StarveOne
<1>10. CASE UNCHANGED schedVars
  <2>1. /\ task' = task /\ current' = current /\ watched' = watched /\ waited' = waited
        /\ born' = born
    BY <1>10 DEF schedVars
  <2>2. QED
    BY <2>1 DEF StarveInv, Waiting
<1>11. QED
  BY <1>1, <1>2, <1>3, <1>4, <1>5, <1>6, <1>7, <1>8, <1>9, <1>10 DEF SchedNext

(* The bound of the invariant is the one that is stated. *)
LEMMA StarveBounds == SchedInv /\ StarveInv => NobodyStarves
<1> SUFFICES ASSUME SchedInv, StarveInv PROVE NobodyStarves
  OBVIOUS
<1>1. /\ TaskTable(task) /\ watched \in Numbers \ {0} /\ waited \in Nat /\ born \in Nat
      /\ PRIORITY \in Nat
  BY InvIsSound, SchedConstants DEF Sound
<1>2. Load(task, watched, current) \in Nat
  <2>1. task[0].counter \in Nat
    BY <1>1 DEF TaskTable, TaskStruct
  <2>2. Rest(task, watched) \in Nat
    BY <1>1, TicksCounted
  <2>3. QED
    BY <2>1, <2>2 DEF Load
<1>3. Full \in Nat /\ Again \in Nat /\ Given(born) \in Nat
  BY <1>1, Sizes
<1>4. waited <= Full + Again + Given(born) + PRIORITY
  BY <1>1, <1>2, <1>3 DEF StarveInv
<1>5. Full + Again = (NR_TASKS - 2) * (Slice + MaxPriority)
  <2>1. \A a, b, c \in Nat : a * b + a * c = a * (b + c)
    OBVIOUS
  <2>2. NR_TASKS - 2 \in Nat /\ Slice \in Nat /\ MaxPriority \in Nat
    BY SchedConstants, Sizes
  <2> HIDE DEF Slice
  <2>3. QED
    BY <2>1, <2>2 DEF Full, Again
<1>6. QED
  BY <1>4, <1>5 DEF NobodyStarves, Given

(* Whoever can run does so within the counters of all others, their        *)
(* priorities once more, and a priority for each fork: schedule() starves  *)
(* nobody.                                                                 *)
THEOREM NobodyWaitsLong == SchedSpec => []NobodyStarves
<1>1. SchedInv /\ StarveInv /\ [SchedNext]_schedVars => SchedInv' /\ StarveInv'
  BY StepKeeps, StarveKeeps
<1>2. SchedInit => SchedInv /\ StarveInv
  BY InvInit, StarveInit
<1>3. SchedInv /\ StarveInv => NobodyStarves
  BY StarveBounds
<1>4. QED
  BY <1>1, <1>2, <1>3, PTL DEF SchedSpec
=============================================================================
