-------------------------------- MODULE Sched --------------------------------
(***************************************************************************)
(* The choice of the next task: schedule(), the timer and the calls that   *)
(* change what they look at, of kernel/sched.c, and the end of a system    *)
(* call in kernel/system_call.s.  Which queue a task sleeps on is the      *)
(* subject of Sleepers, the timeouts of keys that of Security.             *)
(*                                                                         *)
(* One task is watched: how long it is runnable and does not run, and how  *)
(* long schedule() owes it a wake-up.  Time is counted in ticks that use   *)
(* up somebody's counter: a system call may last as long as it likes.      *)
(***************************************************************************)
EXTENDS Integers, FiniteSets, FiniteSetsExt

CONSTANTS NR_TASKS,     \* 64: the entries of the task table
          PRIORITY,     \* 15: the priority of the first task
          MaxPriority,  \* bound: priorities that sys_nice may reach
          MaxAlarm,     \* bound: the ticks an alarm is set ahead
          MaxForks      \* bound: forks while the watched task waits

ASSUME SchedConstants ==
  /\ NR_TASKS \in Nat \ {0, 1} /\ PRIORITY \in Nat \ {0}
  /\ MaxPriority \in Nat /\ PRIORITY <= MaxPriority
  /\ MaxAlarm \in Nat /\ MaxForks \in Nat

VARIABLES task,     \* the tasks there are, by their number
          current,
          watched,  \* the number that is watched
          waited,   \* history: ticks since it could have run
          born,     \* history: forks since it could have run
          late      \* history: ticks since schedule() should have woken it
schedVars == <<task, current, watched, waited, born, late>>

Numbers == 0 .. NR_TASKS - 1
States == {"running", "interruptible", "uninterruptible", "zombie"}

(* alarm is {} or the ticks that are left, no less than -1; kernel: inside *)
(* a system call.                                                          *)
TaskStruct == [state : States, counter : Nat, priority : 1 .. MaxPriority, signal : BOOLEAN,
               alarm : {{}} \cup {{r} : r \in -1 .. MaxAlarm}, kernel : BOOLEAN]

SchedTypeOK ==
  /\ DOMAIN task \subseteq Numbers /\ 0 \in DOMAIN task
  /\ \A i \in DOMAIN task : task[i] \in TaskStruct
  /\ current \in DOMAIN task /\ watched \in Numbers \ {0}
  /\ waited \in Nat /\ born \in 0 .. MaxForks /\ late \in Nat

NewTask(priority) == [state |-> "running", counter |-> priority, priority |-> priority,
                      signal |-> FALSE, alarm |-> {}, kernel |-> FALSE]

(* Task 0 has made task 1 and is about to run it.                          *)
SchedInit ==
  /\ task = [i \in {0, 1} |-> NewTask(PRIORITY)] /\ current = 0
  /\ watched \in Numbers \ {0} /\ waited = 0 /\ born = 0 /\ late = 0

-----------------------------------------------------------------------------
(* schedule(), on the tasks T as the caller has left them                  *)
Overdue(t) == -1 \in t.alarm
Woken(t) ==
  LET s == IF Overdue(t) THEN [t EXCEPT !.signal = TRUE, !.alarm = {}] ELSE t
  IN  IF s.signal /\ s.state = "interruptible" THEN [s EXCEPT !.state = "running"] ELSE s
Signalled(T) == [i \in DOMAIN T |-> IF i = 0 THEN T[i] ELSE Woken(T[i])]

Runnable(T) == {i \in DOMAIN T \ {0} : T[i].state = "running"}

(* Mutant: one task without a counter is enough to give everybody one.     *)
UsedUpOne(T) == \E i \in Runnable(T) : T[i].counter = 0
UsedUp(T) == Runnable(T) # {} /\ \A i \in Runnable(T) : T[i].counter = 0

(* Mutant: the counter is not halved.                                      *)
RechargeWhole(t) == [t EXCEPT !.counter = @ + t.priority]
Recharge(t) == [t EXCEPT !.counter = @ \div 2 + t.priority]
Recharged(T) ==
  IF UsedUp(T) THEN [i \in DOMAIN T |-> IF i = 0 THEN T[i] ELSE Recharge(T[i])] ELSE T

(* The greatest counter, and among equals the last number; task 0 if none  *)
Choice(T) ==
  LET most == {i \in Runnable(T) : \A j \in Runnable(T) : T[j].counter <= T[i].counter}
  IN  IF most = {} THEN 0 ELSE Max(most)

(* ret_from_sys_call: whoever is back in user mode has taken its signals.  *)
(* That one may end it is Exit, which is possible in any system call.      *)
Returned(T, i) == IF i # 0 /\ ~T[i].kernel THEN [T EXCEPT ![i].signal = FALSE] ELSE T

Goes(T, i) == current' = i /\ task' = Returned(T, i)
Stays(T) == current' = current /\ task' = T
schedule(T) == LET ready == Recharged(Signalled(T)) IN Goes(ready, Choice(ready))

-----------------------------------------------------------------------------
(* What is counted; used: a tick went off the counter of current           *)
Waits == watched \in Runnable(task') /\ current' # watched
Owed ==
  /\ watched \in DOMAIN task
  /\ LET t == task[watched]
     IN  Overdue(t) \/ (t.signal /\ t.state = "interruptible")
Count(used, forks) ==
  /\ watched' = watched
  /\ waited' = (IF Waits THEN waited + used ELSE 0)
  /\ born' = (IF Waits THEN born + forks ELSE 0)
  /\ late' = (IF Owed' THEN late + used ELSE 0)

(* do_timer, out of timer_interrupt                                        *)
Aged(T) == [i \in DOMAIN T |-> [T[i] EXCEPT !.alarm = {IF r = -1 THEN r ELSE r - 1 : r \in @}]]
Tick ==
  /\ LET c == task[current].counter
         T == [Aged(task) EXCEPT ![current].counter = IF c > 0 THEN c - 1 ELSE 0]
     IN  /\ IF c > 1 \/ task[current].kernel THEN Goes(T, current) ELSE schedule(T)
         /\ Count(IF c > 0 THEN 1 ELSE 0, 0)

(* system_call, and its end                                                *)
Call == ~task[current].kernel /\ Stays([task EXCEPT ![current].kernel = TRUE]) /\ Count(0, 0)
CallEnds ==
  /\ task[current].kernel
  /\ LET T == [task EXCEPT ![current].kernel = FALSE]
     IN  IF T[current].state # "running" \/ T[current].counter = 0
         THEN schedule(T) ELSE Goes(T, current)
  /\ Count(0, 0)

-----------------------------------------------------------------------------
(* In a system call: sys_pause and the sleeps of the drivers               *)
InCall == task[current].kernel /\ task[current].state = "running"
sys_pause ==
  /\ task[current].kernel
  /\ schedule([task EXCEPT ![current].state = "interruptible"]) /\ Count(0, 0)
FallAsleep ==
  /\ InCall /\ current # 0
  /\ schedule([task EXCEPT ![current].state = "uninterruptible"]) /\ Count(0, 0)

(* wake_up, of a task or a handler; a signal, of a task or the keyboard    *)
Wake(i) ==
  /\ i \in DOMAIN task \ {0} /\ task[i].state \in {"interruptible", "uninterruptible"}
  /\ Stays([task EXCEPT ![i].state = "running"]) /\ Count(0, 0)
Kill(i) ==
  /\ i \in DOMAIN task \ {0} /\ ~task[i].signal
  /\ Stays([task EXCEPT ![i].signal = TRUE]) /\ Count(0, 0)

(* An alarm of the watched task; the others' alarms are signals.           *)
sys_alarm(ticks) ==
  /\ InCall /\ current = watched
  /\ Stays([task EXCEPT ![current].alarm = IF ticks > 0 THEN {ticks} ELSE {}])
  /\ Count(0, 0)
sys_nice(increment) ==
  /\ InCall /\ current # 0 /\ task[current].priority - increment \in 1 .. MaxPriority
  /\ Stays([task EXCEPT ![current].priority = @ - increment]) /\ Count(0, 0)

(* sys_fork takes the first number that is free.                           *)
sys_fork ==
  /\ InCall /\ current # 0 /\ born < MaxForks /\ DOMAIN task # Numbers
  /\ LET nr == Min(Numbers \ DOMAIN task)
         child == NewTask(task[current].priority)
     IN  Stays([i \in DOMAIN task \cup {nr} |-> IF i = nr THEN child ELSE task[i]])
  /\ Count(0, 1)

(* do_exit, of a task that is not watched, and its father's release        *)
Exit ==
  /\ InCall /\ current \notin {0, watched}
  /\ schedule([task EXCEPT ![current].state = "zombie"]) /\ Count(0, 0)
Release(i) ==
  /\ InCall /\ current # 0 /\ i \in DOMAIN task \ {0} /\ task[i].state = "zombie"
  /\ schedule([j \in DOMAIN task \ {i} |-> task[j]]) /\ Count(0, 0)

SchedNext ==
  \/ Tick \/ Call \/ CallEnds \/ sys_pause \/ FallAsleep \/ sys_fork \/ Exit
  \/ \E i \in Numbers : Wake(i) \/ Kill(i) \/ Release(i)
  \/ \E ticks \in 0 .. MaxAlarm : sys_alarm(ticks)
  \/ \E increment \in {-1, 1} : sys_nice(increment)

SchedSpec == SchedInit /\ [][SchedNext]_schedVars

-----------------------------------------------------------------------------
(* Schedule() alone looks at alarms and signals, and nothing calls it but  *)
(* a sleep, the end of a system call, and a counter that is used up.  As a *)
(* counter stays below twice the greatest priority, however long its owner *)
(* sleeps (sched.c:112), an alarm or a signal is acted upon within that    *)
(* time; and the task it picks, task 0 aside, is not one that sleeps.      *)
Slice == 2 * MaxPriority - 1
Timely ==
  /\ SchedTypeOK
  /\ \A i \in DOMAIN task : task[i].counter <= Slice
  /\ late <= Slice
  /\ current # 0 /\ ~task[current].kernel => task[current].state = "running"

(* What makes it inductive: the wait of the watched task and what is left  *)
(* of the counter of current are no more than one counter.                 *)
SchedInv == Timely /\ late + task[current].counter <= Slice

(* Nobody starves: a task that can run does so after every other one has   *)
(* used up its counter and one priority, with a priority for each child    *)
(* made meanwhile, and what task 0 was given at the start.  A task without *)
(* a counter waits until everybody's is used up; who sleeps meanwhile      *)
(* comes back with half of the old counter and its priority.               *)
NobodyStarves ==
  waited <= (NR_TASKS - 2) * (Slice + MaxPriority) + MaxPriority * born + PRIORITY
=============================================================================
