------------------------------ MODULE Processes ------------------------------
(***************************************************************************)
(* The life of processes: sys_fork (kernel/fork.c), exit, waitpid and kill *)
(* (kernel/exit.c) and the delivery of signals (kernel/system_call.s).     *)
(* What happens to their memory is module MemMap; here a fork may fail for *)
(* lack of it.                                                             *)
(*                                                                         *)
(* An action is what a task does between two places where it can lose the  *)
(* processor: in user mode anywhere, in the kernel where it sleeps.        *)
(***************************************************************************)
EXTENDS Integers, FiniteSetsExt

CONSTANTS Slots,       \* the entries of task[] but the first
          FirstSlot,   \* the slot of the first process
          MaxPid,      \* bound: where last_pid wraps around
          Sent         \* bound: the signals that are sent on purpose; SIGCHLD
                       \* also comes from every child that exits

ASSUME ProcessAssumption ==
  /\ Slots \subseteq Nat /\ IsFiniteSet(Slots) /\ FirstSlot \in Slots
  /\ MaxPid \in Nat /\ MaxPid > Cardinality(Slots)
  /\ Sent \subseteq {"SIGCHLD", "other"}

VARIABLES task,      \* task[]: the fields of each task_struct, or Nobody
          pc,        \* where each task is
          pid_arg,   \* the pid its waitpid waits for, -1 for any child
          last_pid
vars == <<task, pc, pid_arg, last_pid>>

Pids == 1 .. MaxPid
Signals == {"SIGCHLD", "other"}
task_struct == [pid : Pids, father : Pids \cup {0}, zombie : BOOLEAN,
                signal : SUBSET Signals]
Nobody == [pid |-> 0, father |-> 0, zombie |-> FALSE, signal |-> {}]

(* wait: asleep in sys_pause for waitpid; close: do_exit is closing files; *)
(* gone: the task will not run again.                                      *)
Places == {"user", "wait", "close", "gone"}

TypeOK ==
  /\ task \in [Slots -> task_struct \cup {Nobody}]
  /\ pc \in [Slots -> Places]
  /\ pid_arg \in [Slots -> Pids \cup {-1}]
  /\ last_pid \in Pids
  /\ \A s \in Slots : pc[s] = "gone" <=> task[s].zombie \/ task[s] = Nobody

Live == {s \in Slots : task[s] # Nobody}
Children(s) == {c \in Live \ {s} : task[c].father = task[s].pid}

(* After the first fork, whose father is task 0 *)
Init ==
  /\ task = [s \in Slots |-> IF s = FirstSlot THEN [Nobody EXCEPT !.pid = 1] ELSE Nobody]
  /\ pc = [s \in Slots |-> IF s = FirstSlot THEN "user" ELSE "gone"]
  /\ pid_arg = [s \in Slots |-> -1]
  /\ last_pid = 1

-----------------------------------------------------------------------------
(* How many steps last_pid needs from n to p; all of them back to n *)
Steps(n, p) == IF p > n THEN p - n ELSE p - n + MaxPid
UsedPids == {task[t].pid : t \in Live}

(* Mutant: the pid of a zombie is thought free. *)
FollowingAlive(n) ==
  CHOOSE p \in Pids : \A q \in Pids :
    LET used(x) == \E t \in Live : task[t].pid = x /\ ~task[t].zombie
    IN ~used(p) /\ (used(q) \/ Steps(n, p) <= Steps(n, q))

(* find_empty_process: the next pid after n that no task has *)
Following(n) ==
  CHOOSE p \in Pids \ UsedPids :
    \A q \in Pids \ UsedPids : Steps(n, p) <= Steps(n, q)

(* sys_fork: slots or memory may be lacking, after the pid was chosen.     *)
Fork(s) ==
  /\ pc[s] = "user"
  /\ last_pid' = Following(last_pid)
  /\ \/ UNCHANGED <<task, pc>>
     \/ /\ Slots # Live
        /\ LET n == Min(Slots \ Live)
           IN /\ task' = [task EXCEPT ![n] = [pid |-> last_pid', father |-> task[s].pid,
                                              zombie |-> FALSE, signal |-> {}]]
              /\ pc' = [pc EXCEPT ![n] = "user"]
  /\ UNCHANGED pid_arg

Forget(s) == [task EXCEPT ![s].signal = {}]

(* Mutant: the children keep their father. *)
OrphanNobody(s) == Forget(s)

(* The children of s are given to task 0.  The signals of s do not matter  *)
(* any more and are left out from here on.                                 *)
Orphan(s) == [t \in Slots |-> IF t \in Live /\ task[t].father = task[s].pid
                              THEN [task[t] EXCEPT !.father = 0] ELSE Forget(s)[t]]

(* do_exit, up to the closing of files, where it may sleep *)
do_exit(s) ==
  /\ pc[s] = "user"
  /\ task' = Orphan(s)
  /\ pc' = [pc EXCEPT ![s] = "close"]
  /\ UNCHANGED <<pid_arg, last_pid>>

(* s becomes a zombie and its father is told. *)
Zombie(s) ==
  [t \in Slots |-> IF t = s THEN [task[t] EXCEPT !.zombie = TRUE]
                   ELSE IF t \in Live /\ task[t].pid = task[s].father
                   THEN [task[t] EXCEPT !.signal = @ \cup {"SIGCHLD"}] ELSE task[t]]

(* do_exit after the files: without a father it releases itself.           *)
ExitEnd(s) ==
  /\ pc[s] = "close"
  /\ \/ task[s].father # 0 /\ task' = Zombie(s)
     \/ task[s].father = 0 /\ task' = [task EXCEPT ![s] = Nobody]
  /\ pc' = [pc EXCEPT ![s] = "gone"]
  /\ UNCHANGED <<pid_arg, last_pid>>

-----------------------------------------------------------------------------
(* sys_waitpid for one pid or for any child                                *)

Matching(s, pid) == {c \in Children(s) : pid = -1 \/ task[c].pid = pid}
Zombies(S) == {c \in S : task[c].zombie}

(* The scan releases its first zombie, from the end; without one it sleeps *)
(* if there is a child and it may.  sig is what remains of the signals.    *)
Scan(s, pid, hang, sig) ==
  LET mine == Matching(s, pid)
      woken == [task EXCEPT ![s].signal = sig]
      sleeps == Zombies(mine) = {} /\ mine # {} /\ hang
  IN /\ \/ Zombies(mine) # {} /\ task' = [woken EXCEPT ![Max(Zombies(mine))] = Nobody]
        \/ Zombies(mine) = {} /\ task' = woken
     /\ pc' = [pc EXCEPT ![s] = IF sleeps THEN "wait" ELSE "user"]
     /\ pid_arg' = [pid_arg EXCEPT ![s] = IF sleeps THEN pid ELSE -1]
     /\ UNCHANGED last_pid

sys_waitpid(s, pid, hang) ==
  pc[s] = "user" /\ Scan(s, pid, hang, task[s].signal)

(* Mutant: after SIGCHLD it sleeps again without looking. *)
PauseEndsDeaf(s) ==
  /\ pc[s] = "wait" /\ task[s].signal # {}
  /\ task' = [task EXCEPT ![s].signal = @ \ {"SIGCHLD"}]
  /\ pc' = [pc EXCEPT ![s] = IF task'[s].signal = {} THEN "wait" ELSE "user"]
  /\ UNCHANGED <<pid_arg, last_pid>>

(* schedule() makes it runnable when it has a signal: SIGCHLD alone makes  *)
(* it look again, any other ends the call.                                 *)
PauseEnds(s) ==
  /\ pc[s] = "wait" /\ task[s].signal # {}
  /\ LET sig == task[s].signal \ {"SIGCHLD"}
     IN \/ sig = {} /\ Scan(s, pid_arg[s], TRUE, sig)
        \/ /\ sig # {}
           /\ task' = [task EXCEPT ![s].signal = sig]
           /\ pc' = [pc EXCEPT ![s] = "user"]
           /\ pid_arg' = [pid_arg EXCEPT ![s] = -1]
           /\ UNCHANGED last_pid

(* send_sig, of kill, of an alarm or of a terminal *)
send_sig(t, x) ==
  /\ pc[t] \in {"user", "wait"}
  /\ task' = [task EXCEPT ![t].signal = @ \cup {x}]
  /\ UNCHANGED <<pc, pid_arg, last_pid>>

(* ret_from_sys_call: SIGCHLD and ignored signals are dropped, a handler   *)
(* is run, or the process exits, which is do_exit.                         *)
Deliver(s, x) ==
  /\ pc[s] = "user" /\ x \in task[s].signal
  /\ task' = [task EXCEPT ![s].signal = @ \ {x}]
  /\ UNCHANGED <<pc, pid_arg, last_pid>>

-----------------------------------------------------------------------------
Next ==
  \E s \in Slots :
    \/ Fork(s) \/ do_exit(s) \/ ExitEnd(s) \/ PauseEnds(s)
    \/ \E pid \in {task[c].pid : c \in Children(s)} \cup {-1}, hang \in BOOLEAN :
         sys_waitpid(s, pid, hang)   \* for any other pid it returns at once
    \/ \E x \in Sent : send_sig(s, x)
    \/ \E x \in Signals : Deliver(s, x)

Spec == Init /\ [][Next]_vars

(* A task that is runnable in the kernel goes on; closing files ends. *)
FairSpec == Spec /\ \A s \in Slots : WF_vars(ExitEnd(s)) /\ WF_vars(PauseEnds(s))

-----------------------------------------------------------------------------
(* find_empty_process: no two tasks have the same pid, zombies included,   *)
(* also when last_pid has wrapped around; no pid is beyond the last one    *)
(* (TypeOK).                                                               *)
PidsUnique ==
  TypeOK /\ \A s, t \in Live : s # t => task[s].pid # task[t].pid

(* do_exit: the father of a task, or of a zombie, is task 0 or a task that *)
(* can still wait for it, and never a stranger that has got its pid.       *)
FathersLive ==
  \A s \in Live : task[s].father # 0 =>
    \E t \in Live \ {s} : task[t].pid = task[s].father /\ pc[t] \in {"user", "wait"}

(* sys_waitpid and do_exit: a father asleep gets out of waitpid once a     *)
(* child it waits for exits, for any reason and at any moment.             *)
Exiting(S) == {c \in S : pc[c] \in {"close", "gone"}}
FatherReturns ==
  \A s \in Slots :
    (pc[s] = "wait" /\ Exiting(Matching(s, pid_arg[s])) # {}) ~> pc[s] # "wait"
=============================================================================
