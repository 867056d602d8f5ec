------------------------------ MODULE WaitQueue ------------------------------
(***************************************************************************)
(* The sleeping primitives of kernel/sched.c as operators on one record w: *)
(*                                                                         *)
(*   w.state[t]  task_struct.state of t                                    *)
(*   w.head[q]   the pointer `struct task_struct *` that is the queue      *)
(*   w.tmp[t]    the local `tmp` of t's pending sleep_on call              *)
(*                                                                         *)
(* A wait queue has no list: it is one pointer to the task that slept      *)
(* last, and the tasks behind it are remembered only by the `tmp` on the   *)
(* kernel stack of the task in front of them.  Every module in which a     *)
(* task sleeps is built from these operators.                              *)
(***************************************************************************)
EXTENDS Integers

CONSTANTS Tasks,    \* the tasks other than task 0, which never sleeps
          Queues,   \* the `struct task_struct *` variables slept upon
          NoTask    \* the null pointer

ASSUME NoTaskAssumption == NoTask \notin Tasks

MaybeTask == Tasks \cup {NoTask}
TaskStates == {"RUNNING", "INTERRUPTIBLE", "UNINTERRUPTIBLE"}

WaitState == [state : [Tasks -> TaskStates],
              head  : [Queues -> MaybeTask],
              tmp   : [Tasks -> MaybeTask]]

AllAwake == [state |-> [t \in Tasks |-> "RUNNING"],
             head  |-> [q \in Queues |-> NoTask],
             tmp   |-> [t \in Tasks |-> NoTask]]

(* `if (x) x->state=0`: makes the task a pointer refers to runnable. *)
Awaken(w, x) ==
  IF x = NoTask THEN w ELSE [w EXCEPT !.state[x] = "RUNNING"]

(* sleep_on and interruptible_sleep_on up to schedule(): t remembers the   *)
(* task in front of which it puts itself.                                  *)
SleepOn(w, t, q, how) ==
  [w EXCEPT !.tmp[t] = w.head[q], !.head[q] = t, !.state[t] = how]

(* Mutant: the task remembered is not woken. *)
WakeBehindNobody(w, t) == [w EXCEPT !.tmp[t] = NoTask]

(* sleep_on after schedule(): the call ends, and its tmp with it. *)
WakeBehind(w, t) == [Awaken(w, w.tmp[t]) EXCEPT !.tmp[t] = NoTask]

(* Mutant: *p is not reset. *)
WakeUpKeeps(w, q) == Awaken(w, w.head[q])

WakeUp(w, q) == [Awaken(w, w.head[q]) EXCEPT !.head[q] = NoTask]

Asleep(w, t) == w.state[t] # "RUNNING"
=============================================================================
