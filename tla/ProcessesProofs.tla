---------------------------- MODULE ProcessesProofs ----------------------------
(***************************************************************************)
(* For every number of tasks and every last pid: find_empty_process never  *)
(* gives a pid twice, a father can always wait for its children, and the   *)
(* exit of a child never gets lost for a father that waits for it.         *)
(***************************************************************************)
EXTENDS Processes, FiniteSetTheorems, WellFoundedInduction, TLAPS

(* Nobody is not a task, for no pid is 0. *)
LEMMA NobodyIsNone == Nobody \notin task_struct
BY DEF Nobody, task_struct, Pids

(* A set of naturals has a least element. *)
LEMMA LeastNat ==
  ASSUME NEW S \in SUBSET Nat, S # {}
  PROVE  \E m \in S : \A y \in S : m <= y
<1> DEFINE R == OpToRel(<, Nat)
<1>1. PICK m \in S : \A y \in S : ~(<<y, m>> \in R)
  <2> HIDE DEF R
  <2>1. QED
    BY WFMin, NatLessThanWellFounded DEF R
<1>2. \A y \in S : m <= y
  <2>1. TAKE y \in S
  <2>2. m \in Nat /\ y \in Nat
    OBVIOUS
  <2>3. ~(y < m)
    BY <1>1, <2>1, <2>2 DEF OpToRel
  <2>4. QED
    BY <2>2, <2>3
<1>3. QED
  BY <1>2

(* The minimum of a set of slots, where fork looks for one, is one of them. *)
LEMMA MinIsMember ==
  ASSUME NEW S \in SUBSET Slots, S # {}
  PROVE  Min(S) \in S
<1>1. S \in SUBSET Nat
  BY ProcessAssumption
<1>2. \E m \in S : \A y \in S : m <= y
  BY <1>1, LeastNat
<1>3. QED
  BY <1>2 DEF Min

(* So is the maximum, where waitpid looks from the end: a smallest set of  *)
(* slots without one would be empty, for without any of its members it has *)
(* a maximum.                                                              *)
LEMMA MaxIsMember ==
  ASSUME NEW S \in SUBSET Slots, S # {}
  PROVE  Max(S) \in S
<1> DEFINE Top(T) == \E m \in T : \A y \in T : m >= y
           Bad == {T \in SUBSET S : T # {} /\ ~ Top(T)}
           Sizes == {Cardinality(T) : T \in Bad}
<1>1. \A T \in SUBSET S : IsFiniteSet(T) /\ Cardinality(T) \in Nat /\ T \in SUBSET Nat
  BY ProcessAssumption, FS_Subset, FS_CardinalityType
<1>2. Bad = {}
  <2>1. SUFFICES ASSUME Bad # {} PROVE FALSE
    OBVIOUS
  <2>2. PICK k \in Sizes : \A j \in Sizes : k <= j
    <3>1. Sizes \in SUBSET Nat /\ Sizes # {}
      BY <1>1, <2>1
    <3> HIDE DEF Sizes
    <3>2. QED
      BY <3>1, LeastNat
  <2>3. PICK T \in Bad : k = Cardinality(T)
    BY <2>2
  <2>4. PICK x \in T : TRUE
    BY <2>3
  <2>5. Cardinality(T \ {x}) = Cardinality(T) - 1 /\ Cardinality(T) \in Nat
    BY <1>1, <2>3, <2>4, FS_RemoveElement
  <2>6. T \ {x} \notin Bad
    <3>1. SUFFICES ASSUME T \ {x} \in Bad PROVE FALSE
      OBVIOUS
    <3>2. Cardinality(T \ {x}) \in Sizes
      BY <3>1
    <3>3. k <= Cardinality(T \ {x})
      BY <2>2, <3>2
    <3>4. QED
      BY <2>3, <2>5, <3>3
  <2>7. T \in SUBSET Nat
    BY <1>1, <2>3
  <2>8. T \ {x} \in SUBSET S
    BY <2>3
  <2>9. CASE T \ {x} = {}
    <3>1. T = {x} /\ x \in Nat
      BY <2>4, <2>7, <2>9
    <3>2. Top(T)
      BY <3>1
    <3>3. QED
      BY <2>3, <3>2
  <2>10. CASE T \ {x} # {}
    <3>1. PICK m \in T \ {x} : \A y \in T \ {x} : m >= y
      BY <2>6, <2>8, <2>10
    <3>2. m \in Nat /\ x \in Nat /\ \A y \in T : y \in Nat
      BY <2>4, <2>7
    <3>3. \E z \in T : \A y \in T : z >= y
      <4>1. CASE m >= x
        BY <3>1, <4>1
      <4>2. CASE ~ (m >= x)
        <5>1. \A y \in T : x >= y
          BY <3>1, <3>2, <4>2
        <5>2. QED
          BY <2>4, <5>1
      <4>3. QED
        BY <4>1, <4>2
    <3>4. QED
      BY <2>3, <3>3
  <2>11. QED
    BY <2>9, <2>10
<1>3. Top(S)
  BY <1>2
<1>4. QED
  BY <1>3 DEF Max

(* find_empty_process: there is a pid that no task has, and the next one   *)
(* is taken.                                                               *)
LEMMA FollowingIsFree ==
  ASSUME TypeOK, NEW n \in Pids
  PROVE  Following(n) \in Pids \ UsedPids
<1> DEFINE F == Pids \ UsedPids
           D == {Steps(n, p) : p \in F}
<1>1. F # {}
  <2>1. SUFFICES ASSUME F = {} PROVE FALSE
    OBVIOUS
  <2>2. IsFiniteSet(Live) /\ Cardinality(Live) <= Cardinality(Slots)
    BY ProcessAssumption, FS_Subset DEF Live
  <2>3. IsFiniteSet(UsedPids) /\ Cardinality(UsedPids) <= Cardinality(Live)
    <3> DEFINE pid == [t \in Live |-> task[t].pid]
    <3>1. pid \in Surjection(Live, UsedPids)
      BY DEF UsedPids, Surjection
    <3> HIDE DEF pid
    <3>2. QED
      BY <2>2, <3>1, FS_Surjection
  <2>4. IsFiniteSet(Pids) /\ Cardinality(Pids) = MaxPid
    <3>1. 1 \in Int /\ MaxPid \in Int /\ ~ (1 > MaxPid)
      BY ProcessAssumption, FS_CardinalityType
    <3>2. QED
      BY <3>1, FS_Interval DEF Pids
  <2>5. Pids \subseteq UsedPids
    BY <2>1
  <2>6. Cardinality(Pids) <= Cardinality(UsedPids)
    BY <2>3, <2>5, FS_Subset
  <2>7. /\ Cardinality(UsedPids) \in Nat /\ Cardinality(Live) \in Nat
        /\ Cardinality(Slots) \in Nat
    BY <2>2, <2>3, ProcessAssumption, FS_CardinalityType
  <2>8. QED
    BY <2>2, <2>3, <2>4, <2>6, <2>7, ProcessAssumption
<1>2. D \in SUBSET Nat
  BY ProcessAssumption DEF Steps, Pids
<1>3. PICK k \in D : \A j \in D : k <= j
  <2>1. D # {}
    BY <1>1
  <2> HIDE DEF D
  <2>2. QED
    BY <1>2, <2>1, LeastNat
<1>4. PICK p \in F : k = Steps(n, p)
  BY <1>3
<1>5. \A q \in F : Steps(n, p) <= Steps(n, q)
  BY <1>3, <1>4
<1>6. QED
  BY <1>4, <1>5 DEF Following
-----------------------------------------------------------------------------
(* A father asleep in waitpid has been told of every zombie it waits for:  *)
(* the state that FatherReturns, which the runs check, rests on.           *)
WaitersTold ==
  \A s \in Slots : pc[s] = "wait" /\ Zombies(Matching(s, pid_arg[s])) # {}
    => "SIGCHLD" \in task[s].signal

ProcInv == PidsUnique /\ FathersLive /\ WaitersTold

(* What the types say of one slot. *)
SlotOK(s) ==
  /\ task[s] \in task_struct \cup {Nobody}
  /\ s \in Live <=> task[s] \in task_struct
  /\ s \in Live => task[s].pid \in Pids /\ task[s].father \in Pids \cup {0}
  /\ pc[s] # "gone" => s \in Live /\ ~ task[s].zombie
  /\ s \in Live => (pc[s] = "gone" <=> task[s].zombie)

(* TypeOK has all of that.                                                 *)
LEMMA SlotFacts == ASSUME TypeOK, NEW s \in Slots PROVE SlotOK(s)
<1>1. task[s] \in task_struct \cup {Nobody}
  BY DEF TypeOK
<1>2. pc[s] = "gone" <=> task[s].zombie \/ task[s] = Nobody
  BY DEF TypeOK
<1>3. s \in Live <=> task[s] # Nobody
  BY DEF Live
<1>4. task[s] \in task_struct => /\ task[s].pid \in Pids
                                /\ task[s].father \in Pids \cup {0}
  BY DEF task_struct
<1>5. QED
  BY <1>1, <1>2, <1>3, <1>4, NobodyIsNone DEF SlotOK

(* A child that waitpid finds. *)
Found(s, p, c) == /\ c \in Live \ {s} /\ task[c].father = task[s].pid
                  /\ p = -1 \/ task[c].pid = p
                  /\ task[c].zombie

(* The children waitpid collects are those.                                *)
LEMMA FoundZombies ==
  ASSUME NEW s, NEW p, NEW c
  PROVE  c \in Zombies(Matching(s, p)) <=> Found(s, p, c)
BY DEF Zombies, Matching, Children, Found

(* Nobody is born: who can wait for a child still can, or the child gets   *)
(* another father.                                                         *)
NoneBorn ==
  /\ Live' \subseteq Live
  /\ \A t \in Live' : /\ task'[t].pid = task[t].pid
                      /\ task'[t].father \in {task[t].father, 0}
  /\ \A t \in Live : pc[t] \in {"user", "wait"} =>
       \/ t \in Live' /\ pc'[t] \in {"user", "wait"}
       \/ \A c \in Live' : task'[c].father # task[t].pid

(* As long as nobody is born, pids stay unique and fathers alive.          *)
LEMMA FamilyKept ==
  ASSUME ProcInv, TypeOK', NoneBorn
  PROVE  PidsUnique' /\ FathersLive'
<1>1. PidsUnique'
  <2>1. \A s, t \in Live' : s # t => task'[s].pid # task'[t].pid
    BY DEF ProcInv, PidsUnique, NoneBorn
  <2>2. QED
    BY <2>1 DEF PidsUnique
<1>2. FathersLive'
  <2>1. SUFFICES ASSUME NEW s \in Live', task'[s].father # 0
                 PROVE  \E t \in Live' \ {s} : /\ task'[t].pid = task'[s].father
                                               /\ pc'[t] \in {"user", "wait"}
    BY DEF FathersLive
  <2>2. s \in Live /\ task'[s].father = task[s].father
    BY <2>1 DEF NoneBorn
  <2>3. PICK t \in Live \ {s} : task[t].pid = task[s].father /\ pc[t] \in {"user", "wait"}
    BY <2>1, <2>2 DEF ProcInv, FathersLive
  <2>4. t \in Live' /\ pc'[t] \in {"user", "wait"}
    BY <2>1, <2>2, <2>3 DEF NoneBorn
  <2>5. task'[t].pid = task[t].pid
    BY <2>4 DEF NoneBorn
  <2>6. QED
    BY <2>2, <2>3, <2>4, <2>5
<1>3. QED
  BY <1>1, <1>2

(* Nothing new for s to find: it sleeps as before, and its signal stays.   *)
StillTold(s) ==
  pc'[s] = "wait" =>
    /\ pc[s] = "wait" /\ pid_arg'[s] = pid_arg[s]
    /\ "SIGCHLD" \in task[s].signal => "SIGCHLD" \in task'[s].signal
    /\ \A c \in Slots : Found(s, pid_arg[s], c)' => Found(s, pid_arg[s], c)

(* If that goes for every slot, no sleeper misses a child.                 *)
LEMMA ToldKept ==
  ASSUME WaitersTold, \A s \in Slots : StillTold(s)
  PROVE  WaitersTold'
<1>1. SUFFICES ASSUME NEW s \in Slots, pc'[s] = "wait",
                      Zombies(Matching(s, pid_arg[s]))' # {}
               PROVE  "SIGCHLD" \in task'[s].signal
  BY DEF WaitersTold
<1>2. PICK c : c \in Zombies(Matching(s, pid_arg[s]))'
  BY <1>1
<1>3. Found(s, pid_arg[s], c)'
  BY <1>2 DEF Zombies, Matching, Children, Found
<1>4. c \in Slots
  BY <1>3 DEF Found, Live
<1>5. pc[s] = "wait" /\ Found(s, pid_arg[s], c)
  BY <1>1, <1>3, <1>4 DEF StillTold
<1>6. Zombies(Matching(s, pid_arg[s])) # {}
  BY <1>5, FoundZombies
<1>7. "SIGCHLD" \in task[s].signal
  BY <1>5, <1>6 DEF WaitersTold
<1>8. QED
  BY <1>1, <1>7 DEF StillTold
-----------------------------------------------------------------------------
(* A change of pc and of the arguments of one task leaves the types.       *)
LEMMA TypeKept ==
  ASSUME TypeOK, task' \in [Slots -> task_struct \cup {Nobody}],
         NEW s \in Slots, NEW p \in Places, pc' = [pc EXCEPT ![s] = p],
         pid_arg' \in [Slots -> Pids \cup {-1}], last_pid' \in Pids,
         p = "gone" <=> task'[s].zombie \/ task'[s] = Nobody,
         \A t \in Slots \ {s} : /\ task'[t].zombie = task[t].zombie
                                /\ task'[t] = Nobody <=> task[t] = Nobody
  PROVE  TypeOK'
<1>1. pc' \in [Slots -> Places] /\ pc'[s] = p
  BY DEF TypeOK
<1>2. \A t \in Slots \ {s} : pc'[t] = pc[t]
  BY DEF TypeOK
<1>3. \A t \in Slots : pc'[t] = "gone" <=> task'[t].zombie \/ task'[t] = Nobody
  BY <1>1, <1>2 DEF TypeOK
<1>4. QED
  BY <1>1, <1>3 DEF TypeOK

(* A step that changes the signals of one task s, and its place, between   *)
(* user mode and sleep.                                                    *)
LEMMA SignalStep ==
  ASSUME ProcInv, NEW s \in Slots, pc[s] \in {"user", "wait"},
         NEW sig \in SUBSET Signals, NEW p \in {"user", "wait"},
         task' = [task EXCEPT ![s].signal = sig], pc' = [pc EXCEPT ![s] = p],
         pid_arg' \in [Slots -> Pids \cup {-1}], last_pid' = last_pid,
         \A t \in Slots \ {s} : pid_arg'[t] = pid_arg[t],
         \/ p = "user"
         \/ /\ pc[s] = "wait" /\ pid_arg'[s] = pid_arg[s]
            /\ "SIGCHLD" \in task[s].signal => "SIGCHLD" \in sig
         \/ \A c \in Slots : ~ Found(s, pid_arg'[s], c)
  PROVE  ProcInv'
<1>1. TypeOK
  BY DEF ProcInv, PidsUnique
<1>2. SlotOK(s)
  BY <1>1, SlotFacts
<1>3. s \in Live /\ task[s] \in task_struct /\ ~ task[s].zombie
  BY <1>2 DEF SlotOK
<1>4. task'[s] = [task[s] EXCEPT !.signal = sig] /\ task'[s] \in task_struct
  BY <1>1, <1>3 DEF TypeOK, task_struct
<1>5. \A t \in Slots \ {s} : task'[t] = task[t]
  BY <1>1 DEF TypeOK
<1>6. task' \in [Slots -> task_struct \cup {Nobody}]
  BY <1>1, <1>4, <1>5 DEF TypeOK
<1>7. /\ task'[s].pid = task[s].pid /\ task'[s].father = task[s].father
      /\ task'[s].zombie = task[s].zombie /\ task'[s].signal = sig
  BY <1>3, <1>4 DEF task_struct
<1>8. task'[s] # Nobody
  BY <1>4, NobodyIsNone
<1>9. TypeOK'
  <2>1. p \in Places /\ p # "gone" /\ last_pid' \in Pids
    BY <1>1 DEF Places, TypeOK
  <2>2. QED
    BY <1>1, <1>3, <1>5, <1>6, <1>7, <1>8, <2>1, TypeKept
<1>10. Live' = Live
  BY <1>3, <1>5, <1>8 DEF Live
<1>11. \A t \in Slots : /\ task'[t].pid = task[t].pid
                        /\ task'[t].father = task[t].father
                        /\ task'[t].zombie = task[t].zombie
  BY <1>5, <1>7
<1>12. pc'[s] = p /\ \A t \in Slots \ {s} : pc'[t] = pc[t]
  BY <1>1 DEF TypeOK
<1>13. NoneBorn
  <2>1. \A t \in Live : t \in Slots
    BY DEF Live
  <2>2. QED
    BY <1>10, <1>11, <1>12, <2>1 DEF NoneBorn
<1>14. \A t, c \in Slots, q \in Pids \cup {-1} : Found(t, q, c)' <=> Found(t, q, c)
  BY <1>10, <1>11 DEF Found
<1>15. WaitersTold'
  <2>1. CASE p = "wait" /\ \A c \in Slots : ~ Found(s, pid_arg'[s], c)
    <3>1. SUFFICES ASSUME NEW t \in Slots, pc'[t] = "wait",
                          Zombies(Matching(t, pid_arg[t]))' # {}
                   PROVE  "SIGCHLD" \in task'[t].signal
      BY DEF WaitersTold
    <3>2. PICK c : c \in Zombies(Matching(t, pid_arg[t]))'
      BY <3>1
    <3>3. Found(t, pid_arg[t], c)'
      BY <3>2 DEF Zombies, Matching, Children, Found
    <3>4. c \in Slots /\ pid_arg'[t] \in Pids \cup {-1}
      BY <3>3 DEF Found, Live
    <3>5. Found(t, pid_arg'[t], c)
      BY <1>10, <1>11, <3>3, <3>4 DEF Found
    <3>6. t # s
      BY <2>1, <3>4, <3>5
    <3>7. pc[t] = "wait" /\ pid_arg'[t] = pid_arg[t]
      BY <1>12, <3>1, <3>6
    <3>8. Zombies(Matching(t, pid_arg[t])) # {}
      BY <3>5, <3>7, FoundZombies
    <3>9. QED
      BY <1>5, <3>6, <3>7, <3>8 DEF ProcInv, WaitersTold
  <2>2. CASE \/ p = "user"
             \/ /\ pc[s] = "wait" /\ pid_arg'[s] = pid_arg[s]
                /\ "SIGCHLD" \in task[s].signal => "SIGCHLD" \in sig
    <3>1. \A t \in Slots : StillTold(t)
      <4>1. TAKE t \in Slots
      <4>2. CASE pc'[t] # "wait"
        BY <4>2 DEF StillTold
      <4>3. CASE pc'[t] = "wait"
        <5>1. pc[t] = "wait" /\ pid_arg'[t] = pid_arg[t]
          BY <1>12, <2>2, <4>3
        <5>2. "SIGCHLD" \in task[t].signal => "SIGCHLD" \in task'[t].signal
          BY <1>5, <1>7, <1>12, <2>2, <4>3
        <5>3. \A c \in Slots : Found(t, pid_arg[t], c)' => Found(t, pid_arg[t], c)
          BY <1>10, <1>11, <5>1 DEF Found
        <5>4. QED
          BY <5>1, <5>2, <5>3 DEF StillTold
      <4>4. QED
        BY <4>2, <4>3
    <3>2. QED
      BY <3>1, ToldKept DEF ProcInv
  <2>3. QED
    BY <2>1, <2>2
<1>16. QED
  BY <1>9, <1>13, <1>15, FamilyKept DEF ProcInv
-----------------------------------------------------------------------------
(* A task that is gone is released: by waitpid, whose caller returns.      *)
LEMMA ReleaseStep ==
  ASSUME ProcInv, NEW s \in Slots, pc[s] \in {"user", "wait"},
         NEW sig \in SUBSET Signals, NEW c \in Live \ {s}, task[c].zombie,
         task' = [[task EXCEPT ![s].signal = sig] EXCEPT ![c] = Nobody],
         pc' = [pc EXCEPT ![s] = "user"],
         pid_arg' = [pid_arg EXCEPT ![s] = -1], last_pid' = last_pid
  PROVE  ProcInv'
<1>1. TypeOK /\ c \in Slots
  BY DEF ProcInv, PidsUnique, Live
<1>2. SlotOK(s) /\ SlotOK(c)
  BY <1>1, SlotFacts
<1>3. /\ s \in Live /\ task[s] \in task_struct /\ ~ task[s].zombie
      /\ pc[c] = "gone"
  BY <1>2 DEF SlotOK
<1>4. task'[s] = [task[s] EXCEPT !.signal = sig] /\ task'[s] \in task_struct
  BY <1>1, <1>3 DEF TypeOK, task_struct
<1>5. task'[c] = Nobody /\ \A t \in Slots \ {s, c} : task'[t] = task[t]
  BY <1>1 DEF TypeOK
<1>6. task' \in [Slots -> task_struct \cup {Nobody}]
  BY <1>1, <1>4, <1>5 DEF TypeOK
<1>7. /\ task'[s].pid = task[s].pid /\ task'[s].father = task[s].father
      /\ task'[s].zombie = task[s].zombie /\ task'[s].signal = sig
  BY <1>3, <1>4 DEF task_struct
<1>8. task'[s] # Nobody
  BY <1>4, NobodyIsNone
<1>9. pc'[s] = "user" /\ \A t \in Slots \ {s} : pc'[t] = pc[t]
  BY <1>1 DEF TypeOK
<1>10. TypeOK'
  <2>1. pc' \in [Slots -> Places] /\ last_pid' \in Pids
        /\ pid_arg' \in [Slots -> Pids \cup {-1}]
    BY <1>1 DEF TypeOK, Places
  <2>2. \A t \in Slots : pc'[t] = "gone" <=> task'[t].zombie \/ task'[t] = Nobody
    <3>1. TAKE t \in Slots
    <3>2. CASE t = s
      BY <1>3, <1>7, <1>8, <1>9, <3>2
    <3>3. CASE t = c
      BY <1>3, <1>5, <1>9, <3>3
    <3>4. CASE t \notin {s, c}
      BY <1>1, <1>5, <1>9, <3>4 DEF TypeOK
    <3>5. QED
      BY <3>2, <3>3, <3>4
  <2>3. QED
    BY <1>6, <2>1, <2>2 DEF TypeOK
<1>11. Live' = Live \ {c}
  BY <1>3, <1>5, <1>8 DEF Live
<1>12. \A t \in Slots \ {c} : /\ task'[t].pid = task[t].pid
                              /\ task'[t].father = task[t].father
                              /\ task'[t].zombie = task[t].zombie
  BY <1>5, <1>7
<1>13. NoneBorn
  <2>1. \A t \in Live : t \in Slots
    BY DEF Live
  <2>2. QED
    BY <1>3, <1>9, <1>11, <1>12, <2>1 DEF NoneBorn
<1>14. \A t \in Slots : StillTold(t)
  <2>1. TAKE t \in Slots
  <2>2. CASE pc'[t] # "wait"
    BY <2>2 DEF StillTold
  <2>3. CASE pc'[t] = "wait"
    <3>1. t # s /\ pc[t] = "wait" /\ t # c
      BY <1>3, <1>9, <2>3
    <3>2. pid_arg'[t] = pid_arg[t] /\ task'[t] = task[t]
      BY <1>1, <1>5, <3>1 DEF TypeOK
    <3>3. \A x \in Slots : Found(t, pid_arg[t], x)' => Found(t, pid_arg[t], x)
      BY <1>11, <1>12, <3>2 DEF Found
    <3>4. QED
      BY <3>1, <3>2, <3>3 DEF StillTold
  <2>4. QED
    BY <2>2, <2>3
<1>15. QED
  BY <1>10, <1>13, <1>14, FamilyKept, ToldKept DEF ProcInv

(* sys_waitpid: with a zombie one is released, without it the caller       *)
(* sleeps or returns.                                                      *)
LEMMA ScanStep ==
  ASSUME ProcInv, NEW s \in Slots, pc[s] \in {"user", "wait"},
         NEW pid \in Pids \cup {-1}, NEW hang \in BOOLEAN,
         NEW sig \in SUBSET Signals, Scan(s, pid, hang, sig)
  PROVE  ProcInv'
<1> DEFINE Z == Zombies(Matching(s, pid))
<1>1. TypeOK
  BY DEF ProcInv, PidsUnique
<1>2. \A c \in Z : c \in Live \ {s} /\ task[c].zombie
  BY FoundZombies DEF Found
<1>3. CASE Z # {}
  <2>1. Z \in SUBSET Slots
    BY <1>2 DEF Live
  <2>2. Max(Z) \in Z
    BY <1>3, <2>1, MaxIsMember
  <2> HIDE DEF Z
  <2>3. PICK c \in Live \ {s} : c = Max(Z) /\ task[c].zombie
    BY <1>2, <2>2
  <2>4. /\ task' = [[task EXCEPT ![s].signal = sig] EXCEPT ![c] = Nobody]
        /\ pc' = [pc EXCEPT ![s] = "user"]
        /\ pid_arg' = [pid_arg EXCEPT ![s] = -1]
        /\ last_pid' = last_pid
    BY <1>3, <2>3 DEF Scan, Z
  <2>5. QED
    BY <2>3, <2>4, ReleaseStep
<1>4. CASE Z = {}
  <2> DEFINE sleeps == Matching(s, pid) # {} /\ hang
             p == IF sleeps THEN "wait" ELSE "user"
  <2>1. /\ task' = [task EXCEPT ![s].signal = sig]
        /\ pc' = [pc EXCEPT ![s] = p]
        /\ pid_arg' = [pid_arg EXCEPT ![s] = IF sleeps THEN pid ELSE -1]
        /\ last_pid' = last_pid
    BY <1>4 DEF Scan
  <2>2. \A c \in Slots : ~ Found(s, pid, c)
    BY <1>4, FoundZombies
  <2>3. /\ pid_arg' \in [Slots -> Pids \cup {-1}]
        /\ \A t \in Slots \ {s} : pid_arg'[t] = pid_arg[t]
        /\ pid_arg'[s] = IF sleeps THEN pid ELSE -1
    <3> HIDE DEF sleeps
    <3>1. QED
      BY <1>1, <2>1 DEF TypeOK
  <2>4. p \in {"user", "wait"} /\ (p = "user" \/ pid_arg'[s] = pid)
    BY <2>3
  <2> HIDE DEF p, sleeps
  <2>5. p = "user" \/ \A c \in Slots : ~ Found(s, pid_arg'[s], c)
    BY <2>2, <2>4
  <2>6. QED
    BY <2>1, <2>3, <2>4, <2>5, SignalStep
<1>5. QED
  BY <1>3, <1>4
-----------------------------------------------------------------------------
(* do_exit gives the children away before it can sleep.                    *)
LEMMA ExitStep == ASSUME ProcInv, NEW s \in Slots, do_exit(s) PROVE ProcInv'
<1>1. /\ TypeOK /\ pc[s] = "user" /\ task' = Orphan(s)
      /\ pc' = [pc EXCEPT ![s] = "close"]
      /\ pid_arg' = pid_arg /\ last_pid' = last_pid
  BY DEF ProcInv, PidsUnique, do_exit
<1>2. SlotOK(s)
  BY <1>1, SlotFacts
<1>3. s \in Live /\ task[s] \in task_struct /\ task[s].pid \in Pids
  BY <1>1, <1>2 DEF SlotOK
<1>4. \A t \in Slots :
        /\ Forget(s)[t] = IF t = s THEN [task[t] EXCEPT !.signal = {}] ELSE task[t]
  BY <1>1 DEF Forget, TypeOK
<1>5. \A t \in Slots :
        /\ task[t] = Nobody => task'[t] = Nobody
        /\ task[t] \in task_struct =>
             /\ task'[t] \in task_struct /\ task'[t].pid = task[t].pid
             /\ task'[t].zombie = task[t].zombie
             /\ t # s => task'[t].signal = task[t].signal
             /\ task'[t].father = IF task[t].father = task[s].pid THEN 0
                                  ELSE task[t].father
  <2>1. TAKE t \in Slots
  <2>2. CASE task[t] = Nobody
    <3>1. t \notin Live /\ t # s
      BY <1>3, <2>2 DEF Live
    <3>2. task'[t] = task[t]
      BY <1>1, <1>4, <3>1 DEF Orphan
    <3>3. QED
      BY <2>2, <3>2, NobodyIsNone
  <2>3. CASE task[t] \in task_struct
    <3>1. t \in Live
      BY <2>3, NobodyIsNone DEF Live
    <3>2. CASE task[t].father = task[s].pid
      <4>1. task'[t] = [task[t] EXCEPT !.father = 0]
        BY <1>1, <3>1, <3>2 DEF Orphan
      <4>2. QED
        BY <2>3, <3>2, <4>1, NobodyIsNone DEF task_struct
    <3>3. CASE task[t].father # task[s].pid
      <4>1. task'[t] = IF t = s THEN [task[t] EXCEPT !.signal = {}] ELSE task[t]
        BY <1>1, <1>4, <3>3 DEF Orphan
      <4>2. QED
        BY <2>3, <3>3, <4>1, NobodyIsNone DEF task_struct
    <3>4. QED
      BY <3>2, <3>3
  <2>4. QED
    BY <1>1, <2>2, <2>3 DEF TypeOK
<1>6. Live' = Live
  BY <1>1, <1>5, NobodyIsNone DEF Live, TypeOK
<1>7. \A t \in Live : /\ t \in Slots /\ task[t] \in task_struct /\ task[t].pid \in Pids
  BY <1>1, SlotFacts DEF SlotOK, Live
<1>8. pc'[s] = "close" /\ \A t \in Slots \ {s} : pc'[t] = pc[t]
  BY <1>1 DEF TypeOK
<1>9. TypeOK'
  <2>1. task' \in [Slots -> task_struct \cup {Nobody}]
    <3>1. \A t \in Slots : task'[t] \in task_struct \cup {Nobody}
      BY <1>1, <1>5 DEF TypeOK
    <3>2. QED
      BY <1>1, <3>1 DEF Orphan
  <2>2. \A t \in Slots : /\ task'[t].zombie = task[t].zombie
                         /\ task'[t] = Nobody <=> task[t] = Nobody
    BY <1>1, <1>5, NobodyIsNone DEF TypeOK
  <2>3. "close" \in Places /\ ~ task[s].zombie /\ task[s] # Nobody
    BY <1>1, <1>2, <1>3 DEF Places, SlotOK, Live
  <2>4. pid_arg' \in [Slots -> Pids \cup {-1}] /\ last_pid' \in Pids
    BY <1>1 DEF TypeOK
  <2>5. QED
    BY <1>1, <2>1, <2>2, <2>3, <2>4, TypeKept
<1>10. NoneBorn
  <2>1. \A t \in Live' : /\ task'[t].pid = task[t].pid
                         /\ task'[t].father \in {task[t].father, 0}
    BY <1>5, <1>6, <1>7
  <2>2. \A c \in Live' : task'[c].father # task[s].pid
    <3>1. 0 \notin Pids
      BY DEF Pids
    <3>2. QED
      BY <1>3, <1>5, <1>6, <1>7, <3>1
  <2>3. QED
    BY <1>6, <1>7, <1>8, <2>1, <2>2 DEF NoneBorn
<1>11. \A t \in Slots : StillTold(t)
  <2>1. TAKE t \in Slots
  <2>2. CASE pc'[t] # "wait"
    BY <2>2 DEF StillTold
  <2>3. CASE pc'[t] = "wait"
    <3>1. t # s /\ pc[t] = "wait"
      BY <1>8, <2>3
    <3>2. SlotOK(t)
      BY <1>1, SlotFacts
    <3>3. t \in Live
      BY <3>1, <3>2 DEF SlotOK
    <3>4. task'[t].signal = task[t].signal /\ task'[t].pid = task[t].pid
      BY <1>5, <1>7, <3>1, <3>3
    <3>5. \A c \in Slots : Found(t, pid_arg[t], c)' => Found(t, pid_arg[t], c)
      <4>1. ASSUME NEW c \in Slots, Found(t, pid_arg[t], c)'
            PROVE  Found(t, pid_arg[t], c)
        <5>1. c \in Live \ {t}
          BY <1>6, <4>1 DEF Found
        <5>2. /\ task'[c].pid = task[c].pid /\ task'[c].zombie = task[c].zombie
              /\ task'[c].father = task[t].pid
          BY <1>5, <1>7, <3>4, <4>1, <5>1 DEF Found
        <5>3. task[t].pid # 0
          BY <1>7, <3>3 DEF Pids
        <5>4. task[c].father = task[t].pid
          BY <1>5, <1>7, <4>1, <5>1, <5>2, <5>3
        <5>5. QED
          BY <1>1, <4>1, <5>1, <5>2, <5>4 DEF Found
      <4>2. QED
        BY <4>1
    <3>6. QED
      BY <1>1, <3>1, <3>4, <3>5 DEF StillTold
  <2>4. QED
    BY <2>2, <2>3
<1>12. QED
  BY <1>9, <1>10, <1>11, FamilyKept, ToldKept DEF ProcInv

(* The end of do_exit, when the father is told ...                         *)
LEMMA ZombieStep ==
  ASSUME ProcInv, NEW s \in Slots, pc[s] = "close", task' = Zombie(s),
         pc' = [pc EXCEPT ![s] = "gone"], UNCHANGED <<pid_arg, last_pid>>
  PROVE  ProcInv'
<1>1. TypeOK
  BY DEF ProcInv, PidsUnique
<1>2. SlotOK(s)
  BY <1>1, SlotFacts
<1>3. s \in Live /\ task[s] \in task_struct
  BY <1>2 DEF SlotOK
<1>4. \A t \in Slots :
        /\ task[t] = Nobody => task'[t] = Nobody
        /\ task[t] \in task_struct =>
             /\ task'[t] \in task_struct /\ task'[t].pid = task[t].pid
             /\ task'[t].father = task[t].father
             /\ task'[t].zombie = IF t = s THEN TRUE ELSE task[t].zombie
             /\ task[t].signal \subseteq task'[t].signal
             /\ t # s /\ task[t].pid = task[s].father => "SIGCHLD" \in task'[t].signal
  <2>1. TAKE t \in Slots
  <2>2. CASE task[t] = Nobody
    <3>1. t \notin Live /\ t # s
      BY <1>3, <2>2 DEF Live
    <3>2. task'[t] = task[t]
      BY <3>1 DEF Zombie
    <3>3. QED
      BY <2>2, <3>2, NobodyIsNone
  <2>3. CASE task[t] \in task_struct
    <3>1. t \in Live
      BY <2>3, NobodyIsNone DEF Live
    <3>2. CASE t = s
      <4>1. task'[t] = [task[t] EXCEPT !.zombie = TRUE]
        BY <3>2 DEF Zombie
      <4>2. QED
        BY <2>3, <3>2, <4>1, NobodyIsNone DEF task_struct
    <3>3. CASE t # s /\ task[t].pid = task[s].father
      <4>1. task'[t] = [task[t] EXCEPT !.signal = @ \cup {"SIGCHLD"}]
        BY <3>1, <3>3 DEF Zombie
      <4>2. QED
        BY <2>3, <3>3, <4>1, NobodyIsNone DEF task_struct, Signals
    <3>4. CASE t # s /\ task[t].pid # task[s].father
      <4>1. task'[t] = task[t]
        BY <3>4 DEF Zombie
      <4>2. QED
        BY <2>3, <3>4, <4>1, NobodyIsNone
    <3>5. QED
      BY <3>2, <3>3, <3>4
  <2>4. QED
    BY <1>1, <2>2, <2>3 DEF TypeOK
<1>5. Live' = Live
  BY <1>1, <1>4, NobodyIsNone DEF Live, TypeOK
<1>6. \A t \in Live : t \in Slots /\ task[t] \in task_struct
  BY <1>1, SlotFacts DEF SlotOK, Live
<1>7. pc'[s] = "gone" /\ \A t \in Slots \ {s} : pc'[t] = pc[t]
  BY <1>1 DEF TypeOK
<1>8. TypeOK'
  <2>1. task' \in [Slots -> task_struct \cup {Nobody}]
    <3>1. \A t \in Slots : task'[t] \in task_struct \cup {Nobody}
      BY <1>1, <1>4 DEF TypeOK
    <3>2. QED
      BY <3>1 DEF Zombie
  <2>2. \A t \in Slots \ {s} : /\ task'[t].zombie = task[t].zombie
                               /\ task'[t] = Nobody <=> task[t] = Nobody
    BY <1>1, <1>4, NobodyIsNone DEF TypeOK
  <2>3. "gone" \in Places /\ task'[s].zombie
    BY <1>3, <1>4 DEF Places
  <2>4. pid_arg' \in [Slots -> Pids \cup {-1}] /\ last_pid' \in Pids
    BY <1>1 DEF TypeOK
  <2>5. QED
    BY <1>1, <2>1, <2>2, <2>3, <2>4, TypeKept
<1>9. NoneBorn
  BY <1>4, <1>5, <1>6, <1>7 DEF NoneBorn
<1>10. WaitersTold'
  <2>1. SUFFICES ASSUME NEW t \in Slots, pc'[t] = "wait",
                        Zombies(Matching(t, pid_arg[t]))' # {}
                 PROVE  "SIGCHLD" \in task'[t].signal
    BY DEF WaitersTold
  <2>2. t # s /\ pc[t] = "wait" /\ pid_arg'[t] = pid_arg[t]
    BY <1>7, <2>1
  <2>3. SlotOK(t)
    BY <1>1, SlotFacts
  <2>4. t \in Live /\ task[t] \in task_struct
    BY <2>2, <2>3 DEF SlotOK
  <2>5. PICK c : c \in Zombies(Matching(t, pid_arg[t]))'
    BY <2>1
  <2>6. Found(t, pid_arg[t], c)'
    BY <2>5 DEF Zombies, Matching, Children, Found
  <2>7. c \in Live \ {t} /\ c \in Slots /\ task[c] \in task_struct
    BY <1>5, <1>6, <2>6 DEF Found
  <2>8. CASE c = s
    <3>1. task[s].father = task[t].pid
      BY <1>4, <2>4, <2>6, <2>7, <2>8 DEF Found
    <3>2. QED
      BY <1>4, <2>2, <2>4, <3>1
  <2>9. CASE c # s
    <3>1. /\ task'[c].pid = task[c].pid /\ task'[c].zombie = task[c].zombie
          /\ task'[c].father = task[c].father /\ task'[t].pid = task[t].pid
      BY <1>4, <2>4, <2>7, <2>9
    <3>2. Found(t, pid_arg[t], c)
      BY <2>2, <2>6, <2>7, <3>1 DEF Found
    <3>3. "SIGCHLD" \in task[t].signal
      BY <2>2, <3>2, FoundZombies DEF ProcInv, WaitersTold
    <3>4. QED
      BY <1>4, <2>4, <3>3
  <2>10. QED
    BY <2>8, <2>9
<1>11. QED
  BY <1>8, <1>9, <1>10, FamilyKept DEF ProcInv

(* ... or, without a father, the task releases itself.                     *)
LEMMA AloneStep ==
  ASSUME ProcInv, NEW s \in Slots, pc[s] = "close",
         task' = [task EXCEPT ![s] = Nobody],
         pc' = [pc EXCEPT ![s] = "gone"], UNCHANGED <<pid_arg, last_pid>>
  PROVE  ProcInv'
<1>1. TypeOK
  BY DEF ProcInv, PidsUnique
<1>2. task'[s] = Nobody /\ \A t \in Slots \ {s} : task'[t] = task[t]
  BY <1>1 DEF TypeOK
<1>3. pc'[s] = "gone" /\ \A t \in Slots \ {s} : pc'[t] = pc[t]
  BY <1>1 DEF TypeOK
<1>4. Live' = Live \ {s}
  BY <1>2 DEF Live
<1>5. TypeOK'
  <2>1. task' \in [Slots -> task_struct \cup {Nobody}] /\ "gone" \in Places
    BY <1>1 DEF TypeOK, Places
  <2>2. pid_arg' \in [Slots -> Pids \cup {-1}] /\ last_pid' \in Pids
    BY <1>1 DEF TypeOK
  <2>3. QED
    BY <1>1, <1>2, <2>1, <2>2, TypeKept
<1>6. NoneBorn
  <2>1. \A t \in Live : t \in Slots
    BY DEF Live
  <2>2. QED
    BY <1>2, <1>3, <1>4, <2>1 DEF NoneBorn
<1>7. \A t \in Slots : StillTold(t)
  BY <1>2, <1>3, <1>4 DEF StillTold, Found
<1>8. QED
  BY <1>5, <1>6, <1>7, FamilyKept, ToldKept DEF ProcInv

(* sys_fork: the child has a free slot and a free pid, and a father who is *)
(* in user mode.                                                           *)
LEMMA ForkStep == ASSUME ProcInv, NEW s \in Slots, Fork(s) PROVE ProcInv'
<1>1. /\ TypeOK /\ pc[s] = "user" /\ pid_arg' = pid_arg
      /\ last_pid' = Following(last_pid)
  BY DEF ProcInv, PidsUnique, Fork
<1>2. last_pid' \in Pids \ UsedPids
  BY <1>1, FollowingIsFree DEF TypeOK
<1>3. SlotOK(s)
  BY <1>1, SlotFacts
<1>4. s \in Live /\ task[s].pid \in Pids
  BY <1>1, <1>3 DEF SlotOK
<1>5. CASE UNCHANGED <<task, pc>>
  <2>1. TypeOK' /\ Live' = Live
    BY <1>1, <1>2, <1>5 DEF TypeOK, Live
  <2>2. NoneBorn
    BY <1>5, <2>1 DEF NoneBorn
  <2>3. \A t \in Slots : StillTold(t)
    BY <1>1, <1>5, <2>1 DEF StillTold, Found
  <2>4. QED
    BY <2>1, <2>2, <2>3, FamilyKept, ToldKept DEF ProcInv
<1>6. CASE Slots # Live /\ ~ UNCHANGED <<task, pc>>
  <2> DEFINE n == Min(Slots \ Live)
             child == [pid |-> last_pid', father |-> task[s].pid,
                       zombie |-> FALSE, signal |-> {}]
  <2>1. n \in Slots \ Live
    <3>1. Slots \ Live # {}
      BY <1>6 DEF Live
    <3>2. QED
      BY <3>1, MinIsMember
  <2>2. task' = [task EXCEPT ![n] = child] /\ pc' = [pc EXCEPT ![n] = "user"]
    BY <1>6 DEF Fork
  <2> HIDE DEF n
  <2>3. child \in task_struct
    BY <1>2, <1>4 DEF task_struct
  <2>4. /\ child.pid = last_pid' /\ child.father = task[s].pid
        /\ ~ child.zombie /\ child # Nobody
    BY <2>3, NobodyIsNone
  <2>5. task'[n] = child /\ \A t \in Slots \ {n} : task'[t] = task[t]
    BY <1>1, <2>1, <2>2 DEF TypeOK
  <2> HIDE DEF child
  <2>6. pc'[n] = "user" /\ \A t \in Slots \ {n} : pc'[t] = pc[t]
    BY <1>1, <2>1, <2>2 DEF TypeOK
  <2>7. Live' = Live \cup {n}
    BY <2>1, <2>4, <2>5 DEF Live
  <2>8. TypeOK'
    <3>1. task' \in [Slots -> task_struct \cup {Nobody}]
      BY <1>1, <2>2, <2>3 DEF TypeOK
    <3>2. "user" \in Places /\ pid_arg' \in [Slots -> Pids \cup {-1}] /\ last_pid' \in Pids
      BY <1>1, <1>2 DEF Places, TypeOK
    <3>3. "user" = "gone" <=> task'[n].zombie \/ task'[n] = Nobody
      BY <2>4, <2>5
    <3>4. QED
      BY <1>1, <2>1, <2>2, <2>5, <3>1, <3>2, <3>3, TypeKept
  <2>9. PidsUnique'
    <3>1. \A t \in Live : task[t].pid # last_pid' /\ task'[t] = task[t] /\ t # n
      BY <1>2, <2>1, <2>5 DEF UsedPids, Live
    <3>2. \A t, u \in Live' : t # u => task'[t].pid # task'[u].pid
      BY <2>4, <2>5, <2>7, <3>1 DEF ProcInv, PidsUnique
    <3>3. QED
      BY <2>8, <3>2 DEF PidsUnique
  <2>10. FathersLive'
    <3>1. SUFFICES ASSUME NEW t \in Live', task'[t].father # 0
                   PROVE  \E u \in Live' \ {t} : /\ task'[u].pid = task'[t].father
                                                 /\ pc'[u] \in {"user", "wait"}
      BY DEF FathersLive
    <3>2. CASE t = n
      BY <1>1, <1>4, <2>1, <2>4, <2>5, <2>6, <2>7, <3>2 DEF Live
    <3>3. CASE t # n
      <4>1. t \in Live /\ task'[t] = task[t]
        BY <2>5, <2>7, <3>3 DEF Live
      <4>2. PICK u \in Live \ {t} : task[u].pid = task[t].father /\ pc[u] \in {"user", "wait"}
        BY <3>1, <4>1 DEF ProcInv, FathersLive
      <4>3. u # n /\ u \in Slots
        BY <2>1, <4>2 DEF Live
      <4>4. QED
        BY <2>5, <2>6, <2>7, <4>1, <4>2, <4>3
    <3>4. QED
      BY <3>2, <3>3
  <2>11. \A t \in Slots : StillTold(t)
    <3>1. TAKE t \in Slots
    <3>2. CASE pc'[t] # "wait"
      BY <3>2 DEF StillTold
    <3>3. CASE pc'[t] = "wait"
      <4>1. t # n /\ pc[t] = "wait" /\ task'[t] = task[t]
        BY <2>5, <2>6, <3>3
      <4>2. \A c \in Slots : Found(t, pid_arg[t], c)' => Found(t, pid_arg[t], c)
        BY <1>1, <2>4, <2>5, <2>7, <4>1 DEF Found
      <4>3. QED
        BY <1>1, <4>1, <4>2 DEF StillTold
    <3>4. QED
      BY <3>2, <3>3
  <2>12. QED
    BY <2>9, <2>10, <2>11, ToldKept DEF ProcInv
<1>7. QED
  BY <1>5, <1>6 DEF Fork

(* A signal that is sent, and one that is delivered.                       *)
LEMMA SendStep ==
  ASSUME ProcInv, NEW s \in Slots, NEW x \in Signals, send_sig(s, x) \/ Deliver(s, x)
  PROVE  ProcInv'
<1> DEFINE p == pc[s]
           sig == IF send_sig(s, x) THEN task[s].signal \cup {x} ELSE task[s].signal \ {x}
<1>1. TypeOK /\ p \in {"user", "wait"} /\ UNCHANGED <<pc, pid_arg, last_pid>>
  BY DEF ProcInv, PidsUnique, send_sig, Deliver
<1>2. SlotOK(s)
  BY <1>1, SlotFacts
<1>3. task[s] \in task_struct
  BY <1>1, <1>2 DEF SlotOK
<1>4. sig \in SUBSET Signals
  BY <1>3 DEF task_struct
<1>5. task' = [task EXCEPT ![s].signal = sig]
  BY DEF send_sig, Deliver
<1>6. p = "user" \/ sig = task[s].signal \cup {x}
  BY DEF send_sig, Deliver
<1>7. pc' = [pc EXCEPT ![s] = p] /\ pid_arg' \in [Slots -> Pids \cup {-1}]
  BY <1>1 DEF TypeOK
<1> HIDE DEF sig
<1>8. p = "user" \/ (pc[s] = "wait" /\ ("SIGCHLD" \in task[s].signal => "SIGCHLD" \in sig))
  BY <1>1, <1>6
<1> HIDE DEF p
<1>9. QED
  BY <1>1, <1>4, <1>5, <1>7, <1>8, SignalStep DEF p
-----------------------------------------------------------------------------
(* The first process is alone.                                             *)
LEMMA ProcInit == Init => ProcInv
<1> SUFFICES ASSUME Init PROVE ProcInv
  OBVIOUS
<1>1. FirstSlot \in Slots /\ 1 \in Pids
  <2>1. Cardinality(Slots) \in Nat
    BY ProcessAssumption, FS_CardinalityType
  <2>2. QED
    BY <2>1, ProcessAssumption DEF Pids
<1> DEFINE first == [Nobody EXCEPT !.pid = 1]
<1>2. /\ Nobody \in [pid : {0}, father : {0}, zombie : {FALSE}, signal : {{}}]
      /\ Nobody.father = 0 /\ ~ Nobody.zombie
  BY DEF Nobody
<1>3. /\ first \in task_struct /\ first.father = 0 /\ ~ first.zombie
  <2> HIDE DEF Nobody
  <2>1. QED
    BY <1>1, <1>2 DEF task_struct
<1>4. \A s \in Slots : task[s] = IF s = FirstSlot THEN [Nobody EXCEPT !.pid = 1] ELSE Nobody
  BY DEF Init
<1>5. Live = {FirstSlot}
  BY <1>1, <1>3, <1>4, NobodyIsNone DEF Live
<1>6. TypeOK
  <2>1. \A s \in Slots : pc[s] = "gone" <=> task[s].zombie \/ task[s] = Nobody
    BY <1>2, <1>3, <1>4, NobodyIsNone DEF Init
  <2>2. /\ task \in [Slots -> task_struct \cup {Nobody}]
        /\ pc \in [Slots -> Places] /\ pid_arg \in [Slots -> Pids \cup {-1}]
        /\ last_pid \in Pids
    BY <1>1, <1>3 DEF Init, Places
  <2>3. QED
    BY <2>1, <2>2 DEF TypeOK
<1>7. PidsUnique
  BY <1>5, <1>6 DEF PidsUnique
<1>8. FathersLive
  BY <1>1, <1>2, <1>4, <1>5 DEF FathersLive
<1>9. WaitersTold
  BY DEF Init, WaitersTold
<1>10. QED
  BY <1>7, <1>8, <1>9 DEF ProcInv

(* Every step of a task keeps the invariant.                               *)
LEMMA ProcStep == ProcInv /\ [Next]_vars => ProcInv'
<1> SUFFICES ASSUME ProcInv, [Next]_vars PROVE ProcInv'
  OBVIOUS
<1>1. TypeOK
  BY DEF ProcInv, PidsUnique
<1>2. CASE UNCHANGED vars
  <2>1. UNCHANGED <<task, pc, pid_arg, last_pid>>
    BY <1>2 DEF vars
  <2>2. QED
    BY <2>1 DEF ProcInv, PidsUnique, FathersLive, WaitersTold, TypeOK, Live, Zombies, Matching, Children
<1>3. ASSUME NEW s \in Slots, Fork(s) PROVE ProcInv'
  BY <1>3, ForkStep
<1>4. ASSUME NEW s \in Slots, do_exit(s) PROVE ProcInv'
  BY <1>4, ExitStep
<1>5. ASSUME NEW s \in Slots, ExitEnd(s) PROVE ProcInv'
  BY <1>5, ZombieStep, AloneStep DEF ExitEnd
<1>6. ASSUME NEW s \in Slots, PauseEnds(s) PROVE ProcInv'
  <2> DEFINE sig == task[s].signal \ {"SIGCHLD"}
  <2>1. SlotOK(s) /\ pc[s] = "wait"
    BY <1>1, <1>6, SlotFacts DEF PauseEnds
  <2>2. sig \in SUBSET Signals /\ pid_arg[s] \in Pids \cup {-1}
    BY <1>1, <2>1 DEF SlotOK, task_struct, TypeOK
  <2>3. CASE Scan(s, pid_arg[s], TRUE, sig)
    BY <2>1, <2>2, <2>3, ScanStep
  <2>4. CASE /\ task' = [task EXCEPT ![s].signal = sig]
             /\ pc' = [pc EXCEPT ![s] = "user"]
             /\ pid_arg' = [pid_arg EXCEPT ![s] = -1]
             /\ UNCHANGED last_pid
    <3>1. /\ pid_arg' \in [Slots -> Pids \cup {-1}]
          /\ \A t \in Slots \ {s} : pid_arg'[t] = pid_arg[t]
      BY <1>1, <2>4 DEF TypeOK
    <3> HIDE DEF sig
    <3>2. QED
      BY <2>1, <2>2, <2>4, <3>1, SignalStep
  <2>5. QED
    BY <1>6, <2>3, <2>4 DEF PauseEnds
<1>7. ASSUME NEW s \in Slots, NEW pid \in {task[c].pid : c \in Children(s)} \cup {-1},
             NEW hang \in BOOLEAN, sys_waitpid(s, pid, hang)
      PROVE  ProcInv'
  <2>1. SlotOK(s) /\ pc[s] = "user" /\ Scan(s, pid, hang, task[s].signal)
    BY <1>1, <1>7, SlotFacts DEF sys_waitpid
  <2>2. task[s].signal \in SUBSET Signals
    BY <2>1 DEF SlotOK, task_struct
  <2>3. pid \in Pids \cup {-1}
    <3>1. \A c \in Children(s) : c \in Live /\ c \in Slots
      BY DEF Children, Live
    <3>2. QED
      BY <1>1, <3>1, SlotFacts DEF SlotOK
  <2>4. QED
    BY <2>1, <2>2, <2>3, ScanStep
<1>8. ASSUME NEW s \in Slots, NEW x \in Sent, send_sig(s, x) PROVE ProcInv'
  <2>1. x \in Signals
    BY ProcessAssumption DEF Signals
  <2>2. QED
    BY <1>8, <2>1, SendStep
<1>9. ASSUME NEW s \in Slots, NEW x \in Signals, Deliver(s, x) PROVE ProcInv'
  BY <1>9, SendStep
<1>10. QED
  BY <1>2, <1>3, <1>4, <1>5, <1>6, <1>7, <1>8, <1>9 DEF Next

(* The invariant holds in every state.                                     *)
LEMMA ProcInvariant == Spec => []ProcInv
<1>1. QED
  BY ProcInit, ProcStep, PTL DEF Spec

(* find_empty_process: no two tasks, zombies included, have the same pid,  *)
(* wherever last_pid wraps around and however many tasks there are.        *)
THEOREM PidsAreUnique == Spec => []PidsUnique
<1>1. ProcInv => PidsUnique
  BY DEF ProcInv
<1>2. QED
  BY <1>1, ProcInvariant, PTL

(* do_exit: whoever has a father other than task 0 has one who still can   *)
(* wait for it.                                                            *)
THEOREM FathersCanWait == Spec => []FathersLive
<1>1. ProcInv => FathersLive
  BY DEF ProcInv
<1>2. QED
  BY <1>1, ProcInvariant, PTL

(* tell_father and sys_waitpid: no exit goes unnoticed by a father asleep. *)
THEOREM ExitsAreTold == Spec => []WaitersTold
<1>1. ProcInv => WaitersTold
  BY DEF ProcInv
<1>2. QED
  BY <1>1, ProcInvariant, PTL
=============================================================================
