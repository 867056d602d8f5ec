------------------------------- MODULE MemMap -------------------------------
(***************************************************************************)
(* The pages of processes from fork to exit: copy_process                  *)
(* (kernel/fork.c), page faults (mm/memory.c), do_execve (fs/exec.c),      *)
(* do_exit and release (kernel/exit.c).  Who forks, why a process exits    *)
(* and who releases it are module Processes.                               *)
(*                                                                         *)
(* An action is what a task does between two places where it can lose the  *)
(* processor: in user mode anywhere, in the kernel where it sleeps.        *)
(***************************************************************************)
EXTENDS Memory

CONSTANTS FirstSlot,   \* the slot of the first process
          TopAddress   \* where execve puts the arguments

ASSUME MemMapAssumption ==
  /\ Slots \subseteq Nat /\ FirstSlot \in Slots /\ TopAddress \in Addresses
  /\ Cardinality(Pages) > 1   \* what process 1 has at the start
  /\ NotPresent \notin Values

VARIABLES mm,        \* the record of module Memory
          task,      \* task[]: the page of each task_struct, or NoPage
          pc,        \* where each task is
          args,      \* the pages its execve holds
          leaked     \* history: pages that nothing refers to any more
vars == <<mm, task, pc, args, leaked>>

(* strings: execve has copied the arguments; load: it has freed the old    *)
(* memory; dead: do_exit has freed the memory, not yet the task_struct.    *)
Places == {"none", "user", "strings", "load", "dead"}

TypeOK ==
  /\ mm \in MemoryState
  /\ task \in [Slots -> Pages \cup {NoPage}]
  /\ pc \in [Slots -> Places]
  /\ args \in [Slots -> SUBSET Pages]
  /\ leaked \subseteq Pages

Free == {s \in Slots : task[s] = NoPage}

(* After the first fork: process 1 has a task_struct and one table, whose  *)
(* entries refer to pages of the kernel.                                   *)
Init ==
  LET p1 == Max(Pages)
      p2 == Max(Pages \ {p1})
      first == Min(Dirs)
  IN /\ \E low \in [Entries -> LowPages] :
          mm = [mem_map |-> [p \in Pages |-> IF p \in {p1, p2} THEN 1 ELSE 0],
                pg_dir |-> [s \in Slots |-> [d \in Dirs |->
                   IF s = FirstSlot /\ d = first THEN p2 ELSE NoPage]],
                pg_table |-> [s \in Slots |-> [a \in Addresses |->
                   IF s = FirstSlot /\ a[1] = first
                   THEN [page |-> low[a[2]], w |-> FALSE] ELSE NotPresent]],
                data |-> [p \in Frames |-> Zero]]
     /\ task = [s \in Slots |-> IF s = FirstSlot THEN p1 ELSE NoPage]
     /\ pc = [s \in Slots |-> IF s = FirstSlot THEN "user" ELSE "none"]
     /\ args = [s \in Slots |-> {}]
     /\ leaked = {}

-----------------------------------------------------------------------------
(* do_exit from anywhere, with memory m: what the call it comes from       *)
(* holds, and the pages `more`, are forgotten.                             *)
do_exit(s, m, more) ==
  /\ mm' = free_page_tables(m, s)
  /\ pc' = [pc EXCEPT ![s] = "dead"]
  /\ leaked' = leaked \cup args[s] \cup more
  /\ args' = [args EXCEPT ![s] = {}]
  /\ task' = task

Exit(s) == pc[s] = "user" /\ do_exit(s, mm, {})

release(s) ==
  /\ pc[s] = "dead"
  /\ mm' = free_page(mm, task[s])
  /\ task' = [task EXCEPT ![s] = NoPage]
  /\ pc' = [pc EXCEPT ![s] = "none"]
  /\ UNCHANGED <<args, leaked>>

(* copy_process into the first free slot n: the task_struct, then the      *)
(* tables; when memory runs out everything is given back.                  *)
copy_process(s) ==
  /\ pc[s] = "user" /\ Free # {} /\ FreePages(mm) # {}
  /\ LET n == Min(Free)
         m == get_free_page(mm)
         copied == CopyTables(m, s, n)
     IN \/ /\ ~CopyFits(m, s)
           /\ mm' = free_page(free_page_tables(copied, n), LastFree(mm))
           /\ UNCHANGED <<task, pc>>
        \/ /\ CopyFits(m, s)
           /\ mm' = copied
           /\ task' = [task EXCEPT ![n] = LastFree(mm)]
           /\ pc' = [pc EXCEPT ![n] = "user"]
  /\ UNCHANGED <<args, leaked>>

-----------------------------------------------------------------------------
(* Page faults, of programs or of execve while it loads one (a program is  *)
(* not loaded where its arguments go).                                     *)

Touches(s, a) == pc[s] = "user" \/ (pc[s] = "load" /\ a # TopAddress)
MemoryOnly == UNCHANGED <<task, pc, args, leaked>>

(* do_no_page: without memory for the page or for its table the process    *)
(* exits; in the second case the page got is forgotten.                    *)
do_no_page(s, a) ==
  /\ Touches(s, a) /\ mm.pg_table[s][a] = NotPresent
  /\ \/ FreePages(mm) = {} /\ do_exit(s, mm, {})
     \/ /\ FreePages(mm) # {}
        /\ LET m == get_free_page(mm)
           IN \/ PutFits(m, s, a) /\ mm' = put_page(m, s, a, LastFree(mm)) /\ MemoryOnly
              \/ ~PutFits(m, s, a) /\ do_exit(s, m, {LastFree(mm)})

(* do_wp_page, write_verify: a store to a protected page faults and is     *)
(* tried again.                                                            *)
do_wp_page(s, a) ==
  /\ Touches(s, a)
  /\ mm.pg_table[s][a] # NotPresent /\ ~mm.pg_table[s][a].w
  /\ \/ MayUnprotect(mm, s, a) /\ mm' = Unprotect(mm, s, a) /\ MemoryOnly
     \/ /\ ~MayUnprotect(mm, s, a) /\ FreePages(mm) # {}
        /\ mm' = CopyOnWrite(mm, s, a) /\ MemoryOnly
     \/ ~MayUnprotect(mm, s, a) /\ FreePages(mm) = {} /\ do_exit(s, mm, {})

(* A store to a writable page *)
Store(s, a, v) ==
  /\ Touches(s, a)
  /\ mm.pg_table[s][a] # NotPresent /\ mm.pg_table[s][a].w
  /\ mm' = [mm EXCEPT !.data[mm.pg_table[s][a].page] = v]
  /\ MemoryOnly

-----------------------------------------------------------------------------
(* do_execve, with one page of arguments; it sleeps while it closes files  *)
(* and reads the program.                                                  *)

ExecStrings(s, v) ==
  /\ pc[s] = "user" /\ FreePages(mm) # {}
  /\ mm' = [get_free_page(mm) EXCEPT !.data[LastFree(mm)] = v]
  /\ args' = [args EXCEPT ![s] = {LastFree(mm)}]
  /\ pc' = [pc EXCEPT ![s] = "strings"]
  /\ UNCHANGED <<task, leaked>>

ExecCommit(s) ==
  /\ pc[s] = "strings"
  /\ mm' = free_page_tables(mm, s)
  /\ pc' = [pc EXCEPT ![s] = "load"]
  /\ UNCHANGED <<task, args, leaked>>

(* load_elf_binary fails: the arguments are neither mapped nor freed.      *)
ExecFail(s) ==
  /\ pc[s] = "load"
  /\ pc' = [pc EXCEPT ![s] = "user"]
  /\ leaked' = leaked \cup args[s]
  /\ args' = [args EXCEPT ![s] = {}]
  /\ UNCHANGED <<mm, task>>

(* change_ldt: the arguments are put at the top, unless there is no page   *)
(* for the table, which nobody notices.                                    *)
change_ldt(s) ==
  /\ pc[s] = "load"
  /\ \/ /\ PutFits(mm, s, TopAddress)
        /\ mm' = put_page(mm, s, TopAddress, CHOOSE p \in args[s] : TRUE)
        /\ leaked' = leaked
     \/ /\ ~PutFits(mm, s, TopAddress)
        /\ mm' = mm /\ leaked' = leaked \cup args[s]
  /\ args' = [args EXCEPT ![s] = {}]
  /\ pc' = [pc EXCEPT ![s] = "user"]
  /\ task' = task

-----------------------------------------------------------------------------
Next ==
  \E s \in Slots :
    \/ copy_process(s) \/ Exit(s) \/ release(s)
    \/ \E a \in Addresses :
         do_no_page(s, a) \/ do_wp_page(s, a) \/ \E v \in Values : Store(s, a, v)
    \/ \E v \in Values : ExecStrings(s, v)
    \/ ExecCommit(s) \/ ExecFail(s) \/ change_ldt(s)

Spec == Init /\ [][Next]_vars

-----------------------------------------------------------------------------
(* mem_map: the count of a page is the number of page table entries,       *)
(* directory entries, task_structs and unfinished calls of execve that     *)
(* refer to it, whatever fork, faults, execve and exit do and wherever     *)
(* they run out of memory.  Only the pages in `leaked` are counted for     *)
(* nobody.                                                                 *)
References(p) ==
  Cardinality(EntriesTo(mm, p)) + Cardinality(TablesTo(mm, p))
  + Cardinality({s \in Slots : task[s] = p})
  + Cardinality({s \in Slots : p \in args[s]})
CountExact ==
  \A p \in Pages : mm.mem_map[p] = References(p) + IF p \in leaked THEN 1 ELSE 0

(* un_wp_page, copy_page_tables: a page somebody may write to is mapped    *)
(* once in all of the system, and is nothing else than a page of memory.   *)
WritablePrivate ==
  \A s \in Slots, a \in Addresses :
    LET x == mm.pg_table[s][a]
    IN x # NotPresent /\ x.w => x.page \in Pages /\ mm.mem_map[x.page] = 1

MemoryExact == TypeOK /\ CountExact /\ WritablePrivate

(* Copy on write: each process sees a memory of its own, which begins as   *)
(* its father's or empty and in which only its own stores show.            *)
Abstract == INSTANCE PrivateMemory WITH
  Hole <- NotPresent,
  mem <- [s \in Slots |-> [a \in Addresses |->
            IF mm.pg_table[s][a] = NotPresent THEN NotPresent
            ELSE mm.data[mm.pg_table[s][a].page]]]
MemoryIsPrivate == Abstract!MemorySpec
=============================================================================
