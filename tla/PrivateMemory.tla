---------------------------- MODULE PrivateMemory ----------------------------
(***************************************************************************)
(* What memory management promises: each process has a memory of its own.  *)
(* It begins as a copy of its father's, or empty; what comes into it later *)
(* is zero or an argument of execve; a store by one process is seen by no  *)
(* other, and what nobody writes does not change.                          *)
(***************************************************************************)
CONSTANTS Slots, Addresses, Values, Zero, TopAddress,
          Hole   \* nothing there yet

VARIABLE mem
Cells == Values \cup {Hole}
Empty == [a \in Addresses |-> Hole]

Store(s) ==
  \E a \in Addresses, v \in Values :
    mem[s][a] # Hole /\ mem' = [mem EXCEPT ![s][a] = v]
Appear(s) ==
  \E a \in Addresses, v \in Values :
    /\ mem[s][a] = Hole /\ (v = Zero \/ a = TopAddress)
    /\ mem' = [mem EXCEPT ![s][a] = v]
Copy(s, child) == mem[child] = Empty /\ mem' = [mem EXCEPT ![child] = mem[s]]
Vanish(s) == mem' = [mem EXCEPT ![s] = Empty]

MemoryNext ==
  \E s \in Slots :
    \/ Store(s) \/ Appear(s) \/ Vanish(s)
    \/ \E child \in Slots \ {s} : Copy(s, child)

MemoryInit == mem \in [Slots -> [Addresses -> Cells]]
MemorySpec == MemoryInit /\ [][MemoryNext]_mem
=============================================================================
