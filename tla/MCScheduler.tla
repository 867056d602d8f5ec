----------------------------- MODULE MCScheduler -----------------------------
(***************************************************************************)
(* What schedule() does besides switching: it clears the keys that have    *)
(* timed out, with the instance of MCSecurity, and it chooses who runs     *)
(* next, with task 0 and two others, priorities 1 and 2.  Here the two     *)
(* have no step in common; `part` says which one a behaviour is about.     *)
(***************************************************************************)
EXTENDS MCSecurity, Sched

VARIABLE part

ScheduleInit == part \in {"keys", "choice"} /\ Init /\ SchedInit
                  /\ (part = "keys" => watched = 1)
ScheduleNext ==
  /\ part' = part
  /\ \/ part = "keys" /\ Next /\ UNCHANGED schedVars
     \/ part = "choice" /\ SchedNext /\ UNCHANGED vars

Schedule == ScheduleInit /\ [][ScheduleNext]_<<part, vars, schedVars>>
=============================================================================
