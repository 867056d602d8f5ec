----------------------------- MODULE MCProcesses -----------------------------
(***************************************************************************)
(* What fork and exit do to processes and what they do to their files.     *)
(* Processes: three slots and four pids, a family of three, and pids that  *)
(* come round.  Files: two tasks of two descriptors, and two struct files, *)
(* so that they run out of both, share a file or have one each.  The two   *)
(* have no step in common; `part` says which one a behaviour is about.     *)
(***************************************************************************)
EXTENDS Processes, FileTable

VARIABLE part

ForkInit == part \in {"processes", "files"} /\ Init /\ FilesInit
ForkNext ==
  /\ part' = part
  /\ \/ part = "processes" /\ Next /\ UNCHANGED fileVars
     \/ part = "files" /\ FilesNext /\ UNCHANGED vars

(* The fairness is that of Processes; the calls on files owe nothing.      *)
Forks ==
  /\ ForkInit /\ [][ForkNext]_<<part, vars, fileVars>>
  /\ \A s \in Slots : WF_vars(ExitEnd(s)) /\ WF_vars(PauseEnds(s))
=============================================================================
