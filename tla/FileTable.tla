------------------------------ MODULE FileTable ------------------------------
(***************************************************************************)
(* Descriptors and the file table: fs/open.c, fs/fcntl.c, chdir and        *)
(* chroot, what fork, execve and exit do to files, and what encr and decr  *)
(* do to the root and the working directory of their caller.               *)
(*                                                                         *)
(* A task sleeps in open_namei with its file reserved; the other calls are *)
(* one action.  i_count is what files and directories contribute to it.    *)
(***************************************************************************)
EXTENDS Naturals, FiniteSetsExt

CONSTANTS Tasks,
          NR_OPEN, NR_FILE,
          Inodes    \* the inodes that are opened and changed to

(* Inode 1 is the root of the first task.                                  *)
ASSUME FilesConstants ==
  /\ IsFiniteSet(Tasks) /\ NR_OPEN \in Nat /\ NR_FILE \in Nat
  /\ Inodes \subseteq Nat \ {0} /\ 1 \in Inodes

Fds == 0 .. NR_OPEN - 1
Files == 1 .. NR_FILE
NoFile == 0
NoInode == 0

VARIABLES filp,           \* of each task, the file of each descriptor
          close_on_exec,  \* of each task, the descriptors whose bit is set
          file_table,     \* f_count and f_inode of each file
          i_count,
          pwd, root,      \* the directories of each task
          opening,        \* the descriptor a task in open_namei has reserved
          alive,
          forsaken,       \* history: the references nobody can give back, by inode
          no_root         \* history: a path was looked up without a root
fileVars == <<filp, close_on_exec, file_table, i_count, pwd, root, opening, alive,
              forsaken, no_root>>

NoFd == NR_OPEN
FilesTypeOK ==
  /\ filp \in [Tasks -> [Fds -> Files \cup {NoFile}]]
  /\ close_on_exec \in [Tasks -> SUBSET Fds]
  /\ file_table \in [Files -> [f_count : Nat, f_inode : Inodes \cup {NoInode}]]
  /\ i_count \in [Inodes -> Nat] /\ forsaken \in [Inodes -> Nat]
  /\ pwd \in [Tasks -> Inodes \cup {NoInode}] /\ root \in [Tasks -> Inodes \cup {NoInode}]
  /\ opening \in [Tasks -> Fds \cup {NoFd}] /\ alive \subseteq Tasks /\ no_root \in BOOLEAN

(* Before mount_root *)
FilesInit ==
  /\ filp = [t \in Tasks |-> [fd \in Fds |-> NoFile]]
  /\ close_on_exec = [t \in Tasks |-> {}]
  /\ file_table = [f \in Files |-> [f_count |-> 0, f_inode |-> NoInode]]
  /\ i_count = [i \in Inodes |-> 0]
  /\ pwd = [t \in Tasks |-> NoInode] /\ root = pwd
  /\ opening = [t \in Tasks |-> NoFd] /\ alive = {}
  /\ forsaken = [i \in Inodes |-> 0] /\ no_root = FALSE

-----------------------------------------------------------------------------
(* The first task has inode 1 as its root and its pwd. *)
mount_root(t) ==
  /\ alive = {} /\ alive' = {t}
  /\ pwd' = [pwd EXCEPT ![t] = 1] /\ root' = [root EXCEPT ![t] = 1]
  /\ i_count' = [i_count EXCEPT ![1] = @ + 2]
  /\ UNCHANGED <<filp, close_on_exec, file_table, opening, forsaken, no_root>>

Running(t) == t \in alive /\ opening[t] = NoFd
iget(C, i) == [C EXCEPT ![i] = @ + 1]
iput(C, i) == IF i = NoInode THEN C ELSE [C EXCEPT ![i] = @ - 1]
DirsUnchanged == UNCHANGED <<pwd, root, forsaken, no_root>>

(* The files, counts and descriptors of a task once the descriptors fds    *)
(* are closed, as the loops of execve and do_exit do it, in any order: the *)
(* last descriptor of a file puts its inode.                               *)
ClosedAll(S, fds) ==
  LET closing(f) == {fd \in fds : S.filp[fd] = f}
      last == {f \in Files : closing(f) # {} /\ S.file[f].f_count = Cardinality(closing(f))}
  IN [filp |-> [fd \in Fds |-> IF fd \in fds THEN NoFile ELSE S.filp[fd]],
      cloexec |-> S.cloexec \ fds,
      file |-> [f \in Files |->
                  [f_count |-> S.file[f].f_count - Cardinality(closing(f)),
                   f_inode |-> IF f \in last THEN NoInode ELSE S.file[f].f_inode]],
      count |-> [i \in Inodes |-> S.count[i] - Cardinality({f \in last : S.file[f].f_inode = i})]]
(* sys_close                                                               *)
Closed(S, fd) == ClosedAll(S, {fd})
State(t) == [filp |-> filp[t], cloexec |-> close_on_exec[t], file |-> file_table, count |-> i_count]
Set(t, S) ==
  /\ filp' = [filp EXCEPT ![t] = S.filp] /\ close_on_exec' = [close_on_exec EXCEPT ![t] = S.cloexec]
  /\ file_table' = S.file /\ i_count' = S.count

(* Mutant: dup forgets to count. *)
DuppedUncounted(S, fd, arg) ==
  LET free == {x \in Fds : x >= arg /\ S.filp[x] = NoFile} IN
  IF S.filp[fd] = NoFile \/ free = {} THEN S
  ELSE [S EXCEPT !.filp[Min(free)] = S.filp[fd], !.cloexec = @ \ {Min(free)}]

(* dupfd *)
Dupped(S, fd, arg) ==
  LET free == {x \in Fds : x >= arg /\ S.filp[x] = NoFile} IN
  IF S.filp[fd] = NoFile \/ free = {} THEN S
  ELSE [S EXCEPT !.filp[Min(free)] = S.filp[fd], !.cloexec = @ \ {Min(free)},
                 !.file[S.filp[fd]].f_count = @ + 1]

-----------------------------------------------------------------------------
(* sys_open up to open_namei: the descriptor and the file are reserved.    *)
Open(t) ==
  LET fd == Min({x \in Fds : filp[t][x] = NoFile})
      f == Min({x \in Files : file_table[x].f_count = 0})
  IN /\ Running(t)
     /\ \E x \in Fds : filp[t][x] = NoFile
     /\ \/ (\A x \in Files : file_table[x].f_count # 0) /\ UNCHANGED <<filp, file_table, opening>>
        \/ /\ \E x \in Files : file_table[x].f_count = 0
           /\ filp' = [filp EXCEPT ![t][fd] = f]
           /\ file_table' = [file_table EXCEPT ![f].f_count = 1]
           /\ opening' = [opening EXCEPT ![t] = fd]
     /\ close_on_exec' = [close_on_exec EXCEPT ![t] = @ \ {fd}]
     /\ no_root' = (root[t] = NoInode \/ no_root)
     /\ UNCHANGED <<i_count, pwd, root, alive, forsaken>>

(* sys_open behind open_namei, which has got inode i or failed; /dev/tty   *)
(* without a terminal fails as well.                                       *)
Opened(t, i) ==
  LET fd == opening[t]
      f == filp[t][fd]
  IN /\ fd # NoFd /\ opening' = [opening EXCEPT ![t] = NoFd]
     /\ \/ /\ i = NoInode /\ filp' = [filp EXCEPT ![t][fd] = NoFile]
           /\ file_table' = [file_table EXCEPT ![f].f_count = 0] /\ i_count' = i_count
        \/ /\ i # NoInode /\ i_count' = iget(i_count, i) /\ filp' = filp
           /\ file_table' = [file_table EXCEPT ![f] = [f_count |-> 1, f_inode |-> i]]
     /\ UNCHANGED <<close_on_exec, alive>> /\ DirsUnchanged

sys_close(t, fd) ==
  /\ Running(t) /\ Set(t, Closed(State(t), fd))
  /\ UNCHANGED <<opening, alive>> /\ DirsUnchanged
(* sys_dup, and fcntl with F_DUPFD; they fail without an open file. *)
sys_dup(t, fd, arg) ==
  /\ Running(t) /\ filp[t][fd] # NoFile /\ Set(t, Dupped(State(t), fd, arg))
  /\ UNCHANGED <<opening, alive>> /\ DirsUnchanged
sys_dup2(t, fd, new) ==
  /\ Running(t) /\ Set(t, Dupped(Closed(State(t), new), fd, new))
  /\ UNCHANGED <<opening, alive>> /\ DirsUnchanged
(* fcntl with F_SETFD *)
SetFd(t, fd) ==
  /\ Running(t) /\ filp[t][fd] # NoFile
  /\ \E bits \in {close_on_exec[t] \cup {fd}, close_on_exec[t] \ {fd}} :
       close_on_exec' = [close_on_exec EXCEPT ![t] = bits]
  /\ UNCHANGED <<filp, file_table, i_count, opening, alive>> /\ DirsUnchanged

(* What fork does to files *)
copy_process(t, u) ==
  /\ Running(t) /\ u \notin alive /\ alive' = alive \cup {u}
  /\ filp' = [filp EXCEPT ![u] = filp[t]]
  /\ close_on_exec' = [close_on_exec EXCEPT ![u] = close_on_exec[t]]
  /\ file_table' = [f \in Files |-> [file_table[f] EXCEPT
                      !.f_count = @ + Cardinality({fd \in Fds : filp[t][fd] = f})]]
  /\ pwd' = [pwd EXCEPT ![u] = pwd[t]] /\ root' = [root EXCEPT ![u] = root[t]]
  /\ i_count' = [i \in Inodes |-> i_count[i] + (IF pwd[t] = i THEN 1 ELSE 0)
                                             + (IF root[t] = i THEN 1 ELSE 0)]
  /\ UNCHANGED <<opening, forsaken, no_root>>

(* do_execve: the descriptors whose bit is set are closed. *)
Exec(t) ==
  /\ Running(t)
  /\ Set(t, [ClosedAll(State(t), close_on_exec[t]) EXCEPT !.cloexec = {}])
  /\ UNCHANGED <<opening, alive>> /\ DirsUnchanged

(* do_exit.  Some task always stays: the first ones never exit. *)
Exit(t) ==
  LET S == ClosedAll(State(t), {fd \in Fds : filp[t][fd] # NoFile}) IN
  /\ Running(t) /\ alive # {t} /\ alive' = alive \ {t}
  /\ Set(t, [S EXCEPT !.count = iput(iput(@, pwd[t]), root[t]), !.cloexec = {}])
  /\ pwd' = [pwd EXCEPT ![t] = NoInode] /\ root' = [root EXCEPT ![t] = NoInode]
  /\ UNCHANGED <<opening, forsaken, no_root>>

(* sys_chdir and sys_chroot, with namei behind them *)
sys_chdir(t, i) ==
  /\ Running(t) /\ root[t] # NoInode
  /\ pwd' = [pwd EXCEPT ![t] = i] /\ i_count' = iput(iget(i_count, i), pwd[t])
  /\ UNCHANGED <<filp, close_on_exec, file_table, root, opening, alive, forsaken, no_root>>
sys_chroot(t, i) ==
  /\ Running(t) /\ root[t] # NoInode
  /\ root' = [root EXCEPT ![t] = i] /\ i_count' = iput(iget(i_count, i), root[t])
  /\ UNCHANGED <<filp, close_on_exec, file_table, pwd, opening, alive, forsaken, no_root>>

(* Inode 1 is put in the place of root and pwd, and given back; the task   *)
(* is left without either, and nobody puts what it had.                    *)
Forsakes(t) ==
  /\ pwd' = [pwd EXCEPT ![t] = NoInode] /\ root' = [root EXCEPT ![t] = NoInode]
  /\ forsaken' = [i \in Inodes |-> forsaken[i] + (IF pwd[t] = i THEN 1 ELSE 0)
                                               + (IF root[t] = i THEN 1 ELSE 0)]
  /\ UNCHANGED <<filp, close_on_exec, file_table, i_count, opening, alive, no_root>>
(* sys_encr and sys_decr do that to their caller, and the handler of F2,   *)
(* which lists a directory, to the task it interrupts.                     *)
sys_encr(t) == Running(t) /\ Forsakes(t)
get_children_from_fs(t) == t \in alive /\ Forsakes(t)

(* get_dir panics without a root.  Bound: one task loses its directories.  *)
FilesNext ==
  /\ ~no_root
  /\ \E t \in Tasks :
       \/ mount_root(t) \/ Open(t) \/ Exec(t) \/ Exit(t)
       \/ (\A i \in Inodes : forsaken[i] = 0) /\ (sys_encr(t) \/ get_children_from_fs(t))
       \/ \E i \in Inodes \cup {NoInode} : Opened(t, i)
       \/ \E fd \in Fds : \/ sys_close(t, fd) \/ SetFd(t, fd)
                          \/ \E new \in Fds : sys_dup(t, fd, new) \/ sys_dup2(t, fd, new)
       \/ \E u \in Tasks : copy_process(t, u)
       \/ \E i \in Inodes : sys_chdir(t, i) \/ sys_chroot(t, i)

FilesSpec == FilesInit /\ [][FilesNext]_fileVars

-----------------------------------------------------------------------------
Descriptors(f) == {x \in Tasks \X Fds : filp[x[1]][x[2]] = f}

CountsExact ==
  /\ \A f \in Files : file_table[f].f_count = Cardinality(Descriptors(f))
  /\ \A i \in Inodes :
       i_count[i] = Cardinality({f \in Files : file_table[f].f_inode = i})
                    + Cardinality({t \in Tasks : pwd[t] = i})
                    + Cardinality({t \in Tasks : root[t] = i}) + forsaken[i]

(* open, close, dup2, fork, execve and exit: f_count is the number of      *)
(* descriptors, also while the file is only reserved, so that no file is   *)
(* given to two openers or given back while it is in use; and i_count is   *)
(* the number of files and directories that refer to the inode, with those *)
(* encr and decr leave behind.                                             *)
FileCountsExact == FilesTypeOK /\ CountsExact

(* get_dir: panic("No root inode") is not reached.  No run checks this, for *)
(* the code does reach it: encr, decr and the F2 key leave a task without a *)
(* root, or without a working directory, whose next path panics.            *)
AlwaysRooted == ~no_root
=============================================================================
