-------------------------------- MODULE Names --------------------------------
(***************************************************************************)
(* Path names and directories: fs/namei.c, as open, creat, mkdir, rmdir,   *)
(* unlink and link use it.                                                 *)
(*                                                                         *)
(* An action is what a task does until it sleeps: in the bread of a        *)
(* directory, in iget and in new_block.  What iput and iget do to the      *)
(* inode table is in module InodeTable: here an inode is there as long as  *)
(* it has a link or somebody holds it.                                     *)
(***************************************************************************)
EXTENDS Naturals, Sequences, FiniteSetsExt

CONSTANTS Tasks, Names,
          Inums,    \* 1 is the root
          Slots,    \* the entries a directory can get, but . and ..
          Paths     \* bound: the path names of the calls

VARIABLES kind,     \* file, dir or free, of each inode
          i_nlinks,
          entry,    \* of each directory, the name and the inode of each slot
          step,     \* what each task sleeps in, see Steps
          call,     \* its call: see Calls
          race      \* history: the first race, see Races

(* search: find_entry in dir; enter: iget of the next directory; node:     *)
(* iget of what the name stands for; empty: empty_dir; add: add_entry,     *)
(* and new_block before it; open: the file is open.                        *)
Steps == {"user", "search", "enter", "node", "empty", "add", "open"}
Ops == {"open", "creat", "mkdir", "rmdir", "unlink", "link"}
NoNum == 0
Nums == Inums \cup {NoNum}
(* dir and held: the inodes it holds; num: the one it has read in slot     *)
Calls == [op : Ops \cup {"none"}, path : Seq(Names), dir : Nums, held : Nums,
          num : Nums, slot : Slots \cup {0}]
NoCall == [op |-> "none", path |-> <<>>, dir |-> NoNum, held |-> NoNum,
           num |-> NoNum, slot |-> 0]

(* twice: two tasks enter one name; stale: the entry read has changed      *)
(* while the task slept; orphan: an entry is made in a directory that has  *)
(* been removed meanwhile.                                                 *)
Races == {"no", "twice", "stale", "orphan"}

NamesTypeOK ==
  /\ kind \in [Inums -> {"file", "dir", "free"}]
  /\ i_nlinks \in [Inums -> 0 .. 255]
  /\ entry \in [Inums -> [Slots -> [name : Names, inode : Nums]]]
  /\ step \in [Tasks -> Steps] /\ race \in Races
  /\ \A t \in Tasks : call[t] \in Calls

(* The name that is left in an unused entry makes no difference. *)
NoEntry == [name |-> CHOOSE n \in Names : TRUE, inode |-> NoNum]
Blank == [s \in Slots |-> NoEntry]

NamesInit ==
  /\ kind = [i \in Inums |-> IF i = 1 THEN "dir" ELSE "free"]
  /\ i_nlinks = [i \in Inums |-> IF i = 1 THEN 2 ELSE 0]
  /\ entry = [i \in Inums |-> Blank]
  /\ step = [t \in Tasks |-> "user"] /\ call = [t \in Tasks |-> NoCall] /\ race = "no"

-----------------------------------------------------------------------------
Goto(t, place, c) == step' = [step EXCEPT ![t] = place] /\ call' = [call EXCEPT ![t] = c]
HeldBy(c) == {c.dir, c.held} \ {NoNum}

(* Task t goes on with call c, and iput frees what has neither links L nor *)
(* a holder now; the entries are E.                                        *)
Proceed(t, place, c, K, L, E) ==
  /\ Goto(t, place, c)
  /\ i_nlinks' = L /\ entry' = E
  /\ kind' = [i \in Inums |->
       IF L[i] = 0 /\ i \notin HeldBy(c) /\ \A u \in Tasks \ {t} : i \notin HeldBy(call[u])
       THEN "free" ELSE K[i]]
Continue(t, place, c) == Proceed(t, place, c, kind, i_nlinks, entry)
Give_up(t) == Continue(t, "user", NoCall)
Race(bad, r) == race' = IF race = "no" /\ bad THEN r ELSE race

(* match and find_entry: the slots of the name *)
find_entry(d, n) == {s \in Slots : entry[d][s].inode # NoNum /\ entry[d][s].name = n}
(* add_entry takes the first free slot. *)
Unused(d) == {s \in Slots : entry[d][s].inode = NoNum}
(* "not even root can read/write a deleted file" *)
permission(i) == i_nlinks[i] > 0

(* The inodes that are being made and have no entry yet *)
Unborn == {call[t].held : t \in {u \in Tasks : step[u] = "add" /\ call[u].op # "link"}}
(* The inode whose number was read is no more, or another one by now. *)
Gone(i) == kind[i] = "free" \/ i \in Unborn

(* A system call with a path: get_dir starts at the root.  link has looked *)
(* up the old name before, as open does.                                   *)
Begin(t, op, path) ==
  /\ \/ step[t] = "user" /\ op # "link" /\ Goto(t, "search", [NoCall EXCEPT !.op = op, !.path = path, !.dir = 1])
     \/ /\ step[t] = "open" /\ op = "link" /\ kind[call[t].held] = "file"
        /\ Goto(t, "search", [NoCall EXCEPT !.op = op, !.path = path, !.dir = 1,
                                            !.held = call[t].held])
  /\ UNCHANGED <<kind, i_nlinks, entry, race>>

(* sys_close, or the end of a call that needs the inode no longer *)
Close(t) == step[t] = "open" /\ Give_up(t) /\ race' = race

(* get_dir: one component; the directory is put before the next is got.    *)
Component(t) ==
  LET c == call[t]
      found == find_entry(c.dir, Head(c.path))
  IN /\ step[t] = "search" /\ Len(c.path) > 1
     /\ \/ found = {} /\ Give_up(t)
        \/ /\ found # {}
           /\ Continue(t, "enter", [c EXCEPT !.path = Tail(@), !.dir = NoNum,
                                             !.num = entry[c.dir][Min(found)].inode])
     /\ race' = race
Enter(t) ==
  LET c == call[t] IN
  /\ step[t] = "enter"
  /\ \/ /\ kind[c.num] = "dir" /\ permission(c.num)
        /\ Continue(t, "search", [c EXCEPT !.dir = c.num, !.num = NoNum])
     \/ (kind[c.num] # "dir" \/ ~permission(c.num)) /\ Give_up(t)
  /\ Race(Gone(c.num), "stale")

(* namei and open_namei: the name is there. *)
Found(t) ==
  LET c == call[t]
      found == find_entry(c.dir, Head(c.path))
      s == Min(found)
  IN /\ step[t] = "search" /\ Len(c.path) = 1 /\ found # {}
     /\ \/ c.op \in {"mkdir", "link"} /\ Give_up(t)
        \/ c.op \in {"rmdir", "unlink"} /\ ~permission(c.dir) /\ Give_up(t)
        \/ /\ c.op \in {"rmdir", "unlink"} /\ permission(c.dir)
           /\ Continue(t, "node", [c EXCEPT !.slot = s, !.num = entry[c.dir][s].inode])
        \/ /\ c.op \in {"open", "creat"}
           /\ Continue(t, "node", [c EXCEPT !.dir = NoNum, !.num = entry[c.dir][s].inode])
     /\ race' = race

(* new_inode, if there is a free one *)
new_inode(t, sort) ==
  LET c == call[t]
      free == {i \in Inums : kind[i] = "free"}
      i == Min(free)
  IN \/ free = {} /\ Give_up(t)
     \/ /\ free # {}
        /\ Proceed(t, "add", [c EXCEPT !.held = i], [kind EXCEPT ![i] = sort],
                   [i_nlinks EXCEPT ![i] = 1], [entry EXCEPT ![i] = Blank])

NotThere(t) ==
  step[t] = "search" /\ Len(call[t].path) = 1 /\ find_entry(call[t].dir, Head(call[t].path)) = {}

(* The name is not there: an error, or open_namei makes a file.            *)
Missing(t) ==
  LET c == call[t] IN
  /\ NotThere(t) /\ race' = race
  /\ \/ (c.op \notin {"creat", "mkdir", "link"} \/ ~permission(c.dir)) /\ Give_up(t)
     \/ c.op = "creat" /\ permission(c.dir) /\ new_inode(t, "file")

(* sys_mkdir up to its new_block *)
MakeDir(t) ==
  /\ NotThere(t) /\ call[t].op = "mkdir" /\ permission(call[t].dir)
  /\ new_inode(t, "dir") /\ race' = race

(* sys_link, up to add_entry for the inode it holds *)
MakeLink(t) ==
  /\ NotThere(t) /\ call[t].op = "link" /\ permission(call[t].dir)
  /\ Continue(t, "add", call[t]) /\ race' = race

(* The new inode is given up: new_block or add_entry has failed. *)
AddFails(t) ==
  LET c == call[t] IN
  /\ step[t] = "add"
  /\ Unused(c.dir) = {} \/ c.op = "mkdir"
  /\ Proceed(t, "user", NoCall, kind,
             IF c.op = "link" THEN i_nlinks ELSE [i_nlinks EXCEPT ![c.held] = 0], entry)
  /\ race' = race

(* The links behind add_entry: in mkdir . and .. count; link has one more. *)
Mkdired(c) == [i_nlinks EXCEPT ![c.held] = 2, ![c.dir] = @ + 1]
Relinked(c) == [i_nlinks EXCEPT ![c.held] = @ + 1]
Linked(c) ==
  CASE c.op = "creat" -> i_nlinks
    [] c.op = "mkdir" -> Mkdired(c)
    [] c.op = "link" -> Relinked(c)

(* The end of open_namei, sys_mkdir and sys_link: add_entry, and at once   *)
(* the inode is put into the entry.                                        *)
add_entry(t) ==
  LET c == call[t]
      n == Head(c.path)
      s == Min(Unused(c.dir))
  IN /\ step[t] = "add" /\ Unused(c.dir) # {}
     /\ Proceed(t, IF c.op = "creat" THEN "open" ELSE "user",
                IF c.op = "creat" THEN [NoCall EXCEPT !.held = c.held] ELSE NoCall,
                kind, Linked(c), [entry EXCEPT ![c.dir][s] = [name |-> n, inode |-> c.held]])
     /\ race' = IF i_nlinks[c.dir] = 0 THEN "orphan"
               ELSE IF find_entry(c.dir, n) # {} THEN "twice" ELSE race

Dec(n) == (n + 255) % 256    \* an unsigned char

(* iget has the inode: open is done; unlink and rmdir look at its kind.    *)
Open(t) ==
  LET c == call[t] IN
  /\ step[t] = "node" /\ c.op \in {"open", "creat"}
  /\ \/ /\ permission(c.num) /\ (kind[c.num] = "file" \/ c.op = "open")
        /\ Continue(t, "open", [NoCall EXCEPT !.held = c.num])
     \/ (~permission(c.num) \/ (kind[c.num] # "file" /\ c.op = "creat")) /\ Give_up(t)
  /\ Race(Gone(c.num), "stale")

(* The entry is cleared, whatever is in it by now. *)
Clear(c) == [entry EXCEPT ![c.dir][c.slot] = NoEntry]
Stale(c) == Gone(c.num) \/ entry[c.dir][c.slot].inode # c.num

unlink(t) ==
  LET c == call[t]
      links == IF i_nlinks[c.num] = 0 THEN 1 ELSE i_nlinks[c.num]
  IN /\ step[t] = "node" /\ c.op = "unlink"
     /\ \/ kind[c.num] = "dir" /\ Give_up(t)
        \/ /\ kind[c.num] # "dir"
           /\ Proceed(t, "user", NoCall, kind, [i_nlinks EXCEPT ![c.num] = Dec(links)], Clear(c))
     /\ Race(Stale(c), "stale")

rmdir(t) ==
  LET c == call[t] IN
  /\ step[t] = "node" /\ c.op = "rmdir"
  /\ \/ (c.num = c.dir \/ kind[c.num] # "dir") /\ Give_up(t)
     \/ c.num # c.dir /\ kind[c.num] = "dir" /\ Continue(t, "empty", [c EXCEPT !.held = c.num])
  /\ Race(Stale(c), "stale")

(* Mutant: nobody looks whether the directory is empty. *)
EmptiedAny(t) ==
  LET c == call[t] IN
  /\ step[t] = "empty"
  /\ Proceed(t, "user", NoCall, kind,
             [i_nlinks EXCEPT ![c.held] = 0, ![c.dir] = Dec(@)], Clear(c))
  /\ Race(Stale(c), "stale")

empty_dir(i) == Unused(i) = Slots

(* rmdir behind the bread of empty_dir *)
Emptied(t) ==
  LET c == call[t] IN
  /\ step[t] = "empty"
  /\ \/ ~empty_dir(c.held) /\ Give_up(t)
     \/ /\ empty_dir(c.held)
        /\ Proceed(t, "user", NoCall, kind,
                   [i_nlinks EXCEPT ![c.held] = 0, ![c.dir] = Dec(@)], Clear(c))
  /\ Race(Stale(c), "stale")

(* Behind a race the directories are not followed. *)
NamesNext ==
  /\ race = "no"
  /\ \E t \in Tasks :
       \/ \E op \in Ops, path \in Paths : Begin(t, op, path)
       \/ Close(t) \/ Component(t) \/ Enter(t) \/ Found(t) \/ Missing(t) \/ MakeDir(t)
       \/ MakeLink(t) \/ AddFails(t) \/ add_entry(t) \/ Open(t) \/ unlink(t) \/ rmdir(t) \/ Emptied(t)

-----------------------------------------------------------------------------
(* The entries of an inode, in directories that are not removed; the .. of *)
(* a directory counts for the one that has its entry.                      *)
EntriesOf(i) == {<<d, s>> \in Inums \X Slots :
                   kind[d] = "dir" /\ i_nlinks[d] > 0 /\ entry[d][s].inode = i}
Subdirs(i) == {s \in Slots : entry[i][s].inode # NoNum /\ kind[entry[i][s].inode] = "dir"}
(* creat, mkdir, rmdir, unlink and link, step by step with those of other  *)
(* tasks: i_nlinks is the number of entries, with . and .., so that an     *)
(* inode is freed with its last entry, and no entry names a free inode.    *)
LinksExact ==
  race = "no" =>
    \A i \in Inums \ Unborn :
      /\ EntriesOf(i) # {} => kind[i] # "free"
      /\ kind[i] = "file" => i_nlinks[i] = Cardinality(EntriesOf(i))
      /\ kind[i] = "dir" /\ i # 1 =>
           i_nlinks[i] = (IF EntriesOf(i) = {} THEN 0 ELSE 2 + Cardinality(Subdirs(i)))
      /\ i = 1 => i_nlinks[i] = 2 + Cardinality(Subdirs(i))
=============================================================================
