------------------------------ MODULE Security ------------------------------
(***************************************************************************)
(* Encryption of files: encr, decr, keyset and keyclear of kernel/sys.c,   *)
(* the work on files and directories in fs/security.c, file_write on       *)
(* encrypted files, and the key timeouts in schedule().                    *)
(*                                                                         *)
(* An action is what a task does between two places where it can sleep:    *)
(* the bread of a block, the iget of an entry.  The contents of a block    *)
(* are Plain, or the key it was encrypted with, or Garbled: by module      *)
(* Cipher decryption undoes encryption with the same key, and with it only.*)
(***************************************************************************)
EXTENDS EncTable, SequencesExt

CONSTANTS Tasks, Idle,    \* task 0 is Idle; it has no key
          Global,         \* the owner of encryption_key and h_key
          Keys, NoKey,    \* NoKey: the string is empty
          hash,           \* hash()
          Plain, Garbled,
          Entries,        \* of each directory: its visible entries up to the
                          \* first free one, behind . and ..
          Blocks,         \* the number of blocks of each file
          Named,          \* bound: the files that encr, decr and open are given
          MaxTimers,      \* bound: how many timers are followed at a time; the
                          \* others do not run out
          MaxOdd          \* bound: with how many files lost or disturbed
                          \* the system is still followed

ASSUME SecurityAssumption ==
  /\ {Idle, Global} \cap Tasks = {} /\ Idle # Global
  /\ NoKey \notin Keys /\ {Plain, Garbled} \cap Keys = {} /\ Plain # Garbled
  /\ hash \in [Keys -> HKeys \ {NoHash}]
  /\ DOMAIN Entries \subseteq INodes
  /\ \A d \in DOMAIN Entries : Range(Entries[d]) \subseteq INodes
  /\ Blocks \in [INodes -> Nat \ {0}]
  /\ Named \subseteq INodes
  /\ Cardinality(INodes) < TABLE_SIZE   \* the table is never full

Dirs == DOMAIN Entries
Owners == Tasks \cup {Global}
Blocks_of(f) == 1 .. Blocks[f]

VARIABLES enc_table,
          key,         \* encryption_key, and the key of each task
          key_to_use,  \* whose key it points to
          k_timeout,   \* the owners whose timer is set
          data,        \* the contents of the blocks of each file
          pc,          \* where each task is
          job,         \* its work: see Jobs
          lost,        \* history: inodes whose entry remove_func passed over
          disturbed    \* history: files for which a race or a failure named
                       \* in Disturbs has happened
vars == <<enc_table, key, key_to_use, k_timeout, data, pc, job, lost, disturbed>>
keys == <<key, k_timeout>>

(* stack, dir and todo: the directories to come, the one at hand and what  *)
(* is left of its entries; file and block: what is transformed; back:      *)
(* where to go on after it; with: the key at its start.                    *)
Jobs == [op : {"none", "encr", "decr", "write"}, stack : Seq(Dirs), dir : Dirs \cup {0},
         todo : Seq(INodes), file : INodes \cup {0}, block : Nat,
         back : {"user", "pop", "entry"}, with : Keys \cup {NoKey}, is_encr : BOOLEAN]
NoJob == [op |-> "none", stack |-> <<>>, dir |-> 0, todo |-> <<>>, file |-> 0,
          block |-> 0, back |-> "user", with |-> NoKey, is_encr |-> FALSE]

(* "lost": it takes encrypted bytes for directory entries; what it does    *)
(* then is not followed.  "dead": a division by zero in kernel mode.       *)
Places == {"user", "pop", "entry", "block", "write", "lost", "dead"}

TypeOK ==
  /\ enc_table \in Tables
  /\ key \in [Owners -> Keys \cup {NoKey}]
  /\ key_to_use \in Owners
  /\ k_timeout \subseteq Owners
  /\ DOMAIN data = INodes
  /\ \A f \in INodes : data[f] \in [Blocks_of(f) -> Keys \cup {Plain, Garbled}]
  /\ pc \in [Tasks -> Places] /\ job \in [Tasks -> Jobs]
  /\ lost \subseteq INodes /\ disturbed \subseteq INodes

Init ==
  /\ enc_table = clear_table
  /\ key = [o \in Owners |-> NoKey] /\ key_to_use = Global /\ k_timeout = {}
  /\ data = [f \in INodes |-> [b \in Blocks_of(f) |-> Plain]]
  /\ pc = [t \in Tasks |-> "user"] /\ job = [t \in Tasks |-> NoJob]
  /\ lost = {} /\ disturbed = {}

-----------------------------------------------------------------------------
(* Keys.                                                                   *)

(* (!current->key[0])?encryption_key:current->key *)
Whose(ks, t) == IF ks[t] = NoKey THEN Global ELSE t
KeyOf(t) == key[Whose(key, t)]
InUse == key[key_to_use]

(* The timers that are followed once those of S are set *)
Timed(S) == {T \in SUBSET S : Cardinality(T) <= MaxTimers /\ (Cardinality(S) <= MaxTimers => T = S)}

(* sys_keyset, sys_keygen: set_key *)
Keyset(t, k, o) ==
  /\ pc[t] = "user" /\ o \in {t, Global}
  /\ key' = [key EXCEPT ![o] = k]
  /\ k_timeout' \in Timed(k_timeout \cup {o})
  /\ key_to_use' = Whose(key', t)
  /\ UNCHANGED <<enc_table, data, pc, job, lost, disturbed>>

(* sys_keyclear: the timer stays set. *)
Keyclear(t, o) ==
  /\ pc[t] = "user" /\ o \in {t, Global}
  /\ key' = [key EXCEPT ![o] = NoKey]
  /\ UNCHANGED <<enc_table, key_to_use, k_timeout, data, pc, job, lost, disturbed>>

(* schedule(), called by c, finds that a key has timed out: sys_keyclear   *)
(* clears the global key, or the one of c.                                 *)
Timeout(c, o) ==
  /\ o \in k_timeout
  /\ c # Idle => pc[c] \notin {"dead", "lost"}
  /\ LET cleared == IF o = Global THEN {Global} ELSE {c} \ {Idle}
     IN key' = [p \in Owners |-> IF p \in cleared THEN NoKey ELSE key[p]]
  /\ k_timeout' = k_timeout \ {o}
  /\ UNCHANGED <<enc_table, key_to_use, data, pc, job, lost, disturbed>>

-----------------------------------------------------------------------------
(* Starting and ending the work on one file.                               *)

Goto(t, place, j) == pc' = [pc EXCEPT ![t] = place] /\ job' = [job EXCEPT ![t] = j]
Finish(t) == Goto(t, "user", NoJob)

(* The files that others are transforming or writing *)
InWork(t) == {job[u].file : u \in {v \in Tasks \ {t} : pc[v] \in {"block", "write"}}}
(* Another key has the same hash, so compare_hash cannot tell them apart. *)
Ambiguous(k) == k # NoKey /\ \E l \in Keys \ {k} : hash[l] = hash[k]
HashOf(k) == IF k = NoKey THEN NoHash ELSE hash[k]

Disturb(files) == disturbed' = disturbed \cup files

StartBlocks(t, j, k, f, back) ==
  /\ Goto(t, "block", [j EXCEPT !.file = f, !.block = 1, !.back = back, !.with = k])
  /\ Disturb(IF f \in InWork(t) \/ Ambiguous(k) THEN {f} ELSE {})
Refuse(t, j, back) ==
  /\ Goto(t, back, IF back = "user" THEN NoJob ELSE j)
  /\ UNCHANGED <<enc_table, lost, disturbed>>

(* encrypt_file up to its first block, k being the key in use: the entry   *)
(* is made before the blocks are transformed.                              *)
encrypt_file(t, j, k, f, back) ==
  \/ Listed(enc_table, f) /\ Refuse(t, j, back)
  \/ /\ ~Listed(enc_table, f)
     /\ enc_table' = add_func(enc_table, [i_num |-> f, h_key |-> HashOf(k)])
     /\ lost' = lost
     /\ StartBlocks(t, j, k, f, back)

(* Mutant: the entry is removed whatever the key. *)
AnyHash(k, f) == Listed(enc_table, f)

(* compare_hash with the hash in the entry *)
Opens(k, f) ==
  /\ Listed(enc_table, f)
  /\ enc_table[Place(enc_table, f)].h_key = HashOf(k)

(* decrypt_file up to its first block: the entry is taken out. *)
decrypt_file(t, j, k, f, back) ==
  \/ ~Opens(k, f) /\ Refuse(t, j, back)
  \/ /\ Opens(k, f)
     /\ enc_table' = remove_func(enc_table, f)
     /\ lost' = lost \cup PassedOver(enc_table, f)
     /\ StartBlocks(t, j, k, f, back)

(* namei finds f, from the directory it is in at the least. *)
Found(f) == \A d \in Dirs : f \in Range(Entries[d]) => data[d][1] = Plain

Start(t, f) ==
  /\ pc[t] = "user"
  /\ key_to_use' = Whose(key, t)
  /\ UNCHANGED <<key, k_timeout, data>>
Push(t, op, d) ==
  /\ Goto(t, "pop", [NoJob EXCEPT !.op = op, !.stack = <<d>>])
  /\ UNCHANGED <<enc_table, lost, disturbed>>

(* sys_encr, which for a directory is encrypt_directory *)
Encr(t, f) ==
  /\ Start(t, f)
  /\ LET k == KeyOf(t)
     IN \/ (~Found(f) \/ k = NoKey) /\ Refuse(t, NoJob, "user")
        \/ /\ Found(f) /\ k # NoKey
           /\ \/ f \notin Dirs /\ encrypt_file(t, [NoJob EXCEPT !.op = "encr"], k, f, "user")
              \/ f \in Dirs /\ Listed(enc_table, f) /\ Refuse(t, NoJob, "user")
              \/ f \in Dirs /\ ~Listed(enc_table, f) /\ Push(t, "encr", f)

(* sys_decr, which for a directory is decrypt_directory *)
Decr(t, f) ==
  /\ Start(t, f)
  /\ LET k == KeyOf(t)
     IN \/ (~Found(f) \/ k = NoKey) /\ Refuse(t, NoJob, "user")
        \/ /\ Found(f) /\ k # NoKey
           /\ \/ f \notin Dirs /\ decrypt_file(t, [NoJob EXCEPT !.op = "decr"], k, f, "user")
              \/ f \in Dirs /\ ~Opens(k, f) /\ Refuse(t, NoJob, "user")
              \/ f \in Dirs /\ Opens(k, f) /\ Push(t, "decr", f)

-----------------------------------------------------------------------------
(* The loops over directories and blocks.                                  *)

(* The next directory: a decryption begins with the directory itself. *)
Pop(t) ==
  /\ pc[t] = "pop"
  /\ UNCHANGED <<key, k_timeout, key_to_use, data>>
  /\ LET j == job[t]
         d == Last(j.stack)
         jd == [j EXCEPT !.stack = Front(j.stack), !.dir = d, !.todo = Entries[d]]
     IN \/ j.stack = <<>> /\ Refuse(t, j, "user")
        \/ /\ j.stack # <<>> /\ j.op = "encr"
           /\ Goto(t, "entry", jd) /\ UNCHANGED <<enc_table, lost, disturbed>>
        \/ /\ j.stack # <<>> /\ j.op = "decr"
           /\ decrypt_file(t, jd, InUse, d, "entry")

(* The next entry, in the buffer of the directory: a directory is pushed,  *)
(* a file is transformed.  An encryption ends with the directory itself.   *)
Entry(t) ==
  /\ pc[t] = "entry"
  /\ UNCHANGED <<key, k_timeout, key_to_use, data>>
  /\ LET j == job[t]
         e == Head(j.todo)
         je == [j EXCEPT !.todo = Tail(j.todo)]
         Same == UNCHANGED <<enc_table, lost, disturbed>>
     IN \/ data[j.dir][1] # Plain /\ Goto(t, "lost", NoJob) /\ Same
        \/ /\ data[j.dir][1] = Plain
           /\ \/ /\ j.todo = <<>> /\ j.op = "encr"
                 /\ encrypt_file(t, j, InUse, j.dir, "pop")
              \/ j.todo = <<>> /\ j.op = "decr" /\ Goto(t, "pop", j) /\ Same
              \/ /\ j.todo # <<>> /\ e \in Dirs
                 /\ Goto(t, "entry", [je EXCEPT !.stack = Append(@, e)]) /\ Same
              \/ /\ j.todo # <<>> /\ e \notin Dirs /\ j.op = "encr"
                 /\ encrypt_file(t, je, InUse, e, "entry")
              \/ /\ j.todo # <<>> /\ e \notin Dirs /\ j.op = "decr"
                 /\ decrypt_file(t, je, InUse, e, "entry")

(* encrypt_block and decrypt_block with key k *)
Encrypted(d, k) == IF d = Plain THEN k ELSE Garbled
Decrypted(d, k) == IF d = k THEN Plain ELSE Garbled

(* The block exists: bmap is not 0. *)
MoreBlocks(j) == j.block <= Blocks[j.file]

(* One turn of the loop of encrypt_file or decrypt_file: bread, transform. *)
(* The key is the one key_to_use points to now.                            *)
Block(t) ==
  /\ pc[t] = "block"
  /\ UNCHANGED <<enc_table, key, k_timeout, key_to_use, lost>>
  /\ LET j == job[t]
         f == j.file
         Leave == Goto(t, j.back, IF j.back = "user" THEN NoJob ELSE j)
     IN \/ ~MoreBlocks(j) /\ Leave /\ UNCHANGED <<data, disturbed>>
        \/ MoreBlocks(j) /\ Leave /\ Disturb({f}) /\ data' = data   \* bread fails
        \/ /\ MoreBlocks(j) /\ InUse = NoKey
           /\ Goto(t, "dead", NoJob) /\ Disturb({f}) /\ data' = data
        \/ /\ MoreBlocks(j) /\ InUse # NoKey
           /\ data' = [data EXCEPT ![f][j.block] =
                         IF j.op = "encr" THEN Encrypted(@, InUse) ELSE Decrypted(@, InUse)]
           /\ Goto(t, "block", [j EXCEPT !.block = @ + 1])
           /\ Disturb(IF InUse # j.with THEN {f} ELSE {})

(* file_write to an open file, block by block from the first one; it ends  *)
(* where it likes.                                                         *)
BeginWrite(t, f) ==
  /\ pc[t] = "user" /\ f \notin Dirs
  /\ Goto(t, "write", [NoJob EXCEPT !.op = "write", !.file = f, !.block = 1])
  /\ Disturb(IF f \in InWork(t) THEN {f} ELSE {})
  /\ UNCHANGED <<enc_table, key, k_timeout, key_to_use, data, lost>>

(* A block whose file is listed is decrypted if the writer has a key, with *)
(* the key in use; is_encr stays set for the blocks that follow.           *)
WriteBlock(t, whole) ==
  /\ pc[t] = "write"
  /\ UNCHANGED <<enc_table, key, k_timeout, key_to_use, lost>>
  /\ LET j == job[t]
         f == j.file
         listed == KeyOf(t) # NoKey /\ Listed(enc_table, f)
         is_encr == j.is_encr \/ listed
         old == data[f][j.block]
         opened == IF listed THEN Decrypted(old, InUse) ELSE old
         written == IF whole \/ opened = Plain THEN Plain ELSE Garbled
     IN /\ MoreBlocks(j)
        /\ IF is_encr /\ InUse = NoKey
           THEN Goto(t, "dead", NoJob) /\ Disturb({f}) /\ data' = data
           ELSE /\ data' = [data EXCEPT ![f][j.block] =
                              IF is_encr THEN Encrypted(written, InUse) ELSE written]
                /\ Goto(t, "write", [j EXCEPT !.block = @ + 1, !.is_encr = is_encr])
                /\ Disturb(IF \/ listed # Listed(enc_table, f) \/ is_encr # listed
                              \/ is_encr /\ ~Opens(InUse, f)
                              \/ is_encr /\ Ambiguous(InUse)
                           THEN {f} ELSE {})
EndWrite(t) ==
  /\ pc[t] = "write"
  /\ Finish(t)
  /\ UNCHANGED <<enc_table, keys, key_to_use, data, lost, disturbed>>

-----------------------------------------------------------------------------
Next ==
  /\ Cardinality(lost \cup disturbed) <= MaxOdd
  /\ \/ \E t \in Tasks, o \in Owners : Keyclear(t, o) \/ \E k \in Keys : Keyset(t, k, o)
     \/ \E c \in Tasks \cup {Idle}, o \in Owners : Timeout(c, o)
     \/ \E t \in Tasks, f \in Named : Encr(t, f) \/ Decr(t, f) \/ BeginWrite(t, f)
     \/ \E t \in Tasks : Pop(t) \/ Entry(t) \/ Block(t) \/ EndWrite(t)
     \/ \E t \in Tasks, whole \in BOOLEAN : WriteBlock(t, whole)

Spec == Init /\ [][Next]_vars

-----------------------------------------------------------------------------
EntriesOf(f) == {n \in Indices : enc_table[n].i_num = f}

(* add_func, remove_func and search_func: of an inode that remove_func has *)
(* never passed over there is at most one entry, and a search finds it.    *)
TableExact ==
  /\ TypeOK
  /\ \A f \in INodes \ lost : /\ Cardinality(EntriesOf(f)) <= 1
                             /\ EntriesOf(f) # {} => Listed(enc_table, f)

AtRest(f) == \A t \in Tasks : pc[t] \in {"block", "write"} => job[t].file # f

(* encrypt_file, decrypt_file and file_write: when nobody works on a file, *)
(* all of its blocks are encrypted with a key of the hash in its entry, or *)
(* it has no entry and all are plain; whatever was refused, done halfway   *)
(* by directories, or written meanwhile.  The exceptions are named in      *)
(* `disturbed`.                                                            *)
FilesMatchTable ==
  \A f \in INodes \ (lost \cup disturbed) :
    AtRest(f) =>
      \A b \in Blocks_of(f) :
        IF Listed(enc_table, f)
        THEN /\ data[f][b] \in Keys
             /\ hash[data[f][b]] = enc_table[Place(enc_table, f)].h_key
        ELSE data[f][b] = Plain

(* schedule(): "check if key session timed out" (sched.c:81) and "process  *)
(* [%d] key cleared" (sched.c:83): when the time of a task's key is over,  *)
(* its key is cleared.                                                     *)
TimeoutClears ==
  [][\A t \in Tasks : t \in k_timeout \ k_timeout' => key'[t] = NoKey]_vars
=============================================================================
