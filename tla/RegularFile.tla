----------------------------- MODULE RegularFile -----------------------------
(***************************************************************************)
(* Reading and writing by position: sys_lseek, sys_read and sys_write of   *)
(* fs/read_write.c, file_read and file_write of fs/file_dev.c, block_read  *)
(* and block_write of fs/block_dev.c, on one inode that several tasks have *)
(* open through shared or separate struct files.                           *)
(*                                                                         *)
(* An action is what a task does until it sleeps: in the getblk of         *)
(* new_block, or in the bread of the block at hand.  An encrypted file is  *)
(* seen through its key (modules Cipher and Security).                     *)
(***************************************************************************)
EXTENDS Naturals, FiniteSetsExt

CONSTANTS Tasks, Filps, BLOCK_SIZE,
          MaxPos      \* bound: where lseek and write go at most

Block(p) == p \div BLOCK_SIZE
Offsets == 0 .. BLOCK_SIZE - 1
AllBlocks == {Block(p) : p \in 0 .. MaxPos - 1}
Positions == {b * BLOCK_SIZE + o : b \in AllBlocks, o \in Offsets}
Junk == 1             \* what decryption makes of a cleared block

VARIABLES i_mode,     \* "regular", "encrypted" or "device"
          fd,         \* the struct file of each task
          append,     \* those with O_APPEND
          f_pos, i_size,
          zones,      \* the blocks that the file has
          bytes,      \* the contents of each block
          doing,         \* where each task is
          io,         \* its call: the block it sleeps for, the position in
                      \* the file it writes next, what is left to do
          stored,     \* history: what was written last at each position; 0
                      \* is a byte nobody has written
          misread,    \* history: a read has given another byte than that
          moved,      \* history: readers that slept while another task moved
                      \* the position they share
          spoiled     \* history: see Spoilt
ioVars == <<i_mode, fd, append, f_pos, i_size, zones, bytes, doing, io, stored,
            misread, moved, spoiled>>

(* twice: two writers have made a block for the same place, and the first  *)
(* one is gone with its bytes; astray: block_read or block_write has gone  *)
(* past the end of a buffer.  The rest is not followed.                    *)
Spoilt == {"no", "twice", "astray"}
NoIo == [op |-> "none", block |-> 0, pos |-> 0, left |-> 0]

IoTypeOK ==
  /\ i_mode \in {"regular", "encrypted", "device"}
  /\ fd \in [Tasks -> Filps] /\ append \subseteq Filps
  /\ f_pos \in [Filps -> Nat] /\ i_size \in 0 .. MaxPos /\ zones \subseteq AllBlocks
  /\ bytes \in [AllBlocks -> [Offsets -> Tasks \cup {0, Junk}]]
  /\ doing \in [Tasks -> {"user", "getblk", "bread"}]
  /\ stored \in [Positions -> Tasks \cup {0}]
  /\ misread \in BOOLEAN /\ moved \subseteq Tasks /\ spoiled \in Spoilt

Fresh == [o \in Offsets |-> IF i_mode = "encrypted" THEN Junk ELSE 0]

IoInit ==
  /\ i_mode \in {"regular", "encrypted", "device"}
  /\ fd \in [Tasks -> Filps] /\ append \in SUBSET Filps
  /\ f_pos = [f \in Filps |-> 0] /\ i_size = 0
  /\ zones = IF i_mode = "device" THEN AllBlocks ELSE {}
  /\ bytes = [b \in AllBlocks |-> [o \in Offsets |-> 0]]
  /\ doing = [t \in Tasks |-> "user"] /\ io = [t \in Tasks |-> NoIo]
  /\ stored = [p \in Positions |-> 0]
  /\ misread = FALSE /\ moved = {} /\ spoiled = "no"

-----------------------------------------------------------------------------
Go(t, place, j) == doing' = [doing EXCEPT ![t] = place] /\ io' = [io EXCEPT ![t] = j]
Return(t) == Go(t, "user", NoIo)

(* The position of the struct file of t becomes p.                         *)
Move(t, p) ==
  /\ f_pos' = [f_pos EXCEPT ![fd[t]] = p]
  /\ moved' = (IF p = f_pos[fd[t]] THEN moved
               ELSE moved \cup {u \in Tasks : fd[u] = fd[t] /\ io[u].op = "read"}) \ {t}

(* sys_lseek: offset, f_pos + offset or i_size + offset, never below 0     *)
sys_lseek(t, p) ==
  /\ doing[t] = "user" /\ Move(t, p)
  /\ UNCHANGED <<i_mode, fd, append, i_size, zones, bytes, doing, io, stored, misread, spoiled>>

(* Mutant: as much as a block holds, wherever in it the position is. *)
WholeChars(p, left) == Min({BLOCK_SIZE, left})

(* chars: what is left of the block, or of the call *)
Chars(p, left) == Min({BLOCK_SIZE - (p % BLOCK_SIZE), left})

(* What is wrong with the n bytes at offset o of block b, taken for those  *)
(* at position p                                                           *)
Wrong(b, o, p, n) == \E i \in 0 .. n - 1 : bytes[b][o + i] # stored[p + i]

(* file_read with l bytes to go at p: holes give zeros, until a block must *)
(* be read.                                                                *)
ReadOn(t, p, l) ==
  LET q == Min({x \in p .. p + l : x = p + l \/ Block(x) \in zones}) IN
  /\ Move(t, q)
  /\ \/ q = p + l /\ Return(t)
     \/ q < p + l /\ Go(t, "bread", [op |-> "read", block |-> Block(q), pos |-> 0,
                                     left |-> p + l - q])

(* sys_read: nothing past the end of the file *)
sys_read(t, count) ==
  LET p == f_pos[fd[t]] IN
  /\ i_mode # "device" /\ doing[t] = "user" /\ p < i_size
  /\ ReadOn(t, p, Min({count, i_size - p}))
  /\ UNCHANGED <<i_mode, fd, append, i_size, zones, bytes, stored, misread, spoiled>>

(* The bread of file_read returns; the position is the one of now.  From   *)
(* an encrypted block the bytes are taken from its start.                  *)
ReadReturn(t) ==
  LET p == f_pos[fd[t]]
      n == Chars(p, io[t].left)
      o == IF i_mode = "encrypted" THEN 0 ELSE p % BLOCK_SIZE
  IN /\ i_mode # "device" /\ doing[t] = "bread" /\ io[t].op = "read"
     /\ \/ Return(t) /\ Move(t, p) /\ misread' = misread   \* an error
        \/ /\ misread' = (misread \/ (t \notin moved /\ Wrong(io[t].block, o, p, n)))
           /\ ReadOn(t, p + n, io[t].left - n)
     /\ UNCHANGED <<i_mode, fd, append, i_size, zones, bytes, stored, spoiled>>

-----------------------------------------------------------------------------
(* The end of file_write *)
WriteEnd(t, p) ==
  /\ Return(t)
  /\ IF fd[t] \in append THEN UNCHANGED <<f_pos, moved>> ELSE Move(t, p)

(* file_write with l bytes to go at p: create_block makes the block that   *)
(* is missing, or finds no room for it.                                    *)
WriteOn(t, p, l) ==
  LET j == [op |-> "write", block |-> Block(p), pos |-> p, left |-> l] IN
  \/ l = 0 /\ WriteEnd(t, p)
  \/ l > 0 /\ Block(p) \in zones /\ Go(t, "bread", j) /\ UNCHANGED <<f_pos, moved>>
  \/ l > 0 /\ Block(p) \notin zones /\ Go(t, "getblk", j) /\ UNCHANGED <<f_pos, moved>>
  \/ l > 0 /\ Block(p) \notin zones /\ WriteEnd(t, p)

(* sys_write: to the end of the file, or to the position, as they are now  *)
sys_write(t, count) ==
  LET p == IF fd[t] \in append THEN i_size ELSE f_pos[fd[t]] IN
  /\ i_mode # "device" /\ doing[t] = "user" /\ p + count <= MaxPos
  /\ WriteOn(t, p, count)
  /\ UNCHANGED <<i_mode, fd, append, i_size, zones, bytes, stored, misread, spoiled>>

(* The getblk of new_block returns: the cleared block is put into the file,*)
(* whatever is there by now.                                               *)
BlockMade(t) ==
  LET b == io[t].block IN
  /\ doing[t] = "getblk" /\ Go(t, "bread", io[t])
  /\ zones' = zones \cup {b} /\ bytes' = [bytes EXCEPT ![b] = Fresh]
  /\ spoiled' = IF b \in zones THEN "twice" ELSE spoiled
  /\ UNCHANGED <<i_mode, fd, append, f_pos, i_size, stored, misread, moved>>

(* n bytes of t at position p, which is offset o of block b *)
Copy(t, b, o, p, n) ==
  /\ bytes' = [bytes EXCEPT ![b] = [x \in Offsets |-> IF x \in o .. o + n - 1 THEN t ELSE @[x]]]
  /\ stored' = [x \in Positions |-> IF x \in p .. p + n - 1 THEN t ELSE stored[x]]

(* i_size when n bytes have been written at p *)
Grown(p, n) == Max({i_size, p + n})

(* The bread of file_write returns. *)
WriteReturn(t) ==
  LET p == io[t].pos
      n == Chars(p, io[t].left)
  IN /\ i_mode # "device" /\ doing[t] = "bread" /\ io[t].op = "write"
     /\ \/ WriteEnd(t, p) /\ UNCHANGED <<bytes, stored, i_size>>   \* an error
        \/ /\ Copy(t, io[t].block, p % BLOCK_SIZE, p, n) /\ i_size' = Grown(p, n)
           /\ WriteOn(t, p + n, io[t].left - n)
     /\ UNCHANGED <<i_mode, fd, append, zones, misread, spoiled>>

-----------------------------------------------------------------------------
(* block_read and block_write: the position is looked at once, a block is  *)
(* filled to BLOCK_SIZE bytes wherever they start.                         *)
DeviceStart(t, op, count) ==
  LET p == f_pos[fd[t]] IN
  /\ i_mode = "device" /\ doing[t] = "user" /\ p + count <= MaxPos
  /\ Go(t, "bread", [op |-> op, block |-> Block(p), pos |-> p, left |-> count])
  /\ UNCHANGED <<i_mode, fd, append, f_pos, i_size, zones, bytes, stored, misread, moved,
                 spoiled>>

DeviceReturn(t) ==
  LET j == io[t]
      n == Min({j.left, BLOCK_SIZE})
      o == j.pos % BLOCK_SIZE
      over == o + n > BLOCK_SIZE
  IN /\ i_mode = "device" /\ doing[t] = "bread"
     /\ \/ Return(t) /\ UNCHANGED <<f_pos, bytes, stored, misread, spoiled>>   \* an error
        \/ /\ f_pos' = [f_pos EXCEPT ![fd[t]] = @ + n]
           /\ IF j.left > n
              THEN Go(t, "bread", [j EXCEPT !.block = @ + 1, !.pos = @ + n, !.left = @ - n])
              ELSE Return(t)
           /\ spoiled' = IF over THEN "astray" ELSE spoiled
           /\ IF j.op = "write" /\ ~over
              THEN Copy(t, j.block, o, j.pos, n) ELSE UNCHANGED <<bytes, stored>>
           /\ misread' = (misread \/ (j.op = "read" /\ ~over /\ Wrong(j.block, o, j.pos, n)))
     /\ UNCHANGED <<i_mode, fd, append, i_size, zones, moved>>

IoNext ==
  /\ spoiled = "no"
  /\ \E t \in Tasks :
       \/ \E p \in 0 .. MaxPos : sys_lseek(t, p)
       \/ \E count \in 1 .. MaxPos :
            \/ sys_read(t, count) \/ sys_write(t, count)
            \/ \E op \in {"read", "write"} : DeviceStart(t, op, count)
       \/ ReadReturn(t) \/ BlockMade(t) \/ WriteReturn(t) \/ DeviceReturn(t)

-----------------------------------------------------------------------------
(* file_write, file_read and their loops over blocks: what was written     *)
(* last at a position is there, holes and what nobody wrote are zeros,     *)
(* i_size is just behind the last byte, and a read gives the bytes of the  *)
(* positions that it moves over, whoever else reads, writes and seeks, but *)
(* for a shared position moved under a sleeping reader, the offset that    *)
(* file_read forgets in an encrypted file, and Spoilt.                     *)
BytesExact ==
  spoiled = "no" =>
    /\ \A p \in Positions :
         bytes[Block(p)][p % BLOCK_SIZE] # stored[p] => i_mode = "encrypted" /\ stored[p] = 0
    /\ i_mode # "device" => i_size = Max({0} \cup {p + 1 : p \in {q \in Positions : stored[q] # 0}})
    /\ misread => i_mode = "encrypted"
=============================================================================
