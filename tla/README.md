# A verification of the devos kernel

devos is the Linux 0.01 kernel with a layer of file encryption.  This
directory holds TLA+ modules that model its parts, the TLC configurations that
check them on small instances, and proofs, checked by TLAPS, that some of what
TLC checks holds for every instance.

## The system

The kernel is not preemptive.  A task in the kernel runs until it calls
`schedule()` (it sleeps, pauses or exits) or returns to user mode; the timer
takes the processor from user mode only.  So tasks interleave only where the
code sleeps.  Interrupt handlers (disk, keyboard, serial lines, timer) come
between any two instructions unless `cli()` has been called.  This is where
nearly all of what is hard in this code comes from: a value read before a
sleep and used after it, and a handler between two stores.

| part | source | state | operations | what makes it correct |
|---|---|---|---|---|
| wait queues | kernel/sched.c | one pointer per queue, `tmp` on the stacks, task states | sleep_on, interruptible_sleep_on, wake_up | nobody sleeps forgotten; pointers only to tasks asleep on the queue |
| scheduler | kernel/sched.c | counter, priority, alarm, signal, k_timeout of each task | schedule, do_timer, sys_alarm, sys_pause | no starvation; signals wake; a key is cleared when, and only when, its time is over |
| pipes | fs/pipe.c | a page as a ring, i_count, f_count | read_pipe, write_pipe, sys_pipe, close, fork | FIFO; no lost wake-up; end of file is true |
| hard disk | kernel/hd.c | request list, sorting, do_hd, this_request | rw_abs_hd, add_request, do_request, read_intr, write_intr, errors | no request lost; the handler fits the interrupt; every call returns |
| buffer cache | fs/buffer.c | buffer heads, hash queues, free list | bread, getblk, get_hash_table, brelse, sync | one buffer per block; exact counts; nothing reassigned in use |
| in-core inodes | fs/inode.c | inode table, i_count, i_lock, i_dirt | iget, iput, get_empty_inode, read_inode, write_inode, _bmap | one inode per number; count exact across sleeps |
| bitmaps, truncate | fs/bitmap.c, fs/truncate.c, fs/super.c | zone and inode maps | new_block, free_block, new_inode, free_inode, truncate | a block is used once, or free |
| directories | fs/namei.c | directory entries | find_entry, add_entry, open_namei, mkdir, link, unlink | one entry per name; link counts |
| files, descriptors | fs/open.c, fs/fcntl.c, fs/read_write.c, fs/file_dev.c, fs/block_dev.c | file table, f_count, f_pos | open, close, dup, read, write, lseek | counts agree with the descriptors |
| terminals | kernel/tty_io.c, rs_io.s, keyboard.s, console.c | three rings per tty | tty_read, tty_write, copy_to_cooked | no character lost or repeated below the limits; readers wake |
| memory | mm/memory.c | mem_map, page tables | get_free_page, free_page, copy_page_tables, un_wp_page, do_no_page | count of a page = its references; a written page is private |
| processes | kernel/fork.c, kernel/exit.c | task table, pid, father, state | fork, exit, waitpid, kill | every zombie is reaped once; pids are unique |
| encryption | fs/security.c, kernel/sys.c | table of encrypted inodes, global and local keys, their timeouts | encr, decr, keyset, keyclear, keygen | the table says which files are transformed; decryption inverts encryption |

How they interact: system calls reach files, pipes and terminals through the
descriptors; regular files and directories go through inodes to `bread`; the
cache calls `ll_rw_block`, which queues a request in hd.c; the disk interrupt
unlocks the buffer and wakes the tasks that wait for it.  All of them sleep
with the primitives of sched.c.  The encryption layer calls `bread` block by
block, and `schedule()` calls back into it when a key times out.

`PROJECT.json` lists every component, also those not modelled, and under
"hazards" what is hard to test in this code, each at the line where it bites.

## Modules

| module | models | state and actions |
|---|---|---|
| WaitQueue | sleep_on, wake_up as operators | the record `w` (states, queue heads, tmps) |
| Sleepers, MCSleepers, SchedProofs | tasks and handlers that use them in every order | one action per stretch between two calls of schedule(); an open sleep_on is three stores |
| Sched, SchedProofs | schedule(), the timer, and the calls that change counters, priorities, alarms and signals | the tasks by number; one action per tick, call, end of a call, sleep, wake-up |
| MCScheduler | the two duties of schedule() side by side: MCSecurity, whose keys it clears, and Sched | `part` says which one a behaviour is about |
| ByteChannel | what a pipe promises | the abstract FIFO channel |
| Pipe, MCPipe, PipeProofs | fs/pipe.c, the pipe part of iput, close and fork | one action per turn of the loops of read_pipe and write_pipe, one for waking and sleeping |
| HdRequest, MCHdRequest, HdRequestProofs | kernel/hd.c | one action per store of add_request and rw_abs_hd that a handler can see; one per handler |
| EncTable | the table of fs/security.c | operators: probe, add_func, remove_func, search |
| Cipher | encrypt_block, decrypt_block | operators |
| Security, MCSecurity | kernel/sys.c, fs/security.c, file_write, key timeouts | one action per stretch between two breads or igets; one per system call on keys |
| BufferCache, MCBufferCache, BufferCacheProofs | fs/buffer.c | one action per stretch between two places where the code can sleep, or one turn of a loop |
| PrivateMemory | what memory management promises | the abstract memory of each process |
| Memory | mm/memory.c | operators on one record: mem_map, page directories and tables, contents |
| MemMap, MemMapProofs | fork, faults, execve, exit and release as far as pages go | one action per fault, store, fork, exit; execve in the stretches between its sleeps |
| Processes, ProcessesProofs | kernel/fork.c, kernel/exit.c, signal delivery | one action per system call; exit and waitpid split where they sleep |
| InodeTable, InodeTableProofs | fs/inode.c, the inode bitmap | the in-core table, the inodes on the disk, the bitmap; one action per stretch between two sleeps of iget, iput, new_inode and sync_inodes |
| BlockMap | _bmap, the zone bitmap, fs/truncate.c | the bitmap, the zones and indirect blocks; one action per stretch between two sleeps |
| Names | fs/namei.c | the entries of directories, link counts, what each call holds; one action per bread, iget or new_block |
| FileTable, FileTableProofs | fs/open.c, fs/fcntl.c, and what fork, exec, exit, encr and F2 do to files | descriptors, struct files, pwd and root; one action per call, open in two |
| RegularFile | fs/read_write.c, fs/file_dev.c, fs/block_dev.c | positions, size, blocks and bytes of one file or device; one action per stretch between two sleeps |
| Exec | do_execve: copy_strings, create_tables, load_elf_binary and the blocks it reads | argument pages, image, the section under way; one action per string, header and block |
| Tty | kernel/tty_io.c, rs_io.s, fs/tty_ioctl.c | the three rings, the copy_to_cooked under way, a reader and a writer; the keyboard handler in steps, the serial ones whole |
| Console | con_write of kernel/console.c | video memory, window, cursor, scroll region, escape state; one action per character |
| Keyboard | kernel/keyboard.s, the tools of console.c | mode bits, leds, flags, the explorer's path and row, the clipboard; one action per byte |
| MCFiles | InodeTable, BlockMap, Names, RegularFile, Exec side by side | `part` says which one a behaviour is about |
| MCProcesses | Processes and FileTable side by side: what fork and exit do to processes, and to files | the same |
| MCDevices | MemMap, Tty, Console, Keyboard and HdRequest side by side | the same |

A task's program counter `pc` names where it is; in Pipe and BufferCache `run`
is the task that has the processor.  Every module that sleeps uses WaitQueue,
so that what Sleepers shows of these operators holds wherever they are used.
HdRequest and BufferCache are two views of one interface: BufferCache takes
the disk to be what HdRequest shows of it (a locked buffer is transferred, then
its flags change and it is unlocked, or it fails), and HdRequest takes its
callers to be what BufferCache shows of them (they have waited for the lock,
and read buffers that are not valid).

The modules of the file system are layers in the same way.  Names takes an inode
to exist as long as it has a link or a holder, which is what InodeTable shows of
iget, iput and free_inode.  InodeTable takes truncate to be one sleep that frees
the zones, which is BlockMap.  RegularFile takes create_block to give a cleared
block or none, as BlockMap shows.  FileTable counts the references to an inode
that descriptors and directories hold, which InodeTable counts as users.  Below
all of them, a bread is a place where the task sleeps and after which the
contents are the latest: that is BufferCache, with its exception (Finding 2).

In the modules, definitions whose comment begins with "Mutant" are not part of
the model.  They are plausible mistakes in the code; PROJECT.json names for
each property one of them that the property's run detects.

### Where the models abstract

- Pipe: PAGE_SIZE is a constant and bytes are values; a byte moved is one step,
  although the code cannot be interrupted there by another task.  Opening a
  pipe is the initial state.
- HdRequest: hd, cyl and head are one number, the track; a block's contents are
  which half went to which sector (`moved`), since this is what retries can get
  wrong.  A handler is one step, with the interrupt of the second sector of a
  read inside the handler of the first: `read_intr` completes the request after
  the first sector and relies on this.  A slower disk would send that interrupt
  to the next request; that timing is not modelled.  The loop of add_request is
  one step; where it ends is defined by what it comes to (`Walk`), the smallest set
  with the request it starts at and what follows each one at which it does not stop.
- BufferCache: the hash queues are the set of linked buffers; one device; the
  contents of blocks appear only as "is this the last version", and only in the
  run that asks about it (constant `Versions`).  A task does not `bread` a block
  it already holds.  `sys_sync` is its loop over the buffers; the writing of the
  inodes and of the encryption table before it consists of bread, modify and
  brelse, which are actions already.
- EncTable: the hash of a key is a value; HASH2 lacks parentheses, so the probes
  step by one.  remove_func passes over the entry next to the removed one, which
  may thus become unreachable; PassedOver names it.
- Cipher: the junk on the stack is one value, since the properties leave out the
  places it can reach.
- Memory: a page table has as many entries as there are Entries, a task as many
  tables as Dirs; a page's contents are one value.  The first fork, which copies
  part of the kernel's table, is the initial state.  A panic of free_page shows
  as a negative count.
- MemMap: execve has one page of arguments, which it can touch without a fault,
  and loads nothing over them.
- Processes: a fork may fail for lack of memory at any time; MemMap shows what
  that does.  The two modules are checked apart because their states multiply;
  they meet in fork, do_exit and release, which both model, and where neither
  reads what the other one keeps, but for that failure.  Signals are SIGCHLD and
  "other", and those of a task that is exiting are dropped, since it will not
  look at them again.  waitpid by process group is left out.
- Security: the contents of a block are "plain", "encrypted with k" or "garbled":
  that decryption undoes encryption is what run crypt shows of Cipher (for keys
  without repeated letters, the last row aside; with repeated letters decrypt_block
  does not restore the block).  What a task does after it has taken the bytes of
  an encrypted directory for entries is not followed ("lost"), nor is a task that
  divides by the length of an empty key ("dead").  A cleared hash is one value.
  Keys are set by keyset; fork, which copies a key, adds no other state.
- InodeTable: times, mode, size and zones are one bit of contents; one device.
  Waiting for a lock is waiting until it is open.  get_empty_inode has code to
  wait for a locked or dirty choice; in the model, as in InodesKept, an unused
  inode is neither, so it never sleeps there.
- BlockMap: one direct zone and two entries per indirect block keep the three
  levels of _bmap; blocks have no contents but their entries.  A file is mapped,
  truncated, and, for mkdir, given up; the free bit and the block's buffer are
  changed in one step, as nothing sleeps between.
- Names: a directory is one block of entries besides `.` and `..`; whether
  permissions allow a step is a choice; names are values, and namei of a path is
  the sequence of its components.
- FileTable: i_count is only what files, pwd and root contribute.  At most one task
  loses its directories to encr, decr or F2.
- RegularFile: a byte is the task that wrote it.  A block of an encrypted file is
  seen through its key; a fresh one decrypts to Junk.
- Sched: which queue a task sleeps on is the subject of Sleepers.  One task is
  watched: for how long it could have run, and for how long schedule() owes it a
  wake-up.  Time is counted in ticks that use up a counter, since a system call
  keeps the processor as long as it likes.  Only the watched task sets alarms;
  the others' are signals.  What a signal does to its receiver is in Processes.
- Exec: a string is its length, a byte of the file its offset.  Permission checks
  and the choice of user ids come before the first action.  A zone number that is
  read from behind a table is Stray; so is what lies behind a buffer.
- Tty: of the write queue only the length is kept, of a mapped key what
  copy_to_cooked does with it.  The keyboard handler is its put and the steps of
  copy_to_cooked, so that it can interrupt itself and a task between any two; the
  serial handlers have interrupt gates and are one step.
- Console: one printed character ("ink") is followed, everything else is "blank".
  `TAB`, `SAVES` and `RESTORES` stand for 8 and for the codes of '7' and '8', with
  which the code compares the cursor's column instead of the character.
- Keyboard: the characters a key puts into the queue are the subject of Tty; of the
  clipboard the lengths of its rows are kept; the explorer walks a given tree.

## Runs

| run | instance | shows |
|---|---|---|
| sleepers | 3 tasks, 4 queues: woken by tasks, by interrupts, slept upon with interrupts on, tty | nobody asleep in sleep_on is forgotten; queue pointers are exact |
| sleepers_live | 3 tasks, 2 queues, fair | whoever sleeps runs again |
| pipe | 3 processes, a ring of 4 bytes, counts up to 2, fair | counters, no lost wake-up, true end of file, refinement of ByteChannel, hang-up releases everybody |
| hd | 3 tasks, 2 slots, failing sectors, refused writes | locks, handlers, halves, no request lost, and that calls return |
| hd_restart | as hd | a violation, see Findings |
| cache | 2 tasks, 3 buffers, 4 blocks, up to 2 held, reads may fail | identity, counts, free list, transfers |
| cache_race | 2 tasks, 3 buffers, 4 blocks | a violation, see Findings |
| crypt | keys: 2 tasks, 2 keys, a directory with a file and a directory, 5 entries; all keys of 2 and 4 letters, blocks of 16 bytes. choice: task 0 and 2 others, priorities 1 and 2, alarms 1 tick ahead, 1 fork while the watched task waits | the table is exact and says how each block is encrypted; decryption inverts encryption, row by row; counters stay small, alarms and signals are acted upon in time, nobody starves |
| key_timeout | as the keys of crypt | a violation, see Findings |
| files | 2 tasks; 3 in-core slots for 2 inodes; 2 files, 3 blocks, 1 direct zone, indirect blocks of 2; 3 inodes, 2 entries per directory, paths of up to 2 names; blocks of 2 bytes, positions up to 3; executables of up to 3 sections, blocks of 2 words, 2 direct, rows of 3 | inodes, blocks, links and bytes are exact; so are the image and the arguments of what is executed |
| devices | memory: 2 processes of 2 tables, 6 pages. line: rings of 3, counts 1 and 4. screen: 2 by 3 in 9 cells. keyboard: 2 keys down, 2 rows of 2. disk: 4 tasks, 4 slots | page counts, private memory (refinement of PrivateMemory); input and wake-ups; window and cursor; modifiers and tools; a list that is sorted loses no request, the second is not overtaken |
| processes | 3 slots, 4 pids, fair; 2 tasks, 2 descriptors each, 2 struct files, 2 inodes | pids unique, fathers there, a father asleep returns; the counts of files, and what they add to those of inodes, are exact |

The bounds are the smallest at which the cases the code is written for happen:
three sleepers make a chain with a middle; a ring of four bytes is full with
three, so a write of two can need room in the middle of it; two slots for
three callers make one of them wait; four requests leave two to sort behind
the two that sorting must not touch; three buffers for four blocks and two
tasks make getblk evict, wait for a buffer, and meet a second task that wants
the same block.  MAX_ERRORS is 1 instead of 5, so that a request can be retried
and given up.  The three inodes of crypt all hash to one entry of five, so that
removing one has entries behind it to pass over and to move; the file has two
blocks, so that a key can change between them; MaxOdd is 0: a behaviour is
followed up to the first loss or disturbance of a file.  A process needs a page
for its task_struct and one for each table: with six pages two processes can
share a page and copy it, and every call of get_free_page can be the one that
fails, the copy of the second table too.  Three slots make a family of three
generations, and with four pids the next one may belong to a zombie; two struct files of
two tasks are shared or separate, and there may be no free one, or no free descriptor.

The choice needs two tasks besides task 0, so that one can wait for the other; with
priorities 1 and 2 a counter can be what is left and half of what was left before.
One fork at a time shows what each of them costs the one who waits, since the bound
counts them.

In files, NR_INODE is one more than there are tasks, so that a task may hold one
inode while it puts another, and a slot is reused while its old inode is still
searched for; three blocks run out in the middle of making an indirect block;
two entries let a directory be full and paths of two names go through it while
it is removed; blocks of two bytes have positions at, before and behind their boundary; what is executed has
sections that end within a word and at a block, that cross a block, lie in the
single and in both rows of the double indirect block, headers in several blocks, and
strings that fill the argument pages or do not fit.  In devices, a
ring of three characters is full with three, so that the reader's and the
writer's limits (`SPARE`, `ROOM`, `STARTUP`) lie apart; nine cells hold one and a
half screens, so that the window wraps and wraps again; the parameters of an
escape sequence are 0 or MaxPar, beyond the screen; the tree has a directory, a
file and an empty directory.  Two keys down make every overlap of a modifier with
another key.

MCFiles, MCDevices, MCProcesses and MCScheduler check components that have no step in common in one run:
`part` is chosen in the initial state and the variables of the others never
change, so the state spaces add and do not multiply.  A property of a part is
guarded by `part` and contains the part's type invariant; MemoryExact, which is
also proved, holds of the first memory in the other parts and needs no guard, as do those
of MCProcesses.  Likewise the type
invariants of HdRequest, BufferCache, EncTable with Security, Processes, Sched and
FileTable are conjuncts of LockExact, OneBufferPerBlock, TableExact, PidsUnique, Timely
and FileCountsExact.  Those of
Sleepers and Pipe are proved.

The bytes of run pipe are all alike, which leaves their order to the proof of
RingIsChannel.

Nine models allow the system to stop.  In Pipe a process that holds both ends
can block itself, as in any Unix.  In HdRequest the disk can come to rest with
requests pending, which is the finding below.  In both the properties say when
that may happen.  In Security tasks can be lost or dead, and the bound MaxOdd
ends behaviours.  In MemMap and Processes the last process may exit.
The parts of MCFiles and MCDevices stop behind the first race that their history
variable names, and their programs owe nothing.  FileTable stops where a path is looked
up without a root, which panics.  In all of these CHECK_DEADLOCK is
FALSE.  The other runs check deadlock.

History variables name races that the code really has, so that a property can
say what holds until one happens instead of leaving the race out:

- `raced` in Sleepers: a handler has woken a queue in the middle of a sleep_on
  with interrupts on (hd.c:389), or a task has left interruptible_sleep_on while
  another one's `tmp` still referred to it (sched.c:157);
- `raced` in HdRequest: a handler has found the list being sorted, or freed a
  slot between the search for one and the sleep;
- `torn` in HdRequest: buffers for which the second sector has failed;
- `leaked` in MemMap: the pages the code forgets (do_no_page when there is none
  for the table, load_elf_binary and change_ldt when they fail, an exit inside
  execve);
- `lost` in Security: inodes whose entry remove_func has passed over;
- `disturbed` in Security: files on which two tasks have worked at once, whose key
  was set, cleared or timed out between two blocks, for which bread has failed,
  whose key shares its hash with another one, or which were written by a task
  without their key;
- `odd` in InodeTable: free_inode has wiped an inode that sync has locked ("wiped"),
  or an entry went between its reading and the iget ("stale");
- `mishap` in BlockMap: two writers made a block for one entry ("twice"), a file was
  mapped while it was truncated ("crossed"), mkdir freed a block twice;
- `race` in Names: one name entered twice, an entry changed meanwhile, an entry in
  a removed directory;
- `forsaken` in FileTable: the references that encr, decr and F2 never give back;
- `moved`, `misread` and `spoiled` in RegularFile: a reader slept while another task
  moved their common position; a read gave other bytes; a block was made twice or a
  device call ran past its buffer;
- `mishap` in Tty (a nested keyboard interrupt, an echo into a full queue or one that
  the console has written already, a DEL under the reader) and `left` (characters
  behind a full secondary queue); `mishap` in Keyboard (states of the explorer and
  the clipboard that index what is not there).

### Fairness

`FairSpec` of Sleepers: a runnable task is scheduled, hence strong fairness of its
return, since others may run in between.  This is what `NobodyStarves` of Sched
shows of sched.c:98-115, which takes the runnable task with the greatest counter
and recharges all counters when they are used up: whoever can run does so within
a number of ticks given by the tasks, their priorities and the forks meanwhile
(forks without end would starve it, and so would a system call that never ends).
Furthermore, each queue is woken again and again, which is
the duty of its owner.  `FairSpec` of Pipe: kernel code goes on until it sleeps
(weak), runnable tasks are scheduled (strong); programs owe nothing, they need
neither read nor close.  `FairSpec` of HdRequest: the disk answers each command
(weak fairness of the handler), a reset disk does not refuse writes for ever
(the code retries without limit), and tasks as before.  `FairSpec` of Processes: a
task that exits gets through the closing of its files, and one that has a signal
in sys_pause is scheduled.

## Findings

1. **hd.c:372** (run hd_restart).  add_request promises to restart the disk if
   an interrupt "died down" while it was sorting.  It tests `do_hd`, but
   do_request leaves `do_hd` set when it returns because of `sorting`.  If the
   transfer under way ends in that window, nothing is issued any more until
   somebody else's request finds `do_hd` null, which does not happen.
2. **buffer.c:191** (run cache_race).  getblk unlinks the dirty buffer it reuses
   and then sleeps while it is written.  In this time its block is not in the
   hash queues, so another task that wants it reads it from the disk, possibly
   before the write, and holds an old version.

3. **sched.c:84** (run key_timeout).  When the key of process p has timed out,
   schedule() announces that the key of p is cleared and calls
   sys_keyclear(K_LOCAL), which clears the key of `current`.  p keeps its key, its
   timer is switched off, and `current` loses a key that had not timed out.

Seen on the way, and kept as the exceptions above or as comments in the modules;
no document of the repository says otherwise, or the runs' properties are stated
up to them:

- encryption: remove_func skips an entry; the last byte of each block is lost in a
  round of encryption and decryption (security.c:294); decrypt_block fails for keys
  with repeated letters; file_read and file_write choose by the caller's key but
  transform with the key key_to_use points to; encrypt_directory reads an encrypted
  subdirectory as entries; the loops over the table do not end when it is full;
  encr and decr leave their caller without root and pwd, and lose the references
  it had (sys.c:42; `AlwaysRooted` of FileTable is violated);
- files: file_read forgets the offset in a decrypted block (file_dev.c:37), and a
  fresh block of an encrypted file decrypts to junk; block_read and block_write do
  not stop at the end of a buffer (block_dev.c:22); mkdir without room in the
  parent frees a block twice (namei.c:452; `NeverFreedTwice` of BlockMap is
  violated); free_inode may wipe an inode sync has locked; two writers of one
  hole lose a block, two creators of one name enter it twice;
- execve: the test for strings that do not fit never fails (exec.c:119), and they end
  in a panic; if there is no page for the environment, the arguments are copied from
  address 0 down; a section table in the first block is looked for through a null
  pointer, and a header across two blocks is read from behind the buffer; holes are
  read from block 0 or end the loading; the index into the second and later rows of
  the double indirect block is wrong (exec.c:251); a section that does not begin at
  a word overwrites what lies behind it or is read from behind a buffer;
- terminals: nested keyboard interrupts reorder input although console.c:14-15 takes
  them to be impossible (`TypedInOrder` of Tty is violated with Followed =
  {"nested"}); a canonical reader with an unfinished line spins in the kernel;
  the console compares the column with '7' and '8' (console.c:861-864); the handler
  of F2 calls bread, which can sleep, in an interrupt, and takes root and pwd from
  the task it interrupts; in the explorer an arrow divides by the length of an empty
  directory, the row is not reset when a directory is entered, and F3 types where
  the clipboard's cursor is not;
- processes: a child that is a zombie when its father exits is never reaped; three
  failing paths lose a page.

## Proofs

All proofs hold for every set of tasks, queues, buffers, requests, inodes, files and
processes and every size.  A component has a module of proofs of its own; the two that
model kernel/sched.c share SchedProofs.

### Wait queues (SchedProofs)

- `SleepersKept`: `[]NoForgottenSleeper`.  The property is not inductive: the step in
  which a task sets its own state must know what the handlers can have done to its
  queue since it read the pointer.  `SleepInv` adds this: only a task past its
  schedule() is asleep, at most one task is in the middle of an open sleep_on, and
  until it sleeps its queue holds what it stored or nothing.  `TypeCorrect` comes
  first, from `WaitStateClosed`, the lemma that the operators of WaitQueue keep the
  type of the record.
- `ChainsExact`: `[]ChainExact`.  Pointers to a task are exact only as long as no two of
  them lead to it: whoever is woken through one would leave the other behind.
  `ChainInv` adds that, and that the queues of interruptible_sleep_on, which may point
  to runnable tasks, never point into another queue.

### Pipes (PipeProofs)

- `CountersCorrect`: `[]EndsCounted`, from facts on cardinalities when one descriptor is
  added or removed; fork changes both counters at once.
- `RingIsChannel`: Pipe implements ByteChannel under the mapping that takes the bytes
  between tail and head for the queue.  It needs that whoever is inside read_pipe or
  write_pipe holds the end it uses (`CallersHoldEnds`), and lemmas on what one step of
  a masked index does to the contents of the ring.
- `EofIsTrue`: `EofMeansDrained`, from these two.
- `WakeupsKept`: `[]NoLostWakeup`.  The step in which a process falls asleep must know
  that nobody else sleeps.  `QueueInv` adds why: each sleep_on of a pipe comes right
  after a wake_up of the same queue, so that the queue never holds more than one
  process and no `tmp` ever leads to another one.

### Scheduler (SchedProofs)

- `SchedTimely`: `[]Timely`, for every number of tasks and all priorities: no counter
  reaches twice the greatest priority although sleeping tasks are given half of their
  counter and a priority again and again, and schedule() has acted on an overdue alarm
  or a signal before more ticks than that have been used.  The invariant `SchedInv`
  adds that the wait so far and the counter of the current task together are no more
  than one such counter: a tick moves one from the second to the first, and every other
  step that gives the processor away goes through schedule(), which ends the wait.
  Well-foundedness is needed for the last free number and the greatest counter.
- `NobodyWaitsLong`: `[]NobodyStarves`.  `StarveInv` says what the watched task may still
  have to wait (`Load`): the ticks that are left to the others, which are counted as the pairs
  of a task and a number below its counter; once more what a recharge gives, if the watched
  task has used up its own counter (`Again`), since only then can all counters be
  recharged before it runs; and task 0's counter while it runs, since it runs on when the
  watched task is woken.  This and what it has waited together never exceed the bound.  A
  tick moves one from the first to the second; a task that goes to sleep, is woken or
  exits takes nothing more; a fork adds at most one priority, and is counted.

### Buffer cache (BufferCacheProofs)

`CacheInvariant` is the inductive invariant.  A call is at a line of buffer.c; `Role`
says what a task at this line has of the buffer it refers to: nothing, a counted use,
or the buffer itself, taken out of the lists by a getblk that has slept since
("own").  The parts are

- `UseInv`: what a user has is linked, and is the block it asked for;
- `OwnInv`: the owner's buffer is in no list, and every buffer that is in none has one
  owner;
- `CountExact`, `UniqueInv`, `FreeListIsRing`.

No part is inductive without the others: that a buffer is counted keeps getblk from
taking it, that it is owned keeps it out of the ring, and that the ring has another
member is what lets getblk take one (`OtherLinked`: each task owns at most one buffer,
and there are more buffers than tasks, an assumption of the module).  Most steps leave
the lists and counts as they are (`QuietStep`); the others have a lemma each.  The
theorems `BlocksUnique`, `UsersCounted`, `FreeListWhole` and `HoldersSafe` are the
properties of run cache.

`RequestsKeepBlocks` is `BusyKeepsBlock` for the case that no write fails, which is what
run cache checks too (`"write" \notin Failing`).  Its invariant `CleanInv` says that a
buffer about to be reassigned is neither locked nor dirty; after a failed write it may
be dirty, for sync_dev goes on past it.

### Disk requests (HdRequestProofs)

`HdInv` is the inductive invariant of the request queue:

- `ListOK`: this_request and what follows a request in use are in use, and no two links
  lead to the same request;
- `LockOK`: one locked buffer for each request in use and for each caller that has no
  slot yet, and no other;
- `DevOK`, `TransferOK`: what the disk does is the command of this_request, with its
  handler; a write whose second sector is under way has moved its first;
- `LooseInv`, `SortInv`: the request being added is not on the list; the task that is
  about to insert it still has this_request as its `tmp`, or that was completed
  meanwhile, and then nothing is transferred until the sorting ends;
- `ReachInv`: unless a handler came in the middle of the sorting, everything in use is
  reached from this_request.

A handler either leaves the queue alone or completes this_request (`Serves`), which
is proved for each of the five; so the rest of the invariant needs only these two cases
(`IrqStep`).  A step of a task changes the wait queues, a flag, a slot or the links.
`WalkEnds` is the lemma about the loop of add_request: on a list in which no two links
lead to one request the walk stops, at a request on the list that is neither the first
nor the one to be added.  It is a pigeonhole argument (`Onto`): if the walk never
stopped, its links would lead from a finite set onto it, so also to where it began.
The same lemma shows that what is reached is one chain that ends (`ReachedIsList`).
`LocksExact`, `HandlersReady`, `ValidAreWhole`, `RequestsAreKept` and `SecondOfList` are
the properties of run hd, the last one a part of RequestsSorted in run devices.

### In-core inodes (InodeTableProofs)

One action of InodeTable is all a task does until it sleeps, and that leads from one
part of the code into another: iget finds the inode, gives the empty slot back, and
sys_unlink goes on into iput.  So `Good`, the invariant, is a predicate on a table, a
disk, a bitmap, the names and the places of the tasks, and not on the variables: it also
holds of the state between two parts of an action, which no other task sees.  Each part
has a lemma of its own (`TakeStep` for get_empty_inode, `ClaimStep`, `HitStep`,
`ReadEndStep`, `UnlinkStep`, `PutWriteStep`, ...), which says that it takes a good state
to a good state, whatever came before; and each action is a chain of two or three of
them (`SearchStep`, `GotStep`, `PutStep`, `SyncFromStep`).  The conjuncts of `Good` are

- `One`, `CountsOK`: the properties OneCopy and InodeCountExact;
- `LocksOK`: a locked inode is locked by exactly one task, which is reading or writing it;
- `AloneOK`: who reads an inode, writes it in iput, truncates it, links it or has an
  empty slot in hand is its only user: iput goes on without looking again;
- `PlacesOK`: what a task's slot holds at each place: an inode whose entry is there while
  it is read, one without a link while it is truncated, one without a name while
  it is linked;
- `DataOK`, `DiskOK`: an inode that has been read and has its link is the latest, and
  is on the disk if it is clean; one that is not in the table is the latest on the disk;
- `BitsOK`, `IdleOK`, `OrphansOK`: the bits; an unused slot is clean and unlocked;
  an inode that has its bit but no name is in use.

`InodeInv` adds that whoever waits in iget waits for an inode that has a name, which is
where the race "stale" comes in: the proof of unlink is the one that needs it excluded,
as that of free_inode needs "wiped" excluded.  `InodesInvariant` is that InodeInv holds
always; `OneInCoreCopy`, `CountsAreUsers` and `InodesAreKept` are the properties OneCopy,
InodeCountExact and InodesKept of run files, for every number of tasks, slots and inodes.

### Processes (ProcessesProofs)

`ProcInv` is PidsUnique with FathersLive and `WaitersTold`: a father asleep in waitpid
with a zombie to collect has SIGCHLD.  The last one is the safety part of FatherReturns
(`ExitsAreTold`).  `PidsAreUnique` and `FathersCanWait` are the properties.  That
find_empty_process finds a pid, wherever last_pid wraps around, is a pigeonhole argument
again (`FollowingIsFree`): there are more pids than slots.  That a pid is unique
among zombies too is what the other two need, since a father is known by its pid.

### Memory (MemMapProofs)

MemInv is the invariant of all actions of MemMap, for any number of slots, pages,
tables and entries, and MemoryExact (CountsAreExact) and the refinement of
PrivateMemory (MemoryOfItsOwn) follow from it.  It has two halves.

`Sound(m, h)` says when a memory m is in order if, besides its tables, h[p] others
refer to page p: the count of a page is the number of entries and tables that refer to
it (`Mapped`) and h[p] (Counted), an entry that can be written to has a page counted
once (Private), and where there is an entry there is a table (Covered).  Counts are
cardinalities of sets of pairs <<task, address>> and <<task, directory entry>>, so
that what an operator of Memory does to a count is a set that gains or loses
elements.  For each operator one lemma says what it does to Sound and to `View`, what
the programs see: get_free_page gives a page that nothing refers to (GetPage),
free_page takes a holder (FreePage), free_page_tables all references of a task
(DropTables), put_page makes a reference of a holder (PutPage), un_wp_page moves one
(UnprotectKeeps, CopyOnWriteKeeps), a store shows at one address (StoreShows), or
nowhere in a page that has one holder and no entry (StoreHidden).  copy_page_tables (CopyKeeps) is the hard one: the
tables it takes are pages that were free and each is another one (NewTables, by the
ranks of finite sets of numbers), and every entry that can still be written to
afterwards is one that was not copied.  When it runs out of memory half way, Sound holds
of what there is, which is why free_page_tables can clean it up (ForkFails).

The other half says who the holders are: `Held` counts the task_structs, the arguments
of execve and the forgotten pages, and the places of a task say what it holds: a slot
without a process, or whose process has exited, has no tables; the argument page of an
execve under way is counted once and is nobody else's; and while it loads there is
nothing yet where the arguments will go.  Without the last two change_ldt would not be
right: it takes the page for its own, and overwrites the entry without a look.

The refinement maps memory to View.  A fork is the copy of a memory or nothing, a page
that appears is zero or an argument, and write faults, the first half of execve and
release are not seen.  That a store is seen nowhere else is Private.

### Descriptors (FileTableProofs)

`DescriptorsCounted` is `[]FileCountsExact`, for every number of tasks,
descriptors, files and inodes.  `FilesInv` adds three things without which it is not
inductive: a file without descriptors refers to no inode, which is why the number of
files that refer to one does not change when sys_open takes it; a file that sys_open has
reserved has one descriptor and no inode, so that no other call can close, duplicate or
inherit it; and a slot without a process has no descriptor and no directory.

A call changes the table of one task.  `Fits(t, S, G)` says that descriptors, files and
counts S are right for task t beside what the other tasks hold, when directories hold
G[i] references to inode i; it is true of the present state (`InvFits`), and a state
whose step stores something that fits is right again (`FitsInv`).  Between the two, closing
any set of descriptors at once (`CloseFits`: close, execve and exit) and duplicating one
(`DupFits`) keep Fits, and so dup2, which does both, needs no argument of its own.
The calls on directories are one lemma (`DirsKeep`), with mount_root and exit as the
cases in which t begins or ceases to live.

### Assumptions

Those of the modules: NoTask is no task, the queues are classified, PageSize > 1, the
sets of tasks, buffers and slots are finite, inodes are numbers other than 0 and 1 is one
(FilesConstants), there are more buffers than tasks,
more pids than slots, and at least as many in-core inodes as tasks, and one; memory
has two pages, which process 1 has at the start, slots, directory entries and pages are
numbers, and the mark of an entry that is not present is neither an entry nor contents
of a page.  Besides these, RequestsKeepBlocks assumes that no write fails.

### Only model-checked

The liveness properties (SleeperRuns, HangupReleases, CallsFinish, FatherReturns) and
Restarted, since TLAPS does not prove liveness under fairness; the properties of
Security, Cipher, of the file system beyond the in-core inodes and the descriptors
(BlockMap, Names, RegularFile, Exec) and those of the terminal.  TableExact of
Security would need what the rehash loop of remove_func computes (EncTable): a recursion
over the entries, about which the provers cannot argue by induction.

## Not modelled, and why

- Booting, traps, formatting of messages, the user library and the commands: no
  state of interest or straight-line code.
- The permission checks of execve and the switch of the math processor.
- The way of the encryption table to the disk (sys_sync, load_table) and a crash
  in between: the kernel makes no promise for it.
- A directory that grows by a block, sys_getdents, access and umask; process groups;
  geometry of the disk; key maps, case and seven-bit conversions.
- Starvation by the disk's sorting, and failing writes of dirty buffers: the first
  needs an unbounded stream of requests, of the second no property is stated.

Proofs that are left, in order of worth: BlocksExact of BlockMap; LinksExact of Names;
BytesExact of RegularFile.
