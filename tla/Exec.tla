--------------------------------- MODULE Exec ---------------------------------
(***************************************************************************)
(* What do_execve of fs/exec.c brings into memory: the strings of the      *)
(* arguments and the environment with the tables that point to them, and   *)
(* the sections of an ELF file, block by block.  Its pages are the subject *)
(* of MemMap, the files it closes of FileTable.                            *)
(*                                                                         *)
(* A string is its length with the zero at its end, a byte of the file is  *)
(* its offset.                                                             *)
(***************************************************************************)
EXTENDS Integers, Sequences, FiniteSets, FiniteSetsExt

CONSTANTS PAGE, MAX_ARG_PAGES,   \* 4096, 32
          BLOCK, WORD, HEADER,   \* 1024, 4, and 40 for a header of a section
          DIRECT, ENTRIES,       \* 7 zones in the inode, 512 in a block
          Lists,                 \* the lists of strings that are passed
          Binaries,              \* the files that are executed
          Space                  \* bound: the addresses of the image

VARIABLES phase,       \* where do_execve is
          binary, argv, envp,
          n,        \* strings or headers that are left
          page,     \* argument pages there are
          p, area,  \* where the last string begins, and what the pages hold
          lb, bht,  \* the block of the section table that is held, if any
          copying,  \* the section that is being copied
          image,
          b_size,
          scanned   \* where the strings begin that create_tables has found
execVars == <<phase, binary, argv, envp, n, page, p, area, lb, bht, copying, image,
              b_size, scanned>>

TOP == PAGE * MAX_ARG_PAGES

(* Contents of the image, besides the bytes of the file                    *)
Old == -1     \* what the process had before
Nothing == -2
Zero == -3
Stray == -4   \* read from elsewhere

(* lost: an unmapped pointer or something that is no header is taken for   *)
(* one; dead: the kernel has panicked, or looks for an argument page       *)
(* outside page[].                                                         *)
Ends == {"done", "refused", "failed", "lost", "dead"}

Types == {"PROGBITS", "NOBITS", "other"}
Section == [type : Types, addr : Nat, offset : Nat, size : Nat]
NoSection == [type |-> "other", addr |-> 0, offset |-> 0, size |-> 0]

ExecTypeOK ==
  /\ phase \in {"environment", "arguments", "header", "copy", "tables"} \cup Ends
  /\ n \in Nat /\ page \subseteq 0 .. MAX_ARG_PAGES - 1 /\ p \in 0 .. TOP
  /\ lb \in Nat /\ bht \in BOOLEAN /\ copying \in Section
  /\ DOMAIN image = Space /\ b_size \in Nat

Empty == <<"", 0, 0>>
ExecInit ==
  /\ phase = "environment" /\ binary \in Binaries /\ argv \in Lists /\ envp \in Lists
  /\ n = Len(envp) /\ page = {} /\ p = TOP /\ area = [i \in 0 .. TOP - 1 |-> Empty]
  /\ lb = 0 /\ bht = FALSE /\ copying = NoSection
  /\ image = [a \in Space |-> Old] /\ b_size = 0 /\ scanned = <<>>

-----------------------------------------------------------------------------
(* copy_strings, one string: its pages, from the one it begins in up to    *)
(* the first that is there, and its bytes.  The test p-len < 0 is one of   *)
(* unsigned numbers and never true: a string that does not fit gets no     *)
(* page, and is copied until a page is missing.                            *)
List == IF phase = "environment" THEN envp ELSE argv
Copying == phase \in {"environment", "arguments"} /\ n > 0
Missing(q) == {i \in q \div PAGE .. MAX_ARG_PAGES - 1 : \A j \in q \div PAGE .. i : j \notin page}

Written(q, len) ==
  [i \in 0 .. TOP - 1 |-> IF i \in q .. q + len - 1 THEN <<phase, n, i - q + 1>> ELSE area[i]]

StringVars == <<binary, argv, envp, lb, bht, copying, image, b_size, scanned>>
copy_string ==
  /\ Copying /\ p - List[n] >= 0
  /\ LET q == p - List[n]
     IN  p' = q /\ area' = Written(q, List[n]) /\ page' = page \cup Missing(q)
  /\ n' = n - 1 /\ UNCHANGED phase /\ UNCHANGED StringVars

StringTooLong ==
  /\ Copying /\ p - List[n] < 0
  /\ phase' = "dead" /\ UNCHANGED <<n, page, p, area>> /\ UNCHANGED StringVars

(* There is no page: copy_strings returns 0, and what it got stays in      *)
(* page.  Only the result of its second call is looked at: the arguments   *)
(* are then copied from 0 down.                                            *)
EndStrings(q, got) ==
  IF phase = "environment"
  THEN /\ phase' = "arguments" /\ n' = Len(argv) /\ p' = q /\ page' = page \cup got
       /\ UNCHANGED <<image, b_size>>
  ELSE IF q = 0
       THEN phase' = "refused" /\ page' = {} /\ p' = q /\ UNCHANGED <<n, image, b_size>>
       ELSE /\ phase' = "header" /\ n' = Len(binary.sections) /\ p' = q /\ UNCHANGED page
            /\ image' = [a \in Space |-> Nothing]
            /\ b_size' = binary.ehsize + Len(binary.sections) * HEADER
StringVars2 == <<binary, argv, envp, area, lb, bht, copying, scanned>>
StringsDone ==
  /\ phase \in {"environment", "arguments"} /\ n = 0 /\ EndStrings(p, {}) /\ UNCHANGED StringVars2
NoPageLeft ==
  /\ Copying /\ p - List[n] >= 0
  /\ \E i \in Missing(p - List[n]) : EndStrings(0, {j \in Missing(p - List[n]) : j < i})
  /\ UNCHANGED StringVars2

-----------------------------------------------------------------------------
(* read_file_block: the block of the file that it finds, Stray if it reads *)
(* block 0 of the disk for a zone that is not there or takes other memory  *)
(* for a zone number, Nothing if it returns NULL.  A file is no longer     *)
(* than its double indirect block allows.                                  *)
Absent(what, i) == <<what, i>> \in binary.holes
Zone(b) == IF Absent("block", b) THEN Nothing ELSE b
read_file_block_ind(table, first, i) ==
  IF table /\ i \in 0 .. ENTRIES - 1 THEN {Zone(first + i)} ELSE {Stray, Nothing}

(* The place in its row of a block behind the single indirect ones; from   *)
(* the second row on this is not k % ENTRIES.                              *)
Index(k) == IF k >= ENTRIES THEN k - (k - 1) * ENTRIES ELSE k
Found(b) ==
  LET i == b - DIRECT
      k == i - ENTRIES
      row == k \div ENTRIES
  IN  IF b < DIRECT THEN {IF Absent("block", b) THEN Stray ELSE b}
      ELSE IF i < ENTRIES THEN read_file_block_ind(~Absent("table", 0), DIRECT, i)
      ELSE IF Absent("table", 1) THEN {Nothing}
      ELSE read_file_block_ind(~Absent("row", row), DIRECT + ENTRIES + row * ENTRIES, Index(k))
read_file_block(b) == Found(b) \cup {Nothing}

(* load_elf_binary: a header, from the last to the first                   *)
Place(i) == binary.shoff + (i - 1) * HEADER
LoadVars == <<binary, argv, envp, page, p, area, scanned>>

NotElf ==
  /\ phase = "header" /\ n = Len(binary.sections) /\ (~binary.valid \/ n <= 1)
  /\ phase' = "failed" /\ UNCHANGED <<n, lb, bht, copying, image, b_size>> /\ UNCHANGED LoadVars
Loading == phase = "header" /\ n > 0 /\ binary.valid /\ Len(binary.sections) > 1

FetchTable ==
  /\ Loading /\ Place(n) \div BLOCK # lb
  /\ \E r \in read_file_block(Place(n) \div BLOCK) :
       /\ lb' = Place(n) \div BLOCK /\ bht' = (r # Nothing)
       /\ phase' = CASE r = Nothing -> "failed" [] r = lb' -> phase [] OTHER -> "lost"
  /\ UNCHANGED <<n, copying, image, b_size>> /\ UNCHANGED LoadVars

Loads(s) == s.type # "other" /\ s.size # 0 /\ s.addr # 0
Larger(a, b) == IF a < b THEN b ELSE a
create_bss_section(s) ==
  image' = [a \in Space |-> IF a \in s.addr .. s.addr + s.size - 1 THEN Zero ELSE image[a]]
TakeHeader ==
  /\ Loading /\ Place(n) \div BLOCK = lb
  /\ LET s == binary.sections[n]
     IN  IF ~bht \/ (Place(n) % BLOCK) + HEADER > BLOCK
         THEN phase' = "lost" /\ UNCHANGED <<n, copying, image, b_size>>
         ELSE /\ n' = n - 1
              /\ \/ /\ ~Loads(s)
                    /\ UNCHANGED <<phase, copying, image, b_size>>
                 \/ /\ Loads(s) /\ s.type = "NOBITS"
                    /\ create_bss_section(s) /\ b_size' = Larger(b_size, s.addr + s.size)
                    /\ UNCHANGED <<phase, copying>>
                 \/ /\ Loads(s) /\ s.type = "PROGBITS"
                    /\ phase' = "copy" /\ copying' = s /\ UNCHANGED <<image, b_size>>
  /\ UNCHANGED <<lb, bht>> /\ UNCHANGED LoadVars

(* copy_section, a block: words are copied, as many as hold the bytes.     *)
(* What lies behind them is overwritten, with what the buffer has there.   *)
cp_block(size) == (size \div WORD) * WORD
Copied(size) == cp_block(size + WORD - 1)

Byte(r, o) == IF r = Stray \/ o >= BLOCK THEN Stray ELSE r * BLOCK + o
copy_section ==
  /\ phase = "copy"
  /\ LET s == copying
         o == s.offset % BLOCK
         room == BLOCK - o
         size == IF s.size < room THEN s.size ELSE room
     IN  \E r \in read_file_block(s.offset \div BLOCK) :
           IF r = Nothing
           THEN phase' = "failed" /\ bht' = FALSE /\ UNCHANGED <<copying, image, b_size>>
           ELSE /\ image' = [a \in Space |->
                     IF a \in s.addr .. s.addr + Copied(size) - 1
                     THEN Byte(r, o + a - s.addr) ELSE image[a]]
                /\ copying' = [s EXCEPT !.addr = @ + size, !.offset = @ + size, !.size = @ - size]
                /\ phase' = IF s.size = size THEN "header" ELSE phase
                /\ b_size' = IF s.size = size THEN Larger(b_size, s.addr + s.size) ELSE b_size
                /\ UNCHANGED bht
  /\ UNCHANGED <<n, lb>> /\ UNCHANGED LoadVars

Loaded ==
  /\ phase = "header" /\ n = 0 /\ phase' = "tables" /\ bht' = FALSE
  /\ UNCHANGED <<n, lb, copying, image, b_size>> /\ UNCHANGED LoadVars

(* create_tables looks for the strings again, in memory, where they lie    *)
(* one behind the other; then the rest of the last page is cleared.        *)
AllStrings == [k \in 1 .. Len(argv) + Len(envp) |->
                 IF k <= Len(argv) THEN <<"arguments", k, argv[k]>>
                 ELSE <<"environment", k - Len(argv), envp[k - Len(argv)]>>]
EndsAt(q) == \E k \in DOMAIN AllStrings : area[q] = AllStrings[k]
Behind(q) == 1 + Min({r \in q .. TOP - 1 : EndsAt(r)})
create_tables ==
  /\ phase = "tables" /\ phase' = "done"
  /\ LET found[k \in 1 .. Len(argv) + Len(envp)] == IF k = 1 THEN p ELSE Behind(found[k - 1])
     IN  scanned' = found
  /\ LET end == ((b_size + PAGE - 1) \div PAGE) * PAGE
     IN  image' = [a \in Space |-> IF a \in b_size .. end - 1 THEN Zero ELSE image[a]]
  /\ UNCHANGED <<binary, argv, envp, n, page, p, area, lb, bht, copying, b_size>>

ExecNext ==
  \/ copy_string \/ StringTooLong \/ NoPageLeft \/ StringsDone
  \/ NotElf \/ FetchTable \/ TakeHeader \/ copy_section \/ Loaded \/ create_tables

-----------------------------------------------------------------------------
(* What the loader takes for granted of a file: the section table is not   *)
(* in the first block and no header of it lies across two; sections begin  *)
(* at words, in memory and in the file, and lie apart; and the blocks it   *)
(* reads are there and before the second row of the double indirect block. *)
Blocks(from, size) == from \div BLOCK .. (from + size - 1) \div BLOCK
Needed ==
  UNION ({Blocks(Place(i), HEADER) : i \in DOMAIN binary.sections}
         \cup {Blocks(s.offset, s.size) : s \in {s \in Range(binary.sections) :
                                              Loads(s) /\ s.type = "PROGBITS"}})
Demands ==
  LET secs == binary.sections
  IN  /\ Place(Len(secs)) >= BLOCK
      /\ \A i \in DOMAIN secs : (Place(i) % BLOCK) + HEADER <= BLOCK
      /\ \A i, j \in DOMAIN secs : Loads(secs[i]) /\ Loads(secs[j]) =>
           /\ secs[i].addr % WORD = 0 /\ secs[i].offset % WORD = 0
           /\ i # j => secs[i].addr + secs[i].size <= secs[j].addr
                         \/ secs[j].addr + secs[j].size <= secs[i].addr
      /\ \A b \in Needed : ~Absent("block", b) /\ b < DIRECT + 2 * ENTRIES
      /\ \A h \in binary.holes : h[1] = "block"

Fit == FoldFunction(+, 0, argv) + FoldFunction(+, 0, envp) <= TOP

StringsExact ==
  \A k \in DOMAIN AllStrings : \A j \in 1 .. AllStrings[k][3] :
    area[scanned[k] + j - 1] = <<AllStrings[k][1], AllStrings[k][2], j>>
SectionsExact ==
  \A s \in Range(binary.sections) : Loads(s) =>
    /\ s.addr + s.size <= b_size
    /\ \A j \in 0 .. s.size - 1 :
         image[s.addr + j] = IF s.type = "PROGBITS" THEN s.offset + j ELSE Zero

(* Whoever is executed finds in memory what the file says and what it was  *)
(* called with, although strings are copied backwards, sections from the   *)
(* last to the first and whole words at a time, and blocks are found       *)
(* through tables; whoever is refused has lost nothing.  The kernel dies   *)
(* of strings only if they do not fit, or there was no page for those of   *)
(* the environment.                                                        *)
ImageExact ==
  /\ ExecTypeOK
  /\ phase = "done" => StringsExact /\ \A q \in p .. TOP - 1 : q \div PAGE \in page
  /\ phase = "done" /\ Demands => SectionsExact
  /\ phase = "lost" => ~Demands
  /\ phase = "refused" => page = {} /\ \A a \in Space : image[a] = Old
  /\ phase = "dead" => ~Fit \/ p = 0
=============================================================================
