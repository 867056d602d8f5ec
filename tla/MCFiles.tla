------------------------------- MODULE MCFiles -------------------------------
(***************************************************************************)
(* The parts of the file system that have no step in common, checked in    *)
(* one run: the in-core inodes, the blocks of files, the directories, the  *)
(* bytes of a file, and of one that is executed.  Which of them a          *)
(* behaviour is about is chosen in its initial state, and the others stand *)
(* still in it.                                                            *)
(*                                                                         *)
(* Executed: blocks of two words, two of them direct, rows of three.  Text *)
(* is a section at every offset and size over a block boundary before one  *)
(* to be cleared; Far lies in the first row of the double indirect block,  *)
(* Row2 in the second.  The others break one demand of the loader each.    *)
(***************************************************************************)
EXTENDS InodeTable, TLC

CONSTANTS f1, f2, n1, n2, p1, p2

VARIABLES part,
          zmap, table, where, path, hand, walk, mishap,
          kind, i_nlinks, entry, step, call, race,
          i_mode, fd, append, f_pos, i_size, zones, bytes, doing, io, stored,
          misread, moved, spoiled,
          phase, binary, argv, envp, n, page, p, area, lb, bht, copying, image, b_size, scanned

mapVars == <<zmap, table, where, path, hand, walk, mishap>>
dirVars == <<kind, i_nlinks, entry, step, call, race>>
ioVars == <<i_mode, fd, append, f_pos, i_size, zones, bytes, doing, io, stored,
            misread, moved, spoiled>>
exeVars == <<phase, binary, argv, envp, n, page, p, area, lb, bht, copying, image, b_size, scanned>>

Map == INSTANCE BlockMap WITH Files <- {f1, f2}, NDIRECT <- 1, FAN <- 2, NBLOCKS <- 3
Dir == INSTANCE Names WITH Names <- {n1, n2}, Inums <- {1, 2, 3}, Slots <- {1, 2},
                           Paths <- {<<n1>>, <<n2>>, <<n1, n2>>}
Io == INSTANCE RegularFile WITH Filps <- {p1, p2}, BLOCK_SIZE <- 2, MaxPos <- 3

Sec(type, addr, offset, size) ==
  [type |-> type, addr |-> addr, offset |-> offset, size |-> size]
Null == Sec("other", 0, 0, 0)
Elf(shoff, sections, holes) ==
  [valid |-> TRUE, ehsize |-> 1, shoff |-> shoff, sections |-> sections, holes |-> holes]
Text(offset, size, bss) ==
  <<Null, Sec("PROGBITS", 2, offset, size), Sec("NOBITS", bss, 0, 3)>>
Far == <<Sec("PROGBITS", 8, 20, 3), Sec("PROGBITS", 2, 12, 5)>>
Row2 == <<Null, Sec("PROGBITS", 2, 36, 3)>>
MCBinaries ==
  {Elf(4, Text(offset, size, 8), {}) : offset \in 8 .. 11, size \in 1 .. 6}
  \cup {Elf(24, Far, h) : h \in {{}, {<<"table", 1>>}, {<<"row", 0>>}, {<<"block", 5>>}}}
  \cup {Elf(4, Text(8, 3, 8), {<<"block", 1>>}), Elf(4, Text(8, 3, 8), {<<"table", 0>>}),
        Elf(0, Text(8, 3, 8), {}), Elf(5, Text(8, 3, 8), {}), Elf(4, Text(8, 3, 5), {}),
        Elf(4, Row2, {}), Elf(4, <<Null>>, {}), [Elf(4, Far, {}) EXCEPT !.valid = FALSE]}
MCLists == {<<>>, <<1>>, <<3>>, <<1, 2>>, <<2, 1>>}

Exe == INSTANCE Exec WITH
  PAGE <- 2, MAX_ARG_PAGES <- 2, BLOCK <- 4, WORD <- 2, HEADER <- 2, DIRECT <- 2,
  ENTRIES <- 3, Lists <- MCLists, Binaries <- MCBinaries, Space <- 1 .. 12

Init ==
  /\ part \in {"inodes", "blocks", "names", "bytes", "executed"}
  /\ InodesInit /\ Map!BlocksInit /\ Dir!NamesInit
  /\ Io!IoInit /\ (part # "bytes" => i_mode = "regular" /\ append = {} /\ fd = [t \in Tasks |-> p1])
  /\ Exe!ExecInit
  /\ (part # "executed" => argv = <<>> /\ envp = <<>> /\ binary = Elf(4, <<Null>>, {}))

Next ==
  /\ part' = part
  /\ \/ part = "inodes" /\ InodesNext
        /\ UNCHANGED <<mapVars, dirVars, ioVars, exeVars>>
     \/ part = "blocks" /\ Map!BlocksNext
        /\ UNCHANGED <<inodeVars, dirVars, ioVars, exeVars>>
     \/ part = "names" /\ Dir!NamesNext
        /\ UNCHANGED <<inodeVars, mapVars, ioVars, exeVars>>
     \/ part = "bytes" /\ Io!IoNext
        /\ UNCHANGED <<inodeVars, mapVars, dirVars, exeVars>>
     \/ part = "executed" /\ Exe!ExecNext
        /\ UNCHANGED <<inodeVars, mapVars, dirVars, ioVars>>

Symmetry == {g @@ h : g \in Permutations(Tasks), h \in Permutations({p1, p2})}

(* The properties of the parts, stated in their modules *)
BlocksExact == part = "blocks" => Map!BlocksTypeOK /\ Map!BlocksExact
LinksExact == part = "names" => Dir!NamesTypeOK /\ Dir!LinksExact
BytesExact ==
  /\ part = "bytes" => Io!IoTypeOK /\ Io!BytesExact
  /\ part = "executed" => Exe!ImageExact
=============================================================================
