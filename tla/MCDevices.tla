------------------------------ MODULE MCDevices ------------------------------
(***************************************************************************)
(* Memory, the terminal in its three parts, and the list of disk requests, *)
(* which have no step in common, in one run.  Which part a behaviour is    *)
(* about is chosen in its initial state.                                   *)
(*                                                                         *)
(* Memory: two slots, and two tables of one entry per process, the first   *)
(* for the program and the second for the arguments.                       *)
(*                                                                         *)
(* Disk: four tasks with one block each, at places that IN_ORDER compares  *)
(* (b1 before b3 before b4) and that it does not (b2 with b1 and b3), and  *)
(* a slot for each; MCHdRequest has the errors and the waiting for a slot. *)
(***************************************************************************)
EXTENDS MemMap, TLC

VARIABLES part,
          line, canon, echo, read_q, secondary, write_q, data, frames, reader, writer,
          signal, tx, cooked, left, mishap,
          con, esc, saved_x, saved_y, panel, shown,
          coming, e0, mode, leds, f1_flag, f2_flag, f3_flag, path, selected_row_index,
          clipboard, cliboard_cursor, held, misuse,
          d, place, asked, add, budget, raced, torn

memVars == vars
ttyVars == <<line, canon, echo, read_q, secondary, write_q, data, frames, reader, writer,
             signal, tx, cooked, left, mishap>>
conVars == <<con, esc, saved_x, saved_y, panel, shown>>
keyVars == <<coming, e0, mode, leds, f1_flag, f2_flag, f3_flag, path, selected_row_index,
             clipboard, cliboard_cursor, held, misuse>>
diskVars == <<d, place, asked, add, budget, raced, torn>>

MCTop == <<1, 1>>
MCTree == (<<>> :> <<"d", "f">>) @@ (<<"d">> :> <<"e">>) @@ (<<"d", "e">> :> <<>>)

Line == INSTANCE Tty WITH
  SIZE <- 4, ROOM <- 2, SPARE <- 1, STARTUP <- 1, MaxCount <- 4,
  Typed <- {"x", "eof", "del", "intr"}, Followed <- {}
Screen == INSTANCE Console WITH
  COLUMNS <- 2, LINES <- 3, SCREEN_END <- 9, TAB <- 2, TOOL_WIDTH <- 1,
  TOOL_HEIGHT <- 1, SAVES <- 1, RESTORES <- 2, NPAR <- 2, MaxPar <- 2
Board == INSTANCE Keyboard WITH
  Tree <- MCTree, ROWS <- 2, WIDTH <- 2, MAX <- 2, mishap <- misuse

DiskBlocks == {"b1", "b2", "b3", "b4"}
DiskKey == [b1 |-> <<0, 2>>, b2 |-> <<1, 1>>, b3 |-> <<1, 3>>, b4 |-> <<2, 4>>]
DiskWork == [t1 |-> {<<"b1", "READ">>}, t2 |-> {<<"b2", "WRITE">>},
             t3 |-> {<<"b3", "READ">>}, t4 |-> {<<"b4", "WRITE">>}]
Disk == INSTANCE HdRequest WITH
  Tasks <- DOMAIN DiskWork, NoTask <- "none", Buffers <- DiskBlocks, NoBuffer <- "none",
  Queues <- DiskBlocks \cup {"wait_for_request"}, wait_for_request <- "wait_for_request",
  Key <- DiskKey, Work <- DiskWork, NR_REQUEST <- 4, MAX_ERRORS <- 1, MaxCalls <- 1,
  DrqTimeouts <- TRUE, Failing <- {}, pc <- place, call <- asked

DevicesInit ==
  /\ part \in {"memory", "line", "screen", "keyboard", "disk"}
  /\ part # "line" => line = "con"
  /\ Init /\ Line!TtyInit /\ Screen!ConInit /\ Board!KeyInit /\ Disk!Init

DevicesNext ==
  /\ part' = part
  /\ \/ part = "memory" /\ Next /\ UNCHANGED <<ttyVars, conVars, keyVars, diskVars>>
     \/ part = "line" /\ Line!TtyNext /\ UNCHANGED <<memVars, conVars, keyVars, diskVars>>
     \/ part = "screen" /\ Screen!ConNext /\ UNCHANGED <<memVars, ttyVars, keyVars, diskVars>>
     \/ part = "keyboard" /\ Board!KeyNext /\ UNCHANGED <<memVars, ttyVars, conVars, diskVars>>
     \/ part = "disk" /\ Disk!Next /\ UNCHANGED <<memVars, ttyVars, conVars, keyVars>>

Devices == DevicesInit /\ [][DevicesNext]_<<part, memVars, ttyVars, conVars, keyVars, diskVars>>

(* The properties of the parts, stated in their modules *)
InputExact == part = "line" => Line!TtyTypeOK /\ Line!InputExact
Served == part = "line" => Line!Served
WindowExact == part = "screen" => Screen!ConTypeOK /\ Screen!WindowExact
KeyboardExact == part = "keyboard" => Board!KeyTypeOK /\ Board!KeyboardExact
RequestsSorted ==
  /\ [](part = "disk" => Disk!TypeOK /\ Disk!RequestsKept)
  /\ Disk!SecondStays
=============================================================================
