------------------------------- MODULE Keyboard -------------------------------
(***************************************************************************)
(* The keyboard of kernel/keyboard.s, and the tools behind F1, F2 and F3   *)
(* in kernel/console.c: an explorer of directories and a clipboard, which  *)
(* run in the keyboard interrupt.  A step is one byte of the keyboard.     *)
(* What the keys put into the input queue is the subject of Tty.           *)
(***************************************************************************)
EXTENDS Naturals, Sequences, SequencesExt, FiniteSets

CONSTANTS Tree,   \* the entries of each directory; a path is a sequence of names
          ROWS,   \* 10: the rows of the clipboard
          WIDTH,  \* 19: the characters of a row
          MAX     \* bound: the keys that are down at once

VARIABLES coming,  \* the bytes the keyboard is still to send
          e0, mode, leds,
          f1_flag, f2_flag, f3_flag,
          path,    \* current_dir_path, and behind it ls_files and is_dir
          selected_row_index,
          clipboard,        \* the lengths of its rows
          cliboard_cursor,
          held,    \* history: the keys that are down
          mishap   \* history: see Mishaps
keyVars == <<coming, e0, mode, leds, f1_flag, f2_flag, f3_flag, path, selected_row_index,
             clipboard, cliboard_cursor, held, mishap>>

(* The keys that are followed: their byte, and the byte e0 before it *)
Modifiers == {"lshift", "rshift", "lctrl", "rctrl", "lalt", "ralt", "caps"}
Extended == {"rctrl", "ralt"}
Keys == Modifiers \cup {"f1", "f2", "f3", "up", "down", "left", "right", "letter", "bs", "at"}
ByteOf(k) == CASE k \in {"lctrl", "rctrl"} -> "ctrl" [] k \in {"lalt", "ralt"} -> "alt" [] OTHER -> k
Bits == Modifiers \cup {"capslock"}

(* astray: a character is typed or erased where the cursor of the          *)
(* clipboard is not; empty: an arrow in an empty directory, whose length   *)
(* divides; beyond: the selected row is none of the directory; slash: the  *)
(* path keeps its last slash, behind which no name is found.               *)
Mishaps == {"no", "astray", "empty", "beyond", "slash"}

KeyTypeOK ==
  /\ coming \in Seq((Keys \cup {"e0"}) \X BOOLEAN) /\ e0 \in BOOLEAN
  /\ mode \subseteq Bits /\ leds \subseteq {"capslock"} /\ held \subseteq Keys
  /\ f1_flag \in BOOLEAN /\ f2_flag \in 0 .. 2 /\ f3_flag \in BOOLEAN
  /\ path \in DOMAIN Tree /\ selected_row_index \in 0 .. ROWS - 1
  /\ clipboard \in [0 .. ROWS - 1 -> 0 .. WIDTH]
  /\ cliboard_cursor \in (0 .. ROWS - 1) \X (0 .. WIDTH)
  /\ mishap \in Mishaps

KeyInit ==
  /\ coming = <<>> /\ e0 = FALSE /\ mode = {} /\ leds = {} /\ held = {}
  /\ f1_flag = FALSE /\ f2_flag = 0 /\ f3_flag = FALSE
  /\ path = <<>> /\ selected_row_index = 0
  /\ clipboard = [r \in 0 .. ROWS - 1 |-> 0] /\ cliboard_cursor = <<0, 0>>
  /\ mishap = "no"

-----------------------------------------------------------------------------
(* The keyboard: the make or the break of a key is one byte, or two.       *)
Sent(k, down) == coming' = (IF k \in Extended THEN <<<<"e0", TRUE>>>> ELSE <<>>) \o <<<<k, down>>>>
Strike(k) ==
  /\ coming = <<>> /\ Sent(k, TRUE) /\ (Cardinality(held) < MAX \/ k \in held)
  /\ held' = held \cup {k}
  /\ UNCHANGED <<e0, mode, leds, f1_flag, f2_flag, f3_flag, path, selected_row_index,
                 clipboard, cliboard_cursor, mishap>>
Release(k) ==
  /\ coming = <<>> /\ k \in held /\ Sent(k, FALSE) /\ held' = held \ {k}
  /\ UNCHANGED <<e0, mode, leds, f1_flag, f2_flag, f3_flag, path, selected_row_index,
                 clipboard, cliboard_cursor, mishap>>

(* keyboard_interrupt: e0 is kept for the next byte, and no longer.        *)
Tools == <<f1_flag, f2_flag, f3_flag, path, selected_row_index, clipboard, cliboard_cursor, mishap>>
Prefix ==
  /\ coming # <<>> /\ Head(coming)[1] = "e0" /\ e0' = TRUE /\ coming' = Tail(coming)
  /\ UNCHANGED <<mode, leds, held>> /\ UNCHANGED Tools
Byte(k, down) ==
  /\ coming # <<>> /\ Head(coming)[2] = down
  /\ ByteOf(Head(coming)[1]) = k /\ coming' = Tail(coming) /\ e0' = FALSE
  /\ UNCHANGED held

(* ctrl, alt, lshift, rshift and their counterparts *)
Bit(k) == CASE k = "ctrl" -> (IF e0 THEN "rctrl" ELSE "lctrl")
            [] k = "alt" -> (IF e0 THEN "ralt" ELSE "lalt")
            [] OTHER -> k
Modifier(k, down) ==
  /\ Byte(k, down) /\ mode' = IF down THEN mode \cup {Bit(k)} ELSE mode \ {Bit(k)}
  /\ UNCHANGED leds /\ UNCHANGED Tools

Toggled(S, b) == (S \ {b}) \cup ({b} \ S)
(* Mutant: a key that is held down toggles again. *)
caps_repeated ==
  /\ Byte("caps", TRUE)
  /\ leds' = Toggled(leds, "capslock")
  /\ mode' = IF "caps" \in mode THEN mode ELSE Toggled(mode, "capslock") \cup {"caps"}
  /\ UNCHANGED Tools

caps ==
  /\ Byte("caps", TRUE)
  /\ \/ "caps" \in mode /\ UNCHANGED <<mode, leds>>
     \/ /\ "caps" \notin mode
        /\ leds' = Toggled(leds, "capslock") /\ mode' = Toggled(mode, "capslock") \cup {"caps"}
  /\ UNCHANGED Tools

uncaps == Byte("caps", FALSE) /\ mode' = mode \ {"caps"} /\ UNCHANGED leds /\ UNCHANGED Tools

(* f1_up_handler, f1_down_handler, f3_handler; the break of the other keys *)
f1_handler(down) ==
  /\ Byte("f1", down) /\ f1_flag' = down
  /\ UNCHANGED <<mode, leds, f2_flag, f3_flag, path, selected_row_index, clipboard, cliboard_cursor, mishap>>
f3_handler ==
  /\ Byte("f3", TRUE) /\ f3_flag' = ~f3_flag
  /\ UNCHANGED <<mode, leds, f1_flag, f2_flag, path, selected_row_index, clipboard, cliboard_cursor, mishap>>
none == \E k \in Keys \ (Modifiers \cup {"f1"}) : Byte(k, FALSE) /\ UNCHANGED <<mode, leds>> /\ UNCHANGED Tools

-----------------------------------------------------------------------------
(* The tools *)
AtCursor == cliboard_cursor = <<selected_row_index, clipboard[selected_row_index]>>
Mishap(bad, m) == mishap' = IF bad THEN m ELSE mishap
NoTyping == UNCHANGED <<mode, leds, f1_flag, f3_flag>>

(* do_self, for keys of three kinds: a letter, the backspace, and one that *)
(* has a character, @, only with alt-gr.  With ctrl @ is the character 0.  *)
Character(k) ==
  CASE k = "at" -> IF "ralt" \notin mode THEN "char"
                   ELSE IF mode \cap {"lctrl", "rctrl"} # {} THEN "nul" ELSE "char"
    [] "ralt" \in mode -> "nothing"
    [] OTHER -> IF k = "bs" /\ "lalt" \notin mode THEN "del" ELSE "char"

(* print_to_clb with move_cursor_col *)
do_self(k) ==
  LET c == Character(k)
      row == selected_row_index
      col == cliboard_cursor[2]
      len == clipboard[row]
  IN /\ Byte(k, TRUE) /\ NoTyping
     /\ \/ /\ ~f3_flag \/ c = "nothing" \/ (c = "del" /\ len = 0) \/ (c # "del" /\ col >= WIDTH)
           /\ UNCHANGED <<clipboard, cliboard_cursor, mishap>>
        \/ /\ f3_flag /\ c = "del" /\ len > 0
           /\ clipboard' = [clipboard EXCEPT ![row] = @ - 1]
           /\ cliboard_cursor' = IF AtCursor THEN [cliboard_cursor EXCEPT ![2] = @ - 1] ELSE cliboard_cursor
           /\ Mishap(~AtCursor, "astray")
        \/ /\ f3_flag /\ c \in {"char", "nul"} /\ col < WIDTH
           /\ clipboard' = IF c = "char" /\ len < WIDTH THEN [clipboard EXCEPT ![row] = @ + 1] ELSE clipboard
           /\ cliboard_cursor' = [cliboard_cursor EXCEPT ![2] = @ + 1]
           /\ Mishap(~AtCursor \/ c = "nul", "astray")
     /\ UNCHANGED <<f2_flag, path, selected_row_index>>

(* f2_handler with f2_handle: the explorer, then the clipboard, in turn *)
f2_handler ==
  /\ Byte("f2", TRUE) /\ NoTyping
  /\ f2_flag' = IF f2_flag = 1 THEN 2 ELSE 1
  /\ selected_row_index' = 0
  /\ cliboard_cursor' = IF f2_flag = 1 THEN <<0, clipboard[0]>> ELSE cliboard_cursor
  /\ UNCHANGED <<path, clipboard, mishap>>

Arrow(k) == Byte(k, TRUE) /\ f1_flag /\ NoTyping /\ UNCHANGED <<f2_flag, clipboard>>
(* Without F1 an arrow goes to the input queue; so it does nothing here    *)
(* in the clipboard, if it is left or right.                               *)
Unused(k) ==
  /\ Byte(k, TRUE) /\ NoTyping
  /\ ~f1_flag \/ f2_flag = 0 \/ (f2_flag = 2 /\ k \in {"left", "right"})
  /\ UNCHANGED <<f2_flag, path, selected_row_index, clipboard, cliboard_cursor, mishap>>

current_dir_len == Len(Tree[path])
(* arrow_up_handle and arrow_down_handle.  A directory without entries has *)
(* no row to select.                                                       *)
Selected(row, n, down) == IF down THEN (row + 1) % n ELSE (row + n - 1) % n
arrow_handle(down) ==
  /\ Arrow(IF down THEN "down" ELSE "up") /\ UNCHANGED path
  /\ \/ /\ f2_flag = 1 /\ current_dir_len > 0
        /\ selected_row_index' = Selected(selected_row_index, current_dir_len, down)
        /\ UNCHANGED <<cliboard_cursor, mishap>>
     \/ /\ f2_flag = 1 /\ current_dir_len = 0 /\ Mishap(TRUE, "empty")
        /\ UNCHANGED <<selected_row_index, cliboard_cursor>>
     \/ /\ f2_flag = 2
        /\ selected_row_index' = Selected(selected_row_index, ROWS, down)
        /\ cliboard_cursor' = <<selected_row_index', clipboard[selected_row_index']>>
        /\ UNCHANGED mishap

(* arrow_right_handle and arrow_left_handle: the row stays what it is, and *)
(* the slash before the name that is cut stays.  An empty directory has    *)
(* itself in its first row.                                                *)
Entered(p) == path' = p /\ Mishap(selected_row_index >= Len(Tree[p]) /\ Tree[p] # <<>>, "beyond")
arrow_right_handle ==
  /\ Arrow("right") /\ f2_flag = 1 /\ UNCHANGED <<selected_row_index, cliboard_cursor>>
  /\ \/ current_dir_len = 0 /\ Mishap(TRUE, "slash") /\ UNCHANGED path
     \/ /\ current_dir_len > 0
        /\ LET p == Append(path, Tree[path][selected_row_index + 1]) IN
           IF p \in DOMAIN Tree THEN Entered(p) ELSE UNCHANGED <<path, mishap>>
arrow_left_handle ==
  /\ Arrow("left") /\ f2_flag = 1 /\ UNCHANGED <<selected_row_index, cliboard_cursor>>
  /\ \/ path = <<>> /\ UNCHANGED <<path, mishap>>
     \/ Len(path) = 1 /\ Entered(<<>>)
     \/ Len(path) > 1 /\ Mishap(TRUE, "slash") /\ UNCHANGED path

(* Bounds: the explorer leaves the root only with an empty clipboard, and  *)
(* the clipboard is filled at the root only.                               *)
Pressable(k) ==
  /\ k = "right" => \A r \in DOMAIN clipboard : clipboard[r] = 0
  /\ k \in {"letter", "bs", "at"} => path = <<>>

KeyNext ==
  /\ mishap = "no"
  /\ \/ \E k \in Keys : (Pressable(k) /\ Strike(k)) \/ Release(k)
     \/ Prefix \/ caps \/ uncaps \/ f2_handler \/ f3_handler \/ none
     \/ \E down \in BOOLEAN :
          \/ \E k \in {"ctrl", "alt", "lshift", "rshift"} : Modifier(k, down)
          \/ f1_handler(down) \/ arrow_handle(down)
     \/ \E k \in {"letter", "bs", "at"} : do_self(k)
     \/ \E k \in {"up", "down", "left", "right"} : Unused(k)
     \/ arrow_right_handle \/ arrow_left_handle

-----------------------------------------------------------------------------
(* The e0 that tells the right keys from the left ones comes in a byte of  *)
(* its own, keys repeat, and each kind of tool moves the cursor: between   *)
(* two keys the bits of mode are the keys that are down, and the led is    *)
(* the lock; and in the clipboard the cursor is behind the row's text.     *)
KeyboardExact ==
  /\ coming = <<>> => mode \cap Modifiers = held \cap Modifiers
  /\ ("capslock" \in mode) = ("capslock" \in leds)
  /\ (mishap = "no" /\ f2_flag = 2) => AtCursor
=============================================================================
