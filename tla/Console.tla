------------------------------- MODULE Console -------------------------------
(***************************************************************************)
(* The screen of kernel/console.c: con_write and what it calls.  A step is *)
(* one character.  Addresses count cells of two bytes from SCREEN_START.   *)
(* One character that has been printed, "ink", is followed: a cell holds   *)
(* it, or something else ("blank": a space, or a part of the panel).       *)
(*                                                                         *)
(* The screen is a window on the video memory, which scrolls by moving     *)
(* the window; at the end of the memory the rows are copied back to its    *)
(* start.  The history "shown" is what a screen without that memory shows. *)
(***************************************************************************)
EXTENDS Naturals

CONSTANTS COLUMNS, LINES, SCREEN_END,
          TAB,         \* 8: the distance of the tabulator stops
          TOOL_WIDTH, TOOL_HEIGHT,
          SAVES, RESTORES,  \* '7' and '8', which are compared with a column
          NPAR,
          MaxPar       \* bound: a parameter of a sequence; the second is 0 or this

VARIABLES con,     \* the memory, the window, the cursor, the scroll region
          esc,     \* state, par, npar of a sequence
          saved_x, saved_y,
          panel,   \* scrupt_state_flag # 0
          shown    \* history
conVars == <<con, esc, saved_x, saved_y, panel, shown>>

Cells == 0 .. COLUMNS * LINES - 1
Contents == {"blank", "ink"}
Plain == [state |-> 0, par |-> [i \in 0 .. NPAR - 1 |-> 0], npar |-> 0]

ConTypeOK ==
  /\ con \in [mem : [0 .. SCREEN_END - 1 -> Contents], origin : Nat, scr_end : Nat,
              pos : Nat, x : Nat, y : Nat, top : Nat, bottom : Nat]
  /\ esc \in [state : 0 .. 3, par : [0 .. NPAR - 1 -> 0 .. MaxPar], npar : 0 .. NPAR - 1]
  /\ saved_x \in 0 .. COLUMNS /\ saved_y \in 0 .. LINES - 1
  /\ panel \in BOOLEAN /\ shown \in [Cells -> Contents]

ConInit ==
  /\ con = [mem |-> [a \in 0 .. SCREEN_END - 1 |-> "blank"], origin |-> 0,
            scr_end |-> LINES * COLUMNS, pos |-> 0, x |-> 0, y |-> 0,
            top |-> 0, bottom |-> LINES]
  /\ esc = Plain /\ saved_x = 0 /\ saved_y = 0 /\ panel = FALSE
  /\ shown = [i \in Cells |-> "blank"]

-----------------------------------------------------------------------------
(* The memory: rep stosw and rep movsl, in either direction *)
Filled(m, from, n, v) ==
  [a \in DOMAIN m |-> IF a \in from .. from + n - 1 THEN v ELSE m[a]]
Blanked(m, from, n) == IF n = 0 THEN m ELSE Filled(m, from, n, "blank")
Moved(m, to, from, n) ==
  [a \in DOMAIN m |-> IF a >= to /\ a < to + n THEN m[a - to + from] ELSE m[a]]

gotoxy(s, x, y) ==
  IF x \notin 0 .. COLUMNS - 1 \/ y \notin 0 .. LINES - 1 THEN s
  ELSE [s EXCEPT !.x = x, !.y = y, !.pos = s.origin + y * COLUMNS + x]

(* render_border with render_ls or print_clipboard *)
InPanel(i) == i \div COLUMNS <= TOOL_HEIGHT /\ i % COLUMNS >= COLUMNS - TOOL_WIDTH
Render(s) ==
  [s EXCEPT !.mem = [a \in DOMAIN s.mem |->
     IF a >= s.origin /\ InPanel(a - s.origin) THEN "blank" ELSE s.mem[a]]]
Rendered(s) == IF panel THEN Render(s) ELSE s

(* Mutant: the window is moved back, but not the cursor. *)
ScrolledBackOnly(s) ==
  LET o == s.origin + COLUMNS
      e == s.scr_end + COLUMNS
      rows == (LINES - 1) * COLUMNS
  IN IF e > SCREEN_END
     THEN [s EXCEPT !.mem = Blanked(Moved(@, 0, o, rows), rows, COLUMNS),
                    !.pos = @ + COLUMNS, !.origin = 0, !.scr_end = e - o]
     ELSE [s EXCEPT !.mem = Blanked(@, e - COLUMNS, COLUMNS),
                    !.pos = @ + COLUMNS, !.origin = o, !.scr_end = e]

(* scrup, the whole screen *)
Scrolled(s) ==
  LET o == s.origin + COLUMNS
      e == s.scr_end + COLUMNS
      rows == (LINES - 1) * COLUMNS
  IN IF e > SCREEN_END
     THEN [s EXCEPT !.mem = Blanked(Moved(@, 0, o, rows), rows, COLUMNS),
                    !.pos = @ + COLUMNS - o, !.origin = 0, !.scr_end = e - o]
     ELSE [s EXCEPT !.mem = Blanked(@, e - COLUMNS, COLUMNS),
                    !.pos = @ + COLUMNS, !.origin = o, !.scr_end = e]

(* scrup and scrdown between the rows t and b *)
scrup(s, t, b) ==
  Rendered(
    IF t = 0 /\ b = LINES THEN Scrolled(s)
    ELSE LET first == s.origin + t * COLUMNS
             rows == (b - t - 1) * COLUMNS
         IN [s EXCEPT !.mem = Blanked(Moved(@, first, first + COLUMNS, rows), first + rows, COLUMNS)])
scrdown(s, t, b) ==
  LET first == s.origin + t * COLUMNS
      rows == (b - t - 1) * COLUMNS
  IN [s EXCEPT !.mem = Blanked(Moved(@, first + COLUMNS, first, rows), first, COLUMNS)]

lf(s) ==
  IF s.y + 1 < s.bottom THEN [s EXCEPT !.y = @ + 1, !.pos = @ + COLUMNS]
  ELSE scrup(s, s.top, s.bottom)
ri(s) ==
  IF s.y > s.top THEN [s EXCEPT !.y = @ - 1, !.pos = @ - COLUMNS]
  ELSE scrdown(s, s.top, s.bottom)
Back(s) == IF s.x > 0 THEN [s EXCEPT !.x = @ - 1, !.pos = @ - 1] ELSE s
NextRow(s) == lf([s EXCEPT !.x = @ - COLUMNS, !.pos = @ - COLUMNS])

(* csi_J and csi_K: what is erased, as <<first, number>> *)
Erasure_J(s, n) ==
  CASE n = 0 -> <<s.pos, s.scr_end - s.pos>>
    [] n = 1 -> <<s.origin, s.pos - s.origin>>
    [] n = 2 -> <<s.origin, COLUMNS * LINES>>
    [] OTHER -> <<0, 0>>
Erasure_K(s, n) ==
  CASE n = 0 -> <<s.pos, COLUMNS - s.x>>
    [] n = 1 -> <<s.pos - s.x, s.x>>
    [] n = 2 -> <<s.pos - s.x, COLUMNS>>
    [] OTHER -> <<0, 0>>

(* csi_at and csi_P: n characters are inserted or deleted at the cursor.   *)
Inserted(m, at, width, n) ==
  [a \in DOMAIN m |-> IF a < at \/ a >= at + width THEN m[a]
                      ELSE IF a < at + n THEN "blank" ELSE m[a - n]]
Deleted(m, at, width, n) ==
  [a \in DOMAIN m |-> IF a < at \/ a >= at + width THEN m[a]
                      ELSE IF a + n < at + width THEN m[a + n] ELSE "blank"]

(* csi_L and csi_M: n times insert_line or delete_line *)
insert_lines(s, n) ==
  LET f[i \in 0 .. n] == IF i = 0 THEN s ELSE scrdown(f[i - 1], s.y, LINES) IN f[n]
delete_lines(s, n) ==
  LET f[i \in 0 .. n] == IF i = 0 THEN s ELSE scrup(f[i - 1], s.y, LINES) IN f[n]
AtLeast1(n, most) == IF n = 0 THEN 1 ELSE IF n > most THEN most ELSE n
Less1(n) == IF n > 0 THEN n - 1 ELSE 0

-----------------------------------------------------------------------------
(* The same on rows of their own, for the history *)
Row(i) == i \div COLUMNS
Painted(sh) == [i \in Cells |-> IF panel /\ InPanel(i) THEN "blank" ELSE sh[i]]
RowsUp(sh, t, b, n) ==
  IF n = 0 THEN sh ELSE
  Painted([i \in Cells |-> IF Row(i) < t \/ Row(i) >= b THEN sh[i]
                           ELSE IF Row(i) + n < b THEN sh[i + n * COLUMNS] ELSE "blank"])
RowsDown(sh, t, b, n) ==
  [i \in Cells |-> IF Row(i) < t \/ Row(i) >= b THEN sh[i]
                   ELSE IF Row(i) >= t + n THEN sh[i - n * COLUMNS] ELSE "blank"]
Fed(sh, s) == IF s.y + 1 < s.bottom THEN sh ELSE RowsUp(sh, s.top, s.bottom, 1)
At(s) == s.y * COLUMNS + s.x

-----------------------------------------------------------------------------
(* con_write: state 0.  Bound: the memory holds ink in one cell at a time, *)
(* which shows where every cell goes: nothing looks at what a cell holds.  *)
Inkless(m) == \A a \in DOMAIN m : m[a] # "ink"
Others == UNCHANGED <<esc, saved_x, saved_y, panel>>

PrintChar ==
  LET s == IF con.x >= COLUMNS THEN NextRow(con) ELSE con IN
  /\ esc.state = 0
  /\ Inkless(con.mem)
  /\ con' = [s EXCEPT !.mem[s.pos] = "ink", !.pos = @ + 1, !.x = @ + 1]
  /\ shown' = [(IF con.x >= COLUMNS THEN Fed(shown, con) ELSE shown) EXCEPT ![At(s)] = "ink"]
  /\ Others

LineFeed == esc.state = 0 /\ con' = lf(con) /\ shown' = Fed(shown, con) /\ Others
Return == esc.state = 0 /\ con' = [con EXCEPT !.pos = @ - con.x, !.x = 0] /\ UNCHANGED shown /\ Others
Backspace == esc.state = 0 /\ con' = Back(con) /\ UNCHANGED shown /\ Others
Delete ==
  LET s == Back(con) IN
  /\ esc.state = 0 /\ con.x > 0
  /\ con' = [s EXCEPT !.mem[s.pos] = "blank"]
  /\ shown' = [shown EXCEPT ![At(s)] = "blank"] /\ Others
Tab ==
  LET c == TAB - (con.x % TAB)
      s == [con EXCEPT !.x = @ + c, !.pos = @ + c]
  IN /\ esc.state = 0
     /\ con' = IF s.x > COLUMNS THEN NextRow(s) ELSE s
     /\ shown' = IF s.x > COLUMNS THEN Fed(shown, con) ELSE shown
     /\ Others

-----------------------------------------------------------------------------
(* The escape sequences: states 1, 2 and 3 *)
Escape == esc.state = 0 /\ esc' = [esc EXCEPT !.state = 1] /\ UNCHANGED <<con, saved_x, saved_y, panel, shown>>
(* Bound: the cursor is kept in the last row. *)
save_cur == con.y = LINES - 1 /\ saved_x' = con.x /\ saved_y' = con.y
Restored(s) ==
  [s EXCEPT !.x = saved_x, !.y = saved_y, !.pos = s.origin + saved_y * COLUMNS + saved_x]

(* The character behind ESC.  Z is answered into the input queue (Tty);    *)
(* any other but [ E M D saves or restores the cursor, or does nothing, as *)
(* the column says.                                                        *)
Escaped(c) ==
  /\ esc.state = 1
  /\ esc' = IF c = "[" THEN [Plain EXCEPT !.state = 2] ELSE Plain
  /\ con' = CASE c = "E" -> gotoxy(con, 0, con.y + 1)
              [] c = "M" -> ri(con)
              [] c = "D" -> lf(con)
              [] c = "7" /\ con.x # SAVES /\ con.x = RESTORES -> Restored(con)
              [] OTHER -> con
  /\ shown' = CASE c = "M" /\ con.y <= con.top -> RowsDown(shown, con.top, con.bottom, 1)
                [] c = "D" -> Fed(shown, con)
                [] OTHER -> shown
  /\ IF c = "7" /\ con.x = SAVES THEN save_cur ELSE UNCHANGED <<saved_x, saved_y>>
  /\ UNCHANGED panel

(* A parameter, the next parameter, or the ? behind [ *)
Parameter ==
  /\ esc.state \in {2, 3}
  /\ \/ esc.par[esc.npar] = 0 /\ \E n \in 1 .. MaxPar :
           (esc.npar > 0 => n = MaxPar) /\ esc' = [esc EXCEPT !.par[esc.npar] = n, !.state = 3]
     \/ esc.npar < NPAR - 1 /\ esc' = [esc EXCEPT !.npar = @ + 1, !.state = 3]
     \/ esc.state = 2 /\ esc' = [esc EXCEPT !.state = 3]
  /\ UNCHANGED <<con, saved_x, saved_y, panel, shown>>

InSequence == esc.state \in {2, 3} /\ esc' = Plain /\ UNCHANGED panel
NoSave == UNCHANGED <<saved_x, saved_y>>

(* G A B C D E F d H of a sequence: the cursor moves. *)
Moves(c) ==
  LET p == esc.par[0]
      q == IF p = 0 THEN 1 ELSE p
  IN /\ InSequence /\ NoSave /\ UNCHANGED shown
     /\ con' = CASE c = "G" -> gotoxy(con, Less1(p), con.y)
                 [] c = "A" -> IF con.y >= q THEN gotoxy(con, con.x, con.y - q) ELSE con
                 [] c = "B" -> gotoxy(con, con.x, con.y + q)
                 [] c = "C" -> gotoxy(con, con.x + q, con.y)
                 [] c = "D" -> IF con.x >= q THEN gotoxy(con, con.x - q, con.y) ELSE con
                 [] c = "E" -> gotoxy(con, 0, con.y + q)
                 [] c = "F" -> IF con.y >= q THEN gotoxy(con, 0, con.y - q) ELSE con
                 [] c = "d" -> gotoxy(con, con.x, Less1(p))
                 [] c = "H" -> gotoxy(con, Less1(esc.par[1]), Less1(p))

(* J and K: erase *)
Erases(c) ==
  LET e == IF c = "J" THEN Erasure_J(con, esc.par[0]) ELSE Erasure_K(con, esc.par[0])
      at == At(con)
      n == esc.par[0]
      gone == CASE c = "J" /\ n = 0 -> {i \in Cells : i >= at}
                [] c = "J" /\ n = 1 -> {i \in Cells : i < at}
                [] c = "J" /\ n = 2 -> Cells
                [] c = "K" -> {i \in Cells : Row(i) = con.y /\ (n = 0 => i >= at) /\ (n = 1 => i < at)}
                [] OTHER -> {}
  IN /\ InSequence /\ NoSave
     /\ con' = [con EXCEPT !.mem = Blanked(@, e[1], e[2])]
     /\ shown' = [i \in Cells |-> IF i \in gone /\ n <= 2 THEN "blank" ELSE shown[i]]

(* L M @ P: rows or characters are inserted or deleted at the cursor. *)
Shifts(c) ==
  LET n == AtLeast1(esc.par[0], IF c \in {"L", "M"} THEN LINES ELSE COLUMNS)
      width == COLUMNS - con.x
  IN /\ InSequence /\ NoSave
     /\ con' = CASE c = "L" -> insert_lines(con, n)
                 [] c = "M" -> delete_lines(con, n)
                 [] c = "@" -> [con EXCEPT !.mem = Inserted(@, con.pos, width, n)]
                 [] c = "P" -> [con EXCEPT !.mem = Deleted(@, con.pos, width, n)]
     /\ shown' = CASE c = "L" -> RowsDown(shown, con.y, LINES, n)
                   [] c = "M" -> RowsUp(shown, con.y, LINES, n)
                   [] c = "@" -> Inserted(shown, At(con), width, n)
                   [] c = "P" -> Deleted(shown, At(con), width, n)

(* r, s, u: the scroll region and the cursor kept *)
Keeps(c) ==
  LET t == Less1(esc.par[0])
      b == IF esc.par[1] = 0 THEN LINES ELSE esc.par[1]
  IN /\ InSequence /\ UNCHANGED shown
     /\ \/ c = "r" /\ NoSave
           /\ con' = IF t < b /\ b <= LINES THEN [con EXCEPT !.top = t, !.bottom = b] ELSE con
        \/ c = "s" /\ save_cur /\ UNCHANGED con
        \/ c = "u" /\ NoSave /\ con' = Restored(con)

(* F2: f2_handle draws the panel, and scrup will from now on. *)
ShowPanel ==
  /\ ~panel /\ panel' = TRUE
  /\ con' = Render(con) /\ shown' = [i \in Cells |-> IF InPanel(i) THEN "blank" ELSE shown[i]]
  /\ UNCHANGED <<esc, saved_x, saved_y>>

ConNext ==
  \/ PrintChar \/ LineFeed \/ Return \/ Backspace \/ Delete \/ Tab
  \/ Escape \/ Parameter \/ ShowPanel
  \/ \E c \in {"[", "E", "M", "D", "Z", "7"} : Escaped(c)
  \/ \E c \in {"G", "A", "B", "C", "D", "E", "F", "d", "H"} : Moves(c)
  \/ \E c \in {"J", "K"} : Erases(c)
  \/ \E c \in {"L", "M", "@", "P"} : Shifts(c)
  \/ \E c \in {"r", "s", "u"} : Keeps(c)

-----------------------------------------------------------------------------
(* scrup, gotoxy, lf, ri, and every place that keeps pos beside x and y:   *)
(* the cursor's address is where x and y say, also behind a scroll that    *)
(* has moved the window; the window lies in the memory; and it shows what  *)
(* a screen of rows shows, wherever in the memory it is.                   *)
WindowExact ==
  /\ con.pos = con.origin + con.y * COLUMNS + con.x
  /\ con.x <= COLUMNS /\ con.y < LINES /\ con.top < con.bottom /\ con.bottom <= LINES
  /\ con.scr_end = con.origin + LINES * COLUMNS /\ con.scr_end <= SCREEN_END
  /\ \A i \in Cells : con.mem[con.origin + i] = shown[i]
=============================================================================
