--------------------------------- MODULE Tty ---------------------------------
(***************************************************************************)
(* A terminal: the rings of include/linux/tty.h, tty_read, tty_write and   *)
(* copy_to_cooked of kernel/tty_io.c, the handlers of the keyboard and of  *)
(* the serial lines that fill and empty the rings, and tty_ioctl.          *)
(*                                                                         *)
(* The serial handlers come through interrupt gates and are one action.    *)
(* The keyboard has a trap gate, which leaves interrupts on, and allows    *)
(* the next key before it calls copy_to_cooked: its steps are actions, and *)
(* it may interrupt itself.  A task in the kernel is interrupted anywhere, *)
(* but gives way to another task only where it sleeps.                     *)
(***************************************************************************)
EXTENDS Naturals, Sequences, FiniteSetsExt, SequencesExt

CONSTANTS Typed,     \* bound: the keys that are typed
          SIZE,      \* TTY_BUF_SIZE
          ROOM,      \* the free characters a writer waits for, 128
          SPARE,     \* an unfinished line is read with so many free, 20
          STARTUP,   \* the writer is woken with so many left, 256
          MaxCount,  \* bound: the larger count of a call
          Followed   \* the mishaps behind which the terminal is followed

VARIABLES line,      \* con or rs
          canon, echo,
          read_q, secondary, write_q,
          data,      \* the line ends in the secondary queue
          frames,    \* the copy_to_cooked under way, innermost first: what
                     \* each is about to put
          reader, writer,
          signal,    \* INTR has been typed
          tx,        \* rs: the transmit interrupt is enabled
          cooked,    \* history: what the reader is still to get
          left,      \* history: characters waited behind a full secondary
          mishap     \* history: see Mishaps
ttyVars == <<line, canon, echo, read_q, secondary, write_q, data, frames, reader,
             writer, signal, tx, cooked, left, mishap>>

(* What a key is behind the mappings of c_iflag *)
Keys == {"x", "nl", "eof", "del", "intr"}
Ends == {"nl", "eof"}
(* nested: a key interrupts the handling of another; underrun: con_write   *)
(* takes what an echo in between, of a key or of the answer to ESC Z, has  *)
(* written already; overrun: an echo                                       *)
(* finds the queue full, or fills it behind the test of tty_write; erased: *)
(* DEL takes the character tty_read has just found.                        *)
Mishaps == {"no", "nested", "underrun", "overrun", "erased"}

TtyTypeOK ==
  /\ line \in {"con", "rs"} /\ canon \in BOOLEAN /\ echo \in BOOLEAN
  /\ read_q \in Seq(Keys) /\ secondary \in Seq(Keys) /\ write_q \in 0 .. SIZE - 1
  /\ Len(read_q) < SIZE /\ Len(secondary) < SIZE
  /\ data \in 0 .. SIZE /\ frames \in Seq(Keys \cup {"loop", "dec"})
  /\ reader \in [pc : {"idle", "top", "asleep", "get"}, nr : 0 .. MaxCount]
  /\ writer \in [pc : {"idle", "top", "asleep", "put", "con"}, nr : 0 .. MaxCount, out : 0 .. SIZE]
  /\ signal \in BOOLEAN /\ tx \in BOOLEAN /\ left \in BOOLEAN /\ mishap \in Mishaps

-----------------------------------------------------------------------------
(* The rings.  Of the input queues the characters between tail and head    *)
(* are kept, and of the write queue, whose characters are not told apart,  *)
(* their number.                                                           *)
Capacity == SIZE - 1
EMPTY(q) == q = <<>>
LEFT(q) == Capacity - Len(q)
FULL(q) == LEFT(q) = 0
Erasable == ~EMPTY(secondary) /\ Last(secondary) \notin Ends
Erased(q) == IF EMPTY(q) THEN q ELSE Front(q)
Out(n) == (write_q + n) % SIZE

Idle == [pc |-> "idle", nr |-> 0]
NotWriting == [pc |-> "idle", nr |-> 0, out |-> 0]

TtyInit ==
  /\ line \in {"con", "rs"}
  /\ canon = (line = "con") /\ echo = (line = "con")
  /\ read_q = <<>> /\ secondary = <<>> /\ write_q = 0
  /\ data = 0 /\ frames = <<>> /\ reader = Idle /\ writer = NotWriting
  /\ signal = FALSE /\ tx = FALSE /\ cooked = <<>> /\ left = FALSE /\ mishap = "no"

(* The history keeps the first mishap. *)
Mishap(bad, m) == mishap' = IF mishap = "no" /\ bad THEN m ELSE mishap
Wake(t) == IF t.pc = "asleep" THEN [t EXCEPT !.pc = "top"] ELSE t

-----------------------------------------------------------------------------
(* copy_to_cooked *)

(* The echo of n characters, and tty->write: the console writes everything *)
(* at once, a serial line enables its interrupt.                           *)
Echo(n) ==
  /\ write_q' = IF ~echo THEN write_q ELSE IF line = "con" THEN 0 ELSE Out(n)
  /\ tx' = (tx \/ (echo /\ line = "rs" /\ Out(n) # 0))
  /\ Mishap(echo /\ Capacity - write_q < n, "overrun")
Silent == UNCHANGED <<write_q, tx, mishap>>
Goto(next) == frames' = <<next>> \o Tail(frames)

(* The loop, and what is done with a character c before it is put *)
Cook ==
  LET c == Head(read_q) IN
  /\ frames # <<>> /\ Head(frames) = "loop" /\ read_q # <<>> /\ ~FULL(secondary)
  /\ read_q' = Tail(read_q)
  /\ \/ /\ canon /\ c = "del"
        /\ \/ /\ ~Erasable
              /\ Silent /\ UNCHANGED <<frames, cooked>>
           \/ /\ Erasable
              /\ Echo(1) /\ Goto("dec") /\ cooked' = SubSeq(cooked, 1, Len(cooked) - 1)
        /\ UNCHANGED <<data, reader, writer, signal>>
     \/ /\ c = "intr" /\ signal' = TRUE
        /\ reader' = Wake(reader) /\ writer' = Wake(writer)
        /\ Silent /\ UNCHANGED <<frames, cooked, data>>
     \/ /\ c # "intr" /\ ~(canon /\ c = "del")
        /\ data' = IF c \in Ends THEN data + 1 ELSE data
        /\ Echo(IF c \in Ends THEN 2 ELSE 1)
        /\ Goto(c) /\ cooked' = Append(cooked, c)
        /\ UNCHANGED <<reader, writer, signal>>
  /\ UNCHANGED <<line, canon, echo, secondary, left>>

Cooked ==
  /\ frames # <<>> /\ Head(frames) # "loop" /\ Goto("loop")
  /\ secondary' = IF Head(frames) = "dec" THEN Erased(secondary) ELSE Append(secondary, Head(frames))
  /\ UNCHANGED <<line, canon, echo, read_q, write_q, data, reader, writer, signal, tx,
                 cooked, left, mishap>>

(* Mutant: the readers are woken only when there is something to read. *)
CookEndLazy ==
  /\ frames # <<>> /\ Head(frames) = "loop" /\ (read_q = <<>> \/ FULL(secondary))
  /\ frames' = Tail(frames) /\ reader' = IF data > 0 THEN Wake(reader) ELSE reader
  /\ left' = (read_q # <<>>)
  /\ UNCHANGED <<line, canon, echo, read_q, secondary, write_q, data, writer, signal, tx,
                 cooked, mishap>>

CookEnd ==
  /\ frames # <<>> /\ Head(frames) = "loop" /\ (read_q = <<>> \/ FULL(secondary))
  /\ frames' = Tail(frames) /\ reader' = Wake(reader) /\ left' = (read_q # <<>>)
  /\ UNCHANGED <<line, canon, echo, read_q, secondary, write_q, data, writer, signal, tx,
                 cooked, mishap>>

-----------------------------------------------------------------------------
(* The other ends of the rings *)

(* keyboard_interrupt with put_queue, and read_char: a character that does *)
(* not fit is dropped; the serial handler does no more then.               *)
Key(c) ==
  LET full == Len(read_q) = Capacity IN
  /\ frames = <<>> \/ (line = "con" /\ Len(frames) < 2)
  /\ ~(line = "rs" /\ full)
  /\ read_q' = IF full THEN read_q ELSE Append(read_q, c)
  /\ frames' = <<"loop">> \o frames
  /\ Mishap(frames # <<>>, "nested")
  /\ UNCHANGED <<line, canon, echo, secondary, write_q, data, reader, writer, signal, tx,
                 cooked, left>>

(* write_char: the transmitter is empty. *)
WriteChar ==
  LET now == IF write_q = 0 THEN 0 ELSE write_q - 1 IN
  /\ line = "rs" /\ tx /\ frames = <<>>
  /\ write_q' = now /\ tx' = (now > 0)
  /\ writer' = IF write_q <= STARTUP \/ now = 0 THEN Wake(writer) ELSE writer
  /\ UNCHANGED <<line, canon, echo, read_q, secondary, data, frames, reader, signal,
                 cooked, left, mishap>>

(* No handler is at work, and the other task is not in the kernel, unless  *)
(* it sleeps.                                                              *)
Handled == frames = <<>>
Alone == Handled /\ reader.pc # "get" /\ writer.pc \notin {"put", "con"}

-----------------------------------------------------------------------------
(* tty_read *)
Reads == UNCHANGED <<line, canon, echo, read_q, write_q, frames, writer, tx, left>>

BeginRead(nr) ==
  /\ Alone /\ reader.pc = "idle"
  /\ reader' = [pc |-> "top", nr |-> nr]
  /\ Reads /\ UNCHANGED <<secondary, data, signal, cooked, mishap>>

(* Behind a return from the system call the signal is handled. *)
ReadReturn == reader' = Idle /\ signal' = FALSE

(* The head of the loop, and sleep_if_empty.  With an unfinished line, the *)
(* task goes round the loop till a handler finishes it.                    *)
ReadTop ==
  /\ Alone /\ reader.pc = "top"
  /\ \/ signal /\ ReadReturn
     \/ /\ ~signal /\ EMPTY(secondary) /\ reader' = [reader EXCEPT !.pc = "asleep"]
        /\ UNCHANGED signal
     \/ /\ ~signal /\ ~EMPTY(secondary)
        /\ ~(canon /\ data = 0 /\ LEFT(secondary) > SPARE)
        /\ reader' = [reader EXCEPT !.pc = "get"] /\ UNCHANGED signal
  /\ Reads /\ UNCHANGED <<secondary, data, cooked, mishap>>

(* Mutant: the end of a line is counted when it has been delivered. *)
GetLate ==
  LET c == IF EMPTY(secondary) THEN "x" ELSE Head(secondary)
      rest == IF EMPTY(secondary) THEN secondary ELSE Tail(secondary)
  IN /\ Handled /\ reader.pc = "get"
     /\ secondary' = rest /\ Mishap(EMPTY(secondary), "erased")
     /\ data' = IF c = "nl" THEN data - 1 ELSE data
     /\ cooked' = IF cooked = <<>> THEN cooked ELSE Tail(cooked)
     /\ \/ c = "eof" /\ canon /\ ReadReturn
        \/ /\ ~(c = "eof" /\ canon)
           /\ \/ /\ reader.nr > 1 /\ ~EMPTY(rest)
                 /\ reader' = [reader EXCEPT !.nr = @ - 1] /\ UNCHANGED signal
              \/ (reader.nr = 1 \/ EMPTY(rest)) /\ ReadReturn
     /\ Reads

(* The inner loop: one character.  The test for the next is made at once,  *)
(* but a handler may come before it is taken.                              *)
Get ==
  LET c == IF EMPTY(secondary) THEN "x" ELSE Head(secondary)
      rest == IF EMPTY(secondary) THEN secondary ELSE Tail(secondary)
  IN /\ Handled /\ reader.pc = "get"
     /\ secondary' = rest /\ Mishap(EMPTY(secondary), "erased")
     /\ data' = IF c \in Ends THEN data - 1 ELSE data
     /\ cooked' = IF cooked = <<>> THEN cooked ELSE Tail(cooked)
     /\ \/ c = "eof" /\ canon /\ ReadReturn
        \/ /\ ~(c = "eof" /\ canon)
           /\ \/ /\ reader.nr > 1 /\ ~EMPTY(rest)
                 /\ reader' = [reader EXCEPT !.nr = @ - 1] /\ UNCHANGED signal
              \/ (reader.nr = 1 \/ EMPTY(rest)) /\ ReadReturn
     /\ Reads

-----------------------------------------------------------------------------
(* tty_write *)
Writes == UNCHANGED <<line, canon, echo, read_q, secondary, data, frames, reader, cooked, left>>

BeginWrite(nr) ==
  /\ Alone /\ writer.pc = "idle"
  /\ writer' = [pc |-> "top", nr |-> nr, out |-> 0]
  /\ Writes /\ UNCHANGED <<write_q, signal, tx, mishap>>

(* sleep_if_full, which waits for more room than it asks for *)
WriteTop ==
  /\ Alone /\ writer.pc = "top"
  /\ \/ signal /\ writer' = NotWriting /\ signal' = FALSE
     \/ /\ ~signal /\ write_q = Capacity /\ Capacity - write_q < ROOM
        /\ writer' = [writer EXCEPT !.pc = "asleep"] /\ UNCHANGED signal
     \/ ~signal /\ write_q < Capacity /\ writer' = [writer EXCEPT !.pc = "put"] /\ UNCHANGED signal
  /\ Writes /\ UNCHANGED <<write_q, tx, mishap>>

(* One character; behind the last one that fits, tty->write: rs_write      *)
(* enables the interrupt, con_write starts with what there is by now.      *)
Put ==
  LET now == Out(1)
      nr == writer.nr - 1
  IN /\ Handled /\ writer.pc = "put"
     /\ write_q' = now /\ Mishap(write_q = Capacity, "overrun")
     /\ \/ nr > 0 /\ now < Capacity /\ writer' = [writer EXCEPT !.nr = nr] /\ tx' = tx
        \/ /\ nr = 0 \/ now = Capacity
           /\ \/ line = "rs" /\ tx' = TRUE
                 /\ writer' = IF nr = 0 THEN NotWriting ELSE [writer EXCEPT !.nr = nr, !.pc = "top"]
              \/ line = "con" /\ tx' = tx
                 /\ writer' = [pc |-> "con", nr |-> nr, out |-> now]
     /\ Writes /\ UNCHANGED signal

(* One character of con_write in the writer; schedule() behind the last *)
ConWrite ==
  /\ Handled /\ writer.pc = "con"
  /\ \/ /\ writer.out > 0
        /\ write_q' = (write_q + SIZE - 1) % SIZE /\ Mishap(write_q = 0, "underrun")
        /\ writer' = [writer EXCEPT !.out = @ - 1]
     \/ /\ writer.out = 0 /\ UNCHANGED <<write_q, mishap>>
        /\ writer' = IF writer.nr = 0 THEN NotWriting ELSE [writer EXCEPT !.pc = "top"]
  /\ Writes /\ UNCHANGED <<signal, tx>>

(* ESC Z in con_write: respond puts an answer into the input queue and     *)
(* calls copy_to_cooked, whose echo calls con_write in turn.               *)
Respond ==
  /\ Handled /\ writer.pc = "con" /\ writer.out > 0 /\ write_q > 0
  /\ write_q' = write_q - 1 /\ writer' = [writer EXCEPT !.out = @ - 1]
  /\ read_q' = IF Len(read_q) = Capacity THEN <<>> ELSE Append(read_q, "x")
  /\ frames' = <<"loop">> /\ Mishap(Len(read_q) = Capacity, "overrun")
  /\ UNCHANGED <<line, canon, echo, secondary, data, reader, signal, tx, cooked, left>>

-----------------------------------------------------------------------------
(* tty_ioctl: TCSETS, TCSETSF and TCFLSH *)
SetTermios(c, e, flushed) ==
  /\ Alone /\ canon' = c /\ echo' = e
  /\ read_q' = IF flushed THEN <<>> ELSE read_q
  /\ left' = (left /\ ~flushed)
  /\ UNCHANGED <<line, secondary, write_q, data, frames, reader, writer, signal, tx, cooked, mishap>>
FlushOut ==
  /\ Alone /\ write_q' = 0
  /\ UNCHANGED <<line, canon, echo, read_q, secondary, data, frames, reader, writer, signal,
                 tx, cooked, left, mishap>>

(* Behind a mishap that is not followed the rings hold anything.  Bounds:  *)
(* one task reads or another writes; INTR comes while one of them sleeps;  *)
(* during a write only a key comes with nothing typed before it; a serial  *)
(* line has an echo in canonical mode and none in raw mode.                *)
Typable(c) ==
  /\ c = "intr" => "asleep" \in {reader.pc, writer.pc} /\ read_q = <<>>
  /\ writer.pc # "idle" => c \in {"x", "intr"} /\ read_q = <<>> /\ secondary = <<>>
TtyNext ==
  /\ mishap \in Followed \cup {"no"}
  /\ \/ \E c \in Typed : Typable(c) /\ Key(c)
     \/ Cook \/ Cooked \/ CookEnd \/ WriteChar
     \/ \E n \in {1, MaxCount} : writer.pc = "idle" /\ BeginRead(n)
     \/ \E n \in {1, MaxCount} : reader.pc = "idle" /\ secondary = <<>> /\ BeginWrite(n)
     \/ ReadTop \/ Get \/ WriteTop \/ Put \/ ConWrite \/ Respond \/ FlushOut
     \/ \E c, e, flushed \in BOOLEAN :
          (line = "rs" => c = e) /\ writer.pc = "idle" /\ SetTermios(c, e, flushed)

-----------------------------------------------------------------------------
Sound == mishap = "no" /\ frames = <<>>

(* copy_to_cooked and tty_read at the two ends of one ring: the reader     *)
(* gets what was typed, less what was erased, in order; and the number of  *)
(* lines that tty_read goes by is right, also when DEL, end of file and    *)
(* changes of the mode come in between.                                    *)
InputExact ==
  Sound => /\ secondary = cooked
           /\ data = Cardinality({i \in DOMAIN cooked : cooked[i] \in Ends})

(* sleep_if_empty and copy_to_cooked: whoever sleeps in tty_read has       *)
(* nothing to read, nor anything before it that could be copied, unless    *)
(* the queue was full when the last key came.  sleep_if_full, rs_write and *)
(* write_char: whoever sleeps in tty_write will be woken: the transmit     *)
(* interrupt is enabled until the last character.                          *)
Served ==
  Sound => /\ reader.pc = "asleep" => EMPTY(secondary) /\ (read_q = <<>> \/ left)
           /\ writer.pc = "asleep" => line = "rs" /\ tx

(* console.c, before the handlers: "We know interrupts aren't enabled when *)
(* getting a keyboard interrupt, as we use trap-gates".  A trap gate leaves *)
(* them enabled.  No run checks this property, which follows from that      *)
(* sentence: with Followed = {"nested"} two nested copy_to_cooked put their *)
(* characters in the wrong order.                                           *)
TypedInOrder ==
  (frames = <<>> /\ mishap \in {"no", "nested"}) => secondary = cooked
=============================================================================
