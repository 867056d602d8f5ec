----------------------------- MODULE ByteChannel -----------------------------
(***************************************************************************)
(* What a pipe promises to the processes that hold its two ends: bytes     *)
(* come out in the order in which they went in, none lost, none repeated,  *)
(* never more than Capacity of them under way, and nothing moves through   *)
(* an end that nobody holds any more.                                      *)
(***************************************************************************)
EXTENDS Naturals, Sequences

CONSTANTS Procs, Bytes, Capacity

VARIABLES queue,    \* the bytes under way, oldest first
          out,      \* the byte delivered last
          readers,  \* the processes that hold the read end
          writers   \* the processes that hold the write end
cvars == <<queue, out, readers, writers>>

ChannelInit ==
  /\ queue = <<>>
  /\ out \in Bytes
  /\ \E p \in Procs : readers = {p} /\ writers = {p}

Send ==
  /\ writers # {} /\ Len(queue) < Capacity
  /\ \E b \in Bytes : queue' = Append(queue, b)
  /\ UNCHANGED <<out, readers, writers>>

Receive ==
  /\ readers # {} /\ queue # <<>>
  /\ out' = Head(queue)
  /\ queue' = Tail(queue)
  /\ UNCHANGED <<readers, writers>>

(* An end is passed on by a process that holds it, so an end that nobody   *)
(* holds stays so.                                                         *)
ShareEnds ==
  /\ readers' \in SUBSET Procs /\ writers' \in SUBSET Procs
  /\ readers = {} => readers' = {}
  /\ writers = {} => writers' = {}
  /\ UNCHANGED <<queue, out>>

ChannelNext == Send \/ Receive \/ ShareEnds

ChannelSpec == ChannelInit /\ [][ChannelNext]_cvars
=============================================================================
