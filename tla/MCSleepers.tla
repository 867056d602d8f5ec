------------------------------ MODULE MCSleepers ------------------------------
(***************************************************************************)
(* Three tasks and one queue of each kind: bwait, the b_wait of a buffer   *)
(* (woken by the disk interrupt, slept upon with interrupts off), iwait,   *)
(* the i_wait of an inode (woken by tasks only), wait_for_request of hd.c  *)
(* (woken by the disk interrupt, slept upon with interrupts on) and the    *)
(* proc_list of a tty queue.                                               *)
(***************************************************************************)
EXTENDS Sleepers

CONSTANTS bwait, iwait, wait_for_request, proc_list

MCQueues == {bwait, iwait, wait_for_request, proc_list}
MCIrqQueues == {bwait, wait_for_request, proc_list}
MCOpenQueues == {wait_for_request}
MCTtyQueues == {proc_list}
MCLiveQueues == {bwait, wait_for_request}
=============================================================================
