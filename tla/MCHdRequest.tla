------------------------------ MODULE MCHdRequest ------------------------------
(***************************************************************************)
(* Three tasks with one block each, at places that IN_ORDER compares (b1   *)
(* before b3) and that it does not (b2 with both).  The list of four       *)
(* requests is sorted in MCDevices.                                        *)
(***************************************************************************)
EXTENDS HdRequest

CONSTANTS t1, t2, t3, b1, b2, b3

MCBuffers == {b1, b2, b3}
MCQueues == Buffers \cup {wait_for_request}
MCKey == [b \in Buffers |-> CASE b = b1 -> <<0, 2>>
                              [] b = b2 -> <<1, 1>>
                              [] OTHER -> <<1, 3>>]
MCWork == [t \in Tasks |-> CASE t = t1 -> {<<b1, "READ">>}
                             [] t = t2 -> {<<b2, "WRITE">>}
                             [] OTHER -> {<<b3, "READ">>}]
=============================================================================
