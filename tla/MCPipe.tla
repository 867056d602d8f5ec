-------------------------------- MODULE MCPipe --------------------------------
(* A ring of four bytes, three of them usable, and three processes: writes *)
(* longer than the space left, two sleepers behind each other, and an      *)
(* inherited end all happen.  All bytes are alike; that they keep their    *)
(* order is proved in PipeProofs.                                          *)
EXTENDS Pipe
MCQueues == {i_wait}
=============================================================================
