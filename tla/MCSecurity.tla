---------------------------- MODULE MCSecurity ----------------------------
(* Inodes 1, 10 and 21 all start at entry 2 of 5; 21 contains 1 and 10.      *)
EXTENDS Security, Cipher

CONSTANTS t1, t2, k1, k2

MCHash == [k \in Keys |-> k]
Symmetry == Permutations(Tasks) \cup Permutations(Keys)
MCEntries == (21 :> <<1, 10>>) @@ (10 :> <<>>)
MCBlocks == [f \in INodes |-> IF f = 1 THEN 2 ELSE 1]

(* All keys of two and of four letters *)
MCKeyStrings == [1 .. 2 -> 1 .. 4] \cup [1 .. 4 -> 1 .. 4]

(* Some key is set; which string it is, Security leaves open. *)
Used == \E o \in Owners : key[o] # NoKey

(* encrypt_block, decrypt_block, with a key that is set: whatever string   *)
(* it is, no byte leaves its row, and, as long as no letter occurs in it   *)
(* twice, decryption gives back what was encrypted, but for the last row.  *)
DecryptionInverts == Used => AllKeepRows /\ DistinctInvert
===========================================================================
