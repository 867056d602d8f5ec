------------------------------- MODULE Cipher -------------------------------
(***************************************************************************)
(* encrypt_block and decrypt_block of fs/security.c, a transposition of    *)
(* the bytes of a block: they are written into a matrix row by row, with   *)
(* one column per letter of the key, the columns are exchanged, and the    *)
(* matrix is read row by row.  A block and a key are sequences, letters    *)
(* are numbers.                                                            *)
(*                                                                         *)
(* encr, decr and file_write encrypt and decrypt a block again and again;  *)
(* module Security counts on it that decryption with the same key gives    *)
(* the text back.                                                          *)
(***************************************************************************)
EXTENDS Naturals, SequencesExt

CONSTANTS BLOCK_SIZE,
          KeyStrings,  \* the keys considered; a length divides BLOCK_SIZE
          Junk         \* what happens to be on the kernel stack

KeyLen(k) == Len(k)
Rows(n) == BLOCK_SIZE \div n

(* "building matrix": byte i goes to i*col_size modulo BLOCK_SIZE-1, that  *)
(* is, to its row in its column.  The last byte would go to 0, which is    *)
(* set again; nothing goes to the last place.                              *)
Matrix(b, k) ==
  LET col_size == Rows(KeyLen(k))
      from(p) == CHOOSE i \in 0 .. BLOCK_SIZE - 2 :
                   (i * col_size) % (BLOCK_SIZE - 1) = p
  IN [p \in 1 .. BLOCK_SIZE |-> IF p = BLOCK_SIZE THEN Junk ELSE b[from(p - 1) + 1]]

Swap(f, i, j) == [f EXCEPT ![i] = f[j], ![j] = f[i]]

(* The loops over i and over j >= i that exchange letters, and the columns *)
(* with them, where Test holds.                                            *)
Exchange(Test(_, _, _), letters, n) ==
  LET turn(s, p) ==
        IF p[1] <= p[2] /\ Test(s.key, p[1], p[2])
        THEN [key |-> Swap(s.key, p[1], p[2]), columns |-> Swap(s.columns, p[1], p[2])]
        ELSE s
  IN FoldLeft(turn, [key |-> letters, columns |-> [c \in 1 .. n |-> c]],
              [m \in 1 .. n * n |-> <<1 + ((m - 1) \div n), 1 + ((m - 1) % n)>>])

Smaller(s, i, j) == s[j] < s[i]

ReadRows(m, columns, n) ==
  FlattenSeq([r \in 1 .. Rows(n) |-> [c \in 1 .. n |-> m[(columns[c] - 1) * Rows(n) + r]]])

encrypt_block(b, k) ==
  LET n == KeyLen(k) IN ReadRows(Matrix(b, k), Exchange(Smaller, k, n).columns, n)

(* Mutant: decryption sorts the columns again. *)
decrypt_block_sorts(b, k) ==
  LET n == KeyLen(k) IN ReadRows(Matrix(b, k), Exchange(Smaller, k, n).columns, n)

(* The key is sorted, then each of its letters is looked for in it; a      *)
(* letter found is exchanged and the search goes on.                       *)
decrypt_block(b, k) ==
  LET n == KeyLen(k)
      sorted == Exchange(Smaller, k, n).key
      Letter(s, i, j) == k[i] = s[j]
  IN ReadRows(Matrix(b, k), Exchange(Letter, sorted, n).columns, n)

-----------------------------------------------------------------------------
(* The bytes of a block are named by their places. *)
Text == [p \in 1 .. BLOCK_SIZE |-> p]

(* A block encrypted once, a block encrypted and decrypted once and one    *)
(* that was encrypted and decrypted twice.                                 *)
Once(k) == encrypt_block(Text, k)
Back(k) == decrypt_block(Once(k), k)
BackAgain(k) == decrypt_block(encrypt_block(Back(k), k), k)

(* The places of row r, and the number of rows that are kept               *)
InRow(r, k) == {p \in 1 .. BLOCK_SIZE : (p - 1) \div KeyLen(k) = r}
KeptRows(k) == Rows(KeyLen(k)) - 1

(* However often a block is encrypted and decrypted, the bytes of each row *)
(* stay in it and none is lost, the last row excepted.                     *)
KeepsRows(k) ==
  \A b \in {Once(k), Back(k), BackAgain(k)} :
    \A r \in 0 .. KeptRows(k) - 1 : {b[p] : p \in InRow(r, k)} = InRow(r, k)

(* decrypt_block undoes encrypt_block, the last row excepted.              *)
Inverts(k) ==
  \A b \in {Back(k), BackAgain(k)} :
    \A p \in 1 .. KeptRows(k) * KeyLen(k) : b[p] = p

Distinct(k) == \A i, j \in DOMAIN k : i # j => k[i] # k[j]

AllKeepRows == \A k \in KeyStrings : KeepsRows(k)
DistinctInvert == \A k \in KeyStrings : Distinct(k) => Inverts(k)
=============================================================================
