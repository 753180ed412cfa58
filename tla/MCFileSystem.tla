---------------------------- MODULE MCFileSystem ----------------------------
(* Model values for the runs of the file system: blocks of 8 bytes, whose   *)
(* index takes two blocks of data, and dumps that need one, two and three.  *)
EXTENDS FileSystemProps, TLC

Cuenta(v, largo) == [i \in 1..largo |-> (v + i) % ValoresByte]

\* Lengths: a block, a byte more, two blocks less one byte, two blocks.
DatosChicos == {Cuenta(1, 7), Cuenta(3, 8), Cuenta(6, 15), Cuenta(7, 16)}
Simetria == Permutations(Nombres)
=============================================================================
