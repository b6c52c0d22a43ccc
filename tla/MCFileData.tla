------------------------------ MODULE MCFileData ------------------------------
(* Small instances of FileData for TLC. *)
EXTENDS FileData, TLC

CONSTANTS f1, f2, p1, p2

MCByte == [file : File, off : 0..(MaxFileSize - 1), stamp : 0..MaxWrites]
MCReads == {<<0, MaxFileSize>>}
Symmetry == Permutations(Proc)
=============================================================================
