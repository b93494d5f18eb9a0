----------------------------- MODULE MCLogFile -----------------------------
(***************************************************************************)
(* Instance of LogFile for TLC.  An entry of 2 bytes in a file of 5 leaves *)
(* a remainder of 1, as one of 5 bytes in the 1048576 of the code.         *)
(***************************************************************************)
EXTENDS LogFile

FileSize  == 5
EntrySize == 2
=============================================================================
