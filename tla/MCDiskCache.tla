---------------------------- MODULE MCDiskCache -----------------------------
(* DiskCache with one page, which is written by one thread.                 *)
EXTENDS DiskCache

FirstHalf == {<<0, 2>>}
=============================================================================
