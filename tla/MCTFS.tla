------------------------------- MODULE MCTFS -------------------------------
(* TFS on small instances: the tfs_*.cfg files give the bounds. *)
EXTENDS TFSFiles, TLC

\* Names of the same length are interchangeable in a safety property, and so
\* are bytes.
Symmetry == Permutations(Name \ LongName) \cup Permutations(Byte)
=============================================================================
