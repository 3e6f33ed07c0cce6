-------------------------- MODULE MCFirmwareStore --------------------------
(* FirmwareStore on a small machine: files and inodes are interchangeable, *)
(* and so are the setup processes.                                         *)
EXTENDS FirmwareStore, TLC

Symmetry == Permutations(Files) \cup Permutations(Dirs) \cup Permutations(Procs)
============================================================================
