--------------------------- MODULE MCInstallation ---------------------------
(* Installation on a few disks.  Nothing in %post depends on how Anaconda  *)
(* was reached, and the invariants about the media speak of earlier states.*)
EXTENDS Installation

View == IF pc = "post" THEN <<pc, fstabVars>> ELSE <<pc, vars>>
============================================================================
