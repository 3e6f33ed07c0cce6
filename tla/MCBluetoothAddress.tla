------------------------- MODULE MCBluetoothAddress -------------------------
(* BluetoothAddress with a flash of either sector size, each just large    *)
(* enough for two copies beside the tables; addresses are interchangeable. *)
EXTENDS BluetoothAddress, TLC

Flashes == {[sector |-> 1, size |-> 12], [sector |-> 2, size |-> 16]}
Symmetry == Permutations(Addresses)
============================================================================
