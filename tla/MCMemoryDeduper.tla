--------------------------- MODULE MCMemoryDeduper ---------------------------
(* A small instance of MemoryDeduper: two ids, so that a Mark of one sweeps *)
(* the entry of the other; two callers, so that one holds a stale reading   *)
(* while the other sweeps and accepts; a clock that spans three windows.    *)
EXTENDS MemoryDeduper

=============================================================================
