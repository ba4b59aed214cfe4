--------------------------- MODULE MCWasmMorecore ---------------------------
(* Instance of WasmMorecore for TLC: an address space of 20 bytes in five  *)
(* pages, of which the program starts with two.                            *)
EXTENDS WasmMorecore
=============================================================================
