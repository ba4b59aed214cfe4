----------------------------- MODULE MCDlmalloc -----------------------------
EXTENDS Dlmalloc

(* The heap the program starts with, 456 bytes of it to allocate, and no   *)
(* more: chunks of 24, 64 and 304 bytes and what splitting and joining     *)
(* makes of them.                                                          *)
FixedHeap ==
  [NoCalls EXCEPT !.heap_base = 7696, !.junk = TRUE, !.max_live = 3,
     !.requests = {20, 300}, !.resizes = {60}, !.products = {<<1, 20>>, <<32768, 32768>>}]

(* Chunks of 248, 256 and 504 bytes: on either side of the smallest large  *)
(* size, so that dv and a tree chunk compete, and leave too small a rest.  *)
LargeChunks ==
  [NoCalls EXCEPT !.heap_base = 6800, !.max_live = 4, !.requests = {244, 252, 500}]

(* A start that is too small to be a heap, or just large enough, and two   *)
(* granules that MORECORE may grant or refuse.                             *)
Growing(base) ==
  [NoCalls EXCEPT !.heap_base = base, !.memory_end = 16384, !.max_live = 2,
     !.requests = {20, 3900}, !.resizes = {60, 3900}]

(* Blocks at alignments between a chunk and a page.                        *)
Aligning(base) ==
  [NoCalls EXCEPT !.heap_base = base, !.memory_end = 20480, !.max_live = 2,
     !.requests = {20}, !.pages = {20},
     !.alignments = {<<8, 20>>, <<24, 20>>, <<64, 300>>, <<4, 1>>, <<6, 1>>, <<16, 1073741700>>}]

(* Several blocks by one call.                                             *)
Bulk ==
  [NoCalls EXCEPT !.heap_base = 7696, !.junk = TRUE, !.max_live = 3, !.max_bulk = 3,
     !.requests = {20}, !.arrays = {<<0, 8>>, <<2, 20>>}, !.groups = {<<20, 300>>}]

(* Parameters that change between the calls.                               *)
Tuning(base) ==
  [NoCalls EXCEPT !.heap_base = base, !.memory_end = 20480, !.max_live = 2,
     !.requests = {20, 3900}, !.limits = {0, 5000, 9000, 1073741823},
     !.granularities = {100, 4096, 8192}, !.thresholds = {0}, !.pads = {0, 1073741800}]

(* Requests on either side of every bound there is on their size, and a    *)
(* system that has as much memory as a pointer reaches.                    *)
Greedy ==
  [NoCalls EXCEPT !.memory_end = MAX_SIZE_T, !.max_live = 2,
     !.requests = {20, HALF_MAX_SIZE_T - 4200, HALF_MAX_SIZE_T, MAX_REQUEST - 1, MAX_REQUEST,
                   MAX_SIZE_T - 40, MAX_SIZE_T},
     !.resizes = {MAX_REQUEST - 1, MAX_REQUEST}]

MCPrograms ==
  {FixedHeap, LargeChunks, Bulk, Greedy}
    \cup UNION {{Growing(base), Aligning(base), Tuning(base)} : base \in {7893, 8168}}
=============================================================================
