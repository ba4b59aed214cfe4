---------------------------- MODULE WasmMorecore ----------------------------
(***************************************************************************)
(* src/wasm_allocator.c: wasm_morecore, the MORECORE function of the       *)
(* plugin's dlmalloc, on top of the WebAssembly instructions memory.size   *)
(* and memory.grow.                                                        *)
(*                                                                         *)
(* Addresses are uintptr_t, so every sum and product is taken modulo the   *)
(* size of the address space.  The real values are PageSize = AddrPages =  *)
(* 65536; a run scales both down so that the end of the address space is   *)
(* within reach.  The module is single-threaded, and one call is one step. *)
(***************************************************************************)
EXTENDS Integers

CONSTANTS
  PageSize,     (* page_size: bytes in a page of linear memory          *)
  AddrPages,    (* pages that the 32-bit address space can hold         *)
  InitialPages, (* pages at instantiation, --initial-memory / page_size *)
  HeapEnd0,     (* &__heap_end                                          *)
  MaxPages      (* most pages the host lets the memory have             *)

ASSUME SizesAssumption ==
  /\ PageSize \in Nat \ {0}
  /\ AddrPages \in Nat
  /\ InitialPages \in Nat \ {0}
  /\ HeapEnd0 \in Nat
  /\ MaxPages \in Nat
  /\ InitialPages < AddrPages
  /\ HeapEnd0 <= InitialPages * PageSize
  /\ MaxPages <= AddrPages

VARIABLES
  heapEnd, (* wasm_heap_end                                            *)
  pages,   (* what memory.size answers                                 *)
  blocks,  (* history: the regions handed out, as [lo, hi) pairs       *)
  ret      (* what the last call returned                              *)

vars == <<heapEnd, pages, blocks, ret>>

Fail == -1

AddrSpace == PageSize * AddrPages
MaxAddr   == AddrSpace - 1        \* UINTPTR_MAX
Word(n)   == n % AddrSpace

(* ptrdiff_t: the upper half of the words are the negative sizes. *)
PositiveSizes == 1 .. ((AddrSpace - 1) \div 2)
NegativeSizes == -(AddrSpace \div 2) .. -1

-----------------------------------------------------------------------------

(* Faulty variants: no test for the sum passing UINTPTR_MAX; a page too    *)
(* few; a sum wider than uintptr_t.                                        *)
AddressNeverWraps(size)       == FALSE
RequiredPagesRoundedDown(end) == end \div PageSize
RequiredPagesUnwrapped(end)   == (end + PageSize - 1) \div PageSize

AddressWraps(size)  == heapEnd > MaxAddr - size
RequestedEnd(size)  == Word(heapEnd + size)
CurrentEnd          == Word(pages * PageSize)
RequiredPages(end)  == Word(end + PageSize - 1) \div PageSize

(* Faulty variant: asks for all pages, not for those that are missing.     *)
GrowAllPages(end) == RequiredPages(end)

GrowPages(end) == Word(RequiredPages(end) - pages)

(* memory.grow answers -1 and grows nothing when the new size is over the  *)
(* limit; a host out of memory may refuse a smaller one too.               *)
MemoryGrow(n) ==
  /\ pages + n <= MaxPages
  /\ pages' = pages + n

(* wasm_heap_end = requested_end; return old_end. *)
Commit(size) ==
  /\ heapEnd' = RequestedEnd(size)
  /\ blocks' = blocks \cup {[lo |-> heapEnd, hi |-> RequestedEnd(size)]}
  /\ ret' = heapEnd

ReturnFail ==
  /\ ret' = Fail
  /\ UNCHANGED <<heapEnd, pages, blocks>>

(* size == 0 *)
Query ==
  /\ ret' = heapEnd
  /\ UNCHANGED <<heapEnd, pages, blocks>>

(* Faulty variant: gives memory back, as sbrk would.                       *)
ShrinkMovesBreak(size) ==
  /\ ret' = heapEnd
  /\ heapEnd' = heapEnd + size
  /\ UNCHANGED <<pages, blocks>>

(* size < 0: this MORECORE cannot trim. *)
Shrink(size) ==
  /\ size < 0
  /\ ReturnFail

(* The sum would pass UINTPTR_MAX. *)
Overflow(size) ==
  /\ AddressWraps(size)
  /\ ReturnFail

(* The memory there is suffices. *)
ExtendInPlace(size) ==
  /\ ~AddressWraps(size)
  /\ RequestedEnd(size) <= CurrentEnd
  /\ Commit(size)
  /\ UNCHANGED pages

(* The memory grows by the pages that are missing. *)
ExtendByGrowing(size) ==
  /\ ~AddressWraps(size)
  /\ RequestedEnd(size) > CurrentEnd
  /\ MemoryGrow(GrowPages(RequestedEnd(size)))
  /\ Commit(size)

(* memory.grow returned -1. *)
GrowRefused(size) ==
  /\ ~AddressWraps(size)
  /\ RequestedEnd(size) > CurrentEnd
  /\ ReturnFail

-----------------------------------------------------------------------------

Init ==
  /\ heapEnd = HeapEnd0
  /\ pages = InitialPages
  /\ blocks = {}
  /\ ret = Fail

Next ==
  \/ Query
  \/ \E size \in NegativeSizes : Shrink(size)
  \/ \E size \in PositiveSizes :
       \/ Overflow(size)
       \/ ExtendInPlace(size)
       \/ ExtendByGrowing(size)
       \/ GrowRefused(size)

Spec == Init /\ [][Next]_vars

-----------------------------------------------------------------------------

Block == [lo : 0 .. MaxAddr, hi : 0 .. MaxAddr]

(* Every variable stays in its C type: addresses are words, a region is a  *)
(* pair of addresses, the call returns an address or Fail.                    *)
TypeOK ==
  /\ heapEnd \in 0 .. MaxAddr
  /\ pages \in Nat
  /\ blocks \in SUBSET Block
  /\ ret \in (0 .. MaxAddr) \cup {Fail}

(* wasm_morecore commits wasm_heap_end only after memory.grow delivered    *)
(* the pages, so no byte below the break is outside linear memory.         *)
HeapBacked == heapEnd <= pages * PageSize

(* current_pages * page_size would wrap to 0 on a memory that fills the    *)
(* address space, and "requested_end > current_end" would then compare     *)
(* with 0.  The rounding in required_pages wraps first, asks memory.grow   *)
(* for an impossible count and fails, so that memory is never reached.     *)
LastPageUnreached == pages * PageSize < AddrSpace

(* Two calls never hand out the same byte, whatever sizes were asked and   *)
(* whichever calls failed in between.                                      *)
BlocksDisjoint ==
  \A b, c \in blocks : b = c \/ b.hi <= c.lo \/ c.hi <= b.lo

(* memory.grow is asked for no more than the break needs: after a growth   *)
(* the break lies in the last page (CMakeLists.txt starts the module small *)
(* and growable, tests/plugin.bats checks it).                             *)
GrowthIsMinimal ==
  [][pages' # pages => pages' > pages /\ heapEnd' > (pages' - 1) * PageSize]_vars

(* The allocator's contract with its MORECORE. *)
Contract == INSTANCE Sbrk WITH Start <- HeapEnd0, Limit <- MaxAddr,
                               brk <- heapEnd
ImplementsSbrk == Contract!Spec
=============================================================================
