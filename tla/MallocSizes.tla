----------------------------- MODULE MallocSizes -----------------------------
(***************************************************************************)
(* support/allocators/dlmalloc/malloc.c: the size arithmetic of the        *)
(* allocator, for wasm32 (size_t and pointers of four bytes) and the       *)
(* options src/wasm_allocator.c sets (no FOOTERS, no MSPACES, no mmap).    *)
(*                                                                         *)
(* "x & ~(a - 1)" with a power of two a is x - x % a.  size_t has          *)
(* SIZE_T_BITSIZE bits and wraps; it has 32 of them in the build, and a    *)
(* run may give it fewer.                                                  *)
(***************************************************************************)
EXTENDS Integers

CONSTANTS
  SIZE_T_BITSIZE, (* bits of a size_t      *)
  WordSize        (* 2 ^ SIZE_T_BITSIZE    *)

ASSUME WordAssumption ==
  /\ SIZE_T_BITSIZE \in Nat
  /\ WordSize = 2 ^ SIZE_T_BITSIZE
  /\ WordSize \in Nat
  /\ WordSize >= 4096
  /\ WordSize % 64 = 0
  /\ LET half == 2 ^ (SIZE_T_BITSIZE \div 2) IN half \in Nat /\ half * half <= WordSize

Word(n)         == n % WordSize
MAX_SIZE_T      == WordSize - 1
HALF_MAX_SIZE_T == MAX_SIZE_T \div 2

SIZE_T_SIZE      == 4
TWO_SIZE_T_SIZES == 8
MALLOC_ALIGNMENT == 8

is_aligned(A)   == A % MALLOC_ALIGNMENT = 0
align_offset(A) == (-A) % MALLOC_ALIGNMENT

(* The least multiple of unit from n on, unless the sum wraps.             *)
AlignUp(n, unit) == LET w == Word(n + unit - 1) IN w - (w % unit)

-----------------------------------------------------------------------------
(* Chunk sizes.                                                            *)

MCHUNK_SIZE    == 16
CHUNK_OVERHEAD == SIZE_T_SIZE
MIN_CHUNK_SIZE == AlignUp(MCHUNK_SIZE, MALLOC_ALIGNMENT)

chunk2mem(p)      == p + TWO_SIZE_T_SIZES
mem2chunk(mem)    == mem - TWO_SIZE_T_SIZES
align_as_chunk(A) == A + align_offset(chunk2mem(A))

MAX_REQUEST == Word((-MIN_CHUNK_SIZE) * 4)
MIN_REQUEST == MIN_CHUNK_SIZE - CHUNK_OVERHEAD - 1

pad_request(req)  == AlignUp(req + CHUNK_OVERHEAD, MALLOC_ALIGNMENT)
request2size(req) == IF req < MIN_REQUEST THEN MIN_CHUNK_SIZE
                                          ELSE pad_request(req)

(* The nb of dlmalloc: a request that no chunk can serve becomes a size    *)
(* that every later test turns down.                                       *)
ChunkSizeFor(bytes) ==
  IF bytes >= MAX_REQUEST THEN MAX_SIZE_T ELSE request2size(bytes)

SizeofMallocSegment == 16
TOP_FOOT_SIZE ==
  align_offset(chunk2mem(0)) + pad_request(SizeofMallocSegment) + MIN_CHUNK_SIZE
SYS_ALLOC_PADDING == TOP_FOOT_SIZE + MALLOC_ALIGNMENT

-----------------------------------------------------------------------------
(* Bins: one size each below MIN_LARGE_SIZE, two per power of two above.   *)

NSMALLBINS        == 32
NTREEBINS         == 32
SMALLBIN_WIDTH    == 8
TREEBIN_SHIFT     == 8
MIN_LARGE_SIZE    == 2 ^ TREEBIN_SHIFT
MAX_SMALL_SIZE    == MIN_LARGE_SIZE - 1
MAX_SMALL_REQUEST == MAX_SMALL_SIZE - (MALLOC_ALIGNMENT - 1) - CHUNK_OVERHEAD

small_index(s)      == s \div SMALLBIN_WIDTH
is_small(s)         == small_index(s) < NSMALLBINS
small_index2size(i) == i * SMALLBIN_WIDTH

Bit(n, b) == (n \div 2 ^ b) % 2

compute_tree_index(S) ==
  LET X == S \div 2 ^ TREEBIN_SHIFT
      K == CHOOSE k \in 0 .. 15 : 2 ^ k <= X /\ X < 2 ^ (k + 1)
  IN  IF X = 0 THEN 0
      ELSE IF X > 65535 THEN NTREEBINS - 1
      ELSE 2 * K + Bit(S, K + TREEBIN_SHIFT - 1)

bit_for_tree_index(i) ==
  IF i = NTREEBINS - 1 THEN SIZE_T_BITSIZE - 1
                       ELSE i \div 2 + TREEBIN_SHIFT - 2

minsize_for_tree_index(i) ==
  2 ^ (i \div 2 + TREEBIN_SHIFT) + (i % 2) * 2 ^ (i \div 2 + TREEBIN_SHIFT - 1)

(* The bit of S that "(S << leftshift_for_tree_index(i)) << depth" has in  *)
(* sign position: which child the trie of bin i takes at that depth.       *)
ChildIndex(S, i, depth) ==
  LET b == bit_for_tree_index(i) - depth
  IN  IF b >= 0 THEN Bit(S, b) ELSE 0
=============================================================================
