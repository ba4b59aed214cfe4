------------------------------ MODULE Allocator ------------------------------
(***************************************************************************)
(* What the users of malloc rely on, whatever is inside: blocks of memory  *)
(* that do not overlap, that stay where they are and as large as they are  *)
(* until their owner gives them back or asks for another size.             *)
(***************************************************************************)
EXTENDS Integers

CONSTANTS
  Lowest, Highest, (* addresses blocks may have          *)
  Overhead,        (* bytes before a block that are not its own *)
  Align            (* what every address is a multiple of *)

VARIABLE live (* the blocks in use: a function from address to size *)

vars == <<live>>

Mems == Lowest .. Highest

(* A block begins with the overhead before its address. *)
Apart(x, n, y, k) == x + n <= y - Overhead \/ y + k <= x - Overhead

(* Where a block of n bytes can be while the ones of f are in use.         *)
Fits(x, n, f) ==
  /\ x \in Mems /\ x % Align = 0
  /\ n \in Nat /\ x + n <= Highest
  /\ \A y \in DOMAIN f : Apart(x, n, y, f[y])

Without(f, S) == [x \in DOMAIN f \ S |-> f[x]]
With(f, x, n) == [y \in DOMAIN f \cup {x} |-> IF y = x THEN n ELSE f[y]]

Init == live = [x \in {} |-> 0]

(* free, bulk_free. *)
Release(S) ==
  /\ S \subseteq DOMAIN live
  /\ live' = Without(live, S)

(* realloc: the block may move, with all others where they are. *)
Resize(x, y, n) ==
  /\ x \in DOMAIN live
  /\ Fits(y, n, Without(live, {x}))
  /\ live' = With(Without(live, {x}), y, n)

(* malloc and memalign; independent_calloc and its kin: several at once. *)
AllocateAll(new) ==
  /\ DOMAIN new \cap DOMAIN live = {}
  /\ \A x \in DOMAIN new : /\ Fits(x, new[x], live)
                           /\ Fits(x, new[x], Without(new, {x}))
  /\ live' = [x \in DOMAIN live \cup DOMAIN new |->
                IF x \in DOMAIN new THEN new[x] ELSE live[x]]

NewBlocks == Without(live', DOMAIN live)

Next ==
  \/ \E S \in SUBSET DOMAIN live : Release(S)
  \/ \E x \in DOMAIN live, y \in DOMAIN live' : Resize(x, y, live'[y])
  \/ DOMAIN NewBlocks # {} /\ AllocateAll(NewBlocks)

Spec == Init /\ [][Next]_vars
=============================================================================
