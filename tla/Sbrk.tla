-------------------------------- MODULE Sbrk --------------------------------
(***************************************************************************)
(* What dlmalloc expects of a MORECORE function configured with            *)
(* MORECORE_CONTIGUOUS 1 and MORECORE_CANNOT_TRIM 1: a break that only     *)
(* moves up, whose every grant starts exactly where the previous one       *)
(* ended.  The break never passes the last address a pointer can hold.     *)
(***************************************************************************)
EXTENDS Integers

CONSTANTS
  Start,  (* the address at which the heap begins to grow      *)
  Limit,  (* no address above Limit can be stored in a pointer *)
  Fail    (* what MORECORE returns on failure (-1)             *)

VARIABLES
  brk,    (* the current break                                        *)
  blocks, (* every region ever granted, as [lo, hi) pairs             *)
  ret     (* what the last call returned                              *)

vars == <<brk, blocks, ret>>

Init ==
  /\ brk = Start
  /\ blocks = {}
  /\ ret = Fail

(* MORECORE(0): tell where the break is. *)
Ask ==
  /\ ret' = brk
  /\ UNCHANGED <<brk, blocks>>

(* MORECORE(n), granted: the region starts at the old break. *)
Grant(n) ==
  /\ brk + n <= Limit
  /\ ret' = brk
  /\ brk' = brk + n
  /\ blocks' = blocks \cup {[lo |-> brk, hi |-> brk + n]}

(* Any call may be refused, and then nothing has moved. *)
Refuse ==
  /\ ret' = Fail
  /\ UNCHANGED <<brk, blocks>>

Next ==
  \/ Ask
  \/ \E n \in 1 .. Limit : Grant(n)
  \/ Refuse

Spec == Init /\ [][Next]_vars
=============================================================================
