------------------------------ MODULE TreeBins ------------------------------
(***************************************************************************)
(* support/allocators/dlmalloc/malloc.c: the tree bins.  The chunks of a   *)
(* large size form a ring; the first of the ring, its base, is a node of   *)
(* the bin's bitwise trie, and carries the ring's parent and children.     *)
(* Any node may hold any size whose bits lead to it, so the trie is not    *)
(* sorted, and the searches of tmalloc_large and tmalloc_small have to     *)
(* find the best fit in it all the same.                                   *)
(***************************************************************************)
EXTENDS MallocSizes, FiniteSetsExt

CONSTANTS
  Chunks, (* free chunks                    *)
  Sizes,  (* the large sizes they can have  *)
  Null

VARIABLES
  root,           (* treebins: the root of each bin, or Null        *)
  treemap,        (* the marked bins                                *)
  fd, bk,         (* ring of the chunks of one size                 *)
  child, parent,  (* trie links of a base, Null for the others      *)
  size,           (* size of each chunk in a bin, 0 for the others  *)
  aborted         (* a run-time check failed                        *)

NotBinned == 0
Binned    == {x \in Chunks : size[x] \in Sizes}
Depths    == 0 .. Cardinality(Chunks)

TreeIndices   == {compute_tree_index(s) : s \in Sizes}
treebin_at(i) == <<"treebin", i>>
index(x)      == compute_tree_index(size[x])
ok_address(x) == x # Null

NoChild == [c \in 0 .. 1 |-> Null]

-----------------------------------------------------------------------------
(* Insertion.                                                              *)

Turn(S, d) == ChildIndex(S, compute_tree_index(S), d)

(* The nodes the loop of insert_large_chunk visits: down the bits of S to  *)
(* the end of the path, or to the node that has that size.                 *)
Path(S) ==
  LET at[d \in Depths] ==
        IF d = 0 THEN root[compute_tree_index(S)]
        ELSE IF at[d - 1] = Null THEN Null
        ELSE IF size[at[d - 1]] = S THEN Null
        ELSE child[at[d - 1]][Turn(S, d - 1)]
  IN  at

LastDepth(path) == Max({d \in Depths : path[d] # Null})

mark_treemap(I) == treemap' = treemap \cup {I}

JoinRing(X, T) ==
  /\ fd' = [fd EXCEPT ![T] = X, ![X] = fd[T]]
  /\ bk' = [bk EXCEPT ![fd[T]] = X, ![X] = T]

NewRing(X) ==
  /\ fd' = [fd EXCEPT ![X] = X]
  /\ bk' = [bk EXCEPT ![X] = X]

(* The bin is empty: X becomes its root. *)
InsertRoot(X, S) ==
  LET I == compute_tree_index(S)
  IN  /\ I \notin treemap
      /\ mark_treemap(I)
      /\ root' = [root EXCEPT ![I] = X]
      /\ parent' = [parent EXCEPT ![X] = treebin_at(I)]
      /\ NewRing(X)
      /\ child' = [child EXCEPT ![X] = NoChild]

(* The path ends before the size is found: X hangs below its last node. *)
InsertLeaf(X, S) ==
  LET path == Path(S)
      d == LastDepth(path)
      T == path[d]
  IN  /\ compute_tree_index(S) \in treemap
      /\ size[T] # S
      /\ child' = [child EXCEPT ![T][Turn(S, d)] = X, ![X] = NoChild]
      /\ parent' = [parent EXCEPT ![X] = T]
      /\ NewRing(X)
      /\ UNCHANGED <<root, treemap>>

(* There are chunks of that size: X joins their ring, after the base. *)
InsertChained(X, S) ==
  LET path == Path(S)
      T == path[LastDepth(path)]
  IN  /\ compute_tree_index(S) \in treemap
      /\ size[T] = S
      /\ JoinRing(X, T)
      /\ parent' = [parent EXCEPT ![X] = Null]
      /\ child' = [child EXCEPT ![X] = NoChild]
      /\ UNCHANGED <<root, treemap>>

insert_large_chunk(X, S) ==
  /\ size[X] = NotBinned
  /\ InsertRoot(X, S) \/ InsertLeaf(X, S) \/ InsertChained(X, S)
  /\ size' = [size EXCEPT ![X] = S]
  /\ UNCHANGED aborted

-----------------------------------------------------------------------------
(* Removal.                                                                *)

rightmost_child(x) == IF child[x][1] # Null THEN child[x][1] ELSE child[x][0]

(* Faulty variant: the child itself moves up, with its own subtree below.  *)
NearestChild(X) == rightmost_child(X)

(* The leaf that the replacement loop ends at, Null below a leaf.          *)
ReplacementLeaf(X) ==
  LET r[d \in Depths] ==
        IF d = 0 THEN rightmost_child(X)
        ELSE IF r[d - 1] = Null \/ rightmost_child(r[d - 1]) = Null THEN r[d - 1]
        ELSE rightmost_child(r[d - 1])
  IN  r[Cardinality(Chunks)]

(* R: the ring's next base, or the last leaf below X. *)
Replacement(X) == IF bk[X] # X THEN bk[X] ELSE ReplacementLeaf(X)

(* *RP = 0: a leaf that moves leaves its place. *)
WithoutLeaf(X) ==
  LET R == ReplacementLeaf(X)
  IN  IF bk[X] # X \/ R = Null THEN child
      ELSE [child EXCEPT ![parent[R]] = [c \in 0 .. 1 |-> IF @[c] = R THEN Null ELSE @[c]]]

(* Faulty variant: a replacement keeps no children.                        *)
ForgetChildren(X, R, kids) == [kids EXCEPT ![X] = NoChild]

(* R takes over the children that X has left.                              *)
AdoptChildren(X, R, kids) ==
  [kids EXCEPT ![R] = [c \in 0 .. 1 |-> IF kids[X][c] # Null THEN kids[X][c] ELSE @[c]],
               ![X] = NoChild]

(* The trie link that led to X leads to R. *)
Relink(X, R, kids) ==
  IF parent[X] = treebin_at(index(X)) THEN kids
  ELSE [kids EXCEPT ![parent[X]] = IF @[0] = X THEN [@ EXCEPT ![0] = R]
                                               ELSE [@ EXCEPT ![1] = R]]

(* X is no base: only its ring changes. *)
UnlinkFromRing(X) ==
  /\ parent[X] = Null
  /\ UNCHANGED <<root, treemap, child, parent>>

(* X is the base of the last ring of its bin. *)
UnlinkLast(X) ==
  /\ parent[X] # Null
  /\ Replacement(X) = Null
  /\ root' = IF root[index(X)] = X THEN [root EXCEPT ![index(X)] = Null] ELSE root
  /\ treemap' = IF root[index(X)] = X THEN treemap \ {index(X)} ELSE treemap
  /\ child' = Relink(X, Null, child)
  /\ parent' = [parent EXCEPT ![X] = Null]

(* X is a base and R takes its place. *)
UnlinkReplaced(X) ==
  LET R == Replacement(X)
      kids == WithoutLeaf(X)
  IN  /\ parent[X] # Null
      /\ R # Null
      /\ root' = IF root[index(X)] = X THEN [root EXCEPT ![index(X)] = R] ELSE root
      /\ child' = AdoptChildren(X, R, Relink(X, R, kids))
      /\ parent' = [y \in Chunks |-> IF y = R THEN parent[X]
                                     ELSE IF y = X THEN Null
                                     ELSE IF y \in {kids[X][0], kids[X][1]} THEN R
                                     ELSE parent[y]]
      /\ UNCHANGED treemap

(* The links of X become bytes of its user; Null stands for them.          *)
unlink_large_chunk(X) ==
  LET F == fd[X]
      B == bk[X]
  IN  /\ size[X] # NotBinned
      /\ UnlinkFromRing(X) \/ UnlinkLast(X) \/ UnlinkReplaced(X)
      /\ fd' = [fd EXCEPT ![B] = F, ![X] = Null]
      /\ bk' = [bk EXCEPT ![F] = B, ![X] = Null]
      /\ size' = [size EXCEPT ![X] = NotBinned]
      /\ aborted' = (aborted \/ (B # X /\ ~(bk[F] = X /\ fd[B] = X)))

-----------------------------------------------------------------------------
(* The search of malloc.  Its loops are functions of the number of turns.  *)

leftmost_child(t) == IF child[t][0] # Null THEN child[t][0] ELSE child[t][1]

(* "if (trem < rsize)": the difference is unsigned, so a chunk that is too *)
(* small has a remainder no smaller than the first rsize.                  *)
Better(s, nb) ==
  LET trem == Word(size[s.t] - nb)
  IN  IF trem < s.rsize THEN [s EXCEPT !.v = s.t, !.rsize = trem] ELSE s

(* Faulty variant: the untaken right subtree is not remembered.            *)
ForgetRight(s, next) == s.rst

RememberRight(s, next) ==
  LET rt == child[s.t][1] IN IF rt # Null /\ rt # next THEN rt ELSE s.rst

(* One turn of the loop that follows the bits of nb. *)
FollowBits(s, nb, d) ==
  LET b == Better(s, nb)
      next == child[s.t][Turn(nb, d)]
      rst == RememberRight(s, next)
  IN  IF s.found \/ s.t = Null THEN s
      ELSE IF b.rsize = 0 THEN [b EXCEPT !.found = TRUE]
      ELSE IF next = Null THEN [b EXCEPT !.t = rst, !.rst = rst, !.found = TRUE]
      ELSE [b EXCEPT !.t = next, !.rst = rst]

(* One turn of "while (t != 0)". *)
FollowLeft(s, nb) ==
  IF s.t = Null THEN s ELSE [Better(s, nb) EXCEPT !.t = leftmost_child(s.t)]

Leftmost(s0, nb) ==
  LET w[d \in 0 .. Cardinality(Chunks) + 1] ==
        IF d = 0 THEN s0 ELSE FollowLeft(w[d - 1], nb)
  IN  w[Cardinality(Chunks) + 1]

(* The root of the next marked bin, Null without one. *)
NextRoot(idx) ==
  LET left == {i \in treemap : i > idx}
  IN  IF left = {} THEN Null ELSE root[Min(left)]

(* v of tmalloc_large. *)
BestLarge(nb) ==
  LET idx == compute_tree_index(nb)
      start == [t |-> IF idx \in treemap THEN root[idx] ELSE Null, v |-> Null,
                rsize |-> Word(-nb), rst |-> Null, found |-> FALSE]
      w[d \in 0 .. Cardinality(Chunks) + 1] ==
        IF d = 0 THEN start ELSE FollowBits(w[d - 1], nb, d - 1)
      s == w[Cardinality(Chunks) + 1]
  IN  IF s.t = Null /\ s.v = Null
      THEN Leftmost([s EXCEPT !.t = NextRoot(idx)], nb).v
      ELSE Leftmost(s, nb).v

(* v of tmalloc_small: any chunk is large enough. *)
BestSmall(nb) ==
  LET t == root[Min(treemap)]
  IN  Leftmost([t |-> leftmost_child(t), v |-> t, rsize |-> size[t] - nb,
                rst |-> Null, found |-> TRUE], nb).v

(* tmalloc_large and tmalloc_small take what they found out of its bin.    *)
tmalloc_large(nb) == BestLarge(nb) # Null /\ unlink_large_chunk(BestLarge(nb))
tmalloc_small(nb) == treemap # {} /\ unlink_large_chunk(BestSmall(nb))

-----------------------------------------------------------------------------

(* Static storage is zero. *)
treebins_empty ==
  /\ root = [i \in TreeIndices |-> Null]
  /\ treemap = {}
  /\ child = [x \in Chunks |-> NoChild]
  /\ parent = [x \in Chunks |-> Null]

-----------------------------------------------------------------------------

Bases == {x \in Binned : parent[x] # Null}

(* do_check_tree: every ring is of one size and has one base; parents and  *)
(* children point at each other; the left child is smaller than the right; *)
(* a bin is marked exactly when it has a root.                             *)
WellFormed ==
  /\ \A x \in Binned :
       /\ fd[x] \in Binned /\ bk[fd[x]] = x /\ size[fd[x]] = size[x]
       /\ Cardinality({y \in Bases : size[y] = size[x]}) = 1
       /\ x \notin Bases => child[x] = NoChild
  /\ \A x \in Bases :
       /\ \A c \in 0 .. 1 : child[x][c] # Null =>
            child[x][c] \in Bases /\ parent[child[x][c]] = x
       /\ IF parent[x] = treebin_at(index(x)) THEN root[index(x)] = x
          ELSE parent[x] \in Bases /\ x \in {child[parent[x]][0], child[parent[x]][1]}
       /\ Null \notin {child[x][0], child[x][1]} => size[child[x][0]] < size[child[x][1]]
  /\ treemap = {i \in TreeIndices : root[i] # Null}
  /\ treemap = {index(x) : x \in Binned}

(* bin_find: the bits of a size lead to its chunks, also after leaves have *)
(* moved up to replace nodes of other sizes.                               *)
Findable ==
  \A x \in Binned : LET path == Path(size[x]) IN size[path[LastDepth(path)]] = size[x]

(* The chunks of a size in the order they were inserted.                   *)
Ring(S) ==
  LET n == Cardinality({x \in Binned : size[x] = S})
      base == CHOOSE x \in Bases : size[x] = S
      w[k \in 1 .. n] == IF k = 1 THEN base ELSE bk[w[k - 1]]
  IN  w

RingSizes == {size[x] : x \in Bases}
=============================================================================
