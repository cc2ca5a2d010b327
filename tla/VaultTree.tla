----------------------------- MODULE VaultTree -----------------------------
(***************************************************************************)
(* The incremental Merkle tree of contracts/vault/src/tree.rs: the vault   *)
(* keeps the frontier and the ring of recent roots, never the leaves.  A   *)
(* hash is the pair of what it compresses, so two hashes are equal only    *)
(* when their preimages are, which is what the vault relies on Poseidon2   *)
(* for.  VaultState names these roots by their number of leaves.           *)
(***************************************************************************)
EXTENDS Integers, Sequences

CONSTANTS DEPTH, ROOT_HISTORY, Commitments,
          Batch  \* the most pairs one call inserts

ASSUME TreeAssumptions ==
  /\ DEPTH \in Nat \ {0}
  /\ ROOT_HISTORY \in Nat \ {0}
  /\ Batch \in Nat

VARIABLES frontier, roots, newest, next_leaf,
          leaves  \* history variable: every leaf, which the vault only publishes

vars == <<frontier, roots, newest, next_leaf, leaves>>

Empty == <<>>  \* the field element 0: the empty leaf, and an unwritten slot of the ring
compress(left, right) == <<left, right>>

\* The root of an empty subtree of each height.
ZEROS[height \in Nat] ==
  IF height = 0 THEN Empty ELSE compress(ZEROS[height - 1], ZEROS[height - 1])

has_room(next) == next + 2 =< 2 ^ DEPTH

Pow2(level) == 2 ^ level

\* Variant with a fault: the frontier keeps the node after it was compressed.
Climb_late(at, level, index) ==
  IF (index \div Pow2(level)) % 2 = 0
  THEN LET node == compress(at.node, ZEROS[level])
       IN [frontier |-> [at.frontier EXCEPT ![level] = node], node |-> node]
  ELSE [at EXCEPT !.node = compress(at.frontier[level], at.node)]

\* One level of append: the node of the new pair meets the empty subtree on its
\* right, and is kept in the frontier, or the frontier on its left.
Climb(at, level, index) ==
  IF (index \div Pow2(level)) % 2 = 0
  THEN [frontier |-> [at.frontier EXCEPT ![level] = at.node],
        node |-> compress(at.node, ZEROS[level])]
  ELSE [at EXCEPT !.node = compress(at.frontier[level], at.node)]

\* Variant with a fault: the ring has one slot less than it should.
NextSlot_short(slot) == IF slot + 2 >= ROOT_HISTORY THEN 0 ELSE slot + 1

NextSlot(slot) == (slot + 1) % ROOT_HISTORY

\* Appender::append: the tree with one more pair of leaves, and one more root.
append(tree, pair) ==
  LET start == [frontier |-> [tree.frontier EXCEPT ![0] = pair[1]],
                node |-> compress(pair[1], pair[2])]
      at[level \in Nat] ==
        IF level = 0 THEN start ELSE Climb(at[level - 1], level, tree.next_leaf)
      end  == at[DEPTH - 1]
      slot == NextSlot(tree.newest)
  IN [frontier |-> end.frontier, newest |-> slot,
      roots |-> [tree.roots EXCEPT ![slot] = end.node],
      next_leaf |-> tree.next_leaf + 2]

\* A call loads the tree, appends its pairs in memory and saves it once.  It
\* fails, and saves nothing, when a pair finds no room.
insert(pairs) ==
  LET loaded == [frontier |-> frontier, roots |-> roots, newest |-> newest,
                 next_leaf |-> next_leaf]
      after[k \in Nat] == IF k = 0 THEN loaded ELSE append(after[k - 1], pairs[k])
      saved == after[Len(pairs)]
  IN /\ has_room(next_leaf + 2 * (Len(pairs) - 1))
     /\ frontier' = saved.frontier
     /\ roots' = saved.roots
     /\ newest' = saved.newest
     /\ next_leaf' = saved.next_leaf
     /\ leaves' = [i \in 1 .. Len(leaves) + 2 * Len(pairs) |->
                     IF i =< Len(leaves) THEN leaves[i]
                     ELSE pairs[(i - Len(leaves) + 1) \div 2][2 - (i % 2)]]

init ==
  /\ frontier = [level \in 0 .. DEPTH - 1 |-> ZEROS[level]]
  /\ roots = [s \in 0 .. ROOT_HISTORY - 1 |-> IF s = 0 THEN ZEROS[DEPTH] ELSE Empty]
  /\ newest = 0
  /\ next_leaf = 0
  /\ leaves = <<>>

Pairs == {p \in Commitments \X Commitments : p[1] # p[2]}

Next == \E n \in 1 .. Batch : \E pairs \in [1 .. n -> Pairs] : insert(pairs)

Spec == init /\ [][Next]_vars

----------------------------------------------------------------------------
\* The reference: the node at a height and a position of the whole tree over
\* the first n leaves, every other leaf empty.
Node(n) ==
  LET node[height \in Nat] ==
        [position \in 0 .. Pow2(DEPTH - height) - 1 |->
           IF height = 0
           THEN IF position < n THEN leaves[position + 1] ELSE Empty
           ELSE compress(node[height - 1][2 * position],
                         node[height - 1][2 * position + 1])]
  IN node[DEPTH][0]

\* The root the vault computes from its frontier is the root of the whole tree,
\* which clients rebuild from the published leaves to make their proofs.
RootIsTreeRoot == roots[newest] = Node(Len(leaves))

\* The ring holds exactly the roots of the last ROOT_HISTORY inserted pairs, a
\* batch of pairs leaving one for each, and no unwritten slot passes for a root.
RingHoldsRecent ==
  \A s \in 0 .. ROOT_HISTORY - 1 :
    LET age == (newest - s) % ROOT_HISTORY
    IN roots[s] = IF 2 * age =< Len(leaves) THEN Node(Len(leaves) - 2 * age) ELSE Empty

\* The vault's newest root and its ring are those of the whole tree.
TreeExact == RootIsTreeRoot /\ RingHoldsRecent

============================================================================
