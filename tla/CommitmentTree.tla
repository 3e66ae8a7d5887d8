--------------------------- MODULE CommitmentTree ---------------------------
(***************************************************************************)
(* The note commitment tree of merkle_tree.rs and the witnesses that are   *)
(* kept up to date beside it.  A wallet appends the same commitments to    *)
(* the tree and to every witness, writes both to its database block by     *)
(* block, and after a rewind reads them back and goes on with the          *)
(* commitments of another chain.                                           *)
(*                                                                         *)
(* A node of the tree is an opaque hash: the tuple of what was hashed, so  *)
(* that two nodes are equal only when the same leaves are under them.      *)
(***************************************************************************)
EXTENDS Serialize, FiniteSets, FiniteSetsExt

CONSTANTS Depth,         \* levels of the tree (SAPLING_COMMITMENT_TREE_DEPTH)
          MaxWitnesses,  \* witnesses kept at once
          MaxRewinds     \* rewinds of the chain

VARIABLES tree,       \* the CommitmentTree
          witnesses,  \* position of a note -> its IncrementalWitness
          saved,      \* what the database holds: the serialised tree and witnesses
          leaves,     \* the commitments of the chain, in order (history)
          fork        \* rewinds so far: tells the chains apart

vars == <<tree, witnesses, saved, leaves, fork>>

-----------------------------------------------------------------------------
(* Nodes.                                                                  *)

Leaf(chain, i) == <<chain, i>>
Combine(depth, l, r) == <<depth, l, r>>
EmptyRoot[d \in 0..Depth] ==
    IF d = 0 THEN Leaf(0, 0) ELSE Combine(d - 1, EmptyRoot[d-1], EmptyRoot[d-1])

-----------------------------------------------------------------------------
(* CommitmentTree.  Slot 0 is `left`, slot 1 `right`, slot i + 1 the i-th  *)
(* entry of `parents`; slots beyond the vector are empty.                  *)

EmptyTree == [left |-> None, right |-> None, parents |-> << >>]

Slot(t, i) == CASE i = 0 -> t.left
                [] i = 1 -> t.right
                [] OTHER -> IF i - 1 <= Len(t.parents) THEN t.parents[i-1] ELSE None
SlotDepth(i) == IF i = 0 THEN 0 ELSE i - 1
EmptySlots(t, last) == {i \in 0..last : Slot(t, i) = None}

Size(t) == Cardinality({i \in {0, 1} : Slot(t, i) # None})
           + MapThenSumSet(LAMBDA i : 2^i, {i \in DOMAIN t.parents : t.parents[i] # None})

IsComplete(t, depth) == /\ Len(t.parents) = depth - 1
                        /\ EmptySlots(t, Len(t.parents) + 1) = {}

\* append_inner: a full pair of leaves is hashed and carried up to the
\* first parent that is empty.
CarryInto(t) == CHOOSE k \in 1..Len(t.parents) + 1 :
                  /\ Slot(t, k + 1) = None
                  /\ \A j \in 1..k-1 : t.parents[j] # None
Push(t, node) ==
    LET top == CarryInto(t)
        carry[i \in 0..top-1] == IF i = 0 THEN Combine(0, t.left, t.right)
                                 ELSE Combine(i, t.parents[i], carry[i-1])
    IN  CASE t.left = None  -> [t EXCEPT !.left = node]
          [] t.left # None /\ t.right = None -> [t EXCEPT !.right = node]
          [] OTHER -> [left |-> node, right |-> None,
                       parents |-> [i \in 1..IF top > Len(t.parents) THEN top
                                             ELSE Len(t.parents) |->
                                      CASE i < top -> None
                                        [] i = top -> carry[top-1]
                                        [] OTHER   -> t.parents[i]]]

\* PathFiller: the k-th empty slot takes the k-th node of the queue, and
\* the root of an empty subtree once the queue has run out.
Filled(t, queue, i) ==
    LET k == Cardinality(EmptySlots(t, i))
    IN  IF Slot(t, i) # None THEN Slot(t, i)
        ELSE IF k <= Len(queue) THEN queue[k] ELSE EmptyRoot[SlotDepth(i)]

\* root_inner.  A stored parent is the left child, a filler the right one.
RootOf(t, depth, queue) ==
    LET root[d \in 0..depth-1] ==
          IF d = 0 THEN Combine(0, Filled(t, queue, 0), Filled(t, queue, 1))
          ELSE IF Slot(t, d + 1) # None THEN Combine(d, Slot(t, d + 1), root[d-1])
          ELSE Combine(d, root[d-1], Filled(t, queue, d + 1))
    IN  root[depth-1]

-----------------------------------------------------------------------------
(* IncrementalWitness: the tree as it was, the roots of the subtrees that  *)
(* have been filled to its right, and the subtree being filled.            *)

FromTree(t) == [tree |-> t, filled |-> << >>, cursorDepth |-> 0, cursor |-> None]
Position(w) == Size(w.tree) - 1

NextDepth(w) ==
    LET skip  == Len(w.filled)
        last  == Len(w.tree.parents) + 1
        empty == EmptySlots(w.tree, last)
    IN  IF Cardinality(empty) > skip
        THEN SlotDepth(CHOOSE i \in empty : Cardinality(EmptySlots(w.tree, i)) = skip + 1)
        ELSE last + skip - Cardinality(empty)

CursorRoot(w) == RootOf(w.cursor, w.cursorDepth, << >>)
Filler(w) == IF w.cursor = None THEN w.filled ELSE Append(w.filled, CursorRoot(w))

\* append_inner of a witness that has a cursor, and of one that has none.
Grow(w, node) ==
    LET grown == [w EXCEPT !.cursor = Push(w.cursor, node)]
    IN  IF IsComplete(grown.cursor, w.cursorDepth)
        THEN [w EXCEPT !.filled = Append(w.filled, CursorRoot(grown)), !.cursor = None]
        ELSE grown
Start(w, node) ==
    LET next == [w EXCEPT !.cursorDepth = NextDepth(w)]
    IN  CASE next.cursorDepth >= Depth -> next
          [] next.cursorDepth = 0      -> [next EXCEPT !.filled = Append(w.filled, node)]
          [] OTHER                     -> [next EXCEPT !.cursor = Push(EmptyTree, node)]
AppendTo(w, node) == IF w.cursor # None THEN Grow(w, node) ELSE Start(w, node)
IsFull(w) == w.cursor = None /\ NextDepth(w) >= Depth

WitnessRoot(w) == RootOf(w.tree, Depth, Filler(w))

\* path_inner: the siblings from the leaf up, and whether the path is on
\* the right of each.
PathOf(w) ==
    [authPath |-> [d \in 1..Depth |->
        IF d = 1 THEN IF w.tree.right # None THEN <<w.tree.left, TRUE>>
                      ELSE <<Filled(w.tree, Filler(w), 1), FALSE>>
        ELSE <<Filled(w.tree, Filler(w), d), Slot(w.tree, d) # None>>],
     position |-> Position(w)]

-----------------------------------------------------------------------------
(* MerklePath.                                                             *)

\* root: the leaf hashed with its siblings.
PathRoot(path, leaf) ==
    LET root[d \in 0..Depth] ==
          IF d = 0 THEN leaf
          ELSE LET p == path.authPath[d]
               IN  IF p[2] THEN Combine(d - 1, p[1], root[d-1])
                   ELSE Combine(d - 1, root[d-1], p[1])
    IN  root[Depth]

\* The encoding from_slice reads (the depth, the siblings from the root
\* down, each after its length, the position).
PathBytes(path) ==
    <<Depth>> \o WriteArray([i \in 1..Depth |-> path.authPath[Depth + 1 - i][1]],
                            LAMBDA node : <<32, node>>)
              \o LowBytes(path.position, 8)
FromSlice(s) ==
    Then(ReadToken(s), LAMBDA depth, rest :
      IF depth # Depth THEN Fail
      ELSE Then(ReadArray(rest, Depth,
                  LAMBDA r : Then(ReadToken(r), LAMBDA len, q :
                               IF len = 32 THEN ReadToken(q) ELSE Fail)),
             LAMBDA siblings, r :
               IF Len(r) # 8 THEN Fail
               ELSE LET position == Word(r, 3)
                    IN  Ok([authPath |-> [d \in 1..Depth |->
                              <<siblings[Depth + 1 - d], (position \div 2^(d-1)) % 2 = 1>>],
                            position |-> position], << >>)))

-----------------------------------------------------------------------------
(* What is written to the database and read back.                          *)

WriteNode(n) == <<n>>
WriteTree(t) ==
    WriteOptional(t.left, WriteNode) \o WriteOptional(t.right, WriteNode)
    \o WriteVector(t.parents, LAMBDA p : WriteOptional(p, WriteNode))
ReadNode(s) == ReadOptional(s, ReadToken)
ReadTree(s) ==
    Then(ReadNode(s), LAMBDA l, r1 : Then(ReadNode(r1), LAMBDA r, r2 :
      Then(ReadVector(r2, ReadNode), LAMBDA ps, r3 :
        Ok([left |-> l, right |-> r, parents |-> ps], r3))))

\* The depth of the cursor is not written: read works it out again.
WriteWitness(w) ==
    WriteTree(w.tree) \o WriteVector(w.filled, WriteNode) \o WriteOptional(w.cursor, WriteTree)
\* Mutant: the subtree is taken for one at the first level.
ReadWitnessDepth1(s) ==
    Then(ReadTree(s), LAMBDA t, r1 : Then(ReadVector(r1, ReadToken), LAMBDA f, r2 :
      Then(ReadOptional(r2, ReadTree), LAMBDA c, r3 :
        Ok([tree |-> t, filled |-> f, cursorDepth |-> 1, cursor |-> c], r3))))
ReadWitness(s) ==
    Then(ReadTree(s), LAMBDA t, r1 : Then(ReadVector(r1, ReadToken), LAMBDA f, r2 :
      Then(ReadOptional(r2, ReadTree), LAMBDA c, r3 :
        LET w == [tree |-> t, filled |-> f, cursorDepth |-> 0, cursor |-> c]
        IN  Ok([w EXCEPT !.cursorDepth = NextDepth(w)], r3))))

-----------------------------------------------------------------------------
(* The steps of a scanning wallet.                                         *)

NoneSaved == [tree |-> << >>, witnesses |-> << >>, leaves |-> << >>]

Init == /\ tree = EmptyTree /\ leaves = << >>
        /\ witnesses = << >>
        /\ saved = NoneSaved /\ fork = 0

\* A commitment that is not the wallet's is appended to the tree and to
\* every witness; one that is gets a witness of its own from the new tree.
Scan(mine) ==
    LET leaf == Leaf(fork + 1, Len(leaves))
        grown == Push(tree, leaf)
        kept == [p \in DOMAIN witnesses |-> AppendTo(witnesses[p], leaf)]
    IN  /\ ~IsComplete(tree, Depth)
        /\ mine => Cardinality(DOMAIN witnesses) < MaxWitnesses
        /\ tree' = grown
        /\ leaves' = Append(leaves, leaf)
        /\ witnesses' = [p \in DOMAIN witnesses \union (IF mine THEN {Len(leaves)} ELSE {}) |->
                           IF p \in DOMAIN witnesses THEN kept[p] ELSE FromTree(grown)]
        /\ UNCHANGED <<saved, fork>>

Save == /\ saved' = [tree |-> WriteTree(tree),
                     witnesses |-> [p \in DOMAIN witnesses |-> WriteWitness(witnesses[p])],
                     leaves |-> leaves]
        /\ UNCHANGED <<tree, witnesses, leaves, fork>>

\* The chain is another one from the saved block on.
Rewind ==
    /\ fork < MaxRewinds /\ fork' = fork + 1
    /\ saved.tree # << >>
    /\ tree' = ReadTree(saved.tree).val
    /\ witnesses' = [p \in DOMAIN saved.witnesses |-> ReadWitness(saved.witnesses[p]).val]
    /\ leaves' = saved.leaves
    /\ UNCHANGED saved

Next == (\E mine \in BOOLEAN : Scan(mine)) \/ Save \/ Rewind

Spec == Init /\ [][Next]_vars

-----------------------------------------------------------------------------
(* Properties.                                                             *)

\* The tree the leaves would make if it were built whole.
Reference ==
    LET node[d \in 0..Depth, i \in 0..2^Depth] ==
          IF d = 0 THEN IF i < Len(leaves) THEN leaves[i+1] ELSE EmptyRoot[0]
          ELSE Combine(d - 1, node[d-1, 2*i], node[d-1, 2*i+1])
    IN  node[Depth, 0]

\* However the commitments arrived, and whatever was written and read back
\* on the way, the root is that of the complete tree over them: the tree
\* keeps one node per level only (append_inner, root_inner).
RootIsReference == RootOf(tree, Depth, << >>) = Reference /\ Size(tree) = Len(leaves)

\* Each witness proves its own note against the root of the tree: the
\* position is the note's, the path leads from its commitment to that root
\* and survives from_slice, and witness and tree are full together.
WitnessesProveTheirNotes ==
    \A p \in DOMAIN witnesses :
      LET w == witnesses[p]
      IN  /\ Position(w) = p
          /\ WitnessRoot(w) = Reference
          /\ PathRoot(PathOf(w), leaves[p+1]) = Reference
          /\ FromSlice(PathBytes(PathOf(w))) = Ok(PathOf(w), << >>)
          /\ IsFull(w) <=> Len(leaves) = 2^Depth
=============================================================================
