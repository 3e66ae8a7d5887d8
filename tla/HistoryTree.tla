---------------------------- MODULE HistoryTree ----------------------------
(***************************************************************************)
(* The chain history tree of zcash_history: a Merkle mountain range kept   *)
(* as an array of nodes by its caller, of which a Tree is a partly loaded  *)
(* view.  The caller persists the nodes append_leaf returns, drops as many *)
(* as truncate_leaf tells it to, and may throw the view away and load a    *)
(* new one (the peaks, and the nodes below the last peak that one deletion *)
(* needs) at any time.                                                     *)
(***************************************************************************)
EXTENDS Integers, Sequences, SequencesExt

CONSTANTS MaxLeaves,     \* blocks of the chain
          MaxGenerated,  \* generated nodes in a view before its next operation
          Works          \* the amounts of work a block may carry

VARIABLES array,   \* the caller's: the entries written so far, serialised
          view,    \* the Tree: stored, generated, storedCount, root
          loaded,  \* leaves of the tree when the view was loaded
          failed,  \* an operation has returned an Error
          leaves   \* the blocks of the chain, in order (history)

vars == <<array, view, loaded, failed, leaves>>

-----------------------------------------------------------------------------
(* NodeData: what a node says of the blocks under it.  Start and end stand *)
(* for the first and last block's time, target and Sapling root.           *)

LeafData(height, work) ==
    [commitment |-> <<height, work>>, startHeight |-> height, endHeight |-> height,
     start |-> work, end |-> work, work |-> work]

CombineData(l, r) ==
    [commitment |-> <<l, r>>, startHeight |-> l.startHeight, endHeight |-> r.endHeight,
     start |-> l.start, end |-> r.end, work |-> l.work + r.work]

\* One token for each field, in the order they are written and read back.
WriteData(d) == <<d.commitment, d.start, d.end, d.work, d.startHeight, d.endHeight>>
ReadData(s) ==
    [commitment |-> s[1], start |-> s[2], end |-> s[3], work |-> s[4],
     startHeight |-> s[5], endHeight |-> s[6]]

-----------------------------------------------------------------------------
(* Entries and links.                                                      *)

Stored(i) == [kind |-> "stored", index |-> i]
Generated(i) == [kind |-> "generated", index |-> i]

LeafEntry(data) == [leaf |-> TRUE, data |-> data]
NodeEntry(data, l, r) == [leaf |-> FALSE, left |-> l, right |-> r, data |-> data]

LeafCount(e) == e.data.endHeight - (e.data.startHeight - 1)
Complete(e) == LeafCount(e) \in {2^k : k \in 0..MaxLeaves}

\* Entry::write refuses a link to a node that is in the view only.
Writable(e) == e.leaf \/ {e.left.kind, e.right.kind} = {"stored"}
Written(e) == (IF e.leaf THEN <<1>> ELSE <<0, e.left.index, e.right.index>>) \o WriteData(e.data)
EntryRead(s) == IF s[1] = 1 THEN LeafEntry(ReadData(Tail(s)))
                ELSE NodeEntry(ReadData(SubSeq(s, 4, Len(s))), Stored(s[2]), Stored(s[3]))

-----------------------------------------------------------------------------
(* The view.                                                               *)

InMemory(v, link) == IF link.kind = "stored" THEN link.index \in DOMAIN v.stored
                     ELSE link.index \in 0..Len(v.generated)-1
Resolve(v, link) == IF link.kind = "stored" THEN v.stored[link.index]
                    ELSE v.generated[link.index + 1]

CombineNodes(v, l, r) == NodeEntry(CombineData(Resolve(v, l).data, Resolve(v, r).data), l, r)

PushStored(v, e) ==
    [v EXCEPT !.stored = [i \in DOMAIN v.stored \union {v.storedCount} |->
                            IF i = v.storedCount THEN e ELSE v.stored[i]],
              !.storedCount = @ + 1]
Pop(v, n) ==
    [v EXCEPT !.stored = [i \in DOMAIN v.stored \ (v.storedCount - n .. v.storedCount - 1)
                            |-> v.stored[i]],
              !.storedCount = @ - n]

\* Mutant: the left-most peak is forgotten.
BagTail(v, peaks) == [v EXCEPT !.root = Last(peaks)]
\* Connects peaks from left to right with generated nodes, and makes the
\* last of these the root.
Bag(v, peaks) ==
    FoldLeft(LAMBDA b, peak :
               [b EXCEPT !.generated = Append(@, CombineNodes(b, b.root, peak)),
                         !.root = Generated(Len(b.generated))],
             [v EXCEPT !.root = Head(peaks)], Tail(peaks))

\* get_peaks: the roots of the complete subtrees, left to right; empty when
\* one of them is not in memory (ExpectedInMemory).
RECURSIVE PeaksBelow(_, _)
PeaksBelow(v, link) ==
    IF ~InMemory(v, link) THEN << >>
    ELSE LET e == Resolve(v, link)
         IN  IF Complete(e) THEN <<link>>
             ELSE LET l == PeaksBelow(v, e.left)
                      r == PeaksBelow(v, e.right)
                  IN  IF << >> \in {l, r} THEN << >> ELSE l \o r

\* The left children along the right slope of a subtree, down to a leaf;
\* the slope is broken where a node is not in memory.
RECURSIVE RightSlope(_, _)
RightSlope(v, link) ==
    IF ~InMemory(v, link) THEN [broken |-> TRUE, lefts |-> << >>]
    ELSE LET e == Resolve(v, link)
         IN  IF e.leaf THEN [broken |-> FALSE, lefts |-> << >>]
             ELSE LET below == RightSlope(v, e.right)
                  IN  [below EXCEPT !.lefts = <<e.left>> \o @]

-----------------------------------------------------------------------------
(* append_leaf: scan the peaks from right to left, merging those of equal  *)
(* size, then bag what is left.  The new nodes are returned, leaf first.   *)

Merge(acc, peak) ==
    LET top == Last(acc.stack)
        v   == acc.view
    IN  IF LeafCount(Resolve(v, peak)) = LeafCount(Resolve(v, top))
        THEN [view     |-> PushStored(v, CombineNodes(v, peak, top)),
              stack    |-> Append(Front(acc.stack), Stored(v.storedCount)),
              appended |-> Append(acc.appended, Stored(v.storedCount))]
        ELSE [acc EXCEPT !.stack = Append(@, peak)]

Appending(data) ==
    LET leaf   == Stored(view.storedCount)
        merged == FoldLeft(Merge,
                    [view |-> PushStored(view, LeafEntry(data)), stack |-> <<leaf>>,
                     appended |-> <<leaf>>],
                    Reverse(PeaksBelow(view, view.root)))
    IN  [view |-> Bag(merged.view, Reverse(merged.stack)), appended |-> merged.appended]

-----------------------------------------------------------------------------
(* The caller.                                                             *)

\* Positions and heights of the peaks of an array of n nodes (prepare_tree).
RECURSIVE PeakPositions(_, _, _)
PeakPositions(first, n, h) ==
    IF n = 0 THEN << >>
    ELSE IF 2^(h+1) - 1 <= n
    THEN <<[pos |-> first + 2^(h+1) - 2, height |-> h]>>
         \o PeakPositions(first + 2^(h+1) - 1, n - (2^(h+1) - 1), h)
    ELSE PeakPositions(first, n, h - 1)

\* Mutant: only the node that is dropped and its sibling are loaded.
NearestPositions(peak) == IF peak.height = 0 THEN {} ELSE {peak.pos - 1, peak.pos - 2^peak.height}
\* Both children of every node on the right slope of the last peak: what
\* the deletion of one leaf needs.
ExtraPositions(peak) ==
    UNION {{peak.pos - d - 2^(peak.height - d), peak.pos - d - 1} : d \in 0..peak.height-1}

\* Tree::new over what the caller has read from its array.
Load(arr) ==
    LET peaks == PeakPositions(0, Len(arr), MaxLeaves)
        inMemory == {peaks[i].pos : i \in DOMAIN peaks} \union ExtraPositions(Last(peaks))
        v == [stored |-> [i \in inMemory |-> EntryRead(arr[i+1])], generated |-> << >>,
              storedCount |-> Len(arr), root |-> Generated(0)]
    IN  Bag(v, [i \in DOMAIN peaks |-> Stored(peaks[i].pos)])

FirstBlock(work) == LeafData(1, work)

Init == \E work \in Works :
    /\ array = <<Written(LeafEntry(FirstBlock(work)))>>
    /\ view = Load(array)
    /\ leaves = <<work>>
    /\ loaded = 1 /\ failed = FALSE

\* A failed view is not used again; a view lasts for a few operations.
Usable == ~failed /\ Len(view.generated) <= MaxGenerated

\* A new block: its nodes are written at the end of the array.  A view that
\* lacks a peak fails, and so does writing a link to a generated node.
AppendLeaf(work) ==
    LET data == LeafData(Len(leaves) + 1, work)
        done == Appending(data)
    IN  /\ Usable /\ Len(leaves) < MaxLeaves
        /\ IF \/ PeaksBelow(view, view.root) = << >>
              \/ \E i \in DOMAIN done.appended :
                    ~Writable(Resolve(done.view, done.appended[i]))
           THEN failed' = TRUE /\ UNCHANGED <<array, view, leaves>>
           ELSE /\ view' = done.view
                /\ array' = array \o [i \in DOMAIN done.appended |->
                                        Written(Resolve(done.view, done.appended[i]))]
                /\ leaves' = Append(leaves, work)
                /\ UNCHANGED failed
        /\ UNCHANGED loaded

\* Drops n nodes from the view and the array and the last block from the chain.
Drop(v, n) == /\ view' = [Pop(v, n) EXCEPT !.root = v.root]
              /\ array' = SubSeq(array, 1, Len(array) - n)
              /\ leaves' = Front(leaves)
              /\ UNCHANGED <<loaded, failed>>

\* truncate_leaf when the last block is a peak of its own.
TruncateOdd ==
    LET root == Resolve(view, view.root)
    IN  /\ Usable /\ InMemory(view, view.root) /\ ~root.leaf
        /\ LeafCount(root) % 2 = 1
        /\ Drop([view EXCEPT !.root = root.left], 1)

\* truncate_leaf when the last peak has to be taken apart.
TruncateEven ==
    LET root  == Resolve(view, view.root)
        slope == RightSlope(view, root.right)
        peaks == <<root.left>> \o slope.lefts
    IN  /\ Usable /\ InMemory(view, view.root) /\ ~root.leaf
        /\ LeafCount(root) % 2 = 0
        /\ ~slope.broken
        /\ Len(peaks) > 1 => \A i \in DOMAIN peaks : InMemory(view, peaks[i])
        /\ Drop(Bag(view, peaks), Len(peaks) + IF Complete(root) THEN 1 ELSE 0)

\* The error returns of truncate_leaf: the only block there is, or a node
\* that was not loaded.
TruncateFails ==
    LET root  == Resolve(view, view.root)
        slope == RightSlope(view, root.right)
        peaks == <<root.left>> \o slope.lefts
    IN  /\ Usable
        /\ \/ ~InMemory(view, view.root)
           \/ (InMemory(view, view.root) /\ root.leaf)
           \/ /\ InMemory(view, view.root) /\ ~root.leaf
              /\ LeafCount(root) % 2 = 0
              /\ \/ slope.broken
                 \/ /\ Len(peaks) > 1
                    /\ \E i \in DOMAIN peaks : ~InMemory(view, peaks[i])
        /\ failed' = TRUE
        /\ UNCHANGED <<array, view, loaded, leaves>>

Reload == /\ view' = Load(array)
          /\ loaded' = Len(leaves) /\ failed' = FALSE
          /\ UNCHANGED <<array, leaves>>

Next == \/ \E work \in Works : AppendLeaf(work)
        \/ TruncateOdd \/ TruncateEven \/ TruncateFails
        \/ Reload

Spec == Init /\ [][Next]_vars

-----------------------------------------------------------------------------
(* Properties.                                                             *)

\* The nodes of a complete subtree of 2^h blocks, the first of them the
\* block after `first`, written from position `base` on.
RECURSIVE Subtree(_, _, _)
Subtree(first, h, base) ==
    IF h = 0 THEN <<LeafEntry(LeafData(first + 1, leaves[first + 1]))>>
    ELSE LET l == Subtree(first, h - 1, base)
             r == Subtree(first + 2^(h-1), h - 1, base + Len(l))
         IN  l \o r \o <<NodeEntry(CombineData(Last(l).data, Last(r).data),
                                   Stored(base + Len(l) - 1), Stored(base + 2 * Len(l) - 1))>>

\* The complete subtrees of the chain, from the largest to the smallest.
RECURSIVE MountainRange(_, _, _)
MountainRange(first, h, base) ==
    IF first = Len(leaves) THEN << >>
    ELSE IF first + 2^h <= Len(leaves)
    THEN LET s == Subtree(first, h, base)
         IN  <<s>> \o MountainRange(first + 2^h, h, base + Len(s))
    ELSE MountainRange(first, h - 1, base)

\* Whatever blocks were appended and dropped, and through whatever views,
\* the array is the mountain range of the blocks that remain.
ArrayIsTheRange ==
    LET ref == FlattenSeq(MountainRange(0, MaxLeaves, 0))
    IN  /\ array = [i \in DOMAIN ref |-> Written(ref[i])]
        /\ view.storedCount = Len(array)

\* The root of the view commits to every block, in the order of the peaks,
\* and sums their work.
RootCommitsToTheChain ==
    LET peaks == MountainRange(0, MaxLeaves, 0)
        datas == [i \in DOMAIN peaks |-> Last(peaks[i]).data]
    IN  /\ InMemory(view, view.root)
        /\ Resolve(view, view.root).data = FoldLeft(CombineData, Head(datas), Tail(datas))

\* A view loaded with the peaks and the nodes below the last of them takes
\* any number of blocks, and one deletion below where it was loaded: an
\* operation only fails beyond that, or at the first block.
LoadedNodesSuffice == failed => Len(leaves) < loaded \/ Len(leaves) = 1
=============================================================================
