-------------------------------- MODULE LocHeap --------------------------------
(***************************************************************************)
(* The heap of timers: LocHeap (gps/utils/LocHeap.cpp), a binary tree that *)
(* is sorted vertically only, over data that rank by their time.           *)
(*                                                                         *)
(* A tree is Nil or a node with its data, its size and two subtrees.       *)
(***************************************************************************)
EXTENDS Integers

CONSTANT NULL

Nil == [mSize |-> 0]
Leaf(data) == [mData |-> data, mSize |-> 1, mLeft |-> Nil, mRight |-> Nil]

\* The earlier time ranks higher.
outRanks(a, b) == a.mFutureTime < b.mFutureTime

\* The data that ranks lower goes to the smaller subtree, the left one first.
RECURSIVE push(_, _)
push(top, data) ==
    LET swaps == outRanks(data, top.mData)
        high == IF swaps THEN data ELSE top.mData
        low == IF swaps THEN top.mData ELSE data
        left == top.mLeft = Nil \/ (top.mRight # Nil /\ top.mLeft.mSize <= top.mRight.mSize)
    IN  IF top = Nil THEN Leaf(data)
        ELSE IF left
        THEN [top EXCEPT !.mData = high, !.mLeft = push(@, low), !.mSize = @ + 1]
        ELSE [top EXCEPT !.mData = high, !.mRight = push(@, low), !.mSize = @ + 1]

peek(tree) == IF tree = Nil THEN NULL ELSE tree.mData

\* The tree without its top: the higher ranked of the subtrees' tops takes its
\* place, and so on down to a leaf.
RECURSIVE pop(_)
pop(top) ==
    LET left == \/ top.mRight = Nil
                \/ top.mLeft # Nil /\ outRanks(top.mLeft.mData, top.mRight.mData)
    IN  IF top.mLeft = Nil /\ top.mRight = Nil THEN Nil
        ELSE IF left
        THEN [top EXCEPT !.mData = top.mLeft.mData, !.mLeft = pop(@), !.mSize = @ - 1]
        ELSE [top EXCEPT !.mData = top.mRight.mData, !.mRight = pop(@), !.mSize = @ - 1]

RECURSIVE Data(_)
Data(tree) == IF tree = Nil THEN {} ELSE {tree.mData} \cup Data(tree.mLeft) \cup Data(tree.mRight)

\* Mutant: data of the same rank as the top is taken to be above it.
RECURSIVE removeOutRanked(_, _)
removeOutRanked(top, data) ==
    IF top = Nil THEN Nil
    ELSE IF top.mData = data THEN pop(top)
    ELSE IF ~outRanks(top.mData, data) THEN top
    ELSE LET left == removeOutRanked(top.mLeft, data)
             right == IF left = top.mLeft THEN removeOutRanked(top.mRight, data) ELSE top.mRight
         IN  [top EXCEPT !.mLeft = left, !.mRight = right,
                         !.mSize = 1 + left.mSize + right.mSize]

\* The tree without the node of the data, which is looked for on the left first,
\* and not below what it outranks; the tree itself if it is not found.
RECURSIVE remove(_, _)
remove(top, data) ==
    IF top = Nil THEN Nil
    ELSE IF top.mData = data THEN pop(top)
    ELSE IF outRanks(data, top.mData) THEN top
    ELSE LET left == remove(top.mLeft, data)
             right == IF left = top.mLeft THEN remove(top.mRight, data) ELSE top.mRight
             found == left # top.mLeft \/ right # top.mRight
         IN  [top EXCEPT !.mLeft = left, !.mRight = right,
                         !.mSize = IF found THEN @ - 1 ELSE @]

\* checkNodes: the sizes are right and no node outranks the one above it.
RECURSIVE checkNodes(_)
checkNodes(tree) ==
    tree = Nil
    \/ /\ tree.mSize = 1 + tree.mLeft.mSize + tree.mRight.mSize
       /\ \A sub \in {tree.mLeft, tree.mRight} \ {Nil} :
            ~outRanks(sub.mData, tree.mData) /\ checkNodes(sub)
=============================================================================
