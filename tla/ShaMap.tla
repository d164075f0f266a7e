---------------------------------- MODULE ShaMap ----------------------------------
(***************************************************************************)
(* The radix tree over which ledgers are hashed, as it is written twice:   *)
(* in xrpl (utils/hashes/SHAMap) and in ripple-binary-codec (shamap.ts).   *)
(* Items are added one by one, in any order, to one tree of each.          *)
(*                                                                         *)
(* Abstracted: hashes.  A node is hashed over its prefix, its tag and data *)
(* or the hashes of its 16 slots, so two trees have the same hash exactly  *)
(* if they are the same.                                                   *)
(***************************************************************************)
EXTENDS Naturals, FiniteSets

CONSTANTS
  TagLength, \* nibbles of a tag
  Tags,      \* tags of the items, nibble by nibble
  Data,      \* what may be stored under a tag
  MaxAdds    \* bound: calls of addItem

Nibbles == 0..15

ASSUME ShaMapAssumption ==
  /\ TagLength \in Nat \ {0} /\ Tags \subseteq [1..TagLength -> Nibbles]
  /\ MaxAdds \in Nat

VARIABLES
  root,    \* the tree of xrpl
  codec,   \* the tree of ripple-binary-codec
  items,   \* the items that were added
  adds,
  collided \* the last addItem threw

shaVars == <<root, codec, items, adds, collided>>

Empty == [kind |-> "empty"]
Leaf(tag, data) == [kind |-> "leaf", tag |-> tag, data |-> data]
Leaves == [kind : {"leaf"}, tag : Tags, data : Data]
Inner(depth, leaves) == [kind |-> "inner", depth |-> depth, leaves |-> leaves]
NewInner(depth) == Inner(depth, [slot \in Nibbles |-> Empty])

\* Inner nodes, by the nibbles that are left of a tag at their depth.
InnerNodes[left \in 0..TagLength] ==
  IF left = 0 THEN {}
  ELSE [kind : {"inner"}, depth : {TagLength - left},
        leaves : [Nibbles -> {Empty} \cup Leaves \cup InnerNodes[left - 1]]]

ShaInit ==
  /\ root = NewInner(0) /\ codec = NewInner(0)
  /\ items = {} /\ adds = 0 /\ collided = FALSE

Slot(node, tag) == tag[node.depth + 1]

SetNode(node, slot, child) == Inner(node.depth, [node.leaves EXCEPT ![slot] = child])

\* The leaf that addItem would collide with.
Colliding[left \in 0..TagLength] ==
  [node \in InnerNodes[left] |-> [tag \in Tags |->
     LET existing == node.leaves[Slot(node, tag)]
     IN \/ existing.kind = "leaf" /\ existing.tag = tag
        \/ existing.kind = "inner" /\ Colliding[left - 1][existing][tag]]]

Collides(node, tag) == Colliding[TagLength - node.depth][node][tag]

\* Mutant: the leaf that is in the way is not carried down.
Adding_Displaces[left \in 0..TagLength] ==
  [node \in InnerNodes[left] |-> [leaf \in Leaves |->
     LET slot == Slot(node, leaf.tag)
         existing == node.leaves[slot]
     IN SetNode(node, slot,
          IF existing.kind = "empty" THEN leaf
          ELSE Adding_Displaces[left - 1]
                 [IF existing.kind = "inner" THEN existing ELSE NewInner(node.depth + 1)][leaf])]]

AddItem_Displaces(node, leaf) == Adding_Displaces[TagLength - node.depth][node][leaf]

\* InnerNode.addItem: a leaf in the way goes down with the new one.
Adding[left \in 0..TagLength] ==
  [node \in InnerNodes[left] |-> [leaf \in Leaves |->
     LET slot == Slot(node, leaf.tag)
         existing == node.leaves[slot]
     IN SetNode(node, slot,
          IF existing.kind = "empty" THEN leaf
          ELSE IF existing.kind = "inner" THEN Adding[left - 1][existing][leaf]
          ELSE Adding[left - 1][Adding[left - 1][NewInner(node.depth + 1)][existing]][leaf])]]

AddItem(node, leaf) == Adding[TagLength - node.depth][node][leaf]

\* ShaMapInner.addItem: the same, but a leaf of the same index is not noticed (it
\* is pushed down without end, so nothing is added twice here).
Branching[left \in 0..TagLength] ==
  [node \in InnerNodes[left] |-> [leaf \in Leaves |->
     LET nibble == Slot(node, leaf.tag)
         existing == node.leaves[nibble]
         newInner == Branching[left - 1][NewInner(node.depth + 1)][existing]
     IN SetNode(node, nibble,
          IF existing.kind = "empty" THEN leaf
          ELSE IF existing.kind = "leaf" THEN Branching[left - 1][newInner][leaf]
          ELSE Branching[left - 1][existing][leaf])]]

AddBranch(node, leaf) == Branching[TagLength - node.depth][node][leaf]

-----------------------------------------------------------------------------

\* hashTxTree and hashStateTree add what the ledger has, whatever its order.
ShaMapAdd(leaf) ==
  /\ adds < MaxAdds
  /\ adds' = adds + 1
  /\ collided' = Collides(root, leaf.tag)
  /\ IF Collides(root, leaf.tag)
     THEN UNCHANGED <<root, codec, items>>
     ELSE /\ root' = AddItem(root, leaf)
          /\ codec' = AddBranch(codec, leaf)
          /\ items' = items \cup {leaf}

ShaNext == \E tag \in Tags, data \in Data : ShaMapAdd(Leaf(tag, data))

ShaSpec == ShaInit /\ [][ShaNext]_shaVars

-----------------------------------------------------------------------------

\* The tree that a set of leaves has, by definition: a slot holds nothing, the one
\* leaf whose tag goes that way, or the tree of several.
Trees[left \in 0..TagLength] ==
  IF left = 0 THEN <<>>
  ELSE [S \in SUBSET Leaves |->
          Inner(TagLength - left, [slot \in Nibbles |->
            LET there == {leaf \in S : leaf.tag[TagLength - left + 1] = slot}
            IN IF there = {} THEN Empty
               ELSE IF \E leaf \in there : there = {leaf} THEN CHOOSE leaf \in there : TRUE
               ELSE Trees[left - 1][there]])]

TreeOf(S) == Trees[TagLength][S]

\* The hash depends on what was added and on nothing else: not on the order, nor
\* on an item that was refused because its tag was there already.
OrderDoesNotMatter == root = TreeOf(items)

\* The two implementations agree.
TreesAgree == codec = root

\* An item is refused exactly if its tag is in the tree, however deep.
CollisionsAreFound ==
  \A tag \in Tags : Collides(root, tag) <=> \E leaf \in items : leaf.tag = tag

\* Whatever the order of insertion, both implementations have the one tree of the
\* items, which no item that is refused disturbs.
TreesAreCanonical == OrderDoesNotMatter /\ TreesAgree /\ CollisionsAreFound

=============================================================================
