--------------------------- MODULE UndoTree_proofs ---------------------------
(* Proofs about UndoTree, for every history size, nesting and retention: the *)
(* tree of transactions is never broken, the text of every node is the one   *)
(* it had, the arenas hold the slices of the live nodes apart, the save      *)
(* point is honest and an abort brings everything back, provided every       *)
(* transaction that ends has an edit in it (without that proviso the tree is *)
(* broken: run undo_reroot).                                                 *)
(*                                                                           *)
(* ChainInv is about the tree alone and is kept on its own; UndoRest, which  *)
(* needs it, is about the texts, the arenas and the open transaction.        *)
EXTENDS UndoTree, WellFoundedInduction, SequenceTheorems, TLAPS

-----------------------------------------------------------------------------
(* The invariant.  Its parts speak of a map nd from ids to nodes, so that    *)
(* they can be asked of the nodes a step leaves.                             *)

Alive(nd) == {n \in Ids : nd[n].live}

IsNode(q) ==
  /\ q = [live |-> q.live, parent |-> q.parent, kids |-> q.kids,
          redo |-> q.redo, depth |-> q.depth, reason |-> q.reason,
          ops_at |-> q.ops_at, n_ops |-> q.n_ops, blob_lo |-> q.blob_lo,
          blob_hi |-> q.blob_hi]
  /\ q.live \in BOOLEAN /\ q.depth \in Int

Shape(nd) == nd = [n \in Ids |-> nd[n]] /\ \A n \in Ids : IsNode(nd[n])

(* Parents lead to the root, and the root has the least depth.               *)
Rooted(nd, r) ==
  /\ r \in Alive(nd) /\ nd[r].parent = 0
  /\ \A n \in Alive(nd) \ {r} :
       /\ nd[n].parent \in Alive(nd) /\ nd[n].parent < n
       /\ nd[n].depth = nd[nd[n].parent].depth + 1
       /\ nd[n].depth > nd[r].depth

Children(nd) ==
  \A n \in Alive(nd) : /\ nd[n].kids = {k \in Alive(nd) : nd[k].parent = n}
                       /\ nd[n].redo \in nd[n].kids \cup {0}

Tree(nd, r) == Shape(nd) /\ Rooted(nd, r) /\ Children(nd)

(* No id above len is in use; the root has no operations.                    *)
Counted == /\ len \in Ids /\ \A n \in Alive(node) : n <= len
           /\ {cur, saved} \subseteq Alive(node) /\ node[root].n_ops = 0

(* The open node is the current one and a leaf; unless it was reopened, it   *)
(* is the last one made and not the saved one.                               *)
Transaction ==
  /\ nest \in Nat /\ (nest = 0 => open = 0) /\ (kept.on => open # 0)
  /\ open # 0 => /\ open = cur /\ open # root /\ node[open].kids = {}
                 /\ ~kept.on => open = len /\ open # saved
  /\ pc = "abort" => open # 0
  /\ pc \notin {"idle", "abort"} => nest = 0

(* Each node on the path hangs from the next one, the last from where the    *)
(* climb of the target has come to.                                          *)
Hangs(nd, r, p, from) ==
  /\ p \in Seq(Ids)
  /\ \A k \in 1 .. Len(p) :
       /\ p[k] \in Alive(nd) \ {r}
       /\ nd[p[k]].parent = IF k = Len(p) THEN from ELSE p[k + 1]

Journey ==
  /\ walk = [t |-> walk.t, path |-> walk.path, i |-> walk.i, ret |-> walk.ret]
  /\ pc \in {"idle", "abort", "travel", "back", "forth", "trim"}
  /\ walk.ret \in {"idle", "travel"} /\ (pc = "travel" => walk.ret = "travel")
  /\ pc \in {"back", "trim"} => cur # root
  /\ pc \in {"travel", "back"} /\ walk.ret = "travel" =>
       walk.t \in Alive(node) /\ Hangs(node, root, walk.path, walk.t)
  /\ pc = "forth" => walk.path # <<>> /\ Hangs(node, root, walk.path, cur)

ChainInv == Tree(node, root) /\ Counted /\ Transaction /\ Journey

-----------------------------------------------------------------------------
(* A set of ids that is not empty has a least member: what first_child is    *)
(* after an unlink, and the branch that trimming takes first.                *)
LEMMA LeastExists ==
  ASSUME NEW S \in SUBSET Nat, S # {}
  PROVE  LeastOf(S) \in S /\ \A k \in S : LeastOf(S) <= k
<1> DEFINE R == {ss \in Nat \X Nat : ss[1] < ss[2]}
<1>1. IsWellFoundedOn(R, Nat)
  BY NatLessThanWellFounded, Zenon DEF OpToRel
<1>2. PICK x \in S : \A y \in S : <<y, x>> \notin R
  <2> HIDE DEF R
  <2> QED BY <1>1, WFMin
<1>3. \A y \in S : x <= y
  <2> TAKE y \in S
  <2>1. x \in Nat /\ y \in Nat
    OBVIOUS
  <2>2. <<y, x>> \in Nat \X Nat /\ <<y, x>> \notin R
    BY <1>2, <2>1
  <2>3. ~(<<y, x>>[1] < <<y, x>>[2])
    BY <2>2, Zenon
  <2> HIDE DEF R
  <2> QED BY <2>1, <2>3
<1> QED BY <1>3, Zenon DEF LeastOf

(* A step that changes neither who is alive nor who hangs from whom.         *)
Restyled(nd, md) ==
  /\ Shape(md)
  /\ \A n \in Ids : /\ md[n].live = nd[n].live /\ md[n].parent = nd[n].parent
                    /\ md[n].kids = nd[n].kids
                    /\ md[n].redo \in nd[n].kids \cup {nd[n].redo}
  /\ \E c \in Int : \A n \in Alive(nd) : md[n].depth = nd[n].depth - c

(* Nor how many operations a node has.                                       *)
SameOps(nd, md) == \A n \in Ids : md[n].n_ops = nd[n].n_ops

(* Such a step leaves a tree, of the same nodes.                             *)
LEMMA RestyledTree ==
  ASSUME NEW nd, NEW md, NEW r, Tree(nd, r), Restyled(nd, md)
  PROVE  Tree(md, r) /\ Alive(md) = Alive(nd)
<1>1. Alive(md) = Alive(nd)
  BY DEF Restyled, Alive
<1>2. \A n \in Alive(nd) : n \in Ids /\ nd[n].depth \in Int
  BY DEF Tree, Shape, IsNode, Alive
<1>3. Rooted(md, r)
  <2>1. PICK c \in Int : \A n \in Alive(nd) : md[n].depth = nd[n].depth - c
    BY DEF Restyled
  <2>2. r \in Alive(nd) /\ md[r].parent = 0
    BY <1>2 DEF Tree, Rooted, Restyled
  <2>3. ASSUME NEW n \in Alive(nd) \ {r}
        PROVE  /\ md[n].parent = nd[n].parent /\ nd[n].parent \in Alive(nd)
               /\ nd[n].parent < n
               /\ nd[n].depth = nd[nd[n].parent].depth + 1
               /\ nd[n].depth > nd[r].depth
    BY <1>2 DEF Tree, Rooted, Restyled
  <2>4. ASSUME NEW n \in Alive(nd) \ {r}
        PROVE  /\ md[n].depth = md[md[n].parent].depth + 1
               /\ md[n].depth > md[r].depth
    BY <1>2, <2>1, <2>2, <2>3
  <2> QED BY <1>1, <2>2, <2>3, <2>4 DEF Rooted
<1>4. Children(md)
  BY <1>1, <1>2 DEF Tree, Children, Restyled
<1> QED BY <1>1, <1>3, <1>4 DEF Tree, Restyled

(* Pointing redo at a child is such a step: yew_undo, yew_redo and           *)
(* yew_undo_branch_cycle do no more to the tree.                             *)
LEMMA SetRedo ==
  ASSUME NEW nd, NEW md, NEW n \in Ids, NEW k \in nd[n].kids,
         Shape(nd), md = [j \in Ids |-> md[j]],
         \A j \in Ids \ {n} : md[j] = nd[j], md[n] = [nd[n] EXCEPT !.redo = k]
  PROVE  Restyled(nd, md) /\ SameOps(nd, md)
<1>1. \A j \in Ids \ {n} : md[j] = nd[j]
  OBVIOUS
<1>2. md[n] = [nd[n] EXCEPT !.redo = k]
  OBVIOUS
<1>3. md[n] = [live |-> nd[n].live, parent |-> nd[n].parent,
                   kids |-> nd[n].kids, redo |-> k,
                   depth |-> nd[n].depth, reason |-> nd[n].reason,
                   ops_at |-> nd[n].ops_at, n_ops |-> nd[n].n_ops,
                   blob_lo |-> nd[n].blob_lo, blob_hi |-> nd[n].blob_hi]
  BY <1>2 DEF Shape, IsNode
<1>4. md = [j \in Ids |-> md[j]]
  OBVIOUS
<1>5. Shape(md)
  BY <1>1, <1>3, <1>4 DEF Shape, IsNode
<1>6. 0 \in Int /\ \A j \in Alive(nd) : md[j].depth = nd[j].depth - 0
  BY <1>1, <1>3 DEF Shape, IsNode, Alive
<1>7. \A j \in Ids : /\ md[j].live = nd[j].live /\ md[j].parent = nd[j].parent
                    /\ md[j].kids = nd[j].kids
                    /\ md[j].redo \in nd[j].kids \cup {nd[j].redo}
  BY <1>1, <1>3
<1>8. Restyled(nd, md)
  BY <1>5, <1>6, <1>7 DEF Restyled
<1>9. \A j \in Ids : md[j].n_ops = nd[j].n_ops
  BY <1>1, <1>3
<1> QED BY <1>8, <1>9 DEF SameOps

(* Only node n may differ.                                                   *)
SameElse(nd, md, n) == \A j \in Ids \ {n} : md[j] = nd[j]

(* So is a change of how many operations and deleted bytes a node owns:      *)
(* recording into it, and the abort of a reopened one.                       *)
LEMMA SetTail ==
  ASSUME NEW nd, NEW md, NEW n \in Ids, NEW a, NEW b, Shape(nd),
         md = [nd EXCEPT ![n].n_ops = a, ![n].blob_hi = b]
  PROVE  Restyled(nd, md) /\ SameElse(nd, md, n)
<1> DEFINE q == [nd EXCEPT ![n].n_ops = a, ![n].blob_hi = b]
<1>1. \A j \in Ids \ {n} : q[j] = nd[j]
  BY DEF Shape, IsNode
<1>2. q[n] = [live |-> nd[n].live, parent |-> nd[n].parent,
                   kids |-> nd[n].kids, redo |-> nd[n].redo,
                   depth |-> nd[n].depth, reason |-> nd[n].reason,
                   ops_at |-> nd[n].ops_at, n_ops |-> a,
                   blob_lo |-> nd[n].blob_lo, blob_hi |-> b]
  <2> DEFINE m == [nd EXCEPT ![n].n_ops = a]
  <2>1. m[n] = [nd[n] EXCEPT !.n_ops = a] /\ m = [j \in Ids |-> m[j]]
    BY DEF Shape, IsNode
  <2>2. m[n] = [live |-> nd[n].live, parent |-> nd[n].parent,
                     kids |-> nd[n].kids, redo |-> nd[n].redo,
                     depth |-> nd[n].depth, reason |-> nd[n].reason,
                     ops_at |-> nd[n].ops_at, n_ops |-> a,
                     blob_lo |-> nd[n].blob_lo, blob_hi |-> nd[n].blob_hi]
    BY <2>1 DEF Shape, IsNode
  <2>3. q = [m EXCEPT ![n].blob_hi = b]
    OBVIOUS
  <2> HIDE DEF m, q
  <2> QED BY <2>1, <2>2, <2>3
<1>3. q = [j \in Ids |-> q[j]]
  BY DEF Shape, IsNode
<1>4. md = q
  OBVIOUS
<1> HIDE DEF q
<1>5. Shape(q)
  BY <1>1, <1>2, <1>3 DEF Shape, IsNode
<1>6. 0 \in Int /\ \A j \in Alive(nd) : q[j].depth = nd[j].depth - 0
  BY <1>1, <1>2 DEF Shape, IsNode, Alive
<1>7. \A j \in Ids : /\ q[j].live = nd[j].live /\ q[j].parent = nd[j].parent
                    /\ q[j].kids = nd[j].kids
                    /\ q[j].redo \in nd[j].kids \cup {nd[j].redo}
  BY <1>1, <1>2
<1>8. Restyled(nd, q)
  BY <1>5, <1>6, <1>7 DEF Restyled
<1> QED BY <1>1, <1>8, <1>4 DEF SameElse

(* open_node hangs a leaf, with the next id, from the current node.          *)
LEMMA LinkedTree ==
  ASSUME Tree(node, root), Counted, len + 1 \in Ids, NEW op
  PROVE  /\ Tree(Linked(op), root)
         /\ Alive(Linked(op)) = Alive(node) \cup {len + 1}
         /\ len + 1 \notin Alive(node) /\ Linked(op)[len + 1].kids = {}
         /\ Linked(op)[root].n_ops = 0
<1> DEFINE new == len + 1
           md == Linked(op)
<1>1. /\ new \in Ids /\ new \notin Alive(node) /\ cur \in Alive(node)
      /\ cur \in Ids /\ cur < new /\ cur # new /\ root # new
      /\ \A j \in Alive(node) : j \in Ids /\ node[j].depth \in Int
  BY DEF Counted, Alive, Tree, Rooted, Shape, IsNode, Ids
<1>2. \A j \in Ids \ {new, cur} : md[j] = node[j]
  BY DEF Linked, Tree, Shape, IsNode
<1>3. md[new] = NewNode(op)
  BY <1>1 DEF Linked, Tree, Shape, IsNode
<1>4. md[cur] = [live |-> node[cur].live, parent |-> node[cur].parent,
                 kids |-> node[cur].kids \cup {new}, redo |-> new,
                 depth |-> node[cur].depth, reason |-> node[cur].reason,
                 ops_at |-> node[cur].ops_at, n_ops |-> node[cur].n_ops,
                 blob_lo |-> node[cur].blob_lo, blob_hi |-> node[cur].blob_hi]
  <2>1. node = [j \in Ids |-> node[j]]
    BY DEF Tree, Shape, IsNode
  <2>2. md = [[[node EXCEPT ![new] = NewNode(op)]
                EXCEPT ![cur].kids = node[cur].kids \cup {new}]
                EXCEPT ![cur].redo = new]
    BY <1>1, <2>1 DEF Linked
  <2>3. node[cur] = [live |-> node[cur].live, parent |-> node[cur].parent,
                     kids |-> node[cur].kids, redo |-> node[cur].redo,
                     depth |-> node[cur].depth, reason |-> node[cur].reason,
                     ops_at |-> node[cur].ops_at, n_ops |-> node[cur].n_ops,
                     blob_lo |-> node[cur].blob_lo,
                     blob_hi |-> node[cur].blob_hi]
    BY <1>1 DEF Tree, Shape, IsNode
  <2> HIDE DEF md
  <2> QED BY <1>1, <2>1, <2>2, <2>3
<1>5. NewNode(op) = [live |-> TRUE, parent |-> cur, kids |-> {}, redo |-> 0,
                     depth |-> node[cur].depth + 1, reason |-> EditReason(op),
                     ops_at |-> Len(ops), n_ops |-> 0,
                     blob_lo |-> Len(blobs), blob_hi |-> Len(blobs)]
  BY DEF NewNode
<1>6. md = [j \in Ids |-> md[j]]
  BY DEF Linked, Tree, Shape, IsNode
<1> HIDE DEF md, new
<1>7. Shape(md)
  <2>1. \A j \in Ids \ {new, cur} : IsNode(md[j])
    BY <1>2 DEF Tree, Shape, IsNode
  <2>2. IsNode(md[new])
    BY <1>1, <1>3, <1>5 DEF IsNode
  <2>3. IsNode(md[cur])
    <3>1. node[cur].live \in BOOLEAN
      BY <1>1 DEF Tree, Shape, IsNode
    <3> QED BY <1>1, <1>4, <3>1 DEF IsNode
  <2> QED BY <1>6, <2>1, <2>2, <2>3 DEF Shape, IsNode
<1>8. Alive(md) = Alive(node) \cup {new}
  BY <1>1, <1>2, <1>3, <1>4, <1>5 DEF Alive
<1>9. Rooted(md, root)
  <2>1. root \in Alive(md) /\ md[root].parent = 0
    BY <1>1, <1>2, <1>4, <1>8 DEF Tree, Rooted
  <2>2. \A j \in Alive(node) : /\ md[j].parent = node[j].parent
                               /\ md[j].depth = node[j].depth
    BY <1>1, <1>2, <1>4
  <2>3. \A j \in Alive(node) \ {root} :
          /\ md[j].parent \in Alive(md) /\ md[j].parent < j
          /\ md[j].depth = md[md[j].parent].depth + 1
          /\ md[j].depth > md[root].depth
    BY <1>8, <2>2 DEF Tree, Rooted
  <2>4. /\ md[new].parent \in Alive(md) /\ md[new].parent < new
        /\ md[new].depth = md[md[new].parent].depth + 1
        /\ md[new].depth > md[root].depth
    BY <1>1, <1>3, <1>4, <1>5, <1>8, <2>2 DEF Tree, Rooted
  <2> QED BY <1>8, <2>1, <2>3, <2>4 DEF Rooted
<1>10. Children(md)
  <2>1. \A j \in Alive(node) : node[j].parent # new
    BY <1>1 DEF Tree, Rooted, Alive, Ids
  <2>2. \A j \in Alive(node) \ {cur} :
          /\ md[j].kids = {k \in Alive(md) : md[k].parent = j}
          /\ md[j].redo \in md[j].kids \cup {0}
    BY <1>1, <1>2, <1>3, <1>4, <1>5, <1>8 DEF Tree, Children
  <2>3. /\ md[cur].kids = {k \in Alive(md) : md[k].parent = cur}
        /\ md[cur].redo \in md[cur].kids \cup {0}
    BY <1>1, <1>2, <1>3, <1>4, <1>5, <1>8 DEF Tree, Children
  <2>4. /\ md[new].kids = {k \in Alive(md) : md[k].parent = new}
        /\ md[new].redo \in md[new].kids \cup {0}
    BY <1>1, <1>2, <1>3, <1>4, <1>5, <1>8, <2>1
  <2> QED BY <1>8, <2>2, <2>3, <2>4 DEF Children
<1>11. md[root].n_ops = 0
  BY <1>1, <1>2, <1>4 DEF Counted, Tree, Rooted, Alive
<1> QED BY <1>1, <1>3, <1>5, <1>7, <1>8, <1>9, <1>10, <1>11
        DEF Tree, md, new

-----------------------------------------------------------------------------
(* Ancestors.                                                                *)

(* is_ancestor finds the root above every live node.                         *)
LEMMA RootAbove ==
  ASSUME Tree(node, root), NEW n \in Alive(node)
  PROVE  IsAncestor(root, n)
<1> SUFFICES ASSUME NEW S \in SUBSET Ids, n \in S,
                    \A k \in S : node[k].parent \in S \cup {0},
                    root \notin S
             PROVE  FALSE
  BY DEF IsAncestor
<1> DEFINE A == S \cap Alive(node)
           least == LeastOf(A)
<1>1. A \in SUBSET Nat /\ A # {}
  BY DEF Ids, Alive
<1>2. least \in A /\ \A k \in A : least <= k
  BY <1>1, LeastExists
<1> HIDE DEF least
<1>3. least \in Alive(node) \ {root} /\ least \in Nat
  BY <1>1, <1>2
<1>4. /\ node[least].parent \in Alive(node) /\ node[least].parent < least
      /\ node[least].parent \in S \cup {0}
  BY <1>2, <1>3 DEF Tree, Rooted
<1>5. node[least].parent \in A /\ node[least].parent \in Nat
  BY <1>1, <1>4 DEF Alive, Ids
<1> QED BY <1>2, <1>3, <1>4, <1>5

(* A node counts as its own ancestor.                                        *)
LEMMA Oneself == ASSUME NEW n \in Ids PROVE IsAncestor(n, n)
BY DEF IsAncestor

(* Nothing else is above the root.                                           *)
LEMMA OnlyRootAboveRoot ==
  ASSUME Tree(node, root), NEW a, IsAncestor(a, root) PROVE a = root
<1>1. root \in Ids /\ node[root].parent = 0
  BY DEF Tree, Rooted, Alive
<1>2. {root} \in SUBSET Ids /\ root \in {root}
      /\ \A k \in {root} : node[k].parent \in {root} \cup {0}
  BY <1>1
<1> QED BY <1>2 DEF IsAncestor

(* Every ancestor of a node, but the node itself, is one of its parent.      *)
LEMMA AboveParent ==
  ASSUME Tree(node, root), NEW n \in Alive(node), NEW a, a # n,
         IsAncestor(a, n)
  PROVE  n # root /\ IsAncestor(a, node[n].parent)
<1>1. n # root
  BY OnlyRootAboveRoot
<1>2. node[n].parent \in Alive(node) /\ n \in Ids
  BY <1>1 DEF Tree, Rooted, Alive
<1>3. ASSUME NEW S \in SUBSET Ids, node[n].parent \in S,
             \A k \in S : node[k].parent \in S \cup {0}
      PROVE  a \in S
  <2>1. S \cup {n} \in SUBSET Ids /\ n \in S \cup {n}
        /\ \A k \in S \cup {n} : node[k].parent \in (S \cup {n}) \cup {0}
    BY <1>2, <1>3
  <2>2. a \in S \cup {n}
    BY <2>1, <1>2 DEF IsAncestor
  <2> QED BY <2>2
<1> QED BY <1>1, <1>3 DEF IsAncestor

(* An ancestor of the parent is one of the node.                             *)
LEMMA BelowParent ==
  ASSUME Tree(node, root), NEW n \in Alive(node), NEW a, n # root,
         IsAncestor(a, node[n].parent)
  PROVE  IsAncestor(a, n)
<1>1. node[n].parent \in Ids /\ 0 \notin Ids
  BY DEF Tree, Rooted, Alive, Ids
<1> SUFFICES ASSUME NEW S \in SUBSET Ids, n \in S,
                    \A k \in S : node[k].parent \in S \cup {0}
             PROVE  a \in S
  BY DEF IsAncestor
<1>2. node[n].parent \in S
  BY <1>1
<1> QED BY <1>2 DEF IsAncestor

(* Ancestors of a live node are live and have smaller ids, so that           *)
(* tombstone_subtree and is_ancestor stop.                                   *)
LEMMA AncestorsOlder ==
  ASSUME Tree(node, root), NEW n \in Alive(node), NEW a, IsAncestor(a, n)
  PROVE  a <= n /\ a \in Alive(node)
<1> DEFINE S == {k \in Alive(node) : k <= n}
<1>1. S \in SUBSET Ids /\ n \in S
  BY DEF Alive, Ids
<1>2. ASSUME NEW k \in S PROVE node[k].parent \in S \cup {0}
  <2>1. k \in Alive(node) /\ k <= n /\ k \in Int /\ n \in Int
    BY DEF Alive, Ids
  <2>2. CASE k = root
    BY <2>2 DEF Tree, Rooted
  <2>3. CASE k # root
    <3>1. /\ node[k].parent \in Alive(node) /\ node[k].parent < k
          /\ node[k].parent \in Int
      BY <2>1, <2>3 DEF Tree, Rooted, Alive, Ids
    <3> QED BY <2>1, <3>1
  <2> QED BY <2>2, <2>3
<1>3. a \in S
  <2> HIDE DEF S
  <2> QED BY <1>1, <1>2 DEF IsAncestor
<1> QED BY <1>3

-----------------------------------------------------------------------------
(* Cutting a branch off.                                                     *)

(* Live, which looks at the first len ids, misses no live node.              *)
LEMMA LiveIsAlive == Counted => Live = Alive(node)
<1> SUFFICES ASSUME Counted PROVE Live = Alive(node)
  OBVIOUS
<1>1. len \in Ids /\ MaxNodes \in Nat
  BY UndoAssumption DEF Counted, UndoAssumption
<1>2. 1 .. len \subseteq Ids
  BY <1>1 DEF Ids
<1>3. \A n \in Alive(node) : n \in 1 .. len
  BY <1>1 DEF Counted, Alive, Ids
<1> QED BY <1>2, <1>3 DEF Live, Alive

(* unlink_child touches the parent only: one child less, and redo at a child *)
(* that stays or at none.                                                    *)
LEMMA UnlinkedNodes ==
  ASSUME Tree(node, root), NEW r \in Alive(node) \ {root}
  PROVE  LET p == node[r].parent
             md == Unlinked(node, r)
         IN /\ md = [n \in Ids |-> md[n]] /\ p \in Alive(node)
            /\ \A n \in Ids \ {p} : md[n] = node[n]
            /\ md[p] = [live |-> TRUE, parent |-> node[p].parent,
                  kids |-> node[p].kids \ {r}, redo |-> md[p].redo,
                  depth |-> node[p].depth, reason |-> node[p].reason,
                  ops_at |-> node[p].ops_at, n_ops |-> node[p].n_ops,
                  blob_lo |-> node[p].blob_lo, blob_hi |-> node[p].blob_hi]
            /\ md[p].redo \in (node[p].kids \ {r}) \cup {0}
<1> DEFINE p == node[r].parent
           rest == node[p].kids \ {r}
           next == IF node[p].redo = r THEN FirstOf(rest) ELSE node[p].redo
           m == [node EXCEPT ![p].kids = rest]
           md == Unlinked(node, r)
<1>1. p \in Alive(node) /\ p \in Ids /\ node[p].live = TRUE
      /\ node = [n \in Ids |-> node[n]]
  BY DEF Tree, Rooted, Alive, Shape, IsNode
<1>2. node[p] = [live |-> node[p].live, parent |-> node[p].parent,
                 kids |-> node[p].kids, redo |-> node[p].redo,
                 depth |-> node[p].depth, reason |-> node[p].reason,
                 ops_at |-> node[p].ops_at, n_ops |-> node[p].n_ops,
                 blob_lo |-> node[p].blob_lo, blob_hi |-> node[p].blob_hi]
  BY <1>1 DEF Tree, Shape, IsNode
<1>3. next \in rest \cup {0}
  <2>0. /\ node[p].kids = {k \in Alive(node) : node[k].parent = p}
        /\ node[p].redo \in node[p].kids \cup {0}
    BY <1>1 DEF Tree, Children
  <2>1. rest \in SUBSET Nat /\ node[p].redo \in node[p].kids \cup {0}
    BY <2>0 DEF Alive, Ids
  <2>2. rest # {} => FirstOf(rest) \in rest
    BY <2>1, LeastExists DEF FirstOf
  <2> QED BY <2>1, <2>2 DEF FirstOf
<1>4. md = [m EXCEPT ![p].redo = IF m[p].redo = r THEN FirstOf(rest)
                                 ELSE m[p].redo]
  BY DEF Unlinked
<1>5. m = [n \in Ids |-> m[n]] /\ m[p] = [node[p] EXCEPT !.kids = rest]
      /\ \A n \in Ids \ {p} : m[n] = node[n]
  BY <1>1
<1> HIDE DEF rest, m, md
<1>6. m[p] = [live |-> node[p].live, parent |-> node[p].parent,
              kids |-> rest, redo |-> node[p].redo,
              depth |-> node[p].depth, reason |-> node[p].reason,
              ops_at |-> node[p].ops_at, n_ops |-> node[p].n_ops,
              blob_lo |-> node[p].blob_lo, blob_hi |-> node[p].blob_hi]
  BY <1>2, <1>5
<1>7. md = [m EXCEPT ![p].redo = next]
  BY <1>4, <1>6
<1> HIDE DEF next, p
<1>8. md = [n \in Ids |-> md[n]] /\ md[p] = [m[p] EXCEPT !.redo = next]
      /\ \A n \in Ids \ {p} : md[n] = node[n]
  BY <1>1, <1>5, <1>7
<1>9. md[p] = [live |-> node[p].live, parent |-> node[p].parent,
               kids |-> rest, redo |-> next,
               depth |-> node[p].depth, reason |-> node[p].reason,
               ops_at |-> node[p].ops_at, n_ops |-> node[p].n_ops,
               blob_lo |-> node[p].blob_lo, blob_hi |-> node[p].blob_hi]
  BY <1>6, <1>8
<1>10. md[p].redo = next
  BY <1>9
<1> QED BY <1>1, <1>3, <1>8, <1>9, <1>10 DEF p, rest, md

(* The nodes left when the branch D that hangs from r is gone.               *)
Cut(r, D) == [n \in Ids |-> IF n \in D THEN NoNode ELSE Unlinked(node, r)[n]]

(* D is r and all that hangs from a member of D.                             *)
Branch(r, D) ==
  /\ r \in Alive(node) \ {root} /\ D \in SUBSET Alive(node) /\ root \notin D
  /\ \A n \in Alive(node) \ {root} :
       n \in D <=> n = r \/ node[n].parent \in D

(* Dropping a whole branch leaves a tree of the other nodes.                 *)
LEMMA CutTree ==
  ASSUME Tree(node, root), NEW r, NEW D, Branch(r, D)
  PROVE  /\ Tree(Cut(r, D), root)
         /\ Alive(Cut(r, D)) = Alive(node) \ D
         /\ Cut(r, D)[root].n_ops = node[root].n_ops
<1> DEFINE p == node[r].parent
           un == Unlinked(node, r)
           md == Cut(r, D)
<1>1. /\ r \in Alive(node) \ {root} /\ r \in D /\ root \notin D
      /\ p \in Alive(node) /\ p \in Ids /\ node[p].live = TRUE
      /\ p < r /\ Alive(node) \subseteq Ids
  BY DEF Branch, Tree, Rooted, Alive
<1>2. p \notin D
  <2> DEFINE A == {n \in D : n < r}
             least == LeastOf(A)
  <2> SUFFICES ASSUME p \in D PROVE FALSE
    OBVIOUS
  <2>1. A \in SUBSET Nat /\ A # {}
    <3>1. D \subseteq Ids /\ Ids \subseteq Nat
      BY DEF Branch, Alive, Ids
    <3>2. p \in A
      BY <1>1
    <3> QED BY <3>1, <3>2
  <2>2. least \in A /\ \A k \in A : least <= k
    BY <2>1, LeastExists
  <2> HIDE DEF least
  <2>3. least \in Alive(node) \ {root} /\ least # r /\ least \in D
        /\ least \in Nat /\ r \in Nat
    BY <1>1, <2>1, <2>2 DEF Branch, Ids
  <2>4. node[least].parent \in D /\ node[least].parent < least
        /\ node[least].parent \in Nat
    <3>1. node[least].parent \in D
      BY <2>3 DEF Branch
    <3>2. node[least].parent \in Alive(node) /\ node[least].parent < least
      BY <2>3 DEF Tree, Rooted
    <3> QED BY <1>1, <3>1, <3>2 DEF Ids
  <2>5. node[least].parent \in A
    BY <2>2, <2>3, <2>4
  <2> QED BY <2>2, <2>3, <2>4, <2>5
<1>3. /\ \A n \in Ids \ {p} : un[n] = node[n]
      /\ un[p] = [live |-> TRUE, parent |-> node[p].parent,
            kids |-> node[p].kids \ {r}, redo |-> un[p].redo,
            depth |-> node[p].depth, reason |-> node[p].reason,
            ops_at |-> node[p].ops_at, n_ops |-> node[p].n_ops,
            blob_lo |-> node[p].blob_lo, blob_hi |-> node[p].blob_hi]
      /\ un[p].redo \in (node[p].kids \ {r}) \cup {0}
  BY <1>1, UnlinkedNodes
<1>4. /\ md = [n \in Ids |-> md[n]] /\ \A n \in D : md[n] = NoNode
      /\ \A n \in Ids \ (D \cup {p}) : md[n] = node[n]
      /\ md[p] = un[p]
  BY <1>1, <1>2, <1>3 DEF Cut, Branch
<1>5. NoNode = [live |-> FALSE, parent |-> 0, kids |-> {}, redo |-> 0,
                depth |-> 0, reason |-> "NONE", ops_at |-> 0, n_ops |-> 0,
                blob_lo |-> 0, blob_hi |-> 0]
  BY DEF NoNode
<1> HIDE DEF md, un
<1>6. \A n \in Alive(node) \ D :
         /\ md[n].live = TRUE /\ md[n].parent = node[n].parent
         /\ md[n].depth = node[n].depth /\ md[n].n_ops = node[n].n_ops
         /\ md[n].kids = node[n].kids \ (IF n = p THEN {r} ELSE {})
         /\ md[n].redo \in md[n].kids \cup {0}
  <2>1. ASSUME NEW n \in Alive(node) \ D, n # p
        PROVE  md[n] = node[n] /\ node[n].live = TRUE
    BY <1>1, <1>4, <2>1 DEF Alive, Tree, Shape, IsNode
  <2>2. \A n \in Alive(node) : node[n].redo \in node[n].kids \cup {0}
    BY DEF Tree, Children
  <2> DEFINE Kept(n) ==
         /\ md[n].live = TRUE /\ md[n].parent = node[n].parent
         /\ md[n].depth = node[n].depth /\ md[n].n_ops = node[n].n_ops
         /\ md[n].kids = node[n].kids \ (IF n = p THEN {r} ELSE {})
         /\ md[n].redo \in md[n].kids \cup {0}
  <2>3. Kept(p)
    <3> DEFINE q == un[p].redo
    <3>1. md[p] = [live |-> TRUE, parent |-> node[p].parent,
            kids |-> node[p].kids \ {r}, redo |-> q,
            depth |-> node[p].depth, reason |-> node[p].reason,
            ops_at |-> node[p].ops_at, n_ops |-> node[p].n_ops,
            blob_lo |-> node[p].blob_lo, blob_hi |-> node[p].blob_hi]
      BY <1>3, <1>4
    <3>2. q \in (node[p].kids \ {r}) \cup {0}
      BY <1>3
    <3> HIDE DEF q, p
    <3> QED BY <3>1, <3>2
  <2>4. ASSUME NEW n \in Alive(node) \ D, n # p PROVE Kept(n)
    BY <2>1, <2>2, <2>4
  <2> QED BY <2>3, <2>4
<1>7. Alive(md) = Alive(node) \ D
  <2>1. \A n \in D : md[n].live = FALSE
    BY <1>4, <1>5
  <2>2. \A n \in Ids \ (D \cup {p}) : md[n].live = node[n].live
    BY <1>4
  <2>3. \A n \in Ids : n \in Alive(node) <=> node[n].live
    BY DEF Alive
  <2>4. \A n \in Ids : n \in Alive(md) <=> md[n].live
    BY DEF Alive
  <2>5. ASSUME NEW n \in Ids
        PROVE  n \in Alive(md) <=> n \in Alive(node) \ D
    BY <1>1, <1>2, <1>6, <2>1, <2>2, <2>3, <2>4
  <2> QED BY <1>1, <2>5 DEF Alive
<1>8. Shape(md)
  <2>1. \A n \in Ids \ (D \cup {p}) : IsNode(md[n])
    BY <1>4 DEF Tree, Shape, IsNode
  <2>2. \A n \in D : IsNode(md[n])
    <3>1. IsNode(NoNode)
      BY <1>5 DEF IsNode
    <3> QED BY <1>4, <3>1
  <2>3. IsNode(md[p])
    <3>1. node[p].depth \in Int
      BY <1>1 DEF Tree, Shape, IsNode
    <3> DEFINE q == un[p].redo
    <3>2. md[p] = [live |-> TRUE, parent |-> node[p].parent,
            kids |-> node[p].kids \ {r}, redo |-> q,
            depth |-> node[p].depth, reason |-> node[p].reason,
            ops_at |-> node[p].ops_at, n_ops |-> node[p].n_ops,
            blob_lo |-> node[p].blob_lo, blob_hi |-> node[p].blob_hi]
      BY <1>3, <1>4
    <3> HIDE DEF q, p
    <3> QED BY <3>1, <3>2 DEF IsNode
  <2> QED BY <1>4, <2>1, <2>2, <2>3 DEF Shape, IsNode
<1>9. Rooted(md, root)
  <2>1. root \in Alive(md) /\ md[root].parent = 0
    BY <1>1, <1>6, <1>7 DEF Tree, Rooted
  <2>2. ASSUME NEW n \in Alive(md) \ {root}
        PROVE  /\ md[n].parent \in Alive(md) /\ md[n].parent < n
               /\ md[n].depth = md[md[n].parent].depth + 1
               /\ md[n].depth > md[root].depth
    <3>1. n \in Alive(node) \ {root} /\ n \notin D
      BY <1>7
    <3>2. node[n].parent \in Alive(node) \ D
      BY <3>1 DEF Branch, Tree, Rooted
    <3> QED BY <1>1, <1>6, <1>7, <3>1, <3>2 DEF Tree, Rooted
  <2> QED BY <2>1, <2>2 DEF Rooted
<1>10. Children(md)
  <2> SUFFICES ASSUME NEW n \in Alive(node) \ D
               PROVE  md[n].kids = {k \in Alive(md) : md[k].parent = n}
    BY <1>6, <1>7 DEF Children
  <2>1. node[n].kids = {k \in Alive(node) : node[k].parent = n}
    BY DEF Tree, Children
  <2>2. ASSUME NEW k \in Alive(node), node[k].parent = n, k \in D
        PROVE  k = r /\ n = p
    <3>1. k # root
      BY <1>1, <2>2
    <3> QED BY <2>2, <3>1 DEF Branch
  <2>3. n = p => r \notin Alive(md)
    BY <1>1, <1>7
  <2>4. {k \in Alive(md) : md[k].parent = n}
          = {k \in Alive(node) \ D : node[k].parent = n}
    BY <1>6, <1>7
  <2> QED BY <1>1, <1>6, <1>7, <2>1, <2>2, <2>3, <2>4
<1>11. md[root].n_ops = node[root].n_ops
  BY <1>1, <1>6 DEF Tree, Rooted
<1> QED BY <1>7, <1>8, <1>9, <1>10, <1>11 DEF Tree, md

(* tombstone_subtree drops a whole branch: a node is dropped exactly when    *)
(* its parent is.                                                            *)
LEMMA UnderBranch ==
  ASSUME Tree(node, root), Counted, NEW r \in Alive(node) \ {root}
  PROVE  Branch(r, Under(r)) /\ Tombstoned(r) = Cut(r, Under(r))
<1>1. Under(r) = {n \in Alive(node) : n >= r /\ IsAncestor(r, n)}
  BY LiveIsAlive DEF Under
<1>2. root \notin Under(r)
  BY <1>1, OnlyRootAboveRoot
<1>3. ASSUME NEW n \in Alive(node) \ {root}
      PROVE  n \in Under(r) <=> n = r \/ node[n].parent \in Under(r)
  <2>1. /\ node[n].parent \in Alive(node) /\ node[n].parent < n
        /\ r \in Ids /\ r \in Int /\ n \in Int /\ node[n].parent \in Int
    BY DEF Tree, Rooted, Alive, Ids
  <2>2. ASSUME n \in Under(r), n # r PROVE node[n].parent \in Under(r)
    <3>1. IsAncestor(r, node[n].parent)
      BY <1>1, <2>2, AboveParent
    <3>2. r <= node[n].parent
      BY <2>1, <3>1, AncestorsOlder
    <3> QED BY <1>1, <2>1, <3>1, <3>2
  <2>3. ASSUME node[n].parent \in Under(r) PROVE n \in Under(r)
    <3>1. IsAncestor(r, node[n].parent) /\ node[n].parent >= r
      BY <1>1, <2>3
    <3>2. IsAncestor(r, n)
      BY <3>1, BelowParent
    <3> QED BY <1>1, <2>1, <3>1, <3>2
  <2>4. r \in Under(r)
    BY <1>1, <2>1, Oneself
  <2> QED BY <2>2, <2>3, <2>4
<1> QED BY <1>1, <1>2, <1>3 DEF Branch, Tombstoned, Cut

(* What yew_undo_abort drops, a leaf, is a whole branch too.                 *)
LEMMA LeafBranch ==
  ASSUME Tree(node, root), NEW r \in Alive(node) \ {root},
         node[r].kids = {}
  PROVE  /\ Branch(r, {r})
         /\ [Unlinked(node, r) EXCEPT ![r] = NoNode] = Cut(r, {r})
<1>1. \A n \in Alive(node) \ {root} : node[n].parent # r
  BY DEF Tree, Children
<1>2. Unlinked(node, r) = [n \in Ids |-> Unlinked(node, r)[n]] /\ r \in Ids
  BY UnlinkedNodes DEF Alive
<1>3. Branch(r, {r})
  BY <1>1 DEF Branch
<1> HIDE DEF Unlinked
<1>4. [Unlinked(node, r) EXCEPT ![r] = NoNode] = Cut(r, {r})
  BY <1>2 DEF Cut
<1> QED BY <1>3, <1>4

(* reroot_one leaves a tree whose root is the only child of the old one.     *)
LEMMA Rerooted ==
  ASSUME Tree(node, root), Counted, NEW c \in Ids,
         node[root].kids \cap Live = {c}
  PROVE  LET md == [node EXCEPT ![c].n_ops = 0, ![c].parent = 0,
                                ![c].blob_lo = node[c].blob_hi,
                                ![root] = NoNode]
         IN /\ Tree(md, c) /\ Alive(md) = Alive(node) \ {root}
            /\ md[c].n_ops = 0 /\ c \in Alive(node) \ {root}
<1> DEFINE md == [node EXCEPT ![c].n_ops = 0, ![c].parent = 0,
                              ![c].blob_lo = node[c].blob_hi,
                              ![root] = NoNode]
<1>1. /\ root \in Alive(node) /\ Alive(node) \subseteq Ids
      /\ node[root].parent = 0
      /\ node[root].kids = {c} /\ 0 \notin Ids
      /\ node[root].kids = {k \in Alive(node) : node[k].parent = root}
      /\ node = [n \in Ids |-> node[n]]
  <2>1. /\ root \in Alive(node) /\ node[root].parent = 0
        /\ node = [n \in Ids |-> node[n]]
    BY DEF Tree, Rooted, Shape, IsNode
  <2>2. Alive(node) \subseteq Ids /\ 0 \notin Ids
    BY DEF Alive, Ids
  <2>3. node[root].kids = {k \in Alive(node) : node[k].parent = root}
    BY <2>1 DEF Tree, Children
  <2>4. node[root].kids = {c}
    BY <2>3, LiveIsAlive
  <2> QED BY <2>1, <2>2, <2>3, <2>4
<1>2. c \in Alive(node) \ {root} /\ node[c].parent = root /\ node[c].live
  <2>1. root \in Ids
    BY <1>1
  <2> QED BY <1>1, <2>1 DEF Alive
<1>3. \A n \in Ids \ {root, c} : md[n] = node[n]
  BY <1>1
<1>4. md[root] = NoNode
  BY <1>1
<1>5. md[c] = [live |-> node[c].live, parent |-> 0,
               kids |-> node[c].kids, redo |-> node[c].redo,
               depth |-> node[c].depth, reason |-> node[c].reason,
               ops_at |-> node[c].ops_at, n_ops |-> 0,
               blob_lo |-> node[c].blob_hi, blob_hi |-> node[c].blob_hi]
  <2> DEFINE m1 == [node EXCEPT ![c].n_ops = 0]
             m2 == [m1 EXCEPT ![c].parent = 0]
             m3 == [m2 EXCEPT ![c].blob_lo = node[c].blob_hi]
  <2>0. node[c] = [live |-> node[c].live, parent |-> node[c].parent,
               kids |-> node[c].kids, redo |-> node[c].redo,
               depth |-> node[c].depth, reason |-> node[c].reason,
               ops_at |-> node[c].ops_at, n_ops |-> node[c].n_ops,
               blob_lo |-> node[c].blob_lo, blob_hi |-> node[c].blob_hi]
    BY DEF Tree, Shape, IsNode
  <2>1. m1[c] = [node[c] EXCEPT !.n_ops = 0] /\ m1 = [n \in Ids |-> m1[n]]
    BY <1>1
  <2>2. md = [m3 EXCEPT ![root] = NoNode]
    OBVIOUS
  <2>3. m2 = [m1 EXCEPT ![c].parent = 0]
    OBVIOUS
  <2>4. m3 = [m2 EXCEPT ![c].blob_lo = node[c].blob_hi]
    OBVIOUS
  <2> HIDE DEF m1, m2, m3, md
  <2>5. m2[c] = [m1[c] EXCEPT !.parent = 0] /\ m2 = [n \in Ids |-> m2[n]]
    BY <2>1, <2>3
  <2>6. m3[c] = [m2[c] EXCEPT !.blob_lo = node[c].blob_hi]
        /\ m3 = [n \in Ids |-> m3[n]]
    BY <2>4, <2>5
  <2>7. md[c] = m3[c]
    BY <1>2, <2>2, <2>6
  <2>8. m1[c] = [live |-> node[c].live, parent |-> node[c].parent,
               kids |-> node[c].kids, redo |-> node[c].redo,
               depth |-> node[c].depth, reason |-> node[c].reason,
               ops_at |-> node[c].ops_at, n_ops |-> 0,
               blob_lo |-> node[c].blob_lo, blob_hi |-> node[c].blob_hi]
    BY <2>0, <2>1
  <2>9. m2[c] = [live |-> node[c].live, parent |-> 0,
               kids |-> node[c].kids, redo |-> node[c].redo,
               depth |-> node[c].depth, reason |-> node[c].reason,
               ops_at |-> node[c].ops_at, n_ops |-> 0,
               blob_lo |-> node[c].blob_lo, blob_hi |-> node[c].blob_hi]
    BY <2>5, <2>8
  <2> QED BY <2>6, <2>7, <2>9
<1>6. NoNode = [live |-> FALSE, parent |-> 0, kids |-> {}, redo |-> 0,
                depth |-> 0, reason |-> "NONE", ops_at |-> 0, n_ops |-> 0,
                blob_lo |-> 0, blob_hi |-> 0]
  BY DEF NoNode
<1>7. md = [n \in Ids |-> md[n]]
  BY <1>1
<1> HIDE DEF md
<1>8. Shape(md)
  <2>1. \A n \in Ids \ {root, c} : IsNode(md[n])
    BY <1>3 DEF Tree, Shape, IsNode
  <2>2. IsNode(md[root])
    BY <1>4, <1>6 DEF IsNode
  <2>3. IsNode(md[c])
    <3>1. node[c].depth \in Int /\ node[c].live \in BOOLEAN
      BY DEF Tree, Shape, IsNode
    <3> QED BY <1>5, <3>1 DEF IsNode
  <2> QED BY <1>7, <2>1, <2>2, <2>3 DEF Shape, IsNode
<1>9. Alive(md) = Alive(node) \ {root}
  <2>1. md[root].live = FALSE /\ md[c].live = node[c].live
    BY <1>4, <1>5, <1>6
  <2> QED BY <1>1, <1>2, <1>3, <2>1 DEF Alive
<1>10. md[c].parent = 0 /\ md[c].depth = node[c].depth /\ md[c].n_ops = 0
       /\ md[c].kids = node[c].kids /\ md[c].redo = node[c].redo
  BY <1>5
<1>11. Rooted(md, c)
  <2>1. ASSUME NEW n \in Alive(node) \ {root, c}
        PROVE  /\ md[n].parent \in Alive(node) \ {root} /\ md[n].parent < n
               /\ md[n].depth = md[md[n].parent].depth + 1
               /\ md[n].depth > md[c].depth
    <3>1. node[n].parent # root
      BY <1>1
    <3>2. node[n].parent \in Alive(node) \ {root} /\ node[n].parent < n
      BY <3>1 DEF Tree, Rooted
    <3>3. /\ node[n].depth = node[node[n].parent].depth + 1
          /\ node[node[n].parent].depth > node[root].depth
          /\ node[c].depth = node[root].depth + 1
      BY <1>2, <3>2 DEF Tree, Rooted
    <3>4. \A k \in Ids : node[k].depth \in Int
      BY DEF Tree, Shape, IsNode
    <3>5. md[node[n].parent].depth = node[node[n].parent].depth
      BY <1>1, <1>3, <1>10, <3>2
    <3>6. /\ node[node[n].parent].depth \in Int /\ node[root].depth \in Int
          /\ node[n].depth \in Int /\ node[c].depth \in Int
      BY <1>1, <3>2, <3>4
    <3>7. md[n] = node[n]
      BY <1>1, <1>3
    <3> QED BY <1>10, <3>2, <3>3, <3>5, <3>6, <3>7
  <2> QED BY <1>2, <1>9, <1>10, <2>1 DEF Rooted
<1>12. Children(md)
  <2> SUFFICES ASSUME NEW n \in Alive(node) \ {root}
               PROVE  /\ md[n].kids = {k \in Alive(md) : md[k].parent = n}
                      /\ md[n].redo \in md[n].kids \cup {0}
    BY <1>9 DEF Children
  <2>1. /\ node[n].kids = {k \in Alive(node) : node[k].parent = n}
        /\ node[n].redo \in node[n].kids \cup {0}
    BY DEF Tree, Children
  <2>2. md[n].kids = node[n].kids /\ md[n].redo = node[n].redo
    BY <1>1, <1>3, <1>10
  <2>3. ASSUME NEW k \in Alive(node)
        PROVE  node[k].parent = n <=> k # root /\ md[k].parent = n
    <3>0. n # 0 /\ k \in Ids /\ n \in Ids
      BY <1>1
    <3>1. CASE k = root
      BY <1>1, <3>0, <3>1
    <3>2. CASE k = c
      BY <1>2, <1>10, <3>0, <3>2
    <3>3. CASE k \notin {root, c}
      BY <1>3, <3>0, <3>3
    <3> QED BY <3>1, <3>2, <3>3
  <2> QED BY <1>9, <2>1, <2>2, <2>3
<1> QED BY <1>2, <1>8, <1>9, <1>10, <1>11, <1>12 DEF Tree, md

-----------------------------------------------------------------------------
(* The end of trimming.                                                      *)

(* Counting the depths from the root changes no link.                        *)
LEMMA Rebased ==
  ASSUME Tree(node, root), Counted
  PROVE  LET md == [n \in Ids |-> IF n \notin Live THEN node[n] ELSE
                      [node[n] EXCEPT !.depth = @ - node[root].depth]]
         IN Restyled(node, md) /\ \A n \in Ids : md[n].n_ops = node[n].n_ops
<1> DEFINE c == node[root].depth
           md == [n \in Ids |-> IF n \notin Live THEN node[n] ELSE
                      [node[n] EXCEPT !.depth = node[n].depth - c]]
<1>1. Live = Alive(node) /\ root \in Ids /\ c \in Int
  BY LiveIsAlive DEF Tree, Rooted, Shape, IsNode, Alive
<1>2. ASSUME NEW n \in Ids
      PROVE  /\ IsNode(md[n]) /\ md[n].live = node[n].live
             /\ md[n].parent = node[n].parent /\ md[n].kids = node[n].kids
             /\ md[n].redo = node[n].redo /\ md[n].n_ops = node[n].n_ops
             /\ n \in Alive(node) => md[n].depth = node[n].depth - c
  <2>1. IsNode(node[n])
    BY DEF Tree, Shape, IsNode
  <2>2. CASE n \notin Live
    <3>1. md[n] = node[n]
      BY <2>2
    <3> QED BY <1>1, <2>1, <2>2, <3>1
  <2>3. CASE n \in Live
    <3> DEFINE d == node[n].depth - c
    <3>1. md[n] = [node[n] EXCEPT !.depth = d] /\ d \in Int
      BY <1>1, <2>1, <2>3 DEF IsNode
    <3> HIDE DEF md, d
    <3>2. md[n] = [live |-> node[n].live, parent |-> node[n].parent,
                   kids |-> node[n].kids, redo |-> node[n].redo,
                   depth |-> d, reason |-> node[n].reason,
                   ops_at |-> node[n].ops_at, n_ops |-> node[n].n_ops,
                   blob_lo |-> node[n].blob_lo, blob_hi |-> node[n].blob_hi]
      BY <2>1, <3>1 DEF IsNode
    <3>3. /\ IsNode(md[n]) /\ md[n].live = node[n].live
          /\ md[n].parent = node[n].parent /\ md[n].kids = node[n].kids
          /\ md[n].redo = node[n].redo /\ md[n].n_ops = node[n].n_ops
          /\ md[n].depth = d
      BY <2>1, <3>1, <3>2 DEF IsNode
    <3> QED BY <3>3 DEF d
  <2> QED BY <2>2, <2>3
<1>3. md = [n \in Ids |-> md[n]]
  OBVIOUS
<1> HIDE DEF md
<1>4. Shape(md)
  BY <1>2, <1>3 DEF Shape, IsNode
<1>5. \E k \in Int : \A n \in Alive(node) : md[n].depth = node[n].depth - k
  <2>1. \A n \in Alive(node) : md[n].depth = node[n].depth - c
    BY <1>2 DEF Alive
  <2> QED BY <1>1, <2>1
<1>6. Restyled(node, md)
  BY <1>2, <1>4, <1>5 DEF Restyled
<1>7. \A n \in Ids : md[n].n_ops = node[n].n_ops
  BY <1>2
<1> QED BY <1>6, <1>7 DEF md

(* compact_history moves slices and changes no link.                         *)
LEMMA CompactedTree ==
  ASSUME Tree(node, root), NEW nd, Restyled(node, nd),
         \A n \in Ids : nd[n].n_ops = node[n].n_ops
  PROVE  /\ Restyled(node, Compacted(nd))
         /\ \A n \in Ids : Compacted(nd)[n].n_ops = node[n].n_ops
<1> DEFINE md == Compacted(nd)
<1>1. ASSUME NEW n \in Ids
      PROVE  /\ IsNode(md[n]) /\ md[n].live = nd[n].live
             /\ md[n].parent = nd[n].parent /\ md[n].kids = nd[n].kids
             /\ md[n].redo = nd[n].redo /\ md[n].depth = nd[n].depth
             /\ md[n].n_ops = nd[n].n_ops
  <2>1. IsNode(nd[n])
    BY DEF Restyled, Shape, IsNode
  <2>2. CASE n \notin Live
    <3>1. md[n] = nd[n]
      BY <2>2 DEF Compacted
    <3> QED BY <2>1, <3>1
  <2>3. CASE n \in Live
    <3> DEFINE at == Len(Packed(n - 1))
               to == at + nd[n].n_ops
               a == Len(Bytes(at))
               b == Len(Bytes(to))
    <3>1. md[n] = [nd[n] EXCEPT !.ops_at = at, !.blob_lo = a, !.blob_hi = b]
      BY <2>3 DEF Compacted
    <3> HIDE DEF at, to, a, b, md
    <3>2. md[n] = [live |-> nd[n].live, parent |-> nd[n].parent,
                   kids |-> nd[n].kids, redo |-> nd[n].redo,
                   depth |-> nd[n].depth, reason |-> nd[n].reason,
                   ops_at |-> at, n_ops |-> nd[n].n_ops,
                   blob_lo |-> a, blob_hi |-> b]
      BY <2>1, <3>1 DEF IsNode
    <3> QED BY <2>1, <3>2 DEF IsNode
  <2> QED BY <2>2, <2>3
<1>2. md = [n \in Ids |-> md[n]]
  BY DEF Compacted
<1> HIDE DEF md
<1>3. Shape(md)
  BY <1>1, <1>2 DEF Shape, IsNode
<1>4. \E c \in Int : \A n \in Alive(node) : md[n].depth = node[n].depth - c
  <2>1. PICK c \in Int : \A n \in Alive(node) : nd[n].depth = node[n].depth - c
    BY DEF Restyled
  <2>2. \A n \in Alive(node) : md[n].depth = nd[n].depth
    BY <1>1 DEF Alive
  <2> QED BY <2>1, <2>2
<1>5. Restyled(node, md)
  BY <1>1, <1>3, <1>4 DEF Restyled
<1>6. \A n \in Ids : md[n].n_ops = node[n].n_ops
  BY <1>1
<1> QED BY <1>5, <1>6 DEF md

-----------------------------------------------------------------------------
(* Steps that leave the tree alone.                                          *)

(* Steps that leave all nodes and the current one alone keep the invariant   *)
(* when they keep its parts about transactions and travel.                   *)
LEMMA SameTree ==
  ASSUME ChainInv, node' = node, len' = len, root' = root, cur' = cur,
         saved' \in {cur, saved}, Transaction', Journey'
  PROVE  ChainInv'
<1>1. Tree(node, root)' /\ Alive(node)' = Alive(node)
  BY DEF ChainInv, Tree, Shape, IsNode, Rooted, Children, Alive
<1>2. Counted'
  BY <1>1 DEF ChainInv, Counted
<1> QED BY <1>1, <1>2 DEF ChainInv

(* No loop in progress.                                                      *)
LEMMA StillIs ==
  /\ Still = [t |-> 0, path |-> <<>>, i |-> 0, ret |-> "idle"]
  /\ [Still EXCEPT !.ret = @] = Still
BY DEF Still

(* yew_undo_begin.                                                           *)
LEMMA BeginKeeps == ASSUME ChainInv, NEW why, Begin(why) PROVE ChainInv'
<1>1. /\ node' = node /\ len' = len /\ root' = root /\ cur' = cur
      /\ saved' = saved /\ open' = open /\ pc' = pc /\ walk' = walk
      /\ pc = "idle" /\ nest' = nest + 1 /\ nest \in Nat
      /\ nest = 0 => kept' = NotReopened
      /\ nest # 0 => kept' = kept
  BY DEF Begin, Idle, tree, ChainInv, Transaction
<1>2. ~NotReopened.on
  BY DEF NotReopened
<1>3. Transaction'
  BY <1>1, <1>2 DEF ChainInv, Transaction
<1>4. Journey'
  BY <1>1 DEF ChainInv, Journey
<1> QED BY <1>1, <1>3, <1>4, SameTree

(* yew_undo_end, of a transaction that has an edit: the root is never        *)
(* current when trimming starts.                                             *)
LEMMA EndKeeps == ASSUME ChainInv, ~EmptyTxn, End PROVE ChainInv'
<1>1. /\ node' = node /\ len' = len /\ root' = root /\ cur' = cur
      /\ saved' = saved /\ pc = "idle" /\ nest > 0 /\ nest' = nest - 1
      /\ nest \in Nat
  BY DEF End, Idle, tree, ChainInv, Transaction
<1>2. CASE nest > 1
  <2>1. /\ open' = open /\ kept' = kept /\ pc' = pc /\ walk' = walk
    BY <1>2 DEF End
  <2>2. Transaction'
    BY <1>1, <1>2, <2>1 DEF ChainInv, Transaction
  <2>3. Journey'
    BY <1>1, <2>1 DEF ChainInv, Journey
  <2> QED BY <1>1, <2>2, <2>3, SameTree
<1>3. CASE ~(nest > 1)
  <2>1. /\ open' = 0 /\ kept' = NotReopened /\ pc' = "trim" /\ walk' = Still
        /\ nest = 1 /\ open # 0
    BY <1>1, <1>3, StillIs DEF End, Goto
  <2>2. cur # root
    BY <2>1 DEF ChainInv, Transaction
  <2>3. ~NotReopened.on
    BY DEF NotReopened
  <2>4. Transaction'
    BY <1>1, <2>1, <2>3 DEF Transaction
  <2>5. Journey'
    BY <1>1, <2>1, <2>2, StillIs DEF Journey
  <2> QED BY <1>1, <2>4, <2>5, SameTree
<1> QED BY <1>2, <1>3

(* yew_undo_reopen: the open node is the current leaf.                       *)
LEMMA ReopenKeeps == ASSUME ChainInv, NEW e, Reopen(e) PROVE ChainInv'
<1>1. /\ node' = node /\ len' = len /\ root' = root /\ cur' = cur
      /\ saved' = saved /\ pc = "idle" /\ pc' = pc /\ walk' = walk
      /\ open' = cur /\ cur # root /\ node[cur].kids = {} /\ nest' = 1
  BY DEF Reopen, Resting, Idle, tree
<1>2. kept'.on
  BY DEF Reopen
<1>3. cur # 0
  BY DEF ChainInv, Counted, Alive, Ids
<1>4. Transaction'
  BY <1>1, <1>2, <1>3 DEF Transaction
<1>5. Journey'
  BY <1>1 DEF ChainInv, Journey
<1> QED BY <1>1, <1>4, <1>5, SameTree

(* yew_undo_abort, before it undoes anything.                                *)
LEMMA AbortKeeps == ASSUME ChainInv, Abort PROVE ChainInv'
<1>1. /\ node' = node /\ len' = len /\ root' = root /\ cur' = cur
      /\ saved' = saved /\ pc = "idle" /\ open' = open /\ kept' = kept
  BY DEF Abort, Idle, tree
<1>2. CASE open = 0
  <2>1. nest' = 0 /\ pc' = pc /\ walk' = walk
    BY <1>2 DEF Abort
  <2>2. Transaction'
    BY <1>1, <1>2, <2>1 DEF ChainInv, Transaction
  <2>3. Journey'
    BY <1>1, <2>1 DEF ChainInv, Journey
  <2> QED BY <1>1, <2>2, <2>3, SameTree
<1>3. CASE open # 0
  <2>1. nest' = nest /\ pc' = "abort"
        /\ walk' = [Still EXCEPT !.i = node[open].n_ops]
    BY <1>3 DEF Abort
  <2>2. Transaction'
    BY <1>1, <1>3, <2>1 DEF ChainInv, Transaction
  <2>3. Journey'
    BY <1>1, <2>1, StillIs DEF ChainInv, Journey
  <2> QED BY <1>1, <2>2, <2>3, SameTree
<1> QED BY <1>2, <1>3

(* Each operation undone or done again.                                      *)
LEMMA ReplayKeeps ==
  ASSUME ChainInv, AbortOp \/ BackOp \/ ForthOp PROVE ChainInv'
<1>1. /\ node' = node /\ len' = len /\ root' = root /\ cur' = cur
      /\ saved' = saved /\ pc' = pc /\ open' = open /\ kept' = kept
      /\ nest' = nest
  BY DEF AbortOp, BackOp, ForthOp, Revert, tree, txn
<1>2. /\ walk = [t |-> walk.t, path |-> walk.path, i |-> walk.i,
                 ret |-> walk.ret]
      /\ \E i : walk' = [walk EXCEPT !.i = i]
  BY DEF AbortOp, BackOp, ForthOp, Revert, ChainInv, Journey
<1>3. /\ walk' = [t |-> walk'.t, path |-> walk'.path, i |-> walk'.i,
                  ret |-> walk'.ret]
      /\ walk'.t = walk.t /\ walk'.path = walk.path /\ walk'.ret = walk.ret
  BY <1>2
<1>4. Transaction'
  BY <1>1 DEF ChainInv, Transaction
<1>5. Journey'
  BY <1>1, <1>3 DEF ChainInv, Journey, Hangs, Alive
<1> QED BY <1>1, <1>4, <1>5, SameTree

(* yew_undo_mark_saved and yew_undo_boundary.                                *)
LEMMA MarkKeeps == ASSUME ChainInv, Save \/ Boundary PROVE ChainInv'
<1>1. /\ node' = node /\ len' = len /\ root' = root /\ cur' = cur
      /\ pc = "idle" /\ pc' = pc /\ open' = open /\ kept' = kept
      /\ nest' = nest /\ walk' = walk
      /\ saved' = saved \/ (saved' = cur /\ nest = 0)
  BY DEF Save, Boundary, Resting, Idle, tree, txn
<1>2. Transaction'
  BY <1>1 DEF ChainInv, Transaction
<1>3. Journey'
  BY <1>1 DEF ChainInv, Journey
<1> QED BY <1>1, <1>2, <1>3, SameTree

(* yew_undo sets out.                                                        *)
LEMMA UndoKeeps == ASSUME ChainInv, Undo PROVE ChainInv'
<1>1. /\ node' = node /\ len' = len /\ root' = root /\ cur' = cur
      /\ saved' = saved /\ open' = open /\ kept' = kept /\ nest' = nest
      /\ pc' = "back" /\ walk' = [Still EXCEPT !.i = node[cur].n_ops]
      /\ nest = 0 /\ cur # root
  BY DEF Undo, Resting, Idle, tree, txn
<1>2. Transaction'
  BY <1>1 DEF ChainInv, Transaction
<1>3. Journey'
  BY <1>1, StillIs DEF Journey
<1> QED BY <1>1, <1>2, <1>3, SameTree

(* yew_redo sets out: the redo child hangs from the current node.            *)
LEMMA RedoKeeps == ASSUME ChainInv, Redo PROVE ChainInv'
<1> DEFINE k == node[cur].redo
<1>1. /\ node' = node /\ len' = len /\ root' = root /\ cur' = cur
      /\ saved' = saved /\ open' = open /\ kept' = kept /\ nest' = nest
      /\ pc' = "forth" /\ walk' = [Still EXCEPT !.path = <<k>>]
      /\ nest = 0 /\ k \in Live
  BY DEF Redo, Resting, Idle, tree, txn
<1>2. k \in Alive(node) \ {root} /\ node[k].parent = cur /\ k \in Ids
  <2>1. /\ cur \in Alive(node) /\ k \in Alive(node) /\ k # 0 /\ cur # 0
        /\ node[root].parent = 0 /\ k \in Ids
    BY <1>1, LiveIsAlive DEF ChainInv, Counted, Tree, Rooted, Alive, Ids
  <2>2. k \in node[cur].kids
    BY <2>1 DEF ChainInv, Tree, Children
  <2>3. node[k].parent = cur
    BY <2>1, <2>2 DEF ChainInv, Tree, Children
  <2> QED BY <2>1, <2>3
<1> HIDE DEF k
<1>3. Transaction'
  BY <1>1 DEF ChainInv, Transaction
<1>4. Hangs(node, root, <<k>>, cur)
  BY <1>2 DEF Hangs
<1>5. /\ walk' = [t |-> 0, path |-> <<k>>, i |-> 0, ret |-> "idle"]
      /\ <<k>> # <<>>
  BY <1>1, StillIs
<1>6. Journey'
  <2>1. walk'.path = <<k>> /\ walk'.ret = "idle"
        /\ walk' = [t |-> walk'.t, path |-> walk'.path, i |-> walk'.i,
                    ret |-> walk'.ret]
    BY <1>5
  <2>2. Hangs(node', root', walk'.path, cur')
    BY <1>1, <1>4, <2>1
  <2> QED BY <1>1, <1>5, <2>1, <2>2 DEF Journey
<1> QED BY <1>1, <1>3, <1>6, SameTree

(* yew_undo_to sets out.                                                     *)
LEMMA UndoToKeeps == ASSUME ChainInv, NEW n, UndoTo(n) PROVE ChainInv'
<1>1. /\ node' = node /\ len' = len /\ root' = root /\ cur' = cur
      /\ saved' = saved /\ open' = open /\ kept' = kept /\ nest' = nest
      /\ pc' = "travel"
      /\ walk' = [Still EXCEPT !.t = n, !.ret = "travel"]
      /\ nest = 0 /\ n \in Live
  BY DEF UndoTo, Resting, Idle, tree, txn
<1>2. n \in Alive(node)
  BY <1>1, LiveIsAlive DEF ChainInv
<1>3. Transaction'
  BY <1>1 DEF ChainInv, Transaction
<1>4. walk' = [t |-> n, path |-> <<>>, i |-> 0, ret |-> "travel"]
  BY <1>1, StillIs
<1>5. Hangs(node, root, <<>>, n)
  BY DEF Hangs
<1>6. Journey'
  <2>1. walk'.path = <<>> /\ walk'.ret = "travel" /\ walk'.t = n
        /\ walk' = [t |-> walk'.t, path |-> walk'.path, i |-> walk'.i,
                    ret |-> walk'.ret]
    BY <1>4
  <2>2. Hangs(node', root', walk'.path, walk'.t) /\ walk'.t \in Alive(node')
    BY <1>1, <1>2, <1>5, <2>1
  <2> QED BY <1>1, <2>1, <2>2 DEF Journey
<1> QED BY <1>1, <1>3, <1>6, SameTree

(* Pushing the target and going on to its parent keeps the path one that     *)
(* hangs together.                                                           *)
LEMMA Pushed ==
  ASSUME ChainInv, pc = "travel", walk.t # root
  PROVE  /\ Push = [t |-> node[walk.t].parent,
                    path |-> Append(walk.path, walk.t), i |-> walk.i,
                    ret |-> "travel"]
         /\ node[walk.t].parent \in Alive(node)
         /\ Hangs(node, root, Append(walk.path, walk.t), node[walk.t].parent)
<1>1. /\ walk = [t |-> walk.t, path |-> walk.path, i |-> walk.i,
                 ret |-> walk.ret]
      /\ walk.ret = "travel" /\ walk.t \in Alive(node) \ {root}
      /\ Hangs(node, root, walk.path, walk.t)
  BY DEF ChainInv, Journey
<1> DEFINE t == walk.t
           old == walk.path
           new == Append(old, t)
           up == node[t].parent
<1>2. Push = [t |-> up, path |-> new, i |-> walk.i, ret |-> "travel"]
  <2> DEFINE w == [walk EXCEPT !.t = up]
             i == walk.i
  <2>1. Push = [w EXCEPT !.path = Append(w.path, t)]
    BY DEF Push
  <2>2. walk = [t |-> t, path |-> old, i |-> i, ret |-> "travel"]
    BY <1>1
  <2>3. w = [walk EXCEPT !.t = up]
    OBVIOUS
  <2> HIDE DEF w, t, old, up, i
  <2>4. w = [t |-> up, path |-> old, i |-> i, ret |-> "travel"]
    BY <2>2, <2>3
  <2>5. w.path = old
    BY <2>4
  <2>6. Push = [t |-> up, path |-> Append(old, t), i |-> i, ret |-> "travel"]
    BY <2>1, <2>4, <2>5
  <2> QED BY <2>6 DEF i
<1>3. up \in Alive(node) /\ t \in Ids
  BY <1>1 DEF ChainInv, Tree, Rooted, Alive
<1> HIDE DEF t, old, up
<1>4. /\ old \in Seq(Ids) /\ t \in Alive(node) \ {root} /\ up = node[t].parent
      /\ \A k \in 1 .. Len(old) :
           /\ old[k] \in Alive(node) \ {root}
           /\ node[old[k]].parent = IF k = Len(old) THEN t ELSE old[k + 1]
  BY <1>1 DEF Hangs, t, old, up
<1>5. new \in Seq(Ids) /\ Len(new) = Len(old) + 1 /\ Len(old) \in Nat
      /\ new[Len(old) + 1] = t /\ \A k \in 1 .. Len(old) : new[k] = old[k]
  BY <1>3, <1>4
<1>6. ASSUME NEW k \in 1 .. Len(new)
      PROVE  /\ new[k] \in Alive(node) \ {root}
             /\ node[new[k]].parent = IF k = Len(new) THEN up ELSE new[k + 1]
  <2> HIDE DEF new
  <2>1. CASE k = Len(new)
    BY <1>4, <1>5, <2>1
  <2>2. CASE k = Len(old) /\ k # Len(new)
    BY <1>4, <1>5, <2>2
  <2>3. CASE k # Len(old) /\ k # Len(new)
    <3>1. k \in 1 .. Len(old) /\ k + 1 \in 1 .. Len(old)
      BY <1>5, <2>3
    <3> QED BY <1>4, <1>5, <2>3, <3>1
  <2> QED BY <2>1, <2>2, <2>3
<1>7. Hangs(node, root, new, up)
  <2> HIDE DEF new
  <2> QED BY <1>5, <1>6 DEF Hangs
<1> QED BY <1>2, <1>3, <1>7 DEF t, old, new, up

(* One turn of the loop of yew_undo_to: the deeper of two nodes is never the *)
(* root, nor is either of two different nodes of one depth.                  *)
LEMMA TravelKeeps == ASSUME ChainInv, Travel PROVE ChainInv'
<1> DEFINE here == node[cur].depth
           there == node[walk.t].depth
<1>1. /\ node' = node /\ len' = len /\ root' = root /\ cur' = cur
      /\ saved' = saved /\ open' = open /\ kept' = kept /\ nest' = nest
      /\ pc = "travel" /\ nest = 0
  BY DEF Travel, tree, txn, ChainInv, Transaction
<1>2. /\ walk = [t |-> walk.t, path |-> walk.path, i |-> walk.i,
                 ret |-> walk.ret]
      /\ walk.ret = "travel" /\ walk.t \in Alive(node)
      /\ Hangs(node, root, walk.path, walk.t)
  BY <1>1 DEF ChainInv, Journey
<1>3. ASSUME NEW n \in Alive(node), NEW k \in Alive(node),
             node[n].depth >= node[k].depth,
             node[n].depth # node[k].depth \/ n # k
      PROVE  n # root
  <2>1. n \in Ids /\ k \in Ids
    BY DEF Alive
  <2>2. node[n].depth \in Int /\ node[k].depth \in Int
    BY <2>1 DEF ChainInv, Tree, Shape, IsNode
  <2>3. k # root => node[k].depth > node[root].depth
    BY DEF ChainInv, Tree, Rooted
  <2> QED BY <1>3, <2>2, <2>3
<1>4. /\ cur \in Alive(node) /\ here \in Int /\ there \in Int
  BY <1>2 DEF ChainInv, Counted, Tree, Shape, IsNode, Alive
<1>5. Transaction'
  <2>1. pc' \in {"back", "travel", "forth", "idle"}
    BY <1>1 DEF Travel, Climb, Goto
  <2> QED BY <1>1, <2>1 DEF ChainInv, Transaction
<1>6. Journey'
  <2>1. CASE here > there /\ Climb
    <3>1. cur # root
      BY <1>2, <1>3, <1>4, <2>1
    <3>2. /\ pc' = "back" /\ walk' = [walk EXCEPT !.i = node[cur].n_ops]
      BY <2>1 DEF Climb
    <3>3. /\ walk' = [t |-> walk'.t, path |-> walk'.path, i |-> walk'.i,
                      ret |-> walk'.ret]
          /\ walk'.t = walk.t /\ walk'.path = walk.path
          /\ walk'.ret = walk.ret
      BY <1>2, <3>2
    <3> QED BY <1>1, <1>2, <3>1, <3>2, <3>3 DEF Journey
  <2>2. CASE here < there /\ walk' = Push /\ pc' = pc
    <3>1. walk.t # root
      BY <1>2, <1>3, <1>4, <2>2
    <3>2. /\ walk'.t = node[walk.t].parent /\ walk'.ret = "travel"
          /\ walk'.path = Append(walk.path, walk.t)
          /\ walk' = [t |-> walk'.t, path |-> walk'.path, i |-> walk'.i,
                      ret |-> walk'.ret]
          /\ node[walk.t].parent \in Alive(node)
          /\ Hangs(node, root, Append(walk.path, walk.t),
                   node[walk.t].parent)
      BY <1>1, <2>2, <3>1, Pushed
    <3> QED BY <1>1, <2>2, <3>2 DEF Journey
  <2>3. CASE /\ here = there /\ cur # walk.t /\ pc' = "back"
             /\ walk' = [Push EXCEPT !.i = node[cur].n_ops]
    <3>1. cur # root /\ walk.t # root
      BY <1>2, <1>3, <1>4, <2>3
    <3>2. /\ walk'.t = node[walk.t].parent /\ walk'.ret = "travel"
          /\ walk'.path = Append(walk.path, walk.t)
          /\ walk' = [t |-> walk'.t, path |-> walk'.path, i |-> walk'.i,
                      ret |-> walk'.ret]
          /\ node[walk.t].parent \in Alive(node)
          /\ Hangs(node, root, Append(walk.path, walk.t),
                   node[walk.t].parent)
      BY <1>1, <2>3, <3>1, Pushed
    <3> QED BY <1>1, <2>3, <3>1, <3>2 DEF Journey
  <2>4. CASE /\ cur = walk.t /\ walk.path # <<>> /\ pc' = "forth"
             /\ walk' = [walk EXCEPT !.i = 0]
    <3>1. /\ walk' = [t |-> walk'.t, path |-> walk'.path, i |-> walk'.i,
                      ret |-> walk'.ret]
          /\ walk'.t = walk.t /\ walk'.path = walk.path
          /\ walk'.ret = walk.ret
      BY <1>2, <2>4
    <3> QED BY <1>1, <1>2, <2>4, <3>1 DEF Journey
  <2>5. CASE cur = walk.t /\ walk.path = <<>> /\ Goto("idle")
    BY <1>1, <2>5, StillIs DEF Journey, Goto
  <2> QED BY <2>1, <2>2, <2>3, <2>4, <2>5 DEF Travel
<1> QED BY <1>1, <1>5, <1>6, SameTree

-----------------------------------------------------------------------------
(* Steps that change fields of nodes, and none of the links but redo.        *)

(* A step that changes no link but redo, and makes a live node current,      *)
(* keeps the invariant when it keeps the parts about transactions and        *)
(* travel.                                                                   *)
LEMMA RestyledKeeps ==
  ASSUME ChainInv, Restyled(node, node'), root' = root, len' = len,
         saved' = saved, cur' \in Alive(node), node'[root].n_ops = 0,
         Transaction', Journey'
  PROVE  ChainInv'
<1>1. Tree(node', root) /\ Alive(node') = Alive(node)
  BY RestyledTree DEF ChainInv
<1>2. Tree(node, root)'
  BY <1>1
<1>3. Counted'
  BY <1>1 DEF ChainInv, Counted, SameOps
<1> QED BY <1>2, <1>3 DEF ChainInv

(* The path of a journey hangs together while no parent changes.             *)
LEMMA HangsKept ==
  ASSUME NEW nd, NEW md, NEW r, NEW p, NEW from, Hangs(nd, r, p, from),
         Alive(md) = Alive(nd), \A n \in Ids : md[n].parent = nd[n].parent
  PROVE  Hangs(md, r, p, from)
BY DEF Hangs, Alive

(* The end of a step to the parent.                                          *)
LEMMA BackDoneKeeps == ASSUME ChainInv, BackDone PROVE ChainInv'
<1> DEFINE up == node[cur].parent
<1>1. /\ pc = "back" /\ cur' = up /\ node' = [node EXCEPT ![up].redo = cur]
      /\ pc' = walk.ret /\ walk' = walk /\ len' = len /\ root' = root
      /\ saved' = saved /\ open' = open /\ nest' = nest /\ kept' = kept
  BY DEF BackDone, txn
<1>2. cur \in Alive(node) \ {root} /\ nest = 0 /\ root \in Ids
  BY <1>1 DEF ChainInv, Counted, Transaction, Journey, Tree, Rooted, Alive
<1>3. up \in Alive(node) /\ up \in Ids
  BY <1>2 DEF ChainInv, Tree, Rooted, Alive
<1>4. cur \in node[up].kids
  BY <1>2, <1>3 DEF ChainInv, Tree, Children
<1>5. Shape(node) /\ Tree(node, root)
  BY DEF ChainInv, Tree
<1> HIDE DEF up
<1>6. Restyled(node, node') /\ SameOps(node, node')
  <2>1. node' = [j \in Ids |-> node'[j]]
        /\ node'[up] = [node[up] EXCEPT !.redo = cur]
        /\ \A j \in Ids \ {up} : node'[j] = node[j]
    BY <1>1, <1>3, <1>5 DEF Shape, IsNode
  <2> QED BY <1>3, <1>4, <1>5, <2>1, SetRedo, Zenon
<1>7. Transaction'
  <2>1. open = 0 /\ ~kept.on /\ nest \in Nat
    BY <1>2 DEF ChainInv, Transaction
  <2>2. pc' # "abort"
    BY <1>1 DEF ChainInv, Journey
  <2> QED BY <1>1, <1>2, <2>1, <2>2 DEF Transaction
<1>8. Journey'
  <2>1. /\ Alive(node') = Alive(node)
        /\ \A n \in Ids : node'[n].parent = node[n].parent
    BY <1>5, <1>6, RestyledTree DEF Restyled
  <2>2. walk.ret \in {"idle", "travel"}
        /\ walk = [t |-> walk.t, path |-> walk.path, i |-> walk.i,
                   ret |-> walk.ret]
    BY DEF ChainInv, Journey
  <2>3. walk.ret = "travel" =>
          walk.t \in Alive(node') /\ Hangs(node', root, walk.path, walk.t)
    BY <1>1, <2>1, HangsKept DEF ChainInv, Journey
  <2> QED BY <1>1, <2>2, <2>3 DEF Journey
<1>9. node'[root].n_ops = 0
  BY <1>2, <1>6 DEF ChainInv, Counted, SameOps
<1> QED BY <1>1, <1>3, <1>6, <1>7, <1>8, <1>9, RestyledKeeps

(* The end of a step to a child: the rest of the path hangs from it.         *)
LEMMA ForthDoneKeeps == ASSUME ChainInv, ForthDone PROVE ChainInv'
<1> DEFINE path == walk.path
           rest == SubSeq(path, 1, Len(path) - 1)
<1>1. /\ pc = "forth" /\ cur' = Child
      /\ node' = [node EXCEPT ![cur].redo = Child] /\ len' = len
      /\ root' = root /\ saved' = saved /\ open' = open /\ nest' = nest
      /\ kept' = kept
      /\ IF walk.ret = "idle" THEN Goto("idle")
         ELSE pc' = "travel" /\ walk' = [walk EXCEPT !.path = rest, !.t = Child]
  BY DEF ForthDone, txn
<1>2. /\ nest = 0 /\ cur \in Alive(node)
      /\ Alive(node) \subseteq Ids /\ root \in Ids
      /\ path \in Seq(Ids) /\ path # <<>>
  BY <1>1 DEF ChainInv, Counted, Transaction, Journey, Hangs, Alive,
              Tree, Rooted
<1>3. Len(path) \in 1 .. Len(path) /\ Len(path) \in Nat
  <2> HIDE DEF path
  <2> QED BY <1>2
<1>4. Child \in Alive(node) \ {root} /\ node[Child].parent = cur
  BY <1>1, <1>3 DEF ChainInv, Journey, Hangs, Child
<1>5. Child \in node[cur].kids
  BY <1>2, <1>4 DEF ChainInv, Tree, Children
<1>6. Shape(node) /\ Tree(node, root)
  BY DEF ChainInv, Tree
<1>7. Restyled(node, node') /\ SameOps(node, node')
  <2>1. cur \in Ids /\ node' = [j \in Ids |-> node'[j]]
        /\ node'[cur] = [node[cur] EXCEPT !.redo = Child]
        /\ \A j \in Ids \ {cur} : node'[j] = node[j]
    BY <1>1, <1>2, <1>6 DEF Shape, IsNode
  <2> QED BY <1>5, <1>6, <2>1, SetRedo, Zenon
<1>8. Transaction'
  <2>1. open = 0 /\ ~kept.on /\ nest \in Nat
    BY <1>2 DEF ChainInv, Transaction
  <2>2. pc' # "abort"
    BY <1>1 DEF Goto
  <2> QED BY <1>1, <1>2, <2>1, <2>2 DEF Transaction
<1>9. Journey'
  <2>1. /\ Alive(node') = Alive(node)
        /\ \A n \in Ids : node'[n].parent = node[n].parent
    BY <1>6, <1>7, RestyledTree DEF Restyled
  <2>2. CASE walk.ret = "idle"
    BY <1>1, <2>2, StillIs DEF Journey, Goto
  <2>3. CASE walk.ret # "idle"
    <3>1. rest \in Seq(Ids) /\ Len(rest) = Len(path) - 1
          /\ \A k \in 1 .. Len(rest) : rest[k] = path[k]
      <4> HIDE DEF path
      <4> DEFINE n == Len(path) - 1
      <4>1. n \in Nat /\ n <= Len(path)
        BY <1>3
      <4>2. \A k \in 1 .. n : path[k] \in Ids
        BY <1>2, <4>1
      <4>3. rest = [k \in 1 .. n |-> path[k]]
        BY <1>2, <4>1
      <4> HIDE DEF n, rest
      <4> QED BY <4>1, <4>2, <4>3 DEF n
    <3>2. /\ \A k \in 1 .. Len(path) :
               /\ path[k] \in Alive(node) \ {root}
               /\ node[path[k]].parent = IF k = Len(path) THEN cur
                                         ELSE path[k + 1]
          /\ Child = path[Len(path)]
      BY <1>1 DEF ChainInv, Journey, Hangs, Child
    <3>3. Hangs(node, root, rest, Child)
      <4> HIDE DEF path, rest
      <4>1. ASSUME NEW k \in 1 .. Len(rest)
            PROVE  /\ rest[k] \in Alive(node) \ {root}
                   /\ node[rest[k]].parent = IF k = Len(rest) THEN Child
                                             ELSE rest[k + 1]
        <5>1. k \in 1 .. Len(path) /\ k # Len(path) /\ rest[k] = path[k]
          BY <1>3, <3>1
        <5>2. k # Len(rest) => k + 1 \in 1 .. Len(rest)
          BY <1>3, <3>1
        <5>3. k = Len(rest) => k + 1 = Len(path)
          BY <1>3, <3>1
        <5> QED BY <3>1, <3>2, <5>1, <5>2, <5>3
      <4> QED BY <3>1, <4>1 DEF Hangs
    <3>4. Hangs(node', root, rest, Child)
      BY <2>1, <3>3, HangsKept
    <3>5. /\ walk = [t |-> walk.t, path |-> walk.path, i |-> walk.i,
                     ret |-> walk.ret]
          /\ walk.ret = "travel"
      BY <2>3 DEF ChainInv, Journey
    <3>6. /\ pc' = "travel"
          /\ walk' = [t |-> Child, path |-> rest, i |-> walk.i,
                     ret |-> "travel"]
      <4> DEFINE w == [walk EXCEPT !.path = rest]
                 i == walk.i
                 t == walk.t
      <4>1. pc' = "travel" /\ walk' = [w EXCEPT !.t = Child]
        BY <1>1, <2>3
      <4>2. walk = [t |-> t, path |-> path, i |-> i, ret |-> "travel"]
        BY <3>5
      <4>3. w = [walk EXCEPT !.path = rest]
        OBVIOUS
      <4> HIDE DEF w, i, t, path, rest
      <4>4. w = [t |-> t, path |-> rest, i |-> i, ret |-> "travel"]
        BY <4>2, <4>3
      <4>5. walk' = [t |-> Child, path |-> rest, i |-> i, ret |-> "travel"]
        BY <4>1, <4>4
      <4> QED BY <4>1, <4>5 DEF i
    <3>7. /\ walk'.t = Child /\ walk'.path = rest /\ walk'.ret = "travel"
          /\ walk' = [t |-> walk'.t, path |-> walk'.path, i |-> walk'.i,
                     ret |-> walk'.ret]
      BY <3>6
    <3>8. walk'.t \in Alive(node') /\ Hangs(node', root', walk'.path, walk'.t)
      BY <1>1, <1>4, <2>1, <3>4, <3>7
    <3> QED BY <3>6, <3>7, <3>8 DEF Journey
  <2> QED BY <2>2, <2>3
<1>10. node'[root].n_ops = 0
  BY <1>2, <1>7 DEF ChainInv, Counted, SameOps
<1> QED BY <1>1, <1>4, <1>7, <1>8, <1>9, <1>10, RestyledKeeps

(* yew_undo_branch_cycle.                                                    *)
LEMMA BranchCycleKeeps ==
  ASSUME ChainInv, NEW d, BranchCycle(d) PROVE ChainInv'
<1>1. /\ len' = len /\ root' = root /\ cur' = cur /\ saved' = saved
      /\ open' = open /\ nest' = nest /\ kept' = kept /\ nest = 0
      /\ pc' = pc /\ walk' = walk /\ pc = "idle"
  BY DEF BranchCycle, Resting, Idle, txn
<1>2. PICK k \in node[cur].kids : node' = [node EXCEPT ![cur].redo = k]
  BY DEF BranchCycle
<1>3. Shape(node) /\ cur \in Alive(node) /\ cur \in Ids /\ root \in Ids
  BY DEF ChainInv, Tree, Rooted, Counted, Alive
<1>4. Restyled(node, node') /\ SameOps(node, node')
  <2>1. node' = [j \in Ids |-> node'[j]]
        /\ node'[cur] = [node[cur] EXCEPT !.redo = k]
        /\ \A j \in Ids \ {cur} : node'[j] = node[j]
    BY <1>2, <1>3 DEF Shape, IsNode
  <2> QED BY <1>3, <2>1, SetRedo, Zenon
<1>5. Transaction'
  BY <1>1 DEF ChainInv, Transaction
<1>6. Journey'
  BY <1>1 DEF ChainInv, Journey
<1>7. node'[root].n_ops = 0
  BY <1>3, <1>4 DEF ChainInv, Counted, SameOps
<1> QED BY <1>1, <1>3, <1>4, <1>5, <1>6, <1>7, RestyledKeeps

(* The end of trim_tree, with or without compact_history.                    *)
LEMMA TrimDoneKeeps == ASSUME ChainInv, TrimDone PROVE ChainInv'
<1> DEFINE md == [n \in Ids |-> IF n \notin Live THEN node[n] ELSE
                      [node[n] EXCEPT !.depth = @ - node[root].depth]]
<1>1. /\ pc = "trim" /\ Goto("idle") /\ len' = len /\ root' = root
      /\ cur' = cur /\ saved' = saved /\ open' = open /\ nest' = nest
      /\ kept' = kept /\ (node' = md \/ node' = Compacted(md))
  BY DEF TrimDone, txn
<1>2. Restyled(node, md) /\ \A n \in Ids : md[n].n_ops = node[n].n_ops
  BY Rebased DEF ChainInv
<1> HIDE DEF md
<1>3. Restyled(node, node') /\ \A n \in Ids : node'[n].n_ops = node[n].n_ops
  BY <1>1, <1>2, CompactedTree DEF ChainInv
<1>4. Transaction'
  BY <1>1 DEF ChainInv, Transaction, Goto
<1>5. Journey'
  BY <1>1, StillIs DEF Journey, Goto
<1>6. node'[root].n_ops = 0 /\ cur \in Alive(node)
  BY <1>3 DEF ChainInv, Counted, Tree, Rooted, Alive
<1> QED BY <1>1, <1>3, <1>4, <1>5, <1>6, RestyledKeeps

-----------------------------------------------------------------------------
(* Edits.                                                                    *)

(* Recording an operation in a leaf n, other than the root, of a tree nd.    *)
LEMMA RecordKeeps ==
  ASSUME ChainInv, pc = "idle", NEW nd, NEW n, NEW op, Record(nd, n, op),
         Tree(nd, root), nd[root].n_ops = 0, saved \in Alive(nd),
         n \in Alive(nd) \ {root}, nd[n].kids = {},
         len' \in Ids, \A k \in Alive(nd) : k <= len',
         nest > 0 /\ ~kept.on => n = len' /\ n # saved
  PROVE  ChainInv'
<1>1. /\ cur' = n /\ root' = root /\ saved' = saved /\ nest' = nest
      /\ kept' = kept
      /\ IF nest > 0 THEN open' = n /\ pc' = pc /\ walk' = walk
         ELSE open' = 0 /\ Goto("trim")
  BY DEF Record
<1>2. n \in Ids /\ 0 \notin Ids /\ Shape(nd)
  BY DEF Alive, Ids, Tree
<1>3. PICK a, b : node' = [nd EXCEPT ![n].n_ops = a, ![n].blob_hi = b]
  BY Zenon DEF Record
<1>4. Restyled(nd, node') /\ SameElse(nd, node', n)
  BY <1>2, <1>3, SetTail, Zenon
<1>5. Tree(node', root) /\ Alive(node') = Alive(nd)
  BY <1>4, RestyledTree
<1>6. node'[n].kids = {}
  BY <1>2, <1>4 DEF Restyled
<1>7. node'[root].n_ops = 0
  BY <1>4, <1>5 DEF SameElse, Tree, Rooted, Alive
<1>8. Tree(node, root)'
  BY <1>1, <1>5
<1>9. Counted'
  BY <1>1, <1>5, <1>7 DEF Counted
<1>10. Transaction'
  BY <1>1, <1>2, <1>6 DEF ChainInv, Transaction, Goto
<1>11. Journey'
  <2>1. CASE nest > 0
    BY <1>1, <2>1 DEF ChainInv, Journey
  <2>2. CASE ~(nest > 0)
    BY <1>1, <2>2, StillIs DEF Journey, Goto
  <2> QED BY <2>1, <2>2
<1> QED BY <1>8, <1>9, <1>10, <1>11 DEF ChainInv

(* yew_undo_record_insert, _delete: in the open node, merged into the        *)
(* current one, or in a new one.                                             *)
LEMMA EditKeeps ==
  ASSUME ChainInv, NEW op, NEW quick, Edit(op, quick) PROVE ChainInv'
<1>1. pc = "idle" /\ saved \in Alive(node) /\ Tree(node, root)
      /\ cur \in Alive(node) /\ node[root].n_ops = 0 /\ len \in Ids
      /\ \A k \in Alive(node) : k <= len
  BY DEF Edit, Idle, ChainInv, Counted
<1>2. CASE open # 0
  <2>1. Record(node, open, op) /\ len' = len
    BY <1>2 DEF Edit
  <2>2. /\ open \in Alive(node) \ {root} /\ node[open].kids = {}
        /\ ~kept.on => open = len' /\ open # saved
    BY <1>1, <1>2, <2>1 DEF ChainInv, Transaction
  <2> QED BY <1>1, <2>1, <2>2, RecordKeeps
<1>3. CASE open = 0 /\ MayMerge(op) /\ Record(node, cur, op) /\ len' = len
  <2>1. cur # root /\ node[cur].kids = {} /\ nest = 0
    BY <1>1, <1>3 DEF MayMerge
  <2> QED BY <1>1, <1>3, <2>1, RecordKeeps
<1>4. CASE /\ open = 0 /\ len < MaxNodes /\ len' = len + 1
           /\ Record(Linked(op), len', op)
  <2>1. len + 1 \in Ids /\ len < len + 1
    BY <1>1, <1>4, UndoAssumption DEF UndoAssumption, Ids
  <2>2. PICK nd : nd = Linked(op)
    OBVIOUS
  <2>3. PICK n : n = len + 1
    OBVIOUS
  <2>4. /\ Tree(nd, root) /\ Alive(nd) = Alive(node) \cup {n}
        /\ n \notin Alive(node) /\ nd[n].kids = {} /\ nd[root].n_ops = 0
    BY <2>1, <2>2, <2>3, LinkedTree DEF ChainInv
  <2>5. Record(nd, n, op) /\ len' = n
    BY <1>4, <2>2, <2>3
  <2>6. n \in Alive(nd) \ {root} /\ saved \in Alive(nd) /\ n # saved
    BY <1>1, <2>4 DEF Tree, Rooted
  <2>7. \A k \in Alive(nd) : k <= n
    <3>1. \A k \in Alive(node) : k \in Int
      BY DEF Alive, Ids
    <3>2. len \in Int
      BY <1>1 DEF Ids
    <3> QED BY <1>1, <2>3, <2>4, <3>1, <3>2
  <2> QED BY <1>1, <2>1, <2>3, <2>4, <2>5, <2>6, <2>7, RecordKeeps
<1> QED BY <1>2, <1>3, <1>4 DEF Edit

-----------------------------------------------------------------------------
(* Steps that drop nodes.                                                    *)

(* The end of yew_undo_abort: a new node goes, a reopened one stays.         *)
LEMMA AbortDoneKeeps == ASSUME ChainInv, AbortDone PROVE ChainInv'
<1>1. /\ pc = "abort" /\ Goto("idle") /\ open' = 0 /\ nest' = 0
      /\ kept' = NotReopened /\ root' = root /\ saved' = saved
  BY DEF AbortDone
<1>2. /\ open # 0 /\ open = cur /\ open \in Alive(node) \ {root}
      /\ node[open].kids = {} /\ (~kept.on => open = len /\ open # saved)
      /\ Tree(node, root) /\ Counted /\ open \in Ids
  BY <1>1 DEF ChainInv, Transaction, Counted, Alive
<1>3. Transaction'
  <2>1. ~NotReopened.on
    BY DEF NotReopened
  <2> QED BY <1>1, <2>1 DEF Transaction, Goto
<1>4. Journey'
  BY <1>1, StillIs DEF Journey, Goto
<1>5. CASE kept.on
  <2>1. len' = len /\ cur' = cur
        /\ node' = [node EXCEPT ![open].n_ops = kept.n_ops,
                                ![open].blob_hi = kept.blob_hi]
    BY <1>5 DEF AbortDone
  <2>2. Restyled(node, node') /\ SameElse(node, node', open)
    <3>1. Shape(node)
      BY <1>2 DEF Tree
    <3> QED BY <1>2, <2>1, <3>1, SetTail, Zenon
  <2>3. node'[root].n_ops = 0
    BY <1>2, <2>2 DEF SameElse, Tree, Rooted, Alive, Counted
  <2> QED BY <1>1, <1>2, <1>3, <1>4, <2>1, <2>2, <2>3, RestyledKeeps
<1>6. CASE ~kept.on
  <2>1. /\ len' = len - 1 /\ cur' = node[open].parent
        /\ node' = [Unlinked(node, open) EXCEPT ![open] = NoNode]
    BY <1>6 DEF AbortDone
  <2>2. Branch(open, {open}) /\ node' = Cut(open, {open})
    BY <1>2, <2>1, LeafBranch
  <2>3. /\ Tree(node', root) /\ Alive(node') = Alive(node) \ {open}
        /\ node'[root].n_ops = node[root].n_ops
    BY <1>2, <2>2, CutTree
  <2>4. /\ node[open].parent \in Alive(node) \ {open}
        /\ node[open].parent < open /\ node[open].parent \in Ids
    <3>1. node[open].parent \in Alive(node) /\ node[open].parent < open
      BY <1>2 DEF Tree, Rooted
    <3> QED BY <3>1 DEF Alive, Ids
  <2>5. len = open /\ saved \in Alive(node) \ {open}
        /\ root \in Alive(node) \ {open} /\ node[root].n_ops = 0
    BY <1>2, <1>6 DEF Counted, Tree, Rooted
  <2>6. len - 1 \in Ids /\ \A n \in Alive(node) \ {open} : n <= len - 1
    <3>1. \A n \in Alive(node) : n \in Int /\ n <= len
      BY <1>2 DEF Counted, Alive, Ids
    <3>2. len \in Int /\ MaxNodes \in Int /\ 1 <= node[open].parent
          /\ node[open].parent \in Int /\ len <= MaxNodes
      BY <1>2, <2>4, UndoAssumption DEF UndoAssumption, Counted, Ids
    <3> QED BY <2>4, <2>5, <3>1, <3>2 DEF Ids
  <2>7. Counted'
    BY <1>1, <2>1, <2>3, <2>4, <2>5, <2>6 DEF Counted
  <2>8. Tree(node, root)'
    BY <1>1, <2>3
  <2> QED BY <1>3, <1>4, <2>7, <2>8 DEF ChainInv
<1> QED BY <1>5, <1>6

(* Dropping a branch that neither the current nor the saved node is in.      *)
LEMMA CutKeeps ==
  ASSUME ChainInv, NEW r \in Alive(node) \ {root}, node' = Tombstoned(r),
         len' = len, root' = root, cur' = cur, saved' = saved,
         open' = open, nest' = nest, kept' = kept, pc' = pc, walk' = walk,
         nest = 0, pc \in {"idle", "trim"},
         cur \notin Under(r), saved \notin Under(r)
  PROVE  ChainInv'
<1>1. Tree(node, root) /\ Counted
  BY DEF ChainInv
<1>2. Branch(r, Under(r)) /\ node' = Cut(r, Under(r))
  BY <1>1, UnderBranch
<1>3. /\ Tree(node', root) /\ Alive(node') = Alive(node) \ Under(r)
      /\ node'[root].n_ops = node[root].n_ops
  BY <1>1, <1>2, CutTree
<1>4. Tree(node, root)'
  BY <1>3
<1>5. Counted'
  BY <1>1, <1>3 DEF Counted
<1>6. Transaction'
  BY DEF ChainInv, Transaction
<1>7. Journey'
  BY DEF ChainInv, Journey
<1> QED BY <1>4, <1>5, <1>6, <1>7 DEF ChainInv

(* yew_undo_prune_redo: the redo branch cannot hold the current node, and is *)
(* refused when it holds the saved one.                                      *)
LEMMA PruneRedoKeeps == ASSUME ChainInv, NEW e, PruneRedo(e) PROVE ChainInv'
<1> DEFINE r == node[cur].redo
<1>1. /\ len' = len /\ root' = root /\ cur' = cur /\ saved' = saved
      /\ open' = open /\ nest' = nest /\ kept' = kept /\ pc' = pc
      /\ walk' = walk /\ nest = 0 /\ pc = "idle" /\ r \in Live
      /\ node' = Tombstoned(r) /\ (saved # 0 => ~IsAncestor(r, saved))
  BY DEF PruneRedo, Resting, Idle, txn
<1>2. /\ Tree(node, root) /\ Counted
      /\ cur \in Alive(node) /\ saved \in Alive(node)
      /\ Live = Alive(node) /\ Alive(node) \subseteq Ids /\ 0 \notin Ids
  BY LiveIsAlive DEF ChainInv, Counted, Alive, Ids
<1>3. r \in node[cur].kids
  BY <1>1, <1>2 DEF Tree, Children
<1>4. r \in Alive(node) \ {root} /\ node[r].parent = cur
  BY <1>2, <1>3 DEF Tree, Children, Rooted
<1>5. cur < r /\ cur \in Int /\ r \in Int
  BY <1>2, <1>4 DEF Tree, Rooted, Ids
<1>6. cur \notin Under(r)
  BY <1>5 DEF Under
<1>7. saved \notin Under(r)
  BY <1>1, <1>2 DEF Under
<1> HIDE DEF r
<1> QED BY <1>1, <1>4, <1>6, <1>7, CutKeeps

(* trim_tree drops branches without a protected node.                        *)
LEMMA PruneBranchKeeps == ASSUME ChainInv, PruneBranch PROVE ChainInv'
<1> DEFINE r == LeastOf(Prunable)
<1>1. /\ len' = len /\ root' = root /\ cur' = cur /\ saved' = saved
      /\ open' = open /\ nest' = nest /\ kept' = kept /\ pc' = pc
      /\ walk' = walk /\ pc = "trim" /\ Prunable # {}
      /\ node' = Tombstoned(r)
  BY DEF PruneBranch, txn
<1>2. Tree(node, root) /\ Counted /\ {cur, saved, root} \subseteq Alive(node)
      /\ Live = Alive(node) /\ Alive(node) \subseteq Ids /\ 0 \notin Ids
      /\ nest = 0
  BY <1>1, LiveIsAlive DEF ChainInv, Counted, Transaction, Tree, Rooted,
                           Alive, Ids
<1>3. Prunable \in SUBSET Nat
  BY <1>2 DEF Prunable, Ids
<1>4. r \in Prunable
  BY <1>1, <1>3, LeastExists
<1> HIDE DEF r
<1>5. r \in Alive(node) /\ Under(r) \cap Protected = {} /\ r \in Ids
  BY <1>2, <1>4 DEF Prunable
<1>6. cur \in Protected /\ saved \in Protected /\ root \in Protected
  <2>1. /\ IsAncestor(cur, cur) /\ IsAncestor(saved, saved)
        /\ IsAncestor(root, cur)
    BY <1>2, Oneself, RootAbove
  <2> QED BY <1>2, <2>1 DEF Protected
<1>7. r \in Under(r)
  <2>1. IsAncestor(r, r) /\ r \in Int
    BY <1>5, Oneself DEF Ids
  <2> QED BY <1>2, <1>5, <2>1 DEF Under
<1>8. r # root /\ cur \notin Under(r) /\ saved \notin Under(r)
  BY <1>5, <1>6, <1>7
<1> QED BY <1>1, <1>2, <1>5, <1>8, CutKeeps

(* reroot_one: the current node is not the old root, by the proviso, and the *)
(* saved node is not, by its guard.                                          *)
LEMMA RerootKeeps == ASSUME ChainInv, Reroot PROVE ChainInv'
<1>1. PICK c \in Ids :
        /\ node[root].kids \cap Live = {c} /\ c # cur /\ root' = c
        /\ node' = [node EXCEPT ![c].n_ops = 0, ![c].parent = 0,
                                ![c].blob_lo = node[c].blob_hi,
                                ![root] = NoNode]
  BY DEF Reroot
<1>2. /\ len' = len /\ cur' = cur /\ saved' = saved /\ open' = open
      /\ nest' = nest /\ kept' = kept /\ pc' = pc /\ walk' = walk
      /\ pc = "trim" /\ root # saved
  BY DEF Reroot, txn
<1>3. Tree(node, root) /\ Counted
  BY DEF ChainInv
<1>4. /\ Tree(node', c) /\ Alive(node') = Alive(node) \ {root}
      /\ node'[c].n_ops = 0
  BY <1>1, <1>3, Rerooted
<1>5. cur # root
  BY <1>2 DEF ChainInv, Journey
<1>6. Tree(node, root)'
  BY <1>1, <1>4
<1>7. Counted'
  BY <1>1, <1>2, <1>3, <1>4, <1>5 DEF Counted
<1>8. Transaction'
  BY <1>2 DEF ChainInv, Transaction
<1>9. Journey'
  BY <1>1, <1>2 DEF ChainInv, Journey
<1> QED BY <1>6, <1>7, <1>8, <1>9 DEF ChainInv

-----------------------------------------------------------------------------
(* The tree of a file just loaded.                                           *)
LEMMA ChainStart == Init => ChainInv
<1> SUFFICES ASSUME Init PROVE ChainInv
  OBVIOUS
<1>1. /\ len = 1 /\ root = 1 /\ cur = 1 /\ saved = 1 /\ open = 0 /\ nest = 0
      /\ kept = NotReopened /\ pc = "idle" /\ walk = Still
  BY DEF Init
<1>2. 1 \in Ids
  BY UndoAssumption DEF UndoAssumption, Ids
<1>3. node = [n \in Ids |-> [NoNode EXCEPT !.live = n = 1,
                              !.reason = IF n = 1 THEN "TYPE" ELSE "NONE"]]
  BY DEF Init
<1>4. NoNode = [live |-> FALSE, parent |-> 0, kids |-> {}, redo |-> 0,
                depth |-> 0, reason |-> "NONE", ops_at |-> 0, n_ops |-> 0,
                blob_lo |-> 0, blob_hi |-> 0]
  BY DEF NoNode
<1>5. ASSUME NEW n \in Ids, NEW live, live = (n = 1),
             NEW why, why = IF n = 1 THEN "TYPE" ELSE "NONE"
      PROVE  node[n] = [live |-> live, parent |-> 0, kids |-> {}, redo |-> 0,
                        depth |-> 0, reason |-> why, ops_at |-> 0,
                        n_ops |-> 0, blob_lo |-> 0, blob_hi |-> 0]
  <2> DEFINE q == [NoNode EXCEPT !.live = live]
  <2>1. node[n] = [q EXCEPT !.reason = why]
    BY <1>3, <1>5
  <2>2. q = [live |-> live, parent |-> 0, kids |-> {}, redo |-> 0,
             depth |-> 0, reason |-> "NONE", ops_at |-> 0,
             n_ops |-> 0, blob_lo |-> 0, blob_hi |-> 0]
    BY <1>4
  <2> HIDE DEF q
  <2> QED BY <2>1, <2>2
<1>6. ASSUME NEW n \in Ids
      PROVE  /\ node[n] = [live |-> node[n].live, parent |-> node[n].parent,
                  kids |-> node[n].kids, redo |-> node[n].redo,
                  depth |-> node[n].depth, reason |-> node[n].reason,
                  ops_at |-> node[n].ops_at, n_ops |-> node[n].n_ops,
                  blob_lo |-> node[n].blob_lo, blob_hi |-> node[n].blob_hi]
             /\ node[n].live \in BOOLEAN /\ (node[n].live <=> n = 1)
             /\ node[n].parent = 0
             /\ node[n].kids = {} /\ node[n].redo = 0 /\ node[n].depth = 0
             /\ node[n].n_ops = 0
  <2>1. PICK live : live = (n = 1)
    OBVIOUS
  <2>2. PICK why : why = IF n = 1 THEN "TYPE" ELSE "NONE"
    OBVIOUS
  <2>3. node[n] = [live |-> live, parent |-> 0, kids |-> {}, redo |-> 0,
                   depth |-> 0, reason |-> why, ops_at |-> 0,
                   n_ops |-> 0, blob_lo |-> 0, blob_hi |-> 0]
    BY <1>5, <2>1, <2>2
  <2>4. /\ node[n].live = live /\ node[n].parent = 0 /\ node[n].kids = {}
        /\ node[n].redo = 0 /\ node[n].depth = 0 /\ node[n].reason = why
        /\ node[n].ops_at = 0 /\ node[n].n_ops = 0 /\ node[n].blob_lo = 0
        /\ node[n].blob_hi = 0
    BY <2>3
  <2>5. live \in BOOLEAN /\ (live <=> n = 1)
    BY <2>1, Zenon
  <2>6. node[n] = [live |-> node[n].live, parent |-> node[n].parent,
                  kids |-> node[n].kids, redo |-> node[n].redo,
                  depth |-> node[n].depth, reason |-> node[n].reason,
                  ops_at |-> node[n].ops_at, n_ops |-> node[n].n_ops,
                  blob_lo |-> node[n].blob_lo, blob_hi |-> node[n].blob_hi]
    BY <2>3, <2>4, Zenon
  <2>7. node[n].live \in BOOLEAN /\ (node[n].live <=> n = 1)
    BY <2>4, <2>5, Zenon
  <2> QED BY <2>4, <2>6, <2>7, Zenon
<1>7. Alive(node) = {1} /\ node[1].n_ops = 0
  <2>1. \A n \in Ids : node[n].live <=> n = 1
    BY <1>6
  <2>2. node[1].n_ops = 0
    BY <1>2, <1>6
  <2> QED BY <1>2, <2>1, <2>2 DEF Alive
<1>8. node = [n \in Ids |-> node[n]]
  BY <1>3
<1>9. Tree(node, root)
  BY <1>1, <1>2, <1>6, <1>7, <1>8 DEF Tree, Shape, IsNode, Rooted, Children
<1>10. Counted
  BY <1>1, <1>2, <1>7 DEF Counted
<1>11. Transaction
  BY <1>1 DEF Transaction, NotReopened
<1>12. Journey
  BY <1>1, StillIs DEF Journey
<1> QED BY <1>9, <1>10, <1>11, <1>12 DEF ChainInv

(* Every step of the program keeps the invariant.                            *)
LEMMA ChainStep ==
  ASSUME ChainInv, ~EmptyTxn, [Next]_vars PROVE ChainInv'
<1>1. CASE Loop
  BY <1>1, ReplayKeeps, AbortDoneKeeps, TravelKeeps, BackDoneKeeps,
     ForthDoneKeeps, PruneBranchKeeps, RerootKeeps, TrimDoneKeeps DEF Loop
<1>2. CASE Call
  <2>1. CASE \E off \in 0 .. MaxText, quick \in BOOLEAN :
               \/ \E b \in Byte : Insert(off, <<b>>, quick)
               \/ \E n \in 1 .. MaxText : Delete(off, n, quick)
    <3>1. PICK quick : \E op : Edit(op, quick)
      BY <2>1, Zenon DEF Insert, Delete
    <3> QED BY <3>1, EditKeeps
  <2>2. CASE \E why \in Whys : Begin(why) \/ Reopen(why) \/ PruneRedo(why)
    BY <2>2, BeginKeeps, ReopenKeeps, PruneRedoKeeps
  <2>3. CASE End \/ Abort \/ Undo \/ Redo \/ Save \/ Boundary
    BY <2>3, EndKeeps, AbortKeeps, UndoKeeps, RedoKeeps, MarkKeeps
  <2>4. CASE \E n \in Ids : UndoTo(n)
    BY <2>4, UndoToKeeps
  <2>5. CASE \E d \in 0 .. MaxNodes : BranchCycle(d)
    BY <2>5, BranchCycleKeeps
  <2> QED BY <1>2, <2>1, <2>2, <2>3, <2>4, <2>5, Zenon DEF Call
<1>3. CASE vars' = vars
  <2>1. /\ node' = node /\ len' = len /\ root' = root /\ cur' = cur
        /\ saved' = saved /\ open' = open /\ nest' = nest /\ kept' = kept
        /\ pc' = pc /\ walk' = walk
    BY <1>3 DEF vars, tree, txn
  <2>2. Transaction'
    BY <2>1 DEF ChainInv, Transaction
  <2>3. Journey'
    BY <2>1 DEF ChainInv, Journey
  <2> QED BY <2>1, <2>2, <2>3, SameTree
<1> QED BY <1>1, <1>2, <1>3 DEF Next

(* The invariant is more than what is to be shown.                           *)
LEMMA ChainHolds == ChainInv => ChainUnbroken
<1> SUFFICES ASSUME ChainInv PROVE ChainUnbroken
  OBVIOUS
<1>1. Live = Alive(node)
  BY LiveIsAlive DEF ChainInv
<1> QED BY <1>1 DEF ChainInv, Tree, Rooted, Children, Counted, ChainUnbroken

(* Sprint 10, "trimming can never break the parent chain": in every run in   *)
(* which no transaction ends without an edit, whatever the bounds, the       *)
(* retention (MinNodes) and the depth of nesting, editing, abort, travel,    *)
(* pruning and trimming never lose the root, the current or the saved node,  *)
(* never leave a live node hanging from a dead one, and never point redo at  *)
(* a node that is not a live child.                                          *)
THEOREM ChainNeverBroken ==
  ASSUME ~EmptyTxn PROVE Spec => []ChainUnbroken
<1>1. Init => ChainInv
  BY ChainStart
<1>2. ChainInv /\ [Next]_vars => ChainInv'
  BY ChainStep
<1>3. ChainInv => ChainUnbroken
  BY ChainHolds
<1> QED BY <1>1, <1>2, <1>3, PTL DEF Spec

-----------------------------------------------------------------------------
(* Sequences put end to end, as compact_history puts the slices.             *)
Joined(q, n) == Seqs!FlattenSeq([k \in 1 .. n |-> q[k]])

(* Whatever holds of 0, and of n + 1 if it does of n, holds of all numbers.  *)
LEMMA AllNumbers ==
  ASSUME NEW S, 0 \in S, \A n \in Nat : n \in S => n + 1 \in S
  PROVE  Nat \subseteq S
<1>1. SUFFICES ASSUME Nat \ S # {} PROVE FALSE
  OBVIOUS
<1> DEFINE D == Nat \ S
           x == LeastOf(D)
<1>2. x \in D /\ \A y \in D : x <= y
  <2> HIDE DEF x
  <2> SUFFICES D \in SUBSET Nat /\ D # {}
    BY LeastExists DEF x
  <2> QED BY <1>1
<1> HIDE DEF x
<1>3. x # 0 /\ x - 1 \in Nat /\ x - 1 \in S
  BY <1>2
<1>4. x - 1 + 1 = x
  BY <1>2
<1> QED BY <1>2, <1>3, <1>4

LEMMA JoinRuns ==
  ASSUME NEW s, Len(s) \in Nat \ {0}
  PROVE  LET r == CHOOSE r : r = [i \in 1 .. Len(s) |->
                      IF i = 1 THEN s[i] ELSE r[i - 1] \o s[i]]
         IN r = [i \in 1 .. Len(s) |->
                      IF i = 1 THEN s[i] ELSE r[i - 1] \o s[i]]
<1> DEFINE Runs(f, m) == f = [i \in 1 .. m |->
                           IF i = 1 THEN s[i] ELSE f[i - 1] \o s[i]]
           S == {m \in Nat : \E f : Runs(f, m)}
<1>1. 0 \in S
  <2>1. Runs([i \in 1 .. 0 |-> s], 0)
    OBVIOUS
  <2> QED BY <2>1
<1>2. ASSUME NEW m \in Nat, m \in S PROVE m + 1 \in S
  <2>1. PICK f : Runs(f, m)
    BY <1>2
  <2> DEFINE g == [i \in 1 .. m + 1 |-> IF i # m + 1 THEN f[i] ELSE
                     IF i = 1 THEN s[i] ELSE f[m] \o s[i]]
  <2>2. ASSUME NEW i \in 1 .. m + 1
        PROVE  g[i] = IF i = 1 THEN s[i] ELSE g[i - 1] \o s[i]
    <3>1. CASE i = m + 1
      <4>1. CASE i = 1
        BY <3>1, <4>1
      <4>2. CASE i # 1
        <5>1. g[i - 1] = f[m]
          BY <3>1, <4>2
        <5>2. g[i] = f[m] \o s[i]
          BY <3>1, <4>2
        <5> QED BY <4>2, <5>1, <5>2
      <4> QED BY <4>1, <4>2
    <3>2. CASE i \in 1 .. m
      <4>1. f[i] = IF i = 1 THEN s[i] ELSE f[i - 1] \o s[i]
        BY <2>1, <3>2
      <4>2. g[i] = f[i] /\ (i # 1 => g[i - 1] = f[i - 1])
        BY <3>2
      <4> QED BY <4>1, <4>2
    <3> QED BY <3>1, <3>2
  <2>3. Runs(g, m + 1)
    <3>1. g = [i \in 1 .. m + 1 |-> g[i]]
      OBVIOUS
    <3> HIDE DEF g
    <3>2. [i \in 1 .. m + 1 |-> g[i]] = [i \in 1 .. m + 1 |->
             IF i = 1 THEN s[i] ELSE g[i - 1] \o s[i]]
      BY <2>2, Zenon
    <3> QED BY <3>1, <3>2, Zenon
  <2> HIDE DEF g, Runs
  <2> QED BY <2>3
<1>3. Len(s) \in S
  <2> HIDE DEF S
  <2> QED BY <1>1, <1>2, AllNumbers
<1>4. \E f : Runs(f, Len(s))
  BY <1>3
<1>5. Runs(CHOOSE f : Runs(f, Len(s)), Len(s))
  <2> HIDE DEF Runs
  <2> QED BY <1>4, Zenon
<1> QED BY <1>5, Zenon

(* What it is computed by: the first i of them, for each i.                  *)
Joins(q, n, r) == /\ Joined(q, n) = r[n] /\ r[1] = q[1]
                  /\ \A i \in 2 .. n : r[i] = r[i - 1] \o q[i]
LEMMA JoinBy ==
  ASSUME NEW q, NEW n \in Nat \ {0} PROVE \E r : Joins(q, n, r)
<1> DEFINE s == [k \in 1 .. n |-> q[k]]
           r == CHOOSE r : r = [i \in 1 .. Len(s) |->
                      IF i = 1 THEN s[i] ELSE r[i - 1] \o s[i]]
<1>1. Len(s) = n /\ \A i \in 1 .. n : s[i] = q[i]
  OBVIOUS
<1>2. Joined(q, n) = r[Len(s)]
  <2> Len(s) # 0
    BY <1>1
  <2> QED BY Zenon DEF Joined, Seqs!FlattenSeq
<1> HIDE DEF s
<1>3. r = [i \in 1 .. Len(s) |-> IF i = 1 THEN s[i] ELSE r[i - 1] \o s[i]]
  BY <1>1, JoinRuns
<1> HIDE DEF r
<1>4. \A i \in 1 .. n : r[i] = IF i = 1 THEN s[i] ELSE r[i - 1] \o s[i]
  BY <1>1, <1>3
<1>5. r[1] = q[1]
  BY <1>1, <1>4
<1>6. ASSUME NEW i \in 2 .. n PROVE r[i] = r[i - 1] \o q[i]
  <2> i \in 1 .. n /\ i # 1
    OBVIOUS
  <2> QED BY <1>1, <1>4
<1>7. Joined(q, n) = r[n]
  BY <1>1, <1>2
<1> QED BY <1>5, <1>6, <1>7 DEF Joins

LEMMA JoinNone == ASSUME NEW q PROVE Joined(q, 0) = <<>>
<1> DEFINE s == [k \in 1 .. 0 |-> q[k]]
<1>1. s = <<>> /\ Len(s) = 0
  OBVIOUS
<1> QED BY <1>1 DEF Joined, Seqs!FlattenSeq

LEMMA JoinMore ==
  ASSUME NEW S, NEW q, NEW n \in Nat, \A k \in 1 .. n + 1 : q[k] \in Seq(S)
  PROVE  Joined(q, n + 1) = Joined(q, n) \o q[n + 1]
<1>1. CASE n = 0
  <2>1. Joined(q, 1) = q[1]
    <3>1. 1 \in Nat \ {0}
      OBVIOUS
    <3>2. PICK r : Joins(q, 1, r)
      BY <3>1, JoinBy
    <3> QED BY <3>2 DEF Joins
  <2> QED BY <1>1, <2>1, JoinNone
<1>2. CASE n # 0
  <2>1. PICK r : Joins(q, n, r)
    BY <1>2, JoinBy
  <2>2. PICK t : Joins(q, n + 1, t)
    <3> n + 1 \in Nat \ {0}
      OBVIOUS
    <3> QED BY JoinBy
  <2> DEFINE E == {i \in Nat : i + 1 <= n => r[i + 1] = t[i + 1]}
  <2>3. 0 \in E
    BY <2>1, <2>2 DEF Joins
  <2>4. ASSUME NEW i \in Nat, i \in E PROVE i + 1 \in E
    <3> SUFFICES ASSUME i + 2 <= n PROVE r[i + 2] = t[i + 2]
      OBVIOUS
    <3>1. i + 2 \in 2 .. n /\ i + 2 \in 2 .. n + 1 /\ (i + 2) - 1 = i + 1
      OBVIOUS
    <3>2. r[i + 1] = t[i + 1]
      BY <2>4
    <3> QED BY <2>1, <2>2, <3>1, <3>2 DEF Joins
  <2> HIDE DEF E
  <2>5. n - 1 \in E /\ (n - 1) + 1 = n
    BY <1>2, <2>3, <2>4, AllNumbers
  <2>6. r[n] = t[n]
    BY <1>2, <2>5 DEF E
  <2>7. n + 1 \in 2 .. n + 1 /\ (n + 1) - 1 = n
    BY <1>2
  <2> QED BY <2>1, <2>2, <2>6, <2>7 DEF Joins
<1> QED BY <1>1, <1>2

(* A sequence that others are put behind.                                    *)
Starts(s, t) == Len(s) <= Len(t) /\ \A i \in 1 .. Len(s) : t[i] = s[i]

LEMMA JoinType ==
  ASSUME NEW S, NEW q, NEW n \in Nat, \A k \in 1 .. n : q[k] \in Seq(S)
  PROVE  Joined(q, n) \in Seq(S)
<1> DEFINE E == {m \in Nat : m <= n => Joined(q, m) \in Seq(S)}
<1>1. 0 \in E
  BY JoinNone, EmptySeq
<1>2. ASSUME NEW m \in Nat, m \in E PROVE m + 1 \in E
  <2> SUFFICES ASSUME m + 1 <= n PROVE Joined(q, m + 1) \in Seq(S)
    OBVIOUS
  <2>1. \A k \in 1 .. m + 1 : q[k] \in Seq(S)
    OBVIOUS
  <2>2. Joined(q, m + 1) = Joined(q, m) \o q[m + 1]
    BY <2>1, JoinMore
  <2>3. Joined(q, m) \in Seq(S) /\ q[m + 1] \in Seq(S)
    BY <1>2, <2>1
  <2> QED BY <2>2, <2>3, ConcatProperties
<1> HIDE DEF E
<1>3. n \in E
  BY <1>1, <1>2, AllNumbers
<1> QED BY <1>3 DEF E

LEMMA JoinStarts ==
  ASSUME NEW S, NEW q, NEW n \in Nat, \A k \in 1 .. n : q[k] \in Seq(S),
         NEW m \in 0 .. n
  PROVE  Starts(Joined(q, m), Joined(q, n))
<1> DEFINE E == {d \in Nat : m + d <= n =>
                   Starts(Joined(q, m), Joined(q, m + d))}
<1>1. \A k \in 0 .. n : Joined(q, k) \in Seq(S) /\ Len(Joined(q, k)) \in Nat
  <2> TAKE k \in 0 .. n
  <2> k \in Nat /\ \A j \in 1 .. k : q[j] \in Seq(S)
    OBVIOUS
  <2>1. Joined(q, k) \in Seq(S)
    BY JoinType
  <2> QED BY <2>1, LenProperties
<1>2. 0 \in E
  BY <1>1 DEF Starts
<1>3. ASSUME NEW d \in Nat, d \in E PROVE d + 1 \in E
  <2> DEFINE e == m + d
  <2> SUFFICES ASSUME e + 1 <= n
               PROVE  Starts(Joined(q, m), Joined(q, e + 1))
    OBVIOUS
  <2>1. e \in Nat /\ e \in 0 .. n /\ e + 1 \in 1 .. n
    OBVIOUS
  <2>2. Starts(Joined(q, m), Joined(q, e))
    BY <1>3
  <2> HIDE DEF e
  <2>3. \A k \in 1 .. e + 1 : q[k] \in Seq(S)
    BY <2>1
  <2>4. Joined(q, e + 1) = Joined(q, e) \o q[e + 1]
    BY <2>1, <2>3, JoinMore
  <2>5. /\ Len(Joined(q, e + 1)) = Len(Joined(q, e)) + Len(q[e + 1])
        /\ Len(q[e + 1]) \in Nat /\ Len(Joined(q, e)) \in Nat
        /\ \A i \in 1 .. Len(Joined(q, e)) :
             Joined(q, e + 1)[i] = Joined(q, e)[i]
    BY <1>1, <2>1, <2>4, ConcatProperties, LenProperties
  <2>6. Len(Joined(q, m)) \in Nat
    BY <1>1
  <2> QED BY <2>2, <2>5, <2>6 DEF Starts
<1> HIDE DEF E
<1>4. n - m \in E /\ m + (n - m) = n
  BY <1>2, <1>3, AllNumbers
<1> QED BY <1>4 DEF E

(* Where the m-th has come to.                                               *)
AllSeq(S, q, n)   == \A k \in 1 .. n : q[k] \in Seq(S)
JoinedAt(q, n, m) ==
  /\ Len(Joined(q, m)) = Len(Joined(q, m - 1)) + Len(q[m])
  /\ Len(Joined(q, m)) <= Len(Joined(q, n))
  /\ \A i \in 1 .. Len(q[m]) :
       Joined(q, n)[Len(Joined(q, m - 1)) + i] = q[m][i]

LEMMA JoinAt ==
  ASSUME NEW S, NEW q, NEW n \in Nat, AllSeq(S, q, n), NEW m \in 1 .. n
  PROVE  JoinedAt(q, n, m)
<1>0. \A k \in 1 .. n : q[k] \in Seq(S)
  BY DEF AllSeq
<1>1. /\ m - 1 \in Nat /\ (m - 1) + 1 = m /\ m \in 0 .. n
      /\ \A k \in 1 .. m - 1 : q[k] \in Seq(S)
      /\ \A k \in 1 .. (m - 1) + 1 : q[k] \in Seq(S)
  BY <1>0
<1>2. Joined(q, m) = Joined(q, m - 1) \o q[m]
  <2>1. Joined(q, (m - 1) + 1) = Joined(q, m - 1) \o q[(m - 1) + 1]
    BY <1>1, JoinMore
  <2> QED BY <1>1, <2>1
<1>3. Joined(q, m - 1) \in Seq(S) /\ q[m] \in Seq(S)
  BY <1>1, JoinType
<1>4. /\ Len(Joined(q, m)) = Len(Joined(q, m - 1)) + Len(q[m])
      /\ Len(q[m]) \in Nat /\ Len(Joined(q, m - 1)) \in Nat
  BY <1>2, <1>3, ConcatProperties, LenProperties
<1>5. ASSUME NEW i \in 1 .. Len(q[m])
      PROVE  Joined(q, m)[Len(Joined(q, m - 1)) + i] = q[m][i]
  <2> DEFINE j == Len(Joined(q, m - 1)) + i
  <2>1. /\ j \in 1 .. Len(Joined(q, m - 1)) + Len(q[m])
        /\ j > Len(Joined(q, m - 1)) /\ j - Len(Joined(q, m - 1)) = i
    BY <1>4
  <2> HIDE DEF j
  <2>2. Joined(q, m)[j] = q[m][j - Len(Joined(q, m - 1))]
    BY <1>2, <1>3, <1>4, <2>1, ConcatProperties
  <2> QED BY <2>1, <2>2 DEF j
<1>6. Starts(Joined(q, m), Joined(q, n))
  BY <1>0, <1>1, JoinStarts
<1>7. Len(Joined(q, m)) <= Len(Joined(q, n))
  BY <1>6 DEF Starts
<1>8. ASSUME NEW i \in 1 .. Len(q[m])
      PROVE  Joined(q, n)[Len(Joined(q, m - 1)) + i] = q[m][i]
  <2>1. Len(Joined(q, m - 1)) + i \in 1 .. Len(Joined(q, m))
    BY <1>4
  <2> QED BY <1>5, <1>6, <2>1 DEF Starts
<1> QED BY <1>4, <1>7, <1>8 DEF JoinedAt

-----------------------------------------------------------------------------
(* Texts.                                                                    *)

LEMMA Pieces ==
  ASSUME NEW S, NEW s \in Seq(S), NEW m \in Nat, NEW n \in Nat,
         m <= n, n <= Len(s)
  PROVE  /\ SubSeq(s, m + 1, n) \in Seq(S)
         /\ Len(SubSeq(s, m + 1, n)) = n - m
         /\ \A i \in 1 .. n - m : SubSeq(s, m + 1, n)[i] = s[m + i]
<1>1. Len(s) \in Nat /\ n - m \in Nat
  BY LenProperties
<1>2. \A i \in 1 .. n - m : s[m + i] \in S
  <2> TAKE i \in 1 .. n - m
  <2> m + i \in 1 .. Len(s)
    BY <1>1
  <2> QED BY ElementOfSeq
<1>3. SubSeq(s, m + 1, n) = [i \in 1 .. n - m |-> s[m + i]]
  <2>1. (1 + n) - (m + 1) = n - m
    OBVIOUS
  <2> QED BY SMT
<1>4. [i \in 1 .. n - m |-> s[m + i]] \in Seq(S)
  BY <1>1, <1>2, IsASeq
<1> QED BY <1>1, <1>3, <1>4

(* What Splice gives; what SubSeq gives.                                     *)
Spliced(S, s, off, n, b) ==
  /\ Splice(s, off, n, b) \in Seq(S)
  /\ Len(Splice(s, off, n, b)) = Len(s) - n + Len(b)
  /\ \A i \in 1 .. Len(s) - n + Len(b) : Splice(s, off, n, b)[i] =
       IF i <= off THEN s[i] ELSE
       IF i <= off + Len(b) THEN b[i - off] ELSE s[(i - Len(b)) + n]
Piece(S, s, m, n) ==
  /\ SubSeq(s, m + 1, n) \in Seq(S)
  /\ Len(SubSeq(s, m + 1, n)) = n - m
  /\ \A i \in 1 .. n - m : SubSeq(s, m + 1, n)[i] = s[m + i]

LEMMA PieceIs ==
  ASSUME NEW S, NEW s \in Seq(S), NEW m \in Nat, NEW n \in Nat,
         m <= n, n <= Len(s)
  PROVE  Piece(S, s, m, n)
BY Pieces DEF Piece

LEMMA SpliceIs ==
  ASSUME NEW S, NEW s \in Seq(S), NEW b \in Seq(S), NEW off \in Nat,
         NEW n \in Nat, off + n <= Len(s)
  PROVE  Spliced(S, s, off, n, b)
<1>1. Len(s) \in Nat /\ Len(b) \in Nat
  BY LenProperties
<1> DEFINE x == SubSeq(s, 1, off)
           y == SubSeq(s, off + n + 1, Len(s))
<1>2. /\ x \in Seq(S) /\ Len(x) = off /\ \A i \in 1 .. off : x[i] = s[i]
  <2>1. 0 + 1 = 1 /\ off - 0 = off /\ \A i \in 1 .. off : 0 + i = i
    OBVIOUS
  <2>2. 0 <= off /\ off <= Len(s)
    BY <1>1
  <2>3. /\ SubSeq(s, 0 + 1, off) \in Seq(S)
        /\ Len(SubSeq(s, 0 + 1, off)) = off - 0
        /\ \A i \in 1 .. off - 0 : SubSeq(s, 0 + 1, off)[i] = s[0 + i]
    BY <2>2, Pieces
  <2> QED BY <2>1, <2>3
<1>3. /\ y \in Seq(S) /\ Len(y) = Len(s) - (off + n)
      /\ \A i \in 1 .. Len(s) - (off + n) : y[i] = s[(off + n) + i]
  <2>1. off + n \in Nat
    OBVIOUS
  <2> QED BY <1>1, <2>1, Pieces
<1> HIDE DEF x, y
<1> DEFINE xb == x \o b
<1>4. /\ xb \in Seq(S) /\ Len(xb) = off + Len(b)
      /\ \A i \in 1 .. off + Len(b) :
           xb[i] = IF i <= off THEN s[i] ELSE b[i - off]
  <2>1. xb \in Seq(S) /\ Len(xb) = off + Len(b)
    BY <1>1, <1>2, ConcatProperties
  <2>2. ASSUME NEW i \in 1 .. off + Len(b)
        PROVE  xb[i] = IF i <= off THEN s[i] ELSE b[i - off]
    <3>1. i \in 1 .. Len(x) + Len(b)
      BY <1>2
    <3>2. xb[i] = IF i <= Len(x) THEN x[i] ELSE b[i - Len(x)]
      BY <1>2, <3>1, ConcatProperties
    <3> QED BY <1>2, <3>2
  <2> QED BY <2>1, <2>2
<1> HIDE DEF xb
<1>5. /\ xb \o y \in Seq(S)
      /\ Len(xb \o y) = Len(xb) + Len(y)
      /\ \A i \in 1 .. Len(xb) + Len(y) :
            (xb \o y)[i] = IF i <= Len(xb) THEN xb[i] ELSE y[i - Len(xb)]
  <2>0. xb \in Seq(S) /\ y \in Seq(S)
    BY <1>3, <1>4
  <2>1. xb \o y \in Seq(S) /\ Len(xb \o y) = Len(xb) + Len(y)
    BY <2>0, ConcatProperties
  <2>2. ASSUME NEW i \in 1 .. Len(xb) + Len(y)
        PROVE  (xb \o y)[i] =
                  IF i <= Len(xb) THEN xb[i] ELSE y[i - Len(xb)]
    BY <2>0, ConcatProperties
  <2> QED BY <2>1, <2>2
<1>6. Splice(s, off, n, b) = xb \o y
  BY DEF Splice, xb, x, y
<1>7. Len(xb) + Len(y) = Len(s) - n + Len(b)
  BY <1>1, <1>3, <1>4
<1>8. ASSUME NEW i \in 1 .. Len(s) - n + Len(b)
      PROVE  (xb \o y)[i] =
              IF i <= off THEN s[i] ELSE
              IF i <= off + Len(b) THEN b[i - off] ELSE s[(i - Len(b)) + n]
  <2>0. i \in 1 .. Len(xb) + Len(y)
    BY <1>7
  <2>1. CASE i <= off + Len(b)
    <3>1. i \in 1 .. off + Len(b) /\ (xb \o y)[i] = xb[i]
      BY <1>1, <1>4, <1>5, <2>0, <2>1
    <3> QED BY <1>1, <1>4, <2>1, <3>1
  <2>2. CASE ~(i <= off + Len(b))
    <3> DEFINE k == i - Len(xb)
    <3>1. (xb \o y)[i] = y[k]
      BY <1>4, <1>5, <2>0, <2>2
    <3>2. k \in 1 .. Len(s) - (off + n) /\ (off + n) + k = (i - Len(b)) + n
      BY <1>1, <1>4, <2>2
    <3>3. ~(i <= off)
      BY <1>1, <2>2
    <3> HIDE DEF k
    <3> QED BY <1>3, <2>2, <3>1, <3>2, <3>3
  <2> QED BY <2>1, <2>2
<1> QED BY <1>5, <1>6, <1>7, <1>8 DEF Spliced

(* t is s with m bytes for the n bytes g at off.                             *)
Swapped(S, s, t, off, n, m, g) ==
  /\ s \in Seq(S) /\ t \in Seq(S) /\ g \in Seq(S) /\ off \in Nat
  /\ n \in Nat /\ m \in Nat /\ off + n <= Len(s)
  /\ Len(g) = n /\ Len(t) = Len(s) - n + m
  /\ \A i \in 1 .. n : g[i] = s[off + i]
  /\ \A i \in 1 .. Len(s) - n + m :
       /\ i <= off => t[i] = s[i]
       /\ i > off + m => t[i] = s[(i - m) + n]

(* Putting back what was there.                                              *)
LEMMA SpliceUndone ==
  ASSUME NEW S, NEW s, NEW t, NEW g, NEW off, NEW n, NEW m,
         Swapped(S, s, t, off, n, m, g)
  PROVE  Splice(t, off, m, g) = s
<1> /\ s \in Seq(S) /\ t \in Seq(S) /\ g \in Seq(S) /\ off \in Nat
    /\ n \in Nat /\ m \in Nat /\ off + n <= Len(s)
  BY DEF Swapped
<1>0. /\ Len(g) = n /\ Len(t) = Len(s) - n + m
      /\ \A i \in 1 .. n : g[i] = s[off + i]
      /\ \A i \in 1 .. Len(s) - n + m :
            /\ i <= off => t[i] = s[i]
            /\ i > off + m => t[i] = s[(i - m) + n]
  BY DEF Swapped
<1>1. Len(s) \in Nat /\ Len(t) \in Nat
  BY LenProperties
<1>2. off + m <= Len(t)
  BY <1>0, <1>1
<1> DEFINE u == Splice(t, off, m, g)
<1>3. /\ u \in Seq(S) /\ Len(u) = Len(t) - m + Len(g)
      /\ \A i \in 1 .. Len(t) - m + Len(g) : u[i] =
              IF i <= off THEN t[i] ELSE
              IF i <= off + Len(g) THEN g[i - off]
              ELSE t[(i - Len(g)) + m]
  <2>1. Spliced(S, t, off, m, g)
    BY <1>2, SpliceIs
  <2> QED BY <2>1 DEF Spliced
<1> HIDE DEF u
<1>4. Len(u) = Len(s) /\ Len(t) - m + Len(g) = Len(s)
  BY <1>0, <1>1, <1>3
<1>5. ASSUME NEW i \in 1 .. Len(s) PROVE u[i] = s[i]
  <2>0. i \in 1 .. Len(t) - m + Len(g)
    BY <1>4
  <2>1. CASE i <= off
    <3>1. u[i] = t[i]
      BY <1>3, <2>0, <2>1
    <3>2. i \in 1 .. Len(s) - n + m
      BY <1>1, <2>1
    <3> QED BY <1>0, <2>1, <3>1, <3>2
  <2>2. CASE off < i /\ i <= off + n
    <3>0. i <= off + Len(g) /\ ~(i <= off)
      BY <1>0, <2>2
    <3>1. u[i] = g[i - off]
      BY <1>3, <2>0, <3>0
    <3>2. i - off \in 1 .. n /\ off + (i - off) = i
      BY <2>2
    <3>3. g[i - off] = s[off + (i - off)]
      BY <1>0, <3>2
    <3> QED BY <3>1, <3>2, <3>3
  <2>3. CASE off + n < i
    <3> DEFINE k == (i - n) + m
    <3>1. ~(i <= off) /\ ~(i <= off + Len(g)) /\ (i - Len(g)) + m = k
      BY <1>0, <2>3
    <3>2. u[i] = t[k]
      BY <1>3, <2>0, <3>1
    <3>3. /\ k \in 1 .. Len(s) - n + m /\ k > off + m /\ (k - m) + n = i
      BY <1>1, <2>3
    <3> HIDE DEF k
    <3>4. t[k] = s[(k - m) + n]
      BY <1>0, <3>3
    <3> QED BY <3>2, <3>3, <3>4
  <2> QED BY <2>1, <2>2, <2>3
<1>6. u = s
  BY <1>3, <1>4, <1>5, SeqEqual
<1> QED BY <1>6 DEF u

(* b is put where the n bytes g were.                                        *)
Swap(S, s, off, n, b, m, g) ==
  /\ s \in Seq(S) /\ b \in Seq(S) /\ g \in Seq(S) /\ off \in Nat
  /\ n \in Nat /\ m \in Nat /\ off + n <= Len(s) /\ Len(b) = m
  /\ g = SubSeq(s, off + 1, off + n)

LEMMA SpliceBack ==
  ASSUME NEW S, NEW s, NEW off, NEW n, NEW b, NEW m, NEW g,
         Swap(S, s, off, n, b, m, g)
  PROVE  Splice(Splice(s, off, n, b), off, m, g) = s
<1>0. /\ s \in Seq(S) /\ b \in Seq(S) /\ g \in Seq(S) /\ off \in Nat
      /\ n \in Nat /\ m \in Nat /\ off + n <= Len(s) /\ Len(b) = m
      /\ g = SubSeq(s, off + 1, off + n)
  BY DEF Swap
<1> DEFINE t == Splice(s, off, n, b)
<1>1. Len(s) \in Nat
  BY <1>0, LenProperties
<1>2. /\ t \in Seq(S) /\ Len(t) = Len(s) - n + Len(b)
      /\ \A i \in 1 .. Len(s) - n + Len(b) : t[i] =
              IF i <= off THEN s[i] ELSE
              IF i <= off + Len(b) THEN b[i - off] ELSE s[(i - Len(b)) + n]
  <2>1. Spliced(S, s, off, n, b)
    BY <1>0, SpliceIs
  <2> QED BY <2>1 DEF Spliced
<1>3. Len(g) = n /\ \A i \in 1 .. n : g[i] = s[off + i]
  <2>1. off <= off + n /\ off + n \in Nat /\ (off + n) - off = n
    BY <1>0
  <2>2. Piece(S, s, off, off + n)
    BY <1>0, <2>1, PieceIs
  <2>3. /\ Len(g) = (off + n) - off
        /\ \A i \in 1 .. (off + n) - off : g[i] = s[off + i]
    BY <1>0, <2>2 DEF Piece
  <2> QED BY <2>1, <2>3
<1> HIDE DEF t
<1>4. Len(t) = Len(s) - n + m
  BY <1>0, <1>2
<1>5. ASSUME NEW i \in 1 .. Len(s) - n + m, i <= off PROVE t[i] = s[i]
  BY <1>0, <1>1, <1>2, <1>5
<1>6. ASSUME NEW i \in 1 .. Len(s) - n + m, i > off + m
      PROVE  t[i] = s[(i - m) + n]
  BY <1>0, <1>1, <1>2, <1>6
<1>7. t \in Seq(S)
  BY <1>2
<1>8. Swapped(S, s, t, off, n, m, g)
  BY <1>0, <1>3, <1>4, <1>5, <1>6, <1>7 DEF Swapped
<1>9. Splice(t, off, m, g) = s
  BY <1>8, SpliceUndone
<1> QED BY <1>9 DEF t

-----------------------------------------------------------------------------
(* What the operations of a node do, wherever the arenas keep them.          *)

Deed(op, b) ==
  [kind |-> op.kind, off |-> op.off, len |-> op.len, bytes |-> op.bytes,
   gone |-> IF op.kind = "INS" THEN <<>>
            ELSE SubSeq(b, op.payload + 1, op.payload + op.len)]
Deeds(q, o, b) == [k \in 1 .. q.n_ops |-> Deed(o[q.ops_at + k], b)]

Forward(d, s) ==
  Splice(s, d.off, IF d.kind = "INS" THEN 0 ELSE d.len, d.bytes)
Backward(d, t) == IF d.kind = "INS" THEN Splice(t, d.off, d.len, <<>>)
                  ELSE Splice(t, d.off, 0, d.gone)
Does(d, s, t)  == t = Forward(d, s) /\ s = Backward(d, t)

(* The deeds d lead from the text f through s, after i of them, and through  *)
(* t, after j, and back again.                                               *)
Leads(d, h) == /\ h \in [0 .. Len(d) -> Text]
               /\ \A k \in 1 .. Len(d) : Does(d[k], h[k - 1], h[k])
Told(d, f, i, s, j, t) ==
  /\ i \in 0 .. Len(d) /\ j \in 0 .. Len(d)
  /\ \E h : Leads(d, h) /\ h[0] = f /\ h[i] = s /\ h[j] = t

LEMMA ToldFacts ==
  ASSUME NEW d, Len(d) \in Nat, NEW f, NEW i, NEW s, NEW j, NEW t,
         Told(d, f, i, s, j, t)
  PROVE  /\ {f, s, t} \subseteq Text
         /\ Told(d, f, i, s, i, s) /\ Told(d, f, i, s, 0, f)
         /\ j = 0 => t = f
         /\ j = i => t = s
<1>1. PICK h : Leads(d, h) /\ h[0] = f /\ h[i] = s /\ h[j] = t
  BY DEF Told
<1>2. i \in 0 .. Len(d) /\ j \in 0 .. Len(d) /\ 0 \in 0 .. Len(d)
  BY DEF Told
<1>3. {f, s, t} \subseteq Text
  BY <1>1, <1>2 DEF Leads
<1> QED BY <1>1, <1>2, <1>3 DEF Told

(* One operation undone, one done again.                                     *)
LEMMA ToldBack ==
  ASSUME NEW d, Len(d) \in Nat, NEW f, NEW i, NEW s, NEW j, NEW t,
         Told(d, f, i, s, j, t), j > 0
  PROVE  Told(d, f, i, s, j - 1, Backward(d[j], t))
<1>1. PICK h : Leads(d, h) /\ h[0] = f /\ h[i] = s /\ h[j] = t
  BY DEF Told
<1>2. i \in 0 .. Len(d) /\ j \in 1 .. Len(d) /\ j - 1 \in 0 .. Len(d)
  BY DEF Told
<1>3. h[j - 1] = Backward(d[j], t)
  BY <1>1, <1>2 DEF Leads, Does
<1> QED BY <1>1, <1>2, <1>3 DEF Told

LEMMA ToldForth ==
  ASSUME NEW d, Len(d) \in Nat, NEW f, NEW i, NEW s, NEW j, NEW t,
         Told(d, f, i, s, j, t), j < Len(d)
  PROVE  Told(d, f, i, s, j + 1, Forward(d[j + 1], t))
<1>1. PICK h : Leads(d, h) /\ h[0] = f /\ h[i] = s /\ h[j] = t
  BY DEF Told
<1>2. /\ i \in 0 .. Len(d) /\ j \in 0 .. Len(d) /\ j + 1 \in 1 .. Len(d)
      /\ j + 1 \in 0 .. Len(d) /\ (j + 1) - 1 = j
  BY DEF Told
<1>3. h[j + 1] = Forward(d[j + 1], t)
  BY <1>1, <1>2 DEF Leads, Does
<1> QED BY <1>1, <1>2, <1>3 DEF Told

(* One more at the end; the first m alone; none.                             *)
LEMMA ToldMore ==
  ASSUME NEW d, Len(d) \in Nat, NEW f, NEW i, NEW s, NEW t,
         Told(d, f, i, s, Len(d), t), NEW u \in Text,
         NEW e, Len(e) = Len(d) + 1, \A k \in 1 .. Len(d) : e[k] = d[k],
         Does(e[Len(d) + 1], t, u)
  PROVE  Told(e, f, i, s, Len(e), u)
<1>1. PICK h : Leads(d, h) /\ h[0] = f /\ h[i] = s /\ h[Len(d)] = t
  BY DEF Told
<1> DEFINE g == [k \in 0 .. Len(e) |-> IF k = Len(e) THEN u ELSE h[k]]
<1>2. /\ i \in 0 .. Len(d) /\ i \in 0 .. Len(e) /\ i # Len(e)
      /\ Len(e) \in 0 .. Len(e) /\ 0 \in 0 .. Len(e) /\ 0 # Len(e)
  BY DEF Told
<1>3. h \in [0 .. Len(d) -> Text]
  BY <1>1 DEF Leads
<1>4. g \in [0 .. Len(e) -> Text]
  BY <1>3
<1>5. ASSUME NEW k \in 1 .. Len(e) PROVE Does(e[k], g[k - 1], g[k])
  <2>1. CASE k = Len(d) + 1
    <3>1. g[k] = u /\ g[k - 1] = h[Len(d)]
      BY <2>1
    <3> HIDE DEF g
    <3> QED BY <1>1, <2>1, <3>1
  <2>2. CASE k \in 1 .. Len(d)
    <3>1. g[k] = h[k] /\ g[k - 1] = h[k - 1]
      BY <2>2
    <3>2. Does(d[k], h[k - 1], h[k]) /\ e[k] = d[k]
      BY <1>1, <2>2 DEF Leads
    <3> HIDE DEF g
    <3> QED BY <3>1, <3>2
  <2> QED BY <2>1, <2>2
<1>6. g[0] = f /\ g[i] = s /\ g[Len(e)] = u
  BY <1>1, <1>2
<1> HIDE DEF g
<1>7. Leads(e, g)
  BY <1>4, <1>5 DEF Leads
<1> QED BY <1>2, <1>6, <1>7 DEF Told

LEMMA ToldLess ==
  ASSUME NEW d, Len(d) \in Nat, NEW f, NEW i, NEW s, NEW j, NEW t,
         Told(d, f, i, s, j, t),
         NEW e, Len(e) = i, \A k \in 1 .. i : e[k] = d[k]
  PROVE  Told(e, f, i, s, 0, f)
<1>1. PICK h : Leads(d, h) /\ h[0] = f /\ h[i] = s
  BY DEF Told
<1> DEFINE g == [k \in 0 .. i |-> h[k]]
<1>2. i \in 0 .. Len(d) /\ i \in 0 .. i /\ 0 \in 0 .. i
  BY DEF Told
<1>3. g \in [0 .. Len(e) -> Text]
  BY <1>1, <1>2 DEF Leads
<1>4. ASSUME NEW k \in 1 .. i PROVE Does(e[k], g[k - 1], g[k])
  <2>1. g[k] = h[k] /\ g[k - 1] = h[k - 1] /\ k \in 1 .. Len(d)
    BY <1>2
  <2>2. Does(d[k], h[k - 1], h[k]) /\ e[k] = d[k]
    BY <1>1, <2>1 DEF Leads
  <2> HIDE DEF g
  <2> QED BY <2>1, <2>2
<1>5. g[0] = f /\ g[i] = s
  BY <1>1, <1>2
<1> HIDE DEF g
<1>6. Leads(e, g)
  BY <1>3, <1>4 DEF Leads
<1> QED BY <1>2, <1>5, <1>6 DEF Told

LEMMA ToldNone ==
  ASSUME NEW f \in Text, NEW d, Len(d) = 0 PROVE Told(d, f, 0, f, 0, f)
<1> DEFINE h == [k \in 0 .. 0 |-> f]
<1>1. h \in [0 .. Len(d) -> Text] /\ h[0] = f /\ 0 \in 0 .. Len(d)
  OBVIOUS
<1> HIDE DEF h
<1> QED BY <1>1 DEF Told, Leads

-----------------------------------------------------------------------------
(* The rest of the invariant.                                                *)

Numbers(q) == /\ q.ops_at \in Nat /\ q.n_ops \in Nat
              /\ q.blob_lo \in Nat /\ q.blob_hi \in Nat
Links(q)   == /\ q.parent \in Ids \cup {0} /\ q.kids \in SUBSET Ids
              /\ q.redo \in Ids \cup {0}
              /\ q.reason \in Reasons \cup {"NONE"}
Typed(nd)  == \A n \in Ids : Numbers(nd[n]) /\ Links(nd[n])

Types ==
  /\ text \in Text /\ Typed(node) /\ ops \in Seq(Op) /\ blobs \in Text
  /\ past \in [Ids -> Text]
  /\ reason \in Reasons \cup {"NONE"} /\ boundary \in BOOLEAN
  /\ kept \in [on : BOOLEAN, n_ops : Nat, blob_hi : Nat]
  /\ walk.t \in Ids \cup {0} /\ walk.path \in Seq(Ids) /\ walk.i \in Nat

Ends(q) == q.ops_at + q.n_ops

(* The slices of a node are in the arenas, and its deleted bytes in its      *)
(* slice of the blobs.                                                       *)
Within(q, o, b) ==
  /\ Ends(q) <= Len(o) /\ q.blob_lo <= q.blob_hi /\ q.blob_hi <= Len(b)
  /\ \A k \in 1 .. q.n_ops : o[q.ops_at + k].kind # "INS" =>
       /\ q.blob_lo <= o[q.ops_at + k].payload
       /\ o[q.ops_at + k].payload + o[q.ops_at + k].len <= q.blob_hi

Inside(nd, o, b) == \A n \in Alive(nd) : Within(nd[n], o, b)

(* They follow each other in the order of the ids, ...                       *)
InOrder(nd) ==
  \A m, n \in Alive(nd) : m < n => /\ Ends(nd[m]) <= nd[n].ops_at
                                   /\ nd[m].blob_hi <= nd[n].blob_lo

(* ... with no gap behind a node that has operations, which all but the root *)
(* have.                                                                     *)
Busy(nd, r) == \A n \in Alive(nd) \ {r} : nd[n].n_ops > 0
Meet(nd, l, o, b) ==
  \A n \in Alive(nd) : nd[n].n_ops # 0 =>
    /\ n = l => Ends(nd[n]) = Len(o) /\ nd[n].blob_hi = Len(b)
    /\ n + 1 \in Alive(nd) => /\ Ends(nd[n]) = nd[n + 1].ops_at
                              /\ nd[n].blob_hi = nd[n + 1].blob_lo

Arena(nd, r, l, o, b) ==
  Inside(nd, o, b) /\ InOrder(nd) /\ Busy(nd, r) /\ Meet(nd, l, o, b)

(* The operations of a node lead from the text of its parent through s to t, *)
(* and all of them to the text of the node.                                  *)
Midway(q, o, b, p, i, s, j, t) ==
  Told(Deeds(q, o, b), p[q.parent], i, s, j, t)
Story(q, o, b, p, n) ==
  Midway(q, o, b, p, q.n_ops, p[n], 0, p[q.parent])
Stories(nd, r, x, o, b, p) ==
  \A n \in Alive(nd) \ {r, x} : Story(nd[n], o, b, p, n)

(* Where the text has got to between the texts of two nodes.                 *)
Standing ==
  /\ open = 0 /\ pc \in {"idle", "trim", "travel"} => text = past[cur]
  /\ open # 0 => Midway(node[open], ops, blobs, past, kept.n_ops, before.text,
                   IF pc = "abort" THEN walk.i ELSE node[open].n_ops, text)
  /\ pc = "back"  => Midway(node[cur], ops, blobs, past, node[cur].n_ops,
                            past[cur], walk.i, text)
  /\ pc = "forth" => Midway(node[Child], ops, blobs, past,
                            node[Child].n_ops, past[Child], walk.i, text)

(* What the open node is to keep, and what its abort is to bring back.       *)
KeptFits ==
  /\ before.text = past[open] /\ kept.n_ops \in 1 .. node[open].n_ops
  /\ kept.blob_hi \in node[open].blob_lo .. node[open].blob_hi
  /\ \A k \in 1 .. kept.n_ops : ops[node[open].ops_at + k].kind # "INS" =>
       ops[node[open].ops_at + k].payload + ops[node[open].ops_at + k].len
         <= kept.blob_hi
Return ==
  [cur |-> IF kept.on THEN cur ELSE node[open].parent, text |-> before.text,
   live |-> IF kept.on THEN Alive(node) ELSE Alive(node) \ {open},
   ops |-> SubSeq(ops, 1, node[open].ops_at + kept.n_ops),
   blobs |-> SubSeq(blobs, 1, IF kept.on THEN kept.blob_hi
                              ELSE node[open].blob_lo)]
Opened ==
  /\ ~kept.on => kept = NotReopened
  /\ kept.on => KeptFits
  /\ open # 0 => /\ Ends(node[open]) = Len(ops)
                 /\ node[open].blob_hi = Len(blobs)
  /\ nest > 0 => before = IF open = 0 THEN Snapshot ELSE Return
  /\ pc = "abort" => walk.i \in kept.n_ops .. node[open].n_ops

SavePoint ==
  /\ ~amended => disk = past[saved]
  /\ open # 0 /\ open = saved => amended
  /\ nest = 0 /\ ~boundary => cur # saved

UndoRest ==
  /\ Types /\ Arena(node, root, len, ops, blobs)
  /\ Stories(node, root, open, ops, blobs, past)
  /\ Standing /\ Opened /\ SavePoint
UndoInv == ChainInv /\ UndoRest

-----------------------------------------------------------------------------
(* Nodes of which a step changes neither who they hang from nor their        *)
(* slices.                                                                   *)
Alike(q, p) ==
  /\ p.live = q.live /\ p.parent = q.parent /\ p.ops_at = q.ops_at
  /\ p.n_ops = q.n_ops /\ p.blob_lo = q.blob_lo /\ p.blob_hi = q.blob_hi

LEMMA InNode ==
  ASSUME NEW q, IsNode(q), Numbers(q), Links(q) PROVE q \in Node
<1>1. /\ q.live \in BOOLEAN /\ q.depth \in Int
      /\ q.parent \in Ids \cup {0} /\ q.kids \in SUBSET Ids
      /\ q.redo \in Ids \cup {0} /\ q.reason \in Reasons \cup {"NONE"}
      /\ q.ops_at \in Nat /\ q.n_ops \in Nat
      /\ q.blob_lo \in Nat /\ q.blob_hi \in Nat
  BY DEF IsNode, Numbers, Links
<1>2. q = [live |-> q.live, parent |-> q.parent, kids |-> q.kids,
          redo |-> q.redo, depth |-> q.depth, reason |-> q.reason,
          ops_at |-> q.ops_at, n_ops |-> q.n_ops, blob_lo |-> q.blob_lo,
          blob_hi |-> q.blob_hi]
  BY DEF IsNode
<1> QED BY <1>1, <1>2 DEF Node

LEMMA DeedsAre ==
  ASSUME NEW q, q.n_ops \in Nat, NEW o, NEW b
  PROVE  /\ Len(Deeds(q, o, b)) = q.n_ops /\ Len(Deeds(q, o, b)) \in Nat
         /\ \A k \in 1 .. q.n_ops :
              Deeds(q, o, b)[k] = Deed(o[q.ops_at + k], b)
BY DEF Deeds

(* Arenas that agree on the slices of a node tell its story alike.           *)
Agree(s, t, n) == n <= Len(s) /\ n <= Len(t) /\ \A i \in 1 .. n : t[i] = s[i]

LEMMA AgreePiece ==
  ASSUME NEW S, NEW s \in Seq(S), NEW t \in Seq(S), NEW m \in Nat,
         NEW n \in Nat, m <= n, Agree(s, t, n)
  PROVE  SubSeq(t, m + 1, n) = SubSeq(s, m + 1, n)
<1>1. n <= Len(s) /\ n <= Len(t) /\ \A i \in 1 .. n : t[i] = s[i]
  BY DEF Agree
<1>2. Piece(S, s, m, n) /\ Piece(S, t, m, n)
  BY <1>1, PieceIs
<1>3. ASSUME NEW i \in 1 .. n - m
      PROVE  SubSeq(t, m + 1, n)[i] = SubSeq(s, m + 1, n)[i]
  <2>1. m + i \in 1 .. n
    OBVIOUS
  <2> QED BY <1>1, <1>2, <2>1 DEF Piece
<1>4. /\ SubSeq(t, m + 1, n) \in Seq(S) /\ SubSeq(s, m + 1, n) \in Seq(S)
      /\ Len(SubSeq(t, m + 1, n)) = n - m /\ Len(SubSeq(s, m + 1, n)) = n - m
  BY <1>2 DEF Piece
<1> QED BY <1>3, <1>4, SeqEqual

LEMMA SameDeeds ==
  ASSUME NEW q, Numbers(q), NEW o \in Seq(Op), NEW p \in Seq(Op),
         NEW b \in Text, NEW c \in Text, Within(q, o, b),
         Agree(o, p, Ends(q)), Agree(b, c, q.blob_hi)
  PROVE  Deeds(q, p, c) = Deeds(q, o, b) /\ Within(q, p, c)
<1>1. /\ q.ops_at \in Nat /\ q.n_ops \in Nat /\ q.blob_lo \in Nat
      /\ q.blob_hi \in Nat
  BY DEF Numbers
<1>2. ASSUME NEW k \in 1 .. q.n_ops
      PROVE  /\ p[q.ops_at + k] = o[q.ops_at + k]
             /\ Deed(p[q.ops_at + k], c) = Deed(o[q.ops_at + k], b)
  <2> DEFINE i == q.ops_at + k
             op == o[i]
  <2>1. i \in 1 .. Ends(q) /\ Ends(q) <= Len(o) /\ Ends(q) \in Nat
    BY <1>1 DEF Ends, Within
  <2>2. p[i] = o[i] /\ i \in 1 .. Len(o)
    BY <2>1, LenProperties DEF Agree
  <2>3. op \in Op
    BY <2>2, ElementOfSeq
  <2>4. op.kind # "INS" => op.payload + op.len <= q.blob_hi
    BY DEF Within
  <2>5. op.payload \in Nat /\ op.len \in Nat
    BY <2>3 DEF Op
  <2> HIDE DEF op, i
  <2>6. Deed(op, c) = Deed(op, b)
    <3>1. CASE op.kind = "INS"
      BY <3>1 DEF Deed
    <3>2. CASE op.kind # "INS"
      <4> DEFINE m == op.payload
                 n == op.payload + op.len
      <4>1. m \in Nat /\ n \in Nat /\ m <= n /\ n <= q.blob_hi
        BY <2>4, <2>5, <3>2
      <4> HIDE DEF m, n
      <4>2. Agree(b, c, n)
        <5>1. Len(b) \in Nat /\ Len(c) \in Nat
          BY LenProperties DEF Text
        <5> QED BY <1>1, <4>1, <5>1 DEF Agree
      <4>3. SubSeq(c, m + 1, n) = SubSeq(b, m + 1, n)
        BY <4>1, <4>2, AgreePiece DEF Text
      <4> QED BY <4>3 DEF Deed, m, n
    <3> QED BY <3>1, <3>2
  <2>7. p[i] = o[i] /\ Deed(p[i], c) = Deed(o[i], b)
    BY <2>2, <2>6 DEF op
  <2> QED BY <2>7 DEF i
<1>3. Deeds(q, p, c) = Deeds(q, o, b)
  BY <1>2 DEF Deeds
<1>4. Within(q, p, c)
  BY <1>1, <1>2 DEF Within, Agree
<1> QED BY <1>3, <1>4

(* What each operation on nodes leaves of their links and slices.            *)

LEMMA NothingTyped == Numbers(NoNode) /\ Links(NoNode)
BY DEF NoNode, Numbers, Links

(* Pointing redo at a child.                                                 *)
LEMMA RedoAlike ==
  ASSUME NEW nd, NEW md, NEW n \in Ids, NEW k \in nd[n].kids,
         Shape(nd), Typed(nd),
         \A j \in Ids \ {n} : md[j] = nd[j], md[n] = [nd[n] EXCEPT !.redo = k]
  PROVE  Typed(md) /\ \A j \in Ids : Alike(nd[j], md[j])
<1>1. \A j \in Ids \ {n} : md[j] = nd[j]
  OBVIOUS
<1>2. md[n] = [nd[n] EXCEPT !.redo = k]
  OBVIOUS
<1>3. md[n] = [live |-> nd[n].live, parent |-> nd[n].parent,
                   kids |-> nd[n].kids, redo |-> k,
                   depth |-> nd[n].depth, reason |-> nd[n].reason,
                   ops_at |-> nd[n].ops_at, n_ops |-> nd[n].n_ops,
                   blob_lo |-> nd[n].blob_lo, blob_hi |-> nd[n].blob_hi]
  BY <1>2 DEF Shape, IsNode
<1>4. Alike(nd[n], md[n])
  BY <1>3 DEF Alike
<1>5. Numbers(nd[n]) /\ Links(nd[n])
  BY DEF Typed
<1>6. Numbers(md[n]) /\ Links(md[n])
  BY <1>3, <1>5 DEF Numbers, Links
<1> QED BY <1>1, <1>4, <1>6 DEF Typed, Alike

(* A change of the end of the slices of a node.                              *)
Retailed(nd, md, n, a, b) ==
  /\ \A j \in Ids \ {n} : md[j] = nd[j]
  /\ md[n] = [live |-> nd[n].live, parent |-> nd[n].parent,
              kids |-> nd[n].kids, redo |-> nd[n].redo,
              depth |-> nd[n].depth, reason |-> nd[n].reason,
              ops_at |-> nd[n].ops_at, n_ops |-> a,
              blob_lo |-> nd[n].blob_lo, blob_hi |-> b]

LEMMA TailIs ==
  ASSUME NEW nd, NEW n \in Ids, NEW a, NEW b, Shape(nd)
  PROVE  Retailed(nd, [nd EXCEPT ![n].n_ops = a, ![n].blob_hi = b], n, a, b)
<1> DEFINE q == [nd EXCEPT ![n].n_ops = a, ![n].blob_hi = b]
           m == [nd EXCEPT ![n].n_ops = a]
<1>1. \A j \in Ids \ {n} : q[j] = nd[j]
  BY DEF Shape, IsNode
<1>2. m[n] = [nd[n] EXCEPT !.n_ops = a] /\ m = [j \in Ids |-> m[j]]
  BY DEF Shape, IsNode
<1>3. m[n] = [live |-> nd[n].live, parent |-> nd[n].parent,
                   kids |-> nd[n].kids, redo |-> nd[n].redo,
                   depth |-> nd[n].depth, reason |-> nd[n].reason,
                   ops_at |-> nd[n].ops_at, n_ops |-> a,
                   blob_lo |-> nd[n].blob_lo, blob_hi |-> nd[n].blob_hi]
  BY <1>2 DEF Shape, IsNode
<1>4. q = [m EXCEPT ![n].blob_hi = b]
  OBVIOUS
<1> HIDE DEF m, q
<1>5. q[n] = [live |-> nd[n].live, parent |-> nd[n].parent,
                   kids |-> nd[n].kids, redo |-> nd[n].redo,
                   depth |-> nd[n].depth, reason |-> nd[n].reason,
                   ops_at |-> nd[n].ops_at, n_ops |-> a,
                   blob_lo |-> nd[n].blob_lo, blob_hi |-> b]
  BY <1>2, <1>3, <1>4
<1>6. Retailed(nd, q, n, a, b)
  BY ONLY <1>1, <1>5 DEF Retailed
<1> QED BY <1>6 DEF q

(* open_node.                                                                *)
LEMMA LinkedNodes ==
  ASSUME Tree(node, root), Counted, Typed(node), Len(ops) \in Nat,
         Len(blobs) \in Nat, len + 1 \in Ids, NEW op,
         EditReason(op) \in Reasons \cup {"NONE"}
  PROVE  /\ \A j \in Ids \ {len + 1} : Alike(node[j], Linked(op)[j])
         /\ Linked(op)[len + 1] = NewNode(op) /\ Typed(Linked(op))
<1> DEFINE new == len + 1
           md == Linked(op)
<1>1. /\ new \in Ids /\ cur \in Ids /\ cur # new
  BY DEF Counted, Alive, Ids
<1>2. \A j \in Ids \ {new, cur} : md[j] = node[j]
  BY DEF Linked, Tree, Shape, IsNode
<1>3. md[new] = NewNode(op)
  BY <1>1 DEF Linked, Tree, Shape, IsNode
<1>4. md[cur] = [live |-> node[cur].live, parent |-> node[cur].parent,
                 kids |-> node[cur].kids \cup {new}, redo |-> new,
                 depth |-> node[cur].depth, reason |-> node[cur].reason,
                 ops_at |-> node[cur].ops_at, n_ops |-> node[cur].n_ops,
                 blob_lo |-> node[cur].blob_lo, blob_hi |-> node[cur].blob_hi]
  <2>1. node = [j \in Ids |-> node[j]]
    BY DEF Tree, Shape, IsNode
  <2>2. md = [[[node EXCEPT ![new] = NewNode(op)]
                EXCEPT ![cur].kids = node[cur].kids \cup {new}]
                EXCEPT ![cur].redo = new]
    BY <1>1, <2>1 DEF Linked
  <2>3. node[cur] = [live |-> node[cur].live, parent |-> node[cur].parent,
                     kids |-> node[cur].kids, redo |-> node[cur].redo,
                     depth |-> node[cur].depth, reason |-> node[cur].reason,
                     ops_at |-> node[cur].ops_at, n_ops |-> node[cur].n_ops,
                     blob_lo |-> node[cur].blob_lo,
                     blob_hi |-> node[cur].blob_hi]
    BY <1>1 DEF Tree, Shape, IsNode
  <2> HIDE DEF md
  <2> QED BY <1>1, <2>1, <2>2, <2>3
<1>5. Numbers(node[cur]) /\ Links(node[cur])
  BY <1>1 DEF Typed
<1> HIDE DEF md, new
<1>6. Numbers(md[cur]) /\ Links(md[cur]) /\ Alike(node[cur], md[cur])
  <2>1. node[cur].kids \cup {new} \in SUBSET Ids
    BY <1>1, <1>5 DEF Links
  <2>2. new \in Ids \cup {0}
    BY <1>1
  <2> QED BY <1>4, <1>5, <2>1, <2>2 DEF Numbers, Links, Alike
<1>7. Numbers(md[new]) /\ Links(md[new])
  <2>1. NewNode(op) = [live |-> TRUE, parent |-> cur, kids |-> {}, redo |-> 0,
                     depth |-> node[cur].depth + 1, reason |-> EditReason(op),
                     ops_at |-> Len(ops), n_ops |-> 0,
                     blob_lo |-> Len(blobs), blob_hi |-> Len(blobs)]
    BY DEF NewNode
  <2> QED BY <1>1, <1>3, <2>1 DEF Numbers, Links
<1>8. Typed(md)
  BY <1>2, <1>6, <1>7 DEF Typed
<1>9. \A j \in Ids \ {new} : Alike(node[j], md[j])
  BY <1>2, <1>6 DEF Alike
<1> QED BY <1>3, <1>8, <1>9 DEF md, new

(* Cutting a branch off.                                                     *)
LEMMA CutNodes ==
  ASSUME Tree(node, root), Typed(node), NEW r, NEW D, Branch(r, D)
  PROVE  /\ Typed(Cut(r, D))
         /\ \A n \in Alive(node) \ D : Alike(node[n], Cut(r, D)[n])
<1> DEFINE p == node[r].parent
           un == Unlinked(node, r)
           md == Cut(r, D)
<1>1. r \in Alive(node) \ {root} /\ Alive(node) \subseteq Ids
  BY DEF Branch, Alive
<1>2. /\ \A n \in Ids \ {p} : un[n] = node[n]
      /\ un[p] = [live |-> TRUE, parent |-> node[p].parent,
            kids |-> node[p].kids \ {r}, redo |-> un[p].redo,
            depth |-> node[p].depth, reason |-> node[p].reason,
            ops_at |-> node[p].ops_at, n_ops |-> node[p].n_ops,
            blob_lo |-> node[p].blob_lo, blob_hi |-> node[p].blob_hi]
      /\ un[p].redo \in (node[p].kids \ {r}) \cup {0}
      /\ p \in Alive(node) /\ p \in Ids /\ node[p].live = TRUE
  <2>1. p \in Alive(node)
    BY <1>1, UnlinkedNodes
  <2>2. p \in Ids /\ node[p].live = TRUE
    BY <2>1 DEF Alive, Tree, Shape, IsNode
  <2> QED BY <1>1, <2>1, <2>2, UnlinkedNodes
<1>3. \A n \in Ids : md[n] = IF n \in D THEN NoNode ELSE un[n]
  BY DEF Cut
<1> HIDE DEF md, un, p
<1>4. Alike(node[p], un[p])
  <2> DEFINE q == un[p].redo
  <2>1. un[p] = [live |-> TRUE, parent |-> node[p].parent,
            kids |-> node[p].kids \ {r}, redo |-> q,
            depth |-> node[p].depth, reason |-> node[p].reason,
            ops_at |-> node[p].ops_at, n_ops |-> node[p].n_ops,
            blob_lo |-> node[p].blob_lo, blob_hi |-> node[p].blob_hi]
    BY <1>2
  <2> HIDE DEF q
  <2>2. /\ un[p].live = TRUE /\ un[p].parent = node[p].parent
        /\ un[p].ops_at = node[p].ops_at /\ un[p].n_ops = node[p].n_ops
        /\ un[p].blob_lo = node[p].blob_lo
        /\ un[p].blob_hi = node[p].blob_hi
    BY ONLY <2>1
  <2> QED BY <1>2, <2>2, Zenon DEF Alike
<1>5. Numbers(un[p]) /\ Links(un[p])
  <2> DEFINE q == un[p].redo
  <2>1. un[p] = [live |-> TRUE, parent |-> node[p].parent,
            kids |-> node[p].kids \ {r}, redo |-> q,
            depth |-> node[p].depth, reason |-> node[p].reason,
            ops_at |-> node[p].ops_at, n_ops |-> node[p].n_ops,
            blob_lo |-> node[p].blob_lo, blob_hi |-> node[p].blob_hi]
    BY <1>2
  <2>2. Numbers(node[p]) /\ Links(node[p])
    BY <1>2 DEF Typed
  <2>3. q \in Ids \cup {0}
    BY <1>2, <2>2 DEF Links
  <2> HIDE DEF q
  <2> QED BY <2>1, <2>2, <2>3 DEF Numbers, Links
<1>6. \A n \in Ids : Numbers(un[n]) /\ Links(un[n])
  BY <1>2, <1>5 DEF Typed
<1>7. Typed(md)
  BY <1>3, <1>6, NothingTyped DEF Typed
<1>8. \A n \in Alive(node) : Alike(node[n], un[n])
  BY <1>1, <1>2, <1>4 DEF Alike
<1>9. \A n \in Alive(node) \ D : Alike(node[n], md[n])
  BY <1>1, <1>3, <1>8
<1> QED BY <1>7, <1>9 DEF md

(* reroot_one: the new root has no operations and no parent.                 *)
LEMMA RerootNodes ==
  ASSUME Shape(node), Typed(node), NEW c \in Ids, c # root, root \in Ids
  PROVE  LET md == [node EXCEPT ![c].n_ops = 0, ![c].parent = 0,
                                ![c].blob_lo = node[c].blob_hi,
                                ![root] = NoNode]
         IN /\ \A n \in Ids \ {root, c} : md[n] = node[n]
            /\ md[c].ops_at = node[c].ops_at /\ md[c].n_ops = 0
            /\ md[c].blob_lo = node[c].blob_hi
            /\ md[c].blob_hi = node[c].blob_hi
            /\ Typed(md)
<1> DEFINE md == [node EXCEPT ![c].n_ops = 0, ![c].parent = 0,
                              ![c].blob_lo = node[c].blob_hi,
                              ![root] = NoNode]
<1>1. node = [n \in Ids |-> node[n]]
  BY DEF Shape
<1>2. \A n \in Ids \ {root, c} : md[n] = node[n]
  BY <1>1
<1>3. md[root] = NoNode
  BY <1>1
<1>4. md[c] = [live |-> node[c].live, parent |-> 0,
               kids |-> node[c].kids, redo |-> node[c].redo,
               depth |-> node[c].depth, reason |-> node[c].reason,
               ops_at |-> node[c].ops_at, n_ops |-> 0,
               blob_lo |-> node[c].blob_hi, blob_hi |-> node[c].blob_hi]
  <2> DEFINE m1 == [node EXCEPT ![c].n_ops = 0]
             m2 == [m1 EXCEPT ![c].parent = 0]
             m3 == [m2 EXCEPT ![c].blob_lo = node[c].blob_hi]
  <2>0. node[c] = [live |-> node[c].live, parent |-> node[c].parent,
               kids |-> node[c].kids, redo |-> node[c].redo,
               depth |-> node[c].depth, reason |-> node[c].reason,
               ops_at |-> node[c].ops_at, n_ops |-> node[c].n_ops,
               blob_lo |-> node[c].blob_lo, blob_hi |-> node[c].blob_hi]
    BY DEF Tree, Shape, IsNode
  <2>1. m1[c] = [node[c] EXCEPT !.n_ops = 0] /\ m1 = [n \in Ids |-> m1[n]]
    BY <1>1
  <2>2. md = [m3 EXCEPT ![root] = NoNode]
    OBVIOUS
  <2>3. m2 = [m1 EXCEPT ![c].parent = 0]
    OBVIOUS
  <2>4. m3 = [m2 EXCEPT ![c].blob_lo = node[c].blob_hi]
    OBVIOUS
  <2> HIDE DEF m1, m2, m3, md
  <2>5. m2[c] = [m1[c] EXCEPT !.parent = 0] /\ m2 = [n \in Ids |-> m2[n]]
    BY <2>1, <2>3
  <2>6. m3[c] = [m2[c] EXCEPT !.blob_lo = node[c].blob_hi]
        /\ m3 = [n \in Ids |-> m3[n]]
    BY <2>4, <2>5
  <2>7. md[c] = m3[c]
    BY <2>2, <2>6
  <2>8. m1[c] = [live |-> node[c].live, parent |-> node[c].parent,
               kids |-> node[c].kids, redo |-> node[c].redo,
               depth |-> node[c].depth, reason |-> node[c].reason,
               ops_at |-> node[c].ops_at, n_ops |-> 0,
               blob_lo |-> node[c].blob_lo, blob_hi |-> node[c].blob_hi]
    BY <2>0, <2>1
  <2>9. m2[c] = [live |-> node[c].live, parent |-> 0,
               kids |-> node[c].kids, redo |-> node[c].redo,
               depth |-> node[c].depth, reason |-> node[c].reason,
               ops_at |-> node[c].ops_at, n_ops |-> 0,
               blob_lo |-> node[c].blob_lo, blob_hi |-> node[c].blob_hi]
    BY <2>5, <2>8
  <2> QED BY <2>6, <2>7, <2>9
<1> HIDE DEF md
<1>5. Numbers(md[c]) /\ Links(md[c])
  <2>1. Numbers(node[c]) /\ Links(node[c])
    BY DEF Typed
  <2> QED BY <1>4, <2>1 DEF Numbers, Links
<1>6. Numbers(md[root]) /\ Links(md[root])
  BY <1>3, NothingTyped
<1>7. Typed(md)
  BY <1>2, <1>5, <1>6 DEF Typed
<1>8. /\ md[c].ops_at = node[c].ops_at /\ md[c].n_ops = 0
      /\ md[c].blob_lo = node[c].blob_hi
      /\ md[c].blob_hi = node[c].blob_hi
  BY <1>4
<1> QED BY <1>2, <1>7, <1>8 DEF md

(* Depths count for neither.                                                 *)
LEMMA RebasedNodes ==
  ASSUME Tree(node, root), Counted, Typed(node)
  PROVE  LET md == [n \in Ids |-> IF n \notin Live THEN node[n] ELSE
                      [node[n] EXCEPT !.depth = @ - node[root].depth]]
         IN Typed(md) /\ \A n \in Ids : Alike(node[n], md[n])
<1> DEFINE c == node[root].depth
           md == [n \in Ids |-> IF n \notin Live THEN node[n] ELSE
                      [node[n] EXCEPT !.depth = node[n].depth - c]]
<1>1. ASSUME NEW n \in Ids
      PROVE  Numbers(md[n]) /\ Links(md[n]) /\ Alike(node[n], md[n])
  <2>1. IsNode(node[n]) /\ Numbers(node[n]) /\ Links(node[n])
    BY DEF Tree, Shape, IsNode, Typed
  <2>2. CASE n \notin Live
    <3>1. md[n] = node[n]
      BY <2>2
    <3> QED BY <2>1, <3>1 DEF Alike
  <2>3. CASE n \in Live
    <3> DEFINE d == node[n].depth - c
    <3>1. md[n] = [node[n] EXCEPT !.depth = d]
      BY <2>3
    <3> HIDE DEF md, d
    <3>2. md[n] = [live |-> node[n].live, parent |-> node[n].parent,
                   kids |-> node[n].kids, redo |-> node[n].redo,
                   depth |-> d, reason |-> node[n].reason,
                   ops_at |-> node[n].ops_at, n_ops |-> node[n].n_ops,
                   blob_lo |-> node[n].blob_lo, blob_hi |-> node[n].blob_hi]
      BY <2>1, <3>1 DEF IsNode
    <3>3. Alike(node[n], md[n])
      BY <3>2 DEF Alike
    <3>4. Numbers(md[n]) /\ Links(md[n])
      BY <2>1, <3>2 DEF Numbers, Links
    <3> QED BY <3>3, <3>4
  <2> QED BY <2>2, <2>3
<1> HIDE DEF md
<1>2. Typed(md)
  BY <1>1 DEF Typed
<1> QED BY <1>1, <1>2 DEF md

-----------------------------------------------------------------------------
(* Steps that append nothing and move nothing in the arenas.                 *)

Thins(nd, md) == /\ Alive(md) \subseteq Alive(nd)
                 /\ \A n \in Alive(md) : Alike(nd[n], md[n])

LEMMA ThinArena ==
  ASSUME NEW nd, NEW md, NEW r, NEW l, NEW o, NEW b, Thins(nd, md),
         Arena(nd, r, l, o, b)
  PROVE  Arena(md, r, l, o, b)
<1>1. ASSUME NEW n \in Alive(md)
      PROVE  /\ n \in Alive(nd) /\ md[n].ops_at = nd[n].ops_at
             /\ md[n].n_ops = nd[n].n_ops /\ md[n].blob_lo = nd[n].blob_lo
             /\ md[n].blob_hi = nd[n].blob_hi
  BY DEF Thins, Alike
<1>2. Inside(md, o, b)
  BY <1>1 DEF Arena, Inside, Within, Ends
<1>3. InOrder(md)
  BY <1>1 DEF Arena, InOrder, Ends
<1>4. Busy(md, r)
  BY <1>1 DEF Arena, Busy
<1>5. Meet(md, l, o, b)
  BY <1>1 DEF Arena, Meet, Ends
<1> QED BY <1>2, <1>3, <1>4, <1>5 DEF Arena

LEMMA AlikeMidway ==
  ASSUME NEW q, NEW p, Alike(q, p), NEW o, NEW b, NEW f, NEW g,
         g[q.parent] = f[q.parent],
         NEW i, NEW s, NEW j, NEW t, Midway(q, o, b, f, i, s, j, t)
  PROVE  Midway(p, o, b, g, i, s, j, t)
<1>1. Deeds(p, o, b) = Deeds(q, o, b) /\ p.parent = q.parent
  BY DEF Alike, Deeds
<1> QED BY <1>1 DEF Midway

LEMMA ThinStories ==
  ASSUME NEW nd, NEW md, NEW r, NEW x, NEW o, NEW b, NEW f, NEW g,
         Thins(nd, md), Rooted(md, r), Stories(nd, r, x, o, b, f),
         \A n \in Alive(md) : g[n] = f[n]
  PROVE  Stories(md, r, x, o, b, g)
<1> SUFFICES ASSUME NEW n \in Alive(md) \ {r, x}
             PROVE  Story(md[n], o, b, g, n)
  BY DEF Stories
<1>1. /\ n \in Alive(nd) \ {r, x} /\ Alike(nd[n], md[n])
      /\ md[n].parent = nd[n].parent /\ md[n].n_ops = nd[n].n_ops
  BY DEF Thins, Alike
<1>2. md[n].parent \in Alive(md)
  BY DEF Rooted
<1>3. g[nd[n].parent] = f[nd[n].parent] /\ g[n] = f[n]
  BY <1>1, <1>2
<1>4. Story(nd[n], o, b, f, n)
  BY <1>1 DEF Stories
<1> QED BY <1>1, <1>3, <1>4, AlikeMidway DEF Story

(* What is known of an alive node.                                           *)
LEMMA AliveFacts ==
  ASSUME UndoInv, NEW n \in Alive(node)
  PROVE  /\ n \in Ids /\ Numbers(node[n]) /\ Links(node[n])
         /\ Within(node[n], ops, blobs)
         /\ Len(Deeds(node[n], ops, blobs)) = node[n].n_ops
         /\ Len(Deeds(node[n], ops, blobs)) \in Nat
<1>1. n \in Ids /\ Numbers(node[n]) /\ Links(node[n])
  BY DEF UndoInv, UndoRest, Types, Typed, Alive
<1>2. Within(node[n], ops, blobs)
  BY DEF UndoInv, UndoRest, Arena, Inside
<1>3. node[n].n_ops \in Nat
  BY <1>1 DEF Numbers
<1> QED BY <1>1, <1>2, <1>3, DeedsAre

LEMMA ThinSelf == ASSUME NEW nd PROVE Thins(nd, nd)
BY DEF Thins, Alike

(* Steps that leave nodes, arenas and texts of nodes alone.                  *)
Quiet == /\ node' = node /\ len' = len /\ root' = root /\ ops' = ops
         /\ blobs' = blobs /\ past' = past

LEMMA QuietKeeps ==
  ASSUME UndoInv, Quiet
  PROVE  /\ Arena(node, root, len, ops, blobs)'
         /\ open' = open => Stories(node, root, open, ops, blobs, past)'
BY DEF UndoInv, UndoRest, Quiet

LEMMA StillFields ==
  /\ Still.t = 0 /\ Still.path = <<>> /\ Still.i = 0 /\ Still.ret = "idle"
  /\ Still.t \in Ids \cup {0} /\ Still.path \in Seq(Ids) /\ Still.i \in Nat
  /\ NotReopened \in [on : BOOLEAN, n_ops : Nat, blob_hi : Nat]
  /\ NotReopened.on = FALSE /\ NotReopened.n_ops = 0
BY DEF Still, NotReopened

(* The texts of nodes are texts.                                             *)
LEMMA PastText ==
  ASSUME UndoInv, NEW n \in Alive(node) PROVE past[n] \in Text /\ n \in Ids
BY DEF UndoInv, UndoRest, Types, Alive

LEMMA MidwayText ==
  ASSUME NEW q, NEW o, NEW b, NEW p, NEW i, NEW s, NEW j, NEW t,
         Midway(q, o, b, p, i, s, j, t)
  PROVE  t \in Text
<1> DEFINE d == Deeds(q, o, b)
<1>1. PICK h : Leads(d, h) /\ h[j] = t /\ j \in 0 .. Len(d)
  BY DEF Midway, Told
<1> HIDE DEF d
<1> QED BY <1>1 DEF Leads

LEMMA MidwayFacts ==
  ASSUME UndoInv, NEW n \in Alive(node), NEW i, NEW s, NEW j, NEW t,
         Midway(node[n], ops, blobs, past, i, s, j, t)
  PROVE  /\ t \in Text
         /\ Midway(node[n], ops, blobs, past, i, s, i, s)
         /\ Midway(node[n], ops, blobs, past, j, t, j, t)
         /\ Midway(node[n], ops, blobs, past, j, t, 0,
                   past[node[n].parent])
         /\ j = 0 => t = past[node[n].parent]
         /\ j = i => t = s
         /\ i \in 0 .. node[n].n_ops /\ j \in 0 .. node[n].n_ops
<1> DEFINE d == Deeds(node[n], ops, blobs)
           f == past[node[n].parent]
<1>1. Len(d) \in Nat /\ Len(d) = node[n].n_ops
  BY AliveFacts
<1>2. Told(d, f, i, s, j, t)
  BY DEF Midway
<1> HIDE DEF d, f
<1>3. Told(d, f, j, t, i, s)
  BY <1>2 DEF Told
<1>4. /\ t \in Text /\ Told(d, f, i, s, i, s)
      /\ (j = 0 => t = f) /\ (j = i => t = s)
  BY <1>1, <1>2, ToldFacts
<1>5. Told(d, f, j, t, j, t) /\ Told(d, f, j, t, 0, f)
  BY <1>1, <1>3, ToldFacts
<1>6. i \in 0 .. Len(d) /\ j \in 0 .. Len(d)
  BY <1>2 DEF Told
<1> QED BY <1>1, <1>4, <1>5, <1>6 DEF Midway, d, f

(* yew_undo_begin.                                                           *)
LEMMA BeginRest ==
  ASSUME UndoInv, NEW why \in Whys, Begin(why) PROVE UndoRest'
<1>1. /\ Quiet /\ text' = text /\ cur' = cur /\ saved' = saved
      /\ open' = open /\ pc' = pc /\ walk' = walk /\ disk' = disk
      /\ amended' = amended /\ pc = "idle" /\ nest' = nest + 1
  BY DEF Begin, Idle, tree, arenas, Quiet
<1>2. nest \in Nat /\ (nest = 0 => open = 0) /\ (kept.on => open # 0)
  BY DEF UndoInv, ChainInv, Transaction
<1>3. Types'
  <2>1. why \in Reasons \cup {"NONE"}
    BY UndoAssumption DEF UndoAssumption
  <2>2. /\ reason' \in Reasons \cup {"NONE"} /\ boundary' \in BOOLEAN
        /\ kept' \in [on : BOOLEAN, n_ops : Nat, blob_hi : Nat]
    BY <2>1, StillFields DEF Begin, UndoInv, UndoRest, Types
  <2> QED BY <1>1, <2>2 DEF UndoInv, UndoRest, Types, Quiet
<1>4. CASE nest = 0
  <2>1. kept' = NotReopened /\ before' = Snapshot /\ boundary' = TRUE
        /\ open' = 0
    BY <1>1, <1>2, <1>4 DEF Begin
  <2>2. Standing'
    BY <1>1, <2>1 DEF UndoInv, UndoRest, Standing, Quiet
  <2>3. Opened'
    <3>1. Snapshot' = Snapshot
      BY <1>1 DEF Snapshot, Quiet, Live
    <3>2. kept'.on = FALSE
      BY <2>1, StillFields
    <3> QED BY <1>1, <2>1, <3>1, <3>2 DEF Opened
  <2>4. SavePoint'
    BY <1>1, <1>2, <2>1 DEF UndoInv, UndoRest, SavePoint, Quiet
  <2> QED BY <1>1, <1>3, <2>2, <2>3, <2>4, QuietKeeps DEF UndoRest
<1>5. CASE nest # 0
  <2>1. kept' = kept /\ before' = before /\ boundary' = boundary
    BY <1>5 DEF Begin
  <2>2. Standing'
    BY <1>1, <2>1 DEF UndoInv, UndoRest, Standing, Quiet
  <2>3. Opened'
    <3>1. Snapshot' = Snapshot /\ Return' = Return
      BY <1>1, <2>1 DEF Snapshot, Return, Quiet, Live
    <3>2. KeptFits' = KeptFits
      BY <1>1, <2>1 DEF KeptFits, Quiet
    <3>3. nest > 0
      BY <1>2, <1>5
    <3> QED BY <1>1, <2>1, <3>1, <3>2, <3>3
            DEF UndoInv, UndoRest, Opened, Quiet
  <2>4. SavePoint'
    BY <1>1, <1>2, <2>1 DEF UndoInv, UndoRest, SavePoint, Quiet
  <2> QED BY <1>1, <1>3, <2>2, <2>3, <2>4, QuietKeeps DEF UndoRest
<1> QED BY <1>4, <1>5

(* yew_undo_end: the text becomes the one of the open node.                  *)
LEMMA EndRest ==
  ASSUME UndoInv, ~EmptyTxn, End PROVE UndoRest'
<1>1. /\ node' = node /\ len' = len /\ root' = root /\ ops' = ops
      /\ blobs' = blobs /\ text' = text /\ cur' = cur /\ saved' = saved
      /\ disk' = disk /\ amended' = amended /\ pc = "idle" /\ nest > 0
      /\ nest' = nest - 1
  BY DEF End, Idle, tree, arenas
<1>2. /\ nest \in Nat /\ (kept.on => open # 0)
      /\ open # 0 => open = cur /\ open # root /\ node[open].kids = {}
  BY DEF UndoInv, ChainInv, Transaction
<1>3. CASE nest > 1
  <2>1. /\ open' = open /\ reason' = reason /\ kept' = kept
        /\ boundary' = boundary /\ pc' = pc /\ walk' = walk /\ past' = past
        /\ before' = before /\ nest' > 0
    BY <1>1, <1>2, <1>3 DEF End
  <2>2. Quiet
    BY <1>1, <2>1 DEF Quiet
  <2>3. Types'
    BY <1>1, <2>1 DEF UndoInv, UndoRest, Types
  <2>4. Standing'
    BY <1>1, <2>1 DEF UndoInv, UndoRest, Standing
  <2>5. Opened'
    <3>1. Snapshot' = Snapshot /\ Return' = Return
      BY <1>1, <2>1 DEF Snapshot, Return, Live
    <3>2. KeptFits' = KeptFits
      BY <1>1, <2>1 DEF KeptFits
    <3> QED BY <1>1, <2>1, <3>1, <3>2 DEF UndoInv, UndoRest, Opened
  <2>6. SavePoint'
    BY <1>1, <1>2, <2>1 DEF UndoInv, UndoRest, SavePoint
  <2> QED BY <2>1, <2>2, <2>3, <2>4, <2>5, <2>6, QuietKeeps DEF UndoRest
<1>4. CASE ~(nest > 1)
  <2>1. /\ open' = 0 /\ reason' = "NONE" /\ kept' = NotReopened
        /\ boundary' = TRUE /\ pc' = "trim" /\ walk' = Still
        /\ open # 0 /\ past' = [past EXCEPT ![open] = text] /\ nest' = 0
    BY <1>1, <1>2, <1>4, StillIs DEF End, Goto
  <2>2. open \in Alive(node) /\ open \in Ids
    BY <1>2, <2>1 DEF UndoInv, ChainInv, Counted, Alive
  <2>3. Midway(node[open], ops, blobs, past, node[open].n_ops, text, 0,
               past[node[open].parent]) /\ text \in Text
    <3>1. Midway(node[open], ops, blobs, past, kept.n_ops, before.text,
                 node[open].n_ops, text)
      BY <1>1, <2>1 DEF UndoInv, UndoRest, Standing
    <3> QED BY <2>2, <3>1, MidwayFacts
  <2>4. past \in [Ids -> Text]
    BY DEF UndoInv, UndoRest, Types
  <2>5. /\ past'[open] = text /\ \A n \in Ids \ {open} : past'[n] = past[n]
        /\ past' \in [Ids -> Text]
    BY <2>1, <2>2, <2>3, <2>4
  <2>6. Types'
    BY <1>1, <2>1, <2>5, StillFields DEF UndoInv, UndoRest, Types
  <2>7. Stories(node, root, 0, ops, blobs, past')
    <3> SUFFICES ASSUME NEW n \in Alive(node) \ {root}
                 PROVE  Story(node[n], ops, blobs, past', n)
      BY DEF Stories
    <3>1. node[n].parent \in Ids \ {open}
      <4>1. node[n].parent \in Alive(node)
        BY DEF UndoInv, ChainInv, Tree, Rooted
      <4>2. node[n].parent # open
        BY <1>2, <2>1, <2>2 DEF UndoInv, ChainInv, Tree, Children
      <4> QED BY <4>1, <4>2 DEF Alive
    <3>2. past'[node[n].parent] = past[node[n].parent]
      BY <2>5, <3>1
    <3>3. CASE n = open
      BY <2>3, <2>5, <3>2, <3>3 DEF Story, Midway
    <3>4. CASE n # open
      <4>1. Story(node[n], ops, blobs, past, n)
        BY <3>4 DEF UndoInv, UndoRest, Stories
      <4>2. n \in Ids \ {open}
        BY <3>4 DEF Alive
      <4> QED BY <2>5, <3>2, <4>1, <4>2 DEF Story, Midway
    <3> QED BY <3>3, <3>4
  <2>8. Standing'
    BY <1>1, <1>2, <2>1, <2>5 DEF Standing
  <2>9. Opened'
    BY <2>1, StillFields DEF Opened
  <2>10. SavePoint'
    <3>1. saved \in Ids
      BY DEF UndoInv, ChainInv, Counted, Alive
    <3> QED BY <1>1, <2>1, <2>5, <3>1 DEF UndoInv, UndoRest, SavePoint
  <2>11. Arena(node, root, len, ops, blobs)'
    BY <1>1 DEF UndoInv, UndoRest
  <2>12. Stories(node, root, open, ops, blobs, past)'
    BY <1>1, <2>1, <2>7
  <2> QED BY <2>6, <2>8, <2>9, <2>10, <2>11, <2>12 DEF UndoRest
<1> QED BY <1>3, <1>4

(* yew_undo_reopen.                                                          *)
LEMMA ReopenRest ==
  ASSUME UndoInv, NEW e \in Whys, Reopen(e) PROVE UndoRest'
<1>1. /\ Quiet /\ text' = text /\ cur' = cur /\ saved' = saved
      /\ pc' = pc /\ walk' = walk /\ disk' = disk /\ pc = "idle"
      /\ nest = 0 /\ nest' = 1 /\ cur # root /\ open' = cur
      /\ reason' = e /\ boundary' = FALSE /\ before' = Snapshot
      /\ (amended' <=> (amended \/ cur = saved))
      /\ kept' = [on |-> TRUE, n_ops |-> node[cur].n_ops,
                  blob_hi |-> node[cur].blob_hi]
      /\ node[cur].ops_at + node[cur].n_ops = Len(ops)
      /\ node[cur].blob_hi = Len(blobs)
  BY Zenon DEF Reopen, Resting, Idle, tree, arenas, Quiet
<1>2. open = 0 /\ cur \in Alive(node) /\ cur \in Ids /\ cur # 0
  BY <1>1 DEF UndoInv, ChainInv, Transaction, Counted, Alive, Ids
<1>3. /\ Numbers(node[cur]) /\ Within(node[cur], ops, blobs)
      /\ node[cur].n_ops > 0
  BY <1>1, <1>2, AliveFacts DEF UndoInv, UndoRest, Arena, Busy
<1>4. /\ kept'.on = TRUE /\ kept'.n_ops = node[cur].n_ops
      /\ kept'.blob_hi = node[cur].blob_hi
  BY <1>1
<1>5. text = past[cur]
  BY <1>1, <1>2 DEF UndoInv, UndoRest, Standing
<1>6. Types'
  <2>1. e \in Reasons \cup {"NONE"}
    BY UndoAssumption DEF UndoAssumption
  <2>2. kept' \in [on : BOOLEAN, n_ops : Nat, blob_hi : Nat]
    BY <1>1, <1>3 DEF Numbers
  <2> QED BY <1>1, <2>1, <2>2 DEF UndoInv, UndoRest, Types, Quiet
<1>7. Stories(node, root, cur, ops, blobs, past)
  <2>1. 0 \notin Alive(node)
    BY DEF Alive, Ids
  <2>2. Stories(node, root, 0, ops, blobs, past)
    BY <1>2 DEF UndoInv, UndoRest
  <2> QED BY <2>1, <2>2 DEF Stories
<1>8. Midway(node[cur], ops, blobs, past, node[cur].n_ops, text,
             node[cur].n_ops, text)
  <2>1. Story(node[cur], ops, blobs, past, cur)
    BY <1>1, <1>2 DEF UndoInv, UndoRest, Stories
  <2>2. Midway(node[cur], ops, blobs, past, node[cur].n_ops, text, 0,
               past[node[cur].parent])
    BY <1>5, <2>1 DEF Story
  <2>3. cur \in Alive(node)
    BY <1>2
  <2> QED BY <2>2, <2>3, MidwayFacts
<1>9. before'.text = text
  BY <1>1 DEF Snapshot
<1>10. Standing'
  BY <1>1, <1>2, <1>4, <1>8, <1>9 DEF Standing, Quiet
<1>11. Opened'
  <2>1. node[cur].n_ops \in 1 .. node[cur].n_ops
        /\ node[cur].blob_hi \in node[cur].blob_lo .. node[cur].blob_hi
    BY <1>3 DEF Numbers, Within
  <2>2. KeptFits'
    BY <1>1, <1>3, <1>4, <1>5, <1>9, <2>1 DEF KeptFits, Within, Quiet
  <2>3. Ends(node[cur]) = Len(ops)
    BY <1>1 DEF Ends
  <2>4. Snapshot = Return'
    <3>1. SubSeq(ops, 1, Len(ops)) = ops
      BY SubSeqFull DEF UndoInv, UndoRest, Types
    <3>2. SubSeq(blobs, 1, Len(blobs)) = blobs
      BY SubSeqFull DEF UndoInv, UndoRest, Types, Text
    <3>3. Live = Alive(node)
      BY LiveIsAlive DEF UndoInv, ChainInv
    <3>4. /\ cur' = cur /\ node' = node /\ ops' = ops /\ blobs' = blobs
          /\ open' = cur
      BY <1>1 DEF Quiet
    <3> QED BY <1>1, <1>4, <1>9, <3>1, <3>2, <3>3, <3>4
            DEF Snapshot, Return
  <2> QED BY <1>1, <1>2, <1>4, <2>2, <2>3, <2>4 DEF Opened, Quiet
<1>12. SavePoint'
  BY <1>1 DEF UndoInv, UndoRest, SavePoint, Quiet
<1>13. Arena(node, root, len, ops, blobs)'
  BY <1>1, QuietKeeps
<1>14. Stories(node, root, open, ops, blobs, past)'
  BY <1>1, <1>7 DEF Quiet
<1> QED BY <1>6, <1>10, <1>11, <1>12, <1>13, <1>14 DEF UndoRest

(* yew_undo_abort, before it undoes anything.                                *)
LEMMA AbortRest == ASSUME UndoInv, Abort PROVE UndoRest'
<1>1. /\ Quiet /\ text' = text /\ cur' = cur /\ saved' = saved
      /\ open' = open /\ kept' = kept /\ disk' = disk
      /\ amended' = amended /\ pc = "idle" /\ nest > 0
  BY DEF Abort, Idle, tree, arenas, Quiet
<1>2. (kept.on => open # 0) /\ (open # 0 => open = cur)
  BY DEF UndoInv, ChainInv, Transaction
<1>3. CASE open = 0
  <2>1. /\ nest' = 0 /\ reason' = "NONE" /\ boundary' = TRUE /\ pc' = pc
        /\ walk' = walk
    BY <1>3 DEF Abort
  <2>2. Types'
    BY <1>1, <2>1 DEF UndoInv, UndoRest, Types, Quiet
  <2>3. Standing'
    BY <1>1, <1>3, <2>1 DEF UndoInv, UndoRest, Standing, Quiet
  <2>4. Opened'
    BY <1>1, <1>2, <1>3, <2>1 DEF UndoInv, UndoRest, Opened, Quiet
  <2>5. SavePoint'
    BY <1>1, <1>3, <2>1 DEF UndoInv, UndoRest, SavePoint, Quiet
  <2> QED BY <1>1, <2>2, <2>3, <2>4, <2>5, QuietKeeps DEF UndoRest
<1>4. CASE open # 0
  <2>1. /\ pc' = "abort" /\ walk' = [Still EXCEPT !.i = node[open].n_ops]
        /\ nest' = nest /\ reason' = reason /\ boundary' = boundary
        /\ before' = before
    BY <1>4 DEF Abort
  <2>2. walk' = [t |-> 0, path |-> <<>>, i |-> node[open].n_ops,
                 ret |-> "idle"]
    BY <2>1, StillIs
  <2>3. open \in Alive(node) /\ node[open].n_ops \in Nat
    <3>1. open \in Alive(node)
      BY <1>2, <1>4 DEF UndoInv, ChainInv, Counted
    <3> QED BY <3>1, AliveFacts DEF Numbers
  <2>4. Midway(node[open], ops, blobs, past, kept.n_ops, before.text,
               node[open].n_ops, text)
    BY <1>1, <1>4 DEF UndoInv, UndoRest, Standing
  <2>5. kept.n_ops \in 0 .. node[open].n_ops
    <3>1. kept.n_ops \in 0 .. Len(Deeds(node[open], ops, blobs))
      BY <2>4 DEF Midway, Told
    <3> QED BY <2>3, <3>1, AliveFacts
  <2>6. Types'
    <3>1. walk'.t = 0 /\ walk'.path = <<>> /\ walk'.i \in Nat
      BY <2>2, <2>3
    <3>2. walk'.t \in Ids \cup {0} /\ walk'.path \in Seq(Ids)
      BY <3>1, EmptySeq
    <3> QED BY <1>1, <2>1, <3>1, <3>2 DEF UndoInv, UndoRest, Types, Quiet
  <2>7. Standing'
    <3>1. walk'.i = node[open].n_ops
      BY <2>2
    <3> QED BY <1>1, <1>4, <2>1, <2>4, <3>1 DEF Standing, Quiet
  <2>8. Opened'
    <3>1. Snapshot' = Snapshot /\ Return' = Return
      BY <1>1, <2>1 DEF Snapshot, Return, Quiet, Live
    <3>2. KeptFits' = KeptFits
      BY <1>1, <2>1 DEF KeptFits, Quiet
    <3>3. walk'.i \in kept.n_ops .. node[open].n_ops
      BY <2>2, <2>3, <2>5
    <3> QED BY <1>1, <2>1, <3>1, <3>2, <3>3
            DEF UndoInv, UndoRest, Opened, Quiet
  <2>9. SavePoint'
    BY <1>1, <2>1 DEF UndoInv, UndoRest, SavePoint, Quiet
  <2> QED BY <1>1, <2>6, <2>7, <2>8, <2>9, QuietKeeps DEF UndoRest
<1> QED BY <1>3, <1>4

(* An operation undone, an operation done again.                             *)
LEMMA UndoneMidway ==
  ASSUME UndoInv, NEW n \in Alive(node), NEW i, NEW s, NEW j,
         Midway(node[n], ops, blobs, past, i, s, j, text), j > 0
  PROVE  Midway(node[n], ops, blobs, past, i, s, j - 1,
                Undone(ops[node[n].ops_at + j]))
<1> DEFINE d == Deeds(node[n], ops, blobs)
           f == past[node[n].parent]
<1>1. Len(d) \in Nat /\ Len(d) = node[n].n_ops /\ node[n].n_ops \in Nat
  BY AliveFacts
<1>2. Told(d, f, i, s, j, text)
  BY DEF Midway
<1>3. j \in 1 .. node[n].n_ops
  BY <1>1, <1>2 DEF Told
<1>4. d[j] = Deed(ops[node[n].ops_at + j], blobs)
  BY <1>1, <1>3, DeedsAre
<1> HIDE DEF d, f
<1>5. Told(d, f, i, s, j - 1, Backward(d[j], text))
  BY <1>1, <1>2, ToldBack
<1>6. Backward(d[j], text) = Undone(ops[node[n].ops_at + j])
  BY <1>4 DEF Backward, Deed, Undone
<1> QED BY <1>5, <1>6 DEF Midway, d, f

LEMMA RedoneMidway ==
  ASSUME UndoInv, NEW n \in Alive(node), NEW i, NEW s, NEW j,
         Midway(node[n], ops, blobs, past, i, s, j, text),
         j < node[n].n_ops
  PROVE  Midway(node[n], ops, blobs, past, i, s, j + 1,
                Redone(ops[node[n].ops_at + j + 1]))
<1> DEFINE d == Deeds(node[n], ops, blobs)
           f == past[node[n].parent]
           k == j + 1
<1>1. Len(d) \in Nat /\ Len(d) = node[n].n_ops /\ node[n].n_ops \in Nat
      /\ node[n].ops_at \in Nat
  BY AliveFacts DEF Numbers
<1>2. Told(d, f, i, s, j, text)
  BY DEF Midway
<1>3. k \in 1 .. node[n].n_ops
      /\ node[n].ops_at + j + 1 = node[n].ops_at + k
  BY <1>1, <1>2 DEF Told
<1>4. d[k] = Deed(ops[node[n].ops_at + k], blobs)
  BY <1>1, <1>3, DeedsAre
<1> HIDE DEF d, f
<1>5. Told(d, f, i, s, k, Forward(d[k], text))
  BY <1>1, <1>2, ToldForth
<1> HIDE DEF k
<1>6. Forward(d[k], text) = Redone(ops[node[n].ops_at + k])
  BY <1>4 DEF Forward, Deed, Redone
<1> QED BY <1>3, <1>5, <1>6 DEF Midway, d, f, k

(* The loops of replay.                                                      *)
LEMMA ReplayRest ==
  ASSUME UndoInv, AbortOp \/ BackOp \/ ForthOp PROVE UndoRest'
<1>1. /\ Quiet /\ cur' = cur /\ saved' = saved /\ open' = open
      /\ nest' = nest /\ reason' = reason /\ kept' = kept
      /\ boundary' = boundary /\ pc' = pc /\ disk' = disk
      /\ amended' = amended /\ before' = before
  BY DEF AbortOp, BackOp, ForthOp, Revert, tree, arenas, txn, ghosts, Quiet
<1>2. /\ walk = [t |-> walk.t, path |-> walk.path, i |-> walk.i,
                 ret |-> walk.ret]
      /\ walk.i \in Nat
  BY DEF UndoInv, ChainInv, Journey, UndoRest, Types
<1>3. /\ open # 0 => open = cur /\ open \in Alive(node)
      /\ pc = "abort" => open # 0
      /\ pc # "idle" /\ pc # "abort" => open = 0
      /\ cur \in Alive(node)
  BY DEF UndoInv, ChainInv, Transaction, Counted, Journey
<1>4. ASSUME AbortOp
      PROVE  /\ text' \in Text /\ walk'.i \in Nat
             /\ walk'.t = walk.t /\ walk'.path = walk.path /\ Standing'
             /\ pc = "abort" => walk'.i \in kept.n_ops .. node[open].n_ops
  <2>1. pc = "abort" /\ walk.i > kept.n_ops /\ open # 0
        /\ text' = Undone(ops[node[open].ops_at + walk.i])
        /\ walk' = [walk EXCEPT !.i = @ - 1]
    BY <1>3, <1>4 DEF AbortOp, Revert
  <2>2. walk' = [t |-> walk.t, path |-> walk.path, i |-> walk.i - 1,
                 ret |-> walk.ret]
    BY <1>2, <2>1
  <2>3. Midway(node[open], ops, blobs, past, kept.n_ops, before.text,
               walk.i, text)
    BY <2>1 DEF UndoInv, UndoRest, Standing
  <2>4. walk.i > 0 /\ kept.n_ops \in Nat
        /\ walk.i \in kept.n_ops .. node[open].n_ops
    BY <1>2, <2>1 DEF UndoInv, UndoRest, Types, Opened
  <2> DEFINE t == Undone(ops[node[open].ops_at + walk.i])
  <2>5. Midway(node[open], ops, blobs, past, kept.n_ops, before.text,
               walk.i - 1, t)
    BY <1>3, <2>1, <2>3, <2>4, UndoneMidway
  <2> HIDE DEF t
  <2>6. t \in Text /\ text' = t
    BY <2>1, <2>5, MidwayText DEF t
  <2>7. walk'.i = walk.i - 1 /\ walk'.t = walk.t /\ walk'.path = walk.path
        /\ walk.i - 1 \in Nat
        /\ walk.i - 1 \in kept.n_ops .. node[open].n_ops
    <3>1. node[open].n_ops \in Nat
      BY <1>3, <2>1, AliveFacts DEF Numbers
    <3> QED BY <1>2, <2>1, <2>2, <2>4, <3>1
  <2>8. Standing'
    BY <1>1, <2>1, <2>5, <2>6, <2>7 DEF Standing, Quiet
  <2> QED BY <2>6, <2>7, <2>8
<1>5. ASSUME BackOp
      PROVE  /\ text' \in Text /\ walk'.i \in Nat
             /\ walk'.t = walk.t /\ walk'.path = walk.path /\ Standing'
             /\ pc = "abort" => walk'.i \in kept.n_ops .. node[open].n_ops
  <2>1. pc = "back" /\ walk.i > 0 /\ open = 0
        /\ text' = Undone(ops[node[cur].ops_at + walk.i])
        /\ walk' = [walk EXCEPT !.i = @ - 1]
    BY <1>3, <1>5 DEF BackOp, Revert
  <2>2. walk' = [t |-> walk.t, path |-> walk.path, i |-> walk.i - 1,
                 ret |-> walk.ret]
    BY <1>2, <2>1
  <2>3. Midway(node[cur], ops, blobs, past, node[cur].n_ops, past[cur],
               walk.i, text)
    BY <2>1 DEF UndoInv, UndoRest, Standing
  <2> DEFINE t == Undone(ops[node[cur].ops_at + walk.i])
  <2>4. Midway(node[cur], ops, blobs, past, node[cur].n_ops, past[cur],
               walk.i - 1, t)
    BY <1>3, <2>1, <2>3, UndoneMidway
  <2> HIDE DEF t
  <2>5. t \in Text /\ text' = t
    BY <2>1, <2>4, MidwayText DEF t
  <2>6. walk'.i = walk.i - 1 /\ walk'.t = walk.t /\ walk'.path = walk.path
        /\ walk.i - 1 \in Nat
    BY <1>2, <2>1, <2>2
  <2>7. Standing'
    BY <1>1, <2>1, <2>4, <2>5, <2>6 DEF Standing, Quiet
  <2> QED BY <2>1, <2>5, <2>6, <2>7
<1>6. ASSUME ForthOp
      PROVE  /\ text' \in Text /\ walk'.i \in Nat
             /\ walk'.t = walk.t /\ walk'.path = walk.path /\ Standing'
             /\ pc = "abort" => walk'.i \in kept.n_ops .. node[open].n_ops
  <2>1. pc = "forth" /\ walk.i < node[Child].n_ops /\ open = 0
        /\ text' = Redone(ops[node[Child].ops_at + walk.i + 1])
        /\ walk' = [walk EXCEPT !.i = @ + 1]
    BY <1>3, <1>6 DEF ForthOp
  <2>2. walk' = [t |-> walk.t, path |-> walk.path, i |-> walk.i + 1,
                 ret |-> walk.ret]
    BY <1>2, <2>1
  <2>3. Child \in Alive(node)
    <3>1. walk.path # <<>> /\ Hangs(node, root, walk.path, cur)
      BY <2>1 DEF UndoInv, ChainInv, Journey
    <3>2. walk.path \in Seq(Ids)
      BY DEF UndoInv, UndoRest, Types
    <3>3. Len(walk.path) \in 1 .. Len(walk.path)
      <4> DEFINE p == walk.path
      <4>1. p \in Seq(Ids) /\ p # <<>>
        BY <3>1, <3>2
      <4> HIDE DEF p
      <4>2. Len(p) \in 1 .. Len(p)
        BY <4>1
      <4> QED BY <4>2 DEF p
    <3> QED BY <3>1, <3>3 DEF Hangs, Child
  <2>4. Midway(node[Child], ops, blobs, past, node[Child].n_ops, past[Child],
               walk.i, text)
    BY <2>1 DEF UndoInv, UndoRest, Standing
  <2> DEFINE t == Redone(ops[node[Child].ops_at + walk.i + 1])
  <2>5. Midway(node[Child], ops, blobs, past, node[Child].n_ops, past[Child],
               walk.i + 1, t)
    BY <2>1, <2>3, <2>4, RedoneMidway
  <2> HIDE DEF t
  <2>6. t \in Text /\ text' = t
    BY <2>1, <2>5, MidwayText DEF t
  <2>7. walk'.i = walk.i + 1 /\ walk'.t = walk.t /\ walk'.path = walk.path
        /\ walk.i + 1 \in Nat
    BY <1>2, <2>1, <2>2
  <2>8. Standing'
    <3>1. Child' = Child
      BY <2>7 DEF Child
    <3> QED BY <1>1, <2>1, <2>5, <2>6, <2>7, <3>1 DEF Standing, Quiet
  <2> QED BY <2>1, <2>6, <2>7, <2>8
<1>7. /\ text' \in Text /\ walk'.i \in Nat
      /\ walk'.t = walk.t /\ walk'.path = walk.path /\ Standing'
      /\ pc = "abort" => walk'.i \in kept.n_ops .. node[open].n_ops
  BY <1>4, <1>5, <1>6
<1>8. Types'
  BY <1>1, <1>7 DEF UndoInv, UndoRest, Types, Quiet
<1>9. Opened'
  <2>1. nest = 0 \/ open # 0
    BY <1>3 DEF UndoInv, ChainInv, Transaction, AbortOp, BackOp, ForthOp
  <2>2. Return' = Return /\ KeptFits' = KeptFits
    BY <1>1 DEF Return, KeptFits, Quiet
  <2> QED BY <1>1, <1>7, <2>1, <2>2 DEF UndoInv, UndoRest, Opened, Quiet
<1>10. SavePoint'
  BY <1>1 DEF UndoInv, UndoRest, SavePoint, Quiet
<1> QED BY <1>1, <1>7, <1>8, <1>9, <1>10, QuietKeeps DEF UndoRest

(* Setting out from the text of the current node, up or down.                *)
LEMMA UpFrom ==
  ASSUME UndoInv, open = 0, pc \in {"idle", "travel"}, cur # root
  PROVE  /\ Midway(node[cur], ops, blobs, past, node[cur].n_ops, past[cur],
                   node[cur].n_ops, text)
         /\ node[cur].n_ops \in Nat
<1>1. cur \in Alive(node) /\ 0 \notin Alive(node) /\ cur # 0
  BY DEF UndoInv, ChainInv, Counted, Alive, Ids
<1>2. text = past[cur]
  BY DEF UndoInv, UndoRest, Standing
<1>3. Story(node[cur], ops, blobs, past, cur)
  BY <1>1 DEF UndoInv, UndoRest, Stories
<1>4. Midway(node[cur], ops, blobs, past, node[cur].n_ops, text, 0,
             past[node[cur].parent])
  BY <1>2, <1>3 DEF Story
<1>5. Midway(node[cur], ops, blobs, past, node[cur].n_ops, text,
             node[cur].n_ops, text)
  BY <1>1, <1>4, MidwayFacts
<1>6. node[cur].n_ops \in Nat
  BY <1>1, AliveFacts DEF Numbers
<1> QED BY <1>2, <1>5, <1>6

LEMMA DownFrom ==
  ASSUME UndoInv, open = 0, pc \in {"idle", "travel"},
         NEW n \in Alive(node) \ {root}, node[n].parent = cur
  PROVE  Midway(node[n], ops, blobs, past, node[n].n_ops, past[n], 0, text)
<1>1. 0 \notin Alive(node)
  BY DEF Alive, Ids
<1>2. text = past[cur]
  BY DEF UndoInv, UndoRest, Standing
<1>3. Story(node[n], ops, blobs, past, n)
  BY <1>1 DEF UndoInv, UndoRest, Stories
<1> QED BY <1>2, <1>3 DEF Story

(* Steps of travel that touch no node, no arena and no text: what they do to *)
(* the walk has to be shown.                                                 *)
Strolls ==
  /\ Quiet /\ text' = text /\ cur' = cur /\ saved' = saved /\ open' = open
  /\ nest' = nest /\ reason' = reason /\ kept' = kept /\ disk' = disk
  /\ amended' = amended /\ before' = before /\ open = 0
  /\ (nest = 0 \/ boundary' = boundary \/ boundary' = TRUE)
  /\ boundary' \in BOOLEAN /\ (boundary' = boundary \/ boundary' = TRUE)

LEMMA StrollRest ==
  ASSUME UndoInv, Strolls, walk'.t \in Ids \cup {0}, walk'.path \in Seq(Ids),
         walk'.i \in Nat, pc' # "abort", Standing'
  PROVE  UndoRest'
<1>1. Types'
  BY DEF UndoInv, UndoRest, Types, Quiet, Strolls
<1>2. Opened'
  <2>1. Snapshot' = Snapshot /\ ~kept.on
    BY DEF Snapshot, Quiet, Strolls, Live, UndoInv, ChainInv, Transaction
  <2> QED BY <2>1 DEF UndoInv, UndoRest, Opened, Quiet, Strolls
<1>3. SavePoint'
  BY DEF UndoInv, UndoRest, SavePoint, Quiet, Strolls
<1> QED BY <1>1, <1>2, <1>3, QuietKeeps DEF UndoRest, Strolls

(* yew_undo, yew_redo and yew_undo_to set out.                               *)
LEMMA UndoSets == ASSUME UndoInv, Undo PROVE UndoRest'
<1>1. /\ Strolls /\ cur # root /\ pc = "idle" /\ pc' = "back"
      /\ walk' = [Still EXCEPT !.i = node[cur].n_ops]
  <2>1. open = 0
    BY DEF Undo, Resting, UndoInv, ChainInv, Transaction
  <2> QED BY <2>1 DEF Undo, Resting, Idle, tree, arenas, txn, ghosts, Quiet,
                      Strolls, UndoInv, UndoRest, Types
<1>2. walk' = [t |-> 0, path |-> <<>>, i |-> node[cur].n_ops, ret |-> "idle"]
  BY <1>1, StillIs
<1>3. walk'.t = 0 /\ walk'.path = <<>> /\ walk'.i = node[cur].n_ops
  BY <1>2
<1>4. /\ Midway(node[cur], ops, blobs, past, node[cur].n_ops, past[cur],
                node[cur].n_ops, text)
      /\ node[cur].n_ops \in Nat
  BY <1>1, UpFrom DEF Strolls
<1>5. Standing'
  BY <1>1, <1>3, <1>4 DEF Standing, Strolls, Quiet
<1>6. walk'.path \in Seq(Ids) /\ walk'.t \in Ids \cup {0}
  BY <1>3, EmptySeq
<1> QED BY <1>1, <1>3, <1>4, <1>5, <1>6, StrollRest

LEMMA RedoSets == ASSUME UndoInv, Redo PROVE UndoRest'
<1> DEFINE k == node[cur].redo
<1>1. /\ Strolls /\ pc = "idle" /\ pc' = "forth" /\ k \in Live
      /\ walk' = [Still EXCEPT !.path = <<k>>]
  <2>1. open = 0
    BY DEF Redo, Resting, UndoInv, ChainInv, Transaction
  <2> QED BY <2>1 DEF Redo, Resting, Idle, tree, arenas, txn, ghosts, Quiet,
                      Strolls, UndoInv, UndoRest, Types
<1>2. k \in Alive(node) \ {root} /\ node[k].parent = cur /\ k \in Ids
  <2>1. /\ cur \in Alive(node) /\ k \in Alive(node) /\ k # 0 /\ cur # 0
        /\ node[root].parent = 0 /\ k \in Ids
    BY <1>1, LiveIsAlive DEF UndoInv, ChainInv, Counted, Tree, Rooted, Alive,
                             Ids
  <2>2. k \in node[cur].kids
    BY <2>1 DEF UndoInv, ChainInv, Tree, Children
  <2>3. node[k].parent = cur
    BY <2>1, <2>2 DEF UndoInv, ChainInv, Tree, Children
  <2> QED BY <2>1, <2>3
<1> HIDE DEF k
<1>3. walk' = [t |-> 0, path |-> <<k>>, i |-> 0, ret |-> "idle"]
  BY <1>1, StillIs
<1>4. walk'.t = 0 /\ walk'.path = <<k>> /\ walk'.i = 0
  BY <1>3
<1>5. Child' = k
  BY <1>4 DEF Child
<1>6. Midway(node[k], ops, blobs, past, node[k].n_ops, past[k], 0, text)
  BY <1>1, <1>2, DownFrom DEF Strolls
<1>7. Standing'
  BY <1>1, <1>4, <1>5, <1>6 DEF Standing, Strolls, Quiet
<1>8. walk'.path \in Seq(Ids) /\ walk'.t \in Ids \cup {0} /\ walk'.i \in Nat
  BY <1>2, <1>4
<1> QED BY <1>1, <1>7, <1>8, StrollRest

LEMMA UndoToSets == ASSUME UndoInv, NEW n \in Ids, UndoTo(n) PROVE UndoRest'
<1>1. /\ Strolls /\ pc = "idle" /\ pc' = "travel"
      /\ walk' = [Still EXCEPT !.t = n, !.ret = "travel"]
  <2>1. open = 0
    BY DEF UndoTo, Resting, UndoInv, ChainInv, Transaction
  <2> QED BY <2>1 DEF UndoTo, Resting, Idle, tree, arenas, txn, ghosts, Quiet,
                      Strolls, UndoInv, UndoRest, Types
<1>2. walk' = [t |-> n, path |-> <<>>, i |-> 0, ret |-> "travel"]
  BY <1>1, StillIs
<1>3. walk'.t = n /\ walk'.path = <<>> /\ walk'.i = 0
  BY <1>2
<1>4. Standing'
  BY <1>1, <1>3 DEF Standing, Strolls, Quiet, UndoInv, UndoRest
<1>5. walk'.path \in Seq(Ids) /\ walk'.t \in Ids \cup {0} /\ walk'.i \in Nat
  BY <1>3, EmptySeq
<1> QED BY <1>1, <1>4, <1>5, StrollRest

(* One turn of the loop of yew_undo_to.                                      *)
LEMMA TravelRest == ASSUME UndoInv, Travel PROVE UndoRest'
<1> DEFINE here == node[cur].depth
           there == node[walk.t].depth
<1>1. Strolls /\ pc = "travel"
  <2>1. open = 0
    BY DEF Travel, UndoInv, ChainInv, Transaction
  <2> QED BY <2>1 DEF Travel, tree, arenas, txn, ghosts, Quiet, Strolls
<1>2. /\ walk = [t |-> walk.t, path |-> walk.path, i |-> walk.i,
                 ret |-> walk.ret]
      /\ walk.ret = "travel" /\ walk.t \in Alive(node)
      /\ Hangs(node, root, walk.path, walk.t)
  BY <1>1 DEF UndoInv, ChainInv, Journey
<1>3. /\ walk.t \in Ids \cup {0} /\ walk.path \in Seq(Ids) /\ walk.i \in Nat
      /\ text = past[cur]
  BY <1>1 DEF UndoInv, UndoRest, Types, Standing, Strolls
<1>4. ASSUME NEW n \in Alive(node), NEW k \in Alive(node),
             node[n].depth >= node[k].depth,
             node[n].depth # node[k].depth \/ n # k
      PROVE  n # root
  <2>1. n \in Ids /\ k \in Ids
    BY DEF Alive
  <2>2. node[n].depth \in Int /\ node[k].depth \in Int
    BY <2>1 DEF UndoInv, ChainInv, Tree, Shape, IsNode
  <2>3. k # root => node[k].depth > node[root].depth
    BY DEF UndoInv, ChainInv, Tree, Rooted
  <2> QED BY <1>4, <2>2, <2>3
<1>5. /\ cur \in Alive(node) /\ here \in Int /\ there \in Int
  BY <1>2 DEF UndoInv, ChainInv, Counted, Tree, Shape, IsNode, Alive
<1>6. CASE here > there /\ Climb
  <2>1. cur # root
    BY <1>2, <1>4, <1>5, <1>6
  <2>2. pc' = "back" /\ walk' = [walk EXCEPT !.i = node[cur].n_ops]
    BY <1>6 DEF Climb
  <2>3. /\ walk'.t = walk.t /\ walk'.path = walk.path
        /\ walk'.i = node[cur].n_ops
    BY <1>2, <2>2
  <2>4. /\ Midway(node[cur], ops, blobs, past, node[cur].n_ops, past[cur],
                  node[cur].n_ops, text)
        /\ node[cur].n_ops \in Nat
    BY <1>1, <2>1, UpFrom DEF Strolls
  <2>5. Standing'
    BY <1>1, <2>2, <2>3, <2>4 DEF Standing, Strolls, Quiet
  <2> QED BY <1>1, <1>3, <2>2, <2>3, <2>4, <2>5, StrollRest
<1>7. CASE here < there /\ walk' = Push /\ pc' = pc
  <2>1. walk.t # root
    BY <1>2, <1>4, <1>5, <1>7
  <2>2. /\ walk'.t = node[walk.t].parent
        /\ walk'.path = Append(walk.path, walk.t) /\ walk'.i = walk.i
        /\ node[walk.t].parent \in Alive(node)
    BY <1>1, <1>7, <2>1, Pushed DEF UndoInv
  <2>3. /\ walk'.t \in Ids \cup {0} /\ walk'.path \in Seq(Ids)
        /\ walk'.i \in Nat
    <3>1. walk.t \in Ids
      BY <1>2 DEF Alive
    <3> QED BY <1>3, <2>2, <3>1, AppendProperties DEF Alive
  <2>4. Standing'
    BY <1>1, <1>3, <1>7 DEF Standing, Strolls, Quiet
  <2> QED BY <1>1, <1>7, <2>3, <2>4, StrollRest
<1>8. CASE /\ here = there /\ cur # walk.t /\ pc' = "back"
           /\ walk' = [Push EXCEPT !.i = node[cur].n_ops]
  <2>1. walk.t # root /\ cur # root
    BY <1>2, <1>4, <1>5, <1>8
  <2>2. /\ Push = [t |-> node[walk.t].parent,
                   path |-> Append(walk.path, walk.t), i |-> walk.i,
                   ret |-> "travel"]
        /\ node[walk.t].parent \in Alive(node)
    BY <1>1, <2>1, Pushed DEF UndoInv
  <2>3. /\ walk'.t = node[walk.t].parent
        /\ walk'.path = Append(walk.path, walk.t)
        /\ walk'.i = node[cur].n_ops
    BY <1>8, <2>2
  <2>4. walk'.t \in Ids \cup {0} /\ walk'.path \in Seq(Ids)
    <3>1. walk.t \in Ids
      BY <1>2 DEF Alive
    <3> QED BY <1>3, <2>2, <2>3, <3>1, AppendProperties DEF Alive
  <2>5. /\ Midway(node[cur], ops, blobs, past, node[cur].n_ops, past[cur],
                  node[cur].n_ops, text)
        /\ node[cur].n_ops \in Nat
    BY <1>1, <2>1, UpFrom DEF Strolls
  <2>6. Standing'
    BY <1>1, <1>8, <2>3, <2>5 DEF Standing, Strolls, Quiet
  <2> QED BY <1>1, <1>8, <2>3, <2>4, <2>5, <2>6, StrollRest
<1>9. CASE /\ cur = walk.t /\ walk.path # <<>> /\ pc' = "forth"
           /\ walk' = [walk EXCEPT !.i = 0]
  <2>1. walk'.t = walk.t /\ walk'.path = walk.path /\ walk'.i = 0
    BY <1>2, <1>9
  <2>2. Child \in Alive(node) \ {root} /\ node[Child].parent = cur
    <3>1. Len(walk.path) \in 1 .. Len(walk.path)
      <4> DEFINE p == walk.path
      <4>1. p \in Seq(Ids) /\ p # <<>>
        BY <1>3, <1>9
      <4> HIDE DEF p
      <4>2. Len(p) \in 1 .. Len(p)
        BY <4>1
      <4> QED BY <4>2 DEF p
    <3> QED BY <1>2, <1>9, <3>1 DEF Hangs, Child
  <2>3. Midway(node[Child], ops, blobs, past, node[Child].n_ops, past[Child],
               0, text)
    BY <1>1, <2>2, DownFrom DEF Strolls
  <2>4. Child' = Child
    BY <2>1 DEF Child
  <2>5. Standing'
    BY <1>1, <1>9, <2>1, <2>3, <2>4 DEF Standing, Strolls, Quiet
  <2> QED BY <1>1, <1>3, <1>9, <2>1, <2>5, StrollRest
<1>10. CASE cur = walk.t /\ walk.path = <<>> /\ Goto("idle")
  <2>1. pc' = "idle" /\ walk' = Still
    BY <1>10, StillIs DEF Goto
  <2>2. Standing'
    BY <1>1, <1>3, <2>1 DEF Standing, Strolls, Quiet
  <2> QED BY <1>1, <2>1, <2>2, StrollRest, StillFields
<1> QED BY <1>6, <1>7, <1>8, <1>9, <1>10 DEF Travel

LEMMA MidwayStart ==
  ASSUME NEW q, NEW o, NEW b, NEW p, NEW i, NEW s, NEW t,
         Midway(q, o, b, p, i, s, 0, t)
  PROVE  t = p[q.parent]
BY DEF Midway, Told

LEMMA TwoSet ==
  ASSUME NEW q, NEW r, NEW c,
         q = [t |-> q.t, path |-> q.path, i |-> q.i, ret |-> q.ret]
  PROVE  [q EXCEPT !.path = r, !.t = c]
           = [t |-> c, path |-> r, i |-> q.i, ret |-> q.ret]
<1> DEFINE p == [q EXCEPT !.path = r]
<1>1. p = [t |-> q.t, path |-> r, i |-> q.i, ret |-> q.ret]
  OBVIOUS
<1> HIDE DEF p
<1>2. [p EXCEPT !.t = c] = [t |-> c, path |-> r, i |-> q.i, ret |-> q.ret]
  BY <1>1
<1> QED BY <1>2 DEF p

LEMMA MidwayEnd ==
  ASSUME NEW q, NEW o, NEW b, NEW p, NEW i, NEW s, NEW t,
         Midway(q, o, b, p, i, s, i, t)
  PROVE  t = s
BY DEF Midway, Told

(* Steps of travel that change no more of the nodes than where redo leads.   *)
Roams ==
  /\ Thins(node, node') /\ Typed(node') /\ Tree(node, root)'
  /\ len' = len /\ root' = root
  /\ ops' = ops /\ blobs' = blobs /\ past' = past
  /\ text' = text /\ saved' = saved /\ open' = open /\ nest' = nest
  /\ reason' = reason /\ kept' = kept /\ disk' = disk
  /\ amended' = amended /\ before' = before /\ nest = 0
  /\ boundary' \in BOOLEAN
  /\ boundary' = TRUE \/ (boundary' = boundary /\ cur' = cur)

LEMMA RoamRest ==
  ASSUME UndoInv, Roams, walk'.t \in Ids \cup {0}, walk'.path \in Seq(Ids),
         walk'.i \in Nat, pc' \in {"idle", "travel"},
         text = past[cur']
  PROVE  UndoRest'
<1>1. open = 0 /\ ~kept.on
  BY DEF Roams, UndoInv, ChainInv, Transaction
<1>2. Types'
  BY DEF UndoInv, UndoRest, Types, Roams
<1>3. Opened'
  BY <1>1 DEF UndoInv, UndoRest, Opened, Roams
<1>4. SavePoint'
  BY DEF UndoInv, UndoRest, SavePoint, Roams
<1>5. Standing'
  BY <1>1 DEF Standing, Roams
<1>6. Arena(node', root, len, ops, blobs)
  BY ThinArena DEF Roams, UndoInv, UndoRest
<1>7. Arena(node, root, len, ops, blobs)'
  BY <1>6 DEF Roams
<1>8. Stories(node', root, open, ops, blobs, past)
  <2>1. Rooted(node', root)
    BY DEF Roams, Tree
  <2> QED BY <2>1, ThinStories DEF Roams, UndoInv, UndoRest
<1>9. Stories(node, root, open, ops, blobs, past)'
  BY <1>8 DEF Roams
<1> QED BY <1>2, <1>3, <1>4, <1>5, <1>7, <1>9 DEF UndoRest

(* Redo led to a child is such a change.                                     *)
LEMMA RedoThins ==
  ASSUME UndoInv, NEW n \in Ids, NEW k \in node[n].kids,
         node' = [node EXCEPT ![n].redo = k], root' = root
  PROVE  Thins(node, node') /\ Typed(node') /\ Tree(node, root)'
<1>1. Shape(node) /\ Tree(node, root) /\ Typed(node)
  BY DEF UndoInv, UndoRest, Types, ChainInv, Tree
<1>2. node' = [j \in Ids |-> node'[j]]
      /\ node'[n] = [node[n] EXCEPT !.redo = k]
      /\ \A j \in Ids \ {n} : node'[j] = node[j]
  BY <1>1 DEF Shape, IsNode
<1>3. Restyled(node, node')
  BY <1>1, <1>2, SetRedo, Zenon
<1>4. Tree(node', root) /\ Alive(node') = Alive(node)
  BY <1>1, <1>3, RestyledTree
<1>5. Typed(node') /\ \A j \in Ids : Alike(node[j], node'[j])
  BY <1>1, <1>2, RedoAlike, Zenon
<1>6. Tree(node, root)'
  BY <1>4
<1> QED BY <1>4, <1>5, <1>6 DEF Thins, Alive

(* The end of a step to the parent: its text is there.                       *)
LEMMA BackDoneRest == ASSUME UndoInv, BackDone PROVE UndoRest'
<1> DEFINE up == node[cur].parent
<1>1. /\ pc = "back" /\ cur' = up /\ node' = [node EXCEPT ![up].redo = cur]
      /\ pc' = walk.ret /\ walk' = walk /\ walk.i = 0 /\ root' = root
      /\ boundary' = TRUE
  BY DEF BackDone
<1>2. cur \in Alive(node) \ {root} /\ nest = 0
  BY <1>1 DEF UndoInv, ChainInv, Counted, Transaction, Journey
<1>3. up \in Alive(node) /\ up \in Ids
  BY <1>2 DEF UndoInv, ChainInv, Tree, Rooted, Alive
<1>4. cur \in node[up].kids
  BY <1>2, <1>3 DEF UndoInv, ChainInv, Tree, Children
<1>5. text = past[up]
  <2>1. Midway(node[cur], ops, blobs, past, node[cur].n_ops, past[cur],
               0, text)
    BY <1>1 DEF UndoInv, UndoRest, Standing
  <2> QED BY <2>1, MidwayStart
<1> HIDE DEF up
<1>6. Thins(node, node') /\ Typed(node') /\ Tree(node, root)'
  BY <1>1, <1>3, <1>4, RedoThins
<1>7. Roams
  BY <1>1, <1>2, <1>6 DEF BackDone, Roams, arenas, txn, ghosts
<1>8. pc' \in {"idle", "travel"}
  BY <1>1 DEF UndoInv, ChainInv, Journey
<1>9. /\ walk'.t \in Ids \cup {0} /\ walk'.path \in Seq(Ids)
      /\ walk'.i \in Nat
  BY <1>1 DEF UndoInv, UndoRest, Types
<1> QED BY <1>1, <1>5, <1>7, <1>8, <1>9, RoamRest

(* The end of a step to a child: so is the text of the child.                *)
LEMMA ForthDoneRest == ASSUME UndoInv, ForthDone PROVE UndoRest'
<1> DEFINE path == walk.path
           rest == SubSeq(path, 1, Len(path) - 1)
<1>1. /\ pc = "forth" /\ cur' = Child
      /\ node' = [node EXCEPT ![cur].redo = Child] /\ root' = root
      /\ boundary' = TRUE /\ walk.i = node[Child].n_ops
      /\ IF walk.ret = "idle" THEN Goto("idle")
         ELSE pc' = "travel" /\ walk' = [walk EXCEPT !.path = rest, !.t = Child]
  BY DEF ForthDone
<1>2. nest = 0 /\ cur \in Alive(node) /\ cur \in Ids
      /\ path \in Seq(Ids) /\ path # <<>> /\ Hangs(node, root, path, cur)
      /\ walk = [t |-> walk.t, path |-> walk.path, i |-> walk.i,
                 ret |-> walk.ret]
      /\ walk.i \in Nat
  BY <1>1 DEF UndoInv, ChainInv, Counted, Transaction, Journey, Hangs, Alive,
              UndoRest, Types
<1>3. Len(path) \in 1 .. Len(path) /\ Len(path) \in Nat
  <2> HIDE DEF path
  <2> QED BY <1>2
<1>4. Child \in Alive(node) \ {root} /\ node[Child].parent = cur
      /\ Child \in Ids
  BY <1>2, <1>3 DEF Hangs, Child, Alive
<1>5. Child \in node[cur].kids
  BY <1>2, <1>4 DEF UndoInv, ChainInv, Tree, Children
<1>6. text = past[Child]
  <2>1. Midway(node[Child], ops, blobs, past, node[Child].n_ops, past[Child],
               node[Child].n_ops, text)
    BY <1>1 DEF UndoInv, UndoRest, Standing
  <2> QED BY <2>1, MidwayEnd
<1>7. Thins(node, node') /\ Typed(node') /\ Tree(node, root)'
  BY <1>1, <1>2, <1>5, RedoThins
<1>8. Roams
  BY <1>1, <1>2, <1>7 DEF ForthDone, Roams, arenas, txn, ghosts
<1>9. CASE walk.ret = "idle"
  <2>1. pc' = "idle" /\ walk' = Still
    BY <1>1, <1>9, StillIs DEF Goto
  <2> QED BY <1>1, <1>6, <1>8, <2>1, RoamRest, StillFields
<1>10. CASE walk.ret # "idle"
  <2>1. rest \in Seq(Ids)
    <3> HIDE DEF path
    <3> DEFINE n == Len(path) - 1
    <3>1. n \in Nat /\ n <= Len(path) /\ 0 <= n /\ 0 \in Nat
      BY <1>3
    <3> HIDE DEF n
    <3>2. Piece(Ids, path, 0, n)
      BY <1>2, <3>1, PieceIs
    <3>3. SubSeq(path, 0 + 1, n) \in Seq(Ids)
      BY <3>2 DEF Piece
    <3> QED BY <3>3 DEF n
  <2>2. pc' = "travel" /\ walk' = [walk EXCEPT !.path = rest, !.t = Child]
    BY <1>1, <1>10
  <2>3. walk' = [t |-> Child, path |-> rest, i |-> walk.i, ret |-> walk.ret]
    <3> HIDE DEF path, rest
    <3> QED BY <1>2, <2>2, TwoSet DEF path
  <2>4. walk'.t = Child /\ walk'.path = rest /\ walk'.i = walk.i
    BY <2>3
  <2>5. /\ walk'.t \in Ids \cup {0} /\ walk'.path \in Seq(Ids)
        /\ walk'.i \in Nat
    BY <1>2, <1>4, <2>1, <2>4
  <2> QED BY <1>1, <1>6, <1>8, <2>2, <2>5, RoamRest
<1> QED BY <1>9, <1>10

(* yew_undo_branch_cycle.                                                    *)
LEMMA BranchCycleRest == ASSUME UndoInv, NEW d, BranchCycle(d) PROVE UndoRest'
<1>1. PICK k \in node[cur].kids : node' = [node EXCEPT ![cur].redo = k]
  BY DEF BranchCycle
<1>2. cur \in Ids /\ nest = 0 /\ pc = "idle" /\ pc' = pc /\ cur' = cur
      /\ walk' = walk /\ root' = root /\ boundary' = boundary
  BY DEF BranchCycle, Resting, Idle, UndoInv, ChainInv, Counted, Alive, txn
<1>3. Thins(node, node') /\ Typed(node') /\ Tree(node, root)'
  BY <1>1, <1>2, RedoThins
<1>4. Roams
  BY <1>2, <1>3 DEF BranchCycle, Roams, arenas, txn, ghosts, UndoInv,
                    UndoRest, Types
<1>5. text = past[cur']
  BY <1>2 DEF UndoInv, UndoRest, Standing, ChainInv, Transaction
<1>6. /\ walk'.t \in Ids \cup {0} /\ walk'.path \in Seq(Ids)
      /\ walk'.i \in Nat
  BY <1>2 DEF UndoInv, UndoRest, Types
<1> QED BY <1>2, <1>4, <1>5, <1>6, RoamRest

(* yew_undo_mark_saved and yew_undo_boundary.                                *)
LEMMA MarkRest == ASSUME UndoInv, Save \/ Boundary PROVE UndoRest'
<1>1. /\ Quiet /\ text' = text /\ cur' = cur /\ open' = open /\ nest' = nest
      /\ reason' = reason /\ kept' = kept /\ pc' = pc /\ walk' = walk
      /\ before' = before /\ boundary' = TRUE /\ pc = "idle"
  BY DEF Save, Boundary, Resting, Idle, tree, arenas, txn, ghosts, Quiet
<1>2. \/ saved' = saved /\ disk' = disk /\ amended' = amended
      \/ saved' = cur /\ disk' = text /\ amended' = FALSE /\ open = 0
  BY DEF Save, Boundary, Resting, ghosts, UndoInv, ChainInv, Transaction
<1>3. Types'
  BY <1>1 DEF UndoInv, UndoRest, Types, Quiet
<1>4. Standing'
  BY <1>1 DEF UndoInv, UndoRest, Standing, Quiet
<1>5. Opened'
  <2>1. Snapshot' = Snapshot /\ Return' = Return /\ KeptFits' = KeptFits
    BY <1>1 DEF Snapshot, Return, KeptFits, Quiet, Live
  <2> QED BY <1>1, <2>1 DEF UndoInv, UndoRest, Opened, Quiet
<1>6. SavePoint'
  <2>1. open = 0 => text = past[cur]
    BY <1>1 DEF UndoInv, UndoRest, Standing
  <2> QED BY <1>1, <1>2, <2>1 DEF UndoInv, UndoRest, SavePoint, Quiet
<1> QED BY <1>1, <1>3, <1>4, <1>5, <1>6, QuietKeeps DEF UndoRest

(* Nothing happens.                                                          *)
LEMMA StutterRest == ASSUME UndoInv, vars' = vars PROVE UndoRest'
<1>1. /\ Quiet /\ text' = text /\ cur' = cur /\ saved' = saved /\ open' = open
      /\ nest' = nest /\ reason' = reason /\ kept' = kept /\ pc' = pc
      /\ walk' = walk /\ disk' = disk /\ amended' = amended
      /\ before' = before /\ boundary' = boundary
  BY DEF vars, tree, arenas, txn, ghosts, Quiet
<1>2. Types'
  BY <1>1 DEF UndoInv, UndoRest, Types, Quiet
<1>3. Standing'
  <2>1. Child' = Child
    BY <1>1 DEF Child
  <2> QED BY <1>1, <2>1 DEF UndoInv, UndoRest, Standing, Quiet
<1>4. Opened'
  <2>1. Snapshot' = Snapshot /\ Return' = Return /\ KeptFits' = KeptFits
    BY <1>1 DEF Snapshot, Return, KeptFits, Quiet, Live
  <2> QED BY <1>1, <2>1 DEF UndoInv, UndoRest, Opened, Quiet
<1>5. SavePoint'
  BY <1>1 DEF UndoInv, UndoRest, SavePoint, Quiet
<1> QED BY <1>1, <1>2, <1>3, <1>4, <1>5, QuietKeeps DEF UndoRest

(* The texts of the nodes that stay are remembered.                          *)
LEMMA StayRemembered ==
  ASSUME UndoInv, Remembered, Typed(node')
  PROVE  /\ past' \in [Ids -> Text]
         /\ \A n \in Alive(node') : past'[n] = past[n]
<1>1. past \in [Ids -> Text]
  BY DEF UndoInv, UndoRest, Types
<1>2. \A n \in Ids : past'[n] = IF node'[n].live THEN past[n] ELSE <<>>
  BY DEF Remembered
<1>3. <<>> \in Text
  BY EmptySeq DEF Text
<1>4. past' \in [Ids -> Text]
  <2>1. past' = [n \in Ids |-> IF node'[n].live THEN past[n] ELSE <<>>]
    BY DEF Remembered
  <2>2. \A n \in Ids : IF node'[n].live THEN past[n] \in Text
                       ELSE <<>> \in Text
    BY <1>1, <1>3
  <2> QED BY <2>1, <2>2
<1>5. \A n \in Alive(node') : past'[n] = past[n]
  BY <1>2 DEF Alive
<1> QED BY <1>4, <1>5

(* No node is older than the root.                                           *)
LEMMA RootLeast ==
  ASSUME NEW nd, NEW r, Tree(nd, r), NEW n \in Alive(nd) PROVE r <= n
<1> DEFINE A == Alive(nd)
           least == LeastOf(A)
<1>1. A \in SUBSET Nat /\ A # {}
  BY DEF Alive, Ids
<1>2. least \in A /\ \A k \in A : least <= k
  BY <1>1, LeastExists
<1> HIDE DEF least
<1>3. CASE least = r
  BY <1>2, <1>3
<1>4. CASE least # r
  <2>1. nd[least].parent \in A /\ nd[least].parent < least
    BY <1>2, <1>4 DEF Tree, Rooted
  <2>2. least <= nd[least].parent
    BY <1>2, <2>1
  <2>3. least \in Nat /\ nd[least].parent \in Nat
    BY <1>1, <1>2, <2>1
  <2> QED BY <2>1, <2>2, <2>3
<1> QED BY <1>3, <1>4

(* Steps that drop nodes between edits.                                      *)
Drops ==
  /\ len' = len /\ cur' = cur /\ saved' = saved
  /\ ops' = ops /\ blobs' = blobs /\ text' = text /\ open' = open
  /\ nest' = nest /\ reason' = reason /\ kept' = kept /\ disk' = disk
  /\ amended' = amended /\ before' = before /\ pc' = pc /\ walk' = walk
  /\ pc \in {"idle", "trim"} /\ nest = 0
  /\ boundary' \in {boundary, TRUE} /\ Remembered

LEMMA DropKeeps ==
  ASSUME UndoInv, ChainInv', Drops, Typed(node')
  PROVE  Types' /\ Standing' /\ Opened' /\ SavePoint'
<1>1. open = 0 /\ ~kept.on
  BY DEF Drops, UndoInv, ChainInv, Transaction
<1>2. past' \in [Ids -> Text] /\ \A n \in Alive(node') : past'[n] = past[n]
  BY StayRemembered DEF Drops
<1>3. cur \in Alive(node') /\ saved \in Alive(node')
  <2>1. {cur', saved'} \subseteq Alive(node)'
    BY DEF ChainInv, Counted
  <2> QED BY <2>1 DEF Drops, Alive
<1>4. past'[cur] = past[cur] /\ past'[saved] = past[saved]
  BY <1>2, <1>3
<1>5. Types'
  <2>1. boundary' \in BOOLEAN
    BY DEF Drops, UndoInv, UndoRest, Types
  <2> QED BY <1>2, <2>1 DEF UndoInv, UndoRest, Types, Drops
<1>6. Standing'
  BY <1>1, <1>4 DEF UndoInv, UndoRest, Standing, Drops
<1>7. Opened'
  BY <1>1 DEF UndoInv, UndoRest, Opened, Drops
<1>8. SavePoint'
  <2>1. (~amended => disk = past[saved]) /\ (~boundary => cur # saved)
    BY DEF UndoInv, UndoRest, SavePoint, Drops
  <2>2. /\ amended' = amended /\ disk' = disk /\ saved' = saved
        /\ cur' = cur /\ open' = 0
    BY <1>1 DEF Drops
  <2>3. boundary' = boundary \/ boundary' = TRUE
    BY DEF Drops
  <2>4. ~boundary' => cur' # saved'
    BY <2>1, <2>2, <2>3
  <2>5. ~amended' => disk' = past'[saved']
    BY <1>4, <2>1, <2>2
  <2> QED BY <1>3, <2>2, <2>4, <2>5 DEF SavePoint, Alive, Ids
<1> QED BY <1>5, <1>6, <1>7, <1>8

LEMMA CutRest ==
  ASSUME UndoInv, ChainInv', Drops, root' = root,
         NEW r \in Alive(node) \ {root}, node' = Tombstoned(r)
  PROVE  UndoRest'
<1>1. Tree(node, root) /\ Counted /\ Typed(node)
  BY DEF UndoInv, ChainInv, UndoRest, Types
<1>2. Branch(r, Under(r)) /\ node' = Cut(r, Under(r))
  BY <1>1, UnderBranch
<1>3. /\ Alive(node') = Alive(node) \ Under(r) /\ Typed(node')
      /\ Tree(node', root)
      /\ \A n \in Alive(node) \ Under(r) : Alike(node[n], node'[n])
  BY <1>1, <1>2, CutTree, CutNodes
<1>4. Thins(node, node')
  BY <1>3 DEF Thins
<1>5. Types' /\ Standing' /\ Opened' /\ SavePoint'
  BY <1>3, DropKeeps
<1>6. Arena(node', root, len, ops, blobs)
  BY <1>4, ThinArena DEF UndoInv, UndoRest
<1>7. Stories(node', root, open, ops, blobs, past')
  <2>1. Rooted(node', root)
    BY <1>3 DEF Tree
  <2>2. \A n \in Alive(node') : past'[n] = past[n]
    BY <1>3, StayRemembered DEF Drops
  <2> QED BY <1>4, <2>1, <2>2, ThinStories DEF UndoInv, UndoRest
<1>8. /\ Arena(node, root, len, ops, blobs)'
      /\ Stories(node, root, open, ops, blobs, past)'
  BY <1>6, <1>7 DEF Drops
<1> QED BY <1>5, <1>8 DEF UndoRest

(* yew_undo_prune_redo; the branches that trim_tree drops.                   *)
LEMMA PruneRedoRest ==
  ASSUME UndoInv, NEW e, PruneRedo(e) PROVE UndoRest'
<1>1. ChainInv'
  BY PruneRedoKeeps DEF UndoInv
<1> DEFINE r == node[cur].redo
<1>2. Drops /\ root' = root /\ r \in Live /\ node' = Tombstoned(r)
  BY DEF PruneRedo, Resting, Idle, txn, arenas, Drops
<1>3. Tree(node, root) /\ Live = Alive(node) /\ cur \in Alive(node)
      /\ 0 \notin Alive(node)
  BY LiveIsAlive DEF UndoInv, ChainInv, Counted, Alive, Ids
<1>4. r \in Alive(node) \ {root}
  <2>1. r \in node[cur].kids
    BY <1>2, <1>3 DEF Tree, Children
  <2>2. node[r].parent = cur
    BY <1>3, <2>1 DEF Tree, Children
  <2>3. node[root].parent = 0
    BY <1>3 DEF Tree, Rooted
  <2> QED BY <1>2, <1>3, <2>2, <2>3
<1> HIDE DEF r
<1> QED BY <1>1, <1>2, <1>4, CutRest

LEMMA PruneBranchRest == ASSUME UndoInv, PruneBranch PROVE UndoRest'
<1>1. ChainInv'
  BY PruneBranchKeeps DEF UndoInv
<1> DEFINE r == LeastOf(Prunable)
<1>2. Drops /\ root' = root /\ node' = Tombstoned(r) /\ Prunable # {}
      /\ pc = "trim"
  BY DEF PruneBranch, txn, arenas, Drops, UndoInv, ChainInv, Transaction
<1>3. Live = Alive(node) /\ Prunable \in SUBSET Nat /\ root \in Alive(node)
      /\ Tree(node, root) /\ cur \in Alive(node) /\ root \in Ids
  BY LiveIsAlive DEF UndoInv, ChainInv, Tree, Rooted, Alive, Ids, Prunable,
                     Counted
<1>4. r \in Prunable
  BY <1>2, <1>3, LeastExists
<1> HIDE DEF r
<1>5. r \in Alive(node) \ {root}
  <2>1. r \in Alive(node) /\ Under(r) \cap Protected = {}
    BY <1>3, <1>4 DEF Prunable
  <2>2. root \in Protected
    BY <1>3, RootAbove DEF Protected
  <2>3. r = root => root \in Under(r)
    <3>1. IsAncestor(root, root) /\ root \in Int
      BY <1>3, Oneself DEF Ids
    <3> QED BY <1>3, <3>1 DEF Under
  <2> QED BY <2>1, <2>2, <2>3
<1> QED BY <1>1, <1>2, <1>5, CutRest

(* reroot_one: the new root has no story, and keeps its text.                *)
LEMMA RerootRest == ASSUME UndoInv, Reroot PROVE UndoRest'
<1>1. ChainInv'
  BY RerootKeeps DEF UndoInv
<1>2. PICK c \in Ids :
        /\ node[root].kids \cap Live = {c} /\ root' = c
        /\ node' = [node EXCEPT ![c].n_ops = 0, ![c].parent = 0,
                                ![c].blob_lo = node[c].blob_hi,
                                ![root] = NoNode]
  BY DEF Reroot
<1>3. Drops
  BY DEF Reroot, txn, arenas, Drops, UndoInv, ChainInv, Transaction
<1>4. Tree(node, root) /\ Counted /\ Typed(node) /\ Shape(node)
      /\ root \in Ids /\ Alive(node) \subseteq Ids
  BY DEF UndoInv, ChainInv, UndoRest, Types, Tree, Rooted, Alive
<1>5. /\ Tree(node', c) /\ Alive(node') = Alive(node) \ {root}
      /\ c \in Alive(node) \ {root}
  BY <1>2, <1>4, Rerooted
<1>6. /\ \A n \in Ids \ {root, c} : node'[n] = node[n]
      /\ node'[c].ops_at = node[c].ops_at /\ node'[c].n_ops = 0
      /\ node'[c].blob_lo = node[c].blob_hi
      /\ node'[c].blob_hi = node[c].blob_hi
      /\ Typed(node')
  BY <1>2, <1>4, <1>5, RerootNodes
<1>7. Types' /\ Standing' /\ Opened' /\ SavePoint'
  BY <1>1, <1>3, <1>6, DropKeeps
<1>8. Arena(node, root, len, ops, blobs)
  BY DEF UndoInv, UndoRest
<1>9. \A n \in Alive(node) : Numbers(node[n]) /\ Within(node[n], ops, blobs)
  BY AliveFacts
<1>10. Arena(node', c, len, ops, blobs)
  <2>1. Within(node'[c], ops, blobs) /\ Ends(node'[c]) <= Ends(node[c])
    <3>1. Numbers(node[c]) /\ Within(node[c], ops, blobs)
          /\ Len(ops) \in Nat /\ Len(blobs) \in Nat
      BY <1>5, <1>9, LenProperties DEF UndoInv, UndoRest, Types, Text
    <3> QED BY <1>6, <3>1 DEF Within, Ends, Numbers
  <2>2. Inside(node', ops, blobs)
    <3> SUFFICES ASSUME NEW n \in Alive(node')
                 PROVE  Within(node'[n], ops, blobs)
      BY DEF Inside
    <3>1. CASE n = c
      BY <2>1, <3>1
    <3>2. CASE n # c
      BY <1>4, <1>5, <1>6, <1>9, <3>2
    <3> QED BY <3>1, <3>2
  <2>3. InOrder(node')
    <3> SUFFICES ASSUME NEW m \in Alive(node'), NEW n \in Alive(node'), m < n
                 PROVE  /\ Ends(node'[m]) <= node'[n].ops_at
                        /\ node'[m].blob_hi <= node'[n].blob_lo
      BY DEF InOrder
    <3>1. /\ m \in Alive(node) \ {root} /\ n \in Alive(node) \ {root}
          /\ m \in Ids /\ n \in Ids
      BY <1>4, <1>5
    <3>2. /\ Ends(node[m]) <= node[n].ops_at
          /\ node[m].blob_hi <= node[n].blob_lo
      BY <1>8, <3>1 DEF Arena, InOrder
    <3>3. /\ Numbers(node[m]) /\ Numbers(node[n]) /\ Numbers(node'[c])
          /\ Within(node[n], ops, blobs)
      BY <1>6, <1>9, <3>1 DEF Typed
    <3>4. /\ Ends(node'[m]) <= Ends(node[m])
          /\ node'[m].blob_hi = node[m].blob_hi
      <4>1. CASE m = c
        BY <1>6, <2>1, <4>1
      <4>2. CASE m # c
        BY <1>6, <3>1, <3>3, <4>2 DEF Ends, Numbers
      <4> QED BY <4>1, <4>2
    <3>5. /\ node'[n].ops_at = node[n].ops_at
          /\ node[n].blob_lo <= node'[n].blob_lo
      <4>1. CASE n = c
        BY <1>6, <3>3, <4>1 DEF Within
      <4>2. CASE n # c
        BY <1>6, <3>1, <3>3, <4>2 DEF Numbers
      <4> QED BY <4>1, <4>2
    <3>6. /\ Ends(node'[m]) \in Nat /\ Ends(node[m]) \in Nat
          /\ node[n].ops_at \in Nat /\ node[m].blob_hi \in Nat
          /\ node[n].blob_lo \in Nat /\ node'[n].blob_lo \in Nat
      <4>1. Numbers(node'[m]) /\ Numbers(node'[n])
        BY <1>6, <3>1 DEF Typed
      <4> QED BY <3>3, <4>1 DEF Numbers, Ends
    <3> QED BY <3>2, <3>4, <3>5, <3>6
  <2>4. Busy(node', c)
    <3> SUFFICES ASSUME NEW n \in Alive(node') \ {c} PROVE node'[n].n_ops > 0
      BY DEF Busy
    <3>1. n \in Alive(node) \ {root} /\ n \in Ids \ {root, c}
      BY <1>4, <1>5
    <3> QED BY <1>6, <1>8, <3>1 DEF Arena, Busy
  <2>5. Meet(node', len, ops, blobs)
    <3> SUFFICES ASSUME NEW n \in Alive(node'), node'[n].n_ops # 0
                 PROVE  /\ n = len => /\ Ends(node'[n]) = Len(ops)
                                      /\ node'[n].blob_hi = Len(blobs)
                        /\ n + 1 \in Alive(node') =>
                              /\ Ends(node'[n]) = node'[n + 1].ops_at
                              /\ node'[n].blob_hi = node'[n + 1].blob_lo
      BY DEF Meet
    <3>1. n \in Ids \ {root, c} /\ node'[n] = node[n] /\ n \in Alive(node)
      BY <1>4, <1>5, <1>6
    <3>2. /\ n = len => /\ Ends(node[n]) = Len(ops)
                        /\ node[n].blob_hi = Len(blobs)
          /\ n + 1 \in Alive(node) => /\ Ends(node[n]) = node[n + 1].ops_at
                                      /\ node[n].blob_hi = node[n + 1].blob_lo
      BY <1>8, <3>1 DEF Arena, Meet
    <3>3. n + 1 \in Alive(node') => n + 1 \in Alive(node) /\ n + 1 # c
                                    /\ n + 1 # root /\ n + 1 \in Ids
      <4>1. c <= n
        BY <1>5, RootLeast
      <4> QED BY <1>4, <1>5, <3>1, <4>1 DEF Ids
    <3> QED BY <1>6, <3>1, <3>2, <3>3
  <2> QED BY <2>2, <2>3, <2>4, <2>5 DEF Arena
<1>11. Stories(node', c, open, ops, blobs, past')
  <2> SUFFICES ASSUME NEW n \in Alive(node') \ {c, open}
               PROVE  Story(node'[n], ops, blobs, past', n)
    BY DEF Stories
  <2>1. n \in Alive(node) \ {root, open} /\ node'[n] = node[n]
    BY <1>4, <1>5, <1>6
  <2>2. node'[n].parent \in Alive(node')
    BY <1>5 DEF Tree, Rooted
  <2>3. past'[n] = past[n] /\ past'[node[n].parent] = past[node[n].parent]
    BY <1>3, <1>6, <2>1, <2>2, StayRemembered DEF Drops
  <2>4. Story(node[n], ops, blobs, past, n)
    BY <2>1 DEF UndoInv, UndoRest, Stories
  <2> QED BY <2>1, <2>3, <2>4 DEF Story, Midway
<1>12. /\ Arena(node, root, len, ops, blobs)'
       /\ Stories(node, root, open, ops, blobs, past)'
  BY <1>2, <1>3, <1>10, <1>11 DEF Drops
<1> QED BY <1>7, <1>12 DEF UndoRest

(* A sequence of members of T.                                               *)
LEMMA Narrow ==
  ASSUME NEW S, NEW T, NEW s \in Seq(S), NEW n \in Nat, Len(s) = n,
         \A i \in 1 .. n : s[i] \in T
  PROVE  s \in Seq(T)
<1>1. s \in [1 .. n -> T]
  <2>1. s = [i \in 1 .. n |-> s[i]]
    OBVIOUS
  <2> QED BY <2>1
<1> QED BY <1>1, SeqDef

(* compact_history: the operations whose deleted bytes are in the blobs, ... *)
Fit    == {op \in Op : op.kind # "INS" => op.payload + op.len <= Len(blobs)}
Slices == [k \in 1 .. len |-> Slice(k)]
Gones  == [j \in 1 .. Len(Packed(len)) |-> Gone(Packed(len)[j])]

LEMMA SliceIs ==
  ASSUME UndoInv, NEW k \in 1 .. len
  PROVE  /\ Slice(k) \in Seq(Fit)
         /\ k \in Alive(node) =>
              /\ Len(Slice(k)) = node[k].n_ops
              /\ \A i \in 1 .. node[k].n_ops :
                   Slice(k)[i] = ops[node[k].ops_at + i]
<1>1. Live = Alive(node)
  BY LiveIsAlive DEF UndoInv, ChainInv
<1>2. CASE k \notin Live
  BY <1>1, <1>2, EmptySeq DEF Slice
<1>3. CASE k \in Live
  <2> DEFINE at == node[k].ops_at
             n == node[k].n_ops
             s == SubSeq(ops, at + 1, at + n)
  <2>1. at \in Nat /\ n \in Nat /\ Numbers(node[k])
        /\ Within(node[k], ops, blobs)
    BY <1>1, <1>3, AliveFacts DEF Numbers
  <2>2. ops \in Seq(Op) /\ at + n <= Len(ops) /\ Len(blobs) \in Nat
        /\ Len(ops) \in Nat /\ at + n \in Nat /\ at <= at + n
        /\ (at + n) - at = n
    BY <2>1, LenProperties
       DEF UndoInv, UndoRest, Types, Text, Within, Ends
  <2>3. \A i \in 1 .. n : ops[at + i].kind # "INS" =>
          ops[at + i].payload + ops[at + i].len <= node[k].blob_hi
    BY <2>1 DEF Within
  <2>4. node[k].blob_hi \in Nat /\ node[k].blob_hi <= Len(blobs)
    BY <2>1 DEF Within, Numbers
  <2>5. Slice(k) = s
    BY <1>3 DEF Slice
  <2> HIDE DEF at, n
  <2>6. Piece(Op, ops, at, at + n)
    BY <2>1, <2>2, PieceIs
  <2>7. s \in Seq(Op) /\ Len(s) = n /\ \A i \in 1 .. n : s[i] = ops[at + i]
    BY <2>2, <2>6 DEF Piece
  <2> HIDE DEF s
  <2>8. ASSUME NEW i \in 1 .. n PROVE s[i] \in Fit
    <3> DEFINE op == ops[at + i]
    <3>1. at + i \in 1 .. Len(ops)
      BY <2>1, <2>2
    <3>2. op \in Op
      BY <2>2, <3>1, ElementOfSeq
    <3>3. op.kind # "INS" => op.payload + op.len <= node[k].blob_hi
      BY <2>3
    <3>4. op.payload \in Nat /\ op.len \in Nat
      BY <3>2 DEF Op
    <3>5. s[i] = op
      BY <2>7
    <3> HIDE DEF op
    <3> QED BY <2>2, <2>4, <3>2, <3>3, <3>4, <3>5 DEF Fit
  <2>9. s \in Seq(Fit)
    BY <2>1, <2>7, <2>8, Narrow
  <2> QED BY <2>5, <2>7, <2>9 DEF at, n
<1> QED BY <1>2, <1>3

LEMMA PackedIs ==
  ASSUME UndoInv, NEW n \in 0 .. len
  PROVE  /\ Packed(n) = Joined(Slices, n) /\ Packed(n) \in Seq(Fit)
         /\ Len(Packed(n)) \in Nat /\ n \in Nat
         /\ \A k \in 1 .. n : Slices[k] \in Seq(Fit)
<1>1. len \in Nat /\ n \in Nat
  BY DEF UndoInv, ChainInv, Counted, Ids
<1>2. \A k \in 1 .. n : k \in 1 .. len /\ Slices[k] = Slice(k)
  BY <1>1 DEF Slices
<1>3. [k \in 1 .. n |-> Slices[k]] = [k \in 1 .. n |-> Slice(k)]
  BY <1>2
<1>4. Packed(n) = Joined(Slices, n)
  BY <1>3 DEF Packed, Joined
<1>5. \A k \in 1 .. n : Slices[k] \in Seq(Fit)
  BY <1>2, SliceIs
<1>6. Packed(n) \in Seq(Fit)
  BY <1>1, <1>4, <1>5, JoinType
<1> QED BY <1>1, <1>4, <1>5, <1>6, LenProperties

LEMMA PackedOrder ==
  ASSUME UndoInv, NEW n \in 0 .. len, NEW m \in 0 .. n
  PROVE  Len(Packed(m)) <= Len(Packed(n))
<1>1. m \in 0 .. len
  BY DEF UndoInv, ChainInv, Counted, Ids
<1>2. Packed(m) = Joined(Slices, m) /\ Packed(n) = Joined(Slices, n)
      /\ n \in Nat /\ \A k \in 1 .. n : Slices[k] \in Seq(Fit)
  BY <1>1, PackedIs
<1>3. Starts(Joined(Slices, m), Joined(Slices, n))
  BY <1>2, JoinStarts
<1> QED BY <1>2, <1>3 DEF Starts

LEMMA PackedAt ==
  ASSUME UndoInv, NEW n \in Alive(node)
  PROVE  /\ n \in 1 .. len /\ n - 1 \in 0 .. len
         /\ Len(Packed(n)) = Len(Packed(n - 1)) + node[n].n_ops
         /\ Len(Packed(n)) <= Len(Packed(len))
         /\ Len(Packed(n - 1)) \in Nat /\ Len(Packed(len)) \in Nat
         /\ \A i \in 1 .. node[n].n_ops :
              Packed(len)[Len(Packed(n - 1)) + i] = ops[node[n].ops_at + i]
<1>1. /\ n \in 1 .. len /\ n - 1 \in 0 .. len /\ n \in 0 .. len
      /\ len \in 0 .. len /\ len \in Nat
  BY DEF UndoInv, ChainInv, Counted, Alive, Ids
<1>2. /\ Packed(n) = Joined(Slices, n) /\ Packed(len) = Joined(Slices, len)
      /\ Packed(n - 1) = Joined(Slices, n - 1) /\ Slices[n] = Slice(n)
      /\ \A k \in 1 .. len : Slices[k] \in Seq(Fit)
      /\ Len(Packed(n - 1)) \in Nat /\ Len(Packed(len)) \in Nat
  BY <1>1, PackedIs DEF Slices
<1>3. /\ Len(Joined(Slices, n)) = Len(Joined(Slices, n - 1)) + Len(Slices[n])
      /\ Len(Joined(Slices, n)) <= Len(Joined(Slices, len))
      /\ \A i \in 1 .. Len(Slices[n]) :
           Joined(Slices, len)[Len(Joined(Slices, n - 1)) + i] = Slices[n][i]
  <2>1. AllSeq(Fit, Slices, len)
    BY <1>2 DEF AllSeq
  <2>2. JoinedAt(Slices, len, n)
    BY <1>1, <2>1, JoinAt
  <2> QED BY <2>2 DEF JoinedAt
<1>4. /\ Len(Slice(n)) = node[n].n_ops
      /\ \A i \in 1 .. node[n].n_ops : Slice(n)[i] = ops[node[n].ops_at + i]
  BY <1>1, SliceIs
<1> QED BY <1>1, <1>2, <1>3, <1>4

(* ... and the bytes they deleted.                                           *)
LEMMA GoneIs ==
  ASSUME UndoInv, NEW op \in Fit
  PROVE  /\ Gone(op) \in Text /\ op \in Op
         /\ op.kind # "INS" => Len(Gone(op)) = op.len
         /\ op.off \in Nat /\ op.len \in Nat /\ op.payload \in Nat
<1>1. /\ op \in Op /\ op.payload \in Nat /\ op.len \in Nat /\ op.off \in Nat
      /\ op.kind # "INS" => op.payload + op.len <= Len(blobs)
  BY DEF Fit, Op
<1>2. CASE op.kind = "INS"
  BY <1>1, <1>2, EmptySeq DEF Gone, Text
<1>3. CASE op.kind # "INS"
  <2> DEFINE m == op.payload
             n == op.payload + op.len
  <2>1. m \in Nat /\ n \in Nat /\ m <= n /\ n <= Len(blobs)
        /\ n - m = op.len
    BY <1>1, <1>3
  <2> HIDE DEF m, n
  <2>2. Piece(Byte \cup {0}, blobs, m, n)
    BY <2>1, PieceIs DEF UndoInv, UndoRest, Types, Text
  <2>3. SubSeq(blobs, m + 1, n) \in Text
        /\ Len(SubSeq(blobs, m + 1, n)) = n - m
    BY <2>2 DEF Piece, Text
  <2> QED BY <1>1, <1>3, <2>1, <2>3 DEF Gone, m, n
<1> QED BY <1>2, <1>3

LEMMA PackedOp ==
  ASSUME UndoInv, NEW j \in 1 .. Len(Packed(len))
  PROVE  Packed(len)[j] \in Fit /\ Gones[j] = Gone(Packed(len)[j])
         /\ Gones[j] \in Seq(Byte \cup {0})
<1>1. Packed(len) \in Seq(Fit)
  <2>1. len \in 0 .. len
    BY DEF UndoInv, ChainInv, Counted, Ids
  <2> QED BY <2>1, PackedIs
<1>2. Packed(len)[j] \in Fit
  BY <1>1, ElementOfSeq
<1>3. Gones[j] = Gone(Packed(len)[j])
  BY DEF Gones
<1> QED BY <1>2, <1>3, GoneIs DEF Text

LEMMA BytesIs ==
  ASSUME UndoInv, NEW k \in 0 .. Len(Packed(len))
  PROVE  /\ Bytes(k) = Joined(Gones, k) /\ Bytes(k) \in Text
         /\ Len(Bytes(k)) \in Nat /\ k \in Nat
         /\ \A j \in 1 .. k : Gones[j] \in Seq(Byte \cup {0})
<1>1. Len(Packed(len)) \in Nat /\ k \in Nat
  <2>1. len \in 0 .. len
    BY DEF UndoInv, ChainInv, Counted, Ids
  <2> QED BY <2>1, PackedIs
<1>2. \A j \in 1 .. k : j \in 1 .. Len(Packed(len))
  BY <1>1
<1>3. \A j \in 1 .. k : /\ Gones[j] = Gone(Packed(len)[j])
                        /\ Gones[j] \in Seq(Byte \cup {0})
  BY <1>2, PackedOp
<1>4. [j \in 1 .. k |-> Gones[j]] = [j \in 1 .. k |-> Gone(Packed(len)[j])]
  BY <1>3
<1>5. Bytes(k) = Joined(Gones, k)
  BY <1>4 DEF Bytes, Joined
<1>6. Bytes(k) \in Seq(Byte \cup {0})
  BY <1>1, <1>3, <1>5, JoinType
<1> QED BY <1>1, <1>3, <1>5, <1>6, LenProperties DEF Text

LEMMA BytesOrder ==
  ASSUME UndoInv, NEW n \in 0 .. Len(Packed(len)), NEW m \in 0 .. n
  PROVE  Len(Bytes(m)) <= Len(Bytes(n))
<1>1. m \in 0 .. Len(Packed(len)) /\ n \in Nat
  <2>1. n \in Nat /\ Len(Packed(len)) \in Nat
    <3>1. len \in 0 .. len
      BY DEF UndoInv, ChainInv, Counted, Ids
    <3> QED BY <3>1, PackedIs
  <2> QED BY <2>1
<1>2. Bytes(m) = Joined(Gones, m) /\ Bytes(n) = Joined(Gones, n)
      /\ \A j \in 1 .. n : Gones[j] \in Seq(Byte \cup {0})
  BY <1>1, BytesIs
<1>3. Starts(Joined(Gones, m), Joined(Gones, n))
  BY <1>1, <1>2, JoinStarts
<1> QED BY <1>2, <1>3 DEF Starts

LEMMA BytesAt ==
  ASSUME UndoInv, NEW j \in 1 .. Len(Packed(len))
  PROVE  /\ Len(Bytes(j)) = Len(Bytes(j - 1)) + Len(Gone(Packed(len)[j]))
         /\ Len(Bytes(j)) <= Len(Bytes(Len(Packed(len))))
         /\ Len(Bytes(j - 1)) \in Nat
         /\ \A i \in 1 .. Len(Gone(Packed(len)[j])) :
              Bytes(Len(Packed(len)))[Len(Bytes(j - 1)) + i]
                = Gone(Packed(len)[j])[i]
<1> DEFINE n == Len(Packed(len))
           s == Gone(Packed(len)[j])
<1>1. n \in Nat /\ j \in 0 .. n /\ j - 1 \in 0 .. n /\ n \in 0 .. n
  <2>1. n \in Nat
    <3>1. len \in 0 .. len
      BY DEF UndoInv, ChainInv, Counted, Ids
    <3> QED BY <3>1, PackedIs
  <2> QED BY <2>1
<1>2. /\ Bytes(j) = Joined(Gones, j) /\ Bytes(n) = Joined(Gones, n)
      /\ Bytes(j - 1) = Joined(Gones, j - 1) /\ Len(Bytes(j - 1)) \in Nat
      /\ \A k \in 1 .. n : Gones[k] \in Seq(Byte \cup {0})
  BY <1>1, BytesIs
<1>3. Gones[j] = s
  BY PackedOp
<1>4. j \in 1 .. n
  OBVIOUS
<1> HIDE DEF n, s
<1>5. /\ Len(Joined(Gones, j)) = Len(Joined(Gones, j - 1)) + Len(Gones[j])
      /\ Len(Joined(Gones, j)) <= Len(Joined(Gones, n))
      /\ \A i \in 1 .. Len(Gones[j]) :
           Joined(Gones, n)[Len(Joined(Gones, j - 1)) + i] = Gones[j][i]
  <2>1. AllSeq(Byte \cup {0}, Gones, n)
    BY <1>2 DEF AllSeq
  <2>2. JoinedAt(Gones, n, j)
    BY <1>1, <1>4, <2>1, JoinAt
  <2> QED BY <2>2 DEF JoinedAt
<1> QED BY <1>2, <1>3, <1>5 DEF n, s

(* Where compact_history puts the slices of a node.                          *)
Rebase(nd) ==
  [n \in Ids |-> IF n \notin Live THEN nd[n] ELSE
                   [nd[n] EXCEPT !.depth = @ - nd[root].depth]]
At(n)   == Len(Packed(n - 1))
NewOps  == [k \in DOMAIN Packed(len) |-> Repacked(Packed(len)[k], k)]
NewBlob == Bytes(Len(Packed(len)))

Placed(q, p, n) ==
  /\ p.live = q.live /\ p.parent = q.parent /\ p.kids = q.kids
  /\ p.redo = q.redo /\ p.reason = q.reason /\ p.n_ops = q.n_ops
  /\ p.ops_at = At(n) /\ p.blob_lo = Len(Bytes(At(n)))
  /\ p.blob_hi = Len(Bytes(At(n) + q.n_ops))

LEMMA PlacedIs ==
  ASSUME NEW nd, NEW n \in Live, n \in Ids, IsNode(nd[n])
  PROVE  Placed(nd[n], Compacted(nd)[n], n)
<1> DEFINE md == Compacted(nd)
           at == Len(Packed(n - 1))
           to == at + nd[n].n_ops
           a == Len(Bytes(at))
           b == Len(Bytes(to))
<1>1. md[n] = [nd[n] EXCEPT !.ops_at = at, !.blob_lo = a, !.blob_hi = b]
  BY DEF Compacted
<1>2. at = At(n) /\ a = Len(Bytes(At(n)))
      /\ b = Len(Bytes(At(n) + nd[n].n_ops))
  BY DEF At
<1> HIDE DEF at, to, a, b, md
<1>3. md[n] = [live |-> nd[n].live, parent |-> nd[n].parent,
               kids |-> nd[n].kids, redo |-> nd[n].redo,
               depth |-> nd[n].depth, reason |-> nd[n].reason,
               ops_at |-> at, n_ops |-> nd[n].n_ops,
               blob_lo |-> a, blob_hi |-> b]
  BY <1>1 DEF IsNode
<1>4. Placed(nd[n], md[n], n)
  BY <1>2, <1>3 DEF Placed
<1> QED BY <1>4 DEF md

(* An operation moved there does what it did.                                *)
Moved(j) ==
  LET op == Packed(len)[j]
  IN /\ NewOps[j] \in Op /\ Deed(NewOps[j], NewBlob) = Deed(op, blobs)
     /\ NewOps[j].kind = op.kind
     /\ op.kind # "INS" => /\ NewOps[j].payload = Len(Bytes(j - 1))
                           /\ NewOps[j].payload + NewOps[j].len
                                = Len(Bytes(j))

LEMMA RepackedIs ==
  ASSUME UndoInv, NEW op \in Fit, NEW k, NEW a \in Nat,
         Len(Bytes(k - 1)) = a
  PROVE  /\ Repacked(op, k) \in Op
         /\ Repacked(op, k).kind = op.kind /\ Repacked(op, k).off = op.off
         /\ Repacked(op, k).len = op.len /\ Repacked(op, k).bytes = op.bytes
         /\ op.kind # "INS" => Repacked(op, k).payload = a
<1>1. op \in Op
  BY DEF Fit
<1>2. CASE op.kind = "INS"
  BY <1>1, <1>2 DEF Repacked
<1>3. CASE op.kind # "INS"
  <2> DEFINE p == Repacked(op, k)
  <2>1. p = [op EXCEPT !.payload = a]
    BY <1>3 DEF Repacked
  <2> HIDE DEF p
  <2>2. p = [kind |-> op.kind, off |-> op.off, len |-> op.len,
             bytes |-> op.bytes, payload |-> a]
    BY <1>1, <2>1 DEF Op
  <2>3. op.kind \in {"INS", "DEL"} /\ op.off \in Nat /\ op.len \in Nat
        /\ op.bytes \in Text
    BY <1>1 DEF Op
  <2>4. p \in Op
    BY <2>2, <2>3 DEF Op
  <2>5. p.kind = op.kind /\ p.off = op.off /\ p.len = op.len
        /\ p.bytes = op.bytes /\ p.payload = a
    BY <2>2
  <2> QED BY <2>4, <2>5 DEF p
<1> QED BY <1>2, <1>3

LEMMA MovedIs ==
  ASSUME UndoInv, NEW j \in 1 .. Len(Packed(len)) PROVE Moved(j)
<1> DEFINE op == Packed(len)[j]
           g == Gone(op)
           a == Len(Bytes(j - 1))
           p == NewOps[j]
<1>1. op \in Fit /\ Len(Packed(len)) \in Nat
  <2>1. len \in 0 .. len
    BY DEF UndoInv, ChainInv, Counted, Ids
  <2> QED BY <2>1, PackedOp, PackedIs
<1>2. /\ Len(Bytes(j)) = a + Len(g) /\ a \in Nat
      /\ Len(Bytes(j)) <= Len(NewBlob)
      /\ \A i \in 1 .. Len(g) : NewBlob[a + i] = g[i]
  BY BytesAt DEF NewBlob
<1>3. /\ g \in Text /\ op.len \in Nat
      /\ op.kind # "INS" => Len(g) = op.len
  BY <1>1, GoneIs
<1>4. p = Repacked(op, j)
  <2>1. Packed(len) \in Seq(Fit)
    <3>1. len \in 0 .. len
      BY DEF UndoInv, ChainInv, Counted, Ids
    <3> QED BY <3>1, PackedIs
  <2>2. j \in DOMAIN Packed(len)
    BY <2>1
  <2> QED BY <2>2 DEF NewOps
<1>5. NewBlob \in Text
  <2>1. Len(Packed(len)) \in 0 .. Len(Packed(len))
    BY <1>1
  <2> QED BY <2>1, BytesIs DEF NewBlob
<1>6. g = IF op.kind = "INS" THEN <<>>
          ELSE SubSeq(blobs, op.payload + 1, op.payload + op.len)
  BY DEF Gone
<1> HIDE DEF op, g, a
<1>7. /\ p \in Op /\ p.kind = op.kind /\ p.off = op.off /\ p.len = op.len
      /\ p.bytes = op.bytes /\ (op.kind # "INS" => p.payload = a)
  BY <1>1, <1>2, <1>4, RepackedIs DEF a
<1> HIDE DEF p
<1>8. CASE op.kind = "INS"
  <2>1. Deed(p, NewBlob) = Deed(op, blobs)
    BY <1>7, <1>8 DEF Deed
  <2> QED BY <1>7, <1>8, <2>1 DEF Moved, p, op
<1>9. CASE op.kind # "INS"
  <2>1. p.payload = a /\ Len(g) = op.len /\ a + op.len = Len(Bytes(j))
    BY <1>2, <1>3, <1>7, <1>9
  <2>2. SubSeq(NewBlob, a + 1, a + op.len) = g
    <3> DEFINE b == a + op.len
    <3>1. /\ a \in Nat /\ b \in Nat /\ a <= b
          /\ b <= Len(NewBlob) /\ b - a = Len(g)
      BY <1>2, <1>3, <2>1
    <3> HIDE DEF b
    <3>2. Piece(Byte \cup {0}, NewBlob, a, b)
      BY <1>5, <3>1, PieceIs DEF Text
    <3> DEFINE s == SubSeq(NewBlob, a + 1, b)
    <3>3. s \in Seq(Byte \cup {0}) /\ Len(s) = b - a
          /\ \A i \in 1 .. b - a : s[i] = NewBlob[a + i]
      BY <3>2 DEF Piece
    <3> HIDE DEF s
    <3>4. \A i \in 1 .. Len(g) : s[i] = g[i]
      BY <1>2, <3>1, <3>3
    <3>5. g \in Seq(Byte \cup {0})
      BY <1>3 DEF Text
    <3>6. s = g
      BY <3>1, <3>3, <3>4, <3>5, SeqEqual
    <3> QED BY <3>6 DEF s, b
  <2>3. Deed(p, NewBlob) = Deed(op, blobs)
    BY <1>6, <1>7, <1>9, <2>1, <2>2 DEF Deed
  <2> QED BY <1>7, <1>9, <2>1, <2>3 DEF Moved, p, op, a
<1> QED BY <1>8, <1>9

LEMMA NewArenas ==
  ASSUME UndoInv
  PROVE  /\ NewOps \in Seq(Op) /\ NewBlob \in Text
         /\ Len(NewOps) = Len(Packed(len)) /\ Len(Packed(len)) \in Nat
<1>1. Packed(len) \in Seq(Fit) /\ Len(Packed(len)) \in Nat
  <2>1. len \in 0 .. len
    BY DEF UndoInv, ChainInv, Counted, Ids
  <2> QED BY <2>1, PackedIs
<1>2. Len(Packed(len)) \in 0 .. Len(Packed(len))
  BY <1>1
<1>3. NewBlob \in Text
  BY <1>2, BytesIs DEF NewBlob
<1> DEFINE n == Len(Packed(len))
<1>4. NewOps = [k \in 1 .. n |-> NewOps[k]]
  BY <1>1 DEF NewOps
<1>5. \A k \in 1 .. n : NewOps[k] \in Op
  BY MovedIs DEF Moved
<1>6. n \in Nat
  BY <1>1
<1> HIDE DEF n
<1>7. NewOps \in [1 .. n -> Op]
  BY <1>4, <1>5
<1>8. NewOps \in Seq(Op) /\ Len(NewOps) = n
  BY <1>6, <1>7, SeqDef
<1> QED BY <1>1, <1>3, <1>8 DEF n

(* A node after the compaction.                                              *)
Rehoused(q, p, n) ==
  /\ Numbers(p) /\ Links(p) /\ Within(p, NewOps, NewBlob)
  /\ Deeds(p, NewOps, NewBlob) = Deeds(q, ops, blobs)
  /\ p.live = q.live /\ p.parent = q.parent /\ p.n_ops = q.n_ops
  /\ p.ops_at = At(n) /\ Ends(p) = Len(Packed(n))
  /\ p.blob_lo = Len(Bytes(At(n)))
  /\ p.blob_hi = Len(Bytes(Len(Packed(n))))

LEMMA RehousedIs ==
  ASSUME UndoInv, NEW n \in Alive(node), NEW q, NEW p,
         Alike(node[n], q), Links(q), Placed(q, p, n)
  PROVE  Rehoused(node[n], p, n)
<1> DEFINE at == At(n)
           m == node[n].n_ops
           from == node[n].ops_at
           P == Packed(len)
<1>1. /\ n \in 1 .. len /\ n - 1 \in 0 .. len
      /\ Len(Packed(n)) = at + m /\ at + m <= Len(P)
      /\ at \in Nat /\ Len(P) \in Nat
      /\ \A i \in 1 .. m : P[at + i] = ops[from + i]
  BY PackedAt DEF At
<1>2. m \in Nat /\ Numbers(node[n])
  BY AliveFacts DEF Numbers
<1>3. /\ p.live = node[n].live /\ p.parent = node[n].parent
      /\ p.kids = q.kids /\ p.redo = q.redo /\ p.reason = q.reason
      /\ p.n_ops = m /\ p.ops_at = at /\ p.blob_lo = Len(Bytes(at))
      /\ p.blob_hi = Len(Bytes(at + m)) /\ q.parent = node[n].parent
  BY DEF Placed, Alike
<1>4. Links(p)
  BY <1>3 DEF Links
<1> HIDE DEF at, m, P, from
<1>5. /\ at \in 0 .. Len(P) /\ at + m \in 0 .. Len(P) /\ at \in 0 .. at + m
      /\ Len(P) \in 0 .. Len(P)
  BY <1>1, <1>2
<1>6. /\ Len(Bytes(at)) \in Nat /\ Len(Bytes(at + m)) \in Nat
      /\ Len(Bytes(at)) <= Len(Bytes(at + m))
      /\ Len(Bytes(at + m)) <= Len(Bytes(Len(P)))
      /\ Len(Bytes(Len(P))) \in Nat
  BY <1>5, BytesIs, BytesOrder DEF P
<1>7. Numbers(p)
  BY <1>1, <1>2, <1>3, <1>6 DEF Numbers
<1>8. /\ Len(NewOps) = Len(P) /\ Len(NewBlob) = Len(Bytes(Len(P)))
  BY NewArenas DEF P, NewBlob
<1>9. ASSUME NEW i \in 1 .. m
      PROVE  /\ Deed(NewOps[at + i], NewBlob) = Deed(ops[from + i], blobs)
             /\ NewOps[at + i].kind # "INS" =>
                   /\ p.blob_lo <= NewOps[at + i].payload
                   /\ NewOps[at + i].payload + NewOps[at + i].len
                        <= p.blob_hi
  <2> DEFINE j == at + i
  <2>1. /\ j \in 1 .. Len(P) /\ j - 1 \in 0 .. Len(P) /\ at \in 0 .. j - 1
        /\ j \in 0 .. at + m
    BY <1>1, <1>2
  <2>2. P[j] = ops[from + i]
    BY <1>1
  <2> HIDE DEF j
  <2>3. Moved(j)
    BY <2>1, MovedIs DEF P
  <2>4. /\ Deed(NewOps[j], NewBlob) = Deed(P[j], blobs)
        /\ NewOps[j].kind # "INS" =>
             /\ NewOps[j].payload = Len(Bytes(j - 1))
             /\ NewOps[j].payload + NewOps[j].len = Len(Bytes(j))
    BY <2>3 DEF Moved, P
  <2>5. /\ Len(Bytes(at)) <= Len(Bytes(j - 1))
        /\ Len(Bytes(j)) <= Len(Bytes(at + m))
    BY <1>5, <2>1, BytesOrder DEF P
  <2>6. NewOps[j].kind # "INS" =>
          /\ p.blob_lo <= NewOps[j].payload
          /\ NewOps[j].payload + NewOps[j].len <= p.blob_hi
    BY <1>3, <2>4, <2>5
  <2>7. Deed(NewOps[j], NewBlob) = Deed(ops[from + i], blobs)
    BY <2>2, <2>4
  <2> QED BY <2>6, <2>7 DEF j
<1>10. Within(p, NewOps, NewBlob)
  BY <1>1, <1>2, <1>3, <1>6, <1>8, <1>9 DEF Within, Ends
<1>11. Deeds(p, NewOps, NewBlob) = Deeds(node[n], ops, blobs)
  BY <1>3, <1>9 DEF Deeds, m, from
<1>12. Ends(p) = Len(Packed(n))
  BY <1>1, <1>3 DEF Ends
<1> QED BY <1>1, <1>3, <1>4, <1>7, <1>10, <1>11, <1>12 DEF Rehoused, at, m

(* compact_history as a whole.                                               *)
LEMMA CompactArena ==
  ASSUME UndoInv, NEW md, Alive(md) = Alive(node),
         \A n \in Alive(node) : Rehoused(node[n], md[n], n)
  PROVE  Arena(md, root, len, NewOps, NewBlob)
<1>1. \A n \in Alive(node) :
        /\ n \in 1 .. len /\ n - 1 \in 0 .. len /\ n \in Int
        /\ Len(Packed(n)) <= Len(Packed(len)) /\ Len(Packed(n - 1)) \in Nat
        /\ At(n) = Len(Packed(n - 1)) /\ Len(Packed(len)) \in Nat
        /\ Len(Packed(n)) \in Nat
  <2> TAKE n \in Alive(node)
  <2>1. n \in 0 .. len /\ n \in Int
    BY PackedAt
  <2> QED BY <2>1, PackedAt, PackedIs DEF At
<1>2. Inside(md, NewOps, NewBlob)
  BY DEF Inside, Rehoused
<1>3. InOrder(md)
  <2> SUFFICES ASSUME NEW m \in Alive(node), NEW n \in Alive(node), m < n
               PROVE  /\ Ends(md[m]) <= md[n].ops_at
                      /\ md[m].blob_hi <= md[n].blob_lo
    BY DEF InOrder
  <2>1. m \in 0 .. n - 1 /\ n - 1 \in 0 .. len
    BY <1>1
  <2>2. Len(Packed(m)) <= At(n)
    BY <1>1, <2>1, PackedOrder
  <2>3. At(n) \in 0 .. Len(Packed(len)) /\ Len(Packed(m)) \in 0 .. At(n)
    <3>1. Len(Packed(n - 1)) <= Len(Packed(len))
      <4>1. n - 1 \in 0 .. len /\ len \in 0 .. len
        BY <1>1 DEF UndoInv, ChainInv, Counted, Ids
      <4> QED BY <4>1, PackedOrder
    <3> QED BY <1>1, <2>2, <3>1
  <2>4. Len(Bytes(Len(Packed(m)))) <= Len(Bytes(At(n)))
    BY <2>3, BytesOrder
  <2>5. /\ Ends(md[m]) = Len(Packed(m)) /\ md[n].ops_at = At(n)
        /\ md[m].blob_hi = Len(Bytes(Len(Packed(m))))
        /\ md[n].blob_lo = Len(Bytes(At(n)))
    BY DEF Rehoused
  <2> QED BY <2>2, <2>4, <2>5
<1>4. Busy(md, root)
  BY DEF Busy, Rehoused, UndoInv, UndoRest, Arena
<1>5. Meet(md, len, NewOps, NewBlob)
  <2> SUFFICES ASSUME NEW n \in Alive(node)
               PROVE  /\ n = len => /\ Ends(md[n]) = Len(NewOps)
                                    /\ md[n].blob_hi = Len(NewBlob)
                      /\ n + 1 \in Alive(node) =>
                           /\ Ends(md[n]) = md[n + 1].ops_at
                           /\ md[n].blob_hi = md[n + 1].blob_lo
    BY DEF Meet
  <2>1. Ends(md[n]) = Len(Packed(n))
        /\ md[n].blob_hi = Len(Bytes(Len(Packed(n))))
    BY DEF Rehoused
  <2>2. n = len => /\ Ends(md[n]) = Len(NewOps)
                   /\ md[n].blob_hi = Len(NewBlob)
    BY <2>1, NewArenas DEF NewBlob
  <2>3. ASSUME n + 1 \in Alive(node)
        PROVE  /\ Ends(md[n]) = md[n + 1].ops_at
               /\ md[n].blob_hi = md[n + 1].blob_lo
    <3> DEFINE k == n + 1
    <3>1. k \in Alive(node) /\ k - 1 = n
      BY <1>1, <2>3
    <3> HIDE DEF k
    <3>2. md[k].ops_at = At(k) /\ md[k].blob_lo = Len(Bytes(At(k)))
      BY <3>1 DEF Rehoused
    <3>3. At(k) = Len(Packed(n))
      BY <3>1 DEF At
    <3> QED BY <2>1, <3>2, <3>3 DEF k
  <2> QED BY <2>2, <2>3
<1> QED BY <1>2, <1>3, <1>4, <1>5 DEF Arena

LEMMA CompactStories ==
  ASSUME UndoInv, NEW md, Alive(md) = Alive(node), NEW x,
         Stories(node, root, x, ops, blobs, past),
         \A n \in Alive(node) : Rehoused(node[n], md[n], n)
  PROVE  Stories(md, root, x, NewOps, NewBlob, past)
<1> SUFFICES ASSUME NEW n \in Alive(node) \ {root, x}
             PROVE  Story(md[n], NewOps, NewBlob, past, n)
  BY DEF Stories
<1>1. /\ Deeds(md[n], NewOps, NewBlob) = Deeds(node[n], ops, blobs)
      /\ md[n].parent = node[n].parent /\ md[n].n_ops = node[n].n_ops
  BY DEF Rehoused
<1>2. Story(node[n], ops, blobs, past, n)
  BY DEF Stories
<1> QED BY <1>1, <1>2 DEF Story, Midway

(* The end of trimming: the text is the one of the current node.             *)
LEMMA TrimDoneRest == ASSUME UndoInv, TrimDone PROVE UndoRest'
<1>1. ChainInv'
  BY TrimDoneKeeps DEF UndoInv
<1> DEFINE nd == Rebase(node)
           md == Compacted(nd)
<1>2. /\ pc = "trim" /\ pc' = "idle" /\ walk' = Still /\ len' = len
      /\ root' = root /\ text' = text /\ cur' = cur /\ saved' = saved
      /\ open' = open /\ nest' = nest /\ reason' = reason /\ kept' = kept
      /\ boundary' = boundary /\ past' = past /\ disk' = disk
      /\ amended' = amended /\ before' = before
      /\ \/ node' = nd /\ ops' = ops /\ blobs' = blobs
         \/ node' = md /\ ops' = NewOps /\ blobs' = NewBlob
  BY StillIs DEF TrimDone, Goto, arenas, txn, ghosts, Rebase, NewOps, NewBlob
<1>3. nest = 0 /\ open = 0 /\ ~kept.on /\ text = past[cur]
  BY <1>2 DEF UndoInv, ChainInv, Transaction, UndoRest, Standing
<1>4. Tree(node, root) /\ Counted /\ Typed(node) /\ Live = Alive(node)
      /\ Shape(node)
  BY LiveIsAlive DEF UndoInv, ChainInv, UndoRest, Types, Tree
<1>5. Typed(nd) /\ \A n \in Ids : Alike(node[n], nd[n])
  BY <1>4, RebasedNodes DEF Rebase
<1>6. Shape(nd)
  BY <1>4, Rebased DEF Restyled, Rebase
<1>7. Alive(nd) = Alive(node)
  BY <1>5 DEF Alive, Alike
<1> HIDE DEF nd
<1>8. CASE node' = nd /\ ops' = ops /\ blobs' = blobs
  <2>1. Thins(node, node')
    BY <1>5, <1>7, <1>8 DEF Thins, Alive
  <2>2. Typed(node') /\ Tree(node, root)'
    BY <1>1, <1>5, <1>8 DEF ChainInv
  <2>3. boundary' \in BOOLEAN
    BY <1>2 DEF UndoInv, UndoRest, Types
  <2>4. Roams
    BY <1>2, <1>3, <1>8, <2>1, <2>2, <2>3 DEF Roams
  <2>5. text = past[cur'] /\ walk'.t \in Ids \cup {0}
        /\ walk'.path \in Seq(Ids) /\ walk'.i \in Nat
    BY <1>2, <1>3, StillFields
  <2> QED BY <1>2, <2>4, <2>5, RoamRest
<1>9. CASE node' = md /\ ops' = NewOps /\ blobs' = NewBlob
  <2>1. ASSUME NEW n \in Alive(node)
        PROVE  Rehoused(node[n], md[n], n) /\ md[n].live
    <3>1. n \in Ids /\ n \in Live /\ node[n].live
      BY <1>4 DEF Alive
    <3>2. IsNode(nd[n]) /\ Alike(node[n], nd[n]) /\ Links(nd[n])
      BY <1>5, <1>6, <3>1 DEF Shape, Typed
    <3>3. Placed(nd[n], md[n], n)
      BY <3>1, <3>2, PlacedIs
    <3>4. Rehoused(node[n], md[n], n)
      BY <3>2, <3>3, RehousedIs
    <3> QED BY <3>1, <3>4 DEF Rehoused
  <2>2. ASSUME NEW n \in Ids \ Alive(node) PROVE md[n] = nd[n]
    BY <1>4 DEF Compacted
  <2> HIDE DEF md
  <2>3. Alive(md) = Alive(node)
    <3>1. \A n \in Ids \ Alive(node) : ~md[n].live
      BY <1>7, <2>2 DEF Alive
    <3> QED BY <2>1, <3>1 DEF Alive
  <2>4. Typed(md)
    <3> SUFFICES ASSUME NEW n \in Ids PROVE Numbers(md[n]) /\ Links(md[n])
      BY DEF Typed
    <3>1. CASE n \in Alive(node)
      BY <2>1, <3>1 DEF Rehoused
    <3>2. CASE n \notin Alive(node)
      BY <1>5, <2>2, <3>2 DEF Typed
    <3> QED BY <3>1, <3>2
  <2>5. Arena(md, root, len, NewOps, NewBlob)
    BY <2>1, <2>3, CompactArena
  <2>6. Stories(md, root, open, NewOps, NewBlob, past)
    <3>1. \A n \in Alive(node) : Rehoused(node[n], md[n], n)
      BY <2>1
    <3>2. Stories(node, root, open, ops, blobs, past)
      BY DEF UndoInv, UndoRest
    <3> QED BY <2>3, <3>1, <3>2, CompactStories
  <2>7. /\ Arena(node, root, len, ops, blobs)'
        /\ Stories(node, root, open, ops, blobs, past)'
    BY <1>2, <1>9, <2>5, <2>6
  <2>8. Types'
    BY <1>2, <1>9, <2>4, NewArenas, StillFields DEF UndoInv, UndoRest, Types
  <2>9. Standing'
    BY <1>2, <1>3 DEF Standing
  <2>10. Opened'
    BY <1>2, <1>3 DEF UndoInv, UndoRest, Opened
  <2>11. SavePoint'
    <3>1. (boundary' <=> boundary) /\ (amended' <=> amended)
      BY <1>2
    <3> QED BY <1>2, <1>3, <3>1 DEF UndoInv, UndoRest, SavePoint
  <2> QED BY <2>7, <2>8, <2>9, <2>10, <2>11 DEF UndoRest
<1> QED BY <1>2, <1>8, <1>9

(* What arenas agree on.                                                     *)
LEMMA AgreeLess ==
  ASSUME NEW s, NEW t, NEW n \in Nat, Agree(s, t, n), NEW k \in Nat, k <= n,
         Len(s) \in Nat, Len(t) \in Nat
  PROVE  Agree(s, t, k)
BY DEF Agree

LEMMA AgreeCut ==
  ASSUME NEW S, NEW s \in Seq(S), NEW n \in Nat, n <= Len(s)
  PROVE  /\ Agree(s, SubSeq(s, 1, n), n) /\ SubSeq(s, 1, n) \in Seq(S)
         /\ Len(SubSeq(s, 1, n)) = n
<1>1. /\ 0 \in Nat /\ 0 <= n /\ 0 + 1 = 1 /\ n - 0 = n
      /\ \A i \in 1 .. n : 0 + i = i
  OBVIOUS
<1>2. Piece(S, s, 0, n)
  BY <1>1, PieceIs
<1>3. /\ SubSeq(s, 0 + 1, n) \in Seq(S) /\ Len(SubSeq(s, 0 + 1, n)) = n - 0
      /\ \A i \in 1 .. n - 0 : SubSeq(s, 0 + 1, n)[i] = s[0 + i]
  BY <1>2 DEF Piece
<1> QED BY <1>1, <1>3 DEF Agree

LEMMA AgreeMore ==
  ASSUME NEW S, NEW s \in Seq(S), NEW e \in Seq(S)
  PROVE  /\ Agree(s, s \o e, Len(s)) /\ s \o e \in Seq(S)
         /\ Len(s \o e) = Len(s) + Len(e) /\ Len(s) \in Nat
<1>1. Len(s) \in Nat /\ Len(e) \in Nat
  BY LenProperties
<1>2. s \o e \in Seq(S) /\ Len(s \o e) = Len(s) + Len(e)
  BY ConcatProperties
<1>3. ASSUME NEW i \in 1 .. Len(s) PROVE (s \o e)[i] = s[i]
  <2>1. i \in 1 .. Len(s) + Len(e) /\ i <= Len(s)
    BY <1>1
  <2> QED BY <2>1, ConcatProperties
<1> QED BY <1>1, <1>2, <1>3 DEF Agree

LEMMA AgreeSub ==
  ASSUME NEW S, NEW s \in Seq(S), NEW t \in Seq(S), NEW n \in Nat,
         Agree(s, t, n)
  PROVE  SubSeq(t, 1, n) = SubSeq(s, 1, n)
<1>1. 0 \in Nat /\ 0 <= n /\ 0 + 1 = 1
  OBVIOUS
<1>2. SubSeq(t, 0 + 1, n) = SubSeq(s, 0 + 1, n)
  BY <1>1, AgreePiece
<1> QED BY <1>1, <1>2

-----------------------------------------------------------------------------
(* Nodes that a step leaves alone, in arenas of which it changes the end.    *)
Left(q, p, o, b) ==
  /\ Alike(q, p) /\ Agree(ops, o, Ends(q)) /\ Agree(blobs, b, q.blob_hi)

LEMMA LeftAlone ==
  ASSUME UndoInv, NEW m \in Alive(node), NEW p,
         NEW o \in Seq(Op), NEW b \in Text, Left(node[m], p, o, b)
  PROVE  /\ Within(p, o, b)
         /\ Deeds(p, o, b) = Deeds(node[m], ops, blobs)
         /\ Ends(p) = Ends(node[m])
<1>1. Numbers(node[m]) /\ Within(node[m], ops, blobs)
  BY AliveFacts
<1>2. ops \in Seq(Op) /\ blobs \in Text
  BY DEF UndoInv, UndoRest, Types
<1>3. /\ Alike(node[m], p) /\ Agree(ops, o, Ends(node[m]))
      /\ Agree(blobs, b, node[m].blob_hi)
  BY DEF Left
<1> DEFINE q == node[m]
<1>4. Deeds(q, o, b) = Deeds(q, ops, blobs) /\ Within(q, o, b)
  BY <1>1, <1>2, <1>3, SameDeeds
<1> HIDE DEF q
<1>5. /\ p.ops_at = q.ops_at /\ p.n_ops = q.n_ops /\ p.blob_lo = q.blob_lo
      /\ p.blob_hi = q.blob_hi
  BY <1>3 DEF Alike, q
<1>6. Deeds(p, o, b) = Deeds(q, o, b) /\ Ends(p) = Ends(q)
  BY <1>5 DEF Deeds, Ends
<1>7. Within(p, o, b)
  BY <1>4, <1>5 DEF Within, Ends
<1> QED BY <1>4, <1>6, <1>7 DEF q

LEMMA LeftStory ==
  ASSUME UndoInv, NEW m \in Alive(node), NEW p,
         NEW o \in Seq(Op), NEW b \in Text, Left(node[m], p, o, b),
         NEW g, g[m] = past[m], g[node[m].parent] = past[node[m].parent],
         Story(node[m], ops, blobs, past, m)
  PROVE  Story(p, o, b, g, m)
<1>1. Deeds(p, o, b) = Deeds(node[m], ops, blobs)
  BY LeftAlone
<1>2. p.parent = node[m].parent /\ p.n_ops = node[m].n_ops
  BY DEF Left, Alike
<1> QED BY <1>1, <1>2 DEF Story, Midway

(* A node n that has the end of the arenas, and all others before it.        *)
Before(q, m, r, n) ==
  /\ m < n /\ Ends(q) <= r.ops_at /\ q.blob_hi <= r.blob_lo
  /\ q.n_ops # 0 /\ m + 1 = n => /\ Ends(q) = r.ops_at
                                 /\ q.blob_hi = r.blob_lo
Others(md, n, o, b) ==
  \A m \in Alive(md) \ {n} : /\ m \in Alive(node)
                             /\ Left(node[m], md[m], o, b)
                             /\ Before(node[m], m, md[n], n)
AtEnd(q, o, b) == /\ Numbers(q) /\ Within(q, o, b) /\ q.n_ops > 0
                  /\ Ends(q) = Len(o) /\ q.blob_hi = Len(b)

LEMMA TailArena ==
  ASSUME UndoInv, NEW md, NEW n \in Alive(md) \ {root}, NEW o \in Seq(Op),
         NEW b \in Text, NEW l \in Int, n <= l,
         Others(md, n, o, b), AtEnd(md[n], o, b)
  PROVE  Arena(md, root, l, o, b)
<1>1. ASSUME NEW m \in Alive(md) \ {n}
      PROVE  /\ m \in Alive(node) /\ m < n /\ m \in Int
             /\ Within(md[m], o, b) /\ Numbers(md[m])
             /\ Ends(md[m]) <= md[n].ops_at
             /\ md[m].blob_hi <= md[n].blob_lo
             /\ Ends(md[m]) = Ends(node[m])
             /\ md[m].n_ops = node[m].n_ops /\ md[m].ops_at = node[m].ops_at
             /\ md[m].blob_lo = node[m].blob_lo
             /\ md[m].blob_hi = node[m].blob_hi
             /\ md[m].n_ops # 0 /\ m + 1 = n =>
                  /\ Ends(md[m]) = md[n].ops_at
                  /\ md[m].blob_hi = md[n].blob_lo
  <2>1. /\ m \in Alive(node) /\ Left(node[m], md[m], o, b)
        /\ Before(node[m], m, md[n], n)
    BY DEF Others
  <2>2. Within(md[m], o, b) /\ Ends(md[m]) = Ends(node[m])
    BY <2>1, LeftAlone
  <2>3. /\ md[m].n_ops = node[m].n_ops /\ md[m].ops_at = node[m].ops_at
        /\ md[m].blob_lo = node[m].blob_lo
        /\ md[m].blob_hi = node[m].blob_hi
    BY <2>1 DEF Left, Alike
  <2>4. Numbers(node[m]) /\ m \in Int
    BY <2>1, AliveFacts DEF Ids
  <2>5. Numbers(md[m])
    BY <2>3, <2>4 DEF Numbers
  <2> QED BY <2>1, <2>2, <2>3, <2>4, <2>5 DEF Before
<1>2. n \in Int /\ Numbers(md[n]) /\ Within(md[n], o, b) /\ md[n].n_ops > 0
      /\ Ends(md[n]) = Len(o) /\ md[n].blob_hi = Len(b)
  BY DEF AtEnd, Alive, Ids
<1>3. Arena(node, root, len, ops, blobs)
  BY DEF UndoInv, UndoRest
<1>4. Inside(md, o, b)
  BY <1>1, <1>2 DEF Inside
<1>5. InOrder(md)
  <2> SUFFICES ASSUME NEW j \in Alive(md), NEW k \in Alive(md), j < k
               PROVE  /\ Ends(md[j]) <= md[k].ops_at
                      /\ md[j].blob_hi <= md[k].blob_lo
    BY DEF InOrder
  <2>1. j # n
    <3>1. j = n => k # n /\ k < n
      BY <1>1, <1>2
    <3> QED BY <1>1, <1>2, <3>1
  <2>2. CASE k = n
    BY <1>1, <2>1, <2>2
  <2>3. CASE k # n
    BY <1>1, <1>3, <2>1, <2>3 DEF Arena, InOrder
  <2> QED BY <2>2, <2>3
<1>6. Busy(md, root)
  <2> SUFFICES ASSUME NEW m \in Alive(md) \ {root} PROVE md[m].n_ops > 0
    BY DEF Busy
  <2>1. CASE m = n
    BY <1>2, <2>1
  <2>2. CASE m # n
    BY <1>1, <1>3, <2>2 DEF Arena, Busy
  <2> QED BY <2>1, <2>2
<1>7. Meet(md, l, o, b)
  <2> SUFFICES ASSUME NEW m \in Alive(md), md[m].n_ops # 0
               PROVE  /\ m = l => /\ Ends(md[m]) = Len(o)
                                  /\ md[m].blob_hi = Len(b)
                      /\ m + 1 \in Alive(md) =>
                           /\ Ends(md[m]) = md[m + 1].ops_at
                           /\ md[m].blob_hi = md[m + 1].blob_lo
    BY DEF Meet
  <2>1. CASE m = n
    <3>1. n + 1 \notin Alive(md)
      <4> SUFFICES ASSUME n + 1 \in Alive(md) PROVE FALSE
        OBVIOUS
      <4> DEFINE k == n + 1
      <4>1. k \in Alive(md) \ {n} /\ k > n
        BY <1>2
      <4> HIDE DEF k
      <4> QED BY <1>1, <1>2, <4>1
    <3> QED BY <1>2, <2>1, <3>1
  <2>2. CASE m # n
    <3> DEFINE k == m + 1
    <3>1. m < n /\ m # l /\ m \in Int
      BY <1>1, <1>2, <2>2
    <3>2. CASE k = n
      BY <1>1, <2>2, <3>1, <3>2
    <3>3. CASE k # n /\ k \in Alive(md)
      <4>1. /\ Ends(node[m]) = node[k].ops_at
            /\ node[m].blob_hi = node[k].blob_lo
        <5>1. k \in Alive(node) /\ m \in Alive(node) /\ node[m].n_ops # 0
          BY <1>1, <2>2, <3>3
        <5> QED BY <1>3, <5>1 DEF Arena, Meet
      <4> HIDE DEF k
      <4>2. md[k].ops_at = node[k].ops_at /\ md[k].blob_lo = node[k].blob_lo
        BY <1>1, <3>3
      <4>3. Ends(md[m]) = Ends(node[m]) /\ md[m].blob_hi = node[m].blob_hi
        BY <1>1, <2>2
      <4>4. Ends(md[m]) = md[k].ops_at /\ md[m].blob_hi = md[k].blob_lo
        BY <4>1, <4>2, <4>3
      <4> QED BY <3>1, <4>4 DEF k
    <3>4. CASE k # n /\ k \notin Alive(md)
      BY <3>1, <3>4
    <3> QED BY <3>2, <3>3, <3>4
  <2> QED BY <2>1, <2>2
<1> QED BY <1>4, <1>5, <1>6, <1>7 DEF Arena

LEMMA TailStories ==
  ASSUME UndoInv, NEW md, NEW n \in Alive(md), NEW o \in Seq(Op),
         NEW b \in Text, Others(md, n, o, b), Rooted(md, root),
         NEW g, \A m \in Ids \ {n} : g[m] = past[m],
         Stories(node, root, n, ops, blobs, past)
  PROVE  Stories(md, root, n, o, b, g)
<1> SUFFICES ASSUME NEW m \in Alive(md) \ {root, n}
             PROVE  Story(md[m], o, b, g, m)
  BY DEF Stories
<1>1. /\ m \in Alive(node) /\ Left(node[m], md[m], o, b) /\ m < n
  BY DEF Others, Before
<1>2. md[m].parent = node[m].parent
  BY <1>1 DEF Left, Alike
<1>3. md[m].parent \in Alive(md) /\ md[m].parent < m
  BY DEF Rooted
<1>4. md[m].parent \in Ids \ {n} /\ m \in Ids \ {n}
  <2>1. m \in Int /\ n \in Int /\ md[m].parent \in Int
    BY <1>3 DEF Alive, Ids
  <2> QED BY <1>1, <1>3, <2>1 DEF Alive
<1>5. g[m] = past[m] /\ g[node[m].parent] = past[node[m].parent]
  BY <1>2, <1>4
<1>6. Story(node[m], ops, blobs, past, m)
  BY <1>1 DEF Stories
<1> QED BY <1>1, <1>5, <1>6, LeftStory

(* No node is younger than one that has the end of the operations.           *)
LEMMA LastNode ==
  ASSUME UndoInv, NEW n \in Alive(node), Ends(node[n]) = Len(ops),
         NEW m \in Alive(node) \ {n}
  PROVE  /\ m < n /\ Ends(node[m]) <= node[n].ops_at
         /\ node[m].blob_hi <= node[n].blob_lo
         /\ node[m].n_ops # 0 /\ m + 1 = n =>
              /\ Ends(node[m]) = node[n].ops_at
              /\ node[m].blob_hi = node[n].blob_lo
<1>1. Arena(node, root, len, ops, blobs) /\ Tree(node, root)
  BY DEF UndoInv, ChainInv, UndoRest
<1>2. m \in Int /\ n \in Int /\ root <= n /\ root \in Int
  BY <1>1, RootLeast DEF Alive, Ids, Tree, Rooted
<1>3. Numbers(node[m]) /\ Within(node[m], ops, blobs) /\ Numbers(node[n])
  BY AliveFacts
<1>4. m < n
  <2> SUFFICES ASSUME n < m PROVE FALSE
    BY <1>2
  <2>1. Ends(node[n]) <= node[m].ops_at
    BY <1>1 DEF Arena, InOrder
  <2>2. node[m].n_ops > 0
    BY <1>1, <1>2 DEF Arena, Busy
  <2>3. Ends(node[m]) <= Len(ops) /\ Ends(node[m]) > node[m].ops_at
    BY <1>3, <2>2 DEF Within, Ends, Numbers
  <2>4. Len(ops) \in Nat /\ Ends(node[m]) \in Nat /\ node[m].ops_at \in Nat
    <3>1. Len(ops) \in Nat
      BY LenProperties DEF UndoInv, UndoRest, Types
    <3> QED BY <1>3, <3>1 DEF Numbers, Ends
  <2> QED BY <2>1, <2>3, <2>4
<1>5. Ends(node[m]) <= node[n].ops_at /\ node[m].blob_hi <= node[n].blob_lo
  BY <1>1, <1>4 DEF Arena, InOrder
<1>6. node[m].n_ops # 0 /\ m + 1 = n =>
        /\ Ends(node[m]) = node[n].ops_at /\ node[m].blob_hi = node[n].blob_lo
  BY <1>1 DEF Arena, Meet
<1> QED BY <1>4, <1>5, <1>6

(* The nodes but the last are left alone when the arenas are cut where its   *)
(* slices start or later.                                                    *)
LEMMA OthersCut ==
  ASSUME UndoInv, NEW n \in Alive(node), Ends(node[n]) = Len(ops),
         NEW md, NEW o \in Seq(Op), NEW b \in Text,
         Agree(ops, o, node[n].ops_at), Agree(blobs, b, node[n].blob_lo),
         md[n].ops_at = node[n].ops_at, md[n].blob_lo = node[n].blob_lo,
         \A m \in Alive(md) \ {n} : m \in Alive(node) /\ Alike(node[m], md[m])
  PROVE  Others(md, n, o, b)
<1> SUFFICES ASSUME NEW m \in Alive(md) \ {n}
             PROVE  /\ m \in Alive(node) /\ Left(node[m], md[m], o, b)
                    /\ Before(node[m], m, md[n], n)
  BY DEF Others
<1>1. m \in Alive(node) \ {n} /\ Alike(node[m], md[m])
  OBVIOUS
<1>2. /\ m < n /\ Ends(node[m]) <= node[n].ops_at
      /\ node[m].blob_hi <= node[n].blob_lo
      /\ node[m].n_ops # 0 /\ m + 1 = n =>
            /\ Ends(node[m]) = node[n].ops_at
            /\ node[m].blob_hi = node[n].blob_lo
  BY <1>1, LastNode
<1>3. Before(node[m], m, md[n], n)
  BY <1>2 DEF Before
<1>4. /\ Numbers(node[m]) /\ Numbers(node[n])
      /\ Len(ops) \in Nat /\ Len(o) \in Nat /\ Len(blobs) \in Nat
      /\ Len(b) \in Nat
  <2>1. Numbers(node[m]) /\ Numbers(node[n])
    BY <1>1, AliveFacts
  <2> QED BY <2>1, LenProperties DEF UndoInv, UndoRest, Types, Text
<1>5. /\ Ends(node[m]) \in Nat /\ node[n].ops_at \in Nat
      /\ node[m].blob_hi \in Nat /\ node[n].blob_lo \in Nat
  <2>1. Numbers(node[m]) /\ Numbers(node[n])
    BY <1>4
  <2> QED BY <2>1 DEF Numbers, Ends
<1>6. Agree(ops, o, Ends(node[m]))
  BY <1>2, <1>4, <1>5, AgreeLess
<1>7. Agree(blobs, b, node[m].blob_hi)
  BY <1>2, <1>4, <1>5, AgreeLess
<1> QED BY <1>1, <1>3, <1>6, <1>7 DEF Left

(* What is known when everything of the open node that was to go is undone.  *)
LEMMA AbortFacts ==
  ASSUME UndoInv, AbortDone
  PROVE  /\ open # 0 /\ open = cur /\ open \in Alive(node) \ {root}
         /\ open \in Ids /\ node[open].kids = {} /\ nest > 0
         /\ ~kept.on => open = len /\ open # saved
         /\ before = Return /\ text = before.text
         /\ Ends(node[open]) = Len(ops) /\ node[open].blob_hi = Len(blobs)
         /\ Numbers(node[open]) /\ Within(node[open], ops, blobs)
         /\ Midway(node[open], ops, blobs, past, kept.n_ops, text,
                   kept.n_ops, text)
         /\ kept.n_ops \in 0 .. node[open].n_ops
         /\ Len(ops) \in Nat /\ Len(blobs) \in Nat
<1>1. pc = "abort" /\ walk.i = kept.n_ops
  BY DEF AbortDone
<1>2. /\ open # 0 /\ open = cur /\ open \in Alive(node) \ {root}
      /\ open \in Ids /\ node[open].kids = {} /\ nest > 0
      /\ (~kept.on => open = len /\ open # saved)
  BY <1>1 DEF UndoInv, ChainInv, Transaction, Counted, Alive
<1>3. /\ before = Return /\ Ends(node[open]) = Len(ops)
      /\ node[open].blob_hi = Len(blobs)
  BY <1>2 DEF UndoInv, UndoRest, Opened
<1>4. Midway(node[open], ops, blobs, past, kept.n_ops, before.text,
             kept.n_ops, text)
  BY <1>1, <1>2 DEF UndoInv, UndoRest, Standing
<1>5. text = before.text
  BY <1>4, MidwayEnd
<1>6. kept.n_ops \in 0 .. node[open].n_ops
  <2>1. Len(Deeds(node[open], ops, blobs)) = node[open].n_ops
    BY <1>2, AliveFacts
  <2> QED BY <1>4, <2>1 DEF Midway, Told
<1>7. Numbers(node[open]) /\ Within(node[open], ops, blobs)
  BY <1>2, AliveFacts
<1>8. Len(ops) \in Nat /\ Len(blobs) \in Nat
  BY LenProperties DEF UndoInv, UndoRest, Types, Text
<1> QED BY <1>2, <1>3, <1>4, <1>5, <1>6, <1>7, <1>8

(* The end of an abort leaves things as the begin of the transaction found   *)
(* them.                                                                     *)
LEMMA AbortBack == ASSUME UndoInv, AbortDone PROVE Snapshot' = before
<1>1. /\ open \in Alive(node) \ {root} /\ node[open].kids = {}
      /\ open = cur /\ before = Return /\ text = before.text /\ open \in Ids
      /\ (~kept.on => open = len)
  BY AbortFacts
<1>2. ChainInv'
  BY AbortDoneKeeps DEF UndoInv
<1>3. Live' = Alive(node')
  <2>1. (Live = Alive(node))'
    BY <1>2, LiveIsAlive, PTL DEF ChainInv
  <2> QED BY <2>1 DEF Alive
<1>4. Tree(node, root) /\ Shape(node)
  BY DEF UndoInv, ChainInv, Tree
<1>5. Return = [cur |-> IF kept.on THEN cur ELSE node[open].parent,
                text |-> before.text,
                live |-> IF kept.on THEN Alive(node)
                         ELSE Alive(node) \ {open},
                ops |-> SubSeq(ops, 1, node[open].ops_at + kept.n_ops),
                blobs |-> SubSeq(blobs, 1, IF kept.on THEN kept.blob_hi
                                           ELSE node[open].blob_lo)]
  BY DEF Return
<1>6. /\ ops' = SubSeq(ops, 1, node[open].ops_at + kept.n_ops)
      /\ text' = text
  BY DEF AbortDone
<1>7. CASE kept.on
  <2>1. /\ blobs' = SubSeq(blobs, 1, kept.blob_hi) /\ cur' = cur
        /\ node' = [node EXCEPT ![open].n_ops = kept.n_ops,
                                ![open].blob_hi = kept.blob_hi]
    BY <1>7 DEF AbortDone
  <2>2. Restyled(node, node')
    BY <1>1, <1>4, <2>1, SetTail, Zenon
  <2>3. Alive(node') = Alive(node)
    BY <2>2 DEF Restyled, Alive
  <2> QED BY <1>1, <1>3, <1>5, <1>6, <1>7, <2>1, <2>3 DEF Snapshot
<1>8. CASE ~kept.on
  <2>1. /\ blobs' = SubSeq(blobs, 1, node[open].blob_lo)
        /\ cur' = node[open].parent
        /\ node' = [Unlinked(node, open) EXCEPT ![open] = NoNode]
    BY <1>8 DEF AbortDone
  <2>2. Branch(open, {open}) /\ node' = Cut(open, {open})
    BY <1>1, <1>4, <2>1, LeafBranch
  <2>3. Alive(node') = Alive(node) \ {open}
    BY <1>4, <2>2, CutTree
  <2> QED BY <1>1, <1>3, <1>5, <1>6, <1>8, <2>1, <2>3 DEF Snapshot
<1> QED BY <1>7, <1>8

LEMMA AbortDoneRest == ASSUME UndoInv, AbortDone PROVE UndoRest'
<1> DEFINE q == node[open]
           k == kept.n_ops
           o == SubSeq(ops, 1, q.ops_at + k)
<1>1. /\ open # 0 /\ open = cur /\ open \in Alive(node) \ {root}
      /\ open \in Ids /\ q.kids = {} /\ nest > 0
      /\ ~kept.on => open = len /\ open # saved
      /\ text = before.text
      /\ Ends(q) = Len(ops) /\ q.blob_hi = Len(blobs)
      /\ Numbers(q) /\ Within(q, ops, blobs)
      /\ Midway(q, ops, blobs, past, k, text, k, text)
      /\ k \in 0 .. q.n_ops /\ Len(ops) \in Nat /\ Len(blobs) \in Nat
  BY AbortFacts
<1>2. ChainInv' /\ Tree(node, root)'
  BY AbortDoneKeeps DEF UndoInv, ChainInv
<1>3. /\ pc' = "idle" /\ walk' = Still /\ ops' = o /\ open' = 0 /\ nest' = 0
      /\ reason' = "NONE" /\ kept' = NotReopened /\ boundary' = TRUE
      /\ before' = Nothing /\ text' = text /\ root' = root /\ saved' = saved
      /\ past' = past /\ disk' = disk /\ amended' = amended
  BY StillIs DEF AbortDone, Goto
<1>4. Tree(node, root) /\ Shape(node) /\ Typed(node) /\ root \in Ids
      /\ Counted /\ Stories(node, root, open, ops, blobs, past)
      /\ ops \in Seq(Op) /\ blobs \in Text /\ text \in Text
      /\ past \in [Ids -> Text]
  BY DEF UndoInv, ChainInv, UndoRest, Types, Tree, Rooted, Alive
<1>5. /\ q.ops_at \in Nat /\ q.n_ops \in Nat /\ q.blob_lo \in Nat
      /\ q.blob_hi \in Nat /\ q.blob_lo <= q.blob_hi /\ k \in Nat
      /\ q.ops_at + k \in Nat /\ q.ops_at <= q.ops_at + k
      /\ q.ops_at + k <= Len(ops)
  BY <1>1 DEF Numbers, Within, Ends
<1>6. Agree(ops, o, q.ops_at + k) /\ o \in Seq(Op)
      /\ Len(o) = q.ops_at + k
  BY <1>4, <1>5, AgreeCut
<1>7. Agree(ops, o, q.ops_at)
  BY <1>1, <1>5, <1>6, AgreeLess
<1>8. Opened'
  BY <1>3, StillFields DEF Opened
<1>9. Typed(node') /\ blobs' \in Text => Types'
  BY <1>3, <1>4, <1>6, StillFields DEF Types
<1> HIDE DEF k, o
<1>10. CASE kept.on
  <2> DEFINE h == kept.blob_hi
             b == SubSeq(blobs, 1, h)
             md == [node EXCEPT ![open].n_ops = k, ![open].blob_hi = h]
             p == md[open]
  <2>1. blobs' = b /\ len' = len /\ cur' = cur /\ node' = md
    BY <1>10 DEF AbortDone, k
  <2>2. /\ before.text = past[open] /\ k \in 1 .. q.n_ops
        /\ h \in q.blob_lo .. q.blob_hi
        /\ \A i \in 1 .. k : ops[q.ops_at + i].kind # "INS" =>
             ops[q.ops_at + i].payload + ops[q.ops_at + i].len <= h
    BY <1>10 DEF UndoInv, UndoRest, Opened, KeptFits, k
  <2>0. md = [node EXCEPT ![open].n_ops = k, ![open].blob_hi = h]
    OBVIOUS
  <2> HIDE DEF md, h
  <2>3. /\ \A j \in Ids \ {open} : md[j] = node[j]
        /\ md[open] = [live |-> node[open].live,
              parent |-> node[open].parent, kids |-> node[open].kids,
              redo |-> node[open].redo, depth |-> node[open].depth,
              reason |-> node[open].reason, ops_at |-> node[open].ops_at,
              n_ops |-> k, blob_lo |-> node[open].blob_lo, blob_hi |-> h]
    <3>1. open \in Ids /\ Shape(node)
      BY <1>1, <1>4
    <3>2. Retailed(node, [node EXCEPT ![open].n_ops = k, ![open].blob_hi = h],
                   open, k, h)
      BY <3>1, TailIs, Zenon
    <3>3. Retailed(node, md, open, k, h)
      BY <2>0, <3>2, Zenon
    <3> HIDE DEF q
    <3> QED BY <3>3, Zenon DEF Retailed
  <2>4. /\ p.live = q.live /\ p.parent = q.parent /\ p.kids = q.kids
        /\ p.redo = q.redo /\ p.reason = q.reason /\ p.ops_at = q.ops_at
        /\ p.n_ops = k /\ p.blob_lo = q.blob_lo /\ p.blob_hi = h
    BY <2>3
  <2>5. Alive(md) = Alive(node)
    BY <1>1, <2>3, <2>4 DEF Alive
  <2>6. h \in Nat /\ h <= Len(blobs) /\ q.blob_lo <= h /\ k > 0
    BY <1>1, <1>5, <2>2
  <2>7. Agree(blobs, b, h) /\ b \in Text /\ Len(b) = h
    BY <1>4, <2>6, AgreeCut DEF Text
  <2>8. Len(b) \in Nat
    BY <2>6, <2>7
  <2>9. Agree(blobs, b, q.blob_lo)
    BY <1>1, <1>5, <2>6, <2>7, <2>8, AgreeLess
  <2> HIDE DEF b
  <2>10. Numbers(p) /\ Links(p)
    <3>1. Links(q)
      BY <1>1, <1>4 DEF Typed
    <3> QED BY <1>5, <2>4, <2>6, <3>1 DEF Numbers, Links
  <2>11. Within(p, ops, blobs)
    <3>1. \A i \in 1 .. k : i \in 1 .. q.n_ops
      BY <1>1, <1>5
    <3>2. \A i \in 1 .. q.n_ops : ops[q.ops_at + i].kind # "INS" =>
            q.blob_lo <= ops[q.ops_at + i].payload
      BY <1>1 DEF Within
    <3> QED BY <1>5, <2>2, <2>4, <2>6, <3>1, <3>2 DEF Within, Ends
  <2>12. Ends(p) = q.ops_at + k
    BY <2>4 DEF Ends
  <2>13. Deeds(p, o, b) = Deeds(p, ops, blobs) /\ Within(p, o, b)
    <3>1. Agree(ops, o, Ends(p)) /\ Agree(blobs, b, p.blob_hi)
      BY <1>6, <2>4, <2>7, <2>12
    <3> HIDE DEF p
    <3> QED BY <1>4, <1>6, <2>7, <2>10, <2>11, <3>1, SameDeeds
  <2>14. AtEnd(p, o, b)
    BY <1>6, <2>4, <2>6, <2>7, <2>10, <2>12, <2>13 DEF AtEnd
  <2>15. Others(md, open, o, b)
    <3>1. \A m \in Alive(md) \ {open} :
             m \in Alive(node) /\ Alike(node[m], md[m])
      BY <2>3, <2>5 DEF Alike, Alive
    <3> QED BY <1>1, <1>6, <1>7, <2>4, <2>7, <2>9, <3>1, OthersCut
  <2>16. Arena(md, root, len, o, b)
    <3>1. len \in Int /\ open <= len /\ open \in Alive(md) \ {root}
      BY <1>1, <1>4, <2>5 DEF Counted, Ids
    <3> QED BY <1>6, <2>7, <2>14, <2>15, <3>1, TailArena
  <2>17. Rooted(md, root)
    BY <1>2, <1>3, <2>1 DEF Tree
  <2>18. Stories(md, root, open, o, b, past)
    BY <1>1, <1>4, <1>6, <2>5, <2>7, <2>15, <2>17, TailStories
  <2>19. Story(p, o, b, past, open)
    <3> DEFINE d == Deeds(q, ops, blobs)
               e == Deeds(p, ops, blobs)
               f == past[q.parent]
    <3>1. Len(d) \in Nat /\ Told(d, f, k, text, k, text)
      BY <1>1, AliveFacts DEF Midway
    <3>2. Len(e) = k /\ \A i \in 1 .. k : e[i] = d[i]
      <4>1. \A i \in 1 .. k : i \in 1 .. q.n_ops
        BY <1>1, <1>5
      <4> QED BY <1>5, <2>4, <4>1 DEF Deeds
    <3> HIDE DEF d, e, f
    <3>3. Told(e, f, k, text, 0, f)
      BY <3>1, <3>2, ToldLess
    <3> HIDE DEF p, q
    <3>4. p.parent = q.parent /\ p.n_ops = k /\ past[open] = text
      BY <1>1, <2>2, <2>4
    <3> QED BY <2>13, <3>3, <3>4 DEF Story, Midway, e, f
  <2>20. Stories(md, root, 0, o, b, past)
    BY <2>18, <2>19 DEF Stories
  <2>21. /\ Arena(node, root, len, ops, blobs)'
         /\ Stories(node, root, open, ops, blobs, past)'
    BY <1>3, <2>1, <2>16, <2>20
  <2>22. Types'
    <3>1. Typed(md)
      BY <1>4, <2>3, <2>10 DEF Typed
    <3> QED BY <1>9, <2>1, <2>7, <3>1
  <2>23. Standing'
    BY <1>1, <1>3, <2>1, <2>2 DEF Standing
  <2>24. SavePoint'
    BY <1>3 DEF UndoInv, UndoRest, SavePoint
  <2> QED BY <1>8, <2>21, <2>22, <2>23, <2>24 DEF UndoRest
<1>11. CASE ~kept.on
  <2> DEFINE lo == q.blob_lo
             b == SubSeq(blobs, 1, lo)
             md == Cut(open, {open})
  <2>1. kept = NotReopened /\ k = 0
    BY <1>11, StillFields DEF UndoInv, UndoRest, Opened, k
  <2>2. /\ blobs' = b /\ len' = len - 1 /\ cur' = q.parent
        /\ node' = [Unlinked(node, open) EXCEPT ![open] = NoNode]
    BY <1>11 DEF AbortDone
  <2>3. Branch(open, {open}) /\ node' = md
    BY <1>1, <1>4, <2>2, LeafBranch
  <2>4. Alive(md) = Alive(node) \ {open} /\ Typed(md) /\ Rooted(md, root)
        /\ \A n \in Alive(md) : Alike(node[n], md[n])
    BY <1>4, <2>3, CutTree, CutNodes DEF Tree
  <2> HIDE DEF md
  <2>5. Agree(blobs, b, lo) /\ b \in Text /\ Len(b) = lo
    <3>1. lo <= Len(blobs)
      BY <1>1, <1>5
    <3> QED BY <1>4, <1>5, <3>1, AgreeCut DEF Text
  <2> HIDE DEF b
  <2>6. ASSUME NEW m \in Alive(md)
        PROVE  /\ m \in Alive(node) /\ Left(node[m], md[m], o, b)
               /\ m < open /\ Ends(node[m]) <= q.ops_at
               /\ node[m].blob_hi <= lo
               /\ node[m].n_ops # 0 /\ m + 1 = open =>
                     /\ Ends(node[m]) = q.ops_at /\ node[m].blob_hi = lo
    <3>1. m \in Alive(node) \ {open} /\ Alike(node[m], md[m])
      BY <2>4
    <3>2. /\ m < open /\ Ends(node[m]) <= q.ops_at
          /\ node[m].blob_hi <= lo
          /\ node[m].n_ops # 0 /\ m + 1 = open =>
                /\ Ends(node[m]) = q.ops_at /\ node[m].blob_hi = lo
      BY <1>1, <3>1, LastNode
    <3>3. Ends(node[m]) \in Nat /\ node[m].blob_hi \in Nat
      <4>1. Numbers(node[m])
        BY <3>1, AliveFacts
      <4> QED BY <4>1 DEF Numbers, Ends
    <3>4. Len(o) \in Nat /\ Len(b) \in Nat
      BY <1>5, <1>6, <2>5
    <3>5. Agree(ops, o, Ends(node[m]))
      BY <1>1, <1>5, <1>7, <3>2, <3>3, <3>4, AgreeLess
    <3>6. Agree(blobs, b, node[m].blob_hi)
      BY <1>1, <1>5, <2>5, <3>2, <3>3, <3>4, AgreeLess
    <3> QED BY <3>1, <3>2, <3>5, <3>6 DEF Left
  <2>7. ASSUME NEW m \in Alive(md)
        PROVE  /\ Within(md[m], o, b) /\ Ends(md[m]) = Ends(node[m])
               /\ md[m].ops_at = node[m].ops_at
               /\ md[m].n_ops = node[m].n_ops
               /\ md[m].blob_lo = node[m].blob_lo
               /\ md[m].blob_hi = node[m].blob_hi /\ m \in Int
    <3>1. Within(md[m], o, b) /\ Ends(md[m]) = Ends(node[m])
      BY <1>6, <2>5, <2>6, LeftAlone
    <3> QED BY <2>6, <3>1 DEF Left, Alike, Alive, Ids
  <2>8. Arena(node, root, len, ops, blobs)
    BY DEF UndoInv, UndoRest
  <2>9. Inside(md, o, b) /\ InOrder(md) /\ Busy(md, root)
    BY <2>6, <2>7, <2>8 DEF Arena, Inside, InOrder, Busy
  <2>10. Meet(md, len - 1, o, b)
    <3> SUFFICES ASSUME NEW m \in Alive(md), md[m].n_ops # 0
                 PROVE  /\ m = len - 1 => /\ Ends(md[m]) = Len(o)
                                          /\ md[m].blob_hi = Len(b)
                        /\ m + 1 \in Alive(md) =>
                             /\ Ends(md[m]) = md[m + 1].ops_at
                             /\ md[m].blob_hi = md[m + 1].blob_lo
      BY DEF Meet
    <3>1. ASSUME m = len - 1
          PROVE  Ends(md[m]) = Len(o) /\ md[m].blob_hi = Len(b)
      <4>1. m + 1 = open
        BY <1>1, <1>4, <1>11, <3>1 DEF Counted, Ids
      <4> QED BY <1>5, <1>6, <2>1, <2>5, <2>6, <2>7, <4>1
    <3>2. ASSUME m + 1 \in Alive(md)
          PROVE  /\ Ends(md[m]) = md[m + 1].ops_at
                 /\ md[m].blob_hi = md[m + 1].blob_lo
      <4>1. m + 1 \in Alive(node) /\ m \in Alive(node) /\ node[m].n_ops # 0
        BY <2>6, <2>7, <3>2
      <4>2. /\ Ends(node[m]) = node[m + 1].ops_at
            /\ node[m].blob_hi = node[m + 1].blob_lo
        BY <2>8, <4>1 DEF Arena, Meet
      <4>3. /\ md[m + 1].ops_at = node[m + 1].ops_at
            /\ md[m + 1].blob_lo = node[m + 1].blob_lo
        BY <2>7, <3>2
      <4>4. Ends(md[m]) = Ends(node[m]) /\ md[m].blob_hi = node[m].blob_hi
        BY <2>7
      <4> QED BY <4>2, <4>3, <4>4
    <3> QED BY <3>1, <3>2
  <2>11. Stories(md, root, 0, o, b, past)
    <3> SUFFICES ASSUME NEW m \in Alive(md) \ {root}
                 PROVE  Story(md[m], o, b, past, m)
      BY DEF Stories
    <3>1. m \in Alive(node) \ {root, open} /\ Left(node[m], md[m], o, b)
      BY <2>4, <2>6
    <3>2. Story(node[m], ops, blobs, past, m)
      BY <1>4, <3>1 DEF Stories
    <3> QED BY <1>6, <2>5, <3>1, <3>2, LeftStory
  <2>12. Arena(md, root, len - 1, o, b)
    BY <2>9, <2>10 DEF Arena
  <2>13. /\ Arena(node, root, len, ops, blobs)'
         /\ Stories(node, root, open, ops, blobs, past)'
    BY <1>3, <2>2, <2>3, <2>11, <2>12
  <2>14. Types'
    BY <1>9, <2>2, <2>3, <2>4, <2>5
  <2>15. Standing'
    <3>1. text = past[q.parent]
      <4>1. Midway(q, ops, blobs, past, k, text, 0, text)
        BY <1>1, <2>1
      <4> HIDE DEF q
      <4> QED BY <4>1, MidwayStart
    <3> QED BY <1>3, <2>2, <3>1 DEF Standing
  <2>16. SavePoint'
    BY <1>3 DEF UndoInv, UndoRest, SavePoint
  <2> QED BY <1>8, <2>13, <2>14, <2>15, <2>16 DEF UndoRest
<1> QED BY <1>10, <1>11

-----------------------------------------------------------------------------
(* An operation that is recorded: what it takes from the text, and what it   *)
(* leaves of the text and of the arenas.                                     *)
Fits(op) ==
  /\ op \in Op
  /\ op.kind = "INS" => op.off <= Len(text) /\ op.len = Len(op.bytes)
  /\ op.kind # "INS" => /\ op.off + op.len <= Len(text)
                        /\ op.bytes = <<>> /\ op.payload = Len(blobs)
Lost(op)    == IF op.kind = "INS" THEN <<>>
               ELSE SubSeq(text, op.off + 1, op.off + op.len)
After(op)   == Splice(text, op.off, IF op.kind = "INS" THEN 0 ELSE op.len,
                      op.bytes)
OpsTo(op)   == Append(ops, op)
BlobsTo(op) == blobs \o Lost(op)

LEMMA LostIs ==
  ASSUME text \in Text, NEW op, Fits(op), op.kind # "INS"
  PROVE  Lost(op) \in Text /\ Len(Lost(op)) = op.len
<1>1. /\ op.off \in Nat /\ op.len \in Nat /\ op.off + op.len <= Len(text)
      /\ op.off + op.len \in Nat /\ op.off <= op.off + op.len
      /\ (op.off + op.len) - op.off = op.len
  BY DEF Fits, Op
<1> DEFINE m == op.off
           n == op.off + op.len
<1>2. m \in Nat /\ n \in Nat /\ m <= n /\ n <= Len(text) /\ n - m = op.len
  BY <1>1
<1> HIDE DEF m, n
<1>3. Piece(Byte \cup {0}, text, m, n)
  BY <1>2, PieceIs DEF Text
<1>4. SubSeq(text, m + 1, n) \in Text /\ Len(SubSeq(text, m + 1, n)) = op.len
  BY <1>2, <1>3 DEF Piece, Text
<1> QED BY <1>4 DEF Lost, m, n

LEMMA OpsGrow ==
  ASSUME ops \in Seq(Op), NEW op \in Op
  PROVE  /\ OpsTo(op) \in Seq(Op) /\ Len(OpsTo(op)) = Len(ops) + 1
         /\ OpsTo(op)[Len(ops) + 1] = op /\ Agree(ops, OpsTo(op), Len(ops))
         /\ Len(ops) \in Nat
<1>1. Len(ops) \in Nat
  BY LenProperties
<1>2. OpsTo(op) \in Seq(Op) /\ Len(OpsTo(op)) = Len(ops) + 1
  BY AppendProperties DEF OpsTo
<1>3. /\ \A i \in 1 .. Len(ops) : OpsTo(op)[i] = ops[i]
      /\ OpsTo(op)[Len(ops) + 1] = op
  BY AppendProperties DEF OpsTo
<1> QED BY <1>1, <1>2, <1>3 DEF Agree

LEMMA BlobsGrow ==
  ASSUME text \in Text, blobs \in Text, NEW op, Fits(op)
  PROVE  /\ BlobsTo(op) \in Text /\ Agree(blobs, BlobsTo(op), Len(blobs))
         /\ Len(BlobsTo(op)) = Len(blobs) +
              IF op.kind = "INS" THEN 0 ELSE op.len
         /\ Len(blobs) \in Nat
<1>1. /\ Lost(op) \in Text
      /\ Len(Lost(op)) = IF op.kind = "INS" THEN 0 ELSE op.len
  <2>1. CASE op.kind = "INS"
    <3>1. Lost(op) = <<>>
      BY <2>1 DEF Lost
    <3>2. <<>> \in Text /\ Len(<<>>) = 0
      BY EmptySeq DEF Text
    <3> QED BY <2>1, <3>1, <3>2
  <2>2. CASE op.kind # "INS"
    BY <2>2, LostIs
  <2> QED BY <2>1, <2>2
<1> DEFINE g == Lost(op)
<1> HIDE DEF g
<1>2. g \in Text /\ Len(g) = IF op.kind = "INS" THEN 0 ELSE op.len
  BY <1>1 DEF g
<1>3. /\ Agree(blobs, blobs \o g, Len(blobs)) /\ blobs \o g \in Text
      /\ Len(blobs \o g) = Len(blobs) + Len(g) /\ Len(blobs) \in Nat
  BY <1>2, AgreeMore DEF Text
<1> QED BY <1>2, <1>3 DEF BlobsTo, g

(* The deleted bytes are those that the operation finds in the new arena.    *)
LEMMA LostFound ==
  ASSUME text \in Text, blobs \in Text, NEW op, Fits(op), op.kind # "INS"
  PROVE  SubSeq(BlobsTo(op), op.payload + 1, op.payload + op.len) = Lost(op)
<1> DEFINE S == Byte \cup {0}
           g == Lost(op)
           b == blobs \o g
           m == Len(blobs)
           n == Len(blobs) + Len(g)
<1>1. g \in Seq(S) /\ Len(g) = op.len /\ blobs \in Seq(S)
  BY LostIs DEF Text
<1>2. op.payload = m
  BY DEF Fits
<1> HIDE DEF S, g
<1>3. /\ Len(blobs) \in Nat /\ Len(g) \in Nat /\ b \in Seq(S)
      /\ Len(b) = Len(blobs) + Len(g)
  BY <1>1, LenProperties, ConcatProperties
<1>4. m \in Nat /\ n \in Nat /\ m <= n /\ n <= Len(b) /\ n - m = Len(g)
  BY <1>3
<1>5. ASSUME NEW i \in 1 .. Len(g) PROVE b[m + i] = g[i]
  <2>1. /\ m + i \in 1 .. Len(blobs) + Len(g) /\ ~(m + i <= Len(blobs))
        /\ (m + i) - Len(blobs) = i
    BY <1>3
  <2> QED BY <1>1, <2>1, ConcatProperties
<1> HIDE DEF b, m, n
<1>6. Piece(S, b, m, n)
  BY <1>3, <1>4, PieceIs
<1>7. SubSeq(b, m + 1, n) = g
  <2>1. /\ SubSeq(b, m + 1, n) \in Seq(S)
        /\ Len(SubSeq(b, m + 1, n)) = Len(g)
        /\ \A i \in 1 .. Len(g) : SubSeq(b, m + 1, n)[i] = b[m + i]
    BY <1>4, <1>6 DEF Piece
  <2> QED BY <1>1, <1>5, <2>1, SeqEqual
<1>8. n = op.payload + op.len
  BY <1>1, <1>2 DEF m, n
<1> QED BY <1>2, <1>7, <1>8 DEF BlobsTo, b, g

(* What is recorded undoes what was done.                                    *)
LEMMA OpDoes ==
  ASSUME text \in Text, blobs \in Text, NEW op, Fits(op)
  PROVE  /\ After(op) \in Text
         /\ Does(Deed(op, BlobsTo(op)), text, After(op))
<1> DEFINE S == Byte \cup {0}
           n == IF op.kind = "INS" THEN 0 ELSE op.len
           m == IF op.kind = "INS" THEN op.len ELSE 0
           b == op.bytes
           g == Lost(op)
           d == Deed(op, BlobsTo(op))
<1>1. /\ text \in Seq(S) /\ b \in Seq(S) /\ op.off \in Nat /\ op.len \in Nat
      /\ op.kind \in {"INS", "DEL"}
  BY DEF Text, Fits, Op
<1>2. n \in Nat /\ m \in Nat /\ op.off + n <= Len(text) /\ Len(b) = m
  <2>1. CASE op.kind = "INS"
    BY <1>1, <2>1 DEF Fits
  <2>2. CASE op.kind # "INS"
    BY <1>1, <2>2 DEF Fits
  <2> QED BY <2>1, <2>2
<1>3. g \in Seq(S) /\ g = SubSeq(text, op.off + 1, op.off + n)
  <2>1. CASE op.kind = "INS"
    <3>1. g = <<>> /\ n = 0
      BY <2>1 DEF Lost
    <3>2. SubSeq(text, op.off + 1, op.off + 0) = <<>>
      BY <1>1, SubSeqEmpty
    <3> QED BY <3>1, <3>2, EmptySeq
  <2>2. CASE op.kind # "INS"
    BY <2>2, LostIs DEF Lost, Text
  <2> QED BY <2>1, <2>2
<1>4. d = [kind |-> op.kind, off |-> op.off, len |-> op.len, bytes |-> b,
           gone |-> g]
  <2>1. CASE op.kind = "INS"
    BY <2>1 DEF Deed, Lost
  <2>2. CASE op.kind # "INS"
    BY <2>2, LostFound DEF Deed
  <2> QED BY <2>1, <2>2
<1>5. After(op) = Splice(text, op.off, n, b)
  BY DEF After
<1> HIDE DEF S, g, d
<1>6. Spliced(S, text, op.off, n, b)
  <2> HIDE DEF n, m, b
  <2> QED BY <1>1, <1>2, SpliceIs
<1>7. After(op) \in Seq(S)
  BY <1>5, <1>6 DEF Spliced
<1>8. Splice(After(op), op.off, m, g) = text
  <2> DEFINE o == op.off
             s == text
  <2>1. /\ s \in Seq(S) /\ b \in Seq(S) /\ g \in Seq(S) /\ o \in Nat
        /\ n \in Nat /\ m \in Nat /\ o + n <= Len(s) /\ Len(b) = m
        /\ g = SubSeq(s, o + 1, o + n)
    BY <1>1, <1>2, <1>3
  <2>2. After(op) = Splice(s, o, n, b)
    BY <1>5
  <2> HIDE DEF n, m, b, o, s
  <2>3. Swap(S, s, o, n, b, m, g)
    BY <2>1 DEF Swap
  <2>4. Splice(Splice(s, o, n, b), o, m, g) = s
    BY <2>3, SpliceBack
  <2> QED BY <2>2, <2>4 DEF o, s
<1>9. After(op) = Forward(d, text)
  BY <1>4, <1>5 DEF Forward
<1>10. text = Backward(d, After(op))
  <2>1. CASE op.kind = "INS"
    <3>1. g = <<>>
      BY <2>1 DEF g, Lost
    <3> QED BY <1>4, <1>8, <2>1, <3>1 DEF Backward
  <2>2. CASE op.kind # "INS"
    BY <1>4, <1>8, <2>2 DEF Backward
  <2> QED BY <2>1, <2>2
<1> QED BY <1>7, <1>9, <1>10 DEF Does, d, S, Text

-----------------------------------------------------------------------------
(* A node q that has the end of the arenas gets the operation too, and is    *)
(* then p.                                                                   *)
Grown(q, p, op) ==
  /\ p.parent = q.parent /\ p.ops_at = q.ops_at /\ p.n_ops = q.n_ops + 1
  /\ p.blob_lo = q.blob_lo /\ p.blob_hi = Len(BlobsTo(op))

LEMMA GrownEnd ==
  ASSUME UndoInv, NEW op, Fits(op), NEW q, Numbers(q),
         Within(q, ops, blobs), Ends(q) = Len(ops), q.blob_hi = Len(blobs),
         NEW p, Grown(q, p, op)
  PROVE  /\ AtEnd(p, OpsTo(op), BlobsTo(op))
         /\ Len(Deeds(p, OpsTo(op), BlobsTo(op))) = q.n_ops + 1
         /\ \A k \in 1 .. q.n_ops : Deeds(p, OpsTo(op), BlobsTo(op))[k] =
                                      Deeds(q, ops, blobs)[k]
         /\ Deeds(p, OpsTo(op), BlobsTo(op))[q.n_ops + 1] =
              Deed(op, BlobsTo(op))
<1> DEFINE o == OpsTo(op)
           b == BlobsTo(op)
<1>1. ops \in Seq(Op) /\ blobs \in Text /\ text \in Text /\ op \in Op
  BY DEF UndoInv, UndoRest, Types, Fits
<1>2. /\ o \in Seq(Op) /\ Len(o) = Len(ops) + 1 /\ o[Len(ops) + 1] = op
      /\ Agree(ops, o, Len(ops)) /\ Len(ops) \in Nat
  BY <1>1, OpsGrow
<1>3. /\ b \in Text /\ Agree(blobs, b, Len(blobs)) /\ Len(blobs) \in Nat
      /\ Len(b) = Len(blobs) + IF op.kind = "INS" THEN 0 ELSE op.len
  BY <1>1, BlobsGrow
<1>4. /\ op.kind # "INS" => op.payload = Len(blobs)
      /\ op.len \in Nat /\ op.payload \in Nat
  BY <1>1 DEF Fits, Op
<1>5. /\ p.parent = q.parent /\ p.ops_at = q.ops_at /\ p.n_ops = q.n_ops + 1
      /\ p.blob_lo = q.blob_lo /\ p.blob_hi = Len(b)
  BY DEF Grown
<1> HIDE DEF o, b
<1>6. /\ q.ops_at \in Nat /\ q.n_ops \in Nat /\ q.blob_lo \in Nat
      /\ q.blob_hi \in Nat /\ q.ops_at + q.n_ops = Len(ops)
      /\ q.blob_lo <= q.blob_hi /\ q.blob_hi = Len(blobs)
  BY DEF Numbers, Within, Ends
<1>7. Deeds(q, o, b) = Deeds(q, ops, blobs) /\ Within(q, o, b)
  BY <1>1, <1>2, <1>3, SameDeeds
<1>8. /\ q.ops_at + (q.n_ops + 1) = Len(ops) + 1
      /\ Len(b) \in Nat /\ Len(blobs) <= Len(b)
      /\ op.kind # "INS" => op.payload + op.len = Len(b)
  BY <1>2, <1>3, <1>4, <1>6
<1>9. Numbers(p)
  BY <1>5, <1>6, <1>8 DEF Numbers
<1>10. Within(p, o, b)
  <2>1. ASSUME NEW k \in 1 .. q.n_ops + 1, o[q.ops_at + k].kind # "INS"
        PROVE  /\ q.blob_lo <= o[q.ops_at + k].payload
               /\ o[q.ops_at + k].payload + o[q.ops_at + k].len <= Len(b)
    <3>1. CASE k = q.n_ops + 1
      <4>1. o[q.ops_at + k] = op
        BY <1>2, <1>8, <3>1
      <4>2. op.kind # "INS"
        BY <2>1, <4>1
      <4>3. q.blob_lo <= op.payload /\ op.payload + op.len <= Len(b)
        BY <1>4, <1>6, <1>8, <4>2
      <4> QED BY <4>1, <4>3
    <3>2. CASE k \in 1 .. q.n_ops
      <4> DEFINE x == o[q.ops_at + k]
      <4>1. /\ x.kind # "INS" => /\ q.blob_lo <= x.payload
                                 /\ x.payload + x.len <= q.blob_hi
            /\ x.kind # "INS"
        BY <1>7, <2>1, <3>2 DEF Within
      <4>2. x \in Op
        <5> DEFINE i == q.ops_at + k
        <5>1. i \in 1 .. Len(o)
          BY <1>2, <1>6, <3>2
        <5> HIDE DEF i
        <5>2. o[i] \in Op
          BY <1>2, <5>1, ElementOfSeq
        <5> QED BY <5>2 DEF i
      <4>3. x.payload \in Nat /\ x.len \in Nat
        BY <4>2 DEF Op
      <4> HIDE DEF x
      <4>4. q.blob_lo <= x.payload /\ x.payload + x.len <= Len(b)
        BY <1>6, <1>8, <4>1, <4>3
      <4> QED BY <4>4 DEF x
    <3> QED BY <1>6, <3>1, <3>2
  <2>2. Ends(p) <= Len(o) /\ p.blob_lo <= p.blob_hi /\ p.blob_hi <= Len(b)
    BY <1>2, <1>5, <1>6, <1>8 DEF Ends
  <2> QED BY <1>5, <2>1, <2>2 DEF Within
<1>11. AtEnd(p, o, b)
  <2>1. p.n_ops > 0 /\ Ends(p) = Len(o)
    BY <1>2, <1>5, <1>6, <1>8 DEF Ends
  <2> QED BY <1>5, <1>9, <1>10, <2>1 DEF AtEnd
<1> DEFINE d == Deeds(q, o, b)
           e == Deeds(p, o, b)
<1>12. /\ Len(d) = q.n_ops
       /\ \A k \in 1 .. q.n_ops : d[k] = Deed(o[q.ops_at + k], b)
  BY <1>6, DeedsAre
<1>13. /\ Len(e) = q.n_ops + 1
       /\ \A k \in 1 .. q.n_ops + 1 : e[k] = Deed(o[q.ops_at + k], b)
  <2>1. p.n_ops \in Nat
    BY <1>5, <1>6
  <2>2. /\ Len(e) = p.n_ops
        /\ \A k \in 1 .. p.n_ops : e[k] = Deed(o[p.ops_at + k], b)
    BY <2>1, DeedsAre
  <2> QED BY <1>5, <2>2
<1> HIDE DEF d, e
<1>14. \A k \in 1 .. q.n_ops : e[k] = d[k]
  BY <1>6, <1>12, <1>13
<1>15. e[q.n_ops + 1] = Deed(op, b)
  <2>1. q.n_ops + 1 \in 1 .. q.n_ops + 1
    BY <1>6
  <2> QED BY <1>2, <1>8, <1>13, <2>1
<1> QED BY <1>7, <1>11, <1>13, <1>14, <1>15 DEF d, e, o, b

LEMMA GrownStory ==
  ASSUME UndoInv, NEW op, Fits(op), NEW q, Numbers(q),
         Within(q, ops, blobs), Ends(q) = Len(ops), q.blob_hi = Len(blobs),
         NEW p, Grown(q, p, op), NEW i, NEW s,
         Midway(q, ops, blobs, past, i, s, q.n_ops, text)
  PROVE  Midway(p, OpsTo(op), BlobsTo(op), past, i, s, p.n_ops, After(op))
<1> DEFINE d == Deeds(q, ops, blobs)
           e == Deeds(p, OpsTo(op), BlobsTo(op))
           f == past[q.parent]
<1>1. /\ Len(e) = q.n_ops + 1 /\ \A k \in 1 .. q.n_ops : e[k] = d[k]
      /\ e[q.n_ops + 1] = Deed(op, BlobsTo(op))
  BY GrownEnd
<1>2. q.n_ops \in Nat /\ p.n_ops = q.n_ops + 1 /\ p.parent = q.parent
  BY DEF Numbers, Grown
<1>3. Len(d) = q.n_ops
  BY <1>2, DeedsAre
<1>4. After(op) \in Text /\ Does(e[q.n_ops + 1], text, After(op))
  BY <1>1, OpDoes DEF UndoInv, UndoRest, Types
<1>5. Told(d, f, i, s, Len(d), text)
  BY <1>3 DEF Midway
<1> DEFINE u == After(op)
<1> HIDE DEF d, e, f, u
<1>6. Len(d) \in Nat /\ Len(e) = Len(d) + 1
      /\ \A k \in 1 .. Len(d) : e[k] = d[k]
  BY <1>1, <1>2, <1>3
<1>7. u \in Text /\ Does(e[Len(d) + 1], text, u)
  BY <1>3, <1>4 DEF u
<1>8. Told(e, f, i, s, Len(e), u)
  BY <1>5, <1>6, <1>7, ToldMore
<1> QED BY <1>1, <1>2, <1>8 DEF Midway, e, f, u

(* What a step is to find in nodes nd, which may be the nodes with a new one *)
(* among them, to record an operation in node n of them: n has the end of    *)
(* the arenas, and the text has got from s, after i of its operations, to    *)
(* where it is after all of them.                                            *)
Grounds(nd, n, i, s) ==
  /\ Shape(nd) /\ Typed(nd) /\ n \in Alive(nd) \ {root}
  /\ Within(nd[n], ops, blobs) /\ Ends(nd[n]) = Len(ops)
  /\ nd[n].blob_hi = Len(blobs)
  /\ \A m \in Alive(nd) \ {n} : /\ m \in Alive(node)
                                /\ Alike(node[m], nd[m])
                                /\ Before(node[m], m, nd[n], n)
  /\ Stories(node, root, n, ops, blobs, past)
  /\ Midway(nd[n], ops, blobs, past, i, s, nd[n].n_ops, text)

(* ... and what it leaves in nodes md, with the texts g of the nodes.        *)
Yields(nd, n, i, s, op, md, l, g) ==
  /\ \A j \in Ids \ {n} : md[j] = nd[j]
  /\ Grown(nd[n], md[n], op) /\ Alive(md) = Alive(nd) /\ Typed(md)
  /\ Arena(md, root, l, OpsTo(op), BlobsTo(op))
  /\ Stories(md, root, n, OpsTo(op), BlobsTo(op), g)
  /\ Midway(md[n], OpsTo(op), BlobsTo(op), past, i, s, md[n].n_ops, After(op))
  /\ Ends(md[n]) = Len(OpsTo(op)) /\ md[n].blob_hi = Len(BlobsTo(op))

LEMMA GroundsYield ==
  ASSUME UndoInv, NEW op, Fits(op), NEW nd, NEW n, NEW i, NEW s,
         Grounds(nd, n, i, s), NEW md, NEW l \in Int, n <= l,
         Retailed(nd, md, n, nd[n].n_ops + 1, Len(BlobsTo(op))),
         Rooted(md, root), NEW g, \A m \in Ids \ {n} : g[m] = past[m]
  PROVE  Yields(nd, n, i, s, op, md, l, g)
<1> DEFINE o == OpsTo(op)
           b == BlobsTo(op)
           q == nd[n]
           p == md[n]
<1>1. /\ Shape(nd) /\ Typed(nd) /\ n \in Alive(nd) \ {root}
      /\ Within(q, ops, blobs) /\ Ends(q) = Len(ops)
      /\ q.blob_hi = Len(blobs)
      /\ Stories(node, root, n, ops, blobs, past)
      /\ Midway(q, ops, blobs, past, i, s, q.n_ops, text)
      /\ n \in Ids
  BY DEF Grounds, Alive
<1>2. ASSUME NEW m \in Alive(nd) \ {n}
      PROVE  /\ m \in Alive(node) /\ Alike(node[m], nd[m])
             /\ Before(node[m], m, nd[n], n)
  BY DEF Grounds
<1>3. \A j \in Ids \ {n} : md[j] = nd[j]
  BY Zenon DEF Retailed
<1>4. p = [live |-> nd[n].live, parent |-> nd[n].parent,
              kids |-> nd[n].kids, redo |-> nd[n].redo,
              depth |-> nd[n].depth, reason |-> nd[n].reason,
              ops_at |-> nd[n].ops_at, n_ops |-> nd[n].n_ops + 1,
              blob_lo |-> nd[n].blob_lo, blob_hi |-> Len(b)]
  BY Zenon DEF Retailed
<1>5. /\ p.live = q.live /\ p.parent = q.parent /\ p.kids = q.kids
      /\ p.redo = q.redo /\ p.reason = q.reason /\ p.ops_at = q.ops_at
      /\ p.n_ops = q.n_ops + 1 /\ p.blob_lo = q.blob_lo
      /\ p.blob_hi = Len(b)
  BY <1>4
<1>6. Grown(q, p, op)
  BY <1>5 DEF Grown
<1>7. Numbers(q) /\ Links(q)
  BY <1>1 DEF Typed
<1>8. ops \in Seq(Op) /\ blobs \in Text /\ text \in Text /\ op \in Op
  BY DEF UndoInv, UndoRest, Types, Fits
<1>9. /\ o \in Seq(Op) /\ Agree(ops, o, Len(ops)) /\ Len(ops) \in Nat
      /\ b \in Text /\ Agree(blobs, b, Len(blobs)) /\ Len(blobs) \in Nat
      /\ Len(o) \in Nat /\ Len(b) \in Nat
  <2>1. /\ o \in Seq(Op) /\ Agree(ops, o, Len(ops)) /\ Len(ops) \in Nat
    BY <1>8, OpsGrow
  <2>2. b \in Text /\ Agree(blobs, b, Len(blobs)) /\ Len(blobs) \in Nat
    BY <1>8, BlobsGrow
  <2> HIDE DEF o, b
  <2> QED BY <2>1, <2>2, LenProperties DEF Text
<1>10. AtEnd(p, o, b)
  BY <1>1, <1>6, <1>7, GrownEnd
<1>11. Midway(p, o, b, past, i, s, p.n_ops, After(op))
  BY <1>1, <1>6, <1>7, GrownStory
<1> HIDE DEF o, b, p, q
<1>12. Alive(md) = Alive(nd)
  BY <1>1, <1>3, <1>5 DEF Alive, p, q
<1>13. Others(md, n, o, b)
  <2> SUFFICES ASSUME NEW m \in Alive(md) \ {n}
               PROVE  /\ m \in Alive(node) /\ Left(node[m], md[m], o, b)
                      /\ Before(node[m], m, md[n], n)
    BY DEF Others
  <2>1. m \in Alive(nd) \ {n} /\ m \in Ids
    BY <1>12 DEF Alive
  <2>2. /\ m \in Alive(node) /\ Alike(node[m], md[m])
        /\ Before(node[m], m, nd[n], n)
    BY <1>2, <1>3, <2>1
  <2>3. Before(node[m], m, md[n], n)
    BY <1>5, <2>2 DEF Before, p, q
  <2>4. Numbers(node[m]) /\ Within(node[m], ops, blobs)
    BY <2>2, AliveFacts
  <2>5. /\ Ends(node[m]) \in Nat /\ Ends(node[m]) <= Len(ops)
        /\ node[m].blob_hi \in Nat /\ node[m].blob_hi <= Len(blobs)
    BY <2>4 DEF Numbers, Within, Ends
  <2>6. Agree(ops, o, Ends(node[m]))
    BY <1>9, <2>5, AgreeLess
  <2>7. Agree(blobs, b, node[m].blob_hi)
    BY <1>9, <2>5, AgreeLess
  <2> QED BY <2>2, <2>3, <2>6, <2>7 DEF Left
<1>14. n \in Alive(md) \ {root}
  BY <1>1, <1>12
<1>15. Arena(md, root, l, o, b)
  BY <1>9, <1>10, <1>13, <1>14, TailArena DEF p
<1>16. Stories(md, root, n, o, b, g)
  BY <1>1, <1>9, <1>13, <1>14, TailStories
<1>17. Typed(md)
  <2>1. Numbers(p) /\ Links(p)
    BY <1>5, <1>7, <1>10 DEF AtEnd, Links
  <2> QED BY <1>1, <1>3, <2>1 DEF Typed, p
<1>18. Ends(p) = Len(o) /\ p.blob_hi = Len(b)
  BY <1>10 DEF AtEnd
<1> QED BY <1>3, <1>6, <1>11, <1>12, <1>15, <1>16, <1>17, <1>18
        DEF Yields, o, b, p, q

LEMMA MidwayTurn ==
  ASSUME NEW q, NEW o, NEW b, NEW p, NEW i, NEW s, NEW j, NEW t,
         Midway(q, o, b, p, i, s, j, t)
  PROVE  Midway(q, o, b, p, j, t, i, s)
BY DEF Midway, Told

LEMMA RecordYields ==
  ASSUME UndoInv, ChainInv', NEW op, Fits(op), NEW nd, NEW n, NEW i, NEW s,
         Grounds(nd, n, i, s), Record(nd, n, op), len' \in Int, n <= len',
         pc = "idle", boundary' \in BOOLEAN
  PROVE  /\ Yields(nd, n, i, s, op, node', len', past') /\ Types'
         /\ ops' = OpsTo(op) /\ blobs' = BlobsTo(op) /\ text' = After(op)
         /\ cur' = n /\ root' = root /\ saved' = saved /\ nest' = nest
         /\ reason' = reason /\ kept' = kept /\ disk' = disk
         /\ amended' = amended /\ before' = before
<1> DEFINE a == nd[n].n_ops + 1
           c == Len(BlobsTo(op))
           md == [nd EXCEPT ![n].n_ops = a, ![n].blob_hi = c]
           g == IF nest > 0 THEN past ELSE [past EXCEPT ![n] = After(op)]
<1>1. /\ ops' = OpsTo(op) /\ blobs' = BlobsTo(op) /\ text' = After(op)
      /\ cur' = n /\ root' = root /\ saved' = saved /\ nest' = nest
      /\ reason' = reason /\ kept' = kept /\ disk' = disk
      /\ amended' = amended /\ before' = before
  BY DEF Record, OpsTo, BlobsTo, After, Lost
<1>2. past' = g
  BY <1>1 DEF Record
<1>3. /\ Shape(nd) /\ n \in Ids /\ nd[n].blob_hi = Len(blobs)
      /\ nd = [j \in Ids |-> nd[j]]
  BY DEF Grounds, Alive, Shape
<1>4. node' = md
  <2> DEFINE m == [nd EXCEPT ![n].n_ops = nd[n].n_ops + 1]
             h == IF op.kind = "INS" THEN m[n].blob_hi ELSE Len(blobs')
  <2>1. node' = [m EXCEPT ![n].blob_hi = h]
    BY DEF Record
  <2>2. m[n] = [nd[n] EXCEPT !.n_ops = nd[n].n_ops + 1]
    BY <1>3
  <2>3. m[n].blob_hi = nd[n].blob_hi
    BY <1>3, <2>2 DEF Shape, IsNode
  <2>4. h = c
    <3>1. CASE op.kind = "INS"
      <4>1. Len(BlobsTo(op)) = Len(blobs) /\ h = m[n].blob_hi
        <5>1. Len(BlobsTo(op)) = Len(blobs) + 0 /\ Len(blobs) \in Nat
          BY <3>1, BlobsGrow DEF UndoInv, UndoRest, Types
        <5> QED BY <3>1, <5>1
      <4> QED BY <1>3, <2>3, <4>1
    <3>2. CASE op.kind # "INS"
      BY <1>1, <3>2
    <3> QED BY <3>1, <3>2
  <2> HIDE DEF h, c
  <2> QED BY <2>1, <2>4
<1>5. Retailed(nd, md, n, a, c)
  <2> HIDE DEF a, c
  <2> QED BY <1>3, TailIs
<1>6. /\ past \in [Ids -> Text] /\ After(op) \in Text /\ text \in Text
      /\ blobs \in Text /\ ops \in Seq(Op) /\ op \in Op
  BY OpDoes DEF UndoInv, UndoRest, Types, Fits
<1>7. g \in [Ids -> Text] /\ \A m \in Ids \ {n} : g[m] = past[m]
  BY <1>6
<1>8. Rooted(md, root)
  <2>1. Tree(node', root')
    BY DEF ChainInv
  <2> QED BY <1>1, <1>4, <2>1 DEF Tree
<1> HIDE DEF md, g, c
<1>9. PICK l \in Int : l = len' /\ n <= l
  OBVIOUS
<1>10. Yields(nd, n, i, s, op, md, l, g)
  BY <1>5, <1>7, <1>8, <1>9, GroundsYield DEF c
<1>11. Yields(nd, n, i, s, op, node', len', past')
  BY <1>2, <1>4, <1>9, <1>10
<1>12. Types'
  <2>1. walk'.t \in Ids \cup {0} /\ walk'.path \in Seq(Ids) /\ walk'.i \in Nat
    <3>1. walk' = walk \/ walk' = Still
      BY StillIs DEF Record, Goto, UndoInv, ChainInv, Journey
    <3> QED BY <3>1, StillFields DEF UndoInv, UndoRest, Types
  <2>2. Typed(md)
    BY <1>10 DEF Yields
  <2>3. OpsTo(op) \in Seq(Op) /\ BlobsTo(op) \in Text
    BY <1>6, OpsGrow, BlobsGrow
  <2> QED BY <1>1, <1>2, <1>4, <1>6, <1>7, <2>1, <2>2, <2>3
          DEF UndoInv, UndoRest, Types
<1> QED BY <1>1, <1>11, <1>12

(* Outside a transaction the operation makes a transaction of its own, which *)
(* ends at once.                                                             *)
LEMMA RecordEnds ==
  ASSUME UndoInv, ChainInv', NEW op, Fits(op), NEW nd, NEW n,
         Grounds(nd, n, 0, past[nd[n].parent]), Record(nd, n, op),
         len' \in Int, n <= len', pc = "idle", boundary' \in BOOLEAN,
         nest = 0, n # saved
  PROVE  UndoRest'
<1> DEFINE f == past[nd[n].parent]
<1>1. /\ Yields(nd, n, 0, f, op, node', len', past') /\ Types'
      /\ ops' = OpsTo(op) /\ blobs' = BlobsTo(op) /\ text' = After(op)
      /\ cur' = n /\ root' = root /\ saved' = saved /\ nest' = nest
      /\ reason' = reason /\ kept' = kept /\ disk' = disk
      /\ amended' = amended /\ before' = before
  BY RecordYields
<1>2. open' = 0 /\ pc' = "trim" /\ past' = [past EXCEPT ![n] = text']
  BY DEF Record, Goto
<1>3. /\ n \in Alive(node') /\ n \in Ids /\ n # root /\ saved \in Ids
      /\ past \in [Ids -> Text] /\ ~kept.on
  <2>1. n \in Alive(nd) /\ Alive(node') = Alive(nd) /\ n # root
    BY <1>1 DEF Grounds, Yields
  <2>2. saved \in Ids
    BY DEF UndoInv, ChainInv, Counted, Alive
  <2> QED BY <2>1, <2>2 DEF Alive, UndoInv, UndoRest, Types, ChainInv,
                            Transaction
<1>4. /\ past'[n] = text' /\ \A m \in Ids \ {n} : past'[m] = past[m]
  <2>1. PICK u : u = text'
    OBVIOUS
  <2>2. past' = [past EXCEPT ![n] = u]
    BY <1>2, <2>1
  <2> QED BY <1>3, <2>1, <2>2
<1>5. node'[n].parent = nd[n].parent /\ node'[n].parent \in Ids \ {n}
  <2>1. node'[n].parent = nd[n].parent
    BY <1>1 DEF Yields, Grown
  <2>2. Rooted(node', root)
    <3>1. Tree(node', root')
      BY DEF ChainInv
    <3> QED BY <1>1, <3>1 DEF Tree
  <2>3. node'[n].parent \in Alive(node') /\ node'[n].parent < n
    BY <1>3, <2>2 DEF Rooted
  <2>4. node'[n].parent \in Ids /\ node'[n].parent \in Int
    BY <2>3 DEF Alive, Ids
  <2> QED BY <1>3, <2>1, <2>3, <2>4 DEF Ids
<1>6. Story(node'[n], ops', blobs', past', n)
  <2>1. Midway(node'[n], ops', blobs', past, 0, f, node'[n].n_ops, text')
    BY <1>1 DEF Yields
  <2>2. Midway(node'[n], ops', blobs', past, node'[n].n_ops, text', 0, f)
    BY <2>1, MidwayTurn
  <2>3. past'[node'[n].parent] = past[node'[n].parent]
        /\ past'[node'[n].parent] = f
    BY <1>4, <1>5
  <2> HIDE DEF f
  <2>4. Midway(node'[n], ops', blobs', past', node'[n].n_ops, text', 0, f)
    BY <2>2, <2>3 DEF Midway
  <2> QED BY <1>4, <2>3, <2>4 DEF Story
<1>7. Stories(node', root', 0, ops', blobs', past')
  <2>1. Stories(node', root, n, ops', blobs', past')
    BY <1>1 DEF Yields
  <2> QED BY <1>1, <1>6, <2>1 DEF Stories
<1>8. Arena(node', root', len', ops', blobs')
  BY <1>1 DEF Yields
<1>9. Standing'
  BY <1>1, <1>2, <1>4 DEF Standing
<1>10. Opened'
  BY <1>1, <1>2, <1>3 DEF UndoInv, UndoRest, Opened
<1>11. SavePoint'
  BY <1>1, <1>2, <1>3, <1>4 DEF UndoInv, UndoRest, SavePoint
<1> QED BY <1>1, <1>2, <1>7, <1>8, <1>9, <1>10, <1>11 DEF UndoRest

(* In a transaction the node stays open: what an abort is to keep of it and  *)
(* to bring back stays as well.                                              *)
Keeps(nd, n) ==
  /\ before.text = past[n] /\ kept.n_ops \in 1 .. nd[n].n_ops
  /\ kept.blob_hi \in nd[n].blob_lo .. nd[n].blob_hi
  /\ \A k \in 1 .. kept.n_ops : ops[nd[n].ops_at + k].kind # "INS" =>
       ops[nd[n].ops_at + k].payload + ops[nd[n].ops_at + k].len
         <= kept.blob_hi
Returns(nd, n) ==
  [cur |-> IF kept.on THEN n ELSE nd[n].parent, text |-> before.text,
   live |-> IF kept.on THEN Alive(nd) ELSE Alive(nd) \ {n},
   ops |-> SubSeq(ops, 1, nd[n].ops_at + kept.n_ops),
   blobs |-> SubSeq(blobs, 1, IF kept.on THEN kept.blob_hi
                              ELSE nd[n].blob_lo)]

LEMMA RecordStays ==
  ASSUME UndoInv, ChainInv', NEW op, Fits(op), NEW nd, NEW n,
         Grounds(nd, n, kept.n_ops, before.text), Record(nd, n, op),
         len' \in Int, n <= len', pc = "idle", boundary' \in BOOLEAN,
         nest > 0, kept.on => Keeps(nd, n), before = Returns(nd, n),
         n = saved => amended
  PROVE  UndoRest'
<1> DEFINE k == kept.n_ops
           s == before.text
<1>1. /\ Yields(nd, n, k, s, op, node', len', past') /\ Types'
      /\ ops' = OpsTo(op) /\ blobs' = BlobsTo(op) /\ text' = After(op)
      /\ cur' = n /\ root' = root /\ saved' = saved /\ nest' = nest
      /\ reason' = reason /\ kept' = kept /\ disk' = disk
      /\ amended' = amended /\ before' = before
  BY RecordYields
<1>2. open' = n /\ pc' = pc /\ walk' = walk /\ past' = past
  BY DEF Record
<1>3. /\ n \in Ids /\ n # 0 /\ nest \in Nat
      /\ ~kept.on => kept = NotReopened
      /\ kept.n_ops \in Nat /\ kept.blob_hi \in Nat
  BY DEF Grounds, Alive, Ids, UndoInv, UndoRest, Opened, ChainInv,
         Transaction, Types
<1>4. /\ node'[n].parent = nd[n].parent /\ node'[n].ops_at = nd[n].ops_at
      /\ node'[n].n_ops = nd[n].n_ops + 1
      /\ node'[n].blob_lo = nd[n].blob_lo
      /\ node'[n].blob_hi = Len(blobs') /\ Ends(node'[n]) = Len(ops')
      /\ Alive(node') = Alive(nd)
  BY <1>1 DEF Yields, Grown
<1>5. Midway(node'[n], ops', blobs', past, k, s, node'[n].n_ops, text')
  BY <1>1 DEF Yields
<1>6. /\ Numbers(nd[n]) /\ Within(nd[n], ops, blobs)
      /\ Ends(nd[n]) = Len(ops) /\ nd[n].blob_hi = Len(blobs)
  BY <1>3 DEF Grounds, Typed
<1>7. /\ Agree(ops, ops', Len(ops)) /\ Agree(blobs, blobs', Len(blobs))
      /\ Len(ops) \in Nat /\ Len(blobs) \in Nat
      /\ Len(ops') \in Nat /\ Len(blobs') \in Nat
      /\ ops \in Seq(Op) /\ ops' \in Seq(Op)
      /\ blobs \in Text /\ blobs' \in Text
  <2>1. ops \in Seq(Op) /\ blobs \in Text /\ text \in Text /\ op \in Op
    BY DEF UndoInv, UndoRest, Types, Fits
  <2>2. /\ OpsTo(op) \in Seq(Op) /\ Agree(ops, OpsTo(op), Len(ops))
        /\ Len(ops) \in Nat
    BY <2>1, OpsGrow
  <2>3. /\ BlobsTo(op) \in Text /\ Agree(blobs, BlobsTo(op), Len(blobs))
        /\ Len(blobs) \in Nat
    BY <2>1, BlobsGrow
  <2>4. Len(OpsTo(op)) \in Nat /\ Len(BlobsTo(op)) \in Nat
    BY <2>2, <2>3, LenProperties DEF Text
  <2> QED BY <1>1, <2>1, <2>2, <2>3, <2>4
<1>8. /\ nd[n].ops_at \in Nat /\ nd[n].n_ops \in Nat
      /\ nd[n].blob_lo \in Nat /\ nd[n].blob_hi \in Nat
      /\ nd[n].ops_at + nd[n].n_ops = Len(ops)
      /\ nd[n].blob_lo <= nd[n].blob_hi
  BY <1>6 DEF Numbers, Within, Ends
<1>9. k \in 0 .. nd[n].n_ops
  <2>1. Midway(nd[n], ops, blobs, past, k, s, nd[n].n_ops, text)
    BY DEF Grounds
  <2>2. k \in 0 .. Len(Deeds(nd[n], ops, blobs))
    BY <2>1 DEF Midway, Told
  <2> QED BY <1>8, <2>2, DeedsAre
<1>10. KeptFits' \/ ~kept.on
  <2> SUFFICES ASSUME kept.on PROVE KeptFits'
    OBVIOUS
  <2>1. Keeps(nd, n)
    OBVIOUS
  <2>2. kept.n_ops \in 1 .. node'[n].n_ops
    BY <1>4, <1>8, <2>1 DEF Keeps
  <2>3. kept.blob_hi \in node'[n].blob_lo .. node'[n].blob_hi
    BY <1>4, <1>6, <1>7, <1>8, <2>1 DEF Keeps, Agree
  <2>4. ASSUME NEW j \in 1 .. kept.n_ops
        PROVE  ops'[node'[n].ops_at + j] = ops[nd[n].ops_at + j]
    <3>1. nd[n].ops_at + j \in 1 .. Len(ops)
      BY <1>3, <1>8, <2>1 DEF Keeps
    <3> QED BY <1>4, <1>7, <3>1 DEF Agree
  <2>5. \A j \in 1 .. kept.n_ops : ops'[node'[n].ops_at + j].kind # "INS" =>
           ops'[node'[n].ops_at + j].payload + ops'[node'[n].ops_at + j].len
             <= kept.blob_hi
    BY <2>1, <2>4 DEF Keeps
  <2> QED BY <1>1, <1>2, <2>1, <2>2, <2>3, <2>5 DEF KeptFits, Keeps
<1>11. Return' = before
  <2> DEFINE x == nd[n].ops_at + k
             y == IF kept.on THEN kept.blob_hi ELSE nd[n].blob_lo
  <2>1. x \in Nat /\ x <= Len(ops) /\ y \in Nat /\ y <= Len(blobs)
    <3>1. kept.on => kept.blob_hi <= nd[n].blob_hi
      BY <1>8 DEF Keeps
    <3> QED BY <1>3, <1>6, <1>8, <1>9, <3>1
  <2> HIDE DEF x, y
  <2>2. Agree(ops, ops', x)
    BY <1>7, <2>1, AgreeLess
  <2>3. Agree(blobs, blobs', y)
    BY <1>7, <2>1, AgreeLess
  <2>4. SubSeq(ops', 1, x) = SubSeq(ops, 1, x)
    BY <1>7, <2>1, <2>2, AgreeSub
  <2>5. SubSeq(blobs', 1, y) = SubSeq(blobs, 1, y)
    BY <1>7, <2>1, <2>3, AgreeSub DEF Text
  <2> QED BY <1>1, <1>2, <1>4, <2>4, <2>5 DEF Return, Returns, x, y
<1>12. Opened'
  <2>1. pc' # "abort"
    BY <1>2
  <2>2. Ends(node'[n]) = Len(ops') /\ node'[n].blob_hi = Len(blobs')
    BY <1>4
  <2> QED BY <1>1, <1>2, <1>3, <1>10, <1>11, <2>1, <2>2 DEF Opened
<1>13. Standing'
  BY <1>1, <1>2, <1>3, <1>5 DEF Standing
<1>14. SavePoint'
  BY <1>1, <1>2 DEF UndoInv, UndoRest, SavePoint
<1>15. /\ Arena(node', root', len', ops', blobs')
       /\ Stories(node', root', open', ops', blobs', past')
  BY <1>1, <1>2 DEF Yields
<1> QED BY <1>1, <1>12, <1>13, <1>14, <1>15 DEF UndoRest

LEMMA LastBefore ==
  ASSUME UndoInv, NEW n \in Alive(node), Ends(node[n]) = Len(ops),
         NEW m \in Alive(node) \ {n}
  PROVE  Before(node[m], m, node[n], n)
BY LastNode DEF Before

(* A node that has the end of the arenas already.                            *)
LEMMA OldGrounds ==
  ASSUME UndoInv, NEW n \in Alive(node) \ {root}, Ends(node[n]) = Len(ops),
         node[n].blob_hi = Len(blobs), NEW i, NEW s, open \in {0, n},
         Midway(node[n], ops, blobs, past, i, s, node[n].n_ops, text)
  PROVE  Grounds(node, n, i, s)
<1>1. \A m \in Alive(node) \ {n} : /\ m \in Alive(node)
                                  /\ Alike(node[m], node[m])
                                  /\ Before(node[m], m, node[n], n)
  BY LastBefore DEF Alike
<1>2. Shape(node) /\ Typed(node)
  BY DEF UndoInv, ChainInv, Tree, UndoRest, Types
<1>3. Within(node[n], ops, blobs)
  BY AliveFacts
<1>4. Stories(node, root, n, ops, blobs, past)
  <2>1. Stories(node, root, open, ops, blobs, past) /\ 0 \notin Alive(node)
    BY DEF UndoInv, UndoRest, Alive, Ids
  <2> QED BY <2>1 DEF Stories
<1> QED BY <1>1, <1>2, <1>3, <1>4 DEF Grounds

LEMMA EditStays ==
  ASSUME UndoInv, NEW op, NEW quick, Fits(op), Edit(op, quick), open # 0
  PROVE  UndoRest'
<1>1. pc = "idle" /\ Record(node, open, op) /\ len' = len
      /\ boundary' = boundary
  BY DEF Edit, Idle
<1>2. ChainInv'
  BY EditKeeps DEF UndoInv
<1>3. /\ open \in Alive(node) \ {root} /\ open = cur /\ nest > 0
      /\ (~kept.on => open # saved)
  BY DEF UndoInv, ChainInv, Transaction, Counted
<1>4. /\ Ends(node[open]) = Len(ops) /\ node[open].blob_hi = Len(blobs)
      /\ before = Return /\ (kept.on => KeptFits)
      /\ (open = saved => amended)
      /\ Midway(node[open], ops, blobs, past, kept.n_ops, before.text,
                node[open].n_ops, text)
  BY <1>1, <1>3 DEF UndoInv, UndoRest, Opened, Standing, SavePoint
<1>5. Grounds(node, open, kept.n_ops, before.text)
  BY <1>3, <1>4, OldGrounds
<1>6. kept.on => Keeps(node, open)
  BY <1>4 DEF KeptFits, Keeps
<1>7. before = Returns(node, open)
  BY <1>3, <1>4 DEF Return, Returns
<1>8. len' \in Int /\ open <= len' /\ boundary' \in BOOLEAN
  BY <1>1, <1>3 DEF UndoInv, ChainInv, Counted, Ids, UndoRest, Types
<1> QED BY <1>1, <1>2, <1>3, <1>4, <1>5, <1>6, <1>7, <1>8, RecordStays

LEMMA EditMerges ==
  ASSUME UndoInv, NEW op, NEW quick, Fits(op), Edit(op, quick), open = 0,
         MayMerge(op), Record(node, cur, op), len' = len,
         boundary' = boundary
  PROVE  UndoRest'
<1>1. pc = "idle" /\ nest = 0 /\ ~boundary /\ cur = len /\ node[cur].n_ops # 0
  BY DEF Edit, Idle, MayMerge
<1>2. ChainInv'
  BY EditKeeps DEF UndoInv
<1>3. cur \in Alive(node) \ {root}
  BY <1>1 DEF UndoInv, ChainInv, Counted
<1>4. Ends(node[cur]) = Len(ops) /\ node[cur].blob_hi = Len(blobs)
  BY <1>1, <1>3 DEF UndoInv, UndoRest, Arena, Meet
<1>5. Midway(node[cur], ops, blobs, past, 0, past[node[cur].parent],
             node[cur].n_ops, text)
  <2>1. text = past[cur] /\ 0 \notin Alive(node)
    BY <1>1 DEF UndoInv, UndoRest, Standing, Alive, Ids
  <2>2. Story(node[cur], ops, blobs, past, cur)
    BY <1>3, <2>1 DEF UndoInv, UndoRest, Stories
  <2>3. Midway(node[cur], ops, blobs, past, node[cur].n_ops, text, 0,
               past[node[cur].parent])
    BY <2>1, <2>2 DEF Story
  <2> QED BY <2>3, MidwayTurn
<1>6. Grounds(node, cur, 0, past[node[cur].parent])
  BY <1>3, <1>4, <1>5, OldGrounds
<1>7. len' \in Int /\ cur <= len' /\ boundary' \in BOOLEAN /\ cur # saved
  BY <1>1 DEF UndoInv, ChainInv, Counted, Ids, UndoRest, Types, SavePoint
<1> QED BY <1>1, <1>2, <1>6, <1>7, RecordEnds

(* A new node.                                                               *)
LEMMA NewGrounds ==
  ASSUME UndoInv, NEW op, Fits(op), open = 0, pc = "idle", len + 1 \in Ids
  PROVE  /\ Grounds(Linked(op), len + 1, 0, text)
         /\ Linked(op)[len + 1] = NewNode(op) /\ text = past[cur]
         /\ Alive(Linked(op)) = Alive(node) \cup {len + 1}
         /\ len + 1 \notin Alive(node)
<1> DEFINE n == len + 1
           nd == Linked(op)
           q == NewNode(op)
<1>1. /\ Tree(node, root) /\ Counted /\ Typed(node) /\ Len(ops) \in Nat
      /\ Len(blobs) \in Nat /\ text \in Text /\ n \in Int
      /\ EditReason(op) \in Reasons \cup {"NONE"}
  <2>1. Len(ops) \in Nat /\ Len(blobs) \in Nat
    BY LenProperties DEF UndoInv, UndoRest, Types, Text
  <2> QED BY <2>1 DEF UndoInv, ChainInv, UndoRest, Types, EditReason,
                      Reasons, Counted, Ids
<1>2. /\ Tree(nd, root) /\ Alive(nd) = Alive(node) \cup {n}
      /\ n \notin Alive(node)
  BY <1>1, LinkedTree
<1>3. /\ \A j \in Ids \ {n} : Alike(node[j], nd[j])
      /\ nd[n] = q /\ Typed(nd)
  BY <1>1, LinkedNodes
<1>4. /\ q.parent = cur /\ q.ops_at = Len(ops) /\ q.n_ops = 0
      /\ q.blob_lo = Len(blobs) /\ q.blob_hi = Len(blobs)
  BY DEF NewNode
<1>5. text = past[cur]
  BY DEF UndoInv, UndoRest, Standing
<1> HIDE DEF nd, q
<1>6. Within(q, ops, blobs) /\ Ends(q) = Len(ops)
  BY <1>1, <1>4 DEF Within, Ends
<1>7. Midway(q, ops, blobs, past, 0, text, q.n_ops, text)
  <2> DEFINE d == Deeds(q, ops, blobs)
  <2>1. Len(d) = 0
    BY <1>4, DeedsAre
  <2> HIDE DEF d
  <2>2. Told(d, text, 0, text, 0, text)
    BY <1>1, <2>1, ToldNone
  <2> QED BY <1>4, <1>5, <2>2 DEF Midway, d
<1>8. ASSUME NEW m \in Alive(nd) \ {n}
      PROVE  /\ m \in Alive(node) /\ Alike(node[m], nd[m])
             /\ Before(node[m], m, q, n)
  <2>1. m \in Alive(node) /\ m \in Ids /\ m # n
    BY <1>2 DEF Alive
  <2>2. Alike(node[m], nd[m])
    BY <1>3, <2>1
  <2>3. m <= len /\ m \in Int /\ len \in Int
    BY <1>1, <2>1 DEF Counted, Ids
  <2>4. Within(node[m], ops, blobs)
    BY <2>1, AliveFacts
  <2>5. node[m].n_ops # 0 /\ m = len =>
           Ends(node[m]) = Len(ops) /\ node[m].blob_hi = Len(blobs)
    BY <2>1 DEF UndoInv, UndoRest, Arena, Meet
  <2>6. m < n /\ (m + 1 = n => m = len)
    BY <2>3
  <2>7. Ends(node[m]) <= Len(ops) /\ node[m].blob_hi <= Len(blobs)
    BY <2>4 DEF Within
  <2> HIDE DEF n
  <2> QED BY <1>4, <2>1, <2>2, <2>5, <2>6, <2>7 DEF Before
<1>9. Stories(node, root, n, ops, blobs, past)
  <2>1. Stories(node, root, 0, ops, blobs, past) /\ 0 \notin Alive(node)
    BY DEF UndoInv, UndoRest, Alive, Ids
  <2> QED BY <2>1 DEF Stories
<1>10. n # root /\ Shape(nd)
  BY <1>1, <1>2 DEF Tree, Rooted
<1>11. Grounds(nd, n, 0, text)
  <2> HIDE DEF n
  <2> QED BY <1>2, <1>3, <1>4, <1>6, <1>7, <1>8, <1>9, <1>10 DEF Grounds
<1> QED BY <1>2, <1>3, <1>5, <1>11 DEF nd, q

LEMMA EditStarts ==
  ASSUME UndoInv, NEW op, NEW quick, Fits(op), Edit(op, quick), open = 0,
         len < MaxNodes, len' = len + 1, boundary' = FALSE,
         Record(Linked(op), len', op)
  PROVE  UndoRest'
<1>1. pc = "idle"
  BY DEF Edit, Idle
<1>2. ChainInv'
  BY EditKeeps DEF UndoInv
<1>3. len + 1 \in Ids /\ len + 1 \in Int
  BY UndoAssumption DEF UndoAssumption, Ids, UndoInv, ChainInv, Counted
<1> DEFINE n == len + 1
           nd == Linked(op)
<1>4. /\ Grounds(nd, n, 0, text) /\ nd[n] = NewNode(op)
      /\ text = past[cur] /\ Alive(nd) = Alive(node) \cup {n}
      /\ n \notin Alive(node)
  BY <1>1, <1>3, NewGrounds
<1>5. /\ nd[n].parent = cur /\ nd[n].ops_at = Len(ops)
      /\ nd[n].n_ops = 0 /\ nd[n].blob_lo = Len(blobs)
  BY <1>4 DEF NewNode
<1>6. n # saved
  BY <1>4 DEF UndoInv, ChainInv, Counted
<1> HIDE DEF nd
<1>7. Record(nd, n, op)
  BY DEF nd
<1> HIDE DEF n
<1>8. n \in Int /\ len' = n /\ n <= n
  BY <1>3 DEF n
<1>9. CASE nest = 0
  <2>1. Grounds(nd, n, 0, past[nd[n].parent])
    BY <1>4, <1>5
  <2> QED BY <1>1, <1>2, <1>6, <1>7, <1>8, <1>9, <2>1, RecordEnds
<1>10. CASE nest # 0
  <2>1. nest > 0 /\ ~kept.on /\ kept = NotReopened /\ before = Snapshot
    BY <1>10 DEF UndoInv, ChainInv, Transaction, UndoRest, Opened
  <2>2. kept.n_ops = 0
    BY <2>1, StillFields
  <2>3. before.text = text
    BY <2>1 DEF Snapshot
  <2>4. Returns(nd, n) = Snapshot
    <3>1. SubSeq(ops, 1, Len(ops)) = ops
      BY SubSeqFull DEF UndoInv, UndoRest, Types
    <3>2. SubSeq(blobs, 1, Len(blobs)) = blobs
      BY SubSeqFull DEF UndoInv, UndoRest, Types, Text
    <3>3. Live = Alive(node)
      BY LiveIsAlive DEF UndoInv, ChainInv
    <3>4. Alive(nd) \ {n} = Alive(node)
      BY <1>4
    <3>5. Len(ops) + 0 = Len(ops)
      <4>1. Len(ops) \in Nat
        BY LenProperties DEF UndoInv, UndoRest, Types
      <4> QED BY <4>1
    <3> QED BY <1>5, <2>1, <2>2, <2>3, <3>1, <3>2, <3>3, <3>4, <3>5
            DEF Returns, Snapshot
  <2>5. Grounds(nd, n, kept.n_ops, before.text)
    BY <1>4, <2>2, <2>3
  <2> QED BY <1>1, <1>2, <1>6, <1>7, <1>8, <2>1, <2>4, <2>5, RecordStays
<1> QED BY <1>9, <1>10

LEMMA EditRest ==
  ASSUME UndoInv, NEW op, NEW quick, Fits(op), Edit(op, quick)
  PROVE  UndoRest'
<1>1. CASE open # 0
  BY <1>1, EditStays
<1>2. CASE /\ open = 0 /\ MayMerge(op) /\ Record(node, cur, op)
           /\ len' = len /\ boundary' = boundary
  BY <1>2, EditMerges
<1>3. CASE /\ open = 0 /\ len < MaxNodes /\ len' = len + 1
           /\ boundary' = FALSE /\ Record(Linked(op), len', op)
  BY <1>3, EditStarts
<1> QED BY <1>1, <1>2, <1>3 DEF Edit

(* The operations that are recorded.                                         *)
LEMMA InsertFits ==
  ASSUME UndoInv, NEW off \in 0 .. MaxText, NEW c \in Byte, NEW quick,
         Insert(off, <<c>>, quick)
  PROVE  UndoRest'
<1> DEFINE op == Insertion(off, <<c>>)
<1>1. off \in Nat /\ off <= Len(text) /\ Edit(op, quick)
  BY UndoAssumption DEF UndoAssumption, Insert
<1>2. <<c>> \in Text /\ Len(<<c>>) = 1
  BY DEF Text
<1>3. op = [kind |-> "INS", off |-> off, len |-> 1, bytes |-> <<c>>,
            payload |-> 0]
  BY <1>2 DEF Insertion
<1> HIDE DEF op
<1>4. Fits(op)
  BY <1>1, <1>2, <1>3 DEF Fits, Op
<1> QED BY <1>1, <1>4, EditRest

LEMMA DeleteFits ==
  ASSUME UndoInv, NEW off \in 0 .. MaxText, NEW n \in 1 .. MaxText,
         NEW quick, Delete(off, n, quick)
  PROVE  UndoRest'
<1> DEFINE op == Deletion(off, n)
           l == Len(blobs)
<1>1. /\ off \in Nat /\ n \in Nat /\ off + n <= Len(text) /\ Edit(op, quick)
  BY UndoAssumption DEF UndoAssumption, Delete
<1>2. l \in Nat /\ <<>> \in Text
  BY LenProperties, EmptySeq DEF UndoInv, UndoRest, Types, Text
<1>3. op = [kind |-> "DEL", off |-> off, len |-> n, bytes |-> <<>>,
            payload |-> l]
  BY DEF Deletion
<1> HIDE DEF op, l
<1>4. op \in Op
  BY <1>1, <1>2, <1>3 DEF Op
<1>5. Fits(op)
  BY <1>1, <1>3, <1>4 DEF Fits, l
<1> QED BY <1>1, <1>5, EditRest

-----------------------------------------------------------------------------
(* The invariant holds.                                                      *)

LEMMA UndoStart == Init => UndoInv
<1> SUFFICES ASSUME Init PROVE UndoRest
  BY ChainStart DEF UndoInv
<1>1. /\ text = Loaded /\ disk = Loaded /\ len = 1 /\ ops = <<>>
      /\ blobs = <<>> /\ root = 1 /\ cur = 1 /\ saved = 1 /\ open = 0
      /\ nest = 0 /\ reason = "NONE" /\ boundary = TRUE
      /\ kept = NotReopened /\ pc = "idle" /\ walk = Still
      /\ past = [n \in Ids |-> IF n = 1 THEN Loaded ELSE <<>>]
      /\ node = [n \in Ids |-> [NoNode EXCEPT !.live = n = 1,
                              !.reason = IF n = 1 THEN "TYPE" ELSE "NONE"]]
  BY DEF Init
<1>2. 1 \in Ids
  BY UndoAssumption DEF UndoAssumption, Ids
<1>3. ASSUME NEW n \in Ids
      PROVE  /\ (node[n].live <=> n = 1) /\ Numbers(node[n]) /\ Links(node[n])
             /\ node[n].n_ops = 0 /\ node[n].ops_at = 0
             /\ node[n].blob_lo = 0 /\ node[n].blob_hi = 0
  <2>1. PICK live : live = (n = 1)
    OBVIOUS
  <2>2. PICK why : why = IF n = 1 THEN "TYPE" ELSE "NONE"
    OBVIOUS
  <2>3. why \in Reasons \cup {"NONE"}
    BY <2>2 DEF Reasons
  <2> DEFINE q == [NoNode EXCEPT !.live = live]
  <2>4. q = [live |-> live, parent |-> 0, kids |-> {}, redo |-> 0,
             depth |-> 0, reason |-> "NONE", ops_at |-> 0,
             n_ops |-> 0, blob_lo |-> 0, blob_hi |-> 0]
    BY DEF NoNode
  <2>5. node[n] = [q EXCEPT !.reason = why]
    BY <1>1, <2>1, <2>2
  <2> HIDE DEF q
  <2>6. node[n] = [live |-> live, parent |-> 0, kids |-> {}, redo |-> 0,
                   depth |-> 0, reason |-> why, ops_at |-> 0,
                   n_ops |-> 0, blob_lo |-> 0, blob_hi |-> 0]
    BY <2>4, <2>5
  <2>7. node[n].live = live
    BY <2>6
  <2>8. node[n].live <=> n = 1
    BY <2>1, <2>7, Zenon
  <2>9. /\ node[n].n_ops = 0 /\ node[n].ops_at = 0
        /\ node[n].blob_lo = 0 /\ node[n].blob_hi = 0
    BY <2>6
  <2>10. Numbers(node[n]) /\ Links(node[n])
    BY <2>3, <2>6 DEF Numbers, Links
  <2> QED BY <2>8, <2>9, <2>10
<1>4. Alive(node) = {1}
  <2>1. \A n \in Ids : node[n].live <=> n = 1
    BY <1>3, Zenon
  <2> QED BY <1>2, <2>1 DEF Alive
<1>5. /\ Loaded \in Text /\ <<>> \in Text /\ <<>> \in Seq(Op)
      /\ Len(<<>>) = 0
  <2>1. Loaded \in Text
    BY DEF Loaded, Text
  <2> QED BY <2>1, EmptySeq DEF Text
<1>6. past \in [Ids -> Text] /\ past[1] = Loaded
  BY <1>1, <1>2, <1>5
<1>7. Types
  <2>1. Typed(node)
    BY <1>3 DEF Typed
  <2> QED BY <1>1, <1>5, <1>6, <2>1, StillFields DEF Types
<1>8. Arena(node, root, len, ops, blobs)
  <2>1. /\ node[1].n_ops = 0 /\ node[1].ops_at = 0
        /\ node[1].blob_lo = 0 /\ node[1].blob_hi = 0
    BY <1>2, <1>3
  <2>2. Len(ops) = 0 /\ Len(blobs) = 0
    BY <1>1, <1>5
  <2>3. Within(node[1], ops, blobs)
    BY <2>1, <2>2 DEF Within, Ends
  <2>4. Inside(node, ops, blobs)
    BY <1>4, <2>3 DEF Inside
  <2>5. InOrder(node)
    BY <1>4 DEF InOrder
  <2>6. Busy(node, root)
    BY <1>1, <1>4 DEF Busy
  <2>7. Meet(node, len, ops, blobs)
    BY <1>4, <2>1, <2>2 DEF Meet
  <2> QED BY <2>4, <2>5, <2>6, <2>7 DEF Arena
<1>9. Stories(node, root, open, ops, blobs, past)
  BY <1>1, <1>4 DEF Stories
<1>10. Standing
  BY <1>1, <1>6 DEF Standing
<1>11. Opened
  <2>1. kept.on = FALSE
    BY <1>1 DEF NotReopened
  <2>2. ~kept.on
    BY <2>1, Zenon
  <2>3. open = 0 /\ nest = 0 /\ pc = "idle" /\ kept = NotReopened
    BY <1>1, Zenon
  <2>4. ~(nest > 0)
    BY <2>3
  <2> QED BY <2>2, <2>3, <2>4 DEF Opened
<1>12. SavePoint
  BY <1>1, <1>6 DEF SavePoint
<1> QED BY <1>7, <1>8, <1>9, <1>10, <1>11, <1>12 DEF UndoRest

LEMMA UndoStep ==
  ASSUME UndoInv, ~EmptyTxn, [Next]_vars PROVE UndoInv'
<1>1. ChainInv'
  BY ChainStep DEF UndoInv
<1>2. CASE Loop
  BY <1>1, <1>2, ReplayRest, AbortDoneRest, TravelRest, BackDoneRest,
     ForthDoneRest, PruneBranchRest, RerootRest, TrimDoneRest
     DEF Loop, UndoInv
<1>3. CASE Call
  <2>1. CASE \E off \in 0 .. MaxText, quick \in BOOLEAN :
               \/ \E b \in Byte : Insert(off, <<b>>, quick)
               \/ \E n \in 1 .. MaxText : Delete(off, n, quick)
    BY <1>1, <2>1, InsertFits, DeleteFits DEF UndoInv
  <2>2. CASE \E why \in Whys : Begin(why) \/ Reopen(why) \/ PruneRedo(why)
    BY <1>1, <2>2, BeginRest, ReopenRest, PruneRedoRest DEF UndoInv
  <2>3. CASE End \/ Abort \/ Undo \/ Redo \/ Save \/ Boundary
    BY <1>1, <2>3, EndRest, AbortRest, UndoSets, RedoSets, MarkRest
       DEF UndoInv
  <2>4. CASE \E n \in Ids : UndoTo(n)
    BY <1>1, <2>4, UndoToSets DEF UndoInv
  <2>5. CASE \E d \in 0 .. MaxNodes : BranchCycle(d)
    BY <1>1, <2>5, BranchCycleRest DEF UndoInv
  <2> QED BY <1>3, <2>1, <2>2, <2>3, <2>4, <2>5, Zenon DEF Call
<1>4. CASE vars' = vars
  BY <1>1, <1>4, StutterRest DEF UndoInv
<1> QED BY <1>2, <1>3, <1>4 DEF Next

-----------------------------------------------------------------------------
(* What it gives.                                                            *)

LEMMA TypesHold == UndoInv => TypeOK
<1> SUFFICES ASSUME UndoInv PROVE TypeOK
  OBVIOUS
<1>1. node \in [Ids -> Node]
  <2>1. ASSUME NEW n \in Ids PROVE node[n] \in Node
    BY InNode DEF UndoInv, ChainInv, Tree, Shape, UndoRest, Types, Typed
  <2>2. node = [n \in Ids |-> node[n]]
    BY DEF UndoInv, ChainInv, Tree, Shape
  <2> QED BY <2>1, <2>2
<1>2. /\ len \in Ids /\ {root, cur, saved} \subseteq Ids
      /\ open \in Ids \cup {0} /\ nest \in Nat
      /\ pc \in {"idle", "abort", "travel", "back", "forth", "trim"}
  BY DEF UndoInv, ChainInv, Tree, Rooted, Counted, Transaction, Journey,
         Alive
<1>3. walk \in [t : Ids \cup {0}, path : Seq(Ids), i : Nat,
                ret : {"idle", "travel"}]
  <2>1. walk = [t |-> walk.t, path |-> walk.path, i |-> walk.i,
                ret |-> walk.ret]
    BY DEF UndoInv, ChainInv, Journey
  <2>2. /\ walk.t \in Ids \cup {0} /\ walk.path \in Seq(Ids)
        /\ walk.i \in Nat /\ walk.ret \in {"idle", "travel"}
    BY DEF UndoInv, ChainInv, Journey, UndoRest, Types
  <2> QED BY <2>1, <2>2
<1> QED BY <1>1, <1>2, <1>3 DEF UndoInv, UndoRest, Types, TypeOK

LEMMA TextsHold == UndoInv => TextOfNode /\ SavePointHonest
BY DEF UndoInv, ChainInv, Transaction, UndoRest, Standing, SavePoint,
       TextOfNode, SavePointHonest, Resting, Idle

LEMMA SlicesHold == UndoInv => SlicesApart
<1> SUFFICES ASSUME UndoInv, NEW m \in Live, NEW n \in Live
             PROVE  /\ node[n].ops_at + node[n].n_ops <= Len(ops)
                    /\ node[n].blob_hi <= Len(blobs)
                    /\ m < n => /\ node[m].ops_at + node[m].n_ops
                                     <= node[n].ops_at
                                /\ node[m].blob_hi <= node[n].blob_lo
  BY DEF SlicesApart
<1>1. m \in Alive(node) /\ n \in Alive(node)
  BY LiveIsAlive DEF UndoInv, ChainInv
<1> QED BY <1>1 DEF UndoInv, UndoRest, Arena, Inside, Within, InOrder, Ends

(* Only AbortDone leads out of an abort.                                     *)
LEMMA AbortEnds ==
  ASSUME UndoInv, [Next]_vars, pc = "abort", pc' = "idle"
  PROVE  Snapshot' = before
<1>1. CASE Loop
  <2>1. AbortDone
    BY <1>1 DEF Loop, AbortOp, Revert, Travel, BackOp, BackDone, ForthOp,
                ForthDone, PruneBranch, Reroot, TrimDone
  <2> QED BY <2>1, AbortBack
<1>2. CASE Call
  <2>1. Idle
    BY <1>2, Zenon DEF Call, Insert, Delete, Edit, Begin, Reopen, PruneRedo,
       End, Abort, Undo, Redo, UndoTo, BranchCycle, Save, Boundary, Resting
  <2> QED BY <2>1 DEF Idle
<1>3. CASE vars' = vars
  BY <1>3 DEF vars
<1> QED BY <1>1, <1>2, <1>3 DEF Next

(* In every run in which no transaction ends without an edit, whatever the   *)
(* bounds, the retention (MinNodes) and the bytes, the variables keep their  *)
(* types: so does every id, slice and offset that undo.c reads from a node.  *)
THEOREM TypeCorrect == ASSUME ~EmptyTxn PROVE Spec => []TypeOK
<1>1. ~EmptyTxn /\ UndoInv /\ [Next]_vars => UndoInv'
  BY UndoStep
<1> QED BY <1>1, UndoStart, TypesHold, PTL DEF Spec

(* Sprint 10, "yew_undo_to(A) reproduces A byte-exactly": in those runs the  *)
(* buffer of a document that rests at a node, or is being trimmed there, is  *)
(* the text that node had when its transaction ended, however yew_undo,      *)
(* yew_redo, yew_undo_to and aborts got there and whatever trim_tree and     *)
(* compact_history did in between.                                           *)
THEOREM TextAlwaysOfNode == ASSUME ~EmptyTxn PROVE Spec => []TextOfNode
<1>1. ~EmptyTxn /\ UndoInv /\ [Next]_vars => UndoInv'
  BY UndoStep
<1> QED BY <1>1, UndoStart, TextsHold, PTL DEF Spec

(* In those runs a buffer that yew_undo_at_save_point takes for unmodified   *)
(* is what the last save wrote, unless the saved transaction was reopened.   *)
THEOREM SavePointAlwaysHonest ==
  ASSUME ~EmptyTxn PROVE Spec => []SavePointHonest
<1>1. ~EmptyTxn /\ UndoInv /\ [Next]_vars => UndoInv'
  BY UndoStep
<1> QED BY <1>1, UndoStart, TextsHold, PTL DEF Spec

(* In those runs the slices of the live nodes stay inside the operations and *)
(* the blobs and never overlap, whatever edit_node appends, an abort cuts    *)
(* off and compact_history moves.                                            *)
THEOREM SlicesAlwaysApart == ASSUME ~EmptyTxn PROVE Spec => []SlicesApart
<1>1. ~EmptyTxn /\ UndoInv /\ [Next]_vars => UndoInv'
  BY UndoStep
<1> QED BY <1>1, UndoStart, SlicesHold, PTL DEF Spec

(* In those runs yew_undo_abort leaves the current node, the text, the live  *)
(* nodes and both arenas as the begin or the reopen of the transaction found *)
(* them, however much was edited, in however many nested transactions.       *)
THEOREM AbortTraceless == ASSUME ~EmptyTxn PROVE Spec => AbortLeavesNoTrace
<1>1. ~EmptyTxn /\ UndoInv /\ [Next]_vars => UndoInv'
  BY UndoStep
<1>2. UndoInv /\ [Next]_vars =>
        [pc = "abort" /\ pc' = "idle" => Snapshot' = before]_vars
  BY AbortEnds
<1> QED BY <1>1, <1>2, UndoStart, PTL DEF Spec, AbortLeavesNoTrace
=============================================================================
