------------------------------ MODULE UndoTree ------------------------------
(* The undo tree of one buffer (src/text/undo.c): edits grouped into nodes,  *)
(* transactions, abort and reopen, travel to any node, branches, the save    *)
(* point, and trimming.  The loops that replay operations and trim history   *)
(* are modelled one iteration per step (pc); nothing else runs meanwhile.    *)
(*                                                                           *)
(* Node ids are 1 .. len; 0 is no node.  A sibling list is in the order of   *)
(* the ids, so it is a set here (kids) whose least member is first_child.    *)
(* Not modelled: cursor snapshots and mark repairs, clocks (only whether an  *)
(* edit came quickly after the last), the coalescing of two insertions into  *)
(* one operation, and byte counts: history may be over its budget any time.  *)
EXTENDS Integers, FiniteSets, Sequences
Seqs == INSTANCE SequencesExt

CONSTANTS
  Byte,         \* the bytes that callers insert
  MaxNodes,     \* bound: nodes in the tree, dead ones included
  MaxOps,       \* bound: operations in the arena
  MaxText,      \* bound: length of the text
  MaxNest,      \* bound: nesting of transactions
  MinNodes,     \* ut->min_nodes: live nodes that trimming leaves alone
  Whys,         \* reasons of the transactions that callers begin
  EmptyTxn      \* whether callers end transactions without an edit in them

Reasons == {"TYPE", "ERASE", "PASTE"}      \* PASTE stands for all the others

ASSUME UndoAssumption ==
  /\ MaxNodes \in Nat \ {0} /\ MaxOps \in Nat /\ MaxText \in Nat
  /\ MaxNest \in Nat /\ MinNodes \in Nat /\ Whys \subseteq Reasons
  /\ EmptyTxn \in BOOLEAN

Ids == 1 .. MaxNodes
Loaded == <<0>>                 \* the text read from the file

VARIABLES
  text,      \* the buffer
  node, len, \* ut->nodes: id -> node, and how many
  ops,       \* the operations of all nodes; a node owns a slice
  blobs,     \* the deleted bytes of all nodes; a node owns a slice
  root, cur, saved, open,
  nest,      \* ut->depth: open begin calls
  reason,    \* ut->pending_reason, or "NONE"
  boundary,
  kept,      \* ut->reopened with its reopen_* fields, or NotReopened
  pc,        \* the loop in progress, or "idle"
  walk,      \* its locals: goal t, path, operations left or done i, return
  (* history, for the properties only *)
  past,      \* the text at each node when its last transaction ended
  disk,      \* the text at the last save
  amended,   \* the saved node was reopened since
  before     \* what abort should bring back

tree   == <<node, len, root>>
arenas == <<ops, blobs>>
txn    == <<open, nest, reason, kept>>
ghosts == <<past, disk, amended, before>>
vars   == <<text, tree, arenas, cur, saved, txn, boundary, pc, walk, ghosts>>

NoNode      == [live |-> FALSE, parent |-> 0, kids |-> {}, redo |-> 0,
                depth |-> 0, reason |-> "NONE", ops_at |-> 0, n_ops |-> 0,
                blob_lo |-> 0, blob_hi |-> 0]
NotReopened == [on |-> FALSE, n_ops |-> 0, blob_hi |-> 0]
Still       == [t |-> 0, path |-> <<>>, i |-> 0, ret |-> "idle"]

Live       == {n \in 1 .. len : node[n].live}
LeastOf(S) == CHOOSE n \in S : \A k \in S : n <= k
FirstOf(S) == IF S = {} THEN 0 ELSE LeastOf(S)
Nothing    == [cur |-> 0, text |-> <<>>, live |-> {}, ops |-> <<>>,
               blobs |-> <<>>]
Snapshot   == [cur |-> cur, text |-> text, live |-> Live,
               ops |-> ops, blobs |-> blobs]

(* is_ancestor: a is on the parent chain of n, which is in every set closed  *)
(* under parents that n is in.                                               *)
IsAncestor(a, n) ==
  \A S \in SUBSET Ids :
     n \in S /\ (\A k \in S : node[k].parent \in S \cup {0}) => a \in S

Init ==
  /\ text = Loaded /\ disk = Loaded
  /\ past = [n \in Ids |-> IF n = 1 THEN Loaded ELSE <<>>]
  /\ node = [n \in Ids |-> [NoNode EXCEPT !.live = n = 1,
                              !.reason = IF n = 1 THEN "TYPE" ELSE "NONE"]]
  /\ len = 1 /\ ops = <<>> /\ blobs = <<>>
  /\ root = 1 /\ cur = 1 /\ saved = 1 /\ open = 0      \* loaded, marked saved
  /\ nest = 0 /\ reason = "NONE" /\ boundary = TRUE /\ kept = NotReopened
  /\ pc = "idle" /\ walk = Still
  /\ amended = FALSE /\ before = Nothing

Idle     == pc = "idle"
Resting  == Idle /\ nest = 0
Goto(at) == pc' = at /\ walk' = [Still EXCEPT !.ret = @]

-----------------------------------------------------------------------------
(* Edits *)
Splice(s, off, n, b) ==
  SubSeq(s, 1, off) \o b \o SubSeq(s, off + n + 1, Len(s))

Insertion(off, b) == [kind |-> "INS", off |-> off, len |-> Len(b),
                      bytes |-> b, payload |-> 0]
Deletion(off, n)  == [kind |-> "DEL", off |-> off, len |-> n,
                      bytes |-> <<>>, payload |-> Len(blobs)]

EditReason(op) == IF nest > 0 THEN reason
                  ELSE IF op.kind = "INS" THEN "TYPE" ELSE "ERASE"

Contiguous(prev, op) ==
  \/ op.kind = "INS" /\ prev.kind = "INS" /\ op.off = prev.off + prev.len
  \/ op.kind = "DEL" /\ prev.kind = "DEL" /\ op.off = prev.off
  \/ op.kind = "DEL" /\ prev.kind = "DEL" /\ op.off + op.len = prev.off

MayMerge(op) ==
  /\ nest = 0 /\ ~boundary /\ cur = len
  /\ node[cur].reason = EditReason(op) /\ node[cur].n_ops # 0
  /\ node[cur].kids = {}
  /\ Contiguous(ops[node[cur].ops_at + node[cur].n_ops], op)

(* open_node, as the node it returns and the nodes it leaves *)
NewNode(op) ==
  [live |-> TRUE, parent |-> cur, kids |-> {}, redo |-> 0,
   depth |-> node[cur].depth + 1, reason |-> EditReason(op),
   ops_at |-> Len(ops), n_ops |-> 0,
   blob_lo |-> Len(blobs), blob_hi |-> Len(blobs)]
Linked(op) ==
  [node EXCEPT ![len + 1] = NewNode(op),
               ![cur].kids = @ \cup {len + 1}, ![cur].redo = len + 1]

(* prepare, apply and record one operation in node n of nd *)
Record(nd, n, op) ==
  /\ Len(ops) < MaxOps /\ ops' = Append(ops, op)
  /\ blobs' = blobs \o (IF op.kind = "INS" THEN <<>>
                        ELSE SubSeq(text, op.off + 1, op.off + op.len))
  /\ node' = [nd EXCEPT ![n].n_ops = @ + 1,
                        ![n].blob_hi = IF op.kind = "INS" THEN @
                                       ELSE Len(blobs')]
  /\ text' = Splice(text, op.off, IF op.kind = "INS" THEN 0 ELSE op.len,
                    op.bytes)
  /\ Len(text') <= MaxText
  /\ cur' = n
  /\ IF nest > 0 THEN open' = n /\ UNCHANGED <<pc, walk, past>>
     ELSE open' = 0 /\ Goto("trim") /\ past' = [past EXCEPT ![n] = text']
  /\ UNCHANGED <<root, saved, nest, reason, kept, disk, amended, before>>

Edit(op, quick) ==
  /\ Idle
  /\ IF open # 0 THEN Record(node, open, op) /\ UNCHANGED <<len, boundary>>
     ELSE IF quick /\ MayMerge(op)
          THEN Record(node, cur, op) /\ UNCHANGED <<len, boundary>>
          ELSE /\ len < MaxNodes /\ len' = len + 1 /\ boundary' = FALSE
               /\ Record(Linked(op), len', op)

Insert(off, b, quick) == off <= Len(text) /\ Edit(Insertion(off, b), quick)
Delete(off, n, quick) == off + n <= Len(text) /\ Edit(Deletion(off, n), quick)

-----------------------------------------------------------------------------
(* Transactions *)
Begin(why) ==
  /\ Idle /\ nest < MaxNest /\ nest' = nest + 1
  /\ IF nest = 0
     THEN /\ reason' = why /\ boundary' = TRUE /\ kept' = NotReopened
          /\ before' = Snapshot
     ELSE reason = why /\ UNCHANGED <<reason, boundary, kept, before>>
  /\ UNCHANGED <<text, tree, arenas, cur, saved, open, pc, walk,
                 past, disk, amended>>

End ==
  /\ Idle /\ nest > 0 /\ nest' = nest - 1
  /\ nest = 1 /\ open = 0 => EmptyTxn
  /\ IF nest > 1
     THEN UNCHANGED <<open, reason, kept, boundary, pc, walk, past, before>>
     ELSE /\ open' = 0 /\ reason' = "NONE" /\ kept' = NotReopened
          /\ boundary' = TRUE /\ Goto("trim")
          /\ past' = IF open = 0 THEN past ELSE [past EXCEPT ![open] = text]
          /\ before' = Nothing
  /\ UNCHANGED <<text, tree, arenas, cur, saved, disk, amended>>

(* Only the text of the saved node may be another one now (amended).         *)
Reopen(expect) ==
  /\ Resting /\ cur # root
  /\ LET c == node[cur]
     IN /\ c.reason = expect /\ c.kids = {}
        /\ c.ops_at + c.n_ops = Len(ops) /\ c.blob_hi = Len(blobs)
        /\ kept' = [on |-> TRUE, n_ops |-> c.n_ops, blob_hi |-> c.blob_hi]
  /\ open' = cur /\ nest' = 1 /\ reason' = expect /\ boundary' = FALSE
  /\ amended' = (amended \/ cur = saved) /\ before' = Snapshot
  /\ UNCHANGED <<text, tree, arenas, cur, saved, pc, walk, past, disk>>

(* yew_undo_abort ends every nested transaction at once.                     *)
Abort ==
  /\ Idle /\ nest > 0
  /\ IF open = 0
     THEN /\ nest' = 0 /\ reason' = "NONE" /\ boundary' = TRUE
          /\ before' = Nothing /\ UNCHANGED <<pc, walk>>
     ELSE /\ pc' = "abort" /\ walk' = [Still EXCEPT !.i = node[open].n_ops]
          /\ UNCHANGED <<nest, reason, boundary, before>>
  /\ UNCHANGED <<text, tree, arenas, cur, saved, open, kept,
                 past, disk, amended>>

(* Plausible bugs, to show that the properties below can fail: a deletion    *)
(* takes its bytes from the start of the blobs ...                           *)
FirstUndone(op) ==
  IF op.kind = "INS" THEN Splice(text, op.off, op.len, <<>>)
  ELSE Splice(text, op.off, 0, SubSeq(blobs, 1, op.len))

(* replay: an operation undone, an operation done again *)
Undone(op) == IF op.kind = "INS" THEN Splice(text, op.off, op.len, <<>>)
              ELSE Splice(text, op.off, 0,
                          SubSeq(blobs, op.payload + 1, op.payload + op.len))
Redone(op) == Splice(text, op.off, IF op.kind = "INS" THEN 0 ELSE op.len,
                     op.bytes)
Revert(n) ==
  /\ text' = Undone(ops[node[n].ops_at + walk.i])
  /\ walk' = [walk EXCEPT !.i = @ - 1]
  /\ UNCHANGED <<tree, arenas, cur, saved, txn, boundary, pc, ghosts>>

(* unlink_child *)
Unlinked(nd, n) ==
  LET p == nd[n].parent  rest == nd[p].kids \ {n}
  IN [nd EXCEPT ![p].kids = rest,
                ![p].redo = IF @ = n THEN FirstOf(rest) ELSE @]

(* Another: the bytes of the aborted deletions stay in the arena. *)
LeakyAbortDone ==
  /\ pc = "abort" /\ walk.i = kept.n_ops /\ Goto("idle")
  /\ ops' = SubSeq(ops, 1, node[open].ops_at + kept.n_ops)
  /\ node' = IF kept.on THEN [node EXCEPT ![open].n_ops = kept.n_ops]
             ELSE [Unlinked(node, open) EXCEPT ![open] = NoNode]
  /\ len' = IF kept.on THEN len ELSE len - 1
  /\ cur' = IF kept.on THEN cur ELSE node[open].parent
  /\ open' = 0 /\ nest' = 0 /\ reason' = "NONE" /\ kept' = NotReopened
  /\ boundary' = TRUE /\ before' = Nothing
  /\ UNCHANGED <<text, blobs, root, saved, past, disk, amended>>

AbortOp == pc = "abort" /\ walk.i > kept.n_ops /\ Revert(open)

AbortDone ==
  /\ pc = "abort" /\ walk.i = kept.n_ops /\ Goto("idle")
  /\ ops' = SubSeq(ops, 1, node[open].ops_at + kept.n_ops)
  /\ IF kept.on
     THEN /\ blobs' = SubSeq(blobs, 1, kept.blob_hi)
          /\ node' = [node EXCEPT ![open].n_ops = kept.n_ops,
                                  ![open].blob_hi = kept.blob_hi]
          /\ UNCHANGED <<len, cur>>
     ELSE /\ blobs' = SubSeq(blobs, 1, node[open].blob_lo)
          /\ node' = [Unlinked(node, open) EXCEPT ![open] = NoNode]
          /\ len' = len - 1 /\ cur' = node[open].parent
  /\ open' = 0 /\ nest' = 0 /\ reason' = "NONE" /\ kept' = NotReopened
  /\ boundary' = TRUE /\ before' = Nothing
  /\ UNCHANGED <<text, root, saved, past, disk, amended>>

-----------------------------------------------------------------------------
(* Travel *)
(* Another: undo does not stop at the root. *)
RootlessUndo ==
  /\ Resting
  /\ pc' = "back" /\ walk' = [Still EXCEPT !.i = node[cur].n_ops]
  /\ UNCHANGED <<text, tree, arenas, cur, saved, txn, boundary, ghosts>>

Undo ==
  /\ Resting /\ cur # root
  /\ pc' = "back" /\ walk' = [Still EXCEPT !.i = node[cur].n_ops]
  /\ UNCHANGED <<text, tree, arenas, cur, saved, txn, boundary, ghosts>>

Redo ==
  /\ Resting /\ node[cur].redo \in Live
  /\ pc' = "forth" /\ walk' = [Still EXCEPT !.path = <<node[cur].redo>>]
  /\ UNCHANGED <<text, tree, arenas, cur, saved, txn, boundary, ghosts>>

(* yew_undo_to; yew_undo_state and yew_undo_time choose the target.          *)
UndoTo(target) ==
  /\ Resting /\ target \in Live
  /\ pc' = "travel" /\ walk' = [Still EXCEPT !.t = target, !.ret = "travel"]
  /\ UNCHANGED <<text, tree, arenas, cur, saved, txn, boundary, ghosts>>

Climb == /\ walk' = [walk EXCEPT !.i = node[cur].n_ops] /\ pc' = "back"
Push  == [walk EXCEPT !.t = node[walk.t].parent, !.path = Append(@, walk.t)]

(* To equal depth, then both up to the common ancestor, then down the path.  *)
Travel ==
  /\ pc = "travel"
  /\ LET here == node[cur].depth  there == node[walk.t].depth
     IN \/ here > there /\ Climb
        \/ here < there /\ walk' = Push /\ UNCHANGED pc
        \/ /\ here = there /\ cur # walk.t /\ pc' = "back"
           /\ walk' = [Push EXCEPT !.i = node[cur].n_ops]
        \/ /\ cur = walk.t /\ walk.path # <<>> /\ pc' = "forth"
           /\ walk' = [walk EXCEPT !.i = 0]
        \/ cur = walk.t /\ walk.path = <<>> /\ Goto("idle")
  /\ boundary' = TRUE
  /\ UNCHANGED <<text, tree, arenas, cur, saved, txn, ghosts>>

BackOp == pc = "back" /\ walk.i > 0 /\ Revert(cur)

BackDone ==
  /\ pc = "back" /\ walk.i = 0
  /\ cur' = node[cur].parent /\ node' = [node EXCEPT ![cur'].redo = cur]
  /\ pc' = walk.ret /\ UNCHANGED walk
  /\ boundary' = TRUE
  /\ UNCHANGED <<text, len, root, arenas, saved, txn, ghosts>>

Child == walk.path[Len(walk.path)]

ForthOp ==
  /\ pc = "forth" /\ walk.i < node[Child].n_ops
  /\ text' = Redone(ops[node[Child].ops_at + walk.i + 1])
  /\ walk' = [walk EXCEPT !.i = @ + 1]
  /\ UNCHANGED <<tree, arenas, cur, saved, txn, boundary, pc, ghosts>>

ForthDone ==
  /\ pc = "forth" /\ walk.i = node[Child].n_ops
  /\ node' = [node EXCEPT ![cur].redo = Child] /\ cur' = Child
  /\ LET rest == SubSeq(walk.path, 1, Len(walk.path) - 1)
     IN IF walk.ret = "idle" THEN Goto("idle")
        ELSE pc' = "travel" /\ walk' = [walk EXCEPT !.path = rest, !.t = Child]
  /\ boundary' = TRUE
  /\ UNCHANGED <<text, len, root, arenas, saved, txn, ghosts>>

(* The d-th child from redo_child on, cyclically; from first_child when      *)
(* redo_child is none of them.                                               *)
BranchCycle(d) ==
  /\ Resting
  /\ LET kids == node[cur].kids \cap Live
         rank(k) == Cardinality({j \in kids : j < k})
         from == IF node[cur].redo \in kids THEN rank(node[cur].redo) ELSE 0
     IN /\ kids # {}
        /\ \E k \in kids :
             /\ rank(k) = (from + d) % Cardinality(kids)
             /\ node' = [node EXCEPT ![cur].redo = k]
  /\ UNCHANGED <<text, len, root, arenas, cur, saved, txn, boundary, pc, walk,
                 ghosts>>

(* Another: typing goes on in the saved node. *)
MergingSave ==
  /\ Resting
  /\ saved' = cur /\ disk' = text /\ amended' = FALSE
  /\ UNCHANGED <<text, tree, arenas, cur, txn, boundary, pc, walk, past,
                 before>>

(* mark_saved, by a save that committed *)
Save ==
  /\ Resting
  /\ saved' = cur /\ boundary' = TRUE
  /\ disk' = text /\ amended' = FALSE
  /\ UNCHANGED <<text, tree, arenas, cur, txn, pc, walk, past, before>>

Boundary ==
  /\ Idle /\ boundary' = TRUE
  /\ UNCHANGED <<text, tree, arenas, cur, saved, txn, pc, walk, ghosts>>

-----------------------------------------------------------------------------
(* Trimming *)
Under(r) == {n \in Live : n >= r /\ IsAncestor(r, n)}

(* tombstone_subtree; of a dead node nothing is read again. *)
Tombstoned(r) ==
  [n \in Ids |-> IF n \in Under(r) THEN NoNode ELSE Unlinked(node, r)[n]]
Remembered == past' = [n \in Ids |-> IF node'[n].live THEN past[n] ELSE <<>>]

(* Another: the pruned branch may hold the saved node. *)
HeedlessPruneRedo(expect) ==
  /\ Resting
  /\ LET child == node[cur].redo
     IN /\ child \in Live /\ node[child].reason = expect
        /\ node' = Tombstoned(child) /\ Remembered
  /\ boundary' = TRUE
  /\ UNCHANGED <<text, len, root, arenas, cur, saved, txn, pc, walk,
                 disk, amended, before>>

PruneRedo(expect) ==
  /\ Resting
  /\ LET child == node[cur].redo
     IN /\ child \in Live /\ node[child].reason = expect
        /\ saved # 0 => ~IsAncestor(child, saved)
        /\ node' = Tombstoned(child) /\ Remembered
  /\ boundary' = TRUE
  /\ UNCHANGED <<text, len, root, arenas, cur, saved, txn, pc, walk,
                 disk, amended, before>>

(* protected_node: the MinNodes youngest (recent_floor), and the paths to    *)
(* the current and the saved node                                            *)
Recent    == {n \in Live : Cardinality({k \in Live : k > n}) < MinNodes}
Protected == {n \in Live : \/ n \in Recent \/ IsAncestor(n, cur)
                           \/ saved # 0 /\ IsAncestor(n, saved)}
Prunable  == {n \in Live : Under(n) \cap Protected = {}}

PruneBranch ==
  /\ pc = "trim" /\ Prunable # {}
  /\ node' = Tombstoned(LeastOf(Prunable)) /\ Remembered
  /\ UNCHANGED <<text, len, root, arenas, cur, saved, txn, boundary, pc, walk,
                 disk, amended, before>>

(* reroot_one: the only child of the root takes its place. *)
Reroot ==
  /\ pc = "trim" /\ Prunable = {}
  /\ root # saved /\ Cardinality(Live) > MinNodes
  /\ \E c \in Ids :
       /\ node[root].kids \cap Live = {c} /\ c # cur
       /\ root' = c
       /\ node' = [node EXCEPT ![c].n_ops = 0, ![c].parent = 0,
                               ![c].blob_lo = node[c].blob_hi,
                               ![root] = NoNode]
  /\ Remembered
  /\ UNCHANGED <<text, len, arenas, cur, saved, txn, boundary, pc, walk,
                 disk, amended, before>>

(* compact_history: the slices of the live nodes, in order of their ids, and *)
(* the bytes their deletions need.                                           *)
Slice(n) == IF n \notin Live THEN <<>>
            ELSE LET at == node[n].ops_at
                 IN SubSeq(ops, at + 1, at + node[n].n_ops)
Packed(n) == Seqs!FlattenSeq([k \in 1 .. n |-> Slice(k)])
Gone(op) == IF op.kind = "INS" THEN <<>>
            ELSE SubSeq(blobs, op.payload + 1, op.payload + op.len)
Bytes(k) == Seqs!FlattenSeq([j \in 1 .. k |-> Gone(Packed(len)[j])])

Repacked(op, k) ==
  IF op.kind = "INS" THEN op ELSE [op EXCEPT !.payload = Len(Bytes(k - 1))]
(* Another: a node's operations are taken to end where they start. *)
LateCompacted(nd) ==
  [n \in Ids |-> IF n \notin Live THEN nd[n] ELSE
     [nd[n] EXCEPT !.ops_at = Len(Packed(n)),
                   !.blob_lo = Len(Bytes(Len(Packed(n - 1)))),
                   !.blob_hi = Len(Bytes(Len(Packed(n))))]]

Compacted(nd) ==
  [n \in Ids |->
     LET at == Len(Packed(n - 1))
         to == at + nd[n].n_ops
     IN IF n \notin Live THEN nd[n]
        ELSE [nd[n] EXCEPT !.ops_at = at, !.blob_lo = Len(Bytes(at)),
                           !.blob_hi = Len(Bytes(to))]]

(* The end of trim_tree, whether or not there was anything to trim: depths   *)
(* count from a new root, and the arenas may be compacted.                   *)
TrimDone ==
  /\ pc = "trim" /\ Goto("idle")
  /\ LET rebased == [n \in Ids |-> IF n \notin Live THEN node[n] ELSE
                      [node[n] EXCEPT !.depth = @ - node[root].depth]]
     IN \/ node' = rebased /\ UNCHANGED arenas
        \/ /\ node' = Compacted(rebased) /\ blobs' = Bytes(Len(Packed(len)))
           /\ ops' = [k \in DOMAIN Packed(len) |->
                        Repacked(Packed(len)[k], k)]
  /\ UNCHANGED <<text, len, root, cur, saved, txn, boundary, ghosts>>

-----------------------------------------------------------------------------
Loop == \/ AbortOp \/ AbortDone \/ Travel \/ BackOp \/ BackDone
        \/ ForthOp \/ ForthDone \/ PruneBranch \/ Reroot \/ TrimDone

Call ==
  \/ \E off \in 0 .. MaxText, quick \in BOOLEAN :
       \/ \E b \in Byte : Insert(off, <<b>>, quick)
       \/ \E n \in 1 .. MaxText : Delete(off, n, quick)
  \/ \E why \in Whys : Begin(why) \/ Reopen(why) \/ PruneRedo(why)
  \/ End \/ Abort
  \/ Undo \/ Redo \/ \E n \in Ids : UndoTo(n)
  \/ \E d \in 0 .. MaxNodes : BranchCycle(d)
  \/ Save \/ Boundary

Next == Loop \/ Call

Spec == Init /\ [][Next]_vars

-----------------------------------------------------------------------------
Text == Seq(Byte \cup {0})
Op == [kind : {"INS", "DEL"}, off : Nat, len : Nat, bytes : Text,
       payload : Nat]
Node == [live : BOOLEAN, parent : Ids \cup {0}, kids : SUBSET Ids,
         redo : Ids \cup {0}, depth : Int, reason : Reasons \cup {"NONE"},
         ops_at : Nat, n_ops : Nat, blob_lo : Nat, blob_hi : Nat]

(* Types of the variables that stand for state of the code. *)
TypeOK ==
  /\ text \in Text /\ node \in [Ids -> Node] /\ len \in Ids
  /\ ops \in Seq(Op) /\ blobs \in Text
  /\ root \in Ids /\ cur \in Ids /\ saved \in Ids /\ open \in Ids \cup {0}
  /\ nest \in Nat /\ reason \in Reasons \cup {"NONE"} /\ boundary \in BOOLEAN
  /\ kept \in [on : BOOLEAN, n_ops : Nat, blob_hi : Nat]
  /\ pc \in {"idle", "abort", "travel", "back", "forth", "trim"}
  /\ walk \in [t : Ids \cup {0}, path : Seq(Ids), i : Nat,
               ret : {"idle", "travel"}]

(* Sprint 10, "trimming can never break the parent chain": whatever trimming,*)
(* pruning and abort drop, the root, the current and the saved node are      *)
(* live, each other live node hangs from a live parent with a smaller id     *)
(* (so that parents lead to the root), and redo leads to a live child.       *)
ChainUnbroken ==
  /\ {root, cur, saved} \subseteq Live /\ node[root].parent = 0
  /\ \A n \in Live :
       /\ node[n].kids = {k \in Live : node[k].parent = n}
       /\ node[n].redo \in node[n].kids \cup {0}
       /\ n # root => node[n].parent \in Live /\ node[n].parent < n

(* Sprint 10, "yew_undo_to(A) reproduces A byte-exactly": however the tree   *)
(* got to the node it is at, and whatever was trimmed or compacted on the    *)
(* way, the buffer is the text that node had when its edit ended.            *)
TextOfNode == nest = 0 /\ pc \in {"idle", "trim"} => text = past[cur]

(* The modified marker (yew_undo_at_save_point): a buffer that does not show *)
(* as modified is what the last save wrote, unless the saved transaction     *)
(* itself was reopened.                                                      *)
SavePointHonest == Resting /\ cur = saved /\ ~amended => text = disk

(* Whatever appends to, truncates or compacts the arenas shared by all the   *)
(* nodes, no operation and no deleted byte belongs to two live nodes or to   *)
(* none of the arena.                                                        *)
SlicesApart ==
  Idle => \A m, n \in Live :
    /\ node[n].ops_at + node[n].n_ops <= Len(ops)
    /\ node[n].blob_hi <= Len(blobs)
    /\ m < n => /\ node[m].n_ops = 0 \/ node[n].n_ops = 0 \/
                   node[m].ops_at + node[m].n_ops <= node[n].ops_at
                /\ node[m].blob_hi <= node[n].blob_lo \/
                   node[n].blob_lo = node[n].blob_hi

(* A transaction that is aborted, reopened or not, leaves the text, the live *)
(* nodes and the arenas as its begin found them.                             *)
AbortLeavesNoTrace ==
  [][pc = "abort" /\ pc' = "idle" => Snapshot' = before]_vars
=============================================================================
