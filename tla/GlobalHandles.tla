--------------------------- MODULE GlobalHandles ---------------------------
(***************************************************************************)
(* Global handles (src/src/global-handles.cc): what a w16 event keeps its  *)
(* function and its argument in, and the weak handles of the embedder.     *)
(*                                                                         *)
(* A collection is one step here (module HeapMarking has its insides).     *)
(* After it, callbacks of weak handles are called one by one; a callback   *)
(* is any code of the embedder and may use all handles and cause further   *)
(* collections, which call callbacks themselves.  Left out: object groups, *)
(* class ids, the count of handles to global objects, and handles that are *)
(* made weak without a callback, which MakeWeak asserts away.              *)
(***************************************************************************)
EXTENDS Integers, Sequences, FiniteSets, Functions

CONSTANTS
  Objects,     \* heap objects
  Blocks,      \* node blocks that malloc can provide
  BlockSize,   \* NodeBlock::kSize
  MaxDepth,    \* bound: collections inside callbacks of collections
  NULL

Nodes == Blocks \X (0 .. BlockSize - 1)

ASSUME BlockSizeAssumption == BlockSize \in Nat \ {0}
ASSUME BlocksAssumption == IsFiniteSet(Blocks) /\ NULL \notin Blocks \cup Nodes

States == {"FREE", "NORMAL", "WEAK", "PENDING", "NEAR_DEATH"}

VARIABLES
  state, object, independent, in_new_space_list,   \* fields of a node
  used_nodes, next_used, prev_used,                \* fields of a block
  created,                  \* blocks on the list first_block_
  first_used_block,
  free,                     \* the list first_free_
  new_space_nodes,
  number_of_weak_handles,
  allocated, new_space,     \* objects that exist, those of the new generation
  held,                     \* objects referred to from elsewhere
  rounds                    \* PostGarbageCollectionProcessing calls, innermost first

nodes == <<state, object, independent>>
blocks == <<used_nodes, next_used, prev_used, first_used_block>>
lists == <<in_new_space_list, new_space_nodes>>
heap == <<allocated, new_space, held>>
vars == <<nodes, blocks, lists, created, free, number_of_weak_handles, heap,
          rounds>>

(* A round is at a node of a block or at a position of new_space_nodes_;   *)
(* it may be in the callback of a node; it is stale if another round has   *)
(* begun since (post_gc_processing_count_ has changed).                    *)
Rounds ==
  [collector : {"SCAVENGER", "MARK_COMPACTOR"}, block : Blocks \cup {NULL},
   index : Nat, callback : Nodes \cup {NULL}, stale : BOOLEAN]

TypeOK ==
  /\ state \in [Nodes -> States]
  /\ object \in [Nodes -> Objects \cup {NULL}]
  /\ independent \in [Nodes -> BOOLEAN]
  /\ in_new_space_list \in [Nodes -> BOOLEAN]
  /\ used_nodes \in [Blocks -> 0 .. BlockSize]
  /\ next_used \in [Blocks -> Blocks \cup {NULL}]
  /\ prev_used \in [Blocks -> Blocks \cup {NULL}]
  /\ created \subseteq Blocks
  /\ first_used_block \in created \cup {NULL}
  /\ free \in Seq(Nodes)
  /\ new_space_nodes \in Seq(Nodes)
  /\ number_of_weak_handles \in Nat
  /\ allocated \subseteq Objects
  /\ new_space \subseteq allocated
  /\ held \subseteq allocated
  /\ rounds \in Seq(Rounds)

Init ==
  /\ state = [n \in Nodes |-> "FREE"]
  /\ object = [n \in Nodes |-> NULL]
  /\ independent = [n \in Nodes |-> FALSE]
  /\ in_new_space_list = [n \in Nodes |-> FALSE]
  /\ used_nodes = [b \in Blocks |-> 0]
  /\ next_used = [b \in Blocks |-> NULL]
  /\ prev_used = [b \in Blocks |-> NULL]
  /\ created = {}
  /\ first_used_block = NULL
  /\ free = <<>>
  /\ new_space_nodes = <<>>
  /\ number_of_weak_handles = 0
  /\ allocated = {}
  /\ new_space = {}
  /\ held = {}
  /\ rounds = <<>>

----------------------------------------------------------------------------
IsStrongRetainer(n) == state[n] = "NORMAL"
IsWeakRetainer(n) == state[n] \in {"WEAK", "PENDING", "NEAR_DEATH"}
IsRetainer(n) == state[n] # "FREE"

(* Code of the embedder runs: the program, or a callback. *)
Running == rounds # <<>> => Head(rounds).callback # NULL

(* The blocks that the links `next' lead to from a block on: those in      *)
(* every set that contains the block and where its links lead.             *)
Leads(next, from, S) ==
  /\ from # NULL => from \in S
  /\ \A b \in S : next[b] # NULL => next[b] \in S

Reach(next, from) ==
  LET closed == {S \in SUBSET Blocks : Leads(next, from, S)}
  IN  {b \in Blocks : \A S \in closed : b \in S}

(* The blocks a NodeIterator visits if nothing changes. *)
UsedBlocks == Reach(next_used, first_used_block)

UsedNodes == UsedBlocks \X (0 .. BlockSize - 1)

(* Fault: a block is never put on the list of used blocks. *)
FaultyIncreaseUses(b) ==
  /\ used_nodes' = [used_nodes EXCEPT ![b] = @ + 1]
  /\ UNCHANGED <<first_used_block, next_used, prev_used>>

IncreaseUses(b) ==
  /\ used_nodes' = [used_nodes EXCEPT ![b] = @ + 1]
  /\ IF used_nodes[b] = 0
     THEN /\ first_used_block' = b
          /\ next_used' = [next_used EXCEPT ![b] = first_used_block]
          /\ prev_used' = [c \in Blocks |->
                             CASE c = b -> NULL
                               [] c = first_used_block /\ c # b -> b
                               [] OTHER -> prev_used[c]]
     ELSE UNCHANGED <<first_used_block, next_used, prev_used>>

(* Fault: the block that leaves the list forgets its successor. *)
FaultyDecreaseUses(b) ==
  /\ used_nodes' = [used_nodes EXCEPT ![b] = @ - 1]
  /\ IF used_nodes[b] = 1
     THEN /\ next_used' = [c \in Blocks |->
                             CASE c = b -> NULL
                               [] c = prev_used[b] /\ c # b -> next_used[b]
                               [] OTHER -> next_used[c]]
          /\ prev_used' = [c \in Blocks |->
                             IF c = next_used[b] THEN prev_used[b] ELSE prev_used[c]]
          /\ first_used_block' = IF b = first_used_block THEN next_used[b]
                                 ELSE first_used_block
     ELSE UNCHANGED <<first_used_block, next_used, prev_used>>

(* The block that leaves the list keeps its links. *)
DecreaseUses(b) ==
  /\ used_nodes' = [used_nodes EXCEPT ![b] = @ - 1]
  /\ IF used_nodes[b] = 1
     THEN /\ next_used' = [c \in Blocks |->
                             IF c = prev_used[b] THEN next_used[b] ELSE next_used[c]]
          /\ prev_used' = [c \in Blocks |->
                             IF c = next_used[b] THEN prev_used[b] ELSE prev_used[c]]
          /\ first_used_block' = IF b = first_used_block THEN next_used[b]
                                 ELSE first_used_block
     ELSE UNCHANGED <<first_used_block, next_used, prev_used>>

----------------------------------------------------------------------------
(* Operations of the embedder, in callbacks too.                           *)

(* Fault: the new block is not put on the list of all blocks. *)
FaultyFreeLists ==
  IF free # <<>> THEN {[free |-> free, created |-> created]}
  ELSE {[free |-> [i \in 1 .. BlockSize |-> <<b, i - 1>>],
         created |-> created] : b \in Blocks \ created}

(* The free list, with the nodes of a new block if it is empty. *)
FreeLists ==
  IF free # <<>> THEN {[free |-> free, created |-> created]}
  ELSE {[free |-> [i \in 1 .. BlockSize |-> <<b, i - 1>>],
         created |-> created \cup {b}] : b \in Blocks \ created}

(* Fault: a node is added whether or not it is on the list. *)
FaultyIsAdded(n, o) == o \in new_space

IsAdded(n, o) == o \in new_space /\ ~ in_new_space_list[n]

Create(o) ==
  /\ Running
  /\ o \in held
  /\ \E f \in FreeLists :
       LET n == Head(f.free) IN
       /\ created' = f.created
       /\ free' = Tail(f.free)
       /\ object' = [object EXCEPT ![n] = o]
       /\ independent' = [independent EXCEPT ![n] = FALSE]
       /\ state' = [state EXCEPT ![n] = "NORMAL"]
       /\ IncreaseUses(n[1])
       /\ IF IsAdded(n, o)
          THEN /\ new_space_nodes' = Append(new_space_nodes, n)
               /\ in_new_space_list' = [in_new_space_list EXCEPT ![n] = TRUE]
          ELSE UNCHANGED lists
  /\ UNCHANGED <<number_of_weak_handles, heap, rounds>>

(* What is left in the fields of a free node is never looked at. *)
Destroy(n) ==
  /\ Running
  /\ IsRetainer(n)
  /\ number_of_weak_handles' = number_of_weak_handles
                               - (IF IsWeakRetainer(n) THEN 1 ELSE 0)
  /\ state' = [state EXCEPT ![n] = "FREE"]
  /\ free' = <<n>> \o free
  /\ DecreaseUses(n[1])
  /\ object' = [object EXCEPT ![n] = NULL]
  /\ independent' = [independent EXCEPT ![n] = FALSE]
  /\ UNCHANGED <<lists, created, heap, rounds>>

(* Fault: a handle that is near death is counted again. *)
FaultyWeakBefore(n) == state[n] = "WEAK"

WeakBefore(n) == IsWeakRetainer(n)

MakeWeak(n) ==
  /\ Running
  /\ IsRetainer(n)
  /\ number_of_weak_handles' = number_of_weak_handles
                               + (IF WeakBefore(n) THEN 0 ELSE 1)
  /\ state' = [state EXCEPT ![n] = "WEAK"]
  /\ UNCHANGED <<object, independent, blocks, lists, created, free, heap, rounds>>

ClearWeakness(n) ==
  /\ Running
  /\ IsRetainer(n)
  /\ number_of_weak_handles' = number_of_weak_handles
                               - (IF IsWeakRetainer(n) THEN 1 ELSE 0)
  /\ state' = [state EXCEPT ![n] = "NORMAL"]
  /\ UNCHANGED <<object, independent, blocks, lists, created, free, heap, rounds>>

MarkIndependent(n) ==
  /\ Running
  /\ IsRetainer(n)
  /\ independent' = [independent EXCEPT ![n] = TRUE]
  /\ UNCHANGED <<state, object, blocks, lists, created, free,
                 number_of_weak_handles, heap, rounds>>

(* References from elsewhere come and go: stacks, other objects. *)
Allocate(o) ==
  /\ Running
  /\ o \notin allocated
  /\ allocated' = allocated \cup {o}
  /\ new_space' = new_space \cup {o}
  /\ held' = held \cup {o}
  /\ UNCHANGED <<nodes, blocks, lists, created, free, number_of_weak_handles,
                 rounds>>

Hold(n) ==
  /\ Running
  /\ IsRetainer(n)
  /\ held' = held \cup {object[n]}
  /\ UNCHANGED <<nodes, blocks, lists, created, free, number_of_weak_handles,
                 allocated, new_space, rounds>>

Drop(o) ==
  /\ Running
  /\ o \in held
  /\ held' = held \ {o}
  /\ UNCHANGED <<nodes, blocks, lists, created, free, number_of_weak_handles,
                 allocated, new_space, rounds>>

----------------------------------------------------------------------------
(* Collections.                                                            *)

ObjectsOf(S) == {object[n] : n \in S}

MarkPending(S) ==
  state' = [n \in Nodes |-> IF n \in S THEN "PENDING" ELSE state[n]]

(* The end of a collection: what survives may be promoted, and the first   *)
(* round of callbacks begins; the rounds under way are stale.              *)
BeginRound(collector, survivors) ==
  /\ allocated' = survivors
  /\ new_space' \in SUBSET (new_space \cap survivors)
  /\ rounds' = <<[collector |-> collector,
                  block |-> IF collector = "SCAVENGER" THEN NULL
                            ELSE first_used_block,
                  index |-> 0, callback |-> NULL, stale |-> FALSE]>>
               \o [i \in DOMAIN rounds |-> [rounds[i] EXCEPT !.stale = TRUE]]

MarkCompact ==
  LET marked == held \cup ObjectsOf({n \in UsedNodes : IsStrongRetainer(n)}) IN
  /\ Running
  /\ Len(rounds) < MaxDepth
  /\ MarkPending({n \in UsedNodes : state[n] = "WEAK" /\ object[n] \notin marked})
  /\ BeginRound("MARK_COMPACTOR",
                marked \cup ObjectsOf({n \in UsedNodes : IsWeakRetainer(n)}))
  /\ UNCHANGED <<object, independent, blocks, lists, created, free,
                 number_of_weak_handles, held>>

(* Weak handles that are not independent are roots of a scavenge. *)
Scavenge ==
  LET listed == Range(new_space_nodes)
      copied == held \cup ObjectsOf({n \in listed :
        IsStrongRetainer(n) \/ (IsWeakRetainer(n) /\ ~ independent[n])})
      old == allocated \ new_space
  IN
  /\ Running
  /\ Len(rounds) < MaxDepth
  /\ MarkPending({n \in listed : /\ independent[n]
                                 /\ state[n] = "WEAK"
                                 /\ object[n] \in new_space \ copied})
  /\ BeginRound("SCAVENGER",
       old \cup copied \cup
       ObjectsOf({n \in listed : independent[n] /\ IsWeakRetainer(n)}))
  /\ UNCHANGED <<object, independent, blocks, lists, created, free,
                 number_of_weak_handles, held>>

----------------------------------------------------------------------------
(* PostGarbageCollectionProcessing.                                        *)

IsDone(r) ==
  IF r.collector = "SCAVENGER" THEN r.index >= Len(new_space_nodes)
  ELSE r.block = NULL

NodeAt(r) ==
  IF r.collector = "SCAVENGER" THEN new_space_nodes[r.index + 1]
  ELSE <<r.block, r.index>>

Advance(r) ==
  IF r.collector = "SCAVENGER" \/ r.index + 1 < BlockSize
  THEN [r EXCEPT !.index = @ + 1, !.callback = NULL]
  ELSE [r EXCEPT !.index = 0, !.block = next_used[r.block], !.callback = NULL]

(* A node is skipped, or its callback is called. *)
ProcessNode ==
  LET r == Head(rounds)
      n == NodeAt(r) IN
  /\ ~ Running
  /\ ~ IsDone(r)
  /\ IF \/ r.collector = "SCAVENGER" /\ ~ independent[n]
        \/ state[n] # "PENDING"
     THEN /\ rounds' = <<Advance(r)>> \o Tail(rounds)
          /\ UNCHANGED state
     ELSE /\ state' = [state EXCEPT ![n] = "NEAR_DEATH"]
          /\ rounds' = <<[r EXCEPT !.callback = n]>> \o Tail(rounds)
  /\ UNCHANGED <<object, independent, blocks, lists, created, free,
                 number_of_weak_handles, heap>>

(* What is left of a round when a callback returns: nothing if it is stale. *)
Returned(r) == IF r.stale THEN <<>> ELSE <<Advance(r)>>

(* A callback must destroy or revive its handle. *)
CallbackReturns ==
  LET r == Head(rounds) IN
  /\ rounds # <<>>
  /\ r.callback # NULL
  /\ state[r.callback] # "NEAR_DEATH"
  /\ rounds' = Returned(r) \o Tail(rounds)
  /\ UNCHANGED <<nodes, blocks, lists, created, free, number_of_weak_handles, heap>>

(* Fault: handles that are not independent are taken off the list. *)
FaultyStaysListed(n) == IsRetainer(n) /\ independent[n]

StaysListed(n) == IsRetainer(n) /\ object[n] \in new_space

(* The round ends with an update of the list of new space nodes: those     *)
(* that stay listed move up, in their order.                               *)
FinishRound ==
  /\ ~ Running
  /\ IsDone(Head(rounds))
  /\ LET stay == {i \in DOMAIN new_space_nodes : StaysListed(new_space_nodes[i])}
     IN  \E from \in [1 .. Cardinality(stay) -> stay] :
           /\ Range(from) = stay
           /\ \A i, j \in DOMAIN from : i < j => from[i] < from[j]
           /\ new_space_nodes' = [i \in DOMAIN from |-> new_space_nodes[from[i]]]
  /\ in_new_space_list' = [n \in Nodes |->
       IF n \in Range(new_space_nodes) THEN StaysListed(n) ELSE in_new_space_list[n]]
  /\ rounds' = Tail(rounds)
  /\ UNCHANGED <<nodes, blocks, created, free, number_of_weak_handles, heap>>

----------------------------------------------------------------------------
Embedder ==
  \/ \E o \in Objects : Create(o) \/ Allocate(o) \/ Drop(o)
  \/ \E n \in Nodes : \/ Destroy(n) \/ MakeWeak(n) \/ ClearWeakness(n)
                      \/ MarkIndependent(n) \/ Hold(n)

Collector ==
  MarkCompact \/ Scavenge \/ ProcessNode \/ CallbackReturns \/ FinishRound

Next == Embedder \/ Collector

Spec == Init /\ [][Next]_vars

----------------------------------------------------------------------------
(* Properties.                                                             *)

(* The object of a handle exists as long as the handle does, whether it is *)
(* strong, weak or about to be announced to its callback, and whichever    *)
(* collector runs (GlobalHandles::Create to Destroy).                      *)
HandlesKeepObjects ==
  \A n \in Nodes : IsRetainer(n) => object[n] \in allocated

(* Scavenges look at new_space_nodes_ only: it holds every handle of a new *)
(* object, no node twice, and the flags of the nodes agree with it.        *)
NewSpaceNodesComplete ==
  /\ \A n \in Nodes : IsRetainer(n) /\ object[n] \in new_space =>
                        n \in Range(new_space_nodes)
  /\ IsInjective(new_space_nodes)
  /\ \A n \in Nodes : in_new_space_list[n] <=> n \in Range(new_space_nodes)

(* NodeIterator sees every handle: the list of used blocks holds the       *)
(* blocks with nodes in use, and every other node is on the free list,     *)
(* once.                                                                   *)
ListsAccountForNodes ==
  /\ UsedBlocks = {b \in Blocks : \E n \in Nodes : n[1] = b /\ IsRetainer(n)}
  /\ IsInjective(free)
  /\ Range(free) = {n \in Nodes : n[1] \in created /\ ~ IsRetainer(n)}

(* number_of_weak_handles_ is "always" the number of weak and near-death   *)
(* handles (global-handles.h).                                             *)
WeakHandlesCounted ==
  number_of_weak_handles = Cardinality({n \in Nodes : IsWeakRetainer(n)})

(* The round after a mark-compact collection that comes to its end leaves  *)
(* no pending handle uncalled, although callbacks create and destroy       *)
(* handles and so relink the blocks that the round is walking over.        *)
PendingProcessed ==
  /\ ~ Running
  /\ IsDone(Head(rounds))
  /\ Head(rounds).collector = "MARK_COMPACTOR"
  => \A n \in Nodes : state[n] # "PENDING"

----------------------------------------------------------------------------
(* The invariant that the proofs of these properties need.                 *)

NodesOf(b) == {n \in Nodes : n[1] = b /\ IsRetainer(n)}

(* The links back agree with the links forward, from first_used_block_ on. *)
Linked(next, prev, first) ==
  /\ first # NULL => prev[first] = NULL
  /\ \A b \in Reach(next, first) : next[b] # NULL => prev[next[b]] = b

(* The list of used blocks is doubly linked and holds the blocks whose     *)
(* count is not 0, and the counts are right.                               *)
BlockInv ==
  /\ \A b \in Blocks : used_nodes[b] = Cardinality(NodesOf(b))
  /\ UsedBlocks = {b \in Blocks : used_nodes[b] # 0}
  /\ UsedBlocks \subseteq created
  /\ Linked(next_used, prev_used, first_used_block)

FreeInv ==
  /\ IsInjective(free)
  /\ Range(free) = {n \in Nodes : n[1] \in created /\ ~ IsRetainer(n)}

(* Only the innermost round goes on; the others have to return first.      *)
RoundInv ==
  /\ \A i \in DOMAIN rounds :
       /\ i > 1 => rounds[i].stale /\ rounds[i].callback # NULL
       /\ rounds[i].callback = NULL => ~ rounds[i].stale
       /\ rounds[i].collector = "MARK_COMPACTOR" => rounds[i].index < BlockSize

(* The round has not come to the node yet: it is further on in its block   *)
(* or in a block that the links lead to, now that callbacks have changed   *)
(* them.                                                                   *)
Ahead(r, n) ==
  /\ r.block # NULL
  /\ \/ n[1] = r.block /\ n[2] >= r.index
     \/ n[1] \in Reach(next_used, next_used[r.block])

(* Every pending handle is ahead of the round after a mark-compact         *)
(* collection, unless another collection has made it stale.                *)
PendingInv ==
  LET r == rounds[1] IN
  /\ rounds # <<>>
  /\ r.collector = "MARK_COMPACTOR"
  /\ ~ r.stale
  => /\ r.callback # NULL => /\ r.callback = <<r.block, r.index>>
                             /\ state[r.callback] # "PENDING"
     /\ \A n \in Nodes : state[n] = "PENDING" => Ahead(r, n)

IndInv ==
  /\ TypeOK /\ BlockInv /\ FreeInv /\ NewSpaceNodesComplete
  /\ HandlesKeepObjects /\ WeakHandlesCounted /\ RoundInv /\ PendingInv
=============================================================================
