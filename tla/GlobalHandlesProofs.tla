------------------------ MODULE GlobalHandlesProofs ------------------------
(***************************************************************************)
(* Proofs about module GlobalHandles: for any number of objects and blocks,*)
(* any block size and any depth of collections inside callbacks, handles   *)
(* keep their objects, the lists of nodes and blocks are complete, and the *)
(* round after a mark-compact collection calls every pending callback.     *)
(*                                                                         *)
(* The first part is about linked lists of blocks: what Reach is after a   *)
(* block is linked in at the front or taken out.  A set that contains      *)
(* where the links lead contains Reach, which takes the place of an        *)
(* induction along the list.                                               *)
(***************************************************************************)
EXTENDS GlobalHandles, FiniteSetTheorems, TLAPS

(* Zenon is tried on the leaves that name no other prover.                 *)
USE ZenonT(30)

Links == [Blocks -> Blocks \cup {NULL}]

(* NULL is neither a block nor a node. *)
LEMMA NullFacts == NULL \notin Blocks /\ NULL \notin Nodes
  BY BlocksAssumption

(* Reach is the smallest set that the links lead to. *)
LEMMA ReachFacts ==
  ASSUME NEW next \in Links, NEW from \in Blocks \cup {NULL}
  PROVE  /\ Reach(next, from) \subseteq Blocks
         /\ Leads(next, from, Reach(next, from))
         /\ \A S \in SUBSET Blocks : Leads(next, from, S) => Reach(next, from) \subseteq S
<1>1. from # NULL => from \in Reach(next, from)
  BY DEF Reach, Leads
<1>2. ASSUME NEW b \in Reach(next, from), next[b] # NULL
      PROVE  next[b] \in Reach(next, from)
  BY <1>2 DEF Reach, Leads, Links
<1> QED  BY <1>1, <1>2 DEF Reach, Leads

(* A block of the list that is not the first one has a predecessor. *)
LEMMA ReachPredecessor ==
  ASSUME NEW next \in Links, NEW from \in Blocks \cup {NULL},
         NEW b \in Reach(next, from), b # from
  PROVE  \E c \in Reach(next, from) : c # b /\ next[c] = b
<1> DEFINE R == Reach(next, from)
<1>1. R \subseteq Blocks /\ Leads(next, from, R)
  BY ReachFacts
<1>2. ~ Leads(next, from, R \ {b})
  <2>1. R \ {b} \in SUBSET Blocks
    BY <1>1
  <2> QED  BY <2>1, ReachFacts
<1> QED  BY <1>1, <1>2 DEF Leads

(* Prev leads back in a list that is linked both ways. *)
LEMMA PreviousFacts ==
  ASSUME NEW next \in Links, NEW prev \in Links, NEW first \in Blocks \cup {NULL},
         Linked(next, prev, first), NEW b \in Reach(next, first)
  PROVE  /\ prev[b] # b
         /\ b = first => prev[b] = NULL
         /\ b # first => prev[b] \in Reach(next, first) /\ next[prev[b]] = b
<1>1. b \in Blocks
  BY ReachFacts
<1>2. CASE b = first
  BY <1>1, <1>2, NullFacts DEF Linked
<1>3. CASE b # first
  <2>1. PICK c \in Reach(next, first) : c # b /\ next[c] = b
    BY <1>3, ReachPredecessor
  <2>2. prev[b] = c
    BY <1>1, <2>1, NullFacts DEF Linked
  <2> QED  BY <1>3, <2>1, <2>2
<1> QED  BY <1>2, <1>3

-----------------------------------------------------------------------------
(* IncreaseUses: a block that was not on the list comes first. *)
InsertFirst(x, next, prev, first, n, p) ==
  /\ n = [next EXCEPT ![x] = first]
  /\ p \in Links
  /\ p[x] = NULL
  /\ first # NULL => p[first] = x
  /\ \A c \in Blocks \ {x, first} : p[c] = prev[c]

(* IncreaseUses puts a block in front of the list of used blocks. *)
LEMMA InsertReach ==
  ASSUME NEW next \in Links, NEW prev \in Links, NEW first \in Blocks \cup {NULL},
         Linked(next, prev, first), NEW x \in Blocks, x \notin Reach(next, first),
         NEW n, NEW p, InsertFirst(x, next, prev, first, n, p)
  PROVE  /\ n \in Links
         /\ Reach(n, x) = Reach(next, first) \cup {x}
         /\ Linked(n, p, x)
<1> DEFINE R == Reach(next, first)
<1>1. n \in Links /\ n[x] = first /\ \A c \in Blocks \ {x} : n[c] = next[c]
  BY DEF InsertFirst, Links
<1>2. R \subseteq Blocks /\ Leads(next, first, R)
  BY ReachFacts
<1>3. Reach(n, x) \subseteq Blocks /\ Leads(n, x, Reach(n, x))
  BY <1>1, ReachFacts
<1>4. Reach(n, x) \subseteq R \cup {x}
  <2>1. Leads(n, x, R \cup {x})
    BY <1>1, <1>2, NullFacts DEF Leads
  <2>2. R \cup {x} \in SUBSET Blocks
    BY <1>2
  <2> QED  BY <1>1, <2>1, <2>2, ReachFacts
<1>5. x \in Reach(n, x)
  BY <1>3, NullFacts DEF Leads
<1>6. R \subseteq Reach(n, x)
  <2>1. Leads(next, first, R \cap Reach(n, x))
    BY <1>1, <1>2, <1>3, <1>5 DEF Leads
  <2>2. R \cap Reach(n, x) \in SUBSET Blocks
    BY <1>2
  <2> QED  BY <2>1, <2>2, ReachFacts
<1>7. Linked(n, p, x)
  <2>1. p[x] = NULL
    BY DEF InsertFirst
  <2>2. ASSUME NEW b \in R \cup {x}, n[b] # NULL
        PROVE  p[n[b]] = b
    <3>1. CASE b = x
      BY <1>1, <2>2, <3>1 DEF InsertFirst
    <3>2. CASE b # x
      <4>1. b \in R /\ n[b] = next[b] /\ prev[next[b]] = b /\ next[b] \in R
        BY <1>1, <1>2, <2>2, <3>2 DEF Linked, Leads
      <4>2. next[b] # first
        BY <1>2, <2>2, <4>1, NullFacts DEF Linked
      <4>3. next[b] \in Blocks \ {x, first}
        BY <1>2, <4>1, <4>2
      <4> QED  BY <4>1, <4>3 DEF InsertFirst
    <3> QED  BY <3>1, <3>2
  <2> QED  BY <1>4, <2>1, <2>2 DEF Linked
<1> QED  BY <1>1, <1>4, <1>5, <1>6, <1>7

(* The links still lead from a block to all blocks of the list that they   *)
(* led to before.                                                          *)
LEMMA InsertAhead ==
  ASSUME NEW next \in Links, NEW prev \in Links, NEW first \in Blocks \cup {NULL},
         NEW x \in Blocks, x \notin Reach(next, first),
         NEW n, NEW p, InsertFirst(x, next, prev, first, n, p), NEW b \in Blocks
  PROVE  Reach(next, first) \cap Reach(next, next[b]) \subseteq Reach(n, n[b])
<1> DEFINE R == Reach(next, first)
           T == Reach(n, n[b])
<1>1. n \in Links /\ n[x] = first /\ \A c \in Blocks \ {x} : n[c] = next[c]
  BY DEF InsertFirst, Links
<1>2. R \subseteq Blocks /\ Leads(next, first, R)
  BY ReachFacts
<1>3. T \subseteq Blocks /\ Leads(n, n[b], T) /\ n[b] \in Blocks \cup {NULL}
  BY <1>1, ReachFacts DEF Links
<1>4. CASE x \in T \cup {b}
  <2>1. Leads(next, first, R \cap T)
    BY <1>1, <1>2, <1>3, <1>4 DEF Leads
  <2>2. R \cap T \in SUBSET Blocks
    BY <1>2
  <2> QED  BY <2>1, <2>2, ReachFacts
<1>5. CASE x \notin T \cup {b}
  <2>1. Leads(next, next[b], T)
    BY <1>1, <1>3, <1>5 DEF Leads
  <2>2. next[b] \in Blocks \cup {NULL} /\ T \in SUBSET Blocks
    BY <1>3 DEF Links
  <2> QED  BY <2>1, <2>2, ReachFacts
<1> QED  BY <1>4, <1>5

-----------------------------------------------------------------------------
(* DecreaseUses: a block of the list is taken out and keeps its links. *)
TakeOut(x, next, prev, first, n, p, f) ==
  /\ n = [c \in Blocks |-> IF c = prev[x] THEN next[x] ELSE next[c]]
  /\ p = [c \in Blocks |-> IF c = next[x] THEN prev[x] ELSE prev[c]]
  /\ f = IF x = first THEN next[x] ELSE first

(* A round that walks over the list still comes to every block but x. *)
LEMMA RemoveAhead ==
  ASSUME NEW next \in Links, NEW prev \in Links, NEW first \in Blocks \cup {NULL},
         Linked(next, prev, first), NEW x \in Reach(next, first),
         NEW n, NEW p, NEW f, TakeOut(x, next, prev, first, n, p, f), NEW b \in Blocks
  PROVE  Reach(next, next[b]) \subseteq Reach(n, n[b]) \cup {x}
<1> DEFINE T == Reach(n, n[b])
           U == IF prev[x] \in T \cup {b} THEN T \cup {x} ELSE T
<1>1. /\ x \in Blocks /\ prev[x] # x
      /\ prev[x] # NULL => next[prev[x]] = x
  BY PreviousFacts, ReachFacts, SMT
<1>2. /\ n \in Links
      /\ \A c \in Blocks : c # prev[x] => n[c] = next[c]
      /\ \A c \in Blocks : c = prev[x] => n[c] = next[x]
  BY <1>1 DEF TakeOut, Links
<1>3. T \subseteq Blocks /\ Leads(n, n[b], T) /\ n[b] \in Blocks \cup {NULL}
  BY <1>2, ReachFacts DEF Links
<1>4. U \in SUBSET Blocks
  BY <1>1, <1>3
<1>5. Leads(next, next[b], U)
  <2>1. next[b] # NULL => next[b] \in U
    <3>1. CASE b = prev[x]
      BY <1>1, <3>1, NullFacts
    <3>2. CASE b # prev[x]
      BY <1>2, <1>3, <3>2 DEF Leads
    <3> QED  BY <3>1, <3>2
  <2>2. ASSUME NEW c \in U, next[c] # NULL
        PROVE  next[c] \in U
    <3>1. CASE c = prev[x]
      BY <1>1, <1>3, <2>2, <3>1, NullFacts
    <3>2. CASE c # prev[x] /\ c \in T
      BY <1>2, <1>3, <2>2, <3>2 DEF Leads
    <3>3. CASE c = x /\ prev[x] \in T \cup {b}
      <4>1. n[prev[x]] = next[x] /\ n[prev[x]] # NULL
        BY <1>2, <1>3, <2>2, <3>3
      <4> QED  BY <1>3, <3>3, <4>1 DEF Leads
    <3> QED  BY <3>1, <3>2, <3>3
  <2> QED  BY <2>1, <2>2 DEF Leads
<1>6. Reach(next, next[b]) \subseteq U
  <2>1. next[b] \in Blocks \cup {NULL}
    BY DEF Links
  <2> QED  BY <1>4, <1>5, <2>1, ReachFacts, SMT
<1> QED  BY <1>6

(* DecreaseUses takes a block out, wherever it is on the list. *)
LEMMA RemoveReach ==
  ASSUME NEW next \in Links, NEW prev \in Links, NEW first \in Blocks \cup {NULL},
         Linked(next, prev, first), NEW x \in Reach(next, first),
         NEW n, NEW p, NEW f, TakeOut(x, next, prev, first, n, p, f)
  PROVE  /\ n \in Links /\ p \in Links /\ f \in Blocks \cup {NULL}
         /\ Reach(n, f) = Reach(next, first) \ {x}
         /\ Linked(n, p, f)
<1> DEFINE R == Reach(next, first)
           T == Reach(n, f)
           U == IF x = first \/ prev[x] \in T THEN T \cup {x} ELSE T
<1>1. /\ x \in Blocks /\ prev[x] # x
      /\ x = first => prev[x] = NULL
      /\ x # first => prev[x] \in R /\ next[prev[x]] = x
  BY PreviousFacts, ReachFacts, SMT
<1>2. /\ n \in Links /\ p \in Links /\ f \in Blocks \cup {NULL}
      /\ \A c \in Blocks : c # prev[x] => n[c] = next[c]
      /\ \A c \in Blocks : c = prev[x] => n[c] = next[x]
      /\ \A c \in Blocks : c # next[x] => p[c] = prev[c]
      /\ \A c \in Blocks : c = next[x] => p[c] = prev[x]
      /\ f = IF x = first THEN next[x] ELSE first
  BY <1>1 DEF TakeOut, Links
<1>3. R \subseteq Blocks /\ Leads(next, first, R)
  BY ReachFacts
<1>4. T \subseteq Blocks /\ Leads(n, f, T)
  BY <1>2, ReachFacts
<1>5. next[x] # x
  <2> SUFFICES ASSUME next[x] = x PROVE FALSE
    OBVIOUS
  <2>1. prev[x] = x
    BY <1>1, NullFacts DEF Linked
  <2> QED  BY <1>1, <2>1
<1>6. \A c \in R : next[c] = x => c = prev[x]
  BY <1>1, NullFacts DEF Linked
<1>7. T \subseteq R \ {x}
  <2>1. f # NULL => f \in R \ {x}
    BY <1>2, <1>3, <1>5 DEF Leads
  <2>2. ASSUME NEW c \in R \ {x}, n[c] # NULL
        PROVE  n[c] \in R \ {x}
    <3>1. CASE c = prev[x]
      BY <1>2, <1>3, <1>5, <2>2, <3>1 DEF Leads
    <3>2. CASE c # prev[x]
      BY <1>2, <1>3, <1>6, <2>2, <3>2 DEF Leads
    <3> QED  BY <3>1, <3>2
  <2>3. Leads(n, f, R \ {x})
    BY <2>1, <2>2 DEF Leads
  <2>4. R \ {x} \in SUBSET Blocks
    BY <1>3
  <2> QED  BY <1>2, <2>3, <2>4, ReachFacts, SMT
<1>8. R \subseteq U
  <2>1. U \in SUBSET Blocks
    BY <1>1, <1>4
  <2>2. first # NULL => first \in U
    BY <1>2, <1>4 DEF Leads
  <2>3. ASSUME NEW c \in U, next[c] # NULL
        PROVE  next[c] \in U
    <3>1. CASE c = prev[x]
      BY <1>1, <1>4, <2>3, <3>1, NullFacts
    <3>2. CASE c # prev[x] /\ c \in T
      BY <1>2, <1>4, <2>3, <3>2 DEF Leads
    <3>3. CASE c = x /\ x = first
      BY <1>2, <1>4, <2>3, <3>3 DEF Leads
    <3>4. CASE c = x /\ prev[x] \in T
      <4>1. n[prev[x]] = next[x] /\ n[prev[x]] # NULL
        BY <1>2, <1>4, <2>3, <3>4
      <4> QED  BY <1>4, <3>4, <4>1 DEF Leads
    <3> QED  BY <3>1, <3>2, <3>3, <3>4
  <2>4. Leads(next, first, U)
    BY <2>2, <2>3 DEF Leads
  <2> QED  BY <2>1, <2>4, ReachFacts
<1>9. T = R \ {x}
  BY <1>7, <1>8
<1>10. Linked(n, p, f)
  <2>1. f # NULL => p[f] = NULL
    <3>1. CASE x = first
      BY <1>1, <1>2, <3>1
    <3>2. CASE x # first
      <4>1. first # NULL => first # next[x]
        BY <1>1, <1>3, NullFacts DEF Linked, Leads
      <4> QED  BY <1>2, <3>2, <4>1 DEF Linked
    <3> QED  BY <3>1, <3>2
  <2>2. ASSUME NEW c \in R \ {x}, n[c] # NULL
        PROVE  p[n[c]] = c
    <3>1. CASE c = prev[x]
      BY <1>2, <1>3, <2>2, <3>1, SMT DEF Links
    <3>2. CASE c # prev[x]
      <4>1. n[c] = next[c] /\ prev[next[c]] = c /\ next[c] \in Blocks
        BY <1>2, <1>3, <2>2, <3>2 DEF Linked, Links
      <4>2. next[c] # next[x]
        <5> SUFFICES ASSUME next[c] = next[x] PROVE FALSE
          OBVIOUS
        <5>1. prev[next[x]] = x
          BY <2>2, <4>1 DEF Linked
        <5> QED  BY <2>2, <4>1, <5>1
      <4> QED  BY <1>2, <4>1, <4>2
    <3> QED  BY <3>1, <3>2
  <2> QED  BY <1>9, <2>1, <2>2 DEF Linked
<1> QED  BY <1>2, <1>9, <1>10

-----------------------------------------------------------------------------
(* Nodes.                                                                  *)

(* A node is given by its block and its index, and there are finitely many. *)
LEMMA NodeFacts ==
  /\ \A n \in Nodes : n[1] \in Blocks /\ n[2] \in 0 .. BlockSize - 1 /\ n = <<n[1], n[2]>>
  /\ \A b \in Blocks, i \in 0 .. BlockSize - 1 : <<b, i>> \in Nodes
  /\ IsFiniteSet(Nodes)
<1>1. IsFiniteSet(0 .. BlockSize - 1)
  <2>1. 0 \in Int /\ BlockSize - 1 \in Int
    BY BlockSizeAssumption, SMT
  <2> QED  BY <2>1, FS_Interval
<1>2. IsFiniteSet(Blocks)
  BY BlocksAssumption
<1>3. IsFiniteSet(Nodes)
  BY <1>1, <1>2, FS_Product DEF Nodes
<1> QED  BY <1>3, SMT DEF Nodes

(* A block has at most BlockSize nodes in use. *)
LEMMA CountFacts ==
  ASSUME NEW b \in Blocks, NEW S \in SUBSET {n \in Nodes : n[1] = b}
  PROVE  IsFiniteSet(S) /\ Cardinality(S) \in 0 .. BlockSize
<1> DEFINE I == 0 .. BlockSize - 1
           f == [n \in S |-> n[2]]
<1>1. f \in Injection(S, I)
  <2>1. f \in [S -> I]
    BY NodeFacts
  <2>2. ASSUME NEW m \in S, NEW n \in S, f[m] = f[n]
        PROVE  m = n
    <3>1. m[1] = n[1] /\ m[2] = n[2] /\ m \in Nodes /\ n \in Nodes
      BY <2>2, SMT
    <3> QED  BY <3>1, NodeFacts
  <2> HIDE DEF f
  <2>3. DOMAIN f = S
    BY <2>1
  <2> QED  BY <2>1, <2>2, <2>3 DEF Injection, IsInjective
<1>2. IsFiniteSet(I) /\ Cardinality(I) = BlockSize
  <2>1. 0 \in Int /\ BlockSize - 1 \in Int
    BY BlockSizeAssumption, SMT
  <2> QED  BY <2>1, BlockSizeAssumption, FS_Interval, SMT
<1>3. IsFiniteSet(S) /\ Cardinality(S) <= Cardinality(I)
  <2> HIDE DEF f
  <2> QED  BY <1>1, <1>2, FS_Injection
<1>4. Cardinality(S) \in Nat
  BY <1>3, FS_CardinalityType
<1> QED  BY <1>2, <1>3, <1>4, BlockSizeAssumption, SMT

(* The lists of blocks and of free nodes depend on which nodes are in use. *)
LEMMA SameNodes ==
  ASSUME BlockInv, FreeInv, UNCHANGED <<blocks, created, free>>,
         \A n \in Nodes : state'[n] = "FREE" <=> state[n] = "FREE"
  PROVE  BlockInv' /\ FreeInv'
<1>1. \A b \in Blocks : NodesOf(b)' = NodesOf(b)
  BY DEF NodesOf, IsRetainer
<1>2. UsedBlocks' = UsedBlocks
  BY DEF blocks, UsedBlocks
<1>3. BlockInv'
  BY <1>1, <1>2 DEF BlockInv, blocks
<1>4. {n \in Nodes : n[1] \in created /\ ~ IsRetainer(n)}' =
        {n \in Nodes : n[1] \in created /\ ~ IsRetainer(n)}
  BY DEF IsRetainer
<1>5. FreeInv'
  BY <1>4 DEF FreeInv
<1> QED  BY <1>3, <1>5

(* A step that does not create, destroy or list a handle, nor change an    *)
(* object, leaves the list of new space nodes complete.                    *)
LEMMA SameLists ==
  ASSUME NewSpaceNodesComplete, UNCHANGED <<lists, object>>,
         \A n \in Nodes : state'[n] = "FREE" <=> state[n] = "FREE",
         \A n \in Nodes : IsRetainer(n) /\ object[n] \in new_space' => object[n] \in new_space
  PROVE  NewSpaceNodesComplete'
  BY DEF NewSpaceNodesComplete, IsRetainer, lists

(* The number of weak handles stays if no handle becomes or ceases to be weak. *)
LEMMA SameWeak ==
  ASSUME WeakHandlesCounted, UNCHANGED number_of_weak_handles,
         \A n \in Nodes : state'[n] \in {"WEAK", "PENDING", "NEAR_DEATH"} <=>
                          state[n] \in {"WEAK", "PENDING", "NEAR_DEATH"}
  PROVE  WeakHandlesCounted'
<1>1. {n \in Nodes : IsWeakRetainer(n)}' = {n \in Nodes : IsWeakRetainer(n)}
  BY DEF IsWeakRetainer
<1> QED  BY <1>1 DEF WeakHandlesCounted

(* What is ahead of a round stays ahead until it is not pending any more.  *)
LEMMA SameRounds ==
  ASSUME RoundInv, PendingInv, UNCHANGED <<rounds, next_used>>,
         \A n \in Nodes : state'[n] = "PENDING" => state[n] = "PENDING",
         TypeOK
  PROVE  RoundInv' /\ PendingInv'
<1>1. RoundInv'
  BY DEF RoundInv
<1>2. ASSUME rounds # <<>>, rounds[1].callback # NULL
      PROVE  rounds[1].callback \in Nodes
  <2>1. rounds[1] \in Rounds
    BY <1>2, SMT DEF TypeOK
  <2> QED  BY <1>2, <2>1 DEF Rounds
<1>3. PendingInv'
  BY <1>2 DEF PendingInv, Ahead
<1> QED  BY <1>1, <1>3

(* How the number of weak handles changes with the state of a node. *)
LEMMA WeakChange ==
  ASSUME TypeOK, WeakHandlesCounted, NEW n \in Nodes, NEW s \in States,
         state' = [state EXCEPT ![n] = s],
         number_of_weak_handles' = number_of_weak_handles
           - (IF IsWeakRetainer(n) THEN 1 ELSE 0)
           + (IF s \in {"WEAK", "PENDING", "NEAR_DEATH"} THEN 1 ELSE 0)
  PROVE  WeakHandlesCounted' /\ number_of_weak_handles' \in Nat
<1> DEFINE W == {m \in Nodes : IsWeakRetainer(m)}
           V == {m \in Nodes : IsWeakRetainer(m)'}
<1>1. IsFiniteSet(W) /\ IsFiniteSet(V) /\ Cardinality(W) \in Nat /\ Cardinality(V) \in Nat
  BY NodeFacts, FS_Subset, FS_CardinalityType
<1>2. /\ n \in W <=> IsWeakRetainer(n)
      /\ n \in V <=> s \in {"WEAK", "PENDING", "NEAR_DEATH"}
      /\ V \cup {n} = W \cup {n}
      /\ n \in V \/ n \in W => IF n \in V THEN IF n \in W THEN V = W ELSE V = W \cup {n}
                               ELSE V = W \ {n}
      /\ n \notin V /\ n \notin W => V = W
  BY DEF IsWeakRetainer, TypeOK
<1>3. number_of_weak_handles = Cardinality(W)
  BY DEF WeakHandlesCounted
<1> HIDE DEF W, V
<1>4. Cardinality(V) = Cardinality(W) - (IF n \in W THEN 1 ELSE 0)
                                      + (IF n \in V THEN 1 ELSE 0)
  <2>1. CASE n \in V /\ n \notin W
    BY <1>1, <1>2, <2>1, FS_AddElement, SMT
  <2>2. CASE n \notin V /\ n \in W
    BY <1>1, <1>2, <2>2, FS_RemoveElement, SMT
  <2>3. CASE n \in V <=> n \in W
    BY <1>1, <1>2, <2>3, SMT
  <2> QED  BY <2>1, <2>2, <2>3
<1>5. number_of_weak_handles' = Cardinality(V)
  BY <1>1, <1>2, <1>3, <1>4
<1>6. {m \in Nodes : IsWeakRetainer(m)}' = V
  BY DEF V
<1> QED  BY <1>1, <1>5, <1>6 DEF WeakHandlesCounted

-----------------------------------------------------------------------------
(* The operations of the embedder on a handle that exists, and on objects. *)

(* MakeWeak and ClearWeakness keep the invariant. *)
LEMMA ChangeHandle ==
  ASSUME IndInv, NEW n \in Nodes, MakeWeak(n) \/ ClearWeakness(n)
  PROVE  IndInv'
<1> USE DEF IndInv
<1>1. PICK s \in {"WEAK", "NORMAL"} :
        /\ state' = [state EXCEPT ![n] = s]
        /\ number_of_weak_handles' = number_of_weak_handles
             - (IF IsWeakRetainer(n) THEN 1 ELSE 0)
             + (IF s \in {"WEAK", "PENDING", "NEAR_DEATH"} THEN 1 ELSE 0)
  <2>1. CASE MakeWeak(n)
    <3>1. number_of_weak_handles' = number_of_weak_handles
             - (IF IsWeakRetainer(n) THEN 1 ELSE 0) + 1
      BY <2>1, SMT DEF MakeWeak, WeakBefore, TypeOK
    <3> QED  BY <2>1, <3>1 DEF MakeWeak
  <2>2. CASE ClearWeakness(n)
    <3>1. number_of_weak_handles' = number_of_weak_handles
             - (IF IsWeakRetainer(n) THEN 1 ELSE 0) + 0
      BY <2>2, SMT DEF ClearWeakness, TypeOK
    <3> QED  BY <2>2, <3>1 DEF ClearWeakness
  <2> QED  BY <2>1, <2>2
<1>2. /\ UNCHANGED <<object, independent, blocks, lists, created, free, heap, rounds>>
      /\ state[n] # "FREE"
  BY DEF MakeWeak, ClearWeakness, IsRetainer
<1>3. /\ \A m \in Nodes : state'[m] = "FREE" <=> state[m] = "FREE"
      /\ \A m \in Nodes : state'[m] = "PENDING" => state[m] = "PENDING"
  BY <1>1, <1>2 DEF TypeOK
<1>4. WeakHandlesCounted' /\ number_of_weak_handles' \in Nat
  BY <1>1, WeakChange DEF States
<1>5. TypeOK'
  BY <1>1, <1>2, <1>4 DEF TypeOK, States, blocks, lists, heap
<1>6. BlockInv' /\ FreeInv'
  BY <1>2, <1>3, SameNodes
<1>7. NewSpaceNodesComplete'
  BY <1>2, <1>3, SameLists DEF heap
<1>8. HandlesKeepObjects'
  BY <1>2, <1>3 DEF HandlesKeepObjects, IsRetainer, heap
<1>9. RoundInv' /\ PendingInv'
  BY <1>2, <1>3, SameRounds DEF blocks
<1> QED  BY <1>4, <1>5, <1>6, <1>7, <1>8, <1>9

(* The steps that leave the nodes' states and the lists alone keep the invariant. *)
LEMMA UseHeap ==
  ASSUME IndInv,
         \/ \E o \in Objects : Allocate(o) \/ Drop(o)
         \/ \E n \in Nodes : MarkIndependent(n) \/ Hold(n)
  PROVE  IndInv'
<1> USE DEF IndInv
<1>1. /\ UNCHANGED <<state, object, blocks, lists, created, free,
                     number_of_weak_handles, rounds>>
      /\ allocated \subseteq allocated' /\ new_space' \ new_space \subseteq Objects \ allocated
  BY DEF Allocate, Drop, MarkIndependent, Hold, nodes, heap
<1>2. TypeOK'
  <2>1. CASE \E o \in Objects : Allocate(o) \/ Drop(o)
    BY <2>1 DEF Allocate, Drop, TypeOK, nodes, blocks, lists
  <2>2. CASE \E n \in Nodes : MarkIndependent(n)
    BY <2>2 DEF MarkIndependent, TypeOK, nodes, blocks, lists, heap
  <2>3. CASE \E n \in Nodes : Hold(n)
    BY <2>3 DEF Hold, TypeOK, nodes, blocks, lists, HandlesKeepObjects
  <2> QED  BY <2>1, <2>2, <2>3
<1>3. BlockInv' /\ FreeInv'
  BY <1>1, SameNodes
<1>4. NewSpaceNodesComplete'
  BY <1>1, SameLists DEF HandlesKeepObjects
<1>5. HandlesKeepObjects'
  BY <1>1 DEF HandlesKeepObjects, IsRetainer
<1>6. WeakHandlesCounted'
  BY <1>1, SameWeak
<1>7. RoundInv' /\ PendingInv'
  BY <1>1, SameRounds DEF blocks
<1> QED  BY <1>2, <1>3, <1>4, <1>5, <1>6, <1>7

-----------------------------------------------------------------------------
(* Create and Destroy.                                                     *)

(* A block is on the list of used blocks if it has a node in use. *)
LEMMA UsedFacts ==
  ASSUME TypeOK, BlockInv
  PROVE  \A b \in Blocks : b \in UsedBlocks <=> NodesOf(b) # {}
<1> TAKE b \in Blocks
<1>1. IsFiniteSet(NodesOf(b))
  <2>1. NodesOf(b) \in SUBSET {n \in Nodes : n[1] = b}
    BY DEF NodesOf
  <2> QED  BY <2>1, CountFacts
<1>2. Cardinality(NodesOf(b)) = 0 <=> NodesOf(b) = {}
  BY <1>1, FS_EmptySet
<1> QED  BY <1>2 DEF BlockInv

(* The links are those of a list of blocks. *)
LEMMA LinkTypes ==
  ASSUME TypeOK
  PROVE  /\ next_used \in Links /\ prev_used \in Links
         /\ first_used_block \in Blocks \cup {NULL}
  BY DEF TypeOK, Links

(* A free node is taken into use. *)
LEMMA IncreaseStep ==
  ASSUME TypeOK, BlockInv, NEW n \in Nodes, state[n] = "FREE",
         state' = [state EXCEPT ![n] = "NORMAL"], IncreaseUses(n[1]),
         created \subseteq created', n[1] \in created'
  PROVE  /\ BlockInv'
         /\ used_nodes' \in [Blocks -> 0 .. BlockSize]
         /\ next_used' \in Links /\ prev_used' \in Links
         /\ first_used_block' \in created' \cup {NULL}
         /\ \A c \in Blocks : UsedBlocks \cap Reach(next_used, next_used[c])
                                \subseteq Reach(next_used', next_used'[c])
<1> DEFINE b == n[1]
<1>1. /\ b \in Blocks
      /\ next_used \in Links /\ prev_used \in Links
      /\ first_used_block \in Blocks \cup {NULL}
      /\ Linked(next_used, prev_used, first_used_block)
  BY NodeFacts, LinkTypes DEF BlockInv
<1>2. /\ NodesOf(b)' = NodesOf(b) \cup {n} /\ n \notin NodesOf(b)
      /\ \A c \in Blocks : c # b => NodesOf(c)' = NodesOf(c)
  BY DEF NodesOf, IsRetainer, TypeOK
<1>3. /\ NodesOf(b) \in SUBSET {m \in Nodes : m[1] = b}
      /\ NodesOf(b)' \in SUBSET {m \in Nodes : m[1] = b}
  BY DEF NodesOf
<1>4. /\ Cardinality(NodesOf(b)') = Cardinality(NodesOf(b)) + 1
      /\ Cardinality(NodesOf(b)) \in Nat
      /\ Cardinality(NodesOf(b)') \in 0 .. BlockSize
  BY <1>1, <1>2, <1>3, CountFacts, FS_AddElement, SMT
<1>5. /\ used_nodes' = [used_nodes EXCEPT ![b] = @ + 1]
      /\ used_nodes[b] = Cardinality(NodesOf(b))
  BY <1>1 DEF IncreaseUses, BlockInv
<1>6. /\ used_nodes' \in [Blocks -> 0 .. BlockSize]
      /\ used_nodes'[b] # 0
      /\ \A c \in Blocks : c # b => used_nodes'[c] = used_nodes[c]
      /\ \A c \in Blocks : used_nodes'[c] = Cardinality(NodesOf(c)')
  <2>1. used_nodes \in [Blocks -> 0 .. BlockSize]
    BY DEF TypeOK
  <2>2. used_nodes'[b] = Cardinality(NodesOf(b)')
    BY <1>1, <1>4, <1>5, <2>1
  <2>3. \A c \in Blocks : c # b => used_nodes'[c] = used_nodes[c]
    BY <1>5, <2>1
  <2>4. ASSUME NEW c \in Blocks, c # b
        PROVE  used_nodes'[c] = Cardinality(NodesOf(c)')
    BY <1>2, <2>3, <2>4 DEF BlockInv
  <2>5. used_nodes' \in [Blocks -> 0 .. BlockSize]
    BY <1>1, <1>4, <1>5, <2>1, <2>2
  <2> QED  BY <1>4, <2>2, <2>3, <2>4, <2>5, SMT
<1>7. CASE used_nodes[b] = 0
  <2>1. /\ first_used_block' = b
        /\ next_used' = [next_used EXCEPT ![b] = first_used_block]
        /\ prev_used' = [c \in Blocks |->
                           CASE c = b -> NULL
                             [] c = first_used_block /\ c # b -> b
                             [] OTHER -> prev_used[c]]
    BY <1>7 DEF IncreaseUses
  <2>2. b \notin UsedBlocks /\ b \notin Reach(next_used, first_used_block)
    BY <1>1, <1>7 DEF BlockInv, UsedBlocks
  <2>3. first_used_block # b
    <3>1. Leads(next_used, first_used_block, Reach(next_used, first_used_block))
      BY <1>1, ReachFacts
    <3> QED  BY <1>1, <2>2, <3>1, NullFacts DEF Leads
  <2>4. InsertFirst(b, next_used, prev_used, first_used_block, next_used', prev_used')
    BY <1>1, <2>1, <2>3 DEF InsertFirst, Links
  <2>5. /\ next_used' \in Links /\ prev_used' \in Links
        /\ Reach(next_used', b) = Reach(next_used, first_used_block) \cup {b}
        /\ Linked(next_used', prev_used', b)
    <3>1. prev_used' \in Links
      BY <2>4 DEF InsertFirst
    <3> QED  BY <1>1, <2>2, <2>4, <3>1, InsertReach, SMT
  <2>6. UsedBlocks' = UsedBlocks \cup {b}
    BY <2>1, <2>5 DEF UsedBlocks
  <2>7. BlockInv'
    <3>1. UsedBlocks' = {c \in Blocks : used_nodes'[c] # 0}
      BY <1>1, <1>6, <2>6 DEF BlockInv
    <3>2. UsedBlocks' \subseteq created'
      BY <2>6 DEF BlockInv
    <3> QED  BY <1>6, <2>1, <2>5, <3>1, <3>2 DEF BlockInv
  <2>8. \A c \in Blocks : UsedBlocks \cap Reach(next_used, next_used[c])
                            \subseteq Reach(next_used', next_used'[c])
    BY <1>1, <2>2, <2>4, InsertAhead DEF UsedBlocks
  <2> QED  BY <1>6, <2>1, <2>5, <2>7, <2>8
<1>8. CASE used_nodes[b] # 0
  <2>1. UNCHANGED <<first_used_block, next_used, prev_used>>
    BY <1>8 DEF IncreaseUses
  <2>2. UsedBlocks' = UsedBlocks
    BY <2>1 DEF UsedBlocks
  <2>3. BlockInv'
    <3>1. UsedBlocks' = {c \in Blocks : used_nodes'[c] # 0}
      BY <1>1, <1>6, <1>8, <2>2 DEF BlockInv
    <3> QED  BY <1>6, <2>1, <2>2, <3>1 DEF BlockInv
  <2> QED  BY <1>1, <1>6, <2>1, <2>3 DEF TypeOK
<1> QED  BY <1>7, <1>8

(* A node in use becomes free. *)
LEMMA DecreaseStep ==
  ASSUME TypeOK, BlockInv, NEW n \in Nodes, state[n] # "FREE",
         state' = [state EXCEPT ![n] = "FREE"], DecreaseUses(n[1]),
         created' = created
  PROVE  /\ BlockInv'
         /\ used_nodes' \in [Blocks -> 0 .. BlockSize]
         /\ next_used' \in Links /\ prev_used' \in Links
         /\ first_used_block' \in created \cup {NULL}
         /\ \A c \in Blocks : \A d \in Reach(next_used, next_used[c]) :
              d \in Reach(next_used', next_used'[c]) \/ NodesOf(d)' = {}
<1> DEFINE b == n[1]
<1>1. /\ b \in Blocks
      /\ next_used \in Links /\ prev_used \in Links
      /\ first_used_block \in Blocks \cup {NULL}
      /\ Linked(next_used, prev_used, first_used_block)
  BY NodeFacts, LinkTypes DEF BlockInv
<1>2. /\ NodesOf(b)' = NodesOf(b) \ {n} /\ n \in NodesOf(b)
      /\ \A c \in Blocks : c # b => NodesOf(c)' = NodesOf(c)
  BY DEF NodesOf, IsRetainer, TypeOK
<1>3. /\ NodesOf(b) \in SUBSET {m \in Nodes : m[1] = b}
      /\ NodesOf(b)' \in SUBSET {m \in Nodes : m[1] = b}
  BY DEF NodesOf
<1>4. /\ Cardinality(NodesOf(b)') = Cardinality(NodesOf(b)) - 1
      /\ Cardinality(NodesOf(b)) \in Nat
      /\ IsFiniteSet(NodesOf(b)')
      /\ Cardinality(NodesOf(b)') \in 0 .. BlockSize
  BY <1>1, <1>2, <1>3, CountFacts, FS_RemoveElement, SMT
<1>5. /\ used_nodes' = [used_nodes EXCEPT ![b] = @ - 1]
      /\ used_nodes[b] = Cardinality(NodesOf(b))
  BY <1>1 DEF DecreaseUses, BlockInv
<1>6. /\ used_nodes' \in [Blocks -> 0 .. BlockSize]
      /\ used_nodes'[b] = used_nodes[b] - 1
      /\ \A c \in Blocks : c # b => used_nodes'[c] = used_nodes[c]
      /\ \A c \in Blocks : used_nodes'[c] = Cardinality(NodesOf(c)')
  <2>1. used_nodes \in [Blocks -> 0 .. BlockSize]
    BY DEF TypeOK
  <2> QED  BY <1>1, <1>2, <1>4, <1>5, <2>1 DEF BlockInv
<1>7. used_nodes[b] \in Nat \ {0} /\ b \in UsedBlocks
  BY <1>1, <1>4, <1>5, SMT DEF BlockInv
<1>8. CASE used_nodes[b] = 1
  <2>1. TakeOut(b, next_used, prev_used, first_used_block,
                next_used', prev_used', first_used_block')
    BY <1>8 DEF DecreaseUses, TakeOut
  <2>2. b \in Reach(next_used, first_used_block)
    BY <1>7 DEF UsedBlocks
  <2>3. /\ next_used' \in Links /\ prev_used' \in Links
        /\ first_used_block' \in Blocks \cup {NULL}
        /\ Reach(next_used', first_used_block') =
             Reach(next_used, first_used_block) \ {b}
        /\ Linked(next_used', prev_used', first_used_block')
    BY <1>1, <2>1, <2>2, RemoveReach, SMT
  <2>4. UsedBlocks' = UsedBlocks \ {b}
    BY <2>3 DEF UsedBlocks
  <2>5. BlockInv'
    <3>1. UsedBlocks' = {c \in Blocks : used_nodes'[c] # 0}
      BY <1>1, <1>6, <1>8, <2>4, SMT DEF BlockInv
    <3>2. UsedBlocks' \subseteq created'
      BY <2>4 DEF BlockInv
    <3> QED  BY <1>6, <2>3, <3>1, <3>2 DEF BlockInv
  <2>6. first_used_block' \in created \cup {NULL}
    <3>1. Leads(next_used', first_used_block', Reach(next_used', first_used_block'))
      BY <2>3, ReachFacts
    <3>2. first_used_block' # NULL => first_used_block' \in UsedBlocks
      BY <2>3, <3>1 DEF Leads, UsedBlocks
    <3> QED  BY <3>2 DEF BlockInv
  <2>7. NodesOf(b)' = {}
    BY <1>4, <1>5, <1>8, FS_EmptySet, SMT
  <2>8. ASSUME NEW c \in Blocks
        PROVE  Reach(next_used, next_used[c]) \subseteq
                 Reach(next_used', next_used'[c]) \cup {b}
    BY <1>1, <2>1, <2>2, RemoveAhead
  <2> QED  BY <1>6, <2>3, <2>5, <2>6, <2>7, <2>8
<1>9. CASE used_nodes[b] # 1
  <2>1. UNCHANGED <<first_used_block, next_used, prev_used>>
    BY <1>9 DEF DecreaseUses
  <2>2. UsedBlocks' = UsedBlocks
    BY <2>1 DEF UsedBlocks
  <2>3. BlockInv'
    <3>1. UsedBlocks' = {c \in Blocks : used_nodes'[c] # 0}
      BY <1>1, <1>6, <1>7, <1>9, <2>2, SMT DEF BlockInv
    <3> QED  BY <1>6, <2>1, <2>2, <3>1 DEF BlockInv
  <2> QED  BY <1>1, <1>6, <2>1, <2>3 DEF TypeOK
<1> QED  BY <1>8, <1>9

(* The lists first_free_ and new_space_nodes_ as elements come and go. *)
LEMMA TailFacts ==
  ASSUME NEW s \in Seq(Nodes), s # <<>>, IsInjective(s)
  PROVE  /\ Head(s) \in Nodes /\ Head(s) \in Range(s)
         /\ Tail(s) \in Seq(Nodes) /\ IsInjective(Tail(s))
         /\ Range(Tail(s)) = Range(s) \ {Head(s)}
<1>1. /\ Head(s) = s[1] /\ Len(s) \in Nat /\ 1 \in DOMAIN s /\ s[1] \in Nodes
      /\ Tail(s) \in Seq(Nodes)
      /\ DOMAIN s = 1 .. Len(s) /\ DOMAIN Tail(s) = 1 .. Len(s) - 1
      /\ \A i \in DOMAIN Tail(s) : Tail(s)[i] = s[i + 1]
  BY SMT
<1>2. IsInjective(Tail(s))
  BY <1>1, SMT DEF IsInjective
<1>3. ASSUME NEW i \in DOMAIN s, s[i] # s[1]
      PROVE  i - 1 \in DOMAIN Tail(s) /\ Tail(s)[i - 1] = s[i]
  BY <1>1, <1>3, SMT
<1>4. ASSUME NEW i \in DOMAIN Tail(s)
      PROVE  Tail(s)[i] \in Range(s) /\ Tail(s)[i] # s[1]
  <2>1. i + 1 \in DOMAIN s /\ i + 1 # 1 /\ Tail(s)[i] = s[i + 1]
    BY <1>1, SMT
  <2> QED  BY <1>1, <2>1 DEF IsInjective, Range
<1>5. Range(Tail(s)) = Range(s) \ {Head(s)}
  <2>1. Range(Tail(s)) \subseteq Range(s) \ {Head(s)}
    BY <1>1, <1>4 DEF Range
  <2>2. Range(s) \ {Head(s)} \subseteq Range(Tail(s))
    BY <1>1, <1>3, SMT DEF Range
  <2> QED  BY <2>1, <2>2
<1> QED  BY <1>1, <1>2, <1>5 DEF Range

(* A node is appended to new_space_nodes_. *)
LEMMA AppendFacts ==
  ASSUME NEW s \in Seq(Nodes), IsInjective(s), NEW n \in Nodes, n \notin Range(s)
  PROVE  /\ Append(s, n) \in Seq(Nodes) /\ IsInjective(Append(s, n))
         /\ Range(Append(s, n)) = Range(s) \cup {n}
<1> DEFINE t == Append(s, n)
<1>1. /\ t \in Seq(Nodes) /\ Len(s) \in Nat
      /\ DOMAIN s = 1 .. Len(s) /\ DOMAIN t = 1 .. Len(s) + 1
      /\ \A i \in DOMAIN s : t[i] = s[i]
      /\ t[Len(s) + 1] = n
  BY SMT
<1> HIDE DEF t
<1>2. \A i \in DOMAIN t : i \in DOMAIN s \/ i = Len(s) + 1
  BY <1>1, SMT
<1>3. DOMAIN s \subseteq DOMAIN t /\ Len(s) + 1 \in DOMAIN t
  BY <1>1, SMT
<1>4. IsInjective(t)
  BY <1>1, <1>2 DEF IsInjective, Range
<1>5. Range(t) = Range(s) \cup {n}
  BY <1>1, <1>2, <1>3 DEF Range
<1> QED  BY <1>1, <1>4, <1>5 DEF t

(* A node is put in front of the free list. *)
LEMMA ConsFacts ==
  ASSUME NEW s \in Seq(Nodes), IsInjective(s), NEW n \in Nodes, n \notin Range(s)
  PROVE  /\ <<n>> \o s \in Seq(Nodes) /\ IsInjective(<<n>> \o s)
         /\ Range(<<n>> \o s) = Range(s) \cup {n}
<1> DEFINE t == <<n>> \o s
<1>1. /\ t \in Seq(Nodes) /\ Len(s) \in Nat
      /\ DOMAIN s = 1 .. Len(s) /\ DOMAIN t = 1 .. Len(s) + 1
      /\ \A i \in DOMAIN s : t[i + 1] = s[i]
      /\ t[1] = n
  BY SMT
<1> HIDE DEF t
<1>2. \A i \in DOMAIN t : i = 1 \/ (i - 1 \in DOMAIN s /\ t[i] = s[i - 1])
  <2> TAKE i \in DOMAIN t
  <2>1. i \in Nat /\ (i = 1 \/ i - 1 \in DOMAIN s)
    BY <1>1, SMT
  <2>2. ASSUME i - 1 \in DOMAIN s
        PROVE  t[(i - 1) + 1] = s[i - 1] /\ (i - 1) + 1 = i
    BY <1>1, <2>1, <2>2, SMT
  <2> QED  BY <2>1, <2>2
<1>3. 1 \in DOMAIN t /\ \A i \in DOMAIN s : i + 1 \in DOMAIN t
  BY <1>1, SMT
<1>4. IsInjective(t)
  <2> SUFFICES ASSUME NEW i \in DOMAIN t, NEW j \in DOMAIN t, t[i] = t[j]
               PROVE  i = j
    BY DEF IsInjective
  <2>1. i \in Int /\ j \in Int
    BY <1>1, SMT
  <2>2. CASE i = 1 \/ j = 1
    BY <1>1, <1>2, <2>2 DEF Range
  <2>3. CASE i # 1 /\ j # 1
    <3>1. i - 1 \in DOMAIN s /\ j - 1 \in DOMAIN s /\ s[i - 1] = s[j - 1]
      BY <1>2, <2>3
    <3>2. i - 1 = j - 1
      BY <3>1 DEF IsInjective
    <3> QED  BY <2>1, <3>2, SMT
  <2> QED  BY <2>2, <2>3
<1>5. Range(t) = Range(s) \cup {n}
  <2>1. Range(t) \subseteq Range(s) \cup {n}
    BY <1>1, <1>2, SMT DEF Range
  <2>2. Range(s) \cup {n} \subseteq Range(t)
    BY <1>1, <1>3, SMT DEF Range
  <2> QED  BY <2>1, <2>2
<1> QED  BY <1>1, <1>4, <1>5 DEF t

(* What the free list is when a handle is created. *)
IsFreeList(s, made) ==
  /\ s \in Seq(Nodes) /\ s # <<>> /\ IsInjective(s)
  /\ created \subseteq made /\ made \subseteq Blocks
  /\ Range(s) = {n \in Nodes : n[1] \in made /\ ~ IsRetainer(n)}

(* It holds the free nodes: those on first_free_, or all of the new block. *)
LEMMA FreeListFacts ==
  ASSUME TypeOK, BlockInv, FreeInv, NEW f \in FreeLists
  PROVE  IsFreeList(f.free, f.created)
<1>1. CASE free # <<>>
  <2>1. f.free = free /\ f.created = created
    BY <1>1, SMT DEF FreeLists
  <2> QED  BY <1>1, <2>1 DEF IsFreeList, FreeInv, TypeOK
<1>2. CASE free = <<>>
  <2>1. PICK b \in Blocks \ created :
          f = [free |-> [i \in 1 .. BlockSize |-> <<b, i - 1>>],
               created |-> created \cup {b}]
    BY <1>2 DEF FreeLists
  <2> DEFINE s == [i \in 1 .. BlockSize |-> <<b, i - 1>>]
  <2>2. f.free = s /\ f.created = created \cup {b}
    BY <2>1
  <2>3. BlockSize \in Nat \ {0}
    BY BlockSizeAssumption
  <2>4. DOMAIN s = 1 .. BlockSize /\ \A i \in 1 .. BlockSize : s[i] \in Nodes /\ s[i] = <<b, i - 1>>
    BY <2>3, NodeFacts, SMT
  <2>5. s \in Seq(Nodes) /\ s # <<>>
    BY <2>3, <2>4, SMT
  <2>6. IsInjective(s)
    BY <2>4, SMT DEF IsInjective
  <2>7. ASSUME NEW n \in Nodes, IsRetainer(n)
        PROVE  n[1] \in created
    BY <2>7, NodeFacts, UsedFacts DEF BlockInv, NodesOf
  <2>8. ASSUME NEW n \in Nodes, n[1] \in created
        PROVE  IsRetainer(n)
    BY <1>2, <2>8, SMT DEF FreeInv, Range
  <2>9. ASSUME NEW n \in Nodes, n[1] = b
        PROVE  n \in Range(s)
    <3>1. n[2] \in 0 .. BlockSize - 1 /\ n = <<b, n[2]>>
      BY <2>9, NodeFacts
    <3>2. n[2] + 1 \in 1 .. BlockSize /\ (n[2] + 1) - 1 = n[2]
      BY <2>3, <3>1, SMT
    <3>3. s[n[2] + 1] = n
      BY <2>4, <3>1, <3>2
    <3> QED  BY <2>4, <3>2, <3>3 DEF Range
  <2>10. \A n \in Range(s) : n \in Nodes /\ n[1] = b
    BY <2>4, SMT DEF Range
  <2> HIDE DEF s
  <2>11. Range(s) = {n \in Nodes : n[1] \in created \cup {b} /\ ~ IsRetainer(n)}
    BY <2>7, <2>8, <2>9, <2>10
  <2> QED  BY <2>2, <2>5, <2>6, <2>11 DEF IsFreeList, TypeOK
<1> QED  BY <1>1, <1>2

(* What is ahead of a round stays ahead although the blocks are relinked. *)
LEMMA RelinkedRounds ==
  ASSUME TypeOK, RoundInv, PendingInv, UNCHANGED rounds,
         \A n \in Nodes : state'[n] = "PENDING" => state[n] = "PENDING",
         \A n \in Nodes, b \in Blocks :
           state'[n] = "PENDING" /\ n[1] \in Reach(next_used, next_used[b]) =>
             n[1] \in Reach(next_used', next_used'[b])
  PROVE  RoundInv' /\ PendingInv'
<1>1. RoundInv'
  BY DEF RoundInv
<1>2. ASSUME rounds # <<>>
      PROVE  /\ rounds[1].callback # NULL => rounds[1].callback \in Nodes
             /\ rounds[1].block # NULL => rounds[1].block \in Blocks
  <2>1. rounds \in Seq(Rounds)
    BY DEF TypeOK
  <2>2. rounds[1] \in Rounds
    BY <1>2, <2>1, SMT
  <2> QED  BY <2>2 DEF Rounds
<1>3. PendingInv'
  BY <1>2 DEF PendingInv, Ahead
<1> QED  BY <1>1, <1>3

(* GlobalHandles::Create keeps the invariant. *)
LEMMA CreateStep ==
  ASSUME IndInv, NEW o \in Objects, Create(o)
  PROVE  IndInv'
<1> USE DEF IndInv
<1>1. PICK f \in FreeLists :
        LET n == Head(f.free) IN
        /\ created' = f.created
        /\ free' = Tail(f.free)
        /\ object' = [object EXCEPT ![n] = o]
        /\ independent' = [independent EXCEPT ![n] = FALSE]
        /\ state' = [state EXCEPT ![n] = "NORMAL"]
        /\ IncreaseUses(n[1])
        /\ IF IsAdded(n, o)
           THEN /\ new_space_nodes' = Append(new_space_nodes, n)
                /\ in_new_space_list' = [in_new_space_list EXCEPT ![n] = TRUE]
           ELSE UNCHANGED lists
  BY DEF Create
<1> DEFINE n == Head(f.free)
<1>2. /\ created' = f.created
      /\ free' = Tail(f.free)
      /\ object' = [object EXCEPT ![n] = o]
      /\ independent' = [independent EXCEPT ![n] = FALSE]
      /\ state' = [state EXCEPT ![n] = "NORMAL"]
      /\ IncreaseUses(n[1])
      /\ IF IsAdded(n, o)
         THEN /\ new_space_nodes' = Append(new_space_nodes, n)
              /\ in_new_space_list' = [in_new_space_list EXCEPT ![n] = TRUE]
         ELSE UNCHANGED lists
  BY <1>1
<1>3. o \in held /\ UNCHANGED <<number_of_weak_handles, heap, rounds>>
  BY DEF Create
<1>4. IsFreeList(f.free, f.created)
  BY FreeListFacts
<1>5. /\ n \in Nodes /\ n \in Range(f.free)
      /\ Tail(f.free) \in Seq(Nodes) /\ IsInjective(Tail(f.free))
      /\ Range(Tail(f.free)) = Range(f.free) \ {n}
  BY <1>4, TailFacts DEF IsFreeList
<1> HIDE DEF n
<1>6. /\ state[n] = "FREE" /\ n[1] \in f.created
      /\ created \subseteq f.created /\ f.created \subseteq Blocks
  BY <1>4, <1>5 DEF IsFreeList, IsRetainer
<1>7. /\ state' \in [Nodes -> States] /\ state'[n] = "NORMAL"
      /\ \A m \in Nodes : m # n => state'[m] = state[m]
  BY <1>2, <1>5 DEF TypeOK, States
<1>8. /\ BlockInv'
      /\ used_nodes' \in [Blocks -> 0 .. BlockSize]
      /\ next_used' \in Links /\ prev_used' \in Links
      /\ first_used_block' \in created' \cup {NULL}
      /\ \A c \in Blocks : UsedBlocks \cap Reach(next_used, next_used[c])
                             \subseteq Reach(next_used', next_used'[c])
  BY <1>2, <1>5, <1>6, IncreaseStep
<1>9. FreeInv'
  <2>1. Range(free') = {m \in Nodes : m[1] \in created' /\ ~ IsRetainer(m)'}
    <3>1. Range(f.free) = {m \in Nodes : m[1] \in f.created /\ ~ IsRetainer(m)}
      BY <1>4 DEF IsFreeList
    <3>2. \A m \in Nodes : m # n => (IsRetainer(m)' <=> IsRetainer(m))
      BY <1>7 DEF IsRetainer
    <3>3. IsRetainer(n)'
      BY <1>7 DEF IsRetainer
    <3> QED  BY <1>2, <1>5, <3>1, <3>2, <3>3
  <2> QED  BY <1>2, <1>5, <2>1 DEF FreeInv
<1>10. /\ NewSpaceNodesComplete'
       /\ new_space_nodes' \in Seq(Nodes)
       /\ in_new_space_list' \in [Nodes -> BOOLEAN]
  <2>1. /\ new_space_nodes \in Seq(Nodes) /\ in_new_space_list \in [Nodes -> BOOLEAN]
        /\ object \in [Nodes -> Objects \cup {NULL}]
        /\ in_new_space_list[n] <=> n \in Range(new_space_nodes)
        /\ IsInjective(new_space_nodes)
    BY <1>5 DEF TypeOK, NewSpaceNodesComplete
  <2>2. object'[n] = o /\ \A m \in Nodes : m # n => object'[m] = object[m]
    BY <1>2, <1>5, <2>1
  <2>3. new_space' = new_space
    BY <1>3 DEF heap
  <2>4. CASE IsAdded(n, o)
    <3>1. /\ new_space_nodes' = Append(new_space_nodes, n)
          /\ in_new_space_list' = [in_new_space_list EXCEPT ![n] = TRUE]
      BY <1>2, <2>4
    <3>2. n \notin Range(new_space_nodes)
      BY <2>1, <2>4 DEF IsAdded
    <3>3. /\ new_space_nodes' \in Seq(Nodes) /\ IsInjective(new_space_nodes')
          /\ Range(new_space_nodes') = Range(new_space_nodes) \cup {n}
      BY <1>5, <2>1, <3>1, <3>2, AppendFacts
    <3>4. /\ in_new_space_list' \in [Nodes -> BOOLEAN]
          /\ \A m \in Nodes : in_new_space_list'[m] <=> m \in Range(new_space_nodes')
      BY <1>5, <2>1, <3>1, <3>3 DEF NewSpaceNodesComplete
    <3>5. ASSUME NEW m \in Nodes, IsRetainer(m)', object'[m] \in new_space'
          PROVE  m \in Range(new_space_nodes')
      BY <1>7, <2>2, <2>3, <3>3, <3>5 DEF NewSpaceNodesComplete, IsRetainer
    <3> QED  BY <3>3, <3>4, <3>5 DEF NewSpaceNodesComplete
  <2>5. CASE ~ IsAdded(n, o)
    <3>1. UNCHANGED lists
      BY <1>2, <2>5
    <3>2. UNCHANGED <<new_space_nodes, in_new_space_list>>
      BY <3>1 DEF lists
    <3>3. o \in new_space => n \in Range(new_space_nodes)
      BY <2>1, <2>5 DEF IsAdded
    <3>4. ASSUME NEW m \in Nodes, IsRetainer(m)', object'[m] \in new_space'
          PROVE  m \in Range(new_space_nodes)
      BY <1>7, <2>2, <2>3, <3>3, <3>4 DEF NewSpaceNodesComplete, IsRetainer
    <3> QED  BY <2>1, <3>2, <3>4 DEF NewSpaceNodesComplete
  <2> QED  BY <2>4, <2>5
<1>11. TypeOK'
  BY <1>2, <1>3, <1>5, <1>6, <1>7, <1>8, <1>10 DEF TypeOK, Links, heap
<1>12. HandlesKeepObjects'
  <2>1. object'[n] = o /\ \A m \in Nodes : m # n => object'[m] = object[m]
    BY <1>2, <1>5 DEF TypeOK
  <2>2. o \in allocated /\ allocated' = allocated
    BY <1>3 DEF TypeOK, heap
  <2> QED  BY <1>7, <2>1, <2>2 DEF HandlesKeepObjects, IsRetainer
<1>13. WeakHandlesCounted'
  <2>1. \A m \in Nodes : state'[m] \in {"WEAK", "PENDING", "NEAR_DEATH"} <=>
                         state[m] \in {"WEAK", "PENDING", "NEAR_DEATH"}
    BY <1>6, <1>7
  <2> QED  BY <1>3, <2>1, SameWeak
<1>14. RoundInv' /\ PendingInv'
  <2>1. ASSUME NEW m \in Nodes, state'[m] = "PENDING"
        PROVE  state[m] = "PENDING" /\ m[1] \in UsedBlocks
    <3>1. state[m] = "PENDING"
      BY <1>7, <2>1
    <3> QED  BY <3>1, NodeFacts, UsedFacts DEF NodesOf, IsRetainer
  <2>2. ASSUME NEW m \in Nodes, NEW b \in Blocks, state'[m] = "PENDING",
               m[1] \in Reach(next_used, next_used[b])
        PROVE  m[1] \in Reach(next_used', next_used'[b])
    BY <1>8, <2>1, <2>2
  <2> QED  BY <1>3, <2>1, <2>2, RelinkedRounds
<1> QED  BY <1>8, <1>9, <1>10, <1>11, <1>12, <1>13, <1>14

(* GlobalHandles::Destroy keeps the invariant. *)
LEMMA DestroyStep ==
  ASSUME IndInv, NEW n \in Nodes, Destroy(n)
  PROVE  IndInv'
<1> USE DEF IndInv
<1>1. /\ state[n] # "FREE"
      /\ state' = [state EXCEPT ![n] = "FREE"]
      /\ free' = <<n>> \o free
      /\ DecreaseUses(n[1])
      /\ object' = [object EXCEPT ![n] = NULL]
      /\ independent' = [independent EXCEPT ![n] = FALSE]
      /\ UNCHANGED <<lists, created, heap, rounds>>
  BY DEF Destroy, IsRetainer
<1>2. /\ state' \in [Nodes -> States] /\ state'[n] = "FREE"
      /\ \A m \in Nodes : m # n => state'[m] = state[m]
  BY <1>1 DEF TypeOK, States
<1>3. \A m \in Nodes : m # n => object'[m] = object[m]
  BY <1>1 DEF TypeOK
<1>4. /\ BlockInv'
      /\ used_nodes' \in [Blocks -> 0 .. BlockSize]
      /\ next_used' \in Links /\ prev_used' \in Links
      /\ first_used_block' \in created \cup {NULL}
      /\ \A c \in Blocks : \A d \in Reach(next_used, next_used[c]) :
           d \in Reach(next_used', next_used'[c]) \/ NodesOf(d)' = {}
  BY <1>1, DecreaseStep
<1>5. FreeInv' /\ free' \in Seq(Nodes)
  <2>1. /\ free \in Seq(Nodes) /\ IsInjective(free)
        /\ Range(free) = {m \in Nodes : m[1] \in created /\ ~ IsRetainer(m)}
    BY DEF TypeOK, FreeInv
  <2>2. n \notin Range(free)
    BY <1>1, <2>1 DEF IsRetainer
  <2>3. /\ free' \in Seq(Nodes) /\ IsInjective(free')
        /\ Range(free') = Range(free) \cup {n}
    BY <1>1, <2>1, <2>2, ConsFacts
  <2>4. n[1] \in created
    BY <1>1, NodeFacts, UsedFacts DEF BlockInv, NodesOf, IsRetainer
  <2>5. Range(free') = {m \in Nodes : m[1] \in created' /\ ~ IsRetainer(m)'}
    BY <1>1, <1>2, <2>1, <2>3, <2>4 DEF IsRetainer
  <2> QED  BY <2>3, <2>5 DEF FreeInv
<1>6. WeakHandlesCounted' /\ number_of_weak_handles' \in Nat
  <2>1. number_of_weak_handles' = number_of_weak_handles
          - (IF IsWeakRetainer(n) THEN 1 ELSE 0)
          + (IF "FREE" \in {"WEAK", "PENDING", "NEAR_DEATH"} THEN 1 ELSE 0)
    BY SMT DEF Destroy, TypeOK
  <2> QED  BY <1>1, <2>1, WeakChange DEF States
<1>7. TypeOK'
  BY <1>1, <1>2, <1>4, <1>5, <1>6 DEF TypeOK, Links, heap, lists
<1>8. NewSpaceNodesComplete'
  BY <1>1, <1>2, <1>3, SMT DEF NewSpaceNodesComplete, IsRetainer, lists, heap
<1>9. HandlesKeepObjects'
  BY <1>1, <1>2, <1>3, SMT DEF HandlesKeepObjects, IsRetainer, heap
<1>10. RoundInv' /\ PendingInv'
  <2>1. ASSUME NEW m \in Nodes, state'[m] = "PENDING"
        PROVE  state[m] = "PENDING" /\ m \in NodesOf(m[1])'
    BY <1>2, <2>1 DEF NodesOf, IsRetainer
  <2>2. ASSUME NEW m \in Nodes, NEW b \in Blocks, state'[m] = "PENDING",
               m[1] \in Reach(next_used, next_used[b])
        PROVE  m[1] \in Reach(next_used', next_used'[b])
    BY <1>4, <2>1, <2>2
  <2> QED  BY <1>1, <2>1, <2>2, RelinkedRounds
<1> QED  BY <1>4, <1>5, <1>6, <1>7, <1>8, <1>9, <1>10

-----------------------------------------------------------------------------
(* Collections and their rounds of callbacks.                              *)

(* A list is its first block and what follows it. *)
LEMMA ReachSplit ==
  ASSUME NEW next \in Links
  PROVE  /\ Reach(next, NULL) = {}
         /\ \A b \in Blocks : Reach(next, b) \subseteq {b} \cup Reach(next, next[b])
<1>1. Reach(next, NULL) = {}
  <2>1. Leads(next, NULL, {})
    BY DEF Leads
  <2> QED  BY <2>1, ReachFacts
<1>2. ASSUME NEW b \in Blocks
      PROVE  Reach(next, b) \subseteq {b} \cup Reach(next, next[b])
  <2>1. next[b] \in Blocks \cup {NULL}
    BY DEF Links
  <2>2. Reach(next, next[b]) \subseteq Blocks /\ Leads(next, next[b], Reach(next, next[b]))
    BY <2>1, ReachFacts
  <2>3. Leads(next, b, {b} \cup Reach(next, next[b]))
    BY <2>2 DEF Leads
  <2> QED  BY <2>2, <2>3, ReachFacts
<1> QED  BY <1>1, <1>2

(* A collection keeps the objects of all handles and begins a round. *)
LEMMA CollectStep ==
  ASSUME IndInv, Running, NEW S \in SUBSET Nodes, \A n \in S : state[n] = "WEAK",
         NEW collector \in {"SCAVENGER", "MARK_COMPACTOR"},
         NEW survivors \in SUBSET Objects, held \subseteq survivors,
         \A n \in Nodes : IsRetainer(n) => object[n] \in survivors,
         MarkPending(S), BeginRound(collector, survivors),
         UNCHANGED <<object, independent, blocks, lists, created, free,
                     number_of_weak_handles, held>>
  PROVE  IndInv'
<1> USE DEF IndInv
<1>1. /\ state' = [n \in Nodes |-> IF n \in S THEN "PENDING" ELSE state[n]]
      /\ state' \in [Nodes -> States]
      /\ \A n \in Nodes : state'[n] = "FREE" <=> state[n] = "FREE"
      /\ \A n \in Nodes : state'[n] \in {"WEAK", "PENDING", "NEAR_DEATH"} <=>
                          state[n] \in {"WEAK", "PENDING", "NEAR_DEATH"}
  BY DEF MarkPending, TypeOK, States
<1>2. /\ allocated' = survivors /\ held' = held
      /\ new_space' \subseteq new_space /\ new_space' \subseteq survivors
  BY DEF BeginRound
<1> DEFINE q == [collector |-> collector,
                 block |-> IF collector = "SCAVENGER" THEN NULL ELSE first_used_block,
                 index |-> 0, callback |-> NULL, stale |-> FALSE]
           old == [i \in DOMAIN rounds |-> [rounds[i] EXCEPT !.stale = TRUE]]
<1>3. rounds' = <<q>> \o old
  BY DEF BeginRound
<1>4. /\ rounds \in Seq(Rounds) /\ Len(rounds) \in Nat /\ DOMAIN rounds = 1 .. Len(rounds)
      /\ \A i \in DOMAIN rounds : rounds[i] \in Rounds
  BY SMT DEF TypeOK
<1>5. /\ q \in Rounds /\ q.callback = NULL /\ q.stale = FALSE /\ q.index = 0
      /\ q.collector = collector
      /\ collector = "MARK_COMPACTOR" => q.block = first_used_block
  BY LinkTypes DEF Rounds
<1>6. /\ old \in Seq(Rounds) /\ Len(old) = Len(rounds) /\ DOMAIN old = DOMAIN rounds
      /\ \A i \in DOMAIN rounds :
           /\ old[i].stale = TRUE /\ old[i].callback = rounds[i].callback
           /\ old[i].collector = rounds[i].collector /\ old[i].index = rounds[i].index
  <2>1. \A i \in DOMAIN rounds : [rounds[i] EXCEPT !.stale = TRUE] \in Rounds
    BY <1>4 DEF Rounds
  <2>2. old \in Seq(Rounds) /\ Len(old) = Len(rounds) /\ DOMAIN old = DOMAIN rounds
    BY <1>4, <2>1, SMT
  <2> QED  BY <1>4, <2>2 DEF Rounds
<1> HIDE DEF q, old
<1>7. /\ rounds' \in Seq(Rounds) /\ rounds' # <<>> /\ rounds'[1] = q
      /\ DOMAIN rounds' = 1 .. Len(rounds) + 1
      /\ \A i \in DOMAIN rounds' : i # 1 => i - 1 \in DOMAIN rounds /\ rounds'[i] = old[i - 1]
  BY <1>3, <1>4, <1>5, <1>6, SMT
<1>8. TypeOK'
  BY <1>1, <1>2, <1>7 DEF TypeOK, blocks, lists
<1>9. BlockInv' /\ FreeInv'
  BY <1>1, SameNodes
<1>10. NewSpaceNodesComplete'
  BY <1>1, <1>2, SameLists
<1>11. HandlesKeepObjects'
  BY <1>1, <1>2 DEF HandlesKeepObjects, IsRetainer
<1>12. WeakHandlesCounted'
  BY <1>1, SameWeak
<1>13. RoundInv'
  <2>1. \A i \in DOMAIN rounds : rounds[i].callback # NULL
    <3>1. rounds # <<>> => rounds[1].callback # NULL
      BY <1>4, SMT DEF Running
    <3> QED  BY <1>4, <3>1, SMT DEF RoundInv
  <2>2. ASSUME NEW i \in DOMAIN rounds'
        PROVE  /\ i > 1 => rounds'[i].stale /\ rounds'[i].callback # NULL
               /\ rounds'[i].callback = NULL => ~ rounds'[i].stale
               /\ rounds'[i].collector = "MARK_COMPACTOR" => rounds'[i].index < BlockSize
    <3>1. CASE i = 1
      BY <1>5, <1>7, <3>1, BlockSizeAssumption, SMT
    <3>2. CASE i # 1
      BY <1>6, <1>7, <2>1, <3>2, SMT DEF RoundInv
    <3> QED  BY <3>1, <3>2
  <2> QED  BY <2>2 DEF RoundInv
<1>14. PendingInv'
  <2> SUFFICES ASSUME collector = "MARK_COMPACTOR", NEW n \in Nodes, state'[n] = "PENDING"
               PROVE  Ahead(rounds[1], n)'
    BY <1>5, <1>7 DEF PendingInv
  <2>1. n[1] \in UsedBlocks
    BY <1>1, NodeFacts, UsedFacts DEF NodesOf, IsRetainer
  <2>2. next_used \in Links /\ next_used' = next_used /\ first_used_block \in Blocks \cup {NULL}
    BY LinkTypes DEF blocks
  <2>3. first_used_block # NULL
    BY <2>1, <2>2, ReachSplit DEF UsedBlocks
  <2>4. n[1] = first_used_block \/ n[1] \in Reach(next_used, next_used[first_used_block])
    BY <2>1, <2>2, <2>3, ReachSplit DEF UsedBlocks
  <2>5. n[2] >= 0
    BY NodeFacts, BlockSizeAssumption, SMT
  <2>6. rounds'[1].block = first_used_block /\ rounds'[1].index = 0
    BY <1>5, <1>7
  <2> QED  BY <2>2, <2>3, <2>4, <2>5, <2>6 DEF Ahead
<1> QED  BY <1>8, <1>9, <1>10, <1>11, <1>12, <1>13, <1>14

(* The blocks in use have all handles: all their objects survive. *)
LEMMA MarkCompactStep ==
  ASSUME IndInv, MarkCompact
  PROVE  IndInv'
<1> USE DEF IndInv
<1> DEFINE marked == held \cup ObjectsOf({n \in UsedNodes : IsStrongRetainer(n)})
           dying == {n \in UsedNodes : state[n] = "WEAK" /\ object[n] \notin marked}
           survivors == marked \cup ObjectsOf({n \in UsedNodes : IsWeakRetainer(n)})
<1>1. /\ Running /\ MarkPending(dying) /\ BeginRound("MARK_COMPACTOR", survivors)
      /\ UNCHANGED <<object, independent, blocks, lists, created, free,
                     number_of_weak_handles, held>>
  BY DEF MarkCompact
<1>2. UsedNodes \subseteq Nodes
  <2>1. UsedBlocks \subseteq Blocks
    BY DEF BlockInv
  <2> QED  BY <2>1 DEF UsedNodes, Nodes
<1>3. ASSUME NEW n \in Nodes, IsRetainer(n)
      PROVE  n \in UsedNodes
  <2>1. n[1] \in UsedBlocks
    BY <1>3, NodeFacts, UsedFacts DEF NodesOf
  <2> QED  BY <2>1, NodeFacts, SMT DEF UsedNodes
<1>4. \A n \in Nodes : IsRetainer(n) => IsStrongRetainer(n) \/ IsWeakRetainer(n)
  BY DEF TypeOK, States, IsRetainer, IsStrongRetainer, IsWeakRetainer
<1>5. \A n \in Nodes : IsRetainer(n) => object[n] \in survivors
  BY <1>3, <1>4 DEF ObjectsOf
<1>6. survivors \in SUBSET Objects /\ held \subseteq survivors
  <2>1. \A n \in UsedNodes : IsStrongRetainer(n) \/ IsWeakRetainer(n) => object[n] \in Objects
    BY <1>2 DEF HandlesKeepObjects, TypeOK, IsRetainer, IsStrongRetainer, IsWeakRetainer
  <2> QED  BY <2>1 DEF ObjectsOf, TypeOK
<1>7. dying \in SUBSET Nodes /\ \A n \in dying : state[n] = "WEAK"
  BY <1>2
<1> HIDE DEF dying, survivors
<1> QED  BY <1>1, <1>5, <1>6, <1>7, CollectStep

(* The listed nodes have all handles of new objects: these survive. *)
LEMMA ScavengeStep ==
  ASSUME IndInv, Scavenge
  PROVE  IndInv'
<1> USE DEF IndInv
<1> DEFINE listed == Range(new_space_nodes)
           copied == held \cup ObjectsOf({n \in listed :
             IsStrongRetainer(n) \/ (IsWeakRetainer(n) /\ ~ independent[n])})
           dying == {n \in listed : /\ independent[n]
                                    /\ state[n] = "WEAK"
                                    /\ object[n] \in new_space \ copied}
           survivors == (allocated \ new_space) \cup copied \cup
             ObjectsOf({n \in listed : independent[n] /\ IsWeakRetainer(n)})
<1>1. /\ Running /\ MarkPending(dying) /\ BeginRound("SCAVENGER", survivors)
      /\ UNCHANGED <<object, independent, blocks, lists, created, free,
                     number_of_weak_handles, held>>
  BY DEF Scavenge
<1>2. listed \subseteq Nodes
  BY SMT DEF TypeOK, Range
<1>3. \A n \in Nodes : IsRetainer(n) => IsStrongRetainer(n) \/ IsWeakRetainer(n)
  BY DEF TypeOK, States, IsRetainer, IsStrongRetainer, IsWeakRetainer
<1>4. ASSUME NEW n \in Nodes, IsRetainer(n)
      PROVE  object[n] \in survivors
  <2>1. object[n] \in allocated
    BY <1>4 DEF HandlesKeepObjects
  <2>2. object[n] \in new_space => n \in listed
    BY <1>4 DEF NewSpaceNodesComplete
  <2> QED  BY <1>3, <1>4, <2>1, <2>2 DEF ObjectsOf
<1>5. survivors \in SUBSET Objects /\ held \subseteq survivors
  <2>1. \A n \in listed : IsStrongRetainer(n) \/ IsWeakRetainer(n) => object[n] \in Objects
    BY <1>2 DEF HandlesKeepObjects, TypeOK, IsRetainer, IsStrongRetainer, IsWeakRetainer
  <2> QED  BY <2>1 DEF ObjectsOf, TypeOK
<1>6. dying \in SUBSET Nodes /\ \A n \in dying : state[n] = "WEAK"
  BY <1>2
<1> HIDE DEF dying, survivors
<1> QED  BY <1>1, <1>4, <1>5, <1>6, CollectStep

(* The innermost round goes on, or ends. *)
LEMMA InnermostFacts ==
  ASSUME TypeOK, RoundInv, rounds # <<>>
  PROVE  /\ Head(rounds) = rounds[1] /\ rounds[1] \in Rounds
         /\ rounds[1].callback = NULL => ~ rounds[1].stale
         /\ rounds[1].collector = "MARK_COMPACTOR" => rounds[1].index < BlockSize
         /\ rounds[1].block # NULL => rounds[1].block \in Blocks
         /\ rounds[1].callback # NULL => rounds[1].callback \in Nodes
<1>1. rounds \in Seq(Rounds)
  BY DEF TypeOK
<1>2. Head(rounds) = rounds[1] /\ rounds[1] \in Rounds /\ 1 \in DOMAIN rounds
  BY <1>1, SMT
<1>3. /\ rounds[1].block # NULL => rounds[1].block \in Blocks
      /\ rounds[1].callback # NULL => rounds[1].callback \in Nodes
  BY <1>2 DEF Rounds
<1> QED  BY <1>2, <1>3 DEF RoundInv

(* The innermost round is at another node or in a callback. *)
LEMMA ReplaceRound ==
  ASSUME TypeOK, RoundInv, rounds # <<>>, NEW q \in Rounds,
         q.callback = NULL => ~ q.stale,
         q.collector = "MARK_COMPACTOR" => q.index < BlockSize,
         rounds' = <<q>> \o Tail(rounds)
  PROVE  rounds' \in Seq(Rounds) /\ rounds' # <<>> /\ rounds'[1] = q /\ RoundInv'
<1>1. rounds \in Seq(Rounds)
  BY DEF TypeOK
<1>2. /\ rounds' \in Seq(Rounds) /\ rounds' # <<>> /\ rounds'[1] = q
      /\ DOMAIN rounds' = DOMAIN rounds
      /\ \A i \in DOMAIN rounds : i # 1 => rounds'[i] = rounds[i]
  BY <1>1, SMT
<1> QED  BY <1>2, SMT DEF RoundInv

(* The innermost round is over: the one around it is stale. *)
LEMMA DropRound ==
  ASSUME TypeOK, RoundInv, rounds # <<>>, rounds' = Tail(rounds)
  PROVE  rounds' \in Seq(Rounds) /\ RoundInv' /\ PendingInv'
<1>1. rounds \in Seq(Rounds)
  BY DEF TypeOK
<1>2. /\ rounds' \in Seq(Rounds)
      /\ \A i \in DOMAIN rounds' : i \in Nat \ {0} /\ i + 1 \in DOMAIN rounds /\ i + 1 > 1
                                   /\ rounds'[i] = rounds[i + 1]
  BY <1>1, SMT
<1>3. \A i \in DOMAIN rounds' :
        /\ rounds'[i].stale /\ rounds'[i].callback # NULL
        /\ rounds'[i].collector = "MARK_COMPACTOR" => rounds'[i].index < BlockSize
  BY <1>2 DEF RoundInv
<1>4. RoundInv'
  BY <1>3 DEF RoundInv
<1>5. rounds' # <<>> => rounds'[1].stale
  <2>1. rounds' # <<>> => 1 \in DOMAIN rounds'
    BY <1>2, SMT
  <2> QED  BY <1>3, <2>1
<1>6. PendingInv'
  BY <1>5 DEF PendingInv
<1> QED  BY <1>2, <1>4, <1>6

(* A round that goes on leaves behind the node that it is at, only. *)
IsNext(r, q) ==
  /\ q \in Rounds /\ q.collector = r.collector /\ q.callback = NULL /\ q.stale = r.stale
  /\ q.collector = "MARK_COMPACTOR" => q.index < BlockSize
  /\ r.collector = "MARK_COMPACTOR" =>
       \A n \in Nodes : Ahead(r, n) /\ n # <<r.block, r.index>> => Ahead(q, n)

(* A round may go on by one. *)
LEMMA IndexedRound ==
  ASSUME NEW r \in Rounds
  PROVE  [r EXCEPT !.index = @ + 1, !.callback = NULL] \in Rounds
<1> DEFINE k == r.index + 1
<1>1. k \in Nat
  BY SMT DEF Rounds
<1> HIDE DEF k
<1>2. [r EXCEPT !.index = k, !.callback = NULL] \in Rounds
  BY <1>1 DEF Rounds
<1> QED  BY <1>2 DEF k

(* Advance leads to the next node, in the next block after the last one. *)
LEMMA AdvanceFacts ==
  ASSUME TypeOK, NEW r \in Rounds,
         r.collector = "MARK_COMPACTOR" => r.block \in Blocks /\ r.index < BlockSize
  PROVE  IsNext(r, Advance(r))
<1>1. /\ r.index \in Nat /\ BlockSize \in Nat \ {0} /\ next_used \in Links
      /\ r.collector \in {"SCAVENGER", "MARK_COMPACTOR"}
  BY BlockSizeAssumption, LinkTypes DEF Rounds
<1>2. CASE r.collector = "SCAVENGER"
  <2> DEFINE q == [r EXCEPT !.index = @ + 1, !.callback = NULL]
  <2>1. Advance(r) = q
    BY <1>2 DEF Advance
  <2>2. q.collector = r.collector /\ q.callback = NULL /\ q.stale = r.stale
    BY DEF Rounds
  <2>3. q \in Rounds
    BY IndexedRound
  <2> HIDE DEF q
  <2> QED  BY <1>2, <2>1, <2>2, <2>3 DEF IsNext
<1>3. CASE r.collector = "MARK_COMPACTOR" /\ r.index + 1 < BlockSize
  <2> DEFINE q == [r EXCEPT !.index = @ + 1, !.callback = NULL]
  <2>1. Advance(r) = q
    BY <1>3 DEF Advance
  <2>2. /\ q \in Rounds /\ q.collector = r.collector /\ q.callback = NULL
        /\ q.stale = r.stale /\ q.index = r.index + 1 /\ q.block = r.block
    <3>1. /\ q.collector = r.collector /\ q.callback = NULL
          /\ q.stale = r.stale /\ q.index = r.index + 1 /\ q.block = r.block
      BY DEF Rounds
    <3>2. q \in Rounds
      BY IndexedRound
    <3> QED  BY <3>1, <3>2
  <2> HIDE DEF q
  <2>3. ASSUME NEW n \in Nodes, Ahead(r, n), n # <<r.block, r.index>>
        PROVE  Ahead(q, n)
    <3>1. n[2] \in Int /\ n = <<n[1], n[2]>>
      BY NodeFacts, SMT
    <3>2. n[1] = r.block => n[2] # r.index
      BY <2>3, <3>1
    <3> QED  BY <1>1, <2>2, <2>3, <3>1, <3>2, SMT DEF Ahead
  <2> QED  BY <1>3, <2>1, <2>2, <2>3 DEF IsNext
<1>4. CASE r.collector = "MARK_COMPACTOR" /\ ~ (r.index + 1 < BlockSize)
  <2> DEFINE q == [r EXCEPT !.index = 0, !.block = next_used[r.block], !.callback = NULL]
  <2>1. Advance(r) = q
    BY <1>4 DEF Advance
  <2>2. next_used[r.block] \in Blocks \cup {NULL}
    BY <1>1, <1>4 DEF Links
  <2>3. /\ q \in Rounds /\ q.collector = r.collector /\ q.callback = NULL
        /\ q.stale = r.stale /\ q.index = 0 /\ q.block = next_used[r.block]
    BY <2>2 DEF Rounds
  <2> HIDE DEF q
  <2>4. ASSUME NEW n \in Nodes, Ahead(r, n), n # <<r.block, r.index>>
        PROVE  Ahead(q, n)
    <3>1. n[2] \in 0 .. BlockSize - 1 /\ n = <<n[1], n[2]>>
      BY NodeFacts
    <3>2. n[1] = r.block => n[2] # r.index
      BY <2>4, <3>1
    <3>3. n[1] = r.block => ~ (n[2] >= r.index)
      BY <1>1, <1>4, <3>1, <3>2, SMT
    <3>4. n[1] \in Reach(next_used, next_used[r.block])
      BY <2>4, <3>3 DEF Ahead
    <3>5. next_used[r.block] # NULL
      BY <1>1, <3>4, ReachSplit
    <3>6. n[1] = q.block \/ n[1] \in Reach(next_used, next_used[q.block])
      BY <1>1, <2>2, <2>3, <3>4, <3>5, ReachSplit
    <3>7. n[2] >= 0
      BY <1>1, <3>1, SMT
    <3> QED  BY <2>3, <3>5, <3>6, <3>7 DEF Ahead
  <2> QED  BY <1>1, <1>4, <2>1, <2>3, <2>4, SMT DEF IsNext
<1> QED  BY <1>1, <1>2, <1>3, <1>4

(* A round that skips a node or calls its callback keeps the invariant. *)
LEMMA ProcessNodeStep ==
  ASSUME IndInv, ProcessNode
  PROVE  IndInv'
<1> USE DEF IndInv
<1> DEFINE r == Head(rounds)
           n == NodeAt(r)
<1>1. /\ rounds # <<>> /\ r.callback = NULL /\ ~ IsDone(r)
      /\ UNCHANGED <<object, independent, blocks, lists, created, free,
                     number_of_weak_handles, heap>>
  BY DEF ProcessNode, Running
<1>2. /\ r = rounds[1] /\ r \in Rounds /\ ~ r.stale
      /\ r.collector = "MARK_COMPACTOR" => r.index < BlockSize
      /\ r.block # NULL => r.block \in Blocks
      /\ r.collector \in {"SCAVENGER", "MARK_COMPACTOR"} /\ r.index \in Nat
  BY <1>1, InnermostFacts DEF Rounds
<1>3. r.collector = "MARK_COMPACTOR" => r.block \in Blocks /\ n = <<r.block, r.index>>
  BY <1>1, <1>2 DEF IsDone, NodeAt
<1>4. n \in Nodes
  <2>1. CASE r.collector = "MARK_COMPACTOR"
    <3>1. r.index \in 0 .. BlockSize - 1
      BY <1>2, <2>1, BlockSizeAssumption, SMT
    <3> QED  BY <1>3, <2>1, <3>1, NodeFacts
  <2>2. CASE r.collector = "SCAVENGER"
    <3>1. new_space_nodes \in Seq(Nodes) /\ r.index < Len(new_space_nodes)
      BY <1>1, <1>2, <2>2, SMT DEF IsDone, TypeOK
    <3>2. new_space_nodes[r.index + 1] \in Nodes
      BY <1>2, <3>1, SMT
    <3> QED  BY <2>2, <3>2 DEF NodeAt
  <2> QED  BY <1>2, <2>1, <2>2
<1>5. IsNext(r, Advance(r))
  BY <1>2, <1>3, AdvanceFacts
<1>6. CASE \/ r.collector = "SCAVENGER" /\ ~ independent[n]
           \/ state[n] # "PENDING"
  <2>1. rounds' = <<Advance(r)>> \o Tail(rounds) /\ UNCHANGED state
    BY <1>6 DEF ProcessNode
  <2>2. rounds' \in Seq(Rounds) /\ rounds' # <<>> /\ rounds'[1] = Advance(r) /\ RoundInv'
    <3> DEFINE q == Advance(r)
    <3> HIDE DEF q
    <3>1. IsNext(r, q) /\ rounds' = <<q>> \o Tail(rounds)
      BY <1>5, <2>1 DEF q
    <3>2. /\ q \in Rounds /\ (q.callback = NULL => ~ q.stale)
          /\ q.collector = "MARK_COMPACTOR" => q.index < BlockSize
      BY <1>2, <3>1 DEF IsNext
    <3>3. rounds' \in Seq(Rounds) /\ rounds' # <<>> /\ rounds'[1] = q /\ RoundInv'
      BY <1>1, <3>1, <3>2, ReplaceRound
    <3> QED  BY <3>3 DEF q
  <2>3. PendingInv'
    <3>1. ASSUME r.collector = "MARK_COMPACTOR", NEW m \in Nodes, state[m] = "PENDING"
          PROVE  Ahead(Advance(r), m)
      <4>1. Ahead(r, m) /\ m # n
        BY <1>1, <1>2, <1>6, <3>1 DEF PendingInv
      <4> QED  BY <1>3, <1>5, <3>1, <4>1 DEF IsNext
    <3>2. next_used' = next_used /\ state' = state
      BY <1>1, <2>1 DEF blocks
    <3> QED  BY <1>5, <2>2, <3>1, <3>2 DEF PendingInv, Ahead, IsNext
  <2>4. TypeOK'
    BY <1>1, <2>1, <2>2 DEF TypeOK, blocks, lists, heap
  <2>5. BlockInv' /\ FreeInv' /\ NewSpaceNodesComplete' /\ WeakHandlesCounted'
    BY <1>1, <2>1, SameNodes, SameLists, SameWeak DEF heap
  <2>6. HandlesKeepObjects'
    BY <1>1, <2>1 DEF HandlesKeepObjects, IsRetainer, heap
  <2> QED  BY <2>2, <2>3, <2>4, <2>5, <2>6
<1>7. CASE ~ (\/ r.collector = "SCAVENGER" /\ ~ independent[n]
              \/ state[n] # "PENDING")
  <2>1. /\ state' = [state EXCEPT ![n] = "NEAR_DEATH"]
        /\ rounds' = <<[r EXCEPT !.callback = n]>> \o Tail(rounds)
    BY <1>7 DEF ProcessNode
  <2> DEFINE q == [r EXCEPT !.callback = n]
  <2>2. /\ q \in Rounds /\ q.callback = n /\ q.collector = r.collector
        /\ q.index = r.index /\ q.block = r.block /\ q.stale = r.stale
    BY <1>2, <1>4 DEF Rounds
  <2>3. rounds' = <<q>> \o Tail(rounds)
    BY <2>1
  <2> HIDE DEF q
  <2>4. rounds' \in Seq(Rounds) /\ rounds' # <<>> /\ rounds'[1] = q /\ RoundInv'
    BY <1>1, <1>2, <2>2, <2>3, ReplaceRound
  <2>5. /\ state' \in [Nodes -> States] /\ state'[n] = "NEAR_DEATH" /\ state[n] = "PENDING"
        /\ \A m \in Nodes : m # n => state'[m] = state[m]
    BY <1>4, <1>7, <2>1 DEF TypeOK, States
  <2>6. PendingInv'
    <3>1. ASSUME r.collector = "MARK_COMPACTOR", NEW m \in Nodes, state'[m] = "PENDING"
          PROVE  Ahead(r, m)
      BY <1>1, <1>2, <2>5, <3>1 DEF PendingInv
    <3>2. next_used' = next_used
      BY <1>1 DEF blocks
    <3> QED  BY <1>3, <2>2, <2>4, <2>5, <3>1, <3>2 DEF PendingInv, Ahead
  <2>7. TypeOK'
    BY <1>1, <2>4, <2>5 DEF TypeOK, blocks, lists, heap
  <2>8. /\ \A m \in Nodes : state'[m] = "FREE" <=> state[m] = "FREE"
        /\ \A m \in Nodes : state'[m] \in {"WEAK", "PENDING", "NEAR_DEATH"} <=>
                            state[m] \in {"WEAK", "PENDING", "NEAR_DEATH"}
    BY <2>5
  <2>9. BlockInv' /\ FreeInv' /\ NewSpaceNodesComplete' /\ WeakHandlesCounted'
    BY <1>1, <2>8, SameNodes, SameLists, SameWeak DEF heap
  <2>10. HandlesKeepObjects'
    BY <1>1, <2>8 DEF HandlesKeepObjects, IsRetainer, heap
  <2> QED  BY <2>4, <2>6, <2>7, <2>9, <2>10
<1> QED  BY <1>6, <1>7

(* A round that goes on or stops after a callback keeps the invariant. *)
LEMMA CallbackReturnsStep ==
  ASSUME IndInv, CallbackReturns
  PROVE  IndInv'
<1> USE DEF IndInv
<1> DEFINE r == Head(rounds)
<1>1. /\ rounds # <<>> /\ r.callback # NULL /\ state[r.callback] # "NEAR_DEATH"
      /\ rounds' = Returned(r) \o Tail(rounds)
      /\ UNCHANGED <<nodes, blocks, lists, created, free, number_of_weak_handles, heap>>
  BY DEF CallbackReturns
<1>2. /\ r = rounds[1] /\ r \in Rounds /\ r.callback \in Nodes
      /\ r.collector = "MARK_COMPACTOR" => r.index < BlockSize
      /\ r.block # NULL => r.block \in Blocks
  BY <1>1, InnermostFacts
<1>3. UNCHANGED <<state, object, next_used, new_space>>
  BY <1>1 DEF nodes, blocks, heap
<1>4. rounds' \in Seq(Rounds) /\ RoundInv' /\ PendingInv'
  <2>1. CASE r.stale
    <3>1. rounds \in Seq(Rounds) /\ Returned(r) = <<>>
      BY <2>1 DEF TypeOK, Returned
    <3>2. rounds' = Tail(rounds)
      BY <1>1, <3>1, SMT
    <3> QED  BY <1>1, <3>2, DropRound
  <2>2. CASE ~ r.stale /\ r.collector = "MARK_COMPACTOR"
    <3>1. r.callback = <<r.block, r.index>> /\ state[r.callback] # "PENDING"
      BY <1>1, <1>2, <2>2 DEF PendingInv
    <3>2. r.block \in Blocks
      BY <1>2, <3>1, SMT DEF Nodes
    <3> DEFINE q == Advance(r)
    <3>3. IsNext(r, q)
      BY <1>2, <2>2, <3>2, AdvanceFacts
    <3>4. rounds' = <<q>> \o Tail(rounds)
      BY <1>1, <2>2 DEF Returned
    <3>5. \A n \in Nodes : state[n] = "PENDING" => Ahead(q, n)
      <4> SUFFICES ASSUME NEW n \in Nodes, state[n] = "PENDING"
                   PROVE  Ahead(q, n)
        OBVIOUS
      <4>1. Ahead(r, n) /\ n # <<r.block, r.index>>
        BY <1>1, <1>2, <2>2, <3>1 DEF PendingInv
      <4> QED  BY <2>2, <3>3, <4>1 DEF IsNext
    <3> HIDE DEF q
    <3>6. /\ q \in Rounds /\ q.callback = NULL /\ ~ q.stale
          /\ q.collector = "MARK_COMPACTOR" => q.index < BlockSize
      BY <2>2, <3>3 DEF IsNext
    <3>7. rounds' \in Seq(Rounds) /\ rounds' # <<>> /\ rounds'[1] = q /\ RoundInv'
      BY <1>1, <3>4, <3>6, ReplaceRound
    <3>8. PendingInv'
      BY <1>3, <3>5, <3>6, <3>7 DEF PendingInv, Ahead
    <3> QED  BY <3>7, <3>8
  <2>3. CASE ~ r.stale /\ r.collector # "MARK_COMPACTOR"
    <3> DEFINE q == Advance(r)
    <3>1. IsNext(r, q)
      BY <1>2, <2>3, AdvanceFacts
    <3>2. rounds' = <<q>> \o Tail(rounds)
      BY <1>1, <2>3 DEF Returned
    <3> HIDE DEF q
    <3>3. q \in Rounds /\ q.collector # "MARK_COMPACTOR" /\ ~ q.stale
      BY <2>3, <3>1 DEF IsNext
    <3>4. rounds' \in Seq(Rounds) /\ rounds' # <<>> /\ rounds'[1] = q /\ RoundInv'
      BY <1>1, <3>2, <3>3, ReplaceRound
    <3> QED  BY <3>3, <3>4 DEF PendingInv
  <2> QED  BY <2>1, <2>2, <2>3
<1>5. TypeOK'
  BY <1>1, <1>4 DEF TypeOK, nodes, blocks, lists, heap
<1>6. BlockInv' /\ FreeInv' /\ NewSpaceNodesComplete' /\ WeakHandlesCounted'
  BY <1>1, <1>3, SameNodes, SameLists, SameWeak
<1>7. HandlesKeepObjects'
  BY <1>1 DEF HandlesKeepObjects, IsRetainer, nodes, heap
<1> QED  BY <1>4, <1>5, <1>6, <1>7

(* What stays of new_space_nodes_ is what the flags say. *)
LEMMA FinishRoundStep ==
  ASSUME IndInv, FinishRound
  PROVE  IndInv'
<1> USE DEF IndInv
<1> DEFINE old == new_space_nodes
           stay == {i \in DOMAIN old : StaysListed(old[i])}
<1>1. PICK from \in [1 .. Cardinality(stay) -> stay] :
        /\ Range(from) = stay
        /\ \A i, j \in DOMAIN from : i < j => from[i] < from[j]
        /\ new_space_nodes' = [i \in DOMAIN from |-> old[from[i]]]
  BY DEF FinishRound
<1>2. /\ rounds # <<>>
      /\ in_new_space_list' = [n \in Nodes |->
           IF n \in Range(old) THEN StaysListed(n) ELSE in_new_space_list[n]]
      /\ rounds' = Tail(rounds)
      /\ UNCHANGED <<nodes, blocks, created, free, number_of_weak_handles, heap>>
  BY DEF FinishRound, Running
<1>3. UNCHANGED <<state, object, new_space, allocated>>
  BY <1>2 DEF nodes, heap
<1>4. /\ old \in Seq(Nodes) /\ Len(old) \in Nat /\ DOMAIN old = 1 .. Len(old)
      /\ \A i \in DOMAIN old : old[i] \in Nodes
      /\ IsInjective(old)
  BY SMT DEF TypeOK, NewSpaceNodesComplete
<1>5. Cardinality(stay) \in Nat
  <2>1. IsFiniteSet(1 .. Len(old))
    BY <1>4, FS_Interval, SMT
  <2>2. IsFiniteSet(stay)
    BY <1>4, <2>1, FS_Subset
  <2> QED  BY <2>2, FS_CardinalityType
<1>6. /\ stay \subseteq DOMAIN old
      /\ \A i \in DOMAIN from : from[i] \in stay /\ old[from[i]] \in Nodes
                                /\ StaysListed(old[from[i]])
      /\ DOMAIN from = 1 .. Cardinality(stay)
  BY <1>4
<1>7. \A i \in stay : \E j \in DOMAIN from : from[j] = i
  BY <1>1 DEF Range
<1> DEFINE new == new_space_nodes'
<1>8. DOMAIN new = DOMAIN from /\ \A i \in DOMAIN from : new[i] = old[from[i]]
  BY <1>1
<1>9. new \in Seq(Nodes)
  BY <1>1, <1>5, <1>6, SMT
<1>10. IsInjective(new)
  <2> SUFFICES ASSUME NEW i \in DOMAIN from, NEW j \in DOMAIN from, new[i] = new[j]
               PROVE  i = j
    BY <1>8 DEF IsInjective
  <2>1. from[i] \in DOMAIN old /\ from[j] \in DOMAIN old /\ old[from[i]] = old[from[j]]
    BY <1>6, <1>8
  <2>2. from[i] = from[j] /\ from[i] \in Int
    BY <1>4, <2>1, SMT DEF IsInjective
  <2>3. i \in Int /\ j \in Int
    BY <1>5, <1>6, SMT
  <2> QED  BY <1>1, <2>2, <2>3, SMT
<1>11. \A n \in Nodes : n \in Range(new) <=> n \in Range(old) /\ StaysListed(n)
  <2>1. ASSUME NEW n \in Range(new)
        PROVE  n \in Range(old) /\ StaysListed(n)
    BY <1>6, <1>8 DEF Range
  <2>2. ASSUME NEW n \in Range(old), StaysListed(n)
        PROVE  n \in Range(new)
    <3>1. PICK i \in DOMAIN old : old[i] = n
      BY DEF Range
    <3>2. i \in stay
      BY <2>2, <3>1
    <3> QED  BY <1>7, <1>8, <3>1, <3>2, SMT DEF Range
  <2> QED  BY <2>1, <2>2
<1> HIDE DEF new
<1>12. /\ in_new_space_list' \in [Nodes -> BOOLEAN]
       /\ \A n \in Nodes : in_new_space_list'[n] <=> n \in Range(new)
  <2>1. \A n \in Nodes : StaysListed(n) \in BOOLEAN
    BY DEF StaysListed
  <2>2. in_new_space_list \in [Nodes -> BOOLEAN]
    BY DEF TypeOK
  <2>3. in_new_space_list' \in [Nodes -> BOOLEAN]
    BY <1>2, <2>1, <2>2
  <2> QED  BY <1>2, <1>11, <2>3 DEF NewSpaceNodesComplete
<1>13. ASSUME NEW n \in Nodes, IsRetainer(n)', object'[n] \in new_space'
       PROVE  n \in Range(new)
  <2>1. IsRetainer(n) /\ object[n] \in new_space
    BY <1>3, <1>13 DEF IsRetainer
  <2> QED  BY <1>11, <2>1 DEF NewSpaceNodesComplete, StaysListed
<1>14. NewSpaceNodesComplete'
  BY <1>10, <1>12, <1>13 DEF NewSpaceNodesComplete, new
<1>15. rounds' \in Seq(Rounds) /\ RoundInv' /\ PendingInv'
  BY <1>2, DropRound
<1>16. TypeOK'
  BY <1>2, <1>9, <1>12, <1>15 DEF TypeOK, nodes, blocks, heap, new
<1>17. BlockInv' /\ FreeInv' /\ WeakHandlesCounted'
  BY <1>2, <1>3, SameNodes, SameWeak
<1>18. HandlesKeepObjects'
  BY <1>3 DEF HandlesKeepObjects, IsRetainer
<1> QED  BY <1>14, <1>15, <1>16, <1>17, <1>18

-----------------------------------------------------------------------------
(* The invariant, and what follows from it.                                *)

(* There are no handles at first. *)
LEMMA InitIndInv == Init => IndInv
<1> SUFFICES ASSUME Init PROVE IndInv
  OBVIOUS
<1>1. /\ next_used \in Links /\ first_used_block = NULL /\ \A b \in Blocks : used_nodes[b] = 0
      /\ \A n \in Nodes : state[n] = "FREE"
  BY DEF Init, Links
<1>2. TypeOK
  BY BlockSizeAssumption, SMT DEF Init, TypeOK, States
<1>3. BlockInv
  <2>1. UsedBlocks = {}
    BY <1>1, ReachSplit DEF UsedBlocks
  <2>2. \A b \in Blocks : NodesOf(b) = {}
    BY <1>1 DEF NodesOf, IsRetainer
  <2>3. Linked(next_used, prev_used, first_used_block)
    BY <1>1, <2>1 DEF Linked, UsedBlocks
  <2> QED  BY <1>1, <2>1, <2>2, <2>3, FS_EmptySet DEF BlockInv
<1>4. FreeInv
  BY SMT DEF Init, FreeInv, IsInjective, Range
<1>5. NewSpaceNodesComplete
  BY <1>1, SMT DEF Init, NewSpaceNodesComplete, IsInjective, Range, IsRetainer
<1>6. HandlesKeepObjects
  BY <1>1 DEF HandlesKeepObjects, IsRetainer
<1>7. WeakHandlesCounted
  <2>1. {n \in Nodes : IsWeakRetainer(n)} = {}
    BY <1>1 DEF IsWeakRetainer
  <2> QED  BY <2>1, FS_EmptySet DEF Init, WeakHandlesCounted
<1>8. RoundInv /\ PendingInv
  BY SMT DEF Init, RoundInv, PendingInv
<1> QED  BY <1>2, <1>3, <1>4, <1>5, <1>6, <1>7, <1>8 DEF IndInv

(* Every step keeps the invariant. *)
LEMMA NextIndInv == IndInv /\ [Next]_vars => IndInv'
<1> SUFFICES ASSUME IndInv, [Next]_vars PROVE IndInv'
  OBVIOUS
<1>1. CASE Embedder
  <2>1. ASSUME NEW o \in Objects, Create(o) \/ Allocate(o) \/ Drop(o)
        PROVE  IndInv'
    BY <2>1, CreateStep, UseHeap
  <2>2. ASSUME NEW n \in Nodes, Destroy(n) \/ MakeWeak(n) \/ ClearWeakness(n)
                                \/ MarkIndependent(n) \/ Hold(n)
        PROVE  IndInv'
    BY <2>2, DestroyStep, ChangeHandle, UseHeap
  <2> QED  BY <1>1, <2>1, <2>2 DEF Embedder
<1>2. CASE Collector
  BY <1>2, MarkCompactStep, ScavengeStep, ProcessNodeStep, CallbackReturnsStep,
     FinishRoundStep DEF Collector
<1>3. CASE UNCHANGED vars
  <2>1. UNCHANGED <<state, object, independent, in_new_space_list, used_nodes, next_used,
                    prev_used, created, first_used_block, free, new_space_nodes,
                    number_of_weak_handles, allocated, new_space, held, rounds>>
    BY <1>3 DEF vars, nodes, blocks, lists, heap
  <2>2. TypeOK'
    BY <2>1 DEF IndInv, TypeOK
  <2>3. BlockInv' /\ FreeInv' /\ NewSpaceNodesComplete' /\ WeakHandlesCounted'
    BY <2>1, SameNodes, SameLists, SameWeak DEF IndInv, blocks, lists
  <2>4. HandlesKeepObjects'
    BY <2>1 DEF IndInv, HandlesKeepObjects, IsRetainer
  <2>5. RoundInv' /\ PendingInv'
    BY <2>1, SameRounds DEF IndInv
  <2> QED  BY <2>2, <2>3, <2>4, <2>5 DEF IndInv
<1> QED  BY <1>1, <1>2, <1>3 DEF Next

(* The invariant holds in every reachable state, for any number of objects *)
(* and blocks, any block size and any nesting of collections.              *)
THEOREM Invariance == Spec => []IndInv
  BY InitIndInv, NextIndInv, PTL DEF Spec

(* Every field keeps its type: first_used_block_ is a block that exists,   *)
(* used_nodes_ never leaves 0 .. kSize and number_of_weak_handles_ never   *)
(* becomes negative.                                                       *)
THEOREM TypeCorrect == Spec => []TypeOK
<1>1. IndInv => TypeOK
  BY DEF IndInv
<1> QED  BY <1>1, Invariance, PTL

(* The object of a handle survives both collectors from Create to Destroy. *)
THEOREM ObjectsKept == Spec => []HandlesKeepObjects
<1>1. IndInv => HandlesKeepObjects
  BY DEF IndInv
<1> QED  BY <1>1, Invariance, PTL

(* new_space_nodes_ holds every handle of a new object, once, whatever     *)
(* callbacks do between a collection and the update of the list.           *)
THEOREM NewSpaceComplete == Spec => []NewSpaceNodesComplete
<1>1. IndInv => NewSpaceNodesComplete
  BY DEF IndInv
<1> QED  BY <1>1, Invariance, PTL

(* Every node is accounted for: a NodeIterator visits the blocks with      *)
(* handles, and only those, and the free list holds the other nodes.       *)
THEOREM NodesAccountedFor == Spec => []ListsAccountForNodes
<1>1. IndInv => ListsAccountForNodes
  <2> SUFFICES ASSUME IndInv PROVE ListsAccountForNodes
    OBVIOUS
  <2>1. UsedBlocks \subseteq Blocks
    BY DEF IndInv, BlockInv
  <2>2. \A b \in Blocks : b \in UsedBlocks <=> \E n \in Nodes : n[1] = b /\ IsRetainer(n)
    BY UsedFacts DEF IndInv, NodesOf
  <2>3. UsedBlocks = {b \in Blocks : \E n \in Nodes : n[1] = b /\ IsRetainer(n)}
    BY <2>1, <2>2
  <2> QED  BY <2>3 DEF IndInv, FreeInv, ListsAccountForNodes
<1> QED  BY <1>1, Invariance, PTL

(* number_of_weak_handles_ is the number of weak handles: WEAK, PENDING    *)
(* and NEAR_DEATH ones.                                                    *)
THEOREM WeakCounted == Spec => []WeakHandlesCounted
<1>1. IndInv => WeakHandlesCounted
  BY DEF IndInv
<1> QED  BY <1>1, Invariance, PTL

(* A mark-compact round that comes to its end has called every callback,   *)
(* although the callbacks relink the blocks it is walking over.            *)
THEOREM CallbacksDone == Spec => []PendingProcessed
<1>1. IndInv => PendingProcessed
  <2> SUFFICES ASSUME IndInv, ~ Running, IsDone(Head(rounds)),
                      Head(rounds).collector = "MARK_COMPACTOR"
               PROVE  \A n \in Nodes : state[n] # "PENDING"
    BY DEF PendingProcessed
  <2>1. rounds # <<>> /\ Head(rounds).callback = NULL
    BY DEF Running
  <2>2. Head(rounds) = rounds[1] /\ ~ rounds[1].stale
    BY <2>1, InnermostFacts DEF IndInv
  <2>3. rounds[1].block = NULL
    BY <2>2 DEF IsDone
  <2> QED  BY <2>1, <2>2, <2>3 DEF IndInv, PendingInv, Ahead
<1> QED  BY <1>1, Invariance, PTL
=============================================================================
