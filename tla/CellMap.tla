------------------------------ MODULE CellMap ------------------------------
(***************************************************************************)
(* Class CellMap of src/src/stm.cc, which holds the read set and the write *)
(* set of a transaction: a list of blocks of cells for the collector and   *)
(* the commit to walk, a set of the cells' locations and a map from object *)
(* addresses to cells.  The collector moves objects under all of them.     *)
(*                                                                         *)
(* A location is a pair <<block, cell>>.  The model has the read set of    *)
(* one transaction and the write set of another one.  Objects have an      *)
(* identity here; the code only sees their addresses.                      *)
(***************************************************************************)
EXTENDS Naturals, Sequences, FiniteSets

CONSTANTS
  Objects,    \* the JavaScript objects the transactions touch
  Copy,       \* the copies in the write set (all one object in this model)
  Addresses,  \* the addresses objects can have
  BlockSize,  \* CellMap::BLOCK_SIZE
  Null,       \* the null pointer
  Garbage     \* memory from malloc

ASSUME SizeAssumption == BlockSize \in Nat \ {0}
ASSUME ObjectsAssumption ==
  IsFiniteSet(Objects) /\ Copy \notin Objects /\ Null \notin Nat \X Nat

VARIABLES
  address,  \* where each object is
  map,      \* the CellMap of each set
  handle    \* history: the location that Add returned for an object

vars == <<address, map, handle>>

Sets == {"read", "write"}
All  == Objects \cup {Copy}

(* What the object's cell in a set points to: itself or its copy. *)
Redirect(s, o) == IF s = "read" THEN o ELSE Copy

Placements ==
  {p \in [All -> Addresses] : \A o, q \in All : p[o] = p[q] => o = q}

Locations == (1 .. Cardinality(Objects)) \X (1 .. BlockSize)
Cells  == [from : Addresses, to : Addresses]
Blocks == [1 .. BlockSize -> Cells \cup {Garbage}]

-----------------------------------------------------------------------------
(* The constructor leaves index_ uninitialised; `last' is the number of    *)
(* the block that last_block_address_ leads to, which need not exist yet.  *)
EmptyMap(index) ==
  [blocks |-> << >>, last |-> 1, index |-> index,
   location_set |-> {}, object_map |-> [a \in Addresses |-> Null]]

(* Faulty variant: the cells of the last block are not walked. *)
WalkedFull(m) ==
  {c \in (1 .. Len(m.blocks)) \X (1 .. BlockSize) : c[1] < m.last}

(* Faulty variant: the last block is walked as if it were full. *)
WalkedAll(m) == (1 .. Len(m.blocks)) \X (1 .. BlockSize)

(* The cells that the loops of Iterate, RebuildObjectMap, CommitChanges    *)
(* and Intersects walk: all of a block before the last one, and of the     *)
(* last one, if it exists, those below index_.                             *)
Walked(m) ==
  {c \in (1 .. Len(m.blocks)) \X (1 .. BlockSize) :
     c[1] < m.last \/ (c[1] = m.last /\ c[2] <= m.index)}

CellAt(m, c) == m.blocks[c[1]][c[2]]

IsMapped(m, location) == location \in m.location_set

GetMapping(m, a) == m.object_map[a]

(* The location of the cell that the next AddMapping fills. *)
NextLocation(m) ==
  <<m.last, IF m.last > Len(m.blocks) THEN 1 ELSE m.index + 1>>

(* Faulty variant: the list does not go on to a new block. *)
AddMappingStuck(m, from, to) ==
  LET c == NextLocation(m)
      blocks == IF m.last > Len(m.blocks)
                THEN Append(m.blocks, [i \in 1 .. BlockSize |-> Garbage])
                ELSE m.blocks
  IN  [m EXCEPT !.blocks = [blocks EXCEPT ![c[1]][c[2]] =
                              [from |-> from, to |-> to]],
                !.index = c[2],
                !.location_set = @ \cup {c},
                !.object_map[from] = IF @ = Null THEN c ELSE @]

(* AddMapping: a block is allocated when there is none to fill, and the    *)
(* list goes on to the next one when it is full.                           *)
AddMapping(m, from, to) ==
  LET c == NextLocation(m)
      blocks == IF m.last > Len(m.blocks)
                THEN Append(m.blocks, [i \in 1 .. BlockSize |-> Garbage])
                ELSE m.blocks
  IN  [m EXCEPT !.blocks = [blocks EXCEPT ![c[1]][c[2]] =
                              [from |-> from, to |-> to]],
                !.index = c[2],
                !.location_set = @ \cup {c},
                !.object_map[from] = IF @ = Null THEN c ELSE @,
                !.last = IF c[2] = BlockSize THEN @ + 1 ELSE @]

(* RebuildObjectMap: the first cell of an address counts. *)
RebuildObjectMap(m) ==
  LET Found(a) == {c \in Walked(m) : CellAt(m, c).from = a}
      First(C) == CHOOSE c \in C : \A d \in C :
                    c[1] < d[1] \/ (c[1] = d[1] /\ c[2] <= d[2])
  IN  [m EXCEPT !.object_map =
         [a \in Addresses |-> IF Found(a) = {} THEN Null ELSE First(Found(a))]]

(* VisitPointer of both pointers of every cell walked: the collector moves *)
(* what is at address a to moved[a].                                       *)
VisitPointers(m, moved) ==
  [m EXCEPT !.blocks =
     [b \in DOMAIN @ |->
        [i \in 1 .. BlockSize |->
           IF <<b, i>> \in Walked(m)
           THEN [from |-> moved[@[b][i].from], to |-> moved[@[b][i].to]]
           ELSE @[b][i]]]]

(* Faulty variant: the object map is kept. *)
IterateOnly(m, moved) == VisitPointers(m, moved)

(* Iterate: the object map is rebuilt if an original object has moved. *)
Iterate(m, moved) ==
  IF \E c \in Walked(m) : moved[CellAt(m, c).from] # CellAt(m, c).from
  THEN RebuildObjectMap(VisitPointers(m, moved))
  ELSE VisitPointers(m, moved)

(* Intersects of the map m with another one. *)
Intersects(m, other) ==
  \E c \in Walked(other) : GetMapping(m, CellAt(other, c).from) # Null

-----------------------------------------------------------------------------
TypeOK ==
  /\ address \in Placements
  /\ \A s \in Sets :
       /\ map[s].blocks \in Seq(Blocks)
       /\ map[s].last \in 1 .. Len(map[s].blocks) + 1
       /\ map[s].index \in 0 .. BlockSize
       /\ map[s].location_set \subseteq Locations
       /\ map[s].object_map \in [Addresses -> Locations \cup {Null}]
  /\ handle \in [Sets -> [Objects -> Locations \cup {Null}]]

Init ==
  /\ address \in Placements
  /\ map \in [Sets -> {EmptyMap(i) : i \in 0 .. BlockSize}]
  /\ handle = [s \in Sets |-> [o \in Objects |-> Null]]

(* ReadSet::Add or WriteSet::Add, for an object that Get did not find. *)
Add(s, o) ==
  /\ GetMapping(map[s], address[o]) = Null
  /\ map' = [map EXCEPT ![s] =
               AddMapping(@, address[o], address[Redirect(s, o)])]
  /\ handle' = [handle EXCEPT ![s][o] = NextLocation(map[s])]
  /\ UNCHANGED address

(* A collection moves objects and calls Transaction::Iterate. *)
CollectGarbage ==
  \E p \in Placements :
    LET moved == [a \in Addresses |->
          IF \E o \in All : address[o] = a
          THEN p[CHOOSE o \in All : address[o] = a]
          ELSE a]
    IN  /\ address' = p
        /\ map' = [s \in Sets |-> Iterate(map[s], moved)]
        /\ UNCHANGED handle

(* The transaction ends: ~CellMap, and a new one starts. *)
Renew(s) ==
  /\ \E i \in 0 .. BlockSize : map' = [map EXCEPT ![s] = EmptyMap(i)]
  /\ handle' = [handle EXCEPT ![s] = [o \in Objects |-> Null]]
  /\ UNCHANGED address

Next ==
  \/ \E s \in Sets, o \in Objects : Add(s, o)
  \/ CollectGarbage
  \/ \E s \in Sets : Renew(s)

Spec == Init /\ [][Next]_vars

-----------------------------------------------------------------------------
(* SAFETY.  The loops walk every cell in use once and no other, with the   *)
(* present addresses of its object and of what it is redirected to.  So    *)
(* the collector sees all pointers of a set, a commit copies every object  *)
(* back, and neither reads a cell that was never filled.                   *)
CellsComplete ==
  \A s \in Sets :
    LET Added == {o \in Objects : handle[s][o] # Null} IN
    /\ {CellAt(map[s], c) : c \in Walked(map[s])} =
         {[from |-> address[o], to |-> address[Redirect(s, o)]] : o \in Added}
    /\ Cardinality(Walked(map[s])) = Cardinality(Added)

(* SAFETY.  Get finds an object that was added, and only that, wherever    *)
(* the collector has moved it since, in the cell that Add returned, which  *)
(* is still known as one of the set.                                       *)
LookupCorrect ==
  \A s \in Sets, o \in Objects :
    /\ GetMapping(map[s], address[o]) = handle[s][o]
    /\ handle[s][o] # Null =>
         /\ IsMapped(map[s], handle[s][o])
         /\ CellAt(map[s], handle[s][o]).to = address[Redirect(s, o)]

(* SAFETY.  Intersects is exact: a commit sees a conflict if and only if   *)
(* the other transaction has added an object that this one wrote.          *)
IntersectsExact ==
  Intersects(map["read"], map["write"]) <=>
    \E o \in Objects : handle["read"][o] # Null /\ handle["write"][o] # Null
-----------------------------------------------------------------------------
(* The invariant that the proofs of the properties above need.             *)

Maps ==
  [blocks : Seq(Blocks), last : Nat, index : 0 .. BlockSize,
   location_set : SUBSET (Nat \X Nat),
   object_map : [Addresses -> (Nat \X Nat) \cup {Null}]]

(* The list ends with a block that is partly filled, or it has only full   *)
(* ones and index_ means nothing.                                          *)
WellFormed(m) ==
  /\ m \in Maps
  /\ \/ m.last = Len(m.blocks) + 1
     \/ m.last = Len(m.blocks) /\ m.last > 0 /\ m.index \in 1 .. BlockSize - 1

(* The cells in use are those of the objects added, at their addresses,    *)
(* and object_map_ knows these addresses and no others.                    *)
Represents(m, h, s, addr) ==
  /\ \A o \in Objects : h[o] # Null =>
       /\ h[o] \in Walked(m) \cap m.location_set
       /\ CellAt(m, h[o]) = [from |-> addr[o], to |-> addr[Redirect(s, o)]]
  /\ \A c \in Walked(m) : \E o \in Objects : h[o] = c
  /\ m.location_set \subseteq Walked(m)
  /\ \A o \in Objects : m.object_map[addr[o]] = h[o]
  /\ \A a \in Addresses : m.object_map[a] # Null =>
       \E o \in Objects : addr[o] = a

IndInv ==
  /\ address \in Placements
  /\ DOMAIN map = Sets
  /\ handle \in [Sets -> [Objects -> (Nat \X Nat) \cup {Null}]]
  /\ \A s \in Sets : /\ WellFormed(map[s])
                     /\ Represents(map[s], handle[s], s, address)
=============================================================================
