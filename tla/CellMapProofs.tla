--------------------------- MODULE CellMapProofs ---------------------------
(***************************************************************************)
(* Proofs that the cell maps of module CellMap are exact for any number of *)
(* objects, any block size and any sequence of relocations.                *)
(***************************************************************************)
EXTENDS CellMap, FiniteSetTheorems, TLAPS

(* Zenon is tried on the leaves that name no other prover.                 *)
USE ZenonT(30)

(* The cells that are walked, in either form of a list of blocks.          *)
LEMMA WalkedFacts ==
  ASSUME NEW m, WellFormed(m)
  PROVE  /\ Len(m.blocks) \in Nat
         /\ Walked(m) \subseteq (1 .. Len(m.blocks)) \X (1 .. BlockSize)
         /\ Walked(m) \subseteq Nat \X Nat
         /\ IsFiniteSet(Walked(m))
<1>1. Len(m.blocks) \in Nat
  BY SMT DEF WellFormed, Maps
<1>2. Walked(m) \subseteq (1 .. Len(m.blocks)) \X (1 .. BlockSize)
  BY DEF Walked
<1>3. IsFiniteSet((1 .. Len(m.blocks)) \X (1 .. BlockSize))
  <2>1. 1 \in Int /\ Len(m.blocks) \in Int /\ BlockSize \in Int
    BY <1>1, SizeAssumption, SMT
  <2>2. IsFiniteSet(1 .. Len(m.blocks)) /\ IsFiniteSet(1 .. BlockSize)
    BY <2>1, FS_Interval
  <2> QED  BY <2>2, FS_Product
<1>4. IsFiniteSet(Walked(m))
  BY <1>2, <1>3, FS_Subset
<1>5. Walked(m) \subseteq Nat \X Nat
  BY <1>1, <1>2, SizeAssumption, SMT
<1> QED  BY <1>1, <1>2, <1>4, <1>5

(* The map n is m with the cell c filled. *)
Extends(n, m, c, from, to) ==
  /\ WellFormed(n)
  /\ c \in Nat \X Nat
  /\ c \notin Walked(m)
  /\ Walked(n) = Walked(m) \cup {c}
  /\ CellAt(n, c) = [from |-> from, to |-> to]
  /\ \A d \in Walked(m) : CellAt(n, d) = CellAt(m, d)
  /\ n.location_set = m.location_set \cup {c}
  /\ \A a \in Addresses : n.object_map[a] =
       IF a = from /\ m.object_map[a] = Null THEN c ELSE m.object_map[a]

(* AddMapping fills one cell that was not in use, which the loops reach    *)
(* from then on, and leaves the others alone.                              *)
LEMMA AddMappingFacts ==
  ASSUME NEW m, WellFormed(m), NEW from \in Addresses, NEW to \in Addresses,
         NEW n, n = AddMapping(m, from, to), NEW c, c = NextLocation(m)
  PROVE  Extends(n, m, c, from, to)
<1> DEFINE cell == [from |-> from, to |-> to]
           fresh == [i \in 1 .. BlockSize |-> Garbage]
           bs == IF m.last > Len(m.blocks) THEN Append(m.blocks, fresh) ELSE m.blocks
           k == c[1]
           j == c[2]
<1>1. /\ m \in Maps /\ m.blocks \in Seq(Blocks) /\ Len(m.blocks) \in Nat
      /\ m.last \in Nat /\ m.index \in 0 .. BlockSize /\ BlockSize \in Nat \ {0}
      /\ m.location_set \subseteq Nat \X Nat
      /\ m.object_map \in [Addresses -> (Nat \X Nat) \cup {Null}]
  BY SizeAssumption, SMT DEF WellFormed, Maps
<1>2. c = <<m.last, IF m.last > Len(m.blocks) THEN 1 ELSE m.index + 1>>
  BY DEF NextLocation
<1>3. k = m.last /\ j \in 1 .. BlockSize /\ c = <<k, j>> /\ k \in Nat \ {0}
  BY <1>1, <1>2, SMT DEF WellFormed
<1>4. cell \in Cells /\ fresh \in Blocks
  BY DEF Cells, Blocks
<1>5. /\ bs \in Seq(Blocks) /\ Len(bs) = k
      /\ \A b \in 1 .. Len(m.blocks) : bs[b] = m.blocks[b] /\ b \in 1 .. Len(bs)
  <2>1. CASE m.last > Len(m.blocks)
    BY <1>1, <1>3, <1>4, <2>1, SMT DEF WellFormed
  <2>2. CASE ~ (m.last > Len(m.blocks))
    BY <1>1, <1>3, <2>2, SMT DEF WellFormed
  <2> QED  BY <2>1, <2>2
<1> DEFINE nb == [bs EXCEPT ![k][j] = cell]
<1>6. n = [m EXCEPT !.blocks = nb, !.index = j,
                    !.location_set = m.location_set \cup {c},
                    !.object_map = [m.object_map EXCEPT ![from] =
                       IF m.object_map[from] = Null THEN c ELSE m.object_map[from]],
                    !.last = IF j = BlockSize THEN m.last + 1 ELSE m.last]
  BY DEF AddMapping
<1> HIDE DEF bs, nb, cell, fresh
<1>7. /\ bs \in [1 .. k -> Blocks]
      /\ \A b \in 1 .. k : bs[b] \in [1 .. BlockSize -> Cells \cup {Garbage}]
  BY <1>1, <1>3, <1>5, SMT DEF Blocks
<1>8. /\ nb \in Seq(Blocks) /\ Len(nb) = k
      /\ nb[k][j] = cell
      /\ \A b \in 1 .. k, i \in 1 .. BlockSize : b # k \/ i # j => nb[b][i] = bs[b][i]
  <2>1. [bs[k] EXCEPT ![j] = cell] \in Blocks
    BY <1>3, <1>4, <1>7, SMT DEF Blocks
  <2>2. nb = [bs EXCEPT ![k] = [bs[k] EXCEPT ![j] = cell]]
    BY DEF nb
  <2>3. nb \in [1 .. k -> Blocks]
    BY <1>7, <2>1, <2>2
  <2>4. nb \in Seq(Blocks) /\ Len(nb) = k
    BY <1>3, <2>3, SMT
  <2>5. nb[k] = [bs[k] EXCEPT ![j] = cell] /\ bs[k] \in [1 .. BlockSize -> Cells \cup {Garbage}]
    BY <1>3, <1>7, <2>2, SMT
  <2>6. \A b \in 1 .. k : b # k => nb[b] = bs[b]
    BY <1>7, <2>2
  <2>7. nb[k][j] = cell /\ \A i \in 1 .. BlockSize : i # j => nb[k][i] = bs[k][i]
    BY <1>3, <2>5
  <2> QED  BY <2>4, <2>6, <2>7
<1>9. /\ n.blocks = nb /\ n.index = j /\ n.location_set = m.location_set \cup {c}
      /\ n.object_map = [m.object_map EXCEPT ![from] =
                       IF m.object_map[from] = Null THEN c ELSE m.object_map[from]]
      /\ n.last = IF j = BlockSize THEN m.last + 1 ELSE m.last
      /\ n = [blocks |-> n.blocks, last |-> n.last, index |-> n.index,
              location_set |-> n.location_set, object_map |-> n.object_map]
  BY <1>1, <1>6 DEF Maps
<1>10. c \in Nat \X Nat
  BY <1>1, <1>3, SMT
<1>11. WellFormed(n)
  <2>1. n.object_map \in [Addresses -> (Nat \X Nat) \cup {Null}]
    BY <1>1, <1>9, <1>10, SMT
  <2>2. n.last \in Nat /\ n.index \in 0 .. BlockSize
    BY <1>1, <1>3, <1>9, SMT
  <2>3. n.location_set \in SUBSET (Nat \X Nat)
    BY <1>1, <1>9, <1>10
  <2>4. n \in Maps
    BY <1>8, <1>9, <2>1, <2>2, <2>3 DEF Maps
  <2> QED  BY <1>1, <1>3, <1>8, <1>9, <2>4, SMT DEF WellFormed
<1>12. /\ \A b, i \in Nat : <<b, i>> \in Walked(m) <=>
             b \in 1 .. k /\ i \in 1 .. BlockSize /\ (b < k \/ i < j)
       /\ \A b, i \in Nat : <<b, i>> \in Walked(n) <=>
             b \in 1 .. k /\ i \in 1 .. BlockSize /\ (b < k \/ i <= j)
  <2> SUFFICES ASSUME NEW b \in Nat, NEW i \in Nat
               PROVE  /\ <<b, i>> \in Walked(m) <=>
                           b \in 1 .. k /\ i \in 1 .. BlockSize /\ (b < k \/ i < j)
                      /\ <<b, i>> \in Walked(n) <=>
                           b \in 1 .. k /\ i \in 1 .. BlockSize /\ (b < k \/ i <= j)
    OBVIOUS
  <2>1. <<b, i>> \in Walked(m) <=>
          /\ b \in 1 .. Len(m.blocks) /\ i \in 1 .. BlockSize
          /\ b < m.last \/ (b = m.last /\ i <= m.index)
    BY DEF Walked
  <2>2. <<b, i>> \in Walked(n) <=>
          /\ b \in 1 .. k /\ i \in 1 .. BlockSize
          /\ b < n.last \/ (b = n.last /\ i <= n.index)
    BY <1>8, <1>9 DEF Walked
  <2>3. <<b, i>> \in Walked(m) <=>
          b \in 1 .. k /\ i \in 1 .. BlockSize /\ (b < k \/ i < j)
    BY <1>1, <1>2, <1>3, <2>1, SMT DEF WellFormed
  <2> QED  BY <1>1, <1>3, <1>9, <2>2, <2>3, SMT
<1>13. Walked(m) \subseteq Nat \X Nat /\ Walked(n) \subseteq Nat \X Nat
  BY <1>11, WalkedFacts
<1>14. c \notin Walked(m)
  BY <1>1, <1>3, <1>12, SMT
<1>15. Walked(n) = Walked(m) \cup {c}
  <2>1. ASSUME NEW d \in Nat \X Nat
        PROVE  d \in Walked(n) <=> d \in Walked(m) \/ d = c
    <3> PICK b \in Nat, i \in Nat : d = <<b, i>>
      BY SMT
    <3> QED  BY <1>1, <1>3, <1>12, SMT
  <2> QED  BY <1>10, <1>13, <2>1
<1>16. CellAt(n, c) = cell
  BY <1>3, <1>8, <1>9 DEF CellAt
<1>17. ASSUME NEW d \in Walked(m)
       PROVE  CellAt(n, d) = CellAt(m, d)
  <2> PICK b \in Nat, i \in Nat : d = <<b, i>>
    BY <1>13, SMT
  <2>1. b \in 1 .. k /\ i \in 1 .. BlockSize /\ (b < k \/ i < j) /\ b \in 1 .. Len(m.blocks)
    BY <1>12, WalkedFacts, SMT
  <2>2. nb[b][i] = bs[b][i] /\ bs[b] = m.blocks[b]
    BY <1>1, <1>3, <1>5, <1>8, <2>1, SMT
  <2> QED  BY <1>9, <2>2 DEF CellAt
<1>18. \A a \in Addresses : n.object_map[a] =
         IF a = from /\ m.object_map[a] = Null THEN c ELSE m.object_map[a]
  BY <1>1, <1>9
<1> QED  BY <1>9, <1>10, <1>11, <1>14, <1>15, <1>16, <1>17, <1>18 DEF cell, Extends

(* The collector's walk updates the cells in use and nothing else.         *)
LEMMA VisitPointersFacts ==
  ASSUME NEW m, WellFormed(m), NEW moved \in [Addresses -> Addresses],
         \A c \in Walked(m) : CellAt(m, c) \in Cells,
         NEW n, n = VisitPointers(m, moved)
  PROVE  /\ WellFormed(n)
         /\ Walked(n) = Walked(m)
         /\ \A c \in Walked(m) : CellAt(n, c) =
              [from |-> moved[CellAt(m, c).from], to |-> moved[CellAt(m, c).to]]
         /\ n.location_set = m.location_set
         /\ n.object_map = m.object_map
<1> DEFINE nb == [b \in DOMAIN m.blocks |->
                    [i \in 1 .. BlockSize |->
                       IF <<b, i>> \in Walked(m)
                       THEN [from |-> moved[m.blocks[b][i].from],
                             to |-> moved[m.blocks[b][i].to]]
                       ELSE m.blocks[b][i]]]
<1>1. /\ m \in Maps /\ m.blocks \in Seq(Blocks) /\ Len(m.blocks) \in Nat
      /\ DOMAIN m.blocks = 1 .. Len(m.blocks)
  BY SMT DEF WellFormed, Maps
<1>2. n = [m EXCEPT !.blocks = nb]
  BY DEF VisitPointers
<1>3. ASSUME NEW b \in 1 .. Len(m.blocks)
      PROVE  nb[b] \in Blocks
  <2>1. ASSUME NEW i \in 1 .. BlockSize, <<b, i>> \in Walked(m)
        PROVE  [from |-> moved[m.blocks[b][i].from],
                to |-> moved[m.blocks[b][i].to]] \in Cells
    <3>1. m.blocks[b][i] \in Cells
      BY <2>1 DEF CellAt
    <3> QED  BY <3>1 DEF Cells
  <2>2. m.blocks[b] \in [1 .. BlockSize -> Cells \cup {Garbage}]
    BY <1>1, SMT DEF Blocks
  <2> QED  BY <1>1, <2>1, <2>2 DEF Blocks
<1>4. nb \in Seq(Blocks) /\ Len(nb) = Len(m.blocks)
  <2>1. nb \in [1 .. Len(m.blocks) -> Blocks]
    BY <1>1, <1>3
  <2> HIDE DEF nb
  <2> QED  BY <1>1, <2>1, SMT
<1>5. ASSUME NEW c \in Walked(m)
      PROVE  nb[c[1]][c[2]] = [from |-> moved[CellAt(m, c).from],
                               to |-> moved[CellAt(m, c).to]]
  <2> PICK b \in 1 .. Len(m.blocks), i \in 1 .. BlockSize : c = <<b, i>>
    BY WalkedFacts, SMT
  <2> QED  BY <1>1 DEF CellAt
<1> HIDE DEF nb
<1>6. /\ n.blocks = nb /\ n.last = m.last /\ n.index = m.index
      /\ n.location_set = m.location_set /\ n.object_map = m.object_map
      /\ n = [blocks |-> n.blocks, last |-> n.last, index |-> n.index,
              location_set |-> n.location_set, object_map |-> n.object_map]
  BY <1>1, <1>2 DEF Maps
<1>7. n \in Maps
  BY <1>1, <1>4, <1>6 DEF Maps
<1>8. WellFormed(n)
  BY <1>4, <1>6, <1>7 DEF WellFormed
<1>9. Walked(n) = Walked(m)
  BY <1>4, <1>6 DEF Walked
<1> QED  BY <1>5, <1>6, <1>8, <1>9 DEF CellAt

(* The map n is m with an exact object_map_. *)
Rebuilt(n, m) ==
  /\ WellFormed(n)
  /\ Walked(n) = Walked(m)
  /\ \A c \in Walked(m) : CellAt(n, c) = CellAt(m, c)
  /\ n.location_set = m.location_set
  /\ \A c \in Walked(m) : CellAt(m, c).from \in Addresses =>
       n.object_map[CellAt(m, c).from] = c
  /\ \A a \in Addresses : n.object_map[a] # Null =>
       \E c \in Walked(m) : CellAt(m, c).from = a

(* The rebuilt map leads from each original's address to its cell.         *)
LEMMA RebuildFacts ==
  ASSUME NEW m, WellFormed(m),
         \A c, d \in Walked(m) : CellAt(m, c).from = CellAt(m, d).from => c = d,
         NEW n, n = RebuildObjectMap(m)
  PROVE  Rebuilt(n, m)
<1> DEFINE Found(a) == {c \in Walked(m) : CellAt(m, c).from = a}
           First(C) == CHOOSE c \in C : \A d \in C :
                         c[1] < d[1] \/ (c[1] = d[1] /\ c[2] <= d[2])
           om == [a \in Addresses |-> IF Found(a) = {} THEN Null ELSE First(Found(a))]
<1>1. m \in Maps /\ Walked(m) \subseteq Nat \X Nat
  BY WalkedFacts DEF WellFormed
<1>2. n = [m EXCEPT !.object_map = om]
  BY DEF RebuildObjectMap
<1>3. ASSUME NEW c \in Walked(m)
      PROVE  First({c}) = c
  <2>1. c[1] \in Nat /\ c[2] \in Nat
    BY <1>1
  <2>2. \E x \in {c} : \A d \in {c} : x[1] < d[1] \/ (x[1] = d[1] /\ x[2] <= d[2])
    BY <2>1, SMT
  <2> QED  BY <2>2
<1>4. ASSUME NEW c \in Walked(m)
      PROVE  Found(CellAt(m, c).from) = {c}
  OBVIOUS
<1>5. ASSUME NEW c \in Walked(m), CellAt(m, c).from \in Addresses
      PROVE  om[CellAt(m, c).from] = c
  BY <1>3, <1>4, <1>5
<1>6. ASSUME NEW a \in Addresses
      PROVE  \/ om[a] = Null
             \/ \E c \in Walked(m) : CellAt(m, c).from = a /\ om[a] = c
  <2>1. CASE Found(a) = {}
    BY <2>1
  <2>2. CASE Found(a) # {}
    <3> PICK c \in Walked(m) : CellAt(m, c).from = a
      BY <2>2
    <3> QED  BY <1>5
  <2> QED  BY <2>1, <2>2
<1>7. om \in [Addresses -> (Nat \X Nat) \cup {Null}]
  BY <1>1, <1>6, SMT
<1> HIDE DEF om
<1>8. /\ n.blocks = m.blocks /\ n.last = m.last /\ n.index = m.index
      /\ n.location_set = m.location_set /\ n.object_map = om
      /\ n = [blocks |-> n.blocks, last |-> n.last, index |-> n.index,
              location_set |-> n.location_set, object_map |-> n.object_map]
  BY <1>1, <1>2 DEF Maps
<1>9. WellFormed(n)
  BY <1>1, <1>7, <1>8 DEF WellFormed, Maps
<1>10. Walked(n) = Walked(m) /\ \A c \in Walked(m) : CellAt(n, c) = CellAt(m, c)
  BY <1>8 DEF Walked, CellAt
<1> QED  BY <1>5, <1>6, <1>8, <1>9, <1>10 DEF Rebuilt

(* What Add has returned for each object, if anything. *)
Handles == [Objects -> (Nat \X Nat) \cup {Null}]

(* An empty map represents a set to which nothing was added.               *)
LEMMA EmptyMapFacts ==
  ASSUME NEW i \in 0 .. BlockSize, NEW s \in Sets, NEW addr \in Placements
  PROVE  /\ WellFormed(EmptyMap(i))
         /\ Represents(EmptyMap(i), [o \in Objects |-> Null], s, addr)
<1> DEFINE m == EmptyMap(i)
<1>1. /\ m.blocks = << >> /\ m.last = 1 /\ m.index = i
      /\ m.location_set = {} /\ m.object_map = [a \in Addresses |-> Null]
  BY DEF EmptyMap
<1>2. Len(m.blocks) = 0 /\ m.blocks \in Seq(Blocks)
  BY <1>1, SMT
<1>3. m \in Maps
  BY <1>2 DEF EmptyMap, Maps
<1>4. WellFormed(m)
  BY <1>1, <1>2, <1>3, SMT DEF WellFormed
<1>5. Walked(m) = {}
  BY <1>2, SMT DEF Walked
<1>6. \A o \in Objects : addr[o] \in Addresses
  BY DEF Placements, All
<1> HIDE DEF m
<1>7. Represents(m, [o \in Objects |-> Null], s, addr)
  BY <1>1, <1>5, <1>6 DEF Represents
<1> QED  BY <1>4, <1>7 DEF m

(* Add records an object that the map does not know yet.                   *)
LEMMA AddRepresents ==
  ASSUME NEW m, WellFormed(m), NEW h \in Handles, NEW s \in Sets,
         NEW addr \in Placements, Represents(m, h, s, addr),
         NEW o \in Objects, m.object_map[addr[o]] = Null,
         NEW n, n = AddMapping(m, addr[o], addr[Redirect(s, o)]),
         NEW c, c = NextLocation(m)
  PROVE  /\ WellFormed(n)
         /\ [h EXCEPT ![o] = c] \in Handles
         /\ Represents(n, [h EXCEPT ![o] = c], s, addr)
<1> DEFINE g == [h EXCEPT ![o] = c]
<1>1. /\ \A q \in Objects : addr[q] \in Addresses /\ addr[Redirect(s, q)] \in Addresses
      /\ \A q, r \in Objects : addr[q] = addr[r] => q = r
  BY DEF Placements, All, Redirect
<1>2. /\ WellFormed(n)
      /\ c \in Nat \X Nat
      /\ c \notin Walked(m)
      /\ Walked(n) = Walked(m) \cup {c}
      /\ CellAt(n, c) = [from |-> addr[o], to |-> addr[Redirect(s, o)]]
      /\ \A d \in Walked(m) : CellAt(n, d) = CellAt(m, d)
      /\ n.location_set = m.location_set \cup {c}
      /\ \A a \in Addresses : n.object_map[a] =
           IF a = addr[o] /\ m.object_map[a] = Null THEN c ELSE m.object_map[a]
  <2>1. addr[o] \in Addresses /\ addr[Redirect(s, o)] \in Addresses
    BY <1>1
  <2>2. Extends(n, m, c, addr[o], addr[Redirect(s, o)])
    BY <2>1, AddMappingFacts
  <2> QED  BY <2>2 DEF Extends
<1>3. h[o] = Null /\ g[o] = c /\ \A q \in Objects : q # o => g[q] = h[q]
  BY DEF Represents, Handles
<1>4. g \in Handles
  BY <1>2 DEF Handles
<1> HIDE DEF g
<1>5. ASSUME NEW q \in Objects, g[q] # Null
      PROVE  /\ g[q] \in Walked(n) \cap n.location_set
             /\ CellAt(n, g[q]) = [from |-> addr[q], to |-> addr[Redirect(s, q)]]
  BY <1>2, <1>3, <1>5, SMT DEF Represents
<1>6. ASSUME NEW d \in Walked(n)
      PROVE  \E q \in Objects : g[q] = d
  <2>1. CASE d = c
    BY <1>3, <2>1
  <2>2. CASE d \in Walked(m)
    <3> PICK q \in Objects : h[q] = d
      BY <2>2 DEF Represents
    <3>1. q # o
      BY <1>2, <1>3, <2>2, WalkedFacts, ObjectsAssumption
    <3> QED  BY <1>3, <3>1
  <2> QED  BY <1>2, <2>1, <2>2
<1>7. n.location_set \subseteq Walked(n)
  BY <1>2 DEF Represents
<1>8. ASSUME NEW q \in Objects
      PROVE  n.object_map[addr[q]] = g[q]
  BY <1>1, <1>2, <1>3, SMT DEF Represents
<1>9. ASSUME NEW a \in Addresses, n.object_map[a] # Null
      PROVE  \E q \in Objects : addr[q] = a
  BY <1>2, <1>9 DEF Represents
<1>10. Represents(n, g, s, addr)
  BY <1>5, <1>6, <1>7, <1>8, <1>9 DEF Represents
<1> QED  BY <1>2, <1>4, <1>10 DEF g

(* The collector's map of old addresses to new ones. *)
Moved(addr, p) ==
  [a \in Addresses |-> IF \E o \in All : addr[o] = a
                       THEN p[CHOOSE o \in All : addr[o] = a]
                       ELSE a]

(* The map leads from where an object was to where it is. *)
LEMMA MovedFacts ==
  ASSUME NEW addr \in Placements, NEW p \in Placements
  PROVE  /\ Moved(addr, p) \in [Addresses -> Addresses]
         /\ \A o \in All : Moved(addr, p)[addr[o]] = p[o]
<1>1. ASSUME NEW o \in All
      PROVE  /\ addr[o] \in Addresses
             /\ (CHOOSE q \in All : addr[q] = addr[o]) = o
  BY DEF Placements
<1>2. ASSUME NEW a \in Addresses
      PROVE  Moved(addr, p)[a] \in Addresses
  <2>1. CASE \E o \in All : addr[o] = a
    <3> PICK o \in All : addr[o] = a
      BY <2>1
    <3> QED  BY <1>1, <2>1 DEF Moved, Placements
  <2>2. CASE ~ \E o \in All : addr[o] = a
    BY <2>2 DEF Moved
  <2> QED  BY <2>1, <2>2
<1>3. ASSUME NEW o \in All
      PROVE  Moved(addr, p)[addr[o]] = p[o]
  BY <1>1 DEF Moved
<1>4. Moved(addr, p) \in [Addresses -> Addresses]
  BY <1>2 DEF Moved
<1> QED  BY <1>3, <1>4

(* Iterate keeps up with the objects.  If it does not rebuild object_map_, *)
(* no object of the set has moved, and no other one has come to the        *)
(* address of one of them.                                                 *)
LEMMA IterateRepresents ==
  ASSUME NEW m, WellFormed(m), NEW h \in Handles, NEW s \in Sets,
         NEW addr \in Placements, Represents(m, h, s, addr),
         NEW p \in Placements, NEW n, n = Iterate(m, Moved(addr, p))
  PROVE  WellFormed(n) /\ Represents(n, h, s, p)
<1> DEFINE moved == Moved(addr, p)
           v == VisitPointers(m, moved)
<1>1. /\ moved \in [Addresses -> Addresses]
      /\ \A o \in Objects : moved[addr[o]] = p[o]
      /\ \A o \in Objects : moved[addr[Redirect(s, o)]] = p[Redirect(s, o)]
  BY MovedFacts, SMT DEF All, Redirect
<1>2. /\ \A o \in Objects : addr[o] \in Addresses /\ addr[Redirect(s, o)] \in Addresses
      /\ \A o \in Objects : p[o] \in Addresses
      /\ \A q, r \in Objects : p[q] = p[r] => q = r
      /\ \A q, r \in Objects : addr[q] = addr[r] => q = r
  BY DEF Placements, All, Redirect
<1> HIDE DEF moved
<1>3. ASSUME NEW c \in Walked(m)
      PROVE  \E o \in Objects :
               /\ h[o] = c /\ h[o] # Null
               /\ CellAt(m, c) = [from |-> addr[o], to |-> addr[Redirect(s, o)]]
  <2>1. PICK o \in Objects : h[o] = c
    BY DEF Represents
  <2>2. c # Null
    BY WalkedFacts, ObjectsAssumption
  <2> QED  BY <2>1, <2>2 DEF Represents
<1>4. \A c \in Walked(m) : CellAt(m, c) \in Cells
  BY <1>2, <1>3, SMT DEF Cells
<1>5. /\ WellFormed(v)
      /\ Walked(v) = Walked(m)
      /\ \A c \in Walked(m) : CellAt(v, c) =
           [from |-> moved[CellAt(m, c).from], to |-> moved[CellAt(m, c).to]]
      /\ v.location_set = m.location_set
      /\ v.object_map = m.object_map
  BY <1>1, <1>4, VisitPointersFacts, Zenon
<1> HIDE DEF v
<1>6. ASSUME NEW o \in Objects, h[o] # Null
      PROVE  /\ h[o] \in Walked(m) \cap m.location_set
             /\ CellAt(m, h[o]) = [from |-> addr[o], to |-> addr[Redirect(s, o)]]
             /\ CellAt(v, h[o]) = [from |-> p[o], to |-> p[Redirect(s, o)]]
  <2>1. /\ h[o] \in Walked(m) \cap m.location_set
        /\ CellAt(m, h[o]) = [from |-> addr[o], to |-> addr[Redirect(s, o)]]
    BY <1>6 DEF Represents
  <2>2. CellAt(v, h[o]) =
          [from |-> moved[CellAt(m, h[o]).from], to |-> moved[CellAt(m, h[o]).to]]
    BY <1>5, <2>1
  <2> QED  BY <1>1, <2>1, <2>2, SMT
<1>7. ASSUME NEW o \in Objects, h[o] # Null
       PROVE  CellAt(m, h[o]).from = addr[o] /\ CellAt(v, h[o]).from = p[o]
  <2>1. CellAt(m, h[o]) = [from |-> addr[o], to |-> addr[Redirect(s, o)]]
    BY <1>6, <1>7
  <2>2. CellAt(v, h[o]) = [from |-> p[o], to |-> p[Redirect(s, o)]]
    BY <1>6, <1>7
  <2> QED  BY <2>1, <2>2, SMT
<1>8. \A c \in Walked(v) : \E o \in Objects : h[o] = c
  BY <1>5 DEF Represents
<1>9. v.location_set \subseteq Walked(v)
  BY <1>5 DEF Represents
<1>10. CASE \E c \in Walked(m) : moved[CellAt(m, c).from] # CellAt(m, c).from
  <2>1. n = RebuildObjectMap(v)
    BY <1>10 DEF Iterate, moved, v
  <2>2. ASSUME NEW c \in Walked(v)
        PROVE  \E o \in Objects : h[o] = c /\ CellAt(v, c).from = p[o]
    <3>1. PICK o \in Objects : h[o] = c /\ h[o] # Null
      BY <1>3, <1>5
    <3> QED  BY <1>7, <3>1
  <2>3. \A c, d \in Walked(v) : CellAt(v, c).from = CellAt(v, d).from => c = d
    BY <1>2, <2>2, SMT
  <2>4. /\ WellFormed(n)
        /\ Walked(n) = Walked(v)
        /\ \A c \in Walked(v) : CellAt(n, c) = CellAt(v, c)
        /\ n.location_set = v.location_set
        /\ \A c \in Walked(v) : CellAt(v, c).from \in Addresses =>
             n.object_map[CellAt(v, c).from] = c
        /\ \A a \in Addresses : n.object_map[a] # Null =>
             \E c \in Walked(v) : CellAt(v, c).from = a
    <3>1. Rebuilt(n, v)
      BY <1>5, <2>1, <2>3, RebuildFacts
    <3> QED  BY <3>1 DEF Rebuilt
  <2>5. ASSUME NEW o \in Objects
        PROVE  n.object_map[p[o]] = h[o]
    <3>1. CASE h[o] # Null
      <4>1. h[o] \in Walked(v) /\ CellAt(v, h[o]).from = p[o]
        BY <1>5, <1>6, <1>7, <3>1
      <4> QED  BY <1>2, <2>4, <4>1, SMT
    <3>2. CASE h[o] = Null
      <4> SUFFICES ASSUME n.object_map[p[o]] # Null
                   PROVE  FALSE
        BY <3>2
      <4>1. PICK c \in Walked(v) : CellAt(v, c).from = p[o]
        BY <1>2, <2>4
      <4>2. h[o] = c
        BY <1>2, <2>2, <4>1, SMT
      <4>3. c # Null
        BY <1>5, WalkedFacts, ObjectsAssumption
      <4> QED  BY <3>2, <4>2, <4>3
    <3> QED  BY <3>1, <3>2
  <2>6. ASSUME NEW a \in Addresses, n.object_map[a] # Null
        PROVE  \E o \in Objects : p[o] = a
    BY <2>2, <2>4, <2>6, SMT
  <2>7. ASSUME NEW o \in Objects, h[o] # Null
        PROVE  /\ h[o] \in Walked(n) \cap n.location_set
               /\ CellAt(n, h[o]) = [from |-> p[o], to |-> p[Redirect(s, o)]]
    BY <1>5, <1>6, <2>4, <2>7
  <2>8. /\ \A c \in Walked(n) : \E o \in Objects : h[o] = c
        /\ n.location_set \subseteq Walked(n)
    BY <1>8, <1>9, <2>4
  <2> QED  BY <2>4, <2>5, <2>6, <2>7, <2>8 DEF Represents
<1>11. CASE \A c \in Walked(m) : moved[CellAt(m, c).from] = CellAt(m, c).from
  <2>1. n = v
    BY <1>11 DEF Iterate, moved, v
  <2>2. ASSUME NEW o \in Objects, h[o] # Null
        PROVE  p[o] = addr[o]
    <3>1. CellAt(m, h[o]).from = addr[o] /\ h[o] \in Walked(m)
      BY <1>6, <1>7, <2>2
    <3> QED  BY <1>1, <1>11, <3>1
  <2>3. ASSUME NEW a \in Addresses, m.object_map[a] # Null
        PROVE  \E o \in Objects : addr[o] = a /\ p[o] = a /\ h[o] = m.object_map[a]
    <3>1. PICK o \in Objects : addr[o] = a
      BY <2>3 DEF Represents
    <3>2. h[o] = m.object_map[a]
      BY <3>1 DEF Represents
    <3> QED  BY <2>2, <2>3, <3>1, <3>2
  <2>4. ASSUME NEW o \in Objects
        PROVE  m.object_map[p[o]] = h[o]
    <3>1. CASE h[o] # Null
      BY <2>2, <3>1 DEF Represents
    <3>2. CASE h[o] = Null
      <4> SUFFICES ASSUME m.object_map[p[o]] # Null
                   PROVE  FALSE
        BY <3>2
      <4>1. PICK q \in Objects : p[q] = p[o] /\ h[q] = m.object_map[p[o]]
        BY <1>2, <2>3
      <4> QED  BY <1>2, <3>2, <4>1
    <3> QED  BY <3>1, <3>2
  <2>5. ASSUME NEW o \in Objects, h[o] # Null
        PROVE  /\ h[o] \in Walked(v) \cap v.location_set
               /\ CellAt(v, h[o]) = [from |-> p[o], to |-> p[Redirect(s, o)]]
    BY <1>5, <1>6, <2>5
  <2>6. \A a \in Addresses : v.object_map[a] # Null => \E o \in Objects : p[o] = a
    BY <1>5, <2>3
  <2>7. \A o \in Objects : v.object_map[p[o]] = h[o]
    BY <1>5, <2>4
  <2> QED  BY <1>5, <1>8, <1>9, <2>1, <2>5, <2>6, <2>7 DEF Represents
<1> QED  BY <1>10, <1>11

-----------------------------------------------------------------------------
(* Two new maps, with any value in index_, satisfy the invariant. *)
LEMMA InitIndInv == Init => IndInv
<1> SUFFICES ASSUME Init PROVE IndInv
  OBVIOUS
<1>1. ASSUME NEW s \in Sets
      PROVE  /\ WellFormed(map[s])
             /\ Represents(map[s], handle[s], s, address)
  <2>1. PICK i \in 0 .. BlockSize : map[s] = EmptyMap(i)
    BY DEF Init
  <2>2. handle[s] = [o \in Objects |-> Null] /\ address \in Placements
    BY DEF Init
  <2> QED  BY <2>1, <2>2, EmptyMapFacts
<1>2. handle \in [Sets -> [Objects -> (Nat \X Nat) \cup {Null}]]
  BY DEF Init
<1>3. address \in Placements /\ DOMAIN map = Sets
  BY DEF Init
<1> QED  BY <1>1, <1>2, <1>3 DEF IndInv

(* ReadSet::Add and WriteSet::Add keep the invariant. *)
LEMMA AddPreserves ==
  ASSUME IndInv, NEW s \in Sets, NEW o \in Objects, Add(s, o)
  PROVE  IndInv'
<1>1. /\ WellFormed(map[s]) /\ handle[s] \in Handles
      /\ Represents(map[s], handle[s], s, address) /\ address \in Placements
  BY DEF IndInv, Handles
<1>2. /\ map[s].object_map[address[o]] = Null
      /\ map' = [map EXCEPT ![s] =
                   AddMapping(map[s], address[o], address[Redirect(s, o)])]
      /\ handle' = [handle EXCEPT ![s] =
                      [handle[s] EXCEPT ![o] = NextLocation(map[s])]]
      /\ address' = address
  BY DEF Add, GetMapping
<1>3. /\ map'[s] = AddMapping(map[s], address[o], address[Redirect(s, o)])
      /\ handle'[s] = [handle[s] EXCEPT ![o] = NextLocation(map[s])]
      /\ DOMAIN map' = Sets
      /\ \A t \in Sets : t # s => map'[t] = map[t] /\ handle'[t] = handle[t]
  BY <1>2 DEF IndInv
<1>4. /\ WellFormed(map'[s])
      /\ [handle[s] EXCEPT ![o] = NextLocation(map[s])] \in Handles
      /\ Represents(map'[s], [handle[s] EXCEPT ![o] = NextLocation(map[s])], s, address)
  BY <1>1, <1>2, <1>3, AddRepresents
<1>5. handle' \in [Sets -> [Objects -> (Nat \X Nat) \cup {Null}]]
  <2>1. handle \in [Sets -> Handles]
    BY DEF IndInv, Handles
  <2> QED  BY <1>2, <1>4, <2>1 DEF Handles
<1>6. ASSUME NEW t \in Sets
      PROVE  WellFormed(map'[t]) /\ Represents(map'[t], handle'[t], t, address')
  <2>1. CASE t = s
    BY <1>2, <1>3, <1>4, <2>1
  <2>2. CASE t # s
    BY <1>2, <1>3, <2>2 DEF IndInv
  <2> QED  BY <2>1, <2>2
<1> QED  BY <1>1, <1>2, <1>3, <1>5, <1>6 DEF IndInv

(* A collection that calls Transaction::Iterate keeps the invariant. *)
LEMMA CollectGarbagePreserves ==
  ASSUME IndInv, CollectGarbage
  PROVE  IndInv'
<1>1. PICK p \in Placements :
        /\ address' = p
        /\ map' = [s \in Sets |-> Iterate(map[s], Moved(address, p))]
        /\ handle' = handle
  BY DEF CollectGarbage, Moved
<1>2. ASSUME NEW s \in Sets
      PROVE  WellFormed(map'[s]) /\ Represents(map'[s], handle'[s], s, address')
  <2>1. /\ WellFormed(map[s]) /\ handle[s] \in Handles
        /\ Represents(map[s], handle[s], s, address) /\ address \in Placements
    BY DEF IndInv, Handles
  <2>2. map'[s] = Iterate(map[s], Moved(address, p))
    BY <1>1
  <2>3. WellFormed(map'[s]) /\ Represents(map'[s], handle[s], s, p)
    BY <2>1, <2>2, IterateRepresents
  <2> QED  BY <1>1, <2>3
<1>3. DOMAIN map' = Sets
  BY <1>1
<1> QED  BY <1>1, <1>2, <1>3 DEF IndInv

(* The end of a transaction and the start of the next one keep it. *)
LEMMA RenewPreserves ==
  ASSUME IndInv, NEW s \in Sets, Renew(s)
  PROVE  IndInv'
<1>1. PICK i \in 0 .. BlockSize : map' = [map EXCEPT ![s] = EmptyMap(i)]
  BY DEF Renew
<1>2. /\ handle' = [handle EXCEPT ![s] = [o \in Objects |-> Null]]
      /\ address' = address /\ address \in Placements
  BY DEF Renew, IndInv
<1>3. /\ map'[s] = EmptyMap(i) /\ handle'[s] = [o \in Objects |-> Null]
      /\ DOMAIN map' = Sets
      /\ \A t \in Sets : t # s => map'[t] = map[t] /\ handle'[t] = handle[t]
  BY <1>1, <1>2 DEF IndInv
<1>4. handle' \in [Sets -> [Objects -> (Nat \X Nat) \cup {Null}]]
  BY <1>2 DEF IndInv
<1>5. ASSUME NEW t \in Sets
      PROVE  WellFormed(map'[t]) /\ Represents(map'[t], handle'[t], t, address')
  <2>1. CASE t = s
    BY <1>2, <1>3, <2>1, EmptyMapFacts, SMT
  <2>2. CASE t # s
    BY <1>2, <1>3, <2>2 DEF IndInv
  <2> QED  BY <2>1, <2>2
<1> QED  BY <1>2, <1>3, <1>4, <1>5 DEF IndInv

(* The maps stay well formed and represent what was added to them, in      *)
(* every order of Add, collections and new transactions.                   *)
THEOREM Invariance == Spec => []IndInv
<1>1. IndInv /\ [Next]_vars => IndInv'
  <2> SUFFICES ASSUME IndInv, [Next]_vars PROVE IndInv'
    OBVIOUS
  <2>1. CASE \E s \in Sets, o \in Objects : Add(s, o)
    BY <2>1, AddPreserves
  <2>2. CASE CollectGarbage
    BY <2>2, CollectGarbagePreserves
  <2>3. CASE \E s \in Sets : Renew(s)
    BY <2>3, RenewPreserves
  <2>4. CASE UNCHANGED vars
    BY <2>4 DEF vars, IndInv
  <2> QED  BY <2>1, <2>2, <2>3, <2>4 DEF Next
<1> QED  BY <1>1, InitIndInv, PTL DEF Spec

(* Get finds what was added, and only that, wherever the collector moved   *)
(* it (GetMapping and IsMapped of CellMap).                                *)
THEOREM LookupIsCorrect == Spec => []LookupCorrect
<1>1. IndInv => LookupCorrect
  <2> SUFFICES ASSUME IndInv, NEW s \in Sets, NEW o \in Objects
               PROVE  /\ map[s].object_map[address[o]] = handle[s][o]
                      /\ handle[s][o] # Null =>
                           /\ handle[s][o] \in map[s].location_set
                           /\ CellAt(map[s], handle[s][o]).to = address[Redirect(s, o)]
    BY DEF LookupCorrect, GetMapping, IsMapped
  <2>1. Represents(map[s], handle[s], s, address)
    BY DEF IndInv
  <2>2. ASSUME handle[s][o] # Null
        PROVE  /\ handle[s][o] \in map[s].location_set
               /\ CellAt(map[s], handle[s][o]) =
                    [from |-> address[o], to |-> address[Redirect(s, o)]]
    BY <2>1, <2>2 DEF Represents
  <2> QED  BY <2>1, <2>2, SMT DEF Represents
<1> QED  BY <1>1, Invariance, PTL

(* Intersects reports a conflict exactly when the sets share an object.    *)
THEOREM IntersectsIsExact == Spec => []IntersectsExact
<1>1. IndInv => IntersectsExact
  <2> SUFFICES ASSUME IndInv PROVE IntersectsExact
    OBVIOUS
  <2> DEFINE r == map["read"]
             w == map["write"]
  <2>1. /\ Represents(r, handle["read"], "read", address)
        /\ Represents(w, handle["write"], "write", address)
        /\ WellFormed(w)
    BY DEF IndInv, Sets
  <2> HIDE DEF r, w
  <2>2. \A o \in Objects : r.object_map[address[o]] = handle["read"][o]
    BY <2>1 DEF Represents
  <2>3. ASSUME NEW o \in Objects, handle["write"][o] # Null
        PROVE  /\ handle["write"][o] \in Walked(w)
               /\ CellAt(w, handle["write"][o]).from = address[o]
    <3>1. /\ handle["write"][o] \in Walked(w)
          /\ CellAt(w, handle["write"][o]) =
               [from |-> address[o], to |-> address[Redirect("write", o)]]
      BY <2>1, <2>3 DEF Represents
    <3> QED  BY <3>1, SMT
  <2>4. ASSUME NEW c \in Walked(w)
        PROVE  \E o \in Objects : handle["write"][o] = c /\ handle["write"][o] # Null
    BY <2>1, WalkedFacts, ObjectsAssumption, SMT DEF Represents
  <2>5. Intersects(r, w) <=>
          \E o \in Objects : handle["read"][o] # Null /\ handle["write"][o] # Null
    BY <2>2, <2>3, <2>4, SMT DEF Intersects, GetMapping
  <2> QED  BY <2>5 DEF IntersectsExact, r, w
<1> QED  BY <1>1, Invariance, PTL

(* Each cell in use is the cell of one object. *)
LEMMA OwnersFacts ==
  ASSUME NEW m, WellFormed(m), NEW h \in Handles, NEW s \in Sets,
         NEW addr \in Placements, Represents(m, h, s, addr)
  PROVE  /\ \A o \in Objects : h[o] # Null =>
              /\ h[o] \in Walked(m)
              /\ CellAt(m, h[o]) = [from |-> addr[o], to |-> addr[Redirect(s, o)]]
         /\ \A c \in Walked(m) : \E o \in Objects : h[o] = c /\ h[o] # Null
         /\ \A o, q \in Objects : h[o] # Null /\ h[o] = h[q] => o = q
<1>1. ASSUME NEW o \in Objects, h[o] # Null
      PROVE  /\ h[o] \in Walked(m)
             /\ CellAt(m, h[o]) = [from |-> addr[o], to |-> addr[Redirect(s, o)]]
             /\ CellAt(m, h[o]).from = addr[o]
  <2>1. /\ h[o] \in Walked(m)
        /\ CellAt(m, h[o]) = [from |-> addr[o], to |-> addr[Redirect(s, o)]]
    BY <1>1 DEF Represents
  <2> QED  BY <2>1, SMT
<1>2. \A c \in Walked(m) : \E o \in Objects : h[o] = c /\ h[o] # Null
  BY WalkedFacts, ObjectsAssumption, SMT DEF Represents
<1>3. ASSUME NEW o \in Objects, NEW q \in Objects, h[o] # Null, h[o] = h[q]
      PROVE  o = q
  <2>1. addr[o] = addr[q]
    BY <1>1, <1>3
  <2> QED  BY <2>1 DEF Placements, All
<1> QED  BY <1>1, <1>2, <1>3

(* The loops over the blocks walk the cells of the objects added, each     *)
(* once, and no other (Iterate, CommitChanges and Intersects).             *)
THEOREM CellsAreComplete == Spec => []CellsComplete
<1>1. IndInv => CellsComplete
  <2> SUFFICES ASSUME IndInv, NEW s \in Sets
               PROVE  LET Added == {o \in Objects : handle[s][o] # Null} IN
                      /\ {CellAt(map[s], c) : c \in Walked(map[s])} =
                           {[from |-> address[o], to |-> address[Redirect(s, o)]] :
                              o \in Added}
                      /\ Cardinality(Walked(map[s])) = Cardinality(Added)
    BY DEF CellsComplete
  <2> DEFINE Added == {o \in Objects : handle[s][o] # Null}
             f == [o \in Added |-> handle[s][o]]
             Cell(o) == [from |-> address[o], to |-> address[Redirect(s, o)]]
  <2>1. /\ WellFormed(map[s]) /\ handle[s] \in Handles
        /\ Represents(map[s], handle[s], s, address) /\ address \in Placements
    BY DEF IndInv, Handles
  <2>2. /\ \A o \in Added : /\ handle[s][o] \in Walked(map[s])
                            /\ CellAt(map[s], handle[s][o]) = Cell(o)
        /\ \A c \in Walked(map[s]) : \E o \in Added : handle[s][o] = c
        /\ \A o, q \in Added : handle[s][o] = handle[s][q] => o = q
    BY <2>1, OwnersFacts, SMT
  <2>3. IsFiniteSet(Added)
    BY ObjectsAssumption, FS_Subset
  <2>4. f \in Bijection(Added, Walked(map[s]))
    <3> HIDE DEF Added
    <3>1. f \in Injection(Added, Walked(map[s]))
      BY <2>2 DEF Injection, IsInjective
    <3>2. f \in Surjection(Added, Walked(map[s]))
      BY <2>2 DEF Surjection
    <3> QED  BY <3>1, <3>2 DEF Bijection
  <2>5. Cardinality(Walked(map[s])) = Cardinality(Added)
    BY <2>3, <2>4, FS_Bijection DEF ExistsBijection
  <2>6. {CellAt(map[s], c) : c \in Walked(map[s])} = {Cell(o) : o \in Added}
    <3> HIDE DEF Added, Cell
    <3> QED  BY <2>2, SMT
  <2> QED  BY <2>5, <2>6
<1> QED  BY <1>1, Invariance, PTL

(* There are no more blocks than objects: every block has a cell in use,   *)
(* and the cells have different objects.                                   *)
THEOREM TypeCorrect == Spec => []TypeOK
<1>1. IndInv => TypeOK
  <2> SUFFICES ASSUME IndInv PROVE TypeOK
    OBVIOUS
  <2>1. ASSUME NEW s \in Sets
        PROVE  /\ map[s].blocks \in Seq(Blocks)
               /\ map[s].last \in 1 .. Len(map[s].blocks) + 1
               /\ map[s].index \in 0 .. BlockSize
               /\ map[s].location_set \subseteq Locations
               /\ map[s].object_map \in [Addresses -> Locations \cup {Null}]
               /\ handle[s] \in [Objects -> Locations \cup {Null}]
    <3> DEFINE m == map[s]
               h == handle[s]
               Last == 1 .. Len(m.blocks)
               owner == [b \in Last |-> CHOOSE o \in Objects : h[o] = <<b, 1>>]
    <3>1. /\ WellFormed(m) /\ h \in Handles
          /\ Represents(m, h, s, address) /\ address \in Placements
      BY DEF IndInv, Handles
    <3> HIDE DEF m, h
    <3>2. /\ m.blocks \in Seq(Blocks) /\ Len(m.blocks) \in Nat
          /\ m.last \in 1 .. Len(m.blocks) + 1 /\ m.index \in 0 .. BlockSize
          /\ m.object_map \in [Addresses -> (Nat \X Nat) \cup {Null}]
      BY <3>1, SMT DEF WellFormed, Maps
    <3>3. ASSUME NEW b \in Last
          PROVE  <<b, 1>> \in Walked(m)
      BY <3>1, <3>2, SizeAssumption, SMT DEF WellFormed, Walked
    <3>4. ASSUME NEW b \in Last
          PROVE  owner[b] \in Objects /\ h[owner[b]] = <<b, 1>>
      BY <3>1, <3>3 DEF Represents
    <3>5. owner \in Injection(Last, Objects)
      <4>1. owner \in [Last -> Objects]
        BY <3>4
      <4>2. ASSUME NEW a \in Last, NEW b \in Last, owner[a] = owner[b]
            PROVE  a = b
        <5> HIDE DEF owner
        <5>1. <<a, 1>> = <<b, 1>>
          BY <3>4, <4>2
        <5> QED  BY <5>1
      <4> HIDE DEF owner
      <4> QED  BY <4>1, <4>2 DEF Injection, IsInjective
    <3>6. Cardinality(Last) <= Cardinality(Objects) /\ Cardinality(Objects) \in Nat
      <4> HIDE DEF owner
      <4> QED  BY <3>5, ObjectsAssumption, FS_Injection, FS_CardinalityType
    <3>7. Cardinality(Last) = Len(m.blocks)
      BY <3>2, FS_Interval, SMT
    <3>8. Walked(m) \subseteq Locations
      <4>1. Walked(m) \subseteq Last \X (1 .. BlockSize)
        BY <3>1, WalkedFacts
      <4> QED  BY <3>2, <3>6, <3>7, <4>1, SMT DEF Locations
    <3>9. m.location_set \subseteq Locations
      BY <3>1, <3>8 DEF Represents
    <3>10. \A o \in Objects : h[o] \in Locations \cup {Null}
      BY <3>1, <3>8 DEF Represents
    <3>11. \A a \in Addresses : m.object_map[a] \in Locations \cup {Null}
      BY <3>1, <3>10, SMT DEF Represents
    <3>12. /\ m.object_map \in [Addresses -> Locations \cup {Null}]
           /\ h \in [Objects -> Locations \cup {Null}]
      BY <3>1, <3>2, <3>10, <3>11 DEF Handles
    <3> QED  BY <3>2, <3>9, <3>12 DEF m, h
  <2>2. handle \in [Sets -> [Objects -> Locations \cup {Null}]]
    BY <2>1 DEF IndInv
  <2> QED  BY <2>1, <2>2 DEF TypeOK, IndInv
<1> QED  BY <1>1, Invariance, PTL
=============================================================================
