------------------------- MODULE HeapMarkingProofs -------------------------
(***************************************************************************)
(* Proofs about module HeapMarking: collections free nothing that is still *)
(* in use, for any number of objects and fields, any graph, and deques of  *)
(* any size.                                                               *)
(***************************************************************************)
EXTENDS HeapMarking, Integers, FiniteSetTheorems, TLAPS

(* Zenon is tried on the leaves that name no other prover.                 *)
USE ZenonT(30)

(* What a deque takes is among what is pushed, and something is left over  *)
(* only if the deque is full (MarkingDeque::PushGrey).                     *)
LEMMA PushedFacts ==
  ASSUME NEW D, NEW S, NEW K \in Pushed(D, S)
  PROVE  K \subseteq S /\ (K = S \/ Cardinality(D \cup K) = Room)
BY DEF Pushed

(* StartMarking establishes the tri-colour invariant on a white heap.      *)
LEMMA StartMarkingFacts ==
  ASSUME TypeOK, HeapInv, \A p \in Objects : colour[p] = "white", StartMarking
  PROVE  /\ colour' \in [Objects -> Colours]
         /\ deque' \subseteq Objects
         /\ overflowed' \in BOOLEAN
         /\ state' = "MARKING"
         /\ \A p \in Objects \ allocated : colour'[p] = "white"
         /\ \A p \in Objects : colour'[p] # "black"
         /\ \A p \in deque' : colour'[p] = "grey"
         /\ \A p \in Objects : colour'[p] = "grey" => p \in deque' \/ overflowed'
<1> DEFINE W == roots \cap Is("white")
<1>1. W \subseteq Objects /\ W \subseteq allocated
  BY DEF HeapInv, Is
<1>2. PICK K \in Pushed({}, W) : deque' = K /\ overflowed' = (K # W)
  BY DEF StartMarking
<1>3. K \subseteq W
  BY <1>2, PushedFacts
<1>4. colour' = [p \in Objects |-> IF p \in W THEN "grey" ELSE colour[p]]
  BY DEF StartMarking, Paint
<1>5. state' = "MARKING"
  BY DEF StartMarking
<1> HIDE DEF W
<1> QED  BY <1>1, <1>2, <1>3, <1>4, <1>5 DEF Colours, TypeOK

(* The body of the loop of Step and Hurry.                                 *)
LEMMA ScanFacts ==
  ASSUME TypeOK, HeapInv, IsMarking, IncrementalInv, NEW o \in Objects, Scan(o)
  PROVE  /\ o \in deque /\ o \in allocated
         /\ colour' = [p \in Objects |-> IF p = o THEN "black"
                         ELSE IF p \in WhiteChildren(o) THEN "grey"
                         ELSE colour[p]]
         /\ deque' \subseteq Objects
         /\ overflowed' \in BOOLEAN
         /\ \A p \in deque' : colour'[p] = "grey"
         /\ \A p \in Objects : colour'[p] = "grey" => p \in deque' \/ overflowed'
         /\ \A p \in WhiteChildren(o) :
              p \in allocated /\ colour[p] = "white" /\ Points(o, p)
<1> DEFINE W == WhiteChildren(o)
<1>1. o \in deque /\ colour[o] = "grey" /\ o \in allocated
  BY DEF Scan, IncrementalInv, HeapInv
<1>2. W \subseteq Objects /\ \A p \in W : colour[p] = "white" /\ Points(o, p)
  BY DEF WhiteChildren, Is
<1>3. W \subseteq allocated
  BY <1>1, <1>2, ObjectsAssumption, SMT DEF Points, HeapInv
<1>4. PICK K \in Pushed(deque \ {o}, W) :
        /\ deque' = (deque \ {o}) \cup K
        /\ overflowed' = (overflowed \/ K # W)
  BY DEF Scan
<1>5. K \subseteq W
  BY <1>4, PushedFacts
<1>6. colour' = [p \in Objects |-> IF p = o THEN "black"
                         ELSE IF p \in W THEN "grey" ELSE colour[p]]
  BY <1>1, <1>2 DEF Scan, Paint
<1>7. o \notin W
  BY <1>1, <1>2
<1> HIDE DEF W
<1>8. deque \subseteq Objects /\ overflowed \in BOOLEAN
  BY DEF TypeOK
<1>9. \A p \in deque' : colour'[p] = "grey"
  BY <1>2, <1>4, <1>5, <1>6, <1>7, <1>8 DEF IncrementalInv
<1>10. \A p \in Objects : colour'[p] = "grey" => p \in deque' \/ overflowed'
  BY <1>1, <1>2, <1>4, <1>6, <1>8 DEF IncrementalInv
<1>11. deque' \subseteq Objects /\ overflowed' \in BOOLEAN
  BY <1>2, <1>4, <1>5, <1>8
<1> QED  BY <1>1, <1>2, <1>3, <1>6, <1>9, <1>10, <1>11 DEF W

(* It keeps black objects from pointing to white ones.                     *)
LEMMA ScanKeepsColours ==
  ASSUME TypeOK, HeapInv, IsMarking, IncrementalInv, NEW o \in Objects, Scan(o)
  PROVE  \A p \in Objects, g \in Fields :
           colour'[p] = "black" /\ field[p][g] \in Objects =>
             colour'[field[p][g]] # "white"
<1> SUFFICES ASSUME NEW p \in Objects, NEW g \in Fields, NEW q \in Objects,
                    colour'[p] = "black", field[p][g] = q
             PROVE  colour'[q] # "white"
  OBVIOUS
<1>1. CASE p = o
  <2>1. Points(o, q)
    BY <1>1 DEF Points
  <2>2. colour[q] = "white" => q \in WhiteChildren(o)
    BY <2>1 DEF WhiteChildren, Is
  <2> QED  BY <2>2, ScanFacts, SMT
<1>2. CASE p # o
  <2>1. colour[p] = "black"
    BY <1>2, ScanFacts, SMT
  <2>2. colour[q] # "white"
    BY <2>1 DEF IncrementalInv
  <2> QED  BY <2>2, ScanFacts, SMT
<1> QED  BY <1>1, <1>2

(* The body of the loops of the compactor's marking.                       *)
LEMMA VisitFacts ==
  ASSUME TypeOK, HeapInv, NEW o \in Objects, o \in allocated,
         NEW D, D \subseteq Objects, Visit(o, D)
  PROVE  /\ colour' \in [Objects -> Colours]
         /\ mc_deque' \subseteq Objects
         /\ mc_overflowed' \in BOOLEAN
         /\ D \subseteq mc_deque'
         /\ colour'[o] = "black"
         /\ \A p \in mc_deque' \ D : colour'[p] = "black"
         /\ \A p \in Objects :
              /\ colour[p] # "white" /\ p # o => colour'[p] = colour[p]
              /\ colour[p] = "white" /\ p # o /\ Points(o, p) =>
                   \/ colour'[p] = "black" /\ p \in mc_deque'
                   \/ colour'[p] = "grey" /\ mc_overflowed'
              /\ ~ Points(o, p) /\ p # o => colour'[p] = colour[p]
         /\ mc_overflowed => mc_overflowed'
         /\ \A p \in Objects : Points(o, p) => p \in allocated
<1> DEFINE W == WhiteChildren(o) \ {o}
<1>1. W \subseteq Objects /\ \A p \in Objects :
        p \in W <=> p # o /\ colour[p] = "white" /\ Points(o, p)
  BY DEF WhiteChildren, Is
<1>2. PICK K \in Pushed(D, W) :
        /\ colour' = [p \in Objects |->
                        CASE p = o \/ p \in K -> "black"
                          [] p \in WhiteChildren(o) \ (K \cup {o}) -> "grey"
                          [] OTHER -> colour[p]]
        /\ mc_deque' = D \cup K
        /\ mc_overflowed' = (mc_overflowed \/ K # W)
  BY DEF Visit
<1>3. K \subseteq W
  BY <1>2, PushedFacts
<1>4. \A p \in Objects : colour'[p] = IF p = o \/ p \in K THEN "black"
                                      ELSE IF p \in W THEN "grey" ELSE colour[p]
  BY <1>1, <1>2
<1>5. colour' \in [Objects -> Colours]
  BY <1>2, <1>4 DEF TypeOK, Colours
<1>6. \A p \in Objects : Points(o, p) => p \in allocated
  BY ObjectsAssumption DEF Points, HeapInv
<1>7. mc_overflowed' \in BOOLEAN /\ (mc_overflowed => mc_overflowed')
      /\ (K # W => mc_overflowed')
  BY <1>2 DEF TypeOK
<1> HIDE DEF W
<1>8. mc_deque' \subseteq Objects /\ D \subseteq mc_deque'
      /\ \A p \in mc_deque' \ D : p \in K
  BY <1>1, <1>2, <1>3
<1>9. colour'[o] = "black" /\ \A p \in mc_deque' \ D : colour'[p] = "black"
  BY <1>1, <1>3, <1>4, <1>8
<1>10. ASSUME NEW p \in Objects
       PROVE  /\ colour[p] # "white" /\ p # o => colour'[p] = colour[p]
              /\ colour[p] = "white" /\ p # o /\ Points(o, p) =>
                   \/ colour'[p] = "black" /\ p \in mc_deque'
                   \/ colour'[p] = "grey" /\ mc_overflowed'
              /\ ~ Points(o, p) /\ p # o => colour'[p] = colour[p]
  BY <1>1, <1>2, <1>3, <1>4, <1>7
<1> QED  BY <1>5, <1>6, <1>7, <1>8, <1>9, <1>10

(* It keeps the compactor's invariant, whether o comes from the roots or   *)
(* from the deque.                                                         *)
LEMMA VisitKeepsInv ==
  ASSUME TypeOK, HeapInv, CompactorInv, gc = "mark", field' = field,
         NEW o \in Objects, o \in allocated, Visit(o, mc_deque \ {o})
  PROVE  CompactorInv'
<1> DEFINE D == mc_deque \ {o}
<1>1. D \subseteq Objects /\ Visit(o, D)
  BY DEF TypeOK
<1> HIDE DEF D
<1>2. /\ D \subseteq mc_deque' /\ colour'[o] = "black"
      /\ \A p \in mc_deque' \ D : colour'[p] = "black"
      /\ mc_deque' \subseteq Objects
      /\ mc_overflowed => mc_overflowed'
  BY <1>1, VisitFacts
<1>3. ASSUME NEW p \in Objects
      PROVE  /\ colour[p] # "white" /\ p # o => colour'[p] = colour[p]
             /\ colour[p] = "white" /\ p # o /\ Points(o, p) =>
                  \/ colour'[p] = "black" /\ p \in mc_deque'
                  \/ colour'[p] = "grey" /\ mc_overflowed'
             /\ ~ Points(o, p) /\ p # o => colour'[p] = colour[p]
  BY <1>1, VisitFacts
<1>4. \A p \in mc_deque' : colour'[p] = "black"
  BY <1>2, <1>3 DEF CompactorInv, D
<1>5. \A p \in Objects : colour'[p] = "grey" => mc_overflowed'
  BY <1>2, <1>3 DEF CompactorInv
<1>6. ASSUME NEW p \in Objects, NEW g \in Fields, NEW q \in Objects,
             colour'[p] = "black", p \notin mc_deque', field[p][g] = q
      PROVE  colour'[q] # "white"
  <2>1. CASE q = o
    BY <2>1, <1>2
  <2>2. CASE p = o /\ q # o
    <3>1. Points(o, q)
      BY <1>6, <2>2 DEF Points
    <3> QED  BY <2>2, <3>1, <1>3
  <2>3. CASE p # o /\ q # o
    <3>1. colour[p] = "black" /\ p \notin mc_deque
      BY <1>2, <1>3, <1>6, <2>3 DEF D
    <3>2. colour[q] # "white"
      BY <1>6, <3>1 DEF CompactorInv
    <3> QED  BY <2>3, <3>2, <1>3
  <2> QED  BY <2>1, <2>2, <2>3
<1> QED  BY <1>4, <1>5, <1>6 DEF CompactorInv

(* The write barrier: a black object does not come to point to a white one *)
(* unnoticed.                                                              *)
LEMMA BarrierFacts ==
  ASSUME TypeOK, IncrementalInv, NEW o \in Objects,
         NEW v \in Objects \cup {Null}, BaseRecordWrite(o, v)
  PROVE  /\ colour' \in [Objects -> Colours]
         /\ state' \in States /\ should_hurry' \in BOOLEAN
         /\ deque' \subseteq Objects /\ overflowed' \in BOOLEAN
         /\ IsMarking' <=> IsMarking
         /\ \A p \in Objects : colour'[p] # colour[p] =>
              p = o /\ colour[p] = "black" /\ colour'[p] = "grey"
         /\ IsMarking =>
              /\ \A p \in deque' : colour'[p] = "grey"
              /\ \A p \in Objects : colour'[p] = "grey" => p \in deque' \/ overflowed'
              /\ state' = "COMPLETE" => deque' = {}
              /\ ~ (colour'[o] = "black" /\ v \in Objects /\ colour'[v] = "white")
<1>1. CASE IsMarking /\ v \in Is("white") /\ o \in Is("black")
  <2>1. PICK K \in Pushed(deque, {o}) :
          deque' = deque \cup K /\ overflowed' = (overflowed \/ K = {})
    BY <1>1 DEF BaseRecordWrite, BlackToGreyAndUnshift
  <2>2. K = {o} \/ K = {}
    <3>1. K \subseteq {o}
      BY <2>1, PushedFacts
    <3> QED  BY <3>1
  <2>3. colour' = [p \in Objects |-> IF p = o THEN "grey" ELSE colour[p]]
    BY <1>1 DEF BaseRecordWrite, BlackToGreyAndUnshift, Paint
  <2>4. state' = "MARKING" /\ should_hurry' = should_hurry
    BY <1>1 DEF BaseRecordWrite, BlackToGreyAndUnshift
  <2>5. overflowed' \in BOOLEAN /\ (overflowed => overflowed')
    BY <2>1 DEF TypeOK
  <2>6. deque' \subseteq Objects /\ deque \subseteq deque'
        /\ (\A p \in deque' : p \in deque \/ p = o) /\ (o \in deque' \/ overflowed')
    BY <2>1, <2>2 DEF TypeOK
  <2>7. \A p \in Objects : colour'[p] # colour[p] =>
          p = o /\ colour[p] = "black" /\ colour'[p] = "grey"
    BY <1>1, <2>3 DEF Is
  <2>8. \A p \in deque' : colour'[p] = "grey"
    BY <1>1, <2>3, <2>6 DEF IncrementalInv
  <2>9. \A p \in Objects : colour'[p] = "grey" => p \in deque' \/ overflowed'
    BY <1>1, <2>3, <2>5, <2>6 DEF IncrementalInv
  <2>10. colour' \in [Objects -> Colours]
    BY <2>3 DEF TypeOK, Colours
  <2> QED  BY <1>1, <2>3, <2>4, <2>5, <2>6, <2>7, <2>8, <2>9, <2>10
           DEF TypeOK, States, IsMarking
<1>2. CASE ~ (IsMarking /\ v \in Is("white") /\ o \in Is("black"))
  BY <1>2 DEF BaseRecordWrite, BlackToGreyAndUnshift, TypeOK, IncrementalInv, IsMarking, Is, incremental
<1> QED  BY <1>1, <1>2

(* Allocation: the new object is white, empty, and held by the program.    *)
LEMMA AllocatePreserves ==
  ASSUME IndInv, NEW o \in Objects, NEW tenured \in BOOLEAN, Allocate(o, tenured)
  PROVE  IndInv'
<1>1. TypeOK'
  BY DEF Allocate, incremental, compactor, IndInv, TypeOK
<1>2. HeapInv'
  BY DEF Allocate, IndInv, HeapInv
<1>3. BufferInv'
  BY ObjectsAssumption, SMT DEF Allocate, IndInv, BufferInv, TypeOK, HeapInv
<1>4. PhaseInv'
  BY DEF Allocate, incremental, IndInv, PhaseInv, IsMarking
<1>5. IncrementalInv'
  BY DEF Allocate, incremental, IndInv, IncrementalInv, IsMarking
<1>6. CompactorInv'
  BY DEF Allocate, CompactorInv
<1>7. MarksOnlyLive'
  BY DEF Allocate, MarksOnlyLive
<1> QED  BY <1>1, <1>2, <1>3, <1>4, <1>5, <1>6, <1>7 DEF IndInv

(* A load makes an object a root that an object of the heap points to.     *)
LEMMA LoadPreserves ==
  ASSUME IndInv, NEW o \in Objects, NEW f \in Fields, Load(o, f)
  PROVE  IndInv'
<1>1. TypeOK'
  BY DEF Load, spaces, incremental, compactor, IndInv, TypeOK
<1>2. HeapInv'
  BY DEF Load, spaces, IndInv, HeapInv
<1>3. BufferInv'
  BY DEF Load, spaces, IndInv, BufferInv
<1>4. PhaseInv'
  BY DEF Load, incremental, IndInv, PhaseInv, IsMarking
<1>5. IncrementalInv'
  BY DEF Load, incremental, IndInv, IncrementalInv, IsMarking
<1>6. CompactorInv'
  BY DEF Load, CompactorInv
<1>7. MarksOnlyLive'
  BY DEF Load, MarksOnlyLive
<1> QED  BY <1>1, <1>2, <1>3, <1>4, <1>5, <1>6, <1>7 DEF IndInv

(* A store: the write barrier keeps black objects from pointing to white   *)
(* ones and enters the slot into the store buffer.                         *)
LEMMA StorePreserves ==
  ASSUME IndInv, NEW o \in Objects, NEW f \in Fields, NEW v \in Objects \cup {Null},
         Store(o, f, v)
  PROVE  IndInv'
<1>a. BaseRecordWrite(o, v)
  BY DEF Store
<1>b. field' = [field EXCEPT ![o][f] = v]
      /\ field \in [Objects -> [Fields -> Objects \cup {Null}]]
  BY DEF Store, IndInv, TypeOK
<1>1. TypeOK'
  BY <1>a, <1>b, BarrierFacts, SMT DEF Store, RecordWrite, IndInv, TypeOK,
     Slots, compactor
<1>2. HeapInv'
  BY SMT DEF Store, BaseRecordWrite, BlackToGreyAndUnshift, Paint, IndInv,
     HeapInv
<1>3. BufferInv'
  BY SMT DEF Store, RecordWrite, IndInv, BufferInv
<1>4. PhaseInv'
  BY DEF Store, BaseRecordWrite, BlackToGreyAndUnshift, IsMarking, incremental, IndInv, PhaseInv
<1>5. IncrementalInv'
  <2> SUFFICES ASSUME IsMarking PROVE IncrementalInv'
    BY <1>a, BarrierFacts DEF IndInv, IncrementalInv
  <2>1. ASSUME NEW p \in Objects, NEW g \in Fields, colour'[p] = "black",
               field'[p][g] \in Objects
        PROVE  colour'[field'[p][g]] # "white"
    <3>1. colour[p] = "black"
      BY <2>1, <1>a, BarrierFacts DEF IndInv
    <3>2. CASE p = o /\ g = f
      BY <2>1, <3>2, <1>a, <1>b, BarrierFacts DEF IndInv
    <3>3. CASE ~ (p = o /\ g = f)
      <4>1. field'[p][g] = field[p][g]
        BY <3>3, <1>b
      <4> QED  BY <2>1, <3>1, <4>1, <1>a, BarrierFacts, SMT DEF IndInv, IncrementalInv
    <3> QED  BY <3>2, <3>3
  <2> QED  BY <2>1, <1>a, BarrierFacts DEF IndInv, IncrementalInv
<1>6. CompactorInv'
  BY DEF Store, CompactorInv
<1>7. MarksOnlyLive'
  BY DEF Store, MarksOnlyLive
<1> QED  BY <1>1, <1>2, <1>3, <1>4, <1>5, <1>6, <1>7 DEF IndInv

(* A handle is dropped: nothing else changes.                              *)
LEMMA ForgetPreserves ==
  ASSUME IndInv, NEW o \in Objects, Forget(o)
  PROVE  IndInv'
<1>1. TypeOK'
  BY DEF Forget, spaces, incremental, compactor, IndInv, TypeOK, States
<1>2. HeapInv'
  BY DEF Forget, spaces, IndInv, HeapInv
<1>3. BufferInv'
  BY DEF Forget, spaces, IndInv, BufferInv
<1>4. PhaseInv'
  BY DEF Forget, incremental, IndInv, PhaseInv, IsMarking
<1>5. IncrementalInv'
  BY DEF Forget, incremental, IndInv, IncrementalInv, IsMarking
<1>6. CompactorInv'
  BY DEF Forget, CompactorInv
<1>7. MarksOnlyLive'
  BY DEF Forget, MarksOnlyLive
<1> QED  BY <1>1, <1>2, <1>3, <1>4, <1>5, <1>6, <1>7 DEF IndInv

(* Marking starts when lazy sweeping has ended: every mark bit is clear.   *)
LEMMA StepSweepingPreserves ==
  ASSUME IndInv, StepSweeping
  PROVE  IndInv'
<1>a. \A p \in Objects : colour[p] = "white"
  BY DEF IndInv, StepSweeping, PhaseInv, IsMarking
<1>b. /\ colour' \in [Objects -> Colours]
      /\ deque' \subseteq Objects
      /\ overflowed' \in BOOLEAN
      /\ state' = "MARKING"
      /\ \A p \in Objects \ allocated : colour'[p] = "white"
      /\ \A p \in Objects : colour'[p] # "black"
      /\ \A p \in deque' : colour'[p] = "grey"
      /\ \A p \in Objects : colour'[p] = "grey" => p \in deque' \/ overflowed'
  BY <1>a, StartMarkingFacts DEF IndInv, StepSweeping
<1>1. TypeOK'
  BY <1>a, <1>b DEF StepSweeping, graph, spaces, compactor, IndInv,
     TypeOK, States
<1>2. HeapInv'
  BY <1>a, <1>b DEF StepSweeping, graph, spaces, IndInv, HeapInv
<1>3. BufferInv'
  BY <1>a, <1>b DEF StepSweeping, graph, spaces, IndInv, BufferInv
<1>4. PhaseInv'
  BY <1>a, <1>b DEF StepSweeping, IsMarking, PhaseInv
<1>5. IncrementalInv'
  BY <1>a, <1>b DEF IncrementalInv
<1>6. CompactorInv'
  BY <1>a, <1>b DEF StepSweeping, CompactorInv
<1>7. MarksOnlyLive'
  BY <1>a, <1>b DEF StepSweeping, MarksOnlyLive
<1> QED  BY <1>1, <1>2, <1>3, <1>4, <1>5, <1>6, <1>7 DEF IndInv

(* Marking is complete when the deque is found empty.                      *)
LEMMA StepEmptyPreserves ==
  ASSUME IndInv, StepEmpty
  PROVE  IndInv'
<1>1. TypeOK'
  BY DEF StepEmpty, MarkingComplete, graph, spaces, compactor, IndInv,
     TypeOK, States
<1>2. HeapInv'
  BY DEF StepEmpty, graph, spaces, IndInv, HeapInv
<1>3. BufferInv'
  BY DEF StepEmpty, graph, spaces, IndInv, BufferInv
<1>4. PhaseInv'
  BY DEF StepEmpty, MarkingComplete, PhaseInv, IsMarking
<1>5. IncrementalInv'
  BY DEF StepEmpty, graph, IndInv, IncrementalInv, IsMarking
<1>6. CompactorInv'
  BY DEF StepEmpty, CompactorInv
<1>7. MarksOnlyLive'
  BY DEF StepEmpty, MarksOnlyLive
<1> QED  BY <1>1, <1>2, <1>3, <1>4, <1>5, <1>6, <1>7 DEF IndInv

(* A step of the incremental marker blackens one object of its deque.      *)
LEMMA StepPreserves ==
  ASSUME IndInv, NEW o \in Objects, Step(o)
  PROVE  IndInv'
<1>a. TypeOK /\ HeapInv /\ IncrementalInv /\ IsMarking /\ Scan(o) /\ field' = field
  BY DEF Step, graph, IndInv, IsMarking
<1>b. /\ o \in allocated
      /\ colour' = [p \in Objects |-> IF p = o THEN "black"
                      ELSE IF p \in WhiteChildren(o) THEN "grey" ELSE colour[p]]
      /\ \A p \in WhiteChildren(o) : p \in allocated
  BY <1>a, ScanFacts
<1>c. /\ \A p \in deque' : colour'[p] = "grey"
      /\ \A p \in Objects : colour'[p] = "grey" => p \in deque' \/ overflowed'
      /\ \A p \in Objects, g \in Fields :
           colour'[p] = "black" /\ field[p][g] \in Objects =>
             colour'[field[p][g]] # "white"
  BY <1>a, ScanFacts, ScanKeepsColours
<1>1. TypeOK'
  BY DEF Step, Scan, MarkingComplete, Paint, Is, Pushed, WhiteChildren,
     graph, spaces, compactor, IndInv, TypeOK, Colours, States
<1>2. HeapInv'
  BY <1>a, <1>b DEF Step, HeapInv, graph, spaces
<1>3. BufferInv'
  BY DEF Step, graph, spaces, IndInv, BufferInv
<1>4. PhaseInv'
  BY DEF Step, MarkingComplete, IsMarking, PhaseInv
<1>5. IncrementalInv'
  BY <1>a, <1>c DEF Step, MarkingComplete, IncrementalInv
<1>6. CompactorInv'
  BY DEF Step, CompactorInv
<1>7. MarksOnlyLive'
  BY DEF Step, MarksOnlyLive
<1> QED  BY <1>1, <1>2, <1>3, <1>4, <1>5, <1>6, <1>7 DEF IndInv

(* A scavenge begins with nothing evacuated.                               *)
LEMMA BeginScavengePreserves ==
  ASSUME IndInv, BeginScavenge
  PROVE  IndInv'
<1>1. TypeOK'
  BY DEF BeginScavenge, graph, spaces, incremental, compactor, IndInv,
     TypeOK
<1>2. HeapInv'
  BY DEF BeginScavenge, graph, spaces, IndInv, HeapInv
<1>3. BufferInv'
  BY DEF BeginScavenge, graph, spaces, IndInv, BufferInv
<1>4. PhaseInv'
  BY DEF BeginScavenge, incremental, IndInv, PhaseInv, IsMarking
<1>5. IncrementalInv'
  BY DEF BeginScavenge, graph, incremental, IndInv, IncrementalInv,
     IsMarking
<1>6. CompactorInv'
  BY DEF BeginScavenge, CompactorInv
<1>7. MarksOnlyLive'
  BY DEF BeginScavenge, MarksOnlyLive
<1> QED  BY <1>1, <1>2, <1>3, <1>4, <1>5, <1>6, <1>7 DEF IndInv

(* A scavenge copies an object; a promoted one is old and its slots are    *)
(* entered when the scavenge ends.                                         *)
LEMMA ScavengeObjectPreserves ==
  ASSUME IndInv, NEW o \in Objects, NEW promoted \in BOOLEAN, ScavengeObject(o, promoted)
  PROVE  IndInv'
<1>1. TypeOK'
  BY DEF ScavengeObject, graph, incremental, compactor, IndInv, TypeOK
<1>2. HeapInv'
  BY DEF ScavengeObject, graph, IndInv, HeapInv
<1>3. BufferInv'
  BY DEF ScavengeObject, Scavengeable, graph, IndInv, BufferInv, TypeOK
<1>4. PhaseInv'
  BY DEF ScavengeObject, incremental, IndInv, PhaseInv, IsMarking
<1>5. IncrementalInv'
  BY DEF ScavengeObject, graph, incremental, IndInv, IncrementalInv,
     IsMarking
<1>6. CompactorInv'
  BY DEF ScavengeObject, CompactorInv
<1>7. MarksOnlyLive'
  BY DEF ScavengeObject, MarksOnlyLive
<1> QED  BY <1>1, <1>2, <1>3, <1>4, <1>5, <1>6, <1>7 DEF IndInv

(* A scavenge ends: no object that is left points to one that is gone,     *)
(* since the roots, the store buffer and the copied objects were all       *)
(* followed.                                                               *)
LEMMA FinishScavengePreserves ==
  ASSUME IndInv, FinishScavenge
  PROVE  IndInv'
<1> DEFINE dead == new_space \ evacuated
<1>a. /\ allocated' = allocated \ dead
      /\ field' = Freed(dead) /\ colour' = Paint(dead, "white")
      /\ roots' = roots /\ state' = state /\ overflowed' = overflowed
      /\ deque' = IF IsMarking THEN deque \ dead ELSE deque
  BY DEF FinishScavenge, UpdateMarkingDeque
<1>b. \A p \in dead : p \notin roots
  BY DEF FinishScavenge, Scavengeable
<1>c. ASSUME NEW p \in allocated \ dead, NEW g \in Fields, field[p][g] \in dead
      PROVE  FALSE
  <2> DEFINE q == field[p][g]
  <2>0. q \in new_space \ evacuated
    BY <1>c
  <2>1. CASE p \in evacuated
    <3>1. Points(p, q)
      BY DEF Points
    <3>2. q \in Scavengeable
      BY <2>0, <2>1, <3>1 DEF Scavengeable
    <3> QED  BY <3>2 DEF FinishScavenge
  <2>2. CASE p \notin evacuated
    <3>1. p \notin new_space
      BY <2>2
    <3>2. <<p, g>> \in store_buffer
      BY <2>0, <2>2, <3>1 DEF IndInv, BufferInv
    <3>3. q \in Scavengeable
      <4>1. <<p, g>>[1] = p /\ <<p, g>>[2] = g
        OBVIOUS
      <4> QED  BY <2>0, <3>2, <4>1 DEF Scavengeable
    <3> QED  BY <3>3 DEF FinishScavenge
  <2> QED  BY <2>1, <2>2
<1>d. \A p \in Objects :
        /\ p \in dead => colour'[p] = "white" /\ \A g \in Fields : field'[p][g] = Null
        /\ p \notin dead => colour'[p] = colour[p] /\ field'[p] = field[p]
  BY <1>a DEF Freed, Paint
<1>e. dead \subseteq Objects /\ allocated \subseteq Objects
  BY DEF IndInv, TypeOK
<1> HIDE DEF dead
<1>1. TypeOK'
  BY DEF FinishScavenge, SlotsInto, UpdateMarkingDeque, Paint, Freed,
     compactor, IndInv, TypeOK, Colours
<1>2. HeapInv'
  <2>1. \A p \in allocated \ dead, g \in Fields :
          field[p][g] \in (allocated \ dead) \cup {Null}
    BY <1>c DEF IndInv, HeapInv
  <2> QED  BY <2>1, <1>a, <1>b, <1>d, <1>e, SMT DEF IndInv, HeapInv
<1>3. BufferInv'
  BY DEF FinishScavenge, SlotsInto, Freed, Slots, IndInv, BufferInv,
     TypeOK
<1>4. PhaseInv'
  BY DEF FinishScavenge, Paint, IsMarking, IndInv, PhaseInv
<1>5. IncrementalInv'
  <2> SUFFICES ASSUME IsMarking PROVE IncrementalInv'
    BY <1>a DEF IncrementalInv, IsMarking
  <2>1. ASSUME NEW p \in Objects, NEW g \in Fields, colour'[p] = "black",
               field'[p][g] \in Objects
        PROVE  colour'[field'[p][g]] # "white"
    <3>1. p \notin dead /\ colour[p] = "black" /\ field'[p][g] = field[p][g]
      BY <2>1, <1>d
    <3>2. p \in allocated
      BY <3>1 DEF IndInv, HeapInv
    <3>3. field[p][g] \notin dead
      BY <1>c, <3>1, <3>2
    <3>4. colour[field[p][g]] # "white"
      BY <2>1, <3>1 DEF IndInv, IncrementalInv
    <3> QED  BY <2>1, <3>1, <3>3, <3>4, <1>d
  <2>2. \A p \in deque' : p \in deque \ dead /\ p \in Objects
    BY <1>a DEF IndInv, TypeOK
  <2> QED  BY <2>1, <2>2, <1>a, <1>d DEF IndInv, IncrementalInv
<1>6. CompactorInv'
  BY DEF FinishScavenge, CompactorInv
<1>7. MarksOnlyLive'
  BY DEF FinishScavenge, MarksOnlyLive
<1> QED  BY <1>1, <1>2, <1>3, <1>4, <1>5, <1>6, <1>7 DEF IndInv

(* A mark-compact collection takes over incremental marks.                 *)
LEMMA BeginWithMarksPreserves ==
  ASSUME IndInv, BeginWithMarks
  PROVE  IndInv'
<1>1. TypeOK'
  BY DEF BeginWithMarks, graph, spaces, incremental, IndInv, TypeOK
<1>2. HeapInv'
  BY DEF BeginWithMarks, graph, spaces, IndInv, HeapInv
<1>3. BufferInv'
  BY DEF BeginWithMarks, graph, spaces, IndInv, BufferInv
<1>4. PhaseInv'
  BY DEF BeginWithMarks, incremental, PhaseInv, IsMarking
<1>5. IncrementalInv'
  BY DEF BeginWithMarks, graph, incremental, IndInv, IncrementalInv
<1>6. CompactorInv'
  BY DEF BeginWithMarks, CompactorInv
<1>7. MarksOnlyLive'
  BY DEF BeginWithMarks, MarksOnlyLive
<1> QED  BY <1>1, <1>2, <1>3, <1>4, <1>5, <1>6, <1>7 DEF IndInv

(* A mark-compact collection throws incremental marks away.                *)
LEMMA BeginFromNothingPreserves ==
  ASSUME IndInv, BeginFromNothing
  PROVE  IndInv'
<1>1. TypeOK'
  BY DEF BeginFromNothing, AbortedMarks, Paint, graph, spaces, IndInv,
     TypeOK, Colours, States
<1>2. HeapInv'
  BY DEF BeginFromNothing, AbortedMarks, Paint, graph, spaces, IndInv,
     HeapInv
<1>3. BufferInv'
  BY DEF BeginFromNothing, graph, spaces, IndInv, BufferInv
<1>4. PhaseInv'
  BY DEF BeginFromNothing, PhaseInv
<1>5. IncrementalInv'
  BY DEF BeginFromNothing, IsMarking, IncrementalInv
<1>6. CompactorInv'
  BY DEF BeginFromNothing, AbortedMarks, Paint, IndInv, CompactorInv,
     PhaseInv
<1>7. MarksOnlyLive'
  BY DEF BeginFromNothing, AbortedMarks, Paint, IndInv, MarksOnlyLive,
     PhaseInv, Is
<1> QED  BY <1>1, <1>2, <1>3, <1>4, <1>5, <1>6, <1>7 DEF IndInv

(* The incremental marker is hurried to its end.                           *)
LEMMA HurryPreserves ==
  ASSUME IndInv, NEW o \in Objects, Hurry(o)
  PROVE  IndInv'
<1>a. TypeOK /\ HeapInv /\ IncrementalInv /\ IsMarking /\ Scan(o) /\ field' = field
  BY DEF Hurry, graph, IndInv, IsMarking
<1>b. /\ o \in allocated
      /\ colour' = [p \in Objects |-> IF p = o THEN "black"
                      ELSE IF p \in WhiteChildren(o) THEN "grey" ELSE colour[p]]
      /\ \A p \in WhiteChildren(o) : p \in allocated
  BY <1>a, ScanFacts
<1>c. /\ \A p \in deque' : colour'[p] = "grey"
      /\ \A p \in Objects : colour'[p] = "grey" => p \in deque' \/ overflowed'
      /\ \A p \in Objects, g \in Fields :
           colour'[p] = "black" /\ field[p][g] \in Objects =>
             colour'[field[p][g]] # "white"
  BY <1>a, ScanFacts, ScanKeepsColours
<1>1. TypeOK'
  BY DEF Hurry, Scan, Paint, Is, Pushed, WhiteChildren, graph, spaces,
     compactor, IndInv, TypeOK, Colours
<1>2. HeapInv'
  BY <1>a, <1>b DEF Hurry, HeapInv, graph, spaces
<1>3. BufferInv'
  BY DEF Hurry, graph, spaces, IndInv, BufferInv
<1>4. PhaseInv'
  BY DEF Hurry, IsMarking, compactor, IndInv, PhaseInv
<1>5. IncrementalInv'
  BY <1>a, <1>c DEF Hurry, IncrementalInv
<1>6. CompactorInv'
  BY DEF Hurry, CompactorInv
<1>7. MarksOnlyLive'
  BY DEF Hurry, MarksOnlyLive
<1> QED  BY <1>1, <1>2, <1>3, <1>4, <1>5, <1>6, <1>7 DEF IndInv

(* The compactor takes over: what the incremental deque could not hold is  *)
(* grey, and counts as overflow of the compactor's deque.                  *)
LEMMA FinalizePreserves ==
  ASSUME IndInv, Finalize
  PROVE  IndInv'
<1>1. TypeOK'
  BY DEF Finalize, graph, spaces, IndInv, TypeOK, States
<1>2. HeapInv'
  BY DEF Finalize, graph, spaces, IndInv, HeapInv
<1>3. BufferInv'
  BY DEF Finalize, graph, spaces, IndInv, BufferInv
<1>4. PhaseInv'
  BY DEF Finalize, PhaseInv
<1>5. IncrementalInv'
  BY DEF Finalize, IsMarking, IncrementalInv
<1>6. CompactorInv'
  BY DEF Finalize, IndInv, TypeOK, PhaseInv, IncrementalInv, IsMarking, CompactorInv,
     States, graph
<1>7. MarksOnlyLive'
  BY DEF Finalize, IndInv, PhaseInv, MarksOnlyLive
<1> QED  BY <1>1, <1>2, <1>3, <1>4, <1>5, <1>6, <1>7 DEF IndInv

(* The compactor marks a root and pushes what it points to.                *)
LEMMA MarkRootPreserves ==
  ASSUME IndInv, NEW o \in Objects, MarkRoot(o)
  PROVE  IndInv'
<1>a. TypeOK /\ HeapInv /\ CompactorInv /\ o \in allocated /\ Visit(o, {})
      /\ gc = "mark" /\ mc_deque = {} /\ colour[o] = "white" /\ field' = field
  BY DEF MarkRoot, IndInv, HeapInv, Is, graph
<1>1. TypeOK'
  BY DEF MarkRoot, Visit, Is, Pushed, WhiteChildren, graph, spaces,
     incremental, IndInv, TypeOK, Colours
<1>2. HeapInv'
  BY ObjectsAssumption, SMT DEF MarkRoot, Visit, Pushed, WhiteChildren, Points,
     graph, spaces, IndInv, HeapInv
<1>3. BufferInv'
  BY DEF MarkRoot, graph, spaces, IndInv, BufferInv
<1>4. PhaseInv'
  BY DEF MarkRoot, incremental, IndInv, PhaseInv
<1>5. IncrementalInv'
  BY DEF MarkRoot, incremental, IndInv, IncrementalInv, PhaseInv,
     IsMarking
<1>6. CompactorInv'
  BY <1>a, VisitKeepsInv DEF MarkRoot
<1>7. MarksOnlyLive'
  BY SMT DEF MarkRoot, Visit, Is, Pushed, WhiteChildren, Points, graph, spaces,
     incremental, IndInv, MarksOnlyLive, Live
<1> QED  BY <1>1, <1>2, <1>3, <1>4, <1>5, <1>6, <1>7 DEF IndInv

(* The compactor visits an object of its deque.                            *)
LEMMA EmptyMarkingDequePreserves ==
  ASSUME IndInv, NEW o \in Objects, EmptyMarkingDeque(o)
  PROVE  IndInv'
<1>a. TypeOK /\ HeapInv /\ CompactorInv /\ o \in allocated /\ Visit(o, mc_deque \ {o})
      /\ gc = "mark" /\ o \in mc_deque /\ colour[o] = "black" /\ field' = field
  BY DEF EmptyMarkingDeque, IndInv, HeapInv, CompactorInv, graph
<1>1. TypeOK'
  BY DEF EmptyMarkingDeque, Visit, Is, Pushed, WhiteChildren, graph,
     spaces, incremental, IndInv, TypeOK, Colours
<1>2. HeapInv'
  <2>1. mc_deque \ {o} \subseteq Objects
    BY <1>a DEF TypeOK
  <2>2. \A p \in Objects : p \notin allocated => colour'[p] = colour[p]
    BY <1>a, <2>1, VisitFacts
  <2> QED  BY <1>a, <2>2, SMT DEF EmptyMarkingDeque, HeapInv, graph, spaces
<1>3. BufferInv'
  BY DEF EmptyMarkingDeque, graph, spaces, IndInv, BufferInv
<1>4. PhaseInv'
  BY DEF EmptyMarkingDeque, incremental, IndInv, PhaseInv
<1>5. IncrementalInv'
  BY DEF EmptyMarkingDeque, incremental, IndInv, IncrementalInv, PhaseInv,
     IsMarking
<1>6. CompactorInv'
  BY <1>a, VisitKeepsInv DEF EmptyMarkingDeque
<1>7. MarksOnlyLive'
  <2> SUFFICES ASSUME ~ was_marked, NEW p \in Objects, colour'[p] # "white"
               PROVE  p \in Live
    BY DEF EmptyMarkingDeque, MarksOnlyLive, Is, Live, Points, graph
  <2>1. o \in Live
    BY <1>a DEF IndInv, MarksOnlyLive, Is
  <2>2. mc_deque \ {o} \subseteq Objects
    BY <1>a DEF TypeOK
  <2>3. CASE colour[p] # "white"
    BY <1>a, <2>3 DEF IndInv, MarksOnlyLive, Is
  <2>4. CASE colour[p] = "white" /\ p # o
    <3>1. Points(o, p)
      BY <1>a, <2>2, <2>4, VisitFacts
    <3> QED  BY <2>1, <3>1 DEF Live
  <2> QED  BY <2>1, <2>3, <2>4
<1> QED  BY <1>1, <1>2, <1>3, <1>4, <1>5, <1>6, <1>7 DEF IndInv

(* The compactor's deque is refilled with grey objects; either all of them *)
(* fit or the deque is full, and then it counts as overflowed again.       *)
LEMMA RefillMarkingDequePreserves ==
  ASSUME IndInv, RefillMarkingDeque
  PROVE  IndInv'
<1>1. TypeOK'
  BY DEF RefillMarkingDeque, Discovered, Paint, Pushed, graph, spaces,
     incremental, IndInv, TypeOK, Colours
<1>2. HeapInv'
  BY DEF RefillMarkingDeque, Discovered, Paint, Pushed, graph, spaces,
     IndInv, HeapInv
<1>3. BufferInv'
  BY DEF RefillMarkingDeque, graph, spaces, IndInv, BufferInv
<1>4. PhaseInv'
  BY DEF RefillMarkingDeque, incremental, IndInv, PhaseInv
<1>5. IncrementalInv'
  BY DEF RefillMarkingDeque, incremental, IndInv, IncrementalInv,
     PhaseInv, IsMarking
<1>6. CompactorInv'
  <2> DEFINE G == Is("grey") \cap allocated
  <2>1. PICK K \in Pushed({}, G) :
          /\ colour' = Paint(K, "black")
          /\ mc_deque' = K
          /\ mc_overflowed' = (Cardinality(K) = Room)
    BY DEF RefillMarkingDeque, Discovered
  <2>2. K \subseteq G /\ (K = G \/ Cardinality({} \cup K) = Room)
    BY <2>1, PushedFacts
  <2>3. {} \cup K = K
    OBVIOUS
  <2>4. K = G \/ mc_overflowed'
    BY <2>1, <2>2, <2>3
  <2>5. \A p \in Objects : p \in G <=> colour[p] = "grey"
    BY DEF Is, IndInv, HeapInv
  <2>6. \A p \in Objects : colour'[p] = IF p \in K THEN "black" ELSE colour[p]
    BY <2>1 DEF Paint
  <2>7. field' = field /\ mc_deque = {} /\ gc = "mark" /\ K \subseteq Objects
    BY <2>2 DEF RefillMarkingDeque, graph, Is
  <2> HIDE DEF G
  <2>8. \A p \in mc_deque' : colour'[p] = "black"
    BY <2>1, <2>6, <2>7
  <2>9. \A p \in Objects : colour'[p] = "grey" => mc_overflowed'
    BY <2>4, <2>5, <2>6
  <2>10. \A p \in Objects, g \in Fields :
           colour'[p] = "black" /\ p \notin mc_deque' /\ field[p][g] \in Objects =>
             colour'[field[p][g]] # "white"
    BY <2>1, <2>6, <2>7, SMT DEF IndInv, CompactorInv
  <2> QED  BY <2>7, <2>8, <2>9, <2>10 DEF CompactorInv
<1>7. MarksOnlyLive'
  BY SMT DEF RefillMarkingDeque, Discovered, Paint, Is, Pushed, graph, spaces,
     IndInv, MarksOnlyLive, Live, Points
<1> QED  BY <1>1, <1>2, <1>3, <1>4, <1>5, <1>6, <1>7 DEF IndInv

(* Sweeping: nothing is grey and no root is white, so what is black is     *)
(* closed under pointers.                                                  *)
LEMMA SweepSpacesPreserves ==
  ASSUME IndInv, NEW promoted \in SUBSET Survivors, SweepSpaces(promoted)
  PROVE  IndInv'
<1>a. \A p \in allocated, g \in Fields :
        colour[p] = "black" /\ field[p][g] # Null =>
          field[p][g] \in allocated /\ colour[field[p][g]] = "black"
  <2>1. \A p \in Objects : colour[p] \in {"white", "black"}
    BY DEF SweepSpaces, IndInv, CompactorInv, TypeOK, Colours
  <2>2. \A p \in Objects, g \in Fields :
          colour[p] = "black" /\ field[p][g] \in Objects =>
            colour[field[p][g]] # "white"
    BY DEF SweepSpaces, IndInv, CompactorInv
  <2> QED  BY <2>1, <2>2, SMT DEF IndInv, HeapInv, TypeOK
<1>b. roots \subseteq allocated \cap Is("black")
  BY SMT DEF SweepSpaces, IndInv, HeapInv, CompactorInv, TypeOK, Colours, Is
<1>c. /\ allocated' = allocated \cap Is("black") /\ roots' = roots
      /\ new_space' = (new_space \cap Is("black")) \ promoted
      /\ field' = Freed(allocated \ Is("black"))
      /\ colour' = [p \in Objects |-> "white"]
      /\ evacuated' = evacuated /\ gc' = "end" /\ gc = "mark"
      /\ promoted \subseteq new_space
  BY DEF SweepSpaces, Survivors
<1>d. \A p \in Objects :
        field'[p] = IF p \in allocated \ Is("black") THEN [g \in Fields |-> Null]
                    ELSE field[p]
  BY <1>c DEF Freed
<1>e. allocated \subseteq Objects /\ new_space \subseteq allocated
  BY DEF IndInv, TypeOK
<1>1. TypeOK'
  BY DEF SweepSpaces, Survivors, Freed, incremental, compactor, IndInv,
     TypeOK, Colours
<1>2. HeapInv'
  <2>1. \A p \in allocated', g \in Fields : field'[p][g] \in allocated' \cup {Null}
    BY <1>a, <1>c, <1>d, <1>e, SMT DEF Is
  <2>2. \A p \in Objects \ allocated' : \A g \in Fields : field'[p][g] = Null
    <3> SUFFICES ASSUME NEW p \in Objects, p \notin allocated', NEW g \in Fields
                 PROVE  field'[p][g] = Null
      OBVIOUS
    <3>1. CASE p \in allocated \ Is("black")
      BY <3>1, <1>d
    <3>2. CASE p \notin allocated
      BY <3>2, <1>d DEF IndInv, HeapInv
    <3> QED  BY <3>1, <3>2, <1>c
  <2> QED  BY <2>1, <2>2, <1>b, <1>c DEF HeapInv
<1>3. BufferInv'
  <2>1. evacuated' \subseteq allocated'
    BY <1>c DEF IndInv, BufferInv
  <2>2. ASSUME NEW p \in allocated' \ new_space', NEW g \in Fields,
               field'[p][g] \in new_space'
        PROVE  <<p, g>> \in store_buffer'
    <3>1. p \in Objects /\ p \in allocated /\ field'[p][g] = field[p][g]
      BY <1>c, <1>d, <1>e
    <3>2. <<p, g>> \in store_buffer \/ p \in promoted
      BY <1>c, <1>e, <2>2, <3>1 DEF IndInv, BufferInv
    <3> QED  BY <2>2, <3>1, <3>2 DEF SweepSpaces, Slots
  <2> QED  BY <2>1, <2>2, <1>c DEF IndInv, BufferInv
<1>4. PhaseInv'
  BY DEF SweepSpaces, PhaseInv
<1>5. IncrementalInv'
  BY DEF SweepSpaces, incremental, IndInv, IncrementalInv, PhaseInv,
     IsMarking
<1>6. CompactorInv'
  BY DEF SweepSpaces, CompactorInv
<1>7. MarksOnlyLive'
  BY DEF SweepSpaces, MarksOnlyLive
<1> QED  BY <1>1, <1>2, <1>3, <1>4, <1>5, <1>6, <1>7 DEF IndInv

(* The end of a collection: incremental marking may start on a heap        *)
(* without marks.                                                          *)
LEMMA EndCollectionPreserves ==
  ASSUME IndInv, EndCollection
  PROVE  IndInv'
<1>1. TypeOK'
  BY DEF EndCollection, StartMarking, Paint, Pushed, graph, spaces,
     compactor, IndInv, TypeOK, Colours, States
<1>2. HeapInv'
  BY DEF EndCollection, StartMarking, Paint, graph, spaces, IndInv,
     HeapInv
<1>3. BufferInv'
  BY DEF EndCollection, graph, spaces, IndInv, BufferInv
<1>4. PhaseInv'
  BY DEF EndCollection, StartMarking, IsMarking, IndInv, PhaseInv
<1>5. IncrementalInv'
  <2>1. CASE UNCHANGED <<state, colour, deque, overflowed>>
    BY <2>1 DEF EndCollection, IndInv, IncrementalInv, IsMarking, graph
  <2>2. CASE state' = "SWEEPING"
    BY <2>2 DEF IncrementalInv, IsMarking
  <2>3. CASE state = "STOPPED" /\ StartMarking
    <3>1. \A p \in Objects : colour[p] = "white"
      BY <2>3 DEF EndCollection, IndInv, PhaseInv, IsMarking
    <3> QED  BY <2>3, <3>1, StartMarkingFacts DEF IndInv, IncrementalInv
  <2> QED  BY <2>1, <2>2, <2>3 DEF EndCollection
<1>6. CompactorInv'
  BY DEF EndCollection, CompactorInv
<1>7. MarksOnlyLive'
  BY DEF EndCollection, MarksOnlyLive
<1> QED  BY <1>1, <1>2, <1>3, <1>4, <1>5, <1>6, <1>7 DEF IndInv

----------------------------------------------------------------------------
(* The invariant holds of an empty heap.                                   *)
LEMMA InitIndInv ==
  Init => IndInv
<1> SUFFICES ASSUME Init PROVE IndInv
  OBVIOUS
<1>1. TypeOK
  BY DEF Init, TypeOK, Colours, States
<1>2. HeapInv /\ BufferInv
  BY DEF Init, HeapInv, BufferInv
<1>3. PhaseInv
  BY DEF Init, PhaseInv
<1>4. IncrementalInv /\ CompactorInv /\ MarksOnlyLive
  BY DEF Init, IncrementalInv, CompactorInv, MarksOnlyLive, IsMarking
<1> QED  BY <1>1, <1>2, <1>3, <1>4 DEF IndInv

(* Every step of the program, of the marker and of a collection keeps it.  *)
LEMMA NextIndInv ==
  IndInv /\ [Next]_vars => IndInv'
<1> SUFFICES ASSUME IndInv, [Next]_vars PROVE IndInv'
  OBVIOUS
<1>1. CASE Program
  BY <1>1, AllocatePreserves, LoadPreserves, StorePreserves, ForgetPreserves
     DEF Program
<1>2. CASE Marker
  BY <1>2, StepSweepingPreserves, StepEmptyPreserves, StepPreserves DEF Marker
<1>3. CASE Begin
  BY <1>3, BeginScavengePreserves, BeginWithMarksPreserves,
     BeginFromNothingPreserves DEF Begin
<1>4. CASE Collection
  BY <1>4, ScavengeObjectPreserves, FinishScavengePreserves, HurryPreserves,
     MarkRootPreserves, EmptyMarkingDequePreserves, FinalizePreserves,
     RefillMarkingDequePreserves, SweepSpacesPreserves, EndCollectionPreserves
     DEF Collection
<1>5. CASE UNCHANGED vars
  BY <1>5, SMT DEF vars, graph, spaces, incremental, compactor, IndInv, TypeOK,
     HeapInv, BufferInv, PhaseInv, IncrementalInv, CompactorInv, MarksOnlyLive,
     IsMarking, Live, Is, Points
<1> QED  BY <1>1, <1>2, <1>3, <1>4, <1>5 DEF Next

(* The invariant holds of every state the heap can be in.                  *)
THEOREM InvariantHolds ==
  Spec => []IndInv
<1> QED  BY InitIndInv, NextIndInv, PTL DEF Spec

(* The variables keep their types.                                         *)
THEOREM TypeCorrect ==
  Spec => []TypeOK
<1>1. IndInv => TypeOK
  BY DEF IndInv
<1> QED  BY <1>1, InvariantHolds, PTL

(* No scavenge and no mark-compact collection frees an object that is      *)
(* still in use (FinishScavenge, SweepSpaces).                             *)
THEOREM NothingInUseIsFreed ==
  Spec => []NoDangling
<1>1. IndInv => NoDangling
  BY ObjectsAssumption DEF IndInv, TypeOK, HeapInv, NoDangling, Points
<1> QED  BY <1>1, InvariantHolds, PTL

(* Whenever no scavenge is rebuilding the store buffer, it holds every     *)
(* slot of an old object that points into new space (Heap::RecordWrite).   *)
THEOREM StoreBufferHasAllSlots ==
  Spec => []StoreBufferComplete
<1>1. IndInv => StoreBufferComplete
  BY SMT DEF IndInv, BufferInv, StoreBufferComplete, SlotsInto, Slots
<1> QED  BY <1>1, InvariantHolds, PTL

(* When marking ends, no marked object points to an unmarked one, whatever *)
(* the program stored meanwhile (IncrementalMarking::RecordWrite).         *)
THEOREM MarkingEndsClosed ==
  Spec => []MarkingClosed
<1>1. IndInv => MarkingClosed
  <2> SUFFICES ASSUME IndInv,
                      \/ gc = "mark" /\ mc_deque = {} /\ ~mc_overflowed
                      \/ gc # "mark" /\ state = "COMPLETE" /\ ~overflowed,
                      NEW o \in Objects \ Is("white"), NEW p \in WhiteChildren(o)
               PROVE  FALSE
    BY DEF MarkingClosed
  <2>1. PICK f \in Fields : field[o][f] = p
    BY DEF WhiteChildren, Points
  <2>2. p \in Objects /\ colour[p] = "white" /\ colour[o] \in {"grey", "black"}
    BY DEF WhiteChildren, Is, IndInv, TypeOK, Colours
  <2>3. CASE gc = "mark" /\ mc_deque = {} /\ ~mc_overflowed
    BY <2>1, <2>2, <2>3 DEF IndInv, CompactorInv
  <2>4. CASE gc # "mark" /\ state = "COMPLETE" /\ ~overflowed
    BY <2>1, <2>2, <2>4 DEF IndInv, IncrementalInv, IsMarking
  <2> QED  BY <2>3, <2>4
<1> QED  BY <1>1, InvariantHolds, PTL

(* The incremental marker pops only grey objects that exist, and its deque *)
(* is empty when it is complete (the ASSERTs of Step and Finalize).        *)
THEOREM MarkerPopsGrey ==
  Spec => []DequeGrey
<1>1. IndInv => DequeGrey
  BY DEF IndInv, TypeOK, HeapInv, IncrementalInv, DequeGrey, IsMarking, Is
<1> QED  BY <1>1, InvariantHolds, PTL

(* A collection that starts from nothing marks only what is reachable      *)
(* (MarkCompactCollector::Prepare, ClearMarkbits).                         *)
THEOREM OnlyLiveIsMarked ==
  Spec => []MarksOnlyLive
<1>1. IndInv => MarksOnlyLive
  BY DEF IndInv
<1> QED  BY <1>1, InvariantHolds, PTL

----------------------------------------------------------------------------
(* Collections come to an end.                                             *)

(* Counting a set whose part B is taken out or added. *)
LEMMA CountParts ==
  ASSUME NEW A, NEW B, IsFiniteSet(A), IsFiniteSet(B)
  PROVE  /\ Cardinality(A) \in Nat /\ Cardinality(B) \in Nat
         /\ B \subseteq A => Cardinality(A \ B) = Cardinality(A) - Cardinality(B)
         /\ A \cap B = {} => Cardinality(A \cup B) = Cardinality(A) + Cardinality(B)
<1>1. Cardinality(A) \in Nat /\ Cardinality(B) \in Nat /\ Cardinality({}) = 0
  BY FS_CardinalityType, FS_EmptySet
<1>2. ASSUME B \subseteq A
      PROVE  Cardinality(A \ B) = Cardinality(A) - Cardinality(B)
  <2>1. A \cap B = B
    BY <1>2
  <2> QED  BY <2>1, FS_Difference
<1>3. ASSUME A \cap B = {}
      PROVE  Cardinality(A \cup B) = Cardinality(A) + Cardinality(B)
  <2>1. Cardinality(A \cup B) = Cardinality(A) + Cardinality(B) - Cardinality(A \cap B)
    BY FS_Union
  <2>2. Cardinality(A \cap B) = 0
    BY <1>1, <1>3, Zenon
  <2> QED  BY <1>1, <2>1, <2>2, SMT
<1> QED  BY <1>1, <1>2, <1>3

(* The sets that Work counts are finite. *)
LEMMA WorkFacts ==
  ASSUME TypeOK, IsFiniteSet(Objects)
  PROVE  /\ \A S \in SUBSET Objects : IsFiniteSet(S) /\ Cardinality(S) \in Nat
         /\ Is("white") \subseteq Objects /\ Is("grey") \subseteq Objects
         /\ mc_deque \subseteq Objects /\ new_space \ evacuated \subseteq Objects
  BY FS_Subset, FS_CardinalityType DEF TypeOK, Is

(* A scavenge has one object less to copy. *)
LEMMA ScavengeAdvances ==
  ASSUME IndInv, IsFiniteSet(Objects), NEW o \in Objects, NEW promoted \in BOOLEAN,
         ScavengeObject(o, promoted)
  PROVE  Work' < Work
<1> DEFINE N == new_space \ evacuated
<1>1. /\ o \in N /\ N' = N \ {o}
      /\ Is("white")' = Is("white") /\ Is("grey")' = Is("grey")
      /\ mc_deque' = mc_deque /\ mc_overflowed' = mc_overflowed
  BY DEF ScavengeObject, Scavengeable, Is, compactor
<1>2. TypeOK
  BY DEF IndInv
<1>3. /\ IsFiniteSet(N) /\ Cardinality(N) \in Nat
      /\ Cardinality(Is("white")) \in Nat /\ Cardinality(Is("grey")) \in Nat
      /\ Cardinality(mc_deque) \in Nat
  BY <1>2, WorkFacts
<1>4. Cardinality(N \ {o}) = Cardinality(N) - 1
  BY <1>1, <1>3, FS_RemoveElement
<1>5. Work' = 4 * Cardinality(Is("white")) + 2 * Cardinality(Is("grey"))
              + Cardinality(mc_deque) + (IF mc_overflowed THEN 1 ELSE 0)
              + Cardinality(N \ {o})
  BY <1>1 DEF Work
<1> HIDE DEF N
<1> QED  BY <1>3, <1>4, <1>5, SMT DEF Work, N

(* A grey object becomes black, and white ones grey. *)
LEMMA HurryAdvances ==
  ASSUME IndInv, IsFiniteSet(Objects), NEW o \in Objects, Hurry(o)
  PROVE  Work' < Work
<1> DEFINE C == WhiteChildren(o)
           W == Is("white")
           G == Is("grey")
<1>1. TypeOK /\ o \in deque /\ state = "MARKING" /\ colour[o] = "grey"
  BY DEF IndInv, IncrementalInv, IsMarking, Hurry, Scan
<1>2. C \subseteq W /\ o \in G /\ o \notin C /\ W \subseteq Objects /\ G \subseteq Objects
  BY <1>1 DEF WhiteChildren, Is
<1>3. \A p \in Objects : colour'[p] = IF p = o THEN "black"
                                      ELSE IF p \in C THEN "grey" ELSE colour[p]
  BY <1>1, <1>2 DEF Hurry, Scan, Paint, TypeOK
<1>4. Is("white")' = W \ C
  BY <1>2, <1>3 DEF Is
<1>5. Is("grey")' = (G \ {o}) \cup C
  BY <1>2, <1>3 DEF Is
<1>6. C \cap G = {}
  BY DEF WhiteChildren, Is
<1>7. /\ IsFiniteSet(C) /\ IsFiniteSet(W) /\ IsFiniteSet(G) /\ IsFiniteSet(G \ {o})
      /\ Cardinality(C) \in Nat /\ Cardinality(W) \in Nat /\ Cardinality(G) \in Nat
      /\ Cardinality(mc_deque) \in Nat /\ Cardinality(new_space \ evacuated) \in Nat
  <2>1. C \subseteq Objects /\ G \ {o} \subseteq Objects
    BY <1>2
  <2> QED  BY <1>1, <1>2, <2>1, WorkFacts
<1> HIDE DEF C, W, G
<1>8. Cardinality(W \ C) = Cardinality(W) - Cardinality(C)
  BY <1>2, <1>7, CountParts
<1>9. Cardinality(G \ {o}) = Cardinality(G) - 1
  BY <1>2, <1>7, FS_RemoveElement
<1>10. Cardinality((G \ {o}) \cup C) = Cardinality(G \ {o}) + Cardinality(C)
  <2>1. (G \ {o}) \cap C = {}
    BY <1>6
  <2> QED  BY <1>7, <2>1, CountParts
<1>11. Work' = 4 * Cardinality(W \ C) + 2 * Cardinality((G \ {o}) \cup C)
               + Cardinality(mc_deque) + (IF mc_overflowed THEN 1 ELSE 0)
               + Cardinality(new_space \ evacuated)
  <2>1. UNCHANGED <<mc_deque, mc_overflowed, new_space, evacuated>>
    BY DEF Hurry, compactor, spaces
  <2> QED  BY <1>4, <1>5, <2>1 DEF Work
<1> QED  BY <1>7, <1>8, <1>9, <1>10, <1>11, SMT DEF Work, W, G

(* The compactor blackens white objects, or greys them if the deque is     *)
(* full, and then it takes at least one object less to come back to them.  *)
LEMMA VisitCounts ==
  ASSUME TypeOK, IsFiniteSet(Objects), NEW o \in Objects, colour[o] # "grey",
         NEW D \in SUBSET Objects, \A p \in D : colour[p] = "black",
         Visit(o, D)
  PROVE  LET S == WhiteChildren(o) \ {o}
             w == IF colour[o] = "white" THEN 1 ELSE 0
         IN  \E k \in Nat :
               /\ Cardinality(S) \in Nat /\ k <= Cardinality(S)
               /\ Cardinality(Is("white")') = Cardinality(Is("white")) - Cardinality(S) - w
               /\ Cardinality(Is("grey")') = Cardinality(Is("grey")) + Cardinality(S) - k
               /\ Cardinality(mc_deque') = Cardinality(D) + k
               /\ k = Cardinality(S) => mc_overflowed' = mc_overflowed
               /\ mc_overflowed' \in BOOLEAN
<1> DEFINE S == WhiteChildren(o) \ {o}
           w == IF colour[o] = "white" THEN 1 ELSE 0
           W == Is("white")
           G == Is("grey")
           O == {p \in {o} : colour[p] = "white"}
<1>1. PICK K \in Pushed(D, S) :
        /\ colour' = [p \in Objects |->
                        CASE p = o \/ p \in K -> "black"
                          [] p \in WhiteChildren(o) \ (K \cup {o}) -> "grey"
                          [] OTHER -> colour[p]]
        /\ mc_deque' = D \cup K
        /\ mc_overflowed' = (mc_overflowed \/ K # S)
  BY DEF Visit
<1>2. K \subseteq S
  BY <1>1, PushedFacts
<1>3. \A p \in Objects : colour'[p] = IF p = o \/ p \in K THEN "black"
                                      ELSE IF p \in S THEN "grey" ELSE colour[p]
  BY <1>1, <1>2
<1>4. /\ S \subseteq W /\ O \subseteq W /\ O \cap S = {} /\ S \cap G = {}
      /\ W \subseteq Objects /\ G \subseteq Objects /\ o \notin G /\ D \cap S = {}
  BY DEF WhiteChildren, Is
<1>5. Is("white")' = W \ (S \cup O)
  <2>1. ASSUME NEW p \in Objects
        PROVE  colour'[p] = "white" <=> p \in W \ (S \cup O)
    BY <1>2, <1>3 DEF Is
  <2> QED  BY <1>4, <2>1 DEF Is
<1>6. Is("grey")' = G \cup (S \ K)
  <2>1. ASSUME NEW p \in Objects
        PROVE  colour'[p] = "grey" <=> p \in G \cup (S \ K)
    BY <1>2, <1>3, <1>4 DEF Is
  <2> QED  BY <1>4, <2>1 DEF Is
<1>7. Cardinality(O) = w /\ IsFiniteSet(O)
  <2>1. CASE colour[o] = "white"
    <3>1. O = {o} /\ w = 1
      BY <2>1
    <3> QED  BY <3>1, FS_Singleton
  <2>2. CASE colour[o] # "white"
    <3>1. O = {} /\ w = 0
      BY <2>2
    <3> QED  BY <3>1, FS_EmptySet
  <2> QED  BY <2>1, <2>2
<1>8. /\ IsFiniteSet(S) /\ IsFiniteSet(W) /\ IsFiniteSet(G) /\ IsFiniteSet(K)
      /\ IsFiniteSet(S \cup O) /\ IsFiniteSet(S \ K) /\ IsFiniteSet(D)
      /\ Cardinality(S) \in Nat /\ Cardinality(K) \in Nat /\ w \in Nat
      /\ Cardinality(G) \in Nat /\ Cardinality(W) \in Nat /\ Cardinality(D) \in Nat
  <2>1. S \subseteq Objects /\ K \subseteq Objects /\ S \cup O \subseteq Objects
        /\ S \ K \subseteq Objects
    BY <1>2, <1>4
  <2> QED  BY <1>4, <2>1, WorkFacts
<1>9. mc_overflowed' \in BOOLEAN /\ (K = S => mc_overflowed' = mc_overflowed)
  BY <1>1 DEF TypeOK
<1>10. mc_deque' = D \cup K /\ D \cap K = {}
  BY <1>1, <1>2, <1>4
<1> HIDE DEF S, w, W, G, O
<1>11. Cardinality(S \cup O) = Cardinality(S) + w
  <2>1. S \cap O = {}
    BY <1>4
  <2> QED  BY <1>7, <1>8, <2>1, CountParts
<1>12. Cardinality(Is("white")') = Cardinality(W) - Cardinality(S) - w
  <2>1. S \cup O \subseteq W
    BY <1>4
  <2>2. Cardinality(W \ (S \cup O)) = Cardinality(W) - Cardinality(S \cup O)
    BY <1>8, <2>1, CountParts
  <2>3. Cardinality(Is("white")') = Cardinality(W \ (S \cup O))
    BY <1>5, Zenon
  <2> QED  BY <1>8, <1>11, <2>2, <2>3, SMT
<1>13. Cardinality(Is("grey")') = Cardinality(G) + Cardinality(S) - Cardinality(K)
  <2>1. Cardinality(S \ K) = Cardinality(S) - Cardinality(K)
    BY <1>2, <1>8, CountParts
  <2>2. G \cap (S \ K) = {}
    BY <1>4
  <2>3. Cardinality(G \cup (S \ K)) = Cardinality(G) + Cardinality(S \ K)
    BY <1>8, <2>2, CountParts
  <2> QED  BY <1>6, <1>8, <2>1, <2>3
<1>14. Cardinality(mc_deque') = Cardinality(D) + Cardinality(K)
  BY <1>8, <1>10, CountParts
<1>15. Cardinality(K) <= Cardinality(S) /\ (Cardinality(K) = Cardinality(S) => K = S)
  BY <1>2, <1>8, FS_Subset
<1>16. \E k \in Nat :
         /\ Cardinality(S) \in Nat /\ k <= Cardinality(S)
         /\ Cardinality(Is("white")') = Cardinality(W) - Cardinality(S) - w
         /\ Cardinality(Is("grey")') = Cardinality(G) + Cardinality(S) - k
         /\ Cardinality(mc_deque') = Cardinality(D) + k
         /\ k = Cardinality(S) => mc_overflowed' = mc_overflowed
         /\ mc_overflowed' \in BOOLEAN
  <2> DEFINE k == Cardinality(K)
  <2>1. k \in Nat
    BY <1>8
  <2>2. /\ Cardinality(S) \in Nat /\ k <= Cardinality(S)
        /\ Cardinality(Is("white")') = Cardinality(W) - Cardinality(S) - w
        /\ Cardinality(Is("grey")') = Cardinality(G) + Cardinality(S) - k
        /\ Cardinality(mc_deque') = Cardinality(D) + k
        /\ k = Cardinality(S) => mc_overflowed' = mc_overflowed
        /\ mc_overflowed' \in BOOLEAN
    BY <1>8, <1>9, <1>12, <1>13, <1>14, <1>15
  <2> HIDE DEF k
  <2> QED  BY <2>1, <2>2
<1> QED  BY <1>16 DEF S, w, W, G

(* A root is marked, or an object of the compactor's deque is visited. *)
LEMMA MarkAdvances ==
  ASSUME IndInv, IsFiniteSet(Objects), NEW o \in Objects,
         MarkRoot(o) \/ EmptyMarkingDeque(o)
  PROVE  Work' < Work
<1> DEFINE D == mc_deque \ {o}
           S == WhiteChildren(o) \ {o}
           w == IF colour[o] = "white" THEN 1 ELSE 0
           W == Cardinality(Is("white"))
           G == Cardinality(Is("grey"))
           N == Cardinality(new_space \ evacuated)
           v == IF mc_overflowed THEN 1 ELSE 0
<1>1. TypeOK /\ gc = "mark" /\ \A p \in mc_deque : colour[p] = "black"
  BY DEF IndInv, CompactorInv, MarkRoot, EmptyMarkingDeque
<1>2. /\ Visit(o, D)
      /\ \/ colour[o] = "white" /\ mc_deque = {}
         \/ colour[o] = "black" /\ o \in mc_deque
      /\ UNCHANGED <<new_space, evacuated>>
  <2>1. CASE MarkRoot(o)
    <3>1. colour[o] = "white" /\ mc_deque = {} /\ Visit(o, {})
      BY <2>1 DEF MarkRoot, Is
    <3>2. D = {}
      BY <3>1
    <3>3. Visit(o, D)
      <4> HIDE DEF D
      <4> QED  BY <3>1, <3>2, Zenon
    <3> QED  BY <2>1, <3>1, <3>3 DEF MarkRoot, spaces
  <2>2. CASE EmptyMarkingDeque(o)
    BY <1>1, <2>2 DEF EmptyMarkingDeque, spaces
  <2> QED  BY <2>1, <2>2
<1>3. D \in SUBSET Objects /\ (\A p \in D : colour[p] = "black") /\ colour[o] # "grey"
  BY <1>1, <1>2 DEF TypeOK
<1>4. PICK k \in Nat :
        /\ Cardinality(S) \in Nat /\ k <= Cardinality(S)
        /\ Cardinality(Is("white")') = W - Cardinality(S) - w
        /\ Cardinality(Is("grey")') = G + Cardinality(S) - k
        /\ Cardinality(mc_deque') = Cardinality(D) + k
        /\ k = Cardinality(S) => mc_overflowed' = mc_overflowed
        /\ mc_overflowed' \in BOOLEAN
  <2> HIDE DEF D
  <2> QED  BY <1>1, <1>2, <1>3, VisitCounts
<1>5. W \in Nat /\ G \in Nat /\ N \in Nat /\ Cardinality(mc_deque) \in Nat
  BY <1>1, WorkFacts
<1>6. Cardinality(D) = Cardinality(mc_deque) - (1 - w)
  <2>1. IsFiniteSet(mc_deque)
    BY <1>1, WorkFacts
  <2>2. CASE colour[o] = "white" /\ mc_deque = {}
    <3>1. w = 1 /\ D = mc_deque
      BY <2>2
    <3>2. Cardinality(D) = Cardinality(mc_deque)
      BY <3>1, Zenon
    <3> HIDE DEF D, w
    <3> QED  BY <1>5, <3>1, <3>2, SMT
  <2>3. CASE colour[o] = "black" /\ o \in mc_deque
    <3>1. w = 0
      BY <2>3
    <3>2. Cardinality(D) = Cardinality(mc_deque) - 1
      BY <2>1, <2>3, FS_RemoveElement
    <3> HIDE DEF D, w
    <3> QED  BY <1>5, <3>1, <3>2, SMT
  <2> QED  BY <1>2, <2>2, <2>3
<1> DEFINE s == Cardinality(S)
           d == Cardinality(mc_deque)
           x == IF mc_overflowed' THEN 1 ELSE 0
<1>7. Work = 4 * W + 2 * G + d + v + N
  BY DEF Work
<1>8. Work' = 4 * (W - s - w) + 2 * (G + s - k) + (d - (1 - w) + k) + x + N
  <2>1. Cardinality(mc_deque') = d - (1 - w) + k
    BY <1>4, <1>6
  <2>2. Cardinality(new_space' \ evacuated') = N
    BY <1>2
  <2> HIDE DEF W, G, N, s, d, w
  <2> QED  BY <1>4, <2>1, <2>2 DEF Work, s
<1>9. w \in {0, 1} /\ x \in {0, 1} /\ v \in {0, 1} /\ (k = s => x = v) /\ s \in Nat /\ k <= s
  BY <1>4, SMT DEF TypeOK
<1>10. d \in Nat
  BY <1>5
<1> HIDE DEF W, G, N, s, d, w, x, v
<1>11. CASE k = s
  BY <1>5, <1>7, <1>8, <1>9, <1>10, <1>11, SMT
<1>12. CASE k < s
  BY <1>5, <1>7, <1>8, <1>9, <1>10, <1>12, SMT
<1> QED  BY <1>9, <1>11, <1>12, SMT

(* The deque is refilled with grey objects, which become black, or the     *)
(* overflow is found to be over.                                           *)
LEMMA RefillAdvances ==
  ASSUME IndInv, IsFiniteSet(Objects), RefillMarkingDeque
  PROVE  Work' < Work
<1> DEFINE W == Is("white")
           G == Is("grey")
           N == Cardinality(new_space \ evacuated)
<1>1. TypeOK /\ mc_deque = {} /\ mc_overflowed = TRUE /\ UNCHANGED <<new_space, evacuated>>
  BY DEF IndInv, TypeOK, RefillMarkingDeque, spaces
<1>2. PICK K \in Pushed({}, G \cap allocated) :
        /\ colour' = Discovered(K)
        /\ mc_deque' = K
        /\ mc_overflowed' = (Cardinality(K) = Room)
  BY DEF RefillMarkingDeque
<1>3. K \subseteq G /\ K \subseteq Objects
  BY <1>2, PushedFacts, SMT DEF Is
<1>4. \A p \in Objects : colour'[p] = IF p \in K THEN "black" ELSE colour[p]
  BY <1>2 DEF Discovered, Paint
<1>5. Is("white")' = W /\ Is("grey")' = G \ K
  BY <1>3, <1>4 DEF Is
<1>6. /\ IsFiniteSet(K) /\ IsFiniteSet(G) /\ Cardinality(K) \in Nat /\ Cardinality(G) \in Nat
      /\ Cardinality(W) \in Nat /\ N \in Nat
  BY <1>1, <1>3, WorkFacts
<1>7. Cardinality(G \ K) = Cardinality(G) - Cardinality(K)
  BY <1>3, <1>6, CountParts
<1>8. Work = 4 * Cardinality(W) + 2 * Cardinality(G) + 0 + 1 + N
  <2>1. Cardinality(mc_deque) = 0
    BY <1>1, FS_EmptySet
  <2> QED  BY <1>1, <2>1 DEF Work
<1> DEFINE x == IF mc_overflowed' THEN 1 ELSE 0
<1>9. Work' = 4 * Cardinality(W) + 2 * Cardinality(G \ K) + Cardinality(K) + x + N
  BY <1>1, <1>2, <1>5 DEF Work
<1>10. x = (IF Cardinality(K) = Room THEN 1 ELSE 0) /\ Room \in Nat \ {0}
  BY <1>2, RoomAssumption
<1> HIDE DEF W, G, N, x
<1> QED  BY <1>6, <1>7, <1>8, <1>9, <1>10, SMT

(* In a heap of finitely many objects, every step of a phase of a          *)
(* collection leaves it less to do, whatever the sizes of the deques and   *)
(* however often they overflow: no phase goes on for ever                  *)
(* (MarkCompactCollector::ProcessMarkingDeque, Hurry, DoScavenge).         *)
THEOREM PhasesAdvance ==
  ASSUME IsFiniteSet(Objects)
  PROVE  Spec => CollectionAdvances
<1>1. ASSUME IndInv, Next, gc' = gc, gc \in {"scavenge", "hurry", "mark"}
      PROVE  Work' < Work
  <2>1. ~ (Program \/ Marker \/ Begin)
    BY <1>1 DEF Program, Allocate, Load, Store, Forget, Marker, StepSweeping,
       StepEmpty, Step, Begin, BeginScavenge, BeginWithMarks, BeginFromNothing
  <2>2. ~ FinishScavenge /\ ~ Finalize /\ ~ EndCollection
        /\ ~ \E promoted \in SUBSET Survivors : SweepSpaces(promoted)
    BY <1>1 DEF FinishScavenge, Finalize, EndCollection, SweepSpaces
  <2>3. \/ \E o \in Objects, promoted \in BOOLEAN : ScavengeObject(o, promoted)
        \/ \E o \in Objects : Hurry(o) \/ MarkRoot(o) \/ EmptyMarkingDeque(o)
        \/ RefillMarkingDeque
    BY <1>1, <2>1, <2>2 DEF Next, Collection
  <2> QED  BY <1>1, <2>3, ScavengeAdvances, HurryAdvances, MarkAdvances, RefillAdvances
<1>2. IndInv /\ [Next]_vars =>
        [gc' = gc /\ gc \in {"scavenge", "hurry", "mark"} => Work' < Work]_vars
  BY <1>1
<1> QED  BY <1>2, InvariantHolds, PTL DEF Spec, CollectionAdvances
=============================================================================
