---------------------------- MODULE HeapMarking ----------------------------
(***************************************************************************)
(* The garbage collector that module GCPause stops the threads for: the    *)
(* incremental marker (src/src/incremental-marking.cc) that runs between   *)
(* steps of the program, the write barrier that keeps it sound, scavenges  *)
(* of the new generation, and mark-compact collections that finish the     *)
(* marking and sweep.                                                      *)
(*                                                                         *)
(* One thread of the program runs at a time here.  An object keeps its     *)
(* identity when a collection moves it; a deque is the set of objects on   *)
(* it.  Left out: data-only objects, weak references, object groups, and   *)
(* slots recorded for compaction.                                          *)
(***************************************************************************)
EXTENDS Naturals, FiniteSets

CONSTANTS
  Objects,   \* identities of heap objects
  Fields,    \* pointer fields of an object
  Null,      \* a field that holds no pointer
  Room       \* mask_ of both marking deques: how many objects fit

ASSUME ObjectsAssumption == Null \notin Objects
ASSUME RoomAssumption == Room \in Nat \ {0}

VARIABLES
  allocated,       \* objects that exist
  new_space,       \* those of the new generation
  field,           \* what the fields of an object point to
  roots,           \* objects the program holds in handles, stacks, globals
  colour,          \* mark bits
  store_buffer,    \* slots of old objects that may point into new space
  state,           \* IncrementalMarking::state_
  should_hurry,    \* IncrementalMarking::should_hurry_
  deque,           \* IncrementalMarking::marking_deque_
  overflowed,      \*   and its overflow flag
  mc_deque,        \* MarkCompactCollector::marking_deque_
  mc_overflowed,   \*   and its overflow flag
  was_marked,      \* was_marked_incrementally_
  gc,              \* "mutator", or what the running collection is doing
  evacuated        \* new-space objects the scavenge has copied

graph == <<field, roots>>
spaces == <<allocated, new_space, store_buffer>>
incremental == <<state, should_hurry, deque, overflowed>>
compactor == <<mc_deque, mc_overflowed, was_marked>>
vars == <<graph, spaces, colour, incremental, compactor, gc, evacuated>>

Colours == {"white", "grey", "black"}
States  == {"STOPPED", "SWEEPING", "MARKING", "COMPLETE"}
Slots   == Objects \X Fields

TypeOK ==
  /\ allocated \subseteq Objects
  /\ new_space \subseteq allocated
  /\ field \in [Objects -> [Fields -> Objects \cup {Null}]]
  /\ roots \subseteq Objects
  /\ colour \in [Objects -> Colours]
  /\ store_buffer \subseteq Slots
  /\ state \in States
  /\ should_hurry \in BOOLEAN
  /\ deque \subseteq Objects
  /\ overflowed \in BOOLEAN
  /\ mc_deque \subseteq Objects
  /\ mc_overflowed \in BOOLEAN
  /\ was_marked \in BOOLEAN
  /\ gc \in {"mutator", "scavenge", "hurry", "mark", "end"}
  /\ evacuated \subseteq Objects

Init ==
  /\ allocated = {}
  /\ new_space = {}
  /\ field = [o \in Objects |-> [f \in Fields |-> Null]]
  /\ roots = {}
  /\ colour = [o \in Objects |-> "white"]
  /\ store_buffer = {}
  /\ state = "STOPPED"
  /\ should_hurry = FALSE
  /\ deque = {}
  /\ overflowed = FALSE
  /\ mc_deque = {}
  /\ mc_overflowed = FALSE
  /\ was_marked = FALSE
  /\ gc = "mutator"
  /\ evacuated = {}

----------------------------------------------------------------------------
(* Pointers, colours and deques.                                           *)

Points(o, p) == \E f \in Fields : field[o][f] = p
Is(c) == {o \in Objects : colour[o] = c}
Paint(S, c) == [o \in Objects |-> IF o \in S THEN c ELSE colour[o]]

(* The fields of objects whose memory is freed hold nothing. *)
Freed(dead) ==
  [o \in Objects |-> IF o \in dead THEN [f \in Fields |-> Null] ELSE field[o]]

(* The objects of S that a deque holding D takes when they are pushed in   *)
(* some order: all of them, or as many as it has room for.                 *)
Pushed(D, S) ==
  {K \in SUBSET S : /\ Cardinality(D \cup K) <= Room
                    /\ K = S \/ Cardinality(D \cup K) = Room}

WhiteChildren(o) == {p \in Is("white") : Points(o, p)}

IsMarking == state \in {"MARKING", "COMPLETE"}

----------------------------------------------------------------------------
(* The program.                                                            *)

(* A new object is white, also during marking. *)
Allocate(o, tenured) ==
  /\ gc = "mutator"
  /\ o \in Objects \ allocated
  /\ allocated' = allocated \cup {o}
  /\ new_space' = IF tenured THEN new_space ELSE new_space \cup {o}
  /\ roots' = roots \cup {o}
  /\ UNCHANGED <<field, store_buffer, colour, incremental, compactor, gc, evacuated>>

Load(o, f) ==
  /\ gc = "mutator"
  /\ o \in roots
  /\ field[o][f] # Null
  /\ roots' = roots \cup {field[o][f]}
  /\ UNCHANGED <<field, spaces, colour, incremental, compactor, gc, evacuated>>

(* A handle scope is left or a variable overwritten. *)
Forget(o) ==
  /\ gc = "mutator"
  /\ o \in roots
  /\ roots' = roots \ {o}
  /\ UNCHANGED <<field, spaces, colour, incremental, compactor, gc, evacuated>>

(* Fault: no barrier for the incremental marker. *)
FaultyBaseRecordWrite(o, v) == UNCHANGED <<colour, incremental>>

(* At the bottom of the deque if it has room. *)
BlackToGreyAndUnshift(o) ==
  /\ colour' = Paint({o}, "grey")
  /\ \E K \in Pushed(deque, {o}) :
       /\ deque' = deque \cup K
       /\ overflowed' = (overflowed \/ K = {})

(* A black object that gets a pointer to a white one is grey again, and    *)
(* complete marking is resumed.                                            *)
BaseRecordWrite(o, v) ==
  IF IsMarking /\ v \in Is("white") /\ o \in Is("black")
  THEN /\ BlackToGreyAndUnshift(o)
       /\ state' = "MARKING"
       /\ UNCHANGED should_hurry
  ELSE UNCHANGED <<colour, incremental>>

(* Fault: the wrong end of the pointer is tested. *)
FaultyRecordWrite(o, f, v) ==
  IF o \in new_space /\ v \notin new_space THEN {<<o, f>>} ELSE {}

(* Heap::RecordWrite: the slots that v written to o.f adds to the store    *)
(* buffer.                                                                 *)
RecordWrite(o, f, v) ==
  IF v \in new_space /\ o \notin new_space THEN {<<o, f>>} ELSE {}

(* WRITE_FIELD and WRITE_BARRIER. *)
Store(o, f, v) ==
  /\ gc = "mutator"
  /\ o \in roots
  /\ v \in roots \cup {Null}
  /\ field' = [field EXCEPT ![o][f] = v]
  /\ BaseRecordWrite(o, v)
  /\ store_buffer' = store_buffer \cup RecordWrite(o, f, v)
  /\ UNCHANGED <<roots, allocated, new_space, compactor, gc, evacuated>>

----------------------------------------------------------------------------
(* Incremental marking.                                                    *)

(* The roots are grey and on the deque, which has just been initialised. *)
StartMarking ==
  /\ state' = "MARKING"
  /\ colour' = Paint(roots \cap Is("white"), "grey")
  /\ \E K \in Pushed({}, roots \cap Is("white")) :
       /\ deque' = K
       /\ overflowed' = (K # roots \cap Is("white"))

(* IncrementalMarking::Step when lazy sweeping has just been finished. *)
StepSweeping ==
  /\ gc = "mutator"
  /\ state = "SWEEPING"
  /\ StartMarking
  /\ UNCHANGED <<graph, spaces, should_hurry, compactor, gc, evacuated>>

(* The body of the marking loop: o is scanned and black, the white objects *)
(* it points to are grey and pushed.                                       *)
Scan(o) ==
  /\ o \in deque
  /\ colour' = [Paint(WhiteChildren(o), "grey") EXCEPT ![o] = "black"]
  /\ \E K \in Pushed(deque \ {o}, WhiteChildren(o)) :
       /\ deque' = (deque \ {o}) \cup K
       /\ overflowed' = (overflowed \/ K # WhiteChildren(o))

MarkingComplete ==
  /\ state' = "COMPLETE"
  /\ should_hurry' = TRUE

(* IncrementalMarking::Step, one object at a time. *)
Step(o) ==
  /\ gc = "mutator"
  /\ state = "MARKING"
  /\ Scan(o)
  /\ IF deque' = {} THEN MarkingComplete ELSE UNCHANGED <<state, should_hurry>>
  /\ UNCHANGED <<graph, spaces, compactor, gc, evacuated>>

(* A scavenge may have left the deque empty. *)
StepEmpty ==
  /\ gc = "mutator"
  /\ state = "MARKING"
  /\ deque = {}
  /\ MarkingComplete
  /\ UNCHANGED <<graph, spaces, colour, deque, overflowed, compactor, gc,
                 evacuated>>

----------------------------------------------------------------------------
(* Scavenges.                                                              *)

(* Heap::CollectGarbage for new space, or a mark-compact collection that   *)
(* is delayed because incremental marking is under way.                    *)
BeginScavenge ==
  /\ gc = "mutator"
  /\ gc' = "scavenge"
  /\ evacuated' = {}
  /\ UNCHANGED <<graph, spaces, colour, incremental, compactor>>

(* Fault: pointers from the old generation are not followed. *)
FaultyScavengeable ==
  {o \in new_space \ evacuated :
     o \in roots \/ \E p \in evacuated : Points(p, o)}

Scavengeable ==
  {o \in new_space \ evacuated :
     \/ o \in roots
     \/ \E s \in store_buffer : field[s[1]][s[2]] = o
     \/ \E p \in evacuated : Points(p, o)}

(* A promoted object is old from here on; its slots that point to objects  *)
(* that stay in new space are entered into the store buffer.  Its colour   *)
(* goes with it.                                                           *)
ScavengeObject(o, promoted) ==
  /\ gc = "scavenge"
  /\ o \in Scavengeable
  /\ evacuated' = evacuated \cup {o}
  /\ new_space' = IF promoted THEN new_space \ {o} ELSE new_space
  /\ UNCHANGED <<graph, allocated, store_buffer, colour, incremental, compactor,
                 gc>>

(* Slots of old objects that point to objects of S. *)
SlotsInto(S) ==
  {s \in Slots : s[1] \in allocated \ new_space /\ field[s[1]][s[2]] \in S}

(* Fault: the deque keeps what did not survive. *)
FaultyUpdateMarkingDeque(dead) == UNCHANGED deque

(* IncrementalMarking::UpdateMarkingDequeAfterScavenge. *)
UpdateMarkingDeque(dead) ==
  deque' = IF IsMarking THEN deque \ dead ELSE deque

(* What the scavenge has not copied is gone with from space. *)
FinishScavenge ==
  LET dead == new_space \ evacuated IN
  /\ gc = "scavenge"
  /\ Scavengeable = {}
  /\ allocated' = allocated \ dead
  /\ new_space' = new_space \ dead
  /\ store_buffer' = {s \in SlotsInto(new_space \ dead) :
                        s \in store_buffer \/ s[1] \in evacuated}
  /\ colour' = Paint(dead, "white")
  /\ UpdateMarkingDeque(dead)
  /\ evacuated' = {}
  /\ field' = Freed(dead)
  /\ gc' = "end"
  /\ UNCHANGED <<roots, state, should_hurry, overflowed, compactor>>

----------------------------------------------------------------------------
(* Mark-compact collections.                                               *)

(* MarkCompactCollector::Prepare: with incremental marks to build on, ... *)
BeginWithMarks ==
  /\ gc = "mutator"
  /\ IsMarking
  /\ should_hurry
  /\ was_marked' = TRUE
  /\ gc' = "hurry"
  /\ UNCHANGED <<graph, spaces, colour, incremental, mc_deque, mc_overflowed,
                 evacuated>>

(* Fault: the mark bits of an aborted cycle stay. *)
FaultyAbortedMarks == colour

AbortedMarks == IF IsMarking THEN Paint(Objects, "white") ELSE colour

(* ... or from nothing: marking is stopped, or precise sweeping is         *)
(* required, which aborts it and throws its marks away.                    *)
BeginFromNothing ==
  /\ gc = "mutator"
  /\ was_marked' = FALSE
  /\ colour' = AbortedMarks
  /\ state' = "STOPPED"
  /\ should_hurry' = FALSE
  /\ mc_deque' = {}
  /\ mc_overflowed' = FALSE
  /\ gc' = "mark"
  /\ UNCHANGED <<graph, spaces, deque, overflowed, evacuated>>

(* IncrementalMarking::Hurry. *)
Hurry(o) ==
  /\ gc = "hurry"
  /\ state = "MARKING"
  /\ Scan(o)
  /\ UNCHANGED <<graph, spaces, state, should_hurry, compactor, gc, evacuated>>

(* IncrementalMarking::Finalize; objects that did not fit into the deque   *)
(* are grey, and the compactor's own deque takes over the overflow.        *)
Finalize ==
  /\ gc = "hurry"
  /\ state = "MARKING" => deque = {}
  /\ state' = "STOPPED"
  /\ should_hurry' = FALSE
  /\ overflowed' = FALSE
  /\ mc_deque' = {}
  /\ mc_overflowed' = overflowed
  /\ gc' = "mark"
  /\ UNCHANGED <<graph, spaces, colour, deque, was_marked, evacuated>>

(* The white objects o points to are black and pushed; those for which     *)
(* there is no room are grey.                                              *)
Visit(o, D) ==
  \E K \in Pushed(D, WhiteChildren(o) \ {o}) :
    /\ colour' = [p \in Objects |->
                    CASE p = o \/ p \in K -> "black"
                      [] p \in WhiteChildren(o) \ (K \cup {o}) -> "grey"
                      [] OTHER -> colour[p]]
    /\ mc_deque' = D \cup K
    /\ mc_overflowed' = (mc_overflowed \/ K # WhiteChildren(o) \ {o})

MarkRoot(o) ==
  /\ gc = "mark"
  /\ mc_deque = {}
  /\ o \in roots \cap Is("white")
  /\ Visit(o, {})
  /\ UNCHANGED <<graph, spaces, incremental, was_marked, gc, evacuated>>

(* One round of MarkCompactCollector::EmptyMarkingDeque. *)
EmptyMarkingDeque(o) ==
  /\ gc = "mark"
  /\ o \in mc_deque
  /\ Visit(o, mc_deque \ {o})
  /\ UNCHANGED <<graph, spaces, incremental, was_marked, gc, evacuated>>

(* Fault: discovered objects stay grey. *)
FaultyDiscovered(K) == colour

Discovered(K) == Paint(K, "black")

(* Grey objects are found by walking the heap. *)
RefillMarkingDeque ==
  /\ gc = "mark"
  /\ mc_deque = {}
  /\ mc_overflowed
  /\ roots \cap Is("white") = {}
  /\ \E K \in Pushed({}, Is("grey") \cap allocated) :
       /\ colour' = Discovered(K)
       /\ mc_deque' = K
       /\ mc_overflowed' = (Cardinality(K) = Room)
  /\ UNCHANGED <<graph, spaces, incremental, was_marked, gc, evacuated>>

(* Fault: dead objects of new space are evacuated too. *)
FaultySurvivors == new_space

Survivors == new_space \cap Is("black")

(* SweepSpaces: what is not marked is gone, mark bits are cleared, and     *)
(* survivors of new space are promoted if old space has room for them.     *)
SweepSpaces(promoted) ==
  /\ gc = "mark"
  /\ mc_deque = {}
  /\ ~mc_overflowed
  /\ roots \cap Is("white") = {}
  /\ allocated' = allocated \cap Is("black")
  /\ new_space' = Survivors \ promoted
  /\ store_buffer' = {s \in Slots :
       /\ s \in store_buffer \/ s[1] \in promoted
       /\ s[1] \in allocated' \ new_space'
       /\ field[s[1]][s[2]] \in new_space'}
  /\ colour' = [o \in Objects |-> "white"]
  /\ field' = Freed(allocated \ Is("black"))
  /\ gc' = "end"
  /\ UNCHANGED <<roots, incremental, compactor, evacuated>>

(* The end of Heap::CollectGarbage: if incremental marking is stopped and  *)
(* worth its while it is started, at once or after lazy sweeping.          *)
EndCollection ==
  /\ gc = "end"
  /\ gc' = "mutator"
  /\ \/ UNCHANGED <<state, colour, deque, overflowed>>
     \/ /\ state = "STOPPED"
        /\ state' = "SWEEPING"
        /\ UNCHANGED <<colour, deque, overflowed>>
     \/ /\ state = "STOPPED"
        /\ StartMarking
  /\ UNCHANGED <<graph, spaces, should_hurry, compactor, evacuated>>

----------------------------------------------------------------------------
Program ==
  \E o \in Objects :
    \/ \E tenured \in BOOLEAN : Allocate(o, tenured)
    \/ \E f \in Fields : Load(o, f)
    \/ \E f \in Fields, v \in Objects \cup {Null} : Store(o, f, v)
    \/ Forget(o)

Marker == StepSweeping \/ StepEmpty \/ \E o \in Objects : Step(o)

Begin == BeginScavenge \/ BeginWithMarks \/ BeginFromNothing

Collection ==
  \/ \E o \in Objects, promoted \in BOOLEAN : ScavengeObject(o, promoted)
  \/ FinishScavenge
  \/ \E o \in Objects : Hurry(o) \/ MarkRoot(o) \/ EmptyMarkingDeque(o)
  \/ Finalize
  \/ RefillMarkingDeque
  \/ \E promoted \in SUBSET Survivors : SweepSpaces(promoted)
  \/ EndCollection

Next == Program \/ Marker \/ Begin \/ Collection

Spec == Init /\ [][Next]_vars

----------------------------------------------------------------------------
(* Properties.                                                             *)

(* No collection frees an object that the program holds or that an object  *)
(* still in the heap points to, however stores, marking steps, scavenges   *)
(* and overflows of the deques are interleaved.                            *)
NoDangling ==
  /\ roots \subseteq allocated
  /\ \A o \in allocated, p \in Objects : Points(o, p) => p \in allocated

(* The store buffer holds every slot of an old object that points into new *)
(* space whenever no scavenge is rebuilding it (StoreBuffer::Verify).      *)
StoreBufferComplete ==
  gc # "scavenge" => SlotsInto(new_space) \subseteq store_buffer

(* When the compactor has finished marking, or the incremental marker says *)
(* COMPLETE and nothing overflowed, no marked object points to an unmarked *)
(* one: the write barrier has hidden no object from the marker.            *)
MarkingClosed ==
  \/ gc = "mark" /\ mc_deque = {} /\ ~mc_overflowed
  \/ gc # "mark" /\ state = "COMPLETE" /\ ~overflowed
  => \A o \in Objects \ Is("white") : WhiteChildren(o) = {}

(* The objects the incremental marker will pop are grey, and none is left  *)
(* when marking is complete (the ASSERTs of Step and Finalize).            *)
DequeGrey ==
  /\ IsMarking => deque \subseteq Is("grey") \cap allocated
  /\ state = "COMPLETE" => deque = {}

Live ==
  {o \in Objects : \A S \in SUBSET Objects :
     /\ roots \subseteq S
     /\ \A q \in S, p \in Objects : Points(q, p) => p \in S
     => o \in S}

(* A collection that does not build on incremental marks marks only what   *)
(* the program can reach, so its sweep leaves no garbage: no mark survives *)
(* from an earlier or an aborted cycle.                                    *)
MarksOnlyLive ==
  gc = "mark" /\ ~was_marked => Objects \ Is("white") \subseteq Live

Work ==
  4 * Cardinality(Is("white")) + 2 * Cardinality(Is("grey"))
  + Cardinality(mc_deque) + (IF mc_overflowed THEN 1 ELSE 0)
  + Cardinality(new_space \ evacuated)

(* Every step inside a phase of a collection leaves it less to do, so the  *)
(* phase ends: overflow and refill of the compactor's deque do not go      *)
(* round for ever.                                                         *)
CollectionAdvances ==
  [][gc' = gc /\ gc \in {"scavenge", "hurry", "mark"} => Work' < Work]_vars

----------------------------------------------------------------------------
(* The invariant that the proofs of the properties above need.             *)

(* The heap is closed under pointers; freed memory is white and empty. *)
HeapInv ==
  /\ roots \subseteq allocated
  /\ \A o \in allocated, f \in Fields : field[o][f] \in allocated \cup {Null}
  /\ \A o \in Objects \ allocated :
       colour[o] = "white" /\ \A f \in Fields : field[o][f] = Null

(* While a scavenge runs, only what it has promoted may have slots that    *)
(* are not in the store buffer yet.                                        *)
BufferInv ==
  /\ evacuated \subseteq allocated
  /\ gc # "scavenge" => evacuated = {}
  /\ \A o \in allocated \ new_space, f \in Fields :
       field[o][f] \in new_space /\ ~ (gc = "scavenge" /\ o \in evacuated) =>
         <<o, f>> \in store_buffer

PhaseInv ==
  /\ gc = "hurry" => IsMarking /\ was_marked
  /\ gc = "mark" => state = "STOPPED"
  /\ ~ IsMarking /\ gc # "mark" => \A o \in Objects : colour[o] = "white"

(* Incremental marking: grey objects are on the deque or have overflowed   *)
(* it, and black ones point to no white one.                               *)
IncrementalInv ==
  IsMarking =>
    /\ \A o \in deque : colour[o] = "grey"
    /\ \A o \in Objects : colour[o] = "grey" => o \in deque \/ overflowed
    /\ \A o \in Objects, f \in Fields :
         colour[o] = "black" /\ field[o][f] \in Objects =>
           colour[field[o][f]] # "white"
    /\ state = "COMPLETE" => deque = {}

(* The compactor: grey objects have overflowed, and black ones that point  *)
(* to white ones are on the deque.                                         *)
CompactorInv ==
  gc = "mark" =>
    /\ \A o \in mc_deque : colour[o] = "black"
    /\ \A o \in Objects : colour[o] = "grey" => mc_overflowed
    /\ \A o \in Objects, f \in Fields :
         colour[o] = "black" /\ o \notin mc_deque /\ field[o][f] \in Objects =>
           colour[field[o][f]] # "white"

IndInv ==
  /\ TypeOK
  /\ HeapInv
  /\ BufferInv
  /\ PhaseInv
  /\ IncrementalInv
  /\ CompactorInv
  /\ MarksOnlyLive
=============================================================================
