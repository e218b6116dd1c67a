----------------------------- MODULE HeapCommit -----------------------------
(***************************************************************************)
(* The collector of module HeapMarking under a program that runs in a      *)
(* transaction: stores go to private copies, and the commit of             *)
(* src/src/stm.cc copies them back over the originals as plain memory.     *)
(***************************************************************************)
EXTENDS HeapMarking

VARIABLE write_set   \* WriteSet: the private copy of an object, or Null

InitTx == Init /\ write_set = [o \in Objects |-> Null]

Written == {o \in Objects : write_set[o] # Null}
Copies  == {write_set[o] : o \in Written}

(* Transaction::RedirectStore of an object met for the first time; the     *)
(* copy of Heap::CopyJSObject is a new object of new space.  STM::Iterate  *)
(* makes both roots.                                                       *)
RedirectStore(o, c) ==
  /\ gc = "mutator"
  /\ o \in roots \ (Written \cup Copies)
  /\ c \in Objects \ allocated
  /\ allocated' = allocated \cup {c}
  /\ new_space' = new_space \cup {c}
  /\ field' = [field EXCEPT ![c] = field[o]]
  /\ roots' = roots \cup {c}
  /\ write_set' = [write_set EXCEPT ![o] = c]
  /\ UNCHANGED <<store_buffer, colour, incremental, compactor, gc, evacuated>>

(* StoreIC::Store has redirected both the object and the value. *)
StoreToCopy(c, f, v) ==
  /\ c \in Copies
  /\ v \in Copies \cup {Null}
  /\ Store(c, f, v)
  /\ UNCHANGED write_set

(* Transaction::RedirectLoad: what has a private copy is read there. *)
LoadRedirected(o, f) ==
  /\ o \notin Written
  /\ Load(o, f)
  /\ UNCHANGED write_set

ForgetHandle(o) ==
  /\ o \notin Written \cup Copies
  /\ Forget(o)
  /\ UNCHANGED write_set

(* WriteSet::CommitChanges; the transaction is then deleted. *)
CommitChanges ==
  /\ gc = "mutator"
  /\ Written # {}
  /\ field' = [o \in Objects |->
                 IF o \in Written THEN field[write_set[o]] ELSE field[o]]
  /\ roots' = roots \ Copies
  /\ write_set' = [o \in Objects |-> Null]
  /\ UNCHANGED <<spaces, colour, incremental, compactor, gc, evacuated>>

NextTx ==
  \/ \E o \in Objects :
       \/ \E tenured \in BOOLEAN : Allocate(o, tenured) /\ UNCHANGED write_set
       \/ \E f \in Fields : LoadRedirected(o, f)
       \/ \E f \in Fields, v \in Objects \cup {Null} : StoreToCopy(o, f, v)
       \/ \E c \in Objects : RedirectStore(o, c)
       \/ ForgetHandle(o)
  \/ CommitChanges
  \/ (Marker \/ Begin \/ Collection) /\ UNCHANGED write_set

SpecTx == InitTx /\ [][NextTx]_<<vars, write_set>>

(* "IteratePointersToNewSpace iterates over all pointers that go from old  *)
(* space to new space" (src/src/store-buffer.h): still so when pointers    *)
(* also reach old objects through CommitChanges.                           *)
AllPointersToNewSpace == StoreBufferComplete
=============================================================================
