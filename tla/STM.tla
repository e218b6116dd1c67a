-------------------------------- MODULE STM --------------------------------
(***************************************************************************)
(* Transactions of src/src/stm.cc: the read and write sets of each         *)
(* thread's Transaction, RedirectLoad and RedirectStore as the inline      *)
(* caches of src/src/ic.cc call them, and STM::CommitTransaction.          *)
(*                                                                         *)
(* Every thread runs at most one transaction at a time, so a transaction   *)
(* is named by its thread.  A word is one field of one shared JSObject.    *)
(* What a transaction loads and stores is chosen freely, up to MaxOps      *)
(* redirected operations.  The garbage collector's pauses, which move      *)
(* objects but keep their identity and contents, are the subject of        *)
(* module GCPause.                                                         *)
(***************************************************************************)
EXTENDS Naturals

CONSTANTS
  Threads,      \* the worker threads
  Objects,      \* the shared objects: JSObjects that are not functions
  Fields,       \* the words of an object
  Values,       \* primitive contents of a word
  Zero,         \* what every word of the heap holds at first
  Garbage,      \* what a word of a new copy holds before it is copied
  MaxOps,       \* bound: redirected operations in one transaction
  BlindStores,  \* may a transaction store to an object it has not loaded?
  StmAborts,    \* the flag --stm_aborts
  Nobody        \* the owner of a free mutex

ASSUME NobodyAssumption == Nobody \notin Threads
ASSUME ValueAssumption  == Zero \in Values /\ Garbage \notin Values
ASSUME BoundAssumption  == MaxOps \in Nat
ASSUME FlagAssumption   == BlindStores \in BOOLEAN /\ StmAborts \in BOOLEAN

Words == Objects \X Fields

VARIABLES
  heap,                \* the shared objects
  transactions,        \* STM::transactions_
  transactions_mutex,  \* owner of STM::transactions_mutex_
  commit_mutex,        \* owner of STM::commit_mutex_
  mutex,               \* the transactions whose mutex_ the committer holds
  aborted,             \* Transaction::aborted_
  read_set,            \* objects of Transaction::read_set_
  write_set,           \* objects of Transaction::write_set_
  copy,                \* contents of the private copies of the objects
  pc,                  \* what the thread is doing
  obj,                 \* the object of the redirected operation in progress
  todo,                \* words the CopyBlock in progress has not copied yet
  visit,               \* transactions the committer's loop has not visited yet
  ops,                 \* redirected operations of the transaction so far
  reads,               \* history: <<word, value>> it read, own stores aside
  written              \* history: the words it stored to

mutexes == <<transactions_mutex, commit_mutex, mutex>>
sets    == <<read_set, write_set>>
history == <<reads, written>>
vars == <<heap, transactions, mutexes, aborted, sets, copy, pc, obj, todo,
          visit, ops, history>>

(* No transaction; running JavaScript; in RedirectLoad and the load after  *)
(* it; in RedirectStore and the store after it; in CommitTransaction.      *)
Labels == {"none", "run", "addRead", "load", "copy", "store", "commit",
           "list", "lock", "conflict", "heap", "remove"}

Uninitialised == [w \in Words |-> Garbage]

(* Besides the types: no uninitialised word of a copy is ever read by a    *)
(* program or copied back to the heap.                                     *)
TypeOK ==
  /\ heap \in [Words -> Values]
  /\ transactions \in SUBSET Threads
  /\ transactions_mutex \in Threads \cup {Nobody}
  /\ commit_mutex \in Threads \cup {Nobody}
  /\ mutex \in SUBSET Threads
  /\ aborted \in [Threads -> BOOLEAN]
  /\ read_set \in [Threads -> SUBSET Objects]
  /\ write_set \in [Threads -> SUBSET Objects]
  /\ copy \in [Threads -> [Words -> Values \cup {Garbage}]]
  /\ pc \in [Threads -> Labels]
  /\ obj \in [Threads -> Objects]
  /\ todo \in [Threads -> SUBSET Words]
  /\ visit \in SUBSET Threads
  /\ ops \in [Threads -> 0 .. MaxOps]
  /\ reads \in [Threads -> SUBSET (Words \X Values)]
  /\ written \in [Threads -> SUBSET Words]

Init ==
  /\ heap = [w \in Words |-> Zero]
  /\ transactions = {}
  /\ transactions_mutex = Nobody
  /\ commit_mutex = Nobody
  /\ mutex = {}
  /\ aborted = [t \in Threads |-> FALSE]
  /\ read_set = [t \in Threads |-> {}]
  /\ write_set = [t \in Threads |-> {}]
  /\ copy = [t \in Threads |-> Uninitialised]
  /\ pc = [t \in Threads |-> "none"]
  /\ obj \in [Threads -> Objects]
  /\ todo = [t \in Threads |-> {}]
  /\ visit = {}
  /\ ops = [t \in Threads |-> 0]
  /\ reads = [t \in Threads |-> {}]
  /\ written = [t \in Threads |-> {}]

-----------------------------------------------------------------------------
(* Control moves from one label to the next. *)
Goto(t, from, to) == pc[t] = from /\ pc' = [pc EXCEPT ![t] = to]

(* Transaction::Transaction: not aborted, both sets empty. *)
FreshTransaction(t) ==
  /\ aborted' = [aborted EXCEPT ![t] = FALSE]
  /\ read_set' = [read_set EXCEPT ![t] = {}]
  /\ write_set' = [write_set EXCEPT ![t] = {}]
  /\ copy' = [copy EXCEPT ![t] = Uninitialised]
  /\ ops' = [ops EXCEPT ![t] = 0]
  /\ reads' = [reads EXCEPT ![t] = {}]
  /\ written' = [written EXCEPT ![t] = {}]

(* STM::StartTransaction.  The transaction does nothing before it is in    *)
(* the list, so creating it and adding it is one step.                     *)
StartTransaction(t) ==
  /\ Goto(t, "none", "run")
  /\ transactions_mutex = Nobody
  /\ FreshTransaction(t)
  /\ transactions' = transactions \cup {t}
  /\ UNCHANGED <<heap, mutexes, obj, todo, visit>>

(* A redirected operation on object o begins. *)
Operate(t, o) ==
  /\ ops[t] < MaxOps
  /\ ops' = [ops EXCEPT ![t] = @ + 1]
  /\ obj' = [obj EXCEPT ![t] = o]

(* Transaction::RedirectLoad up to the mutex.  Only this thread changes    *)
(* its two sets, so looking them up is one step with the test of aborted_. *)
RedirectLoad(t, o) ==
  /\ ~ aborted[t]
  /\ Operate(t, o)
  /\ Goto(t, "run", IF o \in write_set[t] \cup read_set[t]
                    THEN "load" ELSE "addRead")
  /\ UNCHANGED <<heap, transactions, mutexes, aborted, sets, copy, todo,
                 visit, history>>

(* Faulty variant of AddRead: the ScopedLock is missing. *)
AddReadUnlocked(t) ==
  /\ Goto(t, "addRead", "load")
  /\ read_set' = [read_set EXCEPT ![t] = @ \cup {obj[t]}]
  /\ UNCHANGED <<heap, transactions, mutexes, aborted, write_set, copy, obj,
                 todo, visit, ops, history>>

(* ReadSet::Add under the transaction's mutex_. *)
AddRead(t) ==
  /\ Goto(t, "addRead", "load")
  /\ t \notin mutex
  /\ read_set' = [read_set EXCEPT ![t] = @ \cup {obj[t]}]
  /\ UNCHANGED <<heap, transactions, mutexes, aborted, write_set, copy, obj,
                 todo, visit, ops, history>>

(* The inline cache reads a word through the handle it got back: the       *)
(* private copy of an object in the write set, otherwise the shared one.   *)
(* No lock is held.  The history leaves out words the transaction stored.  *)
Load(t, f) ==
  LET w == <<obj[t], f>>
      v == IF obj[t] \in write_set[t] THEN copy[t][w] ELSE heap[w]
  IN  /\ Goto(t, "load", "run")
      /\ reads' = IF w \in written[t] THEN reads
                  ELSE [reads EXCEPT ![t] = @ \cup {<<w, v>>}]
      /\ UNCHANGED <<heap, transactions, mutexes, aborted, sets, copy, obj,
                     todo, visit, ops, written>>

(* Transaction::RedirectStore up to CreateCopy.  BlindStores = FALSE is a  *)
(* program whose stores all update what it has loaded, as x.f += n does.   *)
RedirectStore(t, o) ==
  /\ ~ aborted[t]
  /\ BlindStores \/ o \in read_set[t]
  /\ Operate(t, o)
  /\ Goto(t, "run", IF o \in write_set[t] THEN "store" ELSE "copy")
  /\ todo' = [todo EXCEPT ![t] = IF o \in write_set[t] THEN {}
                                 ELSE {o} \X Fields]
  /\ UNCHANGED <<heap, transactions, mutexes, aborted, sets, copy, visit,
                 history>>

(* CreateCopy: Heap::CopyJSObject copies the shared object word by word.   *)
(* It holds heap_mutex_, which committers do not take; nothing orders its  *)
(* plain reads with the plain writes of a CommitHeap.                      *)
CopyWord(t, w) ==
  /\ Goto(t, "copy", "copy")
  /\ w \in todo[t]
  /\ copy' = [copy EXCEPT ![t][w] = heap[w]]
  /\ todo' = [todo EXCEPT ![t] = @ \ {w}]
  /\ UNCHANGED <<heap, transactions, mutexes, aborted, sets, obj, visit, ops,
                 history>>

(* Faulty variant of AddWrite: the copy is entered before it is complete.  *)
AddWriteEarly(t) ==
  /\ Goto(t, "copy", "store")
  /\ t \notin mutex
  /\ write_set' = [write_set EXCEPT ![t] = @ \cup {obj[t]}]
  /\ UNCHANGED <<heap, transactions, mutexes, aborted, read_set, copy, obj,
                 todo, visit, ops, history>>

(* WriteSet::Add under the transaction's mutex_. *)
AddWrite(t) ==
  /\ Goto(t, "copy", "store")
  /\ todo[t] = {}
  /\ t \notin mutex
  /\ write_set' = [write_set EXCEPT ![t] = @ \cup {obj[t]}]
  /\ UNCHANGED <<heap, transactions, mutexes, aborted, read_set, copy, obj,
                 todo, visit, ops, history>>

(* The inline cache stores a primitive value to the private copy. *)
Store(t, f, v) ==
  LET w == <<obj[t], f>>
  IN  /\ Goto(t, "store", "run")
      /\ copy' = [copy EXCEPT ![t][w] = v]
      /\ written' = [written EXCEPT ![t] = @ \cup {w}]
      /\ UNCHANGED <<heap, transactions, mutexes, aborted, sets, obj, todo,
                     visit, ops, reads>>

-----------------------------------------------------------------------------
(* Event::Execute returns, because the function is done or because a       *)
(* redirected operation saw aborted_ and terminated it, and                *)
(* CommitTransaction begins.  Under --stm_aborts the static variable even, *)
(* which no lock protects, decides whether the transaction aborts itself.  *)
EndEvent(t) ==
  /\ Goto(t, "run", "commit")
  /\ aborted' \in {aborted, [aborted EXCEPT ![t] = @ \/ StmAborts]}
  /\ UNCHANGED <<heap, transactions, mutexes, sets, copy, obj, todo, visit,
                 ops, history>>

LockCommit(t) ==
  /\ Goto(t, "commit", "list")
  /\ commit_mutex = Nobody
  /\ commit_mutex' = t
  /\ UNCHANGED <<heap, transactions, transactions_mutex, mutex, aborted, sets,
                 copy, obj, todo, visit, ops, history>>

(* Takes transactions_mutex_; an aborted transaction only leaves the list. *)
LockTransactions(t) ==
  /\ Goto(t, "list", IF aborted[t] THEN "remove" ELSE "lock")
  /\ transactions_mutex = Nobody
  /\ transactions_mutex' = t
  /\ visit' = IF aborted[t] THEN {} ELSE transactions
  /\ UNCHANGED <<heap, transactions, commit_mutex, mutex, aborted, sets, copy,
                 obj, todo, ops, history>>

(* The first loop: lock every transaction, this one included. *)
LockTransaction(t, u) ==
  /\ pc[t] = "lock"
  /\ u \in visit
  /\ mutex' = mutex \cup {u}
  /\ visit' = visit \ {u}
  /\ UNCHANGED <<heap, transactions, transactions_mutex, commit_mutex,
                 aborted, sets, copy, pc, obj, todo, ops, history>>

(* Faulty variant of AllLocked: the second loop does not skip the          *)
(* committing transaction itself.                                          *)
AllLockedWithSelf(t) ==
  /\ Goto(t, "lock", "conflict")
  /\ visit = {}
  /\ visit' = transactions
  /\ UNCHANGED <<heap, transactions, mutexes, aborted, sets, copy, obj, todo,
                 ops, history>>

AllLocked(t) ==
  /\ Goto(t, "lock", "conflict")
  /\ visit = {}
  /\ visit' = transactions \ {t}
  /\ UNCHANGED <<heap, transactions, mutexes, aborted, sets, copy, obj, todo,
                 ops, history>>

(* Faulty variants of HasConflicts: only write sets are compared; two      *)
(* transactions that read the same object are in conflict.                 *)
HasWriteConflicts(u, t) == write_set[u] \cap write_set[t] # {}

HasReadConflicts(u, t) ==
  \/ read_set[u] \cap (read_set[t] \cup write_set[t]) # {}
  \/ write_set[u] \cap write_set[t] # {}

(* Transaction::HasConflicts of u with the committer t. *)
HasConflicts(u, t) ==
  \/ read_set[u] \cap write_set[t] # {}
  \/ write_set[u] \cap write_set[t] # {}

(* The second loop: abort the transactions in conflict. *)
AbortConflicting(t, u) ==
  /\ pc[t] = "conflict"
  /\ u \in visit
  /\ aborted' = [aborted EXCEPT ![u] = @ \/ HasConflicts(u, t)]
  /\ visit' = visit \ {u}
  /\ UNCHANGED <<heap, transactions, mutexes, sets, copy, pc, obj, todo, ops,
                 history>>

(* All conflicts are resolved and CommitHeap begins. *)
BeginCommitHeap(t) ==
  /\ Goto(t, "conflict", "heap")
  /\ visit = {}
  /\ todo' = [todo EXCEPT ![t] = write_set[t] \X Fields]
  /\ UNCHANGED <<heap, transactions, mutexes, aborted, sets, copy, obj, visit,
                 ops, history>>

(* Transaction::CommitHeap copies the write set back word by word. *)
CommitWord(t, w) ==
  /\ Goto(t, "heap", "heap")
  /\ w \in todo[t]
  /\ heap' = [heap EXCEPT ![w] = copy[t][w]]
  /\ todo' = [todo EXCEPT ![t] = @ \ {w}]
  /\ UNCHANGED <<transactions, mutexes, aborted, sets, copy, obj, visit, ops,
                 history>>

(* The third loop: unlock all transactions. *)
UnlockTransactions(t) ==
  /\ Goto(t, "heap", "remove")
  /\ todo[t] = {}
  /\ mutex' = {}
  /\ UNCHANGED <<heap, transactions, transactions_mutex, commit_mutex,
                 aborted, sets, copy, obj, todo, visit, ops, history>>

(* Faulty variant of RemoveTransaction: transactions_mutex_ stays locked. *)
RemoveTransactionLocked(t) ==
  /\ Goto(t, "remove", "none")
  /\ transactions' = transactions \ {t}
  /\ FreshTransaction(t)
  /\ commit_mutex' = Nobody
  /\ UNCHANGED <<heap, transactions_mutex, mutex, obj, todo, visit>>

(* Remove the transaction from the list, delete it, release both mutexes.  *)
(* The result of CommitTransaction is ~ aborted[t].                        *)
RemoveTransaction(t) ==
  /\ Goto(t, "remove", "none")
  /\ transactions' = transactions \ {t}
  /\ FreshTransaction(t)
  /\ transactions_mutex' = Nobody
  /\ commit_mutex' = Nobody
  /\ UNCHANGED <<heap, mutex, obj, todo, visit>>

-----------------------------------------------------------------------------
Execute(t) ==
  \/ \E o \in Objects : RedirectLoad(t, o) \/ RedirectStore(t, o)
  \/ AddRead(t)
  \/ \E f \in Fields : Load(t, f)
  \/ \E w \in Words : CopyWord(t, w)
  \/ AddWrite(t)
  \/ \E f \in Fields, v \in Values : Store(t, f, v)

CommitTransaction(t) ==
  \/ EndEvent(t)
  \/ LockCommit(t)
  \/ LockTransactions(t)
  \/ \E u \in Threads : LockTransaction(t, u) \/ AbortConflicting(t, u)
  \/ AllLocked(t)
  \/ BeginCommitHeap(t)
  \/ \E w \in Words : CommitWord(t, w)
  \/ UnlockTransactions(t)
  \/ RemoveTransaction(t)

Next == \E t \in Threads : StartTransaction(t) \/ Execute(t)
                           \/ CommitTransaction(t)

Spec == Init /\ [][Next]_vars
-----------------------------------------------------------------------------
(* Threads inside CommitTransaction and past the test of aborted_. *)
Committing == {"lock", "conflict", "heap"}

(* The transaction has neither committed nor been given up. *)
Active(t) ==
  /\ pc[t] \notin {"none", "heap"}
  /\ pc[t] = "remove" => aborted[t]

(* What transaction t knows of word w is what the heap holds. *)
WordIsCurrent(t, w) ==
  /\ \A v \in Values : <<w, v>> \in reads[t] => v = heap[w]
  /\ w[1] \in write_set[t] /\ w \notin written[t] => copy[t][w] = heap[w]

(* SAFETY.  As long as no commit has aborted a transaction, everything it  *)
(* read of the objects in its read set is still what the objects hold, and *)
(* so is every word of its private copies that it did not store to.  This  *)
(* is why HasConflicts is enough: aborted_ alone tells stale transactions  *)
(* from current ones, although loads and copies run without any lock.      *)
LoadedIsCurrent ==
  \A t \in Threads : Active(t) /\ ~ aborted[t] =>
    \A w \in Words : w[1] \in read_set[t] => WordIsCurrent(t, w)

(* SAFETY.  A commit puts back whole objects.  The words the transaction   *)
(* did not store to must be current then, or the commit undoes what other  *)
(* transactions committed to the same object.                              *)
NoLostUpdate ==
  \A t \in Threads : pc[t] \in Committing \ {"heap"} =>
    \A w \in Words : w[1] \in write_set[t] /\ w \notin written[t] =>
      copy[t][w] = heap[w]

(* SAFETY.  A transaction that passed the test of aborted_ is not aborted  *)
(* by anyone before it is removed: no commit is of a doomed transaction,   *)
(* and two conflicting transactions never abort each other.                *)
CommitterNotAborted ==
  \A t \in Threads : pc[t] \in Committing => ~ aborted[t]

(* ACTION.  A transaction is aborted only in the second loop of a commit   *)
(* that goes on to change an object it has read or written, or by itself   *)
(* under --stm_aborts: no event is restarted without such a reason.        *)
AbortedForAReason ==
  [][\A u \in Threads : aborted'[u] /\ ~ aborted[u] =>
       \/ StmAborts /\ pc[u] = "run" /\ pc'[u] = "commit"
       \/ \E t \in Threads \ {u} :
            /\ pc[t] = "conflict" /\ ~ aborted[t]
            /\ write_set[t] \cap (read_set[u] \cup write_set[u]) # {}]_vars

(* REFINEMENT.  Transactions are atomic: a commit takes effect when all    *)
(* conflicts are resolved, and words CommitHeap has yet to copy already    *)
(* count with their new contents.                                          *)
CommittedHeap ==
  [w \in Words |->
     LET t == transactions_mutex
     IN  IF t \in Threads /\ pc[t] = "heap" /\ w \in todo[t]
         THEN copy[t][w] ELSE heap[w]]

Atomic == INSTANCE AtomicTransactions WITH
  heap   <- CommittedHeap,
  active <- {t \in Threads : Active(t)},
  reads  <- [t \in Threads |-> IF Active(t) THEN reads[t] ELSE {}],
  dirty  <- [t \in Threads |-> IF Active(t) THEN written[t] ELSE {}],
  buffer <- [t \in Threads |-> [w \in Words |->
               IF Active(t) /\ w \in written[t] THEN copy[t][w] ELSE Zero]]

(* Every behaviour of the transactions is one of AtomicTransactions: what  *)
(* commits has read only current values and changes only what it stored.   *)
AtomicSpec == Atomic!Spec
-----------------------------------------------------------------------------
(* The inductive invariant behind LoadedIsCurrent and AtomicSpec. *)

(* The list holds the transactions in the threads' slots; each mutex is    *)
(* held exactly where the code holds it; a committer past its first loop   *)
(* keeps every transaction locked, so that nobody's sets grow.             *)
LockDiscipline ==
  /\ transactions = {t \in Threads : pc[t] # "none"}
  /\ \A t \in Threads :
       /\ commit_mutex = t <=> pc[t] \in Committing \cup {"list", "remove"}
       /\ transactions_mutex = t <=> pc[t] \in Committing \cup {"remove"}
       /\ pc[t] = "lock" => mutex = transactions \ visit
       /\ pc[t] \in {"conflict", "heap"} => mutex = transactions
  /\ (\A t \in Threads : pc[t] \notin Committing) => mutex = {}

(* Every transaction the second loop has visited is aborted if it is in    *)
(* conflict with the committer, and stays so while the heap changes.       *)
ConflictsAborted ==
  \A t \in Threads :
    /\ pc[t] \in {"lock", "conflict"} => visit \subseteq transactions
    /\ pc[t] = "conflict" => \A u \in transactions \ (visit \cup {t}) :
                               HasConflicts(u, t) => aborted[u]
    /\ pc[t] = "conflict" => t \notin visit
    /\ pc[t] = "heap" => \A u \in transactions \ {t} :
                           HasConflicts(u, t) => aborted[u]

(* What an operation in progress knows of its object and of the copy. *)
OperationOK(t) ==
  /\ pc[t] = "addRead" => obj[t] \notin read_set[t] \cup write_set[t]
  /\ pc[t] = "load" => obj[t] \in read_set[t] \cup write_set[t]
  /\ pc[t] = "store" => obj[t] \in write_set[t]
  /\ pc[t] = "heap" => \A w \in todo[t] : w[1] \in write_set[t]
  /\ pc[t] = "copy" =>
       /\ obj[t] \notin write_set[t]
       /\ \A w \in todo[t] : w[1] = obj[t]
       /\ \A w \in Words : w[1] = obj[t] /\ w \notin todo[t] =>
            /\ copy[t][w] \in Values
            /\ obj[t] \in read_set[t] /\ ~ aborted[t] => copy[t][w] = heap[w]

OperationInv == \A t \in Threads : OperationOK(t)

(* The histories speak of objects in the sets; copies in the write set are *)
(* complete.                                                               *)
SetsInv ==
  \A t \in Threads :
    /\ \A w \in Words : w[1] \in write_set[t] => copy[t][w] \in Values
    /\ \A w \in written[t] : w[1] \in write_set[t]
    /\ \A w \in Words, v \in Values :
         <<w, v>> \in reads[t] => w[1] \in read_set[t] \cup write_set[t]

(* Without blind stores, only loaded objects are copied. *)
StoresFollowLoads ==
  ~ BlindStores => \A t \in Threads :
    /\ write_set[t] \subseteq read_set[t]
    /\ pc[t] = "copy" => obj[t] \in read_set[t]

IndInv ==
  /\ TypeOK
  /\ LockDiscipline
  /\ ConflictsAborted
  /\ OperationInv
  /\ SetsInv
  /\ StoresFollowLoads
  /\ CommitterNotAborted
  /\ LoadedIsCurrent
=============================================================================
