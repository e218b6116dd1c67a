------------------------------ MODULE GCPause ------------------------------
(***************************************************************************)
(* How threads share the heap with the garbage collector: the allocation   *)
(* and collection scopes of src/src/stm.cc and src/src/heap.cc, the pause  *)
(* of the other threads, and its meeting with starting and committing      *)
(* transactions.                                                           *)
(*                                                                         *)
(* A thread in a transaction holds the transaction's gc_mutex_.  A thread  *)
(* that wants to collect raises need_gc_, locks the transaction list and   *)
(* then the gc_mutex_ of every other transaction; the others give theirs   *)
(* up when they pause or commit.  The contents of the heap are the subject *)
(* of module STM.  Mutexes are those of src/src/platform-linux.cc: a       *)
(* thread that unlocks a mutex it does not own changes nothing.            *)
(***************************************************************************)
EXTENDS Naturals

CONSTANTS
  Threads,         \* the worker threads
  Collectors,      \* the threads whose allocations may run out of memory
  CollectInScope,  \* may that happen to CALL_AND_RETRY?
  RuntimeAllocs,   \* do programs call runtime functions that allocate?
  Debug,           \* are ASSERTs compiled in?
  Nobody           \* the owner of a free mutex

ASSUME ThreadsAssumption ==
  Nobody \notin Threads /\ Collectors \subseteq Threads
ASSUME FlagsAssumption ==
  {CollectInScope, RuntimeAllocs, Debug} \subseteq BOOLEAN

VARIABLES
  need_gc,             \* STM::need_gc_
  heap_mutex,          \* owners of the mutexes of STM
  commit_mutex,
  transactions_mutex,
  transactions,        \* STM::transactions_, by thread
  gc_mutex,            \* owner of Transaction::gc_mutex_
  done_gc,             \* Transaction::done_gc_: "null", "reset", "signalled"
  pc,                  \* what the thread is doing
  ret,                 \* where Heap::CollectGarbage returns to
  back,                \* where STM::PauseForGC returns to
  visited,             \* transactions the thread's loop has visited
  failed               \* an ASSERT has failed and the process is gone

scopes == <<heap_mutex, commit_mutex, transactions_mutex>>
stack  == <<ret, back>>
vars == <<need_gc, scopes, transactions, gc_mutex, done_gc, pc, stack, visited,
          failed>>

(* Outside a transaction; running JavaScript; allocating in a runtime      *)
(* function; in an allocation scope; in EnterCollectionScope; collecting;  *)
(* in LeaveCollectionScope; in PauseForGC; in CommitTransaction.           *)
Labels == {"out", "run", "raw", "wantHeap", "alloc",
           "collect", "gcList", "gcLock", "gc", "leave", "resume",
           "check", "paused", "woken", "relock",
           "commit", "commitList", "commitGC", "committing"}

TypeOK ==
  /\ need_gc \in {0, 1}
  /\ heap_mutex \in Threads \cup {Nobody}
  /\ commit_mutex \in Threads \cup {Nobody}
  /\ transactions_mutex \in Threads \cup {Nobody}
  /\ transactions \in SUBSET Threads
  /\ gc_mutex \in [Threads -> Threads \cup {Nobody}]
  /\ done_gc \in [Threads -> {"null", "reset", "signalled"}]
  /\ pc \in [Threads -> Labels]
  /\ ret \in [Threads -> {"run", "alloc"}]
  /\ back \in [Threads -> {"wantHeap", "leave"}]
  /\ visited \in [Threads -> SUBSET Threads]
  /\ failed \in BOOLEAN

Init ==
  /\ need_gc = 0
  /\ heap_mutex = Nobody
  /\ commit_mutex = Nobody
  /\ transactions_mutex = Nobody
  /\ transactions = {}
  /\ gc_mutex = [t \in Threads |-> Nobody]
  /\ done_gc = [t \in Threads |-> "null"]
  /\ pc = [t \in Threads |-> "out"]
  /\ ret = [t \in Threads |-> "run"]
  /\ back = [t \in Threads |-> "wantHeap"]
  /\ visited = [t \in Threads |-> {}]
  /\ failed = FALSE

-----------------------------------------------------------------------------
Goto(t, from, to) == pc[t] = from /\ pc' = [pc EXCEPT ![t] = to]

Lock(m, t) == m = Nobody /\ m' = t

(* pthread_mutex_unlock of a recursive mutex fails for all but its owner. *)
Unlock(m, t) == m' = IF m = t THEN Nobody ELSE m

(* What is left of a loop over transactions_ that skips the thread's own. *)
Remaining(t) == transactions \ (visited[t] \cup {t})

(* Faulty variant: the list grows without transactions_mutex_. *)
StartTransactionUnlocked(t) ==
  /\ Goto(t, "out", "run")
  /\ gc_mutex' = [gc_mutex EXCEPT ![t] = t]
  /\ transactions' = transactions \cup {t}
  /\ UNCHANGED <<need_gc, scopes, done_gc, stack, visited, failed>>

(* STM::StartTransaction: the constructor locks gc_mutex_, the list grows. *)
StartTransaction(t) ==
  /\ Goto(t, "out", "run")
  /\ transactions_mutex = Nobody
  /\ gc_mutex' = [gc_mutex EXCEPT ![t] = t]
  /\ transactions' = transactions \cup {t}
  /\ UNCHANGED <<need_gc, scopes, done_gc, stack, visited, failed>>

(* STM::PauseForGC once it has seen need_gc_: ResetDoneGC and UnlockGC. *)
Pause(t, to) ==
  /\ done_gc' = [done_gc EXCEPT ![t] = "reset"]
  /\ gc_mutex' = [gc_mutex EXCEPT ![t] = Nobody]
  /\ back' = [back EXCEPT ![t] = to]

(* STM::EnterAllocationScope: PauseForGC if a collection is requested. *)
EnterAllocationScope(t) ==
  /\ need_gc = 0
  /\ Goto(t, "run", "wantHeap")
  /\ UNCHANGED <<need_gc, scopes, transactions, gc_mutex, done_gc, stack,
                 visited, failed>>

EnterAllocationScopePausing(t) ==
  /\ need_gc = 1
  /\ Goto(t, "run", "paused")
  /\ Pause(t, "wantHeap")
  /\ UNCHANGED <<need_gc, scopes, transactions, ret, visited, failed>>

LockHeap(t) ==
  /\ Goto(t, "wantHeap", "alloc")
  /\ Lock(heap_mutex, t)
  /\ UNCHANGED <<need_gc, commit_mutex, transactions_mutex, transactions,
                 gc_mutex, done_gc, stack, visited, failed>>

(* Faulty variant: the scope ends before the allocation is done. *)
LeaveAllocationScopeEarly(t) ==
  /\ pc[t] = "alloc"
  /\ heap_mutex = t
  /\ Unlock(heap_mutex, t)
  /\ UNCHANGED <<need_gc, commit_mutex, transactions_mutex, transactions,
                 gc_mutex, done_gc, pc, stack, visited, failed>>

(* CALL_AND_RETRY: the allocation succeeds and the scope ends ... *)
LeaveAllocationScope(t) ==
  /\ Goto(t, "alloc", "run")
  /\ Unlock(heap_mutex, t)
  /\ UNCHANGED <<need_gc, commit_mutex, transactions_mutex, transactions,
                 gc_mutex, done_gc, stack, visited, failed>>

CallCollectGarbage(t, from, to) ==
  /\ t \in Collectors
  /\ Goto(t, from, "collect")
  /\ ret' = [ret EXCEPT ![t] = to]
  /\ UNCHANGED <<need_gc, scopes, transactions, gc_mutex, done_gc, back,
                 visited, failed>>

(* ... or it fails, and the thread collects without leaving the scope.     *)
RetryAfterGC(t) == CollectInScope /\ CallCollectGarbage(t, "alloc", "alloc")

(* A runtime function allocates: there is no scope around it.  When memory *)
(* runs out it returns a failure and CEntryStub calls Runtime::PerformGC.  *)
RuntimeAllocate(t) ==
  /\ RuntimeAllocs
  /\ Goto(t, "run", "raw")
  /\ UNCHANGED <<need_gc, scopes, transactions, gc_mutex, done_gc, stack,
                 visited, failed>>

RuntimeAllocated(t) ==
  /\ Goto(t, "raw", "run")
  /\ UNCHANGED <<need_gc, scopes, transactions, gc_mutex, done_gc, stack,
                 visited, failed>>

PerformGC(t) == CallCollectGarbage(t, "raw", "run")

-----------------------------------------------------------------------------
(* Faulty variant: need_gc_ counts the requests. *)
RequestGCCounting(t) ==
  /\ Goto(t, "collect", "gcList")
  /\ need_gc' = need_gc + 1
  /\ UNCHANGED <<scopes, transactions, gc_mutex, done_gc, stack, visited,
                 failed>>

(* Faulty variant: the collector goes on without a request. *)
RequestGCUnraised(t) ==
  /\ need_gc = 0
  /\ Goto(t, "collect", "gcList")
  /\ UNCHANGED <<need_gc, scopes, transactions, gc_mutex, done_gc, stack,
                 visited, failed>>

(* STM::EnterCollectionScope: raise need_gc_, or find it raised. *)
RequestGC(t) ==
  /\ need_gc = 0
  /\ Goto(t, "collect", "gcList")
  /\ need_gc' = 1
  /\ UNCHANGED <<scopes, transactions, gc_mutex, done_gc, stack,
                 visited, failed>>

SkipGC(t) ==
  /\ need_gc = 1
  /\ Goto(t, "collect", "check")
  /\ UNCHANGED <<need_gc, scopes, transactions, gc_mutex, done_gc, stack,
                 visited, failed>>

(* The PauseForGC of a thread that leaves the collection to another one.   *)
(* CollectGarbage then returns, which runs the destructor of its           *)
(* CollectionScope as if the thread had collected.                         *)
SkipWithoutPause(t) ==
  /\ need_gc = 0
  /\ Goto(t, "check", "leave")
  /\ UNCHANGED <<need_gc, scopes, transactions, gc_mutex, done_gc, stack,
                 visited, failed>>

SkipPausing(t) ==
  /\ need_gc = 1
  /\ Goto(t, "check", "paused")
  /\ Pause(t, "leave")
  /\ UNCHANGED <<need_gc, scopes, transactions, ret, visited, failed>>

LockList(t) ==
  /\ Goto(t, "gcList", "gcLock")
  /\ Lock(transactions_mutex, t)
  /\ UNCHANGED <<need_gc, heap_mutex, commit_mutex, transactions, gc_mutex,
                 done_gc, stack, visited, failed>>

(* The loop that waits for the other threads; it needs all the locks, so   *)
(* the order in which it gets them does not matter.                        *)
LockGC(t, u) ==
  /\ pc[t] = "gcLock"
  /\ u \in Remaining(t)
  /\ gc_mutex[u] = Nobody
  /\ gc_mutex' = [gc_mutex EXCEPT ![u] = t]
  /\ visited' = [visited EXCEPT ![t] = @ \cup {u}]
  /\ UNCHANGED <<need_gc, scopes, transactions, done_gc, pc, stack, failed>>

(* All other threads are stopped: Heap::CollectGarbage collects. *)
CollectGarbage(t) ==
  /\ Goto(t, "gcLock", "gc")
  /\ Remaining(t) = {}
  /\ visited' = [visited EXCEPT ![t] = {}]
  /\ UNCHANGED <<need_gc, scopes, transactions, gc_mutex, done_gc, stack,
                 failed>>

(* STM::LeaveCollectionScope, from ~CollectionScope, skipped or not.  In a *)
(* debug build the ASSERT ends the process if need_gc_ was not raised.     *)
LeaveCollectionScope(t) ==
  /\ \/ pc[t] = "gc"
     \/ pc[t] = "leave"
  /\ pc' = [pc EXCEPT ![t] = "resume"]
  /\ need_gc' = 0
  /\ failed' = (Debug /\ need_gc = 0)
  /\ UNCHANGED <<scopes, transactions, gc_mutex, done_gc, stack, visited>>

(* Faulty variant: UnlockGC without SignalDoneGC. *)
ResumeThreadUnsignalled(t, u) ==
  /\ pc[t] = "resume"
  /\ u \in Remaining(t)
  /\ gc_mutex' = [gc_mutex EXCEPT ![u] = IF @ = t THEN Nobody ELSE @]
  /\ visited' = [visited EXCEPT ![t] = @ \cup {u}]
  /\ UNCHANGED <<need_gc, scopes, transactions, done_gc, pc, stack, failed>>

(* Its loop: UnlockGC and SignalDoneGC.  The semaphore is waited for once  *)
(* and then deleted, so further signals are not counted.                   *)
ResumeThread(t, u) ==
  /\ pc[t] = "resume"
  /\ u \in Remaining(t)
  /\ gc_mutex' = [gc_mutex EXCEPT ![u] = IF @ = t THEN Nobody ELSE @]
  /\ done_gc' = [done_gc EXCEPT ![u] = IF @ = "null" THEN @ ELSE "signalled"]
  /\ visited' = [visited EXCEPT ![t] = @ \cup {u}]
  /\ UNCHANGED <<need_gc, scopes, transactions, pc, stack, failed>>

(* Unlock transactions_mutex_ and return from CollectGarbage.  A thread    *)
(* that skipped the collection walks the list without the mutex: elements  *)
(* removed meanwhile shift the others, and its loop may miss some.         *)
UnlockList(t) ==
  /\ Goto(t, "resume", ret[t])
  /\ Remaining(t) = {} \/ transactions_mutex # t
  /\ Unlock(transactions_mutex, t)
  /\ visited' = [visited EXCEPT ![t] = {}]
  /\ UNCHANGED <<need_gc, heap_mutex, commit_mutex, transactions, gc_mutex,
                 done_gc, stack, failed>>

-----------------------------------------------------------------------------
(* Transaction::WaitDoneGC: the wait ends; the semaphore is deleted. *)
Wake(t) ==
  /\ Goto(t, "paused", "woken")
  /\ done_gc[t] = "signalled"
  /\ UNCHANGED <<need_gc, scopes, transactions, gc_mutex, done_gc, stack,
                 visited, failed>>

DeleteDoneGC(t) ==
  /\ Goto(t, "woken", "relock")
  /\ done_gc' = [done_gc EXCEPT ![t] = "null"]
  /\ UNCHANGED <<need_gc, scopes, transactions, gc_mutex, stack,
                 visited, failed>>

(* PauseForGC takes gc_mutex_ back and returns. *)
RelockGC(t) ==
  /\ Goto(t, "relock", back[t])
  /\ gc_mutex[t] = Nobody
  /\ gc_mutex' = [gc_mutex EXCEPT ![t] = t]
  /\ UNCHANGED <<need_gc, scopes, transactions, done_gc, stack,
                 visited, failed>>

-----------------------------------------------------------------------------
(* Faulty variant: the thread waits to commit with gc_mutex_ locked. *)
BeginCommitHolding(t) ==
  /\ Goto(t, "run", "commit")
  /\ UNCHANGED <<need_gc, scopes, transactions, gc_mutex, done_gc, stack,
                 visited, failed>>

(* STM::CommitTransaction: gc_mutex_ is released while the thread may wait *)
(* for the two mutexes.                                                    *)
BeginCommit(t) ==
  /\ Goto(t, "run", "commit")
  /\ gc_mutex' = [gc_mutex EXCEPT ![t] = Nobody]
  /\ UNCHANGED <<need_gc, scopes, transactions, done_gc, stack,
                 visited, failed>>

LockCommit(t) ==
  /\ Goto(t, "commit", "commitList")
  /\ Lock(commit_mutex, t)
  /\ UNCHANGED <<need_gc, heap_mutex, transactions_mutex, transactions,
                 gc_mutex, done_gc, stack, visited, failed>>

LockTransactions(t) ==
  /\ Goto(t, "commitList", "commitGC")
  /\ Lock(transactions_mutex, t)
  /\ UNCHANGED <<need_gc, heap_mutex, commit_mutex, transactions, gc_mutex,
                 done_gc, stack, visited, failed>>

CommitLockGC(t) ==
  /\ Goto(t, "commitGC", "committing")
  /\ gc_mutex[t] = Nobody
  /\ gc_mutex' = [gc_mutex EXCEPT ![t] = t]
  /\ UNCHANGED <<need_gc, scopes, transactions, done_gc, stack,
                 visited, failed>>

(* The commit is done: the transaction is removed and deleted. *)
RemoveTransaction(t) ==
  /\ Goto(t, "committing", "out")
  /\ transactions' = transactions \ {t}
  /\ visited' = [u \in Threads |-> visited[u] \ {t}]
  /\ gc_mutex' = [gc_mutex EXCEPT ![t] = Nobody]
  /\ Unlock(transactions_mutex, t)
  /\ Unlock(commit_mutex, t)
  /\ UNCHANGED <<need_gc, heap_mutex, done_gc, stack, failed>>

-----------------------------------------------------------------------------
Acquire(t) ==
  \/ LockHeap(t)
  \/ LockList(t)
  \/ \E u \in Threads : LockGC(t, u)
  \/ RelockGC(t)
  \/ LockCommit(t)
  \/ LockTransactions(t)
  \/ CommitLockGC(t)

Continue(t) ==
  \/ EnterAllocationScope(t) \/ EnterAllocationScopePausing(t)
  \/ LeaveAllocationScope(t)
  \/ RuntimeAllocated(t)
  \/ RequestGC(t) \/ SkipGC(t) \/ SkipWithoutPause(t) \/ SkipPausing(t)
  \/ CollectGarbage(t)
  \/ LeaveCollectionScope(t)
  \/ \E u \in Threads : ResumeThread(t, u)
  \/ UnlockList(t)
  \/ Wake(t) \/ DeleteDoneGC(t)
  \/ BeginCommit(t)
  \/ RemoveTransaction(t)

Choose(t) ==
  \/ StartTransaction(t)
  \/ RuntimeAllocate(t)
  \/ RetryAfterGC(t) \/ PerformGC(t)

Next == ~ failed /\ \E t \in Threads : Acquire(t) \/ Continue(t) \/ Choose(t)

Spec == Init /\ [][Next]_vars

(* A running thread goes on, every event's function returns after finitely *)
(* many operations, and no thread waits forever for a mutex that is free   *)
(* again and again.  Nothing makes a program start a transaction, call a   *)
(* runtime function or run out of memory.                                  *)
Fairness == \A t \in Threads :
  /\ WF_vars(~ failed /\ Continue(t))
  /\ SF_vars(~ failed /\ BeginCommit(t))
  /\ SF_vars(~ failed /\ Acquire(t))

FairSpec == Spec /\ Fairness
-----------------------------------------------------------------------------
(* SAFETY.  While a thread collects, every other thread is stopped in a    *)
(* safe state (stm.cc:451): outside a transaction, paused, or waiting to   *)
(* commit, whichever threads ask for collections, leave them to others,    *)
(* start or commit meanwhile.                                              *)
StopTheWorld ==
  \A t, u \in Threads : pc[t] = "gc" /\ t # u =>
    pc[u] \in {"out", "paused", "woken", "relock", "commit", "commitList"}

(* SAFETY.  Two threads are never at once in an allocation scope, and none *)
(* is in one while another collects.                                       *)
ScopesExclusive ==
  \A t, u \in Threads :
    pc[t] \in {"alloc", "gc"} /\ pc[u] \in {"alloc", "gc"} => t = u

(* SAFETY.  LeaveCollectionScope finds need_gc_ as its ASSERT expects it:  *)
(* nobody withdraws the request between EnterCollectionScope and there, if *)
(* only one thread runs out of memory.                                     *)
NoAssertFails == ~ failed

-----------------------------------------------------------------------------
(* The invariant that the proof of StopTheWorld and ScopesExclusive needs. *)

(* A transaction is listed from its start to its end, and a loop over the  *)
(* list starts with nothing visited.                                       *)
ListInv == \A t \in Threads :
  /\ t \in transactions <=> pc[t] # "out"
  /\ pc[t] \notin {"gcLock", "resume"} => visited[t] = {}

(* A thread owns its gc_mutex_ unless it pauses or may wait in a commit.   *)
Owning == Labels \ {"out", "paused", "woken", "relock",
                    "commit", "commitList", "commitGC"}

OwnGCInv == \A t \in Threads : pc[t] \in Owning => gc_mutex[t] = t

(* The list stays as it is while a thread stops the others or commits, and *)
(* the mutexes the collector has locked stay its own.                      *)
StoppingInv == \A t \in Threads :
  /\ pc[t] \in {"gcLock", "gc", "commitGC", "committing"} =>
       transactions_mutex = t
  /\ pc[t] = "gcLock" =>
       \A u \in (transactions \cap visited[t]) \ {t} : gc_mutex[u] = t
  /\ pc[t] = "gc" => \A u \in transactions \ {t} : gc_mutex[u] = t

(* CALL_AND_RETRY keeps heap_mutex_ while it collects, or pauses instead.  *)
InScope(t) ==
  \/ pc[t] = "alloc"
  \/ /\ ret[t] = "alloc"
     /\ \/ pc[t] \in {"collect", "gcList", "gcLock", "gc", "leave", "resume",
                      "check"}
        \/ pc[t] \in {"paused", "woken", "relock"} /\ back[t] = "leave"

ScopeInv == \A t \in Threads : InScope(t) => heap_mutex = t

IndInv == TypeOK /\ ListInv /\ OwnGCInv /\ StoppingInv /\ ScopeInv

(* The invariant that the proof of NoAssertFails needs if at most one      *)
(* thread runs out of memory: it finds no request but its own, so nobody   *)
(* leaves a collection to another thread, and the request stands from      *)
(* EnterCollectionScope to LeaveCollectionScope.                           *)
OneCollector == \A t, u \in Collectors : t = u

Requesting == {"gcList", "gcLock", "gc"}

RequestInv ==
  /\ ~ failed
  /\ need_gc = 1 <=> \E t \in Threads : pc[t] \in Requesting
  /\ \A t \in Threads :
       /\ pc[t] \in {"collect"} \cup Requesting => t \in Collectors
       /\ pc[t] \notin {"check", "leave"}
       /\ pc[t] \in {"paused", "woken", "relock"} => back[t] = "wantHeap"

-----------------------------------------------------------------------------
(* LIVENESS.  A requested collection takes place: every other thread       *)
(* pauses or enters commit eventually (stm.cc:511).                        *)
RequestedGCHappens ==
  \A t \in Threads : pc[t] = "gcList" ~> pc[t] = "gc"

(* LIVENESS.  Whoever pauses for a collection gets on: the wake-up signal  *)
(* is never lost, even if the next collection begins before it wakes.      *)
PausedResumes ==
  \A t \in Threads : pc[t] = "paused" ~> pc[t] \in {"run", "alloc"}
=============================================================================
