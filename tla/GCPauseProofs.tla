---------------------------- MODULE GCPauseProofs ----------------------------
(***************************************************************************)
(* Proofs about module GCPause: for any number of threads, any of which    *)
(* may run out of memory, in and outside allocation scopes, with and       *)
(* without ASSERTs, a collection stops all other threads and allocation    *)
(* scopes exclude each other and collections.                              *)
(*                                                                         *)
(* IndInv is inductive.  Each lemma below shows that a step of any thread  *)
(* keeps one of its conjuncts.                                             *)
(***************************************************************************)
EXTENDS GCPause, TLAPS

(* Zenon is tried on the leaves that name no other prover.                 *)
USE ZenonT(30)

(* Types.                                                                  *)
LEMMA TypeStep == IndInv /\ [Next]_vars => TypeOK'
<1> SUFFICES ASSUME IndInv, [Next]_vars PROVE TypeOK'
  OBVIOUS
<1> USE DEF IndInv, TypeOK, Labels, scopes, stack, Goto, Lock, Unlock
<1>1. CASE UNCHANGED vars
  BY <1>1 DEF vars
<1>2. ASSUME NEW t \in Threads, StartTransaction(t)
      PROVE  TypeOK'
  BY <1>2 DEF StartTransaction
<1>3. ASSUME NEW t \in Threads, EnterAllocationScope(t)
      PROVE  TypeOK'
  BY <1>3 DEF EnterAllocationScope
<1>4. ASSUME NEW t \in Threads, EnterAllocationScopePausing(t)
      PROVE  TypeOK'
  BY <1>4 DEF EnterAllocationScopePausing, Pause
<1>5. ASSUME NEW t \in Threads, LockHeap(t)
      PROVE  TypeOK'
  BY <1>5 DEF LockHeap
<1>6. ASSUME NEW t \in Threads, LeaveAllocationScope(t)
      PROVE  TypeOK'
  BY <1>6 DEF LeaveAllocationScope
<1>7. ASSUME NEW t \in Threads, RetryAfterGC(t)
      PROVE  TypeOK'
  BY <1>7 DEF RetryAfterGC, CallCollectGarbage
<1>8. ASSUME NEW t \in Threads, RuntimeAllocate(t)
      PROVE  TypeOK'
  BY <1>8 DEF RuntimeAllocate
<1>9. ASSUME NEW t \in Threads, RuntimeAllocated(t)
      PROVE  TypeOK'
  BY <1>9 DEF RuntimeAllocated
<1>10. ASSUME NEW t \in Threads, PerformGC(t)
      PROVE  TypeOK'
  BY <1>10 DEF PerformGC, CallCollectGarbage
<1>11. ASSUME NEW t \in Threads, RequestGC(t)
      PROVE  TypeOK'
  BY <1>11 DEF RequestGC
<1>12. ASSUME NEW t \in Threads, SkipGC(t)
      PROVE  TypeOK'
  BY <1>12 DEF SkipGC
<1>13. ASSUME NEW t \in Threads, SkipWithoutPause(t)
      PROVE  TypeOK'
  BY <1>13 DEF SkipWithoutPause
<1>14. ASSUME NEW t \in Threads, SkipPausing(t)
      PROVE  TypeOK'
  BY <1>14 DEF SkipPausing, Pause
<1>15. ASSUME NEW t \in Threads, LockList(t)
      PROVE  TypeOK'
  BY <1>15 DEF LockList
<1>16. ASSUME NEW t \in Threads, NEW u \in Threads, LockGC(t, u)
      PROVE  TypeOK'
  BY <1>16 DEF LockGC, Remaining
<1>17. ASSUME NEW t \in Threads, CollectGarbage(t)
      PROVE  TypeOK'
  BY <1>17 DEF CollectGarbage, Remaining
<1>18. ASSUME NEW t \in Threads, LeaveCollectionScope(t)
      PROVE  TypeOK'
  BY <1>18, FlagsAssumption, Zenon DEF LeaveCollectionScope
<1>19. ASSUME NEW t \in Threads, NEW u \in Threads, ResumeThread(t, u)
      PROVE  TypeOK'
  BY <1>19 DEF ResumeThread, Remaining
<1>20. ASSUME NEW t \in Threads, UnlockList(t)
      PROVE  TypeOK'
  BY <1>20 DEF UnlockList, Remaining
<1>21. ASSUME NEW t \in Threads, Wake(t)
      PROVE  TypeOK'
  BY <1>21 DEF Wake
<1>22. ASSUME NEW t \in Threads, DeleteDoneGC(t)
      PROVE  TypeOK'
  BY <1>22 DEF DeleteDoneGC
<1>23. ASSUME NEW t \in Threads, RelockGC(t)
      PROVE  TypeOK'
  BY <1>23 DEF RelockGC
<1>24. ASSUME NEW t \in Threads, BeginCommit(t)
      PROVE  TypeOK'
  BY <1>24 DEF BeginCommit
<1>25. ASSUME NEW t \in Threads, LockCommit(t)
      PROVE  TypeOK'
  BY <1>25 DEF LockCommit
<1>26. ASSUME NEW t \in Threads, LockTransactions(t)
      PROVE  TypeOK'
  BY <1>26 DEF LockTransactions
<1>27. ASSUME NEW t \in Threads, CommitLockGC(t)
      PROVE  TypeOK'
  BY <1>27 DEF CommitLockGC
<1>28. ASSUME NEW t \in Threads, RemoveTransaction(t)
      PROVE  TypeOK'
  BY <1>28 DEF RemoveTransaction
<1> QED
BY <1>1, <1>2, <1>3, <1>4, <1>5, <1>6, <1>7, <1>8, <1>9, <1>10, <1>11, <1>12,
     <1>13, <1>14, <1>15, <1>16, <1>17, <1>18, <1>19, <1>20, <1>21, <1>22,
     <1>23, <1>24, <1>25, <1>26, <1>27, <1>28, Zenon
  DEF Next, Acquire, Continue, Choose

(* Only a thread itself lists or removes its transaction.                  *)
LEMMA ListStep == IndInv /\ [Next]_vars => ListInv'
<1> SUFFICES ASSUME IndInv, [Next]_vars PROVE ListInv'
  OBVIOUS
<1> USE DEF IndInv, TypeOK, Labels, scopes, stack, Goto, Lock, Unlock, ListInv
<1>1. CASE UNCHANGED vars
  BY <1>1 DEF vars
<1>2. ASSUME NEW t \in Threads, StartTransaction(t)
      PROVE  ListInv'
  BY <1>2 DEF StartTransaction
<1>3. ASSUME NEW t \in Threads, EnterAllocationScope(t)
      PROVE  ListInv'
  BY <1>3 DEF EnterAllocationScope
<1>4. ASSUME NEW t \in Threads, EnterAllocationScopePausing(t)
      PROVE  ListInv'
  BY <1>4 DEF EnterAllocationScopePausing, Pause
<1>5. ASSUME NEW t \in Threads, LockHeap(t)
      PROVE  ListInv'
  BY <1>5 DEF LockHeap
<1>6. ASSUME NEW t \in Threads, LeaveAllocationScope(t)
      PROVE  ListInv'
  BY <1>6 DEF LeaveAllocationScope
<1>7. ASSUME NEW t \in Threads, RetryAfterGC(t)
      PROVE  ListInv'
  BY <1>7 DEF RetryAfterGC, CallCollectGarbage
<1>8. ASSUME NEW t \in Threads, RuntimeAllocate(t)
      PROVE  ListInv'
  BY <1>8 DEF RuntimeAllocate
<1>9. ASSUME NEW t \in Threads, RuntimeAllocated(t)
      PROVE  ListInv'
  BY <1>9 DEF RuntimeAllocated
<1>10. ASSUME NEW t \in Threads, PerformGC(t)
      PROVE  ListInv'
  BY <1>10 DEF PerformGC, CallCollectGarbage
<1>11. ASSUME NEW t \in Threads, RequestGC(t)
      PROVE  ListInv'
  BY <1>11 DEF RequestGC
<1>12. ASSUME NEW t \in Threads, SkipGC(t)
      PROVE  ListInv'
  BY <1>12 DEF SkipGC
<1>13. ASSUME NEW t \in Threads, SkipWithoutPause(t)
      PROVE  ListInv'
  BY <1>13 DEF SkipWithoutPause
<1>14. ASSUME NEW t \in Threads, SkipPausing(t)
      PROVE  ListInv'
  BY <1>14 DEF SkipPausing, Pause
<1>15. ASSUME NEW t \in Threads, LockList(t)
      PROVE  ListInv'
  BY <1>15 DEF LockList
<1>16. ASSUME NEW t \in Threads, NEW u \in Threads, LockGC(t, u)
      PROVE  ListInv'
  BY <1>16 DEF LockGC, Remaining
<1>17. ASSUME NEW t \in Threads, CollectGarbage(t)
      PROVE  ListInv'
  BY <1>17 DEF CollectGarbage, Remaining
<1>18. ASSUME NEW t \in Threads, LeaveCollectionScope(t)
      PROVE  ListInv'
  BY <1>18 DEF LeaveCollectionScope
<1>19. ASSUME NEW t \in Threads, NEW u \in Threads, ResumeThread(t, u)
      PROVE  ListInv'
  BY <1>19 DEF ResumeThread, Remaining
<1>20. ASSUME NEW t \in Threads, UnlockList(t)
      PROVE  ListInv'
  BY <1>20 DEF UnlockList, Remaining
<1>21. ASSUME NEW t \in Threads, Wake(t)
      PROVE  ListInv'
  BY <1>21 DEF Wake
<1>22. ASSUME NEW t \in Threads, DeleteDoneGC(t)
      PROVE  ListInv'
  BY <1>22 DEF DeleteDoneGC
<1>23. ASSUME NEW t \in Threads, RelockGC(t)
      PROVE  ListInv'
  BY <1>23 DEF RelockGC
<1>24. ASSUME NEW t \in Threads, BeginCommit(t)
      PROVE  ListInv'
  BY <1>24 DEF BeginCommit
<1>25. ASSUME NEW t \in Threads, LockCommit(t)
      PROVE  ListInv'
  BY <1>25 DEF LockCommit
<1>26. ASSUME NEW t \in Threads, LockTransactions(t)
      PROVE  ListInv'
  BY <1>26 DEF LockTransactions
<1>27. ASSUME NEW t \in Threads, CommitLockGC(t)
      PROVE  ListInv'
  BY <1>27 DEF CommitLockGC
<1>28. ASSUME NEW t \in Threads, RemoveTransaction(t)
      PROVE  ListInv'
  BY <1>28 DEF RemoveTransaction
<1> QED
BY <1>1, <1>2, <1>3, <1>4, <1>5, <1>6, <1>7, <1>8, <1>9, <1>10, <1>11, <1>12,
     <1>13, <1>14, <1>15, <1>16, <1>17, <1>18, <1>19, <1>20, <1>21, <1>22,
     <1>23, <1>24, <1>25, <1>26, <1>27, <1>28, Zenon
  DEF Next, Acquire, Continue, Choose

(* Nobody unlocks the gc_mutex_ of a running thread but that thread: the   *)
(* UnlockGC of a thread that skipped a collection does nothing to it.      *)
LEMMA OwnGCStep == IndInv /\ [Next]_vars => OwnGCInv'
<1> SUFFICES ASSUME IndInv, [Next]_vars PROVE OwnGCInv'
  OBVIOUS
<1> USE ThreadsAssumption DEF IndInv, TypeOK, Labels, scopes, stack, Goto,
        Lock, Unlock, OwnGCInv, Owning
<1>1. CASE UNCHANGED vars
  BY <1>1 DEF vars
<1>2. ASSUME NEW t \in Threads, StartTransaction(t)
      PROVE  OwnGCInv'
  BY <1>2 DEF StartTransaction
<1>3. ASSUME NEW t \in Threads, EnterAllocationScope(t)
      PROVE  OwnGCInv'
  BY <1>3 DEF EnterAllocationScope
<1>4. ASSUME NEW t \in Threads, EnterAllocationScopePausing(t)
      PROVE  OwnGCInv'
  BY <1>4 DEF EnterAllocationScopePausing, Pause
<1>5. ASSUME NEW t \in Threads, LockHeap(t)
      PROVE  OwnGCInv'
  BY <1>5 DEF LockHeap
<1>6. ASSUME NEW t \in Threads, LeaveAllocationScope(t)
      PROVE  OwnGCInv'
  BY <1>6 DEF LeaveAllocationScope
<1>7. ASSUME NEW t \in Threads, RetryAfterGC(t)
      PROVE  OwnGCInv'
  BY <1>7 DEF RetryAfterGC, CallCollectGarbage
<1>8. ASSUME NEW t \in Threads, RuntimeAllocate(t)
      PROVE  OwnGCInv'
  BY <1>8 DEF RuntimeAllocate
<1>9. ASSUME NEW t \in Threads, RuntimeAllocated(t)
      PROVE  OwnGCInv'
  BY <1>9 DEF RuntimeAllocated
<1>10. ASSUME NEW t \in Threads, PerformGC(t)
      PROVE  OwnGCInv'
  BY <1>10 DEF PerformGC, CallCollectGarbage
<1>11. ASSUME NEW t \in Threads, RequestGC(t)
      PROVE  OwnGCInv'
  BY <1>11 DEF RequestGC
<1>12. ASSUME NEW t \in Threads, SkipGC(t)
      PROVE  OwnGCInv'
  BY <1>12 DEF SkipGC
<1>13. ASSUME NEW t \in Threads, SkipWithoutPause(t)
      PROVE  OwnGCInv'
  BY <1>13 DEF SkipWithoutPause
<1>14. ASSUME NEW t \in Threads, SkipPausing(t)
      PROVE  OwnGCInv'
  BY <1>14 DEF SkipPausing, Pause
<1>15. ASSUME NEW t \in Threads, LockList(t)
      PROVE  OwnGCInv'
  BY <1>15 DEF LockList
<1>16. ASSUME NEW t \in Threads, NEW u \in Threads, LockGC(t, u)
      PROVE  OwnGCInv'
  BY <1>16 DEF LockGC, Remaining
<1>17. ASSUME NEW t \in Threads, CollectGarbage(t)
      PROVE  OwnGCInv'
  BY <1>17 DEF CollectGarbage, Remaining
<1>18. ASSUME NEW t \in Threads, LeaveCollectionScope(t)
      PROVE  OwnGCInv'
  BY <1>18 DEF LeaveCollectionScope
<1>19. ASSUME NEW t \in Threads, NEW u \in Threads, ResumeThread(t, u)
      PROVE  OwnGCInv'
  BY <1>19 DEF ResumeThread, Remaining
<1>20. ASSUME NEW t \in Threads, UnlockList(t)
      PROVE  OwnGCInv'
  BY <1>20 DEF UnlockList, Remaining
<1>21. ASSUME NEW t \in Threads, Wake(t)
      PROVE  OwnGCInv'
  BY <1>21 DEF Wake
<1>22. ASSUME NEW t \in Threads, DeleteDoneGC(t)
      PROVE  OwnGCInv'
  BY <1>22 DEF DeleteDoneGC
<1>23. ASSUME NEW t \in Threads, RelockGC(t)
      PROVE  OwnGCInv'
  BY <1>23 DEF RelockGC
<1>24. ASSUME NEW t \in Threads, BeginCommit(t)
      PROVE  OwnGCInv'
  BY <1>24 DEF BeginCommit
<1>25. ASSUME NEW t \in Threads, LockCommit(t)
      PROVE  OwnGCInv'
  BY <1>25 DEF LockCommit
<1>26. ASSUME NEW t \in Threads, LockTransactions(t)
      PROVE  OwnGCInv'
  BY <1>26 DEF LockTransactions
<1>27. ASSUME NEW t \in Threads, CommitLockGC(t)
      PROVE  OwnGCInv'
  BY <1>27 DEF CommitLockGC
<1>28. ASSUME NEW t \in Threads, RemoveTransaction(t)
      PROVE  OwnGCInv'
  BY <1>28 DEF RemoveTransaction
<1> QED
BY <1>1, <1>2, <1>3, <1>4, <1>5, <1>6, <1>7, <1>8, <1>9, <1>10, <1>11, <1>12,
     <1>13, <1>14, <1>15, <1>16, <1>17, <1>18, <1>19, <1>20, <1>21, <1>22,
     <1>23, <1>24, <1>25, <1>26, <1>27, <1>28, Zenon
  DEF Next, Acquire, Continue, Choose

(* A stopped thread stays stopped: it would need its gc_mutex_ back, or    *)
(* transactions_mutex_, and the collector has both.                        *)
LEMMA StoppingStep == IndInv /\ [Next]_vars => StoppingInv'
<1> SUFFICES ASSUME IndInv, [Next]_vars PROVE StoppingInv'
  OBVIOUS
<1> USE ThreadsAssumption DEF IndInv, TypeOK, Labels, scopes, stack, Goto,
        Lock, Unlock, ListInv, OwnGCInv, Owning, StoppingInv
<1>1. CASE UNCHANGED vars
  BY <1>1 DEF vars
<1>2. ASSUME NEW t \in Threads, StartTransaction(t)
      PROVE  StoppingInv'
  BY <1>2, SMT DEF StartTransaction
<1>3. ASSUME NEW t \in Threads, EnterAllocationScope(t)
      PROVE  StoppingInv'
  BY <1>3, SMT DEF EnterAllocationScope
<1>4. ASSUME NEW t \in Threads, EnterAllocationScopePausing(t)
      PROVE  StoppingInv'
  BY <1>4, SMT DEF EnterAllocationScopePausing, Pause
<1>5. ASSUME NEW t \in Threads, LockHeap(t)
      PROVE  StoppingInv'
  BY <1>5, SMT DEF LockHeap
<1>6. ASSUME NEW t \in Threads, LeaveAllocationScope(t)
      PROVE  StoppingInv'
  BY <1>6, SMT DEF LeaveAllocationScope
<1>7. ASSUME NEW t \in Threads, RetryAfterGC(t)
      PROVE  StoppingInv'
  BY <1>7, SMT DEF RetryAfterGC, CallCollectGarbage
<1>8. ASSUME NEW t \in Threads, RuntimeAllocate(t)
      PROVE  StoppingInv'
  BY <1>8, SMT DEF RuntimeAllocate
<1>9. ASSUME NEW t \in Threads, RuntimeAllocated(t)
      PROVE  StoppingInv'
  BY <1>9, SMT DEF RuntimeAllocated
<1>10. ASSUME NEW t \in Threads, PerformGC(t)
      PROVE  StoppingInv'
  BY <1>10, SMT DEF PerformGC, CallCollectGarbage
<1>11. ASSUME NEW t \in Threads, RequestGC(t)
      PROVE  StoppingInv'
  BY <1>11, SMT DEF RequestGC
<1>12. ASSUME NEW t \in Threads, SkipGC(t)
      PROVE  StoppingInv'
  BY <1>12, SMT DEF SkipGC
<1>13. ASSUME NEW t \in Threads, SkipWithoutPause(t)
      PROVE  StoppingInv'
  BY <1>13, SMT DEF SkipWithoutPause
<1>14. ASSUME NEW t \in Threads, SkipPausing(t)
      PROVE  StoppingInv'
  BY <1>14, SMT DEF SkipPausing, Pause
<1>15. ASSUME NEW t \in Threads, LockList(t)
      PROVE  StoppingInv'
  BY <1>15, SMT DEF LockList
<1>16. ASSUME NEW t \in Threads, NEW u \in Threads, LockGC(t, u)
      PROVE  StoppingInv'
  BY <1>16, SMT DEF LockGC, Remaining
<1>17. ASSUME NEW t \in Threads, CollectGarbage(t)
      PROVE  StoppingInv'
  BY <1>17, SMT DEF CollectGarbage, Remaining
<1>18. ASSUME NEW t \in Threads, LeaveCollectionScope(t)
      PROVE  StoppingInv'
  BY <1>18, SMT DEF LeaveCollectionScope
<1>19. ASSUME NEW t \in Threads, NEW u \in Threads, ResumeThread(t, u)
      PROVE  StoppingInv'
  BY <1>19, SMT DEF ResumeThread, Remaining
<1>20. ASSUME NEW t \in Threads, UnlockList(t)
      PROVE  StoppingInv'
  BY <1>20, SMT DEF UnlockList, Remaining
<1>21. ASSUME NEW t \in Threads, Wake(t)
      PROVE  StoppingInv'
  BY <1>21, SMT DEF Wake
<1>22. ASSUME NEW t \in Threads, DeleteDoneGC(t)
      PROVE  StoppingInv'
  BY <1>22, SMT DEF DeleteDoneGC
<1>23. ASSUME NEW t \in Threads, RelockGC(t)
      PROVE  StoppingInv'
  BY <1>23, SMT DEF RelockGC
<1>24. ASSUME NEW t \in Threads, BeginCommit(t)
      PROVE  StoppingInv'
  BY <1>24, SMT DEF BeginCommit
<1>25. ASSUME NEW t \in Threads, LockCommit(t)
      PROVE  StoppingInv'
  BY <1>25, SMT DEF LockCommit
<1>26. ASSUME NEW t \in Threads, LockTransactions(t)
      PROVE  StoppingInv'
  BY <1>26, SMT DEF LockTransactions
<1>27. ASSUME NEW t \in Threads, CommitLockGC(t)
      PROVE  StoppingInv'
  BY <1>27, SMT DEF CommitLockGC
<1>28. ASSUME NEW t \in Threads, RemoveTransaction(t)
      PROVE  StoppingInv'
  BY <1>28, SMT DEF RemoveTransaction
<1> QED
BY <1>1, <1>2, <1>3, <1>4, <1>5, <1>6, <1>7, <1>8, <1>9, <1>10, <1>11, <1>12,
     <1>13, <1>14, <1>15, <1>16, <1>17, <1>18, <1>19, <1>20, <1>21, <1>22,
     <1>23, <1>24, <1>25, <1>26, <1>27, <1>28, Zenon
  DEF Next, Acquire, Continue, Choose

(* heap_mutex_ stays with the thread whose scope it is, through a nested   *)
(* collection and through a pause.                                         *)
LEMMA ScopeStep == IndInv /\ [Next]_vars => ScopeInv'
<1> SUFFICES ASSUME IndInv, [Next]_vars PROVE ScopeInv'
  OBVIOUS
<1> USE ThreadsAssumption DEF IndInv, TypeOK, Labels, scopes, stack, Goto,
        Lock, Unlock, ScopeInv, InScope
<1>1. CASE UNCHANGED vars
  BY <1>1 DEF vars
<1>2. ASSUME NEW t \in Threads, StartTransaction(t)
      PROVE  ScopeInv'
  BY <1>2 DEF StartTransaction
<1>3. ASSUME NEW t \in Threads, EnterAllocationScope(t)
      PROVE  ScopeInv'
  BY <1>3 DEF EnterAllocationScope
<1>4. ASSUME NEW t \in Threads, EnterAllocationScopePausing(t)
      PROVE  ScopeInv'
  BY <1>4 DEF EnterAllocationScopePausing, Pause
<1>5. ASSUME NEW t \in Threads, LockHeap(t)
      PROVE  ScopeInv'
  BY <1>5 DEF LockHeap
<1>6. ASSUME NEW t \in Threads, LeaveAllocationScope(t)
      PROVE  ScopeInv'
  BY <1>6 DEF LeaveAllocationScope
<1>7. ASSUME NEW t \in Threads, RetryAfterGC(t)
      PROVE  ScopeInv'
  BY <1>7 DEF RetryAfterGC, CallCollectGarbage
<1>8. ASSUME NEW t \in Threads, RuntimeAllocate(t)
      PROVE  ScopeInv'
  BY <1>8 DEF RuntimeAllocate
<1>9. ASSUME NEW t \in Threads, RuntimeAllocated(t)
      PROVE  ScopeInv'
  BY <1>9 DEF RuntimeAllocated
<1>10. ASSUME NEW t \in Threads, PerformGC(t)
      PROVE  ScopeInv'
  BY <1>10 DEF PerformGC, CallCollectGarbage
<1>11. ASSUME NEW t \in Threads, RequestGC(t)
      PROVE  ScopeInv'
  BY <1>11 DEF RequestGC
<1>12. ASSUME NEW t \in Threads, SkipGC(t)
      PROVE  ScopeInv'
  BY <1>12 DEF SkipGC
<1>13. ASSUME NEW t \in Threads, SkipWithoutPause(t)
      PROVE  ScopeInv'
  BY <1>13 DEF SkipWithoutPause
<1>14. ASSUME NEW t \in Threads, SkipPausing(t)
      PROVE  ScopeInv'
  BY <1>14 DEF SkipPausing, Pause
<1>15. ASSUME NEW t \in Threads, LockList(t)
      PROVE  ScopeInv'
  BY <1>15 DEF LockList
<1>16. ASSUME NEW t \in Threads, NEW u \in Threads, LockGC(t, u)
      PROVE  ScopeInv'
  BY <1>16 DEF LockGC, Remaining
<1>17. ASSUME NEW t \in Threads, CollectGarbage(t)
      PROVE  ScopeInv'
  BY <1>17 DEF CollectGarbage, Remaining
<1>18. ASSUME NEW t \in Threads, LeaveCollectionScope(t)
      PROVE  ScopeInv'
  BY <1>18 DEF LeaveCollectionScope
<1>19. ASSUME NEW t \in Threads, NEW u \in Threads, ResumeThread(t, u)
      PROVE  ScopeInv'
  BY <1>19 DEF ResumeThread, Remaining
<1>20. ASSUME NEW t \in Threads, UnlockList(t)
      PROVE  ScopeInv'
  BY <1>20 DEF UnlockList, Remaining
<1>21. ASSUME NEW t \in Threads, Wake(t)
      PROVE  ScopeInv'
  BY <1>21 DEF Wake
<1>22. ASSUME NEW t \in Threads, DeleteDoneGC(t)
      PROVE  ScopeInv'
  BY <1>22 DEF DeleteDoneGC
<1>23. ASSUME NEW t \in Threads, RelockGC(t)
      PROVE  ScopeInv'
  BY <1>23 DEF RelockGC
<1>24. ASSUME NEW t \in Threads, BeginCommit(t)
      PROVE  ScopeInv'
  BY <1>24 DEF BeginCommit
<1>25. ASSUME NEW t \in Threads, LockCommit(t)
      PROVE  ScopeInv'
  BY <1>25 DEF LockCommit
<1>26. ASSUME NEW t \in Threads, LockTransactions(t)
      PROVE  ScopeInv'
  BY <1>26 DEF LockTransactions
<1>27. ASSUME NEW t \in Threads, CommitLockGC(t)
      PROVE  ScopeInv'
  BY <1>27 DEF CommitLockGC
<1>28. ASSUME NEW t \in Threads, RemoveTransaction(t)
      PROVE  ScopeInv'
  BY <1>28 DEF RemoveTransaction
<1> QED
BY <1>1, <1>2, <1>3, <1>4, <1>5, <1>6, <1>7, <1>8, <1>9, <1>10, <1>11, <1>12,
     <1>13, <1>14, <1>15, <1>16, <1>17, <1>18, <1>19, <1>20, <1>21, <1>22,
     <1>23, <1>24, <1>25, <1>26, <1>27, <1>28, Zenon
  DEF Next, Acquire, Continue, Choose

(* Initially no thread is in a transaction.                                *)
LEMMA InitIndInv == Init => IndInv
<1> SUFFICES ASSUME Init PROVE IndInv
  OBVIOUS
<1>1. TypeOK
  BY DEF Init, TypeOK, Labels
<1>2. \A t \in Threads : pc[t] = "out" /\ visited[t] = {}
  BY DEF Init
<1>3. ListInv /\ OwnGCInv /\ StoppingInv /\ ScopeInv
  BY <1>2 DEF Init, ListInv, OwnGCInv, Owning, StoppingInv, ScopeInv, InScope
<1> QED
  BY <1>1, <1>3 DEF IndInv

(* The invariant holds in every reachable state. *)
THEOREM Invariance == Spec => []IndInv
<1>1. IndInv /\ [Next]_vars => IndInv'
  BY TypeStep, ListStep, OwnGCStep, StoppingStep, ScopeStep DEF IndInv
<1> QED
  BY InitIndInv, <1>1, PTL DEF Spec

(* The variables keep their types. *)
THEOREM TypeCorrect == Spec => []TypeOK
<1>1. IndInv => TypeOK
  BY DEF IndInv
<1> QED
  BY Invariance, <1>1, PTL

(* A collector has locked the gc_mutex_ of every transaction, which a      *)
(* thread that is not in a safe state owns itself, and the mutex of the    *)
(* list, which a thread on its way through a commit owns.                  *)
LEMMA CollectorAlone == IndInv => StopTheWorld
<1> SUFFICES ASSUME IndInv, NEW t \in Threads, NEW u \in Threads,
                    pc[t] = "gc", t # u
             PROVE  pc[u] \in {"out", "paused", "woken", "relock",
                               "commit", "commitList"}
  BY DEF StopTheWorld
<1>1. u \in transactions => gc_mutex[u] = t /\ transactions_mutex = t
  BY DEF IndInv, StoppingInv
<1> QED
  BY <1>1 DEF IndInv, TypeOK, Labels, ListInv, OwnGCInv, Owning, StoppingInv

(* STM::EnterCollectionScope: all other threads are stopped in a safe      *)
(* state when it returns true, whatever the program does.                  *)
THEOREM CollectionStopsTheWorld == Spec => []StopTheWorld
  BY Invariance, CollectorAlone, PTL

(* Allocation scopes exclude each other and collections, also where a      *)
(* collection is nested in a scope.                                        *)
THEOREM ScopesAreExclusive == Spec => []ScopesExclusive
<1>1. IndInv => ScopesExclusive
  <2> SUFFICES ASSUME IndInv, NEW t \in Threads, NEW u \in Threads,
                      pc[t] \in {"alloc", "gc"}, pc[u] \in {"alloc", "gc"}
               PROVE  t = u
    BY DEF ScopesExclusive
  <2>1. CASE pc[t] = "alloc" /\ pc[u] = "alloc"
    BY <2>1 DEF IndInv, ScopeInv, InScope
  <2>2. CASE pc[t] = "gc" \/ pc[u] = "gc"
    BY <2>2, CollectorAlone DEF StopTheWorld
  <2> QED
    BY <2>1, <2>2
<1> QED
  BY Invariance, <1>1, PTL

(* The steps that neither raise nor lower need_gc_, nor begin or end a     *)
(* collection, nor pause.                                                  *)
LEMMA QuietStep ==
  ASSUME TypeOK, RequestInv, NEW t \in Threads, NEW to \in Labels,
         pc' = [pc EXCEPT ![t] = to], UNCHANGED <<need_gc, failed, back>>,
         pc[t] \in Requesting <=> to \in Requesting,
         to \notin {"collect", "check", "leave"},
         to \in {"paused", "woken", "relock"} =>
           pc[t] \in {"paused", "woken", "relock"}
  PROVE  RequestInv'
<1>1. pc'[t] = to /\ \A u \in Threads \ {t} : pc'[u] = pc[u]
  BY DEF TypeOK
<1>2. (\E u \in Threads : pc'[u] \in Requesting) <=>
        \E u \in Threads : pc[u] \in Requesting
  BY <1>1
<1> QED  BY <1>1, <1>2 DEF RequestInv, Requesting

(* A step of any thread keeps the request where it belongs. *)
LEMMA RequestStep ==
  OneCollector /\ IndInv /\ RequestInv /\ [Next]_vars => RequestInv'
<1> SUFFICES ASSUME OneCollector, IndInv, RequestInv, [Next]_vars
             PROVE  RequestInv'
  OBVIOUS
<1> USE DEF Goto, stack, scopes
<1>0. TypeOK
  BY DEF IndInv
<1>1. CASE UNCHANGED vars
  BY <1>1 DEF vars, RequestInv
<1>2. ASSUME NEW t \in Threads,
             \/ StartTransaction(t) \/ EnterAllocationScope(t) \/ LockHeap(t)
             \/ LeaveAllocationScope(t) \/ RuntimeAllocate(t)
             \/ RuntimeAllocated(t) \/ LockList(t) \/ CollectGarbage(t)
             \/ Wake(t) \/ DeleteDoneGC(t) \/ BeginCommit(t) \/ LockCommit(t)
             \/ LockTransactions(t) \/ CommitLockGC(t) \/ RemoveTransaction(t)
      PROVE  RequestInv'
  <2>1. \E to \in Labels :
          /\ pc' = [pc EXCEPT ![t] = to]
          /\ UNCHANGED <<need_gc, failed, back>>
          /\ pc[t] \in Requesting <=> to \in Requesting
          /\ to \notin {"collect", "check", "leave"}
          /\ to \in {"paused", "woken", "relock"} =>
               pc[t] \in {"paused", "woken", "relock"}
    BY <1>2 DEF Labels, Requesting, StartTransaction, EnterAllocationScope,
         LockHeap, LeaveAllocationScope, RuntimeAllocate, RuntimeAllocated,
         LockList, CollectGarbage, Wake, DeleteDoneGC, BeginCommit, LockCommit,
         LockTransactions, CommitLockGC, RemoveTransaction
  <2> QED  BY <1>0, <2>1, QuietStep
<1>3. ASSUME NEW t \in Threads, RelockGC(t)
      PROVE  RequestInv'
  <2>1. /\ pc' = [pc EXCEPT ![t] = back[t]] /\ pc[t] = "relock"
        /\ UNCHANGED <<need_gc, failed, back>>
    BY <1>3 DEF RelockGC
  <2>2. back[t] = "wantHeap"
    BY <2>1 DEF RequestInv
  <2> QED  BY <1>0, <2>1, <2>2, QuietStep DEF Labels, Requesting
<1>4. ASSUME NEW t \in Threads, UnlockList(t)
      PROVE  RequestInv'
  <2>1. /\ pc' = [pc EXCEPT ![t] = ret[t]] /\ pc[t] = "resume"
        /\ UNCHANGED <<need_gc, failed, back>>
    BY <1>4 DEF UnlockList
  <2>2. ret[t] \in {"run", "alloc"}
    BY <1>0 DEF TypeOK
  <2> QED  BY <1>0, <2>1, <2>2, QuietStep DEF Labels, Requesting
<1>5. ASSUME NEW t \in Threads, NEW u \in Threads, LockGC(t, u) \/ ResumeThread(t, u)
      PROVE  RequestInv'
  BY <1>5, SMT DEF LockGC, ResumeThread, RequestInv
<1>6. ASSUME NEW t \in Threads, EnterAllocationScopePausing(t)
      PROVE  RequestInv'
  BY <1>0, <1>6 DEF EnterAllocationScopePausing, Pause, RequestInv, Requesting, TypeOK
<1>7. ASSUME NEW t \in Threads, RetryAfterGC(t) \/ PerformGC(t)
      PROVE  RequestInv'
  BY <1>0, <1>7, SMT DEF RetryAfterGC, PerformGC, CallCollectGarbage,
     RequestInv, Requesting, TypeOK
<1>8. ASSUME NEW t \in Threads, RequestGC(t)
      PROVE  RequestInv'
  BY <1>0, <1>8 DEF RequestGC, RequestInv, Requesting, TypeOK
<1>9. ASSUME NEW t \in Threads, SkipGC(t)
      PROVE  FALSE
  BY <1>9 DEF SkipGC, RequestInv, Requesting, OneCollector
<1>10. ASSUME NEW t \in Threads, SkipWithoutPause(t) \/ SkipPausing(t)
       PROVE  FALSE
  BY <1>10 DEF SkipWithoutPause, SkipPausing, RequestInv
<1>11. ASSUME NEW t \in Threads, LeaveCollectionScope(t)
       PROVE  RequestInv'
  <2>1. pc[t] = "gc" /\ need_gc = 1 /\ t \in Collectors
    BY <1>11 DEF LeaveCollectionScope, RequestInv, Requesting
  <2>2. \A u \in Threads \ {t} : pc[u] \notin Requesting
    BY <2>1 DEF RequestInv, OneCollector
  <2> QED
    BY <1>0, <1>11, <2>1, <2>2, SMT DEF LeaveCollectionScope, RequestInv,
       Requesting, TypeOK
<1> QED
  BY <1>1, <1>2, <1>3, <1>4, <1>5, <1>6, <1>7, <1>8, <1>9, <1>10, <1>11, Zenon
  DEF Next, Acquire, Continue, Choose

(* If at most one thread runs out of memory, LeaveCollectionScope finds    *)
(* need_gc_ raised, as its ASSERT says, wherever that thread allocates and *)
(* however the others start, pause and commit.                             *)
THEOREM AssertsHold ==
  ASSUME OneCollector
  PROVE  Spec => []NoAssertFails
<1>1. Init => RequestInv
  BY SMT DEF Init, RequestInv, Requesting
<1>2. IndInv /\ RequestInv /\ [Next]_vars => RequestInv'
  BY OneCollector, RequestStep
<1>3. RequestInv => NoAssertFails
  BY DEF RequestInv, NoAssertFails
<1> QED
  BY <1>1, <1>2, <1>3, Invariance, PTL DEF Spec
=============================================================================
