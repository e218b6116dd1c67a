----------------------------- MODULE STMProofs -----------------------------
(***************************************************************************)
(* Proofs about module STM, for any number of threads, objects, fields and *)
(* values, with and without blind stores and --stm_aborts.                 *)
(*                                                                         *)
(* IndInv is inductive.  Each lemma of the first part shows that a step of *)
(* any thread keeps one of its conjuncts.  The second part shows that the  *)
(* module implements AtomicTransactions.                                   *)
(***************************************************************************)
EXTENDS STM, TLAPS

(* Zenon is tried on the leaves that name no other prover.                 *)
USE ZenonT(30)

(* Types.  A word is read from a copy, or copied back to the heap, only    *)
(* when its object is in the write set, and then SetsInv says it was       *)
(* copied.                                                                 *)
LEMMA TypeStep == IndInv /\ [Next]_vars => TypeOK'
<1> SUFFICES ASSUME IndInv, [Next]_vars PROVE TypeOK'
  OBVIOUS
<1> USE DEF IndInv, TypeOK, Labels, mutexes, sets, history, Goto,
        FreshTransaction, Operate
<1>1. CASE UNCHANGED vars
  BY <1>1 DEF vars
<1>2. ASSUME NEW t \in Threads, StartTransaction(t)
      PROVE  TypeOK'
  BY <1>2, BoundAssumption, SMT DEF StartTransaction, Uninitialised
<1>3. ASSUME NEW t \in Threads, NEW o \in Objects, RedirectLoad(t, o)
      PROVE  TypeOK'
  BY <1>3, BoundAssumption, SMT DEF RedirectLoad
<1>4. ASSUME NEW t \in Threads, NEW o \in Objects, RedirectStore(t, o)
      PROVE  TypeOK'
  <2>1. {o} \X Fields \in SUBSET (Objects \X Fields)
    OBVIOUS
  <2> QED
    BY <1>4, <2>1, BoundAssumption, SMT DEF RedirectStore, Words
<1>5. ASSUME NEW t \in Threads, AddRead(t)
      PROVE  TypeOK'
  BY <1>5, SMT DEF AddRead
<1>6. ASSUME NEW t \in Threads, NEW f \in Fields, Load(t, f)
      PROVE  TypeOK'
  BY <1>6, SMT DEF Load, OperationInv, OperationOK, SetsInv, Words
<1>7. ASSUME NEW t \in Threads, NEW w \in Words, CopyWord(t, w)
      PROVE  TypeOK'
  BY <1>7 DEF CopyWord
<1>8. ASSUME NEW t \in Threads, AddWrite(t)
      PROVE  TypeOK'
  BY <1>8, SMT DEF AddWrite
<1>9. ASSUME NEW t \in Threads, NEW f \in Fields, NEW v \in Values,
             Store(t, f, v)
      PROVE  TypeOK'
  BY <1>9, SMT DEF Store, Words
<1>10. ASSUME NEW t \in Threads, EndEvent(t)
      PROVE  TypeOK'
  BY <1>10, FlagAssumption, Zenon DEF EndEvent
<1>11. ASSUME NEW t \in Threads, LockCommit(t)
      PROVE  TypeOK'
  BY <1>11 DEF LockCommit
<1>12. ASSUME NEW t \in Threads, LockTransactions(t)
      PROVE  TypeOK'
  BY <1>12 DEF LockTransactions
<1>13. ASSUME NEW t \in Threads, NEW u \in Threads, LockTransaction(t, u)
      PROVE  TypeOK'
  BY <1>13 DEF LockTransaction
<1>14. ASSUME NEW t \in Threads, AllLocked(t)
      PROVE  TypeOK'
  BY <1>14 DEF AllLocked
<1>15. ASSUME NEW t \in Threads, NEW u \in Threads, AbortConflicting(t, u)
      PROVE  TypeOK'
  BY <1>15 DEF AbortConflicting
<1>16. ASSUME NEW t \in Threads, BeginCommitHeap(t)
      PROVE  TypeOK'
  BY <1>16 DEF BeginCommitHeap, Words
<1>17. ASSUME NEW t \in Threads, NEW w \in Words, CommitWord(t, w)
      PROVE  TypeOK'
  BY <1>17 DEF CommitWord, OperationInv, OperationOK, SetsInv, Words
<1>18. ASSUME NEW t \in Threads, UnlockTransactions(t)
      PROVE  TypeOK'
  BY <1>18 DEF UnlockTransactions
<1>19. ASSUME NEW t \in Threads, RemoveTransaction(t)
      PROVE  TypeOK'
  BY <1>19, BoundAssumption, SMT DEF RemoveTransaction, Uninitialised
<1> QED
  BY <1>1, <1>2, <1>3, <1>4, <1>5, <1>6, <1>7, <1>8, <1>9, <1>10, <1>11,
     <1>12, <1>13, <1>14, <1>15, <1>16, <1>17, <1>18, <1>19, Zenon
  DEF Next, Execute, CommitTransaction

(* The mutexes follow the control of CommitTransaction.                    *)
LEMMA LockStep == IndInv /\ [Next]_vars => LockDiscipline'
<1> SUFFICES ASSUME IndInv, [Next]_vars PROVE LockDiscipline'
  OBVIOUS
<1> USE NobodyAssumption DEF IndInv, TypeOK, LockDiscipline,
        ConflictsAborted, Labels, Committing, mutexes, sets, history, Goto,
        FreshTransaction, Operate
<1>1. CASE UNCHANGED vars
  BY <1>1 DEF vars
<1>2. ASSUME NEW t \in Threads, StartTransaction(t)
      PROVE  LockDiscipline'
  BY <1>2, SMT DEF StartTransaction
<1>3. ASSUME NEW t \in Threads, NEW o \in Objects, RedirectLoad(t, o)
      PROVE  LockDiscipline'
  BY <1>3, SMT DEF RedirectLoad
<1>4. ASSUME NEW t \in Threads, NEW o \in Objects, RedirectStore(t, o)
      PROVE  LockDiscipline'
  BY <1>4, SMT DEF RedirectStore
<1>5. ASSUME NEW t \in Threads, AddRead(t)
      PROVE  LockDiscipline'
  BY <1>5, SMT DEF AddRead
<1>6. ASSUME NEW t \in Threads, NEW f \in Fields, Load(t, f)
      PROVE  LockDiscipline'
  BY <1>6, SMT DEF Load
<1>7. ASSUME NEW t \in Threads, NEW w \in Words, CopyWord(t, w)
      PROVE  LockDiscipline'
  BY <1>7, SMT DEF CopyWord
<1>8. ASSUME NEW t \in Threads, AddWrite(t)
      PROVE  LockDiscipline'
  BY <1>8, SMT DEF AddWrite
<1>9. ASSUME NEW t \in Threads, NEW f \in Fields, NEW v \in Values,
             Store(t, f, v)
      PROVE  LockDiscipline'
  BY <1>9, SMT DEF Store
<1>10. ASSUME NEW t \in Threads, EndEvent(t)
      PROVE  LockDiscipline'
  BY <1>10, SMT DEF EndEvent
<1>11. ASSUME NEW t \in Threads, LockCommit(t)
      PROVE  LockDiscipline'
  BY <1>11 DEF LockCommit
<1>12. ASSUME NEW t \in Threads, LockTransactions(t)
      PROVE  LockDiscipline'
  BY <1>12 DEF LockTransactions
<1>13. ASSUME NEW t \in Threads, NEW u \in Threads, LockTransaction(t, u)
      PROVE  LockDiscipline'
  BY <1>13, SMT DEF LockTransaction
<1>14. ASSUME NEW t \in Threads, AllLocked(t)
      PROVE  LockDiscipline'
  BY <1>14, SMT DEF AllLocked
<1>15. ASSUME NEW t \in Threads, NEW u \in Threads, AbortConflicting(t, u)
      PROVE  LockDiscipline'
  BY <1>15 DEF AbortConflicting
<1>16. ASSUME NEW t \in Threads, BeginCommitHeap(t)
      PROVE  LockDiscipline'
  BY <1>16, SMT DEF BeginCommitHeap
<1>17. ASSUME NEW t \in Threads, NEW w \in Words, CommitWord(t, w)
      PROVE  LockDiscipline'
  BY <1>17, SMT DEF CommitWord
<1>18. ASSUME NEW t \in Threads, UnlockTransactions(t)
      PROVE  LockDiscipline'
  BY <1>18 DEF UnlockTransactions
<1>19. ASSUME NEW t \in Threads, RemoveTransaction(t)
      PROVE  LockDiscipline'
  BY <1>19 DEF RemoveTransaction
<1> QED
  BY <1>1, <1>2, <1>3, <1>4, <1>5, <1>6, <1>7, <1>8, <1>9, <1>10, <1>11,
     <1>12, <1>13, <1>14, <1>15, <1>16, <1>17, <1>18, <1>19, Zenon
  DEF Next, Execute, CommitTransaction

(* Only the committer aborts others, and it holds transactions_mutex_, so  *)
(* there is no second committer past its test of aborted_.                 *)
LEMMA CommitterStep == IndInv /\ [Next]_vars => CommitterNotAborted'
<1> SUFFICES ASSUME IndInv, [Next]_vars PROVE CommitterNotAborted'
  OBVIOUS
<1> USE NobodyAssumption DEF IndInv, TypeOK, LockDiscipline,
        ConflictsAborted, CommitterNotAborted, Labels, Committing, mutexes,
        sets, history, Goto, FreshTransaction, Operate
<1>1. CASE UNCHANGED vars
  BY <1>1 DEF vars
<1>2. ASSUME NEW t \in Threads, StartTransaction(t)
      PROVE  CommitterNotAborted'
  BY <1>2 DEF StartTransaction
<1>3. ASSUME NEW t \in Threads, NEW o \in Objects, RedirectLoad(t, o)
      PROVE  CommitterNotAborted'
  BY <1>3 DEF RedirectLoad
<1>4. ASSUME NEW t \in Threads, NEW o \in Objects, RedirectStore(t, o)
      PROVE  CommitterNotAborted'
  BY <1>4 DEF RedirectStore
<1>5. ASSUME NEW t \in Threads, AddRead(t)
      PROVE  CommitterNotAborted'
  BY <1>5 DEF AddRead
<1>6. ASSUME NEW t \in Threads, NEW f \in Fields, Load(t, f)
      PROVE  CommitterNotAborted'
  BY <1>6 DEF Load
<1>7. ASSUME NEW t \in Threads, NEW w \in Words, CopyWord(t, w)
      PROVE  CommitterNotAborted'
  BY <1>7 DEF CopyWord
<1>8. ASSUME NEW t \in Threads, AddWrite(t)
      PROVE  CommitterNotAborted'
  BY <1>8 DEF AddWrite
<1>9. ASSUME NEW t \in Threads, NEW f \in Fields, NEW v \in Values,
             Store(t, f, v)
      PROVE  CommitterNotAborted'
  BY <1>9 DEF Store
<1>10. ASSUME NEW t \in Threads, EndEvent(t)
      PROVE  CommitterNotAborted'
  BY <1>10, SMT DEF EndEvent
<1>11. ASSUME NEW t \in Threads, LockCommit(t)
      PROVE  CommitterNotAborted'
  BY <1>11 DEF LockCommit
<1>12. ASSUME NEW t \in Threads, LockTransactions(t)
      PROVE  CommitterNotAborted'
  BY <1>12, SMT DEF LockTransactions
<1>13. ASSUME NEW t \in Threads, NEW u \in Threads, LockTransaction(t, u)
      PROVE  CommitterNotAborted'
  BY <1>13 DEF LockTransaction
<1>14. ASSUME NEW t \in Threads, AllLocked(t)
      PROVE  CommitterNotAborted'
  BY <1>14 DEF AllLocked
<1>15. ASSUME NEW t \in Threads, NEW u \in Threads, AbortConflicting(t, u)
      PROVE  CommitterNotAborted'
  BY <1>15 DEF AbortConflicting
<1>16. ASSUME NEW t \in Threads, BeginCommitHeap(t)
      PROVE  CommitterNotAborted'
  BY <1>16 DEF BeginCommitHeap
<1>17. ASSUME NEW t \in Threads, NEW w \in Words, CommitWord(t, w)
      PROVE  CommitterNotAborted'
  BY <1>17 DEF CommitWord
<1>18. ASSUME NEW t \in Threads, UnlockTransactions(t)
      PROVE  CommitterNotAborted'
  BY <1>18 DEF UnlockTransactions
<1>19. ASSUME NEW t \in Threads, RemoveTransaction(t)
      PROVE  CommitterNotAborted'
  BY <1>19 DEF RemoveTransaction
<1> QED
  BY <1>1, <1>2, <1>3, <1>4, <1>5, <1>6, <1>7, <1>8, <1>9, <1>10, <1>11,
     <1>12, <1>13, <1>14, <1>15, <1>16, <1>17, <1>18, <1>19, Zenon
  DEF Next, Execute, CommitTransaction

(* While a committer is in its second loop or in CommitHeap, every         *)
(* transaction is locked: sets do not grow, and aborted_ is never reset.   *)
LEMMA ConflictStep == IndInv /\ [Next]_vars => ConflictsAborted'
<1> SUFFICES ASSUME IndInv, [Next]_vars PROVE ConflictsAborted'
  OBVIOUS
<1> USE NobodyAssumption DEF IndInv, TypeOK, LockDiscipline,
        ConflictsAborted, Labels, Committing, mutexes, sets, history, Goto,
        FreshTransaction, Operate
<1>1. CASE UNCHANGED vars
  BY <1>1 DEF vars, HasConflicts
<1>2. ASSUME NEW t \in Threads, StartTransaction(t)
      PROVE  ConflictsAborted'
  BY <1>2, SMT DEF StartTransaction, HasConflicts
<1>3. ASSUME NEW t \in Threads, NEW o \in Objects, RedirectLoad(t, o)
      PROVE  ConflictsAborted'
  BY <1>3, SMT DEF RedirectLoad, HasConflicts
<1>4. ASSUME NEW t \in Threads, NEW o \in Objects, RedirectStore(t, o)
      PROVE  ConflictsAborted'
  BY <1>4, SMT DEF RedirectStore, HasConflicts
<1>5. ASSUME NEW t \in Threads, AddRead(t)
      PROVE  ConflictsAborted'
  BY <1>5, SMT DEF AddRead, HasConflicts
<1>6. ASSUME NEW t \in Threads, NEW f \in Fields, Load(t, f)
      PROVE  ConflictsAborted'
  BY <1>6, SMT DEF Load, HasConflicts
<1>7. ASSUME NEW t \in Threads, NEW w \in Words, CopyWord(t, w)
      PROVE  ConflictsAborted'
  BY <1>7, SMT DEF CopyWord, HasConflicts
<1>8. ASSUME NEW t \in Threads, AddWrite(t)
      PROVE  ConflictsAborted'
  BY <1>8, SMT DEF AddWrite, HasConflicts
<1>9. ASSUME NEW t \in Threads, NEW f \in Fields, NEW v \in Values,
             Store(t, f, v)
      PROVE  ConflictsAborted'
  BY <1>9, SMT DEF Store, HasConflicts
<1>10. ASSUME NEW t \in Threads, EndEvent(t)
      PROVE  ConflictsAborted'
  <2>1. \A x \in Threads : aborted[x] => aborted'[x]
    <3>1. CASE aborted' = aborted
      BY <3>1
    <3>2. CASE aborted' = [aborted EXCEPT ![t] = @ \/ StmAborts]
      BY <3>2, Zenon
    <3> QED
      BY <1>10, <3>1, <3>2 DEF EndEvent
  <2>2. UNCHANGED <<transactions, visit, sets>>
    BY <1>10 DEF EndEvent
  <2>3. \A x \in Threads : pc'[x] \in {"lock", "conflict", "heap"}
                           => pc'[x] = pc[x]
    BY <1>10 DEF EndEvent
  <2> QED
    BY <2>1, <2>2, <2>3 DEF HasConflicts
<1>11. ASSUME NEW t \in Threads, LockCommit(t)
      PROVE  ConflictsAborted'
  BY <1>11, SMT DEF LockCommit, HasConflicts
<1>12. ASSUME NEW t \in Threads, LockTransactions(t)
      PROVE  ConflictsAborted'
  BY <1>12, SMT DEF LockTransactions, HasConflicts
<1>13. ASSUME NEW t \in Threads, NEW u \in Threads, LockTransaction(t, u)
      PROVE  ConflictsAborted'
  BY <1>13 DEF LockTransaction, HasConflicts
<1>14. ASSUME NEW t \in Threads, AllLocked(t)
      PROVE  ConflictsAborted'
  BY <1>14, SMT DEF AllLocked, HasConflicts
<1>15. ASSUME NEW t \in Threads, NEW u \in Threads, AbortConflicting(t, u)
      PROVE  ConflictsAborted'
  <2>1. aborted' = [aborted EXCEPT ![u] = @ \/ HasConflicts(u, t)]
    BY <1>15 DEF AbortConflicting
  <2>2. \A x \in Threads : aborted[x] => aborted'[x]
    BY <2>1, Zenon
  <2>3. HasConflicts(u, t) => aborted'[u]
    BY <2>1, Zenon
  <2>4. UNCHANGED <<transactions, sets, pc>> /\ visit' = visit \ {u}
    BY <1>15 DEF AbortConflicting
  <2>5. \A x \in Threads : pc[x] \in Committing => x = t
    BY <1>15 DEF AbortConflicting
  <2>6. pc[t] = "conflict" /\ u \in visit
    BY <1>15 DEF AbortConflicting
  <2> QED
    BY <2>2, <2>3, <2>4, <2>5, <2>6, SMT DEF HasConflicts
<1>16. ASSUME NEW t \in Threads, BeginCommitHeap(t)
      PROVE  ConflictsAborted'
  BY <1>16, SMT DEF BeginCommitHeap, HasConflicts
<1>17. ASSUME NEW t \in Threads, NEW w \in Words, CommitWord(t, w)
      PROVE  ConflictsAborted'
  BY <1>17, SMT DEF CommitWord, HasConflicts
<1>18. ASSUME NEW t \in Threads, UnlockTransactions(t)
      PROVE  ConflictsAborted'
  BY <1>18, SMT DEF UnlockTransactions, HasConflicts
<1>19. ASSUME NEW t \in Threads, RemoveTransaction(t)
      PROVE  ConflictsAborted'
  BY <1>19, SMT DEF RemoveTransaction, HasConflicts
<1> QED
  BY <1>1, <1>2, <1>3, <1>4, <1>5, <1>6, <1>7, <1>8, <1>9, <1>10, <1>11,
     <1>12, <1>13, <1>14, <1>15, <1>16, <1>17, <1>18, <1>19, Zenon
  DEF Next, Execute, CommitTransaction

(* A CommitHeap changes only words of objects whose readers it has         *)
(* aborted.                                                                *)
LEMMA OperationStep == IndInv /\ [Next]_vars => OperationInv'
<1> SUFFICES ASSUME IndInv, [Next]_vars PROVE OperationInv'
  OBVIOUS
<1> USE DEF IndInv, TypeOK, OperationInv, OperationOK, mutexes, sets,
        history, Goto, FreshTransaction, Operate
<1> SUFFICES ASSUME NEW x \in Threads PROVE OperationOK(x)'
  BY DEF OperationInv
<1>1. CASE UNCHANGED vars
  BY <1>1 DEF vars
<1>2. ASSUME NEW t \in Threads, StartTransaction(t)
      PROVE  OperationOK(x)'
  BY <1>2, SMT DEF StartTransaction
<1>3. ASSUME NEW t \in Threads, NEW o \in Objects, RedirectLoad(t, o)
      PROVE  OperationOK(x)'
  BY <1>3 DEF RedirectLoad
<1>4. ASSUME NEW t \in Threads, NEW o \in Objects, RedirectStore(t, o)
      PROVE  OperationOK(x)'
  BY <1>4 DEF RedirectStore, Words
<1>5. ASSUME NEW t \in Threads, AddRead(t)
      PROVE  OperationOK(x)'
  BY <1>5, SMT DEF AddRead, Words
<1>6. ASSUME NEW t \in Threads, NEW f \in Fields, Load(t, f)
      PROVE  OperationOK(x)'
  BY <1>6 DEF Load
<1>7. ASSUME NEW t \in Threads, NEW w \in Words, CopyWord(t, w)
      PROVE  OperationOK(x)'
  BY <1>7, SMT DEF CopyWord, Words
<1>8. ASSUME NEW t \in Threads, AddWrite(t)
      PROVE  OperationOK(x)'
  BY <1>8 DEF AddWrite
<1>9. ASSUME NEW t \in Threads, NEW f \in Fields, NEW v \in Values,
             Store(t, f, v)
      PROVE  OperationOK(x)'
  BY <1>9 DEF Store
<1>10. ASSUME NEW t \in Threads, EndEvent(t)
      PROVE  OperationOK(x)'
  BY <1>10, SMT DEF EndEvent
<1>11. ASSUME NEW t \in Threads, LockCommit(t)
      PROVE  OperationOK(x)'
  BY <1>11 DEF LockCommit
<1>12. ASSUME NEW t \in Threads, LockTransactions(t)
      PROVE  OperationOK(x)'
  BY <1>12 DEF LockTransactions
<1>13. ASSUME NEW t \in Threads, NEW u \in Threads, LockTransaction(t, u)
      PROVE  OperationOK(x)'
  BY <1>13 DEF LockTransaction
<1>14. ASSUME NEW t \in Threads, AllLocked(t)
      PROVE  OperationOK(x)'
  BY <1>14 DEF AllLocked
<1>15. ASSUME NEW t \in Threads, NEW u \in Threads, AbortConflicting(t, u)
      PROVE  OperationOK(x)'
  BY <1>15, SMT DEF AbortConflicting
<1>16. ASSUME NEW t \in Threads, BeginCommitHeap(t)
      PROVE  OperationOK(x)'
  BY <1>16 DEF BeginCommitHeap
<1>17. ASSUME NEW t \in Threads, NEW w \in Words, CommitWord(t, w)
      PROVE  OperationOK(x)'
  BY <1>17, SMT DEF CommitWord, LockDiscipline, ConflictsAborted, HasConflicts,
     Committing
<1>18. ASSUME NEW t \in Threads, UnlockTransactions(t)
      PROVE  OperationOK(x)'
  BY <1>18 DEF UnlockTransactions
<1>19. ASSUME NEW t \in Threads, RemoveTransaction(t)
      PROVE  OperationOK(x)'
  BY <1>19 DEF RemoveTransaction
<1> QED
  BY <1>1, <1>2, <1>3, <1>4, <1>5, <1>6, <1>7, <1>8, <1>9, <1>10, <1>11,
     <1>12, <1>13, <1>14, <1>15, <1>16, <1>17, <1>18, <1>19, Zenon
  DEF Next, Execute, CommitTransaction

(* Sets and histories grow together.                                       *)
LEMMA SetsStep == IndInv /\ [Next]_vars => SetsInv'
<1> SUFFICES ASSUME IndInv, [Next]_vars PROVE SetsInv'
  OBVIOUS
<1> USE DEF IndInv, TypeOK, SetsInv, Words, mutexes, sets, history, Goto,
        FreshTransaction, Operate
<1>1. CASE UNCHANGED vars
  BY <1>1 DEF vars
<1>2. ASSUME NEW t \in Threads, StartTransaction(t)
      PROVE  SetsInv'
  BY <1>2 DEF StartTransaction
<1>3. ASSUME NEW t \in Threads, NEW o \in Objects, RedirectLoad(t, o)
      PROVE  SetsInv'
  BY <1>3 DEF RedirectLoad
<1>4. ASSUME NEW t \in Threads, NEW o \in Objects, RedirectStore(t, o)
      PROVE  SetsInv'
  BY <1>4 DEF RedirectStore
<1>5. ASSUME NEW t \in Threads, AddRead(t)
      PROVE  SetsInv'
  BY <1>5 DEF AddRead
<1>6. ASSUME NEW t \in Threads, NEW f \in Fields, Load(t, f)
      PROVE  SetsInv'
  BY <1>6, SMT DEF Load, OperationInv, OperationOK
<1>7. ASSUME NEW t \in Threads, NEW w \in Words, CopyWord(t, w)
      PROVE  SetsInv'
  BY <1>7, SMT DEF CopyWord, OperationInv, OperationOK
<1>8. ASSUME NEW t \in Threads, AddWrite(t)
      PROVE  SetsInv'
  BY <1>8 DEF AddWrite, OperationInv, OperationOK
<1>9. ASSUME NEW t \in Threads, NEW f \in Fields, NEW v \in Values,
             Store(t, f, v)
      PROVE  SetsInv'
  BY <1>9, SMT DEF Store, OperationInv, OperationOK
<1>10. ASSUME NEW t \in Threads, EndEvent(t)
      PROVE  SetsInv'
  BY <1>10 DEF EndEvent
<1>11. ASSUME NEW t \in Threads, LockCommit(t)
      PROVE  SetsInv'
  BY <1>11 DEF LockCommit
<1>12. ASSUME NEW t \in Threads, LockTransactions(t)
      PROVE  SetsInv'
  BY <1>12 DEF LockTransactions
<1>13. ASSUME NEW t \in Threads, NEW u \in Threads, LockTransaction(t, u)
      PROVE  SetsInv'
  BY <1>13 DEF LockTransaction
<1>14. ASSUME NEW t \in Threads, AllLocked(t)
      PROVE  SetsInv'
  BY <1>14 DEF AllLocked
<1>15. ASSUME NEW t \in Threads, NEW u \in Threads, AbortConflicting(t, u)
      PROVE  SetsInv'
  BY <1>15 DEF AbortConflicting
<1>16. ASSUME NEW t \in Threads, BeginCommitHeap(t)
      PROVE  SetsInv'
  BY <1>16 DEF BeginCommitHeap
<1>17. ASSUME NEW t \in Threads, NEW w \in Words, CommitWord(t, w)
      PROVE  SetsInv'
  BY <1>17 DEF CommitWord
<1>18. ASSUME NEW t \in Threads, UnlockTransactions(t)
      PROVE  SetsInv'
  BY <1>18 DEF UnlockTransactions
<1>19. ASSUME NEW t \in Threads, RemoveTransaction(t)
      PROVE  SetsInv'
  BY <1>19 DEF RemoveTransaction
<1> QED
  BY <1>1, <1>2, <1>3, <1>4, <1>5, <1>6, <1>7, <1>8, <1>9, <1>10, <1>11,
     <1>12, <1>13, <1>14, <1>15, <1>16, <1>17, <1>18, <1>19, Zenon
  DEF Next, Execute, CommitTransaction

(* A load records what the heap or an unmodified word of a current copy    *)
(* holds; a CommitHeap changes nothing that a transaction not aborted has  *)
(* loaded.                                                                 *)
LEMMA LoadedStep == IndInv /\ [Next]_vars => LoadedIsCurrent'
<1> SUFFICES ASSUME IndInv, [Next]_vars PROVE LoadedIsCurrent'
  OBVIOUS
<1> USE DEF IndInv, TypeOK, LoadedIsCurrent, WordIsCurrent, Active, mutexes,
        sets, history, Goto, FreshTransaction, Operate
<1> SUFFICES ASSUME NEW x \in Threads, Active(x)', ~ aborted'[x],
                    NEW y \in Words, y[1] \in read_set'[x]
             PROVE  WordIsCurrent(x, y)'
  BY DEF LoadedIsCurrent
<1>1. CASE UNCHANGED vars
  BY <1>1 DEF vars
<1>2. ASSUME NEW t \in Threads, StartTransaction(t)
      PROVE  WordIsCurrent(x, y)'
  BY <1>2 DEF StartTransaction
<1>3. ASSUME NEW t \in Threads, NEW o \in Objects, RedirectLoad(t, o)
      PROVE  WordIsCurrent(x, y)'
  BY <1>3 DEF RedirectLoad
<1>4. ASSUME NEW t \in Threads, NEW o \in Objects, RedirectStore(t, o)
      PROVE  WordIsCurrent(x, y)'
  BY <1>4 DEF RedirectStore
<1>5. ASSUME NEW t \in Threads, AddRead(t)
      PROVE  WordIsCurrent(x, y)'
  BY <1>5, SMT DEF AddRead, OperationInv, OperationOK, SetsInv
<1>6. ASSUME NEW t \in Threads, NEW f \in Fields, Load(t, f)
      PROVE  WordIsCurrent(x, y)'
  <2>1. UNCHANGED <<heap, aborted, sets, copy, written>>
    BY <1>6 DEF Load
  <2>2. Active(x) /\ y[1] \in read_set[x]
    BY <1>6 DEF Load
  <2>3. WordIsCurrent(x, y)
    BY <2>1, <2>2
  <2>4. ASSUME NEW v \in Values, <<y, v>> \in reads'[x]
        PROVE  v = heap[y]
    <3>1. CASE <<y, v>> \in reads[x]
      BY <2>3, <3>1
    <3>2. CASE <<y, v>> \notin reads[x]
      <4>1. x = t
        BY <1>6, <2>4, <3>2 DEF Load
      <4>2. <<y, v>> = <<<<obj[t], f>>, IF obj[t] \in write_set[t]
                                       THEN copy[t][<<obj[t], f>>]
                                       ELSE heap[<<obj[t], f>>]>>
        BY <1>6, <2>4, <3>2, <4>1, Zenon DEF Load
      <4>3. y \notin written[t]
        BY <1>6, <2>4, <3>2, <4>1, <4>2 DEF Load
      <4> QED
        BY <2>3, <4>1, <4>2, <4>3, SMT
    <3> QED
      BY <3>1, <3>2
  <2> QED
    BY <2>1, <2>3, <2>4
<1>7. ASSUME NEW t \in Threads, NEW w \in Words, CopyWord(t, w)
      PROVE  WordIsCurrent(x, y)'
  BY <1>7, SMT DEF CopyWord, OperationInv, OperationOK, Words
<1>8. ASSUME NEW t \in Threads, AddWrite(t)
      PROVE  WordIsCurrent(x, y)'
  BY <1>8, SMT DEF AddWrite, OperationInv, OperationOK
<1>9. ASSUME NEW t \in Threads, NEW f \in Fields, NEW v \in Values,
             Store(t, f, v)
      PROVE  WordIsCurrent(x, y)'
  BY <1>9, SMT DEF Store, OperationInv, OperationOK, Words
<1>10. ASSUME NEW t \in Threads, EndEvent(t)
      PROVE  WordIsCurrent(x, y)'
  BY <1>10 DEF EndEvent
<1>11. ASSUME NEW t \in Threads, LockCommit(t)
      PROVE  WordIsCurrent(x, y)'
  BY <1>11 DEF LockCommit
<1>12. ASSUME NEW t \in Threads, LockTransactions(t)
      PROVE  WordIsCurrent(x, y)'
  BY <1>12 DEF LockTransactions
<1>13. ASSUME NEW t \in Threads, NEW u \in Threads, LockTransaction(t, u)
      PROVE  WordIsCurrent(x, y)'
  BY <1>13 DEF LockTransaction
<1>14. ASSUME NEW t \in Threads, AllLocked(t)
      PROVE  WordIsCurrent(x, y)'
  BY <1>14 DEF AllLocked
<1>15. ASSUME NEW t \in Threads, NEW u \in Threads, AbortConflicting(t, u)
      PROVE  WordIsCurrent(x, y)'
  BY <1>15 DEF AbortConflicting
<1>16. ASSUME NEW t \in Threads, BeginCommitHeap(t)
      PROVE  WordIsCurrent(x, y)'
  BY <1>16 DEF BeginCommitHeap
<1>17. ASSUME NEW t \in Threads, NEW w \in Words, CommitWord(t, w)
      PROVE  WordIsCurrent(x, y)'
  BY <1>17, SMT DEF CommitWord, LockDiscipline, ConflictsAborted, HasConflicts,
     OperationInv, OperationOK, Committing, Words
<1>18. ASSUME NEW t \in Threads, UnlockTransactions(t)
      PROVE  WordIsCurrent(x, y)'
  BY <1>18 DEF UnlockTransactions
<1>19. ASSUME NEW t \in Threads, RemoveTransaction(t)
      PROVE  WordIsCurrent(x, y)'
  BY <1>19 DEF RemoveTransaction
<1> QED
  BY <1>1, <1>2, <1>3, <1>4, <1>5, <1>6, <1>7, <1>8, <1>9, <1>10, <1>11,
     <1>12, <1>13, <1>14, <1>15, <1>16, <1>17, <1>18, <1>19, Zenon
  DEF Next, Execute, CommitTransaction

(* Without blind stores, RedirectStore gets only objects of the read set.  *)
LEMMA StoresStep == IndInv /\ [Next]_vars => StoresFollowLoads'
<1> SUFFICES ASSUME IndInv, [Next]_vars PROVE StoresFollowLoads'
  OBVIOUS
<1> USE DEF IndInv, TypeOK, StoresFollowLoads, mutexes, sets, history, Goto,
        FreshTransaction, Operate
<1>1. CASE UNCHANGED vars
  BY <1>1 DEF vars
<1>2. ASSUME NEW t \in Threads, StartTransaction(t)
      PROVE  StoresFollowLoads'
  BY <1>2 DEF StartTransaction
<1>3. ASSUME NEW t \in Threads, NEW o \in Objects, RedirectLoad(t, o)
      PROVE  StoresFollowLoads'
  BY <1>3 DEF RedirectLoad
<1>4. ASSUME NEW t \in Threads, NEW o \in Objects, RedirectStore(t, o)
      PROVE  StoresFollowLoads'
  BY <1>4 DEF RedirectStore
<1>5. ASSUME NEW t \in Threads, AddRead(t)
      PROVE  StoresFollowLoads'
  BY <1>5 DEF AddRead
<1>6. ASSUME NEW t \in Threads, NEW f \in Fields, Load(t, f)
      PROVE  StoresFollowLoads'
  BY <1>6 DEF Load
<1>7. ASSUME NEW t \in Threads, NEW w \in Words, CopyWord(t, w)
      PROVE  StoresFollowLoads'
  BY <1>7 DEF CopyWord
<1>8. ASSUME NEW t \in Threads, AddWrite(t)
      PROVE  StoresFollowLoads'
  BY <1>8 DEF AddWrite
<1>9. ASSUME NEW t \in Threads, NEW f \in Fields, NEW v \in Values,
             Store(t, f, v)
      PROVE  StoresFollowLoads'
  BY <1>9 DEF Store
<1>10. ASSUME NEW t \in Threads, EndEvent(t)
      PROVE  StoresFollowLoads'
  BY <1>10 DEF EndEvent
<1>11. ASSUME NEW t \in Threads, LockCommit(t)
      PROVE  StoresFollowLoads'
  BY <1>11 DEF LockCommit
<1>12. ASSUME NEW t \in Threads, LockTransactions(t)
      PROVE  StoresFollowLoads'
  BY <1>12 DEF LockTransactions
<1>13. ASSUME NEW t \in Threads, NEW u \in Threads, LockTransaction(t, u)
      PROVE  StoresFollowLoads'
  BY <1>13 DEF LockTransaction
<1>14. ASSUME NEW t \in Threads, AllLocked(t)
      PROVE  StoresFollowLoads'
  BY <1>14 DEF AllLocked
<1>15. ASSUME NEW t \in Threads, NEW u \in Threads, AbortConflicting(t, u)
      PROVE  StoresFollowLoads'
  BY <1>15 DEF AbortConflicting
<1>16. ASSUME NEW t \in Threads, BeginCommitHeap(t)
      PROVE  StoresFollowLoads'
  BY <1>16 DEF BeginCommitHeap
<1>17. ASSUME NEW t \in Threads, NEW w \in Words, CommitWord(t, w)
      PROVE  StoresFollowLoads'
  BY <1>17 DEF CommitWord
<1>18. ASSUME NEW t \in Threads, UnlockTransactions(t)
      PROVE  StoresFollowLoads'
  BY <1>18 DEF UnlockTransactions
<1>19. ASSUME NEW t \in Threads, RemoveTransaction(t)
      PROVE  StoresFollowLoads'
  BY <1>19 DEF RemoveTransaction
<1> QED
  BY <1>1, <1>2, <1>3, <1>4, <1>5, <1>6, <1>7, <1>8, <1>9, <1>10, <1>11,
     <1>12, <1>13, <1>14, <1>15, <1>16, <1>17, <1>18, <1>19, Zenon
  DEF Next, Execute, CommitTransaction

(* Initially no thread is in a transaction.                                *)
LEMMA InitIndInv == Init => IndInv
<1> SUFFICES ASSUME Init PROVE IndInv
  OBVIOUS
<1> USE NobodyAssumption, ValueAssumption, BoundAssumption DEF Init
<1>1. TypeOK
  BY SMT DEF TypeOK, Labels, Uninitialised
<1>2. LockDiscipline /\ ConflictsAborted /\ CommitterNotAborted
  BY DEF LockDiscipline, ConflictsAborted, CommitterNotAborted, Committing
<1>3. OperationInv /\ SetsInv /\ StoresFollowLoads
  BY DEF OperationInv, OperationOK, SetsInv, StoresFollowLoads
<1>4. LoadedIsCurrent
  BY DEF LoadedIsCurrent, Active
<1> QED
  BY <1>1, <1>2, <1>3, <1>4 DEF IndInv

(* IndInv is inductive. *)
THEOREM Invariance == Spec => []IndInv
<1>1. IndInv /\ [Next]_vars => IndInv'
  BY TypeStep, LockStep, CommitterStep, ConflictStep, OperationStep,
     SetsStep, LoadedStep, StoresStep DEF IndInv
<1> QED
  BY InitIndInv, <1>1, PTL DEF Spec

(* No uninitialised word of a copy is read or reaches the heap, for any    *)
(* number of threads, objects and fields.                                  *)
THEOREM TypeCorrect == Spec => []TypeOK
<1>1. IndInv => TypeOK
  BY DEF IndInv
<1> QED
  BY Invariance, <1>1, PTL

(* What RedirectLoad put into the read set of a transaction is current as  *)
(* long as aborted_ is false, blind stores or not.                         *)
THEOREM LoadsStayCurrent == Spec => []LoadedIsCurrent
<1>1. IndInv => LoadedIsCurrent
  BY DEF IndInv
<1> QED
  BY Invariance, <1>1, PTL

(* CommitTransaction never commits a doomed transaction. *)
THEOREM CommittersAreSafe == Spec => []CommitterNotAborted
<1>1. IndInv => CommitterNotAborted
  BY DEF IndInv
<1> QED
  BY Invariance, <1>1, PTL

(* If every store follows a load of its object, a commit undoes nothing    *)
(* that another transaction committed.                                     *)
THEOREM UpdatesAreKept == ASSUME ~ BlindStores PROVE Spec => []NoLostUpdate
<1>1. IndInv => NoLostUpdate
  <2> SUFFICES ASSUME IndInv, NEW t \in Threads,
                      pc[t] \in Committing \ {"heap"}, NEW w \in Words,
                      w[1] \in write_set[t], w \notin written[t]
               PROVE  copy[t][w] = heap[w]
    BY DEF NoLostUpdate
  <2>1. w[1] \in read_set[t]
    BY DEF IndInv, StoresFollowLoads
  <2>2. Active(t) /\ ~ aborted[t]
    BY DEF IndInv, CommitterNotAborted, Committing, Active
  <2> QED
    BY <2>1, <2>2 DEF IndInv, LoadedIsCurrent, WordIsCurrent
<1> QED
  BY Invariance, <1>1, PTL

(* An event is restarted only for a conflict or because of --stm_aborts.   *)
THEOREM AbortsHaveAReason == Spec => AbortedForAReason
<1> DEFINE Reason(u) ==
      \/ StmAborts /\ pc[u] = "run" /\ pc'[u] = "commit"
      \/ \E t \in Threads \ {u} :
           /\ pc[t] = "conflict" /\ ~ aborted[t]
           /\ write_set[t] \cap (read_set[u] \cup write_set[u]) # {}
<1>1. ASSUME IndInv, [Next]_vars, NEW u \in Threads, aborted'[u], ~ aborted[u]
      PROVE  Reason(u)
  <2>1. aborted' # aborted
    BY <1>1
  <2>2. \/ \E t \in Threads : StartTransaction(t) \/ RemoveTransaction(t)
        \/ \E t \in Threads : EndEvent(t)
        \/ \E t, x \in Threads : AbortConflicting(t, x)
    BY <1>1, <2>1, Zenon
    DEF Next, Execute, CommitTransaction, RedirectLoad, AddRead,
       Load, RedirectStore, CopyWord, AddWrite, Store, LockCommit,
       LockTransactions, LockTransaction, AllLocked, BeginCommitHeap,
       CommitWord, UnlockTransactions, vars
  <2>3. ASSUME NEW t \in Threads, StartTransaction(t) \/ RemoveTransaction(t)
        PROVE  FALSE
    BY <1>1, <2>3 DEF StartTransaction, RemoveTransaction, FreshTransaction,
       IndInv, TypeOK
  <2>4. ASSUME NEW t \in Threads, EndEvent(t)
        PROVE  Reason(u)
    <3>1. aborted' = [aborted EXCEPT ![t] = @ \/ StmAborts]
      BY <2>1, <2>4 DEF EndEvent
    <3>2. t = u /\ StmAborts
      BY <1>1, <3>1 DEF IndInv, TypeOK
    <3>3. pc[u] = "run" /\ pc'[u] = "commit"
      BY <2>4, <3>2, <1>1 DEF EndEvent, Goto, IndInv, TypeOK
    <3> QED
      BY <3>2, <3>3
  <2>5. ASSUME NEW t \in Threads, NEW x \in Threads, AbortConflicting(t, x)
        PROVE  Reason(u)
    <3>1. aborted' = [aborted EXCEPT ![x] = @ \/ HasConflicts(x, t)]
      BY <2>5 DEF AbortConflicting
    <3>2. u = x /\ HasConflicts(x, t)
      BY <1>1, <3>1 DEF IndInv, TypeOK
    <3>3. t # u
      BY <1>1, <2>5, <3>2 DEF AbortConflicting, IndInv, ConflictsAborted
    <3>4. pc[t] = "conflict" /\ ~ aborted[t]
      BY <1>1, <2>5 DEF AbortConflicting, IndInv, CommitterNotAborted,
         Committing
    <3> QED
      BY <3>2, <3>3, <3>4 DEF HasConflicts
  <2> QED
    BY <2>2, <2>3, <2>4, <2>5
<1>2. IndInv /\ [Next]_vars =>
        [\A u \in Threads : aborted'[u] /\ ~ aborted[u] => Reason(u)]_vars
  BY <1>1
<1> QED
  BY Invariance, <1>2, PTL DEF Spec, AbortedForAReason

-----------------------------------------------------------------------------
(* Module STM implements module AtomicTransactions when every store        *)
(* follows a load of its object.  BeginCommitHeap is the step at which a   *)
(* commit takes effect; starting, loading, storing and giving up map to    *)
(* the abstract steps of the same meaning, and all others to stuttering.   *)

(* The state of AtomicTransactions under the refinement mapping. *)
AbstractActive == {t \in Threads : Active(t)}
AbstractReads  == [t \in Threads |-> IF Active(t) THEN reads[t] ELSE {}]
AbstractDirty  == [t \in Threads |-> IF Active(t) THEN written[t] ELSE {}]
AbstractBuffer == [t \in Threads |-> [w \in Words |->
                    IF Active(t) /\ w \in written[t] THEN copy[t][w]
                    ELSE Zero]]

(* The initial states of STM are initial states of AtomicTransactions.     *)
LEMMA InitRefines == Init => Atomic!Init
<1> SUFFICES ASSUME Init PROVE Atomic!Init
  OBVIOUS
<1>1. \A t \in Threads : ~ Active(t)
  BY DEF Init, Active
<1>2. CommittedHeap = [w \in Words |-> Zero]
  BY NobodyAssumption DEF Init, CommittedHeap
<1> QED
  BY <1>1, <1>2 DEF Atomic!Init, Atomic!Clean

(* Nothing a transaction knows changes. *)
Same(x) ==
  /\ Active(x)' = Active(x)
  /\ Active(x) => /\ reads'[x] = reads[x]
                  /\ written'[x] = written[x]
                  /\ \A w \in written[x] : copy'[x][w] = copy[x][w]

(* A step that changes neither the committed heap nor what a transaction   *)
(* knows is a stuttering step.                                             *)
LEMMA Stutter ==
  ASSUME CommittedHeap' = CommittedHeap, \A x \in Threads : Same(x)
  PROVE  UNCHANGED Atomic!vars
<1>1. AbstractActive' = AbstractActive
  BY DEF AbstractActive, Same
<1>2. AbstractReads' = AbstractReads
  BY DEF AbstractReads, Same
<1>3. AbstractDirty' = AbstractDirty
  BY DEF AbstractDirty, Same
<1>4. AbstractBuffer' = AbstractBuffer
  BY DEF AbstractBuffer, Same
<1> QED
  BY <1>1, <1>2, <1>3, <1>4 DEF Atomic!vars, AbstractActive, AbstractReads,
     AbstractDirty, AbstractBuffer

(* A transaction that stops being active forgets all it read and wrote. *)
LEMMA DiscardRefines ==
  ASSUME NEW t \in Threads, \A x \in Threads \ {t} : Same(x),
         Active(t), ~ Active(t)'
  PROVE  Atomic!Discard(t)
<1>1. AbstractActive' = AbstractActive \ {t}
  BY DEF AbstractActive, Same
<1>2. AbstractReads' = [AbstractReads EXCEPT ![t] = {}]
  BY DEF AbstractReads, Same
<1>3. AbstractDirty' = [AbstractDirty EXCEPT ![t] = {}]
  BY DEF AbstractDirty, Same
<1>4. AbstractBuffer' = [AbstractBuffer EXCEPT ![t] = Atomic!Clean]
  <2>1. \A x \in Threads \ {t} : AbstractBuffer'[x] = AbstractBuffer[x]
    BY DEF AbstractBuffer, Same
  <2>2. AbstractBuffer'[t] = Atomic!Clean
    BY DEF AbstractBuffer, Atomic!Clean
  <2>3. /\ AbstractBuffer = [x \in Threads |-> AbstractBuffer[x]]
        /\ AbstractBuffer' = [x \in Threads |-> AbstractBuffer'[x]]
    BY DEF AbstractBuffer
  <2> QED
    BY <2>1, <2>2, <2>3
<1>5. t \in AbstractActive
  BY DEF AbstractActive
<1> QED
  BY <1>1, <1>2, <1>3, <1>4, <1>5 DEF Atomic!Discard, AbstractActive,
     AbstractReads, AbstractDirty, AbstractBuffer

(* StartTransaction. *)
LEMMA BeginRefines ==
  ASSUME NEW t \in Threads, \A x \in Threads \ {t} : Same(x),
         CommittedHeap' = CommittedHeap, ~ Active(t), Active(t)',
         reads'[t] = {}, written'[t] = {}
  PROVE  Atomic!Next
<1>1. AbstractActive' = AbstractActive \cup {t}
  BY DEF AbstractActive, Same
<1>2. AbstractReads' = AbstractReads
  BY DEF AbstractReads, Same
<1>3. AbstractDirty' = AbstractDirty
  BY DEF AbstractDirty, Same
<1>4. AbstractBuffer' = AbstractBuffer
  BY DEF AbstractBuffer, Same
<1>5. t \notin AbstractActive
  BY DEF AbstractActive
<1>6. Atomic!Begin(t)
  BY <1>1, <1>2, <1>3, <1>4, <1>5 DEF Atomic!Begin, AbstractActive,
     AbstractReads, AbstractDirty, AbstractBuffer
<1> QED
  BY <1>6 DEF Atomic!Next

(* Load of a word the transaction has not stored to. *)
LEMMA ReadRefines ==
  ASSUME NEW t \in Threads, \A x \in Threads \ {t} : Same(x),
         NEW w \in Words, NEW v \in Values,
         CommittedHeap' = CommittedHeap, Active(t), Active(t)',
         reads'[t] = reads[t] \cup {<<w, v>>}, w \notin written[t],
         written' = written, copy' = copy
  PROVE  Atomic!Next
<1>1. AbstractActive' = AbstractActive
  BY DEF AbstractActive, Same
<1>2. AbstractReads' = [AbstractReads EXCEPT ![t] = @ \cup {<<w, v>>}]
  <2>1. \A x \in Threads \ {t} : AbstractReads'[x] = AbstractReads[x]
    BY DEF AbstractReads, Same
  <2>2. AbstractReads'[t] = AbstractReads[t] \cup {<<w, v>>}
    BY DEF AbstractReads
  <2>3. /\ AbstractReads = [x \in Threads |-> AbstractReads[x]]
        /\ AbstractReads' = [x \in Threads |-> AbstractReads'[x]]
    BY DEF AbstractReads
  <2> QED
    BY <2>1, <2>2, <2>3
<1>3. AbstractDirty' = AbstractDirty
  BY DEF AbstractDirty, Same
<1>4. AbstractBuffer' = AbstractBuffer
  BY DEF AbstractBuffer, Same
<1>5. t \in AbstractActive /\ w \notin AbstractDirty[t]
  BY DEF AbstractActive, AbstractDirty
<1>6. Atomic!Read(t, w, v)
  BY <1>1, <1>2, <1>3, <1>4, <1>5 DEF Atomic!Read, AbstractActive,
     AbstractReads, AbstractDirty, AbstractBuffer
<1> QED
  BY <1>6 DEF Atomic!Next

(* Store. *)
LEMMA WriteRefines ==
  ASSUME NEW t \in Threads, \A x \in Threads \ {t} : Same(x),
         NEW w \in Words, NEW v \in Values,
         CommittedHeap' = CommittedHeap, Active(t), Active(t)',
         reads' = reads, written'[t] = written[t] \cup {w},
         copy'[t] = [copy[t] EXCEPT ![w] = v], DOMAIN copy[t] = Words
  PROVE  Atomic!Next
<1>1. AbstractActive' = AbstractActive
  BY DEF AbstractActive, Same
<1>2. AbstractReads' = AbstractReads
  BY DEF AbstractReads, Same
<1>3. AbstractDirty' = [AbstractDirty EXCEPT ![t] = @ \cup {w}]
  <2>1. \A x \in Threads \ {t} : AbstractDirty'[x] = AbstractDirty[x]
    BY DEF AbstractDirty, Same
  <2>2. AbstractDirty'[t] = AbstractDirty[t] \cup {w}
    BY DEF AbstractDirty
  <2>3. /\ AbstractDirty = [x \in Threads |-> AbstractDirty[x]]
        /\ AbstractDirty' = [x \in Threads |-> AbstractDirty'[x]]
    BY DEF AbstractDirty
  <2> QED
    BY <2>1, <2>2, <2>3
<1>4. AbstractBuffer' = [AbstractBuffer EXCEPT ![t] = [@ EXCEPT ![w] = v]]
  <2>1. \A x \in Threads \ {t} : AbstractBuffer'[x] = AbstractBuffer[x]
    BY DEF AbstractBuffer, Same
  <2>2. AbstractBuffer'[t] = [AbstractBuffer[t] EXCEPT ![w] = v]
    BY DEF AbstractBuffer
  <2>3. /\ AbstractBuffer = [x \in Threads |-> AbstractBuffer[x]]
        /\ AbstractBuffer' = [x \in Threads |-> AbstractBuffer'[x]]
    BY DEF AbstractBuffer
  <2> QED
    BY <2>1, <2>2, <2>3
<1>5. t \in AbstractActive
  BY DEF AbstractActive
<1>6. Atomic!Write(t, w, v)
  BY <1>1, <1>2, <1>3, <1>4, <1>5 DEF Atomic!Write, AbstractActive,
     AbstractReads, AbstractDirty, AbstractBuffer
<1> QED
  BY <1>6 DEF Atomic!Next

(* Every step of STM is a step of AtomicTransactions or a stutter. *)
LEMMA StepRefines ==
  ASSUME ~ BlindStores
  PROVE  IndInv /\ [Next]_vars => [Atomic!Next]_(Atomic!vars)
<1> SUFFICES ASSUME IndInv, [Next]_vars PROVE [Atomic!Next]_(Atomic!vars)
  OBVIOUS
<1> USE NobodyAssumption DEF IndInv, TypeOK, LockDiscipline, Committing, Same,
        Active, mutexes, sets, history, Goto, FreshTransaction, Operate
<1>1. CASE UNCHANGED vars
  <2>1. CommittedHeap' = CommittedHeap
    BY <1>1 DEF vars, CommittedHeap
  <2>2. \A x \in Threads : Same(x)
    BY <1>1 DEF vars
  <2> QED
    BY <2>1, <2>2, Stutter
<1>2. ASSUME NEW t \in Threads, StartTransaction(t)
      PROVE  [Atomic!Next]_(Atomic!vars)
  <2>1. CommittedHeap' = CommittedHeap
    BY <1>2 DEF CommittedHeap, StartTransaction
  <2>2. \A x \in Threads \ {t} : Same(x)
    BY <1>2 DEF StartTransaction
  <2>3. ~ Active(t) /\ Active(t)' /\ reads'[t] = {} /\ written'[t] = {}
    BY <1>2 DEF StartTransaction
  <2> QED
    BY <2>1, <2>2, <2>3, BeginRefines
<1>3. ASSUME NEW t \in Threads, NEW o \in Objects, RedirectLoad(t, o)
      PROVE  [Atomic!Next]_(Atomic!vars)
  <2>1. CommittedHeap' = CommittedHeap
    BY <1>3 DEF CommittedHeap, RedirectLoad
  <2>2. \A x \in Threads : Same(x)
    BY <1>3 DEF RedirectLoad
  <2> QED
    BY <2>1, <2>2, Stutter
<1>4. ASSUME NEW t \in Threads, NEW o \in Objects, RedirectStore(t, o)
      PROVE  [Atomic!Next]_(Atomic!vars)
  <2>1. CommittedHeap' = CommittedHeap
    BY <1>4 DEF CommittedHeap, RedirectStore
  <2>2. \A x \in Threads : Same(x)
    BY <1>4 DEF RedirectStore
  <2> QED
    BY <2>1, <2>2, Stutter
<1>5. ASSUME NEW t \in Threads, AddRead(t)
      PROVE  [Atomic!Next]_(Atomic!vars)
  <2>1. CommittedHeap' = CommittedHeap
    BY <1>5 DEF CommittedHeap, AddRead
  <2>2. \A x \in Threads : Same(x)
    BY <1>5 DEF AddRead
  <2> QED
    BY <2>1, <2>2, Stutter
<1>6. ASSUME NEW t \in Threads, NEW f \in Fields, Load(t, f)
      PROVE  [Atomic!Next]_(Atomic!vars)
  <2> DEFINE w == <<obj[t], f>>
             v == IF obj[t] \in write_set[t] THEN copy[t][w] ELSE heap[w]
  <2>1. CommittedHeap' = CommittedHeap
    BY <1>6 DEF CommittedHeap, Load
  <2>2. \A x \in Threads \ {t} : Same(x)
    BY <1>6 DEF Load
  <2>3. Active(t) /\ Active(t)' /\ UNCHANGED <<written, copy>>
    BY <1>6 DEF Load
  <2>4. CASE w \in written[t]
    <3>1. Same(t)
      BY <1>6, <2>3, <2>4 DEF Load
    <3> QED
      BY <2>1, <2>2, <3>1, Stutter, SMT
  <2>5. CASE w \notin written[t]
    <3>1. w \in Words /\ v \in Values
      BY <1>6, SMT DEF Load, OperationInv, OperationOK, SetsInv, Words
    <3>2. reads'[t] = reads[t] \cup {<<w, v>>}
      BY <1>6, <2>5 DEF Load
    <3> HIDE DEF w, v
    <3> QED
      BY <2>1, <2>2, <2>3, <2>5, <3>1, <3>2, ReadRefines
  <2> QED
    BY <2>4, <2>5
<1>7. ASSUME NEW t \in Threads, NEW w \in Words, CopyWord(t, w)
      PROVE  [Atomic!Next]_(Atomic!vars)
  <2>1. CommittedHeap' = CommittedHeap
    BY <1>7 DEF CommittedHeap, CopyWord
  <2>2. \A x \in Threads : Same(x)
    BY <1>7, SMT DEF CopyWord, OperationInv, OperationOK, SetsInv
  <2> QED
    BY <2>1, <2>2, Stutter
<1>8. ASSUME NEW t \in Threads, AddWrite(t)
      PROVE  [Atomic!Next]_(Atomic!vars)
  <2>1. CommittedHeap' = CommittedHeap
    BY <1>8 DEF CommittedHeap, AddWrite
  <2>2. \A x \in Threads : Same(x)
    BY <1>8 DEF AddWrite
  <2> QED
    BY <2>1, <2>2, Stutter
<1>9. ASSUME NEW t \in Threads, NEW f \in Fields, NEW v \in Values,
             Store(t, f, v)
      PROVE  [Atomic!Next]_(Atomic!vars)
  <2> DEFINE w == <<obj[t], f>>
  <2>1. CommittedHeap' = CommittedHeap
    BY <1>9 DEF CommittedHeap, Store
  <2>2. \A x \in Threads \ {t} : Same(x)
    BY <1>9 DEF Store
  <2>3. Active(t) /\ Active(t)' /\ reads' = reads
    BY <1>9 DEF Store
  <2>4. w \in Words /\ written'[t] = written[t] \cup {w}
    BY <1>9 DEF Store, Words
  <2>5. copy'[t] = [copy[t] EXCEPT ![w] = v] /\ DOMAIN copy[t] = Words
    BY <1>9 DEF Store
  <2> HIDE DEF w
  <2> QED
    BY <2>1, <2>2, <2>3, <2>4, <2>5, WriteRefines
<1>10. ASSUME NEW t \in Threads, EndEvent(t)
      PROVE  [Atomic!Next]_(Atomic!vars)
  <2>1. CommittedHeap' = CommittedHeap
    BY <1>10 DEF CommittedHeap, EndEvent
  <2>2. \A x \in Threads : Same(x)
    BY <1>10 DEF EndEvent
  <2> QED
    BY <2>1, <2>2, Stutter
<1>11. ASSUME NEW t \in Threads, LockCommit(t)
      PROVE  [Atomic!Next]_(Atomic!vars)
  <2>1. CommittedHeap' = CommittedHeap
    BY <1>11 DEF CommittedHeap, LockCommit
  <2>2. \A x \in Threads : Same(x)
    BY <1>11 DEF LockCommit
  <2> QED
    BY <2>1, <2>2, Stutter
<1>12. ASSUME NEW t \in Threads, LockTransactions(t)
      PROVE  [Atomic!Next]_(Atomic!vars)
  <2>1. CommittedHeap' = CommittedHeap
    BY <1>12 DEF CommittedHeap, LockTransactions
  <2>2. \A x \in Threads : Same(x)
    BY <1>12 DEF LockTransactions
  <2> QED
    BY <2>1, <2>2, Stutter
<1>13. ASSUME NEW t \in Threads, NEW u \in Threads, LockTransaction(t, u)
      PROVE  [Atomic!Next]_(Atomic!vars)
  <2>1. CommittedHeap' = CommittedHeap
    BY <1>13 DEF CommittedHeap, LockTransaction
  <2>2. \A x \in Threads : Same(x)
    BY <1>13 DEF LockTransaction
  <2> QED
    BY <2>1, <2>2, Stutter
<1>14. ASSUME NEW t \in Threads, AllLocked(t)
      PROVE  [Atomic!Next]_(Atomic!vars)
  <2>1. CommittedHeap' = CommittedHeap
    BY <1>14 DEF CommittedHeap, AllLocked
  <2>2. \A x \in Threads : Same(x)
    BY <1>14 DEF AllLocked
  <2> QED
    BY <2>1, <2>2, Stutter
<1>15. ASSUME NEW t \in Threads, NEW u \in Threads, AbortConflicting(t, u)
      PROVE  [Atomic!Next]_(Atomic!vars)
  <2>1. CommittedHeap' = CommittedHeap
    BY <1>15 DEF CommittedHeap, AbortConflicting
  <2>2. \A x \in Threads : Same(x)
    BY <1>15 DEF AbortConflicting
  <2> QED
    BY <2>1, <2>2, Stutter
<1>16. ASSUME NEW t \in Threads, BeginCommitHeap(t)
      PROVE  [Atomic!Next]_(Atomic!vars)
  <2>1. \A x \in Threads \ {t} : Same(x)
    BY <1>16 DEF BeginCommitHeap
  <2>2. Active(t) /\ ~ Active(t)'
    BY <1>16 DEF BeginCommitHeap
  <2>3. CommittedHeap = heap
    BY <1>16 DEF BeginCommitHeap, CommittedHeap
  <2>4. \A w \in Words : w[1] \in read_set[t] => WordIsCurrent(t, w)
    BY <1>16, <2>2 DEF BeginCommitHeap, LoadedIsCurrent, CommitterNotAborted
  <2>5. \A r \in reads[t] : heap[r[1]] = r[2]
    <3> SUFFICES ASSUME NEW w \in Words, NEW v \in Values,
                        <<w, v>> \in reads[t]
                 PROVE  heap[w] = v
      BY SMT
    <3>1. w[1] \in read_set[t]
      BY DEF SetsInv, StoresFollowLoads
    <3> QED
      BY <3>1, <2>4 DEF WordIsCurrent
  <2>6. CommittedHeap' = [w \in Words |->
                            IF w \in written[t] THEN copy[t][w] ELSE heap[w]]
    <3>1. CommittedHeap' = [w \in Words |->
                   IF w[1] \in write_set[t] THEN copy[t][w] ELSE heap[w]]
      BY <1>16 DEF BeginCommitHeap, CommittedHeap, Words
    <3>2. ASSUME NEW w \in Words
          PROVE  (IF w[1] \in write_set[t] THEN copy[t][w] ELSE heap[w]) =
                 (IF w \in written[t] THEN copy[t][w] ELSE heap[w])
      <4>1. w \in written[t] => w[1] \in write_set[t]
        BY DEF SetsInv
      <4>2. w[1] \in write_set[t] /\ w \notin written[t] =>
              copy[t][w] = heap[w]
        BY <2>4 DEF StoresFollowLoads, WordIsCurrent
      <4> QED
        BY <4>1, <4>2
    <3> QED
      BY <3>1, <3>2
  <2>7. AbstractReads[t] = reads[t] /\ AbstractDirty[t] = written[t]
    BY <2>2 DEF AbstractReads, AbstractDirty
  <2>8. \A w \in Words : w \in written[t] => AbstractBuffer[t][w] = copy[t][w]
    BY <2>2 DEF AbstractBuffer
  <2>9. Atomic!Discard(t)
    BY <2>1, <2>2, DiscardRefines
  <2>10. CommittedHeap' = [w \in Words |-> IF w \in AbstractDirty[t]
                                          THEN AbstractBuffer[t][w]
                                          ELSE CommittedHeap[w]]
    BY <2>3, <2>6, <2>7, <2>8
  <2>11. \A r \in AbstractReads[t] : CommittedHeap[r[1]] = r[2]
    BY <2>3, <2>5, <2>7
  <2>12. Atomic!Commit(t)
    BY <2>9, <2>10, <2>11 DEF Atomic!Commit, AbstractReads, AbstractDirty,
       AbstractBuffer
  <2> QED
    BY <2>12 DEF Atomic!Next
<1>17. ASSUME NEW t \in Threads, NEW w \in Words, CommitWord(t, w)
      PROVE  [Atomic!Next]_(Atomic!vars)
  <2>1. CommittedHeap' = CommittedHeap
    BY <1>17 DEF CommittedHeap, CommitWord
  <2>2. \A x \in Threads : Same(x)
    BY <1>17 DEF CommitWord, Words
  <2> QED
    BY <2>1, <2>2, Stutter
<1>18. ASSUME NEW t \in Threads, UnlockTransactions(t)
      PROVE  [Atomic!Next]_(Atomic!vars)
  <2>1. CommittedHeap' = CommittedHeap
    BY <1>18 DEF CommittedHeap, UnlockTransactions
  <2>2. \A x \in Threads : Same(x)
    BY <1>18 DEF UnlockTransactions, CommitterNotAborted
  <2> QED
    BY <2>1, <2>2, Stutter
<1>19. ASSUME NEW t \in Threads, RemoveTransaction(t)
      PROVE  [Atomic!Next]_(Atomic!vars)
  <2>1. \A x \in Threads \ {t} : Same(x)
    BY <1>19 DEF RemoveTransaction
  <2>2. CommittedHeap' = CommittedHeap
    BY <1>19 DEF RemoveTransaction, CommittedHeap
  <2>3. ~ Active(t)'
    BY <1>19 DEF RemoveTransaction
  <2>4. CASE ~ aborted[t]
    <3>1. Same(t)
      BY <1>19, <2>3, <2>4 DEF RemoveTransaction
    <3> QED
      BY <2>1, <2>2, <3>1, Stutter, SMT
  <2>5. CASE aborted[t]
    <3>1. Active(t)
      BY <1>19, <2>5 DEF RemoveTransaction
    <3>2. Atomic!Discard(t)
      BY <2>1, <2>3, <3>1, DiscardRefines
    <3>3. Atomic!Abort(t)
      BY <2>2, <3>2 DEF Atomic!Abort
    <3> QED
      BY <3>3 DEF Atomic!Next
  <2> QED
    BY <2>4, <2>5
<1> QED
  BY <1>1, <1>2, <1>3, <1>4, <1>5, <1>6, <1>7, <1>8, <1>9, <1>10, <1>11,
     <1>12, <1>13, <1>14, <1>15, <1>16, <1>17, <1>18, <1>19, Zenon
  DEF Next, Execute, CommitTransaction

(* If every store follows a load of its object, w16's transactions are     *)
(* atomic, for any number of threads, objects, fields and values.          *)
THEOREM Atomicity == ASSUME ~ BlindStores PROVE Spec => AtomicSpec
<1>1. Spec => []IndInv
  BY Invariance
<1>2. IndInv /\ [Next]_vars => [Atomic!Next]_(Atomic!vars)
  BY StepRefines
<1> QED
  BY InitRefines, <1>1, <1>2, PTL DEF Spec, AtomicSpec, Atomic!Spec
=============================================================================
