----------------------------- MODULE PrimesSteps -----------------------------
(***************************************************************************)
(* What the steps of module Primes are to the event loops and to the       *)
(* transactions, and what they do to the sums: lemmas for module           *)
(* PrimesProofs.                                                           *)
(***************************************************************************)
EXTENDS Primes, WellFoundedInduction, TLAPS

(* Zenon is tried on the leaves that name no other prover.                 *)
USE ZenonT(30)

(* The induction that the facts about sums need: a set of natural numbers  *)
(* has a least element.                                                    *)
LEMMA LeastNatural ==
  ASSUME NEW T, T \subseteq Nat, T # {}
  PROVE  \E m \in T : \A k \in T : m <= k
<1>1. \E m \in T : \A k \in T : ~ (<<k, m>> \in OpToRel(<, Nat))
  BY NatLessThanWellFounded, WFMin
<1>2. \E m \in T : \A k \in T : ~ (k < m)
  BY <1>1 DEF OpToRel
<1> QED
  BY <1>2, SMT

(* The recursion that defines Sums has a solution. *)
LEMMA SumsDefined ==
  ASSUME NEW H
  PROVE  Sums(H) = [i \in 0 .. Len(Batches) |->
           IF i = 0 THEN 0
           ELSE Sums(H)[i - 1] + (IF i \in H THEN Batches[i] ELSE 0)]
<1> DEFINE part(i) == IF i \in H THEN Batches[i] ELSE 0
           G(n, f) == [i \in 0 .. n |-> IF i = 0 THEN 0 ELSE f[i - 1] + part(i)]
           Solved(n) == \E f : f = G(n, f)
           T == {n \in Nat : ~ Solved(n)}
<1>1. Solved(0)
  <2>1. [i \in 0 .. 0 |-> 0] = G(0, [i \in 0 .. 0 |-> 0])
    BY SMT
  <2> QED
    BY <2>1
<1>2. ASSUME NEW m \in Nat, m # 0, Solved(m - 1) PROVE Solved(m)
  <2> HIDE DEF part
  <2>1. PICK f : f = G(m - 1, f)
    BY <1>2
  <2> DEFINE g == [i \in 0 .. m |-> IF i = 0 THEN 0 ELSE f[i - 1] + part(i)]
  <2>2. \A i \in 0 .. m - 1 : f[i] = g[i]
    BY <1>2, <2>1, SMT
  <2>3. \A i \in 0 .. m : i # 0 => i - 1 \in 0 .. m - 1
    BY <1>2, SMT
  <2>4. g = [i \in 0 .. m |-> IF i = 0 THEN 0 ELSE f[i - 1] + part(i)]
    OBVIOUS
  <2> HIDE DEF g
  <2>5. \A i \in 0 .. m : i # 0 => f[i - 1] = g[i - 1]
    BY <2>2, <2>3
  <2>6. g = G(m, g)
    BY <2>4, <2>5
  <2> QED
    BY <2>6
<1> HIDE DEF Solved
<1>3. T = {}
  <2> SUFFICES ASSUME T # {} PROVE FALSE
    OBVIOUS
  <2>1. PICK m \in T : \A k \in T : m <= k
    BY LeastNatural
  <2>2. m \in Nat /\ m # 0 /\ m - 1 \in Nat /\ m - 1 \notin T
    BY <1>1, <2>1, SMT
  <2> QED
    BY <1>2, <2>2
<1>4. Solved(Len(Batches))
  BY <1>3, BatchesAssumption, SMT
<1> QED
  BY <1>4 DEF Sums, Solved

(* What the recursion says. *)
SumsRecur(H) ==
  /\ Sums(H)[0] = 0
  /\ \A i \in 1 .. Len(Batches) :
       Sums(H)[i] = Sums(H)[i - 1] + (IF i \in H THEN Batches[i] ELSE 0)

(* Sums(H) satisfies its recursion. *)
LEMMA SumsAreRecursive == ASSUME NEW H PROVE SumsRecur(H)
<1> DEFINE s == Sums(H)
           n == Len(Batches)
<1>1. s = [i \in 0 .. n |-> IF i = 0 THEN 0
           ELSE s[i - 1] + (IF i \in H THEN Batches[i] ELSE 0)]
  BY SumsDefined
<1>2. n \in Nat
  BY BatchesAssumption, SMT
<1> HIDE DEF s, n
<1>3. s[0] = 0 /\ \A i \in 1 .. n : s[i] =
        s[i - 1] + (IF i \in H THEN Batches[i] ELSE 0)
  BY <1>1, <1>2, SMT
<1> QED
  BY <1>3 DEF s, n, SumsRecur

(* Sums are natural numbers, and the sum over no batch is zero. *)
LEMMA SumsNatural ==
  ASSUME NEW H
  PROVE  \A i \in 0 .. Len(Batches) :
           Sums(H)[i] \in Nat /\ (H = {} => Sums(H)[i] = 0)
<1> DEFINE n == Len(Batches)
           P(i) == Sums(H)[i] \in Nat /\ (H = {} => Sums(H)[i] = 0)
           T == {i \in 0 .. n : ~ P(i)}
<1>1. n \in Nat /\ \A i \in 1 .. n : Batches[i] \in Nat
  BY BatchesAssumption, SMT
<1>2. SumsRecur(H)
  BY SumsAreRecursive
<1> SUFFICES ASSUME T # {} PROVE FALSE
  OBVIOUS
<1>3. T \subseteq Nat
  BY <1>1, SMT
<1>4. PICK m \in T : \A k \in T : m <= k
  <2> HIDE DEF T
  <2> QED
    BY <1>3, LeastNatural
<1>5. m # 0
  BY <1>1, <1>2, SMT DEF SumsRecur
<1> HIDE DEF n
<1>6. m \in 1 .. n /\ m - 1 \in 0 .. n /\ m - 1 \notin T
  BY <1>1, <1>4, <1>5, SMT
<1>7. P(m - 1)
  BY <1>6
<1>8. Sums(H)[m] = Sums(H)[m - 1] + (IF m \in H THEN Batches[m] ELSE 0)
  BY <1>2, <1>6 DEF SumsRecur, n
<1>9. P(m)
  BY <1>1, <1>6, <1>7, <1>8, SMT
<1> QED
  BY <1>9

(* A batch more adds its primes. *)
LEMMA SumsAdd ==
  ASSUME NEW H, NEW e \in Events, e \notin H
  PROVE  \A i \in 0 .. Len(Batches) :
           Sums(H \cup {e})[i] = Sums(H)[i] + (IF e <= i THEN Batches[e] ELSE 0)
<1> DEFINE n == Len(Batches)
           K == H \cup {e}
           P(i) == Sums(K)[i] = Sums(H)[i] + (IF e <= i THEN Batches[e] ELSE 0)
           T == {i \in 0 .. n : ~ P(i)}
<1>1. n \in Nat /\ e \in 1 .. n /\ \A i \in 1 .. n : Batches[i] \in Nat
  BY BatchesAssumption, SMT DEF Events
<1>2. SumsRecur(K) /\ SumsRecur(H)
  BY SumsAreRecursive
<1>3. \A i \in 0 .. n : Sums(H)[i] \in Nat
  BY SumsNatural
<1> SUFFICES ASSUME T # {} PROVE FALSE
  BY Zenon
<1>4. T \subseteq Nat
  BY <1>1, SMT
<1>5. PICK m \in T : \A k \in T : m <= k
  <2> HIDE DEF T
  <2> QED
    BY <1>4, LeastNatural
<1> HIDE DEF n, K
<1>6. P(0)
  BY <1>1, <1>2, SMT DEF SumsRecur
<1>7. m \in 1 .. n /\ m - 1 \in 0 .. n /\ m - 1 \notin T
  BY <1>1, <1>5, <1>6, SMT
<1>8. P(m - 1)
  BY <1>7
<1>9. /\ Sums(K)[m] = Sums(K)[m - 1] + (IF m \in K THEN Batches[m] ELSE 0)
      /\ Sums(H)[m] = Sums(H)[m - 1] + (IF m \in H THEN Batches[m] ELSE 0)
  BY <1>2, <1>7 DEF SumsRecur, n
<1>10. CASE m = e
  <2>1. m \in K /\ m \notin H
    BY <1>10 DEF K
  <2>2. P(m)
    BY <1>1, <1>3, <1>7, <1>8, <1>9, <1>10, <2>1, SMT
  <2> QED
    BY <2>2
<1>11. CASE m # e
  <2>1. m \in K <=> m \in H
    BY <1>11 DEF K
  <2>2. e <= m <=> e <= m - 1
    BY <1>1, <1>7, <1>11, SMT
  <2> DEFINE x == IF m \in H THEN Batches[m] ELSE 0
             y == IF e <= m THEN Batches[e] ELSE 0
  <2>3. x \in Nat /\ y \in Nat /\ Sums(H)[m - 1] \in Nat
    BY <1>1, <1>3, <1>7
  <2>4. Sums(K)[m] = Sums(K)[m - 1] + x /\ Sums(H)[m] = Sums(H)[m - 1] + x
    BY <1>9, <2>1
  <2>5. Sums(K)[m - 1] = Sums(H)[m - 1] + y
    BY <1>8, <2>2
  <2> HIDE DEF x, y
  <2>6. Sums(K)[m] = Sums(H)[m] + y
    BY <2>3, <2>4, <2>5, SMT
  <2> QED
    BY <2>6 DEF y
<1> QED
  BY <1>10, <1>11

(* The sum over a set of batches. *)
LEMMA SumFacts ==
  /\ SumOver({}) = 0
  /\ \A H : SumOver(H) \in Nat
  /\ \A H : \A e \in Events \ H :
       SumOver(H \cup {e}) = SumOver(H) + Batches[e]
<1>1. Len(Batches) \in 0 .. Len(Batches)
  BY BatchesAssumption, SMT
<1>2. SumOver({}) = 0
  BY <1>1, SumsNatural DEF SumOver
<1>3. ASSUME NEW H PROVE SumOver(H) \in Nat
  BY <1>1, SumsNatural DEF SumOver
<1>4. ASSUME NEW H, NEW e \in Events \ H
      PROVE  SumOver(H \cup {e}) = SumOver(H) + Batches[e]
  <2>1. e <= Len(Batches)
    BY BatchesAssumption, SMT DEF Events
  <2>2. Sums(H \cup {e})[Len(Batches)] = Sums(H)[Len(Batches)]
          + (IF e <= Len(Batches) THEN Batches[e] ELSE 0)
    BY <1>1, SumsAdd
  <2> QED
    BY <2>1, <2>2 DEF SumOver
<1> QED
  BY <1>2, <1>3, <1>4
-----------------------------------------------------------------------------
(* The operations of an event, one by one. *)
LEMMA ProgramFacts ==
  /\ Len(Program) = 6 /\ PrintStep = 7 /\ LastStep = 8
  /\ \A i \in 1 .. 6 :
       /\ Program[i][1] = "load" <=> i \in {1, 3, 4, 6}
       /\ Program[i][1] = "store" <=> i \in {2, 5}
       /\ Program[i][2] = IF i <= 3 THEN "primes" ELSE "processed"
<1>1. Len(Program) = 6
  BY DEF Program
<1>2. PrintStep = 7 /\ LastStep = 8
  BY <1>1, SMT DEF PrintStep, LastStep
<1>3. /\ Program[1] = <<"load", "primes">> /\ Program[2] = <<"store", "primes">>
      /\ Program[3] = <<"load", "primes">> /\ Program[4] = <<"load", "processed">>
      /\ Program[5] = <<"store", "processed">>
      /\ Program[6] = <<"load", "processed">>
  BY DEF Program
<1>4. ASSUME NEW i \in 1 .. 6
      PROVE  /\ Program[i][1] = "load" <=> i \in {1, 3, 4, 6}
             /\ Program[i][1] = "store" <=> i \in {2, 5}
             /\ Program[i][2] = IF i <= 3 THEN "primes" ELSE "processed"
  <2>1. i = 1 \/ i = 2 \/ i = 3 \/ i = 4 \/ i = 5 \/ i = 6
    BY <1>4, SMT
  <2> QED
    BY <1>3, <2>1, SMT
<1> QED
  BY <1>1, <1>2, <1>4

(* The last two steps, the print and the end of the callback, in any state. *)
LEMMA StepBounds ==
  LastStep = 8 /\ PrintStep = 7 /\ LastStep' = 8 /\ PrintStep' = 7
BY ProgramFacts DEF LastStep, PrintStep, Program

(* The lengths of the program and of the list of batches. *)
LEMMA LengthFacts ==
  /\ 0 \in Nat /\ Len(Program) \in Nat /\ Len(Batches) \in Nat
  /\ 1 \in Int /\ Len(Batches) \in Int /\ Events = 1 .. Len(Batches)
  /\ (IF 1 > Len(Batches) THEN 0 ELSE Len(Batches) - 1 + 1) = Len(Batches)
<1>1. Len(Program) \in Nat /\ 0 \in Nat /\ 1 \in Int
  BY ProgramFacts, SMT
<1>2. Len(Batches) \in Nat /\ Events = 1 .. Len(Batches)
  BY BatchesAssumption, SMT DEF Events
<1>3. /\ Len(Batches) \in Int
      /\ (IF 1 > Len(Batches) THEN 0 ELSE Len(Batches) - 1 + 1) = Len(Batches)
  BY <1>2, SMT
<1> QED
  BY <1>1, <1>2, <1>3

-----------------------------------------------------------------------------
(* What LoopLabel and Done look at. *)
LEMMA SameViews ==
  ASSUME UNCHANGED queue, \A u \in Threads : Committed(u)' <=> Committed(u)
  PROVE  LoopLabel' = LoopLabel /\ Done' = Done
<1>1. loop' = loop /\ event' = event /\ handled' = handled
  BY DEF queue
<1>2. {u \in Threads : loop[u] = "execute" /\ Committed(u)}' =
      {u \in Threads : loop[u] = "execute" /\ Committed(u)}
  BY <1>1
<1>3. Done' = Done
  BY <1>1, <1>2 DEF Done
<1>4. LoopLabel' = LoopLabel
  BY <1>1 DEF LoopLabel
<1> QED
  BY <1>3, <1>4

(* What Doomed looks at. *)
LEMMA SameDoomed ==
  ASSUME \A u \in Threads : IsDoomed(u)' <=> IsDoomed(u)
  PROVE  Doomed' = Doomed
BY DEF Doomed, IsDoomed

(* The types of the variables that the lemmas below look at. *)
Types ==
  /\ pc \in [Threads -> S!Labels]
  /\ aborted \in [Threads -> BOOLEAN]
  /\ read_set \in [Threads -> SUBSET {Counters}]
  /\ write_set \in [Threads -> SUBSET {Counters}]
  /\ transactions = {t \in Threads : pc[t] # "none"}
  /\ visit \subseteq Threads

(* Only one thread is past the locks of CommitTransaction; as long as it   *)
(* is in the second loop nobody's sets change.                             *)
Exclusive ==
  /\ \A t, u \in Threads :
       /\ pc[t] \in {"lock", "conflict", "heap", "remove"}
       /\ pc[u] \in {"lock", "conflict", "heap", "remove"}
       => t = u
  /\ \A t \in Threads :
       /\ pc[t] = "conflict" => mutex = transactions
       /\ pc[t] \in {"lock", "conflict", "heap"} => ~ aborted[t]
       /\ transactions_mutex = Nobody =>
            pc[t] \notin {"lock", "conflict", "heap", "remove"}

(* What the invariant of module STM says of locks. *)
LEMMA StmFacts == S!IndInv => Types /\ Exclusive
<1> SUFFICES ASSUME S!IndInv PROVE Types /\ Exclusive
  OBVIOUS
<1>1. Types
  BY DEF S!IndInv, S!TypeOK, S!LockDiscipline, Types
<1>2. Exclusive
  BY ThreadAssumption DEF S!IndInv, S!LockDiscipline, S!CommitterNotAborted,
     S!Committing, Exclusive
<1> QED
  BY <1>1, <1>2

-----------------------------------------------------------------------------
(* A step that module EventLoop does not see. *)
Unseen ==
  /\ UNCHANGED queue
  /\ \A u \in Threads : Committed(u)' <=> Committed(u)
  /\ \A u \in Threads : IsDoomed(u)' <=> IsDoomed(u)

(* A thread that moves outside the commit is not seen. *)
LEMMA MoveUnseen ==
  ASSUME Types, NEW t \in Threads, NEW to, UNCHANGED <<queue, aborted, visit>>,
         UNCHANGED <<read_set, write_set>>,
         pc' = [pc EXCEPT ![t] = to],
         pc[t] \notin {"conflict", "heap", "remove"},
         to \notin {"conflict", "heap"}, to = "remove" => aborted[t]
  PROVE  Unseen
<1>1. \A u \in Threads : Committed(u)' <=> Committed(u)
  BY DEF Types, Committed
<1>2. \A u \in Threads : pc'[u] = "conflict" <=> pc[u] = "conflict"
  BY DEF Types
<1>3. \A u \in Threads : IsDoomed(u)' <=> IsDoomed(u)
  BY <1>2 DEF IsDoomed, S!HasConflicts
<1> QED
  BY <1>1, <1>3 DEF Unseen

(* The operations of an event, and its end. *)
LEMMA OperationUnseen ==
  ASSUME Types, NEW t \in Threads,
         Redirect(t) \/ Load(t) \/ Store(t) \/ PrintResult(t) \/ EndEvent(t)
  PROVE  Unseen
<1>1. CASE PrintResult(t)
  <2>1. UNCHANGED <<queue, aborted, visit, read_set, write_set, pc>>
    BY <1>1 DEF PrintResult, stm
  <2> QED
    BY <2>1 DEF Unseen, Committed, IsDoomed, S!HasConflicts
<1>2. CASE ~ PrintResult(t)
  <2>1. /\ UNCHANGED <<queue, visit>> /\ UNCHANGED <<read_set, write_set>>
        /\ \E to \in {"load", "addRead", "store", "copy", "run", "commit"} :
             pc' = [pc EXCEPT ![t] = to]
        /\ pc[t] \in {"run", "load", "store"}
    BY <1>2 DEF Redirect, Load, Store, EndEvent, S!RedirectLoad, S!RedirectStore,
       S!Load, S!Store, S!EndEvent, S!Goto, S!sets
  <2>2. aborted' = aborted
    <3>1. ASSUME EndEvent(t) PROVE aborted' = aborted
      BY <3>1, SMT DEF EndEvent, S!EndEvent, Types
    <3> QED
      BY <1>2, <3>1 DEF Redirect, Load, Store, S!RedirectLoad,
         S!RedirectStore, S!Load, S!Store
  <2> QED
    BY <2>1, <2>2, MoveUnseen
<1> QED
  BY <1>1, <1>2

(* Entering an object into a set takes the mutex of the transaction, which *)
(* a committer in its second loop holds.                                   *)
LEMMA AddUnseen ==
  ASSUME Types, Exclusive, UNCHANGED queue, NEW t \in Threads,
         S!AddRead(t) \/ S!AddWrite(t)
  PROVE  Unseen
<1>1. /\ pc[t] \in {"addRead", "copy"} /\ t \notin mutex
      /\ \E to \in {"load", "store"} : pc' = [pc EXCEPT ![t] = to]
      /\ UNCHANGED <<aborted, visit>>
  BY DEF S!AddRead, S!AddWrite, S!Goto
<1>2. \A u \in Threads : pc[u] # "conflict" /\ pc'[u] # "conflict"
  BY <1>1 DEF Types, Exclusive
<1>3. \A u \in Threads : IsDoomed(u)' <=> IsDoomed(u)
  BY <1>1, <1>2 DEF IsDoomed
<1>4. \A u \in Threads : Committed(u)' <=> Committed(u)
  BY <1>1 DEF Types, Committed
<1> QED
  BY <1>3, <1>4 DEF Unseen

(* The steps of a commit other than the one that locks the last mutex. *)
LEMMA CommitUnseen ==
  ASSUME Types, Exclusive, UNCHANGED queue, NEW t \in Threads,
         \/ \E w \in S!Words : S!CopyWord(t, w) \/ S!CommitWord(t, w)
         \/ S!LockCommit(t) \/ S!LockTransactions(t)
         \/ \E u \in Threads : S!LockTransaction(t, u) \/ S!AbortConflicting(t, u)
         \/ S!BeginCommitHeap(t) \/ S!UnlockTransactions(t)
  PROVE  Unseen
<1>1. CASE \/ \E w \in S!Words : S!CopyWord(t, w) \/ S!CommitWord(t, w)
           \/ S!LockCommit(t)
  <2>1. /\ UNCHANGED <<aborted, visit>> /\ UNCHANGED <<read_set, write_set>>
        /\ \/ pc' = pc
           \/ pc' = [pc EXCEPT ![t] = "list"] /\ pc[t] = "commit"
    BY <1>1, SMT DEF Types, S!CopyWord, S!CommitWord, S!LockCommit, S!Goto,
       S!sets
  <2>2. ASSUME pc' = pc PROVE Unseen
    BY <2>1, <2>2 DEF Unseen, Committed, IsDoomed, S!HasConflicts
  <2> QED
    BY <2>1, <2>2, MoveUnseen
<1>2. CASE S!LockTransactions(t)
  <2>1. /\ \A u \in Threads : pc[u] \notin {"lock", "conflict", "heap", "remove"}
        /\ pc' = [pc EXCEPT ![t] = IF aborted[t] THEN "remove" ELSE "lock"]
        /\ UNCHANGED aborted
    BY <1>2 DEF S!LockTransactions, S!Goto, Exclusive
  <2>2. \A u \in Threads : pc'[u] # "conflict"
    BY <2>1 DEF Types
  <2>3. \A u \in Threads : IsDoomed(u)' <=> IsDoomed(u)
    BY <2>1, <2>2 DEF IsDoomed
  <2>4. \A u \in Threads : Committed(u)' <=> Committed(u)
    BY <2>1 DEF Types, Committed
  <2> QED
    BY <2>3, <2>4 DEF Unseen
<1>3. ASSUME NEW x \in Threads, S!LockTransaction(t, x) PROVE Unseen
  <2>1. pc' = pc /\ aborted' = aborted /\ pc[t] = "lock"
    BY <1>3 DEF S!LockTransaction
  <2>2. \A u \in Threads : pc[u] # "conflict"
    BY <2>1 DEF Exclusive
  <2> QED
    BY <2>1, <2>2 DEF Unseen, Committed, IsDoomed
<1>4. ASSUME NEW x \in Threads, S!AbortConflicting(t, x) PROVE Unseen
  <2>1. /\ pc' = pc /\ pc[t] = "conflict" /\ x \in visit
        /\ UNCHANGED <<read_set, write_set>> /\ visit' = visit \ {x}
        /\ aborted' = [aborted EXCEPT ![x] = @ \/ S!HasConflicts(x, t)]
    BY <1>4 DEF S!AbortConflicting, S!sets
  <2>2. \A u \in Threads : pc[u] = "conflict" => u = t
    BY <2>1 DEF Exclusive
  <2>3. \A u \in Threads : S!HasConflicts(u, t)' <=> S!HasConflicts(u, t)
    BY <2>1 DEF S!HasConflicts
  <2>4. ASSUME NEW u \in Threads PROVE IsDoomed(u)' <=> IsDoomed(u)
    <3>1. IsDoomed(u) <=> aborted[u] \/ (u \in visit /\ S!HasConflicts(u, t))
      BY <2>1, <2>2 DEF IsDoomed
    <3>2. IsDoomed(u)' <=> aborted'[u] \/ (u \in visit' /\ S!HasConflicts(u, t))
      BY <2>1, <2>2, <2>3 DEF IsDoomed
    <3>3. CASE u = x
      <4>1. aborted'[u] <=> aborted[u] \/ S!HasConflicts(u, t)
        BY <2>1, <3>3 DEF Types
      <4> QED
        BY <2>1, <3>1, <3>2, <3>3, <4>1
    <3>4. CASE u # x
      BY <2>1, <3>1, <3>2, <3>4 DEF Types
    <3> QED
      BY <3>3, <3>4
  <2>5. ASSUME NEW u \in Threads PROVE Committed(u)' <=> Committed(u)
    <3>1. pc[u] # "remove"
      BY <2>1 DEF Exclusive
    <3> QED
      BY <2>1, <3>1 DEF Committed
  <2> QED
    BY <2>4, <2>5 DEF Unseen
<1>5. CASE S!BeginCommitHeap(t)
  <2>1. /\ pc' = [pc EXCEPT ![t] = "heap"] /\ pc[t] = "conflict"
        /\ visit = {} /\ visit' = {} /\ aborted' = aborted
    BY <1>5 DEF S!BeginCommitHeap, S!Goto
  <2> QED
    BY <2>1 DEF Types, Unseen, Committed, IsDoomed
<1>6. CASE S!UnlockTransactions(t)
  <2>1. /\ pc' = [pc EXCEPT ![t] = "remove"] /\ pc[t] = "heap"
        /\ aborted' = aborted
    BY <1>6 DEF S!UnlockTransactions, S!Goto
  <2>2. \A u \in Threads : pc[u] # "conflict" /\ pc'[u] # "conflict"
    BY <2>1 DEF Exclusive, Types
  <2>3. ~ aborted[t]
    BY <2>1 DEF Exclusive
  <2> QED
    BY <2>1, <2>2, <2>3 DEF Types, Unseen, Committed, IsDoomed
<1> QED
  BY <1>1, <1>2, <1>3, <1>4, <1>5, <1>6

-----------------------------------------------------------------------------
(* To module EventLoop an unseen step is no step. *)
LEMMA UnseenStutters == ASSUME Unseen PROVE UNCHANGED L!vars
<1>1. LoopLabel' = LoopLabel /\ Done' = Done
  BY SameViews DEF Unseen
<1>2. Doomed' = Doomed
  BY SameDoomed DEF Unseen
<1> QED
  BY <1>1, <1>2 DEF Unseen, queue, L!vars, L!statistics, L!locals

(* A thread moves on in its loop, outside a transaction. *)
InLoop(t, to) ==
  /\ LoopLabel[t] = loop[t]
  /\ LoopLabel' = [LoopLabel EXCEPT ![t] = to]
  /\ Done' = Done /\ Doomed' = Doomed
  /\ \A u \in Threads : loop[u] \in {"script", "new", "done"} <=>
                        LoopLabel[u] \in {"script", "new", "done"}
  /\ \A u \in Threads : loop[u] \in {"script", "new", "done"} =>
                        LoopLabel[u] = loop[u]

(* What module EventLoop sees of such a move. *)
LEMMA LoopMoves ==
  ASSUME TypeOK, UNCHANGED <<stm, aborted, handled>>, NEW t \in Threads, NEW to,
         loop' = [loop EXCEPT ![t] = to], loop[t] # "execute", to # "execute",
         \A u \in Threads : loop[u] = "execute" => event'[u] = event[u]
  PROVE  InLoop(t, to)
<1>1. \A u \in Threads : Committed(u)' <=> Committed(u)
  BY DEF stm, Committed
<1>2. \A u \in Threads : IsDoomed(u)' <=> IsDoomed(u)
  BY DEF stm, IsDoomed, S!HasConflicts
<1>3. Doomed' = Doomed
  BY <1>2, SameDoomed
<1>4. {u \in Threads : loop[u] = "execute" /\ Committed(u)}' =
      {u \in Threads : loop[u] = "execute" /\ Committed(u)}
  BY <1>1 DEF TypeOK
<1>5. Done' = Done
  BY <1>4 DEF Done
<1>6. LoopLabel' = [LoopLabel EXCEPT ![t] = to] /\ LoopLabel[t] = loop[t]
  BY <1>1 DEF LoopLabel, TypeOK
<1>7. ASSUME NEW u \in Threads
      PROVE  /\ loop[u] \in {"script", "new", "done"} <=>
                LoopLabel[u] \in {"script", "new", "done"}
             /\ loop[u] \in {"script", "new", "done"} => LoopLabel[u] = loop[u]
  BY DEF LoopLabel
<1> QED
  BY <1>3, <1>5, <1>6, <1>7 DEF InLoop

(* The steps of the loops outside transactions are those of EventLoop. *)
LEMMA LockQueueRefines ==
  ASSUME TypeOK, NEW t \in Threads, LockQueue(t) PROVE L!LockQueue(t)
<1> DEFINE to == IF active[t] THEN "countOut" ELSE "take"
<1>1. InLoop(t, to)
  BY LoopMoves DEF LockQueue, Q!LockQueue, Q!Goto
<1> HIDE DEF to
<1>2. LoopLabel[t] = "lock" /\ LoopLabel' = [LoopLabel EXCEPT ![t] = to]
  BY <1>1 DEF LockQueue, Q!LockQueue, Q!Goto, InLoop
<1>3. \A u \in Threads : LoopLabel[u] # "new"
  BY <1>1 DEF LockQueue, Q!LockQueue, InLoop
<1> QED
  BY <1>1, <1>2, <1>3 DEF LockQueue, Q!LockQueue, L!LockQueue, L!Goto, to, InLoop,
     Q!statistics, L!statistics

(* ... and main's. *)
LEMMA MainRefines ==
  ASSUME TypeOK, RunScript \/ Join
  PROVE  L!Async(Main) \/ L!CommitScript \/ L!Join
<1> USE ThreadAssumption
<1>1. CASE Join
  <2>1. InLoop(Main, "exit")
    BY <1>1, LoopMoves DEF Join, Q!Join, Q!Goto, Q!locals
  <2>2. L!Goto(Main, "done", "exit")
    BY <1>1, <2>1 DEF Join, Q!Join, Q!Goto, L!Goto, InLoop
  <2>3. \A u \in Threads \ {Main} : LoopLabel[u] = "done"
    BY <1>1, <2>1 DEF Join, Q!Join, Q!Workers, InLoop
  <2> QED
    BY <1>1, <2>1, <2>2, <2>3 DEF Join, Q!Join, L!Join, L!Workers, InLoop,
     Q!statistics, L!statistics, Q!locals, L!locals
<1>2. CASE RunScript /\ created < Len(Batches)
  <2>1. Q!Async(Main) /\ loop[Main] = "script" /\ UNCHANGED <<stm, program>>
    BY <1>2 DEF RunScript
  <2>2. LoopLabel' = LoopLabel /\ Done' = Done /\ Doomed' = Doomed
    BY <2>1 DEF Q!Async, Q!locals, stm, LoopLabel, Done, Doomed, IsDoomed,
       S!HasConflicts, Committed
  <2>3. LoopLabel[Main] = "script"
    BY <2>1 DEF LoopLabel
  <2> QED
    BY <2>1, <2>2, <2>3 DEF Q!Async, L!Async, Q!statistics, L!statistics,
       Q!locals, L!locals
<1>3. CASE RunScript /\ ~ (created < Len(Batches))
  <2>1. Q!CommitScript /\ UNCHANGED <<stm, program>>
    BY <1>3 DEF RunScript
  <2>2. InLoop(Main, "new")
    BY <2>1, LoopMoves DEF Q!CommitScript, Q!Goto, Q!locals
  <2>3. L!Goto(Main, "script", "new")
    BY <2>1, <2>2 DEF Q!CommitScript, Q!Goto, L!Goto, InLoop
  <2> QED
    BY <2>1, <2>2, <2>3 DEF Q!CommitScript, L!CommitScript, InLoop,
     Q!statistics, L!statistics, Q!locals, L!locals
<1> QED
  BY <1>1, <1>2, <1>3

(* The thread is in its loop: it counts itself out and in, takes an event  *)
(* or leaves, or deletes the event it has committed.                       *)
LEMMA InQueueRefines ==
  ASSUME TypeOK, NEW t \in Threads, InQueue(t) PROVE L!Continue(t)
<1> USE DEF Q!statistics, L!statistics, Q!locals, L!locals, Q!Goto, L!Goto
<1>0. UNCHANGED stm
  BY DEF InQueue
<1>1. CASE Q!EnterLoop(t)
  <2>1. InLoop(t, "lock")
    BY <1>0, <1>1, LoopMoves DEF Q!EnterLoop
  <2>2. LoopLabel[Main] # "script"
    BY <1>1, <2>1, ThreadAssumption DEF Q!EnterLoop, InLoop
  <2>3. L!EnterLoop(t)
    BY <1>1, <2>1, <2>2 DEF Q!EnterLoop, L!EnterLoop, InLoop
  <2> QED
    BY <2>3 DEF L!Continue
<1>2. CASE Q!CountOut(t)
  <2>1. InLoop(t, "take")
    BY <1>0, <1>2, LoopMoves DEF Q!CountOut
  <2>2. L!CountOut(t)
    BY <1>2, <2>1 DEF Q!CountOut, L!CountOut, InLoop
  <2> QED
    BY <2>2 DEF L!Continue
<1>3. CASE Q!TakeEvent(t)
  <2>1. InLoop(t, "countIn")
    BY <1>0, <1>3, LoopMoves DEF Q!TakeEvent, TypeOK
  <2>2. L!TakeEvent(t)
    BY <1>3, <2>1 DEF Q!TakeEvent, L!TakeEvent, InLoop
  <2> QED
    BY <2>2 DEF L!Continue
<1>4. CASE Q!CountIn(t)
  <2>1. InLoop(t, "begin")
    BY <1>0, <1>4, LoopMoves DEF Q!CountIn
  <2>2. L!CountIn(t)
    BY <1>4, <2>1 DEF Q!CountIn, L!CountIn, InLoop
  <2> QED
    BY <2>2 DEF L!Continue
<1>5. CASE Q!LeaveLoop(t)
  <2>1. InLoop(t, "done")
    BY <1>0, <1>5, LoopMoves DEF Q!LeaveLoop
  <2>2. L!LeaveLoop(t)
    BY <1>5, <2>1 DEF Q!LeaveLoop, L!LeaveLoop, InLoop
  <2> QED
    BY <2>2 DEF L!Continue
<1>6. CASE Q!SpinAgain(t)
  <2>1. InLoop(t, "lock")
    BY <1>0, <1>6, LoopMoves DEF Q!SpinAgain
  <2>2. L!SpinAgain(t)
    BY <1>6, <2>1 DEF Q!SpinAgain, L!SpinAgain, InLoop
  <2> QED
    BY <2>2 DEF L!Continue
<1>7. CASE Q!DeleteEvent(t)
  <2>1. InLoop(t, "lock")
    BY <1>0, <1>7, LoopMoves DEF Q!DeleteEvent, TypeOK
  <2>2. L!DeleteEvent(t)
    BY <1>7, <2>1 DEF Q!DeleteEvent, L!DeleteEvent, InLoop, Q!NoEvent, L!NoEvent
  <2> QED
    BY <2>2 DEF L!Continue
<1> QED
  BY <1>1, <1>2, <1>3, <1>4, <1>5, <1>6, <1>7 DEF InQueue

(* A transaction starts while nobody is in the second loop of a commit. *)
LEMMA BeginRefines ==
  ASSUME Types, Exclusive, TypeOK, NEW t \in Threads, Begin(t)
  PROVE  /\ L!StartTransaction(t)
         /\ Done' = Done
         /\ \A u \in Threads : /\ ~ Publishing(u) /\ ~ Publishing(u)'
                               /\ ~ Committed(u) /\ ~ Committed(u)'
                               /\ IsDoomed(u)' <=> IsDoomed(u)
<1>1. /\ pc' = [pc EXCEPT ![t] = "run"]
      /\ loop' = [loop EXCEPT ![t] = "execute"] /\ loop[t] = "begin"
      /\ aborted' = aborted /\ event' = event /\ handled' = handled
      /\ transactions_mutex = Nobody
  BY DEF Begin, Q!StartTransaction, S!StartTransaction, Q!Goto, S!Goto, Q!locals
<1>2. \A u \in Threads : /\ pc[u] \notin {"conflict", "heap", "remove"}
                         /\ pc'[u] \notin {"conflict", "heap", "remove"}
  BY <1>1 DEF Types, Exclusive
<1>3. \A u \in Threads : ~ Committed(u) /\ ~ Committed(u)'
  BY <1>2 DEF Committed
<1>4. Done = handled /\ Done' = handled'
  BY <1>3 DEF Done
<1>5. \A u \in Threads : IsDoomed(u)' <=> IsDoomed(u)
  BY <1>1, <1>2 DEF IsDoomed
<1>6. Doomed' = Doomed
  BY <1>5, SameDoomed
<1>7. LoopLabel[t] = "begin" /\ LoopLabel' = [LoopLabel EXCEPT ![t] = "execute"]
  BY <1>1, <1>3 DEF LoopLabel, TypeOK
<1>8. L!StartTransaction(t)
  BY <1>1, <1>4, <1>6, <1>7 DEF Begin, Q!StartTransaction, L!StartTransaction,
     L!Goto, Q!locals, L!locals
<1> QED
  BY <1>1, <1>2, <1>3, <1>4, <1>5, <1>8 DEF Publishing

(* CommitTransaction commits for module EventLoop when it has locked all   *)
(* transactions: it will abort those in conflict.                          *)
LEMMA AllLockedRefines ==
  ASSUME Types, Exclusive, TypeOK, ControlInv, UNCHANGED queue,
         NEW t \in Threads, S!AllLocked(t)
  PROVE  /\ L!Commit(t)
         /\ Done' = Done \cup {event[t]}
         /\ \A u \in Threads :
              /\ Committed(u)' <=> (Committed(u) \/ u = t)
              /\ IsDoomed(u)' <=> aborted[u]
                   \/ (u \in transactions \ {t} /\ S!HasConflicts(u, t))
              /\ u # t => ~ Committed(u)
<1>1. /\ pc' = [pc EXCEPT ![t] = "conflict"] /\ pc[t] = "lock"
      /\ visit' = transactions \ {t} /\ aborted' = aborted
      /\ read_set' = read_set /\ write_set' = write_set
      /\ transactions' = transactions
  BY DEF S!AllLocked, S!Goto, S!sets
<1>2. loop' = loop /\ event' = event /\ handled' = handled
  BY DEF queue
<1>3. loop[t] = "execute"
  BY <1>1 DEF ControlInv
<1>4. \A u \in Threads : pc[u] \notin {"conflict", "heap", "remove"}
  BY <1>1 DEF Exclusive
<1>5. \A u \in Threads : ~ Committed(u) /\ (Committed(u)' <=> u = t)
  BY <1>1, <1>4 DEF Committed, Types
<1>6. Done = handled /\ Done' = handled \cup {event[t]}
  <2>1. {u \in Threads : loop[u] = "execute" /\ Committed(u)} = {}
    BY <1>5
  <2>2. {u \in Threads : loop[u] = "execute" /\ Committed(u)}' = {t}
    BY <1>2, <1>3, <1>5
  <2>3. Done = handled \cup {event[u] : u \in {}}
    BY <2>1 DEF Done
  <2>4. Done' = handled' \cup {event'[u] : u \in {t}}
    BY <2>2 DEF Done
  <2> QED
    BY <1>2, <2>3, <2>4
<1>7. LoopLabel[t] = "execute" /\ LoopLabel' = [LoopLabel EXCEPT ![t] = "delete"]
  BY <1>2, <1>3, <1>5 DEF LoopLabel, TypeOK
<1>8. \A u \in Threads : S!HasConflicts(u, t)' <=> S!HasConflicts(u, t)
  BY <1>1 DEF S!HasConflicts
<1>9. \A u \in Threads : pc'[u] = "conflict" <=> u = t
  BY <1>1, <1>4 DEF Types
<1>10. ASSUME NEW u \in Threads
       PROVE  /\ IsDoomed(u) <=> aborted[u]
              /\ IsDoomed(u)' <=> aborted[u]
                   \/ (u \in transactions \ {t} /\ S!HasConflicts(u, t))
  BY <1>1, <1>4, <1>8, <1>9 DEF IsDoomed
<1> DEFINE doomed == {u \in transactions \ {t} : S!HasConflicts(u, t)}
<1>11. doomed \in SUBSET {u \in Threads \ {t} : LoopLabel[u] = "execute"}
  BY <1>5 DEF LoopLabel, Types, ControlInv
<1>12. Doomed' = [u \in Threads |-> Doomed[u] \/ u \in doomed]
  <2>1. \A u \in Threads : IsDoomed(u)' <=> (IsDoomed(u) \/ u \in doomed)
    BY <1>10
  <2> HIDE DEF doomed
  <2>2. \A u \in Threads : IsDoomed(u)' = (IsDoomed(u) \/ u \in doomed)
    BY <2>1 DEF IsDoomed
  <2>3. \A u \in Threads : Doomed[u] = IsDoomed(u)
    BY DEF Doomed
  <2>4. Doomed' = [u \in Threads |-> IsDoomed(u)']
    BY DEF Doomed
  <2> QED
    BY <2>2, <2>3, <2>4
<1>13. ~ Doomed[t]
  <2>1. ~ IsDoomed(t)
    BY <1>1, <1>10 DEF Exclusive
  <2> QED
    BY <2>1 DEF Doomed
<1>14. \E d \in SUBSET {u \in Threads \ {t} : LoopLabel[u] = "execute"} :
         Doomed' = [u \in Threads |-> Doomed[u] \/ u \in d]
  <2> HIDE DEF doomed
  <2> QED
    BY <1>11, <1>12
<1>15. L!Commit(t)
  BY <1>2, <1>6, <1>7, <1>13, <1>14 DEF L!Commit, L!Goto, queue, L!locals,
     L!statistics
<1> QED
  BY <1>5, <1>6, <1>10, <1>15

(* When CommitTransaction returns the loop learns what has been decided. *)
LEMMA EndCommitRefines ==
  ASSUME Types, Exclusive, TypeOK, ControlInv, NEW t \in Threads, EndCommit(t)
  PROVE  /\ IF aborted[t] THEN L!Restart(t) ELSE UNCHANGED L!vars
         /\ Done' = Done
         /\ \A u \in Threads :
              /\ u # t => ~ Committed(u) /\ ~ Committed(u)'
              /\ u # t => (IsDoomed(u)' <=> aborted[u])
              /\ IsDoomed(u) <=> aborted[u]
<1>1. /\ pc' = [pc EXCEPT ![t] = "none"] /\ pc[t] = "remove"
      /\ aborted' = [aborted EXCEPT ![t] = FALSE]
      /\ event' = event
  BY DEF EndCommit, S!RemoveTransaction, S!Goto, S!FreshTransaction, Q!Restart,
     Q!locals
<1>2. loop[t] = "execute"
  BY <1>1 DEF ControlInv
<1>3. \A u \in Threads : /\ pc[u] # "conflict" /\ pc'[u] # "conflict"
                         /\ u # t => pc[u] \notin {"heap", "remove"}
                         /\ u # t => pc'[u] \notin {"heap", "remove"}
  BY <1>1 DEF Exclusive, Types
<1>4. ASSUME NEW u \in Threads
      PROVE  /\ IsDoomed(u) <=> aborted[u]
             /\ IsDoomed(u)' <=> aborted'[u]
             /\ u # t => ~ Committed(u) /\ ~ Committed(u)'
             /\ Committed(t) <=> ~ aborted[t]
             /\ ~ Committed(t)'
  BY <1>1, <1>3 DEF IsDoomed, Committed, Types
<1>5. \A u \in Threads : u # t => (IsDoomed(u)' <=> aborted[u])
  BY <1>1, <1>4 DEF Types
<1>6. {u \in Threads : loop[u] = "execute" /\ Committed(u)}' = {}
  BY <1>4
<1>7. Done' = handled'
  <2>1. Done' = handled' \cup {event'[u] : u \in {}}
    BY <1>6 DEF Done
  <2> QED
    BY <2>1
<1>8. CASE aborted[t]
  <2>1. Q!Restart(t)
    BY <1>8 DEF EndCommit
  <2>2. {u \in Threads : loop[u] = "execute" /\ Committed(u)} = {}
    BY <1>4, <1>8
  <2>3. Done = handled
    <3>1. Done = handled \cup {event[u] : u \in {}}
      BY <2>2 DEF Done
    <3> QED
      BY <3>1
  <2>4. LoopLabel[t] = "execute" /\ LoopLabel' = [LoopLabel EXCEPT ![t] = "begin"]
    BY <1>2, <1>4, <1>8, <2>1 DEF LoopLabel, TypeOK, Q!Restart, Q!Goto
  <2>5. Doomed[t] /\ Doomed' = [Doomed EXCEPT ![t] = FALSE]
    <3>1. \A u \in Threads : IsDoomed(u) = aborted[u]
      BY <1>4 DEF IsDoomed, Types
    <3>2. \A u \in Threads : IsDoomed(u)' = aborted'[u]
      <4>1. \A u \in Threads : aborted'[u] \in BOOLEAN
        BY <1>1 DEF Types
      <4> QED
        BY <1>4, <4>1 DEF IsDoomed
    <3>3. Doomed = [u \in Threads |-> aborted[u]]
      BY <3>1 DEF Doomed
    <3>4. Doomed' = [u \in Threads |-> aborted'[u]]
      BY <3>2 DEF Doomed
    <3> QED
      BY <1>1, <1>8, <3>3, <3>4 DEF Types
  <2>6. L!Restart(t)
    BY <1>7, <2>1, <2>3, <2>4, <2>5 DEF Q!Restart, L!Restart, L!Goto, Q!locals,
       L!locals
  <2> QED
    BY <1>4, <1>5, <1>7, <1>8, <2>1, <2>3, <2>6 DEF Q!Restart
<1>9. CASE ~ aborted[t]
  <2>1. /\ loop' = [loop EXCEPT ![t] = "delete"]
        /\ handled' = handled \cup {event[t]}
        /\ UNCHANGED <<event_queue, running_threads, total_transactions,
                       aborted_transactions, queue_mutex, active, event,
                       register, created>>
    BY <1>9 DEF EndCommit
  <2>2. {u \in Threads : loop[u] = "execute" /\ Committed(u)} = {t}
    BY <1>2, <1>4, <1>9
  <2>3. Done = handled \cup {event[t]}
    <3>1. Done = handled \cup {event[u] : u \in {t}}
      BY <2>2 DEF Done
    <3> QED
      BY <3>1
  <2>4. LoopLabel' = LoopLabel
    BY <1>2, <1>4, <1>9, <2>1 DEF LoopLabel, TypeOK
  <2>5. \A u \in Threads : IsDoomed(u)' <=> IsDoomed(u)
    BY <1>1, <1>4, <1>9 DEF Types
  <2>6. Doomed' = Doomed
    BY <2>5, SameDoomed
  <2>7. UNCHANGED L!vars
    BY <1>7, <2>1, <2>3, <2>4, <2>6 DEF L!vars, L!statistics, L!locals
  <2> QED
    BY <1>4, <1>5, <1>7, <1>9, <2>1, <2>3, <2>7
<1> QED
  BY <1>8, <1>9

-----------------------------------------------------------------------------
(* The steps inside a transaction, by what module EventLoop sees of them.  *)
Adding(t) ==
  (S!AddRead(t) \/ S!AddWrite(t)) /\ UNCHANGED <<queue, program>>

Committing(t) ==
  /\ \/ \E w \in S!Words : S!CopyWord(t, w) \/ S!CommitWord(t, w)
     \/ S!LockCommit(t) \/ S!LockTransactions(t)
     \/ \E u \in Threads : S!LockTransaction(t, u) \/ S!AbortConflicting(t, u)
     \/ S!BeginCommitHeap(t) \/ S!UnlockTransactions(t)
  /\ UNCHANGED <<queue, program>>

Commits(t) == S!AllLocked(t) /\ UNCHANGED <<queue, program>>

(* There are no other steps. *)
LEMMA StepCases ==
  ASSUME [Next]_vars
  PROVE  \/ UNCHANGED vars \/ RunScript \/ Join
         \/ \E t \in Threads :
              \/ LockQueue(t) \/ InQueue(t) \/ Begin(t)
              \/ Adding(t) \/ Committing(t) \/ Commits(t)
              \/ Redirect(t) \/ Load(t) \/ Store(t) \/ PrintResult(t)
              \/ EndEvent(t) \/ EndCommit(t)
<1>1. ASSUME NEW t \in Threads, InTransaction(t)
      PROVE  Adding(t) \/ Committing(t) \/ Commits(t)
  BY <1>1 DEF InTransaction, Adding, Committing, Commits
<1> QED
  BY <1>1 DEF Next, Continue

(* Every step of the program is one of the event loops, or none. *)
LEMMA LoopStep ==
  ASSUME Types, Exclusive, TypeOK, ControlInv, [Next]_vars
  PROVE  [L!Next]_(L!vars)
<1>1. ASSUME UNCHANGED vars PROVE UNCHANGED L!vars
  <2>1. Unseen
    BY <1>1 DEF Unseen, vars, stm, Committed, IsDoomed, S!HasConflicts
  <2> QED
    BY <2>1, UnseenStutters
<1>2. ASSUME RunScript \/ Join PROVE L!Next
  BY <1>2, MainRefines, ThreadAssumption DEF L!Next
<1>3. ASSUME NEW t \in Threads, LockQueue(t) \/ InQueue(t) PROVE L!Next
  BY <1>3, LockQueueRefines, InQueueRefines DEF L!Next
<1>4. ASSUME NEW t \in Threads, Begin(t) PROVE L!Next
  BY <1>4, BeginRefines DEF L!Next, L!Continue
<1>5. ASSUME NEW t \in Threads, Adding(t) PROVE UNCHANGED L!vars
  BY <1>5, AddUnseen, UnseenStutters DEF Adding
<1>6. ASSUME NEW t \in Threads, Committing(t) PROVE UNCHANGED L!vars
  BY <1>6, CommitUnseen, UnseenStutters DEF Committing
<1>7. ASSUME NEW t \in Threads, Commits(t) PROVE L!Next
  BY <1>7, AllLockedRefines DEF L!Next, L!Continue, Commits
<1>8. ASSUME NEW t \in Threads,
             Redirect(t) \/ Load(t) \/ Store(t) \/ PrintResult(t) \/ EndEvent(t)
      PROVE  UNCHANGED L!vars
  BY <1>8, OperationUnseen, UnseenStutters
<1>9. ASSUME NEW t \in Threads, EndCommit(t) PROVE [L!Next]_(L!vars)
  BY <1>9, EndCommitRefines DEF L!Next, L!Continue
<1> QED
  BY StepCases, <1>1, <1>2, <1>3, <1>4, <1>5, <1>6, <1>7, <1>8, <1>9

(* How many events there are; module PrimesProofs has the proof. *)
CountFacts ==
  /\ Cardinality({}) = 0
  /\ Cardinality(Events) = Len(Batches)
  /\ \A D \in SUBSET Events :
       /\ Cardinality(D) \in Nat
       /\ \A e \in Events \ D :
            /\ Cardinality(D \cup {e}) = Cardinality(D) + 1
            /\ Cardinality(D) + 1 <= Len(Batches)
            /\ Cardinality(D) + 1 = Len(Batches) => D \cup {e} = Events

(* The event of a pending transaction is in no other hands and not done. *)
LEMMA EventFacts ==
  ASSUME CountFacts, L!IndInv
  PROVE  /\ Done \subseteq Events /\ Cardinality(Done) \in Nat
         /\ \A t \in Threads : Pending(t) =>
              /\ event[t] \in Events \ Done
              /\ \A u \in Threads : Pending(u) /\ event[u] = event[t] => u = t
<1>1. Events = 1 .. Len(Batches) /\ Len(Batches) \in Nat
  BY BatchesAssumption, SMT DEF Events
<1>2. 1 .. created \subseteq Events /\ created \in Nat
  BY <1>1, SMT DEF L!IndInv, L!TypeOK
<1>3. Done \subseteq 1 .. created
  BY DEF L!IndInv, L!QueueInv
<1>4. Cardinality(Done) \in Nat
  BY <1>2, <1>3 DEF CountFacts
<1>5. \A t \in Threads : Pending(t) => LoopLabel[t] = "execute"
  BY DEF Pending, LoopLabel
<1>6. ASSUME NEW t \in Threads, Pending(t)
      PROVE  /\ event[t] \in (1 .. created) \ Done
             /\ \A u \in Threads : Pending(u) /\ event[u] = event[t] => u = t
  <2>1. L!HasEvent(t)
    BY <1>5, <1>6 DEF L!HasEvent
  <2>2. /\ event[t] \in (1 .. created) \ Done
        /\ \A u \in Threads : L!InHand(u, event[t]) => u = t
    BY <2>1 DEF L!IndInv, L!QueueInv
  <2>3. ASSUME NEW u \in Threads, Pending(u), event[u] = event[t] PROVE u = t
    BY <1>5, <2>2, <2>3 DEF L!InHand, L!HasEvent
  <2> QED
    BY <2>2, <2>3
<1> QED
  BY <1>2, <1>3, <1>4, <1>6

(* Every step of the program is one of the transactions, or none. *)
LEMMA StmStep ==
  ASSUME CountFacts, Types, TypeOK, ControlInv, L!IndInv, [Next]_vars
  PROVE  [S!Next]_(S!vars)
<1> USE DEF S!vars, S!mutexes, S!sets, S!history
<1>1. ASSUME UNCHANGED vars PROVE UNCHANGED S!vars
  BY <1>1 DEF vars, stm
<1>2. ASSUME RunScript \/ Join PROVE UNCHANGED S!vars
  BY <1>2 DEF RunScript, Join, Q!Async, Q!CommitScript, Q!Join, stm
<1>3. ASSUME NEW t \in Threads, LockQueue(t) \/ InQueue(t) PROVE UNCHANGED S!vars
  BY <1>3 DEF LockQueue, InQueue, Q!LockQueue, Q!EnterLoop, Q!CountOut,
     Q!TakeEvent, Q!CountIn, Q!LeaveLoop, Q!SpinAgain, Q!DeleteEvent, stm
<1>4. ASSUME NEW t \in Threads, Begin(t) PROVE S!Next
  BY <1>4 DEF Begin, S!Next
<1>5. ASSUME NEW t \in Threads, Adding(t) \/ Committing(t) \/ Commits(t)
      PROVE  S!Next
  BY <1>5 DEF Adding, Committing, Commits, S!Next, S!Execute,
     S!CommitTransaction
<1>6. ASSUME NEW t \in Threads, Redirect(t) PROVE S!Next
  BY <1>6 DEF Redirect, S!Next, S!Execute
<1>7. ASSUME NEW t \in Threads, Load(t) PROVE S!Next
  <2>1. step[t] \in 1 .. 6
    BY <1>7, ProgramFacts, SMT DEF Load, Operation, TypeOK
  <2>2. Program[step[t]][2] \in Fields
    BY <2>1, ProgramFacts DEF Fields
  <2> QED
    BY <1>7, <2>2 DEF Load, S!Next, S!Execute
<1>8. ASSUME NEW t \in Threads, Store(t) PROVE S!Next
  <2> DEFINE f == Program[step[t]][2]
             v == value[t] + Increment(t, f)
  <2>1. step[t] \in 1 .. 6
    BY <1>8, ProgramFacts, SMT DEF Store, Operation, TypeOK
  <2>2. f \in Fields
    BY <2>1, ProgramFacts DEF Fields
  <2>3. pc[t] = "store"
    BY <1>8 DEF Store, S!Store, S!Goto
  <2>4. event[t] \in Events
    BY <2>3, EventFacts DEF Pending, Committed, ControlInv
  <2>5. v \in Nat
    BY <2>4, BatchesAssumption, SMT DEF Increment, TypeOK, Events
  <2>6. S!Store(t, f, v)
    BY <1>8 DEF Store
  <2> HIDE DEF f, v
  <2> QED
    BY <2>2, <2>5, <2>6 DEF S!Next, S!Execute
<1>9. ASSUME NEW t \in Threads, PrintResult(t) PROVE UNCHANGED S!vars
  BY <1>9 DEF PrintResult, stm
<1>10. ASSUME NEW t \in Threads, EndEvent(t) \/ EndCommit(t) PROVE S!Next
  BY <1>10 DEF EndEvent, EndCommit, S!Next, S!CommitTransaction
<1> QED
  BY StepCases, <1>1, <1>2, <1>3, <1>4, <1>5, <1>6, <1>7, <1>8, <1>9, <1>10

-----------------------------------------------------------------------------
(* A step of the loops outside transactions: nothing changes for those who *)
(* are inside.                                                             *)
Outside ==
  /\ UNCHANGED <<stm, aborted, program, handled>>
  /\ loop' \in [Threads -> Q!Labels]
  /\ event' \in [Threads -> Q!Events \cup {Q!NoEvent}]
  /\ \A u \in Threads : /\ loop'[u] = "execute" <=> loop[u] = "execute"
                        /\ loop[u] = "execute" => event'[u] = event[u]
  /\ loop'[Main] # "script" => created' = Len(Batches)

(* The steps in question. *)
LEMMA OutsideSteps ==
  ASSUME TypeOK, ControlInv, L!IndInv,
         \/ RunScript \/ Join
         \/ \E t \in Threads : LockQueue(t) \/ InQueue(t)
  PROVE  Outside
<1> USE DEF Q!Labels, Q!locals, Q!Goto
<1>0. Main \in Threads /\ created \in 0 .. Len(Batches) /\ Len(Batches) \in Nat
  BY ThreadAssumption, BatchesAssumption, SMT DEF L!IndInv, L!TypeOK
<1>1. CASE RunScript
  <2>1. CASE created < Len(Batches)
    <3>1. Q!Async(Main) /\ loop[Main] = "script" /\ UNCHANGED <<stm, program>>
      BY <1>1, <2>1 DEF RunScript
    <3> QED
      BY <3>1 DEF Q!Async, Outside, TypeOK
  <2>2. CASE ~ (created < Len(Batches))
    <3>1. Q!CommitScript /\ UNCHANGED <<stm, program>>
      BY <1>1, <2>2 DEF RunScript
    <3>2. created = Len(Batches)
      BY <1>0, <2>2, SMT
    <3> QED
      BY <1>0, <3>1, <3>2 DEF Q!CommitScript, Outside, TypeOK
  <2> QED
    BY <2>1, <2>2
<1>2. CASE Join
  BY <1>0, <1>2 DEF Join, Q!Join, Outside, TypeOK, ControlInv
<1>3. ASSUME NEW t \in Threads, LockQueue(t) PROVE Outside
  BY <1>0, <1>3 DEF LockQueue, Q!LockQueue, Outside, TypeOK, ControlInv
<1>4. ASSUME NEW t \in Threads, InQueue(t) PROVE Outside
  <2>0. UNCHANGED <<stm, program>>
    BY <1>4 DEF InQueue
  <2>1. CASE Q!EnterLoop(t) \/ Q!CountOut(t)
    BY <1>0, <2>0, <2>1
    DEF Q!EnterLoop, Q!CountOut, Outside, TypeOK, ControlInv
  <2>2. CASE Q!TakeEvent(t)
    <3>1. Head(event_queue) \in Q!Events
      BY <2>2, SMT DEF Q!TakeEvent, L!IndInv, L!TypeOK, L!Events, Q!Events
    <3> QED
      BY <1>0, <2>0, <2>2, <3>1 DEF Q!TakeEvent, Outside, TypeOK, ControlInv
  <2>3. CASE Q!CountIn(t) \/ Q!LeaveLoop(t) \/ Q!SpinAgain(t)
    BY <1>0, <2>0, <2>3
    DEF Q!CountIn, Q!LeaveLoop, Q!SpinAgain, Outside, TypeOK, ControlInv
  <2>4. CASE Q!DeleteEvent(t)
    BY <1>0, <2>0, <2>4 DEF Q!DeleteEvent, Outside, TypeOK, ControlInv
  <2> QED
    BY <1>4, <2>1, <2>2, <2>3, <2>4 DEF InQueue
<1> QED
  BY <1>1, <1>2, <1>3, <1>4

(* All that the invariant says is about those inside. *)
LEMMA OutsideViews ==
  ASSUME Outside
  PROVE  /\ Done' = Done
         /\ \A u \in Threads : /\ Committed(u)' <=> Committed(u)
                               /\ IsDoomed(u)' <=> IsDoomed(u)
                               /\ Pending(u)' <=> Pending(u)
<1>1. \A u \in Threads : /\ Committed(u)' <=> Committed(u)
                         /\ IsDoomed(u)' <=> IsDoomed(u)
  BY DEF Outside, stm, Committed, IsDoomed, S!HasConflicts
<1>2. {u \in Threads : loop[u] = "execute" /\ Committed(u)}' =
      {u \in Threads : loop[u] = "execute" /\ Committed(u)}
  BY <1>1 DEF Outside
<1>3. Done' = Done
  BY <1>2 DEF Done, Outside
<1>4. \A u \in Threads : Pending(u)' <=> Pending(u)
  BY <1>1 DEF Pending, Outside
<1> QED
  BY <1>1, <1>3, <1>4

(* A step leaves thread u alone, except that it may abort it. *)
LeavesAlone(u) ==
  /\ pc'[u] = pc[u] /\ event'[u] = event[u]
  /\ step'[u] = step[u] /\ value'[u] = value[u]
  /\ global_count'[u] = global_count[u]
  /\ reads'[u] = reads[u] /\ written'[u] = written[u]
  /\ read_set'[u] = read_set[u] /\ write_set'[u] = write_set[u]
  /\ copy'[u] = copy[u]
  /\ aborted[u] => aborted'[u]

(* How far an event is only changes by its own steps. *)
LEMMA ProgressKept ==
  ASSUME NEW u \in Threads, LeavesAlone(u), Progress(u) PROVE Progress(u)'
<1> DEFINE p == Word("primes")
           q == Word("processed")
<1>1. p' = p /\ q' = q
  BY DEF Word
<1> HIDE DEF p, q
<1> QED
  BY <1>1, SMT DEF LeavesAlone, Progress, p, q

(* Within an operation only the place in the operation and the sets move. *)
LEMMA ProgressWithin ==
  ASSUME NEW t \in Threads, Progress(t),
         step'[t] = step[t], event'[t] = event[t], value'[t] = value[t],
         global_count'[t] = global_count[t], reads'[t] = reads[t],
         written'[t] = written[t], copy'[t] = copy[t],
         read_set[t] \subseteq read_set'[t], write_set[t] \subseteq write_set'[t],
         pc'[t] \in {"addRead", "load"} => step[t] \in {1, 3, 4, 6},
         pc'[t] \in {"copy", "store"} => step[t] \in {2, 5},
         pc'[t] \in {"run", "addRead", "load", "copy", "store"}
  PROVE  Progress(t)'
<1> DEFINE p == Word("primes")
           q == Word("processed")
<1>1. p' = p /\ q' = q
  BY DEF Word
<1>2. PrintStep' = PrintStep
  BY StepBounds
<1> HIDE DEF p, q
<1> QED
  BY <1>1, <1>2, SMT DEF Progress, p, q

(* A load moves on to the next step. *)
LEMMA ProgressLoad ==
  ASSUME NEW t \in Threads, Progress(t), step[t] \in {1, 3, 4, 6},
         step'[t] = step[t] + 1, pc'[t] = "run", event'[t] = event[t],
         written'[t] = written[t], copy'[t] = copy[t],
         write_set'[t] = write_set[t], Counters \in read_set'[t],
         reads[t] \subseteq reads'[t],
         step[t] = 1 => <<Word("primes"), value'[t]>> \in reads'[t],
         step[t] = 4 => <<Word("processed"), value'[t]>> \in reads'[t],
         step[t] \in {4, 6} => value'[t] = copy[t][Word("processed")],
         global_count'[t] = IF step[t] = 3 THEN copy[t][Word("primes")]
                            ELSE global_count[t]
  PROVE  Progress(t)'
<1> DEFINE p == Word("primes")
           q == Word("processed")
<1>1. p' = p /\ q' = q
  BY DEF Word
<1> HIDE DEF p, q
<1>2. CASE step[t] = 1
  BY <1>1, <1>2, StepBounds, SMT DEF Progress, p, q
<1>3. CASE step[t] = 3
  BY <1>1, <1>3, StepBounds, SMT DEF Progress, p, q
<1>4. CASE step[t] = 4
  BY <1>1, <1>4, StepBounds, SMT DEF Progress, p, q
<1>5. CASE step[t] = 6
  BY <1>1, <1>5, StepBounds, SMT DEF Progress, p, q
<1> QED
  BY <1>2, <1>3, <1>4, <1>5

(* From the first store on the counters are in both sets. *)
LEMMA InSets ==
  ASSUME NEW t \in Threads, Progress(t)
  PROVE  /\ step[t] \in {2, 3, 4, 5, 6, 7, 8} => Counters \in read_set[t]
         /\ step[t] \in {3, 4, 5, 6, 7, 8} => Counters \in write_set[t]
BY SMT DEF Progress

(* Steps outside transactions keep the invariant. *)
LEMMA OutsidePreserves ==
  ASSUME Outside, TypeOK, ControlInv, ProgressInv, SumsInv, ReckoningInv, PrintInv
  PROVE  /\ TypeOK' /\ ControlInv' /\ ProgressInv' /\ SumsInv' /\ ReckoningInv'
         /\ PrintInv'
<1> USE OutsideViews DEF stm, program
<1>1. TypeOK'
  BY DEF Outside, TypeOK
<1>2. ControlInv'
  BY DEF Outside, ControlInv
<1>3. \A t \in Threads : event'[t] = event[t] => LeavesAlone(t)
  BY DEF Outside, LeavesAlone
<1>4. ProgressInv'
  BY <1>3, ProgressKept DEF Outside, ProgressInv
<1>5. SumsInv'
  BY DEF Outside, SumsInv, Publishing
<1>6. ReckoningInv'
  BY DEF Outside, ReckoningInv, Arrives, Reckoning
<1>7. PrintInv'
  BY DEF Outside, PrintInv, Last, Reckoning
<1> QED
  BY <1>1, <1>2, <1>4, <1>5, <1>6, <1>7

-----------------------------------------------------------------------------
(* What the invariant of module STM says of one transaction: where its     *)
(* operation stands, and that as long as it is not aborted what it knows   *)
(* of the counters is what the heap holds.                                 *)
LocalFacts(t) ==
  /\ obj[t] = Counters
  /\ \A f \in Fields : /\ heap[Word(f)] \in Nat
                       /\ Counters \in write_set[t] => copy[t][Word(f)] \in Nat
  /\ \A r \in reads[t] : r = <<r[1], r[2]>> /\ r[2] \in Nat
  /\ pc[t] = "addRead" => Counters \notin read_set[t] \cup write_set[t]
  /\ pc[t] = "load" => Counters \in read_set[t] \cup write_set[t]
  /\ pc[t] = "store" => Counters \in write_set[t]
  /\ pc[t] = "copy" => Counters \notin write_set[t]
  /\ write_set[t] \subseteq read_set[t]

Current(t) ==
  \A f \in Fields :
    /\ \A r \in reads[t] : r[1] = Word(f) => r[2] = heap[Word(f)]
    /\ Counters \in write_set[t] /\ Word(f) \notin written[t] =>
         copy[t][Word(f)] = heap[Word(f)]

(* ... from the conjuncts of its IndInv. *)
LEMMA StmLocal ==
  ASSUME S!IndInv, NEW t \in Threads
  PROVE  /\ LocalFacts(t)
         /\ S!Active(t) /\ ~ aborted[t] /\ Counters \in read_set[t] => Current(t)
<1>1. \A f \in Fields : Word(f) \in S!Words /\ Word(f)[1] = Counters
  BY DEF Word, S!Words
<1>2. obj[t] = Counters
  BY DEF S!IndInv, S!TypeOK
<1>3. \A f \in Fields : heap[Word(f)] \in Nat
  BY <1>1 DEF S!IndInv, S!TypeOK
<1>4. \A f \in Fields : Counters \in write_set[t] => copy[t][Word(f)] \in Nat
  BY <1>1 DEF S!IndInv, S!SetsInv
<1>5. \A r \in reads[t] : /\ r = <<r[1], r[2]>> /\ r[1] \in S!Words
                          /\ r[2] \in Nat
  BY SMT DEF S!IndInv, S!TypeOK
<1>6. S!OperationOK(t)
  BY DEF S!IndInv, S!OperationInv
<1>7. /\ pc[t] = "addRead" => Counters \notin read_set[t] \cup write_set[t]
      /\ pc[t] = "load" => Counters \in read_set[t] \cup write_set[t]
      /\ pc[t] = "store" => Counters \in write_set[t]
      /\ pc[t] = "copy" => Counters \notin write_set[t]
  BY <1>2, <1>6 DEF S!OperationOK
<1>8. write_set[t] \subseteq read_set[t]
  BY DEF S!IndInv, S!StoresFollowLoads
<1>9. LocalFacts(t)
  BY <1>2, <1>3, <1>4, <1>5, <1>7, <1>8 DEF LocalFacts
<1>10. ASSUME S!Active(t), ~ aborted[t], Counters \in read_set[t]
       PROVE  Current(t)
  <2>1. \A w \in S!Words : w[1] \in read_set[t] => S!WordIsCurrent(t, w)
    BY <1>10 DEF S!IndInv, S!LoadedIsCurrent
  <2>2. \A f \in Fields : S!WordIsCurrent(t, Word(f))
    BY <1>1, <1>10, <2>1
  <2>3. ASSUME NEW f \in Fields, NEW r \in reads[t], r[1] = Word(f)
        PROVE  r[2] = heap[Word(f)]
    <3>1. <<Word(f), r[2]>> \in reads[t] /\ r[2] \in Nat
      BY <1>5, <2>3
    <3> QED
      BY <2>2, <3>1 DEF S!WordIsCurrent
  <2>4. ASSUME NEW f \in Fields, Counters \in write_set[t],
               Word(f) \notin written[t]
        PROVE  copy[t][Word(f)] = heap[Word(f)]
    BY <1>1, <2>2, <2>4 DEF S!WordIsCurrent
  <2> QED
    BY <2>3, <2>4 DEF Current
<1> QED
  BY <1>9, <1>10

(* The counters of a transaction that is not aborted are one batch ahead   *)
(* of the heap's.                                                          *)
LEMMA OneAhead ==
  ASSUME S!IndInv, NEW t \in Threads, Progress(t), S!Active(t), ~ aborted[t],
         step[t] \in 3 .. LastStep
  PROVE  /\ copy[t][Word("primes")] = heap[Word("primes")] + Batches[event[t]]
         /\ Reckoning(t) = heap[Word("processed")] + 1
         /\ heap[Word("primes")] \in Nat /\ heap[Word("processed")] \in Nat
<1> USE DEF Fields
<1>1. LastStep = 8
  BY ProgramFacts
<1>2. Counters \in read_set[t] /\ Counters \in write_set[t]
  BY <1>1, SMT DEF Progress
<1>3. Current(t) /\ LocalFacts(t)
  BY <1>2, StmLocal
<1>4. copy[t][Word("primes")] = heap[Word("primes")] + Batches[event[t]]
  <2>1. PICK r \in reads[t] :
          /\ r[1] = Word("primes")
          /\ copy[t][Word("primes")] = r[2] + Batches[event[t]]
    BY <1>1, SMT DEF Progress
  <2> QED
    BY <1>3, <2>1 DEF Current
<1>5. CASE step[t] <= 5
  <2>1. Word("processed") \notin written[t]
    BY <1>5 DEF Progress
  <2> QED
    BY <1>2, <1>3, <1>4, <1>5, <2>1 DEF Current, LocalFacts, Reckoning
<1>6. CASE step[t] >= 6
  <2>1. PICK r \in reads[t] :
          /\ r[1] = Word("processed")
          /\ copy[t][Word("processed")] = r[2] + 1
    BY <1>6 DEF Progress
  <2>2. r[2] = heap[Word("processed")]
    BY <1>3, <2>1 DEF Current
  <2>3. ~ (step[t] <= 5)
    BY <1>1, <1>6, SMT
  <2> QED
    BY <1>3, <1>4, <2>1, <2>2, <2>3, SMT DEF LocalFacts, Reckoning
<1> QED
  BY <1>1, <1>5, <1>6, SMT

-----------------------------------------------------------------------------
(* The conjuncts of ReckoningInv and PrintInv that speak of one thread. *)
ReckoningOK(t) ==
  Pending(t) /\ Arrives(t) =>
    /\ Reckoning(t) <= Cardinality(Done) + 1
    /\ IsDoomed(t) => Reckoning(t) <= Cardinality(Done)

Told(t) ==
  Pending(t) /\ step[t] = LastStep /\ Reckoning(t) >= Len(Batches) =>
    printed # << >>

(* What the invariant says of a thread that a step leaves alone, as long   *)
(* as no event is committed by it.                                         *)
LEMMA OthersKept ==
  ASSUME NEW u \in Threads, LeavesAlone(u), Done' = Done,
         Pending(u)' <=> Pending(u), IsDoomed(u)' <=> IsDoomed(u)
  PROVE  /\ ReckoningOK(u) => ReckoningOK(u)'
         /\ Told(u) /\ printed' = printed => Told(u)'
         /\ Last(u) => Last(u)'
<1>1. /\ Arrives(u)' <=> Arrives(u)
      /\ Reckoning(u)' = Reckoning(u) /\ step'[u] = step[u]
  BY DEF LeavesAlone, Arrives, Reckoning, Word
<1>2. ReckoningOK(u) => ReckoningOK(u)'
  BY <1>1 DEF ReckoningOK
<1>3. Told(u) /\ printed' = printed => Told(u)'
  BY <1>1 DEF Told, LastStep, PrintStep, Program
<1>4. Last(u) => Last(u)'
  BY <1>1 DEF Last, LastStep, PrintStep, Program
<1> QED
  BY <1>2, <1>3, <1>4

(* For an unseen step of thread t it is enough to look at t. *)
LEMMA UnseenFrame ==
  ASSUME TypeOK, ControlInv, ProgressInv, ReckoningInv, PrintInv, Unseen,
         NEW t \in Threads, \A u \in Threads \ {t} : LeavesAlone(u),
         pc[t] # "none", pc'[t] # "none", Progress(t)', ReckoningOK(t)', Told(t)',
         step[t] = LastStep => step'[t] = LastStep
  PROVE  /\ ControlInv' /\ ProgressInv' /\ ReckoningInv'
         /\ printed' = printed => PrintInv'
<1>1. Done' = Done /\ loop' = loop /\ created' = created
  BY SameViews DEF Unseen, queue
<1>2. \A u \in Threads : /\ Pending(u)' <=> Pending(u)
                         /\ IsDoomed(u)' <=> IsDoomed(u)
  BY <1>1 DEF Unseen, Pending
<1>3. ControlInv'
  BY <1>1 DEF ControlInv, LeavesAlone
<1>4. ProgressInv'
  BY <1>1, ProgressKept DEF ProgressInv
<1>5. \A u \in Threads : ReckoningOK(u) /\ Told(u)
  BY DEF ReckoningInv, ReckoningOK, PrintInv, Told
<1>6. \A u \in Threads : ReckoningOK(u)'
  BY <1>1, <1>2, <1>5, OthersKept
<1>7. ReckoningInv'
  BY <1>6 DEF ReckoningInv, ReckoningOK
<1>8. ASSUME printed' = printed PROVE PrintInv'
  <2>1. \A u \in Threads : Told(u)'
    BY <1>1, <1>2, <1>5, <1>8, OthersKept
  <2>2. Last(t) => Last(t)'
    BY <1>1, <1>2 DEF Last
  <2>3. \A u \in Threads : Last(u) => Last(u)'
    BY <1>1, <1>2, <2>2, OthersKept
  <2> QED
    BY <1>1, <1>8, <2>1, <2>3 DEF PrintInv, Told
<1> QED
  BY <1>3, <1>4, <1>7, <1>8

(* Nothing that the counters' sums look at changes. *)
LEMMA SumsKept ==
  ASSUME SumsInv, Done' = Done, heap' = heap,
         \A u \in Threads : /\ Publishing(u)' <=> Publishing(u)
                            /\ Publishing(u) => /\ pc'[u] = pc[u]
                                                /\ copy'[u] = copy[u]
                                                /\ todo'[u] = todo[u]
  PROVE  SumsInv'
<1>1. ASSUME NEW u \in Threads, Publishing(u)'
      PROVE  /\ copy'[u][Word("primes")] = SumOver(Done)
             /\ copy'[u][Word("processed")] = Cardinality(Done)
             /\ pc'[u] = "heap" => \A f \in Fields :
                  Word(f) \in todo'[u] \/ heap'[Word(f)] = copy'[u][Word(f)]
  BY <1>1 DEF SumsInv
<1>2. ASSUME \A t \in Threads : ~ Publishing(t)'
      PROVE  /\ heap[Word("primes")] = SumOver(Done)
             /\ heap[Word("processed")] = Cardinality(Done)
  BY <1>2 DEF SumsInv
<1> QED
  BY <1>1, <1>2 DEF SumsInv

(* The steps of a commit that change neither heap nor private copies. *)
Walking(t) ==
  /\ UNCHANGED <<queue, program, heap, copy, reads, written, read_set, write_set>>
  /\ \E to \in S!Labels : pc' = [pc EXCEPT ![t] = to]
  /\ pc[t] \in {"commit", "list", "lock", "conflict"}
  /\ pc'[t] \in {"list", "lock", "conflict", "remove"}
  /\ pc[t] = "conflict" <=> pc'[t] = "conflict"
  /\ \A u \in Threads : aborted[u] => aborted'[u]
  /\ todo' = todo

(* They keep the invariant. *)
LEMMA WalkingPreserves ==
  ASSUME Types, TypeOK, ControlInv, ProgressInv, SumsInv, ReckoningInv, PrintInv,
         Unseen, NEW t \in Threads, Walking(t)
  PROVE  /\ TypeOK' /\ ControlInv' /\ ProgressInv' /\ SumsInv' /\ ReckoningInv'
         /\ PrintInv'
<1>1. \A u \in Threads \ {t} : LeavesAlone(u)
  BY DEF Walking, LeavesAlone, queue, program, Types
<1>2. TypeOK'
  BY DEF TypeOK, Walking, queue, program
<1>3. Done' = Done
  BY SameViews DEF Unseen
<1>4. \A u \in Threads : Publishing(u)' <=> Publishing(u)
  BY DEF Walking, Publishing, Types
<1>5. \A u \in Threads : Publishing(u) => pc'[u] = pc[u]
  BY DEF Walking, Publishing, Types
<1>6. SumsInv'
  BY <1>3, <1>4, <1>5, SumsKept DEF Walking
<1>7. Progress(t)
  BY DEF ProgressInv, Walking, ControlInv
<1>8. step'[t] = step[t] /\ printed' = printed
  BY DEF Walking, program
<1>9. Progress(t)'
  <2>1. aborted[t] \/ step[t] = LastStep
    BY <1>7 DEF Progress, Walking
  <2>2. aborted'[t] \/ step'[t] = LastStep
    BY <1>8, <2>1 DEF Walking
  <2> QED
    BY <1>7, <1>8, <2>2, SMT DEF Progress, Walking, queue, program, Word
<1>10. /\ Pending(t)' <=> Pending(t)
       /\ IsDoomed(t)' <=> IsDoomed(t)
       /\ Arrives(t)' => Arrives(t)
       /\ Reckoning(t)' = Reckoning(t)
  BY <1>8 DEF Unseen, Pending, queue, Arrives, Reckoning, Walking, Word
<1>11. ReckoningOK(t)'
  BY <1>3, <1>10 DEF ReckoningOK, ReckoningInv
<1>12. Told(t)'
  BY <1>8, <1>10 DEF Told, PrintInv
<1> QED
  BY <1>1, <1>2, <1>6, <1>8, <1>9, <1>11, <1>12, UnseenFrame DEF Walking

-----------------------------------------------------------------------------
(* The loops of CommitTransaction over the transactions. *)
LEMMA LoopsWalk ==
  ASSUME Types, NEW t \in Threads, UNCHANGED <<queue, program>>,
         \/ S!LockCommit(t) \/ S!LockTransactions(t)
         \/ \E u \in Threads : S!LockTransaction(t, u) \/ S!AbortConflicting(t, u)
  PROVE  Walking(t)
<1> USE DEF S!Goto, S!sets, S!history, S!Labels
<1>1. CASE S!LockCommit(t)
  BY <1>1 DEF S!LockCommit, Walking, Types
<1>2. CASE S!LockTransactions(t)
  BY <1>2 DEF S!LockTransactions, Walking, Types
<1>3. ASSUME NEW u \in Threads, S!LockTransaction(t, u) PROVE Walking(t)
  <2>1. pc' = [pc EXCEPT ![t] = "lock"] /\ pc[t] = "lock"
    BY <1>3 DEF S!LockTransaction, Types
  <2> QED
    BY <1>3, <2>1 DEF S!LockTransaction, Walking, Types
<1>4. ASSUME NEW u \in Threads, S!AbortConflicting(t, u) PROVE Walking(t)
  <2>1. pc' = [pc EXCEPT ![t] = "conflict"] /\ pc[t] = "conflict"
    BY <1>4 DEF S!AbortConflicting, Types
  <2>2. \A x \in Threads : aborted[x] => aborted'[x]
    BY <1>4 DEF S!AbortConflicting, Types
  <2> QED
    BY <1>4, <2>1, <2>2 DEF S!AbortConflicting, Walking, Types
<1> QED
  BY <1>1, <1>2, <1>3, <1>4

(* A private copy is made before the first store; what it holds matters    *)
(* later.                                                                  *)
LEMMA CopyWordPreserves ==
  ASSUME S!IndInv, Types, ProgramInv, Unseen, NEW t \in Threads,
         NEW w \in S!Words, S!CopyWord(t, w), UNCHANGED program
  PROVE  ProgramInv'
<1> USE DEF ProgramInv
<1>1. /\ pc[t] = "copy" /\ pc' = pc /\ heap' = heap /\ aborted' = aborted
      /\ copy' = [copy EXCEPT ![t] = [copy[t] EXCEPT ![w] = heap[w]]]
      /\ todo' = [todo EXCEPT ![t] = @ \ {w}]
      /\ UNCHANGED <<reads, written, read_set, write_set, program, queue>>
  BY DEF S!CopyWord, S!Goto, S!sets, S!history, Types, Unseen
<1>2. \A u \in Threads \ {t} : LeavesAlone(u)
  BY <1>1 DEF LeavesAlone, queue, program, S!IndInv, S!TypeOK
<1>3. TypeOK'
  BY <1>1 DEF TypeOK, queue, program
<1>4. Done' = Done
  BY SameViews DEF Unseen
<1>5. SumsInv'
  <2>1. \A u \in Threads : /\ Publishing(u)' <=> Publishing(u)
                           /\ Publishing(u) => u # t
    BY <1>1 DEF Publishing
  <2>2. \A u \in Threads : Publishing(u) => /\ pc'[u] = pc[u]
                                            /\ copy'[u] = copy[u]
                                            /\ todo'[u] = todo[u]
    BY <1>1, <2>1 DEF S!IndInv, S!TypeOK
  <2> QED
    BY <1>1, <1>4, <2>1, <2>2, SumsKept
<1>6. Progress(t)
  BY <1>1 DEF ProgressInv, ControlInv
<1>7. step[t] = 2
  <2>1. Counters \notin write_set[t]
    BY <1>1, StmLocal DEF LocalFacts
  <2> QED
    BY <1>1, <1>6, <2>1, InSets DEF Progress
<1>8. step'[t] = 2 /\ pc'[t] = "copy" /\ printed' = printed
  BY <1>1, <1>7 DEF program
<1>9. Progress(t)'
  BY <1>1, <1>6, <1>7, <1>8, StepBounds, SMT DEF Progress, program, Word
<1>10. ReckoningOK(t)' /\ Told(t)'
  BY <1>8, StepBounds, SMT DEF ReckoningOK, Arrives, Told
<1> QED
  BY <1>1, <1>2, <1>3, <1>5, <1>7, <1>8, <1>9, <1>10, UnseenFrame, StepBounds

(* CommitHeap puts the private copies back.                                *)
LEMMA CommitHeapPreserves ==
  ASSUME S!IndInv, Types, Exclusive, ProgramInv, Unseen, NEW t \in Threads,
         UNCHANGED program,
         \/ S!BeginCommitHeap(t) \/ S!UnlockTransactions(t)
         \/ \E w \in S!Words : S!CommitWord(t, w)
  PROVE  ProgramInv'
<1> USE DEF ProgramInv
<1>1. /\ pc[t] \in {"conflict", "heap"} /\ pc'[t] \in {"heap", "remove"}
      /\ \A u \in Threads \ {t} : pc'[u] = pc[u]
      /\ UNCHANGED <<aborted, copy, reads, written, read_set, write_set, program,
                     queue>>
  BY DEF S!BeginCommitHeap, S!UnlockTransactions, S!CommitWord, S!Goto, S!sets,
     S!history, Types, Unseen
<1>2. \A u \in Threads \ {t} : LeavesAlone(u)
  BY <1>1 DEF LeavesAlone, queue, program
<1>3. TypeOK'
  BY <1>1 DEF TypeOK, queue, program
<1>4. Done' = Done /\ loop' = loop
  BY SameViews DEF Unseen, queue
<1>5. Progress(t) /\ loop[t] = "execute"
  BY <1>1 DEF ProgressInv, ControlInv
<1>6. ~ aborted[t] /\ step[t] = LastStep /\ Committed(t)
  BY <1>1, <1>5 DEF Exclusive, Progress, Committed
<1>7. step'[t] = step[t] /\ printed' = printed
  BY <1>1 DEF program
<1>8. Progress(t)'
  BY <1>1, <1>5, <1>6, <1>7, StepBounds DEF Progress, queue, program, Word
<1>9. ReckoningOK(t)' /\ Told(t)'
  BY <1>6 DEF ReckoningOK, Told, Pending, Unseen
<1>10. \A u \in Threads : Publishing(u) => u = t
  BY <1>1 DEF Publishing, Exclusive
<1>11. SumsInv'
  <2>1. /\ copy[t][Word("primes")] = SumOver(Done)
        /\ copy[t][Word("processed")] = Cardinality(Done)
        /\ pc[t] = "heap" => \A f \in Fields :
             Word(f) \in todo[t] \/ heap[Word(f)] = copy[t][Word(f)]
    BY <1>1 DEF SumsInv, Publishing
  <2>2. \A f \in Fields : Word(f) \in S!Words /\ Word(f)' = Word(f)
    BY DEF Word, S!Words
  <2>3. \A u \in Threads \ {t} : ~ Publishing(u)'
    BY <1>1, <1>10 DEF Publishing
  <2>4. CASE S!BeginCommitHeap(t)
    <3>1. Counters \in write_set[t]
      BY <1>5, <1>6, StepBounds, InSets
    <3>2. /\ pc'[t] = "heap" /\ todo'[t] = write_set[t] \X Fields
          /\ heap' = heap
      BY <2>4 DEF S!BeginCommitHeap, S!Goto, Types, S!IndInv, S!TypeOK
    <3>3. \A f \in Fields : Word(f) \in todo'[t]
      BY <3>1, <3>2 DEF Word
    <3>4. Publishing(t)'
      BY <3>2 DEF Publishing
    <3> QED
      BY <1>1, <1>4, <2>1, <2>3, <3>3, <3>4 DEF SumsInv, Word
  <2>5. ASSUME NEW w \in S!Words, S!CommitWord(t, w) PROVE SumsInv'
    <3>1. /\ pc[t] = "heap" /\ pc'[t] = "heap"
          /\ heap' = [heap EXCEPT ![w] = copy[t][w]]
          /\ todo' = [todo EXCEPT ![t] = @ \ {w}]
          /\ heap \in [S!Words -> Nat] /\ todo \in [Threads -> SUBSET S!Words]
      BY <2>5 DEF S!CommitWord, S!Goto, S!IndInv, S!TypeOK, Types
    <3>2. ASSUME NEW f \in Fields
          PROVE  Word(f) \in todo'[t] \/ heap'[Word(f)] = copy[t][Word(f)]
      BY <2>1, <2>2, <3>1
    <3>3. Publishing(t)'
      BY <3>1 DEF Publishing
    <3> QED
      BY <1>1, <1>4, <2>1, <2>3, <3>2, <3>3 DEF SumsInv, Word
  <2>6. CASE S!UnlockTransactions(t)
    <3>1. pc[t] = "heap" /\ pc'[t] = "remove" /\ todo[t] = {} /\ heap' = heap
      BY <2>6 DEF S!UnlockTransactions, S!Goto, Types
    <3>2. \A u \in Threads : ~ Publishing(u)'
      BY <2>3, <3>1 DEF Publishing
    <3>3. \A f \in Fields : heap[Word(f)] = copy[t][Word(f)]
      BY <2>1, <3>1
    <3> QED
      BY <1>4, <2>1, <3>1, <3>2, <3>3 DEF SumsInv, Word, Fields
  <2> QED
    BY <2>4, <2>5, <2>6
<1> QED
  BY <1>1, <1>2, <1>3, <1>7, <1>8, <1>9, <1>11, UnseenFrame

-----------------------------------------------------------------------------
(* A pending transaction that has loaded a counter and is not aborted sees *)
(* the sums of all committed events, unless a commit in its second loop is *)
(* about to abort it: then it sees those before that commit.               *)
LEMMA SeesSums ==
  ASSUME S!IndInv, Types, Exclusive, ProgramInv, NEW t \in Threads,
         Pending(t), ~ aborted[t], Counters \in read_set[t]
  PROVE  /\ IsDoomed(t) => heap[Word("processed")] + 1 = Cardinality(Done)
         /\ ~ IsDoomed(t) => /\ heap[Word("primes")] = SumOver(Done)
                             /\ heap[Word("processed")] = Cardinality(Done)
<1> USE DEF ProgramInv
<1>1. CASE \A u \in Threads : ~ Publishing(u)
  <2>1. ~ IsDoomed(t)
    BY <1>1 DEF IsDoomed, Publishing
  <2> QED
    BY <1>1, <2>1 DEF SumsInv
<1>2. ASSUME NEW u \in Threads, Publishing(u)
      PROVE  IsDoomed(t) /\ heap[Word("processed")] + 1 = Cardinality(Done)
  <2>1. pc[u] \in {"conflict", "heap"} /\ loop[u] = "execute" /\ ~ aborted[u]
    BY <1>2 DEF Publishing, ControlInv, Exclusive
  <2>2. Progress(u)
    BY <2>1 DEF ProgressInv
  <2>3. step[u] = LastStep /\ LastStep = 8
    BY <2>1, <2>2, StepBounds DEF Progress
  <2>4. Counters \in write_set[u]
    BY <2>2, <2>3, InSets
  <2>5. S!HasConflicts(t, u)
    BY <2>4 DEF S!HasConflicts
  <2>6. t \in transactions \ {u}
    BY <2>1 DEF Types, Pending, Committed, ControlInv
  <2>7. pc[u] = "conflict" /\ t \in visit
    BY <2>1, <2>5, <2>6 DEF S!IndInv, S!ConflictsAborted
  <2>8. IsDoomed(t)
    BY <2>5, <2>7 DEF IsDoomed
  <2>9. Reckoning(u) = heap[Word("processed")] + 1
    BY <2>1, <2>2, <2>3, <2>7, OneAhead, SMT DEF S!Active
  <2>10. Reckoning(u) = copy[u][Word("processed")]
    <3>1. copy[u][Word("processed")] \in Nat
      BY <2>4, StmLocal DEF LocalFacts, Fields
    <3> QED
      BY <2>3, <3>1, SMT DEF Reckoning
  <2>11. copy[u][Word("processed")] = Cardinality(Done)
    BY <1>2 DEF SumsInv
  <2> QED
    BY <2>8, <2>9, <2>10, <2>11
<1> QED
  BY <1>1, <1>2

(* AddRead is for the first load only, AddWrite for the first store. *)
LEMMA AddingPreserves ==
  ASSUME S!IndInv, Types, ProgramInv, Unseen, NEW t \in Threads, Adding(t)
  PROVE  ProgramInv'
<1> USE DEF ProgramInv
<1>1. /\ \/ pc[t] = "addRead" /\ pc'[t] = "load"
         \/ pc[t] = "copy" /\ pc'[t] = "store"
      /\ \A u \in Threads \ {t} : /\ pc'[u] = pc[u]
                                  /\ read_set'[u] = read_set[u]
                                  /\ write_set'[u] = write_set[u]
      /\ read_set[t] \subseteq read_set'[t] /\ write_set[t] \subseteq write_set'[t]
      /\ UNCHANGED <<aborted, copy, reads, written, program, queue, heap, todo>>
  BY DEF Adding, S!AddRead, S!AddWrite, S!Goto, S!history, Types
<1>2. \A u \in Threads \ {t} : LeavesAlone(u)
  BY <1>1 DEF LeavesAlone, queue, program
<1>3. TypeOK'
  BY <1>1 DEF TypeOK, queue, program
<1>4. Done' = Done
  BY SameViews DEF Unseen
<1>5. SumsInv'
  <2>1. \A u \in Threads : /\ Publishing(u)' <=> Publishing(u)
                           /\ Publishing(u) => pc'[u] = pc[u]
    BY <1>1 DEF Publishing
  <2> QED
    BY <1>1, <1>4, <2>1, SumsKept
<1>6. Progress(t)
  BY <1>1 DEF ProgressInv, ControlInv
<1>7. step[t] \in {1, 2} /\ (pc[t] = "addRead" <=> step[t] = 1)
  <2>1. CASE pc[t] = "addRead"
    <3>1. Counters \notin read_set[t]
      BY <2>1, StmLocal DEF LocalFacts
    <3> QED
      BY <1>6, <2>1, <3>1, InSets DEF Progress
  <2>2. CASE pc[t] = "copy"
    <3>1. Counters \notin write_set[t]
      BY <2>2, StmLocal DEF LocalFacts
    <3> QED
      BY <1>6, <2>2, <3>1, InSets DEF Progress
  <2> QED
    BY <1>1, <2>1, <2>2
<1>8. step'[t] = step[t] /\ printed' = printed
  BY <1>1 DEF program
<1>9. Progress(t)'
  <2>1. /\ pc'[t] \in {"addRead", "load"} => step[t] \in {1, 3, 4, 6}
        /\ pc'[t] \in {"copy", "store"} => step[t] \in {2, 5}
        /\ pc'[t] \in {"run", "addRead", "load", "copy", "store"}
    BY <1>1, <1>6 DEF Progress
  <2> QED
    BY <1>1, <1>6, <1>8, <2>1, ProgressWithin DEF queue, program
<1>10. ReckoningOK(t)' /\ Told(t)'
  BY <1>7, <1>8, StepBounds, SMT DEF ReckoningOK, Arrives, Told
<1> QED
  BY <1>1, <1>2, <1>3, <1>5, <1>7, <1>8, <1>9, <1>10, UnseenFrame, StepBounds

(* A redirected operation begins.  The first after the private copy is     *)
(* made finds aborted_ false only if the copy is current.                  *)
LEMMA RedirectPreserves ==
  ASSUME S!IndInv, Types, Exclusive, ProgramInv, Unseen, NEW t \in Threads,
         Redirect(t)
  PROVE  ProgramInv'
<1> USE DEF ProgramInv
<1>1. /\ pc[t] = "run" /\ ~ aborted[t]
      /\ pc' = [pc EXCEPT ![t] = pc'[t]]
      /\ \/ Operation(t, "load") /\ pc'[t] \in {"load", "addRead"}
         \/ Operation(t, "store") /\ pc'[t] \in {"store", "copy"}
      /\ \A u \in Threads \ {t} : pc'[u] = pc[u] /\ todo'[u] = todo[u]
      /\ UNCHANGED <<aborted, copy, reads, written, program, queue, heap,
                     read_set, write_set>>
  BY DEF Redirect, S!RedirectLoad, S!RedirectStore, S!Goto, S!history, S!sets,
     Types, S!IndInv, S!TypeOK
<1>2. \A u \in Threads \ {t} : LeavesAlone(u)
  BY <1>1 DEF LeavesAlone, queue, program
<1>3. TypeOK'
  BY <1>1 DEF TypeOK, queue, program
<1>4. Done' = Done /\ loop' = loop
  BY SameViews DEF Unseen, queue
<1>5. SumsInv'
  <2>1. \A u \in Threads : /\ Publishing(u)' <=> Publishing(u)
                           /\ Publishing(u) => u # t
    BY <1>1 DEF Publishing
  <2> QED
    BY <1>1, <1>4, <2>1, SumsKept
<1>6. Progress(t) /\ loop[t] = "execute"
  BY <1>1 DEF ProgressInv, ControlInv
<1>7. step'[t] = step[t] /\ printed' = printed
  BY <1>1 DEF program
<1>8. /\ step[t] \in 1 .. 6
      /\ pc'[t] \in {"load", "addRead"} => step[t] \in {1, 3, 4, 6}
      /\ pc'[t] \in {"store", "copy"} => step[t] \in {2, 5}
  <2>0. step[t] \in 1 .. 8 /\ step[t] < 7
    BY <1>1, StepBounds DEF Operation, TypeOK
  <2>1. step[t] \in 1 .. 6
    BY <2>0, SMT
  <2> QED
    BY <1>1, <2>1, ProgramFacts DEF Operation
<1>9. Progress(t)'
  <2>1. /\ pc'[t] \in {"run", "addRead", "load", "copy", "store"}
        /\ pc'[t] \notin {"none", "commit", "conflict", "heap", "remove"}
    BY <1>1
  <2> QED
    BY <1>1, <1>6, <1>7, <1>8, <2>1, ProgressWithin DEF queue, program
<1>10. Told(t)'
  BY <1>7, <1>8, StepBounds, SMT DEF Told
<1>11. ReckoningOK(t)'
  <2>1. /\ Pending(t)' <=> Pending(t)
        /\ IsDoomed(t)' <=> IsDoomed(t)
        /\ Reckoning(t)' = Reckoning(t)
    BY <1>1, <1>4, <1>7 DEF Unseen, Pending, Reckoning, Word
  <2>2. CASE step[t] # 3
    <3>1. Arrives(t)' => Arrives(t)
      BY <1>7, <2>2 DEF Arrives
    <3> QED
      BY <1>4, <2>1, <3>1 DEF ReckoningOK, ReckoningInv
  <2>3. CASE step[t] = 3
    <3>1. Pending(t) /\ S!Active(t)
      BY <1>1, <1>6 DEF Pending, Committed, S!Active
    <3>2. Counters \in read_set[t]
      BY <1>6, <2>3, InSets
    <3>3. Reckoning(t) = heap[Word("processed")] + 1
          /\ heap[Word("processed")] \in Nat
      BY <1>1, <1>6, <2>3, <3>1, OneAhead, StepBounds, SMT
    <3>4. /\ Reckoning(t) <= Cardinality(Done) + 1
          /\ IsDoomed(t) => Reckoning(t) <= Cardinality(Done)
      BY <1>1, <3>1, <3>2, <3>3, SeesSums, SMT
    <3> QED
      BY <1>4, <2>1, <3>4 DEF ReckoningOK
  <2> QED
    BY <2>2, <2>3
<1> QED
  BY <1>1, <1>2, <1>3, <1>5, <1>7, <1>8, <1>9, <1>10, <1>11, UnseenFrame,
     StepBounds

(* The event ends when it is through or finds itself aborted. *)
LEMMA EndEventPreserves ==
  ASSUME Types, ProgramInv, Unseen, NEW t \in Threads, EndEvent(t)
  PROVE  ProgramInv'
<1> USE DEF ProgramInv
<1>1. /\ pc[t] = "run" /\ pc'[t] = "commit"
      /\ step[t] = LastStep \/ aborted[t]
      /\ \A u \in Threads \ {t} : pc'[u] = pc[u]
      /\ UNCHANGED <<copy, reads, written, program, queue, heap, read_set,
                     write_set, todo>>
  BY DEF EndEvent, S!EndEvent, S!Goto, S!history, S!sets, Types
<1>2. aborted' = aborted
  BY SMT DEF EndEvent, S!EndEvent, Types
<1>3. \A u \in Threads \ {t} : LeavesAlone(u)
  BY <1>1, <1>2 DEF LeavesAlone, queue, program
<1>4. TypeOK'
  BY <1>1 DEF TypeOK, queue, program
<1>5. Done' = Done /\ loop' = loop
  BY SameViews DEF Unseen, queue
<1>6. SumsInv'
  <2>1. \A u \in Threads : /\ Publishing(u)' <=> Publishing(u)
                           /\ Publishing(u) => u # t
    BY <1>1 DEF Publishing
  <2> QED
    BY <1>1, <1>5, <2>1, SumsKept
<1>7. Progress(t)
  BY <1>1 DEF ProgressInv, ControlInv
<1>8. step'[t] = step[t] /\ printed' = printed
  BY <1>1 DEF program
<1>9. Progress(t)'
  BY <1>1, <1>2, <1>7, <1>8 DEF Progress, queue, program, Word
<1>10. /\ Pending(t)' <=> Pending(t)
       /\ IsDoomed(t)' <=> IsDoomed(t)
       /\ Arrives(t)' => Arrives(t)
       /\ Reckoning(t)' = Reckoning(t)
  BY <1>1, <1>5, <1>8 DEF Unseen, Pending, Arrives, Reckoning, Word
<1>11. ReckoningOK(t)'
  BY <1>5, <1>10 DEF ReckoningOK, ReckoningInv
<1>12. Told(t)'
  BY <1>8, <1>10 DEF Told, PrintInv
<1> QED
  BY <1>1, <1>3, <1>4, <1>6, <1>8, <1>9, <1>11, <1>12, UnseenFrame

=============================================================================
