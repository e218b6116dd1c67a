---------------------------- MODULE PrimesProofs ----------------------------
(***************************************************************************)
(* Proofs about module Primes: its invariant, what is printed and what the *)
(* counters hold in the end, and that it implements module EventLoop.      *)
(***************************************************************************)
EXTENDS PrimesSteps

(* Zenon is tried on the leaves that name no other prover.                 *)
USE ZenonT(30)

-----------------------------------------------------------------------------
(* The values that an operation finds.  counters.f is loaded. *)
LEMMA LoadPreserves ==
  ASSUME S!IndInv, Types, ProgramInv, Unseen, NEW t \in Threads, Load(t)
  PROVE  ProgramInv'
<1> USE DEF ProgramInv
<1> DEFINE f == Program[step[t]][2]
           v == IF Counters \in write_set[t] THEN copy[t][Word(f)]
                ELSE heap[Word(f)]
<1>1. /\ pc[t] = "load" /\ pc'[t] = "run"
      /\ \A u \in Threads \ {t} : pc'[u] = pc[u] /\ reads'[u] = reads[u]
      /\ UNCHANGED <<aborted, copy, written, printed, queue, heap, read_set,
                     write_set, todo>>
  BY DEF Load, S!Load, S!Goto, S!sets, Types, S!IndInv, S!TypeOK
<1>2. /\ step' = [step EXCEPT ![t] = @ + 1]
      /\ value' = [value EXCEPT ![t] = v]
      /\ global_count' = IF step[t] = 3 THEN [global_count EXCEPT ![t] = v]
                         ELSE global_count
  BY DEF Load, Word
<1>3. Progress(t) /\ loop[t] = "execute" /\ LocalFacts(t)
  BY <1>1, StmLocal DEF ProgressInv, ControlInv
<1>0. step[t] \in {1, 3, 4, 6}
  BY <1>1, <1>3 DEF Progress
<1>4. /\ step[t] \in {1, 3, 4, 6}
      /\ f = IF step[t] \in {1, 3} THEN "primes" ELSE "processed"
  BY <1>0, ProgramFacts, SMT
<1>5. v \in Nat
  BY <1>3, <1>4 DEF LocalFacts, Fields
<1>6. reads'[t] = IF Word(f) \in written[t] THEN reads[t]
                  ELSE reads[t] \cup {<<Word(f), v>>}
  BY <1>3 DEF Load, S!Load, LocalFacts, Word, S!IndInv, S!TypeOK
<1> HIDE DEF f, v
<1>7. TypeOK'
  BY <1>1, <1>2, <1>4, <1>5, StepBounds, SMT DEF TypeOK, queue
<1>8. /\ step'[t] = step[t] + 1 /\ value'[t] = v
      /\ global_count'[t] = IF step[t] = 3 THEN v ELSE global_count[t]
      /\ \A u \in Threads \ {t} : /\ step'[u] = step[u] /\ value'[u] = value[u]
                                  /\ global_count'[u] = global_count[u]
  BY <1>2 DEF TypeOK
<1>9. \A u \in Threads \ {t} : LeavesAlone(u)
  BY <1>1, <1>8 DEF LeavesAlone, queue
<1>10. Done' = Done /\ loop' = loop
  BY SameViews DEF Unseen, queue
<1>11. SumsInv'
  <2>1. \A u \in Threads : /\ Publishing(u)' <=> Publishing(u)
                           /\ Publishing(u) => u # t
    BY <1>1 DEF Publishing
  <2> QED
    BY <1>1, <1>10, <2>1, SumsKept
<1>12. Counters \in read_set[t]
  BY <1>1, <1>3 DEF LocalFacts
<1>13. Progress(t)'
  <2>1. /\ event'[t] = event[t] /\ written'[t] = written[t]
        /\ copy'[t] = copy[t] /\ write_set'[t] = write_set[t]
        /\ pc'[t] = "run" /\ Counters \in read_set'[t]
    BY <1>1, <1>12 DEF queue
  <2>2. /\ step[t] = 3 => v = copy[t][Word("primes")]
        /\ step[t] \in {4, 6} => v = copy[t][Word("processed")]
    <3>1. step[t] \in {3, 4, 6} => Counters \in write_set[t]
      BY <1>3, SMT DEF Progress
    <3>2. /\ step[t] = 3 => f = "primes"
          /\ step[t] \in {4, 6} => f = "processed"
      BY <1>4, SMT
    <3> QED
      BY <3>1, <3>2 DEF v
  <2>3. /\ reads[t] \subseteq reads'[t]
        /\ step[t] = 1 => <<Word("primes"), v>> \in reads'[t]
        /\ step[t] = 4 => <<Word("processed"), v>> \in reads'[t]
    BY <1>3, <1>4, <1>6, SMT DEF Progress
  <2> QED
    BY <1>3, <1>4, <1>8, <2>1, <2>2, <2>3, ProgressLoad
<1>14. Told(t)'
  BY <1>4, <1>8, StepBounds, SMT DEF Told
<1>15. ReckoningOK(t)'
  <2>1. /\ Pending(t)' <=> Pending(t)
        /\ IsDoomed(t)' <=> IsDoomed(t)
    BY <1>10 DEF Unseen, Pending
  <2>2. CASE step[t] = 1
    BY <1>8, <2>2, SMT DEF ReckoningOK, Arrives
  <2>3. CASE step[t] # 1
    <3>1. Arrives(t) /\ Reckoning(t)' = Reckoning(t)
      BY <1>1, <1>4, <1>8, <2>3, SMT DEF Arrives, Reckoning, Word
    <3> QED
      BY <1>10, <2>1, <3>1 DEF ReckoningOK, ReckoningInv
  <2> QED
    BY <2>2, <2>3
<1>16. step[t] # LastStep
  BY <1>4, StepBounds, SMT
<1> QED
  BY <1>1, <1>7, <1>9, <1>11, <1>13, <1>14, <1>15, <1>16, UnseenFrame

(* counters.f is stored, with the value loaded before. *)
LEMMA StorePreserves ==
  ASSUME S!IndInv, Types, ProgramInv, Unseen, NEW t \in Threads, Store(t)
  PROVE  ProgramInv'
<1> USE DEF ProgramInv
<1> DEFINE f == Program[step[t]][2]
           v == value[t] + Increment(t, f)
<1>1. /\ pc[t] = "store" /\ pc'[t] = "run"
      /\ \A u \in Threads \ {t} : /\ pc'[u] = pc[u] /\ copy'[u] = copy[u]
                                  /\ written'[u] = written[u]
                                  /\ step'[u] = step[u]
      /\ UNCHANGED <<aborted, reads, value, global_count, printed, queue, heap,
                     read_set, write_set, todo>>
  BY DEF Store, S!Store, S!Goto, S!sets, Types, S!IndInv, S!TypeOK, TypeOK
<1>2. Progress(t) /\ loop[t] = "execute" /\ LocalFacts(t)
  BY <1>1, StmLocal DEF ProgressInv, ControlInv
<1>0. step[t] \in {2, 5}
  BY <1>1, <1>2 DEF Progress
<1>3. /\ step[t] \in {2, 5}
      /\ f = IF step[t] = 2 THEN "primes" ELSE "processed"
  BY <1>0, ProgramFacts, SMT
<1>4. /\ step' = [step EXCEPT ![t] = @ + 1] /\ step'[t] = step[t] + 1
      /\ written'[t] = written[t] \cup {Word(f)}
      /\ copy'[t] = [copy[t] EXCEPT ![Word(f)] = v]
      /\ copy[t] \in [S!Words -> Nat \cup {Garbage}]
  BY <1>2 DEF Store, S!Store, LocalFacts, Word, S!IndInv, S!TypeOK, TypeOK
<1>5. /\ Word(f) \in S!Words /\ Word("primes") \in S!Words
      /\ Word("processed") \in S!Words /\ Word("primes") # Word("processed")
  BY <1>3 DEF Word, S!Words, Fields
<1>6. /\ copy'[t][Word(f)] = v
      /\ \A w \in S!Words : w # Word(f) => copy'[t][w] = copy[t][w]
  BY <1>4, <1>5
<1> HIDE DEF f
<1>7. v = value[t] + (IF f = "primes" THEN Batches[event[t]] ELSE 1)
  BY DEF Increment
<1> HIDE DEF v
<1>8. TypeOK'
  BY <1>1, <1>3, <1>4, StepBounds, SMT DEF TypeOK, queue
<1>9. \A u \in Threads \ {t} : LeavesAlone(u)
  BY <1>1 DEF LeavesAlone, queue
<1>10. Done' = Done /\ loop' = loop
  BY SameViews DEF Unseen, queue
<1>11. SumsInv'
  <2>1. \A u \in Threads : /\ Publishing(u)' <=> Publishing(u)
                           /\ Publishing(u) => u # t
    BY <1>1 DEF Publishing
  <2> QED
    BY <1>1, <1>10, <2>1, SumsKept
<1>12. Counters \in write_set[t] /\ Counters \in read_set[t]
  BY <1>1, <1>2 DEF LocalFacts
<1>13. Progress(t)' /\ ReckoningOK(t)'
  <2>0. LastStep' = 8 /\ PrintStep' = 7
    BY StepBounds
  <2>1. /\ Pending(t)' <=> Pending(t)
        /\ IsDoomed(t)' <=> IsDoomed(t)
    BY <1>10 DEF Unseen, Pending
  <2>2. event'[t] = event[t] /\ Word("primes")' = Word("primes")
        /\ Word("processed")' = Word("processed")
    BY <1>1 DEF queue, Word
  <2>3. CASE step[t] = 2
    <3>1. f = "primes" /\ step'[t] = 3
      BY <1>3, <1>4, <2>3, SMT
    <3>2. /\ <<Word("primes"), value[t]>> \in reads'[t]
          /\ copy'[t][Word("primes")] = value[t] + Batches[event[t]]
          /\ written'[t] = {Word("primes")}
      BY <1>1, <1>2, <1>4, <1>6, <1>7, <2>3, <3>1, SMT DEF Progress
    <3>3. \E r \in reads'[t] :
            /\ r[1] = Word("primes")
            /\ copy'[t][Word("primes")] = r[2] + Batches[event'[t]]
      <4>1. /\ <<Word("primes"), value[t]>>[1] = Word("primes")
            /\ <<Word("primes"), value[t]>>[2] = value[t]
        OBVIOUS
      <4> QED
        BY <2>2, <3>2, <4>1
    <3>4. Progress(t)'
      BY <1>1, <1>5, <1>12, <2>0, <2>2, <3>1, <3>2, <3>3, SMT DEF Progress
    <3> QED
      BY <1>1, <3>1, <3>4, SMT DEF ReckoningOK, Arrives
  <2>4. CASE step[t] = 5
    <3>1. f = "processed" /\ step'[t] = 6
      BY <1>3, <1>4, <2>4, SMT
    <3>2. /\ <<Word("processed"), value[t]>> \in reads'[t]
          /\ copy'[t][Word("processed")] = value[t] + 1
          /\ value[t] = copy[t][Word("processed")]
          /\ copy'[t][Word("primes")] = copy[t][Word("primes")]
      BY <1>1, <1>2, <1>5, <1>6, <1>7, <2>4, <3>1 DEF Progress
    <3>3. \E r \in reads'[t] :
            /\ r[1] = Word("processed")
            /\ copy'[t][Word("processed")] = r[2] + 1
      <4>1. /\ <<Word("processed"), value[t]>>[1] = Word("processed")
            /\ <<Word("processed"), value[t]>>[2] = value[t]
        OBVIOUS
      <4> QED
        BY <3>2, <4>1
    <3>4. /\ Word("primes") \in written'[t]
          /\ \E r \in reads'[t] :
               /\ r[1] = Word("primes")
               /\ copy'[t][Word("primes")] = r[2] + Batches[event'[t]]
          /\ global_count'[t] = copy'[t][Word("primes")]
      BY <1>1, <1>2, <1>4, <2>2, <2>4, <3>2, SMT DEF Progress
    <3>5. Progress(t)'
      BY <1>1, <1>5, <1>12, <2>0, <2>2, <3>1, <3>3, <3>4, SMT DEF Progress
    <3>6. Arrives(t) /\ Reckoning(t)' = Reckoning(t)
      <4>1. value[t] \in Nat
        BY DEF TypeOK
      <4> QED
        BY <2>2, <2>4, <3>1, <3>2, <4>1, SMT DEF Arrives, Reckoning
    <3> QED
      BY <1>10, <2>1, <3>5, <3>6 DEF ReckoningOK, ReckoningInv
  <2> QED
    BY <1>3, <2>3, <2>4
<1>14. Told(t)'
  BY <1>3, <1>4, StepBounds, SMT DEF Told
<1>15. step[t] # LastStep
  BY <1>3, StepBounds, SMT
<1> QED
  BY <1>1, <1>8, <1>9, <1>11, <1>13, <1>14, <1>15, UnseenFrame

-----------------------------------------------------------------------------
(* An event that has yet to commit is missing from the sums. *)
LEMMA OneMissing ==
  ASSUME CountFacts, L!IndInv, NEW t \in Threads, Pending(t)
  PROVE  /\ Cardinality(Done \cup {event[t]}) = Cardinality(Done) + 1
         /\ Cardinality(Done) + 1 <= Len(Batches)
         /\ SumOver(Done \cup {event[t]}) = SumOver(Done) + Batches[event[t]]
         /\ Cardinality(Done) + 1 = Len(Batches) =>
              /\ Done \cup {event[t]} = Events
              /\ \A u \in Threads : Pending(u) => u = t
<1> DEFINE D == Done
           e == event[t]
<1>1. D \subseteq Events /\ e \in Events \ D
  BY EventFacts
<1>2. \A u \in Threads : Pending(u) => /\ event[u] \in Events \ D
                                       /\ event[u] = e => u = t
  BY EventFacts
<1> HIDE DEF D, e
<1>3. /\ Cardinality(D \cup {e}) = Cardinality(D) + 1
      /\ Cardinality(D) + 1 <= Len(Batches)
      /\ Cardinality(D) + 1 = Len(Batches) => D \cup {e} = Events
  BY <1>1 DEF CountFacts
<1>4. SumOver(D \cup {e}) = SumOver(D) + Batches[e]
  BY <1>1, SumFacts
<1>5. ASSUME D \cup {e} = Events, NEW u \in Threads, Pending(u) PROVE u = t
  BY <1>2, <1>5
<1> QED
  BY <1>3, <1>4, <1>5 DEF D, e

(* Who finds all batches processed is the last event and current. *)
LEMMA PrintPreserves ==
  ASSUME CountFacts, S!IndInv, L!IndInv, Types, Exclusive, ProgramInv,
         Unseen, NEW t \in Threads, PrintResult(t)
  PROVE  ProgramInv'
<1> USE DEF ProgramInv
<1>1. /\ pc[t] = "run" /\ pc' = pc /\ step[t] = 7
      /\ step' = [step EXCEPT ![t] = 8] /\ step'[t] = 8
      /\ \A u \in Threads \ {t} : step'[u] = step[u]
      /\ UNCHANGED <<aborted, copy, reads, written, queue, heap, read_set,
                     write_set, todo, value, global_count>>
  BY StepBounds DEF PrintResult, stm, TypeOK
<1>2. TypeOK'
  BY <1>1, StepBounds, SMT DEF TypeOK, queue
<1>3. \A u \in Threads \ {t} : LeavesAlone(u)
  BY <1>1 DEF LeavesAlone, queue
<1>4. Done' = Done /\ loop' = loop
  BY SameViews DEF Unseen, queue
<1>5. SumsInv'
  BY <1>1, <1>4, SumsKept DEF Publishing
<1>6. Progress(t) /\ loop[t] = "execute"
  BY <1>1 DEF ProgressInv, ControlInv
<1>7. Progress(t)'
  BY <1>1, <1>6, StepBounds, SMT DEF Progress, queue, Word
<1>8. Pending(t) /\ S!Active(t) /\ Arrives(t)
  <2>1. step[t] > 3
    BY <1>1, SMT
  <2> QED
    BY <1>1, <1>6, <2>1 DEF Pending, Committed, S!Active, Arrives
<1>9. /\ Counters \in write_set[t] /\ Counters \in read_set[t]
      /\ value[t] = copy[t][Word("processed")]
      /\ global_count[t] = copy[t][Word("primes")]
  BY <1>1, <1>6, StepBounds, SMT DEF Progress
<1>10. value[t] \in Nat /\ Len(Batches) \in Nat /\ Cardinality(Done) \in Nat
  BY LengthFacts, EventFacts DEF TypeOK
<1>11. Reckoning(t) = value[t] /\ Reckoning(t)' = value[t]
  BY <1>1, <1>9, <1>10, SMT DEF Reckoning, Word
<1>12. /\ Reckoning(t) <= Cardinality(Done) + 1
       /\ IsDoomed(t) => Reckoning(t) <= Cardinality(Done)
  BY <1>8 DEF ReckoningInv
<1>13. \A u \in Threads : /\ Pending(u)' <=> Pending(u)
                          /\ IsDoomed(u)' <=> IsDoomed(u)
  BY <1>4 DEF Unseen, Pending
<1>14. ReckoningOK(t)'
  BY <1>4, <1>11, <1>12, <1>13 DEF ReckoningOK
<1>15. step[t] # LastStep
  BY <1>1, StepBounds, SMT
<1>16. CASE value[t] < Len(Batches)
  <2>1. printed' = printed
    BY <1>10, <1>16, SMT DEF PrintResult
  <2>2. Told(t)'
    BY <1>10, <1>11, <1>16, SMT DEF Told
  <2> QED
    BY <1>1, <1>2, <1>3, <1>5, <1>7, <1>14, <1>15, <2>1, <2>2, UnseenFrame
<1>17. CASE value[t] >= Len(Batches)
  <2>1. /\ Cardinality(Done) + 1 = Len(Batches) /\ ~ IsDoomed(t)
        /\ Cardinality(Done) # Len(Batches)
    <3> DEFINE n == Cardinality(Done)
    <3>1. n + 1 <= Len(Batches)
      BY <1>8, OneMissing
    <3>2. value[t] <= n + 1 /\ (IsDoomed(t) => value[t] <= n)
      BY <1>11, <1>12
    <3>3. n \in Nat
      BY <1>10
    <3> HIDE DEF n
    <3>4. n + 1 = Len(Batches) /\ ~ (value[t] <= n) /\ n # Len(Batches)
      BY <1>10, <1>17, <3>1, <3>2, <3>3, SMT
    <3> QED
      BY <3>2, <3>4 DEF n
  <2>2. ~ aborted[t]
    BY <2>1 DEF IsDoomed
  <2>3. global_count[t] = Total
    <3>1. copy[t][Word("primes")] = heap[Word("primes")] + Batches[event[t]]
      BY <1>1, <1>6, <1>8, <2>2, OneAhead, StepBounds, SMT
    <3>2. heap[Word("primes")] = SumOver(Done)
      BY <1>8, <1>9, <2>1, <2>2, SeesSums
    <3> QED
      BY <1>8, <1>9, <2>1, <3>1, <3>2, OneMissing DEF Total
  <2>4. printed = << >>
    <3>1. ASSUME NEW u \in Threads, Last(u) PROVE FALSE
      <4>1. u = t
        BY <1>8, <2>1, <3>1, OneMissing DEF Last
      <4> QED
        BY <1>15, <3>1, <4>1 DEF Last
    <3> QED
      BY <2>1, <3>1 DEF PrintInv
  <2>5. printed' = <<Total>> /\ printed' # << >>
    <3>1. printed' = Append(printed, global_count[t])
      BY <1>17 DEF PrintResult
    <3>2. Append(<< >>, Total) = <<Total>> /\ <<Total>> # << >>
      BY SumFacts, SMT DEF Total
    <3> QED
      BY <2>3, <2>4, <3>1, <3>2
  <2>6. Last(t)'
    BY <1>1, <1>4, <1>8, <1>13, <2>1, StepBounds DEF Last
  <2>7. Told(t)'
    BY <2>5 DEF Told
  <2>8. PrintInv'
    <3>1. Total' = Total
      BY DEF Total, SumOver, Sums, Events
    <3> QED
      BY <2>5, <2>6, <3>1 DEF PrintInv
  <2> QED
    BY <1>1, <1>2, <1>3, <1>5, <1>7, <1>14, <1>15, <2>7, <2>8, UnseenFrame
<1> QED
  BY <1>10, <1>16, <1>17, SMT

-----------------------------------------------------------------------------
(* A step of thread t by which it enters or leaves its transaction. *)
LEMMA OthersFrame ==
  ASSUME ReckoningInv, PrintInv, Done' = Done, printed' = printed,
         NEW t \in Threads, ~ Last(t), ReckoningOK(t)', Told(t)',
         \A u \in Threads \ {t} : /\ LeavesAlone(u)
                                  /\ Pending(u)' <=> Pending(u)
                                  /\ IsDoomed(u)' <=> IsDoomed(u)
  PROVE  ReckoningInv' /\ PrintInv'
<1>1. \A u \in Threads : ReckoningOK(u) /\ Told(u)
  BY DEF ReckoningInv, ReckoningOK, PrintInv, Told
<1>2. \A u \in Threads : ReckoningOK(u)'
  BY <1>1, OthersKept
<1>3. \A u \in Threads : Told(u)'
  BY <1>1, OthersKept
<1>4. \A u \in Threads : Last(u) => Last(u)'
  BY OthersKept
<1> QED
  BY <1>2, <1>3, <1>4 DEF ReckoningInv, ReckoningOK, PrintInv, Told

(* The event begins. *)
LEMMA BeginPreserves ==
  ASSUME S!IndInv, Types, Exclusive, ProgramInv, NEW t \in Threads, Begin(t)
  PROVE  ProgramInv'
<1> USE DEF ProgramInv
<1>1. /\ pc' = [pc EXCEPT ![t] = "run"]
      /\ loop' = [loop EXCEPT ![t] = "execute"] /\ loop[t] = "begin"
      /\ step' = [step EXCEPT ![t] = 1]
      /\ value' = [value EXCEPT ![t] = 0]
      /\ global_count' = [global_count EXCEPT ![t] = 0]
      /\ UNCHANGED <<event, created, printed, heap>>
  BY DEF Begin, Q!StartTransaction, S!StartTransaction, Q!Goto, S!Goto, Q!locals
<1>2. /\ written'[t] = {}
      /\ \A u \in Threads \ {t} :
           /\ aborted'[u] = aborted[u] /\ read_set'[u] = read_set[u]
           /\ write_set'[u] = write_set[u] /\ copy'[u] = copy[u]
           /\ reads'[u] = reads[u] /\ written'[u] = written[u]
  BY DEF Begin, S!StartTransaction, S!FreshTransaction, S!IndInv, S!TypeOK
<1>3. TypeOK'
  BY <1>1, StepBounds, SMT DEF TypeOK, Q!Labels
<1>4. pc'[t] = "run" /\ step'[t] = 1 /\ loop'[t] = "execute"
  BY <1>1 DEF Types, TypeOK
<1>5. \A u \in Threads \ {t} :
        /\ pc'[u] = pc[u] /\ loop'[u] = loop[u] /\ step'[u] = step[u]
        /\ value'[u] = value[u] /\ global_count'[u] = global_count[u]
  BY <1>1 DEF Types, TypeOK
<1>6. \A u \in Threads \ {t} : LeavesAlone(u)
  BY <1>1, <1>2, <1>5 DEF LeavesAlone
<1>7. ControlInv'
  <2>1. \A u \in Threads : pc'[u] # "none" <=> loop'[u] = "execute"
    BY <1>4, <1>5 DEF ControlInv
  <2>2. loop'[Main] # "script" => created' = Len(Batches)
    BY <1>1, <1>5, ThreadAssumption DEF ControlInv
  <2> QED
    BY <2>1, <2>2 DEF ControlInv
<1>8. Progress(t)'
  BY <1>2, <1>4, StepBounds, SMT DEF Progress
<1>9. ProgressInv'
  BY <1>5, <1>6, <1>8, ProgressKept DEF ProgressInv
<1>10. SumsInv'
  BY <1>1, BeginRefines, SumsKept
<1>11. ReckoningOK(t)' /\ Told(t)'
  BY <1>4, StepBounds, SMT DEF ReckoningOK, Arrives, Told
<1>12. ~ Last(t)
  BY <1>1 DEF Last, Pending
<1>13. \A u \in Threads \ {t} : Pending(u)' <=> Pending(u)
  BY <1>5, BeginRefines DEF Pending
<1>14. ReckoningInv' /\ PrintInv'
  BY <1>1, <1>6, <1>11, <1>12, <1>13, BeginRefines, OthersFrame
<1> QED
  BY <1>3, <1>7, <1>9, <1>10, <1>14

(* CommitTransaction returns. *)
LEMMA EndCommitPreserves ==
  ASSUME S!IndInv, Types, Exclusive, ProgramInv, NEW t \in Threads, EndCommit(t)
  PROVE  ProgramInv'
<1> USE DEF ProgramInv
<1>1. /\ pc' = [pc EXCEPT ![t] = "none"] /\ pc[t] = "remove"
      /\ \/ loop' = [loop EXCEPT ![t] = "begin"]
         \/ loop' = [loop EXCEPT ![t] = "delete"]
      /\ UNCHANGED <<event, created, heap, program>>
  BY DEF EndCommit, S!RemoveTransaction, S!Goto, Q!Restart, Q!Goto, Q!locals
<1>2. \A u \in Threads \ {t} :
        /\ aborted'[u] = aborted[u] /\ read_set'[u] = read_set[u]
        /\ write_set'[u] = write_set[u] /\ copy'[u] = copy[u]
        /\ reads'[u] = reads[u] /\ written'[u] = written[u]
  BY DEF EndCommit, S!RemoveTransaction, S!FreshTransaction, S!IndInv, S!TypeOK
<1>3. TypeOK'
  BY <1>1 DEF TypeOK, Q!Labels, program
<1>4. /\ pc'[t] = "none" /\ loop[t] = "execute" /\ loop'[t] \in {"begin", "delete"}
      /\ \A u \in Threads \ {t} : pc'[u] = pc[u] /\ loop'[u] = loop[u]
  BY <1>1 DEF Types, TypeOK, ControlInv
<1>5. \A u \in Threads \ {t} : LeavesAlone(u)
  BY <1>1, <1>2, <1>4 DEF LeavesAlone, program
<1>6. ControlInv'
  <2>1. loop'[Main] # "script" => loop[Main] # "script"
    BY <1>4, ThreadAssumption
  <2>2. \A u \in Threads : pc'[u] # "none" <=> loop'[u] = "execute"
    BY <1>4 DEF ControlInv
  <2> QED
    BY <1>1, <2>1, <2>2 DEF ControlInv
<1>7. ProgressInv'
  BY <1>4, <1>5, ProgressKept DEF ProgressInv
<1>8. Done' = Done
  BY EndCommitRefines
<1>9. SumsInv'
  <2>1. \A u \in Threads : ~ Publishing(u) /\ ~ Publishing(u)'
    BY <1>1, <1>4 DEF Exclusive, Publishing
  <2> QED
    BY <1>1, <1>8, <2>1, SumsKept
<1>10. ReckoningOK(t)' /\ Told(t)'
  BY <1>4 DEF ReckoningOK, Told, Pending
<1>11. ~ Last(t)
  BY <1>1 DEF Last, Pending, Committed, IsDoomed
<1>12. \A u \in Threads \ {t} : /\ Pending(u)' <=> Pending(u)
                                /\ IsDoomed(u)' <=> IsDoomed(u)
  BY <1>4, EndCommitRefines DEF Pending
<1>13. printed' = printed
  BY <1>1 DEF program
<1>14. ReckoningInv' /\ PrintInv'
  BY <1>5, <1>8, <1>10, <1>11, <1>12, <1>13, OthersFrame
<1> QED
  BY <1>3, <1>6, <1>7, <1>9, <1>14

(* An event is committed: the private counters become the sums. *)
LEMMA CommitsPreserves ==
  ASSUME CountFacts, S!IndInv, L!IndInv, Types, Exclusive, ProgramInv,
         NEW t \in Threads, Commits(t)
  PROVE  ProgramInv'
<1> USE DEF ProgramInv
<1>1. /\ pc' = [pc EXCEPT ![t] = "conflict"] /\ pc[t] = "lock"
      /\ pc'[t] = "conflict" /\ \A u \in Threads \ {t} : pc'[u] = pc[u]
      /\ UNCHANGED <<aborted, copy, reads, written, program, queue, heap,
                     read_set, write_set, todo>>
  BY DEF Commits, S!AllLocked, S!Goto, S!sets, S!history, Types
<1>2. \A u \in Threads \ {t} : LeavesAlone(u)
  BY <1>1 DEF LeavesAlone, queue, program
<1>3. TypeOK'
  BY <1>1 DEF TypeOK, queue, program
<1>4. Progress(t) /\ loop[t] = "execute" /\ loop' = loop /\ created' = created
      /\ printed' = printed /\ step' = step
  BY <1>1 DEF ProgressInv, ControlInv, queue, program
<1>5. ControlInv'
  BY <1>1, <1>4 DEF ControlInv
<1>6. ~ aborted[t] /\ step[t] = LastStep
  BY <1>1, <1>4 DEF Exclusive, Progress
<1>7. Progress(t)'
  BY <1>1, <1>4, <1>6, StepBounds DEF Progress, queue, program, Word
<1>8. ProgressInv'
  BY <1>2, <1>4, <1>7, ProgressKept DEF ProgressInv
<1>9. Pending(t) /\ S!Active(t)
  BY <1>1, <1>4 DEF Pending, Committed, S!Active
<1>10. \A u \in Threads : ~ Publishing(u)
  BY <1>1 DEF Exclusive, Publishing
<1>11. heap[Word("primes")] = SumOver(Done)
       /\ heap[Word("processed")] = Cardinality(Done)
  BY <1>10 DEF SumsInv
<1>12. /\ copy[t][Word("primes")] = SumOver(Done) + Batches[event[t]]
       /\ Reckoning(t) = Cardinality(Done) + 1
  BY <1>4, <1>6, <1>9, <1>11, OneAhead, StepBounds, SMT
<1>13. copy[t][Word("processed")] = Reckoning(t)
  <2>1. Counters \in write_set[t]
    BY <1>4, <1>6, StepBounds, InSets
  <2>2. copy[t][Word("processed")] \in Nat
    BY <2>1, StmLocal DEF LocalFacts, Fields
  <2> QED
    BY <1>6, <2>2, StepBounds, SMT DEF Reckoning
<1>14. /\ Done' = Done \cup {event[t]}
       /\ \A u \in Threads : /\ Committed(u)' <=> (Committed(u) \/ u = t)
                             /\ u # t => ~ Committed(u)
  BY AllLockedRefines DEF Commits
<1>15. SumOver(Done)' = copy[t][Word("primes")]
       /\ Cardinality(Done)' = copy[t][Word("processed")]
       /\ Cardinality(Done') = Cardinality(Done) + 1
  <2>1. SumOver(Done)' = SumOver(Done')
    BY DEF SumOver, Sums
  <2> QED
    BY <1>9, <1>12, <1>13, <1>14, <2>1, OneMissing
<1>16. SumsInv'
  <2>1. \A u \in Threads : Publishing(u)' <=> u = t
    BY <1>1, <1>10 DEF Publishing
  <2> QED
    BY <1>1, <1>15, <2>1 DEF SumsInv, Word
<1>17. Cardinality(Done) \in Nat /\ Len(Batches) \in Nat
  BY EventFacts, BatchesAssumption, SMT
<1>18. ASSUME NEW u \in Threads, Pending(u)'
       PROVE  /\ Pending(u) /\ u # t
              /\ Arrives(u)' <=> Arrives(u)
              /\ Reckoning(u)' = Reckoning(u)
  <2>1. Pending(u) /\ u # t
    BY <1>4, <1>14, <1>18 DEF Pending
  <2> QED
    BY <1>1, <1>4, <2>1 DEF Arrives, Reckoning, Word
<1>19. ReckoningInv'
  <2>1. ASSUME NEW u \in Threads, Pending(u)', Arrives(u)'
        PROVE  Reckoning(u)' <= Cardinality(Done)' + 1
               /\ Reckoning(u)' <= Cardinality(Done)'
    <3>1. /\ Reckoning(u) <= Cardinality(Done) + 1
          /\ Reckoning(u)' = Reckoning(u)
      BY <1>18, <2>1 DEF ReckoningInv
    <3>2. copy[u][Word("processed")] \in Nat
      <4>1. Pending(u) /\ Arrives(u)
        BY <1>18, <2>1
      <4>2. Progress(u) /\ step[u] >= 3
        BY <4>1, SMT DEF Pending, ProgressInv, Arrives, TypeOK
      <4>3. Counters \in write_set[u]
        BY <4>2 DEF Progress
      <4> QED
        BY <4>3, StmLocal DEF LocalFacts, Fields
    <3>3. Reckoning(u) \in Nat
      BY <3>2, SMT DEF Reckoning
    <3> QED
      BY <1>15, <1>17, <3>1, <3>3, SMT
  <2> QED
    BY <2>1 DEF ReckoningInv
<1>20. PrintInv'
  <2>1. Cardinality(Done) + 1 <= Len(Batches)
        /\ (Cardinality(Done) + 1 = Len(Batches) =>
              \A u \in Threads : Pending(u) => u = t)
    BY <1>9, OneMissing
  <2>2. printed # << >> => Cardinality(Done)' = Len(Batches)
    BY <1>15, <1>17, <2>1, SMT DEF PrintInv, Last
  <2>3. Cardinality(Done)' = Len(Batches) => printed # << >>
    <3>1. ASSUME Cardinality(Done) + 1 = Len(Batches) PROVE printed # << >>
      <4>1. Reckoning(t) >= Len(Batches)
        BY <1>12, <1>17, <3>1, SMT
      <4> QED
        BY <1>6, <1>9, <4>1 DEF PrintInv
    <3> QED
      BY <1>15, <3>1
  <2>4. ASSUME NEW u \in Threads, Pending(u)', step'[u] = LastStep,
               Reckoning(u)' >= Len(Batches)
        PROVE  printed # << >>
    BY <1>4, <1>18, <2>4 DEF PrintInv
  <2>5. Total' = Total /\ LastStep' = LastStep
    BY DEF Total, SumOver, Sums, Events, LastStep, PrintStep, Program
  <2> QED
    BY <1>4, <2>2, <2>3, <2>4, <2>5 DEF PrintInv
<1> QED
  BY <1>3, <1>5, <1>8, <1>16, <1>19, <1>20

-----------------------------------------------------------------------------
(* The steps of a commit. *)
LEMMA CommittingPreserves ==
  ASSUME S!IndInv, Types, Exclusive, ProgramInv, NEW t \in Threads, Committing(t)
  PROVE  ProgramInv'
<1>1. UNCHANGED <<queue, program>>
  BY DEF Committing
<1>2. UNCHANGED queue /\ UNCHANGED program
  BY <1>1 DEF queue, program
<1>3. Unseen
  BY <1>2, CommitUnseen DEF Committing
<1>4. CASE \/ S!LockCommit(t) \/ S!LockTransactions(t)
           \/ \E u \in Threads :
                S!LockTransaction(t, u) \/ S!AbortConflicting(t, u)
  <2>1. Walking(t)
    BY <1>1, <1>4, LoopsWalk
  <2> QED
    BY <1>3, <2>1, WalkingPreserves DEF ProgramInv
<1>5. CASE \/ S!BeginCommitHeap(t) \/ S!UnlockTransactions(t)
           \/ \E w \in S!Words : S!CommitWord(t, w)
  BY <1>2, <1>3, <1>5, CommitHeapPreserves
<1>6. ASSUME NEW w \in S!Words, S!CopyWord(t, w) PROVE ProgramInv'
  BY <1>2, <1>3, <1>6, CopyWordPreserves
<1> QED
  BY <1>4, <1>5, <1>6 DEF Committing

(* The invariant of the running program is preserved, given those of the   *)
(* transactions and of the loops.                                          *)
LEMMA ProgramStep ==
  ASSUME CountFacts, S!IndInv, L!IndInv, ProgramInv, [Next]_vars
  PROVE  ProgramInv'
<1>1. Types /\ Exclusive
  BY StmFacts
<1>2. CASE UNCHANGED vars
  <2>1. UNCHANGED <<stm, aborted, program, handled, loop, event, created>>
    BY <1>2 DEF vars, queue
  <2>2. Outside
    BY <2>1 DEF Outside, ProgramInv, TypeOK, ControlInv
  <2> QED
    BY <2>2, OutsidePreserves DEF ProgramInv
<1>3. CASE RunScript \/ Join \/ \E t \in Threads : LockQueue(t) \/ InQueue(t)
  <2>1. Outside
    BY <1>3, OutsideSteps DEF ProgramInv
  <2> QED
    BY <2>1, OutsidePreserves DEF ProgramInv
<1>4. ASSUME NEW t \in Threads, Begin(t) \/ Commits(t) \/ EndCommit(t)
      PROVE  ProgramInv'
  BY <1>1, <1>4, BeginPreserves, CommitsPreserves, EndCommitPreserves
<1>5. ASSUME NEW t \in Threads, Adding(t) PROVE ProgramInv'
  <2>1. Unseen
    <3>1. UNCHANGED queue
      BY <1>5 DEF Adding, queue
    <3> QED
      BY <1>1, <1>5, <3>1, AddUnseen DEF Adding
  <2> QED
    BY <1>1, <1>5, <2>1, AddingPreserves
<1>6. ASSUME NEW t \in Threads, Committing(t) PROVE ProgramInv'
  BY <1>1, <1>6, CommittingPreserves
<1>7. ASSUME NEW t \in Threads,
             Redirect(t) \/ Load(t) \/ Store(t) \/ PrintResult(t) \/ EndEvent(t)
      PROVE  ProgramInv'
  <2>1. Unseen
    BY <1>1, <1>7, OperationUnseen
  <2> QED
    BY <1>1, <1>7, <2>1, RedirectPreserves, LoadPreserves, StorePreserves,
       PrintPreserves, EndEventPreserves
<1> QED
  BY <1>2, <1>3, <1>4, <1>5, <1>6, <1>7, StepCases

(* The program begins as the loops do ... *)
LEMMA LoopInit == Init => L!Init
<1> SUFFICES ASSUME Init PROVE L!Init
  OBVIOUS
<1>1. /\ \A t \in Threads : pc[t] = "none" /\ aborted[t] = FALSE
      /\ loop = [t \in Threads |-> IF t = Main THEN "script" ELSE "new"]
      /\ handled = {}
  BY DEF Init, S!Init, Q!Init
<1>2. \A t \in Threads : loop[t] # "execute" /\ (IsDoomed(t) <=> FALSE)
  BY <1>1 DEF IsDoomed
<1>3. LoopLabel = loop
  BY <1>1, <1>2 DEF LoopLabel
<1>4. Done = {}
  <2>1. {u \in Threads : loop[u] = "execute" /\ Committed(u)} = {}
    BY <1>2
  <2>2. Done = handled \cup {event[u] : u \in {}}
    BY <2>1 DEF Done
  <2> QED
    BY <1>1, <2>2
<1>5. Doomed = [t \in Threads |-> FALSE]
  <2>1. \A t \in Threads : IsDoomed(t) = FALSE
    BY <1>2 DEF IsDoomed
  <2> QED
    BY <2>1 DEF Doomed
<1> QED
  BY <1>3, <1>4, <1>5 DEF Init, Q!Init, L!Init, L!NoEvent, Q!NoEvent

(* ... with all sums zero. *)
LEMMA ProgramInit == ASSUME CountFacts, Init PROVE ProgramInv
<1>1. /\ \A t \in Threads : pc[t] = "none"
      /\ loop = [t \in Threads |-> IF t = Main THEN "script" ELSE "new"]
      /\ event = [t \in Threads |-> Q!NoEvent]
      /\ step = [t \in Threads |-> 1]
      /\ value = [t \in Threads |-> 0]
      /\ global_count = [t \in Threads |-> 0]
      /\ printed = << >>
      /\ heap = [w \in S!Words |-> 0]
  BY DEF Init, S!Init, Q!Init
<1>2. \A t \in Threads : loop[t] # "execute"
  BY <1>1
<1>3. TypeOK
  BY <1>1, StepBounds, SMT DEF TypeOK, Q!Labels
<1>4. ControlInv /\ ProgressInv
  BY <1>1, <1>2, ThreadAssumption DEF ControlInv, ProgressInv
<1>5. Done = {}
  BY LoopInit DEF L!Init
<1>6. Cardinality(Done) = 0 /\ SumOver(Done) = 0
  BY <1>5, SumFacts DEF CountFacts
<1>7. SumsInv
  <2>1. heap[Word("primes")] = 0 /\ heap[Word("processed")] = 0
    BY <1>1 DEF Word, S!Words, Fields
  <2> QED
    BY <1>1, <1>6, <2>1 DEF SumsInv, Publishing
<1>8. ReckoningInv
  BY <1>2 DEF ReckoningInv, Pending
<1>9. PrintInv
  <2>1. Len(Batches) # 0
    BY BatchesAssumption, SMT
  <2> QED
    BY <1>1, <1>2, <1>6, <2>1 DEF PrintInv, Pending
<1> QED
  BY <1>3, <1>4, <1>7, <1>8, <1>9 DEF ProgramInv

(* When main returns all events are done. *)
LEMMA AllDone ==
  ASSUME CountFacts, L!IndInv, ProgramInv, loop[Main] = "exit"
  PROVE  printed = <<Total>> /\ heap[Word("primes")] = Total
         /\ heap[Word("processed")] = Len(Batches)
<1> USE DEF ProgramInv
<1>1. LoopLabel[Main] = "exit" /\ created = Len(Batches) /\ Main \in Threads
  BY ThreadAssumption DEF LoopLabel, ControlInv
<1>2. event_queue = << >> /\ L!Counted = {}
  BY <1>1 DEF L!IndInv, L!CountInv
<1>3. \A t \in Threads : LoopLabel[t] \notin {"countIn", "begin", "execute", "delete"}
  <2>1. \A t \in Threads : LoopLabel[t] # "countIn"
    BY <1>1 DEF L!IndInv, L!CountInv
  <2> QED
    BY <1>2, <2>1 DEF L!Counted, L!IndInv, L!ControlInv
<1>4. \A t \in Threads : ~ Publishing(t)
  BY <1>3 DEF Publishing, LoopLabel, ControlInv
<1>5. Done = Events
  <2>1. Events = 1 .. created
    BY <1>1, BatchesAssumption, SMT DEF Events
  <2>2. ASSUME NEW e \in (1 .. created) \ Done PROVE FALSE
    <3>1. DOMAIN event_queue = {}
      BY <1>2, SMT
    <3>2. \A t \in Threads : ~ L!InHand(t, e)
      BY <1>3 DEF L!InHand, L!HasEvent
    <3> QED
      BY <2>2, <3>1, <3>2 DEF L!IndInv, L!QueueInv
  <2>3. Done \subseteq 1 .. created
    BY DEF L!IndInv, L!QueueInv
  <2> QED
    BY <2>1, <2>2, <2>3
<1>6. Cardinality(Done) = Len(Batches)
  BY <1>5 DEF CountFacts
<1>7. printed = <<Total>>
  BY <1>6 DEF PrintInv
<1> QED
  BY <1>4, <1>5, <1>6, <1>7 DEF SumsInv, Total

-----------------------------------------------------------------------------
FS == INSTANCE FiniteSetTheorems

(* The theorems speak of the finite sets and the cardinality meant here. *)
LEMMA SameSets ==
  /\ \A X : IsFiniteSet(X) <=> FS!IsFiniteSet(X)
  /\ \A X : Cardinality(X) = FS!Cardinality(X)
BY DEF IsFiniteSet, FS!IsFiniteSet, Cardinality, FS!Cardinality

(* How many events there are and how their number grows. *)
LEMMA Counts == CountFacts
<1>1. FS!IsFiniteSet(Events) /\ FS!Cardinality(Events) = Len(Batches)
  <2>1. /\ FS!IsFiniteSet(1 .. Len(Batches))
        /\ FS!Cardinality(1 .. Len(Batches)) =
             IF 1 > Len(Batches) THEN 0 ELSE Len(Batches) - 1 + 1
    BY LengthFacts, FS!FS_Interval
  <2> QED
    BY LengthFacts, <2>1
<1>2. FS!Cardinality({}) = 0
  BY FS!FS_EmptySet
<1>3. ASSUME NEW D \in SUBSET Events
      PROVE  FS!IsFiniteSet(D) /\ FS!Cardinality(D) \in Nat
  BY <1>1, FS!FS_Subset, FS!FS_CardinalityType
<1>4. ASSUME NEW D \in SUBSET Events, NEW e \in Events \ D
      PROVE  /\ FS!Cardinality(D \cup {e}) = FS!Cardinality(D) + 1
             /\ FS!Cardinality(D) + 1 <= Len(Batches)
             /\ FS!Cardinality(D) + 1 = Len(Batches) => D \cup {e} = Events
  <2>1. FS!Cardinality(D \cup {e}) = FS!Cardinality(D) + 1
    BY <1>3, FS!FS_AddElement
  <2>2. D \cup {e} \in SUBSET Events
    OBVIOUS
  <2>3. /\ FS!Cardinality(D \cup {e}) <= FS!Cardinality(Events)
        /\ FS!Cardinality(D \cup {e}) = FS!Cardinality(Events) =>
             D \cup {e} = Events
    BY <1>1, <2>2, FS!FS_Subset
  <2> QED
    BY <1>1, <2>1, <2>3
<1> QED
  BY <1>1, <1>2, <1>3, <1>4, SameSets DEF CountFacts

(* What modules STM and EventLoop assume of their constants. *)
LEMMA ComponentAssumptions ==
  /\ Main \in Threads /\ Nobody \notin Threads
  /\ 0 \in Nat /\ Garbage \notin Nat
  /\ Len(Program) \in Nat /\ Len(Batches) \in Nat
BY LengthFacts, ThreadAssumption, GarbageAssumption

-----------------------------------------------------------------------------
(* A step is one of the transactions and one of the loops, or none, and    *)
(* keeps the invariant of the running program.                             *)
LEMMA ComponentSteps ==
  ASSUME IndInv, [Next]_vars
  PROVE  [S!Next]_(S!vars) /\ [L!Next]_(L!vars) /\ ProgramInv'
<1>1. S!IndInv /\ L!IndInv /\ ProgramInv
  BY DEF IndInv
<1>2. Types /\ Exclusive /\ TypeOK /\ ControlInv
  BY <1>1, StmFacts DEF ProgramInv
<1>3. [S!Next]_(S!vars) /\ [L!Next]_(L!vars)
  BY <1>1, <1>2, Counts, StmStep, LoopStep
<1> QED
  BY <1>1, <1>3, Counts, ProgramStep

(* What the invariant is for. *)
LEMMA Consequences == IndInv => PrintedOnce /\ ResultsComplete
<1> SUFFICES ASSUME IndInv PROVE PrintedOnce /\ ResultsComplete
  OBVIOUS
<1>1. PrintedOnce
  BY DEF IndInv, ProgramInv, PrintInv, PrintedOnce
<1>2. ResultsComplete
  BY AllDone, Counts DEF IndInv, ResultsComplete, Word
<1> QED
  BY <1>1, <1>2

-----------------------------------------------------------------------------
(* The components of module Primes, with what is proved of them. *)
SP == INSTANCE STMProofs WITH
  Objects <- {Counters}, Values <- Nat, Zero <- 0,
  MaxOps <- Len(Program), BlindStores <- FALSE, StmAborts <- FALSE

LP == INSTANCE EventLoopProofs WITH
  MaxEvents <- Len(Batches), StartTogether <- TRUE, mutex <- queue_mutex,
  pc <- LoopLabel, handled <- Done, aborted <- Doomed

(* SP is the instance S of module Primes: its invariant ... *)
LEMMA SameStmInv == S!IndInv <=> SP!IndInv
  BY DEF S!IndInv, S!TypeOK, S!LockDiscipline, S!ConflictsAborted,
     S!OperationInv, S!OperationOK, S!SetsInv, S!StoresFollowLoads,
     S!CommitterNotAborted, S!LoadedIsCurrent, S!WordIsCurrent, S!Active,
     S!Committing, S!HasConflicts, S!Labels, S!Words, SP!IndInv, SP!TypeOK,
     SP!LockDiscipline, SP!ConflictsAborted, SP!OperationInv, SP!OperationOK,
     SP!SetsInv, SP!StoresFollowLoads, SP!CommitterNotAborted,
     SP!LoadedIsCurrent, SP!WordIsCurrent, SP!Active, SP!Committing,
     SP!HasConflicts, SP!Labels, SP!Words

(* ... and its steps are the same. *)
LEMMA SameStmNext == [S!Next]_(S!vars) <=> [SP!Next]_(SP!vars)
  BY DEF S!Next, S!Execute, S!CommitTransaction, S!StartTransaction,
     S!RedirectLoad, S!RedirectStore, S!AddRead, S!Load, S!CopyWord,
     S!AddWrite, S!Store, S!EndEvent, S!LockCommit, S!LockTransactions,
     S!LockTransaction, S!AbortConflicting, S!AllLocked, S!BeginCommitHeap,
     S!CommitWord, S!UnlockTransactions, S!RemoveTransaction, S!Goto,
     S!Operate, S!FreshTransaction, S!HasConflicts, S!Uninitialised, S!Words,
     S!vars, S!mutexes, S!sets, S!history, SP!Next, SP!Execute,
     SP!CommitTransaction, SP!StartTransaction, SP!RedirectLoad,
     SP!RedirectStore, SP!AddRead, SP!Load, SP!CopyWord, SP!AddWrite,
     SP!Store, SP!EndEvent, SP!LockCommit, SP!LockTransactions,
     SP!LockTransaction, SP!AbortConflicting, SP!AllLocked,
     SP!BeginCommitHeap, SP!CommitWord, SP!UnlockTransactions,
     SP!RemoveTransaction, SP!Goto, SP!Operate, SP!FreshTransaction,
     SP!HasConflicts, SP!Uninitialised, SP!Words, SP!vars, SP!mutexes,
     SP!sets, SP!history

(* LP is the instance L: its invariant, ... *)
LEMMA SameLoopInv == L!IndInv <=> LP!IndInv
  BY DEF L!IndInv, L!TypeOK, L!ControlInv, L!QueueInv, L!CountInv,
     L!StatisticsInv, L!Counted, L!Executing, L!HasEvent, L!InHand, L!Labels,
     L!Workers, L!Events, L!NoEvent, L!Cardinality, LP!IndInv, LP!TypeOK,
     LP!ControlInv, LP!QueueInv, LP!CountInv, LP!StatisticsInv, LP!Counted,
     LP!Executing, LP!HasEvent, LP!InHand, LP!Labels, LP!Workers, LP!Events,
     LP!NoEvent, LP!Cardinality

(* ... its steps ... *)
LEMMA SameLoopNext == [L!Next]_(L!vars) <=> [LP!Next]_(LP!vars)
  BY DEF L!Next, L!CommitScript, L!Join, L!LockQueue, L!Continue, L!Async,
     L!EnterLoop, L!CountOut, L!TakeEvent, L!CountIn, L!LeaveLoop,
     L!SpinAgain, L!StartTransaction, L!Commit, L!Restart, L!DeleteEvent,
     L!Goto, L!Workers, L!NoEvent, L!vars, L!statistics, L!locals, LP!Next,
     LP!CommitScript, LP!Join, LP!LockQueue, LP!Continue, LP!Async,
     LP!EnterLoop, LP!CountOut, LP!TakeEvent, LP!CountIn, LP!LeaveLoop,
     LP!SpinAgain, LP!StartTransaction, LP!Commit, LP!Restart,
     LP!DeleteEvent, LP!Goto, LP!Workers, LP!NoEvent, LP!vars, LP!statistics,
     LP!locals

(* ... and its initial states are the same. *)
LEMMA SameLoopInit == L!Init <=> LP!Init
  BY DEF L!Init, LP!Init, L!NoEvent, LP!NoEvent

(* The invariant of module STM is inductive ... *)
LEMMA StmInvariant == SP!IndInv /\ [SP!Next]_(SP!vars) => SP!IndInv'
<1> SUFFICES ASSUME SP!IndInv, [SP!Next]_(SP!vars) PROVE SP!IndInv'
  OBVIOUS
<1>1. SP!TypeOK' /\ SP!LockDiscipline'
  BY ComponentAssumptions, SP!TypeStep, SP!LockStep
<1>2. SP!CommitterNotAborted' /\ SP!ConflictsAborted'
  BY ComponentAssumptions, SP!CommitterStep, SP!ConflictStep
<1>3. SP!OperationInv' /\ SP!SetsInv'
  BY ComponentAssumptions, SP!OperationStep, SP!SetsStep
<1>4. SP!LoadedIsCurrent' /\ SP!StoresFollowLoads'
  BY ComponentAssumptions, SP!LoadedStep, SP!StoresStep
<1> QED
  BY <1>1, <1>2, <1>3, <1>4 DEF SP!IndInv

(* ... and holds initially. *)
LEMMA StmInit == Init => SP!IndInv
<1> SUFFICES ASSUME Init PROVE SP!IndInv
  OBVIOUS
<1>1. SP!Init
  BY DEF Init, S!Init, SP!Init, S!Words, SP!Words, S!Uninitialised,
     SP!Uninitialised
<1> QED
  BY ComponentAssumptions, <1>1, SP!InitIndInv

(* The assumptions of module EventLoop hold of its instance, and so its    *)
(* invariant holds initially and is inductive.                             *)
LEMMA LoopInvariant ==
  /\ LP!Init => LP!IndInv
  /\ LP!IndInv /\ [LP!Next]_(LP!vars) => LP!IndInv'
<1>1. LP!IsFiniteSet(Threads)
  BY ThreadAssumption DEF IsFiniteSet, LP!IsFiniteSet
<1> QED
  BY <1>1, ComponentAssumptions, LP!InitIndInv, LP!NextIndInv

-----------------------------------------------------------------------------
(* The invariant holds initially ... *)
LEMMA InitIndInv == Init => IndInv
<1> SUFFICES ASSUME Init PROVE IndInv
  OBVIOUS
<1>1. S!IndInv
  BY StmInit, SameStmInv
<1>2. L!IndInv
  BY LoopInit, SameLoopInit, SameLoopInv, LoopInvariant
<1>3. ProgramInv
  BY ProgramInit, Counts
<1> QED
  BY <1>1, <1>2, <1>3 DEF IndInv

(* ... and every step preserves it. *)
LEMMA NextIndInv == IndInv /\ [Next]_vars => IndInv'
<1> SUFFICES ASSUME IndInv, [Next]_vars PROVE IndInv'
  OBVIOUS
<1>1. SP!IndInv' /\ LP!IndInv'
  BY ComponentSteps, SameStmInv, SameStmNext, StmInvariant,
     SameLoopInv, SameLoopNext, LoopInvariant DEF IndInv
<1>2. (S!IndInv' <=> SP!IndInv') /\ (L!IndInv' <=> LP!IndInv')
  BY SameStmInv, SameLoopInv, PTL
<1> QED
  BY <1>1, <1>2, ComponentSteps DEF IndInv

(* For any number of threads and any batches: transactions, loops and the  *)
(* running events keep the invariant, whatever the interleaving.           *)
THEOREM Invariance == Spec => []IndInv
  BY InitIndInv, NextIndInv, PTL DEF Spec

(* However often events are restarted, print() is called at most once, and *)
(* with the number of all primes.                                          *)
THEOREM ResultPrintedOnce == Spec => []PrintedOnce
  BY Invariance, Consequences, PTL

(* When main returns the result is printed and the counters hold the sums  *)
(* over all batches.                                                       *)
THEOREM NothingIsLost == Spec => []ResultsComplete
  BY Invariance, Consequences, PTL

(* With the transactions of stm.cc the event loops of main.cc do what      *)
(* module EventLoop says of them: every commit, abort and restart of its   *)
(* abstract transactions is one of module STM.                             *)
THEOREM LoopsRefined == Spec => LoopSpec
<1>1. IndInv /\ [Next]_vars => [L!Next]_(L!vars)
  BY ComponentSteps
<1> QED
  BY Invariance, <1>1, LoopInit, PTL DEF Spec, LoopSpec, L!Spec
=============================================================================
