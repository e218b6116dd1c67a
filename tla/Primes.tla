------------------------------- MODULE Primes -------------------------------
(***************************************************************************)
(* The whole program at work: the event loops of module EventLoop run the  *)
(* events of src/w16/primes.js, and every event is a transaction of module *)
(* STM, step by step.  An event adds its batch to the two counters of the  *)
(* shared object `counters'; the one that finds all batches processed      *)
(* prints the result, from within its transaction.                         *)
(***************************************************************************)
EXTENDS Integers, Sequences, FiniteSets

CONSTANTS
  Threads, Main, Nobody, Garbage,   \* as in modules STM and EventLoop
  Batches                           \* how many primes each batch contains

ASSUME ThreadAssumption ==
  IsFiniteSet(Threads) /\ Main \in Threads /\ Nobody \notin Threads
ASSUME GarbageAssumption == Garbage \notin Nat
ASSUME BatchesAssumption == Batches \in Seq(Nat) /\ Batches # << >>

Counters == "counters"
Fields   == {"primes", "processed"}

(* The events of the script: an event is the number of its batch. *)
Events == DOMAIN Batches

(* The primes in the batches of H, among the first i batches and in all. *)
Sums(H) ==
  LET f[i \in 0 .. Len(Batches)] ==
        IF i = 0 THEN 0 ELSE f[i - 1] + (IF i \in H THEN Batches[i] ELSE 0)
  IN  f
SumOver(H) == Sums(H)[Len(Batches)]
Total      == SumOver(Events)

(* inc_primes and inc_processed: the redirected operations of one event. *)
Program == << <<"load", "primes">>, <<"store", "primes">>,
              <<"load", "primes">>, <<"load", "processed">>,
              <<"store", "processed">>, <<"load", "processed">> >>
PrintStep == Len(Program) + 1
LastStep  == PrintStep + 1

VARIABLES
  (* of module STM *)
  heap, transactions, transactions_mutex, commit_mutex, mutex, aborted,
  read_set, write_set, copy, pc, obj, todo, visit, ops, reads, written,
  (* of module EventLoop; loop is its pc *)
  event_queue, running_threads, total_transactions, aborted_transactions,
  queue_mutex, loop, active, event, register, created, handled,
  (* of the running events *)
  step,           \* the operation the event is about to do
  value,          \* what it has loaded last
  global_count,   \* what inc_primes has returned
  printed         \* what has been printed

stm == <<heap, transactions, transactions_mutex, commit_mutex, mutex,
         read_set, write_set, copy, pc, obj, todo, visit, ops, reads, written>>
queue == <<event_queue, running_threads, total_transactions,
           aborted_transactions, queue_mutex, loop, active, event, register,
           created, handled>>
program == <<step, value, global_count, printed>>
vars == <<stm, aborted, queue, program>>

S == INSTANCE STM WITH
  Objects <- {Counters}, Values <- Nat, Zero <- 0,
  MaxOps <- Len(Program), BlindStores <- FALSE, StmAborts <- FALSE

Q == INSTANCE EventLoop WITH
  MaxEvents <- Len(Batches), StartTogether <- TRUE,
  mutex <- queue_mutex, pc <- loop

Init ==
  /\ S!Init
  /\ Q!Init
  /\ step = [t \in Threads |-> 1]
  /\ value = [t \in Threads |-> 0]
  /\ global_count = [t \in Threads |-> 0]
  /\ printed = << >>

-----------------------------------------------------------------------------
(* The script calls async() once for every batch; then it is committed. *)
RunScript ==
  /\ IF created < Len(Batches)
     THEN Q!Async(Main) /\ loop[Main] = "script"
     ELSE Q!CommitScript
  /\ UNCHANGED <<stm, program>>

LockQueue(t) == Q!LockQueue(t) /\ UNCHANGED <<stm, program>>

InQueue(t) ==
  /\ \/ Q!EnterLoop(t) \/ Q!CountOut(t) \/ Q!TakeEvent(t) \/ Q!CountIn(t)
     \/ Q!LeaveLoop(t) \/ Q!SpinAgain(t) \/ Q!DeleteEvent(t)
  /\ UNCHANGED <<stm, program>>

Join == Q!Join /\ UNCHANGED <<stm, program>>

(* STM::StartTransaction, and the event's function is called. *)
Begin(t) ==
  /\ Q!StartTransaction(t)
  /\ S!StartTransaction(t)
  /\ step' = [step EXCEPT ![t] = 1]
  /\ value' = [value EXCEPT ![t] = 0]
  /\ global_count' = [global_count EXCEPT ![t] = 0]
  /\ UNCHANGED printed

(* What happens inside a redirected operation and inside a commit. *)
InTransaction(t) ==
  /\ \/ S!AddRead(t) \/ S!AddWrite(t)
     \/ \E w \in S!Words : S!CopyWord(t, w) \/ S!CommitWord(t, w)
     \/ S!LockCommit(t) \/ S!LockTransactions(t)
     \/ \E u \in Threads : S!LockTransaction(t, u) \/ S!AbortConflicting(t, u)
     \/ S!AllLocked(t) \/ S!BeginCommitHeap(t) \/ S!UnlockTransactions(t)
  /\ UNCHANGED <<queue, program>>

Operation(t, op) == step[t] < PrintStep /\ Program[step[t]][1] = op

Redirect(t) ==
  /\ \/ Operation(t, "load")  /\ S!RedirectLoad(t, Counters)
     \/ Operation(t, "store") /\ S!RedirectStore(t, Counters)
  /\ UNCHANGED <<queue, program>>

(* counters.f, and the result of inc_primes when it returns. *)
Load(t) ==
  LET f == Program[step[t]][2]
      w == <<Counters, f>>
      v == IF Counters \in write_set[t] THEN copy[t][w] ELSE heap[w]
  IN  /\ Operation(t, "load")
      /\ S!Load(t, f)
      /\ value' = [value EXCEPT ![t] = v]
      /\ global_count' = IF step[t] = 3 THEN [global_count EXCEPT ![t] = v]
                         ELSE global_count
      /\ step' = [step EXCEPT ![t] = @ + 1]
      /\ UNCHANGED <<queue, printed>>

(* A batch stands for one processed unit and Batches[e] primes. *)
Increment(t, f) == IF f = "primes" THEN Batches[event[t]] ELSE 1

(* counters.f += n, with the value loaded before. *)
Store(t) ==
  LET f == Program[step[t]][2]
  IN  /\ Operation(t, "store")
      /\ S!Store(t, f, value[t] + Increment(t, f))
      /\ step' = [step EXCEPT ![t] = @ + 1]
      /\ UNCHANGED <<queue, value, global_count, printed>>

(* print() does not look at aborted_ and cannot be taken back. *)
PrintResult(t) ==
  /\ pc[t] = "run"
  /\ step[t] = PrintStep
  /\ printed' = IF value[t] >= Len(Batches)
                THEN Append(printed, global_count[t]) ELSE printed
  /\ step' = [step EXCEPT ![t] = LastStep]
  /\ UNCHANGED <<stm, aborted, queue, value, global_count>>

(* The function returns, or a redirected operation terminates it. *)
EndEvent(t) ==
  /\ step[t] = LastStep \/ (step[t] < PrintStep /\ aborted[t])
  /\ S!EndEvent(t)
  /\ UNCHANGED <<queue, program>>

(* STM::CommitTransaction returns; the event is deleted or restarted. *)
EndCommit(t) ==
  /\ S!RemoveTransaction(t)
  /\ IF aborted[t]
     THEN Q!Restart(t)
     ELSE /\ loop' = [loop EXCEPT ![t] = "delete"]
          /\ handled' = handled \cup {event[t]}
          /\ UNCHANGED <<event_queue, running_threads, total_transactions,
                         aborted_transactions, queue_mutex, active, event,
                         register, created>>
  /\ UNCHANGED program

-----------------------------------------------------------------------------
Continue(t) ==
  \/ InQueue(t) \/ Begin(t) \/ InTransaction(t)
  \/ Redirect(t) \/ Load(t) \/ Store(t) \/ PrintResult(t)
  \/ EndEvent(t) \/ EndCommit(t)

Next ==
  \/ RunScript \/ Join
  \/ \E t \in Threads : LockQueue(t) \/ Continue(t)

Spec == Init /\ [][Next]_vars

(* A thread that can go on does, and the queue's mutex is not denied       *)
(* forever to a thread that waits for it.  No more is asked of the mutexes *)
(* of the STM.                                                             *)
FairSpec ==
  /\ Spec
  /\ WF_vars(RunScript) /\ WF_vars(Join)
  /\ \A t \in Threads : WF_vars(Continue(t)) /\ SF_vars(LockQueue(t))

-----------------------------------------------------------------------------
(* SAFETY.  The result is printed at most once and it is the number of all *)
(* primes, although print runs inside transactions that may be restarted   *)
(* and reads counters that other threads are about to change.              *)
PrintedOnce == printed \in {<< >>, <<Total>>}

(* SAFETY.  When main returns the result has been printed and the counters *)
(* hold the sums over all batches: no event's update is lost, none counted *)
(* twice, however often events were restarted.                             *)
ResultsComplete ==
  loop[Main] = "exit" =>
    /\ printed = <<Total>>
    /\ heap[<<Counters, "primes">>] = Total
    /\ heap[<<Counters, "processed">>] = Len(Batches)

(* LIVENESS.  The program ends: of the transactions that abort each other  *)
(* one always commits, restarted events get through, and every thread      *)
(* finds the queue empty and nobody running.                               *)
Terminates == <>(loop[Main] = "exit")

(* REFINEMENT.  An event counts as committed when the transactions it      *)
(* conflicts with can no longer escape, and those are then doomed.         *)
Committed(t) ==
  pc[t] \in {"conflict", "heap"} \/ (pc[t] = "remove" /\ ~ aborted[t])

LoopLabel ==
  [t \in Threads |->
     IF loop[t] = "execute" /\ Committed(t) THEN "delete" ELSE loop[t]]

Done ==
  handled \cup {event[t] : t \in {u \in Threads :
                  loop[u] = "execute" /\ Committed(u)}}

IsDoomed(u) ==
  \/ aborted[u]
  \/ \E t \in Threads :
       pc[t] = "conflict" /\ u \in visit /\ S!HasConflicts(u, t)
Doomed == [u \in Threads |-> IsDoomed(u)]

L == INSTANCE EventLoop WITH
  MaxEvents <- Len(Batches), StartTogether <- TRUE, mutex <- queue_mutex,
  pc <- LoopLabel, handled <- Done, aborted <- Doomed

(* With the transactions of module STM the event loops do what module      *)
(* EventLoop says of them with its abstract transactions.                  *)
LoopSpec == L!Spec

-----------------------------------------------------------------------------
(* The invariant that the proofs need, besides those of the components.    *)

TypeOK ==
  /\ loop \in [Threads -> Q!Labels]
  /\ event \in [Threads -> Q!Events \cup {Q!NoEvent}]
  /\ step \in [Threads -> 1 .. LastStep]
  /\ value \in [Threads -> Nat]
  /\ global_count \in [Threads -> Nat]

Word(f) == <<Counters, f>>

(* A thread has a transaction while it executes an event, and the loops    *)
(* begin when the script has called async() for all batches.               *)
ControlInv ==
  /\ \A t \in Threads : pc[t] # "none" <=> loop[t] = "execute"
  /\ loop[Main] # "script" => created = Len(Batches)

(* How far the event is: where it is inside an operation, and what the     *)
(* operations before have left in its transaction.                         *)
Progress(t) ==
  /\ pc[t] \in {"addRead", "load"} => step[t] \in {1, 3, 4, 6}
  /\ pc[t] \in {"copy", "store"} => step[t] \in {2, 5}
  /\ pc[t] \notin {"run", "addRead", "load", "copy", "store"} =>
       aborted[t] \/ step[t] = LastStep
  /\ step[t] <= 2 => written[t] = {}
  /\ step[t] = 2 => <<Word("primes"), value[t]>> \in reads[t]
  /\ step[t] >= 2 => Counters \in read_set[t]
  /\ step[t] >= 3 =>
       /\ Counters \in write_set[t]
       /\ Word("primes") \in written[t]
       /\ \E r \in reads[t] :
            /\ r[1] = Word("primes")
            /\ copy[t][Word("primes")] = r[2] + Batches[event[t]]
  /\ step[t] >= 4 => global_count[t] = copy[t][Word("primes")]
  /\ step[t] <= 5 => Word("processed") \notin written[t]
  /\ step[t] = 5 => /\ <<Word("processed"), value[t]>> \in reads[t]
                    /\ value[t] = copy[t][Word("processed")]
  /\ step[t] >= 6 =>
       \E r \in reads[t] : /\ r[1] = Word("processed")
                           /\ copy[t][Word("processed")] = r[2] + 1
  /\ step[t] >= PrintStep => value[t] = copy[t][Word("processed")]

ProgressInv == \A t \in Threads : loop[t] = "execute" => Progress(t)

(* The counters hold the sums over the committed events, except while a    *)
(* commit is copying them back; then its private copy does.                *)
Publishing(t) == pc[t] \in {"conflict", "heap"}

SumsInv ==
  /\ \A t \in Threads : Publishing(t) =>
       /\ copy[t][Word("primes")] = SumOver(Done)
       /\ copy[t][Word("processed")] = Cardinality(Done)
       /\ pc[t] = "heap" => \A f \in Fields :
            Word(f) \in todo[t] \/ heap[Word(f)] = copy[t][Word(f)]
  /\ (\A t \in Threads : ~ Publishing(t)) =>
       /\ heap[Word("primes")] = SumOver(Done)
       /\ heap[Word("processed")] = Cardinality(Done)

(* The events that have yet to commit. *)
Pending(t) == loop[t] = "execute" /\ ~ Committed(t)

(* The number of processed batches the event arrives at, from the moment   *)
(* it has passed the first test of aborted_ with a private copy.           *)
Arrives(t) == step[t] > 3 \/ (step[t] = 3 /\ pc[t] = "load")
Reckoning(t) == copy[t][Word("processed")] + (IF step[t] <= 5 THEN 1 ELSE 0)

(* An event that is doomed comes out too low. *)
ReckoningInv ==
  \A t \in Threads : Pending(t) /\ Arrives(t) =>
    /\ Reckoning(t) <= Cardinality(Done) + 1
    /\ IsDoomed(t) => Reckoning(t) <= Cardinality(Done)

(* Who prints is the last, and nobody can abort it. *)
Last(t) == /\ Pending(t) /\ ~ IsDoomed(t) /\ step[t] = LastStep
           /\ Cardinality(Done) + 1 = Len(Batches)

PrintInv ==
  /\ printed \in {<< >>, <<Total>>}
  /\ printed # << >> =>
       Cardinality(Done) = Len(Batches) \/ \E t \in Threads : Last(t)
  /\ Cardinality(Done) = Len(Batches) => printed # << >>
  /\ \A t \in Threads :
       Pending(t) /\ step[t] = LastStep /\ Reckoning(t) >= Len(Batches) =>
         printed # << >>

ProgramInv ==
  /\ TypeOK /\ ControlInv /\ ProgressInv
  /\ SumsInv /\ ReckoningInv /\ PrintInv

IndInv == S!IndInv /\ L!IndInv /\ ProgramInv
=============================================================================
