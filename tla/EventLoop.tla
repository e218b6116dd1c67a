----------------------------- MODULE EventLoop -----------------------------
(***************************************************************************)
(* The execution environment of src/w16/main.cc: main runs the script in a *)
(* transaction, starts the workers and joins them; every thread runs       *)
(* EventLoop, which takes events from the common queue, executes each as a *)
(* transaction until it commits, and leaves when the queue is empty and    *)
(* nobody is running.                                                      *)
(*                                                                         *)
(* A transaction is what module STM promises of it: CommitTransaction      *)
(* fails only if another transaction has committed since this one started. *)
(* Async takes effect at once, also in an attempt that is aborted later.   *)
(* `running_threads--' and `running_threads++' are a load and a store.     *)
(***************************************************************************)
EXTENDS Integers, Sequences, FiniteSets

CONSTANTS
  Threads,        \* the main thread and the workers
  Main,           \* the main thread
  MaxEvents,      \* bound: how often the program calls async()
  StartTogether,  \* have all threads entered EventLoop before one looks at
                  \* the queue?
  Nobody          \* the owner of a free mutex

ASSUME MainAssumption == Main \in Threads /\ Nobody \notin Threads
ASSUME ThreadsAssumption == IsFiniteSet(Threads)
ASSUME EventsAssumption == MaxEvents \in Nat /\ StartTogether \in BOOLEAN

VARIABLES
  event_queue,           \* Events are numbered in the order of their creation
  running_threads,
  total_transactions,
  aborted_transactions,
  mutex,                 \* the owner of the queue's mutex
  pc,                    \* what the thread is doing
  active,                \* EventLoop's locals
  event,
  register,              \* running_threads as the thread has loaded it
  aborted,               \* the thread's transaction is doomed
  created,               \* how many Events there have been
  handled                \* the events that are committed

statistics == <<total_transactions, aborted_transactions>>
locals == <<active, event, register>>
vars == <<event_queue, running_threads, statistics, mutex, pc, locals, aborted,
          created, handled>>

Workers == Threads \ {Main}
NoEvent == 0
Events  == 1 .. MaxEvents

(* Before EventLoop; inside its critical section and at its door; running  *)
(* a transaction; after EventLoop.                                         *)
Labels == {"script", "new", "lock", "countOut", "take", "countIn",
           "begin", "execute", "delete", "done", "exit"}

TypeOK ==
  /\ event_queue \in Seq(Events)
  /\ running_threads \in Int
  /\ total_transactions \in Nat
  /\ aborted_transactions \in Nat
  /\ mutex \in Threads \cup {Nobody}
  /\ pc \in [Threads -> Labels]
  /\ active \in [Threads -> BOOLEAN]
  /\ event \in [Threads -> Events \cup {NoEvent}]
  /\ register \in [Threads -> Int]
  /\ aborted \in [Threads -> BOOLEAN]
  /\ created \in 0 .. MaxEvents
  /\ handled \in SUBSET Events

Init ==
  /\ event_queue = << >>
  /\ running_threads = 0
  /\ total_transactions = 0
  /\ aborted_transactions = 0
  /\ mutex = Nobody
  /\ pc = [t \in Threads |-> IF t = Main THEN "script" ELSE "new"]
  /\ active = [t \in Threads |-> TRUE]
  /\ event = [t \in Threads |-> NoEvent]
  /\ register = [t \in Threads |-> 0]
  /\ aborted = [t \in Threads |-> FALSE]
  /\ created = 0
  /\ handled = {}

-----------------------------------------------------------------------------
Goto(t, from, to) == pc[t] = from /\ pc' = [pc EXCEPT ![t] = to]

(* Async, called by the script or by an event's function. *)
Async(t) ==
  /\ pc[t] \in {"script", "execute"}
  /\ mutex = Nobody
  /\ created < MaxEvents
  /\ created' = created + 1
  /\ event_queue' = Append(event_queue, created + 1)
  /\ UNCHANGED <<running_threads, statistics, mutex, pc, locals, aborted,
                 handled>>

(* main: the script's transaction is alone and commits.  Then the workers  *)
(* are started.                                                            *)
CommitScript ==
  /\ Goto(Main, "script", "new")
  /\ UNCHANGED <<event_queue, running_threads, statistics, mutex, locals,
                 aborted, created, handled>>

(* EventLoop begins with Barrier_AtomicIncrement, outside the mutex. *)
EnterLoop(t) ==
  /\ pc[Main] # "script"
  /\ Goto(t, "new", "lock")
  /\ running_threads' = running_threads + 1
  /\ UNCHANGED <<event_queue, statistics, mutex, locals, aborted, created,
                 handled>>

-----------------------------------------------------------------------------
(* The critical section: a thread that is counted counts itself out, ...   *)
LockQueue(t) ==
  /\ mutex = Nobody
  /\ StartTogether => \A u \in Threads : pc[u] # "new"
  /\ mutex' = t
  /\ Goto(t, "lock", IF active[t] THEN "countOut" ELSE "take")
  /\ register' = [register EXCEPT ![t] =
                    IF active[t] THEN running_threads ELSE @]
  /\ UNCHANGED <<event_queue, running_threads, statistics, active, event,
                 aborted, created, handled>>

CountOut(t) ==
  /\ Goto(t, "countOut", "take")
  /\ running_threads' = register[t] - 1
  /\ active' = [active EXCEPT ![t] = FALSE]
  /\ UNCHANGED <<event_queue, statistics, mutex, event, register, aborted,
                 created, handled>>

(* Faulty variant: front() without pop(). *)
TakeEventUnpopped(t) ==
  /\ event_queue # << >>
  /\ Goto(t, "take", "countIn")
  /\ event' = [event EXCEPT ![t] = Head(event_queue)]
  /\ register' = [register EXCEPT ![t] = running_threads]
  /\ UNCHANGED <<event_queue, running_threads, statistics, mutex, active,
                 aborted, created, handled>>

(* ... takes an event and counts itself back in, ...                       *)
TakeEvent(t) ==
  /\ event_queue # << >>
  /\ Goto(t, "take", "countIn")
  /\ event' = [event EXCEPT ![t] = Head(event_queue)]
  /\ event_queue' = Tail(event_queue)
  /\ register' = [register EXCEPT ![t] = running_threads]
  /\ UNCHANGED <<running_threads, statistics, mutex, active, aborted, created,
                 handled>>

(* Faulty variant: the thread is active again but not counted. *)
CountInForgotten(t) ==
  /\ Goto(t, "countIn", "begin")
  /\ active' = [active EXCEPT ![t] = TRUE]
  /\ mutex' = Nobody
  /\ UNCHANGED <<event_queue, running_threads, statistics, event, register,
                 aborted, created, handled>>

CountIn(t) ==
  /\ Goto(t, "countIn", "begin")
  /\ running_threads' = register[t] + 1
  /\ active' = [active EXCEPT ![t] = TRUE]
  /\ mutex' = Nobody
  /\ UNCHANGED <<event_queue, statistics, event, register, aborted, created,
                 handled>>

(* Faulty variant: the thread leaves although others may be running. *)
LeaveLoopWhenEmpty(t) ==
  /\ event_queue = << >>
  /\ Goto(t, "take", "done")
  /\ mutex' = Nobody
  /\ UNCHANGED <<event_queue, running_threads, statistics, locals, aborted,
                 created, handled>>

(* ... or finds no event, and leaves the loop if nobody is running ...     *)
LeaveLoop(t) ==
  /\ event_queue = << >>
  /\ running_threads = 0
  /\ Goto(t, "take", "done")
  /\ mutex' = Nobody
  /\ UNCHANGED <<event_queue, running_threads, statistics, locals, aborted,
                 created, handled>>

(* ... or tries again. *)
SpinAgain(t) ==
  /\ event_queue = << >>
  /\ running_threads # 0
  /\ Goto(t, "take", "lock")
  /\ mutex' = Nobody
  /\ UNCHANGED <<event_queue, running_threads, statistics, locals, aborted,
                 created, handled>>

-----------------------------------------------------------------------------
(* The inner loop: one attempt after the other until one is committed. *)
StartTransaction(t) ==
  /\ Goto(t, "begin", "execute")
  /\ total_transactions' = total_transactions + 1
  /\ UNCHANGED <<event_queue, running_threads, aborted_transactions, mutex,
                 locals, aborted, created, handled>>

(* CommitTransaction returns true, dooming the transactions in conflict. *)
Commit(t) ==
  /\ ~ aborted[t]
  /\ Goto(t, "execute", "delete")
  /\ \E doomed \in SUBSET {u \in Threads \ {t} : pc[u] = "execute"} :
       aborted' = [u \in Threads |-> aborted[u] \/ u \in doomed]
  /\ handled' = handled \cup {event[t]}
  /\ UNCHANGED <<event_queue, running_threads, statistics, mutex, locals,
                 created>>

(* Faulty variant: the event is deleted with its first attempt. *)
RestartDeleting(t) ==
  /\ aborted[t]
  /\ Goto(t, "execute", "begin")
  /\ aborted_transactions' = aborted_transactions + 1
  /\ aborted' = [aborted EXCEPT ![t] = FALSE]
  /\ event' = [event EXCEPT ![t] = NoEvent]
  /\ UNCHANGED <<event_queue, running_threads, total_transactions, mutex,
                 active, register, created, handled>>

(* Faulty variant: the aborted attempt is not counted. *)
RestartUncounted(t) ==
  /\ aborted[t]
  /\ Goto(t, "execute", "begin")
  /\ aborted' = [aborted EXCEPT ![t] = FALSE]
  /\ UNCHANGED <<event_queue, running_threads, statistics, mutex, locals,
                 created, handled>>

(* CommitTransaction has deleted the transaction and returns false. *)
Restart(t) ==
  /\ aborted[t]
  /\ Goto(t, "execute", "begin")
  /\ aborted' = [aborted EXCEPT ![t] = FALSE]
  /\ aborted_transactions' = aborted_transactions + 1
  /\ UNCHANGED <<event_queue, running_threads, total_transactions, mutex,
                 locals, created, handled>>

(* delete e, and back to the queue. *)
DeleteEvent(t) ==
  /\ Goto(t, "delete", "lock")
  /\ event' = [event EXCEPT ![t] = NoEvent]
  /\ UNCHANGED <<event_queue, running_threads, statistics, mutex, active,
                 register, aborted, created, handled>>

(* main: join the workers and print the statistics. *)
Join ==
  /\ \A t \in Workers : pc[t] = "done"
  /\ Goto(Main, "done", "exit")
  /\ UNCHANGED <<event_queue, running_threads, statistics, mutex, locals,
                 aborted, created, handled>>

-----------------------------------------------------------------------------
Continue(t) ==
  \/ EnterLoop(t)
  \/ CountOut(t) \/ TakeEvent(t) \/ CountIn(t) \/ LeaveLoop(t) \/ SpinAgain(t)
  \/ StartTransaction(t) \/ Commit(t) \/ Restart(t) \/ DeleteEvent(t)

Next ==
  \/ CommitScript \/ Join
  \/ \E t \in Threads : LockQueue(t) \/ Continue(t) \/ Async(t)

Spec == Init /\ [][Next]_vars

(* A thread that can go on does, every event's function returns, and the   *)
(* queue's mutex is not denied forever to a thread that waits for it.      *)
Fairness ==
  /\ WF_vars(CommitScript) /\ WF_vars(Join)
  /\ \A t \in Threads : WF_vars(Continue(t)) /\ SF_vars(LockQueue(t))

FairSpec == Spec /\ Fairness

-----------------------------------------------------------------------------
(* The thread has taken the event and not committed it. *)
HasEvent(t) == pc[t] \in {"countIn", "begin", "execute"}
InHand(t, e) == HasEvent(t) /\ event[t] = e

Queued(e) == {i \in DOMAIN event_queue : event_queue[i] = e}

(* SAFETY.  No event is lost or executed to a commit twice: each is once   *)
(* in the queue, or in the hands of one thread, or committed, however      *)
(* often its transaction is restarted.                                     *)
EventsAccounted ==
  \A e \in 1 .. created :
    Cardinality(Queued(e)) + Cardinality({t \in Threads : InHand(t, e)})
      + (IF e \in handled THEN 1 ELSE 0) = 1

(* SAFETY.  A thread leaves EventLoop only when the queue is empty and the *)
(* others are idle, and so all work is done (main.cc:93).                  *)
ExitSound ==
  (\E t \in Threads : pc[t] \in {"done", "exit"}) => handled = 1 .. created

(* SAFETY.  The statistics main prints count every attempt: all but one    *)
(* per event were aborted.                                                 *)
StatisticsAddUp ==
  pc[Main] = "exit" =>
    total_transactions - aborted_transactions = Cardinality(handled)

(* LIVENESS.  The program stops once all threads are idle and the queue is *)
(* empty (main.cc:247): restarted events commit in the end, every thread   *)
(* leaves its loop and main joins them.                                    *)
Terminates == <>(pc[Main] = "exit")

-----------------------------------------------------------------------------
(* The invariant that the proofs of the safety properties need.            *)

(* The threads that running_threads counts. *)
Counted ==
  {t \in Threads : \/ pc[t] \in {"countOut", "begin", "execute", "delete"}
                   \/ pc[t] = "lock" /\ active[t]}

Executing == {t \in Threads : pc[t] = "execute"}

ControlInv ==
  /\ \A t \in Threads :
       /\ pc[t] \in {"countOut", "take", "countIn"} <=> mutex = t
       /\ pc[t] \in {"script", "new", "countOut", "begin", "execute", "delete"} =>
            active[t]
       /\ pc[t] \in {"take", "countIn", "done", "exit"} => ~ active[t]
       /\ pc[t] = "script" => t = Main
  /\ pc[Main] = "script" => \A t \in Workers : pc[t] = "new"

(* An event is in one place, and so is the index of the queue it is at.    *)
QueueInv ==
  /\ handled \subseteq 1 .. created
  /\ \A i \in DOMAIN event_queue :
       /\ event_queue[i] \in (1 .. created) \ handled
       /\ \A j \in DOMAIN event_queue : event_queue[i] = event_queue[j] => i = j
       /\ \A t \in Threads : ~ InHand(t, event_queue[i])
  /\ \A t \in Threads : HasEvent(t) =>
       /\ event[t] \in (1 .. created) \ handled
       /\ \A u \in Threads : InHand(u, event[t]) => u = t
  /\ \A e \in (1 .. created) \ handled :
       \/ \E i \in DOMAIN event_queue : event_queue[i] = e
       \/ \E t \in Threads : InHand(t, e)

(* If the threads start together, running_threads is right whenever no     *)
(* thread is changing it, and who leaves the loop leaves nothing behind.   *)
CountInv ==
  StartTogether =>
    /\ (\E t \in Threads : pc[t] \notin {"script", "new", "lock"} \/ ~ active[t]) =>
         \A u \in Threads : pc[u] \notin {"script", "new"}
    /\ running_threads = Cardinality(Counted)
    /\ \A t \in Threads : pc[t] \in {"countOut", "countIn"} =>
         register[t] = running_threads
    /\ (\E t \in Threads : pc[t] \in {"done", "exit"}) =>
         /\ event_queue = << >>
         /\ Counted = {}
         /\ \A t \in Threads : pc[t] # "countIn"

StatisticsInv ==
  total_transactions - aborted_transactions =
    Cardinality(handled) + Cardinality(Executing)

IndInv == TypeOK /\ ControlInv /\ QueueInv /\ CountInv /\ StatisticsInv
=============================================================================
