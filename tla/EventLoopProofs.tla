-------------------------- MODULE EventLoopProofs --------------------------
(***************************************************************************)
(* Proofs about module EventLoop, for any number of threads and events.    *)
(***************************************************************************)
EXTENDS EventLoop, FiniteSetTheorems, TLAPS

(* Zenon is tried on the leaves that name no other prover.                 *)
USE ZenonT(30)

(* What Append does to the queue (Async).                                  *)
LEMMA AppendFacts ==
  ASSUME NEW S, NEW q \in Seq(S), NEW x \in S
  PROVE  /\ Append(q, x) \in Seq(S)
         /\ DOMAIN Append(q, x) = 1 .. Len(q) + 1
         /\ DOMAIN q = 1 .. Len(q) /\ Len(q) \in Nat
         /\ \A i \in 1 .. Len(q) : Append(q, x)[i] = q[i]
         /\ Append(q, x)[Len(q) + 1] = x
BY SMT

(* What front and pop do to it (TakeEvent).                                *)
LEMMA TailFacts ==
  ASSUME NEW S, NEW q \in Seq(S), q # << >>
  PROVE  /\ Tail(q) \in Seq(S) /\ Head(q) \in S /\ Head(q) = q[1]
         /\ Len(q) \in Nat \ {0}
         /\ DOMAIN q = 1 .. Len(q)
         /\ DOMAIN Tail(q) = 1 .. Len(q) - 1
         /\ \A i \in 1 .. Len(q) - 1 : Tail(q)[i] = q[i + 1]
BY SMT

(* How the counters of sets of threads and of events change.               *)
LEMMA CountFacts ==
  ASSUME NEW S \in SUBSET Threads, NEW t \in Threads
  PROVE  /\ Cardinality(S) \in Nat
         /\ t \notin S => Cardinality(S \cup {t}) = Cardinality(S) + 1
         /\ t \in S => Cardinality(S \ {t}) = Cardinality(S) - 1
         /\ Cardinality(S) = 0 => S = {}
<1>1. IsFiniteSet(S)
  BY ThreadsAssumption, FS_Subset
<1> QED  BY <1>1, FS_CardinalityType, FS_AddElement, FS_RemoveElement, FS_EmptySet

(* The same for the events that are committed.                             *)
LEMMA HandledFacts ==
  ASSUME TypeOK
  PROVE  /\ Cardinality(handled) \in Nat
         /\ \A e \in Events \ handled :
              Cardinality(handled \cup {e}) = Cardinality(handled) + 1
<1>1. IsFiniteSet(Events)
  BY EventsAssumption, FS_Interval, SMT DEF Events
<1>2. IsFiniteSet(handled)
  BY <1>1, FS_Subset DEF TypeOK
<1> QED  BY <1>2, FS_CardinalityType, FS_AddElement

(* Steps that leave every event where it is.                               *)
LEMMA HandsUnchanged ==
  ASSUME QueueInv, UNCHANGED <<event_queue, created, handled>>,
         \A u \in Threads : /\ HasEvent(u)' <=> HasEvent(u)
                            /\ HasEvent(u) => event'[u] = event[u]
  PROVE  QueueInv'
<1>1. \A u \in Threads : \A e : InHand(u, e)' <=> InHand(u, e)
  BY DEF InHand
<1> QED  BY <1>1 DEF QueueInv

(* Steps that leave the counter and those it counts alone.                 *)
LEMMA CountUnchanged ==
  ASSUME CountInv, TypeOK, NEW t \in Threads,
         UNCHANGED <<running_threads, event_queue, Counted>>,
         \A u \in Threads \ {t} : UNCHANGED <<pc[u], active[u], register[u]>>,
         pc[t] \notin {"script", "new", "lock"} \/ ~ active[t],
         pc'[t] \notin {"script", "new", "countOut", "countIn", "done", "exit"}
  PROVE  CountInv'
<1> SUFFICES ASSUME StartTogether PROVE CountInv'
  BY DEF CountInv
<1>1. \A u \in Threads : pc'[u] \notin {"script", "new"}
  BY DEF CountInv
<1>2. \A u \in Threads : pc'[u] \in {"countOut", "countIn", "done", "exit"} =>
        pc'[u] = pc[u] /\ register'[u] = register[u]
  OBVIOUS
<1>3. running_threads' = Cardinality(Counted')
  BY DEF CountInv
<1> QED  BY <1>1, <1>2, <1>3 DEF CountInv

(* Only the queue grows, by an event that was nowhere before.              *)
LEMMA AsyncPreserves ==
  ASSUME IndInv, NEW t \in Threads, Async(t)
  PROVE  IndInv'
<1>a. created + 1 \in Events /\ created \in Nat
  BY EventsAssumption, SMT DEF Async, IndInv, TypeOK, Events
<1>b. /\ event_queue' \in Seq(Events) /\ Len(event_queue) \in Nat
      /\ DOMAIN event_queue' = 1 .. Len(event_queue) + 1
      /\ DOMAIN event_queue = 1 .. Len(event_queue)
      /\ \A i \in 1 .. Len(event_queue) : event_queue'[i] = event_queue[i]
      /\ event_queue'[Len(event_queue) + 1] = created + 1
  BY <1>a, AppendFacts, SMT DEF Async, IndInv, TypeOK
<1>1. TypeOK'
  BY <1>a, <1>b, SMT DEF Async, locals, statistics, IndInv, TypeOK, Events
<1>2. ControlInv'
  BY MainAssumption DEF Async, Goto, locals, statistics, IndInv, TypeOK,
     ControlInv, Workers
<1>3. QueueInv'
  <2> DEFINE new == Len(event_queue) + 1
  <2>1. \A u \in Threads : (HasEvent(u)' <=> HasEvent(u)) /\ event'[u] = event[u]
    BY DEF Async, locals, HasEvent
  <2>2. created' = created + 1 /\ handled' = handled /\ handled \subseteq 1 .. created
    BY DEF Async, IndInv, QueueInv
  <2>3. \A i \in DOMAIN event_queue' :
          \/ i \in DOMAIN event_queue /\ event_queue'[i] = event_queue[i]
          \/ i = new /\ event_queue'[i] = created + 1
    BY <1>b, SMT
  <2>4. \A i \in DOMAIN event_queue' :
          /\ event_queue'[i] \in (1 .. created') \ handled'
          /\ \A j \in DOMAIN event_queue' : event_queue'[i] = event_queue'[j] => i = j
    BY <1>a, <2>2, <2>3, SMT DEF IndInv, QueueInv
  <2>5. \A u \in Threads : HasEvent(u) => /\ event[u] \in (1 .. created') \ handled'
                                          /\ event[u] \in 1 .. created
    BY <1>a, <2>2, SMT DEF IndInv, QueueInv
  <2>6. \A u, v \in Threads :
          HasEvent(u) /\ HasEvent(v) /\ event[v] = event[u] => v = u
    BY DEF IndInv, QueueInv, InHand
  <2>7. ASSUME NEW i \in DOMAIN event_queue', NEW u \in Threads, HasEvent(u),
               event[u] = event_queue'[i]
        PROVE  FALSE
    <3>1. CASE i \in DOMAIN event_queue /\ event_queue'[i] = event_queue[i]
      BY <2>7, <3>1 DEF IndInv, QueueInv, InHand
    <3>2. CASE event_queue'[i] = created + 1
      BY <1>a, <2>5, <2>7, <3>2, SMT
    <3> QED  BY <2>3, <3>1, <3>2
  <2>8. ASSUME NEW e \in (1 .. created') \ handled'
        PROVE  \/ \E i \in DOMAIN event_queue' : event_queue'[i] = e
               \/ \E u \in Threads : HasEvent(u) /\ event[u] = e
    <3>1. CASE e = created + 1
      BY <1>b, <3>1, SMT
    <3>2. CASE e \in 1 .. created
      BY <1>b, <2>2, <3>2, SMT DEF IndInv, QueueInv, InHand
    <3> QED  BY <1>a, <2>2, <3>1, <3>2, SMT
  <2>9. /\ \A i \in DOMAIN event_queue', u \in Threads : ~ InHand(u, event_queue[i])'
        /\ \A u, v \in Threads : HasEvent(u)' /\ InHand(v, event[u])' => v = u
    BY <2>1, <2>6, <2>7 DEF InHand
  <2>10. \A e \in (1 .. created') \ handled' :
           \/ \E i \in DOMAIN event_queue' : event_queue'[i] = e
           \/ \E u \in Threads : InHand(u, e)'
    BY <2>1, <2>8 DEF InHand
  <2>11. \A u \in Threads : HasEvent(u)' => event'[u] \in (1 .. created') \ handled'
    BY <2>1, <2>5
  <2>12. handled' \subseteq 1 .. created'
    BY <1>a, <2>2, SMT
  <2> QED  BY <2>4, <2>9, <2>10, <2>11, <2>12 DEF QueueInv
<1>c. Counted' = Counted
  BY DEF Async, Goto, locals, IndInv, TypeOK, Counted
<1>d. StartTogether => \A u \in Threads : pc[u] \notin {"done", "exit"}
  <2>1. CASE pc[t] = "script"
    BY <2>1 DEF IndInv, CountInv
  <2>2. CASE pc[t] = "execute"
    BY <2>2 DEF IndInv, CountInv, Counted
  <2> QED  BY <2>1, <2>2 DEF Async
<1>e. UNCHANGED <<running_threads, pc, active, register>>
  BY DEF Async, locals
<1>4. CountInv'
  BY <1>c, <1>d, <1>e DEF IndInv, CountInv
<1>5. StatisticsInv'
  BY DEF Async, Goto, locals, statistics, IndInv, TypeOK, StatisticsInv,
     Executing
<1> QED  BY <1>1, <1>2, <1>3, <1>4, <1>5 DEF IndInv

(* The script's transaction is committed.                                  *)
LEMMA CommitScriptPreserves ==
  ASSUME IndInv, CommitScript
  PROVE  IndInv'
<1>1. TypeOK'
  BY DEF CommitScript, Goto, locals, statistics, IndInv, TypeOK, Labels,
     Events
<1>2. ControlInv'
  BY MainAssumption DEF CommitScript, Goto, locals, statistics, IndInv,
     TypeOK, ControlInv, Workers
<1>3. QueueInv'
  BY HandsUnchanged DEF CommitScript, Goto, locals, IndInv, TypeOK, HasEvent
<1>a. Counted' = Counted
  BY MainAssumption DEF CommitScript, Goto, locals, IndInv, TypeOK, Counted
<1>4. CountInv'
  BY <1>a, MainAssumption DEF CommitScript, Goto, locals, statistics, IndInv,
     TypeOK, ControlInv, CountInv
<1>5. StatisticsInv'
  BY DEF CommitScript, Goto, locals, statistics, IndInv, TypeOK,
     StatisticsInv, Executing
<1> QED  BY <1>1, <1>2, <1>3, <1>4, <1>5 DEF IndInv

(* A thread that enters the loop is counted; with a common start nobody    *)
(* else is changing the counter then.                                      *)
LEMMA EnterLoopPreserves ==
  ASSUME IndInv, NEW t \in Threads, EnterLoop(t)
  PROVE  IndInv'
<1>1. TypeOK'
  BY SMT DEF EnterLoop, Goto, locals, statistics, IndInv, TypeOK, Labels,
     Events
<1>2. ControlInv'
  BY MainAssumption DEF EnterLoop, Goto, locals, statistics, IndInv, TypeOK,
     ControlInv, Workers
<1>3. QueueInv'
  BY HandsUnchanged DEF EnterLoop, Goto, locals, IndInv, TypeOK, HasEvent
<1>4. CountInv'
  <2> SUFFICES ASSUME StartTogether PROVE CountInv'
    BY DEF CountInv
  <2>0. /\ pc[t] = "new" /\ pc' = [pc EXCEPT ![t] = "lock"] /\ active' = active /\ active[t]
        /\ pc \in [Threads -> Labels] /\ register' = register /\ event_queue' = event_queue
        /\ running_threads' = running_threads + 1
    BY DEF EnterLoop, Goto, locals, IndInv, TypeOK, ControlInv
  <2>1. \A u \in Threads : pc[u] \in {"script", "new", "lock"} /\ active[u]
    BY <2>0 DEF IndInv, CountInv
  <2>2. Counted' = Counted \cup {t} /\ t \notin Counted /\ Counted \in SUBSET Threads
    BY <2>0 DEF Counted
  <2>3. running_threads' = Cardinality(Counted')
    BY <2>0, <2>2, CountFacts DEF IndInv, CountInv
  <2>4. \A u \in Threads : pc'[u] \in {"script", "new", "lock"} /\ active'[u]
    BY <2>0, <2>1
  <2> QED  BY <2>3, <2>4 DEF CountInv
<1>5. StatisticsInv'
  BY DEF EnterLoop, Goto, locals, statistics, IndInv, TypeOK, StatisticsInv,
     Executing
<1> QED  BY <1>1, <1>2, <1>3, <1>4, <1>5 DEF IndInv

(* A thread enters the critical section and loads the counter.             *)
LEMMA LockQueuePreserves ==
  ASSUME IndInv, NEW t \in Threads, LockQueue(t)
  PROVE  IndInv'
<1>1. TypeOK'
  BY DEF LockQueue, Goto, locals, statistics, IndInv, TypeOK, Labels, Events
<1>2. ControlInv'
  BY MainAssumption DEF LockQueue, Goto, locals, statistics, IndInv, TypeOK,
     ControlInv, Workers
<1>3. QueueInv'
  BY HandsUnchanged DEF LockQueue, Goto, locals, IndInv, TypeOK, HasEvent
<1>4. CountInv'
  <2> SUFFICES ASSUME StartTogether PROVE CountInv'
    BY DEF CountInv
  <2>1. Counted' = Counted
    BY DEF LockQueue, Goto, Counted, IndInv, TypeOK, ControlInv
  <2>2. \A u \in Threads : pc'[u] \notin {"script", "new"}
    BY DEF LockQueue, Goto, IndInv, TypeOK, ControlInv, Workers
  <2>3. running_threads' = Cardinality(Counted') /\ running_threads' = running_threads
    BY <2>1 DEF LockQueue, IndInv, CountInv
  <2>4. ASSUME NEW u \in Threads, pc'[u] \in {"countOut", "countIn"}
        PROVE  register'[u] = running_threads'
    <3>1. u = t
      BY <2>4, MainAssumption DEF LockQueue, Goto, IndInv, TypeOK, ControlInv
    <3> QED  BY <2>3, <2>4, <3>1 DEF LockQueue, Goto, IndInv, TypeOK
  <2>5. \A u \in Threads : pc'[u] \in {"done", "exit", "countIn"} => pc[u] = pc'[u]
    BY DEF LockQueue, Goto, IndInv, TypeOK
  <2>6. event_queue' = event_queue
    BY DEF LockQueue
  <2> QED  BY <2>1, <2>2, <2>3, <2>4, <2>5, <2>6 DEF IndInv, CountInv
<1>5. StatisticsInv'
  BY DEF LockQueue, Goto, locals, statistics, IndInv, TypeOK, StatisticsInv,
     Executing
<1> QED  BY <1>1, <1>2, <1>3, <1>4, <1>5 DEF IndInv

(* The thread that has loaded the counter stores it: nobody has changed it *)
(* since.                                                                  *)
LEMMA CountOutPreserves ==
  ASSUME IndInv, NEW t \in Threads, CountOut(t)
  PROVE  IndInv'
<1>1. TypeOK'
  BY SMT DEF CountOut, Goto, locals, statistics, IndInv, TypeOK, Labels, Events
<1>2. ControlInv'
  BY MainAssumption DEF CountOut, Goto, locals, statistics, IndInv, TypeOK,
     ControlInv, Workers
<1>3. QueueInv'
  BY HandsUnchanged DEF CountOut, Goto, locals, IndInv, TypeOK, HasEvent
<1>4. CountInv'
  <2> SUFFICES ASSUME StartTogether PROVE CountInv'
    BY DEF CountInv
  <2>0. /\ pc[t] = "countOut" /\ pc' = [pc EXCEPT ![t] = "take"]
        /\ active' = [active EXCEPT ![t] = FALSE] /\ active \in [Threads -> BOOLEAN]
        /\ pc \in [Threads -> Labels] /\ register' = register /\ event_queue' = event_queue
        /\ running_threads' = running_threads - 1 /\ running_threads \in Int
    BY DEF CountOut, Goto, IndInv, TypeOK, CountInv
  <2>1. \A u \in Threads : pc'[u] \notin {"script", "new"}
    BY <2>0 DEF IndInv, CountInv
  <2>2. Counted' = Counted \ {t} /\ t \in Counted /\ Counted \in SUBSET Threads
    BY <2>0 DEF Counted
  <2>3. running_threads' = Cardinality(Counted')
    BY <2>0, <2>2, CountFacts DEF IndInv, CountInv
  <2>4. \A u \in Threads : pc'[u] \notin {"countOut", "countIn"}
    BY <2>0, MainAssumption DEF IndInv, ControlInv
  <2>5. \A u \in Threads : pc'[u] \notin {"done", "exit"}
    BY <2>0, <2>2 DEF IndInv, CountInv
  <2> QED  BY <2>1, <2>3, <2>4, <2>5 DEF CountInv
<1>5. StatisticsInv'
  BY DEF CountOut, Goto, locals, statistics, IndInv, TypeOK, StatisticsInv,
     Executing
<1> QED  BY <1>1, <1>2, <1>3, <1>4, <1>5 DEF IndInv

(* An event moves from the queue into the hands of the thread.             *)
LEMMA TakeEventPreserves ==
  ASSUME IndInv, NEW t \in Threads, TakeEvent(t)
  PROVE  IndInv'
<1> DEFINE q == event_queue
<1>a. /\ event_queue' \in Seq(Events) /\ Head(q) \in Events /\ Head(q) = q[1]
      /\ Len(q) \in Nat \ {0}
      /\ DOMAIN q = 1 .. Len(q)
      /\ DOMAIN event_queue' = 1 .. Len(q) - 1
      /\ \A i \in 1 .. Len(q) - 1 : event_queue'[i] = q[i + 1]
  BY TailFacts DEF TakeEvent, IndInv, TypeOK
<1>b. /\ event' = [event EXCEPT ![t] = Head(q)] /\ pc' = [pc EXCEPT ![t] = "countIn"]
      /\ pc[t] = "take" /\ created' = created /\ handled' = handled
      /\ event \in [Threads -> Events \cup {NoEvent}] /\ pc \in [Threads -> Labels]
  BY DEF TakeEvent, Goto, IndInv, TypeOK
<1>1. TypeOK'
  BY <1>a, <1>b DEF TakeEvent, statistics, IndInv, TypeOK, Labels
<1>2. ControlInv'
  BY MainAssumption DEF TakeEvent, Goto, locals, statistics, IndInv, TypeOK,
     ControlInv, Workers
<1>3. QueueInv'
  <2>1. \A u \in Threads : /\ u # t => HasEvent(u)' = HasEvent(u) /\ event'[u] = event[u]
                           /\ u = t => HasEvent(u)' /\ ~ HasEvent(u) /\ event'[u] = q[1]
    BY <1>a, <1>b DEF HasEvent
  <2>2. 1 \in DOMAIN q /\ \A i \in DOMAIN event_queue' :
          i + 1 \in DOMAIN q /\ event_queue'[i] = q[i + 1] /\ i + 1 # 1
    BY <1>a, SMT
  <2>3. \A i \in DOMAIN event_queue' :
          /\ event_queue'[i] \in (1 .. created') \ handled'
          /\ event_queue'[i] # q[1]
    BY <1>b, <2>2, SMT DEF IndInv, QueueInv
  <2>4. \A i, j \in DOMAIN event_queue' : event_queue'[i] = event_queue'[j] => i = j
    <3> SUFFICES ASSUME NEW i \in DOMAIN event_queue', NEW j \in DOMAIN event_queue',
                        event_queue'[i] = event_queue'[j]
                 PROVE  i = j
      OBVIOUS
    <3>1. i + 1 = j + 1
      BY <2>2, SMT DEF IndInv, QueueInv
    <3> QED  BY <1>a, <3>1, SMT
  <2>5. \A i \in DOMAIN event_queue', u \in Threads :
          HasEvent(u)' => event'[u] # event_queue'[i]
    BY <2>1, <2>2, <2>3, SMT DEF IndInv, QueueInv, InHand
  <2>6. \A u \in Threads : HasEvent(u)' => event'[u] \in (1 .. created') \ handled'
    BY <1>b, <2>1, <2>2 DEF IndInv, QueueInv
  <2>9. \A u, v \in Threads :
          HasEvent(u)' /\ HasEvent(v)' /\ event'[v] = event'[u] => v = u
    BY <2>1, <2>2, SMT DEF IndInv, QueueInv, InHand
  <2>7. ASSUME NEW e \in (1 .. created') \ handled'
        PROVE  \/ \E i \in DOMAIN event_queue' : event_queue'[i] = e
               \/ \E u \in Threads : HasEvent(u)' /\ event'[u] = e
    <3>1. CASE \E u \in Threads : InHand(u, e)
      BY <2>1, <3>1 DEF InHand
    <3>2. CASE e = q[1]
      BY <2>1, <3>2 DEF InHand
    <3>3. ASSUME NEW i \in DOMAIN q, q[i] = e, i # 1
          PROVE  \E j \in DOMAIN event_queue' : event_queue'[j] = e
      <4>1. i - 1 \in DOMAIN event_queue' /\ event_queue'[i - 1] = q[(i - 1) + 1]
        BY <1>a, <3>3, SMT
      <4> QED  BY <1>a, <3>3, <4>1, SMT
    <3> QED  BY <1>b, <3>1, <3>2, <3>3 DEF IndInv, QueueInv
  <2>8. handled' \subseteq 1 .. created'
    BY <1>b DEF IndInv, QueueInv
  <2> QED  BY <2>3, <2>4, <2>5, <2>6, <2>7, <2>8, <2>9 DEF QueueInv, InHand
<1>4. CountInv'
  BY MainAssumption DEF TakeEvent, Goto, locals, statistics, IndInv, TypeOK,
     ControlInv, CountInv, Counted
<1>5. StatisticsInv'
  BY DEF TakeEvent, Goto, locals, statistics, IndInv, TypeOK, StatisticsInv,
     Executing
<1> QED  BY <1>1, <1>2, <1>3, <1>4, <1>5 DEF IndInv

(* The thread is counted again before it leaves the critical section.      *)
LEMMA CountInPreserves ==
  ASSUME IndInv, NEW t \in Threads, CountIn(t)
  PROVE  IndInv'
<1>1. TypeOK'
  BY SMT DEF CountIn, Goto, locals, statistics, IndInv, TypeOK, Labels, Events
<1>2. ControlInv'
  BY MainAssumption DEF CountIn, Goto, locals, statistics, IndInv, TypeOK,
     ControlInv, Workers
<1>3. QueueInv'
  BY HandsUnchanged DEF CountIn, Goto, locals, IndInv, TypeOK, HasEvent
<1>4. CountInv'
  <2> SUFFICES ASSUME StartTogether PROVE CountInv'
    BY DEF CountInv
  <2>0. /\ pc[t] = "countIn" /\ pc' = [pc EXCEPT ![t] = "begin"]
        /\ active' = [active EXCEPT ![t] = TRUE] /\ active \in [Threads -> BOOLEAN]
        /\ pc \in [Threads -> Labels] /\ register' = register /\ event_queue' = event_queue
        /\ running_threads' = running_threads + 1 /\ running_threads \in Int
    BY DEF CountIn, Goto, IndInv, TypeOK, CountInv
  <2>1. \A u \in Threads : pc'[u] \notin {"script", "new"}
    BY <2>0 DEF IndInv, CountInv
  <2>2. Counted' = Counted \cup {t} /\ t \notin Counted /\ Counted \in SUBSET Threads
    BY <2>0 DEF Counted
  <2>3. running_threads' = Cardinality(Counted')
    BY <2>0, <2>2, CountFacts DEF IndInv, CountInv
  <2>4. \A u \in Threads : pc'[u] \notin {"countOut", "countIn"}
    BY <2>0, MainAssumption DEF IndInv, ControlInv
  <2>5. \A u \in Threads : pc'[u] \notin {"done", "exit"}
    BY <2>0, <2>2 DEF IndInv, CountInv
  <2> QED  BY <2>1, <2>3, <2>4, <2>5 DEF CountInv
<1>5. StatisticsInv'
  BY DEF CountIn, Goto, locals, statistics, IndInv, TypeOK, StatisticsInv,
     Executing
<1> QED  BY <1>1, <1>2, <1>3, <1>4, <1>5 DEF IndInv

(* A thread leaves the loop when the counter is 0: no event is in          *)
(* anybody's hands.                                                        *)
LEMMA LeaveLoopPreserves ==
  ASSUME IndInv, NEW t \in Threads, LeaveLoop(t)
  PROVE  IndInv'
<1>1. TypeOK'
  BY DEF LeaveLoop, Goto, locals, statistics, IndInv, TypeOK, Labels, Events
<1>2. ControlInv'
  BY MainAssumption DEF LeaveLoop, Goto, locals, statistics, IndInv, TypeOK,
     ControlInv, Workers
<1>3. QueueInv'
  BY HandsUnchanged DEF LeaveLoop, Goto, locals, IndInv, TypeOK, HasEvent
<1>4. CountInv'
  <2> SUFFICES ASSUME StartTogether PROVE CountInv'
    BY DEF CountInv
  <2>0. /\ pc[t] = "take" /\ pc' = [pc EXCEPT ![t] = "done"] /\ active' = active
        /\ ~ active[t] /\ running_threads = 0 /\ running_threads' = 0
        /\ pc \in [Threads -> Labels] /\ register' = register
        /\ event_queue' = << >>
    BY DEF LeaveLoop, Goto, locals, IndInv, TypeOK, ControlInv
  <2>1. \A u \in Threads : pc'[u] \notin {"script", "new"}
    BY <2>0 DEF IndInv, CountInv
  <2>2. Counted' = Counted /\ Counted \in SUBSET Threads
    BY <2>0 DEF Counted
  <2>3. Cardinality(Counted') = 0 /\ Counted' = {}
    BY <2>0, <2>2, CountFacts DEF IndInv, CountInv
  <2>4. \A u \in Threads : pc'[u] \notin {"countOut", "countIn"}
    BY <2>0, MainAssumption DEF IndInv, ControlInv
  <2> QED  BY <2>0, <2>1, <2>3, <2>4 DEF CountInv
<1>5. StatisticsInv'
  BY DEF LeaveLoop, Goto, locals, statistics, IndInv, TypeOK, StatisticsInv,
     Executing
<1> QED  BY <1>1, <1>2, <1>3, <1>4, <1>5 DEF IndInv

(* A thread that finds no event stays uncounted.                           *)
LEMMA SpinAgainPreserves ==
  ASSUME IndInv, NEW t \in Threads, SpinAgain(t)
  PROVE  IndInv'
<1>1. TypeOK'
  BY DEF SpinAgain, Goto, locals, statistics, IndInv, TypeOK, Labels, Events
<1>2. ControlInv'
  BY MainAssumption DEF SpinAgain, Goto, locals, statistics, IndInv, TypeOK,
     ControlInv, Workers
<1>3. QueueInv'
  BY HandsUnchanged DEF SpinAgain, Goto, locals, IndInv, TypeOK, HasEvent
<1>4. CountInv'
  BY MainAssumption DEF SpinAgain, Goto, locals, statistics, IndInv, TypeOK,
     ControlInv, CountInv, Counted
<1>5. StatisticsInv'
  BY DEF SpinAgain, Goto, locals, statistics, IndInv, TypeOK, StatisticsInv,
     Executing
<1> QED  BY <1>1, <1>2, <1>3, <1>4, <1>5 DEF IndInv

(* An attempt begins and is counted.                                       *)
LEMMA StartTransactionPreserves ==
  ASSUME IndInv, NEW t \in Threads, StartTransaction(t)
  PROVE  IndInv'
<1>1. TypeOK'
  BY SMT DEF StartTransaction, Goto, locals, statistics, IndInv, TypeOK,
     Labels, Events
<1>2. ControlInv'
  BY MainAssumption DEF StartTransaction, Goto, locals, statistics, IndInv,
     TypeOK, ControlInv, Workers
<1>3. QueueInv'
  BY HandsUnchanged DEF StartTransaction, Goto, locals, IndInv, TypeOK, HasEvent
<1>4. CountInv'
  BY MainAssumption DEF StartTransaction, Goto, locals, statistics,
     IndInv, TypeOK, ControlInv, CountInv, Counted
<1>5. StatisticsInv'
  <2>1. Executing' = Executing \cup {t} /\ t \notin Executing
        /\ Executing \in SUBSET Threads
    BY DEF StartTransaction, Goto, Executing, IndInv, TypeOK
  <2>2. /\ Cardinality(Executing') = Cardinality(Executing) + 1
        /\ Cardinality(Executing) \in Nat
    BY <2>1, CountFacts
  <2>3. handled' = handled /\ Cardinality(handled) \in Nat
    BY HandledFacts DEF StartTransaction, IndInv
  <2>4. /\ total_transactions' - aborted_transactions' =
             (total_transactions - aborted_transactions) + 1
        /\ total_transactions - aborted_transactions =
             Cardinality(handled) + Cardinality(Executing)
    BY SMT DEF StartTransaction, IndInv, TypeOK, StatisticsInv
  <2> QED  BY <2>2, <2>3, <2>4, SMT DEF StatisticsInv
<1> QED  BY <1>1, <1>2, <1>3, <1>4, <1>5 DEF IndInv

(* An attempt is committed: the event is handled and no longer in          *)
(* anybody's hands.                                                        *)
LEMMA CommitPreserves ==
  ASSUME IndInv, NEW t \in Threads, Commit(t)
  PROVE  IndInv'
<1>a. /\ pc[t] = "execute" /\ pc' = [pc EXCEPT ![t] = "delete"]
      /\ pc \in [Threads -> Labels] /\ HasEvent(t)
      /\ handled' = handled \cup {event[t]} /\ event' = event /\ created' = created
      /\ event_queue' = event_queue /\ active' = active
      /\ running_threads' = running_threads /\ register' = register
  BY DEF Commit, Goto, locals, IndInv, TypeOK, HasEvent
<1>b. event[t] \in (1 .. created) \ handled /\ 1 .. created \subseteq Events
  BY <1>a, EventsAssumption, SMT DEF IndInv, TypeOK, QueueInv, Events
<1>1. TypeOK'
  <2>1. aborted' \in [Threads -> BOOLEAN]
    BY DEF Commit
  <2> QED  BY <1>a, <1>b, <2>1 DEF Commit, locals, statistics, IndInv, TypeOK, Labels
<1>2. ControlInv'
  BY MainAssumption DEF Commit, Goto, locals, statistics, IndInv, TypeOK,
     ControlInv, Workers
<1>3. QueueInv'
  <2>1. \A u \in Threads : HasEvent(u)' <=> HasEvent(u) /\ u # t
    BY <1>a DEF HasEvent
  <2>2. \A u \in Threads : \A e : InHand(u, e)' <=> InHand(u, e) /\ u # t
    BY <1>a, <2>1 DEF InHand
  <2>3. \A i \in DOMAIN event_queue : event_queue[i] # event[t]
    BY <1>a DEF IndInv, QueueInv, InHand
  <2>4. \A u \in Threads : HasEvent(u)' => event[u] # event[t]
    BY <1>a, <2>1 DEF IndInv, QueueInv, InHand
  <2>5. \A e \in (1 .. created) \ handled' :
          \/ \E i \in DOMAIN event_queue : event_queue[i] = e
          \/ \E u \in Threads : InHand(u, e)'
    BY <1>a, <2>2 DEF IndInv, QueueInv, InHand
  <2> QED  BY <1>a, <1>b, <2>1, <2>2, <2>3, <2>4, <2>5 DEF IndInv, QueueInv
<1>4. CountInv'
  <2>1. Counted' = Counted
    BY <1>a DEF Counted
  <2> QED  BY <1>a, <2>1, CountUnchanged DEF IndInv
<1>5. StatisticsInv'
  <2>1. Executing' = Executing \ {t} /\ t \in Executing /\ Executing \in SUBSET Threads
    BY <1>a DEF Executing
  <2>2. /\ Cardinality(Executing') = Cardinality(Executing) - 1
        /\ Cardinality(Executing) \in Nat
    BY <2>1, CountFacts
  <2>3. /\ Cardinality(handled') = Cardinality(handled) + 1
        /\ Cardinality(handled) \in Nat
    BY <1>a, <1>b, HandledFacts DEF IndInv
  <2> QED  BY <2>2, <2>3, SMT DEF Commit, statistics, IndInv, TypeOK, StatisticsInv
<1> QED  BY <1>1, <1>2, <1>3, <1>4, <1>5 DEF IndInv

(* An attempt is aborted and counted as such; the event stays in the       *)
(* thread's hands.                                                         *)
LEMMA RestartPreserves ==
  ASSUME IndInv, NEW t \in Threads, Restart(t)
  PROVE  IndInv'
<1>1. TypeOK'
  BY SMT DEF Restart, Goto, locals, statistics, IndInv, TypeOK, Labels, Events
<1>2. ControlInv'
  BY MainAssumption DEF Restart, Goto, locals, statistics, IndInv, TypeOK,
     ControlInv, Workers
<1>3. QueueInv'
  BY HandsUnchanged DEF Restart, Goto, locals, IndInv, TypeOK, HasEvent
<1>4. CountInv'
  BY MainAssumption DEF Restart, Goto, locals, statistics, IndInv, TypeOK,
     ControlInv, CountInv, Counted
<1>5. StatisticsInv'
  <2>1. Executing' = Executing \ {t} /\ t \in Executing
        /\ Executing \in SUBSET Threads
    BY DEF Restart, Goto, Executing, IndInv, TypeOK
  <2>2. /\ Cardinality(Executing') = Cardinality(Executing) - 1
        /\ Cardinality(Executing) \in Nat
    BY <2>1, CountFacts
  <2>3. handled' = handled /\ Cardinality(handled) \in Nat
    BY HandledFacts DEF Restart, IndInv
  <2>4. /\ total_transactions' - aborted_transactions' =
             (total_transactions - aborted_transactions) - 1
        /\ total_transactions - aborted_transactions =
             Cardinality(handled) + Cardinality(Executing)
    BY SMT DEF Restart, IndInv, TypeOK, StatisticsInv
  <2> QED  BY <2>2, <2>3, <2>4, SMT DEF StatisticsInv
<1> QED  BY <1>1, <1>2, <1>3, <1>4, <1>5 DEF IndInv

(* The event is deleted.                                                   *)
LEMMA DeleteEventPreserves ==
  ASSUME IndInv, NEW t \in Threads, DeleteEvent(t)
  PROVE  IndInv'
<1>1. TypeOK'
  BY DEF DeleteEvent, Goto, locals, statistics, IndInv, TypeOK, Labels,
     Events
<1>2. ControlInv'
  BY MainAssumption DEF DeleteEvent, Goto, locals, statistics, IndInv,
     TypeOK, ControlInv, Workers
<1>3. QueueInv'
  BY HandsUnchanged DEF DeleteEvent, Goto, locals, IndInv, TypeOK, HasEvent
<1>4. CountInv'
  BY MainAssumption DEF DeleteEvent, Goto, locals, statistics, IndInv,
     TypeOK, ControlInv, CountInv, Counted
<1>5. StatisticsInv'
  BY DEF DeleteEvent, Goto, locals, statistics, IndInv, TypeOK,
     StatisticsInv, Executing
<1> QED  BY <1>1, <1>2, <1>3, <1>4, <1>5 DEF IndInv

(* Main joins the workers.                                                 *)
LEMMA JoinPreserves ==
  ASSUME IndInv, Join
  PROVE  IndInv'
<1>1. TypeOK'
  BY DEF Join, Goto, locals, statistics, IndInv, TypeOK, Labels, Events
<1>2. ControlInv'
  BY MainAssumption DEF Join, Goto, locals, statistics, IndInv, TypeOK,
     ControlInv, Workers
<1>3. QueueInv'
  BY HandsUnchanged DEF Join, Goto, locals, IndInv, TypeOK, HasEvent
<1>4. CountInv'
  BY MainAssumption DEF Join, Goto, locals, statistics, IndInv, TypeOK,
     ControlInv, CountInv, Counted
<1>5. StatisticsInv'
  BY DEF Join, Goto, locals, statistics, IndInv, TypeOK, StatisticsInv,
     Executing
<1> QED  BY <1>1, <1>2, <1>3, <1>4, <1>5 DEF IndInv

-----------------------------------------------------------------------------
(* Nobody is in the loop at the start, and there are no events.            *)
LEMMA InitIndInv == Init => IndInv
<1> SUFFICES ASSUME Init
             PROVE  IndInv
  OBVIOUS
<1>1. TypeOK
  BY MainAssumption, EventsAssumption, SMT DEF Init, TypeOK, Labels, Events
<1>2. ControlInv
  BY MainAssumption DEF Init, ControlInv, Workers
<1>3. QueueInv
  BY SMT DEF Init, QueueInv, HasEvent, InHand
<1>4. Counted = {} /\ Executing = {}
  BY DEF Init, Counted, Executing
<1>5. CountInv
  BY <1>4, FS_EmptySet DEF Init, CountInv
<1>6. StatisticsInv
  BY <1>4, FS_EmptySet, SMT DEF Init, StatisticsInv
<1> QED  BY <1>1, <1>2, <1>3, <1>5, <1>6 DEF IndInv

(* Every step of every thread preserves the inductive invariant.           *)
LEMMA NextIndInv == IndInv /\ [Next]_vars => IndInv'
<1> SUFFICES ASSUME IndInv, [Next]_vars
             PROVE  IndInv'
  OBVIOUS
<1>1. CASE CommitScript
  BY <1>1, CommitScriptPreserves
<1>2. CASE Join
  BY <1>2, JoinPreserves
<1>3. ASSUME NEW t \in Threads, LockQueue(t) \/ Continue(t) \/ Async(t)
      PROVE  IndInv'
  <2>1. CASE LockQueue(t)
    BY <2>1, LockQueuePreserves
  <2>2. CASE Continue(t)
    BY <2>2, EnterLoopPreserves, CountOutPreserves, TakeEventPreserves,
       CountInPreserves, LeaveLoopPreserves, SpinAgainPreserves,
       StartTransactionPreserves, CommitPreserves, RestartPreserves,
       DeleteEventPreserves DEF Continue
  <2>3. CASE Async(t)
    BY <2>3, AsyncPreserves
  <2> QED  BY <1>3, <2>1, <2>2, <2>3
<1>4. CASE UNCHANGED vars
  BY <1>4, SMT DEF vars, statistics, locals, IndInv, TypeOK, ControlInv,
     QueueInv, HasEvent, InHand, CountInv, Counted, StatisticsInv, Executing
<1> QED  BY <1>1, <1>2, <1>3, <1>4 DEF Next

(* The inductive invariant holds in every reachable state of the loop of   *)
(* main.cc, for any number of threads and of events.                       *)
THEOREM InvariantHolds == Spec => []IndInv
  BY InitIndInv, NextIndInv, PTL DEF Spec

(* Type correctness of the state of EventLoop and main.                    *)
THEOREM TypeCorrect == Spec => []TypeOK
<1>1. IndInv => TypeOK
  BY DEF IndInv
<1> QED  BY <1>1, InvariantHolds, PTL

(* No event that Async queues is lost or committed twice, whatever the     *)
(* interleaving of the threads and however often the event's transaction   *)
(* is restarted: also when the threads do not start together.              *)
THEOREM EveryEventAccounted == Spec => []EventsAccounted
<1>1. ASSUME IndInv
      PROVE  EventsAccounted
  <2> SUFFICES ASSUME NEW e \in 1 .. created
               PROVE  Cardinality(Queued(e))
                        + Cardinality({t \in Threads : InHand(t, e)})
                        + (IF e \in handled THEN 1 ELSE 0) = 1
    BY DEF EventsAccounted
  <2> DEFINE hands == {t \in Threads : InHand(t, e)}
  <2> USE <1>1
  <2>1. CASE e \in handled
    <3>1. Queued(e) = {}
      BY <2>1, SMT DEF IndInv, QueueInv, Queued
    <3>2. hands = {}
      BY <2>1, SMT DEF IndInv, QueueInv, InHand
    <3> QED  BY <2>1, <3>1, <3>2, FS_EmptySet, SMT
  <2>2. CASE e \notin handled /\ \E i \in DOMAIN event_queue : event_queue[i] = e
    <3>1. PICK i \in DOMAIN event_queue : event_queue[i] = e
      BY <2>2
    <3>2. Queued(e) = {i}
      BY <3>1, SMT DEF IndInv, QueueInv, Queued
    <3>3. hands = {}
      BY <3>1 DEF IndInv, QueueInv
    <3> HIDE DEF hands
    <3>4. Cardinality(Queued(e)) = 1 /\ Cardinality(hands) = 0
      BY <3>2, <3>3, FS_EmptySet, FS_Singleton
    <3> QED  BY <2>2, <3>4, SMT DEF hands
  <2>3. CASE e \notin handled /\ \E t \in Threads : InHand(t, e)
    <3>1. PICK t \in Threads : InHand(t, e)
      BY <2>3
    <3>2. Queued(e) = {}
      BY <3>1, SMT DEF IndInv, QueueInv, Queued
    <3>3. hands = {t}
      BY <3>1, SMT DEF IndInv, QueueInv, InHand
    <3> HIDE DEF hands
    <3>4. Cardinality(Queued(e)) = 0 /\ Cardinality(hands) = 1
      BY <3>2, <3>3, FS_EmptySet, FS_Singleton
    <3> QED  BY <2>3, <3>4, SMT DEF hands
  <2>4. e \in handled \/ (\E i \in DOMAIN event_queue : event_queue[i] = e)
          \/ (\E t \in Threads : InHand(t, e))
    BY DEF IndInv, QueueInv
  <2> QED  BY <2>1, <2>2, <2>3, <2>4
<1> QED  BY <1>1, InvariantHolds, PTL

(* If all threads have entered the loop before the first of them looks at  *)
(* the queue, no thread leaves EventLoop while there is work: the counter  *)
(* running_threads, decremented and incremented in two steps, is exact.    *)
THEOREM NobodyLeavesWork ==
  ASSUME StartTogether
  PROVE  Spec => []ExitSound
<1>1. ASSUME IndInv
      PROVE  ExitSound
  <2> SUFFICES ASSUME \E t \in Threads : pc[t] \in {"done", "exit"}
               PROVE  handled = 1 .. created
    BY DEF ExitSound
  <2>1. event_queue = << >> /\ Counted = {}
        /\ \A t \in Threads : pc[t] # "countIn"
    BY <1>1 DEF IndInv, CountInv
  <2>2. \A t \in Threads : ~ HasEvent(t)
    BY <2>1 DEF Counted, HasEvent
  <2>3. DOMAIN event_queue = {}
    BY <2>1, SMT
  <2>4. \A e \in 1 .. created : e \in handled
    BY <1>1, <2>2, <2>3 DEF IndInv, QueueInv, InHand
  <2> QED  BY <1>1, <2>4 DEF IndInv, QueueInv
<1> QED  BY <1>1, InvariantHolds, PTL

(* Under the same condition the numbers main prints at the end add up:     *)
(* every event was committed by exactly one attempt that was not aborted.  *)
THEOREM StatisticsAreRight ==
  ASSUME StartTogether
  PROVE  Spec => []StatisticsAddUp
<1>1. ASSUME IndInv
      PROVE  StatisticsAddUp
  <2> SUFFICES ASSUME pc[Main] = "exit"
               PROVE  total_transactions - aborted_transactions =
                        Cardinality(handled)
    BY DEF StatisticsAddUp
  <2>1. Counted = {}
    BY <1>1, MainAssumption DEF IndInv, CountInv
  <2>2. Executing = {}
    BY <2>1 DEF Counted, Executing
  <2>3. Cardinality(Executing) = 0 /\ Cardinality(handled) \in Nat
    BY <1>1, <2>2, FS_EmptySet, HandledFacts DEF IndInv
  <2> QED  BY <1>1, <2>3, SMT DEF IndInv, StatisticsInv
<1> QED  BY <1>1, InvariantHolds, PTL
=============================================================================
