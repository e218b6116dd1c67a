------------------------- MODULE AtomicTransactions -------------------------
(***************************************************************************)
(* What w16 promises of its transactions, without saying how: every event  *)
(* runs as if alone.  A transaction collects what it read of the shared    *)
(* objects and what it wants to write.  It commits in one step, only if    *)
(* all it read is still what the objects hold, and then changes exactly    *)
(* the words it wrote; or it disappears without a trace.  Until it commits *)
(* its reads may be stale: a doomed transaction may see anything.          *)
(***************************************************************************)

CONSTANTS Threads, Words, Values, Zero

VARIABLES
  heap,    \* the shared objects
  active,  \* the threads with an open transaction
  reads,   \* <<word, value>> read from shared objects
  dirty,   \* the words written
  buffer   \* their new contents

vars == <<heap, active, reads, dirty, buffer>>

Clean == [w \in Words |-> Zero]

Init ==
  /\ heap = [w \in Words |-> Zero]
  /\ active = {}
  /\ reads = [t \in Threads |-> {}]
  /\ dirty = [t \in Threads |-> {}]
  /\ buffer = [t \in Threads |-> Clean]

Begin(t) ==
  /\ t \notin active
  /\ active' = active \cup {t}
  /\ UNCHANGED <<heap, reads, dirty, buffer>>

Read(t, w, v) ==
  /\ t \in active
  /\ w \notin dirty[t]
  /\ reads' = [reads EXCEPT ![t] = @ \cup {<<w, v>>}]
  /\ UNCHANGED <<heap, active, dirty, buffer>>

Write(t, w, v) ==
  /\ t \in active
  /\ dirty' = [dirty EXCEPT ![t] = @ \cup {w}]
  /\ buffer' = [buffer EXCEPT ![t] = [@ EXCEPT ![w] = v]]
  /\ UNCHANGED <<heap, active, reads>>

Discard(t) ==
  /\ t \in active
  /\ active' = active \ {t}
  /\ reads' = [reads EXCEPT ![t] = {}]
  /\ dirty' = [dirty EXCEPT ![t] = {}]
  /\ buffer' = [buffer EXCEPT ![t] = Clean]

Commit(t) ==
  /\ \A r \in reads[t] : heap[r[1]] = r[2]
  /\ heap' = [w \in Words |-> IF w \in dirty[t] THEN buffer[t][w] ELSE heap[w]]
  /\ Discard(t)

Abort(t) == Discard(t) /\ UNCHANGED heap

Next ==
  \E t \in Threads :
    \/ Begin(t)
    \/ \E w \in Words, v \in Values : Read(t, w, v) \/ Write(t, w, v)
    \/ Commit(t)
    \/ Abort(t)

Spec == Init /\ [][Next]_vars
=============================================================================
