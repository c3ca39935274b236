----------------------------- MODULE FifoMutex -----------------------------
(***************************************************************************)
(* What ResourceLockService promises its callers: per key, the calls run   *)
(* their critical sections one at a time and in the order in which they    *)
(* called runExclusive.  ResourceLock, the promise chains of the code, is  *)
(* shown to implement this module; ResourceAllocation is built on it.      *)
(***************************************************************************)
EXTENDS Naturals, Sequences

CONSTANTS Call,     \* the calls of runExclusive
          Key       \* the keys they lock

VARIABLES queue,    \* queue[k]: the unfinished calls for k, in calling order
          inside    \* the calls in their critical sections

vars == <<queue, inside>>

TypeOK ==
  /\ queue \in [Key -> Seq(Call)]
  /\ inside \subseteq Call

Init ==
  /\ queue = [k \in Key |-> <<>>]
  /\ inside = {}

Queued(c, k) == \E i \in 1..Len(queue[k]) : queue[k][i] = c
IsFirst(c, k) == queue[k] # <<>> /\ Head(queue[k]) = c

(* runExclusive is called: the call goes to the end of the key's queue.    *)
Arrive(c, k) ==
  /\ \A j \in Key : ~Queued(c, j)
  /\ queue' = [queue EXCEPT ![k] = Append(@, c)]
  /\ UNCHANGED inside

(* The first call of the queue starts its critical section.                *)
Enter(c, k) ==
  /\ IsFirst(c, k)
  /\ c \notin inside
  /\ inside' = inside \cup {c}
  /\ UNCHANGED queue

(* The critical section ended, with a value or an error.                   *)
Leave(c, k) ==
  /\ IsFirst(c, k)
  /\ c \in inside
  /\ inside' = inside \ {c}
  /\ queue' = [queue EXCEPT ![k] = Tail(@)]

Next == \E c \in Call, k \in Key : Arrive(c, k) \/ Enter(c, k) \/ Leave(c, k)

Spec == Init /\ [][Next]_vars

-----------------------------------------------------------------------------
(* The process that holds the locks of keys K ends: tails and held live in *)
(* its memory, so the queues of those keys are gone.  Used by the modules  *)
(* in which servers crash.                                                 *)
Forget(K) ==
  /\ queue' = [k \in Key |-> IF k \in K THEN <<>> ELSE queue[k]]
  /\ inside' = {c \in inside : \A k \in K : ~Queued(c, k)}
=============================================================================
