---------------------------- MODULE ResourceLock ----------------------------
(***************************************************************************)
(* ResourceLockService (src/backend/src/sync/resource-lock.service.ts):    *)
(* mutual exclusion per key made of promise chains.                        *)
(*                                                                         *)
(* Every call of runExclusive creates two promises.  `current` is resolved *)
(* by the call's finally block: `released` holds the calls whose current   *)
(* is resolved.  `chain` is previous.then(() => current): `settled` holds  *)
(* the calls whose chain is resolved.  A call is its own identity, so it   *)
(* also names its chain: tails[k] = c says that the map holds the chain of *)
(* c.  Code between two awaits is one action; the settling of a chain is a *)
(* microtask of the JavaScript engine and an action of its own.            *)
(***************************************************************************)
EXTENDS Naturals, Sequences

CONSTANTS Call,      \* the calls of runExclusive that are ever made
          Key,       \* the lock keys
          Stuck,     \* keys whose critical sections may never settle
          NoTail,    \* tails.get(key) is undefined
          Resolved,  \* the promise made by Promise.resolve()
          NoKey      \* the call has not been made yet

ASSUME NamesAssumption ==
  /\ NoTail \notin Call
  /\ Resolved \notin Call
  /\ NoTail # Resolved
  /\ NoKey \notin Key
  /\ Stuck \subseteq Key

VARIABLES tails,     \* the tail of each key's chain, or NoTail
          held,      \* keys inside a critical section
          pc,        \* where each call is
          key,       \* its key argument
          previous,  \* the promise it queued behind
          released,  \* calls whose `current` is resolved
          settled,   \* calls whose `chain` is resolved
          queue      \* history: unfinished calls per key, in calling order

vars == <<tails, held, pc, key, previous, released, settled, queue>>

Outcome == {"returned", "threw"}
Done(c) == pc[c] \in Outcome
Active(c) == pc[c] \in {"queued", "critical"}
IsSettled(promise) == promise = Resolved \/ promise \in settled

Init ==
  /\ tails = [k \in Key |-> NoTail]
  /\ held = {}
  /\ pc = [c \in Call |-> "idle"]
  /\ key = [c \in Call |-> NoKey]
  /\ previous = [c \in Call |-> Resolved]
  /\ released = {}
  /\ settled = {}
  /\ queue = [k \in Key |-> <<>>]

(* tails.get(key) ?? Promise.resolve()                                     *)
Previous(k) == IF tails[k] = NoTail THEN Resolved ELSE tails[k]

(* runExclusive(k) up to its first await, all synchronous.                 *)
Enqueue(c, k) ==
  /\ pc[c] = "idle"
  /\ pc' = [pc EXCEPT ![c] = "queued"]
  /\ key' = [key EXCEPT ![c] = k]
  /\ previous' = [previous EXCEPT ![c] = Previous(k)]
  /\ tails' = [tails EXCEPT ![k] = c]
  /\ queue' = [queue EXCEPT ![k] = Append(@, c)]
  /\ UNCHANGED <<held, released, settled>>

(* `await previous` has resumed.  The mutant waits only until nobody is    *)
(* inside.                                                                 *)
MayEnterIfFree(c) == key[c] \notin held
MayEnter(c) == IsSettled(previous[c])

(* held.add and the start of critical().                                   *)
Acquire(c) ==
  /\ pc[c] = "queued"
  /\ MayEnter(c)
  /\ pc' = [pc EXCEPT ![c] = "critical"]
  /\ held' = held \cup {key[c]}
  /\ UNCHANGED <<tails, key, previous, released, settled, queue>>

(* The map entry after the finally block.  The mutants always drop it, or  *)
(* never.                                                                  *)
TailDropped(c) == NoTail
TailKept(c) == tails[key[c]]
TailAfter(c) == IF tails[key[c]] = c THEN NoTail ELSE tails[key[c]]

(* Mutant: the cleanup follows critical() instead of being in a finally.   *)
FinishWithoutFinally(c, outcome) ==
  /\ pc[c] = "critical"
  /\ pc' = [pc EXCEPT ![c] = outcome]
  /\ IF outcome = "threw" THEN UNCHANGED <<held, tails, released>>
     ELSE /\ held' = held \ {key[c]}
          /\ tails' = [tails EXCEPT ![key[c]] = TailAfter(c)]
          /\ released' = released \cup {c}
  /\ queue' = [queue EXCEPT ![key[c]] = Tail(@)]
  /\ UNCHANGED <<key, previous, settled>>

(* The critical section settles either way and the finally block runs.     *)
Finish(c, outcome) ==
  /\ pc[c] = "critical"
  /\ pc' = [pc EXCEPT ![c] = outcome]
  /\ held' = held \ {key[c]}
  /\ tails' = [tails EXCEPT ![key[c]] = TailAfter(c)]
  /\ released' = released \cup {c}
  /\ queue' = [queue EXCEPT ![key[c]] = Tail(@)]
  /\ UNCHANGED <<key, previous, settled>>

(* previous.then(() => current) resolves, once both promises have.         *)
Settle(c) ==
  /\ pc[c] # "idle"
  /\ c \notin settled
  /\ IsSettled(previous[c])
  /\ c \in released
  /\ settled' = settled \cup {c}
  /\ UNCHANGED <<tails, held, pc, key, previous, released, queue>>

Next ==
  \E c \in Call :
    \/ \E k \in Key : Enqueue(c, k)
    \/ Acquire(c)
    \/ \E outcome \in Outcome : Finish(c, outcome)
    \/ Settle(c)

(* The engine runs every microtask that is ready.  A critical section is a *)
(* database transaction and settles (Prisma bounds its time) except, to    *)
(* show that keys are independent, the ones on Stuck keys.                 *)
Fairness ==
  \A c \in Call :
    /\ WF_vars(Acquire(c))
    /\ WF_vars(Settle(c))
    /\ WF_vars(/\ key[c] \notin Stuck
               /\ \E outcome \in Outcome : Finish(c, outcome))

Spec == Init /\ [][Next]_vars
FairSpec == Spec /\ Fairness

-----------------------------------------------------------------------------
(* The shape of the state; in particular what a call awaits is always a    *)
(* promise, never the `undefined` of an absent map entry.                  *)
TypeOK ==
  /\ tails \in [Key -> Call \cup {NoTail}]
  /\ held \subseteq Key
  /\ pc \in [Call -> {"idle", "queued", "critical"} \cup Outcome]
  /\ key \in [Call -> Key \cup {NoKey}]
  /\ previous \in [Call -> Call \cup {Resolved}]
  /\ released \subseteq Call
  /\ settled \subseteq Call
  /\ queue \in [Key -> Seq(Call)]

(* Two calls for one key are never inside their critical sections at once. *)
MutualExclusion ==
  \A c, d \in Call :
    (pc[c] = "critical" /\ pc[d] = "critical" /\ key[c] = key[d]) => c = d

(* isLocked and activeLocks tell the truth at every event-loop turn: a key *)
(* is in `held` exactly while some call is inside its critical section.    *)
HeldExact ==
  held = {key[c] : c \in {d \in Call : pc[d] = "critical"}}

(* "Drop the key once nobody else is queued behind us": a key has a map    *)
(* entry exactly while a call for it is unfinished.  An entry dropped too  *)
(* early lets the next caller overtake the queue; one never dropped leaks. *)
TailsExact ==
  \A k \in Key :
    tails[k] # NoTail <=> \E c \in Call : key[c] = k /\ Active(c)

(* The promise chains implement the FIFO mutex: only the call that has     *)
(* waited longest enters, and no other is inside until it has left.        *)
Fifo == INSTANCE FifoMutex WITH inside <- {c \in Call : pc[c] = "critical"}
ImplementsFifoMutex == Fifo!Spec

(* Every call on a key that is not stuck gets its turn and finishes, even  *)
(* when calls before it threw and while other keys are stuck for ever.     *)
EveryCallFinishes ==
  \A c \in Call : (pc[c] = "queued" /\ key[c] \notin Stuck) ~> Done(c)

-----------------------------------------------------------------------------
(* The inductive invariant behind the safety properties: the history queue *)
(* of a key lists its unfinished calls, each waiting for the promise of    *)
(* the one before it, and the map holds the promise of the last.           *)
QueueMembers ==
  \A k \in Key : \A i \in 1..Len(queue[k]) :
    /\ key[queue[k][i]] = k
    /\ Active(queue[k][i])
    /\ \A j \in 1..Len(queue[k]) : queue[k][i] = queue[k][j] => i = j

QueueComplete ==
  \A c \in Call : Active(c) =>
    /\ key[c] \in Key
    /\ \E i \in 1..Len(queue[key[c]]) : queue[key[c]][i] = c

QueueLinks ==
  \A k \in Key : \A i \in 2..Len(queue[k]) :
    previous[queue[k][i]] = queue[k][i - 1]

TailIsLast ==
  \A k \in Key :
    tails[k] = IF queue[k] = <<>> THEN NoTail ELSE queue[k][Len(queue[k])]

ReleasedAreDone == settled \subseteq released /\ \A c \in released : Done(c)

HeldIsHead ==
  \A k \in Key :
    k \in held <=> queue[k] # <<>> /\ pc[queue[k][1]] = "critical"

CriticalIsHead ==
  \A k \in Key : \A i \in 1..Len(queue[k]) :
    pc[queue[k][i]] = "critical" => i = 1

(* All of it together.                                                     *)
ChainInv ==
  /\ QueueMembers
  /\ QueueComplete
  /\ QueueLinks
  /\ TailIsLast
  /\ ReleasedAreDone
  /\ HeldIsHead
  /\ CriticalIsHead
=============================================================================
