--------------------------- MODULE ContentionDemo ---------------------------
(***************************************************************************)
(* SyncDemoService.simulateContention                                      *)
(* (src/backend/src/sync/sync-demo.service.ts) over ResourceAllocation: it *)
(* makes two requests at once, with the same user, resource and booking,   *)
(* on the server that received it, awaits them both (Promise.allSettled)   *)
(* and then gets the resource.  Other calls go on meanwhile.  A crash of   *)
(* the server cuts the demo off before it answers, and is left out here.   *)
(***************************************************************************)
EXTENDS ResourceAllocation

CONSTANTS first, second, final      \* the calls that the demo makes

ASSUME DemoAssumption ==
  /\ {first, second, final} \subseteq Call
  /\ Cardinality({first, second, final}) = 3

Attempts == {first, second}
Demo == Attempts \cup {final}

(* The demo has not been asked for, awaits its attempts, awaits the final  *)
(* get, has answered, or was rejected as that get was.                     *)
VARIABLES demo,
          releasedBefore  \* history: see Noted

demoVars == <<vars, demo, releasedBefore>>

DemoInit ==
  /\ Init
  /\ demo = "idle"
  /\ \A c \in Demo : server[c] = server[first]
  /\ releasedBefore = [a \in Attempts |-> {}]

(* At the commit of an attempt's row, the attempts are noted whose rows    *)
(* calls other than the demo's have released by then.                      *)
Noted ==
  LET released == {a \in Attempts : \E c \in Call \ Demo : freed[c] = a} IN
  releasedBefore' =
    [a \in Attempts |-> IF rows[a] = NoRow /\ rows'[a] # NoRow
                        THEN released ELSE releasedBefore[a]]

(* Both attempts start in one turn; each runs up to its first await.       *)
Simulate(r) ==
  /\ demo = "idle"
  /\ r.op = "request"
  /\ demo' = "attempts"
  /\ request' = [c \in Call |-> IF c \in Attempts THEN r ELSE request[c]]
  /\ \E label \in [Attempts -> FindWedding(r)] :
       pc' = [c \in Call |-> IF c \in Attempts THEN label[c] ELSE pc[c]]
  /\ UNCHANGED <<db, lock, server, local, view, freed, crashes>>

(* Promise.allSettled waits for both, Promise.all for the first rejection. *)
SettledEarly == \E c \in Attempts : pc[c] \in Ended
Settled == \A c \in Attempts : pc[c] \in Ended

(* Both have settled: the resource is read for the answer.                 *)
GetResource ==
  /\ demo = "attempts"
  /\ Settled
  /\ demo' = "get"
  /\ Receive(final, [op |-> "get", wedding |-> request[first].wedding,
                     vendor |-> request[first].vendor])

AnswerDemo ==
  /\ demo = "get"
  /\ pc[final] \in Ended
  /\ demo' = IF pc[final] = "ok" THEN "answered" ELSE "rejected"
  /\ UNCHANGED vars

(* Other calls, and the steps of all.                                      *)
DemoStep ==
  \/ \E r \in Request : Simulate(r)
  \/ GetResource
  \/ AnswerDemo
  \/ /\ \/ \E c \in Call \ Demo, r \in Request : Receive(c, r)
        \/ \E c \in Call : Step(c) \/ AbortTransaction(c) \/ StatementFails(c)
        \/ BookingStep
     /\ UNCHANGED demo

DemoNext == DemoStep /\ Noted

DemoSpec == DemoInit /\ [][DemoNext]_demoVars

-----------------------------------------------------------------------------
(* The answer: an attempt that was fulfilled counts as ALLOCATED.          *)
Granted == {c \in Attempts : pc[c] = "ok"}

(* "The critical section admits only one of them": both attempts are       *)
(* granted only if another call had released the allocation of one when    *)
(* the other committed; each grant has its row; and the resource that the  *)
(* answer shows is not one nobody ever took.                               *)
DemoIsTrue ==
  demo = "answered" =>
    /\ \A c \in Granted : rows[c] # NoRow
    /\ Granted = Attempts =>
         \E a \in Attempts : Attempts \ {a} \subseteq releasedBefore[a]
    /\ Granted # {} => view[final][request[final].vendor].state # "AVAILABLE"
=============================================================================
