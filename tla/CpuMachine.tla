----------------------------- MODULE CpuMachine -----------------------------
(***************************************************************************)
(* One CPU that serves jobs which arrive over time and never idles while a *)
(* job is waiting.  It does not say which job comes next nor for how long: *)
(* that is the choice of a scheduling algorithm.  CpuScheduler, with its   *)
(* four algorithms, implements this module.                                *)
(***************************************************************************)
EXTENDS Integers

VARIABLES arrival,   \* arrival[p]: when job p becomes ready
          left,      \* left[p]: the service it still needs
          clock

vars == <<arrival, left, clock>>

Job == DOMAIN arrival
Unfinished == {p \in Job : left[p] # 0}

(* The CPU may be idle until t: no job is waiting for it before.           *)
MayIdleUntil(t) == \A p \in Unfinished : arrival[p] >= t

Init ==
  /\ \A p \in Job : arrival[p] \in Nat /\ left[p] \in Nat \ {0}
  /\ DOMAIN left = Job
  /\ clock = 0

Idle ==
  /\ clock' > clock
  /\ MayIdleUntil(clock')
  /\ UNCHANGED <<arrival, left>>

(* Serve job p, after an idle gap or at once.                              *)
Serve(p) ==
  LET slice == left[p] - left'[p]
      start == clock' - slice
  IN
  /\ left'[p] \in 0..(left[p] - 1)
  /\ left' = [left EXCEPT ![p] = left'[p]]
  /\ arrival[p] <= start
  /\ start >= clock
  /\ start > clock => MayIdleUntil(start)
  /\ UNCHANGED arrival

Next == Idle \/ \E p \in Job : Serve(p)

Spec == Init /\ [][Next]_vars
=============================================================================
