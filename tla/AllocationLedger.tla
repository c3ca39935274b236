-------------------------- MODULE AllocationLedger --------------------------
(***************************************************************************)
(* What the resource endpoints promise: a vendor has one allocation at a   *)
(* time, granted only to a wedding whose booking with that vendor was      *)
(* accepted, and is free again once released.  A second grant is a second  *)
(* allocation, to the same wedding or not.  ResourceAllocation implements  *)
(* this module.                                                            *)
(***************************************************************************)
CONSTANTS Wedding, Vendor,
          Allocation      \* the names of allocations

VARIABLES status,         \* the bookings, as in BookingLedger
          holders         \* the <<allocation, wedding>> that hold each vendor

vars == <<status, holders>>

Ledger == INSTANCE BookingLedger

Init ==
  /\ Ledger!Init
  /\ holders = [v \in Vendor |-> {}]

Grant(a, w, v) ==
  /\ holders[v] = {}
  /\ status[<<w, v>>] = "ACCEPTED"
  /\ holders' = [holders EXCEPT ![v] = {<<a, w>>}]
  /\ UNCHANGED status

Release(v) ==
  /\ holders[v] # {}
  /\ holders' = [holders EXCEPT ![v] = {}]
  /\ UNCHANGED status

Next ==
  \/ \E a \in Allocation, w \in Wedding, v \in Vendor : Grant(a, w, v)
  \/ \E v \in Vendor : Release(v)
  \/ Ledger!Next /\ UNCHANGED holders

Spec == Init /\ [][Next]_vars
=============================================================================
