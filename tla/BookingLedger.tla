--------------------------- MODULE BookingLedger ---------------------------
(***************************************************************************)
(* What the booking endpoints promise: a wedding and a vendor share at     *)
(* most one booking, and the vendor decides it once and for all.  Bookings *)
(* (the handlers, statement by statement) implements this module, and      *)
(* ResourceAllocation relies on it: an ACCEPTED booking stays ACCEPTED.    *)
(***************************************************************************)
CONSTANTS Wedding, Vendor

VARIABLE status     \* status[<<w, v>>]: the booking of w with v, or "NONE"

Booking == Wedding \X Vendor
Decision == {"ACCEPTED", "REJECTED"}
Status == {"NONE", "PENDING"} \cup Decision

TypeOK == status \in [Booking -> Status]

Init == status = [b \in Booking |-> "NONE"]

(* A customer requests a booking: @@unique([weddingId, vendorId]).         *)
Request(b) ==
  /\ status[b] = "NONE"
  /\ status' = [status EXCEPT ![b] = "PENDING"]

(* The vendor accepts or rejects it.                                       *)
Decide(b, decision) ==
  /\ status[b] = "PENDING"
  /\ status' = [status EXCEPT ![b] = decision]

Next ==
  \E b \in Booking :
    Request(b) \/ \E decision \in Decision : Decide(b, decision)

Spec == Init /\ [][Next]_status
=============================================================================
