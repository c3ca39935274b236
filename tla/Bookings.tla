------------------------------ MODULE Bookings ------------------------------
(***************************************************************************)
(* The handlers that write bookings: BookingService.createBooking of the   *)
(* customer and VendorBookingService.acceptBooking / rejectBooking of the  *)
(* vendor (src/backend/src/customer/booking.service.ts and                 *)
(* src/backend/src/vendor/vendor-booking.service.ts).                      *)
(*                                                                         *)
(* Each call awaits one database statement after the other; the code       *)
(* between two awaits and the statement it waits for are one action, so    *)
(* the statements of different calls interleave in every way, whichever    *)
(* server runs them.  A call may be cut off anywhere (the server stops,    *)
(* the connection drops) after the effect of its last statement.           *)
(***************************************************************************)
EXTENDS Naturals, FiniteSets

CONSTANTS Call,          \* the HTTP calls that are ever made
          Customer,      \* customers; a wedding is named by its customer
          VendorId,      \* every vendor id a client may send
          Vendor,        \* the ids of the existing vendor profiles
          NoRequest

ASSUME VendorAssumption == Vendor \subseteq VendorId

VARIABLES weddings,      \* the customers that have created their wedding
          status,        \* the booking table
          pc,            \* what each call awaits, or how it ended
          request,       \* what it was called with
          reply,         \* the booking status in its successful reply
          applied        \* history: calls whose INSERT or UPDATE took effect

vars == <<weddings, status, pc, request, reply, applied>>

Wedding == Customer
Ledger == INSTANCE BookingLedger
Booking == Ledger!Booking
Decision == Ledger!Decision

CreateRequest == [op : {"create"}, customer : Customer, vendor : VendorId]
DecideRequest ==
  [op : {"decide"}, vendor : VendorId, booking : Booking, decision : Decision]

Waiting == {"findWedding", "findVendor", "insert", "findProfile",
            "findBooking", "update", "reloadProfile", "reload"}
Failure == {"badRequest", "notFound", "conflict", "cut"}
Ended == {"ok"} \cup Failure

(* The booking a call is about.                                            *)
Subject(c) ==
  IF request[c].op = "create" THEN <<request[c].customer, request[c].vendor>>
                              ELSE request[c].booking

Init ==
  /\ weddings = {}
  /\ status = [b \in Booking |-> "NONE"]
  /\ pc = [c \in Call |-> "idle"]
  /\ request = [c \in Call |-> NoRequest]
  /\ reply = [c \in Call |-> "NONE"]
  /\ applied = {}

Goto(c, label) == pc' = [pc EXCEPT ![c] = label]

(* Await-to-await steps that only read: the outcome decides where to go.   *)
Read(c, from, ok, to, failure) ==
  /\ pc[c] = from
  /\ Goto(c, IF ok THEN to ELSE failure)
  /\ UNCHANGED <<weddings, status, request, reply, applied>>

-----------------------------------------------------------------------------
(* createBooking.  An invalid service date ends the call at once.          *)
CallCreate(c, r) ==
  /\ pc[c] = "idle"
  /\ request' = [request EXCEPT ![c] = r]
  /\ Goto(c, "findWedding") \/ Goto(c, "badRequest")
  /\ UNCHANGED <<weddings, status, reply, applied>>

FindWedding(c) ==
  Read(c, "findWedding", request[c].customer \in weddings,
       "findVendor", "badRequest")

FindVendor(c) ==
  Read(c, "findVendor", request[c].vendor \in Vendor, "insert", "notFound")

(* @@unique([weddingId, vendorId]), and the mutant that lets an insert     *)
(* overwrite a rejected booking.                                           *)
TakenWhileActive(b) == status[b] \in {"PENDING", "ACCEPTED"}
Taken(b) == status[b] # "NONE"

(* booking.create; the unique index answers P2002 when the row exists.     *)
Insert(c) ==
  LET b == Subject(c) IN
  /\ pc[c] = "insert"
  /\ IF Taken(b)
     THEN /\ Goto(c, "conflict")
          /\ UNCHANGED <<status, reply, applied>>
     ELSE /\ status' = [status EXCEPT ![b] = "PENDING"]
          /\ reply' = [reply EXCEPT ![c] = "PENDING"]
          /\ applied' = applied \cup {c}
          /\ Goto(c, "ok")
  /\ UNCHANGED <<weddings, request>>

-----------------------------------------------------------------------------
(* acceptBooking / rejectBooking.                                          *)
CallDecide(c, r) ==
  /\ pc[c] = "idle"
  /\ request' = [request EXCEPT ![c] = r]
  /\ Goto(c, "findProfile")
  /\ UNCHANGED <<weddings, status, reply, applied>>

FindProfile(c) ==
  Read(c, "findProfile", request[c].vendor \in Vendor, "findBooking", "notFound")

(* findOwnedBooking({id, vendorId}) finds a row.                           *)
Owned(c) ==
  status[Subject(c)] # "NONE" /\ Subject(c)[2] = request[c].vendor

(* findOwnedBooking, then the status test of transition.                   *)
FindBooking(c) ==
  /\ pc[c] = "findBooking"
  /\ Goto(c, IF ~Owned(c) THEN "notFound"
             ELSE IF status[Subject(c)] = "PENDING" THEN "update"
             ELSE "conflict")
  /\ UNCHANGED <<weddings, status, request, reply, applied>>

(* The filter {id, vendorId, status} of the update; the mutant trusts the  *)
(* status that was read before.                                            *)
MatchesOwned(c) == Owned(c)
Matches(c) == Owned(c) /\ status[Subject(c)] = "PENDING"

(* A count of 0 is a conflict; the mutant forgets to look at the count.    *)
AfterUpdateUncounted(count) == "reloadProfile"
AfterUpdate(count) == IF count = 0 THEN "conflict" ELSE "reloadProfile"

(* updateMany with that filter.                                            *)
Update(c) ==
  /\ pc[c] = "update"
  /\ IF Matches(c)
     THEN /\ status' = [status EXCEPT ![Subject(c)] = request[c].decision]
          /\ applied' = applied \cup {c}
          /\ Goto(c, AfterUpdate(1))
     ELSE /\ Goto(c, AfterUpdate(0))
          /\ UNCHANGED <<status, applied>>
  /\ UNCHANGED <<weddings, request, reply>>

(* getBooking, for the reply: it resolves the vendor and looks its booking *)
(* up again.                                                               *)
ReloadProfile(c) ==
  Read(c, "reloadProfile", request[c].vendor \in Vendor, "reload", "notFound")

Reload(c) ==
  /\ pc[c] = "reload"
  /\ IF Owned(c)
     THEN reply' = [reply EXCEPT ![c] = status[Subject(c)]] /\ Goto(c, "ok")
     ELSE Goto(c, "notFound") /\ UNCHANGED reply
  /\ UNCHANGED <<weddings, status, request, applied>>

-----------------------------------------------------------------------------
(* The customer creates the wedding (CustomerService.createWedding).       *)
CreateWedding(w) ==
  /\ w \notin weddings
  /\ weddings' = weddings \cup {w}
  /\ UNCHANGED <<status, pc, request, reply, applied>>

(* The call dies with its server or its connection; what it wrote stays.   *)
CutOff(c) ==
  /\ pc[c] \in Waiting
  /\ Goto(c, "cut")
  /\ UNCHANGED <<weddings, status, request, reply, applied>>

Next ==
  \/ \E c \in Call :
       \/ \E r \in CreateRequest : CallCreate(c, r)
       \/ FindWedding(c) \/ FindVendor(c) \/ Insert(c)
       \/ \E r \in DecideRequest : CallDecide(c, r)
       \/ FindProfile(c) \/ FindBooking(c) \/ Update(c)
       \/ ReloadProfile(c) \/ Reload(c)
       \/ CutOff(c)
  \/ \E w \in Wedding : CreateWedding(w)

Spec == Init /\ [][Next]_vars

-----------------------------------------------------------------------------
(* The shape of the state: a row is only ever written for a wedding and a  *)
(* vendor that exist (the foreign keys of the table).                      *)
TypeOK ==
  /\ weddings \subseteq Wedding
  /\ status \in [Booking -> Ledger!Status]
  /\ \A b \in Booking : status[b] # "NONE" => b[1] \in weddings
  /\ pc \in [Call -> {"idle"} \cup Waiting \cup Ended]
  /\ request \in [Call -> CreateRequest \cup DecideRequest \cup {NoRequest}]
  /\ reply \in [Call -> Ledger!Status]
  /\ applied \subseteq Call

(* The handlers implement the ledger: whatever the interleaving, a booking *)
(* goes from nothing to PENDING and then to one decision, for good.        *)
ImplementsLedger == Ledger!Spec

Writers(op, b) == {c \in applied : request[c].op = op /\ Subject(c) = b}

(* "Two concurrent decisions cannot both apply", and two concurrent        *)
(* requests "cannot both succeed": each booking row was inserted by        *)
(* exactly one call and decided by at most one, whose verdict it carries.  *)
EachRowHasOneAuthor ==
  \A b \in Booking :
    /\ Cardinality(Writers("create", b)) = IF status[b] = "NONE" THEN 0 ELSE 1
    /\ Cardinality(Writers("decide", b)) =
         IF status[b] \in Decision THEN 1 ELSE 0
    /\ \A c \in Writers("decide", b) : status[b] = request[c].decision

(* What a successful call replies is what it did itself, although it reads *)
(* the row before and again after its update: of a vendor's two tabs that  *)
(* decide at once, the one that lost is not told that it succeeded, with   *)
(* the other's verdict.  And who succeeds is the vendor of the booking.    *)
RepliesAreTrue ==
  \A c \in Call : pc[c] = "ok" =>
    /\ c \in applied
    /\ request[c].op = "create" => reply[c] = "PENDING"
    /\ request[c].op = "decide" =>
         /\ reply[c] = request[c].decision
         /\ Subject(c)[2] = request[c].vendor

(* schema.prisma on Booking: "Prevent duplicate active requests for the    *)
(* same wedding+vendor", where the active ones are status IN ('PENDING',   *)
(* 'ACCEPTED').  So a request should be refused as a duplicate only while  *)
(* the existing booking is active.                                         *)
DuplicateOnlyIfActive ==
  [][\A c \in Call : (pc[c] = "insert" /\ pc'[c] = "conflict") =>
       status[Subject(c)] \in {"PENDING", "ACCEPTED"}]_vars
=============================================================================
