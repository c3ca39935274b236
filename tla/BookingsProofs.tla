--------------------------- MODULE BookingsProofs ---------------------------
(***************************************************************************)
(* The booking handlers implement BookingLedger, give each row one author  *)
(* and reply truly, for any numbers of calls, customers and vendors.  The  *)
(* argument: a call knows what it has found, weddings and vendors stay,    *)
(* and a decided row never changes again; so a row's authors are counted   *)
(* by the two statements that can write it, each at most once.             *)
(***************************************************************************)
EXTENDS Bookings, FiniteSetTheorems, TLAPS

Types ==
  /\ weddings \subseteq Wedding
  /\ status \in [Booking -> Ledger!Status]
  /\ pc \in [Call -> {"idle"} \cup Waiting \cup Ended]
  /\ request \in [Call -> CreateRequest \cup DecideRequest \cup {NoRequest}]
  /\ reply \in [Call -> Ledger!Status]
  /\ applied \subseteq Call

Creating == {"findWedding", "findVendor", "insert"}
Reloading == {"reloadProfile", "reload"}
Deciding == {"findProfile", "findBooking", "update"} \cup Reloading

(* What a call knows, and what has become of it.                           *)
Known(c) ==
  /\ pc[c] \in {"idle"} \cup Creating \cup (Deciding \ Reloading)
       => c \notin applied
  /\ pc[c] \in Creating => request[c] \in CreateRequest
  /\ pc[c] \in {"findVendor", "insert"} => request[c].customer \in weddings
  /\ pc[c] = "insert" => request[c].vendor \in Vendor
  /\ pc[c] \in Deciding => request[c] \in DecideRequest
  /\ pc[c] \in {"update"} \cup Reloading =>
       status[Subject(c)] # "NONE" /\ Subject(c)[2] = request[c].vendor
  /\ pc[c] \in Reloading \cup {"ok"} => c \in applied
  /\ pc[c] = "ok" /\ request[c].op = "create" => reply[c] = "PENDING"
  /\ pc[c] = "ok" /\ request[c].op = "decide" =>
       reply[c] = request[c].decision /\ Subject(c)[2] = request[c].vendor

(* What an applied call has left behind.                                   *)
Left(c) ==
  c \in applied =>
    /\ request[c] \in CreateRequest \cup DecideRequest
    /\ request[c].op = "decide" => status[Subject(c)] = request[c].decision

(* The authors of a row.                                                   *)
Authored(b) ==
  /\ status[b] # "NONE" => b[1] \in weddings
  /\ IF status[b] = "NONE" THEN Writers("create", b) = {}
     ELSE \E c \in Call : Writers("create", b) = {c}
  /\ IF status[b] \in Decision THEN \E c \in Call : Writers("decide", b) = {c}
     ELSE Writers("decide", b) = {}

IInv ==
  /\ Types
  /\ \A c \in Call : Known(c) /\ Left(c)
  /\ \A b \in Booking : Authored(b)

-----------------------------------------------------------------------------
(* What the calls carry.                                                   *)
LEMMA CreateFields ==
  ASSUME NEW r \in CreateRequest
  PROVE  /\ r.op = "create" /\ r.customer \in Customer /\ r.vendor \in VendorId
  BY DEF CreateRequest

LEMMA DecideFields ==
  ASSUME NEW r \in DecideRequest
  PROVE  /\ r.op = "decide" /\ r.vendor \in VendorId
         /\ r.booking \in Booking /\ r.decision \in Decision
  BY DEF DecideRequest

(* The statuses are five different words.                                  *)
LEMMA Statuses ==
  /\ Decision = {"ACCEPTED", "REJECTED"}
  /\ Ledger!Status = {"NONE", "PENDING", "ACCEPTED", "REJECTED"}
  BY DEF Decision, Ledger!Decision, Ledger!Status

-----------------------------------------------------------------------------
(* A step that writes no row and lets no call be applied.                  *)
LEMMA ReadingKeeps ==
  ASSUME IInv, NEW c \in Call, NEW label \in {"idle"} \cup Waiting \cup Ended,
         pc' = [pc EXCEPT ![c] = label],
         request' \in [Call -> CreateRequest \cup DecideRequest \cup {NoRequest}],
         reply' \in [Call -> Ledger!Status],
         \A d \in Call : d # c => request'[d] = request[d] /\ reply'[d] = reply[d],
         c \in applied => request'[c] = request[c],
         UNCHANGED <<weddings, status, applied>>,
         Known(c)'
  PROVE  IInv'
  <1>1. Types'
    BY DEF IInv, Types
  <1>2. ASSUME NEW d \in Call, d # c PROVE Known(d)'
    <2>1. pc'[d] = pc[d] /\ request'[d] = request[d] /\ reply'[d] = reply[d]
      BY <1>2 DEF IInv, Types
    <2>2. QED
      BY <2>1 DEF IInv, Known, Subject
  <1>3. \A d \in applied : request'[d] = request[d]
    BY DEF IInv, Types
  <1>4. \A d \in Call : Left(d)'
    BY <1>3 DEF IInv, Left, Subject
  <1>5. \A op, b : Writers(op, b)' = Writers(op, b)
    BY <1>3 DEF Writers, Subject
  <1>6. \A b \in Booking : Authored(b)'
    BY <1>5 DEF IInv, Authored
  <1>7. QED
    BY <1>1, <1>2, <1>4, <1>6 DEF IInv

LEMMA ReadKeeps ==
  ASSUME IInv, NEW c \in Call, NEW to \in Waiting, NEW failure \in Failure,
         pc' = [pc EXCEPT ![c] = to] \/ pc' = [pc EXCEPT ![c] = failure],
         UNCHANGED <<weddings, status, request, reply, applied>>,
         pc' = [pc EXCEPT ![c] = to] => Known(c)'
  PROVE  IInv'
  <1>1. CASE pc' = [pc EXCEPT ![c] = to]
    BY <1>1, ReadingKeeps DEF IInv, Types
  <1>2. CASE pc' = [pc EXCEPT ![c] = failure]
    <2>1. Known(c)'
      BY <1>2 DEF Known, Failure, Creating, Deciding, Reloading, IInv, Types
    <2>2. QED
      BY <1>2, <2>1, ReadingKeeps DEF IInv, Types, Ended
  <1>3. QED
    BY <1>1, <1>2

-----------------------------------------------------------------------------
(* The statements that only read.                                          *)
LEMMA CallCreateKeeps ==
  ASSUME IInv, NEW c \in Call, NEW r \in CreateRequest, CallCreate(c, r)
  PROVE  IInv'
  <1>1. PICK label \in {"findWedding", "badRequest"} : Goto(c, label)
    BY DEF CallCreate
  <1>2. /\ pc[c] = "idle" /\ c \notin applied /\ request'[c] = r
        /\ pc'[c] = label /\ UNCHANGED <<weddings, status, reply, applied>>
    BY <1>1 DEF CallCreate, Goto, IInv, Types, Known
  <1>3. Known(c)'
    BY <1>2 DEF Known, Creating, Deciding, Reloading
  <1>4. label \in Waiting \cup Ended
    BY DEF Waiting, Ended, Failure
  <1>5. QED
    BY <1>1, <1>2, <1>3, <1>4, ReadingKeeps DEF CallCreate, Goto, IInv, Types

LEMMA CallDecideKeeps ==
  ASSUME IInv, NEW c \in Call, NEW r \in DecideRequest, CallDecide(c, r)
  PROVE  IInv'
  <1>1. /\ pc[c] = "idle" /\ c \notin applied /\ request'[c] = r
        /\ pc' = [pc EXCEPT ![c] = "findProfile"]
        /\ pc'[c] = "findProfile" /\ UNCHANGED <<weddings, status, reply, applied>>
    BY DEF CallDecide, Goto, IInv, Types, Known
  <1>2. Known(c)'
    BY <1>1 DEF Known, Creating, Deciding, Reloading
  <1>3. QED
    BY <1>1, <1>2, ReadingKeeps DEF CallDecide, Waiting, IInv, Types

LEMMA FindWeddingKeeps ==
  ASSUME IInv, NEW c \in Call, FindWedding(c)
  PROVE  IInv'
  <1>1. /\ pc[c] = "findWedding"
        /\ UNCHANGED <<weddings, status, request, reply, applied>>
        /\ \/ pc' = [pc EXCEPT ![c] = "findVendor"] /\ request[c].customer \in weddings
           \/ pc' = [pc EXCEPT ![c] = "badRequest"]
    BY DEF FindWedding, Read, Goto
  <1>2. c \notin applied /\ request[c] \in CreateRequest
    BY <1>1 DEF IInv, Known, Creating
  <1>3. ASSUME pc' = [pc EXCEPT ![c] = "findVendor"] PROVE Known(c)'
    <2>1. pc'[c] = "findVendor" /\ request[c].customer \in weddings
      BY <1>1, <1>3 DEF IInv, Types
    <2>2. QED
      BY <1>1, <1>2, <2>1 DEF Known, Creating, Deciding, Reloading
  <1>4. QED
    BY <1>1, <1>3, ReadKeeps DEF Waiting, Failure

LEMMA FindVendorKeeps ==
  ASSUME IInv, NEW c \in Call, FindVendor(c)
  PROVE  IInv'
  <1>1. /\ pc[c] = "findVendor"
        /\ UNCHANGED <<weddings, status, request, reply, applied>>
        /\ \/ pc' = [pc EXCEPT ![c] = "insert"] /\ request[c].vendor \in Vendor
           \/ pc' = [pc EXCEPT ![c] = "notFound"]
    BY DEF FindVendor, Read, Goto
  <1>2. /\ c \notin applied /\ request[c] \in CreateRequest
        /\ request[c].customer \in weddings
    BY <1>1 DEF IInv, Known, Creating
  <1>3. ASSUME pc' = [pc EXCEPT ![c] = "insert"] PROVE Known(c)'
    <2>1. pc'[c] = "insert" /\ request[c].vendor \in Vendor
      BY <1>1, <1>3 DEF IInv, Types
    <2>2. QED
      BY <1>1, <1>2, <2>1 DEF Known, Creating, Deciding, Reloading
  <1>4. QED
    BY <1>1, <1>3, ReadKeeps DEF Waiting, Failure

LEMMA FindProfileKeeps ==
  ASSUME IInv, NEW c \in Call, FindProfile(c)
  PROVE  IInv'
  <1>1. /\ pc[c] = "findProfile"
        /\ UNCHANGED <<weddings, status, request, reply, applied>>
        /\ \/ pc' = [pc EXCEPT ![c] = "findBooking"] /\ request[c].vendor \in Vendor
           \/ pc' = [pc EXCEPT ![c] = "notFound"]
    BY DEF FindProfile, Read, Goto
  <1>2. c \notin applied /\ request[c] \in DecideRequest
    BY <1>1 DEF IInv, Known, Deciding, Reloading
  <1>3. ASSUME pc' = [pc EXCEPT ![c] = "findBooking"] PROVE Known(c)'
    <2>1. pc'[c] = "findBooking" /\ request[c].vendor \in Vendor
      BY <1>1, <1>3 DEF IInv, Types
    <2>2. QED
      BY <1>1, <1>2, <2>1 DEF Known, Creating, Deciding, Reloading
  <1>4. QED
    BY <1>1, <1>3, ReadKeeps DEF Waiting, Failure

LEMMA FindBookingKeeps ==
  ASSUME IInv, NEW c \in Call, FindBooking(c)
  PROVE  IInv'
  <1>1. PICK label \in {"notFound", "conflict", "update"} :
          Goto(c, label) /\ (label = "update" => Owned(c))
    BY DEF FindBooking
  <1>2. /\ UNCHANGED <<weddings, status, request, reply, applied>>
        /\ pc'[c] = label /\ c \notin applied /\ request[c] \in DecideRequest
    BY <1>1 DEF FindBooking, Goto, IInv, Types, Known, Deciding, Reloading
  <1>3. Known(c)'
    BY <1>1, <1>2 DEF Known, Creating, Deciding, Reloading, Owned, Subject
  <1>4. label \in Waiting \cup Ended
    BY DEF Waiting, Ended, Failure
  <1>5. QED
    BY <1>1, <1>2, <1>3, <1>4, ReadingKeeps DEF Goto, IInv, Types

LEMMA ReloadProfileKeeps ==
  ASSUME IInv, NEW c \in Call, ReloadProfile(c)
  PROVE  IInv'
  <1>1. /\ pc[c] = "reloadProfile"
        /\ UNCHANGED <<weddings, status, request, reply, applied>>
        /\ \/ pc' = [pc EXCEPT ![c] = "reload"]
           \/ pc' = [pc EXCEPT ![c] = "notFound"]
    BY DEF ReloadProfile, Read, Goto
  <1>2. /\ c \in applied /\ request[c] \in DecideRequest
        /\ status[Subject(c)] # "NONE" /\ Subject(c)[2] = request[c].vendor
    BY <1>1 DEF IInv, Known, Deciding, Reloading
  <1>3. ASSUME pc' = [pc EXCEPT ![c] = "reload"] PROVE Known(c)'
    <2>1. pc'[c] = "reload" /\ Subject(c)' = Subject(c)
      BY <1>1, <1>3 DEF IInv, Types, Subject
    <2>2. QED
      BY <1>1, <1>2, <2>1 DEF Known, Creating, Deciding, Reloading
  <1>4. QED
    BY <1>1, <1>3, ReadKeeps DEF Waiting, Failure

LEMMA ReloadKeeps ==
  ASSUME IInv, NEW c \in Call, Reload(c)
  PROVE  IInv'
  <1>1. /\ pc[c] = "reload" /\ UNCHANGED <<weddings, status, request, applied>>
        /\ pc' = [pc EXCEPT ![c] = "ok"] /\ pc'[c] = "ok"
        /\ reply' = [reply EXCEPT ![c] = status[Subject(c)]]
        /\ reply'[c] = status[Subject(c)]
    <2>1. Owned(c)
      BY DEF Reload, Owned, IInv, Known, Reloading
    <2>2. QED
      BY <2>1 DEF Reload, Goto, IInv, Types
  <1>2. /\ request[c] \in DecideRequest /\ c \in applied
        /\ Subject(c)[2] = request[c].vendor
    BY <1>1 DEF IInv, Known, Deciding, Reloading
  <1>3. request[c].op = "decide" /\ Subject(c) \in Booking
    BY <1>2, DecideFields DEF Subject
  <1>4. status[Subject(c)] = request[c].decision
    BY <1>2, <1>3 DEF IInv, Left
  <1>5. Known(c)'
    BY <1>1, <1>2, <1>3, <1>4 DEF Known, Creating, Deciding, Reloading, Subject
  <1>6. reply' \in [Call -> Ledger!Status]
    BY <1>1, <1>3 DEF IInv, Types
  <1>7. QED
    BY <1>1, <1>5, <1>6, ReadingKeeps DEF IInv, Types, Ended

LEMMA CutOffKeeps ==
  ASSUME IInv, NEW c \in Call, CutOff(c)
  PROVE  IInv'
  <1>1. /\ UNCHANGED <<weddings, status, request, reply, applied>>
        /\ pc' = [pc EXCEPT ![c] = "cut"] /\ pc'[c] = "cut"
    BY DEF CutOff, Goto, IInv, Types
  <1>2. Known(c)'
    BY <1>1 DEF Known, Creating, Deciding, Reloading
  <1>3. QED
    BY <1>1, <1>2, ReadingKeeps DEF IInv, Types, Ended, Failure

-----------------------------------------------------------------------------
(* The two statements that write, and the new weddings.                    *)
LEMMA OthersKeep ==
  ASSUME IInv, NEW d \in Call, pc'[d] = pc[d], request' = request,
         reply'[d] = reply[d], d \in applied' <=> d \in applied,
         weddings \subseteq weddings',
         \A b \in Booking : status[b] # "NONE" => status'[b] # "NONE",
         \A b \in Booking : status[b] \in Decision => status'[b] = status[b]
  PROVE  Known(d)' /\ Left(d)'
  <1>1. Subject(d)' = Subject(d)
    BY DEF Subject
  <1>2. Known(d)'
    <2>1. pc[d] \in {"update"} \cup Reloading => Subject(d) \in Booking
      BY DecideFields DEF IInv, Known, Deciding, Reloading, Subject
    <2>2. QED
      BY <1>1, <2>1 DEF IInv, Known, Creating, Deciding, Reloading
  <1>3. Left(d)'
    <2>1. ASSUME d \in applied, request[d].op = "decide"
          PROVE  status'[Subject(d)] = request[d].decision
      <3>1. request[d] \in DecideRequest
        BY <2>1, CreateFields DEF IInv, Left
      <3>2. Subject(d) \in Booking /\ request[d].decision \in Decision
        BY <2>1, <3>1, DecideFields DEF Subject
      <3>3. QED
        BY <2>1, <3>2 DEF IInv, Left
    <2>2. QED
      BY <1>1, <2>1 DEF IInv, Left
  <1>4. QED
    BY <1>2, <1>3

LEMMA WriterAdded ==
  ASSUME Types, NEW c \in Call, request' = request, applied' = applied \cup {c},
         NEW op, NEW b
  PROVE  Writers(op, b)' = IF request[c].op = op /\ Subject(c) = b
                           THEN Writers(op, b) \cup {c} ELSE Writers(op, b)
  <1>1. \A d \in Call : Subject(d)' = Subject(d)
    BY DEF Subject
  <1>2. QED
    BY <1>1 DEF Writers, Types

LEMMA InsertKeeps ==
  ASSUME IInv, NEW c \in Call, Insert(c)
  PROVE  IInv'
  <1>1. PICK b : b = Subject(c)
    OBVIOUS
  <1>2. /\ pc[c] = "insert" /\ c \notin applied /\ request[c] \in CreateRequest
        /\ request[c].customer \in weddings /\ request[c].vendor \in Vendor
    BY DEF Insert, IInv, Known, Creating
  <1>3. /\ request[c].op = "create"
        /\ b = <<request[c].customer, request[c].vendor>>
        /\ b \in Booking /\ b[1] \in weddings
    BY <1>1, <1>2, CreateFields DEF Subject, Booking, Ledger!Booking, Wedding
  <1>4. CASE Taken(b)
    <2>1. /\ UNCHANGED <<weddings, status, request, reply, applied>>
          /\ pc' = [pc EXCEPT ![c] = "conflict"] /\ pc'[c] = "conflict"
      BY <1>1, <1>4 DEF Insert, Goto, IInv, Types
    <2>2. Known(c)'
      BY <2>1 DEF Known, Creating, Deciding, Reloading
    <2>3. QED
      BY <2>1, <2>2, ReadingKeeps DEF IInv, Types, Ended, Failure
  <1>5. CASE ~Taken(b)
    <2>1. /\ status' = [status EXCEPT ![b] = "PENDING"]
          /\ reply' = [reply EXCEPT ![c] = "PENDING"]
          /\ applied' = applied \cup {c} /\ request' = request
          /\ pc' = [pc EXCEPT ![c] = "ok"] /\ weddings' = weddings
      BY <1>1, <1>5 DEF Insert, Goto
    <2>2. /\ status[b] = "NONE" /\ status'[b] = "PENDING"
          /\ \A x \in Booking : x # b => status'[x] = status[x]
          /\ pc'[c] = "ok" /\ reply'[c] = "PENDING"
      BY <1>3, <1>5, <2>1 DEF Taken, IInv, Types
    <2>3. Types'
      BY <2>1, Statuses DEF IInv, Types, Ended
    <2>4. ASSUME NEW d \in Call, d # c PROVE Known(d)' /\ Left(d)'
      <3>1. pc'[d] = pc[d] /\ reply'[d] = reply[d] /\ (d \in applied' <=> d \in applied)
        BY <2>1, <2>4 DEF IInv, Types
      <3>2. /\ \A x \in Booking : status[x] # "NONE" => status'[x] # "NONE"
            /\ \A x \in Booking : status[x] \in Decision => status'[x] = status[x]
        BY <2>2, Statuses
      <3>3. QED
        BY <2>1, <3>1, <3>2, OthersKeep
    <2>5. Known(c)' /\ Left(c)'
      BY <1>2, <1>3, <2>1, <2>2 DEF Known, Left, Creating, Deciding, Reloading
    <2>6. ASSUME NEW x \in Booking PROVE Authored(x)'
      <3>1. Writers("decide", x)' = Writers("decide", x)
        BY <1>3, <2>1, WriterAdded DEF IInv
      <3>2. Writers("create", x)' =
              IF x = b THEN Writers("create", x) \cup {c} ELSE Writers("create", x)
        BY <1>1, <1>3, <2>1, WriterAdded DEF IInv
      <3>3. CASE x = b
        BY <1>3, <2>1, <2>2, <3>1, <3>2, <3>3, Statuses DEF IInv, Authored
      <3>4. CASE x # b
        BY <2>1, <2>2, <3>1, <3>2, <3>4 DEF IInv, Authored
      <3>5. QED
        BY <3>3, <3>4
    <2>7. QED
      BY <2>3, <2>4, <2>5, <2>6 DEF IInv
  <1>6. QED
    BY <1>4, <1>5

LEMMA UpdateKeeps ==
  ASSUME IInv, NEW c \in Call, Update(c)
  PROVE  IInv'
  <1>1. PICK b : b = Subject(c)
    OBVIOUS
  <1>2. /\ pc[c] = "update" /\ c \notin applied /\ request[c] \in DecideRequest
        /\ b[2] = request[c].vendor
    BY <1>1 DEF Update, IInv, Known, Deciding, Reloading
  <1>3. /\ request[c].op = "decide" /\ b = request[c].booking
        /\ b \in Booking /\ request[c].decision \in Decision
    BY <1>1, <1>2, DecideFields DEF Subject
  <1>4. CASE ~Matches(c)
    <2>1. /\ UNCHANGED <<weddings, status, request, reply, applied>>
          /\ pc' = [pc EXCEPT ![c] = "conflict"] /\ pc'[c] = "conflict"
      BY <1>1, <1>4 DEF Update, AfterUpdate, Goto, IInv, Types
    <2>2. Known(c)'
      BY <2>1 DEF Known, Creating, Deciding, Reloading
    <2>3. QED
      BY <2>1, <2>2, ReadingKeeps DEF IInv, Types, Ended, Failure
  <1>5. CASE Matches(c)
    <2>1. /\ status' = [status EXCEPT ![b] = request[c].decision]
          /\ applied' = applied \cup {c} /\ request' = request
          /\ pc' = [pc EXCEPT ![c] = "reloadProfile"] /\ weddings' = weddings
          /\ reply' = reply
      BY <1>1, <1>5 DEF Update, AfterUpdate, Goto
    <2>2. /\ status[b] = "PENDING" /\ status'[b] = request[c].decision
          /\ \A x \in Booking : x # b => status'[x] = status[x]
          /\ pc'[c] = "reloadProfile"
      BY <1>1, <1>3, <1>5, <2>1 DEF Matches, IInv, Types
    <2>3. Types'
      BY <1>3, <2>1, Statuses DEF IInv, Types, Waiting
    <2>4. ASSUME NEW d \in Call, d # c PROVE Known(d)' /\ Left(d)'
      <3>1. pc'[d] = pc[d] /\ reply'[d] = reply[d] /\ (d \in applied' <=> d \in applied)
        BY <2>1, <2>4 DEF IInv, Types
      <3>2. /\ \A x \in Booking : status[x] # "NONE" => status'[x] # "NONE"
            /\ \A x \in Booking : status[x] \in Decision => status'[x] = status[x]
        BY <1>3, <2>2, Statuses
      <3>3. QED
        BY <2>1, <3>1, <3>2, OthersKeep
    <2>5. Known(c)' /\ Left(c)'
      <3>1. Subject(c)' = b
        BY <1>1, <2>1 DEF Subject
      <3>2. QED
        BY <1>2, <1>3, <2>1, <2>2, <3>1, Statuses DEF Known, Left, Creating, Deciding, Reloading
    <2>6. ASSUME NEW x \in Booking PROVE Authored(x)'
      <3>1. Writers("create", x)' = Writers("create", x)
        BY <1>3, <2>1, WriterAdded DEF IInv
      <3>2. Writers("decide", x)' =
              IF x = b THEN Writers("decide", x) \cup {c} ELSE Writers("decide", x)
        BY <1>1, <1>3, <2>1, WriterAdded DEF IInv
      <3>3. CASE x = b
        BY <1>3, <2>1, <2>2, <3>1, <3>2, <3>3, Statuses DEF IInv, Authored
      <3>4. CASE x # b
        BY <2>1, <2>2, <3>1, <3>2, <3>4 DEF IInv, Authored
      <3>5. QED
        BY <3>3, <3>4
    <2>7. QED
      BY <2>3, <2>4, <2>5, <2>6 DEF IInv
  <1>6. QED
    BY <1>4, <1>5

LEMMA CreateWeddingKeeps ==
  ASSUME IInv, NEW w \in Wedding, CreateWedding(w)
  PROVE  IInv'
  <1>1. /\ weddings' = weddings \cup {w}
        /\ UNCHANGED <<status, pc, request, reply, applied>>
    BY DEF CreateWedding
  <1>2. Types'
    BY <1>1 DEF IInv, Types
  <1>3. \A d \in Call : Known(d)' /\ Left(d)'
    BY <1>1, OthersKeep
  <1>4. \A op, b : Writers(op, b)' = Writers(op, b)
    BY <1>1 DEF Writers, Subject
  <1>5. \A b \in Booking : Authored(b)'
    BY <1>1, <1>4 DEF IInv, Authored
  <1>6. QED
    BY <1>2, <1>3, <1>5 DEF IInv

-----------------------------------------------------------------------------
LEMMA InitEstablishes ==
  ASSUME Init PROVE IInv
  <1>1. Types
    BY Statuses DEF Init, Types
  <1>2. \A op, b : Writers(op, b) = {}
    BY DEF Init, Writers
  <1>3. \A b \in Booking : Authored(b)
    BY <1>2, Statuses DEF Init, Authored
  <1>4. \A c \in Call : Known(c) /\ Left(c)
    BY DEF Init, Known, Left, Creating, Deciding, Reloading
  <1>5. QED
    BY <1>1, <1>3, <1>4 DEF IInv

LEMMA NextKeeps ==
  ASSUME IInv, [Next]_vars PROVE IInv'
  <1>1. CASE UNCHANGED vars
    <2>1. Types' /\ (\A op, b : Writers(op, b)' = Writers(op, b))
      BY <1>1 DEF vars, IInv, Types, Writers, Subject
    <2>2. \A c \in Call : Known(c)' /\ Left(c)'
      BY <1>1, OthersKeep DEF vars
    <2>3. \A b \in Booking : Authored(b)'
      BY <1>1, <2>1 DEF vars, IInv, Authored
    <2>4. QED
      BY <2>1, <2>2, <2>3 DEF IInv
  <1>2. CASE Next
    BY <1>2, CallCreateKeeps, FindWeddingKeeps, FindVendorKeeps, InsertKeeps,
       CallDecideKeeps, FindProfileKeeps, FindBookingKeeps, UpdateKeeps,
       ReloadProfileKeeps, ReloadKeeps, CutOffKeeps, CreateWeddingKeeps DEF Next
  <1>3. QED
    BY <1>1, <1>2

(* The inductive invariant: what calls know and rows show, always.         *)
THEOREM BookingsInvariant == Spec => []IInv
  BY InitEstablishes, NextKeeps, PTL DEF Spec

(* The types, and that a booking's wedding exists (the foreign key).       *)
THEOREM TypeCorrect == Spec => []TypeOK
  <1>1. IInv => TypeOK
    BY DEF IInv, Types, TypeOK, Authored
  <1>2. QED
    BY <1>1, BookingsInvariant, PTL

(* Every row was inserted by one call and decided by at most one, whose    *)
(* verdict it carries (the unique index and the filter of updateMany).     *)
THEOREM OneAuthor == Spec => []EachRowHasOneAuthor
  <1>1. ASSUME IInv, NEW b \in Booking
        PROVE  /\ Cardinality(Writers("create", b)) =
                    IF status[b] = "NONE" THEN 0 ELSE 1
               /\ Cardinality(Writers("decide", b)) =
                    IF status[b] \in Decision THEN 1 ELSE 0
               /\ \A c \in Writers("decide", b) : status[b] = request[c].decision
    <2>1. Cardinality({}) = 0 /\ \A c : Cardinality({c}) = 1
      BY FS_EmptySet, FS_Singleton
    <2>2. Authored(b)
      BY <1>1 DEF IInv
    <2>3. \A c \in Writers("decide", b) : status[b] = request[c].decision
      BY <1>1 DEF IInv, Types, Writers, Left
    <2>4. QED
      BY <2>1, <2>2, <2>3 DEF Authored
  <1>2. IInv => EachRowHasOneAuthor
    BY <1>1 DEF EachRowHasOneAuthor
  <1>3. QED
    BY <1>2, BookingsInvariant, PTL

(* A call that succeeded did what it replies, and only the vendor of a     *)
(* booking decided it (transition re-reads the row after its update).      *)
THEOREM TrueReplies == Spec => []RepliesAreTrue
  <1>1. IInv => RepliesAreTrue
    BY DEF IInv, Known, RepliesAreTrue
  <1>2. QED
    BY <1>1, BookingsInvariant, PTL

(* The handlers implement the ledger of bookings: a booking goes from      *)
(* nothing to PENDING and then to one decision, whatever interleaves.      *)
THEOREM ImplementsBookings == Spec => ImplementsLedger
  <1>1. Init => Ledger!Init
    BY DEF Init, Ledger!Init, Booking
  <1>2. ASSUME IInv, [Next]_vars PROVE [Ledger!Next]_status
    <2>1. CASE UNCHANGED vars
      BY <2>1 DEF vars
    <2>2. ASSUME NEW c \in Call, Insert(c) PROVE [Ledger!Next]_status
      <3>1. request[c] \in CreateRequest /\ request[c].vendor \in Vendor
        BY <1>2, <2>2 DEF Insert, IInv, Known, Creating
      <3>2. Subject(c) \in Booking
        BY <3>1, CreateFields DEF Subject, Booking, Ledger!Booking, Wedding
      <3>3. CASE Taken(Subject(c))
        BY <2>2, <3>3 DEF Insert
      <3>4. CASE ~Taken(Subject(c))
        <4>1. Ledger!Request(Subject(c))
          BY <2>2, <3>4 DEF Insert, Taken, Ledger!Request
        <4>2. QED
          BY <3>2, <4>1 DEF Ledger!Next, Booking
      <3>5. QED
        BY <3>3, <3>4
    <2>3. ASSUME NEW c \in Call, Update(c) PROVE [Ledger!Next]_status
      <3>1. request[c] \in DecideRequest
        BY <1>2, <2>3 DEF Update, IInv, Known, Deciding, Reloading
      <3>2. Subject(c) \in Booking /\ request[c].decision \in Decision
        BY <3>1, DecideFields DEF Subject
      <3>3. CASE ~Matches(c)
        BY <2>3, <3>3 DEF Update
      <3>4. CASE Matches(c)
        <4>1. Ledger!Decide(Subject(c), request[c].decision)
          BY <2>3, <3>4 DEF Update, Matches, Ledger!Decide
        <4>2. QED
          BY <3>2, <4>1 DEF Ledger!Next, Booking, Decision
      <3>5. QED
        BY <3>3, <3>4
    <2>4. ASSUME NEW c \in Call,
                 \/ \E r \in CreateRequest : CallCreate(c, r)
                 \/ FindWedding(c) \/ FindVendor(c)
                 \/ \E r \in DecideRequest : CallDecide(c, r)
                 \/ FindProfile(c) \/ FindBooking(c) \/ ReloadProfile(c)
                 \/ Reload(c) \/ CutOff(c)
          PROVE  UNCHANGED status
      BY <2>4 DEF CallCreate, FindWedding, FindVendor, CallDecide, FindProfile,
                  FindBooking, ReloadProfile, Reload, CutOff, Read
    <2>5. CASE \E w \in Wedding : CreateWedding(w)
      BY <2>5 DEF CreateWedding
    <2>6. QED
      BY <1>2, <2>1, <2>2, <2>3, <2>4, <2>5 DEF Next
  <1>3. QED
    BY <1>1, <1>2, BookingsInvariant, PTL DEF Spec, ImplementsLedger, Ledger!Spec
=============================================================================
