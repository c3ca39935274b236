-------------------------- MODULE AllocationProofs --------------------------
(***************************************************************************)
(* The safety of ResourceAllocation, for any numbers of calls, weddings,   *)
(* vendors, servers and crashes.  The argument, in three layers: what a    *)
(* call has read stays true enough until it is used (Fits); under the      *)
(* unique index a vendor has one allocation or one open transaction, never *)
(* two (Unique); and the queues of the locks follow the program counters   *)
(* (LockInv).  At the end, ContentionDemo: its calls are calls of          *)
(* ResourceAllocation, so it keeps these invariants.                       *)
(***************************************************************************)
EXTENDS ContentionDemo, FiniteSetTheorems, TLAPS

Labels == {"idle", "orphan"} \cup Waiting \cup Ended
Requesting == {"findBooking", "queued", "orphan"} \cup Critical
Releasing == {"findHeld", "findAny", "update"}
Combining == {"readActive", "readReleased", "answer"}

(* A row of the vendor and the wedding that call c names.                  *)
Names(c, r) ==
  /\ r \in Committed
  /\ rows[r].vendor = request[c].vendor
  /\ rows[r].wedding = request[c].wedding

(* The row that a request inserted, that a release released.               *)
Own(c) == IF request[c].op = "request" THEN c ELSE freed[c]

Asked(c) ==
  /\ pc[c] # "idle" => request[c] \in Request
  /\ pc[c] \in Requesting => request[c].op = "request"
  /\ pc[c] \in Releasing => request[c].op = "release"

(* The booking judged before the lock was awaited is still ACCEPTED.       *)
Judged(c) ==
  pc[c] \in {"queued", "orphan"} \cup Critical =>
    /\ request[c].booking = <<request[c].wedding, request[c].vendor>>
    /\ status[request[c].booking] = "ACCEPTED"

Targeted(c) == pc[c] = "update" => Names(c, local[c].target)

Inserted(c) ==
  /\ rows[c] # NoRow =>
       /\ pc[c] \in {"committed", "throwError", "ok", "error", "cut"} \cup Reading
       /\ request[c].op = "request"
       /\ Names(c, c)
       /\ status[rows[c].booking] = "ACCEPTED"
  /\ (pc[c] \in {"committed", "ok"} \cup Reading /\ request[c].op = "request") =>
       rows[c] # NoRow

Freed(c) ==
  /\ freed[c] # NoRow =>
       /\ pc[c] \in Reading \cup {"ok", "error", "cut"}
       /\ request[c].op = "release"
       /\ Names(c, freed[c])
       /\ rows[freed[c]].status = "RELEASED"
  /\ (pc[c] \in {"ok"} \cup Reading /\ request[c].op = "release") =>
       freed[c] # NoRow

(* A reader finds the row it is about among the active ones or, as it was  *)
(* released before, among the released ones.                               *)
Seen(c) ==
  (pc[c] \in {"ok"} \cup Combining /\ request[c].op \in {"request", "release"}) =>
    /\ pc[c] \in Combining => request[c].vendor \in DOMAIN local[c].booked
    /\ pc[c] = "readReleased" =>
         Own(c) \in local[c].active \/ rows[Own(c)].status = "RELEASED"
    /\ pc[c] = "answer" => Own(c) \in local[c].active \cup local[c].released
    /\ pc[c] = "ok" => view[c][request[c].vendor].state # "AVAILABLE"

Fits(c) == /\ Asked(c) /\ Judged(c) /\ Targeted(c)
           /\ Inserted(c) /\ Freed(c) /\ Seen(c)

IInv == TypeOK /\ \A c \in Call : Fits(c)

(* At most one of the allocations and open transactions of a vendor.       *)
Unique ==
  /\ \A r, s \in Allocated : rows[r].vendor = rows[s].vendor => r = s
  /\ \A c \in OpenTransactions : AllocatedOf(request[c].vendor) = {}
  /\ \A c, d \in OpenTransactions : request[c].vendor = request[d].vendor => c = d

(* A row is released once.                                                 *)
Once ==
  /\ \A c, d \in Call : (freed[c] = freed[d] /\ freed[c] # NoRow) => c = d
  /\ \A r \in Committed :
       rows[r].status = "RELEASED" => \E c \in Call : freed[c] = r

(* Nobody queues twice.                                                    *)
NoDuplicates ==
  \A k \in LockKey : \A i, j \in 1..Len(queue[k]) :
    queue[k][i] = queue[k][j] => i = j

LockInv == NoDuplicates /\ LockFollowsCalls

-----------------------------------------------------------------------------
LEMMA RequestFields ==
  ASSUME NEW r \in Request
  PROVE  /\ r.op \in {"request", "release", "list", "get"}
         /\ r.wedding \in Wedding /\ r.vendor \in Vendor
         /\ r.op = "request" => r.booking \in Booking
  BY DEF Request

LEMMA LabelsAre ==
  /\ Waiting \subseteq Labels /\ Ended \subseteq Labels
  /\ Critical \subseteq Waiting /\ Reading \subseteq Waiting
  /\ Releasing \subseteq Waiting /\ Combining \subseteq Reading
  /\ Waiting \cap Ended = {} /\ "idle" \notin Waiting \cup Ended
  BY DEF Labels, Waiting, Ended, Critical, Reading, Releasing, Combining

LEMMA GotoFacts ==
  ASSUME TypeOK, NEW c \in Call, NEW label \in Labels, Goto(c, label)
  PROVE  /\ pc' \in [Call -> Labels]
         /\ pc'[c] = label
         /\ \A d \in Call \ {c} : pc'[d] = pc[d]
  BY DEF TypeOK, Goto, Labels

(* The locks of the services have the types of FifoMutex.                  *)
LEMMA LockTypes ==
  ASSUME Lock!TypeOK, NEW c \in Call, NEW k \in LockKey,
         Lock!Arrive(c, k) \/ Lock!Enter(c, k) \/ Lock!Leave(c, k)
  PROVE  Lock!TypeOK'
  <1>1. CASE Lock!Arrive(c, k)
    <2>1. Append(queue[k], c) \in Seq(Call)
      BY DEF Lock!TypeOK
    <2>2. QED
      BY <1>1, <2>1 DEF Lock!TypeOK, Lock!Arrive
  <1>2. CASE Lock!Enter(c, k)
    BY <1>2 DEF Lock!TypeOK, Lock!Enter
  <1>3. CASE Lock!Leave(c, k)
    <2>1. queue[k] \in Seq(Call) /\ queue[k] # <<>>
      BY <1>3 DEF Lock!TypeOK, Lock!Leave, Lock!IsFirst
    <2>2. Tail(queue[k]) \in Seq(Call)
      BY <2>1
    <2>3. QED
      BY <1>3, <2>2 DEF Lock!TypeOK, Lock!Leave
  <1>4. QED
    BY <1>1, <1>2, <1>3

-----------------------------------------------------------------------------
(* What the steps of others may do to the tables under a call's feet.      *)
Kept ==
  /\ \A r \in Committed :
       /\ rows'[r] # NoRow
       /\ rows'[r].wedding = rows[r].wedding
       /\ rows'[r].vendor = rows[r].vendor
       /\ rows'[r].booking = rows[r].booking
       /\ rows[r].status = "RELEASED" => rows'[r].status = "RELEASED"
  /\ \A b \in Booking : status[b] = "ACCEPTED" => status'[b] = "ACCEPTED"

LEMMA OthersFit ==
  ASSUME IInv, Kept, NEW d \in Call, rows[d] = NoRow => rows'[d] = NoRow,
         pc'[d] = pc[d], request'[d] = request[d], local'[d] = local[d],
         view'[d] = view[d], freed'[d] = freed[d]
  PROVE  Fits(d)'
  <1>0. Fits(d)
    BY DEF IInv
  <1>1. Asked(d)'
    BY <1>0 DEF Fits, Asked
  <1>2. \A r : Names(d, r) => Names(d, r)'
    BY DEF Names, Committed, Kept
  <1>3. Judged(d)'
    <2>1. CASE pc[d] \in {"queued", "orphan"} \cup Critical
      <3>1. request[d] \in Request /\ request[d].op = "request"
        BY <1>0, <2>1 DEF Fits, Asked, Requesting, Critical
      <3>2. request[d].booking \in Booking
        BY <3>1, RequestFields
      <3>3. QED
        BY <1>0, <2>1, <3>2 DEF Fits, Judged, Kept
    <2>2. CASE pc[d] \notin {"queued", "orphan"} \cup Critical
      BY <2>2 DEF Judged
    <2>3. QED
      BY <2>1, <2>2
  <1>4. Targeted(d)'
    BY <1>0, <1>2 DEF Fits, Targeted
  <1>5. Inserted(d)'
    <2>1. CASE rows[d] = NoRow
      BY <1>0, <2>1 DEF Fits, Inserted
    <2>2. CASE rows[d] # NoRow
      <3>1. d \in Committed /\ rows[d].booking \in Booking
        BY <2>2 DEF IInv, TypeOK, Committed, Row
      <3>2. /\ rows'[d] # NoRow /\ rows'[d].booking = rows[d].booking
            /\ status'[rows[d].booking] = "ACCEPTED"
        BY <1>0, <2>2, <3>1 DEF Fits, Inserted, Kept
      <3>3. Names(d, d)'
        BY <1>0, <1>2, <2>2 DEF Fits, Inserted
      <3>4. QED
        BY <1>0, <2>2, <3>2, <3>3 DEF Fits, Inserted
    <2>3. QED
      BY <2>1, <2>2
  <1>6. Freed(d)'
    <2>1. freed[d] # NoRow =>
            Names(d, freed[d])' /\ rows'[freed[d]].status = "RELEASED"
      BY <1>0, <1>2 DEF Fits, Freed, Names, Kept
    <2>2. QED
      BY <1>0, <2>1 DEF Fits, Freed
  <1>7. Seen(d)'
    <2>1. Own(d)' = Own(d)
      BY DEF Own
    <2>2. ASSUME pc[d] = "readReleased",
                 request[d].op \in {"request", "release"}
          PROVE  Own(d) \in Committed
      BY <1>0, <2>2 DEF Fits, Inserted, Freed, Own, Names, Committed, Reading
    <2>3. ASSUME pc[d] = "readReleased",
                 request[d].op \in {"request", "release"},
                 rows[Own(d)].status = "RELEASED"
          PROVE  rows'[Own(d)].status = "RELEASED"
      BY <2>2, <2>3 DEF Kept
    <2> HIDE DEF Own
    <2>4. QED
      BY <1>0, <2>1, <2>3 DEF Fits, Seen
  <1>8. QED
    BY <1>1, <1>3, <1>4, <1>5, <1>6, <1>7 DEF Fits

(* A step of call c that writes nothing: it keeps what all know if c still *)
(* fits its next label.                                                    *)
LEMMA MoveHolds ==
  ASSUME IInv, NEW c \in Call, NEW label \in Labels, Goto(c, label), KeepData,
         Lock!TypeOK', local' \in [Call -> Local],
         \A d \in Call \ {c} : local'[d] = local[d],
         Fits(c)'
  PROVE  IInv'
  <1>1. TypeOK'
    BY GotoFacts DEF IInv, TypeOK, KeepData, db, Labels, Ledger!TypeOK, Row,
       Ledger!Booking
  <1>2. Kept
    BY DEF Kept, KeepData, db, Committed
  <1>3. \A d \in Call \ {c} : Fits(d)'
    BY <1>2, GotoFacts, OthersFit DEF IInv, KeepData, db
  <1>4. QED
    BY <1>1, <1>3 DEF IInv

(* The same of a step that touches neither the lock nor its local memory.  *)
LEMMA PureMoveHolds ==
  ASSUME IInv, NEW c \in Call, NEW label \in Labels, Goto(c, label), KeepData,
         UNCHANGED <<lock, local>>, Fits(c)'
  PROVE  IInv'
  BY MoveHolds DEF IInv, TypeOK, lock, Lock!TypeOK

(* A call that ended with an error, or is about to, promises nothing.      *)
LEMMA FailHolds ==
  ASSUME IInv, NEW c \in Call, NEW label \in {"error", "throwError"},
         Goto(c, label), KeepData, UNCHANGED <<lock, local>>,
         pc[c] \in Waiting,
         label = "throwError" => pc[c] \in {"queued"} \cup Critical
  PROVE  IInv'
  <1>1. label \in Labels
    BY DEF Labels, Waiting, Critical, Ended
  <1>2. pc'[c] = label
    BY <1>1, GotoFacts DEF IInv
  <1>3. UNCHANGED <<status, rows, request, freed>>
    BY DEF KeepData, db
  <1>4. Fits(c)
    BY DEF IInv
  <1>5. Asked(c)' /\ Judged(c)'
    BY <1>2, <1>3, <1>4, LabelsAre DEF Fits, Asked, Judged, Requesting, Releasing,
       Critical
  <1>6. Targeted(c)' /\ Seen(c)'
    BY <1>2 DEF Targeted, Seen, Combining
  <1>7. Inserted(c)'
    BY <1>2, <1>3, <1>4 DEF Fits, Inserted, Names, Committed, Reading
  <1>8. Freed(c)'
    <2>1. CASE freed[c] = NoRow
      BY <1>2, <1>3, <2>1 DEF Freed, Reading
    <2>2. CASE freed[c] # NoRow
      <3>1. pc[c] \in Reading /\ request[c].op = "release"
        BY <1>4, <2>2, LabelsAre DEF Fits, Freed, Ended
      <3>2. label = "error"
        BY <3>1 DEF Reading, Critical
      <3>3. QED
        BY <1>2, <1>3, <1>4, <3>2 DEF Fits, Freed, Names, Committed, Ended, Reading
    <2>3. QED
      BY <2>1, <2>2
  <1>9. QED
    BY <1>1, <1>5, <1>6, <1>7, <1>8, PureMoveHolds DEF Fits

-----------------------------------------------------------------------------
LEMMA InitHolds == Init => IInv
  <1> SUFFICES ASSUME Init
               PROVE  IInv
    OBVIOUS
  <1>1. NoLocal \in Local /\ NoEntries \in Entries(ResourceView)
    <2>1. ASSUME NEW Entry
          PROVE  NoEntries \in Entries(Entry)
      <3>1. NoEntries \in [{} -> Entry] /\ {} \in SUBSET Vendor
        BY DEF NoEntries
      <3>2. QED
        BY <3>1 DEF Entries
    <2>2. QED
      BY <2>1 DEF NoLocal, Local
  <1>2. Ledger!TypeOK
    BY DEF Init, Ledger!Init, Ledger!TypeOK, Ledger!Status
  <1>3. Lock!TypeOK
    BY DEF Init, Lock!Init, Lock!TypeOK
  <1>4. TypeOK
    BY <1>1, <1>2, <1>3, ConstantsAssumption DEF Init, TypeOK, Labels
  <1>5. \A c \in Call : Fits(c)
    BY DEF Init, Fits, Asked, Judged, Targeted, Inserted, Freed, Seen,
       Requesting, Releasing, Critical, Reading, Combining
  <1>6. QED
    BY <1>4, <1>5 DEF IInv

(* Where a call goes on once its wedding was found, or was not.            *)
LEMMA FindWeddingIs ==
  ASSUME NEW r \in Request, NEW label \in FindWedding(r)
  PROVE  /\ label \in {"findBooking", "findHeld", "readBookings", "badRequest"}
         /\ label = "findBooking" => r.op = "request"
         /\ label = "findHeld" => r.op = "release"
         /\ label = "readBookings" => r.op \notin {"request", "release"}
         /\ label \in Labels \ {"idle"}
  BY RequestFields DEF FindWedding, Labels, Waiting, Reading, Ended

LEMMA ReceiveHolds ==
  ASSUME IInv, NEW c \in Call, NEW r \in Request, Receive(c, r)
  PROVE  IInv'
  <1>0. PICK label \in FindWedding(r) : Goto(c, label)
    BY DEF Receive
  <1>1. /\ label \in {"findBooking", "findHeld", "readBookings", "badRequest"}
        /\ label = "findBooking" => r.op = "request"
        /\ label = "findHeld" => r.op = "release"
        /\ label = "readBookings" => r.op \notin {"request", "release"}
        /\ label \in Labels
    BY FindWeddingIs
  <1>2. /\ Goto(c, label) /\ request' = [request EXCEPT ![c] = r]
        /\ UNCHANGED <<db, lock, server, local, view, freed, crashes>>
        /\ pc[c] = "idle"
    BY <1>0 DEF Receive
  <1>3. label \in Labels
    BY <1>1
  <1>4. pc'[c] = label /\ request'[c] = r
        /\ \A d \in Call \ {c} : pc'[d] = pc[d] /\ request'[d] = request[d]
    BY <1>2, <1>3, GotoFacts DEF IInv, TypeOK
  <1>5. TypeOK'
    BY <1>2, <1>3, GotoFacts DEF IInv, TypeOK, db, lock, Labels, Ledger!TypeOK,
       Lock!TypeOK
  <1>6. rows'[c] = NoRow /\ freed'[c] = NoRow
    BY <1>2 DEF db, IInv, Fits, Inserted, Freed, Reading, Ended
  <1>7. Fits(c)'
    <2>1. Asked(c)' /\ Judged(c)' /\ Targeted(c)' /\ Seen(c)'
      BY <1>1, <1>4 DEF Asked, Judged, Targeted, Seen, Requesting, Releasing,
         Critical, Combining
    <2>2. Inserted(c)' /\ Freed(c)'
      BY <1>1, <1>4, <1>6 DEF Inserted, Freed, Reading
    <2>3. QED
      BY <2>1, <2>2 DEF Fits
  <1>8. Kept
    BY <1>2 DEF Kept, db, Committed
  <1>9. \A d \in Call \ {c} : Fits(d)'
    BY <1>2, <1>4, <1>8, OthersFit DEF db
  <1>10. QED
    BY <1>5, <1>7, <1>9 DEF IInv

-----------------------------------------------------------------------------
(* request.                                                                *)
LEMMA KeyIsLockKey ==
  ASSUME IInv, NEW c \in Call, pc[c] # "idle"
  PROVE  Key(c) \in LockKey
  <1>1. request[c].vendor \in Vendor
    BY RequestFields DEF IInv, Fits, Asked
  <1>2. QED
    BY <1>1 DEF IInv, TypeOK, Key, LockKey

(* A call that is refused before it writes anything.                       *)
LEMMA RefusedFits ==
  ASSUME IInv, NEW c \in Call, pc[c] \in Waiting,
         NEW label \in {"badRequest", "notFound", "conflict"}, pc'[c] = label,
         UNCHANGED <<rows, request, freed>>, rows[c] = NoRow,
         pc[c] \in Reading => request[c].op \notin {"request", "release"}
  PROVE  Fits(c)'
  <1>1. Fits(c)
    BY DEF IInv
  <1>2. Asked(c)' /\ Judged(c)' /\ Targeted(c)' /\ Seen(c)'
    BY <1>1, LabelsAre DEF Fits, Asked, Judged, Targeted, Seen, Requesting,
       Releasing, Critical, Combining
  <1>3. Inserted(c)'
    BY DEF Inserted, Reading
  <1>4. freed[c] = NoRow
    BY <1>1, LabelsAre DEF Fits, Freed, Ended
  <1>5. Freed(c)'
    BY <1>4 DEF Freed, Reading
  <1>6. QED
    BY <1>2, <1>3, <1>5 DEF Fits

LEMMA FindBookingHolds ==
  ASSUME IInv, NEW c \in Call, FindBooking(c)
  PROVE  IInv'
  <1> DEFINE r == request[c]
  <1>1. /\ pc[c] = "findBooking" /\ KeepData /\ UNCHANGED local
        /\ pc[c] \in Waiting /\ pc[c] \notin Reading /\ pc[c] # "idle"
    BY DEF FindBooking, Waiting, Reading
  <1>2. Fits(c) /\ r \in Request /\ r.op = "request" /\ rows[c] = NoRow
    BY <1>1 DEF IInv, Fits, Asked, Inserted, Requesting, Reading
  <1>3. UNCHANGED <<status, rows, request, freed>>
    BY <1>1 DEF KeepData, db
  <1>4. ASSUME NEW label \in {"notFound", "badRequest"}, Goto(c, label),
               UNCHANGED lock
        PROVE  IInv'
    <2>1. label \in Labels
      BY DEF Labels, Ended
    <2>2. pc'[c] = label
      BY <1>4, <2>1, GotoFacts DEF IInv
    <2>3. Fits(c)'
      BY <1>1, <1>2, <1>3, <2>2, RefusedFits
    <2>4. QED
      BY <1>1, <1>4, <2>1, <2>3, PureMoveHolds
  <1>5. ASSUME Found(r), r.booking[2] = r.vendor, Accepted(r),
               Goto(c, "queued"), Lock!Arrive(c, Key(c))
        PROVE  IInv'
    <2>1. "queued" \in Labels
      BY DEF Labels, Waiting
    <2>2. pc'[c] = "queued"
      BY <1>5, <2>1, GotoFacts DEF IInv
    <2>3. r.booking = <<r.wedding, r.vendor>>
      BY <1>2, <1>5, RequestFields DEF Found, Booking
    <2>4. Asked(c)' /\ Judged(c)' /\ Targeted(c)' /\ Seen(c)'
      BY <1>2, <1>3, <1>5, <2>2, <2>3 DEF Asked, Judged, Targeted, Seen,
         Releasing, Combining, Accepted
    <2>5. Inserted(c)' /\ Freed(c)'
      BY <1>1, <1>2, <1>3, <2>2 DEF Fits, Inserted, Freed, Reading, Ended
    <2>6. Key(c) \in LockKey
      BY <1>1, KeyIsLockKey
    <2>7. Lock!TypeOK'
      BY <1>5, <2>6, LockTypes DEF IInv, TypeOK
    <2>8. QED
      BY <1>1, <1>5, <2>1, <2>4, <2>5, <2>7, MoveHolds DEF Fits, IInv, TypeOK
  <1>6. QED
    BY <1>4, <1>5 DEF FindBooking

(* A step of the critical section that writes nothing.                     *)
LEMMA InsideHolds ==
  ASSUME IInv, NEW c \in Call, pc[c] \in {"queued", "check", "insert"},
         NEW label \in {"check", "insert", "inserted", "throwConflict"},
         Goto(c, label), KeepData, UNCHANGED local, Lock!TypeOK'
  PROVE  IInv'
  <1>1. label \in Labels
    BY DEF Labels, Waiting, Critical
  <1>2. pc'[c] = label
    BY <1>1, GotoFacts DEF IInv
  <1>3. UNCHANGED <<status, rows, request, freed>>
    BY DEF KeepData, db
  <1>4. Fits(c)
    BY DEF IInv
  <1>5. Asked(c)' /\ Judged(c)'
    BY <1>2, <1>3, <1>4 DEF Fits, Asked, Judged, Requesting, Releasing, Critical
  <1>6. Targeted(c)' /\ Seen(c)'
    BY <1>2 DEF Targeted, Seen, Combining
  <1>7. Inserted(c)' /\ Freed(c)'
    BY <1>2, <1>3, <1>4 DEF Fits, Inserted, Freed, Reading, Ended
  <1>8. QED
    BY <1>1, <1>5, <1>6, <1>7, MoveHolds DEF Fits, IInv, TypeOK

LEMMA EnterCriticalHolds ==
  ASSUME IInv, NEW c \in Call, EnterCritical(c)
  PROVE  IInv'
  <1>1. Key(c) \in LockKey
    BY KeyIsLockKey DEF EnterCritical
  <1>2. Lock!TypeOK'
    BY <1>1, LockTypes DEF EnterCritical, IInv, TypeOK
  <1>3. QED
    BY <1>2, InsideHolds DEF EnterCritical

LEMMA CheckFreeHolds ==
  ASSUME IInv, NEW c \in Call, CheckFree(c)
  PROVE  IInv'
  <1>1. Lock!TypeOK'
    BY DEF CheckFree, IInv, TypeOK, lock, Lock!TypeOK
  <1>2. QED
    BY <1>1, InsideHolds DEF CheckFree

LEMMA InsertHolds ==
  ASSUME IInv, NEW c \in Call, Insert(c)
  PROVE  IInv'
  <1>1. Lock!TypeOK'
    BY DEF Insert, IInv, TypeOK, lock, Lock!TypeOK
  <1>2. QED
    BY <1>1, InsideHolds DEF Insert

(* The row that an open transaction may commit.                            *)
LEMMA NewRowFacts ==
  ASSUME IInv, NEW c \in OpenTransactions
  PROVE  /\ request[c] \in Request /\ request[c].op = "request"
         /\ NewRow(c) \in Row /\ NewRow(c) # NoRow
         /\ status[request[c].booking] = "ACCEPTED"
         /\ rows[c] = NoRow /\ freed[c] = NoRow
  <1>1. c \in Call /\ pc[c] \in {"inserted", "orphan"} /\ Fits(c)
    BY DEF OpenTransactions, IInv
  <1>2. request[c] \in Request /\ request[c].op = "request"
    BY <1>1 DEF Fits, Asked, Requesting, Critical
  <1>3. request[c].booking = <<request[c].wedding, request[c].vendor>>
        /\ status[request[c].booking] = "ACCEPTED"
    BY <1>1 DEF Fits, Judged, Critical
  <1>4. NewRow(c) \in Row
    BY <1>2, <1>3, RequestFields DEF NewRow, Row
  <1>5. rows[c] = NoRow /\ freed[c] = NoRow
    BY <1>1 DEF Fits, Inserted, Freed, Reading, Ended
  <1>6. QED
    BY <1>2, <1>3, <1>4, <1>5, RowAssumption

LEMMA CommitRowHolds ==
  ASSUME IInv, NEW c \in OpenTransactions,
         NEW label \in {"committed", "throwError", "cut"}, Goto(c, label),
         label = "cut" => pc[c] = "orphan", CommitRow(c),
         UNCHANGED <<status, lock, request, server, local, view, freed, crashes>>
  PROVE  IInv'
  <1>1. /\ request[c] \in Request /\ request[c].op = "request"
        /\ NewRow(c) \in Row /\ NewRow(c) # NoRow
        /\ status[request[c].booking] = "ACCEPTED"
        /\ rows[c] = NoRow /\ freed[c] = NoRow
    BY NewRowFacts
  <1>2. label \in Labels /\ c \in Call
    BY DEF Labels, Waiting, Critical, Ended, OpenTransactions
  <1>3. pc'[c] = label /\ \A d \in Call \ {c} : pc'[d] = pc[d]
    BY <1>2, GotoFacts DEF IInv
  <1>4. rows'[c] = NewRow(c) /\ \A r \in Call \ {c} : rows'[r] = rows[r]
    BY <1>2 DEF CommitRow, IInv, TypeOK
  <1>5. TypeOK'
    BY <1>1, <1>2, GotoFacts DEF IInv, TypeOK, CommitRow, lock, Labels,
       Ledger!TypeOK, Lock!TypeOK
  <1>6. Kept
    BY <1>1, <1>4 DEF Kept, Committed
  <1>7. \A d \in Call \ {c} : Fits(d)'
    BY <1>3, <1>4, <1>6, OthersFit
  <1>8. Fits(c)'
    <2>1. Fits(c)
      BY <1>2 DEF IInv
    <2>2. Asked(c)' /\ Judged(c)'
      BY <1>1, <1>2, <1>3, <2>1 DEF Fits, Asked, Judged, Requesting, Releasing,
         Critical, OpenTransactions
    <2>3. Targeted(c)' /\ Seen(c)' /\ Freed(c)'
      BY <1>1, <1>3 DEF Targeted, Seen, Freed, Combining, Reading
    <2>4. Names(c, c)' /\ rows'[c].booking = request[c].booking
      BY <1>1, <1>2, <1>4 DEF Names, Committed, NewRow
    <2>5. Inserted(c)'
      BY <1>1, <1>3, <1>4, <2>4 DEF Inserted
    <2>6. QED
      BY <2>2, <2>3, <2>5 DEF Fits
  <1>9. QED
    BY <1>5, <1>7, <1>8 DEF IInv

LEMMA CommitHolds ==
  ASSUME IInv, NEW c \in Call, Commit(c)
  PROVE  IInv'
  BY CommitRowHolds DEF Commit, OpenTransactions

LEMMA AbortTransactionHolds ==
  ASSUME IInv, NEW c \in Call, AbortTransaction(c)
  PROVE  IInv'
  BY FailHolds DEF AbortTransaction, Waiting, Critical

LEMMA StatementFailsHolds ==
  ASSUME IInv, NEW c \in Call, StatementFails(c)
  PROVE  IInv'
  BY FailHolds DEF StatementFails, Waiting

LEMMA LeaveCriticalHolds ==
  ASSUME IInv, NEW c \in Call, LeaveCritical(c)
  PROVE  IInv'
  <1>1. /\ pc[c] \in {"committed", "throwConflict", "throwError"}
        /\ pc[c] \in Waiting /\ pc[c] \notin Reading /\ pc[c] # "idle"
        /\ KeepData /\ UNCHANGED local
    BY DEF LeaveCritical, Waiting, Critical, Reading
  <1>2. Fits(c) /\ freed[c] = NoRow /\ request[c].op = "request"
    BY <1>1 DEF IInv, Fits, Freed, Asked, Requesting, Critical, Reading, Ended
  <1>3. Lock!TypeOK'
    <2>1. Key(c) \in LockKey
      BY <1>1, KeyIsLockKey
    <2>2. QED
      BY <2>1, LockTypes DEF LeaveCritical, IInv, TypeOK
  <1>4. UNCHANGED <<status, rows, request, freed>>
    BY <1>1 DEF KeepData, db
  <1>5. After(pc[c]) \in {"readBookings", "conflict", "error"}
    BY <1>1 DEF After
  <1>6. After(pc[c]) \in Labels
    BY <1>5 DEF Labels, Waiting, Reading, Ended
  <1>7. pc'[c] = After(pc[c])
    BY <1>6, GotoFacts DEF LeaveCritical, IInv
  <1>8. Fits(c)'
    <2>1. CASE pc[c] = "throwConflict"
      <3>1. pc'[c] = "conflict"
        BY <1>7, <2>1 DEF After
      <3>2. rows[c] = NoRow
        BY <1>2, <2>1 DEF Fits, Inserted, Reading
      <3>3. QED
        BY <1>1, <1>4, <3>1, <3>2, RefusedFits
    <2>2. CASE pc[c] \in {"committed", "throwError"}
      <3>1. /\ pc[c] = "committed" => pc'[c] = "readBookings"
            /\ pc[c] = "throwError" => pc'[c] = "error"
        BY <1>7 DEF After
      <3>2. Asked(c)' /\ Judged(c)' /\ Targeted(c)' /\ Seen(c)'
        BY <1>1, <1>2, <1>4, <2>2, <3>1 DEF Fits, Asked, Judged, Targeted, Seen,
           Requesting, Releasing, Critical, Combining
      <3>3. Freed(c)'
        BY <1>2, <1>4 DEF Freed
      <3>4. Names(c, c) => Names(c, c)'
        BY <1>4 DEF Names, Committed
      <3>5. Inserted(c)'
        BY <1>2, <1>4, <2>2, <3>1, <3>4 DEF Fits, Inserted, Reading
      <3>6. QED
        BY <3>2, <3>3, <3>5 DEF Fits
    <2>3. QED
      BY <1>1, <2>1, <2>2
  <1>9. QED
    BY <1>1, <1>3, <1>6, <1>8, MoveHolds DEF LeaveCritical, IInv, TypeOK

-----------------------------------------------------------------------------
(* release.                                                                *)
LEMMA ReleasingFacts ==
  ASSUME IInv, NEW c \in Call, pc[c] \in Releasing
  PROVE  /\ request[c] \in Request /\ request[c].op = "release"
         /\ rows[c] = NoRow /\ freed[c] = NoRow
         /\ pc[c] \in Waiting /\ pc[c] \notin Reading
  <1>1. Fits(c)
    BY DEF IInv
  <1>2. pc[c] \in Waiting /\ pc[c] \notin Reading
    BY DEF Releasing, Waiting, Reading
  <1>3. QED
    BY <1>1, <1>2, LabelsAre DEF Fits, Asked, Inserted, Freed, Releasing, Labels,
       Waiting, Ended

LEMMA FindHeldHolds ==
  ASSUME IInv, NEW c \in Call, FindHeld(c)
  PROVE  IInv'
  <1>1. pc[c] = "findHeld" /\ KeepData /\ UNCHANGED lock
    BY DEF FindHeld
  <1>2. /\ request[c] \in Request /\ request[c].op = "release"
        /\ rows[c] = NoRow /\ freed[c] = NoRow
    BY <1>1, ReleasingFacts DEF Releasing
  <1>3. UNCHANGED <<status, rows, request, freed>>
    BY <1>1 DEF KeepData, db
  <1>4. ASSUME NEW label \in {"findAny", "update"}, Goto(c, label),
               local' \in [Call -> Local],
               \A d \in Call \ {c} : local'[d] = local[d],
               label = "update" => Names(c, local'[c].target)
        PROVE  IInv'
    <2>1. label \in Labels
      BY DEF Labels, Waiting
    <2>2. pc'[c] = label
      BY <1>4, <2>1, GotoFacts DEF IInv
    <2>3. Asked(c)' /\ Judged(c)' /\ Seen(c)' /\ Inserted(c)' /\ Freed(c)'
      BY <1>2, <1>3, <2>2 DEF Asked, Judged, Seen, Inserted, Freed, Requesting,
         Critical, Combining, Reading
    <2>4. Targeted(c)'
      BY <1>3, <1>4, <2>2 DEF Targeted, Names, Committed
    <2>5. Lock!TypeOK'
      BY <1>1 DEF IInv, TypeOK, lock, Lock!TypeOK
    <2>6. QED
      BY <1>1, <1>4, <2>1, <2>3, <2>4, <2>5, MoveHolds DEF Fits
  <1>5. ASSUME Goto(c, "findAny"), UNCHANGED local
        PROVE  IInv'
    BY <1>4, <1>5 DEF IInv, TypeOK
  <1>6. ASSUME NEW r \in AllocatedOf(request[c].vendor),
               rows[r].wedding = request[c].wedding,
               Goto(c, "update"), Remember(c, "target", r)
        PROVE  IInv'
    <2>1. r \in Call /\ Names(c, r)
      BY <1>6 DEF AllocatedOf, Allocated, Committed, Names
    <2>2. local' = [local EXCEPT ![c].target = r]
      BY <1>6 DEF Remember
    <2>3. local' \in [Call -> Local] /\ local'[c].target = r
          /\ \A d \in Call \ {c} : local'[d] = local[d]
      BY <2>1, <2>2 DEF IInv, TypeOK, Local
    <2>4. QED
      BY <1>4, <1>6, <2>1, <2>3
  <1>7. QED
    BY <1>5, <1>6 DEF FindHeld

LEMMA FindAnyHolds ==
  ASSUME IInv, NEW c \in Call, FindAny(c)
  PROVE  IInv'
  <1>1. pc[c] = "findAny" /\ KeepData /\ UNCHANGED <<lock, local>>
    BY DEF FindAny
  <1>2. PICK label \in {"conflict", "notFound"} : Goto(c, label)
    BY DEF FindAny
  <1>3. label \in Labels
    BY DEF Labels, Ended
  <1>4. pc'[c] = label
    BY <1>2, <1>3, GotoFacts DEF IInv
  <1>5. Fits(c)'
    BY <1>1, <1>4, ReleasingFacts, RefusedFits DEF Releasing, KeepData, db
  <1>6. QED
    BY <1>1, <1>2, <1>3, <1>5, PureMoveHolds

(* What an update that finds its row does.                                 *)
LEMMA ReleaseFacts ==
  ASSUME IInv, NEW c \in Call, Update(c), Matches(local[c].target)
  PROVE  /\ local[c].target \in Allocated /\ Names(c, local[c].target)
         /\ rows' = [rows EXCEPT ![local[c].target].status = "RELEASED"]
         /\ freed' = [freed EXCEPT ![c] = local[c].target]
         /\ Goto(c, "readBookings") \/ Goto(c, "error")
         /\ UNCHANGED <<status, lock, request, server, local, view, crashes>>
         /\ \A r \in Call \ {local[c].target} : rows'[r] = rows[r]
         /\ rows'[local[c].target] \in Row
         /\ rows'[local[c].target].status = "RELEASED"
         /\ rows'[local[c].target].wedding = rows[local[c].target].wedding
         /\ rows'[local[c].target].vendor = rows[local[c].target].vendor
         /\ rows'[local[c].target].booking = rows[local[c].target].booking
  <1> DEFINE r == local[c].target
  <1>1. r \in Allocated /\ Names(c, r)
    BY DEF Update, Matches, IInv, Fits, Targeted
  <1>2. r \in Call /\ rows[r] \in Row
    BY <1>1, RowAssumption DEF Allocated, Committed, IInv, TypeOK
  <1>3. /\ rows' = [rows EXCEPT ![r].status = "RELEASED"]
        /\ freed' = [freed EXCEPT ![c] = r]
        /\ Goto(c, "readBookings") \/ Goto(c, "error")
        /\ UNCHANGED <<status, lock, request, server, local, view, crashes>>
    BY DEF Update, AfterUpdate
  <1>4. rows'[r] = [rows[r] EXCEPT !.status = "RELEASED"]
        /\ \A x \in Call \ {r} : rows'[x] = rows[x]
    BY <1>2, <1>3 DEF IInv, TypeOK
  <1> HIDE DEF r
  <1>5. /\ rows'[r] \in Row
        /\ rows'[r].status = "RELEASED"
        /\ rows'[r].wedding = rows[r].wedding
        /\ rows'[r].vendor = rows[r].vendor
        /\ rows'[r].booking = rows[r].booking
    BY <1>2, <1>4 DEF Row
  <1>6. QED
    BY <1>1, <1>3, <1>4, <1>5 DEF r

LEMMA UpdateHolds ==
  ASSUME IInv, NEW c \in Call, Update(c)
  PROVE  IInv'
  <1>0. PICK r : r = local[c].target
    OBVIOUS
  <1>1. /\ request[c] \in Request /\ request[c].op = "release"
        /\ rows[c] = NoRow /\ freed[c] = NoRow
        /\ pc[c] \in Waiting /\ pc[c] \notin Reading
    BY ReleasingFacts DEF Update, Releasing
  <1>2. CASE ~Matches(r)
    <2>1. Goto(c, "conflict") /\ KeepData /\ UNCHANGED <<lock, local>>
      BY <1>0, <1>2 DEF Update, AfterUpdate, KeepData, db
    <2>2. "conflict" \in Labels
      BY DEF Labels, Ended
    <2>3. pc'[c] = "conflict"
      BY <2>1, <2>2, GotoFacts DEF IInv
    <2>4. Fits(c)'
      BY <1>1, <2>1, <2>3, RefusedFits DEF KeepData, db
    <2>5. QED
      BY <2>1, <2>2, <2>4, PureMoveHolds
  <1>3. CASE Matches(r)
    <2>1. /\ r \in Allocated /\ Names(c, r)
          /\ rows' = [rows EXCEPT ![r].status = "RELEASED"]
          /\ freed' = [freed EXCEPT ![c] = r]
          /\ Goto(c, "readBookings") \/ Goto(c, "error")
          /\ UNCHANGED <<status, lock, request, server, local, view, crashes>>
          /\ \A x \in Call \ {r} : rows'[x] = rows[x]
          /\ rows'[r] \in Row /\ rows'[r].status = "RELEASED"
          /\ rows'[r].wedding = rows[r].wedding
          /\ rows'[r].vendor = rows[r].vendor
          /\ rows'[r].booking = rows[r].booking
      BY <1>0, <1>3, ReleaseFacts
    <2>2. r \in Call /\ rows'[r] # NoRow /\ rows[r] # NoRow
      BY <2>1, RowAssumption DEF Allocated, Committed
    <2>3. PICK label \in {"readBookings", "error"} : Goto(c, label)
      BY <2>1
    <2>0. label \in Labels
      BY DEF Labels, Waiting, Reading, Ended
    <2>4. /\ pc'[c] \in {"readBookings", "error"} /\ pc' \in [Call -> Labels]
          /\ \A d \in Call \ {c} : pc'[d] = pc[d] /\ freed'[d] = freed[d]
          /\ freed'[c] = r
      BY <2>1, <2>0, <2>3, GotoFacts DEF IInv, TypeOK
    <2>5. TypeOK'
      <3>1. rows' \in [Call -> Row \cup {NoRow}]
        <4>1. \A x \in Call : rows'[x] \in Row \cup {NoRow}
          BY <2>1 DEF IInv, TypeOK
        <4>2. QED
          BY <2>1, <4>1 DEF IInv, TypeOK
      <3>2. QED
        BY <2>1, <2>2, <2>4, <3>1 DEF IInv, TypeOK, lock, Labels,
           Ledger!TypeOK, Lock!TypeOK
    <2>6. Kept
      BY <2>1, <2>2 DEF Kept, Committed
    <2>7. \A d \in Call : rows[d] = NoRow => rows'[d] = NoRow
      BY <2>1, <2>2
    <2>8. \A d \in Call \ {c} : Fits(d)'
      BY <2>1, <2>4, <2>6, <2>7, OthersFit
    <2>9. Fits(c)'
      <3>1. Asked(c)' /\ Judged(c)' /\ Targeted(c)' /\ Seen(c)'
        BY <1>1, <2>1, <2>4 DEF Asked, Judged, Targeted, Seen, Requesting,
           Releasing, Critical, Combining
      <3>2. Inserted(c)'
        BY <1>1, <2>1, <2>7 DEF Inserted
      <3>3. Names(c, r)'
        BY <2>1, <2>2 DEF Names, Committed
      <3>4. Freed(c)'
        BY <1>1, <2>1, <2>2, <2>4, <3>3, ConstantsAssumption DEF Freed, Reading
      <3>5. QED
        BY <3>1, <3>2, <3>4 DEF Fits
    <2>10. QED
      BY <2>5, <2>8, <2>9 DEF IInv
  <1>4. QED
    BY <1>2, <1>3

-----------------------------------------------------------------------------
(* The three reads and the answer.                                         *)

(* A request or release that has come this far has its row.                *)
LEMMA OwnFacts ==
  ASSUME IInv, NEW c \in Call, pc[c] \in Reading \cup {"committed", "ok"},
         request[c].op \in {"request", "release"},
         pc[c] = "committed" => request[c].op = "request"
  PROVE  /\ Own(c) \in Committed /\ Names(c, Own(c))
         /\ rows[Own(c)] \in Row
         /\ rows[Own(c)].booking = <<request[c].wedding, request[c].vendor>>
         /\ status[rows[Own(c)].booking] = "ACCEPTED"
  <1>1. Own(c) \in Committed /\ Names(c, Own(c))
    BY DEF IInv, Fits, Inserted, Freed, Own, Names, Committed
  <1>2. Own(c) \in Call /\ rows[Own(c)] # NoRow
    BY <1>1 DEF Committed
  <1>3. rows[Own(c)] \in Row /\ status[rows[Own(c)].booking] = "ACCEPTED"
    BY <1>2 DEF IInv, TypeOK, Fits, Inserted
  <1>4. QED
    BY <1>1, <1>3 DEF Row, Names

(* A read that goes on to the next one.                                    *)
LEMMA ReadHolds ==
  ASSUME IInv, NEW c \in Call, pc[c] \in Reading, NEW label \in Combining,
         Goto(c, label), KeepData, UNCHANGED lock, local' \in [Call -> Local],
         \A d \in Call \ {c} : local'[d] = local[d],
         Seen(c)'
  PROVE  IInv'
  <1>1. label \in Labels
    BY LabelsAre
  <1>2. pc'[c] = label
    BY <1>1, GotoFacts DEF IInv
  <1>3. UNCHANGED <<status, rows, request, freed>>
    BY DEF KeepData, db
  <1>4. Fits(c) /\ pc[c] \in Waiting
    BY LabelsAre DEF IInv
  <1>5. Asked(c)' /\ Judged(c)' /\ Targeted(c)'
    BY <1>2, <1>3, <1>4, LabelsAre DEF Fits, Asked, Judged, Targeted, Combining,
       Requesting, Releasing, Critical
  <1>6. \A x : Names(c, x) => Names(c, x)'
    BY <1>3 DEF Names, Committed
  <1>7. Inserted(c)'
    BY <1>2, <1>3, <1>4, <1>6, LabelsAre DEF Fits, Inserted
  <1>8. Freed(c)'
    BY <1>2, <1>3, <1>4, <1>6, LabelsAre DEF Fits, Freed
  <1>9. Lock!TypeOK'
    BY DEF IInv, TypeOK, lock, Lock!TypeOK
  <1>10. QED
    BY <1>1, <1>5, <1>7, <1>8, <1>9, MoveHolds DEF Fits

(* A list or get that is answered or refused.                              *)
LEMMA OtherEnds ==
  ASSUME IInv, NEW c \in Call, pc[c] \in Reading,
         request[c].op \notin {"request", "release"},
         NEW label \in {"ok", "notFound"}, pc'[c] = label,
         UNCHANGED <<rows, request, freed>>
  PROVE  Fits(c)'
  <1>1. Fits(c) /\ pc[c] \in Waiting /\ pc[c] # "idle"
    BY LabelsAre DEF IInv
  <1>2. request[c] \in Request /\ rows[c] = NoRow /\ freed[c] = NoRow
    BY <1>1 DEF Fits, Asked, Inserted, Freed
  <1>3. Asked(c)' /\ Judged(c)' /\ Targeted(c)' /\ Seen(c)'
    BY <1>2 DEF Asked, Judged, Targeted, Seen, Requesting, Releasing, Critical
  <1>4. Inserted(c)' /\ Freed(c)'
    BY <1>2 DEF Inserted, Freed
  <1>5. QED
    BY <1>3, <1>4 DEF Fits

LEMMA ReadBookingsHolds ==
  ASSUME IInv, NEW c \in Call, ReadBookings(c)
  PROVE  IInv'
  <1> DEFINE w == request[c].wedding
             booked == {v \in Vendor : status[<<w, v>>] # "NONE"}
             entries == [v \in booked |-> status[<<w, v>>]]
  <1>1. /\ pc[c] = "readBookings" /\ pc[c] \in Reading /\ pc[c] \in Waiting
        /\ pc[c] # "idle" /\ KeepData /\ UNCHANGED lock
    BY DEF ReadBookings, Reading, Waiting
  <1>2. Fits(c) /\ request[c] \in Request
    BY <1>1 DEF IInv, Fits, Asked
  <1>3. request[c].op \in {"request", "release"} => request[c].vendor \in booked
    BY <1>1, <1>2, OwnFacts, RequestFields
  <1>4. UNCHANGED <<status, rows, request, freed>>
    BY <1>1 DEF KeepData, db
  <1>5. CASE booked = {}
    <2>1. PICK label \in {"ok", "notFound"} : Goto(c, label) /\ UNCHANGED local
      BY <1>5 DEF ReadBookings
    <2>2. label \in Labels
      BY DEF Labels, Ended
    <2>3. pc'[c] = label
      BY <2>1, <2>2, GotoFacts DEF IInv
    <2>4. Fits(c)'
      BY <1>1, <1>3, <1>4, <1>5, <2>3, OtherEnds
    <2>5. QED
      BY <1>1, <2>1, <2>2, <2>4, PureMoveHolds
  <1>6. CASE booked # {}
    <2>1. Goto(c, "readActive") /\ local' = [local EXCEPT ![c].booked = entries]
      BY <1>1, <1>6 DEF ReadBookings, NextRead, Remember
    <2>2. "readActive" \in Labels /\ "readActive" \in Combining
      BY DEF Labels, Waiting, Reading, Combining
    <2>3. pc'[c] = "readActive"
      BY <2>1, <2>2, GotoFacts DEF IInv
    <2>4. entries \in Entries(Ledger!Status) /\ DOMAIN entries = booked
      <3>1. \A v \in booked : status[<<w, v>>] \in Ledger!Status
        BY <1>2, RequestFields DEF IInv, TypeOK, Ledger!TypeOK, Ledger!Booking
      <3>2. entries \in [booked -> Ledger!Status] /\ booked \in SUBSET Vendor
        BY <3>1
      <3>3. QED
        BY <3>2 DEF Entries
    <2> HIDE DEF entries, booked
    <2>5. /\ local' \in [Call -> Local] /\ local'[c].booked = entries
          /\ \A d \in Call \ {c} : local'[d] = local[d]
      <3>1. local \in [Call -> Local]
        BY DEF IInv, TypeOK
      <3>2. ASSUME NEW e \in Entries(Ledger!Status), NEW l \in Local
            PROVE  /\ [l EXCEPT !.booked = e] \in Local
                   /\ [l EXCEPT !.booked = e].booked = e
        BY DEF Local
      <3>3. local'[c] = [local[c] EXCEPT !.booked = entries]
        BY <2>1, <3>1
      <3>4. QED
        BY <2>1, <2>4, <3>1, <3>2, <3>3
    <2>6. Seen(c)'
      BY <1>3, <1>4, <2>3, <2>4, <2>5 DEF Seen
    <2>7. QED
      BY <1>1, <2>1, <2>2, <2>5, <2>6, ReadHolds
  <1>7. QED
    BY <1>5, <1>6

LEMMA ReadActiveHolds ==
  ASSUME IInv, NEW c \in Call, ReadActive(c)
  PROVE  IInv'
  <1> DEFINE found == {r \in Allocated : rows[r].vendor \in DOMAIN local[c].booked}
  <1>1. /\ pc[c] = "readActive" /\ pc[c] \in Reading
        /\ KeepData /\ UNCHANGED lock
    BY DEF ReadActive, Reading
  <1>2. /\ Goto(c, "readReleased")
        /\ local' = [local EXCEPT ![c].active = found]
    BY <1>1 DEF ReadActive, NextRead, Remember
  <1>3. "readReleased" \in Labels /\ "readReleased" \in Combining
    BY DEF Labels, Waiting, Reading, Combining
  <1>4. pc'[c] = "readReleased"
    BY <1>2, <1>3, GotoFacts DEF IInv
  <1>5. found \in SUBSET Call
    BY DEF Allocated, Committed
  <1>6. request[c].op \in {"request", "release"} =>
          /\ request[c].vendor \in DOMAIN local[c].booked
          /\ Own(c) \in found \/ rows[Own(c)].status = "RELEASED"
    <2> SUFFICES ASSUME request[c].op \in {"request", "release"}
                 PROVE  /\ request[c].vendor \in DOMAIN local[c].booked
                        /\ Own(c) \in found \/ rows[Own(c)].status = "RELEASED"
      OBVIOUS
    <2>1. request[c].vendor \in DOMAIN local[c].booked
      BY <1>1 DEF IInv, Fits, Seen, Combining
    <2>2. Own(c) \in Committed /\ Names(c, Own(c)) /\ rows[Own(c)] \in Row
      BY <1>1, OwnFacts
    <2>3. QED
      BY <2>1, <2>2 DEF Allocated, Names, Row
  <1> HIDE DEF found
  <1>7. /\ local' \in [Call -> Local] /\ local'[c].active = found
        /\ local'[c].booked = local[c].booked
        /\ \A d \in Call \ {c} : local'[d] = local[d]
    BY <1>2, <1>5 DEF IInv, TypeOK, Local
  <1>8. Seen(c)'
    BY <1>1, <1>4, <1>6, <1>7 DEF Seen, Own, KeepData, db
  <1>9. QED
    BY <1>1, <1>2, <1>3, <1>7, <1>8, ReadHolds

LEMMA ReadReleasedHolds ==
  ASSUME IInv, NEW c \in Call, ReadReleased(c)
  PROVE  IInv'
  <1> DEFINE found == {r \in Committed \ Allocated :
                         /\ rows[r].wedding = request[c].wedding
                         /\ rows[r].vendor \in DOMAIN local[c].booked}
  <1>1. /\ pc[c] = "readReleased" /\ pc[c] \in Reading
        /\ KeepData /\ UNCHANGED lock
    BY DEF ReadReleased, Reading
  <1>2. /\ Goto(c, "answer")
        /\ local' = [local EXCEPT ![c].released = found]
    BY <1>1 DEF ReadReleased, NextRead, Remember
  <1>3. "answer" \in Labels /\ "answer" \in Combining
    BY DEF Labels, Waiting, Reading, Combining
  <1>4. pc'[c] = "answer"
    BY <1>2, <1>3, GotoFacts DEF IInv
  <1>5. found \in SUBSET Call
    BY DEF Committed
  <1>6. request[c].op \in {"request", "release"} =>
          /\ request[c].vendor \in DOMAIN local[c].booked
          /\ Own(c) \in local[c].active \cup found
    <2> SUFFICES ASSUME request[c].op \in {"request", "release"}
                 PROVE  /\ request[c].vendor \in DOMAIN local[c].booked
                        /\ Own(c) \in local[c].active \cup found
      OBVIOUS
    <2>1. /\ request[c].vendor \in DOMAIN local[c].booked
          /\ Own(c) \in local[c].active \/ rows[Own(c)].status = "RELEASED"
      BY <1>1 DEF IInv, Fits, Seen, Combining
    <2>2. Own(c) \in Committed /\ Names(c, Own(c))
      BY <1>1, OwnFacts
    <2>3. QED
      BY <2>1, <2>2 DEF Allocated, Names
  <1> HIDE DEF found
  <1>7. /\ local' \in [Call -> Local] /\ local'[c].released = found
        /\ local'[c].booked = local[c].booked
        /\ local'[c].active = local[c].active
        /\ \A d \in Call \ {c} : local'[d] = local[d]
    BY <1>2, <1>5 DEF IInv, TypeOK, Local
  <1>8. Seen(c)'
    BY <1>1, <1>4, <1>6, <1>7 DEF Seen, Own, KeepData, db
  <1>9. QED
    BY <1>1, <1>2, <1>3, <1>7, <1>8, ReadHolds

(* The entry of a vendor one of whose allocations was read.                *)
LEMMA ViewFacts ==
  ASSUME NEW c, NEW v
  PROVE  /\ ViewOf(c, v).state \in {"AVAILABLE", "ALLOCATED", "RELEASED"}
         /\ (\E r \in local[c].active \cup local[c].released : rows[r].vendor = v)
              => ViewOf(c, v).state # "AVAILABLE"
         /\ ViewOf(c, v) \in ResourceView
  <1> DEFINE active == {r \in local[c].active : rows[r].vendor = v}
             lastReleased == {r \in local[c].released : rows[r].vendor = v}
             state == IF active # {} THEN "ALLOCATED"
                      ELSE IF lastReleased # {} THEN "RELEASED"
                      ELSE "AVAILABLE"
             canRequest == active = {} /\ local[c].booked[v] = "ACCEPTED"
             canRelease == \E r \in active : rows[r].wedding = request[c].wedding
  <1>1. ViewOf(c, v) = [state |-> state, canRequest |-> canRequest,
                        canRelease |-> canRelease]
    BY DEF ViewOf
  <1>2. state \in {"AVAILABLE", "ALLOCATED", "RELEASED"}
    OBVIOUS
  <1>3. (\E r \in local[c].active \cup local[c].released : rows[r].vendor = v)
          => state # "AVAILABLE"
    OBVIOUS
  <1>4. canRequest \in BOOLEAN /\ canRelease \in BOOLEAN
    OBVIOUS
  <1> HIDE DEF state, canRequest, canRelease
  <1>5. QED
    BY <1>1, <1>2, <1>3, <1>4 DEF ResourceView

LEMMA AnswerHolds ==
  ASSUME IInv, NEW c \in Call, Answer(c)
  PROVE  IInv'
  <1> DEFINE booked == DOMAIN local[c].booked
             answer == [v \in booked |-> ViewOf(c, v)]
  <1>1. /\ pc[c] = "answer" /\ pc[c] \in Reading
        /\ UNCHANGED <<status, rows, request, server, freed, crashes>>
        /\ UNCHANGED lock
        /\ local' = [local EXCEPT ![c] = NoLocal]
        /\ view' = [view EXCEPT ![c] = answer]
    BY DEF Answer, Reading, db
  <1>2. PICK label \in {"ok", "notFound"} :
          /\ Goto(c, label)
          /\ request[c].vendor \in booked => label = "ok"
    BY DEF Answer
  <1>3. label \in Labels
    BY DEF Labels, Ended
  <1>4. /\ pc'[c] = label /\ pc' \in [Call -> Labels]
        /\ \A d \in Call \ {c} : pc'[d] = pc[d]
    BY <1>2, <1>3, GotoFacts DEF IInv
  <1>5. answer \in Entries(ResourceView)
    <2>1. local[c].booked \in Entries(Ledger!Status)
      BY DEF IInv, TypeOK, Local
    <2>2. booked \in SUBSET Vendor
      BY <2>1 DEF Entries
    <2>3. answer \in [booked -> ResourceView]
      BY ViewFacts
    <2>4. QED
      BY <2>2, <2>3 DEF Entries
  <1>6. NoLocal \in Local
    <2>1. NoEntries \in [{} -> Ledger!Status] /\ {} \in SUBSET Vendor
      BY DEF NoEntries
    <2>2. QED
      BY <2>1 DEF NoLocal, Local, Entries
  <1>7. request[c].op \in {"request", "release"} =>
          label = "ok" /\ answer[request[c].vendor].state # "AVAILABLE"
    <2> SUFFICES ASSUME request[c].op \in {"request", "release"}
                 PROVE  label = "ok" /\ answer[request[c].vendor].state # "AVAILABLE"
      OBVIOUS
    <2>1. /\ request[c].vendor \in booked
          /\ Own(c) \in local[c].active \cup local[c].released
      BY <1>1 DEF IInv, Fits, Seen, Combining
    <2>2. rows[Own(c)].vendor = request[c].vendor
      BY <1>1, OwnFacts DEF Names
    <2>3. QED
      BY <1>2, <2>1, <2>2, ViewFacts
  <1> HIDE DEF answer, booked
  <1>8. TypeOK'
    BY <1>1, <1>4, <1>5, <1>6 DEF IInv, TypeOK, Labels, lock, Ledger!TypeOK,
       Lock!TypeOK
  <1>9. Kept
    BY <1>1 DEF Kept, Committed
  <1>10. \A d \in Call \ {c} : Fits(d)'
    <2>1. \A d \in Call \ {c} : local'[d] = local[d] /\ view'[d] = view[d]
      BY <1>1 DEF IInv, TypeOK
    <2>2. QED
      BY <1>1, <1>4, <1>9, <2>1, OthersFit
  <1>11. Fits(c)'
    <2>1. CASE request[c].op \notin {"request", "release"}
      BY <1>1, <1>4, <2>1, OtherEnds
    <2>2. CASE request[c].op \in {"request", "release"}
      <3>1. pc'[c] = "ok" /\ Fits(c) /\ pc[c] \in Waiting
        BY <1>1, <1>4, <1>7, <2>2, LabelsAre DEF IInv
      <3>2. view'[c] = answer
        BY <1>1 DEF IInv, TypeOK
      <3>3. Asked(c)' /\ Judged(c)' /\ Targeted(c)'
        BY <1>1, <3>1, LabelsAre DEF Fits, Asked, Judged, Targeted, Requesting,
           Releasing, Critical
      <3>4. \A x : Names(c, x) => Names(c, x)'
        BY <1>1 DEF Names, Committed
      <3>5. Inserted(c)' /\ Freed(c)'
        BY <1>1, <3>1, <3>4 DEF Fits, Inserted, Freed, Ended
      <3>6. Seen(c)'
        BY <1>1, <1>7, <2>2, <3>1, <3>2 DEF Seen, Combining
      <3>7. QED
        BY <3>3, <3>5, <3>6 DEF Fits
    <2>3. QED
      BY <2>1, <2>2
  <1>12. QED
    BY <1>8, <1>10, <1>11 DEF IInv

-----------------------------------------------------------------------------
(* Crashes, and the other endpoints.                                       *)

(* A call that is cut off keeps only what it has written.                  *)
LEMMA CutFits ==
  ASSUME IInv, NEW c \in Call, pc[c] \in Waiting \cup {"orphan"},
         \/ pc'[c] = "cut"
         \/ pc'[c] = "orphan" /\ pc[c] = "inserted",
         UNCHANGED <<status, rows, request, freed>>
  PROVE  Fits(c)'
  <1>1. Fits(c) /\ pc[c] # "idle" /\ pc[c] \notin Ended
    BY LabelsAre DEF IInv, Ended
  <1>2. Asked(c)' /\ Judged(c)'
    BY <1>1 DEF Fits, Asked, Judged, Requesting, Releasing, Critical
  <1>3. Targeted(c)' /\ Seen(c)'
    BY DEF Targeted, Seen, Combining
  <1>4. \A x : Names(c, x) => Names(c, x)'
    BY DEF Names, Committed
  <1>5. Inserted(c)'
    BY <1>1, <1>4 DEF Fits, Inserted, Reading
  <1>6. Freed(c)'
    BY <1>1, <1>4 DEF Fits, Freed, Reading, Ended
  <1>7. QED
    BY <1>2, <1>3, <1>5, <1>6 DEF Fits

LEMMA EndOrphanHolds ==
  ASSUME IInv, NEW c \in Call, EndOrphan(c)
  PROVE  IInv'
  <1>1. CASE CommitRow(c)
    BY <1>1, CommitRowHolds DEF EndOrphan, OpenTransactions
  <1>2. CASE UNCHANGED rows
    <2>1. "cut" \in Labels
      BY DEF Labels, Ended
    <2>2. pc'[c] = "cut"
      BY <2>1, GotoFacts DEF EndOrphan, IInv
    <2>3. Fits(c)'
      BY <1>2, <2>2, CutFits DEF EndOrphan
    <2>4. QED
      BY <1>2, <2>1, <2>3, PureMoveHolds DEF EndOrphan, KeepData, db
  <1>3. QED
    BY <1>1, <1>2 DEF EndOrphan

LEMMA CrashHolds ==
  ASSUME IInv, NEW s \in Server, Crash(s)
  PROVE  IInv'
  <1>1. /\ UNCHANGED <<status, rows, request, server, local, view, freed>>
        /\ crashes < MaxCrashes /\ crashes' = crashes + 1
        /\ Lock!Forget({s} \X Vendor)
    BY DEF Crash, db
  <1>2. pc' \in [Call -> Labels]
        /\ \A c \in Call :
             \/ pc'[c] = pc[c]
             \/ pc[c] \in Waiting /\ pc'[c] = "cut"
             \/ pc[c] = "inserted" /\ pc'[c] = "orphan"
    BY DEF Crash, IInv, TypeOK, Labels, Ended
  <1>3. Lock!TypeOK'
    BY <1>1 DEF Lock!Forget, Lock!TypeOK, IInv, TypeOK
  <1>4. TypeOK'
    <2>1. crashes' \in 0..MaxCrashes
      BY <1>1, ConstantsAssumption DEF IInv, TypeOK
    <2>2. QED
      BY <1>1, <1>2, <1>3, <2>1 DEF IInv, TypeOK, Labels, Ledger!TypeOK
  <1>5. Kept
    BY <1>1 DEF Kept, Committed
  <1>6. \A c \in Call : Fits(c)'
    <2> SUFFICES ASSUME NEW c \in Call
                 PROVE  Fits(c)'
      OBVIOUS
    <2>1. CASE pc'[c] = pc[c]
      BY <1>1, <1>5, <2>1, OthersFit
    <2>2. CASE pc'[c] # pc[c]
      <3>1. pc[c] \in Waiting
        BY <1>2, <2>2 DEF Waiting, Critical
      <3>2. QED
        BY <1>1, <1>2, <2>2, <3>1, CutFits
    <2>3. QED
      BY <2>1, <2>2
  <1>7. QED
    BY <1>4, <1>6 DEF IInv

LEMMA BookingStepHolds ==
  ASSUME IInv, BookingStep
  PROVE  IInv'
  <1>1. UNCHANGED <<rows, lock, callVars, crashes>> /\ Ledger!Next
    BY DEF BookingStep
  <1>2. PICK b \in Ledger!Booking :
          \/ Ledger!Request(b)
          \/ \E decision \in Ledger!Decision : Ledger!Decide(b, decision)
    BY <1>1 DEF Ledger!Next
  <1>3. /\ Ledger!TypeOK'
        /\ \A x \in Booking : status[x] = "ACCEPTED" => status'[x] = "ACCEPTED"
    BY <1>2 DEF Ledger!Request, Ledger!Decide, Ledger!TypeOK, Ledger!Status,
       Ledger!Decision, Ledger!Booking, Booking, IInv, TypeOK
  <1>4. TypeOK'
    BY <1>1, <1>3 DEF IInv, TypeOK, lock, callVars, Lock!TypeOK
  <1>5. Kept
    BY <1>1, <1>3 DEF Kept, Committed
  <1>6. \A c \in Call : Fits(c)'
    BY <1>1, <1>5, OthersFit DEF callVars
  <1>7. QED
    BY <1>4, <1>6 DEF IInv

-----------------------------------------------------------------------------
(* The invariant: what each call knows when it makes its next statement.   *)
LEMMA NextHolds == IInv /\ [Next]_vars => IInv'
  <1> SUFFICES ASSUME IInv, [Next]_vars
               PROVE  IInv'
    OBVIOUS
  <1>1. ASSUME NEW c \in Call, Step(c)
        PROVE  IInv'
    BY <1>1, FindBookingHolds, EnterCriticalHolds, CheckFreeHolds, InsertHolds,
       CommitHolds, LeaveCriticalHolds, FindHeldHolds, FindAnyHolds, UpdateHolds,
       ReadBookingsHolds, ReadActiveHolds, ReadReleasedHolds, AnswerHolds,
       EndOrphanHolds DEF Step
  <1>2. CASE UNCHANGED vars
    <2>1. Kept
      BY <1>2 DEF Kept, vars, db, Committed
    <2>2. \A c \in Call : Fits(c)'
      BY <1>2, <2>1, OthersFit DEF vars, db, callVars
    <2>3. TypeOK'
      BY <1>2 DEF IInv, TypeOK, vars, db, lock, callVars, Ledger!TypeOK,
         Lock!TypeOK
    <2>4. QED
      BY <2>2, <2>3 DEF IInv
  <1>3. CASE Next
    BY <1>1, <1>3, ReceiveHolds, AbortTransactionHolds, StatementFailsHolds,
       CrashHolds, BookingStepHolds DEF Next
  <1>4. QED
    BY <1>2, <1>3

THEOREM Invariant == Spec => []IInv
  BY InitHolds, NextHolds, PTL DEF Spec

(* The types, and that a row belongs to the wedding and the vendor of its  *)
(* booking.                                                                *)
THEOREM TypeCorrect == Spec => []TypeOK
  <1>1. IInv => TypeOK
    BY DEF IInv
  <1>2. QED
    BY <1>1, Invariant, PTL

(* A request that succeeded has its row, one that was refused has none,    *)
(* whatever failed, crashed or was released meanwhile.                     *)
THEOREM TrueOutcomes == Spec => []OutcomeIsTrue
  <1>1. IInv => OutcomeIsTrue
    BY DEF IInv, Fits, Inserted, OutcomeIsTrue, Reading
  <1>2. QED
    BY <1>1, Invariant, PTL

(* A request or release that succeeded does not show its resource as one   *)
(* that nobody ever took: the three reads are made in the right order.     *)
THEOREM TrueAnswers == Spec => []AnswerKnowsItsEffect
  <1>1. IInv => AnswerKnowsItsEffect
    BY DEF IInv, Fits, Seen, AnswerKnowsItsEffect
  <1>2. QED
    BY <1>1, Invariant, PTL

-----------------------------------------------------------------------------
(* What a step does to the table: nothing, nothing to see yet, a commit or *)
(* a release.                                                              *)
Quiet ==
  /\ UNCHANGED <<rows, freed>>
  /\ OpenTransactions' \subseteq OpenTransactions
  /\ \A c \in OpenTransactions : request'[c] = request[c]

Opens(c) ==
  /\ Insert(c) /\ ~Taken(c)
  /\ OpenTransactions' = OpenTransactions \cup {c}
  /\ UNCHANGED <<rows, freed, request>>

Commits(c) ==
  /\ c \in OpenTransactions
  /\ CommitRow(c)
  /\ OpenTransactions' = OpenTransactions \ {c}
  /\ UNCHANGED <<freed, request>>

Releases(c) ==
  /\ Update(c) /\ Matches(local[c].target)
  /\ OpenTransactions' = OpenTransactions
  /\ UNCHANGED request

(* A step of call c to a label at which no transaction is open.            *)
LEMMA QuietGoto ==
  ASSUME IInv, NEW c \in Call, NEW label \in Labels \ {"inserted", "orphan"},
         Goto(c, label), UNCHANGED <<rows, freed>>,
         \A d \in Call \ {c} : request'[d] = request[d],
         pc[c] \in {"inserted", "orphan"} => request'[c] = request[c]
  PROVE  Quiet
  <1>1. pc'[c] = label /\ \A d \in Call \ {c} : pc'[d] = pc[d]
    BY GotoFacts DEF IInv
  <1>2. QED
    BY <1>1 DEF Quiet, OpenTransactions

LEMMA StepOnTable ==
  ASSUME IInv, [Next]_vars
  PROVE  Quiet \/ \E c \in Call : Opens(c) \/ Commits(c) \/ Releases(c)
  <1> DEFINE Closed == Labels \ {"inserted", "orphan"}
  <1>1. /\ {"check", "insert", "queued", "findHeld", "findAny", "update",
             "committed", "throwConflict", "throwError", "findBooking"}
              \subseteq Closed
        /\ Reading \subseteq Closed /\ Ended \subseteq Closed
    BY DEF Labels, Waiting, Critical, Reading, Ended
  <1> HIDE DEF Closed
  <1>2. ASSUME NEW c \in Call, NEW label \in Closed, Goto(c, label), KeepData
        PROVE  Quiet
    BY <1>2, QuietGoto DEF KeepData, db, Closed
  <1>3. ASSUME NEW c \in Call, FindBooking(c) PROVE Quiet
    BY <1>1, <1>2, <1>3 DEF FindBooking, Ended
  <1>4. ASSUME NEW c \in Call, EnterCritical(c) \/ CheckFree(c) PROVE Quiet
    BY <1>1, <1>2, <1>4 DEF EnterCritical, CheckFree
  <1>5. ASSUME NEW c \in Call, Insert(c) PROVE Quiet \/ Opens(c)
    <2>1. CASE Taken(c)
      BY <1>1, <1>2, <1>5, <2>1 DEF Insert
    <2>2. CASE ~Taken(c)
      <3>1. Goto(c, "inserted") /\ KeepData /\ "inserted" \in Labels
        BY <1>5, <2>2 DEF Insert, Labels, Waiting, Critical
      <3>2. pc'[c] = "inserted" /\ \A d \in Call \ {c} : pc'[d] = pc[d]
        BY <3>1, GotoFacts DEF IInv
      <3>3. QED
        BY <1>5, <2>2, <3>1, <3>2 DEF Opens, OpenTransactions, KeepData, db
    <2>3. QED
      BY <2>1, <2>2
  <1>6. ASSUME NEW c \in OpenTransactions, NEW label \in Closed, Goto(c, label),
               CommitRow(c), UNCHANGED <<freed, request>>
        PROVE  Commits(c)
    <2>1. c \in Call /\ label \in Labels
      BY DEF OpenTransactions, Closed
    <2>2. pc'[c] = label /\ \A d \in Call \ {c} : pc'[d] = pc[d]
      BY <1>6, <2>1, GotoFacts DEF IInv
    <2>3. QED
      BY <1>6, <2>1, <2>2 DEF Commits, OpenTransactions, Closed
  <1>7. ASSUME NEW c \in Call, Commit(c) PROVE Commits(c)
    BY <1>1, <1>6, <1>7 DEF Commit, OpenTransactions
  <1>8. ASSUME NEW c \in Call, LeaveCritical(c) PROVE Quiet
    <2>1. After(pc[c]) \in Closed
      BY <1>1, <1>8 DEF LeaveCritical, After, Reading, Ended
    <2>2. QED
      BY <1>2, <1>8, <2>1 DEF LeaveCritical
  <1>9. ASSUME NEW c \in Call, FindHeld(c) \/ FindAny(c) PROVE Quiet
    BY <1>1, <1>2, <1>9 DEF FindHeld, FindAny, Ended
  <1>10. ASSUME NEW c \in Call, Update(c) PROVE Quiet \/ Releases(c)
    <2>1. CASE ~Matches(local[c].target)
      <3>1. Goto(c, "conflict") /\ KeepData
        BY <1>10, <2>1 DEF Update, AfterUpdate, KeepData, db
      <3>2. QED
        BY <1>1, <1>2, <3>1 DEF Ended
    <2>2. CASE Matches(local[c].target)
      <3>0. PICK label \in {"readBookings", "error"} : Goto(c, label)
        BY <1>10, <2>2, ReleaseFacts
      <3>1. label \in Labels /\ UNCHANGED request /\ pc[c] = "update"
        BY <1>10, <2>2 DEF Update, Labels, Waiting, Reading, Ended
      <3>2. /\ pc'[c] \in {"readBookings", "error"}
            /\ \A d \in Call \ {c} : pc'[d] = pc[d]
        BY <3>0, <3>1, GotoFacts DEF IInv
      <3>3. QED
        BY <1>10, <2>2, <3>1, <3>2 DEF Releases, OpenTransactions
    <2>3. QED
      BY <2>1, <2>2
  <1>11. ASSUME NEW c \in Call,
                ReadBookings(c) \/ ReadActive(c) \/ ReadReleased(c)
         PROVE  Quiet
    <2>1. PICK label \in Reading \cup Ended : Goto(c, label)
      BY <1>11 DEF ReadBookings, ReadActive, ReadReleased, NextRead, Reading, Ended
    <2>2. QED
      BY <1>1, <1>2, <1>11, <2>1 DEF ReadBookings, ReadActive, ReadReleased
  <1>12. ASSUME NEW c \in Call, Answer(c) PROVE Quiet
    <2>1. PICK label \in Ended : Goto(c, label)
      BY <1>12 DEF Answer, Ended
    <2>2. QED
      BY <1>1, <1>12, <2>1, QuietGoto DEF Answer, Closed, db
  <1>13. ASSUME NEW c \in Call, EndOrphan(c) PROVE Quiet \/ Commits(c)
    <2>1. c \in OpenTransactions /\ "cut" \in Closed
      BY <1>1, <1>13 DEF EndOrphan, OpenTransactions, Ended
    <2>2. CASE CommitRow(c)
      BY <1>6, <1>13, <2>1, <2>2 DEF EndOrphan
    <2>3. CASE UNCHANGED rows
      BY <1>13, <2>1, <2>3, QuietGoto DEF EndOrphan, Closed
    <2>4. QED
      BY <1>13, <2>2, <2>3 DEF EndOrphan
  <1>14. ASSUME NEW c \in Call, AbortTransaction(c) \/ StatementFails(c)
         PROVE  Quiet
    BY <1>1, <1>2, <1>14 DEF AbortTransaction, StatementFails, Ended
  <1>15. ASSUME NEW c \in Call, NEW r \in Request, Receive(c, r) PROVE Quiet
    <2>1. PICK label \in FindWedding(r) : Goto(c, label)
      BY <1>15 DEF Receive
    <2>2. label \in Closed
      BY <1>1, <2>1, FindWeddingIs DEF Reading, Ended
    <2>3. pc[c] = "idle" /\ \A d \in Call \ {c} : request'[d] = request[d]
      BY <1>15 DEF Receive, IInv, TypeOK
    <2>4. QED
      BY <1>15, <2>1, <2>2, <2>3, QuietGoto DEF Receive, Closed, db
  <1>16. ASSUME NEW s \in Server, Crash(s) PROVE Quiet
    <2>1. \A c \in Call : pc'[c] \in {"inserted", "orphan"} =>
                           pc[c] \in {"inserted", "orphan"}
      BY <1>16 DEF Crash
    <2>2. QED
      BY <1>16, <2>1 DEF Crash, db, Quiet, OpenTransactions
  <1>17. CASE BookingStep \/ UNCHANGED vars
    BY <1>17 DEF BookingStep, vars, db, callVars, Quiet, OpenTransactions
  <1>18. QED
    BY <1>3, <1>4, <1>5, <1>7, <1>8, <1>9, <1>10, <1>11, <1>12, <1>13, <1>14,
       <1>15, <1>16, <1>17 DEF Next, Step

-----------------------------------------------------------------------------
(* The table keeps to one row per vendor.                                  *)

(* An insert waits for open transactions and is refused by allocations.    *)
LEMMA OpensUnique ==
  ASSUME UniqueIndex, Unique, NEW c \in Call, Opens(c)
  PROVE  Unique'
  <1>1. /\ \A d \in OpenTransactions : request[d].vendor # request[c].vendor
        /\ AllocatedOf(request[c].vendor) = {}
    BY DEF Opens, Insert, Taken
  <1>2. Allocated' = Allocated /\ \A v : AllocatedOf(v)' = AllocatedOf(v)
    BY DEF Opens, Allocated, Committed, AllocatedOf
  <1>3. QED
    BY <1>1, <1>2 DEF Unique, Opens, AllocatedOf

LEMMA CommitsUnique ==
  ASSUME IInv, Unique, NEW c \in Call, Commits(c)
  PROVE  Unique'
  <1>1. /\ c \in OpenTransactions /\ CommitRow(c) /\ UNCHANGED request
        /\ OpenTransactions' = OpenTransactions \ {c}
    BY DEF Commits
  <1>2. /\ rows'[c] = NewRow(c) /\ NewRow(c) # NoRow
        /\ NewRow(c).vendor = request[c].vendor
        /\ NewRow(c).status = "ALLOCATED"
    BY <1>1, NewRowFacts DEF CommitRow, IInv, TypeOK, NewRow
  <1>3. \A r \in Call \ {c} : rows'[r] = rows[r]
    BY <1>1 DEF CommitRow, IInv, TypeOK
  <1>4. Allocated' = Allocated \cup {c}
    BY <1>2, <1>3 DEF Allocated, Committed
  <1>5. \A r \in Allocated : r \in Call /\ r # c /\ rows'[r] = rows[r]
    BY <1>1, <1>3, NewRowFacts DEF Allocated, Committed
  <1>6. \A r \in Allocated : rows[r].vendor # request[c].vendor
    BY <1>1 DEF Unique, AllocatedOf
  <1>7. \A r, s \in Allocated' : rows'[r].vendor = rows'[s].vendor => r = s
    BY <1>2, <1>4, <1>5, <1>6 DEF Unique
  <1>8. \A d \in OpenTransactions' :
           {r \in Allocated' : rows'[r].vendor = request'[d].vendor} = {}
    <2> SUFFICES ASSUME NEW d \in OpenTransactions \ {c},
                        NEW r \in Allocated',
                        rows'[r].vendor = request[d].vendor
                 PROVE  FALSE
      BY <1>1
    <2>1. request[d].vendor # request[c].vendor
      BY <1>1 DEF Unique
    <2>2. r \in Allocated /\ rows[r].vendor = request[d].vendor
      BY <1>2, <1>4, <1>5, <2>1
    <2>3. QED
      BY <2>2 DEF Unique, AllocatedOf
  <1>9. \A d, e \in OpenTransactions' :
           request'[d].vendor = request'[e].vendor => d = e
    BY <1>1 DEF Unique
  <1>10. QED
    BY <1>7, <1>8, <1>9 DEF Unique, AllocatedOf

LEMMA ReleasesUnique ==
  ASSUME IInv, Unique, NEW c \in Call, Releases(c)
  PROVE  Unique'
  <1>1. /\ local[c].target \in Allocated
        /\ \A r \in Call \ {local[c].target} : rows'[r] = rows[r]
        /\ rows'[local[c].target].status = "RELEASED"
        /\ OpenTransactions' = OpenTransactions /\ UNCHANGED request
    BY ReleaseFacts DEF Releases
  <1>2. /\ Allocated' \subseteq Allocated
        /\ \A r \in Allocated' : rows'[r] = rows[r]
    BY <1>1 DEF Allocated, Committed
  <1>3. QED
    BY <1>1, <1>2 DEF Unique, AllocatedOf

LEMMA UniqueKept ==
  ASSUME UniqueIndex, IInv, Unique, [Next]_vars
  PROVE  Unique'
  <1>1. CASE Quiet
    <2>1. Allocated' = Allocated /\ \A v : AllocatedOf(v)' = AllocatedOf(v)
      BY <1>1 DEF Quiet, Allocated, Committed, AllocatedOf
    <2>2. QED
      BY <1>1, <2>1 DEF Quiet, Unique
  <1>2. QED
    BY <1>1, StepOnTable, OpensUnique, CommitsUnique, ReleasesUnique

LEMMA UniqueHolder == Unique => OneHolder
  <1> SUFFICES ASSUME Unique, NEW v \in Vendor
               PROVE  Cardinality(AllocatedOf(v)) <= 1
    BY DEF OneHolder
  <1>1. CASE AllocatedOf(v) = {}
    BY <1>1, FS_EmptySet
  <1>2. CASE AllocatedOf(v) # {}
    <2>1. PICK r : AllocatedOf(v) = {r}
      BY <1>2 DEF Unique, AllocatedOf
    <2>2. QED
      BY <2>1, FS_Singleton
  <1>3. QED
    BY <1>1, <1>2

LEMMA UniqueAtFirst == Init => Unique
  BY DEF Init, Unique, Allocated, AllocatedOf, Committed, OpenTransactions

(* "Two concurrent requests for this resource cannot both observe it as    *)
(* free": with the partial unique index, whatever the lock does, a vendor  *)
(* has one ALLOCATED row, on any number of servers and across crashes.     *)
THEOREM OneHolderByIndex == UniqueIndex => (Spec => []OneHolder)
  <1> SUFFICES ASSUME UniqueIndex
               PROVE  Spec => []OneHolder
    OBVIOUS
  <1>1. IInv /\ Unique /\ [Next]_vars => Unique'
    BY UniqueKept
  <1>2. QED
    BY <1>1, UniqueAtFirst, UniqueHolder, Invariant, PTL DEF Spec

-----------------------------------------------------------------------------
(* A row is released once.                                                 *)
LEMMA OnceKept ==
  ASSUME IInv, Once, [Next]_vars
  PROVE  Once'
  <1>1. CASE Quiet
    BY <1>1 DEF Quiet, Once, Committed
  <1>2. ASSUME NEW c \in Call, Opens(c)
        PROVE  Once'
    BY <1>2 DEF Opens, Once, Committed
  <1>3. ASSUME NEW c \in Call, Commits(c)
        PROVE  Once'
    <2>1. /\ rows'[c].status = "ALLOCATED" /\ UNCHANGED freed
          /\ \A r \in Call \ {c} : rows'[r] = rows[r]
      BY <1>3, NewRowFacts DEF Commits, CommitRow, IInv, TypeOK, NewRow
    <2>2. QED
      BY <2>1 DEF Once, Committed
  <1>4. ASSUME NEW c \in Call, Releases(c)
        PROVE  Once'
    <2>1. PICK r : r = local[c].target
      OBVIOUS
    <2>2. /\ r \in Allocated /\ \A x \in Call \ {r} : rows'[x] = rows[x]
          /\ freed' = [freed EXCEPT ![c] = r]
      BY <1>4, <2>1, ReleaseFacts DEF Releases
    <2>3. r \in Call /\ r # NoRow
      BY <2>2, ConstantsAssumption DEF Allocated, Committed
    <2>4. \A d \in Call : freed[d] # r
      BY <2>2, <2>3 DEF IInv, Fits, Freed, Allocated
    <2>5. freed'[c] = r /\ \A d \in Call \ {c} : freed'[d] = freed[d]
      BY <2>2 DEF IInv, TypeOK
    <2>6. freed[c] = NoRow
      BY <1>4, ReleasingFacts DEF Releases, Update, Releasing
    <2>7. \A d, e \in Call : (freed'[d] = freed'[e] /\ freed'[d] # NoRow) => d = e
      BY <2>4, <2>5 DEF Once
    <2>8. ASSUME NEW x \in Committed', rows'[x].status = "RELEASED"
          PROVE  \E d \in Call : freed'[d] = x
      <3>1. CASE x = r
        BY <2>5, <3>1
      <3>2. CASE x # r
        <4>1. x \in Committed /\ rows[x].status = "RELEASED"
          BY <2>2, <2>8, <3>2 DEF Committed
        <4>2. PICK d \in Call : freed[d] = x
          BY <4>1 DEF Once
        <4>3. d # c
          BY <2>6, <4>1, <4>2, ConstantsAssumption DEF Committed
        <4>4. QED
          BY <2>5, <4>2, <4>3
      <3>3. QED
        BY <3>1, <3>2
    <2>9. QED
      BY <2>7, <2>8 DEF Once
  <1>5. QED
    BY <1>1, <1>2, <1>3, <1>4, StepOnTable

(* "A concurrent release cannot double-release": a row that is RELEASED    *)
(* was released by one call, of the wedding that held it; a release that   *)
(* succeeded has released a row, one that was refused has not.             *)
THEOREM ReleasedByOne == Spec => []ReleasedOnce
  <1>1. Init => Once
    BY DEF Init, Once, Committed
  <1>2. IInv /\ Once /\ [Next]_vars => Once'
    BY OnceKept
  <1>3. IInv /\ Once => ReleasedOnce
    <2> SUFFICES ASSUME IInv, Once
                 PROVE  ReleasedOnce
      OBVIOUS
    <2>1. ASSUME NEW r \in Committed
          PROVE  LET releasers == {c \in Call : freed[c] = r} IN
                 /\ Cardinality(releasers) =
                       IF rows[r].status = "RELEASED" THEN 1 ELSE 0
                 /\ \A c \in releasers : request[c].wedding = rows[r].wedding
      <3> DEFINE releasers == {c \in Call : freed[c] = r}
      <3>1. r \in Call /\ r # NoRow
        BY ConstantsAssumption DEF Committed
      <3>2. \A c \in releasers : /\ request[c].wedding = rows[r].wedding
                                 /\ rows[r].status = "RELEASED"
        BY <3>1 DEF IInv, Fits, Freed, Names
      <3>3. CASE rows[r].status = "RELEASED"
        <4>1. PICK c \in Call : freed[c] = r
          BY <3>3 DEF Once
        <4>2. releasers = {c}
          BY <3>1, <4>1 DEF Once
        <4>3. QED
          BY <3>2, <3>3, <4>2, FS_Singleton
      <3>4. CASE rows[r].status # "RELEASED"
        <4>1. releasers = {}
          BY <3>2, <3>4
        <4>2. QED
          BY <3>2, <3>4, <4>1, FS_EmptySet
      <3>5. QED
        BY <3>3, <3>4
    <2>2. ASSUME NEW c \in Call
          PROVE  /\ (pc[c] = "ok" /\ request[c].op = "release") => freed[c] # NoRow
                 /\ pc[c] \in {"badRequest", "notFound", "conflict"} =>
                      freed[c] = NoRow
      BY DEF IInv, Fits, Freed, Reading
    <2>3. QED
      BY <2>1, <2>2 DEF ReleasedOnce
  <1>4. QED
    BY <1>1, <1>2, <1>3, Invariant, PTL DEF Spec

-----------------------------------------------------------------------------
(* The queues of the locks follow the program counters.                    *)
Occurs(s, e) == \E i \in 1..Len(s) : s[i] = e
Distinct(s) == \A i, j \in 1..Len(s) : s[i] = s[j] => i = j

LEMMA AppendFacts ==
  ASSUME NEW S, NEW s \in Seq(S), NEW e \in S, ~Occurs(s, e), Distinct(s)
  PROVE  /\ Distinct(Append(s, e))
         /\ \A d : Occurs(Append(s, e), d) <=> (Occurs(s, d) \/ d = e)
         /\ s # <<>> => Append(s, e) # <<>> /\ Head(Append(s, e)) = Head(s)
  <1>1. /\ Len(s) \in Nat /\ Len(Append(s, e)) = Len(s) + 1
        /\ Append(s, e)[Len(s) + 1] = e
        /\ \A i \in 1..Len(s) : Append(s, e)[i] = s[i]
    OBVIOUS
  <1>2. \A i : i \in 1..(Len(s) + 1) <=> (i \in 1..Len(s) \/ i = Len(s) + 1)
    BY <1>1
  <1>3. Distinct(Append(s, e))
    BY <1>1, <1>2 DEF Distinct, Occurs
  <1>4. \A d : Occurs(Append(s, e), d) <=> (Occurs(s, d) \/ d = e)
    BY <1>1, <1>2 DEF Occurs
  <1>5. s # <<>> => Append(s, e) # <<>> /\ Head(Append(s, e)) = Head(s)
    OBVIOUS
  <1>6. QED
    BY <1>3, <1>4, <1>5

LEMMA TailFacts ==
  ASSUME NEW S, NEW s \in Seq(S), s # <<>>, Distinct(s)
  PROVE  /\ Distinct(Tail(s))
         /\ \A d : Occurs(Tail(s), d) <=> (Occurs(s, d) /\ d # Head(s))
  <1>1. /\ Len(s) \in Nat /\ Len(s) >= 1 /\ Len(Tail(s)) = Len(s) - 1
        /\ \A i \in 1..(Len(s) - 1) : Tail(s)[i] = s[i + 1]
        /\ Head(s) = s[1]
    OBVIOUS
  <1>2. Distinct(Tail(s))
    BY <1>1 DEF Distinct
  <1>3. ASSUME NEW d, Occurs(Tail(s), d)
        PROVE  Occurs(s, d) /\ d # Head(s)
    <2>1. PICK i \in 1..(Len(s) - 1) : Tail(s)[i] = d
      BY <1>1, <1>3 DEF Occurs
    <2>2. i + 1 \in 1..Len(s) /\ s[i + 1] = d /\ 1 \in 1..Len(s) /\ i + 1 # 1
      BY <1>1, <2>1
    <2>3. QED
      BY <1>1, <2>2 DEF Occurs, Distinct
  <1>4. ASSUME NEW d, Occurs(s, d), d # Head(s)
        PROVE  Occurs(Tail(s), d)
    <2>1. PICK i \in 1..Len(s) : s[i] = d
      BY <1>4 DEF Occurs
    <2>2. i - 1 \in 1..(Len(s) - 1)
      BY <1>1, <1>4, <2>1
    <2>3. Tail(s)[i - 1] = d
      BY <1>1, <2>1, <2>2
    <2>4. QED
      BY <1>1, <2>2, <2>3 DEF Occurs
  <1>5. QED
    BY <1>2, <1>3, <1>4

Locked(c) == pc[c] \in {"queued"} \cup Critical

(* What a step does to the locks.                                          *)
SameForOthers(c) ==
  /\ UNCHANGED <<request, server>>
  /\ \A d \in Call \ {c} : pc'[d] = pc[d]

LockQuiet ==
  /\ UNCHANGED lock
  /\ \A c \in Call :
       /\ Locked(c)' <=> Locked(c)
       /\ pc'[c] \in Critical <=> pc[c] \in Critical
       /\ Locked(c) => Key(c)' = Key(c)

Joins(c) == /\ pc[c] = "findBooking" /\ pc'[c] = "queued"
            /\ Lock!Arrive(c, Key(c)) /\ SameForOthers(c)
Enters(c) == /\ pc[c] = "queued" /\ pc'[c] = "check"
             /\ Lock!Enter(c, Key(c)) /\ SameForOthers(c)
Leaves(c) == /\ pc[c] \in Critical /\ ~Locked(c)'
             /\ Lock!Leave(c, Key(c)) /\ SameForOthers(c)

(* A step of call c within the lock, or outside of it.                     *)
LEMMA QuietLockGoto ==
  ASSUME IInv, NEW c \in Call, NEW label \in Labels, Goto(c, label),
         UNCHANGED <<lock, request, server>>,
         \/ pc[c] \in Critical /\ label \in Critical
         \/ ~Locked(c) /\ label \notin {"queued"} \cup Critical
  PROVE  LockQuiet
  <1>1. pc'[c] = label /\ \A d \in Call \ {c} : pc'[d] = pc[d]
    BY GotoFacts DEF IInv
  <1>2. QED
    BY <1>1 DEF LockQuiet, Locked, Key

LEMMA StepOnLock ==
  ASSUME IInv, [Next]_vars
  PROVE  \/ LockQuiet
         \/ \E c \in Call : Joins(c) \/ Enters(c) \/ Leaves(c)
         \/ \E s \in Server : Crash(s)
  <1> DEFINE Outside == Labels \ ({"queued"} \cup Critical)
  <1>1. /\ Releasing \cup Reading \cup Ended \cup {"findBooking", "idle", "orphan"}
             \subseteq Outside
        /\ Critical \subseteq Labels /\ "queued" \in Labels
    BY DEF Labels, Waiting, Critical, Reading, Ended, Releasing
  <1> HIDE DEF Outside
  <1>2. ASSUME NEW c \in Call, NEW label \in Outside, Goto(c, label),
               UNCHANGED <<lock, request, server>>, pc[c] \in Outside
        PROVE  LockQuiet
    BY <1>2, QuietLockGoto DEF Outside, Locked
  <1>3. ASSUME NEW c \in Call, NEW label \in Critical, Goto(c, label),
               UNCHANGED <<lock, request, server>>, pc[c] \in Critical
        PROVE  LockQuiet
    BY <1>1, <1>3, QuietLockGoto
  <1>4. ASSUME NEW c \in Call, NEW label \in Labels, Goto(c, label),
               UNCHANGED <<request, server>>
        PROVE  pc'[c] = label /\ SameForOthers(c)
    BY <1>4, GotoFacts DEF IInv, SameForOthers
  <1>5. ASSUME NEW c \in Call, FindBooking(c)
        PROVE  LockQuiet \/ Joins(c)
    <2>1. CASE Goto(c, "queued") /\ Lock!Arrive(c, Key(c))
      BY <1>1, <1>4, <1>5, <2>1 DEF FindBooking, Joins, KeepData
    <2>2. CASE UNCHANGED lock /\ \E label \in {"notFound", "badRequest"} : Goto(c, label)
      BY <1>1, <1>2, <1>5, <2>2 DEF FindBooking, Ended, KeepData
    <2>3. QED
      BY <1>5, <2>1, <2>2 DEF FindBooking
  <1>6. ASSUME NEW c \in Call, EnterCritical(c)
        PROVE  Enters(c)
    BY <1>1, <1>4, <1>6 DEF EnterCritical, Enters, KeepData, Critical
  <1>7. ASSUME NEW c \in Call, CheckFree(c) \/ Insert(c)
        PROVE  LockQuiet
    <2>1. PICK label \in Critical : Goto(c, label)
      BY <1>7 DEF CheckFree, Insert, Critical
    <2>2. QED
      BY <1>3, <1>7, <2>1 DEF CheckFree, Insert, Critical, KeepData
  <1>8. ASSUME NEW c \in Call, Commit(c)
        PROVE  LockQuiet
    BY <1>3, <1>8 DEF Commit, Critical
  <1>9. ASSUME NEW c \in Call, LeaveCritical(c)
        PROVE  Leaves(c)
    <2>1. After(pc[c]) \in Outside /\ After(pc[c]) \in Labels
      BY <1>1, <1>9 DEF LeaveCritical, After, Reading, Ended, Outside
    <2>2. pc'[c] = After(pc[c]) /\ SameForOthers(c)
      BY <1>4, <1>9, <2>1 DEF LeaveCritical, KeepData
    <2>3. QED
      BY <1>9, <2>1, <2>2 DEF LeaveCritical, Leaves, Locked, Outside, Critical
  <1>10. ASSUME NEW c \in Call, FindHeld(c) \/ FindAny(c)
         PROVE  LockQuiet
    <2>1. PICK label \in Outside : Goto(c, label)
      BY <1>1, <1>10 DEF FindHeld, FindAny, Releasing, Ended
    <2>2. QED
      BY <1>1, <1>2, <1>10, <2>1 DEF FindHeld, FindAny, Releasing, KeepData
  <1>11. ASSUME NEW c \in Call, Update(c)
         PROVE  LockQuiet
    <2>1. PICK label \in Outside : Goto(c, label)
      BY <1>1, <1>11 DEF Update, AfterUpdate, Reading, Ended
    <2>2. QED
      BY <1>1, <1>2, <1>11, <2>1 DEF Update, Releasing
  <1>12. ASSUME NEW c \in Call,
                ReadBookings(c) \/ ReadActive(c) \/ ReadReleased(c) \/ Answer(c)
         PROVE  LockQuiet
    <2>1. pc[c] \in Reading
      BY <1>12 DEF ReadBookings, ReadActive, ReadReleased, Answer, Reading
    <2>2. PICK label \in Reading \cup Ended : Goto(c, label)
      BY <1>12 DEF ReadBookings, ReadActive, ReadReleased, Answer, NextRead,
         Reading, Ended
    <2>3. UNCHANGED <<lock, request, server>>
      BY <1>12 DEF ReadBookings, ReadActive, ReadReleased, Answer, KeepData
    <2>4. QED
      BY <1>1, <1>2, <2>1, <2>2, <2>3
  <1>13. ASSUME NEW c \in Call, EndOrphan(c)
         PROVE  LockQuiet
    BY <1>1, <1>2, <1>13 DEF EndOrphan, Ended
  <1>14. ASSUME NEW c \in Call, AbortTransaction(c)
         PROVE  LockQuiet
    BY <1>3, <1>14 DEF AbortTransaction, KeepData, Critical
  <1>15. ASSUME NEW c \in Call, StatementFails(c)
         PROVE  LockQuiet
    <2>1. pc[c] \in Outside /\ "error" \in Outside
      BY <1>1, <1>15 DEF StatementFails, Releasing, Ended
    <2>2. QED
      BY <1>2, <1>15, <2>1 DEF StatementFails, KeepData
  <1>16. ASSUME NEW c \in Call, NEW r \in Request, Receive(c, r)
         PROVE  LockQuiet
    <2>1. PICK label \in FindWedding(r) : Goto(c, label)
      BY <1>16 DEF Receive
    <2>2. label \in Outside /\ label \in Labels
      BY <1>1, <2>1, FindWeddingIs DEF Reading, Releasing, Ended, Outside
    <2>3. /\ pc'[c] = label /\ pc[c] = "idle"
          /\ \A d \in Call \ {c} : pc'[d] = pc[d] /\ request'[d] = request[d]
          /\ UNCHANGED <<lock, server>>
      BY <1>16, <2>1, <2>2, GotoFacts DEF Receive, IInv, TypeOK
    <2>4. ~Locked(c) /\ ~Locked(c)'
      BY <2>2, <2>3 DEF Locked, Outside, Critical
    <2>5. pc[c] \notin Critical /\ pc'[c] \notin Critical
      BY <2>4 DEF Locked
    <2>6. QED
      BY <2>3, <2>4, <2>5 DEF LockQuiet, Locked, Key
  <1>17. CASE BookingStep \/ UNCHANGED vars
    BY <1>17 DEF BookingStep, vars, callVars, LockQuiet, Locked, Key
  <1>18. QED
    BY <1>5, <1>6, <1>7, <1>8, <1>9, <1>10, <1>11, <1>12, <1>13, <1>14, <1>15,
       <1>16, <1>17 DEF Next, Step

(* LockInv, key by key and call by call.                                   *)
Follows(c) ==
  /\ \A k \in LockKey : Occurs(queue[k], c) <=> (Locked(c) /\ Key(c) = k)
  /\ c \in inside <=> pc[c] \in Critical
  /\ pc[c] \in Critical => Lock!IsFirst(c, Key(c))

LEMMA LockInvIs ==
  LockInv <=> /\ \A k \in LockKey : Distinct(queue[k])
              /\ \A c \in Call : Follows(c)
  BY DEF LockInv, NoDuplicates, LockFollowsCalls, Distinct, Follows, Occurs,
     Locked, Lock!Queued

LEMMA LockedKey ==
  ASSUME IInv, NEW c \in Call, Locked(c)
  PROVE  Key(c) \in LockKey
  BY KeyIsLockKey DEF Locked, Critical

LEMMA JoinsKeeps ==
  ASSUME IInv, LockInv, NEW c \in Call, Joins(c)
  PROVE  LockInv'
  <1>1. PICK k \in LockKey : k = Key(c)
    BY KeyIsLockKey DEF Joins
  <1>2. /\ pc[c] = "findBooking" /\ pc'[c] = "queued"
        /\ ~Locked(c) /\ Locked(c)' /\ pc'[c] \notin Critical
    BY DEF Joins, Locked, Critical
  <1>3. /\ queue' = [queue EXCEPT ![k] = Append(queue[k], c)]
        /\ inside' = inside
    BY <1>1 DEF Joins, Lock!Arrive
  <1>4. /\ queue \in [LockKey -> Seq(Call)]
        /\ queue'[k] = Append(queue[k], c)
        /\ \A j \in LockKey \ {k} : queue'[j] = queue[j]
    BY <1>3 DEF IInv, TypeOK, Lock!TypeOK
  <1>5. \A d \in Call : Key(d)' = Key(d)
    BY DEF Joins, SameForOthers, Key
  <1>6. \A d \in Call \ {c} : pc'[d] = pc[d] /\ (Locked(d)' <=> Locked(d))
    BY DEF Joins, SameForOthers, Locked
  <1>7. /\ \A j \in LockKey : Distinct(queue[j])
        /\ \A d \in Call : Follows(d)
    BY LockInvIs
  <1>8. \A j \in LockKey : ~Occurs(queue[j], c)
    BY <1>2, <1>7 DEF Follows
  <1>9. /\ Distinct(queue'[k])
        /\ \A d : Occurs(queue'[k], d) <=> (Occurs(queue[k], d) \/ d = c)
        /\ queue[k] # <<>> => queue'[k] # <<>> /\ Head(queue'[k]) = Head(queue[k])
    BY <1>4, <1>7, <1>8, AppendFacts
  <1>10. ASSUME NEW d \in Call
         PROVE  Follows(d)'
    <2>1. CASE d = c
      <3>1. \A j \in LockKey : Occurs(queue'[j], c) <=> j = k
        BY <1>4, <1>8, <1>9
      <3>2. c \notin inside'
        BY <1>2, <1>3, <1>7 DEF Follows, Locked
      <3>3. QED
        BY <1>1, <1>2, <1>5, <2>1, <3>1, <3>2 DEF Follows
    <2>2. CASE d # c
      <3>1. \A j \in LockKey : Occurs(queue'[j], d) <=> Occurs(queue[j], d)
        BY <1>4, <1>9, <2>2
      <3>2. \A j \in LockKey : Lock!IsFirst(d, j) => Lock!IsFirst(d, j)'
        BY <1>4, <1>9 DEF Lock!IsFirst
      <3>3. pc[d] \in Critical => Key(d) \in LockKey
        BY LockedKey DEF Locked
      <3>4. pc[d] \in Critical => Lock!IsFirst(d, Key(d))'
        <4>1. ASSUME pc[d] \in Critical
              PROVE  Lock!IsFirst(d, Key(d))'
          <5>1. PICK j \in LockKey : j = Key(d)
            BY <3>3, <4>1
          <5>2. Lock!IsFirst(d, j)'
            BY <1>7, <3>2, <4>1, <5>1 DEF Follows
          <5>3. QED
            BY <1>5, <5>1, <5>2 DEF Lock!IsFirst
        <4>2. QED
          BY <4>1
      <3>5. QED
        BY <1>3, <1>5, <1>6, <1>7, <2>2, <3>1, <3>4 DEF Follows
    <2>3. QED
      BY <2>1, <2>2
  <1>11. \A j \in LockKey : Distinct(queue'[j])
    BY <1>4, <1>7, <1>9
  <1>12. QED
    BY <1>10, <1>11, LockInvIs DEF LockInv, NoDuplicates, LockFollowsCalls, Distinct,
       Follows, Occurs, Locked, Lock!Queued

LEMMA EntersKeeps ==
  ASSUME IInv, LockInv, NEW c \in Call, Enters(c)
  PROVE  LockInv'
  <1>1. /\ pc[c] = "queued" /\ pc'[c] = "check" /\ Locked(c) /\ Locked(c)'
        /\ pc'[c] \in Critical
    BY DEF Enters, Locked, Critical
  <1>2. /\ Lock!IsFirst(c, Key(c)) /\ queue' = queue
        /\ inside' = inside \cup {c}
    BY DEF Enters, Lock!Enter
  <1>3. \A d \in Call : Key(d)' = Key(d)
    BY DEF Enters, SameForOthers, Key
  <1>4. \A d \in Call \ {c} : pc'[d] = pc[d] /\ (Locked(d)' <=> Locked(d))
    BY DEF Enters, SameForOthers, Locked
  <1>5. \A d \in Call : Lock!IsFirst(d, Key(d)) => Lock!IsFirst(d, Key(d))'
    BY <1>2, <1>3 DEF Lock!IsFirst
  <1>6. /\ \A j \in LockKey : Distinct(queue[j])
        /\ \A d \in Call : Follows(d)
    BY LockInvIs
  <1>7. \A d \in Call : Follows(d)'
    BY <1>1, <1>2, <1>3, <1>4, <1>5, <1>6 DEF Follows
  <1>8. QED
    BY <1>2, <1>6, <1>7 DEF LockInv, NoDuplicates, LockFollowsCalls, Distinct,
       Follows, Occurs, Locked, Lock!Queued

LEMMA LeavesKeeps ==
  ASSUME IInv, LockInv, NEW c \in Call, Leaves(c)
  PROVE  LockInv'
  <1>1. pc[c] \in Critical /\ Locked(c) /\ ~Locked(c)' /\ pc'[c] \notin Critical
    BY DEF Leaves, Locked
  <1>2. PICK k \in LockKey : k = Key(c)
    BY <1>1, LockedKey
  <1>3. /\ queue[k] # <<>> /\ Head(queue[k]) = c
        /\ queue' = [queue EXCEPT ![k] = Tail(queue[k])]
        /\ inside' = inside \ {c}
    BY <1>2 DEF Leaves, Lock!Leave, Lock!IsFirst
  <1>4. /\ queue \in [LockKey -> Seq(Call)]
        /\ queue'[k] = Tail(queue[k])
        /\ \A j \in LockKey \ {k} : queue'[j] = queue[j]
    BY <1>3 DEF IInv, TypeOK, Lock!TypeOK
  <1>5. \A d \in Call : Key(d)' = Key(d)
    BY DEF Leaves, SameForOthers, Key
  <1>6. \A d \in Call \ {c} : pc'[d] = pc[d] /\ (Locked(d)' <=> Locked(d))
    BY DEF Leaves, SameForOthers, Locked
  <1>7. /\ \A j \in LockKey : Distinct(queue[j])
        /\ \A d \in Call : Follows(d)
    BY LockInvIs
  <1>8. /\ Distinct(queue'[k])
        /\ \A d : Occurs(queue'[k], d) <=> (Occurs(queue[k], d) /\ d # c)
    BY <1>3, <1>4, <1>7, TailFacts
  <1>9. ASSUME NEW d \in Call
        PROVE  Follows(d)'
    <2>1. CASE d = c
      <3>1. \A j \in LockKey : ~Occurs(queue'[j], c)
        BY <1>2, <1>4, <1>7, <1>8 DEF Follows
      <3>2. QED
        BY <1>1, <1>3, <2>1, <3>1 DEF Follows
    <2>2. CASE d # c
      <3>1. \A j \in LockKey : Occurs(queue'[j], d) <=> Occurs(queue[j], d)
        BY <1>4, <1>8, <2>2
      <3>2. ASSUME pc[d] \in Critical
            PROVE  Lock!IsFirst(d, Key(d))'
        <4>1. Lock!IsFirst(d, Key(d)) /\ Locked(d)
          BY <1>7, <3>2 DEF Follows, Locked
        <4>2. Key(d) \in LockKey
          BY <4>1, LockedKey
        <4>3. Key(d) # k
          BY <1>3, <2>2, <4>1 DEF Lock!IsFirst
        <4>4. QED
          BY <1>4, <1>5, <4>1, <4>2, <4>3 DEF Lock!IsFirst
      <3>3. QED
        BY <1>3, <1>5, <1>6, <1>7, <2>2, <3>1, <3>2 DEF Follows
    <2>3. QED
      BY <2>1, <2>2
  <1>10. \A j \in LockKey : Distinct(queue'[j])
    BY <1>4, <1>7, <1>8
  <1>11. QED
    BY <1>9, <1>10 DEF LockInv, NoDuplicates, LockFollowsCalls, Distinct,
       Follows, Occurs, Locked, Lock!Queued

(* The lock of a server is forgotten with the calls in it.                 *)
LEMMA CrashKeeps ==
  ASSUME IInv, LockInv, NEW s \in Server, Crash(s)
  PROVE  LockInv'
  <1> DEFINE K == {s} \X Vendor
  <1>1. /\ queue' = [k \in LockKey |-> IF k \in K THEN <<>> ELSE queue[k]]
        /\ inside' = {c \in inside : \A k \in K : ~Occurs(queue[k], c)}
        /\ UNCHANGED <<request, server>>
    BY DEF Crash, Lock!Forget, Lock!Queued, Occurs
  <1>2. /\ \A j \in LockKey : Distinct(queue[j])
        /\ \A d \in Call : Follows(d)
    BY LockInvIs
  <1>3. /\ \A j \in LockKey : j \notin K => queue'[j] = queue[j]
        /\ \A j \in LockKey : j \in K => queue'[j] = <<>>
        /\ K \subseteq LockKey
    BY <1>1 DEF LockKey
  <1>4. \A e : ~Occurs(<<>>, e)
    BY DEF Occurs
  <1>5. \A d \in Call : Key(d)' = Key(d) /\ (Key(d) \in K => server[d] = s)
    BY <1>1 DEF Key
  <1>6. \A d \in Call : (Locked(d) /\ server[d] = s) => Key(d) \in K
    <2> SUFFICES ASSUME NEW d \in Call, Locked(d), server[d] = s
                 PROVE  Key(d) \in K
      OBVIOUS
    <2>1. Key(d) \in LockKey
      BY LockedKey
    <2>2. QED
      BY <2>1 DEF Key, LockKey
  <1>7. \A d \in Call :
          /\ server[d] = s => ~Locked(d)'
          /\ server[d] # s => pc'[d] = pc[d]
    BY DEF Crash, IInv, TypeOK, Locked, Waiting, Critical
  <1> HIDE DEF K
  <1>8. ASSUME NEW d \in Call
        PROVE  Follows(d)'
    <2>1. CASE server[d] = s
      <3>1. ~Locked(d)' /\ pc'[d] \notin Critical
        BY <1>7, <2>1 DEF Locked
      <3>2. \A j \in LockKey : ~Occurs(queue'[j], d)
        BY <1>2, <1>3, <1>4, <1>6, <2>1 DEF Follows
      <3>3. d \notin inside'
        <4>1. ASSUME d \in inside
              PROVE  \E k \in K : Occurs(queue[k], d)
          <5>1. Locked(d)
            BY <1>2, <4>1 DEF Follows, Locked
          <5>2. QED
            BY <1>2, <1>3, <1>6, <2>1, <5>1 DEF Follows
        <4>2. QED
          BY <1>1, <4>1
      <3>4. QED
        BY <3>1, <3>2, <3>3 DEF Follows
    <2>2. CASE server[d] # s
      <3>1. pc'[d] = pc[d] /\ (Locked(d)' <=> Locked(d)) /\ Key(d) \notin K
        BY <1>5, <1>7, <2>2 DEF Locked
      <3>2. \A j \in LockKey : Occurs(queue'[j], d) <=> Occurs(queue[j], d)
        BY <1>2, <1>3, <1>4, <3>1 DEF Follows
      <3>3. \A k \in K : ~Occurs(queue[k], d)
        BY <1>2, <1>3, <3>1 DEF Follows
      <3>4. d \in inside' <=> d \in inside
        BY <1>1, <3>3
      <3>5. ASSUME pc[d] \in Critical
            PROVE  Lock!IsFirst(d, Key(d))'
        <4>1. Lock!IsFirst(d, Key(d)) /\ Locked(d)
          BY <1>2, <3>5 DEF Follows, Locked
        <4>2. Key(d) \in LockKey
          BY <4>1, LockedKey
        <4>3. QED
          BY <1>3, <1>5, <3>1, <4>1, <4>2 DEF Lock!IsFirst
      <3>6. QED
        BY <1>2, <1>5, <3>1, <3>2, <3>4, <3>5 DEF Follows
    <2>3. QED
      BY <2>1, <2>2
  <1>9. \A j \in LockKey : Distinct(queue'[j])
    BY <1>2, <1>3 DEF Distinct
  <1>10. QED
    BY <1>8, <1>9 DEF LockInv, NoDuplicates, LockFollowsCalls, Distinct,
       Follows, Occurs, Locked, Lock!Queued

LEMMA LockInvAtFirst == Init => LockInv
  BY DEF Init, LockInv, NoDuplicates, LockFollowsCalls, Lock!Init, Lock!Queued,
     Critical

LEMMA LockQuietKeeps ==
  ASSUME IInv, LockInv, LockQuiet
  PROVE  LockInv'
  BY DEF LockInv, NoDuplicates, LockFollowsCalls, LockQuiet, lock, Locked,
     Lock!Queued, Lock!IsFirst

LEMMA LockInvKept == IInv /\ LockInv /\ [Next]_vars => LockInv'
  BY LockQuietKeeps, StepOnLock, JoinsKeeps, EntersKeeps, LeavesKeeps, CrashKeeps

(* No path through the service leaks the lock: the queues follow the calls,*)
(* through errors, refusals and crashes of servers.                        *)
THEOREM LockIsExact == Spec => []LockFollowsCalls
  <1>1. LockInv => LockFollowsCalls
    BY DEF LockInv
  <1>2. QED
    BY <1>1, LockInvAtFirst, LockInvKept, Invariant, PTL DEF Spec

-----------------------------------------------------------------------------
(* One server that never crashes needs no index: the lock is enough.       *)
OneServer == MaxCrashes = 0 /\ \A s, t \in Server : s = t

NoOrphan == \A c \in Call : pc[c] # "orphan"
OneRowEach ==
  \A r, s \in Allocated : rows[r].vendor = rows[s].vendor => r = s

(* What a call found free when it checked is free until it commits.        *)
StillFree ==
  \A c \in Call : pc[c] \in {"insert", "inserted"} =>
    \A r \in Allocated : rows[r].vendor # request[c].vendor

Guarded == NoOrphan /\ OneRowEach /\ StillFree

LEMMA OneInside ==
  ASSUME OneServer, IInv, LockInv, NEW c \in Call, NEW d \in Call,
         pc[c] \in Critical, pc[d] \in Critical,
         request[c].vendor = request[d].vendor
  PROVE  c = d
  <1>1. Key(c) = Key(d)
    BY DEF OneServer, Key, IInv, TypeOK
  <1>2. Lock!IsFirst(c, Key(c)) /\ Lock!IsFirst(d, Key(d))
    BY DEF LockInv, LockFollowsCalls
  <1>3. QED
    BY <1>1, <1>2 DEF Lock!IsFirst

LEMMA GuardedIsUnique == OneServer /\ IInv /\ LockInv /\ Guarded => Unique
  <1> SUFFICES ASSUME OneServer, IInv, LockInv, Guarded
               PROVE  Unique
    OBVIOUS
  <1>1. \A c \in OpenTransactions : pc[c] = "inserted" /\ pc[c] \in Critical
    BY DEF Guarded, NoOrphan, OpenTransactions, Critical
  <1>2. \A c \in OpenTransactions : AllocatedOf(request[c].vendor) = {}
    BY <1>1 DEF Guarded, StillFree, AllocatedOf, OpenTransactions
  <1>3. \A c, d \in OpenTransactions :
          request[c].vendor = request[d].vendor => c = d
    BY <1>1, OneInside DEF OpenTransactions
  <1>4. QED
    BY <1>2, <1>3 DEF Unique, Guarded, OneRowEach

(* How a call comes to the insert, and that without crashes no transaction *)
(* is orphaned.                                                            *)
Comes(c) ==
  /\ pc'[c] = "insert" =>
       /\ request'[c] = request[c]
       /\ \/ pc[c] = "insert"
          \/ pc[c] = "check" /\ AllocatedOf(request[c].vendor) = {}
  /\ pc'[c] = "inserted" =>
       request'[c] = request[c] /\ pc[c] \in {"insert", "inserted"}
  /\ pc'[c] = "orphan" => pc[c] = "orphan"

LEMMA StepComes ==
  ASSUME OneServer, IInv, [Next]_vars
  PROVE  \A c \in Call : Comes(c)
  <1> DEFINE Other == Labels \ {"insert", "inserted", "orphan"}
  <1>1. ASSUME NEW c \in Call, NEW label \in Labels, Goto(c, label),
               \A d \in Call \ {c} : request'[d] = request[d],
               Comes(c)
        PROVE  \A d \in Call : Comes(d)
    BY <1>1, GotoFacts DEF Comes, IInv
  <1>2. ASSUME NEW c \in Call, NEW label \in Other, Goto(c, label),
               \A d \in Call \ {c} : request'[d] = request[d]
        PROVE  \A d \in Call : Comes(d)
    BY <1>1, <1>2, GotoFacts DEF Comes, IInv
  <1>3. /\ Ended \cup Reading \subseteq Other
        /\ {"findBooking", "queued", "check", "committed", "throwConflict",
            "throwError", "findHeld", "findAny", "update"} \subseteq Other
    BY DEF Labels, Waiting, Critical, Reading, Ended
  <1>4. {"insert", "inserted"} \subseteq Labels
    BY DEF Labels, Waiting, Critical
  <1> HIDE DEF Other
  <1>5. ASSUME NEW c \in Call, CheckFree(c)
        PROVE  \A d \in Call : Comes(d)
    <2>1. CASE AllocatedOf(request[c].vendor) = {}
      <3>1. Goto(c, "insert") /\ UNCHANGED request /\ pc[c] = "check"
        BY <1>5, <2>1 DEF CheckFree, KeepData
      <3>2. Comes(c)
        BY <1>4, <2>1, <3>1, GotoFacts DEF Comes, IInv
      <3>3. QED
        BY <1>1, <1>4, <3>1, <3>2
    <2>2. CASE AllocatedOf(request[c].vendor) # {}
      BY <1>2, <1>3, <1>5, <2>2 DEF CheckFree, KeepData
    <2>3. QED
      BY <2>1, <2>2
  <1>6. ASSUME NEW c \in Call, Insert(c)
        PROVE  \A d \in Call : Comes(d)
    <2>1. CASE Taken(c)
      BY <1>2, <1>3, <1>6, <2>1 DEF Insert, KeepData
    <2>2. CASE ~Taken(c)
      <3>1. Goto(c, "inserted") /\ UNCHANGED request /\ pc[c] = "insert"
        BY <1>6, <2>2 DEF Insert, KeepData
      <3>2. Comes(c)
        BY <1>4, <3>1, GotoFacts DEF Comes, IInv
      <3>3. QED
        BY <1>1, <1>4, <3>1, <3>2
    <2>3. QED
      BY <2>1, <2>2
  <1>7. ASSUME NEW c \in Call,
               \/ FindBooking(c) \/ EnterCritical(c) \/ Commit(c)
               \/ LeaveCritical(c) \/ FindHeld(c) \/ FindAny(c) \/ Update(c)
               \/ ReadBookings(c) \/ ReadActive(c) \/ ReadReleased(c)
               \/ Answer(c) \/ EndOrphan(c)
               \/ AbortTransaction(c) \/ StatementFails(c)
        PROVE  \A d \in Call : Comes(d)
    <2>1. UNCHANGED request
      BY <1>7 DEF FindBooking, EnterCritical, Commit, LeaveCritical, FindHeld,
         FindAny, Update, ReadBookings, ReadActive, ReadReleased, Answer,
         EndOrphan, AbortTransaction, StatementFails, KeepData
    <2>2. PICK label \in Other : Goto(c, label)
      <3>1. CASE FindBooking(c) \/ EnterCritical(c) \/ Commit(c) \/ EndOrphan(c)
                 \/ AbortTransaction(c) \/ StatementFails(c)
        BY <1>3, <3>1 DEF FindBooking, EnterCritical, Commit, EndOrphan,
           AbortTransaction, StatementFails, Ended
      <3>2. CASE LeaveCritical(c)
        BY <1>3, <3>2 DEF LeaveCritical, After, Ended, Reading
      <3>3. CASE FindHeld(c) \/ FindAny(c) \/ Update(c)
        BY <1>3, <3>3 DEF FindHeld, FindAny, Update, AfterUpdate, Ended, Reading
      <3>4. CASE ReadBookings(c) \/ ReadActive(c) \/ ReadReleased(c) \/ Answer(c)
        BY <1>3, <3>4 DEF ReadBookings, ReadActive, ReadReleased, Answer,
           NextRead, Ended, Reading
      <3>5. QED
        BY <1>7, <3>1, <3>2, <3>3, <3>4
    <2>3. QED
      BY <1>2, <2>1, <2>2
  <1>8. ASSUME NEW c \in Call, NEW r \in Request, Receive(c, r)
        PROVE  \A d \in Call : Comes(d)
    <2>1. PICK label \in FindWedding(r) : Goto(c, label)
      BY <1>8 DEF Receive
    <2>2. label \in Other /\ \A d \in Call \ {c} : request'[d] = request[d]
      BY <1>3, <1>8, <2>1, FindWeddingIs DEF Receive, IInv, TypeOK, Reading, Ended
    <2>3. QED
      BY <1>2, <2>1, <2>2
  <1>9. ASSUME NEW s \in Server, Crash(s)
        PROVE  FALSE
    BY <1>9 DEF Crash, OneServer, IInv, TypeOK
  <1>10. CASE BookingStep \/ UNCHANGED vars
    BY <1>10 DEF BookingStep, vars, callVars, Comes
  <1>11. QED
    BY <1>5, <1>6, <1>7, <1>8, <1>9, <1>10 DEF Next, Step

(* A commit takes the place that its call alone has seen free; no other    *)
(* call that has checked the same vendor is in its critical section.       *)
LEMMA CommitsGuarded ==
  ASSUME OneServer, IInv, LockInv, Guarded, \A d \in Call : Comes(d),
         NEW c \in Call, Commits(c)
  PROVE  Guarded'
  <1>1. Unique
    BY GuardedIsUnique
  <1>2. Unique'
    BY <1>1, CommitsUnique
  <1>3. NoOrphan' /\ OneRowEach'
    BY <1>2 DEF Comes, Guarded, NoOrphan, OneRowEach, Unique
  <1>4. /\ pc[c] = "inserted" /\ pc[c] \in Critical
        /\ pc'[c] \notin {"insert", "inserted"}
    BY DEF Commits, OpenTransactions, Comes, Guarded, NoOrphan, Critical
  <1>5. /\ rows'[c] = NewRow(c) /\ NewRow(c).vendor = request[c].vendor
        /\ \A r \in Call \ {c} : rows'[r] = rows[r]
    BY DEF Commits, CommitRow, IInv, TypeOK, NewRow
  <1>6. ASSUME NEW d \in Call, pc'[d] \in {"insert", "inserted"},
               NEW r \in Allocated'
        PROVE  rows'[r].vendor # request'[d].vendor
    <2>1. d # c /\ request'[d] = request[d]
      BY <1>4, <1>6 DEF Comes
    <2>2. /\ pc[d] \in Critical
          /\ \A x \in Allocated : rows[x].vendor # request[d].vendor
      BY <1>6 DEF Comes, Guarded, StillFree, Critical, AllocatedOf
    <2>3. request[d].vendor # request[c].vendor
      BY <1>4, <2>1, <2>2, OneInside
    <2>4. CASE r = c
      BY <1>5, <2>1, <2>3, <2>4
    <2>5. CASE r # c
      <3>1. r \in Allocated /\ rows'[r] = rows[r]
        BY <1>5, <1>6, <2>5 DEF Allocated, Committed
      <3>2. QED
        BY <2>1, <2>2, <3>1
    <2>6. QED
      BY <2>4, <2>5
  <1>7. QED
    BY <1>3, <1>6 DEF Guarded, StillFree

LEMMA GuardedKept ==
  OneServer /\ IInv /\ LockInv /\ Guarded /\ [Next]_vars => Guarded'
  <1> SUFFICES ASSUME OneServer, IInv, LockInv, Guarded, [Next]_vars
               PROVE  Guarded'
    OBVIOUS
  <1>1. \A c \in Call : Comes(c)
    BY StepComes
  <1>2. ASSUME Allocated' \subseteq Allocated,
               \A r \in Allocated' : rows'[r] = rows[r]
        PROVE  Guarded'
    BY <1>1, <1>2 DEF Guarded, NoOrphan, OneRowEach, StillFree, Comes, AllocatedOf
  <1>3. ASSUME UNCHANGED rows
        PROVE  Guarded'
    BY <1>2, <1>3 DEF Allocated, Committed
  <1>4. ASSUME NEW c \in Call, Releases(c)
        PROVE  Guarded'
    <2>1. /\ \A r \in Call \ {local[c].target} : rows'[r] = rows[r]
          /\ rows'[local[c].target].status = "RELEASED"
      BY <1>4, ReleaseFacts DEF Releases
    <2>2. QED
      BY <1>2, <2>1 DEF Allocated, Committed
  <1>5. QED
    BY <1>1, <1>3, <1>4, StepOnTable, CommitsGuarded DEF Quiet, Opens

(* The invariants of one server: from the lock alone, Unique.              *)
LEMMA UniqueByLock ==
  OneServer => (Spec => [](IInv /\ LockInv /\ Guarded /\ Unique))
  <1> SUFFICES ASSUME OneServer
               PROVE  Spec => [](IInv /\ LockInv /\ Guarded /\ Unique)
    OBVIOUS
  <1>1. Init => Guarded
    BY DEF Init, Guarded, NoOrphan, OneRowEach, StillFree, Allocated, Committed
  <1>2. QED
    BY <1>1, GuardedKept, GuardedIsUnique, LockInvAtFirst, LockInvKept,
       Invariant, PTL DEF Spec

(* Without the index, on one server that does not crash, the lock keeps a  *)
(* vendor to one holder, through every failure of a statement.             *)
THEOREM OneHolderByLock == OneServer => (Spec => []OneHolder)
  BY UniqueByLock, UniqueHolder, PTL

-----------------------------------------------------------------------------
(* The endpoints implement AllocationLedger.                               *)
(* Holders of a vendor whose allocations a step leaves as they were.       *)
LEMMA SameHolders ==
  ASSUME NEW v, AllocatedOf(v)' = AllocatedOf(v),
         \A r \in AllocatedOf(v) : rows'[r] = rows[r]
  PROVE  Holders(v)' = Holders(v)
  BY DEF Holders

(* A step leaves the bookings alone, or does nothing else.                 *)
LEMMA StepOnBookings ==
  ASSUME [Next]_vars
  PROVE  UNCHANGED status \/ (Ledger!Next /\ UNCHANGED rows)
  <1>1. ASSUME NEW c \in Call, Step(c)
        PROVE  UNCHANGED status
    BY <1>1 DEF Step, FindBooking, EnterCritical, CheckFree, Insert, Commit,
       LeaveCritical, FindHeld, FindAny, Update, ReadBookings, ReadActive,
       ReadReleased, Answer, EndOrphan, KeepData, db
  <1>2. ASSUME NEW c \in Call, AbortTransaction(c) \/ StatementFails(c)
        PROVE  UNCHANGED status
    BY <1>2 DEF AbortTransaction, StatementFails, KeepData, db
  <1>3. ASSUME NEW c \in Call, NEW r \in Request, Receive(c, r)
        PROVE  UNCHANGED status
    BY <1>3 DEF Receive, db
  <1>4. ASSUME NEW s \in Server, Crash(s)
        PROVE  UNCHANGED status
    BY <1>4 DEF Crash, db
  <1>5. CASE UNCHANGED vars
    BY <1>5 DEF vars, db
  <1>6. CASE BookingStep
    BY <1>6 DEF BookingStep
  <1>7. QED
    BY <1>1, <1>2, <1>3, <1>4, <1>5, <1>6 DEF Next

LEMMA CommitsGrants ==
  ASSUME IInv, Unique, NEW c \in Call, Commits(c), UNCHANGED status
  PROVE  \E w \in Wedding, v \in Vendor : Abstract!Grant(c, w, v)
  <1>1. PICK w \in Wedding, v \in Vendor :
          /\ w = request[c].wedding /\ v = request[c].vendor
    BY NewRowFacts, RequestFields DEF Commits
  <1>2. /\ status[<<w, v>>] = "ACCEPTED"
        /\ NewRow(c) # NoRow /\ rows[c] = NoRow
        /\ NewRow(c).vendor = v /\ NewRow(c).wedding = w
        /\ NewRow(c).status = "ALLOCATED"
    <2>1. NewRow(c) \in Row /\ NewRow(c).booking = request[c].booking
          /\ NewRow(c).vendor = v /\ NewRow(c).wedding = w
          /\ NewRow(c).status = "ALLOCATED"
      BY <1>1, NewRowFacts DEF Commits, NewRow
    <2>2. request[c].booking = <<w, v>>
      BY <2>1 DEF Row
    <2>3. QED
      BY <2>1, <2>2, NewRowFacts DEF Commits
  <1>3. rows'[c] = NewRow(c) /\ \A r \in Call \ {c} : rows'[r] = rows[r]
    BY DEF Commits, CommitRow, IInv, TypeOK
  <1>4. AllocatedOf(v) = {}
    BY <1>1 DEF Commits, Unique
  <1>5. Allocated' = Allocated \cup {c} /\ c \notin Allocated
    BY <1>2, <1>3 DEF Allocated, Committed
  <1>6. AllocatedOf(v)' = {c}
    BY <1>2, <1>3, <1>4, <1>5 DEF AllocatedOf, Allocated, Committed
  <1>7. Holders(v) = {} /\ Holders(v)' = {<<c, w>>}
    BY <1>2, <1>3, <1>4, <1>6 DEF Holders
  <1>8. ASSUME NEW u \in Vendor, u # v
        PROVE  Holders(u)' = Holders(u)
    <2>1. AllocatedOf(u)' = AllocatedOf(u)
      BY <1>2, <1>3, <1>5, <1>8 DEF AllocatedOf, Allocated, Committed
    <2>2. \A r \in AllocatedOf(u) : rows'[r] = rows[r]
      BY <1>3, <1>5 DEF AllocatedOf, Allocated, Committed
    <2>3. QED
      BY <2>1, <2>2, SameHolders
  <1>9. [x \in Vendor |-> Holders(x)]'
          = [[x \in Vendor |-> Holders(x)] EXCEPT ![v] = {<<c, w>>}]
    BY <1>7, <1>8
  <1>10. QED
    BY <1>2, <1>7, <1>9 DEF Abstract!Grant

LEMMA ReleasesReleases ==
  ASSUME IInv, Unique, NEW c \in Call, Releases(c), UNCHANGED status
  PROVE  \E v \in Vendor : Abstract!Release(v)
  <1>1. PICK r : r = local[c].target
    OBVIOUS
  <1>2. /\ r \in Allocated /\ r \in Call
        /\ \A x \in Call \ {r} : rows'[x] = rows[x]
        /\ rows'[r].status = "RELEASED" /\ rows'[r].vendor = rows[r].vendor
    BY <1>1, ReleaseFacts DEF Releases, Allocated, Committed
  <1>3. rows[r] \in Row
    BY <1>2 DEF IInv, TypeOK, Allocated, Committed
  <1>4. PICK v \in Vendor : v = rows[r].vendor
    BY <1>3 DEF Row
  <1>5. AllocatedOf(v) = {r}
    BY <1>2, <1>4 DEF Unique, AllocatedOf
  <1>6. Allocated' = Allocated \ {r}
    BY <1>2, RowAssumption DEF Allocated, Committed
  <1>7. AllocatedOf(v)' = {}
    BY <1>2, <1>5, <1>6 DEF AllocatedOf, Allocated, Committed
  <1>8. Holders(v) # {} /\ Holders(v)' = {}
    BY <1>5, <1>7 DEF Holders
  <1>9. ASSUME NEW u \in Vendor, u # v
        PROVE  Holders(u)' = Holders(u)
    <2>1. AllocatedOf(u)' = AllocatedOf(u)
      BY <1>2, <1>4, <1>6, <1>9 DEF AllocatedOf, Allocated, Committed
    <2>2. \A x \in AllocatedOf(u) : rows'[x] = rows[x]
      BY <1>2, <1>4, <1>9 DEF AllocatedOf, Allocated, Committed
    <2>3. QED
      BY <2>1, <2>2, SameHolders
  <1>10. [x \in Vendor |-> Holders(x)]'
           = [[x \in Vendor |-> Holders(x)] EXCEPT ![v] = {}]
    BY <1>8, <1>9
  <1>11. QED
    BY <1>8, <1>10 DEF Abstract!Release

LEMMA StartsLedger == Init => Abstract!Init
  <1> SUFFICES ASSUME Init
               PROVE  Abstract!Init
    OBVIOUS
  <1>1. \A v \in Vendor : Holders(v) = {}
    BY DEF Init, Holders, AllocatedOf, Allocated, Committed
  <1>2. QED
    BY <1>1 DEF Init, Ledger!Init, Ledger!Booking, Abstract!Init,
       Abstract!Ledger!Init, Abstract!Ledger!Booking

LEMMA StepsLedger == IInv /\ Unique /\ [Next]_vars => [Abstract!Next]_(Abstract!vars)
  <1> SUFFICES ASSUME IInv, Unique, [Next]_vars
               PROVE  [Abstract!Next]_(Abstract!vars)
    OBVIOUS
  <1>1. ASSUME UNCHANGED rows
        PROVE  [x \in Vendor |-> Holders(x)]' = [x \in Vendor |-> Holders(x)]
    BY <1>1 DEF Holders, AllocatedOf, Allocated, Committed
  <1>2. CASE Ledger!Next /\ UNCHANGED rows
    <2>1. Abstract!Ledger!Next
      BY <1>2 DEF Ledger!Next, Ledger!Request, Ledger!Decide, Ledger!Booking,
         Ledger!Decision, Abstract!Ledger!Next, Abstract!Ledger!Request,
         Abstract!Ledger!Decide, Abstract!Ledger!Booking,
         Abstract!Ledger!Decision
    <2>2. QED
      BY <1>1, <1>2, <2>1 DEF Abstract!Next
  <1>3. CASE UNCHANGED status
    <2>1. CASE UNCHANGED rows
      BY <1>1, <1>3, <2>1 DEF Abstract!vars
    <2>2. ASSUME NEW c \in Call, Commits(c) \/ Releases(c)
          PROVE  Abstract!Next
      BY <1>3, <2>2, CommitsGrants, ReleasesReleases DEF Abstract!Next
    <2>3. QED
      BY <2>1, <2>2, StepOnTable DEF Quiet, Opens
  <1>4. QED
    BY <1>2, <1>3, StepOnBookings

(* With the index, every step of the endpoints is a step of the ledger or  *)
(* a stutter: a vendor is granted only when free, to a wedding whose       *)
(* booking is ACCEPTED at that moment, and is free again once released.    *)
THEOREM ImplementsAllocation == UniqueIndex => (Spec => ImplementsLedger)
  <1> SUFFICES ASSUME UniqueIndex
               PROVE  Spec => ImplementsLedger
    OBVIOUS
  <1>1. IInv /\ Unique /\ [Next]_vars => Unique'
    BY UniqueKept
  <1>2. QED
    BY <1>1, UniqueAtFirst, StartsLedger, StepsLedger, Invariant, PTL
       DEF Spec, ImplementsLedger, Abstract!Spec

(* The lock alone does the same on one server that does not crash.         *)
THEOREM ImplementsAllocationByLock == OneServer => (Spec => ImplementsLedger)
  <1> SUFFICES ASSUME OneServer
               PROVE  Spec => ImplementsLedger
    OBVIOUS
  <1>1. Spec => [](IInv /\ Unique)
    BY UniqueByLock, PTL
  <1>2. QED
    BY <1>1, StartsLedger, StepsLedger, PTL
       DEF Spec, ImplementsLedger, Abstract!Spec

-----------------------------------------------------------------------------
(* ContentionDemo: two requests that start in one turn, and a get of what  *)
(* both have left, are new; every other step is one of ResourceAllocation, *)
(* and what it keeps is said above.                                        *)
(* The lock of one server or the index: each alone is enough.              *)
Sole == UniqueIndex \/ OneServer

Safe ==
  /\ IInv /\ LockInv /\ Once
  /\ UniqueIndex => Unique
  /\ OneServer => Guarded

LEMMA SafeIsUnique == Sole /\ Safe => Unique
  BY GuardedIsUnique DEF Sole, Safe

LEMMA SafeAtFirst == Init => Safe
  <1>1. Init => Once
    BY DEF Init, Once, Committed
  <1>2. Init => Guarded
    BY DEF Init, Guarded, NoOrphan, OneRowEach, StillFree, Allocated, Committed
  <1>3. QED
    BY <1>1, <1>2, InitHolds, LockInvAtFirst, UniqueAtFirst DEF Safe

LEMMA SafeKept == Safe /\ [Next]_vars => Safe'
  BY NextHolds, LockInvKept, OnceKept, UniqueKept, GuardedKept DEF Safe

(* The two requests that the demo starts are received like any other.      *)
LEMMA SimulateSafe ==
  ASSUME Safe, NEW r \in Request, Simulate(r), \A c \in Attempts : pc[c] = "idle"
  PROVE  Safe'
  <1>0. Attempts \subseteq Call
    BY DemoAssumption DEF Attempts
  <1>1. /\ UNCHANGED <<status, rows, queue, inside, server, local, view, freed, crashes>>
        /\ r.op = "request"
        /\ request' = [c \in Call |-> IF c \in Attempts THEN r ELSE request[c]]
    BY DEF Simulate, db, lock
  <1>a. PICK label \in [Attempts -> FindWedding(r)] :
          pc' = [c \in Call |-> IF c \in Attempts THEN label[c] ELSE pc[c]]
    BY DEF Simulate
  <1>b. \A c \in Attempts : label[c] \in {"findBooking", "badRequest"}
    BY <1>1, FindWeddingIs
  <1>2. /\ \A c \in Attempts : /\ pc'[c] \in {"findBooking", "badRequest"}
                              /\ request'[c] = r
        /\ \A c \in Call \ Attempts : pc'[c] = pc[c] /\ request'[c] = request[c]
    BY <1>0, <1>1, <1>a, <1>b
  <1>3. TypeOK'
    <2>1. {"findBooking", "badRequest"} \subseteq Labels
      BY DEF Labels, Waiting, Ended
    <2>2. pc' \in [Call -> Labels] /\ request' \in [Call -> Request \cup {NoRequest}]
      BY <1>1, <1>a, <1>b, <2>1 DEF Safe, IInv, TypeOK, Labels
    <2>3. QED
      BY <1>1, <2>2 DEF Safe, IInv, TypeOK, Labels, Ledger!TypeOK, Lock!TypeOK
  <1>4. ASSUME NEW c \in Attempts
        PROVE  Fits(c)'
    <2>1. c \in Call /\ pc[c] = "idle" /\ Fits(c)
      BY <1>0 DEF Safe, IInv
    <2>2. rows'[c] = NoRow /\ freed'[c] = NoRow
      BY <1>1, <2>1 DEF Fits, Inserted, Freed, Reading, Ended
    <2>3. Asked(c)' /\ Judged(c)' /\ Targeted(c)' /\ Seen(c)'
      BY <1>1, <1>2 DEF Asked, Judged, Targeted, Seen, Requesting, Releasing,
         Critical, Combining
    <2>4. Inserted(c)' /\ Freed(c)'
      BY <1>2, <2>2 DEF Inserted, Freed, Reading
    <2>5. QED
      BY <2>3, <2>4 DEF Fits
  <1>5. IInv'
    <2>1. Kept
      BY <1>1 DEF Kept, Committed
    <2>2. \A c \in Call \ Attempts : Fits(c)'
      BY <1>1, <1>2, <2>1, OthersFit DEF Safe
    <2>3. QED
      BY <1>3, <1>4, <2>2 DEF IInv
  <1>6. LockInv'
    <2>1. LockQuiet
      BY <1>0, <1>1, <1>2 DEF LockQuiet, lock, Locked, Critical, Key
    <2>2. QED
      BY <2>1, LockQuietKeeps DEF Safe
  <1>7. Once'
    BY <1>1 DEF Safe, Once, Committed
  <1>8. /\ OpenTransactions' = OpenTransactions
        /\ OpenTransactions \cap Attempts = {}
        /\ OpenTransactions \subseteq Call
        /\ Allocated' = Allocated
    BY <1>1, <1>2 DEF OpenTransactions, Allocated, Committed
  <1>9. Unique => Unique'
    <2>1. \A c \in OpenTransactions : request'[c] = request[c]
      BY <1>2, <1>8
    <2>2. QED
      BY <1>1, <1>8, <2>1 DEF Unique, AllocatedOf
  <1>10. Guarded => Guarded'
    BY <1>1, <1>2, <1>8 DEF Guarded, NoOrphan, OneRowEach, StillFree
  <1>11. QED
    BY <1>5, <1>6, <1>7, <1>9, <1>10 DEF Safe

-----------------------------------------------------------------------------
(* How far the demo has come, and what its calls are then.                 *)
Get == [op |-> "get", wedding |-> request[first].wedding,
        vendor |-> request[first].vendor]

Stage ==
  /\ demo \in {"idle", "attempts", "get", "answered", "rejected"}
  /\ demo = "idle" => \A c \in Demo : pc[c] = "idle"
  /\ demo = "attempts" => pc[final] = "idle"
  /\ demo # "idle" =>
       \A c \in Attempts : /\ pc[c] # "idle"
                           /\ request[c] = request[first]
                           /\ request[c].op = "request"
  /\ demo \in {"get", "answered", "rejected"} =>
       /\ Settled
       /\ pc[final] # "idle"
       /\ request[final] = Get
  /\ demo = "answered" => pc[final] = "ok"

(* What the final get has found of the row of an attempt that was granted. *)
Shown(c) ==
  /\ pc[final] \in Combining =>
       request[final].vendor \in DOMAIN local[final].booked
  /\ pc[final] = "readReleased" =>
       c \in local[final].active \/ rows[c].status = "RELEASED"
  /\ pc[final] = "answer" => c \in local[final].active \cup local[final].released
  /\ pc[final] = "ok" => view[final][request[final].vendor].state # "AVAILABLE"

FinalSeen == demo \in {"get", "answered"} => \A c \in Granted : Shown(c)

DemoInv == Safe /\ Stage /\ FinalSeen

LEMMA DemoCalls ==
  /\ Demo \subseteq Call /\ Attempts \subseteq Demo
  /\ first \in Attempts /\ second \in Attempts /\ final \in Demo
  /\ first # second /\ final \notin Attempts
  <1>1. {first, second, final} \subseteq Call
        /\ Cardinality({first, second, final}) = 3
    BY DemoAssumption
  <1>2. \A a, b : Cardinality({a, b}) <= 2
    <2> SUFFICES ASSUME NEW a, NEW b
                 PROVE  Cardinality({a, b}) <= 2
      OBVIOUS
    <2>1. IsFiniteSet({a}) /\ Cardinality({a}) = 1
      BY FS_Singleton
    <2>2. Cardinality({a} \cup {b}) = IF b \in {a} THEN 1 ELSE 2
      BY <2>1, FS_AddElement
    <2>3. {a, b} = {a} \cup {b}
      OBVIOUS
    <2>4. QED
      BY <2>2, <2>3
  <1>3. first # second /\ first # final /\ second # final
    <2>1. CASE first = second
      <3>1. {first, second, final} = {first, final}
        BY <2>1
      <3>2. Cardinality({first, final}) <= 2
        BY <1>2
      <3>3. QED
        BY <1>1, <3>1, <3>2
    <2>2. CASE first = final \/ second = final
      <3>1. {first, second, final} = {first, second}
        BY <2>2
      <3>2. Cardinality({first, second}) <= 2
        BY <1>2
      <3>3. QED
        BY <1>1, <3>1, <3>2
    <2>3. QED
      BY <2>1, <2>2
  <1>4. QED
    BY <1>1, <1>3 DEF Demo, Attempts

-----------------------------------------------------------------------------
(* What a step leaves to the calls that do not take it.                    *)
Inner(c) == Step(c) \/ AbortTransaction(c) \/ StatementFails(c)

LeavesOthers(c) ==
  \A d \in Call \ {c} : /\ pc'[d] = pc[d] /\ request'[d] = request[d]
                        /\ local'[d] = local[d] /\ view'[d] = view[d]

(* A step of a call that runs: it was received, has not ended, and stays   *)
(* received.                                                               *)
LEMMA InnerLeaves ==
  ASSUME IInv, NEW c \in Call, Inner(c)
  PROVE  /\ LeavesOthers(c) /\ UNCHANGED request
         /\ pc[c] \notin Ended \cup {"idle"} /\ pc'[c] # "idle"
  <1>1. PICK label \in Labels \ {"idle"} : Goto(c, label)
    <2>1. CASE FindBooking(c) \/ EnterCritical(c) \/ CheckFree(c) \/ Insert(c)
               \/ Commit(c) \/ EndOrphan(c)
      BY <2>1 DEF FindBooking, EnterCritical, CheckFree, Insert, Commit, EndOrphan,
         Labels, Waiting, Critical, Ended
    <2>2. CASE LeaveCritical(c)
      BY <2>2 DEF LeaveCritical, After, Labels, Waiting, Reading, Ended
    <2>3. CASE FindHeld(c) \/ FindAny(c) \/ Update(c)
      BY <2>3 DEF FindHeld, FindAny, Update, AfterUpdate, Labels, Waiting, Reading,
         Ended
    <2>4. CASE ReadBookings(c) \/ ReadActive(c) \/ ReadReleased(c) \/ Answer(c)
      BY <2>4 DEF ReadBookings, ReadActive, ReadReleased, Answer, NextRead,
         Labels, Waiting, Reading, Ended
    <2>5. CASE AbortTransaction(c) \/ StatementFails(c)
      BY <2>5 DEF AbortTransaction, StatementFails, Labels, Waiting, Critical, Ended
    <2>6. QED
      BY <2>1, <2>2, <2>3, <2>4, <2>5 DEF Inner, Step
  <1>2. pc'[c] # "idle" /\ \A d \in Call \ {c} : pc'[d] = pc[d]
    BY <1>1, GotoFacts DEF IInv
  <1>3. UNCHANGED request
    BY DEF Inner, Step, FindBooking, EnterCritical, CheckFree, Insert, Commit,
       LeaveCritical, FindHeld, FindAny, Update, ReadBookings, ReadActive,
       ReadReleased, Answer, EndOrphan, AbortTransaction, StatementFails, KeepData
  <1>4. pc[c] \notin Ended \cup {"idle"}
    BY DEF Inner, Step, FindBooking, EnterCritical, CheckFree, Insert, Commit,
       LeaveCritical, FindHeld, FindAny, Update, ReadBookings, ReadActive,
       ReadReleased, Answer, EndOrphan, AbortTransaction, StatementFails,
       Reading, Ended
  <1>5. \A d \in Call \ {c} : local'[d] = local[d]
    <2>1. CASE FindHeld(c) \/ ReadBookings(c) \/ ReadActive(c) \/ ReadReleased(c)
               \/ Answer(c)
      BY <2>1 DEF FindHeld, ReadBookings, ReadActive, ReadReleased, Answer,
         Remember, IInv, TypeOK
    <2>2. CASE UNCHANGED local
      BY <2>2
    <2>3. QED
      BY <2>1, <2>2 DEF Inner, Step, FindBooking, EnterCritical, CheckFree, Insert,
         Commit, LeaveCritical, FindAny, Update, EndOrphan, AbortTransaction,
         StatementFails
  <1>6. \A d \in Call \ {c} : view'[d] = view[d]
    <2>1. CASE Answer(c)
      BY <2>1 DEF Answer, IInv, TypeOK
    <2>2. CASE UNCHANGED view
      BY <2>2
    <2>3. QED
      BY <2>1, <2>2 DEF Inner, Step, FindBooking, EnterCritical, CheckFree, Insert,
         Commit, LeaveCritical, FindHeld, FindAny, Update, ReadBookings, ReadActive,
         ReadReleased, EndOrphan, AbortTransaction, StatementFails, KeepData
  <1>7. QED
    BY <1>2, <1>3, <1>4, <1>5, <1>6 DEF LeavesOthers

LEMMA ReceiveLeaves ==
  ASSUME IInv, NEW c \in Call, NEW r \in Request, Receive(c, r)
  PROVE  /\ LeavesOthers(c)
         /\ pc[c] = "idle" /\ pc'[c] \in FindWedding(r) /\ request'[c] = r
  <1>1. PICK label \in FindWedding(r) : Goto(c, label)
    BY DEF Receive
  <1>2. label \in Labels
    BY FindWeddingIs
  <1>3. pc'[c] = label /\ \A d \in Call \ {c} : pc'[d] = pc[d]
    BY <1>1, <1>2, GotoFacts DEF IInv
  <1>4. QED
    BY <1>1, <1>3 DEF Receive, LeavesOthers, IInv, TypeOK

(* A row that was released stays released.                                 *)
LEMMA ReleasedStays ==
  ASSUME IInv, [Next]_vars, NEW r \in Committed, rows[r].status = "RELEASED"
  PROVE  rows'[r].status = "RELEASED"
  <1>1. ASSUME NEW c \in Call, Commits(c)
        PROVE  rows'[r] = rows[r]
    BY <1>1, NewRowFacts DEF Commits, CommitRow, IInv, TypeOK, Committed
  <1>2. ASSUME NEW c \in Call, Releases(c)
        PROVE  rows'[r].status = "RELEASED"
    <2>1. \A x \in Call \ {local[c].target} : rows'[x] = rows[x]
          /\ rows'[local[c].target].status = "RELEASED"
      BY <1>2, ReleaseFacts DEF Releases
    <2>2. rows'[local[c].target].status = "RELEASED"
      BY <1>2, ReleaseFacts DEF Releases
    <2>3. QED
      BY <2>1, <2>2 DEF Committed
  <1>3. QED
    BY <1>1, <1>2, StepOnTable DEF Quiet, Opens

-----------------------------------------------------------------------------
(* The stages follow each other.                                           *)
LEMMA StageKept ==
  ASSUME DemoInv, [DemoNext]_demoVars
  PROVE  Stage'
  <1> USE DemoCalls
  <1>0. IInv
    BY DEF DemoInv, Safe
  <1>1. ASSUME NEW r \in Request, Simulate(r)
        PROVE  Stage'
    <2>1. /\ demo = "idle" /\ demo' = "attempts" /\ r.op = "request"
          /\ \A c \in Attempts : pc'[c] # "idle" /\ request'[c] = r
          /\ pc'[final] = pc[final]
      BY <1>1, FindWeddingIs DEF Simulate
    <2>2. pc[final] = "idle"
      BY <2>1 DEF DemoInv, Stage
    <2>3. QED
      BY <2>1, <2>2 DEF Stage
  <1>2. CASE GetResource
    <2>1. /\ demo = "attempts" /\ demo' = "get" /\ Settled /\ Receive(final, Get)
      BY <1>2 DEF GetResource, Get
    <2>2. /\ \A c \in Attempts : /\ pc[c] # "idle" /\ request[c] = request[first]
                                 /\ request[c].op = "request"
      BY <2>1 DEF DemoInv, Stage
    <2>3. Get \in Request /\ Get.op = "get"
      <3>1. request[first] \in Request
        BY <1>0, <2>2 DEF IInv, Fits, Asked
      <3>2. QED
        BY <3>1, RequestFields DEF Get, Request
    <2>4. LeavesOthers(final) /\ pc'[final] # "idle" /\ request'[final] = Get
      BY <1>0, <2>1, <2>3, ReceiveLeaves, FindWeddingIs
    <2>5. \A c \in Attempts : pc'[c] = pc[c] /\ request'[c] = request[c]
      BY <2>4 DEF LeavesOthers
    <2>6. Get' = Get
      BY <2>5 DEF Get
    <2>7. Settled'
      BY <2>1, <2>5 DEF Settled
    <2>8. QED
      BY <2>1, <2>2, <2>4, <2>5, <2>6, <2>7 DEF Stage
  <1>3. CASE AnswerDemo
    BY <1>3 DEF AnswerDemo, vars, callVars, DemoInv, Stage, Settled, Get
  <1>4. ASSUME UNCHANGED demo,
               \A c \in Demo : /\ request'[c] = request[c]
                               /\ pc[c] = "idle" => pc'[c] = "idle"
                               /\ pc[c] \in Ended => pc'[c] = pc[c]
                               /\ pc[c] # "idle" => pc'[c] # "idle"
        PROVE  Stage'
    <2>1. Settled => Settled'
      BY <1>4 DEF Settled
    <2>2. Get' = Get
      BY <1>4 DEF Get
    <2>3. "ok" \in Ended
      BY DEF Ended
    <2>4. QED
      BY <1>4, <2>1, <2>2, <2>3 DEF DemoInv, Stage
  <1>5. ASSUME NEW c \in Call \ Demo, NEW r \in Request, Receive(c, r), UNCHANGED demo
        PROVE  Stage'
    <2>1. LeavesOthers(c)
      BY <1>0, <1>5, ReceiveLeaves
    <2>2. QED
      BY <1>4, <1>5, <2>1 DEF LeavesOthers
  <1>6. ASSUME NEW c \in Call, Inner(c), UNCHANGED demo
        PROVE  Stage'
    <2>1. /\ LeavesOthers(c) /\ UNCHANGED request
          /\ pc[c] \notin Ended \cup {"idle"} /\ pc'[c] # "idle"
      BY <1>0, <1>6, InnerLeaves
    <2>2. QED
      BY <1>4, <1>6, <2>1 DEF LeavesOthers
  <1>7. CASE (BookingStep /\ UNCHANGED demo) \/ UNCHANGED demoVars
    BY <1>4, <1>7 DEF BookingStep, demoVars, vars, callVars
  <1>8. QED
    BY <1>1, <1>2, <1>3, <1>5, <1>6, <1>7 DEF DemoNext, DemoStep, Inner

(* A step is one of the endpoints' or starts the two requests.             *)
LEMMA DemoStepIs ==
  ASSUME DemoInv, [DemoNext]_demoVars
  PROVE  \/ [Next]_vars
         \/ \E r \in Request :
              Simulate(r) /\ \A c \in Attempts : pc[c] = "idle"
  <1> USE DemoCalls
  <1>1. ASSUME NEW r \in Request, Simulate(r)
        PROVE  \A c \in Attempts : pc[c] = "idle"
    BY <1>1 DEF Simulate, DemoInv, Stage
  <1>2. CASE GetResource
    <2>1. Receive(final, Get) /\ pc[first] # "idle"
      BY <1>2 DEF GetResource, Get, DemoInv, Stage
    <2>2. request[first] \in Request
      BY <2>1 DEF DemoInv, Safe, IInv, Fits, Asked
    <2>3. Get \in Request
      BY <2>2, RequestFields DEF Get, Request
    <2>4. QED
      BY <2>1, <2>3 DEF Next
  <1>3. CASE AnswerDemo \/ UNCHANGED demoVars
    BY <1>3 DEF AnswerDemo, demoVars
  <1>4. QED
    BY <1>1, <1>2, <1>3 DEF DemoNext, DemoStep, Next

-----------------------------------------------------------------------------
(* The final get finds what a granted attempt left.                        *)

(* Once both have settled nobody else is granted.                          *)
LEMMA GrantedFacts ==
  ASSUME IInv, Stage, demo # "idle", NEW c \in Granted
  PROVE  /\ c \in Call /\ c \in Committed /\ rows[c] \in Row
         /\ rows[c].vendor = request[first].vendor
         /\ rows[c].wedding = request[first].wedding
         /\ status[rows[c].booking] = "ACCEPTED"
         /\ rows[c].booking = <<request[first].wedding, request[first].vendor>>
  <1>1. /\ c \in Attempts /\ c \in Call /\ pc[c] = "ok" /\ request[c] = request[first]
        /\ request[c].op = "request"
    BY DemoCalls DEF Granted, Stage
  <1>2. Own(c) = c
    BY <1>1 DEF Own
  <1>3. QED
    BY <1>1, <1>2, OwnFacts DEF Names

(* One read of the get after the other.                                    *)
LEMMA FinalShows ==
  ASSUME IInv, Stage, demo = "get", Inner(final), NEW c \in Granted, Shown(c)
  PROVE  Shown(c)'
  <1>1. /\ final \in Call /\ request[final] = Get /\ pc[final] \notin Ended \cup {"idle"}
        /\ UNCHANGED request
    BY DemoCalls, InnerLeaves DEF Stage
  <1>2. pc[final] \in Reading
    <2>1. request[final].op = "get"
      BY <1>1 DEF Get
    <2>2. pc[final] \in Labels
      BY <1>1 DEF IInv, TypeOK, Labels
    <2>3. QED
      BY <1>1, <2>1, <2>2 DEF IInv, Fits, Asked, Labels, Waiting, Requesting,
         Releasing
  <1>3. /\ c \in Committed /\ rows[c] \in Row
        /\ rows[c].vendor = request[final].vendor
        /\ rows[c].wedding = request[final].wedding
        /\ status[<<request[final].wedding, request[final].vendor>>] = "ACCEPTED"
        /\ request[final].vendor \in Vendor
    BY <1>1, GrantedFacts DEF Get, Row
  <1>4. CASE ReadBookings(final)
    <2> DEFINE w == request[final].wedding
               booked == {v \in Vendor : status[<<w, v>>] # "NONE"}
               entries == [v \in booked |-> status[<<w, v>>]]
    <2>1. request[final].vendor \in booked /\ booked # {}
      BY <1>3
    <2>2. Goto(final, "readActive") /\ local' = [local EXCEPT ![final].booked = entries]
      BY <1>4, <2>1 DEF ReadBookings, NextRead, Remember
    <2>3. DOMAIN entries = booked
      OBVIOUS
    <2> HIDE DEF entries, booked
    <2>4. local'[final].booked = entries
      BY <1>1, <2>2 DEF IInv, TypeOK, Local
    <2>5. pc'[final] = "readActive"
      BY <1>1, <2>2 DEF IInv, TypeOK, Goto
    <2>6. QED
      BY <1>1, <2>1, <2>3, <2>4, <2>5 DEF Shown
  <1>5. CASE ReadActive(final)
    <2> DEFINE found == {r \in Allocated : rows[r].vendor \in DOMAIN local[final].booked}
    <2>1. /\ pc[final] = "readActive" /\ UNCHANGED rows
          /\ Goto(final, "readReleased")
          /\ local' = [local EXCEPT ![final].active = found]
      BY <1>5 DEF ReadActive, NextRead, Remember, KeepData, db
    <2>2. request[final].vendor \in DOMAIN local[final].booked
      BY <2>1 DEF Shown, Combining
    <2>3. c \in found \/ rows[c].status = "RELEASED"
      BY <1>3, <2>2 DEF Allocated, Row
    <2> HIDE DEF found
    <2>4. local'[final].active = found /\ local'[final].booked = local[final].booked
      BY <1>1, <2>1 DEF IInv, TypeOK, Local
    <2>5. pc'[final] = "readReleased"
      BY <1>1, <2>1 DEF IInv, TypeOK, Goto
    <2>6. QED
      BY <1>1, <2>1, <2>2, <2>3, <2>4, <2>5 DEF Shown
  <1>6. CASE ReadReleased(final)
    <2> DEFINE found == {r \in Committed \ Allocated :
                           /\ rows[r].wedding = request[final].wedding
                           /\ rows[r].vendor \in DOMAIN local[final].booked}
    <2>1. /\ pc[final] = "readReleased" /\ Goto(final, "answer")
          /\ local' = [local EXCEPT ![final].released = found]
      BY <1>6 DEF ReadReleased, NextRead, Remember
    <2>2. /\ request[final].vendor \in DOMAIN local[final].booked
          /\ c \in local[final].active \/ rows[c].status = "RELEASED"
      BY <2>1 DEF Shown, Combining
    <2>3. c \in local[final].active \cup found
      BY <1>3, <2>2 DEF Allocated
    <2> HIDE DEF found
    <2>4. /\ local'[final].released = found
          /\ local'[final].active = local[final].active
          /\ local'[final].booked = local[final].booked
      BY <1>1, <2>1 DEF IInv, TypeOK, Local
    <2>5. pc'[final] = "answer"
      BY <1>1, <2>1 DEF IInv, TypeOK, Goto
    <2>6. QED
      BY <1>1, <2>2, <2>3, <2>4, <2>5 DEF Shown
  <1>7. CASE Answer(final)
    <2> DEFINE booked == DOMAIN local[final].booked
               answer == [v \in booked |-> ViewOf(final, v)]
    <2>1. /\ pc[final] = "answer"
          /\ view' = [view EXCEPT ![final] = answer]
          /\ \E label \in {"ok", "notFound"} : Goto(final, label)
      BY <1>7 DEF Answer
    <2>2. /\ request[final].vendor \in booked
          /\ c \in local[final].active \cup local[final].released
      BY <2>1 DEF Shown, Combining
    <2>3. answer[request[final].vendor].state # "AVAILABLE"
      BY <1>3, <2>2, ViewFacts
    <2> HIDE DEF answer
    <2>4. view'[final] = answer
      BY <1>1, <2>1 DEF IInv, TypeOK
    <2>5. pc'[final] \in {"ok", "notFound"}
      BY <1>1, <2>1 DEF IInv, TypeOK, Goto
    <2>6. QED
      BY <1>1, <2>3, <2>4, <2>5 DEF Shown, Combining
  <1>8. CASE StatementFails(final)
    <2>1. pc'[final] = "error"
      BY <1>1, <1>8 DEF StatementFails, IInv, TypeOK, Goto
    <2>2. QED
      BY <2>1 DEF Shown, Combining
  <1>9. QED
    BY <1>2, <1>4, <1>5, <1>6, <1>7, <1>8, LabelsAre DEF Inner, Step, FindBooking,
       EnterCritical, CheckFree, Insert, Commit, LeaveCritical, FindHeld, FindAny,
       Update, EndOrphan, AbortTransaction, Reading, Critical

LEMMA FinalSeenKept ==
  ASSUME DemoInv, [DemoNext]_demoVars
  PROVE  FinalSeen'
  <1> USE DemoCalls
  <1>0. IInv /\ Stage /\ FinalSeen
    BY DEF DemoInv, Safe
  <1>1. ASSUME NEW r \in Request, Simulate(r)
        PROVE  FinalSeen'
    BY <1>1 DEF Simulate, FinalSeen
  <1>2. CASE GetResource
    <2>1. Receive(final, Get) /\ Get.op = "get" /\ pc[first] # "idle"
      BY <1>0, <1>2 DEF GetResource, Get, Stage
    <2>2. request[first] \in Request
      BY <1>0, <2>1 DEF IInv, Fits, Asked
    <2>3. Get \in Request
      BY <2>2, RequestFields DEF Get, Request
    <2>4. pc'[final] \in {"findBooking", "findHeld", "readBookings", "badRequest"}
      BY <1>0, <2>1, <2>3, ReceiveLeaves, FindWeddingIs
    <2>5. QED
      BY <2>4 DEF FinalSeen, Shown, Combining
  <1>3. CASE AnswerDemo \/ UNCHANGED demoVars
    <2>1. UNCHANGED vars /\ (demo' \in {"get", "answered"} => demo \in {"get", "answered"})
      BY <1>3 DEF AnswerDemo, demoVars
    <2>2. Granted' = Granted /\ \A c : Shown(c)' <=> Shown(c)
      BY <2>1 DEF Granted, Shown, vars, callVars, db
    <2>3. QED
      BY <1>0, <2>1, <2>2 DEF FinalSeen
  <1>4. ASSUME demo \in {"get", "answered"}, [Next]_vars,
               \A c \in Demo : /\ pc'[c] = pc[c] /\ request'[c] = request[c]
                               /\ local'[c] = local[c] /\ view'[c] = view[c]
        PROVE  FinalSeen'
    <2>1. Granted' = Granted
      BY <1>4 DEF Granted
    <2>2. ASSUME NEW c \in Granted
          PROVE  Shown(c)'
      <3>1. Shown(c) /\ c \in Committed
        BY <1>0, <1>4, GrantedFacts DEF FinalSeen
      <3>2. rows[c].status = "RELEASED" => rows'[c].status = "RELEASED"
        BY <1>0, <1>4, <3>1, ReleasedStays
      <3>3. QED
        BY <1>4, <3>1, <3>2 DEF Shown
    <2>3. QED
      BY <2>1, <2>2 DEF FinalSeen
  <1>5. ASSUME NEW c \in Call \ Demo, NEW r \in Request, Receive(c, r),
               demo \in {"get", "answered"}
        PROVE  FinalSeen'
    <2>1. LeavesOthers(c) /\ [Next]_vars
      BY <1>0, <1>5, ReceiveLeaves DEF Next
    <2>2. QED
      BY <1>4, <1>5, <2>1 DEF LeavesOthers
  <1>6. ASSUME NEW c \in Call, Inner(c), UNCHANGED demo, demo \in {"get", "answered"}
        PROVE  FinalSeen'
    <2>1. /\ LeavesOthers(c) /\ UNCHANGED request /\ pc[c] \notin Ended /\ [Next]_vars
      BY <1>0, <1>6, InnerLeaves DEF Inner, Next
    <2>2. c \notin Attempts
      BY <1>0, <1>6, <2>1 DEF Stage, Settled
    <2>3. CASE c \notin Demo
      BY <1>4, <1>6, <2>1, <2>3 DEF LeavesOthers
    <2>4. CASE c = final
      <3>1. demo = "get"
        BY <1>0, <1>6, <2>1, <2>4 DEF Stage, Ended
      <3>2. Granted' = Granted
        BY <2>1, <2>2, <2>4 DEF Granted, LeavesOthers
      <3>3. \A d \in Granted : Shown(d)'
        BY <1>0, <1>6, <2>4, <3>1, FinalShows DEF FinalSeen
      <3>4. QED
        BY <3>2, <3>3 DEF FinalSeen
    <2>5. QED
      BY <2>2, <2>3, <2>4 DEF Demo
  <1>7. CASE BookingStep /\ UNCHANGED demo /\ demo \in {"get", "answered"}
    BY <1>4, <1>7 DEF BookingStep, callVars, Next
  <1>8. CASE UNCHANGED demo /\ demo \notin {"get", "answered"}
    BY <1>8 DEF FinalSeen
  <1>9. QED
    BY <1>1, <1>2, <1>3, <1>5, <1>6, <1>7, <1>8 DEF DemoNext, DemoStep, Inner

-----------------------------------------------------------------------------
(* When both attempts have a row, one committed after another call had     *)
(* released the row of the other.                                          *)
Ordered ==
  \A a, b \in Attempts : (a # b /\ rows[a] # NoRow /\ rows[b] # NoRow) =>
    a \in releasedBefore[b] \/ b \in releasedBefore[a]

(* Nothing of the vendor is allocated when an attempt commits, so the row  *)
(* the other left was released, and the demo does not release.             *)
LEMMA CommitsAfterRelease ==
  ASSUME Sole, DemoInv, [DemoNext]_demoVars,
         NEW a \in Attempts, NEW b \in Attempts, a # b,
         rows[a] = NoRow, rows'[a] # NoRow, rows'[b] # NoRow
  PROVE  b \in releasedBefore'[a]
  <1> USE DemoCalls
  <1>1. IInv /\ Once /\ Unique /\ Stage
    BY SafeIsUnique DEF DemoInv, Safe
  <1>2. [Next]_vars
    <2>1. ASSUME NEW r \in Request, Simulate(r)
          PROVE  FALSE
      BY <2>1 DEF Simulate, db
    <2>2. QED
      BY <2>1, DemoStepIs
  <1>3. Commits(a) /\ rows[b] = rows'[b]
    <2>1. ASSUME NEW c \in Call, Commits(c)
          PROVE  \A d \in Call \ {c} : rows'[d] = rows[d]
      BY <1>1, <2>1 DEF Commits, CommitRow, IInv, TypeOK
    <2>2. ASSUME NEW c \in Call, Releases(c)
          PROVE  FALSE
      <3>1. \A r \in Call \ {local[c].target} : rows'[r] = rows[r]
            /\ local[c].target \in Allocated
        BY <1>1, <2>2, ReleaseFacts DEF Releases
      <3>2. QED
        BY <3>1 DEF Allocated, Committed
    <2>3. QED
      BY <1>1, <1>2, <2>1, <2>2, StepOnTable DEF Quiet, Opens
  <1>4. a \in OpenTransactions /\ pc[a] \notin Ended \cup {"idle"}
    BY <1>3 DEF Commits, OpenTransactions, Ended
  <1>5. demo = "attempts" /\ pc[final] = "idle"
    BY <1>1, <1>4 DEF Stage, Settled
  <1>6. /\ request[a] = request[first] /\ request[b] = request[first]
        /\ request[first].op = "request"
    BY <1>1, <1>5 DEF Stage
  <1>7. b \in Committed /\ rows[b].vendor = request[a].vendor
    BY <1>1, <1>3, <1>6 DEF IInv, Fits, Inserted, Names, Committed
  <1>8. rows[b].status = "RELEASED"
    <2>1. AllocatedOf(request[a].vendor) = {}
      BY <1>1, <1>4 DEF Unique
    <2>2. b \notin Allocated /\ rows[b] \in Row
      BY <1>1, <1>7, <2>1 DEF AllocatedOf, IInv, TypeOK, Committed
    <2>3. QED
      BY <1>7, <2>2 DEF Allocated, Row
  <1>9. PICK d \in Call : freed[d] = b
    BY <1>1, <1>7, <1>8 DEF Once
  <1>10. freed[d] # NoRow
    BY <1>7, <1>9, ConstantsAssumption DEF Committed
  <1>11. request[d].op = "release" /\ pc[d] # "idle"
    BY <1>1, <1>10 DEF IInv, Fits, Freed, Reading
  <1>12. d \in Call \ Demo
    BY <1>5, <1>6, <1>11, <1>1 DEF Demo, Attempts
  <1>13. Noted
    BY DEF DemoNext, demoVars, vars, db
  <1>14. QED
    BY <1>9, <1>12, <1>13 DEF Noted

LEMMA OrderedKept ==
  ASSUME Sole, DemoInv, Ordered, [DemoNext]_demoVars
  PROVE  Ordered'
  <1>1. ASSUME NEW a \in Attempts, rows[a] # NoRow
        PROVE  releasedBefore'[a] = releasedBefore[a]
    BY <1>1 DEF DemoNext, Noted, demoVars
  <1>2. QED
    BY <1>1, CommitsAfterRelease DEF Ordered

-----------------------------------------------------------------------------
LEMMA DemoInvariant == DemoSpec => []DemoInv
  <1>1. DemoInit => DemoInv
    <2> SUFFICES ASSUME DemoInit
                 PROVE  DemoInv
      OBVIOUS
    <2>1. Init /\ demo = "idle" /\ \A c \in Demo : pc[c] = "idle"
      BY DemoCalls DEF DemoInit, Init
    <2>2. QED
      BY <2>1, SafeAtFirst DEF DemoInv, Stage, FinalSeen
  <1>2. DemoInv /\ [DemoNext]_demoVars => DemoInv'
    <2> SUFFICES ASSUME DemoInv, [DemoNext]_demoVars
                 PROVE  DemoInv'
      OBVIOUS
    <2>1. Safe'
      BY DemoStepIs, SafeKept, SimulateSafe DEF DemoInv
    <2>2. QED
      BY <2>1, StageKept, FinalSeenKept DEF DemoInv
  <1>3. QED
    BY <1>1, <1>2, PTL DEF DemoSpec

(* "The critical section admits only one of them": the demo's answer is    *)
(* true, whatever the other calls and failing statements do meanwhile, by  *)
(* the lock of one server alone or by the index alone.                     *)
THEOREM TrueDemo == Sole => (DemoSpec => []DemoIsTrue)
  <1> SUFFICES ASSUME Sole
               PROVE  DemoSpec => []DemoIsTrue
    OBVIOUS
  <1>1. DemoInv /\ Ordered => DemoIsTrue
    <2> SUFFICES ASSUME DemoInv, Ordered, demo = "answered"
                 PROVE  /\ \A c \in Granted : rows[c] # NoRow
                        /\ Granted = Attempts =>
                             \E a \in Attempts : Attempts \ {a} \subseteq releasedBefore[a]
                        /\ Granted # {} =>
                             view[final][request[final].vendor].state # "AVAILABLE"
      BY DEF DemoIsTrue
    <2>1. IInv /\ Stage /\ FinalSeen
      BY DEF DemoInv, Safe
    <2>2. \A c \in Granted : rows[c] # NoRow
      BY <2>1, GrantedFacts DEF Committed
    <2>3. ASSUME Granted = Attempts
          PROVE  \E a \in Attempts : Attempts \ {a} \subseteq releasedBefore[a]
      <3>1. first \in releasedBefore[second] \/ second \in releasedBefore[first]
        BY <2>2, <2>3, DemoCalls DEF Ordered
      <3>2. QED
        BY <3>1 DEF Attempts
    <2>4. ASSUME NEW c \in Granted
          PROVE  view[final][request[final].vendor].state # "AVAILABLE"
      BY <2>1 DEF Stage, FinalSeen, Shown
    <2>5. QED
      BY <2>2, <2>3, <2>4
  <1>2. DemoInit => Ordered
    BY DemoCalls DEF DemoInit, Init, Ordered
  <1>3. DemoInv /\ Ordered /\ [DemoNext]_demoVars => Ordered'
    BY OrderedKept
  <1>4. QED
    BY <1>1, <1>2, <1>3, DemoInvariant, PTL DEF DemoSpec

(* With the demo as a client the endpoints still implement their ledger:   *)
(* that two requests start in one turn makes no difference to it.          *)
THEOREM DemoImplements == Sole => (DemoSpec => ImplementsLedger)
  <1> SUFFICES ASSUME Sole
               PROVE  DemoSpec => ImplementsLedger
    OBVIOUS
  <1>1. DemoInv /\ [DemoNext]_demoVars => [Abstract!Next]_(Abstract!vars)
    <2> SUFFICES ASSUME DemoInv, [DemoNext]_demoVars
                 PROVE  [Abstract!Next]_(Abstract!vars)
      OBVIOUS
    <2>1. CASE [Next]_vars
      BY <2>1, SafeIsUnique, StepsLedger DEF DemoInv, Safe
    <2>2. ASSUME NEW r \in Request, Simulate(r)
          PROVE  UNCHANGED Abstract!vars
      <3>1. UNCHANGED <<rows, status>>
        BY <2>2 DEF Simulate, db
      <3>2. [v \in Vendor |-> Holders(v)]' = [v \in Vendor |-> Holders(v)]
        BY <3>1 DEF Holders, AllocatedOf, Allocated, Committed
      <3>3. QED
        BY <3>1, <3>2 DEF Abstract!vars
    <2>3. QED
      BY <2>1, <2>2, DemoStepIs
  <1>2. DemoInit => Abstract!Init
    BY StartsLedger DEF DemoInit
  <1>3. QED
    BY <1>1, <1>2, DemoInvariant, PTL DEF DemoSpec, ImplementsLedger, Abstract!Spec
=============================================================================
