------------------------- MODULE ResourceAllocation -------------------------
(***************************************************************************)
(* ResourceService (src/backend/src/resource/resource.service.ts) over the *)
(* lock of each server (FifoMutex, implemented by ResourceLock), the       *)
(* bookings (BookingLedger, implemented by Bookings) and the PostgreSQL    *)
(* table resource_allocations with its partial unique index.               *)
(*                                                                         *)
(* A call awaits one database statement after the other; a statement and   *)
(* the code up to the next await are one action.  Rows are visible once    *)
(* committed (READ COMMITTED); the row of an open transaction is not.  A   *)
(* row is named by the call that inserted it, a booking by its wedding and *)
(* vendor, a user by the wedding found for it.  Several server processes   *)
(* share the database, each with a lock of its own in memory; they crash   *)
(* and restart, and statements fail.                                       *)
(***************************************************************************)
EXTENDS Naturals, Sequences, FiniteSets

CONSTANTS Call,          \* the HTTP calls that are ever made
          Wedding,
          Vendor,        \* the resources
          Server,        \* server processes
          UniqueIndex,   \* the partial unique index exists
          MaxCrashes,    \* bound: server crashes
          Ops,           \* bound: the endpoints the calls use
          Failures,      \* database statements may fail
          NoRow, NoRequest

ASSUME ConstantsAssumption ==
  /\ UniqueIndex \in BOOLEAN
  /\ Failures \in BOOLEAN
  /\ MaxCrashes \in Nat
  /\ Ops \subseteq {"request", "release", "list", "get"}
  /\ NoRow \notin Call

VARIABLES status,        \* the bookings
          rows,          \* committed allocations, by inserting call
          queue, inside, \* the lock of every server, keyed <<server, vendor>>
          pc,            \* what each call awaits, or how it ended
          request,       \* what it was called with
          server,        \* the server that runs it
          local,         \* what it has read and not used yet
          view,          \* the ResourceView list it computed
          freed,         \* history: the row each call has released
          crashes

db == <<status, rows>>
lock == <<queue, inside>>
callVars == <<pc, request, server, local, view, freed>>
vars == <<db, lock, callVars, crashes>>

Ledger == INSTANCE BookingLedger
LockKey == Server \X Vendor
Lock == INSTANCE FifoMutex WITH Key <- LockKey

Booking == Wedding \X Vendor
Request ==
  [op : {"request"}, wedding : Wedding, vendor : Vendor, booking : Booking]
    \cup [op : {"release", "list", "get"}, wedding : Wedding, vendor : Vendor]

Critical == {"check", "insert", "inserted", "committed",
             "throwConflict", "throwError"}
Reading == {"readBookings", "readActive", "readReleased", "answer"}
Waiting == {"findBooking", "queued", "findHeld", "findAny", "update"}
             \cup Critical \cup Reading
Ended == {"ok", "badRequest", "notFound", "conflict", "error", "cut"}

NoEntries == [v \in {} |-> NoRow]
NoLocal == [target |-> NoRow, booked |-> NoEntries,
            active |-> {}, released |-> {}]

Init ==
  /\ Ledger!Init
  /\ rows = [c \in Call |-> NoRow]
  /\ Lock!Init
  /\ pc = [c \in Call |-> "idle"]
  /\ request = [c \in Call |-> NoRequest]
  /\ server \in [Call -> Server]
  /\ local = [c \in Call |-> NoLocal]
  /\ view = [c \in Call |-> NoEntries]
  /\ freed = [c \in Call |-> NoRow]
  /\ crashes = 0

-----------------------------------------------------------------------------
(* The table.                                                              *)
Committed == {r \in Call : rows[r] # NoRow}
Allocated == {r \in Committed : rows[r].status = "ALLOCATED"}
AllocatedOf(v) == {r \in Allocated : rows[r].vendor = v}

(* Calls whose transaction has inserted a row and is still open.           *)
OpenTransactions == {c \in Call : pc[c] \in {"inserted", "orphan"}}

NewRow(c) == [wedding |-> request[c].wedding, vendor |-> request[c].vendor,
              booking |-> request[c].booking, status |-> "ALLOCATED"]

Goto(c, label) == pc' = [pc EXCEPT ![c] = label]
Remember(c, field, value) == local' = [local EXCEPT ![c][field] = value]
Key(c) == <<server[c], request[c].vendor>>

(* A step that moves call c and changes none of these.                     *)
KeepData == UNCHANGED <<db, request, server, view, freed, crashes>>

(* requireWeddingId, the first await of every endpoint, and where each     *)
(* goes on.  A wedding is never deleted, so a call is counted as received  *)
(* when it is found.  A wedding with bookings exists; one without may not, *)
(* and then the call is refused.                                           *)
FindWedding(r) ==
  {CASE r.op = "request" -> "findBooking"
     [] r.op = "release" -> "findHeld"
     [] OTHER            -> "readBookings"}
    \cup (IF \A v \in Vendor : status[<<r.wedding, v>>] = "NONE"
          THEN {"badRequest"} ELSE {})

Receive(c, r) ==
  /\ pc[c] = "idle"
  /\ r.op \in Ops
  /\ request' = [request EXCEPT ![c] = r]
  /\ \E label \in FindWedding(r) : Goto(c, label)
  /\ UNCHANGED <<db, lock, server, local, view, freed, crashes>>

-----------------------------------------------------------------------------
(* booking.findFirst({id, weddingId})                                      *)
Found(r) == status[r.booking] # "NONE" /\ r.booking[1] = r.wedding

(* The status the booking must have; the mutant only excludes REJECTED.    *)
NotRejected(r) == status[r.booking] # "REJECTED"
Accepted(r) == status[r.booking] = "ACCEPTED"

(* request: the booking is read and judged before the lock is taken.       *)
FindBooking(c) ==
  LET r == request[c]
      found == Found(r)
      fits == r.booking[2] = r.vendor
      accepted == Accepted(r)
  IN
  /\ pc[c] = "findBooking"
  /\ \/ ~found /\ Goto(c, "notFound") /\ UNCHANGED lock
     \/ found /\ ~(fits /\ accepted) /\ Goto(c, "badRequest") /\ UNCHANGED lock
     \/ found /\ fits /\ accepted /\ Goto(c, "queued") /\ Lock!Arrive(c, Key(c))
  /\ UNCHANGED local
  /\ KeepData

(* Mutant: the check starts without waiting for the lock.                  *)
EnterCriticalAtOnce(c) ==
  /\ pc[c] = "queued"
  /\ inside' = inside \cup {c}
  /\ Goto(c, "check")
  /\ UNCHANGED <<queue, local>>
  /\ KeepData

EnterCritical(c) ==
  /\ pc[c] = "queued"
  /\ Lock!Enter(c, Key(c))
  /\ Goto(c, "check")
  /\ UNCHANGED local
  /\ KeepData

(* tx.findFirst: an allocation anyone holds makes the transaction throw.   *)
CheckFree(c) ==
  /\ pc[c] = "check"
  /\ Goto(c, IF AllocatedOf(request[c].vendor) = {} THEN "insert"
                                                    ELSE "throwConflict")
  /\ UNCHANGED <<lock, local>>
  /\ KeepData

(* The partial unique index, and the mutant that indexes the booking too.  *)
TakenByBooking(c) ==
  UniqueIndex /\ \E r \in AllocatedOf(request[c].vendor) :
                   rows[r].booking = request[c].booking
Taken(c) == UniqueIndex /\ AllocatedOf(request[c].vendor) # {}

(* tx.create.  The unique index makes the insert wait for an open          *)
(* transaction on the same vendor and answers P2002 to a committed one.    *)
Insert(c) ==
  LET v == request[c].vendor IN
  /\ pc[c] = "insert"
  /\ UniqueIndex => \A d \in OpenTransactions : request[d].vendor # v
  /\ Goto(c, IF Taken(c) THEN "throwConflict" ELSE "inserted")
  /\ UNCHANGED <<lock, local>>
  /\ KeepData

CommitRow(c) == rows' = [rows EXCEPT ![c] = NewRow(c)]

(* The transaction commits; with failures, the answer may be lost.         *)
Commit(c) ==
  /\ pc[c] = "inserted"
  /\ CommitRow(c)
  /\ Goto(c, "committed") \/ (Failures /\ Goto(c, "throwError"))
  /\ UNCHANGED <<status, lock, request, server, local, view, freed, crashes>>

(* A statement fails or the transaction times out: it is rolled back.      *)
AbortTransaction(c) ==
  /\ Failures
  /\ pc[c] \in {"check", "insert", "inserted"}
  /\ Goto(c, "throwError")
  /\ UNCHANGED <<lock, local>>
  /\ KeepData

(* How request goes on after runExclusive: P2002 becomes a                 *)
(* ConflictException, any other error stays.  Mutant: all become conflicts.*)
AllConflicts(label) ==
  IF label = "committed" THEN "readBookings" ELSE "conflict"
After(label) ==
  CASE label = "committed"     -> "readBookings"
    [] label = "throwConflict" -> "conflict"
    [] label = "throwError"    -> "error"

(* Mutant: the lock is released only after a success.                      *)
LeaveCriticalIfCommitted(c) ==
  /\ pc[c] \in {"committed", "throwConflict", "throwError"}
  /\ IF pc[c] = "committed" THEN Lock!Leave(c, Key(c)) ELSE UNCHANGED lock
  /\ Goto(c, After(pc[c]))
  /\ UNCHANGED local
  /\ KeepData

(* The finally block of runExclusive.                                      *)
LeaveCritical(c) ==
  /\ pc[c] \in {"committed", "throwConflict", "throwError"}
  /\ Lock!Leave(c, Key(c))
  /\ Goto(c, After(pc[c]))
  /\ UNCHANGED local
  /\ KeepData

-----------------------------------------------------------------------------
(* release: no lock; the wedding's own allocation is read ...              *)
FindHeld(c) ==
  LET own == {r \in AllocatedOf(request[c].vendor) :
                rows[r].wedding = request[c].wedding}
  IN
  /\ pc[c] = "findHeld"
  /\ \/ /\ own = {}
        /\ Goto(c, "findAny")
        /\ UNCHANGED local
     \/ \E r \in own : Goto(c, "update") /\ Remember(c, "target", r)
  /\ UNCHANGED lock
  /\ KeepData

(* ... or, to word the refusal, any allocation it ever had.                *)
FindAny(c) ==
  LET ever == {r \in Committed : /\ rows[r].vendor = request[c].vendor
                                 /\ rows[r].wedding = request[c].wedding}
  IN
  /\ pc[c] = "findAny"
  /\ Goto(c, IF ever # {} THEN "conflict" ELSE "notFound")
  /\ UNCHANGED <<lock, local>>
  /\ KeepData

(* The filter of updateMany, and the mutant that trusts the earlier read.  *)
MatchesId(r) == r \in Committed
Matches(r) == r \in Allocated

(* A count of 0 is a conflict; the mutant forgets to look at the count.    *)
AfterUpdateUncounted(count) == "readBookings"
AfterUpdate(count) == IF count = 0 THEN "conflict" ELSE "readBookings"

(* updateMany with that filter; with failures, the answer may be lost.     *)
Update(c) ==
  LET r == local[c].target IN
  /\ pc[c] = "update"
  /\ IF Matches(r)
     THEN /\ rows' = [rows EXCEPT ![r].status = "RELEASED"]
          /\ freed' = [freed EXCEPT ![c] = r]
          /\ Goto(c, AfterUpdate(1)) \/ (Failures /\ Goto(c, "error"))
     ELSE /\ Goto(c, AfterUpdate(0))
          /\ UNCHANGED <<rows, freed>>
  /\ UNCHANGED <<status, lock, request, server, local, view, crashes>>

-----------------------------------------------------------------------------
(* list: three reads at three moments, combined into the view.  get, and   *)
(* request and release at their end, look one vendor up in that list.  The *)
(* mutant reads the released rows before the active ones.                  *)
NextReadSwapped(label) ==
  CASE label = "readBookings" -> "readReleased"
    [] label = "readReleased" -> "readActive"
    [] label = "readActive"   -> "answer"
NextRead(label) ==
  CASE label = "readBookings" -> "readActive"
    [] label = "readActive"   -> "readReleased"
    [] label = "readReleased" -> "answer"

ReadBookings(c) ==
  LET w == request[c].wedding
      booked == {v \in Vendor : status[<<w, v>>] # "NONE"}
  IN
  /\ pc[c] = "readBookings"
  /\ \/ /\ booked = {}
        /\ Goto(c, IF request[c].op = "list" THEN "ok" ELSE "notFound")
        /\ UNCHANGED local
     \/ /\ booked # {}
        /\ Goto(c, NextRead(pc[c]))
        /\ Remember(c, "booked", [v \in booked |-> status[<<w, v>>]])
  /\ UNCHANGED lock
  /\ KeepData

ReadActive(c) ==
  /\ pc[c] = "readActive"
  /\ Goto(c, NextRead(pc[c]))
  /\ Remember(c, "active",
       {r \in Allocated : rows[r].vendor \in DOMAIN local[c].booked})
  /\ UNCHANGED lock
  /\ KeepData

ReadReleased(c) ==
  /\ pc[c] = "readReleased"
  /\ Goto(c, NextRead(pc[c]))
  /\ Remember(c, "released",
       {r \in Committed \ Allocated :
          /\ rows[r].wedding = request[c].wedding
          /\ rows[r].vendor \in DOMAIN local[c].booked})
  /\ UNCHANGED lock
  /\ KeepData

(* The entry of vendor v, from what the three reads returned.              *)
ViewOf(c, v) ==
  LET active == {r \in local[c].active : rows[r].vendor = v}
      lastReleased == {r \in local[c].released : rows[r].vendor = v}
  IN [state |-> IF active # {} THEN "ALLOCATED"
                ELSE IF lastReleased # {} THEN "RELEASED"
                ELSE "AVAILABLE",
      canRequest |-> active = {} /\ local[c].booked[v] = "ACCEPTED",
      canRelease |-> \E r \in active : rows[r].wedding = request[c].wedding]

Answer(c) ==
  LET booked == DOMAIN local[c].booked IN
  /\ pc[c] = "answer"
  /\ view' = [view EXCEPT ![c] = [v \in booked |-> ViewOf(c, v)]]
  /\ Goto(c, IF request[c].op = "list" \/ request[c].vendor \in booked
             THEN "ok" ELSE "notFound")
  /\ local' = [local EXCEPT ![c] = NoLocal]
  /\ UNCHANGED <<db, lock, request, server, freed, crashes>>

(* Any other statement of a call fails; what the call wrote before stays.  *)
StatementFails(c) ==
  /\ Failures
  /\ pc[c] \in {"findBooking", "findHeld", "findAny", "update"}
             \cup (Reading \ {"answer"})
  /\ Goto(c, "error")
  /\ UNCHANGED <<lock, local>>
  /\ KeepData

-----------------------------------------------------------------------------
(* A server dies and restarts with an empty lock.  Its calls are cut off;  *)
(* a transaction it left open is an orphan of the database, ...            *)
Crash(s) ==
  /\ crashes < MaxCrashes
  /\ crashes' = crashes + 1
  /\ pc' = [c \in Call |->
              IF server[c] = s /\ pc[c] = "inserted" THEN "orphan"
              ELSE IF server[c] = s /\ pc[c] \in Waiting THEN "cut"
              ELSE pc[c]]
  /\ Lock!Forget({s} \X Vendor)
  /\ UNCHANGED <<db, request, server, local, view, freed>>

(* ... which commits if its COMMIT was on the way and rolls back if not.   *)
EndOrphan(c) ==
  /\ pc[c] = "orphan"
  /\ Goto(c, "cut")
  /\ CommitRow(c) \/ UNCHANGED rows
  /\ UNCHANGED <<status, lock, request, server, local, view, freed, crashes>>

(* The customers and vendors of the other endpoints.                       *)
BookingStep == Ledger!Next /\ UNCHANGED <<rows, lock, callVars, crashes>>

Step(c) ==
  \/ FindBooking(c) \/ EnterCritical(c) \/ CheckFree(c) \/ Insert(c)
  \/ Commit(c) \/ LeaveCritical(c)
  \/ FindHeld(c) \/ FindAny(c) \/ Update(c)
  \/ ReadBookings(c) \/ ReadActive(c) \/ ReadReleased(c) \/ Answer(c)
  \/ EndOrphan(c)

Next ==
  \/ \E c \in Call :
       \/ \E r \in Request : Receive(c, r)
       \/ Step(c)
       \/ AbortTransaction(c) \/ StatementFails(c)
  \/ \E s \in Server : Crash(s)
  \/ BookingStep

Spec == Init /\ [][Next]_vars

(* The event loop resumes a call once its statement is answered, and the   *)
(* database answers and ends orphans.  Failures and crashes are not fair.  *)
FairSpec == Spec /\ \A c \in Call : WF_vars(Step(c))

-----------------------------------------------------------------------------
(* The shape of the state; a row belongs to the wedding and the vendor of  *)
(* its booking, three foreign keys that the database does not relate.      *)
Row == {row \in [wedding : Wedding, vendor : Vendor, booking : Booking,
                 status : {"ALLOCATED", "RELEASED"}] :
          row.booking = <<row.wedding, row.vendor>>}

ASSUME RowAssumption == NoRow \notin Row

(* A list with an entry for some of the vendors.                           *)
Entries(Entry) == UNION {[S -> Entry] : S \in SUBSET Vendor}
Local == [target : Call \cup {NoRow}, booked : Entries(Ledger!Status),
          active : SUBSET Call, released : SUBSET Call]
ResourceView == [state : {"AVAILABLE", "ALLOCATED", "RELEASED"},
                 canRequest : BOOLEAN, canRelease : BOOLEAN]

TypeOK ==
  /\ Ledger!TypeOK
  /\ Lock!TypeOK
  /\ rows \in [Call -> Row \cup {NoRow}]
  /\ pc \in [Call -> {"idle", "orphan"} \cup Waiting \cup Ended]
  /\ request \in [Call -> Request \cup {NoRequest}]
  /\ server \in [Call -> Server]
  /\ local \in [Call -> Local]
  /\ view \in [Call -> Entries(ResourceView)]
  /\ freed \in [Call -> Call \cup {NoRow}]
  /\ crashes \in 0..MaxCrashes

(* "Two concurrent requests for this resource cannot both observe it as    *)
(* free": a vendor has at most one ALLOCATED row, whatever the number of   *)
(* servers, and across crashes, orphans, failures and releases.            *)
OneHolder == \A v \in Vendor : Cardinality(AllocatedOf(v)) <= 1

(* The endpoints implement the ledger: every grant goes to a wedding whose *)
(* booking with that vendor is ACCEPTED at the commit, though it was read  *)
(* long before, and only a free vendor is granted.                         *)
Holders(v) == {<<r, rows[r].wedding>> : r \in AllocatedOf(v)}

Abstract == INSTANCE AllocationLedger
              WITH Allocation <- Call, holders <- [v \in Vendor |-> Holders(v)]
ImplementsLedger == Abstract!Spec

(* "A concurrent release cannot double-release": a RELEASED row has been   *)
(* released by exactly one call, of the wedding that held it.  And a       *)
(* release is told the truth: one that succeeded has released a row, one   *)
(* that was refused has not.  Only an error or a crash leaves the customer *)
(* in doubt: the update may have taken effect before it.                   *)
ReleasedOnce ==
  /\ \A r \in Committed :
       LET releasers == {c \in Call : freed[c] = r} IN
       /\ Cardinality(releasers) = IF rows[r].status = "RELEASED" THEN 1 ELSE 0
       /\ \A c \in releasers : request[c].wedding = rows[r].wedding
  /\ \A c \in Call : pc[c] \in Ended =>
       /\ (pc[c] = "ok" /\ request[c].op = "release") => freed[c] # NoRow
       /\ pc[c] \in {"badRequest", "notFound", "conflict"} => freed[c] = NoRow

(* The view that answers a successful request or release knows of it: the  *)
(* resource is ALLOCATED, or was RELEASED meanwhile, never AVAILABLE.  It  *)
(* holds because the active rows are read before the released ones.        *)
AnswerKnowsItsEffect ==
  \A c \in Call :
    (pc[c] = "ok" /\ request[c].op \in {"request", "release"}) =>
      view[c][request[c].vendor].state # "AVAILABLE"

(* A request that succeeded has its row, one that was refused has none.    *)
(* Only an error or a crash leaves the customer in doubt.                  *)
OutcomeIsTrue ==
  \A c \in Call : pc[c] \in Ended =>
    /\ (pc[c] = "ok" /\ request[c].op = "request") => rows[c] # NoRow
    /\ pc[c] \in {"badRequest", "notFound", "conflict"} => rows[c] = NoRow

(* No path through the service leaks the lock or keeps it too long: a call *)
(* is queued on its server's key exactly while it is in runExclusive, and  *)
(* only the first of the queue is in its critical section.                 *)
LockFollowsCalls ==
  \A c \in Call :
    /\ \A k \in LockKey :
         Lock!Queued(c, k) <=>
           pc[c] \in {"queued"} \cup Critical /\ Key(c) = k
    /\ c \in inside <=> pc[c] \in Critical
    /\ pc[c] \in Critical => Lock!IsFirst(c, Key(c))

(* Every call is answered (or cut off by a crash), and every orphaned      *)
(* transaction ends: no one waits for ever on the lock or on the index.    *)
EveryCallEnds == \A c \in Call : (pc[c] # "idle") ~> (pc[c] \in Ended)
=============================================================================
