-------------------------------- MODULE Seed --------------------------------
(***************************************************************************)
(* The seed script (src/backend/prisma/seed.ts) over the table of users    *)
(* that Accounts works on: one upsert after the other, by a fixed id.  It  *)
(* is run by hand, is run again, dies in the middle, and may run twice at  *)
(* once, while the server registers accounts.                              *)
(*                                                                         *)
(* A row is named by its table and the name that the script gives its id.  *)
(* Of a row the model keeps what a statement on it can fail on: the rows   *)
(* it references and the values that are unique.  No handler changes or    *)
(* deletes these rows: nobody can log in as their owners (ActsAsOneself).  *)
(***************************************************************************)
EXTENDS Accounts, Sequences

CONSTANTS Seeder,       \* runs of the script that may overlap
          MaxStarts,    \* bound: how often the script is started
          Seeded        \* bound: the names of the rows that are seeded

VARIABLES rows,         \* the seeded rows of the other tables
          at,           \* the upsert that each run has come to
          phase,        \* what it awaits there, or how it ended
          alone,        \* history: no other run overlapped this one
          starts

seedVars == <<rows, at, phase, alone, starts>>
vars == <<accountVars, seedVars>>

-----------------------------------------------------------------------------
(* What the script writes, table by table, in its order.                   *)
Row(table, name, refs, unique) ==
  [table |-> table, id |-> name, refs |-> refs, unique |-> unique,
   role |-> "none"]

SeedUser(name, role) ==
  [table |-> "user", id |-> name, refs |-> {}, unique |-> <<name>>, role |-> role]
(* The dev address of a seeded user, spelled in lower case.                *)
DevEmail(name) == name

USERS == <<SeedUser("customer", "CUSTOMER"), SeedUser("vendor1", "VENDOR"),
           SeedUser("vendor2", "VENDOR"), SeedUser("vendor3", "VENDOR"),
           SeedUser("vendor4", "VENDOR"), SeedUser("vendor5", "VENDOR"),
           SeedUser("admin", "ADMIN")>>

(* VendorProfile.userId is unique.                                         *)
Profile(name, userId) == Row("profile", name, {<<"user", userId>>}, <<userId>>)
VENDOR_PROFILES ==
  <<Profile("photography", "vendor1"), Profile("venue", "vendor2"),
    Profile("catering", "vendor3"), Profile("music", "vendor4"),
    Profile("mehendi", "vendor5")>>

(* Wedding.customerId is unique.                                           *)
WEDDING == <<Row("wedding", "wedding", {<<"user", "customer">>}, <<"customer">>)>>

OfWedding(table, name) ==
  Row(table, name, {<<"wedding", "wedding">>}, <<name>>)
GUESTS == <<OfWedding("guest", "g1"), OfWedding("guest", "g2"),
            OfWedding("guest", "g3"), OfWedding("guest", "g4"),
            OfWedding("guest", "g5")>>
EVENTS == <<OfWedding("event", "e1"), OfWedding("event", "e2"),
            OfWedding("event", "e3")>>
EXPENSES == <<OfWedding("expense", "ex1"), OfWedding("expense", "ex2"),
              OfWedding("expense", "ex3"), OfWedding("expense", "ex4")>>
TASKS == <<OfWedding("task", "t1"), OfWedding("task", "t2"),
           OfWedding("task", "t3"), OfWedding("task", "t4")>>

(* A wedding has one booking with a vendor.                                *)
Booking(name, vendor) ==
  Row("booking", name, {<<"wedding", "wedding">>, <<"profile", vendor>>},
      <<"wedding", vendor>>)
BOOKINGS == <<Booking("b1", "photography"), Booking("b2", "venue"),
              Booking("b3", "mehendi")>>

SeedList == USERS \o VENDOR_PROFILES \o WEDDING \o GUESTS \o EVENTS
              \o EXPENSES \o TASKS \o BOOKINGS

-----------------------------------------------------------------------------
(* The upserts that are made.                                              *)
Steps == {j \in DOMAIN SeedList : SeedList[j].id \in Seeded}
SeededRow == {SeedList[j] : j \in Steps}

(* The seeded users have ids that nobody generates and addresses in lower  *)
(* case; a row that is kept references rows that are kept, and the script  *)
(* writes those before it.                                                 *)
ASSUME SeedAssumption ==
  /\ MaxStarts \in Nat
  /\ \A i \in DOMAIN USERS :
       /\ USERS[i].id \in UserId \ FreshId
       /\ DevEmail(USERS[i].id) \in Address
       /\ Lower[DevEmail(USERS[i].id)] = DevEmail(USERS[i].id)
  /\ \A i \in Steps : \A ref \in SeedList[i].refs :
       \E j \in Steps : j < i /\ <<SeedList[j].table, SeedList[j].id>> = ref

IsUser(row) == row.table = "user"

(* The upsert finds its row by id.  The mutants find users by email, and   *)
(* nothing: a plain create.                                                *)
FoundNever(row) == FALSE
FoundByUnique(row) ==
  IF IsUser(row) THEN Holders(DevEmail(row.id)) # {}
  ELSE row \in rows
Found(row) == IF IsUser(row) THEN Taken(row.id) ELSE row \in rows

(* The unique columns of another row hold what this row would have.        *)
Duplicate(row) ==
  IF IsUser(row) THEN Taken(row.id) \/ Holders(DevEmail(row.id)) # {}
  ELSE \E other \in rows : other.table = row.table /\ other.unique = row.unique

(* The foreign keys hold; the rows they name may be users.                 *)
Rooted(row) ==
  \A ref \in row.refs :
    IF ref[1] = "user" THEN Taken(ref[2])
    ELSE \E other \in rows : <<other.table, other.id>> = ref

SeededUser(row) == [email |-> DevEmail(row.id), passwordHash |-> Placeholder,
                    role |-> row.role]

Write(row) ==
  IF IsUser(row)
  THEN users' = [users EXCEPT ![row.id] = SeededUser(row)] /\ UNCHANGED rows
  ELSE rows' = rows \cup {row} /\ UNCHANGED users

Running(s) == phase[s] \in {"find", "create"}

SeedInit ==
  /\ rows = {}
  /\ at = [s \in Seeder |-> 0]
  /\ phase = [s \in Seeder |-> "off"]
  /\ alone = [s \in Seeder |-> TRUE]
  /\ starts = 0

(* On to the next upsert, or to "Seeding complete".                        *)
Ahead(s) == {j \in Steps : j > at[s]}
Stop(s, how) == phase' = [phase EXCEPT ![s] = how] /\ at' = [at EXCEPT ![s] = 0]
Advance(s) ==
  \/ Ahead(s) = {} /\ Stop(s, "done")
  \/ \E j \in Ahead(s) :
       /\ \A k \in Ahead(s) : j <= k
       /\ at' = [at EXCEPT ![s] = j]
       /\ phase' = [phase EXCEPT ![s] = "find"]

(* npx prisma db seed, for the first time or again.                        *)
Start(s) ==
  /\ ~Running(s)
  /\ starts < MaxStarts
  /\ starts' = starts + 1
  /\ LET others == {r \in Seeder \ {s} : Running(r)} IN
     alone' = [r \in Seeder |-> IF r = s THEN others = {}
                                ELSE alone[r] /\ r \notin others]
  /\ Advance(s)
  /\ UNCHANGED <<accountVars, rows>>

(* An upsert looks for its row, which it leaves as it is (update: {}) ...  *)
FindRow(s) ==
  /\ phase[s] = "find"
  /\ IF Found(SeedList[at[s]])
     THEN Advance(s)
     ELSE phase' = [phase EXCEPT ![s] = "create"] /\ UNCHANGED at
  /\ UNCHANGED <<accountVars, rows, alone, starts>>

(* ... or inserts it.  A duplicate or a missing reference throws, main()   *)
(* rejects and the process exits; what it wrote before stays.              *)
InsertRow(s) ==
  LET row == SeedList[at[s]] IN
  /\ phase[s] = "create"
  /\ IF Duplicate(row) \/ ~Rooted(row)
     THEN Stop(s, "failed") /\ UNCHANGED <<users, rows>>
     ELSE Advance(s) /\ Write(row)
  /\ UNCHANGED <<pc, call, read, token, alone, starts>>

(* The script is interrupted between two statements.                       *)
Interrupt(s) ==
  /\ Running(s)
  /\ Stop(s, "off")
  /\ UNCHANGED <<accountVars, rows, alone, starts>>

Init == AccountsInit /\ SeedInit

Next ==
  \/ AccountsNext /\ UNCHANGED seedVars
  \/ \E s \in Seeder : Start(s) \/ FindRow(s) \/ InsertRow(s) \/ Interrupt(s)

Spec == Init /\ [][Next]_vars

-----------------------------------------------------------------------------
(* The shape of the state; what is seeded is what the script lists.        *)
TypeOK ==
  /\ AccountsTypeOK
  /\ rows \subseteq SeededRow
  /\ at \in [Seeder -> 0..Len(SeedList)]
  /\ phase \in [Seeder -> {"off", "find", "create", "done", "failed"}]
  /\ alone \in [Seeder -> BOOLEAN]
  /\ starts \in 0..MaxStarts

(* "Safe to run multiple times": when a run ends with "Seeding complete",  *)
(* every row of the script is there, the users under their own ids, roles  *)
(* and addresses, whatever runs were interrupted, failed or overlapped.    *)
Written(row) ==
  IF IsUser(row) THEN users[row.id] = SeededUser(row) ELSE row \in rows
Complete == \A row \in SeededRow : Written(row)

DoneMeansComplete == \A s \in Seeder : phase[s] = "done" => Complete

(* A run fails only where it must: someone registered the dev address of   *)
(* the user it was to create, or another run created the same row between  *)
(* its two statements.  So a run that is alone, after any number of        *)
(* interrupted ones, fails over nothing that they left.                    *)
FailsForAReason ==
  [][\A s \in Seeder : (phase[s] = "create" /\ phase'[s] = "failed") =>
       LET row == SeedList[at[s]] IN
       \/ IsUser(row) /\ Holders(DevEmail(row.id)) \cap FreshId # {}
       \/ Found(row) /\ ~alone[s]]_vars
=============================================================================
