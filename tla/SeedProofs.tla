----------------------------- MODULE SeedProofs -----------------------------
(***************************************************************************)
(* The properties of Seed and Accounts, for any numbers of clients, runs   *)
(* of the script, addresses and passwords.  The argument: a user, once     *)
(* created, never changes (Adds), so what a token, a call or a run of the  *)
(* script knows of one stays true; addresses are stored in lower case and  *)
(* are unique; and what lies behind a run of the script is complete.       *)
(***************************************************************************)
EXTENDS Seed, TLAPS

UserRows == {SeedUser("customer", "CUSTOMER"), SeedUser("vendor1", "VENDOR"),
             SeedUser("vendor2", "VENDOR"), SeedUser("vendor3", "VENDOR"),
             SeedUser("vendor4", "VENDOR"), SeedUser("vendor5", "VENDOR"),
             SeedUser("admin", "ADMIN")}
WeddingTables == {"guest", "event", "expense", "task"}
Names == {"g1", "g2", "g3", "g4", "g5", "e1", "e2", "e3",
          "ex1", "ex2", "ex3", "ex4", "t1", "t2", "t3", "t4"}
OfWeddingRows == {OfWedding(table, name) : table \in WeddingTables, name \in Names}
ProfileRows == {Profile("photography", "vendor1"), Profile("venue", "vendor2"),
                Profile("catering", "vendor3"), Profile("music", "vendor4"),
                Profile("mehendi", "vendor5")}
BookingRows == {Booking("b1", "photography"), Booking("b2", "venue"),
                Booking("b3", "mehendi")}
WeddingRows == {Row("wedding", "wedding", {<<"user", "customer">>}, <<"customer">>)}
OtherRows == OfWeddingRows \cup ProfileRows \cup BookingRows \cup WeddingRows

(* What the script is made of.                                             *)
LEMMA UsersListed == USERS \in Seq(UserRows)
  BY DEF USERS, UserRows

LEMMA OthersListed ==
  /\ VENDOR_PROFILES \in Seq(OtherRows) /\ WEDDING \in Seq(OtherRows)
  /\ GUESTS \in Seq(OtherRows) /\ EVENTS \in Seq(OtherRows)
  /\ EXPENSES \in Seq(OtherRows) /\ TASKS \in Seq(OtherRows)
  /\ BOOKINGS \in Seq(OtherRows)
  <1>1. \A table \in WeddingTables, name \in Names :
          OfWedding(table, name) \in OtherRows
    BY DEF OtherRows, OfWeddingRows
  <1>2. /\ \A r \in ProfileRows : r \in OtherRows
        /\ \A r \in BookingRows : r \in OtherRows
        /\ \A r \in WeddingRows : r \in OtherRows
    BY DEF OtherRows
  <1>3. VENDOR_PROFILES \in Seq(OtherRows)
    BY <1>2 DEF VENDOR_PROFILES, ProfileRows
  <1>4. WEDDING \in Seq(OtherRows)
    BY <1>2 DEF WEDDING, WeddingRows
  <1>5. BOOKINGS \in Seq(OtherRows)
    BY <1>2 DEF BOOKINGS, BookingRows
  <1>6. GUESTS \in Seq(OtherRows)
    <2>1. /\ OfWedding("guest", "g1") \in OtherRows
          /\ OfWedding("guest", "g2") \in OtherRows
          /\ OfWedding("guest", "g3") \in OtherRows
          /\ OfWedding("guest", "g4") \in OtherRows
          /\ OfWedding("guest", "g5") \in OtherRows
      BY <1>1 DEF WeddingTables, Names
    <2>2. QED
      BY <2>1 DEF GUESTS
  <1>7. EVENTS \in Seq(OtherRows)
    <2>1. /\ OfWedding("event", "e1") \in OtherRows
          /\ OfWedding("event", "e2") \in OtherRows
          /\ OfWedding("event", "e3") \in OtherRows
      BY <1>1 DEF WeddingTables, Names
    <2>2. QED
      BY <2>1 DEF EVENTS
  <1>8. EXPENSES \in Seq(OtherRows)
    <2>1. /\ OfWedding("expense", "ex1") \in OtherRows
          /\ OfWedding("expense", "ex2") \in OtherRows
          /\ OfWedding("expense", "ex3") \in OtherRows
          /\ OfWedding("expense", "ex4") \in OtherRows
      BY <1>1 DEF WeddingTables, Names
    <2>2. QED
      BY <2>1 DEF EXPENSES
  <1>9. TASKS \in Seq(OtherRows)
    <2>1. /\ OfWedding("task", "t1") \in OtherRows
          /\ OfWedding("task", "t2") \in OtherRows
          /\ OfWedding("task", "t3") \in OtherRows
          /\ OfWedding("task", "t4") \in OtherRows
      BY <1>1 DEF WeddingTables, Names
    <2>2. QED
      BY <2>1 DEF TASKS
  <1>10. QED
    BY <1>3, <1>4, <1>5, <1>6, <1>7, <1>8, <1>9

LEMMA Listed ==
  /\ SeedList \in Seq(UserRows \cup OtherRows)
  /\ \A i \in DOMAIN SeedList : SeedList[i] \in UserRows \cup OtherRows
  /\ DOMAIN SeedList \subseteq Nat \ {0}
  /\ \A r \in UserRows : \E i \in DOMAIN USERS : r = USERS[i]
  <1> DEFINE R == UserRows \cup OtherRows
  <1>1. \A s \in Seq(UserRows) : s \in Seq(R)
    OBVIOUS
  <1>2. \A s \in Seq(OtherRows) : s \in Seq(R)
    OBVIOUS
  <1>3. \A s, t \in Seq(R) : s \o t \in Seq(R)
    OBVIOUS
  <1>4. SeedList \in Seq(R)
    <2> HIDE DEF R
    <2>1. /\ USERS \in Seq(R) /\ VENDOR_PROFILES \in Seq(R) /\ WEDDING \in Seq(R)
          /\ GUESTS \in Seq(R) /\ EVENTS \in Seq(R) /\ EXPENSES \in Seq(R)
          /\ TASKS \in Seq(R) /\ BOOKINGS \in Seq(R)
      BY <1>1, <1>2, UsersListed, OthersListed
    <2>2. QED
      BY <1>3, <2>1 DEF SeedList
  <1>5. \A r \in UserRows : \E i \in DOMAIN USERS : r = USERS[i]
    <2>1. DOMAIN USERS = 1..7
      BY DEF USERS
    <2>2. \A r \in UserRows : \E i \in 1..7 : r = USERS[i]
      BY DEF USERS, UserRows
    <2>3. QED
      BY <2>1, <2>2
  <1>6. \A i \in DOMAIN SeedList : SeedList[i] \in R /\ i \in Nat \ {0}
    BY <1>4
  <1>7. QED
    BY <1>4, <1>5, <1>6

(* Users and other rows are told apart by their tables.                    *)
LEMMA UserRowFacts ==
  ASSUME NEW row \in UserRows
  PROVE  /\ IsUser(row) /\ row.refs = {}
         /\ row.id \in UserId \ FreshId
         /\ row.id \in Address /\ Lower[row.id] = row.id
         /\ row.role \in UserRole
  <1>1. PICK i \in DOMAIN USERS : row = USERS[i]
    BY Listed
  <1>2. /\ row.id \in UserId \ FreshId
        /\ row.id \in Address /\ Lower[row.id] = row.id
    BY <1>1, SeedAssumption DEF DevEmail
  <1>3. IsUser(row) /\ row.refs = {} /\ row.role \in UserRole
    BY DEF UserRows, SeedUser, IsUser, UserRole
  <1>4. QED
    BY <1>2, <1>3

LEMMA OtherRowFacts ==
  ASSUME NEW row \in OtherRows
  PROVE  /\ ~IsUser(row)
         /\ row \in OfWeddingRows => row.table \in WeddingTables
         /\ row \in ProfileRows => row.table = "profile"
         /\ row \in BookingRows => row.table = "booking"
         /\ row \in WeddingRows => row.table = "wedding"
  <1>1. row \in OfWeddingRows => row.table \in WeddingTables
    BY DEF OfWeddingRows, OfWedding, Row
  <1>2. row \in ProfileRows => row.table = "profile"
    BY DEF ProfileRows, Profile, Row
  <1>3. row \in BookingRows => row.table = "booking"
    BY DEF BookingRows, Booking, Row
  <1>4. row \in WeddingRows => row.table = "wedding"
    BY DEF WeddingRows, Row
  <1>5. QED
    BY <1>1, <1>2, <1>3, <1>4 DEF OtherRows, IsUser, WeddingTables

LEMMA UserIdsDiffer ==
  ASSUME NEW r \in UserRows, NEW s \in UserRows, r.id = s.id
  PROVE  r = s
  BY DEF UserRows, SeedUser

LEMMA UniqueColumnsDiffer ==
  ASSUME NEW r \in OtherRows, NEW s \in OtherRows,
         r.table = s.table, r.unique = s.unique
  PROVE  r = s
  <1>1. CASE r \in OfWeddingRows
    <2>1. s \in OfWeddingRows
      BY <1>1, OtherRowFacts DEF OtherRows, WeddingTables
    <2>2. PICK table \in WeddingTables, name \in Names :
            r = OfWedding(table, name)
      BY <1>1 DEF OfWeddingRows
    <2>3. PICK other \in WeddingTables, called \in Names :
            s = OfWedding(other, called)
      BY <2>1 DEF OfWeddingRows
    <2>4. table = other /\ name = called
      BY <2>2, <2>3 DEF OfWedding, Row
    <2>5. QED
      BY <2>2, <2>3, <2>4
  <1>2. CASE r \in ProfileRows
    <2>1. s \in ProfileRows
      BY <1>2, OtherRowFacts DEF OtherRows, WeddingTables
    <2>2. QED
      BY <1>2, <2>1 DEF ProfileRows, Profile, Row
  <1>3. CASE r \in BookingRows
    <2>1. s \in BookingRows
      BY <1>3, OtherRowFacts DEF OtherRows, WeddingTables
    <2>2. QED
      BY <1>3, <2>1 DEF BookingRows, Booking, Row
  <1>4. CASE r \in WeddingRows
    <2>1. s \in WeddingRows
      BY <1>4, OtherRowFacts DEF OtherRows, WeddingTables
    <2>2. QED
      BY <1>4, <2>1 DEF WeddingRows
  <1>5. QED
    BY <1>1, <1>2, <1>3, <1>4 DEF OtherRows

-----------------------------------------------------------------------------
(* A user of an address that nobody has is added, by a registration or by  *)
(* the script.                                                             *)
ByScript(i, u) == \E row \in UserRows : i = row.id /\ u = SeededUser(row)
Proper(i, u) ==
  /\ Lower[u.email] = u.email
  /\ u.role = "ADMIN" => u.passwordHash = Placeholder
  /\ i \in FreshId \/ ByScript(i, u)

Adds(i, u) ==
  /\ ~Taken(i)
  /\ Holders(u.email) = {}
  /\ Proper(i, u)
  /\ users' = [users EXCEPT ![i] = u]

UsersInv ==
  /\ \A i \in UserId : Taken(i) => Proper(i, users[i])
  /\ \A i, j \in UserId :
       (Taken(i) /\ Taken(j) /\ users[i].email = users[j].email) => i = j

(* What a client's token and the next statement of its call rest on.       *)
TokenFits(c) ==
  token[c] # NoToken =>
    Taken(token[c].sub) /\ users[token[c].sub].passwordHash = token[c].password

CallFits(c) ==
  /\ pc[c] \in Waiting => call[c] \in Call
  /\ pc[c] \in {"findEmail", "createUser"} =>
       call[c].op = "register" /\ call[c].role # "ADMIN"
  /\ pc[c] \in {"findLogin", "compare"} => call[c].op = "login"
  /\ pc[c] = "compare" =>
       /\ read[c] \in UserId /\ Taken(read[c])
       /\ users[read[c]].email = Lower[call[c].email]
  /\ pc[c] \in {"validate", "handler"} =>
       /\ call[c].op = "visit"
       /\ read[c] \in UserId /\ Taken(read[c])
       /\ users[read[c]].role # "ADMIN"
  /\ pc[c] = "handler" => canActivate(call[c].route, users[read[c]].role)

(* What a run of the script rests on.                                      *)
Behind(s) == \A j \in Steps : j < at[s] => Written(SeedList[j])

RunFits(s) ==
  /\ Running(s) => at[s] \in Steps /\ Behind(s)
  /\ ~Running(s) => at[s] = 0
  /\ phase[s] = "done" => Complete
  /\ (Running(s) /\ alone[s]) => \A r \in Seeder \ {s} : ~Running(r)
  /\ (phase[s] = "create" /\ alone[s]) => ~Found(SeedList[at[s]])

IInv ==
  /\ TypeOK
  /\ UsersInv
  /\ \A c \in Client : TokenFits(c) /\ CallFits(c)
  /\ \A s \in Seeder : RunFits(s)

-----------------------------------------------------------------------------
(* What the calls carry.                                                   *)
LEMMA CallFacts ==
  ASSUME NEW k \in Call
  PROVE  /\ k.op \in {"register", "login", "visit"}
         /\ k.op \in {"register", "login"} =>
              k.email \in Address /\ k.password \in Password
         /\ k.op = "register" => k.role \in UserRole
         /\ k.op = "visit" => k.route \in Route
  BY BoundsAssumption DEF Call

LEMMA LabelsDiffer == Waiting \cap Ended = {}
  BY DEF Waiting, Ended

(* A row of the script.                                                    *)
LEMMA StepRow ==
  ASSUME NEW j \in Steps
  PROVE  /\ j \in Nat \ {0} /\ j \in 0..Len(SeedList)
         /\ SeedList[j] \in UserRows \cup OtherRows
         /\ SeedList[j] \in SeededRow
         /\ IsUser(SeedList[j]) => SeedList[j] \in UserRows
         /\ ~IsUser(SeedList[j]) => SeedList[j] \in OtherRows
  <1>1. j \in DOMAIN SeedList
    BY DEF Steps
  <1>2. SeedList[j] \in UserRows \cup OtherRows /\ j \in Nat \ {0}
    BY <1>1, Listed
  <1>3. j \in 0..Len(SeedList)
    BY <1>1, <1>2, Listed
  <1>4. SeedList[j] \in SeededRow
    BY DEF SeededRow
  <1>5. QED
    BY <1>2, <1>3, <1>4, UserRowFacts, OtherRowFacts

-----------------------------------------------------------------------------
(* Users that are there stay as they are.                                  *)
Grown == \A i \in UserId : Taken(i) => users'[i] = users[i]
UsersKept ==
  /\ users' \in [UserId -> User \cup {NoUser}]
  /\ Grown
  /\ UsersInv'

LEMMA UsersStay ==
  ASSUME IInv, UNCHANGED users
  PROVE  UsersKept
  BY DEF IInv, TypeOK, AccountsTypeOK, UsersKept, Grown, UsersInv, Taken,
     Proper, ByScript, SeededUser

LEMMA UsersGrow ==
  ASSUME IInv, NEW i \in UserId, NEW u \in User, Adds(i, u)
  PROVE  /\ UsersKept
         /\ Taken(i)' /\ users'[i] = u
         /\ \A j \in UserId \ {i} : users'[j] = users[j]
  <1>1. /\ users' \in [UserId -> User \cup {NoUser}]
        /\ users'[i] = u /\ u # NoUser
        /\ \A j \in UserId \ {i} : users'[j] = users[j]
    BY NothingAssumption DEF IInv, TypeOK, AccountsTypeOK, Adds
  <1>2. Grown
    BY <1>1 DEF Grown, Adds
  <1>3. \A j \in UserId : Taken(j)' => Proper(j, users[j])'
    <2> SUFFICES ASSUME NEW j \in UserId, Taken(j)'
                 PROVE  Proper(j, users[j])'
      OBVIOUS
    <2>1. CASE j = i
      BY <1>1, <2>1 DEF Adds, Proper, ByScript, SeededUser
    <2>2. CASE j # i
      <3>1. users'[j] = users[j] /\ Taken(j)
        BY <1>1, <2>2 DEF Taken
      <3>2. Proper(j, users[j])
        BY <3>1 DEF IInv, UsersInv
      <3>3. QED
        BY <3>1, <3>2 DEF Proper, ByScript, SeededUser
    <2>3. QED
      BY <2>1, <2>2
  <1>4. \A j, k \in UserId :
          (Taken(j)' /\ Taken(k)' /\ users'[j].email = users'[k].email) => j = k
    <2> SUFFICES ASSUME NEW j \in UserId, NEW k \in UserId, Taken(j)', Taken(k)',
                        users'[j].email = users'[k].email, j # k
                 PROVE  FALSE
      OBVIOUS
    <2>1. \A x \in UserId \ {i} : Taken(x)' => Taken(x) /\ users[x].email # u.email
      BY <1>1 DEF Taken, Adds, Holders
    <2>2. QED
      BY <1>1, <2>1 DEF IInv, UsersInv
  <1>5. QED
    BY <1>1, <1>2, <1>3, <1>4 DEF UsersKept, UsersInv, Taken

(* A client whose call and token stay as they are.                         *)
SameFor(d) == /\ pc'[d] = pc[d] /\ call'[d] = call[d]
              /\ read'[d] = read[d] /\ token'[d] = token[d]

LEMMA TokenStays ==
  ASSUME IInv, UsersKept, NEW d \in Client, token'[d] = token[d]
  PROVE  TokenFits(d)'
  <1> SUFFICES ASSUME token[d] # NoToken
               PROVE  /\ Taken(token[d].sub)'
                      /\ users'[token'[d].sub].passwordHash = token'[d].password
    BY DEF TokenFits
  <1>1. token[d].sub \in UserId
    BY DEF IInv, TypeOK, AccountsTypeOK, Token
  <1>2. QED
    BY <1>1 DEF IInv, UsersKept, Grown, TokenFits, Taken

LEMMA CallStays ==
  ASSUME IInv, UsersKept, NEW d \in Client,
         pc'[d] = pc[d], call'[d] = call[d], read'[d] = read[d]
  PROVE  CallFits(d)'
  <1>1. (read[d] \in UserId /\ Taken(read[d])) =>
          users'[read[d]] = users[read[d]] /\ users'[read'[d]] # NoUser
    BY DEF UsersKept, Grown, Taken
  <1>2. CallFits(d)
    BY DEF IInv
  <1>3. QED
    BY <1>1, <1>2 DEF CallFits, Taken, canActivate, RequiredRoles

(* The runs of the script stand where they stood.                          *)
LEMMA RunsStay ==
  ASSUME IInv, UsersKept, UNCHANGED seedVars,
         \A row \in UserRows : users'[row.id] = users[row.id]
  PROVE  \A s \in Seeder : RunFits(s)'
  <1> SUFFICES ASSUME NEW s \in Seeder
               PROVE  RunFits(s)'
    OBVIOUS
  <1>1. \A j \in Steps : /\ Written(SeedList[j]) => Written(SeedList[j])'
                         /\ Found(SeedList[j])' => Found(SeedList[j])
    BY StepRow DEF seedVars, Written, Found, Taken, SeededUser
  <1>2. Complete => Complete'
    BY <1>1 DEF Complete, SeededRow
  <1>3. /\ phase' = phase /\ at' = at /\ alone' = alone
    BY DEF seedVars
  <1>4. QED
    BY <1>1, <1>2, <1>3 DEF IInv, RunFits, Running, Behind

LEMMA SeedTypesStay ==
  ASSUME IInv, UNCHANGED seedVars, AccountsTypeOK'
  PROVE  TypeOK'
  BY DEF IInv, TypeOK, seedVars

(* A step of a client, after which its token and its call are fit.         *)
LEMMA ClientHolds ==
  ASSUME IInv, NEW c \in Client, AccountsTypeOK', UsersKept, UNCHANGED seedVars,
         \A row \in UserRows : users'[row.id] = users[row.id],
         \A d \in Client \ {c} : SameFor(d),
         TokenFits(c)', CallFits(c)'
  PROVE  IInv'
  <1>1. TypeOK'
    BY SeedTypesStay
  <1>2. \A d \in Client : (TokenFits(d) /\ CallFits(d))'
    BY TokenStays, CallStays DEF SameFor
  <1>3. \A s \in Seeder : RunFits(s)'
    BY RunsStay
  <1>4. QED
    BY <1>1, <1>2, <1>3 DEF IInv, UsersKept

(* A call moves on to another statement, or ends and forgets.              *)
LEMMA GotoTypes ==
  ASSUME AccountsTypeOK, NEW c \in Client, NEW label \in Waiting \cup Ended,
         Goto(c, label)
  PROVE  /\ pc' \in [Client -> Waiting \cup Ended]
         /\ call' \in [Client -> Call \cup {NoCall}]
         /\ read' \in [Client -> UserId \cup {NoUser}]
         /\ pc'[c] = label
         /\ \A d \in Client \ {c} : /\ pc'[d] = pc[d] /\ call'[d] = call[d]
                                    /\ read'[d] = read[d]
         /\ label \notin Ended => call' = call /\ read' = read
  <1>1. /\ pc' \in [Client -> Waiting \cup Ended]
        /\ pc'[c] = label
        /\ \A d \in Client \ {c} : pc'[d] = pc[d]
    BY DEF AccountsTypeOK, Goto
  <1>2. /\ call' \in [Client -> Call \cup {NoCall}]
        /\ \A d \in Client \ {c} : call'[d] = call[d]
    BY DEF AccountsTypeOK, Goto
  <1>3. /\ read' \in [Client -> UserId \cup {NoUser}]
        /\ \A d \in Client \ {c} : read'[d] = read[d]
    BY DEF AccountsTypeOK, Goto
  <1>4. QED
    BY <1>1, <1>2, <1>3 DEF Goto

(* A call that has ended needs nothing.                                    *)
LEMMA EndedFits ==
  ASSUME NEW c \in Client, pc'[c] \in Ended
  PROVE  CallFits(c)'
  BY DEF CallFits, Waiting, Ended

(* A call that moves, and does nothing else.                               *)
LEMMA MoveHolds ==
  ASSUME IInv, NEW c \in Client, NEW label \in Waiting \cup Ended,
         Goto(c, label), UNCHANGED <<users, token, seedVars>>, CallFits(c)'
  PROVE  IInv'
  <1>1. AccountsTypeOK'
    BY GotoTypes DEF IInv, TypeOK, AccountsTypeOK
  <1>2. \A d \in Client \ {c} : SameFor(d)
    BY GotoTypes DEF IInv, TypeOK, SameFor
  <1>3. UsersKept
    BY UsersStay
  <1>4. TokenFits(c)'
    BY <1>3, TokenStays
  <1>5. QED
    BY <1>1, <1>2, <1>3, <1>4, ClientHolds

LEMMA InitHolds == Init => IInv
  <1> SUFFICES ASSUME Init
               PROVE  IInv
    OBVIOUS
  <1>1. TypeOK
    BY SeedAssumption DEF Init, AccountsInit, SeedInit, TypeOK, AccountsTypeOK,
       Ended
  <1>2. UsersInv
    BY DEF Init, AccountsInit, UsersInv, Taken
  <1>3. \A c \in Client : TokenFits(c) /\ CallFits(c)
    BY DEF Init, AccountsInit, TokenFits, CallFits, Waiting
  <1>4. \A s \in Seeder : RunFits(s)
    BY DEF Init, SeedInit, RunFits, Running
  <1>5. QED
    BY <1>1, <1>2, <1>3, <1>4 DEF IInv

LEMMA ReceiveHolds ==
  ASSUME IInv, NEW c \in Client, NEW k \in Call, Receive(c, k), UNCHANGED seedVars
  PROVE  IInv'
  <1> DEFINE label == CASE k.op = "register" -> "findEmail"
                        [] k.op = "login"    -> "findLogin"
                        [] k.op = "visit"    -> "validate"
             known == IF k.op = "visit" THEN [read EXCEPT ![c] = token[c].sub]
                                        ELSE read
  <1>1. UNCHANGED <<users, token>> /\ UsersKept
    BY UsersStay DEF Receive
  <1>2. TokenFits(c)'
    BY <1>1, TokenStays
  <1>3. CASE RefusedAtOnce(c, k)
    <2>1. pc' = [pc EXCEPT ![c] = "unauthorized"] /\ UNCHANGED <<call, read>>
      BY <1>3 DEF Receive
    <2>2. AccountsTypeOK' /\ pc'[c] \in Ended
      BY <1>1, <2>1 DEF IInv, TypeOK, AccountsTypeOK, Ended
    <2>3. \A d \in Client \ {c} : SameFor(d)
      BY <1>1, <2>1 DEF IInv, TypeOK, AccountsTypeOK, SameFor
    <2>4. QED
      BY <1>1, <1>2, <2>2, <2>3, EndedFits, ClientHolds
  <1>4. CASE ~RefusedAtOnce(c, k)
    <2>1. /\ label \in {"findEmail", "findLogin", "validate"}
          /\ label = "findEmail" => k.op = "register" /\ k.role # "ADMIN"
          /\ label = "findLogin" => k.op = "login"
          /\ label = "validate" => k.op = "visit" /\ token[c] # NoToken
      BY <1>4, CallFacts DEF RefusedAtOnce
    <2>2. /\ pc' = [pc EXCEPT ![c] = label]
          /\ call' = [call EXCEPT ![c] = k]
          /\ read' = known
      BY <1>4 DEF Receive
    <2>3. k.op = "visit" =>
            /\ label = "validate"
            /\ token[c].sub \in UserId /\ Taken(token[c].sub)
            /\ users[token[c].sub].role # "ADMIN"
      <3> SUFFICES ASSUME k.op = "visit"
                   PROVE  /\ label = "validate"
                          /\ token[c].sub \in UserId /\ Taken(token[c].sub)
                          /\ users[token[c].sub].role # "ADMIN"
        OBVIOUS
      <3>1. label = "validate" /\ token[c] # NoToken
        BY <1>4 DEF RefusedAtOnce
      <3>2. token[c] \in Token /\ TokenFits(c)
        BY <3>1 DEF IInv, TypeOK, AccountsTypeOK
      <3>3. /\ token[c].sub \in UserId /\ Taken(token[c].sub)
            /\ users[token[c].sub].passwordHash \in Password
        BY <3>1, <3>2 DEF Token, TokenFits
      <3>4. users[token[c].sub].role # "ADMIN"
        BY <3>3, NothingAssumption DEF IInv, UsersInv, Proper
      <3>5. QED
        BY <3>1, <3>3, <3>4
    <2>4. /\ read' \in [Client -> UserId \cup {NoUser}]
          /\ k.op = "visit" => read'[c] = token[c].sub
          /\ \A d \in Client \ {c} : read'[d] = read[d]
      BY <2>2, <2>3 DEF IInv, TypeOK, AccountsTypeOK
    <2> HIDE DEF label, known
    <2>5. AccountsTypeOK'
      BY <1>1, <2>1, <2>2, <2>4 DEF IInv, TypeOK, AccountsTypeOK, Waiting
    <2>6. pc'[c] = label /\ call'[c] = k
      BY <2>2 DEF IInv, TypeOK, AccountsTypeOK
    <2>7. \A d \in Client \ {c} : SameFor(d)
      BY <1>1, <2>2, <2>4 DEF IInv, TypeOK, AccountsTypeOK, SameFor
    <2>8. CallFits(c)'
      BY <1>1, <2>1, <2>3, <2>4, <2>6 DEF CallFits, Taken
    <2>9. QED
      BY <1>1, <1>2, <2>5, <2>7, <2>8, ClientHolds
  <1>5. QED
    BY <1>3, <1>4

LEMMA FindEmailHolds ==
  ASSUME IInv, NEW c \in Client, FindEmail(c), UNCHANGED seedVars
  PROVE  IInv'
  <1>1. PICK label \in {"createUser", "conflict"} :
          Goto(c, label) /\ UNCHANGED <<users, token>>
    BY DEF FindEmail
  <1>2. label \in Waiting \cup Ended /\ (label = "conflict" => label \in Ended)
        /\ (label = "createUser" => label \notin Ended)
    BY DEF Waiting, Ended
  <1>3. CASE label = "conflict"
    BY <1>1, <1>2, <1>3, GotoTypes, EndedFits, MoveHolds DEF IInv, TypeOK
  <1>4. CASE label = "createUser"
    <2>1. pc'[c] = "createUser" /\ call' = call
      BY <1>1, <1>2, <1>4, GotoTypes DEF IInv, TypeOK
    <2>2. CallFits(c) /\ pc[c] = "findEmail"
      BY DEF IInv, FindEmail
    <2>3. CallFits(c)'
      BY <2>1, <2>2 DEF CallFits, Waiting
    <2>4. QED
      BY <1>1, <1>2, <2>3, MoveHolds
  <1>5. QED
    BY <1>3, <1>4

LEMMA CreateUserHolds ==
  ASSUME IInv, NEW c \in Client, CreateUser(c), UNCHANGED seedVars
  PROVE  IInv'
  <1>1. CASE Goto(c, "error") /\ UNCHANGED <<users, token>>
    BY <1>1, GotoTypes, EndedFits, MoveHolds DEF IInv, TypeOK, Ended
  <1>2. CASE /\ Holders(RegisteredEmail(c)) = {}
             /\ \E i \in FreshId :
                  /\ ~Taken(i)
                  /\ users' = [users EXCEPT ![i] = NewUser(c)]
                  /\ Sign(c, i)
             /\ Goto(c, "ok")
    <2>1. /\ call[c] \in Call /\ call[c].op = "register"
          /\ call[c].role # "ADMIN"
      BY DEF IInv, CallFits, CreateUser, Waiting
    <2>2. /\ call[c].email \in Address /\ call[c].password \in Password
          /\ call[c].role \in UserRole
      BY <2>1, CallFacts
    <2>3. /\ NewUser(c) \in User
          /\ NewUser(c).email = RegisteredEmail(c)
          /\ NewUser(c).passwordHash = call[c].password
          /\ NewUser(c).role # "ADMIN"
          /\ Lower[RegisteredEmail(c)] = RegisteredEmail(c)
      BY <2>1, <2>2, LowerAssumption DEF NewUser, RegisteredEmail, User
    <2>4. PICK i \in FreshId : /\ ~Taken(i)
                              /\ users' = [users EXCEPT ![i] = NewUser(c)]
                              /\ Sign(c, i)
      BY <1>2
    <2>5. i \in UserId /\ Adds(i, NewUser(c))
      BY <1>2, <2>3, <2>4, BoundsAssumption DEF Adds, Proper
    <2>6. /\ UsersKept /\ Taken(i)' /\ users'[i] = NewUser(c)
          /\ \A j \in UserId \ {i} : users'[j] = users[j]
      BY <2>3, <2>5, UsersGrow
    <2>7. \A row \in UserRows : users'[row.id] = users[row.id]
      BY <2>6, UserRowFacts
    <2>8. /\ token' \in [Client -> Token \cup {NoToken}]
          /\ token'[c] = [sub |-> i, password |-> call[c].password]
          /\ \A d \in Client \ {c} : token'[d] = token[d]
      BY <2>2, <2>4, <2>5 DEF Sign, Token, IInv, TypeOK, AccountsTypeOK
    <2>9. TokenFits(c)'
      BY <2>3, <2>6, <2>8 DEF TokenFits, Taken
    <2>10. AccountsTypeOK' /\ \A d \in Client \ {c} : SameFor(d)
      BY <1>2, <2>6, <2>8, GotoTypes DEF IInv, TypeOK, AccountsTypeOK, UsersKept,
         Ended, SameFor
    <2>11. CallFits(c)'
      BY <1>2, GotoTypes, EndedFits DEF IInv, TypeOK, Ended
    <2>12. QED
      BY <2>6, <2>7, <2>9, <2>10, <2>11, ClientHolds
  <1>3. QED
    BY <1>1, <1>2 DEF CreateUser

LEMMA FindLoginHolds ==
  ASSUME IInv, NEW c \in Client, FindLogin(c), UNCHANGED seedVars
  PROVE  IInv'
  <1>1. CASE Goto(c, "unauthorized")
    BY <1>1, GotoTypes, EndedFits, MoveHolds DEF IInv, TypeOK, Ended, FindLogin
  <1>2. CASE \E i \in Holders(LoginEmail(c)) :
               /\ pc' = [pc EXCEPT ![c] = "compare"]
               /\ read' = [read EXCEPT ![c] = i]
               /\ UNCHANGED call
    <2>1. PICK i \in Holders(LoginEmail(c)) :
               /\ pc' = [pc EXCEPT ![c] = "compare"]
               /\ read' = [read EXCEPT ![c] = i]
               /\ UNCHANGED call
      BY <1>2
    <2>2. i \in UserId /\ Taken(i) /\ users[i].email = Lower[call[c].email]
      BY DEF Holders, LoginEmail
    <2>3. UNCHANGED <<users, token>> /\ UsersKept
      BY UsersStay DEF FindLogin
    <2>4. AccountsTypeOK' /\ \A d \in Client \ {c} : SameFor(d)
      BY <2>1, <2>2, <2>3 DEF IInv, TypeOK, AccountsTypeOK, Waiting, SameFor
    <2>5. pc'[c] = "compare" /\ read'[c] = i /\ call' = call
      BY <2>1 DEF IInv, TypeOK, AccountsTypeOK
    <2>6. CallFits(c) /\ pc[c] = "findLogin"
      BY DEF IInv, FindLogin
    <2>7. CallFits(c)'
      BY <2>2, <2>3, <2>5, <2>6 DEF CallFits, Taken, Waiting
    <2>8. TokenFits(c)'
      BY <2>3, TokenStays
    <2>9. QED
      BY <2>3, <2>4, <2>7, <2>8, ClientHolds
  <1>3. QED
    BY <1>1, <1>2 DEF FindLogin

LEMMA CompareHolds ==
  ASSUME IInv, NEW c \in Client, Compare(c), UNCHANGED seedVars
  PROVE  IInv'
  <1>1. CASE UNCHANGED token /\ Goto(c, "unauthorized")
    BY <1>1, GotoTypes, EndedFits, MoveHolds DEF IInv, TypeOK, Ended, Compare
  <1>2. CASE /\ users[read[c]].passwordHash = call[c].password
             /\ Sign(c, read[c]) /\ Goto(c, "ok")
    <2>1. /\ call[c] \in Call /\ call[c].op = "login"
          /\ read[c] \in UserId /\ Taken(read[c])
      BY DEF IInv, CallFits, Compare, Waiting
    <2>2. UNCHANGED users /\ UsersKept
      BY UsersStay DEF Compare
    <2>3. /\ token' \in [Client -> Token \cup {NoToken}]
          /\ token'[c] = [sub |-> read[c], password |-> call[c].password]
          /\ \A d \in Client \ {c} : token'[d] = token[d]
      BY <1>2, <2>1, CallFacts DEF Sign, Token, IInv, TypeOK, AccountsTypeOK
    <2>4. TokenFits(c)'
      BY <1>2, <2>1, <2>2, <2>3 DEF TokenFits, Taken
    <2>5. AccountsTypeOK' /\ \A d \in Client \ {c} : SameFor(d)
      BY <1>2, <2>2, <2>3, GotoTypes DEF IInv, TypeOK, AccountsTypeOK, Ended,
         SameFor
    <2>6. CallFits(c)'
      BY <1>2, GotoTypes, EndedFits DEF IInv, TypeOK, Ended
    <2>7. QED
      BY <2>2, <2>4, <2>5, <2>6, ClientHolds
  <1>3. QED
    BY <1>1, <1>2 DEF Compare

LEMMA ValidateHolds ==
  ASSUME IInv, NEW c \in Client, Validate(c), UNCHANGED seedVars
  PROVE  IInv'
  <1>1. CASE Goto(c, "unauthorized") \/ Goto(c, "forbidden")
    BY <1>1, GotoTypes, EndedFits, MoveHolds DEF IInv, TypeOK, Ended, Validate
  <1>2. CASE Goto(c, "handler") /\ canActivate(call[c].route, users[read[c]].role)
    <2>1. /\ pc'[c] = "handler" /\ call' = call /\ read' = read
          /\ users' = users
      BY <1>2, GotoTypes DEF IInv, TypeOK, Validate, Waiting, Ended
    <2>2. CallFits(c) /\ pc[c] = "validate"
      BY DEF IInv, Validate
    <2>3. CallFits(c)'
      BY <1>2, <2>1, <2>2 DEF CallFits, Taken, Waiting, canActivate, RequiredRoles
    <2>4. QED
      BY <1>2, <2>3, MoveHolds DEF Validate, Waiting
  <1>3. QED
    BY <1>1, <1>2 DEF Validate

LEMMA ReturnHolds ==
  ASSUME IInv, NEW c \in Client, Return(c), UNCHANGED seedVars
  PROVE  IInv'
  BY GotoTypes, EndedFits, MoveHolds DEF IInv, TypeOK, Ended, Return

LEMMA ExpireHolds ==
  ASSUME IInv, NEW c \in Client, Expire(c), UNCHANGED seedVars
  PROVE  IInv'
  <1>1. /\ token' = [token EXCEPT ![c] = NoToken]
        /\ UNCHANGED <<users, pc, call, read>> /\ UsersKept
    BY UsersStay DEF Expire
  <1>2. AccountsTypeOK' /\ \A d \in Client \ {c} : SameFor(d)
    BY <1>1 DEF IInv, TypeOK, AccountsTypeOK, SameFor
  <1>3. TokenFits(c)'
    BY <1>1 DEF IInv, TypeOK, AccountsTypeOK, TokenFits
  <1>4. CallFits(c)'
    BY <1>1, CallStays
  <1>5. QED
    BY <1>1, <1>2, <1>3, <1>4, ClientHolds

-----------------------------------------------------------------------------
(* The row that a run has found is as the script would write it.           *)
LEMMA FoundIsWritten ==
  ASSUME IInv, NEW j \in Steps, Found(SeedList[j])
  PROVE  Written(SeedList[j])
  <1> DEFINE row == SeedList[j]
  <1>1. CASE IsUser(row)
    <2>1. row \in UserRows /\ Taken(row.id)
      BY <1>1, StepRow DEF Found
    <2>2. row.id \in UserId \ FreshId
      BY <2>1, UserRowFacts
    <2>3. PICK other \in UserRows :
            row.id = other.id /\ users[row.id] = SeededUser(other)
      BY <2>1, <2>2 DEF IInv, UsersInv, Proper, ByScript
    <2>4. other = row
      BY <2>1, <2>3, UserIdsDiffer
    <2>5. QED
      BY <1>1, <2>3, <2>4 DEF Written
  <1>2. CASE ~IsUser(row)
    BY <1>2 DEF Found, Written
  <1>3. QED
    BY <1>1, <1>2

LEMMA WrittenStays ==
  ASSUME IInv, UsersKept, rows \subseteq rows', NEW j \in Steps, Written(SeedList[j])
  PROVE  Written(SeedList[j])'
  <1>1. CASE IsUser(SeedList[j])
    <2>1. SeedList[j] \in UserRows
      BY <1>1, StepRow
    <2>2. SeedList[j].id \in UserId /\ SeededUser(SeedList[j]) \in User
      BY <2>1, UserRowFacts DEF SeededUser, DevEmail, User
    <2>3. users[SeedList[j].id] # NoUser
      BY <1>1, <2>2, NothingAssumption DEF Written
    <2>4. QED
      BY <1>1, <2>2, <2>3 DEF UsersKept, Grown, Taken, Written, SeededUser
  <1>2. CASE ~IsUser(SeedList[j])
    BY <1>2 DEF Written
  <1>3. QED
    BY <1>1, <1>2

(* A run that stands still while another takes a step is not alone.        *)
LEMMA OtherRunFits ==
  ASSUME IInv, UsersKept, rows \subseteq rows', NEW r \in Seeder,
         phase'[r] = phase[r], at'[r] = at[r],
         ~(Running(r) /\ alone'[r])
  PROVE  RunFits(r)'
  <1>1. RunFits(r)
    BY DEF IInv
  <1>2. Behind(r) => Behind(r)'
    BY WrittenStays DEF Behind
  <1>3. Complete => Complete'
    BY WrittenStays DEF Complete, SeededRow
  <1>4. QED
    BY <1>1, <1>2, <1>3 DEF RunFits, Running

(* A run moves on to its next row, or is complete.                         *)
LEMMA AdvanceFacts ==
  ASSUME TypeOK, NEW s \in Seeder, Advance(s),
         \A j \in Steps : j <= at[s] => Written(SeedList[j])'
  PROVE  /\ at' \in [Seeder -> 0..Len(SeedList)]
         /\ phase' \in [Seeder -> {"off", "find", "create", "done", "failed"}]
         /\ \A r \in Seeder \ {s} : at'[r] = at[r] /\ phase'[r] = phase[r]
         /\ phase'[s] \in {"find", "done"}
         /\ phase'[s] = "find" => at'[s] \in Steps /\ Behind(s)'
         /\ phase'[s] = "done" => at'[s] = 0 /\ Complete'
  <1>1. at[s] \in Nat /\ \A j \in Steps : j \in Nat /\ j \in 0..Len(SeedList)
    BY StepRow DEF TypeOK
  <1>2. CASE Ahead(s) = {} /\ Stop(s, "done")
    <2>1. /\ at' = [at EXCEPT ![s] = 0] /\ phase' = [phase EXCEPT ![s] = "done"]
      BY <1>2 DEF Stop
    <2>2. \A j \in Steps : Written(SeedList[j])'
      BY <1>1, <1>2 DEF Ahead
    <2>3. Complete'
      BY <2>2 DEF Complete, SeededRow
    <2>4. 0 \in 0..Len(SeedList)
      BY Listed
    <2>5. QED
      BY <2>1, <2>3, <2>4 DEF TypeOK
  <1>3. CASE \E j \in Ahead(s) :
               /\ \A k \in Ahead(s) : j <= k
               /\ at' = [at EXCEPT ![s] = j]
               /\ phase' = [phase EXCEPT ![s] = "find"]
    <2>1. PICK j \in Ahead(s) :
               /\ \A k \in Ahead(s) : j <= k
               /\ at' = [at EXCEPT ![s] = j]
               /\ phase' = [phase EXCEPT ![s] = "find"]
      BY <1>3
    <2>2. /\ j \in Steps /\ j \in Nat /\ j \in 0..Len(SeedList)
          /\ at'[s] = j /\ phase'[s] = "find"
      BY <1>1, <2>1 DEF Ahead, TypeOK
    <2>3. \A k \in Steps : k < j => k <= at[s]
      BY <1>1, <2>1, <2>2 DEF Ahead
    <2>4. \A k \in Steps : k < at'[s] => Written(SeedList[k])'
      BY <2>2, <2>3
    <2>5. Behind(s)'
      BY <2>4 DEF Behind
    <2>6. QED
      BY <2>1, <2>2, <2>5 DEF TypeOK
  <1>4. QED
    BY <1>2, <1>3 DEF Advance

(* A step of a run of the script, after which it is fit.                   *)
LEMMA RunHolds ==
  ASSUME IInv, NEW s \in Seeder, TypeOK', UsersKept, rows \subseteq rows',
         UNCHANGED <<pc, call, read, token>>,
         \A r \in Seeder \ {s} : /\ at'[r] = at[r] /\ phase'[r] = phase[r]
                                  /\ ~(Running(r) /\ alone'[r]),
         RunFits(s)'
  PROVE  IInv'
  <1>1. \A c \in Client : (TokenFits(c) /\ CallFits(c))'
    BY TokenStays, CallStays
  <1>2. \A r \in Seeder : RunFits(r)'
    BY OtherRunFits
  <1>3. QED
    BY <1>1, <1>2 DEF IInv, UsersKept

(* While a run takes a step, no other that runs is alone.                  *)
LEMMA NobodyAlone ==
  ASSUME IInv, NEW s \in Seeder, Running(s)
  PROVE  \A r \in Seeder \ {s} : ~(Running(r) /\ alone[r])
  BY DEF IInv, RunFits

LEMMA StartHolds ==
  ASSUME IInv, NEW s \in Seeder, Start(s)
  PROVE  IInv'
  <1> DEFINE others == {r \in Seeder \ {s} : Running(r)}
  <1>1. /\ UNCHANGED <<accountVars, rows>> /\ UsersKept
        /\ starts' = starts + 1 /\ starts < MaxStarts
        /\ Advance(s) /\ at[s] = 0
        /\ alone' = [r \in Seeder |-> IF r = s THEN others = {}
                                      ELSE alone[r] /\ r \notin others]
    BY UsersStay DEF Start, accountVars, IInv, RunFits
  <1>2. \A j \in Steps : ~(j <= at[s])
    BY <1>1, StepRow
  <1>3. /\ at' \in [Seeder -> 0..Len(SeedList)]
        /\ phase' \in [Seeder -> {"off", "find", "create", "done", "failed"}]
        /\ \A r \in Seeder \ {s} : at'[r] = at[r] /\ phase'[r] = phase[r]
        /\ phase'[s] \in {"find", "done"}
        /\ phase'[s] = "find" => at'[s] \in Steps /\ Behind(s)'
        /\ phase'[s] = "done" => at'[s] = 0 /\ Complete'
    BY <1>1, <1>2, AdvanceFacts DEF IInv
  <1>4. TypeOK'
    <2>1. alone' \in [Seeder -> BOOLEAN]
      BY <1>1 DEF IInv, TypeOK
    <2>2. starts' \in 0..MaxStarts
      BY <1>1, SeedAssumption DEF IInv, TypeOK
    <2>3. QED
      BY <1>1, <1>3, <2>1, <2>2 DEF IInv, TypeOK, AccountsTypeOK, accountVars
  <1>5. \A r \in Seeder \ {s} : ~(Running(r) /\ alone'[r])
    BY <1>1
  <1>6. alone'[s] => \A r \in Seeder \ {s} : ~Running(r)
    BY <1>1
  <1>7. RunFits(s)'
    BY <1>3, <1>6 DEF RunFits, Running
  <1>8. QED
    BY <1>1, <1>3, <1>4, <1>5, <1>7, RunHolds DEF accountVars

(* What a step of a running run leaves to it.                              *)
LEMMA StepOfRun ==
  ASSUME IInv, NEW s \in Seeder, Running(s)
  PROVE  /\ at[s] \in Steps /\ at[s] \in Nat
         /\ \A j \in Steps : j < at[s] => Written(SeedList[j])
         /\ \A j \in Steps : j <= at[s] => j < at[s] \/ j = at[s]
         /\ alone[s] => \A r \in Seeder \ {s} : ~Running(r)
  <1>1. at[s] \in Steps /\ Behind(s)
    BY DEF IInv, RunFits
  <1>2. \A j \in Steps : j \in Nat
    BY StepRow
  <1>3. QED
    BY <1>1, <1>2 DEF Behind, IInv, RunFits

LEMMA FindRowHolds ==
  ASSUME IInv, NEW s \in Seeder, FindRow(s)
  PROVE  IInv'
  <1>1. /\ UNCHANGED <<accountVars, rows, alone, starts>> /\ UsersKept
        /\ Running(s) /\ phase[s] = "find"
    BY UsersStay DEF FindRow, accountVars, Running
  <1>2. \A r \in Seeder \ {s} : ~(Running(r) /\ alone'[r])
    BY <1>1, NobodyAlone
  <1>3. CASE Found(SeedList[at[s]]) /\ Advance(s)
    <2>1. \A j \in Steps : j <= at[s] => Written(SeedList[j])'
      BY <1>1, <1>3, StepOfRun, FoundIsWritten, WrittenStays
    <2>2. /\ at' \in [Seeder -> 0..Len(SeedList)]
          /\ phase' \in [Seeder -> {"off", "find", "create", "done", "failed"}]
          /\ \A r \in Seeder \ {s} : at'[r] = at[r] /\ phase'[r] = phase[r]
          /\ phase'[s] \in {"find", "done"}
          /\ phase'[s] = "find" => at'[s] \in Steps /\ Behind(s)'
          /\ phase'[s] = "done" => at'[s] = 0 /\ Complete'
      BY <1>3, <2>1, AdvanceFacts DEF IInv
    <2>3. TypeOK'
      BY <1>1, <2>2 DEF IInv, TypeOK, AccountsTypeOK, accountVars
    <2>4. RunFits(s)'
      BY <1>1, <2>2, StepOfRun DEF RunFits, Running
    <2>5. QED
      BY <1>1, <1>2, <2>2, <2>3, <2>4, RunHolds DEF accountVars
  <1>4. CASE /\ ~Found(SeedList[at[s]])
             /\ phase' = [phase EXCEPT ![s] = "create"] /\ UNCHANGED at
    <2>1. TypeOK' /\ phase'[s] = "create"
          /\ \A r \in Seeder \ {s} : at'[r] = at[r] /\ phase'[r] = phase[r]
      BY <1>1, <1>4 DEF IInv, TypeOK, AccountsTypeOK, accountVars
    <2>2. Behind(s)' /\ at'[s] \in Steps
      BY <1>1, <1>4, StepOfRun, WrittenStays DEF Behind
    <2>3. ~Found(SeedList[at[s]])'
      BY <1>1, <1>4 DEF Found, Taken, accountVars
    <2>4. RunFits(s)'
      BY <1>1, <1>4, <2>1, <2>2, <2>3, StepOfRun DEF RunFits, Running
    <2>5. QED
      BY <1>1, <1>2, <2>1, <2>4, RunHolds DEF accountVars
  <1>5. QED
    BY <1>3, <1>4 DEF FindRow

LEMMA StopFacts ==
  ASSUME TypeOK, NEW s \in Seeder, NEW how \in {"off", "failed"}, Stop(s, how)
  PROVE  /\ at' \in [Seeder -> 0..Len(SeedList)]
         /\ phase' \in [Seeder -> {"off", "find", "create", "done", "failed"}]
         /\ \A r \in Seeder \ {s} : at'[r] = at[r] /\ phase'[r] = phase[r]
         /\ phase'[s] = how
         /\ RunFits(s)'
  <1>1. 0 \in 0..Len(SeedList)
    BY Listed
  <1>2. at'[s] = 0 /\ phase'[s] = how
    BY DEF TypeOK, Stop
  <1>3. RunFits(s)'
    BY <1>2 DEF RunFits, Running
  <1>4. QED
    BY <1>1, <1>2, <1>3 DEF TypeOK, Stop

(* An upsert that writes adds a user or a row.                             *)
LEMMA WriteFacts ==
  ASSUME IInv, NEW j \in Steps, ~Duplicate(SeedList[j]), Write(SeedList[j])
  PROVE  /\ UsersKept
         /\ rows \subseteq rows' /\ rows' \subseteq SeededRow
         /\ Written(SeedList[j])'
  <1> DEFINE row == SeedList[j]
  <1>1. CASE IsUser(row)
    <2>1. row \in UserRows
      BY <1>1, StepRow
    <2>2. /\ row.id \in UserId /\ SeededUser(row) \in User
          /\ Lower[SeededUser(row).email] = SeededUser(row).email
          /\ SeededUser(row).passwordHash = Placeholder
      BY <2>1, UserRowFacts DEF SeededUser, DevEmail, User
    <2>3. Adds(row.id, SeededUser(row))
      BY <1>1, <2>1, <2>2 DEF Duplicate, Write, Adds, Proper, ByScript, SeededUser
    <2>4. UsersKept /\ users'[row.id] = SeededUser(row)
      BY <2>2, <2>3, UsersGrow
    <2>5. QED
      BY <1>1, <2>4 DEF Write, Written, SeededUser, IInv, TypeOK
  <1>2. CASE ~IsUser(row)
    <2>1. rows' = rows \cup {row} /\ UNCHANGED users
      BY <1>2 DEF Write
    <2>2. UsersKept
      BY <2>1, UsersStay
    <2>3. QED
      BY <1>2, <2>1, <2>2, StepRow DEF Written, IInv, TypeOK
  <1>3. QED
    BY <1>1, <1>2

LEMMA InsertRowHolds ==
  ASSUME IInv, NEW s \in Seeder, InsertRow(s)
  PROVE  IInv'
  <1>1. /\ UNCHANGED <<pc, call, read, token, alone, starts>>
        /\ Running(s) /\ phase[s] = "create"
    BY DEF InsertRow, Running
  <1>j. PICK j \in Steps : j = at[s]
    BY <1>1, StepOfRun
  <1>2. \A r \in Seeder \ {s} : ~(Running(r) /\ alone'[r])
    BY <1>1, NobodyAlone
  <1>3. CASE Stop(s, "failed") /\ UNCHANGED <<users, rows>>
    <2>1. UsersKept
      BY <1>3, UsersStay
    <2>2. /\ at' \in [Seeder -> 0..Len(SeedList)]
          /\ phase' \in [Seeder -> {"off", "find", "create", "done", "failed"}]
          /\ \A r \in Seeder \ {s} : at'[r] = at[r] /\ phase'[r] = phase[r]
          /\ RunFits(s)'
      BY <1>3, StopFacts DEF IInv
    <2>3. TypeOK'
      BY <1>1, <1>3, <2>2 DEF IInv, TypeOK, AccountsTypeOK
    <2>4. QED
      BY <1>1, <1>2, <1>3, <2>1, <2>2, <2>3, RunHolds
  <1>4. CASE ~Duplicate(SeedList[j]) /\ Advance(s) /\ Write(SeedList[j])
    <2>1. UsersKept /\ rows \subseteq rows' /\ rows' \subseteq SeededRow
          /\ Written(SeedList[j])'
      BY <1>4, WriteFacts
    <2>2. \A k \in Steps : k <= at[s] => Written(SeedList[k])'
      BY <1>1, <1>j, <2>1, StepOfRun, WrittenStays
    <2>3. /\ at' \in [Seeder -> 0..Len(SeedList)]
          /\ phase' \in [Seeder -> {"off", "find", "create", "done", "failed"}]
          /\ \A r \in Seeder \ {s} : at'[r] = at[r] /\ phase'[r] = phase[r]
          /\ phase'[s] \in {"find", "done"}
          /\ phase'[s] = "find" => at'[s] \in Steps /\ Behind(s)'
          /\ phase'[s] = "done" => at'[s] = 0 /\ Complete'
      BY <1>4, <2>2, AdvanceFacts DEF IInv
    <2>4. TypeOK'
      BY <1>1, <2>1, <2>3 DEF IInv, TypeOK, AccountsTypeOK, UsersKept
    <2>5. RunFits(s)'
      BY <1>1, <2>3, StepOfRun DEF RunFits, Running
    <2>6. QED
      BY <1>1, <1>2, <2>1, <2>3, <2>4, <2>5, RunHolds
  <1>5. QED
    BY <1>j, <1>3, <1>4 DEF InsertRow

LEMMA InterruptHolds ==
  ASSUME IInv, NEW s \in Seeder, Interrupt(s)
  PROVE  IInv'
  <1>1. /\ UNCHANGED <<accountVars, rows, alone, starts>> /\ UsersKept
        /\ Running(s) /\ Stop(s, "off")
    BY UsersStay DEF Interrupt, accountVars
  <1>2. /\ at' \in [Seeder -> 0..Len(SeedList)]
        /\ phase' \in [Seeder -> {"off", "find", "create", "done", "failed"}]
        /\ \A r \in Seeder \ {s} : at'[r] = at[r] /\ phase'[r] = phase[r]
        /\ RunFits(s)'
    BY <1>1, StopFacts DEF IInv
  <1>3. TypeOK'
    BY <1>1, <1>2 DEF IInv, TypeOK, AccountsTypeOK, accountVars
  <1>4. QED
    BY <1>1, <1>2, <1>3, NobodyAlone, RunHolds DEF accountVars

LEMMA StutterHolds == IInv /\ UNCHANGED vars => IInv'
  <1> SUFFICES ASSUME IInv, UNCHANGED vars
               PROVE  IInv'
    OBVIOUS
  <1>1. UNCHANGED <<users, pc, call, read, token>> /\ UNCHANGED seedVars /\ UsersKept
    BY UsersStay DEF vars, accountVars
  <1>2. TypeOK'
    BY <1>1, SeedTypesStay DEF IInv, TypeOK, AccountsTypeOK
  <1>3. \A c \in Client : (TokenFits(c) /\ CallFits(c))'
    BY <1>1, TokenStays, CallStays
  <1>4. \A s \in Seeder : RunFits(s)'
    BY <1>1, UserRowFacts, RunsStay
  <1>5. QED
    BY <1>1, <1>2, <1>3, <1>4 DEF IInv, UsersKept

-----------------------------------------------------------------------------
LEMMA NextHolds == IInv /\ [Next]_vars => IInv'
  <1> SUFFICES ASSUME IInv, [Next]_vars
               PROVE  IInv'
    OBVIOUS
  <1>1. ASSUME UNCHANGED seedVars, NEW c \in Client,
               \/ \E k \in Call : Receive(c, k)
               \/ FindEmail(c) \/ CreateUser(c)
               \/ FindLogin(c) \/ Compare(c)
               \/ Validate(c) \/ Return(c) \/ Expire(c)
        PROVE  IInv'
    BY <1>1, ReceiveHolds, FindEmailHolds, CreateUserHolds, FindLoginHolds,
       CompareHolds, ValidateHolds, ReturnHolds, ExpireHolds
  <1>2. CASE \E s \in Seeder : Start(s) \/ FindRow(s) \/ InsertRow(s) \/ Interrupt(s)
    BY <1>2, StartHolds, FindRowHolds, InsertRowHolds, InterruptHolds
  <1>3. CASE UNCHANGED vars
    BY <1>3, StutterHolds
  <1>4. QED
    BY <1>1, <1>2, <1>3 DEF Next, AccountsNext

THEOREM Invariant == Spec => []IInv
  BY InitHolds, NextHolds, PTL DEF Spec

(* The types of the accounts and of the script's variables.                *)
THEOREM TypeCorrect == Spec => []TypeOK
  <1>1. IInv => TypeOK
    BY DEF IInv
  <1>2. QED
    BY <1>1, Invariant, PTL

(* An address has one account, however it is spelled and whoever creates   *)
(* it: the unique index, and that addresses are stored in lower case.      *)
THEOREM OneAccount == Spec => []OneAccountPerAddress
  <1>1. IInv => OneAccountPerAddress
    BY DEF IInv, UsersInv, Proper, OneAccountPerAddress
  <1>2. QED
    BY <1>1, Invariant, PTL

(* A route admits only the role that its path is for.                      *)
LEMMA RoleOfPath ==
  ASSUME NEW route \in Route, NEW role, canActivate(route, role)
  PROVE  /\ route.path = "customer" => role = "CUSTOMER"
         /\ route.path = "vendor" => role = "VENDOR"
         /\ route.path \in {"customer", "vendor", "auth"}
  BY DEF Route, canActivate, RequiredRoles, CustomerController,
     PlanningController, ResourceController, ProcessController,
     SchedulingController, SyncController, VendorController, AuthController,
     RolesOnHandler, RolesOnClass

(* Whoever holds a token knows the password of its user, and a handler     *)
(* runs only for the role that its path is for, never for an ADMIN.        *)
THEOREM OnlyOneself == Spec => []ActsAsOneself
  <1>1. ASSUME IInv, NEW c \in Client, token[c] # NoToken
        PROVE  /\ users[token[c].sub].passwordHash = token[c].password
               /\ users[token[c].sub].role # "ADMIN"
    <2>1. token[c] \in Token /\ TokenFits(c)
      BY <1>1 DEF IInv, TypeOK, AccountsTypeOK
    <2>2. /\ token[c].sub \in UserId /\ Taken(token[c].sub)
          /\ users[token[c].sub].passwordHash = token[c].password
          /\ token[c].password \in Password
      BY <1>1, <2>1 DEF Token, TokenFits
    <2>3. users[token[c].sub].role # "ADMIN"
      BY <1>1, <2>2, NothingAssumption DEF IInv, UsersInv, Proper
    <2>4. QED
      BY <2>2, <2>3
  <1>2. ASSUME IInv, NEW c \in Client, pc[c] = "handler"
        PROVE  LET role == users[read[c]].role IN
               CASE call[c].route.path = "customer" -> role = "CUSTOMER"
                 [] call[c].route.path = "vendor"   -> role = "VENDOR"
                 [] OTHER                           -> role # "ADMIN"
    <2>1. /\ call[c] \in Call /\ call[c].op = "visit"
          /\ users[read[c]].role # "ADMIN"
          /\ canActivate(call[c].route, users[read[c]].role)
      BY <1>2 DEF IInv, CallFits, Waiting
    <2>2. call[c].route \in Route
      BY <2>1, CallFacts
    <2>3. QED
      BY <2>1, <2>2, RoleOfPath
  <1>3. IInv => ActsAsOneself
    BY <1>1, <1>2 DEF ActsAsOneself
  <1>4. QED
    BY <1>3, Invariant, PTL

(* When a run of the script ends with "Seeding complete", every row of it  *)
(* is there, whatever runs were interrupted, failed or overlapped.         *)
THEOREM DoneIsComplete == Spec => []DoneMeansComplete
  <1>1. IInv => DoneMeansComplete
    BY DEF IInv, RunFits, DoneMeansComplete
  <1>2. QED
    BY <1>1, Invariant, PTL

(* A login is refused only while no account has that address and password: *)
(* the account that was read is the only one, and has not changed.         *)
THEOREM TrueRefusals == Spec => LoginRefusalsAreTrue
  <1> DEFINE Has(c, i) == /\ Taken(i)
                          /\ users[i].email = Lower[call[c].email]
                          /\ users[i].passwordHash = call[c].password
  <1>1. ASSUME IInv, Next, NEW c \in Client,
               pc[c] \in {"findLogin", "compare"}, pc'[c] = "unauthorized"
        PROVE  ~ \E i \in UserId : Has(c, i)
    <2>1. FindLogin(c) \/ Compare(c)
      <3>1. \A d \in Client, label \in Waiting \cup Ended :
              (Goto(d, label) /\ d # c) => pc'[c] = pc[c]
        BY <1>1, GotoTypes DEF IInv, TypeOK
      <3>2. pc'[c] # pc[c]
        BY <1>1
      <3>3. \A d \in Client, k \in Call : ~Receive(d, k)
        BY <1>1, <3>2 DEF Receive, IInv, TypeOK, AccountsTypeOK, Ended
      <3>4. \A s \in Seeder : ~(Start(s) \/ FindRow(s) \/ InsertRow(s) \/ Interrupt(s))
        BY <3>2 DEF Start, FindRow, InsertRow, Interrupt, accountVars
      <3>5. \A d \in Client :
              ~(FindEmail(d) \/ CreateUser(d) \/ Validate(d) \/ Return(d) \/ Expire(d))
        BY <1>1, <3>1, <3>2 DEF FindEmail, CreateUser, Validate, Return, Expire,
           Waiting, Ended
      <3>6. \A d \in Client : (FindLogin(d) \/ Compare(d)) => d = c
        BY <1>1, <3>1, <3>2 DEF FindLogin, Compare, Waiting, Ended, IInv, TypeOK,
           AccountsTypeOK
      <3>7. QED
        BY <1>1, <3>3, <3>4, <3>5, <3>6 DEF Next, AccountsNext
    <2>2. CASE FindLogin(c)
      <3>1. Holders(LoginEmail(c)) = {}
        BY <1>1, <2>2 DEF FindLogin, IInv, TypeOK, AccountsTypeOK
      <3>2. QED
        BY <3>1 DEF Holders, LoginEmail
    <2>3. CASE Compare(c)
      <3>1. users[read[c]].passwordHash # call[c].password
        BY <1>1, <2>3, GotoTypes DEF Compare, IInv, TypeOK, Ended
      <3>2. /\ read[c] \in UserId /\ Taken(read[c])
            /\ users[read[c]].email = Lower[call[c].email]
        BY <1>1, <2>3 DEF Compare, IInv, CallFits
      <3>3. QED
        BY <1>1, <3>1, <3>2 DEF IInv, UsersInv
    <2>4. QED
      BY <2>1, <2>2, <2>3
  <1>2. IInv /\ Next =>
          \A c \in Client :
            (pc[c] \in {"findLogin", "compare"} /\ pc'[c] = "unauthorized") =>
              ~ \E i \in UserId :
                  /\ Taken(i)
                  /\ users[i].email = Lower[call[c].email]
                  /\ users[i].passwordHash = call[c].password
    BY <1>1
  <1>3. IInv /\ [Next]_vars =>
          [\A c \in Client :
            (pc[c] \in {"findLogin", "compare"} /\ pc'[c] = "unauthorized") =>
              ~ \E i \in UserId :
                  /\ Taken(i)
                  /\ users[i].email = Lower[call[c].email]
                  /\ users[i].passwordHash = call[c].password]_accountVars
    BY <1>2 DEF vars
  <1>4. QED
    BY <1>3, Invariant, PTL DEF Spec, LoginRefusalsAreTrue

(* The rows that a row references lie behind the run.                      *)
LEMMA BehindIsRooted ==
  ASSUME IInv, NEW s \in Seeder, Running(s)
  PROVE  Rooted(SeedList[at[s]])
  <1> SUFFICES ASSUME NEW ref \in SeedList[at[s]].refs
               PROVE  IF ref[1] = "user" THEN Taken(ref[2])
                      ELSE \E other \in rows : <<other.table, other.id>> = ref
    BY DEF Rooted
  <1>1. PICK j \in Steps :
          j < at[s] /\ <<SeedList[j].table, SeedList[j].id>> = ref
    BY StepOfRun, SeedAssumption
  <1>2. Written(SeedList[j])
    BY <1>1, StepOfRun
  <1>3. CASE IsUser(SeedList[j])
    <2>1. ref[1] = "user" /\ ref[2] = SeedList[j].id
      BY <1>1, <1>3 DEF IsUser
    <2>2. SeedList[j] \in UserRows
      BY <1>3, StepRow
    <2>3. SeededUser(SeedList[j]) \in User
      BY <2>2, UserRowFacts DEF SeededUser, DevEmail, User
    <2>4. Taken(SeedList[j].id)
      BY <1>2, <1>3, <2>3, NothingAssumption DEF Written, Taken
    <2>5. QED
      BY <2>1, <2>4
  <1>4. CASE ~IsUser(SeedList[j])
    BY <1>1, <1>2, <1>4 DEF IsUser, Written
  <1>5. QED
    BY <1>3, <1>4

(* What is in a row's way has its id, or a dev address that somebody       *)
(* registered.                                                             *)
LEMMA DuplicateIsFound ==
  ASSUME IInv, NEW j \in Steps, Duplicate(SeedList[j])
  PROVE  \/ IsUser(SeedList[j]) /\ Holders(DevEmail(SeedList[j].id)) \cap FreshId # {}
         \/ Found(SeedList[j])
  <1>1. CASE IsUser(SeedList[j])
    <2> SUFFICES ASSUME NEW i \in Holders(DevEmail(SeedList[j].id)), i \notin FreshId
                 PROVE  Found(SeedList[j])
      BY <1>1 DEF Duplicate, Found
    <2>1. i \in UserId /\ Taken(i) /\ users[i].email = SeedList[j].id
      BY DEF Holders, DevEmail
    <2>2. PICK row \in UserRows : i = row.id /\ users[i] = SeededUser(row)
      BY <2>1 DEF IInv, UsersInv, Proper, ByScript
    <2>3. row.id = SeedList[j].id
      BY <2>1, <2>2 DEF SeededUser, DevEmail
    <2>4. QED
      BY <1>1, <2>1, <2>2, <2>3 DEF Found
  <1>2. CASE ~IsUser(SeedList[j])
    <2>1. SeedList[j] \in OtherRows
      BY <1>2, StepRow
    <2>2. PICK other \in rows : /\ other.table = SeedList[j].table
                               /\ other.unique = SeedList[j].unique
      BY <1>2 DEF Duplicate
    <2>3. other \in SeededRow
      BY DEF IInv, TypeOK
    <2>4. other \in OtherRows
      BY <1>2, <2>2, <2>3, StepRow DEF SeededRow, IsUser
    <2>5. other = SeedList[j]
      BY <2>1, <2>2, <2>4, UniqueColumnsDiffer
    <2>6. QED
      BY <1>2, <2>5 DEF Found
  <1>3. QED
    BY <1>1, <1>2

(* A run fails only over a dev address that somebody registered, or over a *)
(* row that an overlapping run created between its two statements.         *)
THEOREM FailsOnlyForAReason == Spec => FailsForAReason
  <1> DEFINE Reason(s, j) ==
        \/ IsUser(SeedList[j]) /\ Holders(DevEmail(SeedList[j].id)) \cap FreshId # {}
        \/ Found(SeedList[j]) /\ ~alone[s]
  <1>1. ASSUME IInv, Next, NEW s \in Seeder,
               phase[s] = "create", phase'[s] = "failed"
        PROVE  Reason(s, at[s])
    <2>1. InsertRow(s)
      <3>1. ~(AccountsNext /\ UNCHANGED seedVars)
        BY <1>1 DEF seedVars
      <3>2. \A r \in Seeder :
              Start(r) \/ FindRow(r) \/ InsertRow(r) \/ Interrupt(r) => r = s
        <4>1. ASSUME NEW r \in Seeder, r # s,
                     Start(r) \/ FindRow(r) \/ InsertRow(r) \/ Interrupt(r)
              PROVE  phase'[s] = phase[s]
          BY <1>1, <4>1 DEF Start, FindRow, InsertRow, Interrupt, Advance, Stop,
             IInv, TypeOK
        <4>2. QED
          BY <1>1, <4>1
      <3>3. ~Start(s) /\ ~FindRow(s) /\ ~Interrupt(s)
        BY <1>1 DEF Start, FindRow, Interrupt, Running, Stop, IInv, TypeOK
      <3>4. QED
        BY <1>1, <3>1, <3>2, <3>3 DEF Next
    <2>2. Running(s)
      BY <1>1 DEF Running
    <2>3. PICK j \in Steps : j = at[s]
      BY <1>1, <2>2, StepOfRun
    <2>4. ~Advance(s)
      BY <1>1 DEF Advance, Stop, IInv, TypeOK
    <2>5. Duplicate(SeedList[j])
      BY <1>1, <2>1, <2>2, <2>3, <2>4, BehindIsRooted DEF InsertRow
    <2>6. Found(SeedList[j]) => ~alone[s]
      BY <1>1, <2>3 DEF IInv, RunFits
    <2>7. QED
      BY <1>1, <2>3, <2>5, <2>6, DuplicateIsFound
  <1>2. IInv /\ [Next]_vars =>
          [\A s \in Seeder : (phase[s] = "create" /\ phase'[s] = "failed") =>
             LET row == SeedList[at[s]] IN
             \/ IsUser(row) /\ Holders(DevEmail(row.id)) \cap FreshId # {}
             \/ Found(row) /\ ~alone[s]]_vars
    BY <1>1
  <1>3. QED
    BY <1>2, Invariant, PTL DEF Spec, FailsForAReason
=============================================================================
