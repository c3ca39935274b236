--------------------------- MODULE PlanningProofs ---------------------------
(***************************************************************************)
(* The properties of Planning, for any numbers of clients, customers, rows *)
(* and values.  The argument: a call that is about to write knows facts    *)
(* that no other call can undo (Fits): the wedding it resolved stays, the  *)
(* row it found keeps its kind and owner or is deleted, and its id is      *)
(* never used again; the values it is about to write are its own.          *)
(***************************************************************************)
EXTENDS Planning, TLAPS

Labels ==
  /\ users \subseteq Customer
  /\ wedding \in [Customer -> Details \cup {NoWedding}]
  /\ items \in [Item -> Record \cup {NoItem, Deleted}]
  /\ DOMAIN named = Item
  /\ pc \in [Client -> Waiting \cup Ended]
  /\ call \in [Client -> Call \cup {NoCall}]
  /\ read \in [Client -> Record \cup {NoItem}]

(* A row belongs to a customer with a wedding, an event ends after it      *)
(* starts, and another row holds what was named last.                      *)
RowFits(i) ==
  Exists(i) =>
    /\ wedding[items[i].owner] # NoWedding
    /\ assertChronological(items[i].kind, items[i].columns)
    /\ items[i].kind = Row => items[i].columns = named[i]

(* The row that k found is there still, of the same kind and owner, or has *)
(* been deleted since.                                                     *)
Found(k) ==
  /\ items[k.item] # NoItem
  /\ Exists(k.item) => items[k.item].kind = k.kind /\ items[k.item].owner = k.user

(* What a call knows when it is about to make its next statement.          *)
Fits(c) ==
  LET k == call[c] IN
  /\ k = NoCall <=> pc[c] \in Ended
  /\ read[c] # NoItem => pc[c] = "updateItem"
  /\ pc[c] \in {"findUser", "insertUser"} => k.op = "register"
  /\ pc[c] \in {"findNoWedding", "insertWedding"} =>
       k.op = "createWedding" /\ k.user \in users
  /\ pc[c] \in {"findWedding", "updateWedding"} =>
       k.op = "updateWedding" /\ k.user \in users
  /\ pc[c] = "requireWedding" => k.op \in {"create", "update", "remove"}
  /\ pc[c] = "insertItem" =>
       /\ k.op = "create" /\ wedding[k.user] # NoWedding
       /\ assertChronological(k.kind, k.columns)
  /\ pc[c] = "findItem" => k.op \in {"update", "remove"}
  /\ pc[c] = "updateItem" =>
       /\ k.op = "update" /\ Found(k)
       /\ read[c] \in Record /\ read[c].kind = k.kind
       /\ assertChronological(k.kind, Patched(read[c].columns, k.patch))
  /\ pc[c] = "deleteItem" => k.op = "remove" /\ Found(k)

IInv ==
  /\ Labels
  /\ \A u \in Customer : wedding[u] # NoWedding => u \in users
  /\ \A i \in Item : RowFits(i)
  /\ \A c \in Client : Fits(c)

-----------------------------------------------------------------------------
(* What the calls carry.                                                   *)
LEMMA CallFields ==
  ASSUME NEW k \in Call
  PROVE  /\ k # NoCall
         /\ k.user \in Customer
         /\ k.op \in {"register", "createWedding", "updateWedding", "create",
                      "update", "remove"}
         /\ k.op \in {"createWedding", "updateWedding"} => k.details \in Details
         /\ k.op = "create" =>
              k.kind \in Kind /\ k.columns \in Columns(k.kind)
         /\ k.op = "update" =>
              k.kind \in Kind /\ k.item \in Item /\ k.patch \in Patch(k.kind)
         /\ k.op = "remove" => k.kind \in Kind /\ k.item \in Item
  <1>1. k # NoCall
    BY NothingAssumption
  <1>2. CASE k \in [op : {"register"}, user : Customer]
    BY <1>1, <1>2
  <1>3. CASE k \in [op : {"createWedding", "updateWedding"}, user : Customer,
                    details : Details]
    BY <1>1, <1>3
  <1>4. CASE k \in UNION {[op : {"create"}, user : Customer, kind : {kind},
                           columns : Columns(kind)] : kind \in Kind}
    <2>1. PICK kind \in Kind :
            k \in [op : {"create"}, user : Customer, kind : {kind},
                   columns : Columns(kind)]
      BY <1>4
    <2>2. QED
      BY <1>1, <2>1
  <1>5. CASE k \in UNION {[op : {"update"}, user : Customer, kind : {kind},
                           item : Item, patch : Patch(kind)] : kind \in Kind}
    <2>1. PICK kind \in Kind :
            k \in [op : {"update"}, user : Customer, kind : {kind},
                   item : Item, patch : Patch(kind)]
      BY <1>5
    <2>2. QED
      BY <1>1, <2>1
  <1>6. CASE k \in [op : {"remove"}, user : Customer, kind : Kind, item : Item]
    BY <1>1, <1>6
  <1>7. QED
    BY <1>2, <1>3, <1>4, <1>5, <1>6 DEF Call

(* What a row carries.                                                     *)
LEMMA RecordFields ==
  ASSUME NEW r \in Record
  PROVE  /\ r # NoItem /\ r # Deleted
         /\ r.kind \in Kind /\ r.owner \in Customer
         /\ r.columns \in Columns(r.kind)
         /\ r = [kind |-> r.kind, owner |-> r.owner, columns |-> r.columns]
  <1>1. PICK kind \in Kind :
          r \in [kind : {kind}, owner : Customer, columns : Columns(kind)]
    BY DEF Record
  <1>2. r # NoItem /\ r # Deleted
    BY NothingAssumption
  <1>3. QED
    BY <1>1, <1>2

(* A row is made of a kind, an owner and columns of that kind.             *)
LEMMA RecordMade ==
  ASSUME NEW kind \in Kind, NEW u \in Customer, NEW f \in Columns(kind)
  PROVE  [kind |-> kind, owner |-> u, columns |-> f] \in Record
  BY DEF Record

(* Columns that a patch overrides are columns still; overriding twice with *)
(* the same patch is overriding once.                                      *)
LEMMA PatchedFacts ==
  ASSUME NEW kind \in Kind, NEW f \in Columns(kind), NEW g \in Columns(kind),
         NEW p \in Patch(kind)
  PROVE  /\ Patched(f, p) \in Columns(kind)
         /\ Patched(f, Patched(g, p)) = Patched(g, p)
  <1>1. PICK S \in SUBSET Column : p \in [S -> ValueOf(kind)]
    BY DEF Patch
  <1>2. Patched(f, p) \in Columns(kind) /\ Patched(g, p) \in Columns(kind)
    BY <1>1 DEF Patched, Columns
  <1>3. DOMAIN Patched(g, p) = Column
    BY DEF Patched
  <1>4. Patched(f, Patched(g, p)) = [x \in Column |-> Patched(g, p)[x]]
    BY <1>3 DEF Patched
  <1>5. QED
    BY <1>2, <1>4 DEF Columns

-----------------------------------------------------------------------------
(* What no step undoes: registrations, weddings, and that a row's id is    *)
(* taken, by a row of the same kind and owner as long as it exists.        *)
Advance ==
  /\ users \subseteq users'
  /\ \A u \in Customer : wedding[u] # NoWedding => wedding'[u] # NoWedding
  /\ \A i \in Item : items[i] # NoItem =>
       /\ items'[i] # NoItem
       /\ Exists(i)' => /\ Exists(i)
                        /\ items'[i].kind = items[i].kind
                        /\ items'[i].owner = items[i].owner

(* A call that takes no step keeps what it knows.                          *)
LEMMA OthersFit ==
  ASSUME Labels, Advance, NEW d \in Client, Fits(d),
         pc'[d] = pc[d], call'[d] = call[d], read'[d] = read[d]
  PROVE  Fits(d)'
  <1> DEFINE k == call[d]
  <1>1. CASE k = NoCall
    <2>1. pc[d] \in Ended
      BY <1>1 DEF Fits
    <2>2. pc[d] \notin Waiting
      BY <2>1 DEF Ended, Waiting
    <2>3. QED
      BY <1>1, <2>1, <2>2 DEF Fits, Waiting
  <1>2. CASE k # NoCall
    <2>1. k \in Call
      BY <1>2 DEF Labels
    <2>2. k.user \in Customer /\ (k.op \in {"update", "remove"} => k.item \in Item)
      BY <2>1, CallFields
    <2>3. Found(k) /\ k.op \in {"update", "remove"} => Found(k)'
      BY <2>2 DEF Found, Advance, Exists
    <2>4. QED
      BY <2>2, <2>3 DEF Fits, Advance
  <1>3. QED
    BY <1>1, <1>2

(* The step of a call that only reads.                                     *)
LEMMA ReadingKeeps ==
  ASSUME IInv, NEW c \in Client, NEW label \in Waiting \cup Ended,
         pc' = [pc EXCEPT ![c] = label],
         call' \in [Client -> Call \cup {NoCall}],
         read' \in [Client -> Record \cup {NoItem}],
         \A d \in Client : d # c => call'[d] = call[d] /\ read'[d] = read[d],
         UNCHANGED db, Fits(c)'
  PROVE  IInv'
  <1>1. Labels'
    BY DEF IInv, Labels, db
  <1>2. Advance
    BY DEF Advance, db, Exists
  <1>3. ASSUME NEW d \in Client, d # c PROVE Fits(d)'
    BY <1>2, <1>3, OthersFit DEF IInv, Labels
  <1>4. \A i \in Item : RowFits(i)'
    BY DEF IInv, RowFits, Exists, db
  <1>5. QED
    BY <1>1, <1>3, <1>4 DEF IInv, db

(* A call that has ended fits.                                             *)
LEMMA EndedFits ==
  ASSUME Labels, NEW c \in Client, NEW label \in Ended, Goto(c, label)
  PROVE  /\ Fits(c)'
         /\ pc' \in [Client -> Waiting \cup Ended]
         /\ call' \in [Client -> Call \cup {NoCall}]
         /\ read' \in [Client -> Record \cup {NoItem}]
         /\ \A d \in Client : d # c =>
              pc'[d] = pc[d] /\ call'[d] = call[d] /\ read'[d] = read[d]
  <1>1. pc'[c] = label /\ call'[c] = NoCall /\ read'[c] = NoItem
    BY DEF Goto, Labels
  <1>2. Fits(c)'
    BY <1>1 DEF Fits, Ended
  <1>3. QED
    BY <1>2 DEF Goto, Labels

(* A read that goes on to a further statement or ends.                     *)
LEMMA ReadKeeps ==
  ASSUME IInv, NEW c \in Client, NEW from \in Waiting, NEW ok \in BOOLEAN,
         NEW to \in Waiting, NEW failure \in Ended,
         from # "updateItem", to # "updateItem",
         Read(c, from, ok, to, failure),
         ok /\ pc'[c] = to /\ call'[c] = call[c] /\ call[c] # NoCall
            /\ read'[c] = NoItem /\ UNCHANGED db => Fits(c)'
  PROVE  IInv'
  <1>1. CASE ok
    <2>1. to \notin Ended
      BY DEF Waiting, Ended
    <2>2. pc' = [pc EXCEPT ![c] = to] /\ UNCHANGED <<call, read>>
      BY <1>1, <2>1 DEF Read, Goto
    <2>3. call[c] # NoCall /\ read[c] = NoItem
      BY DEF IInv, Labels, Fits, Read, Waiting, Ended
    <2>4. Fits(c)'
      BY <1>1, <2>2, <2>3 DEF Read, IInv, Labels
    <2>5. QED
      BY <2>2, <2>4, ReadingKeeps DEF Read, IInv, Labels
  <1>2. CASE ~ok
    <2>1. Goto(c, failure) /\ UNCHANGED db
      BY <1>2 DEF Read
    <2>2. QED
      BY <2>1, EndedFits, ReadingKeeps DEF Goto, IInv, Ended
  <1>3. QED
    BY <1>1, <1>2
-----------------------------------------------------------------------------
(* The statements that only read.                                          *)
LEMMA ReceiveKeeps ==
  ASSUME IInv, NEW c \in Client, NEW k \in Call, Receive(c, k)
  PROVE  IInv'
  <1>1. k # NoCall /\ k.op \in {"register", "createWedding", "updateWedding",
                               "create", "update", "remove"}
    BY CallFields
  <1>2. PICK label \in {"findUser", "findNoWedding", "findWedding",
                        "requireWedding"} :
          /\ pc' = [pc EXCEPT ![c] = label]
          /\ label = "findUser" => k.op = "register"
          /\ label = "findNoWedding" => k.op = "createWedding"
          /\ label = "findWedding" => k.op = "updateWedding"
          /\ label = "requireWedding" => k.op \in {"create", "update", "remove"}
    BY <1>1 DEF Receive
  <1>3. pc'[c] = label /\ call'[c] = k /\ read'[c] = read[c] /\ UNCHANGED db
        /\ pc[c] \in Ended
    BY <1>2 DEF Receive, IInv, Labels
  <1>4. read'[c] = NoItem
    BY <1>3 DEF IInv, Fits, Ended
  <1>5. k.op # "register" => k.user \in users'
    BY <1>3 DEF Receive, db
  <1>6. Fits(c)'
    BY <1>1, <1>2, <1>3, <1>4, <1>5 DEF Fits, Ended
  <1>7. label \in Waiting /\ call' \in [Client -> Call \cup {NoCall}]
        /\ read' \in [Client -> Record \cup {NoItem}]
        /\ \A d \in Client : d # c => call'[d] = call[d] /\ read'[d] = read[d]
    BY DEF Waiting, Receive, IInv, Labels
  <1>8. QED
    BY <1>2, <1>3, <1>6, <1>7, ReadingKeeps

LEMMA FindUserKeeps ==
  ASSUME IInv, NEW c \in Client, FindUser(c)
  PROVE  IInv'
  <1> DEFINE ok == call[c].user \notin users
  <1>1. Read(c, "findUser", ok, "insertUser", "conflict")
    BY DEF FindUser
  <1>2. call[c].op = "register"
    BY <1>1 DEF Read, IInv, Fits
  <1>3. ok /\ pc'[c] = "insertUser" /\ call'[c] = call[c] /\ call[c] # NoCall
           /\ read'[c] = NoItem /\ UNCHANGED db => Fits(c)'
    BY <1>2 DEF Fits, Ended
  <1>4. QED
    BY <1>1, <1>3, ReadKeeps DEF Waiting, Ended

LEMMA FindNoWeddingKeeps ==
  ASSUME IInv, NEW c \in Client, FindNoWedding(c)
  PROVE  IInv'
  <1> DEFINE ok == wedding[call[c].user] = NoWedding
  <1>1. Read(c, "findNoWedding", ok, "insertWedding", "conflict")
    BY DEF FindNoWedding
  <1>2. call[c].op = "createWedding" /\ call[c].user \in users
    BY <1>1 DEF Read, IInv, Fits
  <1>3. ok /\ pc'[c] = "insertWedding" /\ call'[c] = call[c] /\ call[c] # NoCall
           /\ read'[c] = NoItem /\ UNCHANGED db => Fits(c)'
    BY <1>2 DEF Fits, Ended, db
  <1>4. QED
    BY <1>1, <1>3, ReadKeeps DEF Waiting, Ended

LEMMA FindWeddingKeeps ==
  ASSUME IInv, NEW c \in Client, FindWedding(c)
  PROVE  IInv'
  <1> DEFINE ok == wedding[call[c].user] # NoWedding
  <1>1. Read(c, "findWedding", ok, "updateWedding", "notFound")
    BY DEF FindWedding
  <1>2. call[c].op = "updateWedding" /\ call[c].user \in users
    BY <1>1 DEF Read, IInv, Fits
  <1>3. ok /\ pc'[c] = "updateWedding" /\ call'[c] = call[c] /\ call[c] # NoCall
           /\ read'[c] = NoItem /\ UNCHANGED db => Fits(c)'
    BY <1>2 DEF Fits, Ended, db
  <1>4. QED
    BY <1>1, <1>3, ReadKeeps DEF Waiting, Ended

LEMMA RequireWeddingKeeps ==
  ASSUME IInv, NEW c \in Client, RequireWedding(c)
  PROVE  IInv'
  <1> DEFINE k == call[c]
             ok == Scoped(k.user) /\ (k.op = "create" =>
                     assertChronological(k.kind, k.columns))
             to == IF k.op = "create" THEN "insertItem" ELSE "findItem"
  <1>1. Read(c, "requireWedding", ok, to, "badRequest")
    BY DEF RequireWedding
  <1>2. k.op \in {"create", "update", "remove"}
    BY <1>1 DEF Read, IInv, Fits
  <1>3. ok /\ pc'[c] = to /\ call'[c] = call[c] /\ call[c] # NoCall
           /\ read'[c] = NoItem /\ UNCHANGED db => Fits(c)'
    BY <1>2 DEF Fits, Ended, db, Scoped
  <1>4. ok \in BOOLEAN /\ to \in Waiting /\ to # "updateItem"
    BY DEF Waiting, Scoped, assertChronological
  <1> HIDE DEF ok, to
  <1>5. QED
    BY <1>1, <1>3, <1>4, ReadKeeps DEF Waiting, Ended

LEMMA FindItemKeeps ==
  ASSUME IInv, NEW c \in Client, FindItem(c)
  PROVE  IInv'
  <1> DEFINE k == call[c]
             existing == items[k.item]
  <1>1. pc[c] = "findItem" /\ UNCHANGED db /\ k.op \in {"update", "remove"}
    BY DEF FindItem, IInv, Fits
  <1>2. k \in Call /\ read[c] = NoItem
    BY <1>1 DEF IInv, Labels, Fits, Ended
  <1>3. k.item \in Item /\ k # NoCall
    BY <1>1, <1>2, CallFields
  <1>4. CASE Goto(c, "notFound")
    BY <1>1, <1>4, EndedFits, ReadingKeeps DEF Goto, IInv, Ended
  <1>5. CASE Goto(c, "badRequest")
    BY <1>1, <1>5, EndedFits, ReadingKeeps DEF Goto, IInv, Ended
  <1>7. CASE Owned(k) /\ k.op = "remove" /\ Goto(c, "deleteItem")
    <2>1. pc' = [pc EXCEPT ![c] = "deleteItem"] /\ UNCHANGED <<call, read>>
      BY <1>7 DEF Goto, Ended
    <2>2. Found(k)'
      BY <1>1, <1>3, <1>7, <2>1 DEF Owned, Found, db, Exists
    <2>3. Fits(c)'
      BY <1>2, <1>3, <1>7, <2>1, <2>2 DEF Fits, Ended, IInv, Labels
    <2>4. QED
      BY <1>1, <2>1, <2>3, ReadingKeeps DEF IInv, Labels, Waiting
  <1>8. CASE /\ Owned(k) /\ k.op = "update"
             /\ assertChronological(k.kind, Patched(existing.columns, k.patch))
             /\ pc' = [pc EXCEPT ![c] = "updateItem"]
             /\ read' = [read EXCEPT ![c] = existing]
             /\ UNCHANGED call
    <2>1. Found(k)' /\ existing \in Record /\ existing.kind = k.kind
      BY <1>1, <1>3, <1>8 DEF Owned, Found, db, Exists, IInv, Labels
    <2>2. pc'[c] = "updateItem" /\ read'[c] = existing /\ call'[c] = k
      BY <1>8 DEF IInv, Labels
    <2>3. Fits(c)'
      BY <1>3, <1>8, <2>1, <2>2 DEF Fits, Ended
    <2>4. QED
      BY <1>1, <1>8, <2>1, <2>3, ReadingKeeps DEF IInv, Labels, Waiting
  <1>9. QED
    BY <1>1, <1>4, <1>5, <1>7, <1>8 DEF FindItem

-----------------------------------------------------------------------------
(* The statements that write: each ends its call.                          *)
LEMMA WritingKeeps ==
  ASSUME IInv, NEW c \in Client, NEW label \in Ended, Goto(c, label), Advance,
         users' \subseteq Customer,
         wedding' \in [Customer -> Details \cup {NoWedding}],
         items' \in [Item -> Record \cup {NoItem, Deleted}],
         DOMAIN named' = Item,
         \A u \in Customer : wedding'[u] # NoWedding => u \in users',
         \A i \in Item : RowFits(i)'
  PROVE  IInv'
  <1>1. Labels'
    BY EndedFits DEF IInv, Labels
  <1>2. \A d \in Client : Fits(d)'
    BY EndedFits, OthersFit DEF IInv
  <1>3. QED
    BY <1>1, <1>2 DEF IInv

LEMMA InsertUserKeeps ==
  ASSUME IInv, NEW c \in Client, InsertUser(c)
  PROVE  IInv'
  <1>1. pc[c] = "insertUser" /\ UNCHANGED <<wedding, items, named>>
        /\ users' = users \cup {call[c].user}
    BY DEF InsertUser
  <1>2. call[c] \in Call
    BY <1>1 DEF IInv, Labels, Fits, Ended
  <1>3. PICK label \in Ended : Goto(c, label)
    BY DEF InsertUser, Ended
  <1>4. users' \subseteq Customer
    BY <1>1, <1>2, CallFields DEF IInv, Labels
  <1>5. \A i \in Item : RowFits(i)'
    BY <1>1 DEF IInv, RowFits, Exists
  <1>6. Advance
    BY <1>1 DEF Advance, Exists
  <1>7. QED
    BY <1>1, <1>3, <1>4, <1>5, <1>6, WritingKeeps DEF IInv, Labels

(* A wedding is written for a registered customer.                         *)
LEMMA WriteWeddingKeeps ==
  ASSUME IInv, NEW c \in Client, WriteWedding(c), Goto(c, "ok"),
         pc[c] \in {"insertWedding", "updateWedding"},
         UNCHANGED <<users, items, named>>
  PROVE  IInv'
  <1>1. call[c] \in Call /\ call[c].user \in users
        /\ call[c].op \in {"createWedding", "updateWedding"}
    BY DEF IInv, Labels, Fits, Ended
  <1>2. call[c].user \in Customer /\ call[c].details \in Details
    BY <1>1, CallFields
  <1>3. wedding' \in [Customer -> Details \cup {NoWedding}]
        /\ wedding'[call[c].user] = call[c].details
        /\ \A u \in Customer : u # call[c].user => wedding'[u] = wedding[u]
    BY <1>2 DEF WriteWedding, IInv, Labels
  <1>4. \A u \in Customer : wedding'[u] # NoWedding => u \in users'
    BY <1>1, <1>3 DEF IInv
  <1>5. \A u \in Customer : wedding[u] # NoWedding => wedding'[u] # NoWedding
    BY <1>2, <1>3, NothingAssumption
  <1>6. Advance
    BY <1>5 DEF Advance, Exists
  <1>7. ASSUME NEW i \in Item, Exists(i) PROVE items[i].owner \in Customer
    BY <1>7, RecordFields DEF IInv, Labels, Exists
  <1>8. \A i \in Item : RowFits(i)'
    BY <1>5, <1>7 DEF IInv, RowFits, Exists
  <1>9. QED
    BY <1>3, <1>4, <1>6, <1>8, WritingKeeps DEF IInv, Labels, Ended

LEMMA InsertWeddingKeeps ==
  ASSUME IInv, NEW c \in Client, InsertWedding(c)
  PROVE  IInv'
  <1>1. CASE WeddingTaken(call[c].user)
    <2>1. Goto(c, "error") /\ UNCHANGED db
      BY <1>1 DEF InsertWedding, db
    <2>2. QED
      BY <2>1, EndedFits, ReadingKeeps DEF Goto, IInv, Ended
  <1>2. CASE ~WeddingTaken(call[c].user)
    BY <1>2, WriteWeddingKeeps DEF InsertWedding
  <1>3. QED
    BY <1>1, <1>2

LEMMA UpdateWeddingKeeps ==
  ASSUME IInv, NEW c \in Client, UpdateWedding(c)
  PROVE  IInv'
  BY WriteWeddingKeeps DEF UpdateWedding

LEMMA InsertItemKeeps ==
  ASSUME IInv, NEW c \in Client, NEW i \in Item, InsertItem(c, i)
  PROVE  IInv'
  <1> DEFINE k == call[c]
             row == [kind |-> k.kind, owner |-> k.user, columns |-> k.columns]
  <1>1. /\ pc[c] = "insertItem" /\ items[i] = NoItem
        /\ UNCHANGED <<users, wedding>> /\ Goto(c, "ok")
        /\ items' = [items EXCEPT ![i] = row]
        /\ named' = [named EXCEPT ![i] = k.columns]
    BY DEF InsertItem
  <1>2. /\ k \in Call /\ k.op = "create" /\ wedding[k.user] # NoWedding
        /\ assertChronological(k.kind, k.columns)
    BY <1>1 DEF IInv, Labels, Fits, Ended
  <1>3. row \in Record
    BY <1>2, CallFields, RecordMade
  <1>4. /\ items' \in [Item -> Record \cup {NoItem, Deleted}]
        /\ items'[i] = row
        /\ \A j \in Item : j # i => items'[j] = items[j] /\ named'[j] = named[j]
        /\ DOMAIN named' = Item /\ named'[i] = k.columns
    BY <1>1, <1>3 DEF IInv, Labels
  <1>5. Advance
    BY <1>1, <1>4 DEF Advance, Exists
  <1>6. \A j \in Item : RowFits(j)'
    BY <1>1, <1>2, <1>4 DEF IInv, RowFits, Exists
  <1>7. QED
    BY <1>1, <1>4, <1>5, <1>6, WritingKeeps DEF IInv, Labels, Ended

(* What update writes are columns of the row's kind; of an event they are  *)
(* the two times checked before, of the others what was named.             *)
LEMMA WrittenFacts ==
  ASSUME NEW k \in Call, k.op = "update", NEW r \in Record, r.kind = k.kind,
         NEW f \in Columns(k.kind)
  PROVE  /\ Patched(f, Written(k, r)) \in Columns(k.kind)
         /\ k.kind = Event =>
              Patched(f, Written(k, r)) = Patched(r.columns, k.patch)
         /\ k.kind = Row => Written(k, r) = k.patch
  <1>1. k.kind \in Kind /\ k.patch \in Patch(k.kind)
    BY CallFields
  <1>2. r.columns \in Columns(k.kind)
    BY RecordFields
  <1>3. /\ Patched(f, k.patch) \in Columns(k.kind)
        /\ Patched(r.columns, k.patch) \in Columns(k.kind)
        /\ Patched(f, Patched(r.columns, k.patch)) = Patched(r.columns, k.patch)
    BY <1>1, <1>2, PatchedFacts
  <1>4. k.kind = Row => k.kind # Event
    BY DEF Row, Event
  <1>5. QED
    BY <1>1, <1>3, <1>4 DEF Written

LEMMA UpdateItemKeeps ==
  ASSUME IInv, NEW c \in Client, UpdateItem(c)
  PROVE  IInv'
  <1> DEFINE k == call[c]
  <1>1. pc[c] = "updateItem" /\ UNCHANGED <<users, wedding>>
    BY DEF UpdateItem
  <1>2. /\ k \in Call /\ k.op = "update" /\ Found(k)
        /\ read[c] \in Record /\ read[c].kind = k.kind
        /\ assertChronological(k.kind, Patched(read[c].columns, k.patch))
    BY <1>1 DEF IInv, Labels, Fits, Ended
  <1>3. PICK i \in Item : i = k.item
    BY <1>2, CallFields
  <1> DEFINE new == Patched(items[i].columns, Written(k, read[c]))
  <1>4. CASE ~Exists(i)
    <2>1. Goto(c, "error") /\ UNCHANGED db
      BY <1>3, <1>4 DEF UpdateItem, db
    <2>2. QED
      BY <2>1, EndedFits, ReadingKeeps DEF Goto, IInv, Ended
  <1>5. CASE Exists(i)
    <2>1. /\ items' = [items EXCEPT ![i].columns = new] /\ Goto(c, "ok")
          /\ named' = [named EXCEPT ![i] = Patched(@, k.patch)]
      BY <1>3, <1>5 DEF UpdateItem
    <2>2. /\ items[i] \in Record /\ items[i].kind = k.kind
          /\ items[i].owner = k.user /\ RowFits(i)
      BY <1>2, <1>3, <1>5 DEF IInv, Labels, Exists, Found
    <2>3. /\ items[i].columns \in Columns(k.kind)
          /\ items[i] = [kind |-> k.kind, owner |-> k.user,
                         columns |-> items[i].columns]
      BY <2>2, RecordFields
    <2>4. /\ new \in Columns(k.kind)
          /\ k.kind = Event => new = Patched(read[c].columns, k.patch)
          /\ k.kind = Row => new = Patched(items[i].columns, k.patch)
      BY <1>2, <2>3, WrittenFacts
    <2>5. [items[i] EXCEPT !.columns = new] =
            [kind |-> k.kind, owner |-> k.user, columns |-> new]
      BY <2>3
    <2>6. [items[i] EXCEPT !.columns = new] \in Record
      BY <1>2, <1>3, <2>4, <2>5, CallFields, RecordMade
    <2>7. /\ items' \in [Item -> Record \cup {NoItem, Deleted}]
          /\ items'[i] = [items[i] EXCEPT !.columns = new]
          /\ \A j \in Item : j # i => items'[j] = items[j] /\ named'[j] = named[j]
          /\ DOMAIN named' = Item /\ named'[i] = Patched(named[i], k.patch)
      BY <1>3, <2>1, <2>6 DEF IInv, Labels
    <2>8. items'[i].kind = k.kind /\ items'[i].owner = k.user
          /\ items'[i].columns = new
      BY <2>5, <2>7
    <2>9. Advance
      BY <1>1, <1>5, <2>2, <2>6, <2>7, <2>8, NothingAssumption
         DEF Advance, Exists
    <2>10. RowFits(i)'
      <3>1. wedding'[items'[i].owner] # NoWedding
        BY <1>1, <1>5, <2>2, <2>8 DEF RowFits
      <3>2. assertChronological(items'[i].kind, items'[i].columns)
        BY <1>2, <2>4, <2>8 DEF assertChronological
      <3>3. items'[i].kind = Row => items'[i].columns = named'[i]
        BY <1>5, <2>2, <2>4, <2>7, <2>8 DEF RowFits
      <3>4. QED
        BY <3>1, <3>2, <3>3 DEF RowFits
    <2>11. ASSUME NEW j \in Item PROVE RowFits(j)'
      <3>1. CASE j # i
        <4>1. items'[j] = items[j] /\ named'[j] = named[j] /\ RowFits(j)
          BY <2>7, <3>1 DEF IInv
        <4>2. QED
          BY <1>1, <4>1 DEF RowFits, Exists
      <3>2. QED
        BY <2>10, <3>1
    <2>12. QED
      BY <1>1, <2>1, <2>7, <2>9, <2>11, WritingKeeps DEF IInv, Labels, Ended
  <1>6. QED
    BY <1>4, <1>5

LEMMA DeleteItemKeeps ==
  ASSUME IInv, NEW c \in Client, DeleteItem(c)
  PROVE  IInv'
  <1> DEFINE k == call[c]
             i == k.item
  <1>1. pc[c] = "deleteItem" /\ UNCHANGED <<users, wedding>>
    BY DEF DeleteItem
  <1>2. k \in Call /\ k.op = "remove"
    BY <1>1 DEF IInv, Labels, Fits, Ended
  <1>3. i \in Item
    BY <1>2, CallFields
  <1>4. CASE ~Exists(i)
    <2>1. Goto(c, "error") /\ UNCHANGED db
      BY <1>4 DEF DeleteItem, db
    <2>2. QED
      BY <2>1, EndedFits, ReadingKeeps DEF Goto, IInv, Ended
  <1>5. CASE Exists(i)
    <2>1. /\ items' = [items EXCEPT ![i] = Deleted] /\ Goto(c, "ok")
          /\ named' = [named EXCEPT ![i] = NoItem]
      BY <1>5 DEF DeleteItem
    <2>2. /\ items' \in [Item -> Record \cup {NoItem, Deleted}]
          /\ items'[i] = Deleted
          /\ \A j \in Item : j # i => items'[j] = items[j] /\ named'[j] = named[j]
          /\ DOMAIN named' = Item
      BY <1>3, <2>1 DEF IInv, Labels
    <2>3. Advance
      BY <1>1, <2>2, NothingAssumption DEF Advance, Exists
    <2>4. \A j \in Item : RowFits(j)'
      BY <1>1, <2>2 DEF IInv, RowFits, Exists
    <2>5. QED
      BY <1>1, <2>1, <2>2, <2>3, <2>4, WritingKeeps DEF IInv, Labels, Ended
  <1>6. QED
    BY <1>4, <1>5

-----------------------------------------------------------------------------
LEMMA InitEstablishes ==
  ASSUME Init PROVE IInv
  BY NothingAssumption DEF Init, IInv, Labels, RowFits, Fits, Exists, Ended,
     Waiting

LEMMA NextKeeps ==
  ASSUME IInv, [Next]_vars PROVE IInv'
  <1>1. CASE UNCHANGED vars
    <2>1. Labels'
      BY <1>1 DEF vars, db, IInv, Labels
    <2>2. \A i \in Item : RowFits(i)'
      BY <1>1 DEF vars, db, IInv, RowFits, Exists
    <2>3. Advance
      BY <1>1 DEF vars, db, Advance, Exists
    <2>4. \A c \in Client : Fits(c)'
      BY <1>1, <2>3, OthersFit DEF IInv, vars
    <2>5. QED
      BY <1>1, <2>1, <2>2, <2>4 DEF IInv, vars, db
  <1>2. CASE Next
    BY <1>2, ReceiveKeeps, FindUserKeeps, InsertUserKeeps, FindNoWeddingKeeps,
       InsertWeddingKeeps, FindWeddingKeeps, UpdateWeddingKeeps,
       RequireWeddingKeeps, InsertItemKeeps, FindItemKeeps, UpdateItemKeeps,
       DeleteItemKeeps DEF Next
  <1>3. QED
    BY <1>1, <1>2

(* The inductive invariant: what calls know and rows hold, always.         *)
THEOREM PlanningInvariant == Spec => []IInv
  BY InitEstablishes, NextKeeps, PTL DEF Spec

(* The types; a customer with a wedding is registered, a row's owner has a *)
(* wedding (the foreign keys, and what requireWedding assures).            *)
THEOREM TypeCorrect == Spec => []TypeOK
  <1>1. IInv => TypeOK
    BY DEF IInv, TypeOK, Labels, RowFits, Fits, Ended
  <1>2. QED
    BY <1>1, PlanningInvariant, PTL

(* Every event ends after it starts, whatever PATCHes run at once          *)
(* (EventService.update).                                                  *)
THEOREM EventsStayChronological == Spec => []EventsChronological
  <1>1. IInv => EventsChronological
    BY DEF IInv, EventsChronological, RowFits
  <1>2. QED
    BY <1>1, PlanningInvariant, PTL

(* No concurrent PATCH of a guest, an expense or a task undoes another     *)
(* (GuestService.update, ExpenseService.update, TaskService.update).       *)
THEOREM NoColumnIsLost == Spec => []NoLostColumn
  <1>1. IInv => NoLostColumn
    BY DEF IInv, NoLostColumn, RowFits
  <1>2. QED
    BY <1>1, PlanningInvariant, PTL

-----------------------------------------------------------------------------
(* Which actions change rows, and which weddings.                          *)
LEMMA RowsChange ==
  ASSUME IInv, NEW c \in Client, NEW i \in Item,
         UpdateItem(c) \/ DeleteItem(c), items'[i] # items[i]
  PROVE  /\ i = call[c].item /\ Found(call[c])
         /\ call[c].op \in {"update", "remove"}
  BY DEF IInv, Labels, Fits, UpdateItem, DeleteItem

LEMMA StepsChange ==
  ASSUME IInv, NEW c \in Client,
         \/ \E k \in Call : Receive(c, k)
         \/ FindUser(c) \/ InsertUser(c)
         \/ FindNoWedding(c) \/ InsertWedding(c)
         \/ FindWedding(c) \/ UpdateWedding(c)
         \/ RequireWedding(c) \/ \E i \in Item : InsertItem(c, i)
         \/ FindItem(c) \/ UpdateItem(c) \/ DeleteItem(c)
  PROVE  /\ \A d \in Client : d # c => pc'[d] = pc[d]
         /\ \A i \in Item : items[i] # NoItem /\ items'[i] # items[i] =>
              /\ i = call[c].item /\ Found(call[c])
              /\ call[c].op \in {"update", "remove"}
         /\ \A u \in Customer : wedding[u] # NoWedding /\ wedding'[u] # wedding[u]
              => call[c].op = "updateWedding"
  <1>1. CASE \E k \in Call : Receive(c, k)
    BY <1>1 DEF Receive, db, IInv, Labels
  <1>2. CASE FindUser(c) \/ FindNoWedding(c) \/ FindWedding(c) \/ RequireWedding(c)
    BY <1>2 DEF FindUser, FindNoWedding, FindWedding, RequireWedding, Read,
                Goto, db, IInv, Labels
  <1>3. CASE InsertUser(c)
    BY <1>3 DEF InsertUser, Goto, IInv, Labels
  <1>4. CASE InsertWedding(c)
    <2>1. CASE WeddingTaken(call[c].user)
      BY <1>4, <2>1 DEF InsertWedding, Goto, IInv, Labels
    <2>2. CASE ~WeddingTaken(call[c].user)
      BY <1>4, <2>2 DEF InsertWedding, WriteWedding, WeddingTaken, Goto, IInv,
                        Labels
    <2>3. QED
      BY <2>1, <2>2
  <1>5. CASE UpdateWedding(c)
    <2>1. call[c].op = "updateWedding"
      BY <1>5 DEF UpdateWedding, IInv, Fits
    <2>2. QED
      BY <1>5, <2>1 DEF UpdateWedding, Goto, IInv, Labels
  <1>6. ASSUME NEW i \in Item, InsertItem(c, i)
        PROVE  /\ \A d \in Client : d # c => pc'[d] = pc[d]
               /\ \A j \in Item : items[j] # NoItem => items'[j] = items[j]
               /\ wedding' = wedding
    BY <1>6 DEF InsertItem, Goto, IInv, Labels
  <1>7. CASE FindItem(c)
    BY <1>7 DEF FindItem, Goto, db, IInv, Labels
  <1>8. CASE UpdateItem(c) \/ DeleteItem(c)
    <2>1. (\A d \in Client : d # c => pc'[d] = pc[d]) /\ wedding' = wedding
      BY <1>8 DEF UpdateItem, DeleteItem, Goto, IInv, Labels
    <2>2. QED
      BY <1>8, <2>1, RowsChange
  <1>9. QED
    BY <1>1, <1>2, <1>3, <1>4, <1>5, <1>6, <1>7, <1>8

(* Only its owner's calls write a row, although the statement that writes  *)
(* it names no owner (findOwned of the four services).                     *)
THEOREM OwnersWrite == Spec => OnlyTheOwnerWrites
  <1> DEFINE Owners == \A i \in Item, c \in Client :
        items'[i] # items[i] /\ Exists(i) /\ pc[c] # pc'[c] =>
          items[i].owner = call[c].user /\ items[i].kind = call[c].kind
  <1>1. ASSUME IInv, Next PROVE Owners
    <2>1. PICK c \in Client :
            /\ \A d \in Client : d # c => pc'[d] = pc[d]
            /\ \A i \in Item : items[i] # NoItem /\ items'[i] # items[i] =>
                 i = call[c].item /\ Found(call[c])
      BY <1>1, StepsChange DEF Next
    <2>2. QED
      BY <2>1 DEF Exists, Found
  <1>2. ASSUME IInv, [Next]_vars PROVE [Owners]_vars
    BY <1>1, <1>2
  <1>3. QED
    BY <1>2, PlanningInvariant, PTL DEF Spec, OnlyTheOwnerWrites

(* No create replaces a wedding or a row (the unique index on customerId;  *)
(* row ids are never used again).                                          *)
THEOREM CreatesReplace == Spec => CreatesReplaceNothing
  <1> DEFINE Kept == \A c \in Client :
        call[c] # NoCall /\ call[c].op \in {"createWedding", "create"}
          /\ pc'[c] # pc[c] =>
            /\ \A u \in Customer :
                 wedding[u] # NoWedding => wedding'[u] = wedding[u]
            /\ \A i \in Item : items[i] # NoItem => items'[i] = items[i]
  <1>1. ASSUME IInv, Next PROVE Kept
    <2>1. PICK c \in Client :
            /\ \A d \in Client : d # c => pc'[d] = pc[d]
            /\ \A i \in Item : items[i] # NoItem /\ items'[i] # items[i] =>
                 call[c].op \in {"update", "remove"}
            /\ \A u \in Customer :
                 wedding[u] # NoWedding /\ wedding'[u] # wedding[u] =>
                   call[c].op = "updateWedding"
      BY <1>1, StepsChange DEF Next
    <2>2. QED
      BY <2>1
  <1>2. ASSUME IInv, [Next]_vars PROVE [Kept]_vars
    BY <1>1, <1>2
  <1>3. QED
    BY <1>2, PlanningInvariant, PTL DEF Spec, CreatesReplaceNothing
=============================================================================
