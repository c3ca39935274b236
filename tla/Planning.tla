------------------------------ MODULE Planning ------------------------------
(***************************************************************************)
(* The planning data of the customers: AuthService.register, the wedding   *)
(* (CustomerService.createWedding, updateWedding) and the handlers of      *)
(* guests, expenses, tasks and events (GuestService, ExpenseService,       *)
(* TaskService, EventService under src/backend/src/customer).              *)
(*                                                                         *)
(* The four item services have one shape: resolve the wedding of the       *)
(* caller, read the item by its id and that wedding, write it by its id.   *)
(* A PATCH of a guest, an expense or a task writes the columns it names;   *)
(* that of an event always writes both times.  An item stands for one row, *)
(* with two columns: startTime and endTime of an event, the amount and     *)
(* isPaid of an expense, and so on; the other columns are left out.        *)
(*                                                                         *)
(* A client makes one call after another.  A statement and the code up to  *)
(* the next await are one action.                                          *)
(***************************************************************************)
EXTENDS Naturals, FiniteSets

CONSTANTS Client,       \* concurrent callers
          Customer,     \* the email addresses customers register with
          Item,         \* the row ids that are ever created
          Time,         \* bound: the times of an event
          Datum,        \* bound: the column values of the other rows
          Details,      \* bound: the details of a wedding
          NoWedding, NoItem, Deleted, NoCall

ASSUME TimeAssumption == Time \subseteq Nat
VARIABLES users,        \* the registered customers
          wedding,      \* wedding[u]: its details, or NoWedding
          items,        \* the rows
          named,        \* history: the columns as the calls last named them
          pc,           \* what each client's call awaits, or how it ended
          call,         \* what it was called with
          read          \* the row it has read and not used yet

db == <<users, wedding, items, named>>
vars == <<db, pc, call, read>>

Column == {"first", "second"}
Event == "event"
Row == "row"              \* a guest, an expense or a task
Kind == {Event, Row}
ValueOf(kind) == IF kind = Event THEN Time ELSE Datum
Columns(kind) == [Column -> ValueOf(kind)]
Patch(kind) == UNION {[S -> ValueOf(kind)] : S \in SUBSET Column}
Record == UNION {[kind : {kind}, owner : Customer, columns : Columns(kind)] :
                   kind \in Kind}

Call == [op : {"register"}, user : Customer]
          \cup [op : {"createWedding", "updateWedding"}, user : Customer,
                details : Details]
          \cup (UNION {[op : {"create"}, user : Customer, kind : {kind},
                        columns : Columns(kind)] : kind \in Kind})
          \cup (UNION {[op : {"update"}, user : Customer, kind : {kind},
                        item : Item, patch : Patch(kind)] : kind \in Kind})
          \cup [op : {"remove"}, user : Customer, kind : Kind, item : Item]

(* The null values are no values.                                          *)
ASSUME NothingAssumption ==
  /\ NoWedding \notin Details
  /\ NoItem \notin Record /\ Deleted \notin Record /\ NoItem # Deleted
  /\ NoCall \notin Call

Waiting == {"findUser", "insertUser", "findNoWedding", "insertWedding",
            "findWedding", "updateWedding", "requireWedding", "insertItem",
            "findItem", "updateItem", "deleteItem"}
Ended == {"idle", "ok", "badRequest", "notFound", "conflict", "error"}

Init ==
  /\ users = {}
  /\ wedding = [u \in Customer |-> NoWedding]
  /\ items = [i \in Item |-> NoItem]
  /\ named = [i \in Item |-> NoItem]
  /\ pc = [c \in Client |-> "idle"]
  /\ call = [c \in Client |-> NoCall]
  /\ read = [c \in Client |-> NoItem]

(* A call that has ended leaves nothing of itself.                         *)
Goto(c, label) ==
  /\ pc' = [pc EXCEPT ![c] = label]
  /\ call' = IF label \in Ended THEN [call EXCEPT ![c] = NoCall] ELSE call
  /\ read' = IF label \in Ended THEN [read EXCEPT ![c] = NoItem] ELSE read

(* Await-to-await steps that only read: the outcome decides where to go.   *)
Read(c, from, ok, to, failure) ==
  /\ pc[c] = from
  /\ Goto(c, IF ok THEN to ELSE failure)
  /\ UNCHANGED db

(* Bound: a create comes only while a row id is left for it.               *)
IdLeft ==
  Cardinality({i \in Item : items[i] = NoItem}) >
    Cardinality({c \in Client : call[c] # NoCall /\ call[c].op = "create"})

(* A call arrives; all but register carry the token of a registered user.  *)
Receive(c, k) ==
  /\ pc[c] \in Ended
  /\ k.op # "register" => k.user \in users
  /\ k.op = "create" => IdLeft
  /\ call' = [call EXCEPT ![c] = k]
  /\ pc' = [pc EXCEPT ![c] = CASE k.op = "register"      -> "findUser"
                                [] k.op = "createWedding" -> "findNoWedding"
                                [] k.op = "updateWedding" -> "findWedding"
                                [] OTHER                  -> "requireWedding"]
  /\ UNCHANGED <<db, read>>

-----------------------------------------------------------------------------
(* register: the email is looked up, the password hashed, the user created;*)
(* the unique index on email answers P2002, which nothing catches.         *)
FindUser(c) ==
  Read(c, "findUser", call[c].user \notin users, "insertUser", "conflict")

InsertUser(c) ==
  /\ pc[c] = "insertUser"
  /\ users' = users \cup {call[c].user}
  /\ Goto(c, IF call[c].user \in users THEN "error" ELSE "ok")
  /\ UNCHANGED <<wedding, items, named>>

-----------------------------------------------------------------------------
(* createWedding, with the same two steps, and updateWedding.              *)
FindNoWedding(c) ==
  Read(c, "findNoWedding", wedding[call[c].user] = NoWedding,
       "insertWedding", "conflict")

(* @unique customerId; the mutant has no such index, and the wedding it    *)
(* creates beside the first shows as a replacement of the first, which has *)
(* no place in a function of the customer.                                 *)
WeddingNeverTaken(u) == FALSE
WeddingTaken(u) == wedding[u] # NoWedding

WriteWedding(c) == wedding' = [wedding EXCEPT ![call[c].user] = call[c].details]

InsertWedding(c) ==
  /\ pc[c] = "insertWedding"
  /\ IF WeddingTaken(call[c].user)
     THEN Goto(c, "error") /\ UNCHANGED wedding
     ELSE Goto(c, "ok") /\ WriteWedding(c)
  /\ UNCHANGED <<users, items, named>>

FindWedding(c) ==
  Read(c, "findWedding", wedding[call[c].user] # NoWedding,
       "updateWedding", "notFound")

UpdateWedding(c) ==
  /\ pc[c] = "updateWedding"
  /\ Goto(c, "ok")
  /\ WriteWedding(c)
  /\ UNCHANGED <<users, items, named>>

-----------------------------------------------------------------------------
assertChronological(kind, columns) ==
  kind = Event => columns["second"] > columns["first"]

(* WeddingScopeService.requireWedding                                      *)
Scoped(u) == wedding[u] # NoWedding

RequireWedding(c) ==
  LET k == call[c]
      valid == k.op = "create" => assertChronological(k.kind, k.columns)
  IN Read(c, "requireWedding", Scoped(k.user) /\ valid,
          IF k.op = "create" THEN "insertItem" ELSE "findItem", "badRequest")

InsertItem(c, i) ==
  LET k == call[c] IN
  /\ pc[c] = "insertItem"
  /\ items[i] = NoItem
  /\ items' = [items EXCEPT ![i] =
       [kind |-> k.kind, owner |-> k.user, columns |-> k.columns]]
  /\ named' = [named EXCEPT ![i] = k.columns]
  /\ Goto(c, "ok")
  /\ UNCHANGED <<users, wedding>>

Exists(i) == items[i] \notin {NoItem, Deleted}

(* findOwned, and the mutant that looks the row up by id only.             *)
ExistsById(k) == Exists(k.item) /\ items[k.item].kind = k.kind
Owned(k) ==
  /\ Exists(k.item)
  /\ items[k.item].kind = k.kind
  /\ items[k.item].owner = k.user

(* f overridden by the columns that a patch names.                         *)
Patched(f, patch) ==
  [x \in Column |-> IF x \in DOMAIN patch THEN patch[x] ELSE f[x]]

FindItem(c) ==
  LET k == call[c]
      existing == items[k.item]
      valid == k.op = "update" =>
                 assertChronological(k.kind, Patched(existing.columns, k.patch))
  IN
  /\ pc[c] = "findItem"
  /\ UNCHANGED db
  /\ \/ ~Owned(k) /\ Goto(c, "notFound")
     \/ Owned(k) /\ ~valid /\ Goto(c, "badRequest")
     \/ Owned(k) /\ valid /\ k.op = "remove" /\ Goto(c, "deleteItem")
     \/ /\ Owned(k) /\ valid /\ k.op = "update"
        /\ pc' = [pc EXCEPT ![c] = "updateItem"]
        /\ read' = [read EXCEPT ![c] = existing]
        /\ UNCHANGED call

(* What update writes: of an event both times, as computed from the row    *)
(* that was read; of the others the columns named.  The mutants do for all *)
(* what the code does for the others, and for events.                      *)
WrittenByName(k, existing) == k.patch
WrittenWhole(k, existing) == Patched(existing.columns, k.patch)
Written(k, existing) ==
  IF k.kind = Event THEN Patched(existing.columns, k.patch) ELSE k.patch

(* update({id}); a row that is gone is an error.                           *)
UpdateItem(c) ==
  LET k == call[c]
      i == k.item
  IN
  /\ pc[c] = "updateItem"
  /\ IF ~Exists(i)
     THEN Goto(c, "error") /\ UNCHANGED <<items, named>>
     ELSE /\ items' = [items EXCEPT ![i].columns =
                         Patched(@, Written(k, read[c]))]
          /\ named' = [named EXCEPT ![i] = Patched(@, k.patch)]
          /\ Goto(c, "ok")
  /\ UNCHANGED <<users, wedding>>

(* delete({id}); a row that is gone is an error.                           *)
DeleteItem(c) ==
  LET i == call[c].item IN
  /\ pc[c] = "deleteItem"
  /\ IF ~Exists(i)
     THEN Goto(c, "error") /\ UNCHANGED <<items, named>>
     ELSE /\ items' = [items EXCEPT ![i] = Deleted]
          /\ named' = [named EXCEPT ![i] = NoItem]
          /\ Goto(c, "ok")
  /\ UNCHANGED <<users, wedding>>

-----------------------------------------------------------------------------
Next ==
  \E c \in Client :
    \/ \E k \in Call : Receive(c, k)
    \/ FindUser(c) \/ InsertUser(c)
    \/ FindNoWedding(c) \/ InsertWedding(c)
    \/ FindWedding(c) \/ UpdateWedding(c)
    \/ RequireWedding(c) \/ \E i \in Item : InsertItem(c, i)
    \/ FindItem(c) \/ UpdateItem(c) \/ DeleteItem(c)

Spec == Init /\ [][Next]_vars

-----------------------------------------------------------------------------
(* The types, and that what is awaited fits the call: customers are        *)
(* registered before they have a wedding and have one before they have     *)
(* items, although the wedding was read by an earlier statement.           *)
TypeOK ==
  /\ users \subseteq Customer
  /\ wedding \in [Customer -> Details \cup {NoWedding}]
  /\ items \in [Item -> Record \cup {NoItem, Deleted}]
  /\ pc \in [Client -> Waiting \cup Ended]
  /\ \A c \in Client :
       /\ (call[c] = NoCall) <=> (pc[c] \in Ended)
       /\ call[c] # NoCall => call[c] \in Call
       /\ read[c] # NoItem => read[c] \in Record /\ pc[c] = "updateItem"
  /\ \A u \in Customer : wedding[u] # NoWedding => u \in users
  /\ \A i \in Item : Exists(i) => wedding[items[i].owner] # NoWedding

(* An event ends after it starts, whatever PATCHes run at once: each was   *)
(* checked against times that another may have replaced since, and what it *)
(* then writes are both times it checked (event.service.ts, update).       *)
EventsChronological ==
  \A i \in Item : Exists(i) =>
    assertChronological(items[i].kind, items[i].columns)

(* Concurrent PATCHes of a guest, an expense or a task lose nothing: each  *)
(* column holds what the last write that named it said, although each call *)
(* first read the whole row.  Of events this is false of the code.         *)
NoLostColumn ==
  \A i \in Item : Exists(i) /\ items[i].kind = Row =>
    items[i].columns = named[i]

(* A row is changed or deleted only by a call of the customer who owns it, *)
(* though the write itself names no owner (findOwned, then update({id})).  *)
OnlyTheOwnerWrites ==
  [][\A i \in Item, c \in Client :
       items'[i] # items[i] /\ Exists(i) /\ pc[c] # pc'[c] =>
         items[i].owner = call[c].user /\ items[i].kind = call[c].kind]_vars

(* Of several createWedding calls that all found no wedding, one creates   *)
(* it; none replaces its details, and a deleted row stays deleted.         *)
CreatesReplaceNothing ==
  [][\A c \in Client :
       call[c] # NoCall /\ call[c].op \in {"createWedding", "create"}
         /\ pc'[c] # pc[c] =>
           /\ \A u \in Customer :
                wedding[u] # NoWedding => wedding'[u] = wedding[u]
           /\ \A i \in Item : items[i] # NoItem => items'[i] = items[i]]_vars
=============================================================================
