------------------------------ MODULE Accounts ------------------------------
(***************************************************************************)
(* Who may do what: AuthService (src/backend/src/auth/auth.service.ts),    *)
(* JwtStrategy, RolesGuard and the roles that the controllers demand.      *)
(*                                                                         *)
(* A client registers, logs in and visits guarded handlers with the token  *)
(* it was given last.  A database statement with the code up to the next   *)
(* await is one action; bcrypt.hash and bcrypt.compare only add time.      *)
(* bcrypt compares true exactly with the password that was hashed, so the  *)
(* password stands for its hash; a signed token cannot be forged.          *)
(***************************************************************************)
EXTENDS Naturals, FiniteSets

CONSTANTS Client,
          Address,      \* the spellings of email addresses
          Lower,        \* Lower[a]: a in lower case
          Password,
          UserId,       \* the ids of users
          FreshId,      \* the ids (uuids) that registrations generate
          Typed,        \* bound: the spellings the clients type
          Placeholder,  \* a hash that is the hash of nothing
          NoUser, NoToken, NoCall

ASSUME LowerAssumption ==
  Lower \in [Address -> Address] /\ \A a \in Address : Lower[Lower[a]] = Lower[a]
ASSUME BoundsAssumption == Typed \subseteq Address /\ FreshId \subseteq UserId

VARIABLES users,        \* the table
          pc,           \* what each client's call awaits, or how it ended
          call,         \* what it was called with
          read,         \* the id of the user it has read and not used yet
          token         \* what each client holds

accountVars == <<users, pc, call, read, token>>

UserRole == {"CUSTOMER", "VENDOR", "ADMIN"}
User == [email : Address, passwordHash : Password \cup {Placeholder},
         role : UserRole]
(* A token names its user; password is history: what it was given for.     *)
Token == [sub : UserId, password : Password]

-----------------------------------------------------------------------------
(* The controllers: the first segment of the path and the roles in the     *)
(* metadata of the handler and of the class; the empty set is undefined.   *)
RolesOnHandler(path, role) == [path |-> path, handler |-> {role}, class |-> {}]
RolesOnClass(path, role) == [path |-> path, handler |-> {}, class |-> {role}]

CustomerController == RolesOnHandler("customer", "CUSTOMER")
PlanningController == RolesOnClass("customer", "CUSTOMER")
ResourceController == RolesOnClass("customer", "CUSTOMER")
ProcessController == RolesOnClass("customer", "CUSTOMER")
SchedulingController == RolesOnClass("customer", "CUSTOMER")
SyncController == RolesOnClass("customer", "CUSTOMER")
VendorController == RolesOnHandler("vendor", "VENDOR")
(* GET auth/me: no role, and no RolesGuard either.                         *)
AuthController == [path |-> "auth", handler |-> {}, class |-> {}]

Route == {CustomerController, PlanningController, ResourceController,
          ProcessController, SchedulingController, SyncController,
          VendorController, AuthController}

(* getAllAndOverride(ROLES_KEY, [handler, class]) and the mutant that      *)
(* looks at the class only.                                                *)
RolesOfClass(route) == route.class
RequiredRoles(route) ==
  IF route.handler # {} THEN route.handler ELSE route.class

(* RolesGuard.canActivate, of a request that JwtAuthGuard let through.     *)
canActivate(route, role) ==
  RequiredRoles(route) = {} \/ role \in RequiredRoles(route)

-----------------------------------------------------------------------------
Call == [op : {"register"}, email : Typed, password : Password, role : UserRole]
          \cup [op : {"login"}, email : Typed, password : Password]
          \cup [op : {"visit"}, route : Route]

ASSUME NothingAssumption ==
  /\ NoUser \notin User \cup UserId
  /\ NoToken \notin Token
  /\ NoCall \notin Call
  /\ Placeholder \notin Password

Waiting == {"findEmail", "createUser", "findLogin", "compare", "validate",
            "handler"}
Ended == {"idle", "ok", "unauthorized", "forbidden", "conflict", "error"}

AccountsInit ==
  /\ users = [i \in UserId |-> NoUser]
  /\ pc = [c \in Client |-> "idle"]
  /\ call = [c \in Client |-> NoCall]
  /\ read = [c \in Client |-> NoUser]
  /\ token = [c \in Client |-> NoToken]

(* A call that has ended leaves nothing of itself.                         *)
Goto(c, label) ==
  /\ pc' = [pc EXCEPT ![c] = label]
  /\ call' = IF label \in Ended THEN [call EXCEPT ![c] = NoCall] ELSE call
  /\ read' = IF label \in Ended THEN [read EXCEPT ![c] = NoUser] ELSE read

Taken(i) == users[i] # NoUser
Holders(email) == {i \in UserId : Taken(i) /\ users[i].email = email}

(* dto.email.toLowerCase().trim(), at registration and at login; IsEmail   *)
(* has refused surrounding blanks.  The mutants keep the case.             *)
AsTyped(c) == call[c].email
RegisteredEmail(c) == Lower[call[c].email]
LoginEmail(c) == Lower[call[c].email]

(* The token of user i, sent with the answer.                              *)
Sign(c, i) == token' = [token EXCEPT ![c] = [sub |-> i,
                                             password |-> call[c].password]]

(* A call arrives.  Without a token the guard refuses a visit at once, and *)
(* the service refuses an ADMIN at once.                                   *)
RefusedAtOnce(c, k) ==
  \/ k.op = "visit" /\ token[c] = NoToken
  \/ k.op = "register" /\ k.role = "ADMIN"

Receive(c, k) ==
  /\ pc[c] \in Ended
  /\ IF RefusedAtOnce(c, k)
     THEN /\ pc' = [pc EXCEPT ![c] = "unauthorized"]
          /\ UNCHANGED <<call, read>>
     ELSE /\ pc' = [pc EXCEPT ![c] = CASE k.op = "register" -> "findEmail"
                                       [] k.op = "login"    -> "findLogin"
                                       [] k.op = "visit"    -> "validate"]
          /\ call' = [call EXCEPT ![c] = k]
          (* Of a visit: the sub of the token it brings.                   *)
          /\ read' = IF k.op = "visit" THEN [read EXCEPT ![c] = token[c].sub]
                                       ELSE read
  /\ UNCHANGED <<users, token>>

-----------------------------------------------------------------------------
(* register: the email is looked up, the password hashed ...               *)
FindEmail(c) ==
  /\ pc[c] = "findEmail"
  /\ Goto(c, IF Holders(RegisteredEmail(c)) = {} THEN "createUser"
                                                 ELSE "conflict")
  /\ UNCHANGED <<users, token>>

(* ... and the user created.  The unique index on email answers P2002,     *)
(* which nothing catches: a server error, and no token.                    *)
NewUser(c) == [email |-> RegisteredEmail(c), passwordHash |-> call[c].password,
               role |-> call[c].role]

(* Mutant: an upsert by email.                                             *)
UpsertUser(c) ==
  /\ pc[c] = "createUser"
  /\ \E i \in FreshId :
       /\ IF Holders(RegisteredEmail(c)) = {}
          THEN ~Taken(i) ELSE i \in Holders(RegisteredEmail(c))
       /\ users' = [users EXCEPT ![i] = NewUser(c)]
       /\ Sign(c, i)
  /\ Goto(c, "ok")

CreateUser(c) ==
  /\ pc[c] = "createUser"
  /\ \/ /\ Holders(RegisteredEmail(c)) # {}
        /\ Goto(c, "error")
        /\ UNCHANGED <<users, token>>
     \/ /\ Holders(RegisteredEmail(c)) = {}
        /\ \E i \in FreshId :
             /\ ~Taken(i)
             /\ users' = [users EXCEPT ![i] = NewUser(c)]
             /\ Sign(c, i)
        /\ Goto(c, "ok")

-----------------------------------------------------------------------------
(* login: the user is looked up ...                                        *)
FindLogin(c) ==
  /\ pc[c] = "findLogin"
  /\ UNCHANGED <<users, token>>
  /\ \/ Holders(LoginEmail(c)) = {} /\ Goto(c, "unauthorized")
     \/ \E i \in Holders(LoginEmail(c)) :
          /\ pc' = [pc EXCEPT ![c] = "compare"]
          /\ read' = [read EXCEPT ![c] = i]
          /\ UNCHANGED call

(* ... and the password compared with the hash that was read; no statement *)
(* ever changes the hash of a user.                                        *)
Compare(c) ==
  /\ pc[c] = "compare"
  /\ IF users[read[c]].passwordHash = call[c].password
     THEN Sign(c, read[c]) /\ Goto(c, "ok")
     ELSE UNCHANGED token /\ Goto(c, "unauthorized")
  /\ UNCHANGED users

-----------------------------------------------------------------------------
(* JwtStrategy.validate reads the user of the token again, and RolesGuard  *)
(* judges the role it finds there.                                         *)
Validate(c) ==
  LET i == read[c] IN
  /\ pc[c] = "validate"
  /\ Goto(c, IF ~Taken(i) THEN "unauthorized"
             ELSE IF ~canActivate(call[c].route, users[i].role) THEN "forbidden"
             ELSE "handler")
  /\ UNCHANGED <<users, token>>

(* The handler, of another module, returns.                                *)
Return(c) ==
  /\ pc[c] = "handler"
  /\ Goto(c, "ok")
  /\ UNCHANGED <<users, token>>

(* The token expires, seven days after it was signed, or is dropped.       *)
Expire(c) ==
  /\ token[c] # NoToken
  /\ token' = [token EXCEPT ![c] = NoToken]
  /\ UNCHANGED <<users, pc, call, read>>

AccountsNext ==
  \E c \in Client :
    \/ \E k \in Call : Receive(c, k)
    \/ FindEmail(c) \/ CreateUser(c)
    \/ FindLogin(c) \/ Compare(c)
    \/ Validate(c) \/ Return(c) \/ Expire(c)

AccountsSpec == AccountsInit /\ [][AccountsNext]_accountVars

-----------------------------------------------------------------------------
(* The shape of the state.                                                 *)
AccountsTypeOK ==
  /\ users \in [UserId -> User \cup {NoUser}]
  /\ pc \in [Client -> Waiting \cup Ended]
  /\ call \in [Client -> Call \cup {NoCall}]
  /\ read \in [Client -> UserId \cup {NoUser}]
  /\ token \in [Client -> Token \cup {NoToken}]

(* Whoever holds a token knows the password of its user, also the loser of *)
(* two registrations of one address that both found it free, and a handler *)
(* runs only for a user of the role that its path is for; never an ADMIN.  *)
ActsAsOneself ==
  \A c \in Client :
    /\ token[c] # NoToken =>
         /\ users[token[c].sub].passwordHash = token[c].password
         /\ users[token[c].sub].role # "ADMIN"
    /\ pc[c] = "handler" =>
         LET role == users[read[c]].role IN
         CASE call[c].route.path = "customer" -> role = "CUSTOMER"
           [] call[c].route.path = "vendor"   -> role = "VENDOR"
           [] OTHER                           -> role # "ADMIN"

(* An address has one account, however it is spelled and whoever creates   *)
(* it, register or the seed script.                                        *)
OneAccountPerAddress ==
  \A i, j \in UserId :
    (Taken(i) /\ Taken(j) /\ Lower[users[i].email] = Lower[users[j].email]) =>
      i = j

(* A login is refused only while no account has that address, spelled in   *)
(* any case, with that password, though the account was read earlier.      *)
LoginRefusalsAreTrue ==
  [][\A c \in Client :
       (pc[c] \in {"findLogin", "compare"} /\ pc'[c] = "unauthorized") =>
         ~ \E i \in UserId :
             /\ Taken(i)
             /\ users[i].email = Lower[call[c].email]
             /\ users[i].passwordHash = call[c].password]_accountVars
=============================================================================
