--------------------------- MODULE ProcessProofs ----------------------------
(***************************************************************************)
(* The properties of ProcessLifecycle, for any numbers of clients, tasks   *)
(* and weddings.  The argument: what a call has read may be old when it    *)
(* writes, but not arbitrarily so (Fits): a task keeps its wedding until   *)
(* it is deleted and is never created again, a process that was read is    *)
(* there still or has gone with its task, and its stamps only grow.        *)
(***************************************************************************)
EXTENDS ProcessLifecycle, TLAPS

Stamped(p) ==
  /\ p.state \in {"RUNNING", "WAITING"} => p.startedAt # 0
  /\ p.state = "COMPLETED" => p.completedAt
  /\ p.state = "NEW" => p.startedAt = 0 /\ ~p.completedAt

(* What a transition that is about to write knows of its process.          *)
Overtaken(c) ==
  LET t == call[c].task IN
  /\ existing[c] \in Process
  /\ Stamped(existing[c])
  /\ call[c].target \in PROCESS_TRANSITIONS[existing[c].state]
  /\ process[t] = NoProcess => tasks[t] = "deleted"
  /\ process[t] # NoProcess => process[t].startedAt >= existing[c].startedAt

(* What a call knows when it is about to make its next statement.          *)
Fits(c) ==
  LET k == call[c] IN
  /\ pc[c] \in Waiting => k \in Call
  /\ pc[c] \in {"findProcess", "update"} => k.op = "transition"
  /\ pc[c] \in {"readHighest", "insert"} => tasks[k.task] \in {k.wedding, "deleted"}
  /\ pc[c] = "update" => Overtaken(c)

IInv ==
  /\ TypeOK
  /\ ProcessesAreFiled
  /\ StampsFollowStates
  /\ \A c \in Client : Fits(c)

-----------------------------------------------------------------------------
(* What the calls carry.                                                   *)
LEMMA CallFields ==
  ASSUME NEW k \in Call
  PROVE  /\ k.task \in Task /\ k.wedding \in Wedding
         /\ k.op \in {"create", "remove", "transition"}
         /\ k.op = "transition" => k.target \in State
  BY DEF Call

(* A call moves on to another statement, or ends and forgets.              *)
LEMMA GotoTypes ==
  ASSUME TypeOK, NEW c \in Client, NEW label \in Waiting \cup Ended,
         Goto(c, label)
  PROVE  /\ pc' = [pc EXCEPT ![c] = label]
         /\ pc' \in [Client -> Waiting \cup Ended]
         /\ call' \in [Client -> Call \cup {NoCall}]
         /\ highest' \in [Client -> Nat]
         /\ existing' \in [Client -> Process \cup {NoProcess}]
         /\ \A d \in Client \ {c} : /\ pc'[d] = pc[d] /\ call'[d] = call[d]
                                    /\ existing'[d] = existing[d]
         /\ pc'[c] = label
         /\ label \notin Ended => call' = call /\ existing' = existing
  <1>1. /\ call' \in [Client -> Call \cup {NoCall}]
        /\ \A d \in Client \ {c} : call'[d] = call[d]
    BY DEF Goto, TypeOK
  <1>2. highest' \in [Client -> Nat]
    BY DEF Goto, TypeOK
  <1>3. /\ existing' \in [Client -> Process \cup {NoProcess}]
        /\ \A d \in Client \ {c} : existing'[d] = existing[d]
    BY DEF Goto, TypeOK
  <1>4. QED
    BY <1>1, <1>2, <1>3 DEF Goto, TypeOK

(* The labels of a call that has ended are not those of one that waits.    *)
LEMMA LabelsDiffer == Waiting \cap Ended = {}
  BY DEF Waiting, Ended

(* The other clients know what they knew if the tables stay as they are.   *)
LEMMA OthersFit ==
  ASSUME IInv, NEW c \in Client, UNCHANGED <<tasks, process>>,
         \A d \in Client \ {c} : /\ pc'[d] = pc[d] /\ call'[d] = call[d]
                                 /\ existing'[d] = existing[d]
  PROVE  \A d \in Client \ {c} : Fits(d)'
  BY DEF IInv, Fits, Overtaken

(* The invariants of the tables stay true if the tables stay as they are.  *)
LEMMA TablesStay ==
  ASSUME IInv, UNCHANGED <<tasks, process>>
  PROVE  ProcessesAreFiled' /\ StampsFollowStates'
  BY DEF IInv, ProcessesAreFiled, StampsFollowStates, Live

-----------------------------------------------------------------------------
LEMMA InitHolds == Init => IInv
  <1> SUFFICES ASSUME Init
               PROVE  IInv
    OBVIOUS
  <1>1. TypeOK
    BY DEF Init, TypeOK, Ended
  <1>2. ProcessesAreFiled /\ StampsFollowStates
    BY DEF Init, ProcessesAreFiled, StampsFollowStates
  <1>3. \A c \in Client : Fits(c)
    BY DEF Init, Fits, Waiting
  <1>4. QED
    BY <1>1, <1>2, <1>3 DEF IInv

LEMMA ReceiveHolds ==
  ASSUME IInv, NEW c \in Client, NEW k \in Call, Receive(c, k)
  PROVE  IInv'
  <1> DEFINE label == CASE k.op = "create"     -> "findTask"
                        [] k.op = "transition" -> "findProcess"
                        [] k.op = "remove"     -> "findOwnTask"
  <1>1. /\ label \in {"findTask", "findProcess", "findOwnTask"}
        /\ label = "findProcess" => k.op = "transition"
    BY CallFields
  <1>2. /\ pc' = [pc EXCEPT ![c] = label] /\ call' = [call EXCEPT ![c] = k]
        /\ UNCHANGED <<tasks, process, highest, existing>>
    BY DEF Receive
  <1> HIDE DEF label
  <1>3. TypeOK'
    BY <1>1, <1>2 DEF IInv, TypeOK, Waiting
  <1>4. pc'[c] = label /\ call'[c] = k
    BY <1>2 DEF IInv, TypeOK
  <1>5. Fits(c)'
    BY <1>1, <1>4 DEF Fits, Waiting
  <1>6. \A d \in Client \ {c} : Fits(d)'
    <2>1. \A d \in Client \ {c} : /\ pc'[d] = pc[d] /\ call'[d] = call[d]
                                  /\ existing'[d] = existing[d]
      BY <1>2 DEF IInv, TypeOK
    <2>2. QED
      BY <1>2, <2>1, OthersFit
  <1>7. QED
    BY <1>2, <1>3, <1>5, <1>6, TablesStay DEF IInv

(* A statement that only reads, after which its call fits its next label.  *)
LEMMA ReadHolds ==
  ASSUME IInv, NEW c \in Client, NEW label \in Waiting \cup Ended,
         Goto(c, label), UNCHANGED <<tasks, process>>, Fits(c)'
  PROVE  IInv'
  <1>1. TypeOK'
    BY GotoTypes DEF IInv, TypeOK
  <1>2. \A d \in Client \ {c} : Fits(d)'
    BY GotoTypes, OthersFit DEF IInv
  <1>3. QED
    BY <1>1, <1>2, TablesStay DEF IInv

(* A call that has ended needs to know nothing.                            *)
LEMMA EndedFits ==
  ASSUME IInv, NEW c \in Client, NEW label \in Ended, Goto(c, label)
  PROVE  Fits(c)'
  <1>1. pc'[c] = label
    BY GotoTypes DEF IInv
  <1>2. QED
    BY <1>1 DEF Fits, Waiting, Ended

LEMMA FindTaskHolds ==
  ASSUME IInv, NEW c \in Client, FindTask(c)
  PROVE  IInv'
  <1>1. call[c] \in Call
    BY DEF IInv, Fits, FindTask, Waiting
  <1>2. CASE tasks[call[c].task] = call[c].wedding
    <2>1. Goto(c, "readHighest")
      BY <1>2 DEF FindTask
    <2>2. pc'[c] = "readHighest" /\ call' = call
      BY <2>1, GotoTypes DEF IInv, Waiting, Ended
    <2>3. Fits(c)'
      BY <1>1, <1>2, <2>2 DEF Fits, FindTask
    <2>4. QED
      BY <2>1, <2>3, ReadHolds DEF FindTask, Waiting
  <1>3. CASE tasks[call[c].task] # call[c].wedding
    <2>1. Goto(c, "notFound") /\ "notFound" \in Ended
      BY <1>3 DEF FindTask, Ended
    <2>2. QED
      BY <2>1, EndedFits, ReadHolds DEF FindTask
  <1>4. QED
    BY <1>2, <1>3

LEMMA ReadHighestHolds ==
  ASSUME IInv, NEW c \in Client, ReadHighest(c)
  PROVE  IInv'
  <1>1. call[c] \in Call /\ tasks[call[c].task] \in {call[c].wedding, "deleted"}
    BY DEF IInv, Fits, ReadHighest, Waiting
  <1>2. PICK pid \in {0} \cup {process[t].pidNumber : t \in Live(call[c].wedding)} :
          highest' = [highest EXCEPT ![c] = pid]
    BY DEF ReadHighest
  <1>3. pid \in Nat
    BY <1>2 DEF Live, IInv, TypeOK, Process
  <1>4. /\ pc' = [pc EXCEPT ![c] = "insert"]
        /\ UNCHANGED <<tasks, process, call, existing>>
    BY DEF ReadHighest
  <1>5. TypeOK'
    BY <1>2, <1>3, <1>4 DEF IInv, TypeOK, Waiting
  <1>6. pc'[c] = "insert"
    BY <1>4 DEF IInv, TypeOK
  <1>7. Fits(c)'
    BY <1>1, <1>4, <1>6 DEF Fits
  <1>8. \A d \in Client \ {c} : Fits(d)'
    <2>1. \A d \in Client \ {c} : /\ pc'[d] = pc[d] /\ call'[d] = call[d]
                                  /\ existing'[d] = existing[d]
      BY <1>4 DEF IInv, TypeOK
    <2>2. QED
      BY <1>4, <2>1, OthersFit
  <1>9. QED
    BY <1>4, <1>5, <1>7, <1>8, TablesStay DEF IInv

-----------------------------------------------------------------------------
(* What an insert that succeeds does: the row is new, its wedding is that  *)
(* of its task, and its pid is nobody's.                                   *)
Inserted(c, p) ==
  /\ p = [wedding |-> call[c].wedding, pidNumber |-> NextPid(c),
          state |-> "NEW", startedAt |-> 0, completedAt |-> FALSE]
  /\ process[call[c].task] = NoProcess
  /\ tasks[call[c].task] = call[c].wedding
  /\ ~PidTaken(call[c].wedding, NextPid(c))
  /\ process' = [process EXCEPT ![call[c].task] = p]
  /\ Goto(c, "ok")
  /\ UNCHANGED tasks

LEMMA InsertCases ==
  ASSUME IInv, NEW c \in Client, Insert(c)
  PROVE  /\ call[c] \in Call
         /\ \/ /\ \E label \in Ended : Goto(c, label)
               /\ UNCHANGED <<tasks, process>>
            \/ \E p \in Process : Inserted(c, p)
  <1>1. call[c] \in Call /\ tasks[call[c].task] \in {call[c].wedding, "deleted"}
    BY DEF IInv, Fits, Insert, Waiting
  <1>2. CASE UNCHANGED process
    BY <1>1, <1>2 DEF Insert, Ended
  <1>3. CASE ~UNCHANGED process
    <2> DEFINE p == [wedding |-> call[c].wedding, pidNumber |-> NextPid(c),
                     state |-> "NEW", startedAt |-> 0, completedAt |-> FALSE]
    <2>1. /\ process[call[c].task] = NoProcess
          /\ ~PidTaken(call[c].wedding, NextPid(c))
          /\ tasks[call[c].task] \in Wedding
          /\ process' = [process EXCEPT ![call[c].task] = p]
          /\ Goto(c, "ok") /\ UNCHANGED tasks
      BY <1>3 DEF Insert
    <2>2. tasks[call[c].task] = call[c].wedding
      BY <1>1, <2>1, ConstantsAssumption
    <2>3. p \in Process
      <3>1. call[c].wedding \in Wedding
        BY <1>1, CallFields
      <3>2. NextPid(c) \in Nat \ {0}
        BY DEF IInv, TypeOK, NextPid
      <3>3. 0 \in 0..MaxStarts
        BY ConstantsAssumption
      <3>4. QED
        BY <3>1, <3>2, <3>3 DEF Process, State
    <2>4. QED
      BY <1>1, <2>1, <2>2, <2>3 DEF Inserted
  <1>4. QED
    BY <1>2, <1>3

LEMMA InsertHolds ==
  ASSUME IInv, NEW c \in Client, Insert(c)
  PROVE  IInv'
  <1>1. CASE (\E label \in Ended : Goto(c, label)) /\ UNCHANGED <<tasks, process>>
    BY <1>1, EndedFits, ReadHolds
  <1>2. ASSUME NEW p \in Process, Inserted(c, p)
        PROVE  IInv'
    <2> DEFINE t == call[c].task
    <2>1. call[c] \in Call /\ t \in Task
      BY InsertCases, CallFields
    <2>2. /\ Goto(c, "ok") /\ "ok" \in Ended /\ UNCHANGED tasks
          /\ process' = [process EXCEPT ![t] = p]
      BY <1>2 DEF Inserted, Ended
    <2>3. process'[t] = p /\ \A u \in Task \ {t} : process'[u] = process[u]
      BY <2>1, <2>2 DEF IInv, TypeOK
    <2>4. TypeOK'
      BY <2>2, GotoTypes DEF IInv, TypeOK
    <2>5. p # NoProcess
      BY ConstantsAssumption
    <2>6. ProcessesAreFiled'
      <3>1. ASSUME NEW u \in Task, process'[u] # NoProcess
            PROVE  tasks'[u] = process'[u].wedding
        BY <1>2, <2>2, <2>3, <3>1 DEF Inserted, IInv, ProcessesAreFiled
      <3>2. ASSUME NEW u \in Task, NEW v \in Task,
                   process'[u] # NoProcess, process'[v] # NoProcess,
                   process'[u].wedding = process'[v].wedding,
                   process'[u].pidNumber = process'[v].pidNumber
            PROVE  u = v
        <4>1. CASE u # t /\ v # t
          BY <2>3, <3>2, <4>1 DEF IInv, ProcessesAreFiled, Live
        <4>2. \A x \in Task \ {t} :
                (process[x] # NoProcess /\ process[x].wedding = p.wedding)
                  => process[x].pidNumber # p.pidNumber
          BY <1>2 DEF Inserted, PidTaken, Live
        <4>3. QED
          BY <2>3, <3>2, <4>1, <4>2
      <3>3. QED
        BY <3>1, <3>2 DEF ProcessesAreFiled, Live
    <2>7. StampsFollowStates'
      BY <1>2, <2>3 DEF Inserted, IInv, StampsFollowStates
    <2>8. ASSUME NEW d \in Client \ {c}
          PROVE  Fits(d)'
      <3>1. pc'[d] = pc[d] /\ call'[d] = call[d] /\ existing'[d] = existing[d]
        BY <2>2, GotoTypes DEF IInv
      <3>2. ASSUME pc[d] = "update"
            PROVE  Overtaken(d)'
        <4>1. Overtaken(d) /\ call[d].task \in Task
          BY <3>2, CallFields DEF IInv, Fits, Waiting
        <4>2. call[d].task # t
          BY <1>2, <2>1, <4>1, ConstantsAssumption, CallFields
             DEF Inserted, Overtaken
        <4>3. process'[call[d].task] = process[call[d].task]
          BY <2>3, <4>1, <4>2
        <4>4. QED
          BY <2>2, <3>1, <4>1, <4>3 DEF Overtaken
      <3>3. QED
        BY <2>2, <3>1, <3>2 DEF IInv, Fits
    <2>9. QED
      BY <2>2, <2>4, <2>6, <2>7, <2>8, EndedFits DEF IInv
  <1>3. QED
    BY <1>1, <1>2, InsertCases

-----------------------------------------------------------------------------
LEMMA FindProcessHolds ==
  ASSUME IInv, NEW c \in Client, FindProcess(c)
  PROVE  IInv'
  <1> DEFINE k == call[c]
             p == process[k.task]
  <1>1. k \in Call /\ k.op = "transition"
    BY DEF IInv, Fits, FindProcess, Waiting
  <1>2. CASE \E label \in Ended : Goto(c, label) /\ UNCHANGED <<tasks, process>>
    BY <1>2, EndedFits, ReadHolds
  <1>3. CASE /\ p # NoProcess /\ canTransition(p.state, k.target)
             /\ pc' = [pc EXCEPT ![c] = "update"]
             /\ existing' = [existing EXCEPT ![c] = p]
             /\ UNCHANGED <<tasks, process, call, highest>>
    <2>1. k.task \in Task /\ p \in Process
      BY <1>1, <1>3, CallFields DEF IInv, TypeOK
    <2>2. /\ pc'[c] = "update" /\ existing'[c] = p
          /\ \A d \in Client \ {c} : /\ pc'[d] = pc[d] /\ call'[d] = call[d]
                                     /\ existing'[d] = existing[d]
      BY <1>3 DEF IInv, TypeOK
    <2>3. TypeOK'
      BY <1>3, <2>1 DEF IInv, TypeOK, Waiting
    <2>4. Stamped(p)
      BY <1>3, <2>1 DEF IInv, StampsFollowStates, Stamped
    <2>5. p.startedAt \in Nat
      BY <2>1, ConstantsAssumption DEF Process
    <2>6. Overtaken(c)'
      BY <1>3, <2>1, <2>2, <2>4, <2>5 DEF Overtaken, canTransition
    <2>7. Fits(c)'
      BY <1>1, <1>3, <2>2, <2>6 DEF Fits
    <2>8. QED
      BY <1>3, <2>2, <2>3, <2>7, OthersFit, TablesStay DEF IInv
  <1>4. QED
    BY <1>2, <1>3 DEF FindProcess, Ended

(* What Moved keeps, and what it does to the start.                        *)
LEMMA MovedFacts ==
  ASSUME NEW p \in Process, NEW start \in Nat, NEW target \in State
  PROVE  LET moved == Moved(p, start, target) IN
         /\ moved.wedding = p.wedding /\ moved.pidNumber = p.pidNumber
         /\ moved.state = target
         /\ moved.startedAt = IF target = "RUNNING" /\ start = 0
                              THEN p.startedAt + 1 ELSE p.startedAt
         /\ moved.completedAt = (p.completedAt \/ target = "COMPLETED")
         /\ p.startedAt \in Nat /\ moved.startedAt >= p.startedAt
         /\ moved.startedAt <= MaxStarts => moved \in Process
  <1> DEFINE moved == Moved(p, start, target)
  <1>1. /\ p.wedding \in Wedding /\ p.pidNumber \in Nat \ {0}
        /\ p.state \in State /\ p.startedAt \in Nat /\ p.completedAt \in BOOLEAN
        /\ p = [wedding |-> p.wedding, pidNumber |-> p.pidNumber,
                state |-> p.state, startedAt |-> p.startedAt,
                completedAt |-> p.completedAt]
    BY ConstantsAssumption DEF Process
  <1>2. /\ moved.wedding = p.wedding /\ moved.pidNumber = p.pidNumber
        /\ moved.state = target
        /\ moved.startedAt = IF target = "RUNNING" /\ start = 0
                             THEN p.startedAt + 1 ELSE p.startedAt
    BY <1>1 DEF Moved
  <1>3. moved.completedAt = (p.completedAt \/ target = "COMPLETED")
    BY <1>1 DEF Moved
  <1>4. moved.startedAt \in Nat /\ moved.startedAt >= p.startedAt
    BY <1>1, <1>2
  <1>5. ASSUME moved.startedAt <= MaxStarts
        PROVE  moved \in Process
    <2>1. moved.startedAt \in 0..MaxStarts
      BY <1>4, <1>5, ConstantsAssumption
    <2>2. QED
      BY <2>1 DEF Moved, Process
  <1>6. QED
    BY <1>1, <1>2, <1>3, <1>4, <1>5

(* An update that finds its row.                                           *)
LEMMA UpdateFinds ==
  ASSUME IInv, NEW c \in Client, Update(c), process[call[c].task] # NoProcess
  PROVE  LET t == call[c].task
             moved == Moved(process[t], existing[c].startedAt, call[c].target)
         IN
         /\ t \in Task /\ process[t] \in Process
         /\ call[c].target \in State /\ existing[c].startedAt \in Nat
         /\ Overtaken(c)
         /\ moved \in Process
         /\ process' = [process EXCEPT ![t] = moved]
         /\ Goto(c, "ok") /\ UNCHANGED tasks
  <1> DEFINE t == call[c].task
             moved == Moved(process[t], existing[c].startedAt, call[c].target)
  <1>1. call[c] \in Call /\ call[c].op = "transition" /\ Overtaken(c)
    BY DEF IInv, Fits, Update, Waiting
  <1>2. t \in Task /\ call[c].target \in State /\ process[t] \in Process
    BY <1>1, CallFields DEF IInv, TypeOK
  <1>3. existing[c].startedAt \in Nat
    BY <1>1, ConstantsAssumption DEF Overtaken, Process
  <1>4. /\ moved.startedAt <= MaxStarts
        /\ process' = [process EXCEPT ![t] = moved]
        /\ Goto(c, "ok") /\ UNCHANGED tasks
    BY DEF Update
  <1>5. QED
    BY <1>1, <1>2, <1>3, <1>4, MovedFacts

(* The stamps fit the state that a transition sets, though another may     *)
(* have come between its read and its write.                               *)
LEMMA MovedStamped ==
  ASSUME IInv, NEW c \in Client, Update(c), process[call[c].task] # NoProcess
  PROVE  Stamped(Moved(process[call[c].task], existing[c].startedAt,
                       call[c].target))
  <1> DEFINE p == process[call[c].task]
             e == existing[c]
             target == call[c].target
             moved == Moved(p, e.startedAt, target)
  <1>1. /\ p \in Process /\ target \in State /\ e \in Process
        /\ e.startedAt \in Nat /\ e.state \in State /\ Stamped(e)
        /\ target \in PROCESS_TRANSITIONS[e.state]
        /\ p.startedAt >= e.startedAt
    BY UpdateFinds DEF Overtaken, Process
  <1>2. /\ moved.state = target
        /\ moved.startedAt = IF target = "RUNNING" /\ e.startedAt = 0
                             THEN p.startedAt + 1 ELSE p.startedAt
        /\ p.startedAt \in Nat
    BY <1>1, MovedFacts
  <1>7. target = "COMPLETED" => moved.completedAt
    <2>1. moved.completedAt = (p.completedAt \/ target = "COMPLETED")
      BY <1>1, MovedFacts
    <2>2. QED
      BY <2>1
  <1> HIDE DEF moved, p, e, target
  <1>3. target # "NEW" /\ (target = "WAITING" => e.state = "RUNNING")
    BY <1>1 DEF PROCESS_TRANSITIONS, State
  <1>4. target = "WAITING" => e.startedAt # 0
    BY <1>1, <1>3 DEF Stamped
  <1>5. moved.state \in {"RUNNING", "WAITING"} => moved.startedAt # 0
    BY <1>1, <1>2, <1>4
  <1>6. QED
    BY <1>2, <1>3, <1>5, <1>7 DEF Stamped, moved, p, e, target

LEMMA UpdateHolds ==
  ASSUME IInv, NEW c \in Client, Update(c)
  PROVE  IInv'
  <1> DEFINE t == call[c].task
             moved == Moved(process[t], existing[c].startedAt, call[c].target)
  <1>1. CASE process[t] = NoProcess
    <2>1. Goto(c, "error") /\ "error" \in Ended /\ UNCHANGED <<tasks, process>>
      BY <1>1 DEF Update, Ended
    <2>2. QED
      BY <2>1, EndedFits, ReadHolds
  <1>2. CASE process[t] # NoProcess
    <2>1. /\ t \in Task /\ process[t] \in Process /\ moved \in Process
          /\ process' = [process EXCEPT ![t] = moved]
          /\ Goto(c, "ok") /\ "ok" \in Ended /\ UNCHANGED tasks
      BY <1>2, UpdateFinds DEF Ended
    <2>2. /\ moved.wedding = process[t].wedding
          /\ moved.pidNumber = process[t].pidNumber
          /\ process[t].startedAt \in Nat /\ moved.startedAt \in Nat
          /\ moved.startedAt >= process[t].startedAt
      BY <1>2, UpdateFinds, MovedFacts
    <2>3. Stamped(moved)
      BY <1>2, MovedStamped
    <2> HIDE DEF moved
    <2>4. process'[t] = moved /\ \A u \in Task \ {t} : process'[u] = process[u]
      BY <2>1 DEF IInv, TypeOK
    <2>5. TypeOK'
      BY <2>1, GotoTypes DEF IInv, TypeOK
    <2>6. ProcessesAreFiled'
      <3>1. \A u \in Task : process'[u] # NoProcess =>
              /\ process[u] # NoProcess
              /\ process'[u].wedding = process[u].wedding
              /\ process'[u].pidNumber = process[u].pidNumber
        BY <1>2, <2>2, <2>4
      <3>2. QED
        BY <2>1, <3>1 DEF IInv, ProcessesAreFiled, Live
    <2>7. StampsFollowStates'
      BY <2>3, <2>4 DEF IInv, StampsFollowStates, Stamped
    <2>8. ASSUME NEW d \in Client \ {c}
          PROVE  Fits(d)'
      <3>1. pc'[d] = pc[d] /\ call'[d] = call[d] /\ existing'[d] = existing[d]
        BY <2>1, GotoTypes DEF IInv
      <3>2. ASSUME pc[d] = "update"
            PROVE  Overtaken(d)'
        <4>1. /\ Overtaken(d) /\ call[d].task \in Task
              /\ existing[d].startedAt \in Nat
          BY <3>2, CallFields, ConstantsAssumption
             DEF IInv, Fits, Waiting, Overtaken, Process
        <4>2. CASE call[d].task = t
          BY <1>2, <2>1, <2>2, <2>4, <3>1, <4>1, <4>2, ConstantsAssumption
             DEF Overtaken
        <4>3. CASE call[d].task # t
          BY <2>1, <2>4, <3>1, <4>1, <4>3 DEF Overtaken
        <4>4. QED
          BY <4>2, <4>3
      <3>3. QED
        BY <2>1, <3>1, <3>2 DEF IInv, Fits
    <2>9. QED
      BY <2>1, <2>5, <2>6, <2>7, <2>8, EndedFits DEF IInv
  <1>3. QED
    BY <1>1, <1>2

-----------------------------------------------------------------------------
(* Tasks come and go.                                                      *)
LEMMA CreateTaskHolds ==
  ASSUME IInv, NEW w \in Wedding, NEW t \in Task, CreateTask(w, t)
  PROVE  IInv'
  <1>1. /\ tasks[t] = "absent" /\ tasks' = [tasks EXCEPT ![t] = w]
        /\ UNCHANGED <<process, pc, call, highest, existing>>
    BY DEF CreateTask
  <1>2. tasks'[t] = w /\ \A u \in Task \ {t} : tasks'[u] = tasks[u]
    BY <1>1 DEF IInv, TypeOK
  <1>3. TypeOK'
    BY <1>1 DEF IInv, TypeOK
  <1>4. process[t] = NoProcess
    BY <1>1, ConstantsAssumption DEF IInv, TypeOK, ProcessesAreFiled, Process
  <1>5. ProcessesAreFiled'
    BY <1>1, <1>2, <1>4 DEF IInv, ProcessesAreFiled, Live
  <1>6. StampsFollowStates'
    BY <1>1 DEF IInv, StampsFollowStates
  <1>7. ASSUME NEW d \in Client
        PROVE  Fits(d)'
    <2>1. ASSUME pc[d] \in Waiting
          PROVE  call[d].task \in Task /\ call[d].wedding \in Wedding
      BY <2>1, CallFields DEF IInv, Fits
    <2>2. ASSUME pc[d] \in {"readHighest", "insert"}
          PROVE  call[d].task # t
      BY <1>1, <2>1, <2>2, ConstantsAssumption DEF IInv, Fits, Waiting
    <2>3. ASSUME pc[d] = "update"
          PROVE  Overtaken(d)'
      <3>1. Overtaken(d) /\ call[d].task \in Task
        BY <2>1, <2>3 DEF IInv, Fits, Waiting
      <3>2. process[call[d].task] = NoProcess => call[d].task # t
        BY <1>1, <3>1, ConstantsAssumption DEF Overtaken
      <3>3. QED
        BY <1>1, <1>2, <3>1, <3>2 DEF Overtaken
    <2>4. QED
      BY <1>1, <1>2, <2>1, <2>2, <2>3 DEF IInv, Fits, Waiting
  <1>8. QED
    BY <1>3, <1>5, <1>6, <1>7 DEF IInv

LEMMA FindOwnTaskHolds ==
  ASSUME IInv, NEW c \in Client, FindOwnTask(c)
  PROVE  IInv'
  <1>1. call[c] \in Call
    BY DEF IInv, Fits, FindOwnTask, Waiting
  <1>2. CASE Goto(c, "delete")
    <2>1. pc'[c] = "delete" /\ call' = call
      BY <1>2, GotoTypes DEF IInv, Waiting, Ended
    <2>2. Fits(c)'
      BY <1>1, <2>1 DEF Fits
    <2>3. QED
      BY <1>2, <2>2, ReadHolds DEF FindOwnTask, Waiting
  <1>3. CASE Goto(c, "notFound")
    <2>1. "notFound" \in Ended
      BY DEF Ended
    <2>2. QED
      BY <1>3, <2>1, EndedFits, ReadHolds DEF FindOwnTask
  <1>4. QED
    BY <1>2, <1>3 DEF FindOwnTask

LEMMA DeleteHolds ==
  ASSUME IInv, NEW c \in Client, Delete(c)
  PROVE  IInv'
  <1> DEFINE t == call[c].task
  <1>1. t \in Task
    BY CallFields DEF IInv, Fits, Delete, Waiting
  <1>2. CASE Goto(c, "error") /\ UNCHANGED <<tasks, process>>
    <2>1. "error" \in Ended
      BY DEF Ended
    <2>2. QED
      BY <1>2, <2>1, EndedFits, ReadHolds
  <1>3. CASE /\ tasks' = [tasks EXCEPT ![t] = "deleted"]
             /\ process' = [process EXCEPT ![t] = NoProcess]
             /\ Goto(c, "ok")
    <2>1. "ok" \in Ended
      BY DEF Ended
    <2>2. /\ tasks'[t] = "deleted" /\ process'[t] = NoProcess
          /\ \A u \in Task \ {t} : tasks'[u] = tasks[u] /\ process'[u] = process[u]
      BY <1>1, <1>3 DEF IInv, TypeOK
    <2>3. TypeOK'
      BY <1>3, <2>1, GotoTypes DEF IInv, TypeOK
    <2>4. ProcessesAreFiled'
      BY <2>2 DEF IInv, ProcessesAreFiled, Live
    <2>5. StampsFollowStates'
      BY <2>2 DEF IInv, StampsFollowStates
    <2>6. ASSUME NEW d \in Client \ {c}
          PROVE  Fits(d)'
      <3>1. pc'[d] = pc[d] /\ call'[d] = call[d] /\ existing'[d] = existing[d]
        BY <1>3, <2>1, GotoTypes DEF IInv
      <3>2. ASSUME pc[d] \in Waiting
            PROVE  call[d].task \in Task
        BY <3>2, CallFields DEF IInv, Fits
      <3>3. ASSUME pc[d] = "update"
            PROVE  Overtaken(d)'
        BY <2>2, <3>1, <3>2, <3>3 DEF IInv, Fits, Overtaken, Waiting
      <3>4. QED
        BY <2>2, <3>1, <3>2, <3>3 DEF IInv, Fits, Waiting
    <2>7. QED
      BY <1>3, <2>1, <2>3, <2>4, <2>5, <2>6, EndedFits DEF IInv
  <1>4. QED
    BY <1>2, <1>3 DEF Delete

-----------------------------------------------------------------------------
LEMMA NextHolds == IInv /\ [Next]_vars => IInv'
  <1> SUFFICES ASSUME IInv, [Next]_vars
               PROVE  IInv'
    OBVIOUS
  <1>1. CASE UNCHANGED vars
    BY <1>1 DEF vars, IInv, TypeOK, ProcessesAreFiled, StampsFollowStates,
                Live, Fits, Overtaken
  <1>2. ASSUME NEW c \in Client,
               \/ \E k \in Call : Receive(c, k)
               \/ FindTask(c) \/ ReadHighest(c) \/ Insert(c)
               \/ FindProcess(c) \/ Update(c)
               \/ FindOwnTask(c) \/ Delete(c)
        PROVE  IInv'
    BY <1>2, ReceiveHolds, FindTaskHolds, ReadHighestHolds, InsertHolds,
       FindProcessHolds, UpdateHolds, FindOwnTaskHolds, DeleteHolds
  <1>3. ASSUME NEW w \in Wedding, NEW t \in Task, CreateTask(w, t)
        PROVE  IInv'
    BY <1>3, CreateTaskHolds
  <1>4. QED
    BY <1>1, <1>2, <1>3 DEF Next

THEOREM Invariant == Spec => []IInv
  BY InitHolds, NextHolds, PTL DEF Spec

(* The types of the tables and of what calls hold.                         *)
THEOREM TypeCorrect == Spec => []TypeOK
  <1>1. IInv => TypeOK
    BY DEF IInv
  <1>2. QED
    BY <1>1, Invariant, PTL

(* A process is filed under a live task of its wedding with a pid of its   *)
(* own, however creates and deletions of tasks interleave.                 *)
THEOREM Filed == Spec => []ProcessesAreFiled
  <1>1. IInv => ProcessesAreFiled
    BY DEF IInv
  <1>2. QED
    BY <1>1, Invariant, PTL

(* The stamps fit the state, though transitions judge a record that was    *)
(* read earlier.                                                           *)
THEOREM StampsFollow == Spec => []StampsFollowStates
  <1>1. IInv => StampsFollowStates
    BY DEF IInv
  <1>2. QED
    BY <1>1, Invariant, PTL

-----------------------------------------------------------------------------
(* A process changes by an insert, a transition or the deletion of a task. *)
LEMMA WhoWrites ==
  ASSUME IInv, [Next]_vars, NEW t \in Task,
         process[t] # NoProcess, process'[t] # process[t]
  PROVE  \E c \in Client : t = call[c].task /\ (Update(c) \/ Delete(c))
  <1>1. PICK c \in Client : Insert(c) \/ Update(c) \/ Delete(c)
    BY DEF Next, vars, Receive, FindTask, ReadHighest, FindProcess,
           FindOwnTask, CreateTask
  <1>2. CASE Insert(c)
    <2>1. ASSUME NEW p \in Process, Inserted(c, p)
          PROVE  FALSE
      BY <2>1 DEF Inserted, IInv, TypeOK
    <2>2. QED
      BY <1>2, <2>1, InsertCases
  <1>3. CASE Update(c)
    <2>1. process[call[c].task] # NoProcess
      BY <1>3 DEF Update
    <2>2. t = call[c].task
      BY <1>3, <2>1, UpdateFinds DEF IInv, TypeOK
    <2>3. QED
      BY <1>3, <2>2
  <1>4. CASE Delete(c)
    BY <1>4 DEF Delete, IInv, TypeOK
  <1>5. QED
    BY <1>1, <1>2, <1>3, <1>4

(* A process never becomes NEW again, never loses a stamp, its pid or its  *)
(* wedding, and goes only with its task.                                   *)
THEOREM MovesOn == Spec => ProcessesMoveOn
  <1> DEFINE Forward(t) ==
               (process[t] # NoProcess /\ process'[t] # process[t]) =>
                 IF process'[t] = NoProcess THEN tasks'[t] = "deleted"
                 ELSE /\ process'[t].pidNumber = process[t].pidNumber
                      /\ process'[t].wedding = process[t].wedding
                      /\ process'[t].state # "NEW"
                      /\ process'[t].startedAt >= process[t].startedAt
                      /\ process[t].completedAt => process'[t].completedAt
  <1>1. ASSUME IInv, [Next]_vars, NEW t \in Task,
               process[t] # NoProcess, process'[t] # process[t]
        PROVE  Forward(t)
    <2>1. PICK c \in Client : t = call[c].task /\ (Update(c) \/ Delete(c))
      BY <1>1, WhoWrites
    <2>2. CASE Delete(c)
      BY <1>1, <2>1, <2>2 DEF Delete, IInv, TypeOK
    <2>3. CASE Update(c)
      <3> DEFINE moved == Moved(process[t], existing[c].startedAt, call[c].target)
      <3>1. /\ process' = [process EXCEPT ![t] = moved] /\ moved \in Process
            /\ process[t] \in Process /\ call[c].target \in State
            /\ existing[c].startedAt \in Nat /\ Overtaken(c)
        BY <1>1, <2>1, <2>3, UpdateFinds
      <3>2. /\ moved.pidNumber = process[t].pidNumber
            /\ moved.wedding = process[t].wedding
            /\ moved.state = call[c].target
            /\ moved.startedAt >= process[t].startedAt
        BY <3>1, MovedFacts
      <3>3. process[t].completedAt => moved.completedAt
        <4>1. moved.completedAt =
                (process[t].completedAt \/ call[c].target = "COMPLETED")
          BY <3>1, MovedFacts
        <4>2. QED
          BY <4>1
      <3>4. call[c].target # "NEW"
        BY <3>1 DEF Overtaken, PROCESS_TRANSITIONS, Process, State
      <3>5. process'[t] = moved
        BY <1>1, <3>1 DEF IInv, TypeOK
      <3>6. process'[t] # NoProcess
        BY <3>1, <3>5, ConstantsAssumption
      <3> HIDE DEF moved
      <3>7. QED
        BY <3>2, <3>3, <3>4, <3>5, <3>6
    <2>4. QED
      BY <2>1, <2>2, <2>3
  <1>2. IInv /\ [Next]_vars => [\A t \in Task : Forward(t)]_vars
    BY <1>1
  <1>3. QED
    BY <1>2, Invariant, PTL DEF Spec, ProcessesMoveOn

(* A transition that nobody overtook takes an arrow of the table and keeps *)
(* the start of the first dispatch.                                        *)
THEOREM UnovertakenMoves == Spec => UnovertakenMovesAreValid
  <1> DEFINE Valid(c) ==
               LET t == call[c].task IN
               (pc[c] = "update" /\ pc'[c] = "ok" /\ process[t] = existing[c]) =>
                 /\ process'[t].state \in PROCESS_TRANSITIONS[process[t].state]
                 /\ process[t].startedAt \in {0, process'[t].startedAt}
  <1>1. ASSUME IInv, [Next]_vars, NEW c \in Client, pc[c] = "update",
               pc'[c] = "ok", process[call[c].task] = existing[c]
        PROVE  Valid(c)
    <2> DEFINE t == call[c].task
               moved == Moved(process[t], existing[c].startedAt, call[c].target)
    <2>1. Update(c)
      <3>1. PICK d \in Client :
              \/ \E k \in Call : Receive(d, k)
              \/ FindTask(d) \/ ReadHighest(d) \/ Insert(d)
              \/ FindProcess(d) \/ Update(d)
              \/ FindOwnTask(d) \/ Delete(d)
        BY <1>1 DEF Next, CreateTask, vars
      <3>2. \E label : pc' = [pc EXCEPT ![d] = label]
        BY <3>1 DEF Receive, FindTask, ReadHighest, Insert, FindProcess,
                    Update, FindOwnTask, Delete, Goto
      <3>3. d = c
        BY <1>1, <3>2 DEF IInv, TypeOK
      <3>4. QED
        BY <1>1, <3>1, <3>3 DEF Receive, FindTask, ReadHighest, Insert,
           FindProcess, FindOwnTask, Delete, Ended
    <2>2. process[t] # NoProcess
      BY <1>1, ConstantsAssumption DEF IInv, Fits, Overtaken
    <2>3. /\ process' = [process EXCEPT ![t] = moved]
          /\ t \in Task /\ process[t] \in Process /\ call[c].target \in State
          /\ existing[c].startedAt \in Nat /\ Overtaken(c)
      BY <1>1, <2>1, <2>2, UpdateFinds
    <2>4. /\ moved.state = call[c].target
          /\ moved.startedAt = IF call[c].target = "RUNNING"
                                  /\ existing[c].startedAt = 0
                               THEN process[t].startedAt + 1
                               ELSE process[t].startedAt
      BY <2>3, MovedFacts
    <2>5. process'[t] = moved
      BY <1>1, <2>3 DEF IInv, TypeOK
    <2> HIDE DEF moved
    <2>6. QED
      BY <1>1, <2>3, <2>4, <2>5 DEF Overtaken
  <1>2. IInv /\ [Next]_vars => [\A c \in Client : Valid(c)]_vars
    BY <1>1
  <1>3. QED
    BY <1>2, Invariant, PTL DEF Spec, UnovertakenMovesAreValid
=============================================================================
