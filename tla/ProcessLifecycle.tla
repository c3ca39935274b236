-------------------------- MODULE ProcessLifecycle --------------------------
(***************************************************************************)
(* ProcessService (src/backend/src/process/process.service.ts) and the     *)
(* part of TaskService that it depends on: a wedding task may have one     *)
(* simulated process, numbered within the wedding, that moves through the  *)
(* states of PROCESS_TRANSITIONS (src/backend/src/process/process-state.ts)*)
(* and is deleted with its task.                                           *)
(*                                                                         *)
(* A client makes one call after another; a call awaits one database       *)
(* statement after the other, and a statement with the code up to the next *)
(* await is one action.  A task id (a uuid) is never used again, and a     *)
(* process lives and dies with its task, so the task names the process.    *)
(***************************************************************************)
EXTENDS Naturals, FiniteSets

CONSTANTS Client,       \* concurrent callers
          Task,         \* the task ids that are ever created
          Wedding,
          MaxStarts,    \* bound: how often startedAt is written
          Ops,          \* bound: the endpoints the clients use
          NoProcess, NoCall

VARIABLES tasks,        \* tasks[t]: its wedding, "absent" or "deleted"
          process,      \* process[t]: the process record of t, or NoProcess
          pc,           \* what each client's call awaits, or how it ended
          call,         \* what it was called with
          highest,      \* the pid that a create has read
          existing      \* the record that a transition has read

vars == <<tasks, process, pc, call, highest, existing>>

State == {"NEW", "READY", "RUNNING", "WAITING", "COMPLETED"}

PROCESS_TRANSITIONS ==
  [NEW       |-> {"READY"},
   READY     |-> {"RUNNING", "COMPLETED"},
   RUNNING   |-> {"WAITING", "COMPLETED"},
   WAITING   |-> {"READY"},
   COMPLETED |-> {}]

(* Mutant: only NEW is special.                                            *)
canTransitionAnywhere(from, to) == from # to /\ (from = "NEW" => to = "READY")
canTransition(from, to) == to \in PROCESS_TRANSITIONS[from]

(* startedAt: 0 is null, n > 0 the n-th date written.  completedAt: set?   *)
Process == [wedding : Wedding, pidNumber : Nat \ {0},
            state : State, startedAt : 0..MaxStarts, completedAt : BOOLEAN]

Call == [op : {"create", "remove"}, wedding : Wedding, task : Task]
          \cup [op : {"transition"}, wedding : Wedding, task : Task,
                target : State]

ASSUME ConstantsAssumption ==
  /\ MaxStarts \in Nat \ {0}
  /\ Ops \subseteq {"create", "transition", "remove"}
  /\ NoProcess \notin Process
  /\ NoCall \notin Call
  /\ {"absent", "deleted"} \cap Wedding = {}

Waiting == {"findTask", "readHighest", "insert", "findProcess", "update",
            "findOwnTask", "delete"}
Ended == {"idle", "ok", "notFound", "badRequest", "conflict", "error"}

Init ==
  /\ tasks = [t \in Task |-> "absent"]
  /\ process = [t \in Task |-> NoProcess]
  /\ pc = [c \in Client |-> "idle"]
  /\ call = [c \in Client |-> NoCall]
  /\ highest = [c \in Client |-> 0]
  /\ existing = [c \in Client |-> NoProcess]

(* A call that has ended leaves nothing of itself.                         *)
Goto(c, label) ==
  /\ pc' = [pc EXCEPT ![c] = label]
  /\ call' = IF label \in Ended THEN [call EXCEPT ![c] = NoCall] ELSE call
  /\ highest' = IF label \in Ended THEN [highest EXCEPT ![c] = 0] ELSE highest
  /\ existing' = IF label \in Ended THEN [existing EXCEPT ![c] = NoProcess]
                                    ELSE existing
Live(w) == {t \in Task : process[t] # NoProcess /\ process[t].wedding = w}

(* A call arrives; its wedding is that of the authenticated user.          *)
Receive(c, k) ==
  /\ pc[c] \in Ended
  /\ k.op \in Ops
  /\ call' = [call EXCEPT ![c] = k]
  /\ pc' = [pc EXCEPT ![c] = CASE k.op = "create"     -> "findTask"
                                [] k.op = "transition" -> "findProcess"
                                [] k.op = "remove"     -> "findOwnTask"]
  /\ UNCHANGED <<tasks, process, highest, existing>>

-----------------------------------------------------------------------------
(* create: task.findFirst({id, weddingId}) ...                             *)
FindTask(c) ==
  /\ pc[c] = "findTask"
  /\ Goto(c, IF tasks[call[c].task] = call[c].wedding THEN "readHighest"
                                                      ELSE "notFound")
  /\ UNCHANGED <<tasks, process>>

(* ... the highest pid of the wedding ...                                  *)
ReadHighest(c) ==
  /\ pc[c] = "readHighest"
  /\ LET pids == {process[t].pidNumber : t \in Live(call[c].wedding)} IN
     \E pid \in {0} \cup pids :
       /\ \A other \in pids : other <= pid
       /\ highest' = [highest EXCEPT ![c] = pid]
  /\ pc' = [pc EXCEPT ![c] = "insert"]
  /\ UNCHANGED <<tasks, process, call, existing>>

(* (highest?.pidNumber ?? 0) + 1                                           *)
NextPid(c) == highest[c] + 1

(* @@unique([weddingId, pidNumber]), and the mutant without that index.    *)
PidNeverTaken(w, pid) == FALSE
PidTaken(w, pid) == \E u \in Live(w) : process[u].pidNumber = pid

(* ... and the insert.  The unique indexes on taskId and on (weddingId,    *)
(* pidNumber) answer P2002, the foreign key on the task another error.     *)
Insert(c) ==
  LET t == call[c].task
      w == call[c].wedding
      pid == NextPid(c)
      duplicate == process[t] # NoProcess \/ PidTaken(w, pid)
      exists == tasks[t] \in Wedding
  IN
  /\ pc[c] = "insert"
  /\ \/ duplicate /\ Goto(c, "conflict") /\ UNCHANGED process
     \/ ~duplicate /\ ~exists /\ Goto(c, "error") /\ UNCHANGED process
     \/ /\ ~duplicate /\ exists
        /\ process' = [process EXCEPT ![t] =
             [wedding |-> w, pidNumber |-> pid, state |-> "NEW",
              startedAt |-> 0, completedAt |-> FALSE]]
        /\ Goto(c, "ok")
  /\ UNCHANGED tasks

-----------------------------------------------------------------------------
(* transition: findOwned reads the record, canTransition judges it ...     *)
FindProcess(c) ==
  LET p == process[call[c].task]
      found == p # NoProcess /\ p.wedding = call[c].wedding
      allowed == found /\ canTransition(p.state, call[c].target)
  IN
  /\ pc[c] = "findProcess"
  /\ \/ ~found /\ Goto(c, "notFound")
     \/ found /\ ~allowed /\ Goto(c, "badRequest")
     \/ /\ allowed
        /\ pc' = [pc EXCEPT ![c] = "update"]
        /\ existing' = [existing EXCEPT ![c] = p]
        /\ UNCHANGED <<call, highest>>
  /\ UNCHANGED <<tasks, process>>

(* Mutants: only a process that ran gets an end; the stamp that was read   *)
(* is written back.                                                        *)
MovedEndsIfRan(current, existingStart, target) ==
  [current EXCEPT
     !.state = target,
     !.startedAt = IF target = "RUNNING" /\ existingStart = 0
                   THEN @ + 1 ELSE @,
     !.completedAt = @ \/ (target = "COMPLETED" /\ existingStart # 0)]

MovedWritesBack(current, existingStart, target) ==
  [current EXCEPT
     !.state = target,
     !.startedAt = IF target = "RUNNING" /\ existingStart = 0
                   THEN @ + 1 ELSE existingStart,
     !.completedAt = @ \/ target = "COMPLETED"]

(* Whether startedAt is written depends on the record as it was read.      *)
Moved(current, existingStart, target) ==
  [current EXCEPT
     !.state = target,
     !.startedAt = IF target = "RUNNING" /\ existingStart = 0
                   THEN @ + 1 ELSE @,
     !.completedAt = @ \/ target = "COMPLETED"]

(* ... and the row is updated by id, in whatever state it is by now; a row *)
(* that is gone is an error.                                               *)
Update(c) ==
  LET t == call[c].task IN
  /\ pc[c] = "update"
  /\ IF process[t] = NoProcess
     THEN Goto(c, "error") /\ UNCHANGED process
     ELSE LET moved == Moved(process[t], existing[c].startedAt, call[c].target) IN
          /\ moved.startedAt <= MaxStarts
          /\ process' = [process EXCEPT ![t] = moved]
          /\ Goto(c, "ok")
  /\ UNCHANGED tasks

-----------------------------------------------------------------------------
(* TaskService.create; its other fields do not matter here.                *)
CreateTask(w, t) ==
  /\ tasks[t] = "absent"
  /\ tasks' = [tasks EXCEPT ![t] = w]
  /\ UNCHANGED <<process, pc, call, highest, existing>>

(* TaskService.remove: findOwned, then the delete, which cascades to the   *)
(* process; a row already gone is an error.                                *)
FindOwnTask(c) ==
  /\ pc[c] = "findOwnTask"
  /\ Goto(c, IF tasks[call[c].task] = call[c].wedding THEN "delete"
                                                      ELSE "notFound")
  /\ UNCHANGED <<tasks, process>>

Delete(c) ==
  LET t == call[c].task IN
  /\ pc[c] = "delete"
  /\ IF tasks[t] \in Wedding
     THEN /\ tasks' = [tasks EXCEPT ![t] = "deleted"]
          /\ process' = [process EXCEPT ![t] = NoProcess]
          /\ Goto(c, "ok")
     ELSE Goto(c, "error") /\ UNCHANGED <<tasks, process>>

Next ==
  \/ \E c \in Client :
       \/ \E k \in Call : Receive(c, k)
       \/ FindTask(c) \/ ReadHighest(c) \/ Insert(c)
       \/ FindProcess(c) \/ Update(c)
       \/ FindOwnTask(c) \/ Delete(c)
  \/ \E w \in Wedding, t \in Task : CreateTask(w, t)

Spec == Init /\ [][Next]_vars

-----------------------------------------------------------------------------
(* The shape of the state.                                                 *)
TypeOK ==
  /\ tasks \in [Task -> Wedding \cup {"absent", "deleted"}]
  /\ process \in [Task -> Process \cup {NoProcess}]
  /\ pc \in [Client -> Waiting \cup Ended]
  /\ call \in [Client -> Call \cup {NoCall}]
  /\ highest \in [Client -> Nat]
  /\ existing \in [Client -> Process \cup {NoProcess}]

(* A process belongs to a live task of the same wedding, though the insert *)
(* may come after the task was deleted, and pids are unique in a wedding   *)
(* though they are computed from an earlier read.                          *)
ProcessesAreFiled ==
  \A t \in Task : process[t] # NoProcess =>
    /\ tasks[t] = process[t].wedding
    /\ \A u \in Live(process[t].wedding) :
         process[u].pidNumber = process[t].pidNumber => u = t

(* What survives every race of transitions: a process that was dispatched  *)
(* has its start, a completed one its end, and a NEW one neither; a        *)
(* process seen RUNNING or WAITING is never without startedAt.             *)
StampsFollowStates ==
  \A t \in Task : process[t] # NoProcess =>
    LET p == process[t] IN
    /\ p.state \in {"RUNNING", "WAITING"} => p.startedAt # 0
    /\ p.state = "COMPLETED" => p.completedAt
    /\ p.state = "NEW" => p.startedAt = 0 /\ ~p.completedAt

(* A process keeps its pid and its wedding, never becomes NEW again, and   *)
(* its stamps are never cleared, until it is deleted with its task.        *)
ProcessesMoveOn ==
  [][\A t \in Task : (process[t] # NoProcess /\ process'[t] # process[t]) =>
       IF process'[t] = NoProcess THEN tasks'[t] = "deleted"
       ELSE /\ process'[t].pidNumber = process[t].pidNumber
            /\ process'[t].wedding = process[t].wedding
            /\ process'[t].state # "NEW"
            /\ process'[t].startedAt >= process[t].startedAt
            /\ process[t].completedAt => process'[t].completedAt]_vars

(* "Applies a single validated lifecycle transition" and the test "does    *)
(* not let a COMPLETED process transition again": every change of state is *)
(* one of PROCESS_TRANSITIONS.                                             *)
ValidLifecycle ==
  [][\A t \in Task :
       (process[t] # NoProcess /\ process'[t] # NoProcess) =>
         \/ process'[t] = process[t]
         \/ process'[t].state \in PROCESS_TRANSITIONS[process[t].state]]_vars

(* What is left of it under races: a transition that no other overtook     *)
(* between its read and its update takes an arrow of PROCESS_TRANSITIONS   *)
(* and keeps the start of the first dispatch.                              *)
UnovertakenMovesAreValid ==
  [][\A c \in Client :
       LET t == call[c].task IN
       (pc[c] = "update" /\ pc'[c] = "ok" /\ process[t] = existing[c]) =>
         /\ process'[t].state \in PROCESS_TRANSITIONS[process[t].state]
         /\ process[t].startedAt \in {0, process'[t].startedAt}]_vars
=============================================================================
