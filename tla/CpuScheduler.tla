---------------------------- MODULE CpuScheduler ----------------------------
(***************************************************************************)
(* The CPU scheduling simulation: SchedulingService.run and schedule()     *)
(* (src/backend/src/scheduling/scheduling.service.ts, cpu-scheduler.ts).   *)
(*                                                                         *)
(* A request is validated, run by one of four algorithms and turned into   *)
(* metrics.  One iteration of an algorithm's loop is one action; its local *)
(* variables are the variables of this module.                             *)
(***************************************************************************)
EXTENDS Integers, Sequences, FiniteSets, FiniteSetsExt, Functions

CONSTANTS TaskLists,   \* the lists of task ids that clients submit
          OwnTask,     \* the tasks of the caller's wedding
          Arrivals, Bursts, Priorities, Quanta,   \* bounds of the DTO
          NoQuantum    \* timeQuantum is undefined

(* ScheduleProcessDto and RunScheduleDto.                                  *)
ASSUME RequestAssumption ==
  /\ \A tasks \in TaskLists : Len(tasks) \in Nat \ {0}
  /\ Arrivals \subseteq Nat
  /\ Bursts \subseteq Nat \ {0}
  /\ Priorities \subseteq Nat \ {0}
  /\ Quanta \subseteq Nat \ {0}
  /\ NoQuantum \notin Nat

VARIABLES pc,          \* "received", "running", "returned" or "refused"
          algorithm, tasks, timeQuantum,          \* the request ...
          process,     \* ... and its processes, by pid
          clock,
          gantt,
          ordered,     \* the processes sorted by arrival, then pid
          next,        \* FCFS and Round Robin: the next index of ordered
          pending,     \* SJF and PRIORITY: the processes not yet run
          ready,       \* Round Robin: the ready queue
          remaining,   \* Round Robin: the burst left
          metrics

request == <<algorithm, tasks, timeQuantum, process>>
vars == <<pc, request, clock, gantt, ordered, next, pending, ready,
          remaining, metrics>>

Process == [arrivalTime : Arrivals, burstTime : Bursts, priority : Priorities]

(* pid is assigned in submission order.                                    *)
Pid == DOMAIN process
arrivalTime(p) == process[p].arrivalTime
burstTime(p) == process[p].burstTime
priority(p) == process[p].priority

(* A quantum sent with another algorithm than Round Robin is not used.     *)
Init ==
  /\ pc = "received"
  /\ algorithm \in {"FCFS", "SJF", "PRIORITY", "ROUND_ROBIN"}
  /\ tasks \in TaskLists
  /\ timeQuantum \in Quanta \cup {NoQuantum}
  /\ algorithm # "ROUND_ROBIN" => timeQuantum = NoQuantum
  /\ process \in [1..Len(tasks) -> Process]
  /\ clock = 0
  /\ gantt = <<>>
  /\ ordered = <<>>
  /\ next = 1
  /\ pending = Pid
  /\ ready = <<>>
  /\ remaining = [p \in Pid |-> burstTime(p)]
  /\ metrics = <<>>

Segment(p, start, end) == [pid |-> p, startTime |-> start, endTime |-> end]
Push(p, start, end) == gantt' = Append(gantt, Segment(p, start, end))

(* (a, b) => a.arrivalTime - b.arrivalTime || a.pid - b.pid.               *)
ByArrival(p, q) ==
  \/ arrivalTime(p) < arrivalTime(q)
  \/ arrivalTime(p) = arrivalTime(q) /\ p < q

Sorted(s) == \A i, j \in DOMAIN s : i < j => ByArrival(s[i], s[j])

-----------------------------------------------------------------------------
(* run: no task twice, and only tasks of the caller's wedding; assertValid *)
(* asks for a quantum, the rest it checks the DTO has checked before.      *)
Acceptable ==
  /\ \A i, j \in DOMAIN tasks : tasks[i] = tasks[j] => i = j
  /\ \A i \in DOMAIN tasks : tasks[i] \in OwnTask
  /\ algorithm = "ROUND_ROBIN" => timeQuantum # NoQuantum

Refuse ==
  /\ pc = "received"
  /\ ~Acceptable
  /\ pc' = "refused"
  /\ UNCHANGED <<request, clock, gantt, ordered, next, pending, ready,
                 remaining, metrics>>

(* The loop of admit(upTo) stops before index k.  The mutant's condition   *)
(* is `<` instead of `<=`.                                                 *)
AdmitsOnlyEarlier(k, upTo) ==
  /\ k \in next..(Len(ordered') + 1)
  /\ \A i \in next..(k - 1) : arrivalTime(ordered'[i]) < upTo
  /\ k \in DOMAIN ordered' => arrivalTime(ordered'[k]) >= upTo
Admits(k, upTo) ==
  /\ k \in next..(Len(ordered') + 1)
  /\ \A i \in next..(k - 1) : arrivalTime(ordered'[i]) <= upTo
  /\ k \in DOMAIN ordered' => arrivalTime(ordered'[k]) > upTo

(* admit(upTo), then a push of the sequence `back` onto the queue.         *)
Admit(queue, upTo, back) ==
  \E k \in 1..(Len(ordered') + 1) :
    /\ Admits(k, upTo)
    /\ next' = k
    /\ ready' = queue \o SubSeq(ordered', next, k - 1) \o back

(* The prologue of the algorithm.                                          *)
Begin ==
  /\ pc = "received"
  /\ Acceptable
  /\ pc' = "running"
  /\ \E s \in [Pid -> Pid] : Sorted(s) /\ ordered' = s
  /\ IF algorithm = "ROUND_ROBIN" THEN Admit(<<>>, clock, <<>>)
                                  ELSE UNCHANGED <<next, ready>>
  /\ UNCHANGED <<request, clock, gantt, pending, remaining, metrics>>

-----------------------------------------------------------------------------
(* runFcfs: one iteration of its loop.  The mutant does not wait for the   *)
(* arrival.                                                                *)
StartAtOnce(p) == clock
StartOf(p) == IF clock >= arrivalTime(p) THEN clock ELSE arrivalTime(p)

RunFcfs ==
  /\ pc = "running"
  /\ algorithm = "FCFS"
  /\ next \in DOMAIN ordered
  /\ LET p == ordered[next]
         start == StartOf(p)
     IN /\ clock' = start + burstTime(p)
        /\ Push(p, start, clock')
  /\ next' = next + 1
  /\ UNCHANGED <<pc, request, ordered, pending, ready, remaining, metrics>>

-----------------------------------------------------------------------------
(* runSjf and runPriority: isBetter is a strict total order on the pids,   *)
(* so the reduce of runNonPreemptive finds the one process with no better. *)
Shorter(p, q) ==
  \/ burstTime(p) < burstTime(q)
  \/ burstTime(p) = burstTime(q) /\ ByArrival(p, q)

MoreUrgent(p, q) ==
  \/ priority(p) < priority(q)
  \/ priority(p) = priority(q) /\ ByArrival(p, q)

(* Mutants: shortest job first by arrival; a higher number goes first.     *)
isBetterByArrival(p, q) ==
  IF algorithm = "SJF" THEN ByArrival(p, q) ELSE MoreUrgent(p, q)
isBetterReversed(p, q) ==
  IF algorithm = "SJF" THEN Shorter(p, q)
  ELSE priority(p) > priority(q) \/ (priority(p) = priority(q) /\ ByArrival(p, q))
isBetter(p, q) ==
  IF algorithm = "SJF" THEN Shorter(p, q) ELSE MoreUrgent(p, q)

NonPreemptive == pc = "running" /\ algorithm \in {"SJF", "PRIORITY"}
Arrived == {p \in pending : arrivalTime(p) <= clock}

(* The clock jumps to the earliest remaining arrival; the mutant jumps to  *)
(* the latest.                                                             *)
IsLatest(t) == \A p \in pending : arrivalTime(p) <= t
IsEarliest(t) == \A p \in pending : arrivalTime(p) >= t

IdleNonPreemptive ==
  /\ NonPreemptive
  /\ pending # {}
  /\ Arrived = {}
  /\ \E p \in pending : IsEarliest(arrivalTime(p)) /\ clock' = arrivalTime(p)
  /\ UNCHANGED <<pc, request, gantt, ordered, next, pending, ready,
                 remaining, metrics>>

RunNonPreemptive ==
  /\ NonPreemptive
  /\ \E p \in Arrived :
       /\ \A q \in Arrived : ~isBetter(q, p)
       /\ clock' = clock + burstTime(p)
       /\ Push(p, clock, clock')
       /\ pending' = pending \ {p}
  /\ UNCHANGED <<pc, request, ordered, next, ready, remaining, metrics>>

-----------------------------------------------------------------------------
(* runRoundRobin.                                                          *)
RoundRobin == pc = "running" /\ algorithm = "ROUND_ROBIN"

(* The ready queue drained: the clock jumps to the next arrival.           *)
IdleRoundRobin ==
  /\ RoundRobin
  /\ ready = <<>>
  /\ next \in DOMAIN ordered
  /\ UNCHANGED <<pc, request, gantt, ordered, pending, remaining, metrics>>
  /\ clock' = arrivalTime(ordered[next])
  /\ Admit(<<>>, clock', <<>>)

(* The slice of a process, and the mutant that always runs a whole quantum.*)
WholeQuantum(p) == timeQuantum
Slice(p) ==
  IF timeQuantum <= remaining[p] THEN timeQuantum ELSE remaining[p]

(* A preempted process goes to the back, behind those that arrived during  *)
(* its slice; the mutant puts it back in front.                            *)
RequeueInFront(p, rest) ==
  Admit(IF remaining'[p] > 0 THEN <<p>> \o rest ELSE rest, clock', <<>>)
Requeue(p, rest) ==
  Admit(rest, clock', IF remaining'[p] > 0 THEN <<p>> ELSE <<>>)

RunSlice ==
  /\ RoundRobin
  /\ ready # <<>>
  /\ UNCHANGED <<pc, request, ordered, pending, metrics>>
  /\ LET p == Head(ready) IN
     /\ clock' = clock + Slice(p)
     /\ remaining' = [remaining EXCEPT ![p] = @ - Slice(p)]
     /\ Push(p, clock, clock')
     /\ Requeue(p, Tail(ready))

-----------------------------------------------------------------------------
(* The loop of the algorithm is over.                                      *)
LoopEnds ==
  CASE algorithm = "FCFS"              -> next > Len(ordered)
    [] algorithm \in {"SJF", "PRIORITY"} -> pending = {}
    [] algorithm = "ROUND_ROBIN"       -> ready = <<>> /\ next > Len(ordered)

Own(p) == {i \in DOMAIN gantt : gantt[i].pid = p}
FirstOf(p) == gantt[CHOOSE i \in Own(p) : \A j \in Own(p) : i <= j]
LastOf(p) == gantt[CHOOSE i \in Own(p) : \A j \in Own(p) : i >= j]

(* Mutant: completion is the end of the first segment.                     *)
MetricOfFirst(p) ==
  LET turnaround == FirstOf(p).endTime - arrivalTime(p) IN
  [turnaroundTime |-> turnaround,
   waitingTime |-> turnaround - burstTime(p),
   responseTime |-> FirstOf(p).startTime - arrivalTime(p)]
Metric(p) ==
  LET turnaround == LastOf(p).endTime - arrivalTime(p) IN
  [turnaroundTime |-> turnaround,
   waitingTime |-> turnaround - burstTime(p),
   responseTime |-> FirstOf(p).startTime - arrivalTime(p)]

(* buildResult; averages and totalTime follow from metrics and gantt.      *)
Return ==
  /\ pc = "running"
  /\ LoopEnds
  /\ pc' = "returned"
  /\ metrics' = [p \in Pid |-> Metric(p)]
  /\ UNCHANGED <<request, clock, gantt, ordered, next, pending, ready,
                 remaining>>

Next ==
  \/ Refuse \/ Begin
  \/ RunFcfs
  \/ IdleNonPreemptive \/ RunNonPreemptive
  \/ IdleRoundRobin \/ RunSlice
  \/ Return

Spec == Init /\ [][Next]_vars

(* The computation is synchronous: nothing interrupts it.                  *)
FairSpec == Spec /\ WF_vars(Next)

-----------------------------------------------------------------------------
(* Reference definitions, over the request alone.                          *)
TotalOf(f, S) == FoldFunctionOnSet(+, 0, f, S)
BurstOf(S) == TotalOf([p \in Pid |-> burstTime(p)], S)

(* The time at which a CPU that never idles in vain has served everything: *)
(* for some r, it is busy from r on with all that arrives from r on.       *)
Makespan ==
  Max({arrivalTime(p) + BurstOf({q \in Pid : arrivalTime(q) >= arrivalTime(p)}) :
         p \in Pid})

(* The total waiting time when all processes are there from the start and  *)
(* run to completion in the order s.                                       *)
WaitingInOrder(s) ==
  TotalOf([i \in DOMAIN s |-> BurstOf({s[j] : j \in 1..(i - 1)})], DOMAIN s)

Orders == {s \in [Pid -> Pid] : \A i, j \in Pid : s[i] = s[j] => i = j}

Returned(algorithms) == pc = "returned" /\ algorithm \in algorithms
TotalWaiting == TotalOf([p \in Pid |-> metrics[p].waitingTime], Pid)

-----------------------------------------------------------------------------
(* The shape of the state; in Round Robin no burst is overdrawn.           *)
TypeOK ==
  /\ pc \in {"received", "running", "returned", "refused"}
  /\ process \in [1..Len(tasks) -> Process]
  /\ clock \in Nat
  /\ gantt \in Seq([pid : Pid, startTime : Nat, endTime : Nat])
  /\ ordered \in Seq(Pid)
  /\ next \in 1..(Len(tasks) + 1)
  /\ pending \subseteq Pid
  /\ ready \in Seq(Pid)
  /\ remaining \in [Pid -> Nat]

(* The burst that process p still has to get: from the loop of each        *)
(* algorithm, and before and after it.                                     *)
LeftInLoop(p) ==
  CASE algorithm = "FCFS" ->
         IF \E i \in next..Len(ordered) : ordered[i] = p THEN burstTime(p) ELSE 0
    [] algorithm \in {"SJF", "PRIORITY"} ->
         IF p \in pending THEN burstTime(p) ELSE 0
    [] algorithm = "ROUND_ROBIN" -> remaining[p]

Left(p) ==
  CASE pc \in {"received", "refused"} -> burstTime(p)
    [] pc = "running" -> LeftInLoop(p)
    [] pc = "returned" -> 0

(* Each algorithm is a CPU that serves every process from its arrival on,  *)
(* exactly its burst, and "idles until the next process arrives" only when *)
(* none is waiting.                                                        *)
Machine == INSTANCE CpuMachine
             WITH arrival <- [p \in Pid |-> arrivalTime(p)],
                  left <- [p \in Pid |-> Left(p)]
ImplementsCpu == Machine!Spec

(* The Gantt chart ends at the makespan: no algorithm loses time, whatever *)
(* the gaps between the arrivals.                                          *)
NoTimeIsLost == pc = "returned" => gantt[Len(gantt)].endTime = Makespan

(* The metrics, computed from the first and the last segment of a process, *)
(* agree with the whole chart: a process waits exactly while others run    *)
(* between its arrival and its completion, and its response is part of     *)
(* its waiting.                                                            *)
Overlap(segment, from, to) ==
  Max({0, Min({segment.endTime, to}) - Max({segment.startTime, from})})

OthersWithin(p, from, to) ==
  TotalOf([i \in DOMAIN gantt |-> Overlap(gantt[i], from, to)],
          DOMAIN gantt \ Own(p))

WaitingIsOthersRunning ==
  pc = "returned" => \A p \in Pid :
    LET arrival == arrivalTime(p)
        waiting == metrics[p].waitingTime
    IN /\ waiting = OthersWithin(p, arrival, arrival + metrics[p].turnaroundTime)
       /\ metrics[p].responseTime \in 0..waiting

(* "Shortest Job First" is worth its name: when all processes arrive at    *)
(* once, no other order of running them has a smaller total waiting time.  *)
ShortestFirstIsOptimal ==
  (Returned({"SJF"}) /\ \A p \in Pid : arrivalTime(p) = 0) =>
     \A s \in Orders : TotalWaiting <= WaitingInOrder(s)

(* "A LOWER priority number means a HIGHER scheduling priority": a process *)
(* is delayed by at most one less urgent process, the one that was already *)
(* running when it arrived.                                                *)
UrgentWaitsForOne ==
  Returned({"PRIORITY"}) => \A p \in Pid :
    LET delays == {i \in DOMAIN gantt :
                     /\ priority(gantt[i].pid) > priority(p)
                     /\ gantt[i].endTime > arrivalTime(p)
                     /\ gantt[i].startTime < FirstOf(p).startTime}
    IN /\ Cardinality(delays) <= 1
       /\ \A i \in delays : gantt[i].startTime < arrivalTime(p)

(* "Each process runs for at most one quantum before going to the back of  *)
(* the ready queue": between two slices of a process every other that has  *)
(* arrived by the end of the first and is not done runs, and none twice.   *)
Unserved(q, i) ==
  \/ remaining[q] > 0
  \/ \E k \in DOMAIN gantt : k > i /\ gantt[k].pid = q

TakesTurns ==
  algorithm = "ROUND_ROBIN" => \A i, j \in DOMAIN gantt :
    LET between == (i + 1)..(j - 1)
        p == gantt[i].pid
    IN (i < j /\ gantt[j].pid = p /\ \A k \in between : gantt[k].pid # p) =>
         /\ \A q \in Pid \ {p} :
              (arrivalTime(q) <= gantt[i].endTime /\ Unserved(q, i)) =>
                \E k \in between : gantt[k].pid = q
         /\ \A k, l \in between : gantt[k].pid = gantt[l].pid => k = l

(* With a quantum that no burst exceeds, Round Robin is first come, first  *)
(* served: the two code paths draw one and the same chart.                 *)
Fcfs[i \in Nat] ==
  IF i = 0 THEN <<>>
  ELSE LET p == ordered[i]
           before == Fcfs[i - 1]
           clockThen == IF before = <<>> THEN 0 ELSE before[i - 1].endTime
           start == Max({clockThen, arrivalTime(p)})
       IN Append(before, Segment(p, start, start + burstTime(p)))

LargeQuantumIsFcfs ==
  (Returned({"ROUND_ROBIN"}) /\ \A p \in Pid : burstTime(p) <= timeQuantum)
    => gantt = Fcfs[Len(ordered)]

(* Every request is answered: the loops end, with or without idle gaps.    *)
AlwaysAnswers == <>(pc \in {"returned", "refused"})
=============================================================================
