------------------------------ MODULE Overview ------------------------------
(***************************************************************************)
(* What a customer is shown of her wedding in figures: the dashboard       *)
(* (CustomerService.getDashboard), getWedding, and the summaries of the    *)
(* lists of expenses, guests and tasks, over rows that the handlers of     *)
(* Planning change meanwhile, one statement at a time.                     *)
(*                                                                         *)
(* A call reads the wedding by one statement and each table by another, in *)
(* no transaction, and computes the figures when it has them all.  Money   *)
(* is in minor units; the database prints a Decimal without the zeros at   *)
(* its end, and toMinorUnits reads that text.                              *)
(***************************************************************************)
EXTENDS Integers, Sequences, FiniteSets, FiniteSetsExt, Functions

CONSTANTS Client,
          Expense, Guest, Task, Event,     \* row ids
          Amount,                \* bound: the amounts of expenses
          Budget,                \* bound: the budgets of the wedding
          Time,                  \* bound: times of events, clock
          Due,                   \* bound: due dates of tasks
          PlusOnes,              \* bound: plusOneCount
          DASHBOARD_LIST_LIMIT,  \* 5 in the code
          MaxWrites,             \* bound: changes of the rows
          FallsShort,            \* the halves of a percent that the binary
                                 \* quotient misses, and rounds down
          None                   \* no row, no wedding, no date, no answer

ASSUME OverviewAssumption ==
  /\ \A Row \in {Expense, Guest, Task, Event} : IsFiniteSet(Row)
  /\ Amount \subseteq Nat /\ Budget \subseteq Nat /\ Time \subseteq Nat
  /\ Due \subseteq Nat
  /\ PlusOnes \subseteq Nat
  /\ DASHBOARD_LIST_LIMIT \in Nat \ {0}
  /\ MaxWrites \in Nat

VARIABLES versions,     \* history: the rows after each change, the last
                        \* of which is the database
          call,         \* what each client's call is, or None
          seen,         \* what it has read so far
          answer        \* the last answer of each client

vars == <<versions, call, seen, answer>>

Rsvp == {"PENDING", "ATTENDING", "DECLINED"}
ExpenseRow == [amount : Amount, isPaid : BOOLEAN]
GuestRow == [rsvpStatus : Rsvp, plusOneCount : PlusOnes]
TaskRow == [isCompleted : BOOLEAN, dueDate : Due \cup {None}]
EventRow == [startTime : Time, endTime : Time]

Op == {"dashboard", "wedding", "expenses", "guests", "tasks"}
Table == {"expenses", "guests", "tasks", "events"}
(* The tables that a call reads after the wedding, the dashboard in the    *)
(* order of its include.                                                   *)
TablesOf(op) ==
  CASE op = "dashboard" -> <<"events", "expenses", "tasks", "guests">>
    [] op = "wedding"   -> <<>>
    [] OTHER            -> <<op>>

Version == Len(versions)
db == versions[Version]

Empty == [budget   |-> None,
          expenses |-> [e \in Expense |-> None],
          guests   |-> [g \in Guest |-> None],
          tasks    |-> [t \in Task |-> None],
          events   |-> [e \in Event |-> None]]

-----------------------------------------------------------------------------
(* money.util.ts.  Decimal.toString() of an amount: its whole part, and    *)
(* the digits of its fraction up to the last that is not zero.             *)
DecimalText(minor) ==
  [whole    |-> minor \div 100,
   fraction |-> CASE minor % 100 = 0 -> <<>>
                  [] minor % 100 # 0 /\ minor % 10 = 0 -> <<(minor \div 10) % 10>>
                  [] minor % 10 # 0 -> <<(minor \div 10) % 10, minor % 10>>]

(* Mutant: the digits as they stand, "10.5" read as 10.05.                 *)
toMinorUnpadded(text) ==
  text.whole * 100 + (IF text.fraction = <<>> THEN 0
                      ELSE IF Len(text.fraction) = 1 THEN text.fraction[1]
                      ELSE text.fraction[1] * 10 + text.fraction[2])
toMinorUnits(text) ==
  LET minor == text.fraction \o <<0, 0>>
  IN text.whole * 100 + minor[1] * 10 + minor[2]

(* Math.round((part / whole) * 100) of doubles; the mutant cuts it off.    *)
PercentageCut(part, whole) == (100 * part) \div whole
Percentage(part, whole) ==
  LET rounded == (200 * part + whole) \div (2 * whole)
      half == (200 * part + whole) % (2 * whole) = 0
  IN IF half /\ <<part, whole>> \in FallsShort THEN rounded - 1 ELSE rounded

(* The mutant forgets the Math.min.                                        *)
SpentUncapped(spent, budget) ==
  IF budget > 0 THEN Percentage(spent, budget) ELSE 0
SpentPercentage(spent, budget) ==
  IF budget > 0 THEN Min({100, Percentage(spent, budget)}) ELSE 0

Rows(table) == {i \in DOMAIN table : table[i] # None}
Spent(expenses, S) ==
  SumFunction([e \in S |-> toMinorUnits(DecimalText(expenses[e].amount))])

(* The first rows of S in the order of key, nulls last; equal keys come in *)
(* any order.                                                              *)
Before(a, b) == a # None /\ (b = None \/ a < b)
FirstOf(S, key, limit) ==
  {F \in SUBSET S :
     /\ Cardinality(F) = Min({limit, Cardinality(S)})
     /\ \A i \in F, j \in S \ F : ~Before(key[j], key[i])}

-----------------------------------------------------------------------------
(* The figures of the dashboard.                                           *)
DashboardBudget(budget, expenses) ==
  LET budgetMinor == toMinorUnits(DecimalText(budget))
      spentMinor == Spent(expenses, Rows(expenses))
  IN [totalBudget     |-> budgetMinor,
      totalSpent      |-> spentMinor,
      remainingBudget |-> Max({0, budgetMinor - spentMinor}),
      spentPercentage |-> SpentPercentage(spentMinor, budgetMinor)]

DashboardTasks(tasks) ==
  LET total == Cardinality(Rows(tasks))
      completed == Cardinality({t \in Rows(tasks) : tasks[t].isCompleted})
  IN [totalTasks          |-> total,
      completedTasks      |-> completed,
      pendingTasks        |-> total - completed,
      completedPercentage |-> IF total > 0 THEN Percentage(completed, total)
                                           ELSE 0]

DashboardGuests(guests) ==
  LET Replied(rsvp) == {g \in Rows(guests) : guests[g].rsvpStatus = rsvp}
  IN [totalGuests    |-> Cardinality(Rows(guests)),
      attending      |-> Cardinality(Replied("ATTENDING")),
      pending        |-> Cardinality(Replied("PENDING")),
      declined       |-> Cardinality(Replied("DECLINED")),
      totalHeadcount |-> SumFunction([g \in Replied("ATTENDING") |->
                                        1 + guests[g].plusOneCount])]

(* Those that have not ended when the call began.                          *)
UpcomingEvents(events, start) ==
  {e \in Rows(events) : events[e].endTime >= start}
(* The mutant forgets the filter.                                          *)
AllTasks(tasks) == Rows(tasks)
OpenTasks(tasks) == {t \in Rows(tasks) : ~tasks[t].isCompleted}

Lists(s, start) ==
  LET upcoming == UpcomingEvents(s.events, start)
      starts == [e \in upcoming |-> s.events[e].startTime]
      open == OpenTasks(s.tasks)
      dues == [t \in open |-> s.tasks[t].dueDate]
  IN {l \in [nextEvent     : FirstOf(upcoming, starts, 1),
             events        : FirstOf(upcoming, starts, DASHBOARD_LIST_LIMIT),
             upcomingTasks : FirstOf(open, dues, DASHBOARD_LIST_LIMIT)] :
        l.nextEvent \subseteq l.events}

NoFigures == [op |-> "dashboard", wedding |-> FALSE]
Dashboard(s, start) ==
  {[op                  |-> "dashboard",
    wedding             |-> TRUE,
    budget              |-> DashboardBudget(s.budget, s.expenses),
    tasks               |-> DashboardTasks(s.tasks),
    guests              |-> DashboardGuests(s.guests),
    upcomingEventsCount |-> Cardinality(UpcomingEvents(s.events, start)),
    lists               |-> l] : l \in Lists(s, start)}

(* The summaries of the lists, written a second time in the code.          *)
ExpenseSummary(budget, expenses) ==
  LET spentMinor == Spent(expenses, Rows(expenses))
      paidMinor == Spent(expenses, {e \in Rows(expenses) : expenses[e].isPaid})
      budgetMinor == toMinorUnits(DecimalText(budget))
  IN [totalBudget     |-> budgetMinor,
      totalSpent      |-> spentMinor,
      remainingBudget |-> Max({0, budgetMinor - spentMinor}),
      paidAmount      |-> paidMinor,
      unpaidAmount    |-> spentMinor - paidMinor,
      spentPercentage |-> SpentPercentage(spentMinor, budgetMinor)]

(* Mutant: a guest who declined still counts with plus ones.               *)
HeadcountOfAll(guests) ==
  SumFunction([g \in Rows(guests) |-> 1 + guests[g].plusOneCount])
Headcount(guests) ==
  SumFunction([g \in {h \in Rows(guests) : guests[h].rsvpStatus = "ATTENDING"}
                 |-> 1 + guests[g].plusOneCount])

GuestSummary(guests) ==
  LET Count(P(_)) == Cardinality({g \in Rows(guests) : P(guests[g].rsvpStatus)})
  IN [totalGuests    |-> Cardinality(Rows(guests)),
      attending      |-> Count(LAMBDA r : r = "ATTENDING"),
      pending        |-> Count(LAMBDA r : r = "PENDING"),
      declined       |-> Count(LAMBDA r : r \notin {"ATTENDING", "PENDING"}),
      totalHeadcount |-> Headcount(guests)]

TaskSummary(tasks) ==
  LET total == Cardinality(Rows(tasks))
      completed == Cardinality({t \in Rows(tasks) : tasks[t].isCompleted})
  IN [totalTasks          |-> total,
      completedTasks      |-> completed,
      pendingTasks        |-> total - completed,
      completedPercentage |-> IF total > 0 THEN Percentage(completed, total)
                                           ELSE 0]

(* toWeddingDetailsResponse: the budget as the database prints it.         *)
Details(budget) == DecimalText(budget)

Figures(op, s, start) ==
  CASE op = "dashboard" -> Dashboard(s, start)
    [] op = "wedding"   -> {[op |-> op, totalBudget |-> Details(s.budget)]}
    [] op = "expenses"  -> {[op |-> op,
                             summary |-> ExpenseSummary(s.budget, s.expenses)]}
    [] op = "guests"    -> {[op |-> op, summary |-> GuestSummary(s.guests)]}
    [] op = "tasks"     -> {[op |-> op, summary |-> TaskSummary(s.tasks)]}

-----------------------------------------------------------------------------
(* What the customer may have in the database when the calls begin; each   *)
(* of the tables is full in turn.                                          *)
Full(table) ==
  CASE table = "expenses" -> [Expense -> ExpenseRow \cup {None}]
    [] table = "guests"   -> [Guest -> GuestRow \cup {None}]
    [] table = "tasks"    -> [Task -> TaskRow \cup {None}]
    [] table = "events"   -> [Event -> {r \in EventRow : r.startTime < r.endTime}
                                         \cup {None}]

Init ==
  /\ \/ versions = <<Empty>>
     \/ \E budget \in Budget, table \in Table : \E rows \in Full(table) :
          versions = <<[[Empty EXCEPT !.budget = budget] EXCEPT ![table] = rows]>>
  /\ call = [c \in Client |-> None]
  /\ seen = [c \in Client |-> Empty]
  /\ answer = [c \in Client |-> None]

(* The statements of createWedding, updateWedding and the item services,   *)
(* each a change of one row.                                               *)
Commit(new) ==
  /\ Version <= MaxWrites
  /\ new # db
  /\ versions' = Append(versions, new)
  /\ UNCHANGED <<call, seen, answer>>

WriteWedding == \E b \in Budget : Commit([db EXCEPT !.budget = b])

WriteRow ==
  /\ db.budget # None
  /\ \/ \E i \in Expense, row \in ExpenseRow \cup {None} :
          Commit([db EXCEPT !.expenses[i] = row])
     \/ \E i \in Guest, row \in GuestRow \cup {None} :
          Commit([db EXCEPT !.guests[i] = row])
     \/ \E i \in Task, row \in TaskRow \cup {None} :
          Commit([db EXCEPT !.tasks[i] = row])
     \/ \E i \in Event, row \in EventRow \cup {None} :
          /\ row # None => row.startTime < row.endTime
          /\ Commit([db EXCEPT !.events[i] = row])

-----------------------------------------------------------------------------
(* A call comes in and looks at the clock; from is history, the version it *)
(* finds.  Only the dashboard uses the time.  It reads the user first and  *)
(* answers 404 without one; no handler deletes a user, so that read, and   *)
(* the time it takes, is the one between this step and ReadWedding.        *)
Receive(c, op) ==
  /\ call[c] = None
  /\ \E start \in IF op = "dashboard" THEN Time ELSE {0} :
       call' = [call EXCEPT ![c] = [op |-> op, start |-> start, from |-> Version,
                                    awaits |-> <<"wedding">>]]
  /\ answer' = [answer EXCEPT ![c] = None]
  /\ UNCHANGED <<versions, seen>>

Reply(c, figures) ==
  /\ answer' = [answer EXCEPT ![c] =
       [figures |-> figures, start |-> call[c].start,
        from |-> call[c].from, to |-> Version]]
  /\ call' = [call EXCEPT ![c] = None]
  /\ seen' = [seen EXCEPT ![c] = Empty]

(* wedding.findUnique; without one the dashboard is all zeros, getWedding  *)
(* answers 404 and requireWedding 400.                                     *)
ReadWedding(c) ==
  /\ call[c] # None
  /\ call[c].awaits = <<"wedding">>
  /\ \/ /\ db.budget = None
        /\ Reply(c, IF call[c].op = "dashboard" THEN NoFigures
                    ELSE [op |-> "refused"])
     \/ /\ db.budget # None
        /\ seen' = [seen EXCEPT ![c].budget = db.budget]
        /\ call' = [call EXCEPT ![c].awaits = TablesOf(call[c].op)]
        /\ UNCHANGED answer
  /\ UNCHANGED versions

(* One statement for each table.                                           *)
ReadTable(c) ==
  /\ call[c] # None
  /\ call[c].awaits \notin {<<>>, <<"wedding">>}
  /\ LET table == Head(call[c].awaits) IN
     seen' = [seen EXCEPT ![c][table] = db[table]]
  /\ call' = [call EXCEPT ![c].awaits = Tail(@)]
  /\ UNCHANGED <<versions, answer>>

Compute(c) ==
  /\ call[c] # None
  /\ call[c].awaits = <<>>
  /\ \E figures \in Figures(call[c].op, seen[c], call[c].start) :
       Reply(c, figures)
  /\ UNCHANGED versions

Next ==
  \/ WriteWedding \/ WriteRow
  \/ \E c \in Client :
       \/ \E op \in Op : Receive(c, op)
       \/ ReadWedding(c)
       \/ ReadTable(c)
       \/ Compute(c)

Spec == Init /\ [][Next]_vars

-----------------------------------------------------------------------------
(* The shape of the state.                                                 *)
TypeOK ==
  /\ \A i \in DOMAIN versions : versions[i].budget \in Budget \cup {None}
  /\ Len(versions) <= MaxWrites + 1
  /\ \A c \in Client :
       /\ call[c] # None =>
            /\ call[c].op \in Op
            /\ call[c].from \in 1..Version
            /\ call[c].awaits \in Seq({"wedding"} \cup Table)
       /\ answer[c] # None => answer[c].from <= answer[c].to

(* The true sums, of the amounts themselves.                               *)
Total(expenses, paid) ==
  SumFunction([e \in {x \in Rows(expenses) : expenses[x].isPaid \in paid}
                 |-> expenses[e].amount])
People(guests) ==
  SumFunction([g \in {h \in Rows(guests) : guests[h].rsvpStatus = "ATTENDING"}
                 |-> 1 + guests[g].plusOneCount])

(* The counts g of guests, t of tasks, and the lists of them, as the rows   *)
(* have it.  A list has no row before which one left out would come.       *)
TrueGuests(g, guests) ==
  LET Replied(rsvp) ==
        Cardinality({i \in Rows(guests) : guests[i].rsvpStatus = rsvp})
  IN /\ g.totalGuests = Cardinality(Rows(guests))
     /\ g.attending = Replied("ATTENDING")
     /\ g.pending = Replied("PENDING")
     /\ g.declined = Replied("DECLINED")
     /\ g.totalHeadcount = People(guests)

TrueTasks(t, tasks) ==
  LET Done(completed) ==
        Cardinality({i \in Rows(tasks) : tasks[i].isCompleted = completed})
  IN /\ t.totalTasks = Cardinality(Rows(tasks))
     /\ t.completedTasks = Done(TRUE)
     /\ t.pendingTasks = Done(FALSE)

TrueList(list, S, key) ==
  list \subseteq S /\ \A i \in list, j \in S \ list : ~Before(key[j], key[i])

TrueTaskList(list, tasks) ==
  LET open == {t \in Rows(tasks) : ~tasks[t].isCompleted}
  IN TrueList(list, open, [t \in open |-> tasks[t].dueDate])

TrueEvents(f, events, start) ==
  LET coming == {e \in Rows(events) : events[e].endTime >= start}
      starts == [e \in coming |-> events[e].startTime]
  IN /\ f.upcomingEventsCount = Cardinality(coming)
     /\ TrueList(f.lists.events, coming, starts)
     /\ TrueList(f.lists.nextEvent, coming, starts)

(* The answer a is one with figures of op.                                 *)
Answered(a, op) == a.figures.op = op /\ a.figures # NoFigures

(* Every sum and count of an answer was true, to the last minor unit, of   *)
(* the rows at some moment between the call and its answer, and so was     *)
(* every list: of all that was spent and paid; of the guests and their     *)
(* replies; of the tasks, done and open, with the list of those due next;  *)
(* of the coming events with theirs.  Figures of different tables may be   *)
(* of different moments; what is computed of several, remainders and       *)
(* percentages, is in FiguresFit.  daysToGo is not modelled.               *)
WasTrue(a) ==
  LET f == a.figures
      During(P(_)) == \E i \in a.from..a.to : P(versions[i])
  IN
  /\ f \in {NoFigures, [op |-> "refused"]} =>
       During(LAMBDA v : v.budget = None)
  /\ Answered(a, "wedding") =>
       During(LAMBDA v : v.budget = toMinorUnits(f.totalBudget))
  /\ Answered(a, "expenses") =>
       /\ During(LAMBDA v : v.budget = f.summary.totalBudget)
       /\ During(LAMBDA v :
            /\ Total(v.expenses, BOOLEAN) = f.summary.totalSpent
            /\ Total(v.expenses, {TRUE}) = f.summary.paidAmount
            /\ Total(v.expenses, {FALSE}) = f.summary.unpaidAmount)
  /\ Answered(a, "guests") =>
       During(LAMBDA v : TrueGuests(f.summary, v.guests))
  /\ Answered(a, "tasks") =>
       During(LAMBDA v : TrueTasks(f.summary, v.tasks))
  /\ Answered(a, "dashboard") =>
       /\ During(LAMBDA v : v.budget = f.budget.totalBudget)
       /\ During(LAMBDA v : Total(v.expenses, BOOLEAN) = f.budget.totalSpent)
       /\ During(LAMBDA v : TrueGuests(f.guests, v.guests))
       /\ During(LAMBDA v : /\ TrueTasks(f.tasks, v.tasks)
                            /\ TrueTaskList(f.lists.upcomingTasks, v.tasks))
       /\ During(LAMBDA v : TrueEvents(f, v.events, a.start))

FiguresWereTrue == \A c \in Client : answer[c] # None => WasTrue(answer[c])

(* p is what part is of whole in percent, to half a percent; of nothing it *)
(* is 0.                                                                   *)
IsPercentage(p, part, whole) ==
  IF whole = 0 THEN p = 0
  ELSE /\ 200 * part - whole <= 2 * whole * p
       /\ 2 * whole * p <= 200 * part + whole

Fit(b) ==
  /\ b.remainingBudget = IF b.totalSpent <= b.totalBudget
                         THEN b.totalBudget - b.totalSpent ELSE 0
  /\ b.spentPercentage \in 0..100
  /\ IF b.totalSpent >= b.totalBudget /\ b.totalBudget > 0
     THEN b.spentPercentage = 100
     ELSE IsPercentage(b.spentPercentage, b.totalSpent, b.totalBudget)

GuestsAddUp(g) ==
  /\ g.totalGuests = g.attending + g.pending + g.declined
  /\ g.totalHeadcount >= g.attending

TasksAddUp(t) ==
  /\ t.totalTasks = t.completedTasks + t.pendingTasks
  /\ t.completedPercentage \in 0..100
  /\ IsPercentage(t.completedPercentage, t.completedTasks, t.totalTasks)

(* The figures of an answer fit each other even when its reads straddle    *)
(* changes: what remains is what the budget has over what is spent, or     *)
(* nothing; a percentage is that of the very figures beside it, to half a  *)
(* percent, 100 when the budget is spent and never more; the parts sum to  *)
(* the whole; the lists are as long as the counts beside them allow, and   *)
(* there is a next event just when one is coming.  100 percent may still   *)
(* leave money, 5 of 2000 for one.                                         *)
AddsUp(a) ==
  LET f == a.figures IN
  /\ Answered(a, "expenses") =>
       /\ Fit(f.summary)
       /\ f.summary.paidAmount + f.summary.unpaidAmount = f.summary.totalSpent
  /\ Answered(a, "guests") => GuestsAddUp(f.summary)
  /\ Answered(a, "tasks") => TasksAddUp(f.summary)
  /\ Answered(a, "dashboard") =>
       /\ Fit(f.budget)
       /\ GuestsAddUp(f.guests)
       /\ TasksAddUp(f.tasks)
       /\ Cardinality(f.lists.upcomingTasks) =
            Min({DASHBOARD_LIST_LIMIT, f.tasks.pendingTasks})
       /\ Cardinality(f.lists.events) =
            Min({DASHBOARD_LIST_LIMIT, f.upcomingEventsCount})
       /\ (f.lists.nextEvent = {}) <=> (f.upcomingEventsCount = 0)

FiguresFit == \A c \in Client : answer[c] # None => AddsUp(answer[c])

(* The dashboard and the lists compute the same figures by code of their   *)
(* own: asked while nothing changes, they agree.                           *)
EndpointsAgree ==
  \A i \in DOMAIN versions :
    LET v == versions[i] IN
    v.budget # None =>
      \A f \in Dashboard(v, 0) :
        LET summary == ExpenseSummary(v.budget, v.expenses) IN
        /\ \A x \in DOMAIN f.budget : f.budget[x] = summary[x]
        /\ f.budget.totalBudget = toMinorUnits(Details(v.budget))
        /\ f.guests = GuestSummary(v.guests)
        /\ f.tasks = TaskSummary(v.tasks)
=============================================================================
