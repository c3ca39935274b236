# Formal verification of WEDOS

TLA+ specifications of the WEDOS back end (`src/backend`, NestJS over
PostgreSQL through Prisma), the TLC configurations that check them on small
instances, and proofs, checked by TLAPS, of theorems about all detailed
modules: every invariant that a run checks is also a theorem. This
file is the inventory of the system, the guide to the modules, the account of
what is checked and proved, and the plan for what is left.

To run one configuration or one proof:

    tlc -config Bookings.cfg MCBookings.tla
    tlapm ResourceLockProofs.tla

## 1. The system

WEDOS is a wedding planner. A customer registers, creates one wedding and
keeps its guests, events, expenses and tasks; asks vendors for bookings, which
the vendors accept or reject; and uses four features taken from operating
systems: a wedding's tasks have *processes* with a life cycle, a *CPU
scheduling* simulation runs over them, a vendor is a *resource* that one
wedding holds at a time, and a *lock* in memory serialises its allocation.
Every request is handled by a stateless service method that awaits one
database statement after another. So the concurrency is that of statements of
different requests interleaving, on one server process or on several, and of
JavaScript's event loop in the one component that keeps state in memory.

### Inventory

| Component | Source (under `src/backend/src`) | State | Operations | Makes it correct | Model |
|---|---|---|---|---|---|
| Resource lock | `sync/resource-lock.service.ts` | `tails`, `held`, two promises per call | `runExclusive`, `isLocked`, `activeLocks` | exclusion per key, FIFO, no leaked key, progress | `ResourceLock` |
| Bookings | `customer/booking.service.ts`, `vendor/vendor-booking.service.ts` | table `bookings` | request, accept, reject, lists | one booking per wedding and vendor, decided once, true replies | `Bookings` |
| Resource allocation | `resource/resource.service.ts`, a migration | table `resource_allocations`, partial unique index | request, release, list, get | one holder per vendor, granted only on an accepted booking, released once | `ResourceAllocation` |
| Processes | `process/*.ts` | table `task_processes` | create, transition, list, get | the life cycle table, unique pids, stamps, no orphan | `ProcessLifecycle` |
| CPU scheduling | `scheduling/*.ts` | none (local variables) | run, four algorithms | no time lost, exact metrics, each algorithm's promise | `CpuScheduler` |
| Planning data | `customer/{customer,event,expense,guest,task,wedding-scope}*.ts` | tables `weddings`, `events`, ... | create, update, remove, lists | isolation of customers, no lost update, events in order | `Planning` |
| Accounts | `auth/*.service.ts`, `auth/strategies` | table `users`, tokens in the clients | register, login, token lookup | one account per address, true refusals, nobody acts as another | `Accounts`, `Planning` |
| Guards, roles | `auth/guards`, `auth/decorators`, the controllers' metadata | none | may a role enter a route | a handler runs only for the role its path is for | `Accounts` |
| Contention demo | `sync/sync-demo.service.ts` | none | two requests at once, then a get | both granted only if one was released before the other | `ContentionDemo` |
| Dashboard, summaries | `customer/{customer,expense,guest,task}.service.ts`, `money.util.ts` | none | figures of several reads | sums, counts and lists were true, remainders and percentages fit, two endpoints agree | `Overview` |
| Seed | `prisma/seed.ts` | rows with fixed ids | a run of upserts | can be run again, interrupted or overlapped | `Seed` |
| Vendor discovery | `customer/vendor-discovery.service.ts` | none | two queries | - | no |
| Request validation | `*/dto` | none | stateless predicates | - | as preconditions |
| Schema | `prisma/schema.prisma`, migrations | constraints | - | unique indexes, cascades | in the statements |
| Bootstrap, health | `main.ts`, modules, `prisma.service.ts` | - | - | - | no |

### How the components interact

* `ResourceService.request` calls `ResourceLockService.runExclusive` with the
  vendor's key; its critical section reads the bookings and the allocations
  and inserts a row in a transaction. The lock is a singleton of one server
  process; the database is shared by all of them.
* `BookingService` (customers) and `VendorBookingService` (vendors) meet in
  the table of bookings, which the resource endpoints read.
* Deleting a task (`TaskService.remove`) deletes its process by a cascade,
  under `ProcessService`'s feet.
* Every customer service resolves the wedding of the caller first
  (`WeddingScopeService`); a wedding is never deleted.
* `SyncDemoService` is a client of `ResourceService` inside the server: it
  calls `request` twice in one turn of the event loop, waits for both
  (`Promise.allSettled`) and then calls `get`.
* `JwtStrategy` reads the user of a token again at every request, and
  `RolesGuard` judges the role it finds against the metadata of handler and
  class; both run before a handler. The other modules take only the calls that
  pass them and the DTO validation.
* The dashboard and the lists read what the handlers of the planning data
  write, one statement per table.
* The seed script writes into the same tables from another process, without
  the services.

### What is hard

* **Read, then write.** Every handler reads rows in one statement and writes in
  a later one. What was read may be stale; only unique indexes and conditions
  in the `where` of the write hold at that moment.
* **A lock made of promises.** `runExclusive` must drop a map entry exactly
  when nobody queues behind it, between microtasks, also when the critical
  section throws.
* **Several servers, crashes, failing statements.** The lock does not reach
  across processes and dies with its server while a transaction may still be
  open; a commit may succeed and its answer be lost.
* **A script beside the server.** The seed script dies between two upserts, is
  run again, or runs twice, while accounts are registered under the very
  addresses it is about to use.
* **Figures of several reads.** A dashboard combines five statements; rows
  change between them.
* **Boundaries in numbers and time.** Halves of a percent in binary, amounts
  printed without their last zeros, a budget of zero; a scheduler's arrivals equal to the clock, idle gaps,
  last slices.

PROJECT.json lists each hazard at its line, with the properties that would
catch it going wrong.

## 2. The modules

| Module | Kind | Stands for |
|---|---|---|
| `FifoMutex` | abstract | what `runExclusive` promises |
| `ResourceLock` | detailed, implements `FifoMutex` | the promise chains |
| `ResourceLockProofs` | proofs | its safety and the refinement |
| `BookingLedger` | abstract | what the booking endpoints promise |
| `Bookings` | detailed, implements `BookingLedger` | the three handlers that write bookings |
| `BookingsProofs` | proofs | its safety and the refinement |
| `AllocationLedger` | abstract, over `BookingLedger` | what the resource endpoints promise |
| `ResourceAllocation` | composition of `FifoMutex` and `BookingLedger` with the service and the table; implements `AllocationLedger` | request, release, list, get on several servers |
| `ContentionDemo` | composition, extends `ResourceAllocation` | the demo as a client of the endpoints |
| `AllocationProofs` | proofs | the safety of `ResourceAllocation`, its refinement by the index or by the lock, and the demo's answer |
| `ProcessLifecycle` | detailed | processes and the deletion of tasks |
| `ProcessProofs` | proofs | all that holds of `ProcessLifecycle` |
| `CpuMachine` | abstract | a CPU that never idles in vain |
| `CpuScheduler` | detailed, implements `CpuMachine` | the four algorithms, validation and metrics |
| `CpuProofs` | proofs | the refinement and all safety properties of `CpuScheduler` |
| `Planning` | detailed | weddings and the four kinds of items |
| `PlanningProofs` | proofs | all properties of `Planning` |
| `Overview` | detailed, pure functions and reads | the figures of dashboard and lists |
| `OverviewProofs` | proofs | all properties of `Overview` |
| `Accounts` | detailed | register, login, tokens, guards |
| `Seed` | composition, extends `Accounts` | the script beside the server |
| `SeedProofs` | proofs | all properties of `Accounts` and `Seed` |
| `MC...` | instances | the sets TLC gives to the constants |

    ResourceLock --implements--> FifoMutex ------+
    Bookings ----implements--> BookingLedger ----+--> ResourceAllocation --> ContentionDemo
                                     |                   |  implements
                                     +--> AllocationLedger <--+
    CpuScheduler --implements--> CpuMachine
    Accounts --extended by--> Seed
    ProcessLifecycle, Planning, Overview: on their own

The composition is by contract: `ResourceAllocation` uses the actions of the two
abstract modules, so its state has neither promises nor the booking handlers'
program counters, and the refinements below it justify that.

### Conventions

* **One action per await.** A handler is cut at each `await`: an action is one
  database statement with all the code up to the next one. `pc` names what a
  call awaits or how it ended. Node runs the code between awaits without
  interruption, and PostgreSQL executes one statement atomically with respect
  to unique indexes and `where` conditions, so this is the granularity at which
  requests interleave.
* **Names.** A row is named by what identifies it: a booking by its wedding and
  vendor, an allocation by the call that inserted it, a process by its task.
  Texts, dates and amounts are left out unless a property is about them.
* **History variables** (marked so): `queue` in `ResourceLock`, `applied`,
  `freed`, `releasedBefore`, `named`, `versions`, `from` and `to`, `alone`, the
  `password` in a token. They record and never guard a step of the code.
* **Mutants.** Operators that a comment introduces as *the mutant* are what a
  plausible bug would put in the place of the definition after them. No
  specification uses them; each property fails for the mutant that PROJECT.json
  pairs it with.

### State and code

**ResourceLock.** A call is its own identity; `tails[k] = c` says that the map
holds the promise `chain` of call `c`. `released` and `settled` are the calls
whose `current` and `chain` promises are resolved. The settling of a chain is a
microtask of the engine, hence an action of its own. The critical section
returns or throws; on the keys of `Stuck` it may never end.

**Bookings.** `status` is the table, `request` the arguments, `reply` the
status in the answer; a call is cut off at any point by a stopping server or a
lost connection. `acceptBooking` and `rejectBooking` share `transition`:
find the vendor's profile, find the vendor's booking of that id, `updateMany`
where it is still that vendor's and PENDING (`Matches`, `AfterUpdate`), then
`getBooking`: profile and booking once more, each with its 404 (`ReloadProfile`,
`Reload`). An id that is no vendor's is in `VendorId`.

**ResourceAllocation.** `rows` are the committed allocations; the row of an
open transaction is the call's own, and it blocks another insert for the same
vendor until it ends, as PostgreSQL's unique index does. A crash empties the
server's lock and turns calls with an open transaction into *orphans*, which
commit or roll back later. `view` is the answer computed from the three reads
of `listResources`, in their order. With failures, the answer to a commit and
that to the update of a release may be lost after they took effect; `freed`, as
history, says what a release released, whatever it is then told. A call counts as received when
`requireWeddingId` has answered (`FindWedding`): a wedding is never deleted, so it
does not matter when it was found, and a call of a customer without one is
refused. `AllocationLedger` holds a set of grants per vendor (`Holders`), each
with the name of its row, so that a second grant to the same wedding would be
seen. With `UniqueIndex = FALSE` the migration is
taken away.

**ContentionDemo.** `Simulate` is the synchronous part of the handler: both
attempts get the same request and run to their first `await` in one step.
`GetResource` is what follows `Promise.allSettled`; the answer is what the
variables hold when `demo = "answered"`. `releasedBefore[a]` is history: which
attempts' rows had been released by calls other than the demo's when the row of
`a` was committed. The attempts are ordinary calls of
`ResourceAllocation`; the steps of all calls are its own.

**ProcessLifecycle.** `process[t]` has the columns state, pid, wedding and the
two stamps; `startedAt` counts the times it was written, up to `MaxStarts`, so
that a second write shows. `highest` and `existing` are the local variables of
`create` and `transition`. `transition` reads and judges, then updates by id
only, as the code does; whether it writes `startedAt` depends on what it read.

**CpuScheduler.** One action per loop iteration, the local variables of the
code as variables: `clock`, `gantt`, `ready`, `remaining`, `pending`, `next`.
The request (`tasks`, `algorithm`, `timeQuantum`, one record per process) is
chosen in the initial state and validated by the first step.

**Planning.** An item stands for one row with two columns: of an event
`startTime` and `endTime`; of a guest, an expense or a task any two columns.
PATCHes name any subset of them. What is written differs: `EventService.update`
always writes both times, the other services the columns named. A row id is
never used again (uuids), hence `Deleted`.

**Overview.** `versions` is the sequence of database states, the last of which
is the present one; an answer remembers which of them its call spans. Amounts
are minor units; `DecimalText` is how the database prints a `Decimal(12,2)` and
`toMinorUnits` what the code makes of that text. `FallsShort` lists the
quotients that are half a percent in arithmetic and a little less in doubles:
11.50 of 20.00 is 57.49999999999999 percent and is rounded to 57. The functions
of the dashboard and of the lists are written twice, as in the code. What the
figures should be is written a third time, over the amounts and rows themselves
(`Total`, `TrueGuests`, `TrueTasks`, `TrueEvents`). The dashboard first reads the
user and answers 404 without one; no code deletes a user, so this is a part of
`Receive`, and time may pass before `ReadWedding` anyway.

**Accounts.** A user's password stands for its hash. `Lower` is
`toLowerCase`. A route is a controller's path with the roles in the metadata of
its handler and of its class. `read[c]` is the id of the user that a login or a
guard has read. A token names its user and, as history, the password it was
given for.

**Seed.** `SeedList` is the script as a list of rows, each with what a statement
on it can fail on: its references and its unique columns. An upsert with an
empty `update` is a find and, if nothing was found, an insert: two statements,
as Prisma issues them. `Seeded` keeps one row of each shape for TLC.

## 3. The runs

Each run is one question. The sizes are of distinct states.

| Run | Question | Bounds | States |
|---|---|---|---|
| `ResourceLock` | Is the chain of promises a FIFO mutex that leaks nothing, and does every call get its turn? | 4 calls, 2 keys, one of them may hang | 110 k |
| `Bookings` | Do the booking handlers keep one author per row and answer truly, in any interleaving and cut off anywhere? | 3 calls, 2 weddings, 2 vendors, 1 unknown id | 265 k |
| `Bookings_duplicate` | Are duplicates refused only while active, as the schema says? **No.** | 3 calls, 1 wedding, 1 vendor | - |
| `Allocation_servers` | Is a vendor held once across servers, crashes and failures, released once, and are the answers true? | 3 calls, 2 weddings, 1 vendor, 2 servers, 1 crash | 978 k |
| `Allocation_fair` | Does every request end, also behind an orphan? | 3 calls, 2 servers, 1 crash | 41 k |
| `Contention_demo` | Does the lock alone, without the index, keep `AllocationLedger` on one server, and is the demo's answer true while others request, release and read? | the demo's 3 calls and 1 other, 2 weddings, 1 vendor, failures | 716 k |
| `Process_races` | What survives every race of creates, transitions and deletes? | 2 clients, 2 tasks, 2 weddings, 2 starts | 877 k |
| `Process_lifecycle` | Is every change of state an arrow of the table, as the comments claim? **No.** | 2 clients, 1 task | - |
| `CpuScheduler` | Do the four algorithms keep their promises and end? | 3 processes, arrivals {0,1,4}, bursts 1..3, 2 priorities, quanta 1..3 | 272 k |
| `Planning` | Are the customers' data safe from each other and from their own double requests? | 2 clients, 2 customers, 1 row, 3 times | 1.3 M |
| `Seed` | Does a finished run of the script leave everything there, whatever happened before and meanwhile, and does nobody act as another? | 2 clients, 2 passwords, "admin" and "ADMIN", 2 runs, 6 rows | 677 k |
| `Overview` | Was every sum, count and list shown true at some moment of its call, and do remainders and percentages fit them? | 1 call, 2 rows of each table, 1 change meanwhile | 261 k |

**Why the bounds are enough.** The races here are between two calls, with a
third to overtake, to be the queue behind, or to decide between them: 3 calls
(4 for the lock, whose defects need a head, a waiter and a late arrival around
the moment the queue empties, with one more on another key). Two vendors and
two weddings distinguish the key that is right from one that is not. One crash
makes an orphan and a reborn server; a second crash starts from a state like
the first. In the scheduler, three processes give a running one, one that
overtakes and one overtaken; arrivals 0, 1 and 4 with bursts up to 3 give ties,
arrivals at the very end of a slice, and idle gaps before and between; quanta
1..3 cover one-unit slices, short last slices and whole bursts. In `Planning`,
three times are the fewest for which two legal PATCHes can cross.

The demo needs its three calls; one more call is what can release or request
between them. `Seed` takes one row of each shape of the script (a user that
others reference, one that none does, a row under a user, under another row,
under two), because the rows of one shape do not interact; two starts are an
interrupted run with its repetition, or two that overlap; the one address in two
spellings is that of the user whose creation can be forestalled. `Overview` has
one call, since calls only read; one change meanwhile is what a read can
straddle, and two rows of a table with a list limit of one are the fewest that
can be ordered, overflow the list and be summed. Its amounts 0.05 and 11.50 and its budgets 0 and 20.00 give
a budget that is zero, exceeded, and hit at half a percent.

**Symmetry** is used over calls, clients, weddings, vendors and servers where
the configuration says so, never in a run with liveness properties.

**Fairness.** `ResourceLock`: the engine runs every microtask and resumes every
call whose promise is settled, and a critical section settles unless its key is
`Stuck` (weak fairness per call). `ResourceAllocation`: the event loop resumes a call
once its statement is answered, and the database answers and ends orphaned
transactions; failures and crashes are not fair. `CpuScheduler`: the
computation is synchronous, so `Next` is weakly fair. The other modules state
no liveness: their calls never wait for one another.

**Deadlock** is checked where clients make calls for ever (`ProcessLifecycle`,
`Planning`); where each call, start or change is made a bounded number of times,
the run ends and its configuration says `CHECK_DEADLOCK FALSE`.

**Type invariants.** Every detailed module states one (`ContentionDemo` has that
of `ResourceAllocation`). All are proved; no run repeats them.

### What the runs show about the code

Two statements of the repository are not what the code does.

1. `schema.prisma:164` says that duplicate *active* requests are prevented. The
   unique index covers rejected bookings too, so a wedding that was rejected
   can never ask that vendor again (`booking.service.ts:98`).
2. `process.service.ts:116` says that a single *validated* transition is
   applied, and a test that a COMPLETED process does not transition again. The
   update is by id only: of two concurrent transitions the second follows an
   arrow that does not exist, e.g. COMPLETED to RUNNING. What is left of the
   claim is `UnovertakenMovesAreValid`, so the race is the whole cause.

Smaller observations, about which no text of the repository promises otherwise:

* `process.service.ts:108-109` answers "This task already has a process" also
  when two creates for different tasks collided on the wedding's next pid.
* Two concurrent `createWedding` or `register` calls store one row, as they
  should, but the loser meets an uncaught P2002 and is answered with a server
  error instead of the 409 that the checks before the insert give. In
  `Planning` and `Accounts` it ends with `"error"`.
* `EventService.update` rewrites both times from an earlier read. That is what
  keeps events chronological under concurrent PATCHes (write only the times
  named, and `EventsChronological` fails), at the price of a lost update: a
  PATCH of the name alone can undo a concurrent change of the times.
* The contention demo "admits only one" of its two requests only as long as no
  release comes between them: both are granted only if another call had released
  the allocation of one when the other committed (`DemoIsTrue`). And an attempt it reports as DENIED may hold the vendor, if the answer to its
  commit was lost.
* A dashboard may show a budget, a sum and a percentage of different moments.
  Each was true during the call (`FiguresWereTrue`), and they fit
  (`FiguresFit`), since each figure is computed from the same reads. 100 percent
  may leave money: 19.95 of 20.00 is shown as 100 percent with 0.05 left.
* The seed script stores a placeholder where the hash of a password belongs,
  though `seed.ts:75` says it represents "password123": nobody can log in as a
  seeded user. `ActsAsOneself` relies on it for the admin.
* A dev address that somebody registered first stops the script at that user,
  at every run (`FailsForAReason`).
* No endpoint writes a vendor profile; only the script does.

## 4. The proofs

All theorems hold for every value of the constants that the modules' named
assumptions admit. TLC evaluates the assumptions in every run of the module.
They say that

* null values are no values (`NamesAssumption` of `ResourceLock`,
  `NothingAssumption` of `Planning` and `Accounts`, `ConstantsAssumption` of
  `ResourceAllocation` and `ProcessLifecycle`, `RowAssumption`,
  `RequestAssumption` of `CpuScheduler`), and that bounds, times and what
  a schedule is made of are numbers (the same, and `TimeAssumption` of
  `Planning`);
* the vendor profiles are among the ids a client may send (`VendorAssumption` of
  `Bookings`), what a client types is an address (`BoundsAssumption` of `Accounts`),
  and the three calls of the demo are three (`DemoAssumption`);
* lower-casing twice is lower-casing once (`LowerAssumption` of `Accounts`);
* the seed script is as it is written: its ids are not generated ones, its
  addresses are in lower case, and the rows it writes are preceded by those they
  reference (`SeedAssumption` of `Seed`);
* a database has finitely many rows, and amounts, times and bounds are numbers
  (`OverviewAssumption`). Which quotients the doubles miss (`FallsShort`) is left
  open.

**ResourceLockProofs.** `MutualExclusion` is not inductive: nothing in it says
why a call whose predecessor's promise settles is alone. The invariant `ChainInv`
does. The history `queue` lists a key's unfinished calls in calling order; each
waits for the promise of the one before it (`QueueLinks`); the map holds the promise of
the last (`TailIsLast`); a promise settles only after its call and, by the
links, all calls before it are done (`ReleasedAreDone`). So a call can enter only when it
is first. One lemma per action shows that `TypeOK /\ ChainInv` is kept. From it:
`TypeCorrect`, `ChainInvariant`, `Exclusion`, `HeldIsExact` (what `activeLocks` reports is
true), `TailsAreExact` (no map entry leaks or is dropped early), and
`ImplementsFifo` (each step is a step of `FifoMutex` or a stutter).

**BookingsProofs.** What a call may rely on is what it has read (`Known`): the
wedding it inserts for exists, the booking it is about to update or reads again has a
row and is its vendor's, and who got past the count of its update has decided. Weddings and rows are never deleted, so that stays true while
other calls run (`OthersKeep`). A row is decided once, so a call that decided it
finds its own verdict when it reads again (`Left`); and as only `Insert` and
`Update` write, a row's authors are counted by them (`Authored`). From `IInv`,
the three together: `TypeCorrect`, `OneAuthor`, `TrueReplies`, and
`ImplementsBookings` (each step is a step of `BookingLedger` or a stutter).

**PlanningProofs.** What a row must satisfy depends on what calls in flight are about to
write. The inductive invariant `IInv` says what each call *knows* when it is
about to make its next statement (`Fits`): its wedding exists; the row it found
has still that kind and owner, or is deleted; the two times it will write were
checked. No other call can undo such knowledge: weddings are not deleted, ids
are not reused, no handler changes a row's owner (`Advance`, `OthersFit`). From
it: `TypeCorrect`, `EventsStayChronological`, `NoColumnIsLost`, and the action
properties `OwnersWrite` and `CreatesReplace`.

**ProcessProofs.** `StampsFollowStates` is not inductive: `Update` writes what it
decided from an older record. What a transition knows when it writes (`Overtaken`): the
record it read was well stamped and had the arrow; if its process is gone, so is
the task, for good; if it is there, its `startedAt` has only grown. So a
transition to RUNNING that found a start may leave it out. `Fits` says the
same for the other calls: the task of a create is of its wedding or deleted, which
is why the insert's foreign key keeps `ProcessesAreFiled`. From `IInv`:
`TypeCorrect`, `Filed`, `StampsFollow`, `MovesOn` and `UnovertakenMoves`.

**AllocationProofs.** Three layers over one `Spec`.

* `IInv` says what each call knows (`Fits`): the booking it judged before it
  queued for the lock is still ACCEPTED, since decisions are final; the row a
  release found is still of its wedding and vendor; who inserted or released
  a row is at a label that says so; and the lists a reader has collected contain
  the row it is about, since an allocation leaves the active rows only
  for the released ones, and those are read later (`Seen`). From it: `TypeCorrect`, `TrueOutcomes`, `TrueAnswers`.
* `Unique`: of the allocations and open transactions of a vendor there is at
  most one. An insert waits for an open transaction and is refused by an
  allocation; that is the index, and nothing of the lock is used, so `OneHolderByIndex`
  holds on any number of servers and through every crash. `StepOnTable` says
  that each step opens, commits or releases one row or leaves the table alone.
  `Once` counts who released a row, and `Freed`, a part of `Fits`, says where a release that
  did or did not may be: `ReleasedByOne`, which includes what a release is told. With `Unique`, a commit is
  a `Grant` and a release a `Release` of `AllocationLedger`: `ImplementsAllocation`.
* `LockInv`: the queues name each call once, and exactly the calls in
  `runExclusive`. `StepOnLock` classifies the steps (joins, enters, leaves, a crash
  that empties a server's queues, or none of these). From it: `LockIsExact`, with or without the index.

The lock alone gives `Unique` as well, on one server that does not crash
(`OneServer`): a call that is about to insert or has inserted is the only one of
its vendor in its critical section (`OneInside`), so what it found free is still
free when it commits (`StillFree`), and without crashes no transaction is left
behind by a lock that is gone (`NoOrphan`). Hence `OneHolderByLock` and
`ImplementsAllocationByLock`. Take one of the two assumptions away and both fail:
a second server, or a crash, gives a call that the queue does not know.

The same module proves the demo, on top of that. Every step but `Simulate` is a step of `ResourceAllocation`, whose
invariants it keeps; that the two calls of `Simulate` start in one turn changes
none of them (`SimulateSafe`). `Stage` says how far the demo and its three calls
have come, `FinalSeen` that the get, made after both attempts have settled,
collects the row of a granted one: its active rows are read before the released
ones, so a row that moves between the two reads is not missed. That two granted attempts have two rows, of which one is RELEASED
at the end, says nothing of when. `Ordered` does: when the second of two attempts commits, `Unique`
leaves the first no ALLOCATED row, so it is RELEASED, by `Once` and the kinds of the demo's
calls by another call, and that is what `releasedBefore` notes (`CommitsAfterRelease`); later
steps do not change the note (`OrderedKept`): `TrueDemo`. All of it by
the lock of one server or by the index (`Sole`), as is `DemoImplements`.

**SeedProofs.** A user never changes once it is added, and addresses are stored in lower
case, each once (`Grown`, `UsersInv`). So what a call or a token knows of a user
stays true (`CallFits`, `TokenFits`): `OneAccount`, `OnlyOneself`, `TrueRefusals`. Of a
run of the script, what lies behind it is written (`Behind`), whoever wrote it, so a
reference is always there and `DoneIsComplete` follows; a run that overlaps no
other finds no row appear between its two statements except a user somebody
registered: `FailsOnlyForAReason`. The theorems hold for any `Seeded` that is closed
under references; the six rows of `Seed.cfg` are only a bound.

**CpuProofs.** A sorted list is a permutation of what was sorted (`SortedHasAll`: an
injection of a finite set into itself), so no process is lost by sorting or by
`admit` (`Admission`). From then on an unfinished process is in one place, once:
pending, or in the ready queue or the rest of `ordered` (`Kept`, `Present`, `Absent`).
So who is served has arrived and is unfinished, and if no one is served, nobody
waits: `ImplementsMachine`. The order is proved by what was known when a segment of the chart was
drawn. At its start nobody more urgent had arrived and was pending
(`MostUrgentFirst`), and segments follow each other: a less urgent one that delays a process
had begun before it arrived, and there is only one such (`UrgentFirst`). In Round Robin, who
had arrived by the end of a segment and has not run since stands before its
process in the queue, and who has run since ran once and stands behind
(`TurnInv`): `TurnsTaken`.

What remains of `CpuScheduler` relates a result to all the data, so every step is first
put in one of three classes (`Moves`): it leaves work, clock and chart alone
(`Quiet`), lets the clock jump to the next arrival (`Idles`), or draws one segment
(`Draws`). The first three arguments below then no longer depend on the algorithm.

* `LoadInv`: there is a moment since which the CPU was busy (`BusySince`), before
  which everything that had arrived is done, and since no moment has it worked more
  than the time that passed. At the end this is the makespan: `TimeIsUsed`.
* `ChartInv`: segments follow each other, those of a process lie after its arrival
  and sum to what it was served, and from its arrival to its last segment (to the
  clock, while it is unfinished) the chart has no gap (`Covers`). So its turnaround
  is its burst and what others ran meanwhile: `WaitingIsSeen`.
* `ShortInv`: when all arrive at once, the waits so far and the least the rest can
  still wait never exceed the waits of an order `s`, for every `s` (`Ahead`). SJF keeps it
  because the waits in `s` fall by at least the burst of the shortest process for each of the
  others when that one is taken out: `ShortestFirstIsBest`.
* `LargeInv`: while no burst exceeds the quantum, the queue is the stretch of
  `ordered` behind the segments drawn, and the chart is `Fcfs` of their number (`InTurn`):
  `LargeQuantumServesInTurn`.

Sums over finite sets and the recursive function `Fcfs` need induction over data,
and the library's induction theorems take an operator. It is replaced by the least
counterexample: the strict subset ordering of a finite set is well-founded
(`FS_StrictSubsetOrderingWellFounded`, `WFMin`, which take sets), so a set of subsets that is
not empty has a least member (`LeastSet`), and a set of naturals a least number (`LeastNat`).
From these: a fold is the sum of any one member and the rest (`TotalTakes`), sums
split, compare and depend on their terms only.

**OverviewProofs.** What a call has read of a table is what that table was in some
version between the call's beginning and now (`HasRead`); versions are only added, so
it stays so, and an answer keeps the interval it spans (`Settled`): `FiguresTrue`. It needs
that the computed figures are those of the rows read: money goes through its decimal
text and back unchanged (`RoundTrip`: the digits that the text drops are zeros), and the
loops' sums are the sums of the amounts; counts and lists are those of the rows that were
read in one statement (`GuestsFit`, `TasksFit`, `ListsFit`). `FiguresAddUp` needs nothing of the moments,
only the figures: sums of paid and unpaid rows split the whole, guests split by their
answer, and a percentage, even one that is rounded down for once, is right to half a percent
and on the side of 100 where its part is (`PercentageIs`). `SameFigures` compares the functions that the code
has twice. The lemmas on sums are those of `CpuProofs`, stated again for this module.

**Only model-checked.** Liveness under fairness: `EveryCallFinishes`, `EveryCallEnds`
and `AlwaysAnswers`. These and anything about ENABLED are out of the prover's reach.
No invariant, action property or refinement that a run checks is without its theorem.
Of the findings' two violated properties there is nothing to prove.

## 5. What is not modelled

* Vendor discovery, `getBooking` and the lists of bookings and processes: one or
  two queries that only answer, without figures.
* The averages of a schedule (`cpu-scheduler.ts:175`): three decimals in binary
  floating point, which TLA+ does not have. Of the percentages the rounding is
  modelled, with the quotients that doubles miss as a constant.
* The parsing of dates, amounts and names, and their lengths: an amount of 1e10
  passes the DTO (`expense.service.ts:91`) and fails in the database. Calls carry
  values that passed validation (the scheduler's own checks are modelled).
* bcrypt and the signature of a token, which are taken to be perfect.
* The days until the wedding (`daysToGo`, `customer.service.ts:259`) and the
  printed fields of rows.
* Bootstrap, dependency injection and the pool of connections.
* Isolation levels above statements: every handler but `request` of the
  resources uses no transaction, and that one uses READ COMMITTED.
* The cascade from a wedding to its rows: no handler deletes a wedding.

## 6. The plan

Done, in this order: the lock and bookings with their proofs; allocation over
both; processes; the scheduler; the planning data with its proofs; accounts and
the seed script; the figures; the demo; the proofs of processes, of allocation
(by the index and by the lock), of the demo, of accounts and seed, of the
scheduler, and of the figures.

What could still be added:

1. An abstract specification of a ledger of processes, with the races that
   `ProcessLifecycle` really has, and its refinement.
2. `Overview` over the handlers of `Planning` as its writers. It now admits any
   changes of rows, so its theorems cover them, but the composition is implicit.
3. Vendor discovery, once it does more than answer a query.
