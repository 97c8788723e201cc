------------------------------ MODULE Automation ------------------------------
(***************************************************************************)
(* Scheduled starts and maintenance (scheduler.py): the tick that looks    *)
(* every half minute for what is due, the owner's "run now", and the       *)
(* requests that change plans and one-time events (app.py).                *)
(*                                                                         *)
(* A tick works in one database session from its first look to its last    *)
(* commit.  A backup commits in the middle; whatever is not committed is   *)
(* lost when the tick ends with an exception, and while something is       *)
(* flushed nobody else can write.                                          *)
(***************************************************************************)
EXTENDS Naturals, FiniteSets

CONSTANTS
  Profiles, Events,
  MaxClock,    \* bound: minutes of the one day
  Times,       \* bound: minutes that plans and events name
  Archives,    \* bound: do one-time events archive the world first?
  MaxChanges,  \* bound: requests of the owner, and changes of the server
  MaxFaults    \* bound: crashes and failed flushes

ConstantsOK ==
  /\ Times \subseteq 1 .. MaxClock /\ Archives \subseteq BOOLEAN /\ Profiles # {} /\ Profiles \intersect Events = {}
  /\ {MaxClock, MaxChanges, MaxFaults} \subseteq Nat

VARIABLES
  clock,     \* the minute
  plans,     \* Schedule
  marks,     \* last_start_date and last_stop_date are today's
  events,    \* AutomationEvent
  recorded,  \* AutomationRun, by what was run
  carried,   \* how often each was carried out
  lost,      \* of what a record was rolled back
  tick,      \* Scheduler.tick()
  run,       \* a request that runs a plan now
  server,    \* the managed server
  changes, faults

database == <<plans, marks, events, recorded>>
history == <<carried, lost>>
bounds == <<changes, faults>>
vars == <<clock, database, history, tick, run, server, bounds>>

Never == 0
Minutes == 1 .. MaxClock
Starts == [kind : {"start"}, of : Profiles]
Stops == [kind : {"stop"}, of : Profiles]
OneTime == [kind : {"event"}, of : Events]
Manual == [kind : {"manual start", "manual stop"}, of : Profiles]
Jobs == Starts \union Stops \union OneTime \union Manual

\* A plan that is disabled is one without times.
Plans == [start : Times \union {Never}, stop : Times \union {Never}, backup : BOOLEAN]
NoEvent == [state |-> "none", of |-> "nobody", at |-> Never, backup |-> FALSE]
Servers == [state : {"stopped", "crashed", "running"}, of : Profiles]

NoJob == [kind |-> "none"]
NoWork == [pc |-> "none", job |-> NoJob, of |-> "nobody", backup |-> FALSE]
NoDraft == [marks |-> {}, done |-> {}, records |-> {}]
Idle == [work |-> NoWork, phase |-> "idle", now |-> Never, todo |-> {}, draft |-> NoDraft, locked |-> FALSE]

Init ==
  /\ clock = 1
  /\ plans \in [Profiles -> {plan \in Plans : Never \notin {plan.start, plan.stop}}]
  /\ marks = {} /\ events = [e \in Events |-> NoEvent]
  /\ recorded = [j \in Jobs |-> 0] /\ carried = [j \in Jobs |-> 0] /\ lost = {}
  /\ tick = Idle /\ run = NoWork
  /\ server \in {s \in Servers : s.state # "crashed"}
  /\ changes = 0 /\ faults = 0

Change == changes < MaxChanges /\ changes' = changes + 1 /\ UNCHANGED faults
Fault == faults < MaxFaults /\ faults' = faults + 1 /\ UNCHANGED changes

-----------------------------------------------------------------------------
(* Carrying out one job: _execute_start() and _execute_maintenance().      *)

Down == server.state \in {"stopped", "crashed"}

Work(pc, job, p, backup) == [pc |-> pc, job |-> job, of |-> p, backup |-> backup]

Starting(job, p) == Work(IF Down THEN "start" ELSE "record", job, p, FALSE)

\* Players who are online, or cannot be counted, may keep it running.
Maintaining(job, p, backup) ==
  {Work("record", job, p, backup)} \union
    (IF server = [state |-> "running", of |-> p] THEN {Work("save", job, p, backup)} ELSE {})

\* Where a step leads to, and what becomes of the server.
To(pc, now) == [pc |-> pc, server |-> now]
Outcomes(work) ==
  CASE work.pc = "start" ->
         {To("record", server)} \union
           (IF Down THEN {To("record", [state |-> s, of |-> work.of]) : s \in {"running", "crashed"}} ELSE {})
    [] work.pc = "save" -> {To("record", server), To(IF work.backup THEN "archive" ELSE "stop", server)}
    [] work.pc = "archive" -> {To("record", server), To("stop", server)}
    [] work.pc = "stop" -> {To("record", server), To("record", [server EXCEPT !.state = "stopped"])}

Counted(job) == carried' = [carried EXCEPT ![job] = @ + 1] /\ UNCHANGED lost

-----------------------------------------------------------------------------
(* The tick.                                                               *)

\* Mutant: whether it was done today is not asked.
DueRegardless(job, now) ==
  LET plan == plans[job.of]
  IN now = IF job \in Starts THEN plan.start ELSE plan.stop

Due(job, now) ==
  LET plan == plans[job.of]
  IN /\ job \notin marks
     /\ now = IF job \in Starts THEN plan.start ELSE plan.stop

\* The plans are read once; they say what this tick has to do.
Planned(now) ==
  {[job |-> j, backup |-> plans[j.of].backup] : j \in {i \in Starts \union Stops : Due(i, now)}}

TickBegins ==
  /\ tick.phase = "idle"
  /\ tick' = [Idle EXCEPT !.phase = "plans", !.now = clock, !.todo = Planned(clock)]
  /\ UNCHANGED <<clock, database, history, run, server, bounds>>

\* A profile's start comes before its stop.
TickTakesPlan(todo) ==
  /\ tick.phase = "plans" /\ tick.work = NoWork /\ todo \in tick.todo
  /\ \A other \in tick.todo : other.job.of = todo.job.of => todo.job \in Starts \/ other = todo
  /\ LET job == todo.job
     IN \E work \in IF job \in Starts THEN {Starting(job, job.of)}
                    ELSE Maintaining(job, job.of, todo.backup) :
          tick' = [tick EXCEPT !.work = work, !.todo = @ \ {todo}, !.draft.marks = @ \union {job}]
  /\ Counted(todo.job)
  /\ UNCHANGED <<clock, database, run, server, bounds>>

\* Mutant: only the events of this very minute.
LooksForThisMinute ==
  /\ tick.phase = "plans" /\ tick.work = NoWork /\ tick.todo = {}
  /\ tick' = [tick EXCEPT !.phase = "events",
       !.todo = {e \in Events : events[e].state = "pending" /\ events[e].at = tick.now}]
  /\ UNCHANGED <<clock, database, history, run, server, bounds>>

TickLooksForEvents ==
  /\ tick.phase = "plans" /\ tick.work = NoWork /\ tick.todo = {}
  /\ tick' = [tick EXCEPT !.phase = "events",
       !.todo = {e \in Events : events[e].state = "pending" /\ events[e].at <= tick.now}]
  /\ UNCHANGED <<clock, database, history, run, server, bounds>>

\* The event is completed before it is carried out, and that is flushed.  The
\* flush fails when the owner has cancelled it since.
TickTakesEvent(e) ==
  /\ tick.phase = "events" /\ tick.work = NoWork /\ e \in tick.todo
  /\ events[e].state = "pending"
  /\ \E work \in Maintaining([kind |-> "event", of |-> e], events[e].of, events[e].backup) :
       tick' = [tick EXCEPT !.work = work, !.todo = @ \ {e}, !.draft.done = @ \union {e}, !.locked = TRUE]
  /\ Counted([kind |-> "event", of |-> e])
  /\ UNCHANGED <<clock, database, run, server, bounds>>

RolledBack ==
  /\ tick' = Idle
  /\ lost' = lost \union tick.draft.records \union ({tick.work.job} \ {NoJob})
  /\ UNCHANGED <<database, carried>>

TickMeetsCancelled(e) ==
  /\ tick.phase = "events" /\ tick.work = NoWork /\ e \in tick.todo
  /\ events[e].state = "cancelled" /\ RolledBack
  /\ UNCHANGED <<clock, run, server, bounds>>

\* What has been flushed or marked becomes part of the database.
Commits(draft) ==
  /\ marks' = marks \union draft.marks
  /\ events' = [e \in Events |-> IF e \in draft.done THEN [events[e] EXCEPT !.state = "done"] ELSE events[e]]
  /\ recorded' = [j \in Jobs |-> recorded[j] + IF j \in draft.records THEN 1 ELSE 0]
  /\ UNCHANGED plans

\* Before the archive is written, and after, the session commits.
TickWorks ==
  /\ tick.work.pc \in {"start", "save", "archive", "stop"}
  /\ \E outcome \in Outcomes(tick.work) :
       /\ server' = outcome.server
       /\ IF outcome.pc = "archive" \/ tick.work.pc = "archive"
          THEN /\ Commits(tick.draft)
               /\ tick' = [tick EXCEPT !.work.pc = outcome.pc, !.draft = NoDraft, !.locked = FALSE]
          ELSE tick' = [tick EXCEPT !.work.pc = outcome.pc] /\ UNCHANGED database
  /\ UNCHANGED <<clock, history, run, bounds>>

\* Mutant: an action that was skipped leaves no record.
RecordsWhatRan ==
  /\ tick.work.pc = "record"
  /\ tick' = [tick EXCEPT !.work = NoWork,
       !.draft.records = IF Down THEN @ ELSE @ \union {tick.work.job}, !.locked = TRUE]
  /\ UNCHANGED <<clock, database, history, run, server, bounds>>

\* _record_run() flushes: from here to the next commit nobody else can write.
TickRecords ==
  /\ tick.work.pc = "record"
  /\ tick' = [tick EXCEPT !.work = NoWork, !.draft.records = @ \union {tick.work.job}, !.locked = TRUE]
  /\ UNCHANGED <<clock, database, history, run, server, bounds>>

TickCommits ==
  /\ tick.phase = "events" /\ tick.work = NoWork /\ tick.todo = {}
  /\ Commits(tick.draft) /\ tick' = Idle
  /\ UNCHANGED <<clock, history, run, server, bounds>>

\* A flush or a commit fails.
TickFails ==
  /\ tick.phase # "idle" /\ Fault /\ RolledBack
  /\ UNCHANGED <<clock, run, server>>

-----------------------------------------------------------------------------
(* The owner's requests, the clock and the server.                         *)

Busy == tick.locked

SavePlan(p, plan) ==
  /\ ~Busy /\ Change /\ plans[p] # plan /\ plans' = [plans EXCEPT ![p] = plan]
  /\ UNCHANGED <<clock, marks, events, recorded, history, tick, run, server>>

CreateEvent(e, p, at, backup) ==
  /\ ~Busy /\ events[e].state = "none" /\ at > clock
  /\ events' = [events EXCEPT ![e] = [state |-> "pending", of |-> p, at |-> at, backup |-> backup]]
  /\ UNCHANGED <<clock, plans, marks, recorded, history, tick, run, server, bounds>>

CancelEvent(e) ==
  /\ ~Busy /\ Change /\ events[e].state = "pending"
  /\ events' = [events EXCEPT ![e].state = "cancelled"]
  /\ UNCHANGED <<clock, plans, marks, recorded, history, tick, run, server>>

RunNow(job) ==
  /\ run = NoWork /\ Change /\ job \in Manual
  /\ run' \in IF job.kind = "manual start" THEN {Starting(job, job.of)}
              ELSE Maintaining(job, job.of, plans[job.of].backup)
  /\ Counted(job)
  /\ UNCHANGED <<clock, database, tick, server>>

\* Its session commits as it goes; the commit of a backup fails while the tick
\* holds the database, and the request with it.
RunWorks ==
  /\ run.pc \in {"start", "save", "archive", "stop"}
  /\ \E outcome \in Outcomes(run) :
       /\ server' = outcome.server
       /\ IF Busy /\ (outcome.pc = "archive" \/ run.pc = "archive")
          THEN run' = NoWork /\ lost' = lost \union {run.job}
          ELSE run' = [run EXCEPT !.pc = outcome.pc] /\ UNCHANGED lost
  /\ UNCHANGED <<clock, database, carried, tick, bounds>>

\* The request waits on the event loop for a lock that only the loop can free.
RunRecords ==
  /\ run.pc = "record" /\ run' = NoWork
  /\ IF Busy THEN lost' = lost \union {run.job} /\ UNCHANGED recorded
     ELSE recorded' = [recorded EXCEPT ![run.job] = @ + 1] /\ UNCHANGED lost
  /\ UNCHANGED <<clock, plans, marks, events, carried, tick, server, bounds>>

TimePasses ==
  /\ clock < MaxClock /\ clock' = clock + 1
  /\ UNCHANGED <<database, history, tick, run, server, bounds>>

\* The owner starts or stops a server, or it dies.
ServerChanges ==
  /\ Change /\ server' \in Servers \ {server}
  /\ UNCHANGED <<clock, database, history, tick, run>>

Crash ==
  /\ tick.phase # "idle" \/ run # NoWork
  /\ Fault
  /\ tick' = Idle /\ run' = NoWork /\ server' = [server EXCEPT !.state = "stopped"]
  /\ lost' = lost \union tick.draft.records \union ({tick.work.job, run.job} \ {NoJob})
  /\ UNCHANGED <<clock, database, carried>>

TickStep ==
  \/ TickBegins \/ (\E todo \in tick.todo : TickTakesPlan(todo)) \/ TickLooksForEvents
  \/ (\E e \in Events : TickTakesEvent(e) \/ TickMeetsCancelled(e))
  \/ TickWorks \/ TickRecords \/ TickCommits

Next ==
  \/ TickStep \/ TickFails \/ RunWorks \/ RunRecords \/ TimePasses \/ ServerChanges \/ Crash
  \/ (\E p \in Profiles, plan \in Plans : SavePlan(p, plan))
  \/ (\E e \in Events, p \in Profiles, at \in Times, b \in Archives : CreateEvent(e, p, at, b))
  \/ (\E e \in Events : CancelEvent(e)) \/ (\E job \in Manual : RunNow(job))

Spec == Init /\ [][Next]_vars

\* The scheduler's task sleeps half a minute and goes on whatever happened.
FairSpec == Spec /\ WF_vars(TickStep)

-----------------------------------------------------------------------------
(* Correctness.                                                            *)

\* The type of the state.
TypeOK ==
  /\ clock \in Minutes /\ plans \in [Profiles -> Plans] /\ marks \subseteq Starts \union Stops
  /\ events \in [Events -> [state : {"none", "pending", "done", "cancelled"},
                            of : Profiles \union {"nobody"}, at : Times \union {Never}, backup : BOOLEAN]]
  /\ recorded \in [Jobs -> Nat] /\ carried \in [Jobs -> Nat] /\ lost \subseteq Jobs
  /\ tick.phase \in {"idle", "plans", "events"} /\ tick.locked \in BOOLEAN
  /\ tick.draft.marks \subseteq Starts \union Stops /\ tick.draft.done \subseteq Events
  /\ tick.draft.records \subseteq Jobs
  /\ {tick.work.pc, run.pc} \subseteq {"none", "start", "save", "archive", "stop", "record"}
  /\ server \in Servers /\ changes \in 0 .. MaxChanges /\ faults \in 0 .. MaxFaults

Cancelled == {e \in Events : events[e].state = "cancelled"}
Unfinished(job) == job \in tick.draft.records \union {tick.work.job, run.job}

\* A plan's start and stop happen once a day, and a one-time event once, except
\* again after a tick whose database session was rolled back; and whatever is
\* carried out is recorded, unless its session was rolled back: by a crash or a
\* failed flush, by an event cancelled while the tick worked, or for a manual
\* run that met a tick.
OnceAndRecorded ==
  \A j \in Jobs :
    /\ j \notin Manual => carried[j] <= 1 + faults + Cardinality(Cancelled)
    /\ j \notin lost => carried[j] = recorded[j] + IF Unfinished(j) THEN 1 ELSE 0
    /\ j \in lost => j \in Manual \/ faults > 0 \/ Cancelled # {}

\* A one-time event whose minute has come is carried out or cancelled, however
\* long the tick is busy with something else.
DueEventsEnd ==
  \A e \in Events : events[e].state = "pending" /\ events[e].at <= clock ~> events[e].state # "pending"

=============================================================================
