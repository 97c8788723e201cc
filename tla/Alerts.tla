-------------------------------- MODULE Alerts --------------------------------
(***************************************************************************)
(* Local alerts and their delivery to the owner's Discord webhook: the     *)
(* notification loop, the page of notifications, the test message and the  *)
(* owner's switches (app.py, notification_integrations.py).                *)
(*                                                                         *)
(* The loop, the page and the test work in database sessions of their own. *)
(* Nothing in the database keeps two of them from queueing one alert, and  *)
(* a row in progress looks like one that waits.                            *)
(***************************************************************************)
EXTENDS Naturals, FiniteSets, Functions

CONSTANTS
  Reports,      \* failed backups and automations, in the database
  Crashes,      \* crashes of the Minecraft server, known while it is down
  NoReport,
  Current,      \* the page's one key for whichever crash is shown
  MaxAttempts,  \* deliveries are tried three times
  Webhooks,     \* bound: webhooks ever configured
  MaxHappened,  \* bound: reports and crashes there are to tell
  MaxRequests,  \* bound: requests of the page and for a test that queue anything
  MaxChanges,   \* bound: switches of the owner
  MaxFaults     \* bound: crashes, failed commits, lost answers

ConstantsOK ==
  /\ Reports \intersect Crashes = {} /\ NoReport \notin Reports \union Crashes
  /\ Current \notin Reports \union Crashes \union {NoReport}
  /\ {MaxAttempts, MaxHappened, MaxRequests, MaxChanges, MaxFaults} \subseteq Nat /\ MaxAttempts > 0

VARIABLES
  happened,   \* the reports in the database, and the crashes there were
  crash,      \* the crash the server is down with
  webhooks,   \* NotificationIntegration rows with their secrets
  rows,       \* NotificationDelivery
  sent, accepted,  \* messages sent for a row, and taken by Discord
  loop,       \* notification_loop()
  page,       \* a request of the page
  test,       \* a request for a test message
  changes, faults

news == <<happened, crash>>
history == <<sent, accepted>>
bounds == <<changes, faults>>
vars == <<news, webhooks, rows, history, loop, page, test, bounds>>

Keys == Reports \union Crashes \union {Current, NoReport}

\* Nobody queues one key twice, so that a row is named after who queued it.
Rows ==
  [by : {"loop"}, to : Webhooks, key : Reports \union Crashes]
    \union [by : {"page"}, to : Webhooks, key : Reports \union {Current}]
    \union [by : {"test"}, to : Webhooks, key : {NoReport}]

Statuses == {"none", "pending", "waiting", "delivered", "failed"}
Answers == {"accepted", "refused", "busy"}

None == [by |-> "none"]
NothingKnown == [to |-> None, on |-> FALSE]
Resting == [pc |-> "sleep", missing |-> {}, batch |-> <<>>, row |-> None,
            known |-> NothingKnown, answer |-> "none"]
NoPage == [pc |-> "none", missing |-> {}]
NoTest == [pc |-> "none", row |-> None, answer |-> "none"]

Init ==
  /\ happened = {} /\ crash = NoReport
  /\ webhooks = [i \in Webhooks |-> "none"]
  /\ rows = [r \in Rows |-> [status |-> "none", attempts |-> 0]]
  /\ sent = [r \in Rows |-> 0] /\ accepted = [r \in Rows |-> FALSE]
  /\ loop = Resting /\ page = NoPage /\ test = NoTest
  /\ changes = 0 /\ faults = 0

Change == changes < MaxChanges /\ changes' = changes + 1 /\ UNCHANGED faults
Fault == faults < MaxFaults /\ faults' = faults + 1 /\ UNCHANGED changes

-----------------------------------------------------------------------------
(* What there is to tell.                                                  *)

Happens(a) ==
  /\ a \notin happened /\ Cardinality(happened) < MaxHappened
  /\ happened' = happened \union {a}
  /\ IF a \in Crashes THEN crash = NoReport /\ crash' = a ELSE UNCHANGED crash
  /\ UNCHANGED <<webhooks, rows, history, loop, page, test, bounds>>

ServerStarts ==
  /\ crash # NoReport /\ crash' = NoReport
  /\ UNCHANGED <<happened, webhooks, rows, history, loop, page, test, bounds>>

On == {i \in Webhooks : webhooks[i] = "on"}

\* The loop names every crash; the page has one name for them all, and leaves
\* out what the owner has seen.
Background == (happened \intersect Reports) \union ({crash} \ {NoReport})

OnThePage == (happened \intersect Reports) \union (IF crash # NoReport THEN {Current} ELSE {})

Queued == {<<r.to, r.key>> : r \in {q \in Rows : rows[q].status # "none"}}
Missing(keys) == (On \X keys) \ Queued

Adds(who, deliveries) ==
  rows' = [r \in Rows |->
    IF r.by = who /\ <<r.to, r.key>> \in deliveries
    THEN [status |-> "pending", attempts |-> 0] ELSE rows[r]]

-----------------------------------------------------------------------------
(* The loop.                                                               *)

\* queue_background_alerts() asks for every alert whether it is queued.
LoopLooks ==
  /\ loop.pc = "sleep"
  /\ loop' = [Resting EXCEPT !.pc = "queue", !.missing = Missing(Background)]
  /\ UNCHANGED <<news, webhooks, rows, history, page, test, bounds>>

\* Mutant: only what is new is sent, and what a pass left behind is forgotten.
QueuesAndTakesNew ==
  /\ loop.pc = "queue" /\ Adds("loop", loop.missing)
  /\ loop' = [Resting EXCEPT !.pc = "take",
       !.batch = [r \in {q \in Rows : rows'[q].status = "pending" /\ rows[q].status # "pending"}
                   |-> rows'[r].attempts]]
  /\ UNCHANGED <<news, webhooks, history, page, test, bounds>>

\* The commit, and copies of the pending rows that are due.
LoopQueues ==
  /\ loop.pc = "queue" /\ Adds("loop", loop.missing)
  /\ loop' = [Resting EXCEPT !.pc = "take",
       !.batch = [r \in {q \in Rows : rows'[q].status = "pending"} |-> rows'[r].attempts]]
  /\ UNCHANGED <<news, webhooks, history, page, test, bounds>>

\* The session goes on with the webhook it has read for the row before.
Available(i) == IF loop.known.to = i THEN loop.known.on ELSE webhooks[i] = "on"
Rest(r) == Restrict(loop.batch, DOMAIN loop.batch \ {r})

LoopTakes(r) ==
  /\ loop.pc = "take" /\ r \in DOMAIN loop.batch
  /\ LET known == [to |-> r.to, on |-> Available(r.to)]
     IN IF known.on
        THEN /\ rows' = [rows EXCEPT ![r].attempts = loop.batch[r] + 1]
             /\ loop' = [loop EXCEPT !.pc = "send", !.row = r, !.known = known]
        ELSE /\ rows' = [rows EXCEPT ![r].status = "failed"]
             /\ loop' = [loop EXCEPT !.batch = Rest(r), !.known = known]
  /\ UNCHANGED <<news, webhooks, history, page, test, bounds>>

LoopSleeps ==
  /\ loop.pc = "take" /\ DOMAIN loop.batch = {} /\ loop' = Resting
  /\ UNCHANGED <<news, webhooks, rows, history, page, test, bounds>>

\* Discord takes the message, refuses it for good, or is busy; an answer that
\* is lost counts as busy.
Sends(r, answer) ==
  /\ sent' = [sent EXCEPT ![r] = @ + 1]
  /\ \/ accepted' = [accepted EXCEPT ![r] = @ \/ answer = "accepted"] /\ UNCHANGED bounds
     \/ answer = "busy" /\ accepted' = [accepted EXCEPT ![r] = TRUE] /\ Fault

LoopSends ==
  /\ loop.pc = "send"
  /\ \E answer \in Answers :
       /\ Sends(loop.row, answer)
       /\ loop' = [loop EXCEPT !.pc = "record", !.answer = answer]
  /\ UNCHANGED <<news, webhooks, rows, page, test>>

\* Mutant: an answer that is no success is the end, and taken for one.
Optimistic(row, attempts, answer) ==
  [row EXCEPT !.status = IF answer = "refused" THEN "failed" ELSE "delivered"]

\* Only what differs from the copy is written: "pending" is not.
Recorded(row, attempts, answer) ==
  CASE answer = "accepted" -> [row EXCEPT !.status = "delivered"]
    [] answer = "busy" /\ attempts < MaxAttempts ->
         [row EXCEPT !.status = IF @ = "pending" THEN "waiting" ELSE @]
    [] OTHER -> [row EXCEPT !.status = "failed"]

LoopRecords ==
  /\ loop.pc = "record"
  /\ LET r == loop.row
     IN /\ rows' = [rows EXCEPT ![r] = Recorded(@, loop.batch[r] + 1, loop.answer)]
        /\ loop' = [loop EXCEPT !.pc = "take", !.batch = Rest(r), !.row = None, !.answer = "none"]
  /\ UNCHANGED <<news, webhooks, history, page, test, bounds>>

\* A commit fails: the pass is given up.
LoopFails ==
  /\ loop.pc \in {"queue", "take", "record"} /\ Fault /\ loop' = Resting
  /\ UNCHANGED <<news, webhooks, rows, history, page, test>>

\* next_attempt_at has come.
DueAgain(r) ==
  /\ rows[r].status = "waiting" /\ rows' = [rows EXCEPT ![r].status = "pending"]
  /\ UNCHANGED <<news, webhooks, history, loop, page, test, bounds>>

-----------------------------------------------------------------------------
(* The owner's requests.                                                   *)

MayRequest ==
  page = NoPage /\ Cardinality({r \in Rows : r.by # "loop" /\ rows[r].status # "none"}) < MaxRequests

PageLooks ==
  /\ MayRequest
  /\ \E shown \in SUBSET Missing(OnThePage) : shown # {} /\ page' = [pc |-> "queue", missing |-> shown]
  /\ UNCHANGED <<news, webhooks, rows, history, loop, test, bounds>>

\* A commit that fails queues nothing.
PageQueues ==
  /\ page.pc = "queue" /\ page' = NoPage
  /\ \/ Adds("page", page.missing) /\ UNCHANGED bounds
     \/ Fault /\ UNCHANGED rows
  /\ UNCHANGED <<news, webhooks, history, loop, test>>

\* There is at most one webhook.
Create(i) ==
  /\ \A j \in Webhooks : webhooks[j] \in {"none", "gone"}
  /\ webhooks[i] = "none" /\ webhooks' = [webhooks EXCEPT ![i] = "on"]
  /\ UNCHANGED <<news, rows, history, loop, page, test, bounds>>

Toggle(i) ==
  /\ Change /\ webhooks[i] \in {"on", "off"}
  /\ webhooks' = [webhooks EXCEPT ![i] = IF @ = "on" THEN "off" ELSE "on"]
  /\ UNCHANGED <<news, rows, history, loop, page, test>>

\* The deliveries to it stay.
Delete(i) ==
  /\ Change /\ webhooks[i] \in {"on", "off"} /\ webhooks' = [webhooks EXCEPT ![i] = "gone"]
  /\ UNCHANGED <<news, rows, history, loop, page, test>>

\* The row is pending before the message is sent, so that the loop may take it
\* too.
TestBegins(r) ==
  /\ MayRequest /\ test = NoTest /\ r.by = "test" /\ webhooks[r.to] \in {"on", "off"} /\ rows[r].status = "none"
  /\ rows' = [rows EXCEPT ![r].status = "pending"]
  /\ test' = [NoTest EXCEPT !.pc = "send", !.row = r]
  /\ UNCHANGED <<news, webhooks, history, loop, page, bounds>>

TestSends ==
  /\ test.pc = "send"
  /\ \E answer \in Answers :
       Sends(test.row, answer) /\ test' = [test EXCEPT !.pc = "record", !.answer = answer]
  /\ UNCHANGED <<news, webhooks, rows, loop, page>>

TestRecords ==
  /\ test.pc = "record" /\ test' = NoTest
  /\ \/ /\ rows' = [rows EXCEPT ![test.row] =
            [attempts |-> 1, status |-> IF test.answer = "accepted" THEN "delivered" ELSE "failed"]]
        /\ UNCHANGED bounds
     \/ Fault /\ UNCHANGED rows
  /\ UNCHANGED <<news, webhooks, history, loop, page>>

Crash ==
  /\ loop # Resting \/ page # NoPage \/ test # NoTest
  /\ Fault
  /\ loop' = Resting /\ page' = NoPage /\ test' = NoTest /\ crash' = NoReport
  /\ UNCHANGED <<happened, webhooks, rows, history>>

LoopStep ==
  LoopLooks \/ LoopQueues \/ (\E r \in Rows : LoopTakes(r)) \/ LoopSleeps \/ LoopSends \/ LoopRecords

Next ==
  \/ LoopStep \/ LoopFails
  \/ (\E a \in Reports \union Crashes : Happens(a)) \/ ServerStarts
  \/ PageLooks \/ PageQueues \/ TestSends \/ TestRecords \/ Crash
  \/ (\E r \in Rows : DueAgain(r) \/ TestBegins(r))
  \/ (\E i \in Webhooks : Create(i) \/ Toggle(i) \/ Delete(i))

Spec == Init /\ [][Next]_vars

\* The loop sleeps two seconds and goes on whatever happened; the retry's date
\* comes.
FairSpec == Spec /\ WF_vars(LoopStep) /\ \A r \in Rows : WF_vars(DueAgain(r))

-----------------------------------------------------------------------------
(* Correctness.                                                            *)

\* The type of the state.
TypeOK ==
  /\ happened \subseteq Reports \union Crashes
  /\ crash \in Crashes \union {NoReport}
  /\ webhooks \in [Webhooks -> {"none", "on", "off", "gone"}]
  /\ rows \in [Rows -> [status : Statuses, attempts : Nat]]
  /\ sent \in [Rows -> Nat] /\ accepted \in [Rows -> BOOLEAN]
  /\ loop.pc \in {"sleep", "queue", "take", "send", "record"} /\ loop.row \in Rows \union {None}
  /\ loop.missing \subseteq Webhooks \X Keys /\ DOMAIN loop.batch \subseteq Rows
  /\ loop.known \in [to : Webhooks \union {None}, on : BOOLEAN]
  /\ loop.answer \in Answers \union {"none"}
  /\ page.pc \in {"none", "queue"} /\ page.missing \subseteq Webhooks \X Keys
  /\ test \in [pc : {"none", "send", "record"}, row : Rows \union {None}, answer : Answers \union {"none"}]
  /\ changes \in 0 .. MaxChanges /\ faults \in 0 .. MaxFaults

\* The history of deliveries tells the truth: what it shows as delivered was
\* taken by Discord, what it shows as failed was not, and no message is sent
\* more than three times, except once more for each crash, failed commit or
\* lost answer, and for a test message that the loop has sent as well.
HistoryIsTrue ==
  \A r \in Rows :
    /\ rows[r].status = "delivered" => accepted[r]
    /\ rows[r].status = "failed" /\ r.by # "test" => ~accepted[r] \/ faults > 0
    /\ sent[r] <= MaxAttempts + faults + (IF r.by = "test" THEN 1 ELSE 0)

Told(i, a) ==
  \E r \in Rows : r.to = i /\ r.key = a /\ rows[r].status \in {"delivered", "failed"}

\* While the webhook is on, an alert is queued
\* and its delivery comes to an end.
AlertsReachAnEnd ==
  \A i \in Webhooks, a \in Reports :
    a \in happened ~> Told(i, a) \/ webhooks[i] # "on"

=============================================================================
