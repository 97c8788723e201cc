-------------------------- MODULE Background_proofs --------------------------
(***************************************************************************)
(* Proofs about the two background loops, for any number of alerts,        *)
(* webhooks, attempts, plans, events, minutes and faults: the history of   *)
(* deliveries tells the truth, and what the schedule carries out it does   *)
(* once and records.                                                       *)
(***************************************************************************)
EXTENDS MCBackground, FiniteSetTheorems, TLAPS

-----------------------------------------------------------------------------
(* Alerts: what the state is made of, and the invariant.                   *)

Batches == UNION {[S -> Nat] : S \in SUBSET Rows}
RowRecords == [status : Statuses, attempts : Nat]
Known == [to : Webhooks \union {None}, on : BOOLEAN]
Loops == [pc : {"sleep", "queue", "take", "send", "record"}, missing : SUBSET (Webhooks \X Keys),
          batch : Batches, row : Rows \union {None}, known : Known, answer : Answers \union {"none"}]
Pages == [pc : {"none", "queue"}, missing : SUBSET (Webhooks \X Keys)]
Tests == [pc : {"none", "send", "record"}, row : Rows \union {None}, answer : Answers \union {"none"}]

Types ==
  /\ happened \subseteq Reports \union Crashes /\ crash \in Crashes \union {NoReport}
  /\ webhooks \in [Webhooks -> {"none", "on", "off", "gone"}]
  /\ rows \in [Rows -> RowRecords]
  /\ sent \in [Rows -> Nat] /\ accepted \in [Rows -> BOOLEAN]
  /\ loop \in Loops /\ page \in Pages /\ test \in Tests
  /\ changes \in 0 .. MaxChanges /\ faults \in 0 .. MaxFaults

\* Where a row is in the hands of the loop and of a test.
Copied(r) == r \in DOMAIN loop.batch
Sending(r) == loop.pc = "send" /\ loop.row = r
Recording(r) == loop.pc = "record" /\ loop.row = r
Testing(r) == test.pc = "send" /\ test.row = r

\* What the loop and a test have in hand at each place, and the answer they
\* remember.
PlaceInv ==
  /\ loop.pc \in {"sleep", "queue"} => DOMAIN loop.batch = {}
  /\ loop.pc \in {"send", "record"} => Copied(loop.row)
  /\ loop.pc = "record" /\ loop.answer = "accepted" => accepted[loop.row]
  /\ test.pc = "none" => test.row = None
  /\ test.pc # "none" => test.row \in Rows /\ test.row.by = "test"
  /\ test.pc = "record" /\ test.answer = "accepted" => accepted[test.row]

\* Nobody else queues what the loop or the page is about to queue.
FreshInv ==
  \A r \in Rows :
    /\ loop.pc = "queue" /\ r.by = "loop" /\ <<r.to, r.key>> \in loop.missing => rows[r].status = "none"
    /\ page.pc = "queue" /\ r.by = "page" /\ <<r.to, r.key>> \in page.missing => rows[r].status = "none"

One(b) == IF b THEN 1 ELSE 0
Limit(r) == MaxAttempts + faults + One(r.by = "test")

\* A row that the loop holds a copy of is pending, unless it is a test's.
BatchOf(r) ==
  Copied(r) => /\ rows[r].status \in {"pending", "delivered", "failed"}
               /\ r.by # "test" => rows[r].status = "pending"

\* While a row waits, its attempts count the messages sent, and the one that the
\* loop is about to send; and they stay below the limit until the last one is in
\* hand.  A test's row may end while the loop holds a copy of it: then one more
\* message may follow.
CountOf(r) ==
  /\ rows[r].status = "none" => sent[r] = 0 /\ rows[r].attempts = 0 /\ test.row # r
  /\ rows[r].status \in {"pending", "waiting"} =>
       /\ sent[r] + One(Sending(r)) + One(Testing(r)) <= rows[r].attempts + One(r.by = "test")
       /\ rows[r].attempts + One(~(Sending(r) \/ Recording(r))) <= MaxAttempts + faults
       /\ Copied(r) => rows[r].attempts = loop.batch[r] + One(Sending(r) \/ Recording(r))
  /\ rows[r].status \in {"delivered", "failed"} =>
       sent[r] + One(Copied(r) /\ ~Recording(r)) + One(Testing(r)) <= Limit(r)

\* What Discord took is shown as delivered, or that is about to be written.
TruthOf(r) ==
  /\ rows[r].status = "delivered" => accepted[r]
  /\ accepted[r] /\ r.by # "test" =>
       faults > 0 \/ rows[r].status = "delivered" \/ (Recording(r) /\ loop.answer = "accepted")

RowInv == \A r \in Rows : BatchOf(r) /\ CountOf(r) /\ TruthOf(r)

\* The inductive invariant of the deliveries.
Inv == Types /\ PlaceInv /\ FreshInv /\ RowInv

-----------------------------------------------------------------------------

(* Batches, resting records, rows and numbers.                             *)

\* Copies of the rows, and what Rest() leaves of them.
LEMMA BatchKinds ==
  /\ <<>> \in Batches /\ DOMAIN <<>> = {}
  /\ \A b \in Batches : DOMAIN b \subseteq Rows /\ \A r \in DOMAIN b : b[r] \in Nat
  /\ \A b \in Batches, S \in SUBSET Rows : S \subseteq DOMAIN b =>
       /\ Restrict(b, S) \in Batches /\ DOMAIN Restrict(b, S) = S
       /\ \A r \in S : Restrict(b, S)[r] = b[r]
  /\ \A S \in SUBSET Rows : \A f \in [S -> Nat] : f \in Batches
<1>1. \A S \in SUBSET Rows : \A f \in [S -> Nat] : f \in Batches
  BY DEF Batches
<1>2. \A b \in Batches : DOMAIN b \subseteq Rows /\ \A r \in DOMAIN b : b[r] \in Nat
  BY DEF Batches
<1>3. <<>> \in [{} -> Nat] /\ DOMAIN <<>> = {}
  OBVIOUS
<1>4. <<>> \in Batches
  BY <1>1, <1>3
<1>5. ASSUME NEW b \in Batches, NEW S \in SUBSET Rows, S \subseteq DOMAIN b
      PROVE  /\ Restrict(b, S) \in Batches /\ DOMAIN Restrict(b, S) = S
             /\ \A r \in S : Restrict(b, S)[r] = b[r]
  <2>1. Restrict(b, S) = [r \in S |-> b[r]]
    BY DEF Restrict
  <2>2. Restrict(b, S) \in [S -> Nat]
    BY <1>2, <1>5, <2>1
  <2> QED BY <1>1, <2>1, <2>2
<1> QED BY <1>1, <1>2, <1>3, <1>4, <1>5

\* The fields of what rests.
LEMMA RestingFields ==
  /\ Resting.pc = "sleep" /\ Resting.missing = {} /\ Resting.batch = <<>> /\ Resting.row = None
  /\ Resting.known = NothingKnown /\ Resting.answer = "none" /\ Resting \in Loops
  /\ NoPage.pc = "none" /\ NoPage.missing = {} /\ NoPage \in Pages
  /\ NoTest.pc = "none" /\ NoTest.row = None /\ NoTest.answer = "none" /\ NoTest \in Tests
<1>1. NothingKnown \in Known
  BY DEF NothingKnown, Known
<1> QED BY <1>1, BatchKinds DEF Resting, Loops, NoPage, Pages, NoTest, Tests

\* The fields of a row.
LEMMA RowKinds ==
  /\ None \notin Rows
  /\ \A r \in Rows : r.to \in Webhooks /\ r.by \in {"loop", "page", "test"} /\ r.key \in Keys
BY DEF None, Rows, Keys

\* The numbers of a row.
LEMMA NumbersOf ==
  ASSUME ConstantsOK, Types, NEW r \in Rows
  PROVE  /\ sent[r] \in Nat /\ rows[r].attempts \in Nat /\ rows[r].status \in Statuses
         /\ faults \in Nat /\ MaxAttempts \in Nat /\ MaxAttempts > 0
         /\ Limit(r) \in Nat
         /\ Copied(r) => loop.batch[r] \in Nat
<1>1. faults \in Nat /\ MaxAttempts \in Nat /\ MaxAttempts > 0
  BY DEF Types, ConstantsOK
<1>2. sent[r] \in Nat /\ rows[r].attempts \in Nat /\ rows[r].status \in Statuses
  BY DEF Types, RowRecords
<1>3. Copied(r) => loop.batch[r] \in Nat
  BY BatchKinds DEF Types, Loops, Copied
<1> QED BY <1>1, <1>2, <1>3 DEF Limit, One

\* A row that a step neither changes nor sends.
LEMMA RowRests ==
  ASSUME ConstantsOK, Types, Types', NEW r \in Rows, BatchOf(r), CountOf(r), TruthOf(r),
         rows'[r] = rows[r], sent'[r] = sent[r], accepted'[r] <=> accepted[r],
         test'.row = r => test.row = r, Testing(r)' => Testing(r), faults' >= faults,
         Copied(r)' => Copied(r) /\ (loop.batch[r])' = loop.batch[r],
         \/ /\ Sending(r)' <=> Sending(r)
            /\ Recording(r)' <=> Recording(r)
            /\ Recording(r) => (loop'.answer = "accepted" <=> loop.answer = "accepted")
         \/ faults' > faults /\ ~Copied(r)' /\ ~Sending(r)' /\ ~Recording(r)'
  PROVE  BatchOf(r)' /\ CountOf(r)' /\ TruthOf(r)'
<1>1. /\ sent[r] \in Nat /\ rows[r].attempts \in Nat /\ rows[r].status \in Statuses
      /\ faults \in Nat /\ MaxAttempts \in Nat /\ MaxAttempts > 0
      /\ faults' \in Nat
  BY NumbersOf DEF Types
<1>2. BatchOf(r)'
  BY DEF BatchOf
<1>3. TruthOf(r)'
  BY <1>1 DEF TruthOf
<1>4. rows[r].status \in {"pending", "waiting"} =>
       /\ (sent[r] + One(Sending(r)) + One(Testing(r)) <= rows[r].attempts + One(r.by = "test"))'
       /\ (rows[r].attempts + One(~(Sending(r) \/ Recording(r))) <= MaxAttempts + faults)'
       /\ (Copied(r) => rows[r].attempts = loop.batch[r] + One(Sending(r) \/ Recording(r)))'
  <2> SUFFICES ASSUME rows[r].status \in {"pending", "waiting"}
               PROVE  /\ sent[r] + One(Sending(r)') + One(Testing(r)') <= rows[r].attempts + One(r.by = "test")
                      /\ rows[r].attempts + One(~(Sending(r)' \/ Recording(r)')) <= MaxAttempts + faults'
                      /\ Copied(r)' => rows[r].attempts = (loop.batch[r])' + One(Sending(r)' \/ Recording(r)')
    BY DEF One
  <2> DEFINE x == One(Sending(r))
             y == One(Sending(r)')
             v == One(Testing(r))
             w == One(Testing(r)')
             h == One(~(Sending(r) \/ Recording(r)))
             k == One(~(Sending(r)' \/ Recording(r)'))
             e == One(r.by = "test")
  <2>1. x \in Nat /\ y \in Nat /\ v \in Nat /\ w \in Nat /\ h \in Nat /\ k \in Nat /\ e \in Nat
    BY DEF One
  <2>2. y <= x /\ w <= v
    BY DEF One
  <2>3. k <= h \/ (k <= h + 1 /\ faults' >= faults + 1)
    <3>1. k <= 1 /\ h <= 1
      BY DEF One
    <3>2. CASE (Sending(r)' <=> Sending(r)) /\ (Recording(r)' <=> Recording(r))
      BY <2>1, <3>1, <3>2 DEF One
    <3>3. CASE faults' > faults
      <4>1. faults' >= faults + 1
        BY <1>1, <3>3
      <4> HIDE DEF k, h
      <4> QED BY <2>1, <3>1, <4>1
    <3> QED BY <3>2, <3>3
  <2>4. sent[r] + x + v <= rows[r].attempts + e /\ rows[r].attempts + h <= MaxAttempts + faults
    BY DEF CountOf
  <2>5. Copied(r)' => rows[r].attempts = (loop.batch[r])' + One(Sending(r)' \/ Recording(r)')
    BY DEF CountOf, One
  <2> HIDE DEF x, y, v, w, h, k, e
  <2>6. sent[r] + y + w <= rows[r].attempts + e
    BY <1>1, <2>1, <2>2, <2>4
  <2>7. rows[r].attempts + k <= MaxAttempts + faults'
    BY <1>1, <2>1, <2>3, <2>4
  <2> QED BY <2>5, <2>6, <2>7 DEF x, y, v, w, h, k, e
<1>5. rows[r].status \in {"delivered", "failed"} =>
       (sent[r] + One(Copied(r) /\ ~Recording(r)) + One(Testing(r)) <= Limit(r))'
  BY <1>1 DEF CountOf, One, Limit
<1>6. CountOf(r)'
  BY <1>4, <1>5 DEF CountOf
<1> QED BY <1>2, <1>3, <1>6

LEMMA ChangeTypes ==
  ASSUME ConstantsOK, Types, Change
  PROVE  changes' \in 0 .. MaxChanges /\ faults' = faults
BY DEF Types, Change, ConstantsOK

LEMMA FaultTypes ==
  ASSUME ConstantsOK, Types, Fault
  PROVE  faults' \in 0 .. MaxFaults /\ changes' = changes /\ faults' = faults + 1 /\ faults \in Nat
BY DEF Types, Fault, ConstantsOK

LEMMA FaultsCount ==
  ASSUME ConstantsOK, Types
  PROVE  faults \in Nat /\ faults >= faults
BY DEF Types, ConstantsOK

\* Steps beside the deliveries.
LEMMA Elsewhere ==
  ASSUME ConstantsOK, Inv, Types', rows' = rows, sent' = sent, accepted' = accepted, loop' = loop,
         test' = test, faults' = faults, FreshInv'
  PROVE  Inv'
<1>1. Types /\ PlaceInv /\ FreshInv /\ RowInv
  BY DEF Inv
<1>2. PlaceInv'
  BY <1>1 DEF PlaceInv, Copied
<1>3. faults' >= faults
  BY <1>1, FaultsCount
<1>4. ASSUME NEW r \in Rows PROVE BatchOf(r)' /\ CountOf(r)' /\ TruthOf(r)'
  <2>1. /\ Copied(r)' <=> Copied(r)
        /\ Sending(r)' <=> Sending(r)
        /\ Recording(r)' <=> Recording(r)
        /\ Testing(r)' <=> Testing(r)
    BY DEF Copied, Sending, Recording, Testing
  <2>2. BatchOf(r) /\ CountOf(r) /\ TruthOf(r)
    BY <1>1 DEF RowInv
  <2> QED BY <1>1, <1>3, <2>1, <2>2, RowRests
<1> QED BY <1>2, <1>4 DEF Inv, RowInv

\* Nobody queues: what is about to be queued is as fresh as before.
LEMMA FreshStays ==
  ASSUME FreshInv, rows' = rows, loop' = loop, page' = page
  PROVE  FreshInv'
BY DEF FreshInv

-----------------------------------------------------------------------------
(* One lemma per action of the alerts: the step keeps the invariant.       *)

LEMMA HappensStep ==
  ASSUME ConstantsOK, Inv, NEW a \in Reports \union Crashes, Happens(a)
  PROVE  Inv'
<1>1. Types /\ FreshInv
  BY DEF Inv
<1>2. /\ happened' = happened \union {a} /\ crash' \in {a, crash}
      /\ crash' = a => a \in Crashes \/ crash' = crash
      /\ UNCHANGED <<webhooks, rows, sent, accepted, loop, page, test, changes, faults>>
  BY DEF Happens, history, bounds
<1>3. Types'
  BY <1>1, <1>2 DEF Types
<1> QED BY <1>1, <1>2, <1>3, FreshStays, Elsewhere

LEMMA ServerStartsStep ==
  ASSUME ConstantsOK, Inv, ServerStarts
  PROVE  Inv'
<1>1. Types /\ FreshInv
  BY DEF Inv
<1>2. /\ crash' = NoReport
      /\ UNCHANGED <<happened, webhooks, rows, sent, accepted, loop, page, test, changes, faults>>
  BY DEF ServerStarts, history, bounds
<1>3. Types'
  BY <1>1, <1>2 DEF Types
<1> QED BY <1>1, <1>2, <1>3, FreshStays, Elsewhere

LEMMA WebhookSteps ==
  ASSUME ConstantsOK, Inv, NEW i \in Webhooks, Create(i) \/ Toggle(i) \/ Delete(i)
  PROVE  Inv'
<1>1. Types /\ FreshInv
  BY DEF Inv
<1>2. UNCHANGED <<happened, crash, rows, sent, accepted, loop, page, test>>
  BY DEF Create, Toggle, Delete, news, history
<1>3. PICK w \in {"none", "on", "off", "gone"} : webhooks' = [webhooks EXCEPT ![i] = w]
  <2>1. CASE Create(i)
    BY <2>1 DEF Create
  <2>2. CASE Toggle(i)
    BY <2>2 DEF Toggle
  <2>3. CASE Delete(i)
    BY <2>3 DEF Delete
  <2> QED BY <2>1, <2>2, <2>3
<1>4. faults' = faults /\ changes' \in 0 .. MaxChanges
  <2>1. CASE Create(i)
    BY <1>1, <2>1 DEF Create, bounds, Types
  <2>2. CASE Toggle(i) \/ Delete(i)
    BY <1>1, <2>2, ChangeTypes DEF Toggle, Delete
  <2> QED BY <2>1, <2>2
<1>5. webhooks' \in [Webhooks -> {"none", "on", "off", "gone"}]
  BY <1>1, <1>3 DEF Types
<1>6. Types'
  BY <1>1, <1>2, <1>4, <1>5 DEF Types
<1> QED BY <1>1, <1>2, <1>4, <1>6, FreshStays, Elsewhere

\* What nobody has queued.
LEMMA MissingIsFresh ==
  ASSUME Types, NEW keys \in SUBSET Keys
  PROVE  /\ Missing(keys) \subseteq Webhooks \X Keys
         /\ \A r \in Rows : <<r.to, r.key>> \in Missing(keys) => rows[r].status = "none"
<1>1. Missing(keys) \subseteq Webhooks \X Keys
  BY DEF Missing, On
<1>2. ASSUME NEW r \in Rows, rows[r].status # "none"
      PROVE  <<r.to, r.key>> \in Queued
  BY <1>2 DEF Queued
<1> QED BY <1>1, <1>2 DEF Missing

LEMMA PageLooksStep ==
  ASSUME ConstantsOK, Inv, PageLooks
  PROVE  Inv'
<1>1. Types /\ FreshInv
  BY DEF Inv
<1>2. PICK shown \in SUBSET Missing(OnThePage) : page' = [pc |-> "queue", missing |-> shown]
  BY DEF PageLooks
<1>3. UNCHANGED <<happened, crash, webhooks, rows, sent, accepted, loop, test, changes, faults>>
  BY DEF PageLooks, news, history, bounds
<1>4. OnThePage \subseteq Keys
  BY <1>1 DEF OnThePage, Keys, Types
<1>5. /\ Missing(OnThePage) \subseteq Webhooks \X Keys
      /\ \A r \in Rows : <<r.to, r.key>> \in Missing(OnThePage) => rows[r].status = "none"
  BY <1>1, <1>4, MissingIsFresh
<1>6. page' \in Pages /\ page'.missing = shown
  BY <1>2, <1>5 DEF Pages
<1>7. Types'
  BY <1>1, <1>3, <1>6 DEF Types
<1>8. FreshInv'
  BY <1>1, <1>3, <1>5, <1>6 DEF FreshInv
<1> QED BY <1>3, <1>7, <1>8, Elsewhere

\* A row that is queued: nobody has sent it.
LEMMA RowBegins ==
  ASSUME ConstantsOK, Types, Types', NEW r \in Rows, BatchOf(r), CountOf(r), TruthOf(r),
         rows[r].status = "none", rows'[r] = [status |-> "pending", attempts |-> 0],
         sent'[r] = sent[r], accepted'[r] <=> accepted[r], ~Recording(r),
         test'.row = r => r.by = "test", faults' >= faults,
         Copied(r)' => (loop.batch[r])' = 0,
         ~Sending(r)' /\ ~Recording(r)'
  PROVE  BatchOf(r)' /\ CountOf(r)' /\ TruthOf(r)'
<1>1. /\ sent[r] = 0 /\ faults \in Nat /\ MaxAttempts \in Nat /\ MaxAttempts > 0 /\ faults' \in Nat
  BY NumbersOf DEF Types, CountOf
<1>2. rows'[r].status = "pending" /\ rows'[r].attempts = 0
  OBVIOUS
<1>3. BatchOf(r)'
  BY <1>2 DEF BatchOf
<1>4. TruthOf(r)'
  BY <1>1, <1>2 DEF TruthOf
<1>5. CountOf(r)'
  <2>1. One(Testing(r))' <= One(r.by = "test") /\ One(Sending(r))' = 0
    BY DEF One, Testing
  <2>2. One(~(Sending(r) \/ Recording(r)))' = 1 /\ One(Sending(r) \/ Recording(r))' = 0
    BY DEF One
  <2>3. One(Testing(r))' \in Nat /\ One(r.by = "test") \in Nat
    BY DEF One
  <2>4. (sent[r] + One(Sending(r)) + One(Testing(r)) <= rows[r].attempts + One(r.by = "test"))'
    BY <1>1, <1>2, <2>1, <2>3
  <2>5. (rows[r].attempts + One(~(Sending(r) \/ Recording(r))) <= MaxAttempts + faults)'
    BY <1>1, <1>2, <2>2
  <2>6. (Copied(r) => rows[r].attempts = loop.batch[r] + One(Sending(r) \/ Recording(r)))'
    BY <1>2, <2>2
  <2> QED BY <1>2, <2>4, <2>5, <2>6 DEF CountOf
<1> QED BY <1>3, <1>4, <1>5

\* Queueing makes the rows it adds pending, and changes no other.
LEMMA AddsRows ==
  ASSUME Types, NEW who, NEW deliveries, Adds(who, deliveries)
  PROVE  /\ rows' \in [Rows -> RowRecords]
         /\ \A r \in Rows :
              rows'[r] = IF r.by = who /\ <<r.to, r.key>> \in deliveries
                         THEN [status |-> "pending", attempts |-> 0] ELSE rows[r]
<1>1. [status |-> "pending", attempts |-> 0] \in RowRecords
  BY DEF RowRecords, Statuses
<1> QED BY <1>1 DEF Adds, Types

LEMMA PageQueuesStep ==
  ASSUME ConstantsOK, Inv, PageQueues
  PROVE  Inv'
<1>1. Types /\ PlaceInv /\ FreshInv /\ RowInv
  BY DEF Inv
<1>2. /\ page.pc = "queue" /\ page' = NoPage
      /\ UNCHANGED <<happened, crash, webhooks, sent, accepted, loop, test>>
  BY DEF PageQueues, news, history
<1>3. CASE Adds("page", page.missing) /\ UNCHANGED bounds
  <2>1. /\ rows' \in [Rows -> RowRecords]
        /\ \A r \in Rows :
             rows'[r] = IF r.by = "page" /\ <<r.to, r.key>> \in page.missing
                        THEN [status |-> "pending", attempts |-> 0] ELSE rows[r]
    BY <1>1, <1>3, AddsRows
  <2>2. changes' = changes /\ faults' = faults /\ faults' >= faults
    BY <1>1, <1>3, FaultsCount DEF bounds
  <2>3. Types'
    BY <1>1, <1>2, <2>1, <2>2, RestingFields DEF Types
  <2>4. PlaceInv'
    BY <1>1, <1>2, <2>1 DEF PlaceInv, Copied
  <2>5. FreshInv'
    BY <1>1, <1>2, <2>1, RestingFields DEF FreshInv
  <2>6. ASSUME NEW r \in Rows PROVE BatchOf(r)' /\ CountOf(r)' /\ TruthOf(r)'
    <3>1. /\ Copied(r)' <=> Copied(r)
          /\ Sending(r)' <=> Sending(r)
          /\ Recording(r)' <=> Recording(r)
          /\ Testing(r)' <=> Testing(r)
      BY <1>2 DEF Copied, Sending, Recording, Testing
    <3>2. BatchOf(r) /\ CountOf(r) /\ TruthOf(r)
      BY <1>1 DEF RowInv
    <3>3. CASE ~(r.by = "page" /\ <<r.to, r.key>> \in page.missing)
      <4>1. rows'[r] = rows[r]
        BY <2>1, <3>3
      <4> QED BY <1>1, <1>2, <2>2, <2>3, <3>1, <3>2, <4>1, RowRests
    <3>4. CASE r.by = "page" /\ <<r.to, r.key>> \in page.missing
      <4>1. rows[r].status = "none"
        BY <1>1, <1>2, <3>4 DEF FreshInv
      <4>2. ~Copied(r) /\ ~Sending(r) /\ ~Recording(r)
        BY <1>1, <3>2, <4>1 DEF BatchOf, PlaceInv, Sending, Recording
      <4>3. test'.row # r
        BY <1>2, <3>2, <4>1 DEF CountOf
      <4>4. rows'[r] = [status |-> "pending", attempts |-> 0]
        BY <2>1, <3>4
      <4> QED BY <1>1, <1>2, <2>2, <2>3, <3>1, <3>2, <4>1, <4>2, <4>3, <4>4, RowBegins
    <3> QED BY <3>3, <3>4
  <2> QED BY <2>3, <2>4, <2>5, <2>6 DEF Inv, RowInv
<1>4. CASE Fault /\ UNCHANGED rows
  <2>1. faults' \in 0 .. MaxFaults /\ changes' = changes /\ faults' = faults + 1 /\ faults \in Nat
    BY <1>1, <1>4, FaultTypes
  <2>2. Types'
    BY <1>1, <1>2, <1>4, <2>1, RestingFields DEF Types
  <2>3. PlaceInv'
    BY <1>1, <1>2, <1>4 DEF PlaceInv, Copied
  <2>4. FreshInv'
    BY <1>1, <1>2, <1>4, RestingFields DEF FreshInv
  <2>5. ASSUME NEW r \in Rows PROVE BatchOf(r)' /\ CountOf(r)' /\ TruthOf(r)'
    <3>1. /\ Copied(r)' <=> Copied(r)
          /\ Sending(r)' <=> Sending(r)
          /\ Recording(r)' <=> Recording(r)
          /\ Testing(r)' <=> Testing(r)
      BY <1>2 DEF Copied, Sending, Recording, Testing
    <3>2. BatchOf(r) /\ CountOf(r) /\ TruthOf(r)
      BY <1>1 DEF RowInv
    <3>3. faults' >= faults
      BY <2>1
    <3> QED BY <1>1, <1>2, <1>4, <2>2, <3>1, <3>2, <3>3, RowRests
  <2> QED BY <2>2, <2>3, <2>4, <2>5 DEF Inv, RowInv
<1> QED BY <1>3, <1>4 DEF PageQueues

-----------------------------------------------------------------------------
(* The loop.                                                               *)

\* A loop that has nothing in hand before the step, and nothing after it.
LEMMA EmptyHanded ==
  ASSUME ConstantsOK, Inv, Types', rows' = rows, sent' = sent, accepted' = accepted,
         test' = test, page' = page, DOMAIN loop'.batch = {}, loop'.pc \in {"sleep", "queue", "take"},
         faults' >= faults, loop.pc \in {"send", "record"} => faults' > faults,
         \A r \in Rows : loop'.pc = "queue" /\ <<r.to, r.key>> \in loop'.missing => rows[r].status = "none"
  PROVE  Inv'
<1>1. Types /\ PlaceInv /\ FreshInv /\ RowInv
  BY DEF Inv
<1>2. PlaceInv'
  BY <1>1 DEF PlaceInv
<1>3. FreshInv'
  BY <1>1 DEF FreshInv
<1>4. ASSUME NEW r \in Rows PROVE BatchOf(r)' /\ CountOf(r)' /\ TruthOf(r)'
  <2>1. ~Copied(r)' /\ ~Sending(r)' /\ ~Recording(r)' /\ (Testing(r)' <=> Testing(r))
    BY DEF Copied, Sending, Recording, Testing
  <2>2. BatchOf(r) /\ CountOf(r) /\ TruthOf(r)
    BY <1>1 DEF RowInv
  <2>3. Sending(r) \/ Recording(r) => faults' > faults
    BY DEF Sending, Recording
  <2>4. CASE faults' > faults
    BY <1>1, <2>1, <2>2, <2>4, RowRests
  <2>5. CASE ~Sending(r) /\ ~Recording(r)
    BY <1>1, <2>1, <2>2, <2>5, RowRests
  <2> QED BY <2>3, <2>4, <2>5
<1> QED BY <1>2, <1>3, <1>4 DEF Inv, RowInv

LEMMA LoopLooksStep ==
  ASSUME ConstantsOK, Inv, LoopLooks
  PROVE  Inv'
<1>1. Types
  BY DEF Inv
<1>2. /\ loop.pc = "sleep" /\ loop' = [Resting EXCEPT !.pc = "queue", !.missing = Missing(Background)]
      /\ UNCHANGED <<happened, crash, webhooks, rows, sent, accepted, page, test, changes, faults>>
  BY DEF LoopLooks, news, history, bounds
<1>3. Background \subseteq Keys
  BY <1>1 DEF Background, Keys, Types
<1>4. /\ Missing(Background) \subseteq Webhooks \X Keys
      /\ \A r \in Rows : <<r.to, r.key>> \in Missing(Background) => rows[r].status = "none"
  BY <1>1, <1>3, MissingIsFresh
<1>5. loop' \in Loops /\ loop'.pc = "queue" /\ loop'.missing = Missing(Background) /\ loop'.batch = <<>>
  BY <1>2, <1>4, RestingFields DEF Loops
<1>6. Types'
  BY <1>1, <1>2, <1>5 DEF Types
<1>7. DOMAIN loop'.batch = {}
  BY <1>5, BatchKinds
<1>8. faults' >= faults
  BY <1>1, <1>2, FaultsCount
<1> QED BY <1>2, <1>4, <1>5, <1>6, <1>7, <1>8, EmptyHanded

LEMMA LoopSleepsStep ==
  ASSUME ConstantsOK, Inv, LoopSleeps
  PROVE  Inv'
<1>1. Types
  BY DEF Inv
<1>2. /\ loop.pc = "take" /\ loop' = Resting
      /\ UNCHANGED <<happened, crash, webhooks, rows, sent, accepted, page, test, changes, faults>>
  BY DEF LoopSleeps, news, history, bounds
<1>3. Types'
  BY <1>1, <1>2, RestingFields DEF Types
<1>4. faults' >= faults
  BY <1>1, <1>2, FaultsCount
<1> QED BY <1>2, <1>3, <1>4, RestingFields, BatchKinds, EmptyHanded

LEMMA LoopFailsStep ==
  ASSUME ConstantsOK, Inv, LoopFails
  PROVE  Inv'
<1>1. Types
  BY DEF Inv
<1>2. /\ Fault /\ loop' = Resting
      /\ UNCHANGED <<happened, crash, webhooks, rows, sent, accepted, page, test>>
  BY DEF LoopFails, news, history
<1>3. faults' \in 0 .. MaxFaults /\ changes' = changes /\ faults' = faults + 1 /\ faults \in Nat
  BY <1>1, <1>2, FaultTypes
<1>4. Types'
  BY <1>1, <1>2, <1>3, RestingFields DEF Types
<1>5. faults' > faults /\ faults' >= faults
  BY <1>3
<1> QED BY <1>2, <1>4, <1>5, RestingFields, BatchKinds, EmptyHanded

LEMMA LoopQueuesStep ==
  ASSUME ConstantsOK, Inv, LoopQueues
  PROVE  Inv'
<1>1. Types /\ PlaceInv /\ FreshInv /\ RowInv
  BY DEF Inv
<1> DEFINE due == {q \in Rows : rows'[q].status = "pending"}
           batch == [r \in due |-> rows'[r].attempts]
<1>2. /\ loop.pc = "queue" /\ Adds("loop", loop.missing)
      /\ loop' = [Resting EXCEPT !.pc = "take", !.batch = batch]
      /\ UNCHANGED <<happened, crash, webhooks, sent, accepted, page, test, changes, faults>>
  BY DEF LoopQueues, news, history, bounds
<1>3. /\ rows' \in [Rows -> RowRecords]
      /\ \A r \in Rows :
           rows'[r] = IF r.by = "loop" /\ <<r.to, r.key>> \in loop.missing
                      THEN [status |-> "pending", attempts |-> 0] ELSE rows[r]
  BY <1>1, <1>2, AddsRows
<1>4. due \in SUBSET Rows /\ batch \in [due -> Nat]
  BY <1>3 DEF RowRecords
<1>5. /\ batch \in Batches /\ DOMAIN batch = due
      /\ \A r \in due : batch[r] = rows'[r].attempts
  BY <1>4, BatchKinds
<1>6. due = {q \in Rows : rows'[q].status = "pending"}
  OBVIOUS
<1> HIDE DEF due, batch
<1>7. loop' \in Loops /\ loop'.pc = "take" /\ loop'.batch = batch /\ loop'.answer = "none"
  BY <1>2, <1>5, RestingFields DEF Loops
<1>8. faults' >= faults
  BY <1>1, <1>2, FaultsCount
<1>9. Types'
  BY <1>1, <1>2, <1>3, <1>7 DEF Types
<1>10. PlaceInv'
  BY <1>1, <1>2, <1>7 DEF PlaceInv
<1>11. FreshInv'
  BY <1>1, <1>2, <1>3, <1>7 DEF FreshInv
<1>12. ASSUME NEW r \in Rows PROVE BatchOf(r)' /\ CountOf(r)' /\ TruthOf(r)'
  <2>1. /\ ~Copied(r) /\ ~Sending(r) /\ ~Recording(r) /\ ~Sending(r)' /\ ~Recording(r)'
        /\ Testing(r)' <=> Testing(r)
        /\ Copied(r)' <=> r \in due
        /\ Copied(r)' => (loop.batch[r])' = rows'[r].attempts
    BY <1>1, <1>2, <1>5, <1>7 DEF Copied, Sending, Recording, Testing, PlaceInv
  <2>2. BatchOf(r) /\ CountOf(r) /\ TruthOf(r)
    BY <1>1 DEF RowInv
  <2>3. CASE r.by = "loop" /\ <<r.to, r.key>> \in loop.missing
    <3>1. rows[r].status = "none" /\ rows'[r] = [status |-> "pending", attempts |-> 0]
      BY <1>1, <1>2, <1>3, <2>3 DEF FreshInv
    <3>2. test'.row # r /\ rows'[r].attempts = 0
      BY <1>2, <2>2, <3>1 DEF CountOf
    <3> QED BY <1>1, <1>2, <1>8, <1>9, <2>1, <2>2, <3>1, <3>2, RowBegins
  <2>4. CASE ~(r.by = "loop" /\ <<r.to, r.key>> \in loop.missing) /\ rows[r].status # "pending"
    <3>1. rows'[r] = rows[r]
      BY <1>3, <2>4
    <3>2. ~Copied(r)'
      BY <1>6, <2>1, <2>4, <3>1
    <3> QED BY <1>1, <1>2, <1>8, <1>9, <2>1, <2>2, <3>1, <3>2, RowRests
  <2>5. CASE ~(r.by = "loop" /\ <<r.to, r.key>> \in loop.missing) /\ rows[r].status = "pending"
    <3>1. rows'[r] = rows[r]
      BY <1>3, <2>5
    <3>2. rows[r].attempts \in Nat
      BY <1>1, NumbersOf
    <3>3. BatchOf(r)'
      BY <2>5, <3>1 DEF BatchOf
    <3>4. TruthOf(r)'
      BY <1>2, <2>1, <2>2, <3>1 DEF TruthOf
    <3>5. One(Sending(r))' = One(Sending(r)) /\ One(Testing(r))' = One(Testing(r))
      BY <2>1 DEF One
    <3>6. /\ One(~(Sending(r) \/ Recording(r)))' = One(~(Sending(r) \/ Recording(r)))
          /\ One(Sending(r) \/ Recording(r))' = 0
      BY <2>1 DEF One
    <3>7. (Copied(r) => rows[r].attempts = loop.batch[r] + One(Sending(r) \/ Recording(r)))'
      BY <2>1, <3>1, <3>2, <3>6
    <3>8. (sent[r] + One(Sending(r)) + One(Testing(r)) <= rows[r].attempts + One(r.by = "test"))'
      BY <1>2, <2>2, <2>5, <3>1, <3>5 DEF CountOf
    <3>9. (rows[r].attempts + One(~(Sending(r) \/ Recording(r))) <= MaxAttempts + faults)'
      BY <1>2, <2>2, <2>5, <3>1, <3>6 DEF CountOf
    <3>10. CountOf(r)'
      BY <2>5, <3>1, <3>7, <3>8, <3>9 DEF CountOf
    <3> QED BY <3>3, <3>4, <3>10
  <2> QED BY <2>3, <2>4, <2>5
<1> QED BY <1>9, <1>10, <1>11, <1>12 DEF Inv, RowInv

\* Nobody queues what waits to be queued by the loop or the page.
LEMMA FreshKept ==
  ASSUME FreshInv, loop' = loop \/ loop'.pc # "queue", page' = page \/ page'.pc # "queue",
         \A r \in Rows : rows[r].status = "none" => rows'[r].status = "none" \/ r.by = "test"
  PROVE  FreshInv'
BY DEF FreshInv

\* The rows but one rest; a step of the loop or a test deals with that one.
LEMMA OthersRest ==
  ASSUME ConstantsOK, Inv, Types', NEW r \in Rows,
         \A q \in Rows \ {r} : /\ rows'[q] = rows[q] /\ sent'[q] = sent[q] /\ (accepted'[q] <=> accepted[q])
                               /\ Copied(q)' => Copied(q) /\ (loop.batch[q])' = loop.batch[q],
         loop.pc \in {"send", "record"} /\ loop.row # r => loop' = loop,
         loop'.pc \in {"send", "record"} /\ loop'.row # r => loop' = loop,
         test.pc = "send" /\ test.row # r => test' = test,
         test'.pc # "none" /\ test'.row # r => test' = test,
         test'.pc = "none" => test'.row = None,
         faults' >= faults, BatchOf(r)' /\ CountOf(r)' /\ TruthOf(r)'
  PROVE  RowInv'
<1>1. Types /\ RowInv
  BY DEF Inv
<1>2. ASSUME NEW q \in Rows \ {r} PROVE BatchOf(q)' /\ CountOf(q)' /\ TruthOf(q)'
  <2>1. BatchOf(q) /\ CountOf(q) /\ TruthOf(q)
    BY <1>1 DEF RowInv
  <2>2. (Sending(q)' <=> Sending(q)) /\ (Recording(q)' <=> Recording(q))
    BY DEF Sending, Recording
  <2>3. Recording(q) => loop' = loop
    BY DEF Recording
  <2>4. (Testing(q)' => Testing(q)) /\ (test'.row = q => test.row = q)
    BY RowKinds DEF Testing
  <2> QED BY <1>1, <2>1, <2>2, <2>3, <2>4, RowRests
<1> QED BY <1>2 DEF RowInv

LEMMA LoopTakesStep ==
  ASSUME ConstantsOK, Inv, NEW r \in Rows, LoopTakes(r)
  PROVE  Inv'
<1>1. Types /\ PlaceInv /\ FreshInv /\ RowInv /\ BatchOf(r) /\ CountOf(r) /\ TruthOf(r)
  BY DEF Inv, RowInv
<1> DEFINE on == Available(r.to)
           known == [to |-> r.to, on |-> on]
<1>2. /\ loop.pc = "take" /\ Copied(r)
      /\ UNCHANGED <<happened, crash, webhooks, sent, accepted, page, test, changes, faults>>
  BY DEF LoopTakes, Copied, news, history, bounds
<1>3. /\ sent[r] \in Nat /\ rows[r].attempts \in Nat /\ rows[r].status \in Statuses
      /\ faults \in Nat /\ MaxAttempts \in Nat /\ MaxAttempts > 0 /\ loop.batch[r] \in Nat
      /\ Limit(r) \in Nat
  BY <1>1, <1>2, NumbersOf
<1>4. ~Sending(r) /\ ~Recording(r) /\ One(Sending(r)) = 0 /\ One(Recording(r)) = 0
      /\ One(~(Sending(r) \/ Recording(r))) = 1 /\ One(Sending(r) \/ Recording(r)) = 0
      /\ One(Copied(r) /\ ~Recording(r)) = 1
  BY <1>2 DEF Sending, Recording, One
<1>5. faults' >= faults
  BY <1>1, <1>2, FaultsCount
<1>6. on \in BOOLEAN
  <2>1. loop.known \in Known
    BY <1>1 DEF Types, Loops
  <2> QED BY <2>1 DEF Available, Known
<1>7. known \in Known
  BY <1>6, RowKinds DEF Known
<1>8. CASE on
  <2>1. /\ rows' = [rows EXCEPT ![r].attempts = loop.batch[r] + 1]
        /\ loop' = [loop EXCEPT !.pc = "send", !.row = r, !.known = known]
    BY <1>8 DEF LoopTakes
  <2> HIDE DEF known, on
  <2>2. /\ loop' \in Loops /\ loop'.pc = "send" /\ loop'.row = r /\ loop'.batch = loop.batch
        /\ loop'.answer = loop.answer /\ loop'.missing = loop.missing
    BY <1>1, <1>7, <2>1 DEF Types, Loops
  <2>3. /\ rows' \in [Rows -> RowRecords] /\ rows'[r].status = rows[r].status
        /\ rows'[r].attempts = loop.batch[r] + 1
        /\ \A q \in Rows \ {r} : rows'[q] = rows[q]
    BY <1>1, <1>3, <2>1 DEF Types, RowRecords
  <2>4. Types'
    BY <1>1, <1>2, <2>2, <2>3 DEF Types
  <2>5. PlaceInv'
    BY <1>1, <1>2, <2>2 DEF PlaceInv, Copied
  <2>6. FreshInv'
    <3>1. \A q \in Rows : rows[q].status = "none" => rows'[q].status = "none"
      BY <2>3
    <3> QED BY <1>1, <1>2, <2>2, <3>1, FreshKept
  <2>7. /\ Sending(r)' /\ ~Recording(r)' /\ Copied(r)' /\ (loop.batch[r])' = loop.batch[r]
        /\ Testing(r)' <=> Testing(r)
    BY <1>2, <2>2 DEF Sending, Recording, Copied, Testing
  <2>8. /\ One(Sending(r))' = 1 /\ One(Testing(r))' = One(Testing(r))
        /\ One(~(Sending(r) \/ Recording(r)))' = 0 /\ One(Sending(r) \/ Recording(r))' = 1
        /\ One(Copied(r) /\ ~Recording(r))' = 1
    BY <2>7 DEF One
  <2>9. BatchOf(r)'
    BY <1>1, <1>2, <2>3 DEF BatchOf
  <2>10. TruthOf(r)'
    BY <1>1, <1>2, <1>4, <2>3 DEF TruthOf
  <2>11. One(Testing(r)) \in Nat /\ One(r.by = "test") \in Nat
    BY DEF One
  <2>12. ASSUME rows[r].status = "pending" PROVE CountOf(r)'
    <3>1. /\ rows[r].attempts = loop.batch[r] /\ rows[r].attempts + 1 <= MaxAttempts + faults
          /\ sent[r] + One(Testing(r)) <= rows[r].attempts + One(r.by = "test")
      BY <1>1, <1>2, <1>3, <1>4, <2>11, <2>12 DEF CountOf
    <3>2. (sent[r] + One(Sending(r)) + One(Testing(r)) <= rows[r].attempts + One(r.by = "test"))'
      BY <1>2, <1>3, <2>3, <2>8, <2>11, <3>1
    <3>3. (rows[r].attempts + One(~(Sending(r) \/ Recording(r))) <= MaxAttempts + faults)'
      BY <1>2, <1>3, <2>3, <2>8, <3>1
    <3>4. (Copied(r) => rows[r].attempts = loop.batch[r] + One(Sending(r) \/ Recording(r)))'
      BY <2>3, <2>7, <2>8
    <3>5. rows'[r].status = "pending"
      BY <2>3, <2>12
    <3> QED BY <3>2, <3>3, <3>4, <3>5 DEF CountOf
  <2>13. ASSUME rows[r].status \in {"delivered", "failed"} PROVE CountOf(r)'
    <3>1. sent[r] + One(Copied(r) /\ ~Recording(r)) + One(Testing(r)) <= Limit(r)
      BY <1>1, <2>13 DEF CountOf
    <3>2. Limit(r)' = Limit(r)
      BY <1>2 DEF Limit
    <3>3. (sent[r] + One(Copied(r) /\ ~Recording(r)) + One(Testing(r)) <= Limit(r))'
      BY <1>2, <1>4, <2>8, <3>1, <3>2
    <3>4. rows'[r].status \in {"delivered", "failed"}
      BY <2>3, <2>13
    <3> QED BY <3>3, <3>4 DEF CountOf
  <2>14. CountOf(r)'
    <3>1. rows[r].status = "pending" \/ rows[r].status \in {"delivered", "failed"}
      BY <1>1, <1>2 DEF BatchOf
    <3> QED BY <2>12, <2>13, <3>1
  <2>15. RowInv'
    BY <1>1, <1>2, <1>5, <2>2, <2>3, <2>4, <2>9, <2>10, <2>14, OthersRest
        DEF Copied, PlaceInv
  <2> QED BY <2>4, <2>5, <2>6, <2>15 DEF Inv
<1>9. CASE ~on
  <2>1. /\ rows' = [rows EXCEPT ![r].status = "failed"]
        /\ loop' = [loop EXCEPT !.batch = Rest(r), !.known = known]
    BY <1>9 DEF LoopTakes
  <2> HIDE DEF known, on
  <2>2. /\ Rest(r) \in Batches /\ DOMAIN Rest(r) = DOMAIN loop.batch \ {r}
        /\ \A q \in DOMAIN Rest(r) : Rest(r)[q] = loop.batch[q]
    <3>1. loop.batch \in Batches /\ DOMAIN loop.batch \ {r} \in SUBSET Rows
      BY <1>1, BatchKinds DEF Types, Loops
    <3> QED BY <3>1, BatchKinds DEF Rest
  <2>3. /\ loop' \in Loops /\ loop'.pc = "take" /\ loop'.row = loop.row /\ loop'.batch = Rest(r)
    BY <1>1, <1>2, <1>7, <2>1, <2>2 DEF Types, Loops
  <2>4. /\ rows' \in [Rows -> RowRecords] /\ rows'[r].status = "failed"
        /\ rows'[r].attempts = rows[r].attempts
        /\ \A q \in Rows \ {r} : rows'[q] = rows[q]
    BY <1>1, <1>3, <2>1 DEF Types, RowRecords, Statuses
  <2>5. Types'
    BY <1>1, <1>2, <2>3, <2>4 DEF Types
  <2>6. PlaceInv'
    BY <1>1, <1>2, <2>3 DEF PlaceInv
  <2>7. FreshInv'
    <3>1. \A q \in Rows : rows[q].status = "none" => rows'[q].status = "none"
      BY <1>1, <1>2, <2>4 DEF BatchOf
    <3> QED BY <1>1, <1>2, <2>3, <3>1, FreshKept
  <2>8. /\ ~Sending(r)' /\ ~Recording(r)' /\ ~Copied(r)' /\ (Testing(r)' <=> Testing(r))
    BY <1>2, <2>2, <2>3 DEF Sending, Recording, Copied, Testing
  <2>9. /\ One(Copied(r) /\ ~Recording(r))' = 0 /\ One(Testing(r))' = One(Testing(r))
    BY <2>8 DEF One
  <2>10. BatchOf(r)'
    BY <2>8 DEF BatchOf
  <2>11. TruthOf(r)'
    BY <1>1, <1>2, <1>4, <2>4 DEF TruthOf, BatchOf
  <2>12. One(Testing(r)) \in Nat /\ One(r.by = "test") \in Nat
    BY DEF One
  <2>13. sent[r] + One(Testing(r)) <= Limit(r)
    <3>1. CASE rows[r].status = "pending"
      <4>1. /\ rows[r].attempts + 1 <= MaxAttempts + faults
            /\ sent[r] + One(Testing(r)) <= rows[r].attempts + One(r.by = "test")
        BY <1>1, <1>2, <1>3, <1>4, <2>12, <3>1 DEF CountOf
      <4> QED BY <1>3, <2>12, <4>1 DEF Limit
    <3>2. CASE rows[r].status \in {"delivered", "failed"}
      BY <1>1, <1>3, <1>4, <2>12, <3>2 DEF CountOf
    <3> QED BY <1>1, <1>2, <3>1, <3>2 DEF BatchOf
  <2>14. CountOf(r)'
    <3>1. Limit(r)' = Limit(r)
      BY <1>2 DEF Limit
    <3> QED BY <1>2, <1>3, <2>4, <2>9, <2>12, <2>13, <3>1 DEF CountOf
  <2>15. RowInv'
    BY <1>1, <1>2, <1>5, <2>2, <2>3, <2>4, <2>5, <2>10, <2>11, <2>14, OthersRest
        DEF Copied, PlaceInv
  <2> QED BY <2>5, <2>6, <2>7, <2>15 DEF Inv
<1> QED BY <1>8, <1>9

\* What a message does to the row it is about.
LEMMA SendsKeep ==
  ASSUME ConstantsOK, Types, NEW r \in Rows, NEW answer \in Answers, Sends(r, answer)
  PROVE  /\ sent' \in [Rows -> Nat] /\ accepted' \in [Rows -> BOOLEAN]
         /\ sent'[r] = sent[r] + 1
         /\ accepted[r] \/ answer = "accepted" => accepted'[r]
         /\ accepted'[r] => accepted[r] \/ answer = "accepted" \/ faults' > 0
         /\ \A q \in Rows \ {r} : sent'[q] = sent[q] /\ (accepted'[q] <=> accepted[q])
         /\ faults' \in 0 .. MaxFaults /\ changes' = changes /\ faults' >= faults
<1>1. sent' = [sent EXCEPT ![r] = @ + 1]
  BY DEF Sends
<1>2. /\ sent' \in [Rows -> Nat] /\ sent'[r] = sent[r] + 1
      /\ \A q \in Rows \ {r} : sent'[q] = sent[q]
  BY <1>1 DEF Types
<1>3. CASE accepted' = [accepted EXCEPT ![r] = @ \/ answer = "accepted"] /\ UNCHANGED bounds
  <2> DEFINE b == accepted[r] \/ answer = "accepted"
  <2>1. b \in BOOLEAN /\ accepted' = [accepted EXCEPT ![r] = b]
    BY <1>3
  <2>2. b <=> accepted[r] \/ answer = "accepted"
    OBVIOUS
  <2> HIDE DEF b
  <2>3. /\ accepted' \in [Rows -> BOOLEAN] /\ accepted'[r] = b
        /\ \A q \in Rows \ {r} : accepted'[q] = accepted[q]
    BY <2>1 DEF Types
  <2>4. faults' \in 0 .. MaxFaults /\ changes' = changes /\ faults' >= faults
    BY <1>3, FaultsCount DEF bounds, Types
  <2> QED BY <1>2, <2>2, <2>3, <2>4
<1>4. CASE answer = "busy" /\ accepted' = [accepted EXCEPT ![r] = TRUE] /\ Fault
  <2>1. /\ accepted' \in [Rows -> BOOLEAN] /\ accepted'[r] = TRUE
        /\ \A q \in Rows \ {r} : accepted'[q] = accepted[q]
    BY <1>4 DEF Types
  <2>2. faults' \in 0 .. MaxFaults /\ changes' = changes /\ faults' = faults + 1 /\ faults \in Nat
    BY <1>4, FaultTypes
  <2>3. faults' > 0 /\ faults' >= faults
    BY <2>2
  <2> QED BY <1>2, <2>1, <2>2, <2>3
<1> QED BY <1>3, <1>4 DEF Sends

LEMMA LoopSendsStep ==
  ASSUME ConstantsOK, Inv, LoopSends
  PROVE  Inv'
<1>1. Types /\ PlaceInv /\ FreshInv /\ RowInv
  BY DEF Inv
<1>0. PICK r \in Rows : r = loop.row
  <2>1. loop.row \in Rows
    BY <1>1, BatchKinds DEF LoopSends, PlaceInv, Copied, Types, Loops
  <2> QED BY <2>1
<1>2. PICK answer \in Answers : /\ Sends(r, answer)
                                /\ loop' = [loop EXCEPT !.pc = "record", !.answer = answer]
  BY <1>0 DEF LoopSends
<1>3. loop.pc = "send" /\ UNCHANGED <<happened, crash, webhooks, rows, page, test>>
  BY DEF LoopSends, news
<1>4. /\ loop' \in Loops /\ loop'.pc = "record" /\ loop'.row = r /\ loop'.batch = loop.batch
      /\ loop'.answer = answer
  BY <1>0, <1>1, <1>2 DEF Types, Loops
<1>5. Copied(r) /\ r \in Rows
  BY <1>0, <1>1, <1>3 DEF PlaceInv
<1>6. /\ sent' \in [Rows -> Nat] /\ accepted' \in [Rows -> BOOLEAN]
      /\ sent'[r] = sent[r] + 1
      /\ accepted[r] \/ answer = "accepted" => accepted'[r]
      /\ accepted'[r] => accepted[r] \/ answer = "accepted" \/ faults' > 0
      /\ \A q \in Rows \ {r} : sent'[q] = sent[q] /\ (accepted'[q] <=> accepted[q])
      /\ faults' \in 0 .. MaxFaults /\ changes' = changes /\ faults' >= faults
  BY <1>1, <1>2, <1>5, SendsKeep
<1>7. /\ sent[r] \in Nat /\ rows[r].attempts \in Nat /\ rows[r].status \in Statuses
      /\ faults \in Nat /\ MaxAttempts \in Nat /\ loop.batch[r] \in Nat /\ Limit(r) \in Nat
      /\ faults' \in Nat
  BY <1>1, <1>5, <1>6, NumbersOf
<1>8. BatchOf(r) /\ CountOf(r) /\ TruthOf(r)
  BY <1>1, <1>5 DEF RowInv
<1>9. Types'
  BY <1>1, <1>3, <1>4, <1>6 DEF Types
<1>10. PlaceInv'
  <2>1. test'.pc = "record" /\ test'.answer = "accepted" => accepted'[test'.row]
    <3>1. test.pc = "record" /\ test.answer = "accepted" => accepted[test.row] /\ test.row \in Rows
      BY <1>1 DEF PlaceInv
    <3> QED BY <1>3, <1>6, <3>1
  <2> QED BY <1>1, <1>3, <1>4, <1>5, <1>6, <2>1 DEF PlaceInv, Copied
<1>11. FreshInv'
  <2>1. \A q \in Rows : rows[q].status = "none" => rows'[q].status = "none"
    BY <1>3
  <2> QED BY <1>1, <1>3, <1>4, <2>1, FreshKept
<1>12. /\ Sending(r) /\ ~Recording(r) /\ ~Sending(r)' /\ Recording(r)' /\ Copied(r)' /\ (loop.batch[r])' = loop.batch[r]
       /\ Testing(r)' <=> Testing(r)
  BY <1>0, <1>3, <1>4, <1>5 DEF Sending, Recording, Copied, Testing
<1>13. /\ One(Sending(r)) = 1 /\ One(Sending(r))' = 0 /\ One(Testing(r))' = One(Testing(r))
       /\ One(~(Sending(r) \/ Recording(r))) = 0 /\ One(~(Sending(r) \/ Recording(r)))' = 0
       /\ One(Sending(r) \/ Recording(r)) = 1 /\ One(Sending(r) \/ Recording(r))' = 1
       /\ One(Copied(r) /\ ~Recording(r)) = 1 /\ One(Copied(r) /\ ~Recording(r))' = 0
  BY <1>5, <1>12 DEF One
<1>14. One(Testing(r)) \in Nat /\ One(r.by = "test") \in Nat
  BY DEF One
<1>15. BatchOf(r)'
  BY <1>3, <1>5, <1>8 DEF BatchOf
<1>16. TruthOf(r)'
  BY <1>3, <1>4, <1>6, <1>7, <1>8, <1>12 DEF TruthOf
<1>17. ASSUME rows[r].status = "pending" PROVE CountOf(r)'
  <2>1. /\ sent[r] + 1 + One(Testing(r)) <= rows[r].attempts + One(r.by = "test")
        /\ rows[r].attempts <= MaxAttempts + faults
        /\ rows[r].attempts = loop.batch[r] + 1
    BY <1>5, <1>7, <1>8, <1>13, <1>14, <1>17 DEF CountOf
  <2>2. (sent[r] + One(Sending(r)) + One(Testing(r)) <= rows[r].attempts + One(r.by = "test"))'
    BY <1>3, <1>6, <1>7, <1>13, <1>14, <2>1
  <2>3. (rows[r].attempts + One(~(Sending(r) \/ Recording(r))) <= MaxAttempts + faults)'
    BY <1>3, <1>6, <1>7, <1>13, <2>1
  <2>4. (Copied(r) => rows[r].attempts = loop.batch[r] + One(Sending(r) \/ Recording(r)))'
    BY <1>3, <1>12, <1>13, <2>1
  <2>5. rows'[r].status = "pending"
    BY <1>3, <1>17
  <2> QED BY <2>2, <2>3, <2>4, <2>5 DEF CountOf
<1>18. ASSUME rows[r].status \in {"delivered", "failed"} PROVE CountOf(r)'
  <2>1. sent[r] + 1 + One(Testing(r)) <= Limit(r)
    BY <1>8, <1>13, <1>18 DEF CountOf
  <2>2. Limit(r)' >= Limit(r) /\ Limit(r)' \in Nat
    <3>1. Limit(r)' = MaxAttempts + faults' + One(r.by = "test")
      BY DEF Limit, One
    <3>2. Limit(r) = MaxAttempts + faults + One(r.by = "test")
      BY DEF Limit
    <3> QED BY <1>6, <1>7, <1>14, <3>1, <3>2
  <2>3. (sent[r] + One(Copied(r) /\ ~Recording(r)) + One(Testing(r)) <= Limit(r))'
    BY <1>6, <1>7, <1>13, <1>14, <2>1, <2>2
  <2>4. rows'[r].status \in {"delivered", "failed"}
    BY <1>3, <1>18
  <2> QED BY <2>3, <2>4 DEF CountOf
<1>19. CountOf(r)'
  <2>1. rows[r].status = "pending" \/ rows[r].status \in {"delivered", "failed"}
    BY <1>5, <1>8 DEF BatchOf
  <2> QED BY <1>17, <1>18, <2>1
<1>20. RowInv'
  <2>2. \A q \in Rows \ {r} : Copied(q)' => Copied(q) /\ (loop.batch[q])' = loop.batch[q]
    BY <1>4 DEF Copied
  <2> QED BY <1>1, <1>3, <1>4, <1>5, <1>6, <1>9, <1>15, <1>16, <1>19, <1>0, <2>2,
      OthersRest DEF PlaceInv, Inv
<1> QED BY <1>9, <1>10, <1>11, <1>20 DEF Inv

LEMMA LoopRecordsStep ==
  ASSUME ConstantsOK, Inv, LoopRecords
  PROVE  Inv'
<1>1. Types /\ PlaceInv /\ FreshInv /\ RowInv
  BY DEF Inv
<1>6. PICK r \in Rows : r = loop.row
  <2>1. loop.row \in Rows
    BY <1>1, BatchKinds DEF LoopRecords, PlaceInv, Copied, Types, Loops
  <2> QED BY <2>1
<1> DEFINE row == Recorded(rows[r], loop.batch[r] + 1, loop.answer)
<1>2. /\ loop.pc = "record" /\ rows' = [rows EXCEPT ![r] = row]
      /\ loop' = [loop EXCEPT !.pc = "take", !.batch = Rest(r), !.row = None, !.answer = "none"]
      /\ UNCHANGED <<happened, crash, webhooks, sent, accepted, page, test, changes, faults>>
  BY <1>6 DEF LoopRecords, news, history, bounds
<1>3. Copied(r) /\ r \in Rows
  BY <1>1, <1>2, <1>6 DEF PlaceInv
<1>4. /\ Rest(r) \in Batches /\ DOMAIN Rest(r) = DOMAIN loop.batch \ {r}
      /\ \A q \in DOMAIN Rest(r) : Rest(r)[q] = loop.batch[q]
  <2>1. loop.batch \in Batches /\ DOMAIN loop.batch \ {r} \in SUBSET Rows
    BY <1>1, BatchKinds DEF Types, Loops
  <2> QED BY <2>1, BatchKinds DEF Rest
<1>5. /\ loop' \in Loops /\ loop'.pc = "take" /\ loop'.row = None /\ loop'.batch = Rest(r)
  BY <1>1, <1>2, <1>4 DEF Types, Loops
<1>7. /\ sent[r] \in Nat /\ rows[r].attempts \in Nat /\ rows[r].status \in Statuses
      /\ faults \in Nat /\ MaxAttempts \in Nat /\ MaxAttempts > 0 /\ loop.batch[r] \in Nat /\ Limit(r) \in Nat
  BY <1>1, <1>3, NumbersOf
<1>8. BatchOf(r) /\ CountOf(r) /\ TruthOf(r) /\ rows[r] \in RowRecords
  BY <1>1, <1>3 DEF RowInv, Types
\* What is written.
<1>9. /\ row \in RowRecords /\ row.attempts = rows[r].attempts
      /\ \/ row.status = "delivered" /\ loop.answer = "accepted"
         \/ /\ row.status = IF rows[r].status = "pending" THEN "waiting" ELSE rows[r].status
            /\ loop.batch[r] + 1 < MaxAttempts /\ loop.answer # "accepted"
         \/ row.status = "failed" /\ loop.answer # "accepted"
  BY <1>8 DEF Recorded, RowRecords, Statuses
<1> HIDE DEF row
<1>10. /\ rows' \in [Rows -> RowRecords] /\ rows'[r] = row /\ \A q \in Rows \ {r} : rows'[q] = rows[q]
  BY <1>1, <1>2, <1>3, <1>9 DEF Types
<1>11. faults' >= faults
  BY <1>1, <1>2, FaultsCount
<1>12. Types'
  BY <1>1, <1>2, <1>5, <1>10 DEF Types
<1>13. PlaceInv'
  BY <1>1, <1>2, <1>5 DEF PlaceInv
<1>14. rows[r].status \in {"pending", "delivered", "failed"}
  BY <1>3, <1>8 DEF BatchOf
<1>15. FreshInv'
  <2>1. \A q \in Rows : rows[q].status = "none" => rows'[q].status = "none"
    BY <1>10, <1>14
  <2> QED BY <1>1, <1>2, <1>5, <2>1, FreshKept
<1>16. /\ ~Sending(r) /\ Recording(r) /\ ~Sending(r)' /\ ~Recording(r)' /\ ~Copied(r)'
       /\ Testing(r)' <=> Testing(r)
  BY <1>2, <1>4, <1>5, <1>6 DEF Sending, Recording, Copied, Testing
<1>17. /\ One(Sending(r)) = 0 /\ One(Sending(r))' = 0 /\ One(Testing(r))' = One(Testing(r))
       /\ One(~(Sending(r) \/ Recording(r))) = 0 /\ One(~(Sending(r) \/ Recording(r)))' = 1
       /\ One(Sending(r) \/ Recording(r)) = 1
       /\ One(Copied(r) /\ ~Recording(r)) = 0 /\ One(Copied(r) /\ ~Recording(r))' = 0
  BY <1>16 DEF One
<1>18. One(Testing(r)) \in Nat /\ One(r.by = "test") \in Nat
  BY DEF One
<1>19. BatchOf(r)'
  BY <1>16 DEF BatchOf
<1>20. accepted[r] => \/ loop.answer = "accepted" \/ r.by = "test" \/ faults > 0
                      \/ rows[r].status = "delivered"
  BY <1>8 DEF TruthOf
<1>21. TruthOf(r)'
  <2>1. row.status = "delivered" => accepted[r]
    <3>1. loop.answer = "accepted" => accepted[r]
      BY <1>1, <1>2, <1>6 DEF PlaceInv
    <3> QED BY <1>8, <1>9, <3>1 DEF TruthOf
  <2>2. accepted[r] /\ r.by # "test" => faults > 0 \/ row.status = "delivered"
    <3>1. r.by # "test" => rows[r].status = "pending"
      BY <1>3, <1>8 DEF BatchOf
    <3> QED BY <1>9, <1>20, <3>1
  <2> QED BY <1>2, <1>10, <2>1, <2>2 DEF TruthOf
<1>22. sent[r] + One(Testing(r)) <= Limit(r)
  <2>1. CASE rows[r].status = "pending"
    <3>1. /\ rows[r].attempts <= MaxAttempts + faults
          /\ sent[r] + One(Testing(r)) <= rows[r].attempts + One(r.by = "test")
      BY <1>7, <1>8, <1>17, <1>18, <2>1 DEF CountOf
    <3> QED BY <1>7, <1>18, <3>1 DEF Limit
  <2>2. CASE rows[r].status \in {"delivered", "failed"}
    BY <1>7, <1>8, <1>17, <1>18, <2>2 DEF CountOf
  <2> QED BY <1>14, <2>1, <2>2
<1>23. CountOf(r)'
  <2>1. Limit(r)' = Limit(r)
    BY <1>2 DEF Limit
  <2>2. ASSUME row.status \in {"delivered", "failed"} PROVE CountOf(r)'
    <3>1. (sent[r] + One(Copied(r) /\ ~Recording(r)) + One(Testing(r)) <= Limit(r))'
      BY <1>2, <1>7, <1>17, <1>18, <1>22, <2>1
    <3> QED BY <1>10, <2>2, <3>1 DEF CountOf
  <2>3. ASSUME row.status = "waiting" PROVE CountOf(r)'
    <3>1. rows[r].status = "pending" /\ loop.batch[r] + 1 < MaxAttempts
      BY <1>9, <1>14, <2>3
    <3>2. /\ rows[r].attempts = loop.batch[r] + 1
          /\ sent[r] + One(Testing(r)) <= rows[r].attempts + One(r.by = "test")
      BY <1>3, <1>7, <1>8, <1>17, <1>18, <3>1 DEF CountOf
    <3>3. (sent[r] + One(Sending(r)) + One(Testing(r)) <= rows[r].attempts + One(r.by = "test"))'
      BY <1>2, <1>7, <1>9, <1>10, <1>17, <1>18, <3>2
    <3>4. (rows[r].attempts + One(~(Sending(r) \/ Recording(r))) <= MaxAttempts + faults)'
      BY <1>2, <1>7, <1>9, <1>10, <1>17, <3>1, <3>2
    <3>5. rows'[r].status = "waiting"
      BY <1>10, <2>3
    <3> QED BY <1>16, <3>3, <3>4, <3>5 DEF CountOf
  <2> QED BY <1>9, <1>14, <2>2, <2>3
<1>24. RowInv'
  <2>1. \A q \in Rows \ {r} : Copied(q)' => Copied(q) /\ (loop.batch[q])' = loop.batch[q]
    BY <1>4, <1>5 DEF Copied
  <2> QED BY <1>1, <1>2, <1>3, <1>5, <1>6, <1>10, <1>11, <1>12, <1>19, <1>21, <1>23,
      <2>1, OthersRest DEF PlaceInv
<1> QED BY <1>12, <1>13, <1>15, <1>24 DEF Inv

LEMMA DueAgainStep ==
  ASSUME ConstantsOK, Inv, NEW r \in Rows, DueAgain(r)
  PROVE  Inv'
<1>1. Types /\ PlaceInv /\ FreshInv /\ RowInv /\ BatchOf(r) /\ CountOf(r) /\ TruthOf(r)
  BY DEF Inv, RowInv
<1>2. /\ rows[r].status = "waiting" /\ rows' = [rows EXCEPT ![r].status = "pending"]
      /\ UNCHANGED <<happened, crash, webhooks, sent, accepted, loop, page, test, changes, faults>>
  BY DEF DueAgain, news, history, bounds
<1>3. /\ rows' \in [Rows -> RowRecords] /\ rows'[r].status = "pending"
      /\ rows'[r].attempts = rows[r].attempts /\ \A q \in Rows \ {r} : rows'[q] = rows[q]
  BY <1>1, <1>2 DEF Types, RowRecords, Statuses
<1>4. Types'
  BY <1>1, <1>2, <1>3 DEF Types
<1>5. PlaceInv'
  BY <1>1, <1>2 DEF PlaceInv, Copied
<1>6. FreshInv'
  <2>1. \A q \in Rows : rows[q].status = "none" => rows'[q].status = "none"
    BY <1>2, <1>3
  <2> QED BY <1>1, <1>2, <2>1, FreshKept
<1>7. /\ Copied(r)' <=> Copied(r)
      /\ Sending(r)' <=> Sending(r)
      /\ Recording(r)' <=> Recording(r)
      /\ Testing(r)' <=> Testing(r)
  BY <1>2 DEF Copied, Sending, Recording, Testing
<1>8. ~Copied(r)
  BY <1>1, <1>2 DEF BatchOf
<1>9. BatchOf(r)' /\ TruthOf(r)'
  BY <1>1, <1>2, <1>3, <1>7, <1>8 DEF BatchOf, TruthOf
<1>10. CountOf(r)'
  <2>1. /\ One(Sending(r))' = One(Sending(r)) /\ One(Testing(r))' = One(Testing(r))
        /\ One(~(Sending(r) \/ Recording(r)))' = One(~(Sending(r) \/ Recording(r)))
    BY <1>7 DEF One
  <2>2. (sent[r] + One(Sending(r)) + One(Testing(r)) <= rows[r].attempts + One(r.by = "test"))'
    BY <1>1, <1>2, <1>3, <2>1 DEF CountOf
  <2>3. (rows[r].attempts + One(~(Sending(r) \/ Recording(r))) <= MaxAttempts + faults)'
    BY <1>1, <1>2, <1>3, <2>1 DEF CountOf
  <2> QED BY <1>3, <1>7, <1>8, <2>2, <2>3 DEF CountOf
<1>11. faults' >= faults
  BY <1>1, <1>2, FaultsCount
<1>12. RowInv'
  BY <1>1, <1>2, <1>3, <1>4, <1>9, <1>10, <1>11, OthersRest DEF Copied, PlaceInv
<1> QED BY <1>4, <1>5, <1>6, <1>12 DEF Inv

-----------------------------------------------------------------------------
(* The test message, and crashes.                                          *)

LEMMA TestBeginsStep ==
  ASSUME ConstantsOK, Inv, NEW r \in Rows, TestBegins(r)
  PROVE  Inv'
<1>1. Types /\ PlaceInv /\ FreshInv /\ RowInv /\ BatchOf(r) /\ CountOf(r) /\ TruthOf(r)
  BY DEF Inv, RowInv
<1>2. /\ test = NoTest /\ r.by = "test" /\ rows[r].status = "none"
      /\ rows' = [rows EXCEPT ![r].status = "pending"]
      /\ test' = [NoTest EXCEPT !.pc = "send", !.row = r]
      /\ UNCHANGED <<happened, crash, webhooks, sent, accepted, loop, page, changes, faults>>
  BY DEF TestBegins, news, history, bounds
<1>3. test.pc = "none" /\ test' \in Tests /\ test'.pc = "send" /\ test'.row = r
  BY <1>2, RestingFields DEF Tests
<1>4. /\ rows' \in [Rows -> RowRecords] /\ rows'[r] = [status |-> "pending", attempts |-> 0]
      /\ \A q \in Rows \ {r} : rows'[q] = rows[q]
  <2>1. rows[r] \in RowRecords /\ rows[r].attempts = 0
    BY <1>1, <1>2 DEF Types, CountOf
  <2>2. [rows[r] EXCEPT !.status = "pending"] = [status |-> "pending", attempts |-> 0]
    BY <2>1 DEF RowRecords
  <2>3. [status |-> "pending", attempts |-> 0] \in RowRecords
    BY DEF RowRecords, Statuses
  <2> QED BY <1>1, <1>2, <2>2, <2>3 DEF Types
<1>5. Types'
  BY <1>1, <1>2, <1>3, <1>4 DEF Types
<1>6. PlaceInv'
  BY <1>1, <1>2, <1>3 DEF PlaceInv, Copied
<1>7. FreshInv'
  <2>1. \A q \in Rows : rows[q].status = "none" => rows'[q].status = "none" \/ q.by = "test"
    BY <1>2, <1>4
  <2> QED BY <1>1, <1>2, <2>1, FreshKept
<1>8. ~Copied(r)
  BY <1>1, <1>2 DEF BatchOf
<1>9. /\ ~Copied(r)' /\ ~Sending(r) /\ ~Recording(r) /\ ~Sending(r)' /\ ~Recording(r)'
  BY <1>1, <1>2, <1>8 DEF Copied, Sending, Recording, PlaceInv
<1>10. faults' >= faults
  BY <1>1, <1>2, FaultsCount
<1>11. BatchOf(r)' /\ CountOf(r)' /\ TruthOf(r)'
  BY <1>1, <1>2, <1>4, <1>5, <1>9, <1>10, RowBegins
<1>12. RowInv'
  BY <1>1, <1>2, <1>3, <1>4, <1>5, <1>9, <1>10, <1>11, OthersRest DEF Copied, PlaceInv
<1> QED BY <1>5, <1>6, <1>7, <1>12 DEF Inv

LEMMA TestSendsStep ==
  ASSUME ConstantsOK, Inv, TestSends
  PROVE  Inv'
<1>1. Types /\ PlaceInv /\ FreshInv /\ RowInv
  BY DEF Inv
<1>2. PICK r \in Rows : r = test.row /\ r.by = "test"
  BY <1>1 DEF TestSends, PlaceInv
<1>3. PICK answer \in Answers : /\ Sends(r, answer)
                                /\ test' = [test EXCEPT !.pc = "record", !.answer = answer]
  BY <1>2 DEF TestSends
<1>4. test.pc = "send" /\ UNCHANGED <<happened, crash, webhooks, rows, loop, page>>
  BY DEF TestSends, news
<1>5. test' \in Tests /\ test'.pc = "record" /\ test'.row = r /\ test'.answer = answer
  BY <1>1, <1>2, <1>3 DEF Types, Tests
<1>6. /\ sent' \in [Rows -> Nat] /\ accepted' \in [Rows -> BOOLEAN]
      /\ sent'[r] = sent[r] + 1
      /\ accepted[r] \/ answer = "accepted" => accepted'[r]
      /\ accepted'[r] => accepted[r] \/ answer = "accepted" \/ faults' > 0
      /\ \A q \in Rows \ {r} : sent'[q] = sent[q] /\ (accepted'[q] <=> accepted[q])
      /\ faults' \in 0 .. MaxFaults /\ changes' = changes /\ faults' >= faults
  BY <1>1, <1>3, SendsKeep
<1>7. /\ sent[r] \in Nat /\ rows[r].attempts \in Nat /\ rows[r].status \in Statuses
      /\ faults \in Nat /\ MaxAttempts \in Nat /\ Limit(r) \in Nat /\ faults' \in Nat
  BY <1>1, <1>6, NumbersOf
<1>8. BatchOf(r) /\ CountOf(r) /\ TruthOf(r)
  BY <1>1 DEF RowInv
<1>9. Types'
  BY <1>1, <1>4, <1>5, <1>6 DEF Types
<1>10. PlaceInv'
  <2>1. loop.pc = "record" /\ loop.answer = "accepted" => accepted[loop.row] /\ loop.row \in Rows
    BY <1>1, BatchKinds DEF PlaceInv, Copied, Types, Loops
  <2>2. loop.pc = "record" /\ loop.answer = "accepted" => accepted'[loop.row]
    BY <1>6, <2>1
  <2> QED BY <1>1, <1>2, <1>4, <1>5, <1>6, <2>2 DEF PlaceInv, Copied
<1>11. FreshInv'
  <2>1. \A q \in Rows : rows[q].status = "none" => rows'[q].status = "none"
    BY <1>4
  <2> QED BY <1>1, <1>4, <2>1, FreshKept
<1>12. /\ Copied(r)' <=> Copied(r)
       /\ Sending(r)' <=> Sending(r)
       /\ Recording(r)' <=> Recording(r)
       /\ Testing(r) /\ ~Testing(r)'
       /\ (loop.batch[r])' = loop.batch[r]
  BY <1>2, <1>4, <1>5 DEF Copied, Sending, Recording, Testing
<1>13. /\ One(Sending(r))' = One(Sending(r)) /\ One(Testing(r)) = 1 /\ One(Testing(r))' = 0
       /\ One(~(Sending(r) \/ Recording(r)))' = One(~(Sending(r) \/ Recording(r)))
       /\ One(Sending(r) \/ Recording(r))' = One(Sending(r) \/ Recording(r))
       /\ One(Copied(r) /\ ~Recording(r))' = One(Copied(r) /\ ~Recording(r))
  BY <1>12 DEF One
<1>14. /\ One(Sending(r)) \in Nat /\ One(r.by = "test") \in Nat /\ One(~(Sending(r) \/ Recording(r))) \in Nat
       /\ One(Copied(r) /\ ~Recording(r)) \in Nat
  BY DEF One
<1>15. BatchOf(r)' /\ TruthOf(r)'
  BY <1>2, <1>4, <1>6, <1>8, <1>12 DEF BatchOf, TruthOf
<1>16. rows[r].status # "none"
  BY <1>2, <1>8 DEF CountOf
<1>17. ASSUME rows[r].status \in {"pending", "waiting"} PROVE CountOf(r)'
  <2>1. /\ sent[r] + One(Sending(r)) + 1 <= rows[r].attempts + One(r.by = "test")
        /\ rows[r].attempts + One(~(Sending(r) \/ Recording(r))) <= MaxAttempts + faults
        /\ Copied(r) => rows[r].attempts = loop.batch[r] + One(Sending(r) \/ Recording(r))
    BY <1>8, <1>13, <1>17 DEF CountOf
  <2>2. (sent[r] + One(Sending(r)) + One(Testing(r)) <= rows[r].attempts + One(r.by = "test"))'
    BY <1>4, <1>6, <1>7, <1>13, <1>14, <2>1
  <2>3. (rows[r].attempts + One(~(Sending(r) \/ Recording(r))) <= MaxAttempts + faults)'
    BY <1>4, <1>6, <1>7, <1>13, <1>14, <2>1
  <2>4. (Copied(r) => rows[r].attempts = loop.batch[r] + One(Sending(r) \/ Recording(r)))'
    BY <1>4, <1>12, <1>13, <2>1
  <2>5. rows'[r].status \in {"pending", "waiting"}
    BY <1>4, <1>17
  <2> QED BY <2>2, <2>3, <2>4, <2>5 DEF CountOf
<1>18. ASSUME rows[r].status \in {"delivered", "failed"} PROVE CountOf(r)'
  <2>1. sent[r] + One(Copied(r) /\ ~Recording(r)) + 1 <= Limit(r)
    BY <1>8, <1>13, <1>18 DEF CountOf
  <2>2. Limit(r)' >= Limit(r) /\ Limit(r)' \in Nat
    <3>1. Limit(r)' = MaxAttempts + faults' + One(r.by = "test")
      BY DEF Limit, One
    <3>2. Limit(r) = MaxAttempts + faults + One(r.by = "test")
      BY DEF Limit
    <3> QED BY <1>6, <1>7, <1>14, <3>1, <3>2
  <2>3. (sent[r] + One(Copied(r) /\ ~Recording(r)) + One(Testing(r)) <= Limit(r))'
    BY <1>6, <1>7, <1>13, <1>14, <2>1, <2>2
  <2>4. rows'[r].status \in {"delivered", "failed"}
    BY <1>4, <1>18
  <2> QED BY <2>3, <2>4 DEF CountOf
<1>19. CountOf(r)'
  BY <1>7, <1>16, <1>17, <1>18 DEF Statuses
<1>20. RowInv'
  BY <1>1, <1>2, <1>4, <1>5, <1>6, <1>9, <1>15, <1>19, OthersRest DEF Copied
<1> QED BY <1>9, <1>10, <1>11, <1>20 DEF Inv

LEMMA TestRecordsStep ==
  ASSUME ConstantsOK, Inv, TestRecords
  PROVE  Inv'
<1>1. Types /\ PlaceInv /\ FreshInv /\ RowInv
  BY DEF Inv
<1>2. PICK r \in Rows : r = test.row /\ r.by = "test"
  BY <1>1 DEF TestRecords, PlaceInv
<1>3. /\ test.pc = "record" /\ test' = NoTest
      /\ UNCHANGED <<happened, crash, webhooks, sent, accepted, loop, page>>
  BY DEF TestRecords, news, history
<1>4. test' \in Tests /\ test'.pc = "none" /\ test'.row = None
  BY <1>3, RestingFields
<1>5. BatchOf(r) /\ CountOf(r) /\ TruthOf(r)
  BY <1>1 DEF RowInv
<1>6. /\ Copied(r)' <=> Copied(r)
      /\ Sending(r)' <=> Sending(r)
      /\ Recording(r)' <=> Recording(r)
      /\ ~Testing(r) /\ ~Testing(r)' /\ test'.row # r
      /\ (loop.batch[r])' = loop.batch[r]
  BY <1>3, <1>4, RowKinds DEF Copied, Sending, Recording, Testing
<1>7. /\ sent[r] \in Nat /\ rows[r].attempts \in Nat /\ rows[r].status \in Statuses
      /\ faults \in Nat /\ MaxAttempts \in Nat /\ Limit(r) \in Nat
  BY <1>1, NumbersOf
<1>8. rows[r].status # "none"
  BY <1>2, <1>5 DEF CountOf
<1>9. CASE Fault /\ UNCHANGED rows
  <2>1. faults' \in 0 .. MaxFaults /\ changes' = changes /\ faults' = faults + 1 /\ faults' >= faults
    BY <1>1, <1>9, FaultTypes
  <2>2. Types'
    BY <1>1, <1>3, <1>4, <1>9, <2>1 DEF Types
  <2>3. PlaceInv'
    BY <1>1, <1>3, <1>4 DEF PlaceInv, Copied
  <2>4. FreshInv'
    BY <1>1, <1>3, <1>9, FreshStays
  <2>5. BatchOf(r)' /\ CountOf(r)' /\ TruthOf(r)'
    BY <1>1, <1>3, <1>5, <1>6, <1>9, <2>1, <2>2, RowRests
  <2>6. RowInv'
    BY <1>1, <1>2, <1>3, <1>4, <1>9, <2>1, <2>2, <2>5, OthersRest DEF Copied
  <2> QED BY <2>2, <2>3, <2>4, <2>6 DEF Inv
<1>10. CASE /\ rows' = [rows EXCEPT ![test.row] =
                  [attempts |-> 1, status |-> IF test.answer = "accepted" THEN "delivered" ELSE "failed"]]
            /\ UNCHANGED bounds
  <2> DEFINE row == [attempts |-> 1, status |-> IF test.answer = "accepted" THEN "delivered" ELSE "failed"]
  <2>1. /\ row \in RowRecords /\ row.status \in {"delivered", "failed"}
        /\ row.status = "delivered" => test.answer = "accepted"
    BY DEF RowRecords, Statuses
  <2>2. rows' = [rows EXCEPT ![r] = row]
    BY <1>2, <1>10
  <2> HIDE DEF row
  <2>3. rows' \in [Rows -> RowRecords] /\ rows'[r] = row /\ \A q \in Rows \ {r} : rows'[q] = rows[q]
    BY <1>1, <2>1, <2>2 DEF Types
  <2>4. changes' = changes /\ faults' = faults /\ faults' >= faults
    BY <1>1, <1>10, FaultsCount DEF bounds
  <2>5. Types'
    BY <1>1, <1>3, <1>4, <2>3, <2>4 DEF Types
  <2>6. PlaceInv'
    BY <1>1, <1>3, <1>4 DEF PlaceInv, Copied
  <2>7. FreshInv'
    <3>1. \A q \in Rows : rows[q].status = "none" => rows'[q].status = "none"
      BY <1>8, <2>3
    <3> QED BY <1>1, <1>3, <3>1, FreshKept
  <2>8. BatchOf(r)' /\ TruthOf(r)'
    <3>1. row.status = "delivered" => accepted[r]
      BY <1>1, <1>2, <1>3, <2>1 DEF PlaceInv
    <3> QED BY <1>2, <1>3, <2>1, <2>3, <3>1 DEF BatchOf, TruthOf
  <2>9. /\ One(Testing(r)) = 0 /\ One(Testing(r))' = 0
        /\ One(Copied(r) /\ ~Recording(r))' = One(Copied(r) /\ ~Recording(r))
        /\ One(Copied(r) /\ ~Recording(r)) <= 1 /\ One(Copied(r) /\ ~Recording(r)) \in Nat
        /\ One(Sending(r)) \in Nat /\ One(r.by = "test") = 1
        /\ One(~(Sending(r) \/ Recording(r))) \in Nat
    BY <1>2, <1>6 DEF One
  <2>10. One(Copied(r) /\ ~Recording(r)) <= One(Sending(r)) + One(~(Sending(r) \/ Recording(r)))
    BY DEF One
  <2>11. sent[r] + One(Copied(r) /\ ~Recording(r)) <= Limit(r)
    <3>1. CASE rows[r].status \in {"pending", "waiting"}
      <4>1. /\ sent[r] + One(Sending(r)) <= rows[r].attempts + 1
            /\ rows[r].attempts + One(~(Sending(r) \/ Recording(r))) <= MaxAttempts + faults
        BY <1>5, <1>7, <2>9, <3>1 DEF CountOf
      <4>2. Limit(r) = MaxAttempts + faults + 1
        BY <2>9 DEF Limit
      <4> DEFINE x == One(Copied(r) /\ ~Recording(r))
                 y == One(Sending(r))
                 z == One(~(Sending(r) \/ Recording(r)))
      <4>3. /\ x \in Nat /\ y \in Nat /\ z \in Nat /\ x <= y + z
            /\ sent[r] + y <= rows[r].attempts + 1 /\ rows[r].attempts + z <= MaxAttempts + faults
        BY <2>9, <2>10, <4>1
      <4> HIDE DEF x, y, z
      <4>4. sent[r] + y + z <= rows[r].attempts + 1 + z
        BY <1>7, <4>3
      <4>5. sent[r] + x <= Limit(r)
        BY <1>7, <4>2, <4>3, <4>4
      <4> QED BY <4>5 DEF x
    <3>2. CASE rows[r].status \in {"delivered", "failed"}
      BY <1>5, <1>7, <2>9, <3>2 DEF CountOf
    <3> QED BY <1>7, <1>8, <3>1, <3>2 DEF Statuses
  <2>12. CountOf(r)'
    <3>1. Limit(r)' = Limit(r)
      BY <2>4 DEF Limit
    <3>2. (sent[r] + One(Copied(r) /\ ~Recording(r)) + One(Testing(r)) <= Limit(r))'
      BY <1>3, <1>7, <2>9, <2>11, <3>1
    <3> QED BY <2>1, <2>3, <3>2 DEF CountOf
  <2>13. RowInv'
    BY <1>1, <1>2, <1>3, <1>4, <2>3, <2>4, <2>5, <2>8, <2>12, OthersRest DEF Copied
  <2> QED BY <2>5, <2>6, <2>7, <2>13 DEF Inv
<1> QED BY <1>9, <1>10 DEF TestRecords

LEMMA CrashStep ==
  ASSUME ConstantsOK, Inv, Crash
  PROVE  Inv'
<1>1. Types /\ PlaceInv /\ FreshInv /\ RowInv
  BY DEF Inv
<1>2. /\ Fault /\ loop' = Resting /\ page' = NoPage /\ test' = NoTest /\ crash' = NoReport
      /\ UNCHANGED <<happened, webhooks, rows, sent, accepted>>
  BY DEF Crash, history
<1>3. faults' \in 0 .. MaxFaults /\ changes' = changes /\ faults' = faults + 1 /\ faults \in Nat
  BY <1>1, <1>2, FaultTypes
<1>4. faults' > faults /\ faults' >= faults
  BY <1>3
<1>5. Types'
  BY <1>1, <1>2, <1>3, RestingFields DEF Types
<1>6. PlaceInv' /\ FreshInv'
  BY <1>2, RestingFields, BatchKinds DEF PlaceInv, FreshInv
<1>7. ASSUME NEW r \in Rows PROVE BatchOf(r)' /\ CountOf(r)' /\ TruthOf(r)'
  <2>1. BatchOf(r) /\ CountOf(r) /\ TruthOf(r)
    BY <1>1 DEF RowInv
  <2>2. ~Copied(r)' /\ ~Sending(r)' /\ ~Recording(r)' /\ ~Testing(r)' /\ test'.row # r
    BY <1>2, RestingFields, BatchKinds, RowKinds DEF Copied, Sending, Recording, Testing
  <2> QED BY <1>1, <1>2, <1>4, <1>5, <2>1, <2>2, RowRests
<1> QED BY <1>5, <1>6, <1>7 DEF Inv, RowInv

LEMMA InitInv ==
  ASSUME ConstantsOK, Init
  PROVE  Inv
<1>1. /\ happened = {} /\ crash = NoReport /\ webhooks = [i \in Webhooks |-> "none"]
      /\ rows = [r \in Rows |-> [status |-> "none", attempts |-> 0]]
      /\ sent = [r \in Rows |-> 0] /\ accepted = [r \in Rows |-> FALSE]
      /\ loop = Resting /\ page = NoPage /\ test = NoTest /\ changes = 0 /\ faults = 0
  BY DEF Init
<1>2. [status |-> "none", attempts |-> 0] \in RowRecords
  BY DEF RowRecords, Statuses
<1>3. accepted \in [Rows -> BOOLEAN] /\ \A r \in Rows : accepted[r] = FALSE
  BY <1>1
<1>4. Types
  BY <1>1, <1>2, <1>3, RestingFields DEF Types, ConstantsOK
<1>5. PlaceInv /\ FreshInv
  BY <1>1, RestingFields, BatchKinds DEF PlaceInv, FreshInv
<1>6. ASSUME NEW r \in Rows PROVE BatchOf(r) /\ CountOf(r) /\ TruthOf(r)
  <2>1. ~Copied(r) /\ rows[r].status = "none" /\ rows[r].attempts = 0 /\ sent[r] = 0 /\ test.row # r
    BY <1>1, RestingFields, BatchKinds, RowKinds DEF Copied
  <2>2. BatchOf(r) /\ CountOf(r)
    BY <2>1 DEF BatchOf, CountOf
  <2>3. TruthOf(r)
    BY <1>3, <2>1 DEF TruthOf
  <2> QED BY <2>2, <2>3
<1> QED BY <1>4, <1>5, <1>6 DEF Inv, RowInv

LEMMA Stutter ==
  ASSUME ConstantsOK, Inv, UNCHANGED vars
  PROVE  Inv'
<1>1. UNCHANGED <<happened, crash, webhooks, rows, sent, accepted, loop, page, test, changes, faults>>
  BY DEF vars, news, history, bounds
<1>2. Types'
  BY <1>1 DEF Inv, Types
<1>3. FreshInv'
  BY <1>1, FreshStays DEF Inv
<1> QED BY <1>1, <1>2, <1>3, Elsewhere

\* The invariant holds in every state of notification_loop(), the page, the test
\* and the owner's switches.
THEOREM Invariance == ASSUME ConstantsOK PROVE Spec => []Inv
<1>1. Init => Inv
  BY InitInv
<1>2. Inv /\ [Next]_vars => Inv'
  <2> SUFFICES ASSUME Inv, [Next]_vars PROVE Inv'
    OBVIOUS
  <2>1. CASE LoopStep \/ LoopFails
    BY <2>1, LoopLooksStep, LoopQueuesStep, LoopTakesStep, LoopSleepsStep, LoopSendsStep,
       LoopRecordsStep, LoopFailsStep DEF LoopStep
  <2>2. CASE (\E a \in Reports \union Crashes : Happens(a)) \/ ServerStarts
    BY <2>2, HappensStep, ServerStartsStep
  <2>3. CASE PageLooks \/ PageQueues \/ TestSends \/ TestRecords \/ Crash
    BY <2>3, PageLooksStep, PageQueuesStep, TestSendsStep, TestRecordsStep, CrashStep
  <2>4. CASE \E r \in Rows : DueAgain(r) \/ TestBegins(r)
    BY <2>4, DueAgainStep, TestBeginsStep
  <2>5. CASE \E i \in Webhooks : Create(i) \/ Toggle(i) \/ Delete(i)
    BY <2>5, WebhookSteps
  <2>6. CASE UNCHANGED vars
    BY <2>6, Stutter
  <2> QED BY <2>1, <2>2, <2>3, <2>4, <2>5, <2>6 DEF Next
<1> QED BY <1>1, <1>2, PTL DEF Spec

\* It says what the history shows.
LEMMA InvMeans ==
  ASSUME ConstantsOK, Inv
  PROVE  HistoryIsTrue
<1> SUFFICES ASSUME NEW r \in Rows
             PROVE  /\ rows[r].status = "delivered" => accepted[r]
                    /\ rows[r].status = "failed" /\ r.by # "test" => ~accepted[r] \/ faults > 0
                    /\ sent[r] <= MaxAttempts + faults + (IF r.by = "test" THEN 1 ELSE 0)
  BY DEF HistoryIsTrue
<1>1. Types /\ BatchOf(r) /\ CountOf(r) /\ TruthOf(r) /\ PlaceInv
  BY DEF Inv, RowInv
<1>2. /\ sent[r] \in Nat /\ rows[r].attempts \in Nat /\ rows[r].status \in Statuses
      /\ faults \in Nat /\ MaxAttempts \in Nat /\ Limit(r) \in Nat
  BY <1>1, NumbersOf
<1>3. rows[r].status = "failed" /\ r.by # "test" => ~Recording(r)
  BY <1>1 DEF BatchOf, PlaceInv, Recording
<1>4. sent[r] <= Limit(r)
  <2> DEFINE x == One(Sending(r))
             y == One(Testing(r))
             h == One(~(Sending(r) \/ Recording(r)))
             c == One(Copied(r) /\ ~Recording(r))
             e == One(r.by = "test")
  <2>1. x \in Nat /\ y \in Nat /\ h \in Nat /\ c \in Nat /\ e \in Nat
    BY DEF One
  <2>2. Limit(r) = MaxAttempts + faults + e
    BY DEF Limit
  <2>3. CASE rows[r].status \in {"pending", "waiting"}
    <3>1. sent[r] + x + y <= rows[r].attempts + e /\ rows[r].attempts + h <= MaxAttempts + faults
      BY <1>1, <2>3 DEF CountOf
    <3> HIDE DEF x, y, h, e
    <3> QED BY <1>2, <2>1, <2>2, <3>1
  <2>4. CASE rows[r].status \in {"delivered", "failed"}
    <3>1. sent[r] + c + y <= Limit(r)
      BY <1>1, <2>4 DEF CountOf
    <3> HIDE DEF c, y
    <3> QED BY <1>2, <2>1, <3>1
  <2>5. CASE rows[r].status = "none"
    BY <1>1, <1>2, <2>5 DEF CountOf
  <2> QED BY <1>2, <2>3, <2>4, <2>5 DEF Statuses
<1> QED BY <1>1, <1>3, <1>4 DEF TruthOf, Limit, One

\* And what type the state has.
LEMMA InvTypes ==
  ASSUME Inv
  PROVE  TypeOK
BY BatchKinds DEF Inv, Types, TypeOK, Loops, Pages, Tests, RowRecords, Known

\* The variables of the notification loop and of the requests keep their types.
THEOREM AlertTypes == ASSUME ConstantsOK PROVE Spec => []TypeOK
BY Invariance, InvTypes, PTL

\* The history of deliveries tells the truth, however the loop, the page, a test
\* and the owner's switches interleave and wherever the process dies: a delivery
\* shown as delivered was taken by Discord, one shown as failed was not unless
\* something was lost, and the number of messages is bounded
\* (notification_loop(), send_pending_notifications(), the test request).
THEOREM HistoryHolds == ASSUME ConstantsOK PROVE Spec => []HistoryIsTrue
<1>1. Inv => HistoryIsTrue
  BY InvMeans
<1> QED BY <1>1, Invariance, PTL

-----------------------------------------------------------------------------
(* Automation: what the state is made of, and the invariant.               *)

Steps == {"start", "save", "archive", "stop", "record"}
Works == [pc : {"none"} \union Steps, job : A!Jobs \union {A!NoJob}, of : Profiles \union {"nobody"},
          backup : BOOLEAN]
Todos == [job : A!Starts \union A!Stops, backup : BOOLEAN]
Drafts == [marks : SUBSET (A!Starts \union A!Stops), done : SUBSET Events, records : SUBSET A!Jobs]
Ticks == [work : Works, phase : {"idle", "plans", "events"}, now : A!Minutes \union {A!Never},
          todo : SUBSET (Todos \union Events), draft : Drafts, locked : BOOLEAN]
EventRows == [state : {"none", "pending", "done", "cancelled"},
              of : Profiles \union {"nobody"}, at : Times \union {A!Never}, backup : BOOLEAN]

ScheduleTypes ==
  /\ clock \in A!Minutes /\ plans \in [Profiles -> A!Plans] /\ marks \subseteq A!Starts \union A!Stops
  /\ events \in [Events -> EventRows]
  /\ recorded \in [A!Jobs -> Nat] /\ carried \in [A!Jobs -> Nat] /\ lost \subseteq A!Jobs
  /\ tick \in Ticks /\ run \in Works
  /\ server \in A!Servers /\ asked \in 0 .. MaxAsked /\ mishaps \in 0 .. MaxMishaps

JobOf(e) == [kind |-> "event", of |-> e]
Over(e) == events[e].state = "done" \/ e \in tick.draft.done

\* What was done today, or is taken in hand for good.
Taken(j) ==
  \/ j \in marks \union tick.draft.marks
  \/ \E e \in Events : j = JobOf(e) /\ Over(e)

\* Events that the tick still means to carry out.
Waiting == IF tick.phase = "events" THEN tick.todo ELSE {}

\* What is being carried out: a tick's work is planned, a run's is manual.
WorkInv ==
  /\ tick.work = A!NoWork \/ (tick.work.pc # "none" /\ tick.work.job \in A!Jobs \ A!Manual)
  /\ run = A!NoWork \/ (run.pc # "none" /\ run.job \in A!Manual)
  /\ tick.phase = "idle" => tick = A!Idle
  /\ tick.work.pc = "start" => tick.work.of \in Profiles
  /\ run.pc = "start" => run.of \in Profiles

\* What the tick has not committed: nobody cancels an event meanwhile, and a
\* record is of something taken in hand and finished.
DraftInv ==
  /\ \A e \in tick.draft.done : events[e].state = "pending"
  /\ tick.draft.done # {} => tick.locked
  /\ \A j \in tick.draft.records : Taken(j) /\ j # tick.work.job /\ j \notin A!Manual
  /\ tick.work # A!NoWork => Taken(tick.work.job)

\* What the tick still has to do was not done before.
TodoInv ==
  /\ tick.phase = "plans" =>
       /\ tick.todo \subseteq Todos /\ tick.draft.done = {}
       /\ \A t \in tick.todo : /\ ~Taken(t.job)
                               /\ \A u \in tick.todo : u.job = t.job => u = t
  /\ tick.phase = "events" =>
       /\ tick.todo \subseteq Events
       /\ \A e \in tick.todo : e \notin tick.draft.done /\ events[e].state \in {"pending", "cancelled"}

\* The rollbacks so far: faults, and cancelled events that a tick has met.
OnceInv ==
  /\ IsFiniteSet(A!Cancelled)
  /\ \A j \in A!Jobs \ A!Manual :
       carried[j] <= (IF Taken(j) THEN 1 ELSE 0) + mishaps + Cardinality(A!Cancelled \ Waiting)

\* What is carried out is recorded, unfinished or lost, once each.
RecordInv ==
  \A j \in A!Jobs :
    /\ j \notin lost => carried[j] = recorded[j] + IF A!Unfinished(j) THEN 1 ELSE 0
    /\ j \in lost => j \in A!Manual \/ mishaps > 0 \/ A!Cancelled # {}

\* The inductive invariant of the schedule.
ScheduleInv == ScheduleTypes /\ WorkInv /\ DraftInv /\ TodoInv /\ OnceInv /\ RecordInv

-----------------------------------------------------------------------------
(* Jobs, and what a step does to the counts.                               *)

\* Which job is whose.
LEMMA JobKinds ==
  /\ A!Starts \union A!Stops \union A!OneTime = A!Jobs \ A!Manual
  /\ A!NoJob \notin A!Jobs
  /\ \A e \in Events : JobOf(e) \in A!Jobs \ A!Manual /\ JobOf(e) \notin A!Starts \union A!Stops
  /\ \A e, d \in Events : JobOf(e) = JobOf(d) => e = d
<1>1. A!Starts \union A!Stops \union A!OneTime = A!Jobs \ A!Manual
  BY DEF A!Starts, A!Stops, A!OneTime, A!Jobs, A!Manual
<1>2. \A j \in A!Jobs : j.kind # "none"
  BY DEF A!Starts, A!Stops, A!OneTime, A!Jobs, A!Manual
<1>3. A!NoJob.kind = "none"
  BY DEF A!NoJob
<1>4. \A e \in Events : JobOf(e) \in A!OneTime /\ JobOf(e).kind = "event" /\ JobOf(e).of = e
  BY DEF JobOf, A!OneTime
<1>5. \A j \in A!Starts \union A!Stops : j.kind # "event"
  BY DEF A!Starts, A!Stops
<1> QED BY <1>1, <1>2, <1>3, <1>4, <1>5

Late == A!Cancelled \ Waiting

\* The events cancelled but in hand are finitely many.
LEMMA LateCounts ==
  ASSUME ScheduleTypes, OnceInv
  PROVE  IsFiniteSet(A!Cancelled) /\ IsFiniteSet(Late) /\ Cardinality(Late) \in Nat /\ mishaps \in Nat
<1>1. IsFiniteSet(A!Cancelled) /\ IsFiniteSet(Late)
  BY FS_Difference DEF OnceInv, Late
<1> QED BY <1>1, FS_CardinalityType DEF ScheduleTypes

LEMMA ManualJobs ==
  /\ A!Manual \subseteq A!Jobs
  /\ \A j \in A!Manual : j.of \in Profiles
BY DEF A!Jobs, A!Manual

\* A step that carries out nothing: it records what it finishes, and a
\* rollback is counted.
\* Of natural numbers, one more is the least that is more.
LEMMA OneMore ==
  ASSUME NEW m \in Nat, NEW n \in Nat, NEW p \in Nat, NEW q \in Nat, m + p > n + q
  PROVE  n + q + 1 <= m + p
OBVIOUS

\* What a step must do to the counts for the invariant to hold after it.
LEMMA Moves ==
  ASSUME ScheduleTypes, ScheduleTypes', OnceInv, RecordInv, carried' = carried, IsFiniteSet(A!Cancelled'),
         mishaps' >= mishaps, A!Cancelled \subseteq A!Cancelled', lost \subseteq lost',
         \/ /\ \A j \in A!Jobs : Taken(j) => Taken(j)'
            /\ Cardinality(Late') >= Cardinality(Late)
         \/ mishaps' + Cardinality(Late') > mishaps + Cardinality(Late),
         \A j \in A!Jobs : j \in lost' /\ j \notin lost => j \in A!Manual \/ mishaps' > 0 \/ A!Cancelled' # {},
         \A j \in A!Jobs : j \notin lost' =>
           recorded'[j] + (IF A!Unfinished(j)' THEN 1 ELSE 0) = recorded[j] + (IF A!Unfinished(j) THEN 1 ELSE 0)
  PROVE  OnceInv' /\ RecordInv'
<1>1. IsFiniteSet(Late) /\ IsFiniteSet(Late')
  BY FS_Difference DEF OnceInv, Late
<1>2. Cardinality(Late) \in Nat /\ Cardinality(Late') \in Nat
  BY <1>1, FS_CardinalityType
<1>3. mishaps \in Nat /\ mishaps' \in Nat /\ \A j \in A!Jobs : carried[j] \in Nat
  BY DEF ScheduleTypes
<1>4. \A j \in A!Jobs \ A!Manual : carried[j] <= (IF Taken(j) THEN 1 ELSE 0) + mishaps + Cardinality(Late)
  BY DEF OnceInv, Late
<1>5. ASSUME NEW j \in A!Jobs \ A!Manual
      PROVE  carried[j] <= (IF Taken(j)' THEN 1 ELSE 0) + mishaps' + Cardinality(Late')
  <2> DEFINE a == Cardinality(Late)
             b == Cardinality(Late')
  <2>1. a \in Nat /\ b \in Nat /\ carried[j] <= (IF Taken(j) THEN 1 ELSE 0) + mishaps + a
    BY <1>2, <1>4
  <2>2. ((Taken(j) => Taken(j)') /\ b >= a) \/ mishaps' + b > mishaps + a
    OBVIOUS
  <2> HIDE DEF a, b
  <2>3. CASE (Taken(j) => Taken(j)') /\ b >= a
    <3>1. (IF Taken(j) THEN 1 ELSE 0) <= (IF Taken(j)' THEN 1 ELSE 0)
      BY <2>3
    <3> DEFINE x == IF Taken(j) THEN 1 ELSE 0
               y == IF Taken(j)' THEN 1 ELSE 0
    <3>2. x \in Nat /\ y \in Nat /\ x <= y /\ carried[j] <= x + mishaps + a
      BY <3>1, <2>1
    <3> HIDE DEF x, y
    <3>3. carried[j] <= y + mishaps' + b
      BY <3>2, <2>1, <2>3, <1>3
    <3> QED BY <3>3 DEF y, b
  <2>4. CASE mishaps' + b > mishaps + a
    <3>2. mishaps + a + 1 <= mishaps' + b
      <4>1. a \in Nat /\ b \in Nat /\ mishaps \in Nat /\ mishaps' \in Nat
        BY <1>3, <2>1
      <4>2. \A m, n, p, q \in Nat : m + p > n + q => n + q + 1 <= m + p
        BY OneMore
      <4> QED BY <2>4, <4>1, <4>2
    <3> DEFINE x == IF Taken(j) THEN 1 ELSE 0
               y == IF Taken(j)' THEN 1 ELSE 0
    <3>1. x \in Nat /\ x <= 1 /\ y \in Nat /\ carried[j] <= x + mishaps + a
      BY <2>1
    <3>3. carried[j] \in Nat
      BY <1>3
    <3> HIDE DEF x, y
    <3>4. carried[j] <= 1 + mishaps + a
      BY <3>1, <3>3, <2>1, <1>3
    <3>5. carried[j] <= mishaps' + b
      BY <3>2, <3>3, <3>4, <2>1, <1>3
    <3>6. carried[j] <= y + mishaps' + b
      BY <3>1, <3>3, <3>5, <2>1, <1>3
    <3> QED BY <3>6 DEF y, b
  <2> QED BY <2>2, <2>3, <2>4
<1>6. OnceInv'
  BY <1>5 DEF OnceInv, Late
<1>7. ASSUME NEW j \in A!Jobs
      PROVE  /\ j \notin lost' => carried[j] = recorded'[j] + (IF A!Unfinished(j)' THEN 1 ELSE 0)
             /\ j \in lost' => j \in A!Manual \/ mishaps' > 0 \/ A!Cancelled' # {}
  <2>1. j \notin lost' => carried[j] = recorded[j] + (IF A!Unfinished(j) THEN 1 ELSE 0)
    BY DEF RecordInv
  <2>2. j \in lost => j \in A!Manual \/ mishaps' > 0 \/ A!Cancelled' # {}
    BY <1>3 DEF RecordInv
  <2> QED BY <2>1, <2>2
<1> QED BY <1>6, <1>7 DEF RecordInv

\* A step that carries out a job that was not taken in hand before.
LEMMA Carries ==
  ASSUME ScheduleTypes, ScheduleTypes', OnceInv, RecordInv, NEW job \in A!Jobs, carried' = [carried EXCEPT ![job] = @ + 1],
         recorded' = recorded, lost' = lost, mishaps' >= mishaps, A!Cancelled' = A!Cancelled, Late' = Late,
         \A j \in A!Jobs : Taken(j) => Taken(j)',
         job \notin A!Manual => ~Taken(job) /\ Taken(job)',
         ~A!Unfinished(job),
         \A j \in A!Jobs : A!Unfinished(j)' <=> A!Unfinished(j) \/ j = job
  PROVE  OnceInv' /\ RecordInv'
<1>1. IsFiniteSet(Late)
  BY FS_Difference DEF OnceInv, Late
<1>2. Cardinality(Late) \in Nat
  BY <1>1, FS_CardinalityType
<1>3. mishaps \in Nat /\ mishaps' \in Nat /\ \A j \in A!Jobs : carried[j] \in Nat /\ recorded[j] \in Nat
  BY DEF ScheduleTypes
<1>4. \A j \in A!Jobs : carried'[j] = IF j = job THEN carried[j] + 1 ELSE carried[j]
  BY DEF ScheduleTypes
<1>5. ASSUME NEW j \in A!Jobs \ A!Manual
      PROVE  carried'[j] <= (IF Taken(j)' THEN 1 ELSE 0) + mishaps' + Cardinality(Late)
  <2> DEFINE a == Cardinality(Late)
             x == IF Taken(j) THEN 1 ELSE 0
             y == IF Taken(j)' THEN 1 ELSE 0
  <2>1. a \in Nat /\ carried[j] <= x + mishaps + a
    BY <1>2 DEF OnceInv, Late
  <2>2. x \in {0, 1} /\ y \in {0, 1} /\ x <= y /\ (j = job => x = 0 /\ y = 1)
    OBVIOUS
  <2> HIDE DEF a, x, y
  <2>3. carried'[j] <= y + mishaps' + a
    BY <1>3, <1>4, <2>1, <2>2
  <2> QED BY <2>3 DEF a, y
<1>6. OnceInv'
  BY <1>5 DEF OnceInv, Late
<1>7. ASSUME NEW j \in A!Jobs
      PROVE  /\ j \notin lost => carried'[j] = recorded[j] + (IF A!Unfinished(j)' THEN 1 ELSE 0)
             /\ j \in lost => j \in A!Manual \/ mishaps' > 0 \/ A!Cancelled # {}
  <2>1. j \notin lost => carried[j] = recorded[j] + (IF A!Unfinished(j) THEN 1 ELSE 0)
    BY DEF RecordInv
  <2>2. j \in lost => j \in A!Manual \/ mishaps > 0 \/ A!Cancelled # {}
    BY DEF RecordInv
  <2> DEFINE x == A!Unfinished(j)
             y == A!Unfinished(j)'
  <2>3. (y <=> x \/ j = job) /\ (j = job => ~x)
    OBVIOUS
  <2> HIDE DEF x, y
  <2>4. j \notin lost => carried[j] = recorded[j] + (IF x THEN 1 ELSE 0)
    BY <2>1 DEF x
  <2>5. j \notin lost => carried'[j] = recorded[j] + (IF y THEN 1 ELSE 0)
    BY <2>3, <2>4, <1>3, <1>4
  <2> QED BY <2>2, <2>5, <1>3 DEF y
<1> QED BY <1>6, <1>7 DEF RecordInv

-----------------------------------------------------------------------------
(* Steps that leave the tick alone.                                        *)

\* What becomes of events beside the tick.
Beside(e) ==
  \/ events'[e].state = events[e].state
  \/ events[e].state = "none" /\ events'[e].state = "pending"
  \/ ~tick.locked /\ events[e].state = "pending" /\ events'[e].state = "cancelled"

\* A step that leaves the tick and the marks alone keeps what is said of them.
LEMMA TickRests ==
  ASSUME ScheduleTypes, DraftInv, TodoInv, tick' = tick, marks' = marks, \A e \in Events : Beside(e)
  PROVE  /\ DraftInv' /\ TodoInv'
         /\ \A j : Taken(j)' <=> Taken(j)
         /\ A!Cancelled \subseteq A!Cancelled'
<1>1. \A e \in tick.draft.done : e \in Events /\ events[e].state = "pending" /\ tick.locked
  BY DEF ScheduleTypes, Ticks, Drafts, DraftInv
<1>2. \A e \in tick.draft.done : events'[e].state = "pending"
  BY <1>1 DEF Beside
<1>3. \A e \in Events : events'[e].state = "done" <=> events[e].state = "done"
  BY DEF Beside
<1>4. \A e \in Events : Over(e)' <=> Over(e)
  BY <1>3 DEF Over
<1>5. \A j : Taken(j)' <=> Taken(j)
  BY <1>4 DEF Taken
<1>6. DraftInv'
  BY <1>1, <1>2, <1>5 DEF DraftInv
<1>7. \A e \in Events : events[e].state \in {"pending", "cancelled"} =>
        events'[e].state \in {"pending", "cancelled"}
  BY DEF Beside
<1>8. TodoInv'
  <2>1. ASSUME tick.phase = "plans"
        PROVE  /\ tick.todo \subseteq Todos /\ tick.draft.done = {}
               /\ \A t \in tick.todo : /\ ~Taken(t.job)'
                                       /\ \A u \in tick.todo : u.job = t.job => u = t
    BY <2>1, <1>5 DEF TodoInv
  <2>2. ASSUME tick.phase = "events"
        PROVE  /\ tick.todo \subseteq Events
               /\ \A e \in tick.todo : e \notin tick.draft.done /\ events'[e].state \in {"pending", "cancelled"}
    BY <2>2, <1>7 DEF TodoInv
  <2> QED BY <2>1, <2>2 DEF TodoInv
<1>9. A!Cancelled \subseteq A!Cancelled'
  BY DEF A!Cancelled, Beside
<1> QED BY <1>5, <1>6, <1>8, <1>9

\* A step that leaves the events alone moves none of them beside the tick.
LEMMA EventsStay ==
  ASSUME events' = events
  PROVE  A!Cancelled' = A!Cancelled /\ \A e \in Events : Beside(e)
BY DEF A!Cancelled, Beside

\* Such a step that records, loses and carries out nothing either.
LEMMA NothingHappens ==
  ASSUME ScheduleInv, ScheduleTypes', events' = events, tick' = tick, marks' = marks, run' = run,
         recorded' = recorded, carried' = carried, lost' = lost, mishaps' = mishaps
  PROVE  ScheduleInv'
<1>1. ScheduleTypes /\ WorkInv /\ DraftInv /\ TodoInv /\ OnceInv /\ RecordInv
  BY DEF ScheduleInv
<1>2. A!Cancelled' = A!Cancelled /\ DraftInv' /\ TodoInv' /\ \A j : Taken(j)' <=> Taken(j)
  BY <1>1, EventsStay, TickRests
<1>3. Waiting' = Waiting /\ \A j : A!Unfinished(j)' <=> A!Unfinished(j)
  BY DEF Waiting, A!Unfinished
<1>4. OnceInv'
  BY <1>1, <1>2, <1>3 DEF OnceInv
<1>5. RecordInv'
  BY <1>1, <1>2, <1>3 DEF RecordInv
<1>6. WorkInv'
  BY <1>1 DEF WorkInv
<1> QED BY <1>2, <1>4, <1>5, <1>6 DEF ScheduleInv

LEMMA AskedTypes ==
  ASSUME A!ConstantsOK, ScheduleTypes, A!Change
  PROVE  asked' \in 0 .. MaxAsked /\ mishaps' = mishaps
BY DEF ScheduleTypes, A!Change, A!ConstantsOK

LEMMA MishapTypes ==
  ASSUME A!ConstantsOK, ScheduleTypes, A!Fault
  PROVE  mishaps' \in 0 .. MaxMishaps /\ asked' = asked /\ mishaps' = mishaps + 1 /\ mishaps \in Nat
BY DEF ScheduleTypes, A!Fault, A!ConstantsOK

-----------------------------------------------------------------------------
(* One lemma per action of the scheduler: the step keeps the invariant.    *)

LEMMA TimePassesStep ==
  ASSUME A!ConstantsOK, ScheduleInv, A!TimePasses
  PROVE  ScheduleInv'
<1>1. ScheduleTypes
  BY DEF ScheduleInv
<1>2. /\ clock' = clock + 1 /\ clock < MaxClock
      /\ UNCHANGED <<plans, marks, events, recorded, carried, lost, tick, run, server, asked, mishaps>>
  BY DEF A!TimePasses, A!database, A!history, A!bounds
<1>3. clock' \in A!Minutes
  BY <1>1, <1>2 DEF ScheduleTypes, A!Minutes, A!ConstantsOK
<1>4. ScheduleTypes'
  BY <1>1, <1>2, <1>3 DEF ScheduleTypes, A!Cancelled
<1> QED BY <1>2, <1>4, NothingHappens

LEMMA ServerChangesStep ==
  ASSUME A!ConstantsOK, ScheduleInv, A!ServerChanges
  PROVE  ScheduleInv'
<1>1. ScheduleTypes
  BY DEF ScheduleInv
<1>2. /\ server' \in A!Servers /\ A!Change
      /\ UNCHANGED <<clock, plans, marks, events, recorded, carried, lost, tick, run>>
  BY DEF A!ServerChanges, A!database, A!history
<1>3. ScheduleTypes'
  BY <1>1, <1>2, AskedTypes DEF ScheduleTypes
<1> QED BY <1>1, <1>2, <1>3, AskedTypes, NothingHappens

LEMMA SavePlanStep ==
  ASSUME A!ConstantsOK, ScheduleInv, NEW p \in Profiles, NEW plan \in A!Plans, A!SavePlan(p, plan)
  PROVE  ScheduleInv'
<1>1. ScheduleTypes
  BY DEF ScheduleInv
<1>2. /\ plans' = [plans EXCEPT ![p] = plan] /\ A!Change
      /\ UNCHANGED <<clock, marks, events, recorded, carried, lost, tick, run, server>>
  BY DEF A!SavePlan, A!history
<1>3. plans' \in [Profiles -> A!Plans]
  BY <1>1, <1>2 DEF ScheduleTypes
<1>4. ScheduleTypes'
  BY <1>1, <1>2, <1>3, AskedTypes DEF ScheduleTypes
<1> QED BY <1>1, <1>2, <1>4, AskedTypes, NothingHappens

\* Events change beside a tick that holds nothing.
LEMMA CancelEventStep ==
  ASSUME A!ConstantsOK, ScheduleInv, NEW e \in Events, A!CancelEvent(e)
  PROVE  ScheduleInv'
<1>1. ScheduleTypes /\ WorkInv /\ DraftInv /\ TodoInv /\ OnceInv /\ RecordInv
  BY DEF ScheduleInv
<1>2. /\ ~tick.locked /\ A!Change /\ events[e].state = "pending"
      /\ events' = [events EXCEPT ![e].state = "cancelled"]
      /\ UNCHANGED <<clock, plans, marks, recorded, carried, lost, tick, run, server>>
  BY DEF A!CancelEvent, A!history, A!Busy
<1>3. /\ events[e] \in EventRows /\ [events[e] EXCEPT !.state = "cancelled"] \in EventRows
      /\ [events[e] EXCEPT !.state = "cancelled"].state = "cancelled"
  BY <1>1 DEF ScheduleTypes, EventRows
<1>4. /\ events' \in [Events -> EventRows] /\ events'[e].state = "cancelled"
      /\ \A d \in Events : d # e => events'[d] = events[d]
  BY <1>1, <1>2, <1>3 DEF ScheduleTypes
<1>5. ScheduleTypes'
  BY <1>1, <1>2, <1>4, AskedTypes DEF ScheduleTypes
<1>6. \A d \in Events : Beside(d)
  BY <1>2, <1>4 DEF Beside
<1>7. DraftInv' /\ TodoInv' /\ (\A j : Taken(j)' <=> Taken(j)) /\ A!Cancelled \subseteq A!Cancelled'
  BY <1>1, <1>2, <1>6, TickRests
<1>8. A!Cancelled' = A!Cancelled \union {e}
  BY <1>4 DEF A!Cancelled
<1>9. IsFiniteSet(A!Cancelled')
  BY <1>1, <1>8, FS_AddElement DEF OnceInv
<1>10. Waiting' = Waiting /\ Late \subseteq Late'
  BY <1>2, <1>7 DEF Waiting, Late
<1>11. Cardinality(Late') >= Cardinality(Late)
  <2>1. IsFiniteSet(Late')
    BY <1>9, FS_Difference DEF Late
  <2>2. Cardinality(Late) <= Cardinality(Late') /\ IsFiniteSet(Late)
    BY <2>1, <1>10, FS_Subset
  <2> QED BY <2>1, <2>2, FS_CardinalityType
<1>12. \A j : A!Unfinished(j)' <=> A!Unfinished(j)
  BY <1>2 DEF A!Unfinished
<1>13. mishaps' >= mishaps /\ lost' = lost /\ carried' = carried /\ recorded' = recorded
  BY <1>1, <1>2, AskedTypes DEF ScheduleTypes
<1>14. OnceInv' /\ RecordInv'
  BY <1>1, <1>5, <1>7, <1>9, <1>11, <1>12, <1>13, Moves
<1>15. WorkInv'
  BY <1>1, <1>2 DEF WorkInv
<1> QED BY <1>5, <1>7, <1>14, <1>15 DEF ScheduleInv

LEMMA CreateEventStep ==
  ASSUME A!ConstantsOK, ScheduleInv, NEW e \in Events, NEW p \in Profiles, NEW at \in Times, NEW b \in Archives,
         A!CreateEvent(e, p, at, b)
  PROVE  ScheduleInv'
<1>1. ScheduleTypes /\ WorkInv /\ DraftInv /\ TodoInv /\ OnceInv /\ RecordInv
  BY DEF ScheduleInv
<1> DEFINE row == [state |-> "pending", of |-> p, at |-> at, backup |-> b]
<1>2. /\ events[e].state = "none" /\ events' = [events EXCEPT ![e] = row]
      /\ UNCHANGED <<clock, plans, marks, recorded, carried, lost, tick, run, server, asked, mishaps>>
  BY DEF A!CreateEvent, A!history, A!bounds
<1>3. row \in EventRows /\ row.state = "pending"
  BY DEF EventRows, A!ConstantsOK
<1> HIDE DEF row
<1>4. /\ events' \in [Events -> EventRows] /\ events'[e].state = "pending"
      /\ \A d \in Events : d # e => events'[d] = events[d]
  BY <1>1, <1>2, <1>3 DEF ScheduleTypes
<1>5. ScheduleTypes'
  BY <1>1, <1>2, <1>4 DEF ScheduleTypes
<1>6. \A d \in Events : Beside(d)
  BY <1>2, <1>4 DEF Beside
<1>7. DraftInv' /\ TodoInv' /\ (\A j : Taken(j)' <=> Taken(j)) /\ A!Cancelled \subseteq A!Cancelled'
  BY <1>1, <1>2, <1>6, TickRests
<1>8. A!Cancelled' = A!Cancelled
  BY <1>2, <1>4 DEF A!Cancelled
<1>9. Waiting' = Waiting /\ \A j : A!Unfinished(j)' <=> A!Unfinished(j)
  BY <1>2 DEF Waiting, A!Unfinished
<1>10. OnceInv'
  BY <1>1, <1>2, <1>7, <1>8, <1>9 DEF OnceInv
<1>11. RecordInv'
  BY <1>1, <1>2, <1>7, <1>8, <1>9 DEF RecordInv
<1>12. WorkInv'
  BY <1>1, <1>2 DEF WorkInv
<1> QED BY <1>5, <1>7, <1>10, <1>11, <1>12 DEF ScheduleInv

-----------------------------------------------------------------------------
(* A plan that is run now.                                                 *)

LEMMA WorkBegins ==
  ASSUME NEW job \in A!Jobs, NEW p \in Profiles \union {"nobody"}, NEW b \in BOOLEAN
  PROVE  /\ A!Starting(job, p) \in Works /\ A!Starting(job, p).job = job /\ A!Starting(job, p).pc # "none"
         /\ A!Starting(job, p).of = p
         /\ \A w \in A!Maintaining(job, p, b) : w \in Works /\ w.job = job /\ w.pc \in {"record", "save"}
BY DEF A!Starting, A!Maintaining, A!Work, Works, Steps

LEMMA WorkGoesOn ==
  ASSUME ScheduleTypes, NEW work \in Works, work.pc \in {"start", "save", "archive", "stop"},
         work.pc = "start" => work.of \in Profiles, NEW outcome \in A!Outcomes(work)
  PROVE  outcome.pc \in Steps /\ outcome.server \in A!Servers
<1>1. server \in A!Servers /\ [server EXCEPT !.state = "stopped"] \in A!Servers
  BY DEF ScheduleTypes, A!Servers
<1>2. CASE work.pc = "start"
  BY <1>1, <1>2 DEF A!Outcomes, A!To, Steps, A!Servers
<1>3. CASE work.pc = "save"
  BY <1>1, <1>3 DEF A!Outcomes, A!To, Steps
<1>4. CASE work.pc = "archive"
  BY <1>1, <1>4 DEF A!Outcomes, A!To, Steps
<1>5. CASE work.pc = "stop"
  BY <1>1, <1>5 DEF A!Outcomes, A!To, Steps
<1> QED BY <1>2, <1>3, <1>4, <1>5

LEMMA RunNowStep ==
  ASSUME A!ConstantsOK, ScheduleInv, NEW job \in A!Manual, A!RunNow(job)
  PROVE  ScheduleInv'
<1>1. ScheduleTypes /\ WorkInv /\ DraftInv /\ TodoInv /\ OnceInv /\ RecordInv
  BY DEF ScheduleInv
<1>2. /\ run = A!NoWork /\ A!Change /\ carried' = [carried EXCEPT ![job] = @ + 1]
      /\ UNCHANGED <<clock, plans, marks, events, recorded, lost, tick, server>>
  BY DEF A!RunNow, A!Counted, A!database
<1>3. job \in A!Jobs /\ job.of \in Profiles /\ plans[job.of].backup \in BOOLEAN
  BY <1>1, ManualJobs DEF ScheduleTypes, A!Plans
<1>4. /\ run' \in Works /\ run'.job = job /\ run'.pc # "none"
      /\ run'.pc = "start" => run'.of \in Profiles
  <2> DEFINE b == plans[job.of].backup
  <2>1. /\ A!Starting(job, job.of) \in Works /\ A!Starting(job, job.of).job = job
        /\ A!Starting(job, job.of).pc # "none" /\ A!Starting(job, job.of).of = job.of
    BY <1>3, WorkBegins
  <2>2. \A w \in A!Maintaining(job, job.of, b) : w \in Works /\ w.job = job /\ w.pc \in {"record", "save"}
    BY <1>3, WorkBegins
  <2>3. run' = A!Starting(job, job.of) \/ run' \in A!Maintaining(job, job.of, b)
    BY DEF A!RunNow
  <2> QED BY <1>3, <2>1, <2>2, <2>3
<1>5. carried' \in [A!Jobs -> Nat]
  <2>1. carried \in [A!Jobs -> Nat]
    BY <1>1 DEF ScheduleTypes
  <2> QED BY <1>2, <1>3, <2>1
<1>6. ScheduleTypes'
  BY <1>1, <1>2, <1>4, <1>5, AskedTypes DEF ScheduleTypes
<1>7. A!Cancelled' = A!Cancelled /\ DraftInv' /\ TodoInv' /\ \A j : Taken(j)' <=> Taken(j)
  BY <1>1, <1>2, EventsStay, TickRests
<1>8. Late' = Late
  BY <1>2, <1>7 DEF Late, Waiting
<1>9. A!NoJob \notin A!Jobs
  BY JobKinds
<1>10. ~A!Unfinished(job)
  <2>1. run.job = A!NoJob /\ job # A!NoJob
    BY <1>2, <1>3, <1>9 DEF A!NoWork
  <2>2. tick.work.job # job
    BY <1>1, <1>3, <1>9 DEF A!NoWork, WorkInv
  <2> QED BY <1>1, <2>1, <2>2 DEF A!Unfinished, DraftInv
<1>11. \A j \in A!Jobs : A!Unfinished(j)' <=> A!Unfinished(j) \/ j = job
  BY <1>2, <1>4, <1>9 DEF A!Unfinished, A!NoWork
<1>12. mishaps' >= mishaps
  BY <1>1, <1>2, AskedTypes, LateCounts
<1>13. OnceInv' /\ RecordInv'
  BY <1>1, <1>2, <1>3, <1>6, <1>7, <1>8, <1>10, <1>11, <1>12, Carries
<1>14. WorkInv'
  BY <1>1, <1>2, <1>4 DEF WorkInv
<1> QED BY <1>6, <1>7, <1>13, <1>14 DEF ScheduleInv

LEMMA RunWorksStep ==
  ASSUME A!ConstantsOK, ScheduleInv, A!RunWorks
  PROVE  ScheduleInv'
<1>1. ScheduleTypes /\ WorkInv /\ DraftInv /\ TodoInv /\ OnceInv /\ RecordInv
  BY DEF ScheduleInv
<1>2. PICK outcome \in A!Outcomes(run) :
        /\ server' = outcome.server
        /\ IF A!Busy /\ (outcome.pc = "archive" \/ run.pc = "archive")
           THEN run' = A!NoWork /\ lost' = lost \union {run.job}
           ELSE run' = [run EXCEPT !.pc = outcome.pc] /\ UNCHANGED lost
  BY DEF A!RunWorks
<1>3. /\ run.pc \in {"start", "save", "archive", "stop"}
      /\ UNCHANGED <<clock, plans, marks, events, recorded, carried, tick, asked, mishaps>>
  BY DEF A!RunWorks, A!database, A!bounds
<1>4. run \in Works /\ run.job \in A!Manual /\ run.job \in A!Jobs /\ (run.pc = "start" => run.of \in Profiles)
  <2>1. run \in Works /\ run # A!NoWork
    BY <1>1, <1>3 DEF ScheduleTypes, A!NoWork
  <2> QED BY <1>1, <2>1, ManualJobs DEF WorkInv
<1>5. outcome.pc \in Steps /\ outcome.server \in A!Servers
  BY <1>1, <1>3, <1>4, WorkGoesOn
<1>6. A!Cancelled' = A!Cancelled /\ DraftInv' /\ TodoInv' /\ \A j : Taken(j)' <=> Taken(j)
  BY <1>1, <1>3, EventsStay, TickRests
<1>7. Late' = Late
  BY <1>3, <1>6 DEF Late, Waiting
<1>8. IsFiniteSet(A!Cancelled') /\ Cardinality(Late) \in Nat /\ mishaps' = mishaps /\ mishaps \in Nat
  BY <1>1, <1>3, <1>6, LateCounts
<1>9. A!NoJob \notin A!Jobs
  BY JobKinds
<1>10. CASE run' = [run EXCEPT !.pc = outcome.pc] /\ UNCHANGED lost
  <2>1. run' \in Works /\ run'.job = run.job /\ run'.pc = outcome.pc /\ run'.of = run.of
    BY <1>4, <1>5, <1>10 DEF Works
  <2>2. run'.pc # "start"
    BY <1>2, <1>3, <1>4, <2>1 DEF A!Outcomes, A!To
  <2>3. ScheduleTypes'
    BY <1>1, <1>2, <1>3, <1>5, <1>10, <2>1 DEF ScheduleTypes
  <2>4. \A j : A!Unfinished(j)' <=> A!Unfinished(j)
    BY <1>3, <2>1 DEF A!Unfinished
  <2>5. OnceInv' /\ RecordInv'
    BY <1>1, <1>3, <1>6, <1>7, <1>8, <1>10, <2>3, <2>4, Moves
  <2>6. run'.pc # "none"
    BY <1>5, <2>1 DEF Steps
  <2>7. WorkInv'
    BY <1>1, <1>3, <1>4, <2>1, <2>2, <2>6 DEF WorkInv
  <2> QED BY <1>6, <2>3, <2>5, <2>7 DEF ScheduleInv
<1>11. CASE run' = A!NoWork /\ lost' = lost \union {run.job}
  <2>1. run' \in Works /\ run'.job = A!NoJob /\ run'.pc = "none"
    BY <1>11 DEF Works, A!NoWork
  <2>2. ScheduleTypes'
    BY <1>1, <1>2, <1>3, <1>4, <1>5, <1>11, <2>1 DEF ScheduleTypes
  <2>3. \A j \in A!Jobs : j \notin lost' => (A!Unfinished(j)' <=> A!Unfinished(j))
    BY <1>3, <1>9, <1>11, <2>1 DEF A!Unfinished
  <2>4. OnceInv' /\ RecordInv'
    BY <1>1, <1>3, <1>4, <1>6, <1>7, <1>8, <1>11, <2>2, <2>3, Moves
  <2>5. WorkInv'
    BY <1>1, <1>3, <1>11, <2>1 DEF WorkInv
  <2> QED BY <1>6, <2>2, <2>4, <2>5 DEF ScheduleInv
<1> QED BY <1>2, <1>10, <1>11

LEMMA RunRecordsStep ==
  ASSUME A!ConstantsOK, ScheduleInv, A!RunRecords
  PROVE  ScheduleInv'
<1>1. ScheduleTypes /\ WorkInv /\ DraftInv /\ TodoInv /\ OnceInv /\ RecordInv
  BY DEF ScheduleInv
<1>2. /\ run.pc = "record" /\ run' = A!NoWork
      /\ UNCHANGED <<clock, plans, marks, events, carried, tick, server, asked, mishaps>>
  BY DEF A!RunRecords, A!bounds
<1>3. \/ lost' = lost \union {run.job} /\ recorded' = recorded
      \/ lost' = lost /\ recorded' = [recorded EXCEPT ![run.job] = @ + 1]
  BY DEF A!RunRecords
<1>4. run.job \in A!Manual /\ run.job \in A!Jobs
  BY <1>1, <1>2, ManualJobs DEF WorkInv, A!NoWork
<1>5. run' \in Works /\ run'.job = A!NoJob /\ run'.pc = "none"
  BY <1>2 DEF Works, A!NoWork
<1>6. recorded' \in [A!Jobs -> Nat] /\ lost' \subseteq A!Jobs
  BY <1>1, <1>3, <1>4 DEF ScheduleTypes
<1>7. ScheduleTypes'
  BY <1>1, <1>2, <1>5, <1>6 DEF ScheduleTypes
<1>8. A!Cancelled' = A!Cancelled /\ DraftInv' /\ TodoInv' /\ \A j : Taken(j)' <=> Taken(j)
  BY <1>1, <1>2, EventsStay, TickRests
<1>9. Late' = Late
  BY <1>2, <1>8 DEF Late, Waiting
<1>10. IsFiniteSet(A!Cancelled') /\ Cardinality(Late) \in Nat /\ mishaps' = mishaps /\ mishaps \in Nat
  BY <1>1, <1>2, <1>8, LateCounts
<1>11. A!NoJob \notin A!Jobs
  BY JobKinds
<1>12. run.job \notin tick.draft.records /\ run.job # tick.work.job
  BY <1>1, <1>4, <1>11 DEF DraftInv, WorkInv, A!NoWork
<1>13. \A j \in A!Jobs : /\ j # run.job => (A!Unfinished(j)' <=> A!Unfinished(j))
                       /\ j = run.job => A!Unfinished(j) /\ ~A!Unfinished(j)'
  BY <1>2, <1>4, <1>5, <1>11, <1>12 DEF A!Unfinished
<1>14. \A j \in A!Jobs : j \notin lost' =>
         recorded'[j] + (IF A!Unfinished(j)' THEN 1 ELSE 0) = recorded[j] + (IF A!Unfinished(j) THEN 1 ELSE 0)
  <2> SUFFICES ASSUME NEW j \in A!Jobs, j \notin lost'
               PROVE recorded'[j] + (IF A!Unfinished(j)' THEN 1 ELSE 0) = recorded[j] + (IF A!Unfinished(j) THEN 1 ELSE 0)
    OBVIOUS
  <2>1. recorded[j] \in Nat
    BY <1>1 DEF ScheduleTypes
  <2>2. CASE j = run.job
    <3>1. recorded'[j] = recorded[j] + 1
      BY <1>1, <1>3, <1>4, <2>2 DEF ScheduleTypes
    <3> QED BY <1>13, <2>1, <2>2, <3>1
  <2>3. CASE j # run.job
    <3>1. recorded'[j] = recorded[j]
      BY <1>1, <1>3, <1>4, <2>3 DEF ScheduleTypes
    <3>2. A!Unfinished(j)' <=> A!Unfinished(j)
      BY <1>2, <1>4, <1>5, <1>11, <1>12, <2>3 DEF A!Unfinished
    <3> QED BY <2>1, <3>1, <3>2
  <2> QED BY <2>2, <2>3
<1>15. \A j \in A!Jobs : j \in lost' /\ j \notin lost => j \in A!Manual
  BY <1>3, <1>4
<1>16. lost \subseteq lost' /\ carried' = carried
  BY <1>2, <1>3
<1>17. OnceInv' /\ RecordInv'
  BY <1>1, <1>7, <1>8, <1>9, <1>10, <1>14, <1>15, <1>16, Moves
<1>18. WorkInv'
  BY <1>1, <1>2, <1>5 DEF WorkInv
<1> QED BY <1>7, <1>8, <1>17, <1>18 DEF ScheduleInv

-----------------------------------------------------------------------------
(* The tick.                                                               *)

\* The fields of a resting tick.
LEMMA IdleFields ==
  /\ A!Idle.work = A!NoWork /\ A!Idle.phase = "idle" /\ A!Idle.now = A!Never /\ A!Idle.todo = {}
  /\ A!Idle.draft = A!NoDraft /\ A!Idle.locked = FALSE
  /\ A!NoDraft.marks = {} /\ A!NoDraft.done = {} /\ A!NoDraft.records = {} /\ A!NoDraft \in Drafts
  /\ A!NoWork.pc = "none" /\ A!NoWork.job = A!NoJob /\ A!NoWork \in Works /\ A!Idle \in Ticks
BY DEF A!Idle, A!NoWork, A!NoDraft, Drafts, Works, Ticks

\* A tick whose session is rolled back, or that dies with the process.
LEMMA RollsBack ==
  ASSUME ScheduleInv, ScheduleTypes', tick' = A!Idle, marks' = marks, events' = events, recorded' = recorded,
         carried' = carried, NEW gone,
         \/ run' = run /\ gone = {tick.work.job}
         \/ run' = A!NoWork /\ gone = {tick.work.job, run.job},
         lost' = lost \union tick.draft.records \union (gone \ {A!NoJob}),
         mishaps' > mishaps \/ (mishaps' = mishaps /\ \E e \in Waiting : e \in A!Cancelled)
  PROVE  ScheduleInv'
<1>1. ScheduleTypes /\ WorkInv /\ DraftInv /\ TodoInv /\ OnceInv /\ RecordInv
  BY DEF ScheduleInv
<1>2. A!Cancelled' = A!Cancelled /\ Waiting' = {} /\ Late' = A!Cancelled
  BY IdleFields, EventsStay DEF Waiting, Late
<1>3. IsFiniteSet(A!Cancelled) /\ IsFiniteSet(Late) /\ Cardinality(Late) \in Nat /\ mishaps \in Nat
  BY <1>1, LateCounts
<1>4. Cardinality(A!Cancelled) \in Nat /\ Cardinality(Late) <= Cardinality(A!Cancelled)
  BY <1>3, FS_CardinalityType, FS_Subset DEF Late
<1>5. ASSUME NEW e \in Waiting, e \in A!Cancelled
      PROVE  Cardinality(Late) < Cardinality(A!Cancelled)
  <2>1. Late \subseteq A!Cancelled \ {e}
    BY <1>5 DEF Late
  <2>2. IsFiniteSet(A!Cancelled \ {e}) /\ Cardinality(A!Cancelled \ {e}) = Cardinality(A!Cancelled) - 1
    BY <1>3, <1>5, FS_RemoveElement
  <2>3. Cardinality(Late) <= Cardinality(A!Cancelled \ {e})
    BY <2>1, <2>2, FS_Subset
  <2> QED BY <1>3, <1>4, <2>2, <2>3
<1>6. mishaps' \in Nat /\ mishaps' >= mishaps /\ mishaps' + Cardinality(Late') > mishaps + Cardinality(Late)
  <2>1. mishaps' \in Nat
    BY DEF ScheduleTypes
  <2>2. CASE mishaps' > mishaps
    BY <1>2, <1>3, <1>4, <2>1, <2>2
  <2>3. CASE mishaps' = mishaps /\ \E e \in Waiting : e \in A!Cancelled
    <3>1. Cardinality(Late) < Cardinality(A!Cancelled)
      BY <1>5, <2>3
    <3> QED BY <1>2, <1>3, <1>4, <2>3, <3>1
  <2> QED BY <2>2, <2>3
<1>7. \A j \in A!Jobs : j \in lost' /\ j \notin lost => j \in A!Manual \/ mishaps' > 0 \/ A!Cancelled' # {}
  BY <1>2, <1>3, <1>6
<1>8. tick'.draft.records = {} /\ tick'.draft.done = {} /\ tick'.work = A!NoWork /\ tick'.work.job = A!NoJob
  BY IdleFields
<1>9. A!NoJob \notin A!Jobs
  BY JobKinds
<1>10. \A j \in A!Jobs : j \notin lost' => (A!Unfinished(j)' <=> A!Unfinished(j))
  BY <1>8, <1>9, IdleFields DEF A!Unfinished
<1>11. lost \subseteq lost'
  OBVIOUS
<1>12. OnceInv' /\ RecordInv'
  BY <1>1, <1>2, <1>3, <1>6, <1>7, <1>10, <1>11, Moves
<1>13. WorkInv'
  BY <1>1, IdleFields DEF WorkInv
<1>14. DraftInv' /\ TodoInv'
  BY <1>8, IdleFields DEF DraftInv, TodoInv
<1> QED BY <1>12, <1>13, <1>14 DEF ScheduleInv

\* What is lost is a set of jobs.
LEMMA LostJobs ==
  ASSUME ScheduleTypes
  PROVE  /\ tick.draft.records \subseteq A!Jobs
         /\ {tick.work.job, run.job} \ {A!NoJob} \subseteq A!Jobs
BY DEF ScheduleTypes, Ticks, Drafts, Works

LEMMA TickMeetsCancelledStep ==
  ASSUME A!ConstantsOK, ScheduleInv, NEW e \in Events, A!TickMeetsCancelled(e)
  PROVE  ScheduleInv'
<1>1. ScheduleTypes /\ TodoInv
  BY DEF ScheduleInv
<1>2. /\ tick' = A!Idle /\ lost' = lost \union tick.draft.records \union ({tick.work.job} \ {A!NoJob})
      /\ UNCHANGED <<clock, plans, marks, events, recorded, carried, run, server, asked, mishaps>>
  BY DEF A!TickMeetsCancelled, A!RolledBack, A!database, A!bounds
<1>3. e \in Waiting /\ e \in A!Cancelled
  BY DEF A!TickMeetsCancelled, Waiting, A!Cancelled
<1>4. lost' \subseteq A!Jobs /\ tick' \in Ticks
  BY <1>1, <1>2, LostJobs, IdleFields DEF ScheduleTypes
<1>5. ScheduleTypes'
  BY <1>1, <1>2, <1>4 DEF ScheduleTypes
<1> QED BY <1>2, <1>3, <1>5, RollsBack

LEMMA TickFailsStep ==
  ASSUME A!ConstantsOK, ScheduleInv, A!TickFails
  PROVE  ScheduleInv'
<1>1. ScheduleTypes
  BY DEF ScheduleInv
<1>2. /\ tick' = A!Idle /\ lost' = lost \union tick.draft.records \union ({tick.work.job} \ {A!NoJob})
      /\ A!Fault /\ UNCHANGED <<clock, plans, marks, events, recorded, carried, run, server>>
  BY DEF A!TickFails, A!RolledBack, A!database
<1>3. lost' \subseteq A!Jobs /\ tick' \in Ticks
  BY <1>1, <1>2, LostJobs, IdleFields DEF ScheduleTypes
<1>4. mishaps' \in 0 .. MaxMishaps /\ asked' = asked /\ mishaps' > mishaps
  BY <1>1, <1>2, MishapTypes
<1>5. ScheduleTypes'
  BY <1>1, <1>2, <1>3, <1>4 DEF ScheduleTypes
<1> QED BY <1>2, <1>4, <1>5, RollsBack

LEMMA ScheduleCrashStep ==
  ASSUME A!ConstantsOK, ScheduleInv, A!Crash
  PROVE  ScheduleInv'
<1>1. ScheduleTypes
  BY DEF ScheduleInv
<1>2. /\ tick' = A!Idle /\ lost' = lost \union tick.draft.records \union ({tick.work.job, run.job} \ {A!NoJob})
      /\ run' = A!NoWork /\ server' = [server EXCEPT !.state = "stopped"]
      /\ A!Fault /\ UNCHANGED <<clock, plans, marks, events, recorded, carried>>
  BY DEF A!Crash, A!database
<1>3. lost' \subseteq A!Jobs /\ tick' \in Ticks /\ run' \in Works
  BY <1>1, <1>2, LostJobs, IdleFields DEF ScheduleTypes
<1>4. mishaps' \in 0 .. MaxMishaps /\ asked' = asked /\ mishaps' > mishaps
  BY <1>1, <1>2, MishapTypes
<1>5. server' \in A!Servers
  BY <1>1, <1>2 DEF ScheduleTypes, A!Servers
<1>6. ScheduleTypes'
  BY <1>1, <1>2, <1>3, <1>4, <1>5 DEF ScheduleTypes
<1> QED BY <1>2, <1>4, <1>6, RollsBack

\* What the tick has done becomes part of the database.
LEMMA CommitsKeep ==
  ASSUME ScheduleTypes, DraftInv, A!Commits(tick.draft), tick'.draft = A!NoDraft
  PROVE  /\ events' \in [Events -> EventRows] /\ marks' \subseteq A!Starts \union A!Stops
         /\ recorded' \in [A!Jobs -> Nat] /\ plans' = plans
         /\ \A e \in Events : events'[e].state = IF e \in tick.draft.done THEN "done" ELSE events[e].state
         /\ \A j \in A!Jobs : recorded'[j] = recorded[j] + IF j \in tick.draft.records THEN 1 ELSE 0
         /\ \A j : Taken(j)' <=> Taken(j)
         /\ A!Cancelled' = A!Cancelled
<1>1. /\ marks' = marks \union tick.draft.marks /\ plans' = plans
      /\ events' = [e \in Events |-> IF e \in tick.draft.done THEN [events[e] EXCEPT !.state = "done"]
                                     ELSE events[e]]
      /\ recorded' = [j \in A!Jobs |-> recorded[j] + IF j \in tick.draft.records THEN 1 ELSE 0]
  BY DEF A!Commits
<1>2. \A e \in Events : /\ events[e] \in EventRows /\ [events[e] EXCEPT !.state = "done"] \in EventRows
                        /\ [events[e] EXCEPT !.state = "done"].state = "done"
  BY DEF ScheduleTypes, EventRows
<1>3. events' \in [Events -> EventRows]
  BY <1>1, <1>2
<1>4. \A e \in Events : events'[e].state = IF e \in tick.draft.done THEN "done" ELSE events[e].state
  BY <1>1, <1>2
<1>5. marks' \subseteq A!Starts \union A!Stops
  BY <1>1 DEF ScheduleTypes, Ticks, Drafts
<1>6. recorded' \in [A!Jobs -> Nat]
  <2>1. \A j \in A!Jobs : recorded[j] \in Nat
    BY DEF ScheduleTypes
  <2> QED BY <1>1, <2>1
<1>7. \A e \in Events : Over(e)' <=> Over(e)
  BY <1>4, IdleFields DEF Over
<1>8. \A j : Taken(j)' <=> Taken(j)
  BY <1>1, <1>7, IdleFields DEF Taken
<1>9. A!Cancelled' = A!Cancelled
  BY <1>4 DEF A!Cancelled, DraftInv
<1> QED BY <1>1, <1>3, <1>4, <1>5, <1>6, <1>8, <1>9

\* What is unfinished and not of a run, and what is of a run.
LEMMA WhoseJobs ==
  ASSUME ScheduleTypes, WorkInv, DraftInv
  PROVE  /\ run.job \notin tick.draft.records
         /\ run.job \in A!Jobs => run.job # tick.work.job
         /\ tick.work.job \notin tick.draft.records
         /\ tick.work = A!NoWork => tick.work.job = A!NoJob
<1>1. tick.draft.records \subseteq A!Jobs /\ A!NoJob \notin A!Jobs
  BY JobKinds DEF ScheduleTypes, Ticks, Drafts
<1>2. run.job = A!NoJob \/ run.job \in A!Manual
  BY DEF WorkInv, A!NoWork
<1>3. tick.work.job = A!NoJob \/ tick.work.job \in A!Jobs \ A!Manual
  BY DEF WorkInv, A!NoWork
<1> QED BY <1>1, <1>2, <1>3, JobKinds, IdleFields DEF DraftInv

LEMMA TickCommitsStep ==
  ASSUME A!ConstantsOK, ScheduleInv, A!TickCommits
  PROVE  ScheduleInv'
<1>1. ScheduleTypes /\ WorkInv /\ DraftInv /\ TodoInv /\ OnceInv /\ RecordInv
  BY DEF ScheduleInv
<1>2. /\ tick.phase = "events" /\ tick.work = A!NoWork /\ tick.todo = {}
      /\ A!Commits(tick.draft) /\ tick' = A!Idle
      /\ UNCHANGED <<clock, carried, lost, run, server, asked, mishaps>>
  BY DEF A!TickCommits, A!history, A!bounds
<1>3. /\ events' \in [Events -> EventRows] /\ marks' \subseteq A!Starts \union A!Stops
      /\ recorded' \in [A!Jobs -> Nat] /\ plans' = plans
      /\ \A j \in A!Jobs : recorded'[j] = recorded[j] + IF j \in tick.draft.records THEN 1 ELSE 0
      /\ \A j : Taken(j)' <=> Taken(j)
      /\ A!Cancelled' = A!Cancelled
  BY <1>1, <1>2, IdleFields, CommitsKeep
<1>4. ScheduleTypes'
  BY <1>1, <1>2, <1>3, IdleFields DEF ScheduleTypes
<1>5. Late' = Late
  BY <1>2, <1>3, IdleFields DEF Late, Waiting
<1>6. IsFiniteSet(A!Cancelled') /\ Cardinality(Late) \in Nat /\ mishaps' = mishaps /\ mishaps \in Nat
  BY <1>1, <1>2, <1>3, LateCounts
<1>7. A!NoJob \notin A!Jobs
  BY JobKinds
<1>8. tick'.draft.records = {} /\ tick'.work.job = A!NoJob /\ tick.work.job = A!NoJob
  BY <1>2, IdleFields
<1>9. \A j \in A!Jobs :
        recorded'[j] + (IF A!Unfinished(j)' THEN 1 ELSE 0) = recorded[j] + (IF A!Unfinished(j) THEN 1 ELSE 0)
  <2> SUFFICES ASSUME NEW j \in A!Jobs
               PROVE recorded'[j] + (IF A!Unfinished(j)' THEN 1 ELSE 0) = recorded[j] + (IF A!Unfinished(j) THEN 1 ELSE 0)
    OBVIOUS
  <2>1. recorded[j] \in Nat
    BY <1>1 DEF ScheduleTypes
  <2>2. A!Unfinished(j)' <=> j = run.job
    BY <1>2, <1>7, <1>8 DEF A!Unfinished
  <2>3. A!Unfinished(j) <=> j = run.job \/ j \in tick.draft.records
    BY <1>7, <1>8 DEF A!Unfinished
  <2>4. ~(j = run.job /\ j \in tick.draft.records)
    BY <1>1, WhoseJobs
  <2> QED BY <1>3, <2>1, <2>2, <2>3, <2>4
<1>10. OnceInv' /\ RecordInv'
  BY <1>1, <1>2, <1>3, <1>4, <1>5, <1>6, <1>9, Moves
<1>11. WorkInv'
  BY <1>1, <1>2, IdleFields DEF WorkInv
<1>12. DraftInv' /\ TodoInv'
  BY <1>2, IdleFields DEF DraftInv, TodoInv
<1> QED BY <1>4, <1>10, <1>11, <1>12 DEF ScheduleInv

LEMMA TickBeginsStep ==
  ASSUME A!ConstantsOK, ScheduleInv, A!TickBegins
  PROVE  ScheduleInv'
<1>1. ScheduleTypes /\ WorkInv /\ DraftInv /\ TodoInv /\ OnceInv /\ RecordInv
  BY DEF ScheduleInv
<1>2. /\ tick = A!Idle /\ tick' = [A!Idle EXCEPT !.phase = "plans", !.now = clock, !.todo = A!Planned(clock)]
      /\ UNCHANGED <<clock, plans, marks, events, recorded, carried, lost, run, server, asked, mishaps>>
  BY <1>1 DEF A!TickBegins, WorkInv, A!database, A!history, A!bounds
<1>3. \A t \in A!Planned(clock) :
        /\ t \in Todos /\ t.job \notin marks
        /\ \A u \in A!Planned(clock) : u.job = t.job => u = t
  <2>1. \A j \in A!Starts \union A!Stops : j.of \in Profiles
    BY DEF A!Starts, A!Stops
  <2>2. \A p \in Profiles : plans[p].backup \in BOOLEAN
    BY <1>1 DEF ScheduleTypes, A!Plans
  <2>3. \A t \in A!Planned(clock) :
          \E j \in A!Starts \union A!Stops : t = [job |-> j, backup |-> plans[j.of].backup] /\ j \notin marks
    BY DEF A!Planned, A!Due
  <2>4. \A t \in A!Planned(clock) :
          \E j \in A!Starts \union A!Stops, b \in BOOLEAN :
            t = [job |-> j, backup |-> b] /\ b = plans[j.of].backup /\ j \notin marks
    BY <2>1, <2>2, <2>3
  <2>5. \A t \in A!Planned(clock) : t \in Todos /\ t.job \notin marks /\ t = [job |-> t.job, backup |-> plans[t.job.of].backup]
    BY <2>4 DEF Todos
  <2> QED BY <2>5
<1>4. /\ tick' \in Ticks /\ tick'.work = A!NoWork /\ tick'.phase = "plans" /\ tick'.draft = A!NoDraft
      /\ tick'.todo = A!Planned(clock)
  <2>1. clock \in A!Minutes /\ A!Planned(clock) \subseteq Todos
    BY <1>1, <1>3 DEF ScheduleTypes
  <2> QED BY <1>2, <2>1, IdleFields DEF Ticks
<1>5. ScheduleTypes'
  BY <1>1, <1>2, <1>4 DEF ScheduleTypes
<1>6. \A j : Taken(j)' <=> Taken(j)
  BY <1>2, <1>4, IdleFields DEF Taken, Over
<1>7. A!Cancelled' = A!Cancelled /\ Late' = Late
  BY <1>2, <1>4, EventsStay, IdleFields DEF Late, Waiting
<1>8. \A j : A!Unfinished(j)' <=> A!Unfinished(j)
  BY <1>2, <1>4, IdleFields DEF A!Unfinished
<1>9. IsFiniteSet(A!Cancelled') /\ Cardinality(Late) \in Nat /\ mishaps' = mishaps /\ mishaps \in Nat
  BY <1>1, <1>2, <1>7, LateCounts
<1>10. OnceInv' /\ RecordInv'
  BY <1>1, <1>2, <1>5, <1>6, <1>7, <1>8, <1>9, Moves
<1>11. WorkInv'
  BY <1>1, <1>2, <1>4, IdleFields DEF WorkInv
<1>12. DraftInv'
  BY <1>4, IdleFields DEF DraftInv
<1>13. \A t \in A!Planned(clock) : ~Taken(t.job)'
  <2>1. \A t \in A!Planned(clock) : t.job \in A!Starts \union A!Stops
    BY <1>3 DEF Todos
  <2> QED BY <1>2, <1>3, <1>4, <2>1, JobKinds, IdleFields DEF Taken
<1>14. TodoInv'
  BY <1>3, <1>4, <1>13, IdleFields DEF TodoInv
<1> QED BY <1>5, <1>10, <1>11, <1>12, <1>14 DEF ScheduleInv

LEMMA TickLooksForEventsStep ==
  ASSUME A!ConstantsOK, ScheduleInv, A!TickLooksForEvents
  PROVE  ScheduleInv'
<1>1. ScheduleTypes /\ WorkInv /\ DraftInv /\ TodoInv /\ OnceInv /\ RecordInv
  BY DEF ScheduleInv
<1> DEFINE due == {e \in Events : events[e].state = "pending" /\ events[e].at <= tick.now}
<1>2. /\ tick.phase = "plans" /\ tick.work = A!NoWork /\ tick' = [tick EXCEPT !.phase = "events", !.todo = due]
      /\ UNCHANGED <<clock, plans, marks, events, recorded, carried, lost, run, server, asked, mishaps>>
  BY DEF A!TickLooksForEvents, A!database, A!history, A!bounds
<1>3. /\ tick' \in Ticks /\ tick'.work = tick.work /\ tick'.phase = "events" /\ tick'.draft = tick.draft
      /\ tick'.todo = due /\ tick'.locked = tick.locked
  <2>1. tick \in Ticks
    BY <1>1 DEF ScheduleTypes
  <2> QED BY <1>2, <2>1 DEF Ticks
<1>4. ScheduleTypes'
  BY <1>1, <1>2, <1>3 DEF ScheduleTypes
<1>5. \A j : Taken(j)' <=> Taken(j)
  BY <1>2, <1>3 DEF Taken, Over
<1>6. A!Cancelled' = A!Cancelled /\ Late' = Late
  BY <1>2, <1>3, EventsStay DEF Late, Waiting, A!Cancelled
<1>7. \A j : A!Unfinished(j)' <=> A!Unfinished(j)
  BY <1>2, <1>3 DEF A!Unfinished
<1>8. IsFiniteSet(A!Cancelled') /\ Cardinality(Late) \in Nat /\ mishaps' = mishaps /\ mishaps \in Nat
  BY <1>1, <1>2, <1>6, LateCounts
<1>9. OnceInv' /\ RecordInv'
  BY <1>1, <1>2, <1>4, <1>5, <1>6, <1>7, <1>8, Moves
<1>10. WorkInv'
  BY <1>1, <1>2, <1>3 DEF WorkInv
<1>11. DraftInv'
  BY <1>1, <1>2, <1>3, <1>5 DEF DraftInv
<1>12. TodoInv'
  <2>1. tick.draft.done = {}
    BY <1>1, <1>2 DEF TodoInv
  <2> QED BY <1>2, <1>3, <2>1 DEF TodoInv
<1> QED BY <1>4, <1>9, <1>10, <1>11, <1>12 DEF ScheduleInv

LEMMA TickTakesPlanStep ==
  ASSUME A!ConstantsOK, ScheduleInv, NEW todo \in tick.todo, A!TickTakesPlan(todo)
  PROVE  ScheduleInv'
<1>1. ScheduleTypes /\ WorkInv /\ DraftInv /\ TodoInv /\ OnceInv /\ RecordInv
  BY DEF ScheduleInv
<1> DEFINE job == todo.job
<1>2. /\ tick.phase = "plans" /\ tick.work = A!NoWork /\ carried' = [carried EXCEPT ![job] = @ + 1]
      /\ UNCHANGED <<clock, plans, marks, events, recorded, lost, run, server, asked, mishaps>>
  BY DEF A!TickTakesPlan, A!Counted, A!database, A!bounds
<1>3. /\ todo \in Todos /\ job \in A!Starts \union A!Stops /\ job \in A!Jobs \ A!Manual /\ job.of \in Profiles
      /\ ~Taken(job) /\ tick.draft.done = {} /\ tick.todo \subseteq Todos
  <2>1. todo \in Todos /\ ~Taken(job) /\ tick.draft.done = {} /\ tick.todo \subseteq Todos
    BY <1>1, <1>2 DEF TodoInv
  <2>2. job \in A!Starts \union A!Stops
    BY <2>1 DEF Todos
  <2> QED BY <2>1, <2>2, JobKinds DEF A!Starts, A!Stops
<1>4. PICK work : /\ work \in IF job \in A!Starts THEN {A!Starting(job, job.of)}
                              ELSE A!Maintaining(job, job.of, todo.backup)
                  /\ tick' = [tick EXCEPT !.work = work, !.todo = @ \ {todo},
                                          !.draft.marks = @ \union {job}]
  BY DEF A!TickTakesPlan
<1>5. work \in Works /\ work.job = job /\ work.pc # "none" /\ (work.pc = "start" => work.of \in Profiles)
  <2>1. todo.backup \in BOOLEAN
    BY <1>3 DEF Todos
  <2>2. /\ A!Starting(job, job.of) \in Works /\ A!Starting(job, job.of).job = job
        /\ A!Starting(job, job.of).pc # "none" /\ A!Starting(job, job.of).of = job.of
    BY <1>3, <2>1, WorkBegins
  <2>3. \A w \in A!Maintaining(job, job.of, todo.backup) : w \in Works /\ w.job = job /\ w.pc \in {"record", "save"}
    BY <1>3, <2>1, WorkBegins
  <2> QED BY <1>3, <1>4, <2>2, <2>3
<1>6. /\ tick' \in Ticks /\ tick'.work = work /\ tick'.phase = "plans" /\ tick'.todo = tick.todo \ {todo}
      /\ tick'.locked = tick.locked
      /\ tick'.draft.marks = tick.draft.marks \union {job} /\ tick'.draft.done = tick.draft.done
      /\ tick'.draft.records = tick.draft.records
  <2> HIDE DEF job
  <2>1. tick \in Ticks
    BY <1>1 DEF ScheduleTypes
  <2>2. tick' = [tick EXCEPT !.work = work, !.todo = @ \ {todo}, !.draft.marks = @ \union {job}]
    BY <1>4
  <2> QED BY <1>2, <1>3, <1>5, <2>1, <2>2 DEF Ticks, Drafts
<1> HIDE DEF job
<1>7. carried' \in [A!Jobs -> Nat]
  <2>1. carried \in [A!Jobs -> Nat]
    BY <1>1 DEF ScheduleTypes
  <2> QED BY <1>2, <1>3, <2>1
<1>8. ScheduleTypes'
  BY <1>1, <1>2, <1>6, <1>7 DEF ScheduleTypes
<1>9. \A j : Taken(j)' <=> Taken(j) \/ j = job
  <2>1. \A e \in Events : Over(e)' <=> Over(e)
    BY <1>2, <1>6 DEF Over
  <2> QED BY <1>2, <1>6, <2>1 DEF Taken
<1>10. A!Cancelled' = A!Cancelled /\ Late' = Late
  BY <1>2, <1>6, EventsStay DEF Late, Waiting
<1>11. A!NoJob \notin A!Jobs
  BY JobKinds
<1>12. tick.work.job = A!NoJob
  BY <1>2, IdleFields
<1>13. run.job \notin A!Jobs \ A!Manual
  BY <1>1, JobKinds, IdleFields DEF WorkInv
<1>14. ~A!Unfinished(job)
  BY <1>1, <1>3, <1>11, <1>12, <1>13 DEF A!Unfinished, DraftInv
<1>15. \A j \in A!Jobs : A!Unfinished(j)' <=> A!Unfinished(j) \/ j = job
  BY <1>2, <1>5, <1>6, <1>11, <1>12 DEF A!Unfinished
<1>16. mishaps' >= mishaps
  BY <1>1, <1>2, LateCounts
<1>17. OnceInv' /\ RecordInv'
  BY <1>1, <1>2, <1>3, <1>8, <1>9, <1>10, <1>14, <1>15, <1>16, Carries
<1>18. WorkInv'
  BY <1>1, <1>2, <1>3, <1>5, <1>6 DEF WorkInv
<1>19. DraftInv'
  <2>1. \A j \in tick.draft.records : Taken(j)' /\ j # job /\ j \notin A!Manual
    BY <1>1, <1>3, <1>9 DEF DraftInv
  <2> QED BY <1>3, <1>5, <1>6, <1>9, <2>1 DEF DraftInv
<1>20. TodoInv'
  <2>1. \A t \in tick.todo : /\ ~Taken(t.job) /\ \A u \in tick.todo : u.job = t.job => u = t
    BY <1>1, <1>2 DEF TodoInv
  <2>2. \A t \in tick.todo \ {todo} : t.job # job
    BY <2>1 DEF job
  <2> QED BY <1>3, <1>6, <1>9, <2>1, <2>2 DEF TodoInv
<1> QED BY <1>8, <1>17, <1>18, <1>19, <1>20 DEF ScheduleInv

LEMMA TickTakesEventStep ==
  ASSUME A!ConstantsOK, ScheduleInv, NEW e \in Events, A!TickTakesEvent(e)
  PROVE  ScheduleInv'
<1>1. ScheduleTypes /\ WorkInv /\ DraftInv /\ TodoInv /\ OnceInv /\ RecordInv
  BY DEF ScheduleInv
<1> DEFINE job == JobOf(e)
<1>2. /\ tick.phase = "events" /\ tick.work = A!NoWork /\ e \in tick.todo /\ events[e].state = "pending"
      /\ carried' = [carried EXCEPT ![job] = @ + 1]
      /\ UNCHANGED <<clock, plans, marks, events, recorded, lost, run, server, asked, mishaps>>
  BY DEF A!TickTakesEvent, A!Counted, A!database, A!bounds, JobOf
<1>3. PICK work \in A!Maintaining(job, events[e].of, events[e].backup) :
        tick' = [tick EXCEPT !.work = work, !.todo = @ \ {e}, !.draft.done = @ \union {e}, !.locked = TRUE]
  BY DEF A!TickTakesEvent, JobOf
<1>4. job \in A!Jobs \ A!Manual /\ job \notin A!Starts \union A!Stops /\ tick.todo \subseteq Events /\ e \notin tick.draft.done
  BY <1>1, <1>2, JobKinds DEF TodoInv
<1>5. work \in Works /\ work.job = job /\ work.pc \in {"record", "save"}
  <2>1. events[e].of \in Profiles \union {"nobody"} /\ events[e].backup \in BOOLEAN
    BY <1>1 DEF ScheduleTypes, EventRows
  <2> HIDE DEF job
  <2> QED BY <1>3, <1>4, <2>1, WorkBegins
<1>6. /\ tick' \in Ticks /\ tick'.work = work /\ tick'.phase = "events" /\ tick'.todo = tick.todo \ {e}
      /\ tick'.locked = TRUE
      /\ tick'.draft.marks = tick.draft.marks /\ tick'.draft.done = tick.draft.done \union {e}
      /\ tick'.draft.records = tick.draft.records
  <2>1. tick \in Ticks
    BY <1>1 DEF ScheduleTypes
  <2> QED BY <1>2, <1>3, <1>4, <1>5, <2>1 DEF Ticks, Drafts
<1>7. \A j : Taken(j)' <=> Taken(j) \/ j = job
  <2>1. \A d \in Events : Over(d)' <=> Over(d) \/ d = e
    BY <1>2, <1>6 DEF Over
  <2> QED BY <1>2, <1>6, <2>1 DEF Taken
<1>8. ~Taken(job)
  <2>1. ~Over(e)
    BY <1>2, <1>4 DEF Over
  <2>2. job \notin marks /\ job \notin tick.draft.marks
    BY <1>1, <1>4 DEF ScheduleTypes, Ticks, Drafts
  <2> QED BY <2>1, <2>2, JobKinds DEF Taken
<1> HIDE DEF job
<1>9. carried' \in [A!Jobs -> Nat]
  <2>1. carried \in [A!Jobs -> Nat]
    BY <1>1 DEF ScheduleTypes
  <2> QED BY <1>2, <1>4, <2>1
<1>10. ScheduleTypes'
  BY <1>1, <1>2, <1>6, <1>9 DEF ScheduleTypes
<1>11. A!Cancelled' = A!Cancelled /\ Late' = Late
  BY <1>2, <1>6, EventsStay DEF Late, Waiting, A!Cancelled
<1>12. A!NoJob \notin A!Jobs
  BY JobKinds
<1>13. tick.work.job = A!NoJob
  BY <1>2, IdleFields
<1>14. run.job \notin A!Jobs \ A!Manual
  BY <1>1, JobKinds, IdleFields DEF WorkInv
<1>15. ~A!Unfinished(job)
  BY <1>1, <1>4, <1>8, <1>12, <1>13, <1>14 DEF A!Unfinished, DraftInv
<1>16. \A j \in A!Jobs : A!Unfinished(j)' <=> A!Unfinished(j) \/ j = job
  BY <1>2, <1>5, <1>6, <1>12, <1>13 DEF A!Unfinished
<1>17. mishaps' >= mishaps
  BY <1>1, <1>2, LateCounts
<1>18. OnceInv' /\ RecordInv'
  BY <1>1, <1>2, <1>4, <1>7, <1>8, <1>10, <1>11, <1>15, <1>16, <1>17, Carries
<1>19. WorkInv'
  BY <1>1, <1>2, <1>4, <1>5, <1>6 DEF WorkInv
<1>20. DraftInv'
  <2>1. \A j \in tick.draft.records : Taken(j)' /\ j # job /\ j \notin A!Manual
    BY <1>1, <1>7, <1>8 DEF DraftInv
  <2> QED BY <1>1, <1>2, <1>5, <1>6, <1>7, <2>1 DEF DraftInv
<1>21. TodoInv'
  BY <1>1, <1>2, <1>6 DEF TodoInv
<1> QED BY <1>10, <1>18, <1>19, <1>20, <1>21 DEF ScheduleInv

LEMMA TickRecordsStep ==
  ASSUME A!ConstantsOK, ScheduleInv, A!TickRecords
  PROVE  ScheduleInv'
<1>1. ScheduleTypes /\ WorkInv /\ DraftInv /\ TodoInv /\ OnceInv /\ RecordInv
  BY DEF ScheduleInv
<1>2. /\ tick.work.pc = "record"
      /\ tick' = [tick EXCEPT !.work = A!NoWork, !.draft.records = @ \union {tick.work.job}, !.locked = TRUE]
      /\ UNCHANGED <<clock, plans, marks, events, recorded, carried, lost, run, server, asked, mishaps>>
  BY DEF A!TickRecords, A!database, A!history, A!bounds
<1>3. tick.work.job \in A!Jobs \ A!Manual /\ Taken(tick.work.job)
  BY <1>1, <1>2, IdleFields DEF WorkInv, DraftInv
<1>4. /\ tick' \in Ticks /\ tick'.work = A!NoWork /\ tick'.phase = tick.phase /\ tick'.todo = tick.todo
      /\ tick'.locked = TRUE
      /\ tick'.draft.marks = tick.draft.marks /\ tick'.draft.done = tick.draft.done
      /\ tick'.draft.records = tick.draft.records \union {tick.work.job}
  <2>1. tick \in Ticks
    BY <1>1 DEF ScheduleTypes
  <2> QED BY <1>2, <1>3, <2>1, IdleFields DEF Ticks, Drafts
<1>5. ScheduleTypes'
  BY <1>1, <1>2, <1>4 DEF ScheduleTypes
<1>6. \A j : Taken(j)' <=> Taken(j)
  BY <1>2, <1>4 DEF Taken, Over
<1>7. A!Cancelled' = A!Cancelled /\ Late' = Late
  BY <1>2, <1>4, EventsStay DEF Late, Waiting
<1>8. A!NoJob \notin A!Jobs
  BY JobKinds
<1>9. \A j \in A!Jobs : A!Unfinished(j)' <=> A!Unfinished(j)
  BY <1>2, <1>4, <1>8, IdleFields DEF A!Unfinished
<1>10. IsFiniteSet(A!Cancelled') /\ Cardinality(Late) \in Nat /\ mishaps' = mishaps /\ mishaps \in Nat
  BY <1>1, <1>2, <1>7, LateCounts
<1>11. OnceInv' /\ RecordInv'
  BY <1>1, <1>2, <1>5, <1>6, <1>7, <1>9, <1>10, Moves
<1>12. WorkInv'
  BY <1>1, <1>2, <1>4, IdleFields DEF WorkInv, A!Idle
<1>13. DraftInv'
  <2>1. \A j \in tick'.draft.records : Taken(j)' /\ j \in A!Jobs \ A!Manual
    BY <1>1, <1>3, <1>4, <1>6 DEF DraftInv, ScheduleTypes, Ticks, Drafts
  <2> QED BY <1>1, <1>2, <1>4, <1>8, <2>1, IdleFields DEF DraftInv
<1>14. TodoInv'
  BY <1>1, <1>2, <1>4, <1>6 DEF TodoInv
<1> QED BY <1>5, <1>11, <1>12, <1>13, <1>14 DEF ScheduleInv

LEMMA TickWorksStep ==
  ASSUME A!ConstantsOK, ScheduleInv, A!TickWorks
  PROVE  ScheduleInv'
<1>1. ScheduleTypes /\ WorkInv /\ DraftInv /\ TodoInv /\ OnceInv /\ RecordInv
  BY DEF ScheduleInv
<1>2. PICK outcome \in A!Outcomes(tick.work) :
        /\ server' = outcome.server
        /\ IF outcome.pc = "archive" \/ tick.work.pc = "archive"
           THEN /\ A!Commits(tick.draft)
                /\ tick' = [tick EXCEPT !.work.pc = outcome.pc, !.draft = A!NoDraft, !.locked = FALSE]
           ELSE tick' = [tick EXCEPT !.work.pc = outcome.pc] /\ UNCHANGED A!database
  BY DEF A!TickWorks
<1>3. /\ tick.work.pc \in {"start", "save", "archive", "stop"}
      /\ UNCHANGED <<clock, carried, lost, run, asked, mishaps>>
  BY DEF A!TickWorks, A!history, A!bounds
<1>4. /\ tick \in Ticks /\ tick.work \in Works /\ tick.work.job \in A!Jobs \ A!Manual /\ Taken(tick.work.job)
      /\ (tick.work.pc = "start" => tick.work.of \in Profiles) /\ tick.phase # "idle"
  <2>1. tick \in Ticks /\ tick.work \in Works /\ tick.work # A!NoWork
    BY <1>1, <1>3, IdleFields DEF ScheduleTypes, Ticks
  <2> QED BY <1>1, <2>1, IdleFields DEF WorkInv, DraftInv
<1>5. outcome.pc \in Steps /\ outcome.server \in A!Servers
  BY <1>1, <1>3, <1>4, WorkGoesOn
<1>6. outcome.pc # "start"
  BY <1>2, <1>3, <1>4 DEF A!Outcomes, A!To
<1>7. IsFiniteSet(A!Cancelled) /\ Cardinality(Late) \in Nat /\ mishaps \in Nat
  BY <1>1, LateCounts
<1>8. A!NoJob \notin A!Jobs
  BY JobKinds
<1>9. CASE tick' = [tick EXCEPT !.work.pc = outcome.pc] /\ UNCHANGED A!database
  <2>1. /\ tick' \in Ticks /\ tick'.work.pc = outcome.pc /\ tick'.work.job = tick.work.job
        /\ tick'.phase = tick.phase /\ tick'.todo = tick.todo /\ tick'.draft = tick.draft
        /\ tick'.locked = tick.locked
    BY <1>4, <1>5, <1>9 DEF Ticks, Works
  <2>2. UNCHANGED <<plans, marks, events, recorded>>
    BY <1>9 DEF A!database
  <2>3. ScheduleTypes'
    BY <1>1, <1>2, <1>3, <1>5, <2>1, <2>2 DEF ScheduleTypes
  <2>4. \A j : Taken(j)' <=> Taken(j)
    BY <2>1, <2>2 DEF Taken, Over
  <2>5. A!Cancelled' = A!Cancelled /\ Late' = Late
    BY <2>1, <2>2, EventsStay DEF Late, Waiting
  <2>6. \A j : A!Unfinished(j)' <=> A!Unfinished(j)
    BY <1>3, <2>1 DEF A!Unfinished
  <2>7. OnceInv' /\ RecordInv'
    BY <1>1, <1>3, <1>7, <2>2, <2>3, <2>4, <2>5, <2>6, Moves
  <2>8. WorkInv'
    BY <1>1, <1>3, <1>4, <1>5, <1>6, <2>1 DEF WorkInv, Steps
  <2>9. DraftInv'
    BY <1>1, <1>4, <2>1, <2>2, <2>4 DEF DraftInv
  <2>10. TodoInv'
    BY <1>1, <2>1, <2>2, <2>4 DEF TodoInv
  <2> QED BY <2>3, <2>7, <2>8, <2>9, <2>10 DEF ScheduleInv
<1>10. CASE /\ A!Commits(tick.draft)
            /\ tick' = [tick EXCEPT !.work.pc = outcome.pc, !.draft = A!NoDraft, !.locked = FALSE]
  <2>1. /\ tick' \in Ticks /\ tick'.work.pc = outcome.pc /\ tick'.work.job = tick.work.job
        /\ tick'.phase = tick.phase /\ tick'.todo = tick.todo /\ tick'.draft = A!NoDraft
    BY <1>4, <1>5, <1>10, IdleFields DEF Ticks, Works
  <2>2. /\ events' \in [Events -> EventRows] /\ marks' \subseteq A!Starts \union A!Stops
        /\ recorded' \in [A!Jobs -> Nat] /\ plans' = plans
        /\ \A d \in Events : events'[d].state = IF d \in tick.draft.done THEN "done" ELSE events[d].state
        /\ \A j \in A!Jobs : recorded'[j] = recorded[j] + IF j \in tick.draft.records THEN 1 ELSE 0
        /\ \A j : Taken(j)' <=> Taken(j)
        /\ A!Cancelled' = A!Cancelled
    BY <1>1, <1>10, <2>1, CommitsKeep
  <2>3. ScheduleTypes'
    BY <1>1, <1>2, <1>3, <1>5, <2>1, <2>2 DEF ScheduleTypes
  <2>4. Late' = Late
    BY <2>1, <2>2 DEF Late, Waiting
  <2>5. \A j \in A!Jobs :
          recorded'[j] + (IF A!Unfinished(j)' THEN 1 ELSE 0) = recorded[j] + (IF A!Unfinished(j) THEN 1 ELSE 0)
    <3> SUFFICES ASSUME NEW j \in A!Jobs
                 PROVE recorded'[j] + (IF A!Unfinished(j)' THEN 1 ELSE 0) = recorded[j] + (IF A!Unfinished(j) THEN 1 ELSE 0)
      OBVIOUS
    <3>1. recorded[j] \in Nat
      BY <1>1 DEF ScheduleTypes
    <3>2. A!Unfinished(j)' <=> j = tick.work.job \/ j = run.job
      BY <1>3, <2>1, IdleFields DEF A!Unfinished
    <3>3. A!Unfinished(j) <=> j = tick.work.job \/ j = run.job \/ j \in tick.draft.records
      BY DEF A!Unfinished
    <3>4. j \in tick.draft.records => j # run.job /\ j # tick.work.job
      BY <1>1, WhoseJobs
    <3> QED BY <2>2, <3>1, <3>2, <3>3, <3>4
  <2>6. OnceInv' /\ RecordInv'
    BY <1>1, <1>3, <1>7, <2>2, <2>3, <2>4, <2>5, Moves
  <2>7. WorkInv'
    BY <1>1, <1>3, <1>4, <1>5, <1>6, <2>1 DEF WorkInv, Steps
  <2>8. DraftInv'
    BY <1>4, <2>1, <2>2, IdleFields DEF DraftInv
  <2>9. TodoInv'
    BY <1>1, <2>1, <2>2, IdleFields DEF TodoInv
  <2> QED BY <2>3, <2>6, <2>7, <2>8, <2>9 DEF ScheduleInv
<1> QED BY <1>2, <1>9, <1>10

-----------------------------------------------------------------------------

LEMMA ScheduleInitInv ==
  ASSUME A!ConstantsOK, A!Init
  PROVE  ScheduleInv
<1>1. /\ clock = 1 /\ plans \in [Profiles -> A!Plans] /\ marks = {} /\ events = [e \in Events |-> A!NoEvent]
      /\ recorded = [j \in A!Jobs |-> 0] /\ carried = [j \in A!Jobs |-> 0] /\ lost = {}
      /\ tick = A!Idle /\ run = A!NoWork /\ server \in A!Servers /\ asked = 0 /\ mishaps = 0
  BY DEF A!Init
<1>2. A!NoEvent \in EventRows /\ A!NoEvent.state = "none"
  BY DEF A!NoEvent, EventRows
<1>3. clock \in A!Minutes
  <2>1. PICK p \in Profiles : plans[p] \in A!Plans /\ A!Never \notin {plans[p].start, plans[p].stop}
    BY DEF A!Init, A!ConstantsOK
  <2>2. plans[p].start \in 1 .. MaxClock
    BY <2>1 DEF A!Plans, A!ConstantsOK
  <2> QED BY <1>1, <2>2 DEF A!Minutes, A!ConstantsOK
<1>4. ScheduleTypes
  BY <1>1, <1>2, <1>3, IdleFields DEF ScheduleTypes, A!ConstantsOK
<1>5. A!Cancelled = {} /\ Waiting = {}
  BY <1>1, <1>2, IdleFields DEF A!Cancelled, Waiting
<1>6. OnceInv
  <2>1. IsFiniteSet(A!Cancelled) /\ Cardinality(A!Cancelled \ Waiting) = 0
    BY <1>5, FS_EmptySet
  <2>2. \A j \in A!Jobs : carried[j] = 0
    BY <1>1
  <2> QED BY <1>1, <2>1, <2>2 DEF OnceInv
<1>7. RecordInv
  BY <1>1, IdleFields, JobKinds DEF RecordInv, A!Unfinished
<1>8. WorkInv /\ DraftInv /\ TodoInv
  BY <1>1, IdleFields DEF WorkInv, DraftInv, TodoInv
<1> QED BY <1>4, <1>6, <1>7, <1>8 DEF ScheduleInv

\* The invariant holds in every state of the scheduler's tick, the requests to
\* run a plan now and the owner's changes.
THEOREM ScheduleInvariance == ASSUME A!ConstantsOK PROVE A!Spec => []ScheduleInv
<1>1. A!Init => ScheduleInv
  BY ScheduleInitInv
<1>2. ScheduleInv /\ [A!Next]_(A!vars) => ScheduleInv'
  <2> SUFFICES ASSUME ScheduleInv, [A!Next]_(A!vars) PROVE ScheduleInv'
    OBVIOUS
  <2>1. CASE A!TickStep
    BY <2>1, TickBeginsStep, TickTakesPlanStep, TickLooksForEventsStep, TickTakesEventStep,
       TickMeetsCancelledStep, TickWorksStep, TickRecordsStep, TickCommitsStep DEF A!TickStep
  <2>2. CASE A!TickFails \/ A!RunWorks \/ A!RunRecords \/ A!TimePasses \/ A!ServerChanges \/ A!Crash
    BY <2>2, TickFailsStep, RunWorksStep, RunRecordsStep, TimePassesStep,
        ServerChangesStep, ScheduleCrashStep
  <2>3. CASE \E p \in Profiles, plan \in A!Plans : A!SavePlan(p, plan)
    BY <2>3, SavePlanStep
  <2>4. CASE \E e \in Events, p \in Profiles, at \in Times, b \in Archives : A!CreateEvent(e, p, at, b)
    BY <2>4, CreateEventStep
  <2>5. CASE (\E e \in Events : A!CancelEvent(e)) \/ (\E job \in A!Manual : A!RunNow(job))
    BY <2>5, CancelEventStep, RunNowStep
  <2>6. CASE UNCHANGED A!vars
    <3>1. UNCHANGED <<clock, plans, marks, events, recorded, carried, lost, tick, run, server, asked, mishaps>>
      BY <2>6 DEF A!vars, A!database, A!history, A!bounds
    <3>2. ScheduleTypes'
      BY <3>1 DEF ScheduleInv, ScheduleTypes
    <3> QED BY <3>1, <3>2, NothingHappens
  <2> QED BY <2>1, <2>2, <2>3, <2>4, <2>5, <2>6 DEF A!Next
<1> QED BY <1>1, <1>2, PTL DEF A!Spec

\* The instance has a name of its own for Cardinality.
LEMMA SameCardinality ==
  \A S : A!Cardinality(S) = Cardinality(S)
BY DEF A!Cardinality, Cardinality

\* It says what was carried out and recorded.
LEMMA ScheduleInvMeans ==
  ASSUME ScheduleInv
  PROVE  OnceAndRecorded
<1>1. ScheduleTypes /\ OnceInv /\ RecordInv
  BY DEF ScheduleInv
<1>2. IsFiniteSet(A!Cancelled) /\ IsFiniteSet(Late) /\ Cardinality(Late) \in Nat /\ mishaps \in Nat
  BY <1>1, LateCounts
<1>3. Cardinality(A!Cancelled) \in Nat /\ Cardinality(Late) <= Cardinality(A!Cancelled)
  BY <1>2, FS_CardinalityType, FS_Subset DEF Late
<1>4. ASSUME NEW j \in A!Jobs \ A!Manual
      PROVE  carried[j] <= 1 + mishaps + Cardinality(A!Cancelled)
  <2> DEFINE x == IF Taken(j) THEN 1 ELSE 0
             a == Cardinality(Late)
             b == Cardinality(A!Cancelled)
  <2>1. carried[j] <= x + mishaps + a /\ x \in Nat /\ x <= 1 /\ a \in Nat /\ b \in Nat /\ a <= b
    BY <1>1, <1>2, <1>3 DEF OnceInv, Late
  <2>2. carried[j] \in Nat
    BY <1>1 DEF ScheduleTypes
  <2> HIDE DEF x, a, b
  <2>3. carried[j] <= 1 + mishaps + b
    BY <1>2, <2>1, <2>2
  <2> QED BY <2>3 DEF b
<1> QED BY <1>1, <1>4, SameCardinality DEF RecordInv, OnceAndRecorded, A!OnceAndRecorded

\* The variables of the scheduler keep their types.
THEOREM ScheduleTypesHold == ASSUME A!ConstantsOK PROVE A!Spec => []A!TypeOK
<1>1. ScheduleInv => A!TypeOK
  BY DEF ScheduleInv, ScheduleTypes, A!TypeOK, Ticks, Drafts, Works, Steps, EventRows
<1> QED BY <1>1, ScheduleInvariance, PTL

\* Whatever the tick, the owner and the server do and wherever the process dies:
\* a plan's start and stop are carried out once a day and a one-time event once,
\* except again after a rollback, and what is carried out is recorded unless its
\* session was rolled back (Scheduler.tick(), run_now()).
THEOREM ScheduleHolds == ASSUME A!ConstantsOK PROVE A!Spec => []OnceAndRecorded
<1>1. ScheduleInv => OnceAndRecorded
  BY ScheduleInvMeans
<1> QED BY <1>1, ScheduleInvariance, PTL

=============================================================================
