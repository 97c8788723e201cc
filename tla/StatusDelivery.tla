---------------------------- MODULE StatusDelivery ----------------------------
(***************************************************************************)
(* How the status of a server reaches its Discord message.  The host sends *)
(* a numbered snapshot when the status has changed or when it is asked to; *)
(* the relay keeps the newest one and brings the message in the channel in *)
(* line with it, with retries, one worker for each connection.  One active *)
(* connection is modelled; DiscordLink models how it comes and goes.       *)
(***************************************************************************)
EXTENDS Naturals, Sequences

CONSTANTS
  States,            \* what a status can say about the server
  Attempts,          \* RelayRuntime.delivery_attempts
  MaxChanges,        \* bound: changes of the status and of the sharing switch
  MaxFaults,         \* bound: lost sockets, restarts, failed calls and commits
  Nothing            \* no snapshot, no message, nothing desired

ConstantsOK ==
  /\ Attempts \in Nat \ {0} /\ MaxChanges \in Nat /\ MaxFaults \in Nat
  /\ Nothing \notin States

VARIABLES
  status,     \* what the host would measure now
  sequence,   \* DiscordConnection.last_sequence of the host
  sent,       \* DiscordConnection.last_status_payload of the host
  hostShare,  \* DiscordConnection.share_address of the host
  wanted,     \* the connection is in relay_pending_status
  pass,       \* relay_status_pass(): what it has read, and what it will commit
  link,       \* the socket is open
  statuses,   \* on their way to the relay
  share,      \* connections.share_address of the relay
  newest,     \* connections.last_sequence of the relay
  snapshot,   \* latest_snapshots.payload_json
  stale,      \* the snapshot is older than stale_after_seconds
  delivered,  \* connections.last_delivered_hash
  known,      \* connections.status_message_id is set
  desired,    \* delivery_desired
  attempted,  \* delivery_attempted_hashes
  changed,    \* the event in delivery_changes
  worker,     \* the delivery task: its content, attempt and step
  waiting,    \* connect_host() waits for the worker before it reads on
  message,    \* the message in the channel that the relay knows, if there is one
  forgot,     \* history: the number of the last status that the host has sent
              \* without keeping its number, so that it is used twice
  changes, faults

host == <<sequence, sent, hostShare, wanted, pass>>
store == <<share, newest, snapshot, stale, delivered, known>>
delivery == <<desired, attempted, changed, worker, waiting>>
bounds == <<changes, faults>>
vars == <<status, host, link, statuses, store, delivery, message, forgot, bounds>>

Contents == [state : States, address : BOOLEAN]
Waiting == [state |-> Nothing, join |-> "hidden", stale |-> FALSE]
Texts == [state : States, join : {"hidden", "unavailable", "shown"}, stale : BOOLEAN]
         \union {Waiting}
NoPass == [step |-> "none"]
NoWorker == [step |-> "none"]

\* render_status(); sharing an address and publishing it, two switches of the
\* owner, are turned together here.
Render(content, shared, old) ==
  IF content = Nothing THEN Waiting
  ELSE [state |-> content.state, stale |-> old,
        join |-> IF ~shared THEN "hidden" ELSE IF content.address THEN "shown" ELSE "unavailable"]

Rendered == Render(snapshot, share, stale)

Init ==
  /\ status \in States
  /\ sequence = 0 /\ sent = Nothing /\ hostShare = FALSE
  /\ wanted = FALSE /\ pass = NoPass
  /\ link = FALSE /\ statuses = <<>>
  /\ share = FALSE /\ newest = 0 /\ snapshot = Nothing /\ stale = FALSE
  /\ delivered = Nothing /\ known = FALSE
  /\ desired = Nothing /\ attempted = Nothing /\ changed = FALSE
  /\ worker = NoWorker /\ waiting = FALSE
  /\ message = Nothing /\ forgot = 0
  /\ changes = 0 /\ faults = 0

Fault == faults < MaxFaults /\ faults' = faults + 1 /\ UNCHANGED changes
Change == changes < MaxChanges /\ changes' = changes + 1 /\ UNCHANGED faults

-----------------------------------------------------------------------------
(* The host.                                                               *)

StatusChanges ==
  /\ Change
  /\ \E s \in States \ {status} : status' = s
  /\ UNCHANGED <<host, link, statuses, store, delivery, message, forgot>>

\* relay_connected: every enabled connection is to be sent.
Connect ==
  /\ ~link /\ link' = TRUE
  /\ wanted' = TRUE
  /\ UNCHANGED <<status, sequence, sent, hostShare, pass, statuses, store, delivery,
                 message, bounds, forgot>>

SocketLost ==
  /\ link /\ Fault
  /\ link' = FALSE /\ statuses' = <<>>
  /\ UNCHANGED <<status, host, store, delivery, message, forgot>>

\* relay_status_pass() loads the row.
PassReads ==
  /\ link /\ pass = NoPass
  /\ pass' = [step |-> "probe", explicit |-> wanted, share |-> hostShare,
              sequence |-> sequence, sent |-> sent]
  /\ UNCHANGED <<status, sequence, sent, hostShare, wanted, link, statuses, store,
                 delivery, message, bounds, forgot>>

\* The probe answers and the snapshot is sent, unless nothing is new; a send
\* without a socket is dropped.
PassSends ==
  LET content == [state |-> status, address |-> pass.share]
      new == pass.explicit \/ content # pass.sent
  IN
  /\ pass.step = "probe"
  /\ IF new
     THEN /\ statuses' = IF link THEN Append(statuses, [sequence |-> pass.sequence + 1,
                                                      content |-> content])
                        ELSE statuses
          /\ wanted' = FALSE
          /\ pass' = [step |-> "commit", sequence |-> pass.sequence + 1, sent |-> content]
     ELSE pass' = NoPass /\ UNCHANGED <<statuses, wanted>>
  /\ UNCHANGED <<status, sequence, sent, hostShare, link, store, delivery, message, bounds, forgot>>

\* Mutant: the row is committed without its new sequence number.
PassCommitsNoSequence ==
  /\ pass.step = "commit"
  /\ sent' = pass.sent /\ pass' = NoPass
  /\ UNCHANGED <<status, sequence, hostShare, wanted, link, statuses, store, delivery,
                 message, bounds, forgot>>

PassCommits ==
  /\ pass.step = "commit"
  /\ sequence' = pass.sequence /\ sent' = pass.sent
  /\ pass' = NoPass
  /\ UNCHANGED <<status, hostShare, wanted, link, statuses, store, delivery, message, bounds, forgot>>

\* The host forgets the number of a status that it has sent.
Forgets == forgot' = IF pass.step = "commit" THEN pass.sequence ELSE forgot

\* The sending or the commit fails: the whole pass is rolled back.
PassFails ==
  /\ pass.step \in {"probe", "commit"} /\ Fault
  /\ pass' = NoPass /\ Forgets
  /\ UNCHANGED <<status, sequence, sent, hostShare, wanted, link, statuses, store, delivery,
                 message>>

HostRestarts ==
  /\ Fault
  /\ pass' = NoPass /\ wanted' = FALSE /\ Forgets
  /\ link' = FALSE /\ statuses' = <<>>
  /\ UNCHANGED <<status, sequence, sent, hostShare, store, delivery, message>>

-----------------------------------------------------------------------------
(* The delivery worker of the relay.                                       *)

\* publish(): what is wanted, the event, and a worker if there is none.
Publish(text) ==
  /\ desired' = text
  /\ changed' = TRUE
  /\ worker' = IF worker = NoWorker THEN [step |-> "decide"] ELSE worker

WorkerEnds == worker' = NoWorker /\ waiting' = FALSE

\* The head of _delivery_worker()'s loop.
WorkerDecides ==
  /\ worker.step = "decide"
  /\ changed' = FALSE
  /\ IF desired \in {delivered, attempted}
     THEN /\ WorkerEnds
          /\ attempted' = desired
     ELSE /\ worker' = [step |-> "call", text |-> desired, attempt |-> 1]
          /\ UNCHANGED <<attempted, waiting>>
  /\ UNCHANGED <<status, host, link, statuses, store, desired, message, bounds, forgot>>

\* What the worker does after an outcome that is not "superseded".
Concludes(text) ==
  /\ attempted' = text
  /\ IF desired = text THEN WorkerEnds
     ELSE worker' = [step |-> "decide"] /\ UNCHANGED waiting

\* The message is edited, or created when there is none or Discord has lost
\* it, and the delivery is recorded.
CallSucceeds ==
  /\ worker.step = "call"
  /\ message' = worker.text /\ known' = TRUE
  /\ delivered' = worker.text
  /\ Concludes(worker.text)
  /\ UNCHANGED <<status, host, link, statuses, share, newest, snapshot, stale, desired,
                 changed, bounds, forgot>>

\* Discord answers with an error, and may have changed the message all the
\* same.  A newer text goes first; a failure that may pass is tried again, up to
\* the number of attempts; any other is the last word on this text.
CallFails ==
  LET text == worker.text IN
  /\ worker.step = "call" /\ Fault
  /\ message' \in IF known THEN {message, text} ELSE {message}
  /\ \/ /\ desired # text
        /\ worker' = [step |-> "decide"] /\ UNCHANGED <<attempted, waiting>>
     \/ /\ desired = text /\ worker.attempt < Attempts
        /\ worker' = [worker EXCEPT !.step = "wait"] /\ UNCHANGED <<attempted, waiting>>
     \/ /\ desired = text
        /\ Concludes(text)
  /\ UNCHANGED <<status, host, link, statuses, store, desired, changed, forgot>>

\* Any other exception is the last word too, whatever is wanted by then: before
\* the message is changed, or after that, while its delivery is recorded.
CallBreaks ==
  LET text == worker.text IN
  /\ worker.step = "call" /\ Fault
  /\ \/ UNCHANGED <<message, known>>
     \/ message' = text /\ known' = TRUE
  /\ Concludes(text)
  /\ UNCHANGED <<status, host, link, statuses, share, newest, snapshot, stale, delivered, desired,
                 changed, forgot>>

\* _wait_for_retry(): the delay is over, or something was published.
WorkerWaits ==
  /\ worker.step = "wait"
  /\ \/ /\ ~changed
        /\ worker' = [worker EXCEPT !.step = "call", !.attempt = @ + 1]
        /\ UNCHANGED waiting
     \/ /\ changed /\ desired # worker.text
        /\ worker' = [step |-> "decide"] /\ UNCHANGED waiting
     \/ /\ changed /\ desired = worker.text
        /\ WorkerEnds
  /\ UNCHANGED <<status, host, link, statuses, store, desired, attempted, changed, message,
                 bounds, forgot>>

-----------------------------------------------------------------------------
(* The relay's handlers.                                                   *)

\* Mutant: the stored snapshot keeps its address.
WithoutNothing(content) == content

\* _scrub_connection_snapshot_locked().
Without(content) == IF content = Nothing THEN Nothing ELSE [content EXCEPT !.address = FALSE]

\* update_connection() with share_address: the snapshot is scrubbed and the
\* connection published.
ShareSwitched ==
  /\ Change
  /\ share' = ~share
  /\ snapshot' = IF share THEN Without(snapshot) ELSE snapshot
  /\ Publish(Render(snapshot', ~share, stale))
  /\ UNCHANGED <<status, host, link, statuses, newest, stale, delivered, known, attempted,
                 waiting, message, forgot>>

\* The host hears of it: by the answer, by connection_changed or, after a
\* reconnect, by connection_activated.
Learns ==
  /\ hostShare' = share
  /\ sent' = IF share THEN sent ELSE Nothing
  /\ wanted' = TRUE

HostLearnsShare ==
  /\ link /\ hostShare # share
  /\ Learns
  /\ UNCHANGED <<status, sequence, pass, link, statuses, store, delivery, message, bounds, forgot>>

\* connect_host() reads a status that carries an address which may not be
\* shared, and ends the session; the host reads what was sent before the close.
RelayRefuses ==
  /\ link /\ ~waiting /\ statuses # <<>>
  /\ Head(statuses).content.address /\ ~share
  /\ link' = FALSE /\ statuses' = <<>>
  /\ Learns
  /\ UNCHANGED <<status, sequence, pass, store, delivery, message, bounds, forgot>>

\* It reads another one: an old number is ignored, a new snapshot is kept and
\* published.
RelayReceives ==
  LET m == Head(statuses) IN
  /\ link /\ ~waiting /\ statuses # <<>>
  /\ m.content.address => share
  /\ statuses' = Tail(statuses)
  /\ \/ /\ m.sequence <= newest
        /\ UNCHANGED <<store, delivery>>
     \/ /\ m.sequence > newest
        /\ newest' = m.sequence /\ snapshot' = m.content /\ stale' = FALSE
        /\ Publish(Render(m.content, share, FALSE)) /\ waiting' = TRUE
        /\ UNCHANGED <<share, delivered, known, attempted>>
  /\ UNCHANGED <<status, host, link, message, bounds, forgot>>

\* stale_after_seconds have passed since the snapshot was received.
GrowsStale ==
  /\ snapshot # Nothing /\ ~stale /\ Change
  /\ stale' = TRUE
  /\ UNCHANGED <<status, host, link, statuses, share, newest, snapshot, delivered, known,
                 delivery, message, forgot>>

\* delivery_scan_loop() publishes again; where that would change nothing it
\* is left out.
Scan ==
  /\ \/ desired # Rendered
     \/ worker = NoWorker /\ Rendered \notin {delivered, attempted}
  /\ Publish(Rendered)
  /\ UNCHANGED <<status, host, link, statuses, store, attempted, waiting, message, bounds, forgot>>

\* The relay starts anew with its store; the host's socket is gone.
RelayRestarts ==
  /\ Fault
  /\ link' = FALSE /\ statuses' = <<>>
  /\ desired' = Nothing /\ attempted' = Nothing /\ changed' = FALSE
  /\ worker' = NoWorker /\ waiting' = FALSE
  /\ UNCHANGED <<status, host, store, message, forgot>>

-----------------------------------------------------------------------------
HostStep == PassReads \/ PassSends \/ PassCommits
WorkerStep == WorkerDecides \/ CallSucceeds \/ WorkerWaits

Next ==
  \/ StatusChanges \/ Connect \/ SocketLost
  \/ HostStep \/ PassFails \/ HostRestarts
  \/ WorkerStep \/ CallFails \/ CallBreaks
  \/ ShareSwitched \/ HostLearnsShare \/ GrowsStale \/ RelayRefuses \/ RelayReceives \/ Scan
  \/ RelayRestarts

Spec == Init /\ [][Next]_vars

\* Loops and tasks run, calls end, and both services reconnect.
FairSpec ==
  /\ Spec
  /\ WF_vars(Connect) /\ WF_vars(HostStep) /\ WF_vars(HostLearnsShare)
  /\ WF_vars(RelayRefuses) /\ WF_vars(RelayReceives) /\ WF_vars(WorkerStep) /\ WF_vars(Scan)

-----------------------------------------------------------------------------
(* Correctness.                                                            *)

\* The type of the state.
TypeOK ==
  /\ status \in States
  /\ {sequence, newest, forgot} \subseteq Nat
  /\ {sent, snapshot} \subseteq Contents \union {Nothing}
  /\ {delivered, desired, attempted, message} \subseteq Texts \union {Nothing}
  /\ {hostShare, wanted, link, share, stale, known, changed, waiting} \subseteq BOOLEAN
  /\ pass.step \in {"none", "probe", "commit"}
  /\ worker.step \in {"none", "decide", "call", "wait"}
  /\ statuses \in Seq([sequence : Nat, content : Contents])
  /\ changes \in 0 .. MaxChanges /\ faults \in 0 .. MaxFaults

\* The relay holds an address, and wants it in the channel, only while the owner
\* shares it, whatever was on its way when the sharing was switched off; a worker
\* with an older text in hand has been told to look again, so that it tries that
\* text no further time.
AddressNeedsConsent ==
  /\ snapshot # Nothing /\ snapshot.address => share
  /\ desired # Nothing /\ desired.join = "shown" => share
  /\ worker.step \in {"call", "wait"} /\ worker.text.join = "shown" /\ ~share => changed

Due == Render([state |-> status, address |-> share], share, stale)

\* When the changes and the faults are over, the message in the channel shows
\* the status of the server, with the address exactly if it is shared.  Three
\* things can stand in the way, and nothing else: the relay has had the last word
\* on this very text and does not try it again; a call that it saw fail has
\* changed the message, which it has no record of; the host forgot the number of
\* a status it had sent, so that a newer one passes for an old one.
StatusIsShown ==
  <>[](message = Due \/ attempted = Due \/ message # delivered
      \/ newest <= forgot)

=============================================================================
