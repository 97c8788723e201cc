---------------------------- MODULE Discord_proofs ----------------------------
(***************************************************************************)
(* Proofs about the Discord connector: the rotation of its secret, with    *)
(* probes that outlast the reconnect delay of the connector's loop, and    *)
(* the delivery of a status, which keeps an address only while it is       *)
(* shared.                                                                 *)
(***************************************************************************)
EXTENDS MCDiscord, TLAPS

-----------------------------------------------------------------------------
(* The rotation of the secret.                                             *)

InFile(s) == s \in {disk.active, disk.fallback}

\* The four places that hold a secret agree on the client's.
Settled == committed = client /\ identity = client /\ disk = Finalized(client)

\* Old secrets are older than the newest, and a connected host says what its file
\* says.
SecretInv ==
  /\ committed <= made
  /\ pending # NoSecret => pending <= made
  /\ session = "connected" => disk = Finalized(identity)
  /\ ~up => session = "closed"
  /\ rotation # "idle" => up

\* Unless the loop has said hello during a rotation, the file holds what the relay
\* has committed and what the connector says hello with.
FileIsEnough ==
  ~overtaken =>
    /\ InFile(committed)
    /\ up => InFile(identity)
    /\ session = "greeted" => committed = greeting
    /\ session = "connected" => committed = identity
    /\ rotation # "idle" => session \in {"closed", "stopped"}

\* After such a hello the loop knows no other secret than the client's, until it
\* is connected anew.
LoopKnowsClient ==
  overtaken /\ up /\ session # "stopped" =>
    /\ identity = client /\ InFile(client)
    /\ session = "greeted" => greeting = client

\* Where the secrets are between the writing of the file and the end of a rotation.
MidwayInv ==
  rotation \in {"probe", "acked", "undo", "restore"} =>
    /\ client < made
    /\ disk = File(made, client) \/ (overtaken /\ disk = Finalized(client))
    /\ session # "stopped" => identity = client
    /\ rotation = "probe" => committed = client /\ session # "stopped"
    /\ rotation = "acked" => committed = made /\ pending = NoSecret /\ session # "stopped"
    /\ rotation = "restore" => committed = client

\* Where they are before that and after it.
RestInv ==
  /\ rotation = "stage" => Settled /\ client < made /\ session = "closed"
  /\ rotation = "cancel" => Settled /\ session \in {"closed", "stopped"}
  /\ rotation = "idle" /\ outcome \in {"success", "refused"} => Settled
  /\ rotation = "idle" /\ outcome = "success" => client = made

\* The inductive invariant.
Inv ==
  /\ TypeOK /\ SecretInv /\ FileIsEnough /\ LoopKnowsClient /\ MidwayInv /\ RestInv

-----------------------------------------------------------------------------
\* The invariant holds at the start.
LEMMA InitInv == ASSUME ConstantsOK PROVE Init => Inv
<1> SUFFICES ASSUME Init PROVE Inv
  OBVIOUS
<1>1. up \in BOOLEAN /\ overtaken \in BOOLEAN
  BY Zenon DEF Init
<1> QED BY <1>1 DEF ConstantsOK, Init, Inv, TypeOK, SecretInv, FileIsEnough,
     LoopKnowsClient, MidwayInv, RestInv, InFile, Settled, Finalized, File, Secrets

\* The steps of the connector's loop, of the clock and of the service.
LEMMA LoopKeepsInv ==
  ASSUME ConstantsOK, Inv,
         PendingExpires \/ LoopStep \/ SessionLost \/ Crash \/ Start
  PROVE  Inv'
<1> USE DEF ConstantsOK, Inv, TypeOK, SecretInv, FileIsEnough, LoopKnowsClient, MidwayInv,
            RestInv, InFile, Settled, Finalized, File, Secrets, relay, memory,
            loop, Fault, NoFault
<1>1. CASE PendingExpires
  BY <1>1 DEF PendingExpires
<1>2. ASSUME NEW s \in Secrets, Connect(s) PROVE Inv'
  <2>1. ASSUME rotation # "idle" PROVE s = client /\ identity = client
    BY <1>2, <2>1 DEF Connect, LoopRuns, Candidates
  <2>0. overtaken' \in BOOLEAN
    BY <1>2, Zenon DEF Connect
  <2>2. TypeOK'
    BY <1>2, <2>0 DEF Connect, Hello, Welcome
  <2>3. /\ session = "closed" /\ up /\ s \in Candidates /\ Hello(s)
        /\ session' = "greeted" /\ greeting' = s
        /\ UNCHANGED <<disk, up, identity, client, rotation, outcome, made>>
    BY <1>2 DEF Connect
  <2>4. CASE rotation = "idle"
    <3>1. ~overtaken'
      BY <1>2, <2>4, Zenon DEF Connect
    <3> QED BY <2>2, <2>3, <2>4, <3>1 DEF Candidates, Hello, Welcome
  <2>5. CASE rotation # "idle"
    <3>1. overtaken' /\ rotation \notin {"stage", "cancel"}
      BY <1>2, <2>5, Zenon DEF Connect, LoopRuns
    <3>2. rotation # "acked"
      BY <2>1, <2>3, <2>5 DEF Hello, Welcome
    <3> QED BY <2>1, <2>2, <2>3, <2>5, <3>1, <3>2 DEF Hello
  <2> QED BY <2>4, <2>5
<1>3. CASE Greeted
  BY <1>3 DEF Greeted, LoopRuns
<1>4. CASE SessionLost
  BY <1>4 DEF SessionLost
<1>5. CASE Crash
  <2>0. up' \in BOOLEAN
    BY <1>5, Zenon DEF Crash
  <2>1. faults' \in 0 .. MaxFaults
    BY <1>5 DEF Crash
  <2>2. TypeOK'
    BY <1>5, <2>0, <2>1 DEF Crash
  <2>3. SecretInv' /\ FileIsEnough' /\ LoopKnowsClient'
    BY <1>5 DEF Crash
  <2>4. MidwayInv' /\ RestInv'
    BY <1>5 DEF Crash
  <2> QED BY <2>2, <2>3, <2>4
<1>6. CASE Start
  BY <1>6 DEF Start
<1> QED BY <1>1, <1>2, <1>3, <1>4, <1>5, <1>6 DEF LoopStep

\* The steps of a rotation.
LEMMA RotateKeepsInv ==
  ASSUME ConstantsOK, Inv, RotateStep
  PROVE  Inv'
<1> USE DEF ConstantsOK, Inv, TypeOK, SecretInv, FileIsEnough, LoopKnowsClient, MidwayInv,
            RestInv, InFile, Settled, Finalized, File, Secrets, relay, memory,
            loop, Fault, NoFault
<1>1. CASE RotatePrepare
  BY <1>1 DEF RotatePrepare, Current
<1>2. CASE RotateStage
  BY <1>2 DEF RotateStage, Staged
<1>3. CASE RotateProbe
  BY <1>3 DEF RotateProbe, Hello, Welcome
<1>4. CASE RotateSwitch
  <2>1. overtaken' \in BOOLEAN
    BY <1>4, Zenon DEF RotateSwitch
  <2> QED BY <1>4, <2>1 DEF RotateSwitch
<1>5. CASE RotateUndo
  BY <1>5 DEF RotateUndo, Hello, Welcome
<1>6. CASE RotateRestore
  <2>1. overtaken' \in BOOLEAN
    BY <1>6, Zenon DEF RotateRestore
  <2> QED BY <1>6, <2>1 DEF RotateRestore
<1>7. CASE RotateCancel
  BY <1>7 DEF RotateCancel, Current
<1> QED BY <1>1, <1>2, <1>3, <1>4, <1>5, <1>6, <1>7 DEF RotateStep

\* The invariant holds in every reachable state.
THEOREM Invariance ==
  ASSUME ConstantsOK PROVE Spec => []Inv
<1>1. Inv /\ [Next]_vars => Inv'
  <2> SUFFICES ASSUME Inv, [Next]_vars PROVE Inv'
    OBVIOUS
  <2>1. CASE RotateStep
    BY <2>1, RotateKeepsInv
  <2>2. CASE PendingExpires \/ LoopStep \/ SessionLost \/ Crash \/ Start
    BY <2>2, LoopKeepsInv
  <2>3. CASE UNCHANGED vars
    BY <2>3 DEF vars, relay, memory, loop, Inv, TypeOK, SecretInv, FileIsEnough,
                LoopKnowsClient, MidwayInv, RestInv, InFile, Settled, Finalized, File
  <2> QED BY <2>1, <2>2, <2>3 DEF Next
<1> QED BY <1>1, InitInv, PTL DEF Spec

-----------------------------------------------------------------------------
\* The state keeps its type.
THEOREM TypeCorrect ==
  ASSUME ConstantsOK PROVE Spec => []TypeOK
<1>1. Inv => TypeOK
  BY DEF Inv
<1> QED BY <1>1, Invariance, PTL

\* Whatever is lost and wherever the host dies, its identity file holds the
\* secret that the relay has committed (persist_relay_identity() before the
\* probe, finalize_relay_identity() only after an acknowledgement), unless the
\* connector's loop said hello while a rotation was under way.
THEOREM HostIsNeverLockedOut ==
  ASSUME ConstantsOK PROVE Spec => []NeverLockedOut
<1>1. Inv => NeverLockedOut
  BY DEF Inv, FileIsEnough, InFile, NeverLockedOut, SecretIsStored
<1> QED BY <1>1, Invariance, PTL

\* The owner is told of a success or of a refusal only when it is one.
THEOREM OwnerIsToldTheTruth ==
  ASSUME ConstantsOK PROVE Spec => []OwnerToldTheTruth
<1>1. Inv => OwnerToldTheTruth
  BY DEF Inv, RestInv, Settled, Finalized, File, OwnerToldTheTruth
<1> QED BY <1>1, Invariance, PTL

-----------------------------------------------------------------------------
(* The delivery of a status: what the state is made of.                    *)

\* A pass of the host, the relay's worker, and a status on its way.
Passes ==
  {S!NoPass}
    \union [step : {"probe"}, explicit : BOOLEAN, share : BOOLEAN, sequence : Nat,
            sent : S!Contents \union {Nothing}]
    \union [step : {"commit"}, sequence : Nat, sent : S!Contents]

Workers ==
  {S!NoWorker} \union [step : {"decide"}]
    \union [step : {"call"}, text : S!Texts, attempt : 1 .. Attempts]
    \union [step : {"wait"}, text : S!Texts, attempt : 1 .. Attempts - 1]

Statuses == [sequence : Nat, content : S!Contents]

\* What the host keeps and sends, ...
HostTypes ==
  /\ status \in States /\ sequence \in Nat /\ sent \in S!Contents \union {Nothing}
  /\ hostShare \in BOOLEAN /\ wanted \in BOOLEAN /\ link \in BOOLEAN
  /\ pass \in Passes /\ statuses \in Seq(Statuses) /\ forgot \in Nat

\* ... what the relay stores, ...
StoreTypes ==
  /\ newest \in Nat /\ snapshot \in S!Contents \union {Nothing}
  /\ share \in BOOLEAN /\ stale \in BOOLEAN /\ known \in BOOLEAN
  /\ delivered \in S!Texts \union {Nothing}

\* ... and what its worker has in hand.
DeliveryTypes ==
  /\ desired \in S!Texts \union {Nothing} /\ attempted \in S!Texts \union {Nothing}
  /\ message \in S!Texts \union {Nothing}
  /\ changed \in BOOLEAN /\ waiting \in BOOLEAN /\ worker \in Workers

BoundTypes == changes \in 0 .. MaxChanges /\ faults \in 0 .. StatusFaults

\* A worker has something to do, and with an older text in hand it has been told.
InHand ==
  /\ worker # S!NoWorker => desired \in S!Texts
  /\ worker.step \in {"call", "wait"} => changed \/ desired = worker.text

\* What is stored and wanted is shared.
Consented ==
  /\ snapshot # Nothing /\ snapshot.address => share
  /\ desired # Nothing \/ worker # S!NoWorker => (desired.join = "shown" => share)

\* The inductive invariant.
StatusInv == HostTypes /\ StoreTypes /\ DeliveryTypes /\ BoundTypes /\ InHand /\ Consented

-----------------------------------------------------------------------------
\* Rendering gives texts, of whatever is stored.
LEMMA RendersTexts ==
  ASSUME NEW content \in S!Contents \union {Nothing},
         NEW shared \in BOOLEAN, NEW old \in BOOLEAN
  PROVE  /\ S!Render(content, shared, old) \in S!Texts
         /\ S!Render(content, shared, old).join = "shown" => shared
BY DEF S!Render, S!Texts, S!Contents, S!Waiting

\* A socket that closes loses what was on its way.
LEMMA NoneOnTheirWay == <<>> \in Seq(Statuses)
BY DEF Statuses

\* Faults and changes stay within their bounds.
LEMMA BoundSteps ==
  ASSUME S!ConstantsOK, BoundTypes, S!Fault \/ S!Change \/ UNCHANGED S!bounds
  PROVE  BoundTypes'
BY DEF S!ConstantsOK, BoundTypes, S!Fault, S!Change, S!bounds

\* Publishing starts a worker that there is not.
LEMMA PublishTypes ==
  ASSUME DeliveryTypes, NEW text \in S!Texts, S!Publish(text)
  PROVE  /\ desired' = text /\ changed' \in BOOLEAN /\ worker' \in Workers
         /\ InHand'
BY DEF DeliveryTypes, S!Publish, Workers, InHand, S!NoWorker

\* The steps of the host and of the socket.
LEMMA HostKeeps ==
  ASSUME S!ConstantsOK, StatusInv,
         S!StatusChanges \/ S!Connect \/ S!SocketLost \/ S!HostStep \/ S!PassFails
           \/ S!HostRestarts \/ S!HostLearnsShare
  PROVE  StatusInv'
<1>1. BoundTypes'
  BY BoundSteps DEF StatusInv, S!StatusChanges, S!Connect, S!SocketLost, S!HostStep,
     S!PassReads, S!PassSends, S!PassCommits, S!PassFails, S!HostRestarts,
     S!HostLearnsShare, S!bounds
<1>2. (StoreTypes /\ DeliveryTypes /\ InHand /\ Consented)'
  BY DEF StatusInv, S!StatusChanges, S!Connect, S!SocketLost, S!HostStep, S!PassReads,
     S!PassSends, S!PassCommits, S!PassFails, S!HostRestarts, S!HostLearnsShare, S!store,
     S!delivery, StoreTypes, DeliveryTypes, InHand, Consented
<1>3. HostTypes'
  <2> USE DEF StatusInv, HostTypes, S!host
  <2>1. CASE S!StatusChanges
    BY <2>1 DEF S!StatusChanges
  <2>2. CASE S!Connect
    BY <2>2 DEF S!Connect
  <2>3. CASE S!SocketLost
    BY <2>3, NoneOnTheirWay DEF S!SocketLost
  <2>4. CASE S!PassReads
    BY <2>4 DEF S!PassReads, Passes
  <2>5. CASE S!PassSends
    <3> DEFINE content == [state |-> status, address |-> pass.share]
               note == [sequence |-> pass.sequence + 1, content |-> content]
    <3>1. pass.sequence + 1 \in Nat /\ content \in S!Contents
      BY <2>5 DEF S!PassSends, Passes, S!NoPass, S!Contents
    <3>2. note \in Statuses
      BY <3>1 DEF Statuses
    <3>3. pass' \in Passes
      BY <2>5, <3>1 DEF S!PassSends, Passes
    <3> HIDE DEF note
    <3>4. Append(statuses, note) \in Seq(Statuses)
      BY <3>2
    <3>5. statuses' \in {statuses, Append(statuses, note)} /\ wanted' \in {wanted, FALSE}
      BY <2>5 DEF S!PassSends, note
    <3> QED BY <2>5, <3>3, <3>4, <3>5 DEF S!PassSends
  <2>6. CASE S!PassCommits
    BY <2>6 DEF S!PassCommits, Passes, S!NoPass
  <2>7. CASE S!PassFails
    BY <2>7 DEF S!PassFails, S!Forgets, Passes, S!NoPass
  <2>8. CASE S!HostRestarts
    <3>1. forgot' \in Nat
      BY <2>8 DEF S!HostRestarts, S!Forgets, Passes, S!NoPass
    <3> QED BY <2>8, <3>1, NoneOnTheirWay DEF S!HostRestarts, Passes
  <2>9. CASE S!HostLearnsShare
    BY <2>9 DEF S!HostLearnsShare, S!Learns, StoreTypes
  <2> QED BY <2>1, <2>2, <2>3, <2>4, <2>5, <2>6, <2>7, <2>8, <2>9 DEF S!HostStep
<1> QED BY <1>1, <1>2, <1>3 DEF StatusInv

\* The records of a worker that waits or tries again.
LEMMA WaitRecords ==
  ASSUME NEW X, NEW N \in Nat, NEW w \in [step : {"call"}, text : X, attempt : 1 .. N],
         w.attempt # N
  PROVE  [w EXCEPT !.step = "wait"] \in [step : {"wait"}, text : X, attempt : 1 .. N - 1]
OBVIOUS

\* Nothing of that touches the text.
LEMMA HandRecords ==
  ASSUME NEW X, NEW Y, NEW Z, NEW k, NEW w \in [step : X, text : Y, attempt : Z]
  PROVE  [w EXCEPT !.step = "call", !.attempt = k].text = w.text
OBVIOUS

\* The next attempt of a worker that waited.
LEMMA CallRecords ==
  ASSUME NEW X, NEW Y, NEW k \in Y, NEW w \in [step : {"wait"}, text : X, attempt : Y]
  PROVE  [w EXCEPT !.step = "call", !.attempt = k]
           \in [step : {"call"}, text : X, attempt : Y]
OBVIOUS

\* What the worker has in hand after a step of its own.
LEMMA WorkerHands ==
  ASSUME StatusInv, S!WorkerStep \/ S!CallFails \/ S!CallBreaks
  PROVE  InHand'
<1> USE DEF StatusInv, InHand, S!WorkerEnds, S!Concludes, S!NoWorker
<1>1. worker # S!NoWorker /\ desired' = desired
  BY DEF S!WorkerStep, S!WorkerDecides, S!CallSucceeds, S!WorkerWaits, S!CallFails,
     S!CallBreaks
<1>2. worker.step \in {"call", "wait"} =>
        worker \in [step : {"call", "wait"}, text : S!Texts, attempt : Nat]
  BY DEF DeliveryTypes, Workers
<1>3. CASE S!WorkerDecides
  BY <1>1, <1>3 DEF S!WorkerDecides
<1>4. CASE S!CallSucceeds
  BY <1>1, <1>4 DEF S!CallSucceeds
<1>5. CASE S!WorkerWaits
  <2>1. ASSUME ~changed, changed' = changed,
               worker' = [worker EXCEPT !.step = "call", !.attempt = @ + 1]
        PROVE  InHand'
    <3>1. PICK k : k = worker.attempt + 1
      OBVIOUS
    <3>2. worker'.text = worker.text
      BY <1>2, <1>5, <2>1, <3>1, HandRecords DEF S!WorkerWaits
    <3> QED BY <1>1, <1>5, <2>1, <3>2 DEF S!WorkerWaits
  <2>2. ASSUME changed, changed' = changed, worker' \in {[step |-> "decide"], S!NoWorker}
        PROVE  InHand'
    BY <1>1, <2>2
  <2> QED BY <1>5, <2>1, <2>2 DEF S!WorkerWaits
<1>6. CASE S!CallFails
  <2>1. [worker EXCEPT !.step = "wait"].text = worker.text
    BY <1>2, <1>6 DEF S!CallFails
  <2>2. changed' = changed
    BY <1>6 DEF S!CallFails
  <2>3. ASSUME worker' = [worker EXCEPT !.step = "wait"] PROVE InHand'
    BY <1>1, <1>6, <2>1, <2>2, <2>3 DEF S!CallFails
  <2>4. ASSUME worker' \in {[step |-> "decide"], S!NoWorker} PROVE InHand'
    BY <1>1, <2>4
  <2> QED BY <1>6, <2>3, <2>4 DEF S!CallFails
<1>7. CASE S!CallBreaks
  BY <1>1, <1>7 DEF S!CallBreaks
<1> QED BY <1>3, <1>4, <1>5, <1>6, <1>7 DEF S!WorkerStep

\* The steps of the relay's worker.
LEMMA WorkerKeeps ==
  ASSUME S!ConstantsOK, StatusInv, S!WorkerStep \/ S!CallFails \/ S!CallBreaks
  PROVE  StatusInv'
<1>0. InHand'
  BY WorkerHands
<1>1. BoundTypes'
  BY BoundSteps DEF StatusInv, S!WorkerStep, S!WorkerDecides, S!CallSucceeds,
     S!WorkerWaits, S!CallFails, S!CallBreaks, S!bounds
<1>2. HostTypes' /\ Consented' /\ InHand'
  <2>1. worker # S!NoWorker
    BY DEF S!WorkerStep, S!WorkerDecides, S!CallSucceeds, S!WorkerWaits, S!CallFails,
       S!CallBreaks, S!NoWorker
  <2> QED BY <1>0, <2>1 DEF StatusInv, S!WorkerStep, S!WorkerDecides, S!CallSucceeds,
     S!WorkerWaits, S!CallFails, S!CallBreaks, S!host, S!store, HostTypes, Consented
<1>3. 1 \in 1 .. Attempts
  BY DEF S!ConstantsOK
<1>4. S!NoWorker \in Workers /\ [step |-> "decide"] \in Workers
  BY DEF Workers
<1>5. /\ worker.step = "call" =>
           worker \in [step : {"call"}, text : S!Texts, attempt : 1 .. Attempts]
      /\ worker.step = "wait" =>
           worker \in [step : {"wait"}, text : S!Texts, attempt : 1 .. Attempts - 1]
  BY DEF StatusInv, DeliveryTypes, Workers, S!NoWorker
<1> USE DEF StatusInv, StoreTypes, DeliveryTypes, S!store, S!WorkerEnds, S!Concludes
<1>6. CASE S!WorkerDecides
  <2>1. [step |-> "call", text |-> desired, attempt |-> 1] \in Workers
    BY <1>3, <1>6 DEF S!WorkerDecides, InHand, S!NoWorker, Workers
  <2> QED BY <1>1, <1>2, <1>4, <1>6, <2>1 DEF S!WorkerDecides
<1>7. CASE S!CallSucceeds
  BY <1>1, <1>2, <1>4, <1>5, <1>7 DEF S!CallSucceeds
<1>8. CASE S!WorkerWaits
  <2> DEFINE k == worker.attempt + 1
  <2>1. /\ worker \in [step : {"wait"}, text : S!Texts, attempt : 1 .. Attempts]
        /\ k \in 1 .. Attempts
    BY <1>3, <1>5, <1>8 DEF S!WorkerWaits, S!ConstantsOK
  <2>2. [worker EXCEPT !.step = "call", !.attempt = @ + 1]
          = [worker EXCEPT !.step = "call", !.attempt = k]
    BY <2>1
  <2> HIDE DEF k
  <2>3. [worker EXCEPT !.step = "call", !.attempt = k] \in Workers
    <3> DEFINE T == S!Texts
               Y == 1 .. Attempts
    <3>1. worker \in [step : {"wait"}, text : T, attempt : Y] /\ k \in Y
      BY <2>1
    <3>2. [step : {"call"}, text : T, attempt : Y] \subseteq Workers
      BY DEF Workers
    <3> HIDE DEF T, Y
    <3>3. [worker EXCEPT !.step = "call", !.attempt = k]
            \in [step : {"call"}, text : T, attempt : Y]
      BY <3>1, CallRecords
    <3> QED BY <3>2, <3>3
  <2>4. worker' \in Workers
    <3>1. worker' \in {[worker EXCEPT !.step = "call", !.attempt = @ + 1],
                      [step |-> "decide"], S!NoWorker}
      BY <1>8 DEF S!WorkerWaits
    <3> QED BY <1>4, <2>2, <2>3, <3>1
  <2>5. /\ waiting' \in {waiting, FALSE} /\ changed' = changed
        /\ UNCHANGED <<S!store, desired, attempted, message>>
    BY <1>8 DEF S!WorkerWaits
  <2> QED BY <1>1, <1>2, <2>4, <2>5
<1>9. CASE S!CallFails
  <2>1. worker.attempt < Attempts => [worker EXCEPT !.step = "wait"] \in Workers
    BY <1>5, <1>9, WaitRecords DEF S!CallFails, S!ConstantsOK, Workers
  <2>2. worker.text \in S!Texts /\ message' \in {message, worker.text}
    BY <1>5, <1>9 DEF S!CallFails
  <2>3. worker' \in Workers
    BY <1>4, <1>9, <2>1 DEF S!CallFails
  <2>4. attempted' \in {attempted, worker.text} /\ waiting' \in {waiting, FALSE}
    BY <1>9 DEF S!CallFails
  <2> QED BY <1>1, <1>2, <1>9, <2>2, <2>3, <2>4 DEF S!CallFails
<1>10. CASE S!CallBreaks
  <2>1. worker.text \in S!Texts
    BY <1>5, <1>10 DEF S!CallBreaks
  <2>2. /\ worker' \in Workers /\ waiting' \in {waiting, FALSE}
        /\ attempted' = worker.text /\ message' \in {message, worker.text}
        /\ known' \in {known, TRUE}
    BY <1>4, <1>10 DEF S!CallBreaks
  <2> QED BY <1>1, <1>2, <1>10, <2>1, <2>2 DEF S!CallBreaks
<1> QED BY <1>6, <1>7, <1>8, <1>9, <1>10 DEF S!WorkerStep

\* The steps of the relay's handlers, of its clock and of its restart.
LEMMA RelayKeeps ==
  ASSUME S!ConstantsOK, StatusInv,
         S!ShareSwitched \/ S!GrowsStale \/ S!RelayRefuses \/ S!RelayReceives \/ S!Scan
           \/ S!RelayRestarts
  PROVE  StatusInv'
<1>1. BoundTypes'
  BY BoundSteps DEF StatusInv, S!ShareSwitched, S!GrowsStale, S!RelayRefuses,
     S!RelayReceives, S!Scan, S!RelayRestarts, S!Fault, S!Change, S!bounds
<1> USE DEF StatusInv, HostTypes, StoreTypes, DeliveryTypes, InHand, Consented, S!host,
   S!store, S!delivery
<1>2. CASE S!ShareSwitched
  <2>1. snapshot' \in S!Contents \union {Nothing}
    BY <1>2 DEF S!ShareSwitched, S!Without, S!Contents
  <2>2. PICK text : text = S!Render(snapshot', ~share, stale)
    OBVIOUS
  <2>3. text \in S!Texts /\ (text.join = "shown" => ~share)
    BY <2>1, <2>2, RendersTexts
  <2>4. /\ desired' = text /\ changed' \in BOOLEAN /\ worker' \in Workers
        /\ InHand'
    BY <1>2, <2>2, <2>3, PublishTypes DEF S!ShareSwitched
  <2>5. Consented'
    BY <1>2, <2>3, <2>4 DEF S!ShareSwitched, S!Without, S!Contents
  <2> HIDE DEF InHand, Consented
  <2> QED BY <1>1, <1>2, <2>1, <2>3, <2>4, <2>5 DEF S!ShareSwitched
<1>3. CASE S!GrowsStale
  BY <1>1, <1>3 DEF S!GrowsStale
<1>4. CASE S!RelayRefuses
  BY <1>1, <1>4, NoneOnTheirWay DEF S!RelayRefuses, S!Learns
<1>5. CASE S!RelayReceives
  <2> DEFINE m == Head(statuses)
  <2>1. m \in Statuses /\ statuses' \in Seq(Statuses)
    BY <1>5 DEF S!RelayReceives
  <2>2. m.sequence \in Nat /\ m.content \in S!Contents /\ (m.content.address => share)
    BY <1>5, <2>1 DEF S!RelayReceives, Statuses
  <2>3. PICK text : text = S!Render(m.content, share, FALSE)
    OBVIOUS
  <2>3a. text \in S!Texts /\ (text.join = "shown" => share)
    BY <2>2, <2>3, RendersTexts
  <2> HIDE DEF m
  <2>4. CASE UNCHANGED <<S!store, S!delivery>>
    BY <1>1, <1>5, <2>1, <2>4 DEF S!RelayReceives
  <2>5. ASSUME newest' = m.sequence, snapshot' = m.content, stale' = FALSE,
               S!Publish(text), waiting' = TRUE,
               UNCHANGED <<share, delivered, known, attempted>>
        PROVE  StatusInv'
    <3>1. /\ desired' = text /\ changed' \in BOOLEAN /\ worker' \in Workers
          /\ InHand'
      BY <2>3a, <2>5, PublishTypes
    <3>2. Consented'
      BY <2>2, <2>3a, <2>5, <3>1
    <3> HIDE DEF InHand, Consented
    <3> QED BY <1>1, <1>5, <2>1, <2>2, <2>3a, <2>5, <3>1, <3>2 DEF S!RelayReceives
  <2> QED BY <1>5, <2>3, <2>4, <2>5 DEF S!RelayReceives, m
<1>6. CASE S!Scan
  <2>1. PICK text : text = S!Rendered
    OBVIOUS
  <2>2. text \in S!Texts /\ (text.join = "shown" => share)
    BY <2>1, RendersTexts DEF S!Rendered
  <2>3. /\ desired' = text /\ changed' \in BOOLEAN /\ worker' \in Workers
        /\ InHand'
    BY <1>6, <2>1, <2>2, PublishTypes DEF S!Scan
  <2>4. Consented'
    BY <1>6, <2>2, <2>3 DEF S!Scan
  <2> HIDE DEF InHand, Consented
  <2> QED BY <1>1, <1>6, <2>2, <2>3, <2>4 DEF S!Scan
<1>7. CASE S!RelayRestarts
  <2>1. worker' \in Workers
    BY <1>7 DEF S!RelayRestarts, Workers
  <2> QED BY <1>1, <1>7, <2>1, NoneOnTheirWay DEF S!RelayRestarts, S!NoWorker
<1> QED BY <1>2, <1>3, <1>4, <1>5, <1>6, <1>7

\* The invariant holds in every reachable state of the host, the socket, the
\* relay and its worker.
THEOREM StatusInvariance == ASSUME S!ConstantsOK PROVE S!Spec => []StatusInv
<1>1. S!Init => StatusInv
  <2> SUFFICES ASSUME S!Init PROVE StatusInv
    OBVIOUS
  <2>1. pass \in Passes /\ worker \in Workers /\ InHand
    BY DEF S!Init, Passes, Workers, InHand, S!NoWorker
  <2>2. BoundTypes
    BY DEF S!ConstantsOK, S!Init, BoundTypes
  <2> QED BY <2>1, <2>2, NoneOnTheirWay DEF S!Init, StatusInv, HostTypes, StoreTypes,
     DeliveryTypes, Consented
<1>2. StatusInv /\ [S!Next]_(S!vars) => StatusInv'
  <2> SUFFICES ASSUME StatusInv, [S!Next]_(S!vars) PROVE StatusInv'
    OBVIOUS
  <2>1. CASE S!Next
    BY <2>1, HostKeeps, WorkerKeeps, RelayKeeps DEF S!Next
  <2>2. CASE UNCHANGED S!vars
    BY <2>2 DEF S!vars, S!host, S!store, S!delivery, S!bounds, StatusInv, HostTypes,
       StoreTypes, DeliveryTypes, BoundTypes, InHand, Consented
  <2> QED BY <2>1, <2>2
<1> QED BY <1>1, <1>2, PTL DEF S!Spec

\* The variables of a delivery keep their types: the sequence numbers, the pass
\* of the host and the worker with its attempt.
THEOREM StatusTypesHold == ASSUME S!ConstantsOK PROVE S!Spec => []S!TypeOK
<1>1. StatusInv => S!TypeOK
  BY DEF StatusInv, HostTypes, StoreTypes, DeliveryTypes, BoundTypes, S!TypeOK, Passes,
     S!NoPass, Workers, S!NoWorker, Statuses
<1> QED BY <1>1, StatusInvariance, PTL

\* Whatever is sent, lost, repeated or restarted, the relay stores an address and
\* wants it in the channel only while its own record says that the owner shares
\* it: it refuses a snapshot that says otherwise, takes the address out of the
\* stored one when sharing ends, and tells the worker, which then gives up a text
\* that shows it.
THEOREM AddressesAreShared == ASSUME S!ConstantsOK PROVE S!Spec => []AddressNeedsConsent
<1>1. StatusInv => S!AddressNeedsConsent
  <2> SUFFICES ASSUME StatusInv PROVE S!AddressNeedsConsent
    OBVIOUS
  <2>1. ASSUME worker.step \in {"call", "wait"} PROVE worker # S!NoWorker
    BY <2>1 DEF S!NoWorker
  <2> QED BY <2>1 DEF StatusInv, InHand, Consented, S!AddressNeedsConsent
<1>2. S!AddressNeedsConsent => AddressNeedsConsent
  BY DEF AddressNeedsConsent
<1> QED BY <1>1, <1>2, StatusInvariance, PTL
=============================================================================
