--------------------------- MODULE ConnectorRotation ---------------------------
(***************************************************************************)
(* The rotation of the secret with which a Blockstead host identifies      *)
(* itself to the Discord relay.  The relay keeps the committed secret and  *)
(* at most one pending replacement (store.py); the host keeps an identity  *)
(* file with an active secret and a fallback, and copies of the secret in  *)
(* its WebSocket connector and in its REST client (discord_relay.py).  The *)
(* host may crash between any two steps, a request or its answer may be    *)
(* lost and a write may fail; each of these uses up one of MaxFaults.      *)
(***************************************************************************)
EXTENDS Naturals, Sequences

CONSTANTS
  MaxSecret,  \* bound: how many replacement secrets are ever generated
  MaxFaults,  \* bound: crashes, lost messages, failed writes, lost sessions
  NoSecret    \* no pending secret, no fallback

ConstantsOK ==
  /\ MaxSecret \in Nat /\ MaxFaults \in Nat
  /\ NoSecret \notin Nat

Secrets == 0 .. MaxSecret

VARIABLES
  committed,  \* installations.connector_secret_hash
  pending,    \* installations.pending_connector_secret_hash
  disk,       \* the identity file: [active, fallback]
  up,         \* the Blockstead service runs
  identity,   \* RelayConnector._identity
  client,     \* RelayClient.identity, which relay_identity always equals
  session,    \* the connector's run() loop
  greeting,   \* the secret whose hello the relay has just accepted
  rotation,   \* where rotate_discord_connector() stands
  outcome,    \* what the last rotation since start-up told the owner
  made,       \* the newest secret generated
  overtaken,  \* history: the last hello of the loop came in the middle of a
              \* rotation that has not put the file right since
  faults      \* how many faults have happened

relay == <<committed, pending>>
memory == <<identity, client>>
loop == <<session, greeting>>
vars == <<relay, disk, up, memory, loop, rotation, outcome, made, overtaken, faults>>

File(active, fallback) == [active |-> active, fallback |-> fallback]

\* persist_relay_identity(): the previous active secret becomes the fallback.
Staged(s) ==
  File(s, IF s = disk.active THEN disk.fallback
          ELSE IF s # disk.fallback THEN disk.active ELSE NoSecret)

\* finalize_relay_identity(): the acknowledged secret alone.
Finalized(s) == File(s, NoSecret)

Init ==
  /\ committed = 0 /\ pending = NoSecret
  /\ disk = Finalized(0)
  /\ up = TRUE
  /\ identity = 0 /\ client = 0
  /\ session = "closed" /\ greeting = NoSecret
  /\ rotation = "idle" /\ outcome = "none"
  /\ made = 0 /\ overtaken = FALSE /\ faults = 0

Fault == faults < MaxFaults /\ faults' = faults + 1
NoFault == UNCHANGED faults

-----------------------------------------------------------------------------
(* The relay.                                                              *)

\* _check_current_installation(): REST calls need the committed secret.
Current(s) == s = committed

\* _check_connector_installation(): a hello may also use the pending one.
Welcome(s) == s \in {committed, pending}

\* Mutant: a hello with the pending secret does not commit it.
HelloWithoutPromotion(s) == Welcome(s) /\ UNCHANGED relay

\* A hello that is accepted; one with the pending secret promotes it.
Hello(s) ==
  /\ Welcome(s)
  /\ committed' = s
  /\ pending' = IF s = committed THEN pending ELSE NoSecret

\* Ten minutes pass: far longer than any rotation takes.
PendingExpires ==
  /\ rotation = "idle" /\ session # "greeted"
  /\ pending # NoSecret
  /\ pending' = NoSecret
  /\ UNCHANGED <<committed, disk, up, memory, loop, rotation, outcome, made, overtaken, faults>>

-----------------------------------------------------------------------------
(* rotate_discord_connector().  "stage" and "cancel" block the event loop, *)
(* the probes do not.  The old identity is what the client holds.          *)

\* prepare_rotation(): the relay stores the replacement and closes the
\* host's socket; the answer may be lost.
RotatePrepare ==
  /\ up /\ rotation = "idle" /\ session = "connected"
  /\ made < MaxSecret
  /\ Current(client)
  /\ made' = made + 1
  /\ pending' = made + 1
  /\ session' = "closed"
  /\ \/ rotation' = "stage" /\ outcome' = "none" /\ NoFault
     \/ rotation' = "idle" /\ outcome' = "refused" /\ Fault
  /\ UNCHANGED <<committed, disk, up, memory, greeting, overtaken>>

\* Mutant: the file is overwritten with the replacement alone.
RotateStageAlone ==
  /\ up /\ rotation = "stage"
  /\ disk' = Finalized(made) /\ rotation' = "probe" /\ NoFault
  /\ UNCHANGED <<relay, up, memory, loop, outcome, made, overtaken>>

\* persist_relay_identity(replacement), which may fail.
RotateStage ==
  /\ up /\ rotation = "stage"
  /\ \/ disk' = Staged(made) /\ rotation' = "probe" /\ NoFault
     \/ disk' = Staged(client) /\ rotation' = "cancel" /\ Fault
  /\ UNCHANGED <<relay, up, memory, loop, outcome, made, overtaken>>

\* _probe_identity(replacement): the relay may not be reached, and its
\* acknowledgement may be lost after the secret was promoted.
RotateProbe ==
  /\ up /\ rotation = "probe"
  /\ \/ Hello(made) /\ rotation' = "acked" /\ NoFault
     \/ Hello(made) /\ rotation' = "undo" /\ Fault
     \/ UNCHANGED relay /\ rotation' = "undo" /\ Fault
     \/ ~Welcome(made) /\ UNCHANGED relay /\ rotation' = "undo" /\ NoFault
  /\ UNCHANGED <<disk, up, memory, loop, outcome, made, overtaken>>

\* Mutant: the file keeps the old secret beside the acknowledged one.
RotateSwitchUnsaved ==
  /\ up /\ rotation = "acked"
  /\ identity' = made /\ client' = made
  /\ disk' = Finalized(client)
  /\ session' = "closed" /\ greeting' = NoSecret
  /\ rotation' = "idle" /\ outcome' = "success" /\ overtaken' = FALSE /\ NoFault
  /\ UNCHANGED <<relay, up, made>>

\* The rest of replace_identity() and the REST client's switch.  If the file
\* cannot be written the connector stays stopped.
RotateSwitch ==
  /\ up /\ rotation = "acked"
  /\ identity' = made
  /\ greeting' = NoSecret
  /\ \/ /\ disk' = Finalized(made) /\ client' = made
        /\ session' = IF session = "stopped" THEN "stopped" ELSE "closed"
        /\ rotation' = "idle" /\ outcome' = "success" /\ overtaken' = FALSE /\ NoFault
     \/ /\ session' = "stopped" /\ rotation' = "undo" /\ Fault
        /\ UNCHANGED <<disk, client, outcome, overtaken>>
  /\ UNCHANGED <<relay, up, made>>

\* replace_identity(old_identity): its probe ...
RotateUndo ==
  /\ up /\ rotation = "undo"
  /\ \/ Hello(client) /\ rotation' = "restore" /\ NoFault /\ UNCHANGED outcome
     \/ Hello(client) /\ rotation' = "idle" /\ Fault /\ outcome' = "unverified"
     \/ UNCHANGED relay /\ rotation' = "idle" /\ Fault /\ outcome' = "unverified"
     \/ /\ ~Welcome(client) /\ UNCHANGED relay
        /\ rotation' = "idle" /\ NoFault /\ outcome' = "unverified"
  /\ UNCHANGED <<disk, up, memory, loop, made, overtaken>>

\* ... and its switch back.  persist_relay_identity(old) then changes nothing.
\* If the file cannot be written the connector stays stopped here as well.
RotateRestore ==
  /\ up /\ rotation = "restore"
  /\ identity' = client
  /\ greeting' = NoSecret
  /\ \/ /\ disk' = Finalized(client)
        /\ session' = IF session = "stopped" THEN "stopped" ELSE "closed"
        /\ rotation' = "cancel" /\ overtaken' = FALSE /\ NoFault
        /\ UNCHANGED outcome
     \/ /\ session' = "stopped"
        /\ rotation' = "idle" /\ outcome' = "unverified" /\ Fault
        /\ UNCHANGED <<disk, overtaken>>
  /\ UNCHANGED <<relay, up, client, made>>

\* cancel_rotation(), as far as the relay gets to hear of it.
RotateCancel ==
  /\ up /\ rotation = "cancel"
  /\ \/ pending' = (IF Current(client) THEN NoSecret ELSE pending) /\ NoFault
     \/ UNCHANGED pending /\ Fault
  /\ rotation' = "idle" /\ outcome' = "refused"
  /\ UNCHANGED <<committed, disk, up, memory, loop, made, overtaken>>

-----------------------------------------------------------------------------
(* The connector's run() loop.                                             *)

\* A probe may wait for ten seconds, and the loop tries again after two.
LoopRuns == rotation \notin {"stage", "cancel"}

\* _identity_candidates(): the fallback only beside its own active secret.
Candidates ==
  {identity} \union
  (IF disk.active = identity /\ disk.fallback # NoSecret THEN {disk.fallback} ELSE {})

\* _session() up to the relay's acceptance; a candidate after the first is
\* only tried when the one before it failed.
Connect(s) ==
  /\ up /\ session = "closed" /\ LoopRuns
  /\ s \in Candidates
  /\ IF s = identity \/ ~Welcome(identity) THEN NoFault ELSE Fault
  /\ Hello(s)
  /\ session' = "greeted" /\ greeting' = s
  /\ overtaken' = (rotation # "idle")
  /\ UNCHANGED <<disk, up, memory, rotation, outcome, made>>

\* Mutant: the host commits the file before the relay has acknowledged.
GreetingIgnored ==
  /\ up /\ session = "greeted" /\ LoopRuns
  /\ disk' = Finalized(identity) /\ session' = "connected" /\ NoFault
  /\ greeting' = NoSecret
  /\ UNCHANGED <<relay, up, memory, rotation, outcome, made, overtaken>>

\* hello_ok arrives and the identity is finalized, or one of both fails.
Greeted ==
  /\ up /\ session = "greeted" /\ LoopRuns
  /\ \/ /\ identity' = greeting /\ disk' = Finalized(greeting)
        /\ session' = "connected" /\ NoFault
     \/ identity' = greeting /\ UNCHANGED disk /\ session' = "closed" /\ Fault
     \/ UNCHANGED <<identity, disk>> /\ session' = "closed" /\ Fault
  /\ greeting' = NoSecret
  /\ UNCHANGED <<relay, up, client, rotation, outcome, made, overtaken>>

\* The socket is lost; the loop tries again after its delay.
SessionLost ==
  /\ up /\ session = "connected"
  /\ session' = "closed"
  /\ Fault
  /\ UNCHANGED <<relay, disk, up, memory, greeting, rotation, outcome, made, overtaken>>

-----------------------------------------------------------------------------
(* The service dies and starts again from the file.                        *)

Crash ==
  /\ up /\ Fault
  /\ up' = FALSE
  /\ session' = "closed" /\ greeting' = NoSecret
  /\ rotation' = "idle" /\ outcome' = "none"
  /\ UNCHANGED <<relay, disk, memory, made, overtaken>>

\* Mutant: the fallback is taken for the active identity.
StartFromFallback ==
  /\ ~up /\ up' = TRUE
  /\ identity' = disk.fallback /\ client' = disk.fallback
  /\ UNCHANGED <<relay, disk, loop, rotation, outcome, made, overtaken, faults>>

\* ensure_relay_identity(), the client and the connector of the lifespan.
Start ==
  /\ ~up /\ up' = TRUE
  /\ identity' = disk.active /\ client' = disk.active
  /\ UNCHANGED <<relay, disk, loop, rotation, outcome, made, overtaken, faults>>

-----------------------------------------------------------------------------
RotateStep ==
  \/ RotatePrepare \/ RotateStage \/ RotateProbe \/ RotateSwitch
  \/ RotateUndo \/ RotateRestore \/ RotateCancel

LoopStep == (\E s \in Secrets : Connect(s)) \/ Greeted

Next ==
  \/ PendingExpires \/ RotateStep \/ LoopStep
  \/ SessionLost \/ Crash \/ Start

Spec == Init /\ [][Next]_vars

\* The loop and the request thread run, and the service is started again.
FairSpec ==
  /\ Spec
  /\ WF_vars(LoopStep) /\ WF_vars(Start)
  /\ WF_vars(RotateStep /\ rotation # "idle")

-----------------------------------------------------------------------------
(* Correctness.                                                            *)

\* The type of the state.
TypeOK ==
  /\ committed \in Secrets
  /\ pending \in Secrets \union {NoSecret}
  /\ disk \in [active : Secrets, fallback : Secrets \union {NoSecret}]
  /\ up \in BOOLEAN
  /\ identity \in Secrets
  /\ client \in Secrets
  /\ session \in {"closed", "greeted", "connected", "stopped"}
  /\ greeting \in Secrets \union {NoSecret}
  /\ rotation \in {"idle", "stage", "probe", "acked", "undo", "restore", "cancel"}
  /\ outcome \in {"none", "success", "refused", "unverified"}
  /\ made \in Secrets
  /\ overtaken \in BOOLEAN
  /\ faults \in 0 .. MaxFaults

\* The secret that the relay has committed is in the identity file.
SecretIsStored == committed \in {disk.active, disk.fallback}

\* "Startup tries the stored replacement first after a post-promotion
\* interruption": the host that starts again finds the relay's secret in its file.
InterruptedHostGetsIn == ~up => SecretIsStored

\* Whatever is lost and wherever the service dies, the host is not locked out,
\* unless the loop said hello in the middle of a rotation: it then puts the
\* secret of that hello in place of the staged file.
NeverLockedOut == overtaken \/ SecretIsStored

\* What the owner was told is true, with no such exception: after a success the
\* relay, the file, the connector and the client hold the new secret and only
\* that one; after a refusal the old secret is still in force everywhere.
OwnerToldTheTruth ==
  rotation = "idle" =>
    /\ outcome = "success" =>
         committed = made /\ client = made /\ identity = made /\ disk = Finalized(made)
    /\ outcome = "refused" =>
         committed = client /\ identity = client /\ disk.active = client

\* A started service reconnects, with the replacement or with its fallback, with
\* the same exception.
StartReconnects == ~up ~> session = "connected" \/ overtaken

=============================================================================
