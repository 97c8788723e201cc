------------------------------ MODULE DiscordLink ------------------------------
(***************************************************************************)
(* The life of a Discord connection: a pairing code is registered at the   *)
(* relay, claimed in a channel, confirmed in the dashboard, and from then  *)
(* on the relay and the Blockstead host each keep a record of the same     *)
(* connection.  The host calls the relay over HTTP from request threads    *)
(* and exchanges ordered messages with it over one WebSocket; answers and  *)
(* the socket can be lost, and the records are reconciled on reconnecting. *)
(* A connection carries the number of the pairing it was confirmed from.   *)
(***************************************************************************)
EXTENDS Naturals, Sequences

CONSTANTS
  Profiles,     \* server profiles of the host
  Channels,     \* Discord channels
  Callers,      \* request threads of the dashboard
  MaxPairings,  \* bound: pairing codes ever registered
  MaxFaults,    \* bound: lost answers, lost sockets, restarts of the host
  MaxUpdates,   \* bound: switches ever turned
  NoProfile, NoChannel, NoRow

Ids == 1 .. MaxPairings
RowShape == [key : Ids, id : Ids, channel : Channels, enabled : BOOLEAN]

ConstantsOK ==
  /\ MaxPairings \in Nat /\ MaxFaults \in Nat /\ MaxUpdates \in Nat
  /\ NoProfile \notin Profiles /\ NoChannel \notin Channels /\ NoRow \notin RowShape

VARIABLES
  rpair,     \* the relay's pairings
  rconn,     \* the relay's connections; revoked ones stay as tombstones
  profiles,  \* the host's profiles
  hpair,     \* the host's pairings
  hconn,     \* the host's connection rows, one for a profile at most
  late,      \* pairings whose ten minutes are over
  hostEnd,   \* the host holds an open socket
  relayEnd,  \* the relay holds an open socket
  replay,    \* what the relay has still to repeat to a host that said hello
  toHost,    \* messages on their way to the host
  toRelay,   \* messages on their way to the relay
  calls,     \* what each request thread has to commit
  updates,   \* how many switches have been turned
  faults

relay == <<rpair, rconn>>
host == <<profiles, hpair, hconn>>
socket == <<hostEnd, relayEnd, replay, toHost, toRelay>>
vars == <<relay, host, late, socket, calls, updates, faults>>

Blank == [status |-> "none", profile |-> NoProfile, channel |-> NoChannel]
NotConnected == [status |-> "none", profile |-> NoProfile, channel |-> NoChannel,
                 enabled |-> FALSE]
Idle == [op |-> "none"]

Init ==
  /\ rpair = [i \in Ids |-> Blank]
  /\ rconn = [i \in Ids |-> NotConnected]
  /\ profiles = Profiles
  /\ hpair = [i \in Ids |-> Blank]
  /\ hconn = [p \in Profiles |-> NoRow]
  /\ late = {}
  /\ hostEnd = FALSE /\ relayEnd = FALSE
  /\ replay = <<>> /\ toHost = <<>> /\ toRelay = <<>>
  /\ calls = [c \in Callers |-> Idle]
  /\ updates = 0 /\ faults = 0

Fault == faults < MaxFaults /\ faults' = faults + 1
NoFault == UNCHANGED faults

-----------------------------------------------------------------------------
(* The relay's store.                                                      *)

Active(i) == rconn[i].status = "active"
ChannelTaken(ch) == \E i \in Ids : Active(i) /\ rconn[i].channel = ch
ProfilePaired(p) == \E i \in Ids : Active(i) /\ rconn[i].profile = p

\* The sequences that hold each element of a set once.
Orders(S) ==
  {s \in UNION {[1 .. n -> S] : n \in 0 .. MaxPairings} :
     /\ \A m \in S : \E k \in DOMAIN s : s[k] = m
     /\ \A k, l \in DOMAIN s : s[k] = s[l] => k = l}

Claimed(i) == [type |-> "pairing_claimed", id |-> i, channel |-> rpair[i].channel]
Activated(i) == [type |-> "connection_activated", id |-> i, conn |-> rconn[i]]
Revoked(i) == [type |-> "connection_revoked", id |-> i]
Connections == [type |-> "connections"]
Tombstones == [type |-> "tombstones"]

\* send_host(): without a socket the message is dropped.
SendHost(m) == toHost' = IF relayEnd THEN Append(toHost, m) ELSE toHost

\* _terminal_revoke_locked(): the row stays as a tombstone.
TerminalRevoke(i) ==
  rconn' = [rconn EXCEPT ![i].status = "revoked", ![i].enabled = FALSE]

-----------------------------------------------------------------------------
(* A request thread of the host: the local checks, the relay's handling of *)
(* its call and, unless the answer is lost, a commit still to come.        *)

Answered(c, call) ==
  \/ calls' = [calls EXCEPT ![c] = call] /\ NoFault
  \/ UNCHANGED calls /\ Fault

\* The relay's register_pairing(): an open pairing of the profile is replaced.
Registers(p, i) ==
  /\ ~ProfilePaired(p)
  /\ rpair[i].status = "none"
  /\ \A j \in Ids : j < i => rpair[j].status # "none"
  /\ rpair' = [j \in Ids |->
       IF j = i THEN [status |-> "pending", profile |-> p, channel |-> NoChannel]
       ELSE IF rpair[j].profile = p /\ rpair[j].status = "pending"
            THEN [rpair[j] EXCEPT !.status = "replaced"] ELSE rpair[j]]

\* create_discord_pairing().
Create(c, p) ==
  /\ calls[c] = Idle
  /\ p \in profiles /\ hconn[p] = NoRow
  /\ \E i \in Ids :
       /\ Registers(p, i)
       /\ Answered(c, [op |-> "create", id |-> i, profile |-> p,
            previous |-> {j \in Ids : hpair[j].profile = p /\ hpair[j].status = "pending"}])
  /\ UNCHANGED <<rconn, host, late, socket, updates>>

CreateCommit(c) ==
  /\ calls[c].op = "create"
  /\ hpair' = [j \in Ids |->
       IF j = calls[c].id
       THEN [status |-> "pending", profile |-> calls[c].profile, channel |-> NoChannel]
       ELSE IF j \in calls[c].previous THEN [hpair[j] EXCEPT !.status = "replaced"]
       ELSE hpair[j]]
  /\ calls' = [calls EXCEPT ![c] = Idle]
  /\ UNCHANGED <<relay, profiles, hconn, late, socket, faults, updates>>

\* confirm_discord_pairing() after the ten minutes.
ConfirmLate(i) ==
  /\ hpair[i].status = "pending" /\ i \in late
  /\ hpair' = [hpair EXCEPT ![i].status = "expired"]
  /\ UNCHANGED <<relay, profiles, hconn, late, socket, calls, faults, updates>>

\* The relay's confirm_pairing(), which answers only after it has published the
\* first status message.
Confirms(i, conn) ==
  /\ rpair[i].status = "pending" /\ rpair[i].channel # NoChannel
  /\ ~ChannelTaken(rpair[i].channel) /\ ~ProfilePaired(rpair[i].profile)
  /\ rconn' = [rconn EXCEPT ![i] = conn]
  /\ rpair' = [rpair EXCEPT ![i].status = "confirmed"]
  /\ SendHost([type |-> "connection_activated", id |-> i, conn |-> conn])

\* confirm_discord_pairing().
Confirm(c, i) ==
  LET p == hpair[i].profile
      ch == hpair[i].channel
      conn == [status |-> "active", profile |-> rpair[i].profile,
               channel |-> rpair[i].channel,
               enabled |-> TRUE]
  IN
  /\ calls[c] = Idle
  /\ hpair[i].status = "pending" /\ i \notin late /\ ch # NoChannel
  /\ p \in profiles
  /\ \A q \in Profiles \ {p} : hconn[q] # NoRow => hconn[q].channel # ch
  /\ Confirms(i, conn)
  /\ IF conn.profile = p /\ conn.channel = ch
     THEN Answered(c, [op |-> "confirm", id |-> i, profile |-> p, channel |-> ch,
                       row |-> hconn[p]])
     ELSE UNCHANGED calls /\ NoFault
  /\ UNCHANGED <<host, late, hostEnd, relayEnd, replay, toRelay, updates>>

\* The row is inserted, or the one found before is changed; a channel or a
\* profile that another row has taken meanwhile fails the commit.
ConfirmCommit(c) ==
  LET call == calls[c]
      key == IF call.row = NoRow THEN call.id ELSE call.row.key
      fits == /\ IF call.row = NoRow THEN hconn[call.profile] = NoRow
                 ELSE hconn[call.profile] # NoRow /\ hconn[call.profile].key = key
              /\ \A q \in Profiles \ {call.profile} :
                   hconn[q] # NoRow => hconn[q].channel # call.channel
  IN
  /\ call.op = "confirm"
  /\ IF fits
     THEN /\ hconn' = [hconn EXCEPT ![call.profile] =
               [key |-> key, id |-> call.id, channel |-> call.channel,
                enabled |-> TRUE]]
          /\ hpair' = [hpair EXCEPT ![call.id].status = "confirmed"]
     ELSE UNCHANGED <<hconn, hpair>>
  /\ calls' = [calls EXCEPT ![c] = Idle]
  /\ UNCHANGED <<relay, profiles, late, socket, faults, updates>>

\* The relay's update_connection().
Changes(i, conn) ==
  /\ Active(i)
  /\ rconn' = [rconn EXCEPT ![i] = conn]
  /\ SendHost([type |-> "connection_changed", id |-> i, conn |-> conn])

\* update_discord_connection(): the connection is switched off or on again.
Update(c, p, enabled) ==
  LET i == hconn[p].id
      conn == [rconn[i] EXCEPT !.enabled = enabled]
  IN
  /\ calls[c] = Idle
  /\ hconn[p] # NoRow /\ hconn[p].enabled # enabled
  /\ updates < MaxUpdates /\ updates' = updates + 1
  /\ Changes(i, conn)
  /\ Answered(c, [op |-> "update", profile |-> p, key |-> hconn[p].key, enabled |-> enabled])
  /\ UNCHANGED <<rpair, host, late, hostEnd, relayEnd, replay, toRelay>>

UpdateCommit(c) ==
  LET call == calls[c]
      p == call.profile
  IN
  /\ call.op = "update"
  /\ hconn' = IF hconn[p] # NoRow /\ hconn[p].key = call.key
              THEN [hconn EXCEPT ![p].enabled = call.enabled] ELSE hconn
  /\ calls' = [calls EXCEPT ![c] = Idle]
  /\ UNCHANGED <<relay, profiles, hpair, late, socket, faults, updates>>

\* Mutant: the row goes first, and the call to the relay gets lost.
RevokeLocallyFirst(c, p) ==
  /\ calls[c] = Idle
  /\ hconn[p] # NoRow /\ Fault
  /\ hconn' = [hconn EXCEPT ![p] = NoRow]
  /\ UNCHANGED <<relay, profiles, hpair, late, socket, calls, updates>>

\* revoke_discord_connection() and the relay's delete_connection().
Revoke(c, p) ==
  LET i == hconn[p].id IN
  /\ calls[c] = Idle
  /\ hconn[p] # NoRow
  /\ Active(i)
  /\ TerminalRevoke(i)
  /\ SendHost(Revoked(i))
  /\ Answered(c, [op |-> "revoke", profile |-> p, key |-> hconn[p].key])
  /\ UNCHANGED <<rpair, host, late, hostEnd, relayEnd, replay, toRelay, updates>>

\* Mutant: the row is emptied and stays.
RevokeCommitBlanks(c) ==
  LET p == calls[c].profile IN
  /\ calls[c].op = "revoke"
  /\ hconn' = IF hconn[p] # NoRow /\ hconn[p].key = calls[c].key
              THEN [hconn EXCEPT ![p].channel = NoChannel] ELSE hconn
  /\ calls' = [calls EXCEPT ![c] = Idle]
  /\ UNCHANGED <<relay, profiles, hpair, late, socket, faults, updates>>

RevokeCommit(c) ==
  LET p == calls[c].profile IN
  /\ calls[c].op = "revoke"
  /\ hconn' = IF hconn[p] # NoRow /\ hconn[p].key = calls[c].key
              THEN [hconn EXCEPT ![p] = NoRow] ELSE hconn
  /\ calls' = [calls EXCEPT ![c] = Idle]
  /\ UNCHANGED <<relay, profiles, hpair, late, socket, faults, updates>>

\* The full binding of a row, as the host's messages carry it.
Bound(p, type) == [type |-> type, id |-> hconn[p].id, profile |-> p,
                   channel |-> hconn[p].channel]

\* remove_profile() first tells the relay, over the socket or else by a call that
\* may fail, and then the removal itself may fail.  SQLite is opened without
\* foreign keys: the rows stay.
DeleteProfile(p) ==
  /\ p \in profiles
  /\ \/ /\ hconn[p] = NoRow
        /\ profiles' = profiles \ {p}
        /\ UNCHANGED <<rconn, toHost, toRelay>> /\ NoFault
     \/ /\ hconn[p] # NoRow /\ hostEnd
        /\ toRelay' = IF relayEnd THEN Append(toRelay, Bound(p, "unavailable")) ELSE toRelay
        /\ \/ profiles' = profiles \ {p} /\ NoFault
           \/ UNCHANGED profiles /\ Fault
        /\ UNCHANGED <<rconn, toHost>>
     \/ /\ hconn[p] # NoRow /\ ~hostEnd
        /\ IF Active(hconn[p].id)
           THEN TerminalRevoke(hconn[p].id) /\ SendHost(Revoked(hconn[p].id))
           ELSE UNCHANGED <<rconn, toHost>>
        /\ \/ profiles' = profiles \ {p} /\ NoFault
           \/ UNCHANGED profiles /\ Fault
        /\ UNCHANGED toRelay
     \/ /\ hconn[p] # NoRow /\ ~hostEnd
        /\ profiles' = profiles \ {p}
        /\ UNCHANGED <<rconn, toHost, toRelay>> /\ Fault
  /\ UNCHANGED <<rpair, hpair, hconn, late, hostEnd, relayEnd, replay, calls, updates>>

-----------------------------------------------------------------------------
(* Discord users and time.                                                 *)

\* interaction("pair") and claim_pairing().
Claim(i, ch) ==
  /\ rpair[i].status = "pending" /\ rpair[i].channel = NoChannel
  /\ i \notin late
  /\ ~ChannelTaken(ch)
  /\ rpair' = [rpair EXCEPT ![i].channel = ch]
  /\ SendHost([type |-> "pairing_claimed", id |-> i, channel |-> ch])
  /\ UNCHANGED <<rconn, host, late, hostEnd, relayEnd, replay, toRelay,
                 calls, faults, updates>>

\* interaction("unpair") by the user who paired the channel.
Unpair(i) ==
  /\ Active(i) /\ rconn[i].enabled
  /\ TerminalRevoke(i)
  /\ SendHost(Revoked(i))
  /\ UNCHANGED <<rpair, host, late, hostEnd, relayEnd, replay, toRelay, calls, faults, updates>>

\* The ten minutes end, on two clocks that are taken to agree; it matters
\* only to a pairing that one side still has open.
PairingLapses(i) ==
  /\ i \notin late
  /\ "pending" \in {rpair[i].status, hpair[i].status}
  /\ late' = late \union {i}
  /\ UNCHANGED <<relay, host, socket, calls, faults, updates>>

-----------------------------------------------------------------------------
(* The socket.                                                             *)

\* hello and hello_ok: the relay looks up what it has to repeat, the host
\* reports every row ("relay_connected").
Connect ==
  LET rows == {i \in Ids : \E p \in Profiles : hconn[p] # NoRow /\ hconn[p].id = i}
      owner(i) == CHOOSE p \in Profiles : hconn[p] # NoRow /\ hconn[p].id = i
      report(i) == IF owner(i) \notin profiles THEN Bound(owner(i), "unavailable")
                   ELSE IF hconn[owner(i)].enabled THEN Bound(owner(i), "binding")
                   ELSE Bound(owner(i), "disabled")
      open(i) == rpair[i].status = "pending" /\ i \notin late
  IN
  /\ ~hostEnd /\ ~relayEnd
  /\ hostEnd' = TRUE /\ relayEnd' = TRUE
  /\ rpair' = [i \in Ids |-> IF rpair[i].status = "pending" /\ i \in late
                             THEN [rpair[i] EXCEPT !.status = "expired"] ELSE rpair[i]]
  /\ \E claims \in Orders({Claimed(i) : i \in {j \in Ids : open(j) /\ rpair[j].channel # NoChannel}}) :
       replay' = claims \o <<Connections, Tombstones>>
  /\ toRelay' \in Orders({report(i) : i \in rows})
  /\ UNCHANGED <<rconn, host, late, toHost, calls, faults, updates>>

\* Mutant: a reconnecting host is not told what was revoked meanwhile.
ReplayNoTombstones(marker) ==
  IF marker = Connections
  THEN {Activated(i) : i \in {j \in Ids : Active(j) /\ rconn[j].enabled}}
  ELSE {}

\* What connect_host() repeats: the connections, then the tombstones.
ReplayList(marker) ==
  IF marker = Connections
  THEN {Activated(i) : i \in {j \in Ids : Active(j) /\ rconn[j].enabled}}
  ELSE {Revoked(i) : i \in {j \in Ids : rconn[j].status = "revoked"}}

\* It sends one message after the other.  Each list is looked up when its turn
\* comes, and its first message then leaves at once.
Replay ==
  /\ relayEnd /\ replay # <<>>
  /\ \/ /\ Head(replay) \notin {Connections, Tombstones}
        /\ toHost' = Append(toHost, Head(replay)) /\ replay' = Tail(replay)
     \/ /\ Head(replay) \in {Connections, Tombstones}
        /\ ReplayList(Head(replay)) = {}
        /\ UNCHANGED toHost /\ replay' = Tail(replay)
     \/ /\ Head(replay) \in {Connections, Tombstones}
        /\ \E list \in Orders(ReplayList(Head(replay))) :
             /\ list # <<>>
             /\ toHost' = Append(toHost, Head(list)) /\ replay' = Tail(list) \o Tail(replay)
  /\ UNCHANGED <<relay, host, late, hostEnd, relayEnd, toRelay, calls, faults, updates>>

Hangup == relayEnd' = FALSE /\ replay' = <<>> /\ toRelay' = <<>>

\* The relay's end is gone and the host has read what was sent before.
HostSeesClose ==
  /\ hostEnd /\ ~relayEnd /\ toHost = <<>>
  /\ hostEnd' = FALSE
  /\ UNCHANGED <<relay, host, late, relayEnd, replay, toHost, toRelay, calls, faults, updates>>

CloseBoth ==
  /\ hostEnd' = FALSE /\ relayEnd' = FALSE
  /\ replay' = <<>> /\ toHost' = <<>> /\ toRelay' = <<>>

\* The network drops the socket with all that it carries.
SocketLost ==
  /\ hostEnd \/ relayEnd
  /\ Fault
  /\ CloseBoth
  /\ UNCHANGED <<relay, host, late, calls, updates>>

\* The host restarts: its request threads end where they are.
HostRestarts ==
  /\ Fault
  /\ CloseBoth
  /\ calls' = [c \in Callers |-> Idle]
  /\ UNCHANGED <<relay, host, late, updates>>

Send(m) == toRelay' = IF relayEnd THEN Append(toRelay, m) ELSE toRelay

\* A message that does not name an active connection exactly.
Unknown(m) ==
  ~(Active(m.id) /\ rconn[m.id].profile = m.profile /\ rconn[m.id].channel = m.channel)

\* relay_heartbeat_pass() for one enabled row; a heartbeat that finds its
\* connection changes nothing and is left out.  Bound: heartbeats are far apart,
\* and the one before has been carried when the next is sent.
Heartbeat(p) ==
  /\ hostEnd /\ hconn[p] # NoRow /\ hconn[p].enabled
  /\ Unknown(Bound(p, "heartbeat"))
  /\ toRelay = <<>>
  /\ Send(Bound(p, "heartbeat"))
  /\ UNCHANGED <<relay, host, late, hostEnd, relayEnd, replay, toHost, calls, faults, updates>>

-----------------------------------------------------------------------------
(* Receiving.                                                              *)

\* connect_host() reads the next message once it has repeated everything.
RelayReceives ==
  LET m == Head(toRelay) IN
  /\ relayEnd /\ replay = <<>> /\ toRelay # <<>>
  /\ \/ /\ Unknown(m)
        /\ Hangup
        /\ UNCHANGED <<rconn, toHost>>
     \/ /\ ~Unknown(m) /\ m.type \in {"unavailable", "disabled"}
        /\ TerminalRevoke(m.id) /\ SendHost(Revoked(m.id))
        /\ toRelay' = Tail(toRelay) /\ UNCHANGED <<relayEnd, replay>>
     \/ /\ ~Unknown(m) /\ m.type \in {"binding", "heartbeat"}
        /\ toRelay' = Tail(toRelay)
        /\ UNCHANGED <<rconn, toHost, relayEnd, replay>>
  /\ UNCHANGED <<rpair, host, late, hostEnd, calls, faults, updates>>

Row(i) == {p \in Profiles : hconn[p] # NoRow /\ hconn[p].id = i}
InFlight(p) == \E j \in Ids : hpair[j].status = "pending" /\ hpair[j].profile = p

\* Mutant: an activation without a row is left alone.
RefusedNever(m) == FALSE

\* An activation without a row is refused unless its pairing is still open.
Refused(m) == m.type = "connection_activated" /\ ~InFlight(m.conn.profile)

\* relay_event(): a claim is noted on a pairing that is still open ...
HearsClaim(m) ==
  /\ m.type = "pairing_claimed"
  /\ hpair' = IF hpair[m.id].status = "pending" /\ m.id \notin late
              THEN [hpair EXCEPT ![m.id].channel = m.channel] ELSE hpair
  /\ UNCHANGED <<hconn, toRelay>>

\* ... the relay's switches overwrite those of the row, if there is one ...
HearsConnection(m) ==
  /\ m.type \in {"connection_activated", "connection_changed"} /\ Row(m.id) # {}
  /\ hconn' = [p \in Profiles |->
       IF p \notin Row(m.id) THEN hconn[p]
       ELSE [hconn[p] EXCEPT !.enabled = m.conn.enabled]]
  /\ UNCHANGED <<hpair, toRelay>>

\* ... a connection without a row may be refused ...
HearsStranger(m) ==
  /\ m.type \in {"connection_activated", "connection_changed"} /\ Row(m.id) = {}
  /\ IF Refused(m)
     THEN Send([type |-> "unavailable", id |-> m.id, profile |-> m.conn.profile,
                channel |-> m.conn.channel])
     ELSE UNCHANGED toRelay
  /\ UNCHANGED <<hconn, hpair>>

\* ... and a revoked one loses its row.
HearsRevocation(m) ==
  /\ m.type = "connection_revoked"
  /\ hconn' = [p \in Profiles |-> IF p \in Row(m.id) THEN NoRow ELSE hconn[p]]
  /\ UNCHANGED <<hpair, toRelay>>

Hears(m) == HearsClaim(m) \/ HearsConnection(m) \/ HearsStranger(m) \/ HearsRevocation(m)

HostReceives ==
  /\ hostEnd /\ toHost # <<>>
  /\ toHost' = Tail(toHost)
  /\ Hears(Head(toHost))
  /\ UNCHANGED <<relay, profiles, late, hostEnd, relayEnd, replay, calls, faults, updates>>

-----------------------------------------------------------------------------
Commit(c) == CreateCommit(c) \/ ConfirmCommit(c) \/ UpdateCommit(c) \/ RevokeCommit(c)

Owner ==
  \/ \E c \in Callers, p \in Profiles :
       Create(c, p) \/ Revoke(c, p) \/ (\E b \in BOOLEAN : Update(c, p, b))
  \/ \E c \in Callers, i \in Ids : Confirm(c, i)
  \/ \E i \in Ids : ConfirmLate(i)
  \/ \E p \in Profiles : DeleteProfile(p)

Discord == \E i \in Ids : Unpair(i) \/ PairingLapses(i) \/ (\E ch \in Channels : Claim(i, ch))

Socket ==
  \/ Connect \/ Replay \/ HostSeesClose \/ SocketLost \/ HostRestarts
  \/ RelayReceives \/ HostReceives
  \/ \E p \in Profiles : Heartbeat(p)

Next == Owner \/ (\E c \in Callers : Commit(c)) \/ Discord \/ Socket

Spec == Init /\ [][Next]_vars

\* The connector and the heartbeats of the host, the relay's coroutine for it
\* and the request threads run; owners and Discord users need do nothing.
FairSpec ==
  /\ Spec
  /\ WF_vars(Connect \/ HostReceives \/ HostSeesClose)
  /\ WF_vars(Replay \/ RelayReceives)
  /\ \A c \in Callers : WF_vars(Commit(c))
  /\ \A p \in Profiles : WF_vars(Heartbeat(p))

-----------------------------------------------------------------------------
(* Correctness.                                                            *)

\* The type of the state.
TypeOK ==
  /\ rpair \in [Ids -> [status : {"none", "pending", "replaced", "expired", "confirmed"},
                        profile : Profiles \union {NoProfile},
                        channel : Channels \union {NoChannel}]]
  /\ rconn \in [Ids -> [status : {"none", "active", "revoked"},
                        profile : Profiles \union {NoProfile},
                        channel : Channels \union {NoChannel},
                        enabled : BOOLEAN]]
  /\ profiles \subseteq Profiles
  /\ hpair \in [Ids -> [status : {"none", "pending", "replaced", "expired", "confirmed"},
                        profile : Profiles \union {NoProfile},
                        channel : Channels \union {NoChannel}]]
  /\ hconn \in [Profiles -> RowShape \union {NoRow}]
  /\ late \subseteq Ids
  /\ hostEnd \in BOOLEAN /\ relayEnd \in BOOLEAN
  /\ updates \in 0 .. MaxUpdates /\ faults \in 0 .. MaxFaults

\* A connection that the host has confirmed keeps its row, with the profile
\* and the channel the relay serves, until the relay has revoked it.
KnownUntilRevoked ==
  \A i \in Ids : hpair[i].status = "confirmed" /\ Active(i) =>
    LET p == rconn[i].profile IN
    hconn[p] # NoRow /\ hconn[p].id = i /\ hconn[p].channel = rconn[i].channel

Forgotten(i) == rconn[i].status = "revoked" => Row(i) = {}
Orphan(i) == Active(i) /\ rconn[i].enabled /\ Row(i) = {} /\ ~InFlight(rconn[i].profile)
Repeats(marker) == \E k \in DOMAIN replay : replay[k] = marker

\* Lost answers and lost sockets are repaired: a revoked connection loses its
\* row at the host, and one the host knows nothing of is revoked once the
\* host has reconnected.
RecordsReconcile ==
  \A i \in Ids :
    (~Forgotten(i) \/ (Orphan(i) /\ Repeats(Connections))) ~> (Forgotten(i) /\ ~Orphan(i))

\* A connection that was switched off stays bound to its channel: it is revoked
\* only by its owner or because its profile was deleted.
DisableIsReversible ==
  [][\A i \in Ids : Active(i) /\ ~rconn[i].enabled /\ rconn'[i].status = "revoked" =>
       \/ rconn[i].profile \notin profiles'
       \/ \E c \in Callers, p \in Profiles : Revoke(c, p)]_vars

=============================================================================
