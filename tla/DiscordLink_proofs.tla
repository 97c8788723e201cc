--------------------------- MODULE DiscordLink_proofs ---------------------------
(***************************************************************************)
(* Proof that a connection the host has confirmed stays known to it until  *)
(* the relay has revoked it, for any number of profiles, channels, request *)
(* threads, pairings and faults.                                           *)
(***************************************************************************)
EXTENDS DiscordLink, SequenceTheorems, TLAPS

Pairs == [status : {"none", "pending", "replaced", "expired", "confirmed"},
          profile : Profiles \union {NoProfile}, channel : Channels \union {NoChannel}]
Conns == [status : {"none", "active", "revoked"}, profile : Profiles \union {NoProfile},
          channel : Channels \union {NoChannel}, enabled : BOOLEAN]

Calls ==
  {Idle}
  \union [op : {"create"}, id : Ids, profile : Profiles, previous : SUBSET Ids]
  \union [op : {"confirm"}, id : Ids, profile : Profiles, channel : Channels,
          row : RowShape \union {NoRow}]
  \union [op : {"update"}, profile : Profiles, key : Ids, enabled : BOOLEAN]
  \union [op : {"revoke"}, profile : Profiles, key : Ids]

HostMessages ==
  [type : {"pairing_claimed"}, id : Ids, channel : Channels]
  \union [type : {"connection_activated", "connection_changed"}, id : Ids, conn : Conns]
  \union [type : {"connection_revoked"}, id : Ids]

RelayMessages ==
  [type : {"unavailable", "disabled", "binding", "heartbeat"}, id : Ids,
   profile : Profiles \union {NoProfile}, channel : Channels \union {NoChannel}]

\* A revocation is told only when it has happened.
Truths == {m \in HostMessages : m.type = "connection_revoked" => rconn[m.id].status = "revoked"}

MessageInv ==
  /\ toHost \in Seq(Truths)
  /\ replay \in Seq(Truths \union {Connections, Tombstones})
  /\ toRelay \in Seq(RelayMessages)

\* The relay's two tables agree, and a profile has at most one pairing or
\* connection that is open.
Open(i) == rpair[i].status = "pending" \/ Active(i)

RelayInv ==
  /\ \A i \in Ids : rpair[i].status # "none" => rpair[i].profile \in Profiles
  /\ \A i \in Ids : rconn[i].status # "none" =>
       /\ rpair[i].status = "confirmed"
       /\ rconn[i].profile = rpair[i].profile
       /\ rconn[i].channel = rpair[i].channel /\ rconn[i].channel \in Channels
  /\ \A i, j \in Ids : i # j /\ Open(i) /\ Open(j) => rpair[i].profile # rpair[j].profile

HasKey(p, k) == hconn[p] # NoRow /\ hconn[p].key = k
Confirming(c) == calls[c].op = "confirm"
HoldsKey(c, k) ==
  \/ Confirming(c) /\ calls[c].row # NoRow /\ calls[c].row.key = k
  \/ calls[c].op = "revoke" /\ calls[c].key = k

\* A row names a connection of its profile; its key is the pairing it was first
\* confirmed from, and no other commit that is still to come has that number.
RowInv ==
  \A p \in Profiles : hconn[p] # NoRow =>
    /\ rpair[hconn[p].key].status = "confirmed"
    /\ rconn[hconn[p].id].status # "none" /\ rconn[hconn[p].id].profile = p
    /\ \A d \in Callers : Confirming(d) => calls[d].id # hconn[p].key

\* What the commits that are still to come rely on: as long as the row they
\* have read is there, nobody else's pairing of its profile is open.
CallInv ==
  /\ \A c \in Callers : Confirming(c) =>
       /\ rpair[calls[c].id].status = "confirmed"
       /\ rconn[calls[c].id].status # "none"
       /\ rconn[calls[c].id].profile = calls[c].profile
       /\ rconn[calls[c].id].channel = calls[c].channel
       /\ calls[c].row # NoRow =>
            /\ rpair[calls[c].row.key].status = "confirmed"
            /\ HasKey(calls[c].profile, calls[c].row.key) =>
                 \A j \in Ids : j # calls[c].id /\ Open(j) => rpair[j].profile # calls[c].profile
  /\ \A c \in Callers : calls[c].op = "revoke" =>
       /\ rpair[calls[c].key].status = "confirmed"
       /\ HasKey(calls[c].profile, calls[c].key) =>
            \A j \in Ids : Open(j) => rpair[j].profile # calls[c].profile
  /\ \A c, d \in Callers : c # d /\ Confirming(c) /\ Confirming(d) => calls[c].id # calls[d].id
  /\ \A c, d \in Callers : Confirming(d) => ~HoldsKey(c, calls[d].id)

TypeInv ==
  /\ rpair \in [Ids -> Pairs] /\ hpair \in [Ids -> Pairs]
  /\ rconn \in [Ids -> Conns]
  /\ hconn \in [Profiles -> RowShape \union {NoRow}]
  /\ calls \in [Callers -> Calls]
  /\ profiles \subseteq Profiles /\ late \subseteq Ids
  /\ updates \in 0 .. MaxUpdates /\ faults \in 0 .. MaxFaults
  /\ hostEnd \in BOOLEAN /\ relayEnd \in BOOLEAN

\* The inductive invariant.
Inv == TypeInv /\ MessageInv /\ RelayInv /\ RowInv /\ CallInv /\ KnownUntilRevoked

-----------------------------------------------------------------------------
(* Sequences.                                                              *)

\* A sequence over a set is one over a larger set.
LEMMA SeqMono == ASSUME NEW S, NEW T, S \subseteq T, NEW s \in Seq(S) PROVE s \in Seq(T)
OBVIOUS

\* An order of a set is a sequence over it.
LEMMA OrdersAreSequences ==
  ASSUME ConstantsOK, NEW S, NEW s \in Orders(S) PROVE s \in Seq(S)
<1>1. PICK n \in 0 .. MaxPairings : s \in [1 .. n -> S]
  BY DEF Orders
<1> QED BY <1>1 DEF ConstantsOK

\* Taking the first message of a sequence.
LEMMA HeadTail ==
  ASSUME NEW S, NEW s \in Seq(S), s # <<>>
  PROVE  Head(s) \in S /\ Tail(s) \in Seq(S)
OBVIOUS

\* Revocation is final, so what was true to say stays true.
LEMMA TruthsLast ==
  ASSUME \A i \in Ids : rconn[i].status = "revoked" => rconn'[i].status = "revoked"
  PROVE  Truths \subseteq Truths'
BY DEF Truths, HostMessages

-----------------------------------------------------------------------------
\* The invariant holds at the start.
LEMMA InitInv == ASSUME ConstantsOK PROVE Init => Inv
<1> SUFFICES ASSUME Init PROVE Inv
  OBVIOUS
<1>1. TypeInv
  <2>1. rpair \in [Ids -> Pairs] /\ hpair \in [Ids -> Pairs] /\ rconn \in [Ids -> Conns]
    BY DEF Init, Blank, NotConnected, Pairs, Conns
  <2>2. hconn \in [Profiles -> RowShape \union {NoRow}] /\ calls \in [Callers -> Calls]
    BY DEF Init, Calls
  <2>3. updates \in 0 .. MaxUpdates /\ faults \in 0 .. MaxFaults
    BY DEF Init, ConstantsOK
  <2>4. hostEnd \in BOOLEAN /\ relayEnd \in BOOLEAN /\ profiles \subseteq Profiles /\ late \subseteq Ids
    BY DEF Init
  <2> QED BY <2>1, <2>2, <2>3, <2>4 DEF TypeInv
<1>2. MessageInv
  BY DEF Init, MessageInv
<1>3. RelayInv
  BY DEF Init, RelayInv, Blank, NotConnected, Open, Active
<1>4. RowInv /\ CallInv /\ KnownUntilRevoked
  BY DEF Init, RowInv, CallInv, KnownUntilRevoked, Confirming, HoldsKey, Idle, Blank, Active
<1> QED BY <1>1, <1>2, <1>3, <1>4 DEF Inv

-----------------------------------------------------------------------------
(* What the steps have in common.                                          *)

PairStates == {"none", "pending", "replaced", "expired", "confirmed"}

\* Records keep their type when a field is set.
LEMMA PairTypes ==
  ASSUME NEW r \in Pairs
  PROVE  /\ \A st \in PairStates : [r EXCEPT !.status = st] \in Pairs
         /\ \A ch \in Channels : [r EXCEPT !.channel = ch] \in Pairs
BY DEF Pairs, PairStates

\* So do connections, when they are revoked or switched.
LEMMA ConnTypes ==
  ASSUME NEW r \in Conns
  PROVE  /\ [r EXCEPT !.status = "revoked", !.enabled = FALSE] \in Conns
         /\ \A b \in BOOLEAN : [r EXCEPT !.enabled = b] \in Conns
BY DEF Conns

\* A revoked connection keeps everything but its status and its switch.
LEMMA RevokeTypes ==
  ASSUME TypeInv, NEW i \in Ids, TerminalRevoke(i)
  PROVE  /\ rconn' \in [Ids -> Conns]
         /\ rconn'[i].status = "revoked"
         /\ \A j \in Ids : /\ rconn'[j].profile = rconn[j].profile
                           /\ rconn'[j].channel = rconn[j].channel
                           /\ j # i => rconn'[j] = rconn[j]
<1>1. rconn' = [rconn EXCEPT ![i] = [rconn[i] EXCEPT !.status = "revoked", !.enabled = FALSE]]
  BY DEF TerminalRevoke, TypeInv
<1>2. rconn[i] \in Conns
  BY DEF TypeInv
<1>3. rconn' \in [Ids -> Conns]
  BY <1>1, <1>2, ConnTypes DEF TypeInv
<1>4. rconn'[i].status = "revoked" /\ rconn'[i].profile = rconn[i].profile
      /\ rconn'[i].channel = rconn[i].channel
  BY <1>1, <1>2 DEF TypeInv, Conns
<1>5. \A j \in Ids : j # i => rconn'[j] = rconn[j]
  BY <1>1 DEF TypeInv
<1> QED BY <1>3, <1>4, <1>5

\* What the relay has can only have closed.
Closing ==
  /\ \A j \in Ids : rpair'[j].profile = rpair[j].profile
  /\ \A j \in Ids : rpair[j].status = "confirmed" => rpair'[j].status = "confirmed"
  /\ \A j \in Ids : Open(j)' => Open(j)
  /\ \A j \in Ids : rconn[j].status # "none" =>
       /\ rconn'[j].status # "none"
       /\ rconn'[j].profile = rconn[j].profile /\ rconn'[j].channel = rconn[j].channel

\* Revoking a connection only closes.
LEMMA RevokeCloses ==
  ASSUME TypeInv, NEW i \in Ids, TerminalRevoke(i), rpair' = rpair
  PROVE  Closing
BY RevokeTypes DEF Closing, Open, Active

\* Revoking a connection leaves the relay's tables in agreement.
LEMMA RevokeKeepsRelay ==
  ASSUME TypeInv, RelayInv, NEW i \in Ids, Active(i), TerminalRevoke(i), rpair' = rpair
  PROVE  RelayInv'
BY RevokeTypes DEF RelayInv, Open, Active

\* Rows and commits to come can only have gone.
RowsFade ==
  \A p \in Profiles : hconn'[p] # NoRow =>
    hconn[p] # NoRow /\ hconn'[p].key = hconn[p].key /\ hconn'[p].id = hconn[p].id

CallsFade ==
  \A c \in Callers : calls'[c] = calls[c] \/ calls'[c].op \notin {"confirm", "revoke"}

\* What a commit to come consists of.
LEMMA CallTypes ==
  ASSUME TypeInv, NEW c \in Callers
  PROVE  /\ Confirming(c) =>
              /\ calls[c].id \in Ids /\ calls[c].profile \in Profiles
              /\ calls[c].channel \in Channels /\ calls[c].row \in RowShape \union {NoRow}
              /\ calls[c].row # NoRow => calls[c].row.key \in Ids
         /\ calls[c].op = "revoke" => calls[c].profile \in Profiles /\ calls[c].key \in Ids
BY DEF TypeInv, Calls, Idle, Confirming, RowShape

\* What a row consists of.
LEMMA RowTypes ==
  ASSUME TypeInv, NEW p \in Profiles, hconn[p] # NoRow
  PROVE  hconn[p] \in RowShape /\ hconn[p].key \in Ids /\ hconn[p].id \in Ids
         /\ hconn[p].channel \in Channels
BY DEF TypeInv, RowShape

\* Then the rows and the commits to come stay right.
LEMMA FadingKeeps ==
  ASSUME TypeInv, RowInv, CallInv, Closing, RowsFade, CallsFade
  PROVE  RowInv' /\ CallInv'
<1>1. \A j \in Ids : Open(j)' => Open(j)
  BY DEF Closing
<1>2. \A c \in Callers : Confirming(c)' => Confirming(c) /\ calls'[c] = calls[c]
  BY DEF CallsFade, Confirming
<1>3. \A c \in Callers : calls'[c].op = "revoke" => calls[c].op = "revoke" /\ calls'[c] = calls[c]
  BY DEF CallsFade
<1>4. RowInv'
  <2> SUFFICES ASSUME NEW p \in Profiles, hconn'[p] # NoRow
               PROVE  /\ rpair'[hconn'[p].key].status = "confirmed"
                      /\ rconn'[hconn'[p].id].status # "none" /\ rconn'[hconn'[p].id].profile = p
                      /\ \A d \in Callers : Confirming(d)' => calls'[d].id # hconn'[p].key
    BY DEF RowInv
  <2>1. hconn[p] # NoRow /\ hconn'[p].key = hconn[p].key /\ hconn'[p].id = hconn[p].id
    BY DEF RowsFade
  <2> QED BY <1>2, <2>1, RowTypes DEF RowInv, Closing
<1>5. \A p \in Profiles, k \in Ids : HasKey(p, k)' => HasKey(p, k)
  BY DEF RowsFade, HasKey
<1>6. ASSUME NEW c \in Callers, Confirming(c)'
      PROVE  /\ rpair'[calls'[c].id].status = "confirmed"
             /\ rconn'[calls'[c].id].status # "none"
             /\ rconn'[calls'[c].id].profile = calls'[c].profile
             /\ rconn'[calls'[c].id].channel = calls'[c].channel
             /\ calls'[c].row # NoRow =>
                  /\ rpair'[calls'[c].row.key].status = "confirmed"
                  /\ HasKey(calls[c].profile, calls[c].row.key)' =>
                       \A j \in Ids : j # calls'[c].id /\ Open(j)' => rpair'[j].profile # calls'[c].profile
  BY <1>1, <1>2, <1>5, <1>6, CallTypes DEF CallInv, Closing
<1>7. ASSUME NEW c \in Callers, calls'[c].op = "revoke"
      PROVE  /\ rpair'[calls'[c].key].status = "confirmed"
             /\ HasKey(calls[c].profile, calls[c].key)' =>
                  \A j \in Ids : Open(j)' => rpair'[j].profile # calls'[c].profile
  BY <1>1, <1>3, <1>5, <1>7, CallTypes DEF CallInv, Closing
<1>8. \A c, d \in Callers : c # d /\ Confirming(c)' /\ Confirming(d)' => calls'[c].id # calls'[d].id
  BY <1>2 DEF CallInv
<1>9. \A c, d \in Callers : Confirming(d)' => ~HoldsKey(c, calls[d].id)'
  BY <1>2, <1>3 DEF CallInv, HoldsKey
<1>10. CallInv'
  BY <1>2, <1>6, <1>7, <1>8, <1>9 DEF CallInv
<1> QED BY <1>4, <1>10

Others(c) == \A d \in Callers : d # c => calls'[d] = calls[d]

\* A confirmation still to be committed is added: what it must bring, so that
\* the rows and the commits stay right.
LEMMA JoinKeeps ==
  ASSUME TypeInv, RowInv, CallInv, Closing, hconn' = hconn,
         NEW c \in Callers, Others(c), NEW call, calls'[c] = call, call.op = "confirm",
         NEW i \in Ids, call.id = i, NEW p \in Profiles, call.profile = p, call.row = hconn[p],
         rpair'[i].status = "confirmed", rconn'[i].status # "none",
         rconn'[i].profile = p, rconn'[i].channel = call.channel,
         \A q \in Profiles : hconn[q] # NoRow => hconn[q].key # i,
         \A j \in Ids : j # i /\ Open(j)' => rpair'[j].profile # p,
         \A d \in Callers : (Confirming(d) => calls[d].id # i) /\ ~HoldsKey(d, i)
  PROVE  RowInv' /\ CallInv'
<1>1. \A d \in Callers : d # c => (Confirming(d)' <=> Confirming(d)) /\ calls'[d] = calls[d]
  BY DEF Others, Confirming
<1>2. RowInv'
  BY <1>1, RowTypes DEF RowInv, Closing
<1>3. ASSUME NEW d \in Callers, Confirming(d)'
      PROVE  /\ rpair'[calls'[d].id].status = "confirmed"
             /\ rconn'[calls'[d].id].status # "none"
             /\ rconn'[calls'[d].id].profile = calls'[d].profile
             /\ rconn'[calls'[d].id].channel = calls'[d].channel
             /\ calls'[d].row # NoRow =>
                  /\ rpair'[calls'[d].row.key].status = "confirmed"
                  /\ HasKey(calls[d].profile, calls[d].row.key)' =>
                       \A j \in Ids : j # calls'[d].id /\ Open(j)' => rpair'[j].profile # calls'[d].profile
  <2>1. CASE d = c
    BY <2>1, RowTypes DEF RowInv, Closing
  <2>2. CASE d # c
    BY <1>1, <1>3, <2>2, CallTypes DEF CallInv, Closing, HasKey
  <2> QED BY <2>1, <2>2
<1>4. ASSUME NEW d \in Callers, calls'[d].op = "revoke"
      PROVE  /\ rpair'[calls'[d].key].status = "confirmed"
             /\ HasKey(calls[d].profile, calls[d].key)' =>
                  \A j \in Ids : Open(j)' => rpair'[j].profile # calls'[d].profile
  BY <1>1, <1>4, CallTypes DEF CallInv, Closing, HasKey
<1>5. \A d, e \in Callers : d # e /\ Confirming(d)' /\ Confirming(e)' => calls'[d].id # calls'[e].id
  BY <1>1 DEF CallInv
<1>6. ASSUME NEW d \in Callers, NEW e \in Callers, Confirming(e)'
      PROVE  ~HoldsKey(d, calls[e].id)'
  <2>1. CASE d = c /\ e = c
    BY <2>1 DEF HoldsKey
  <2>2. CASE d = c /\ e # c
    <3>1. Confirming(e) /\ calls'[e].id = calls[e].id
      BY <1>1, <1>6, <2>2
    <3>2. hconn[p] # NoRow => hconn[p].key # calls[e].id
      BY <3>1 DEF RowInv
    <3> QED BY <2>2, <3>1, <3>2 DEF HoldsKey
  <2>3. CASE d # c /\ e = c
    BY <1>1, <2>3 DEF HoldsKey, Confirming
  <2>4. CASE d # c /\ e # c
    BY <1>1, <1>6, <2>4 DEF CallInv, HoldsKey
  <2> QED BY <2>1, <2>2, <2>3, <2>4
<1>7. CallInv'
  BY <1>3, <1>4, <1>5, <1>6 DEF CallInv
<1> QED BY <1>2, <1>7

\* The same for a revocation still to be committed.
LEMMA RevokerKeeps ==
  ASSUME TypeInv, RowInv, CallInv, Closing, hconn' = hconn,
         NEW c \in Callers, Others(c), NEW call, calls'[c] = call, call.op = "revoke",
         NEW p \in Profiles, call.profile = p, hconn[p] # NoRow, call.key = hconn[p].key,
         \A j \in Ids : Open(j)' => rpair'[j].profile # p
  PROVE  RowInv' /\ CallInv'
<1>1. \A d \in Callers : Confirming(d)' => d # c /\ Confirming(d) /\ calls'[d] = calls[d]
  BY DEF Others, Confirming
<1>2. RowInv'
  BY <1>1, RowTypes DEF RowInv, Closing
<1>3. ASSUME NEW d \in Callers, Confirming(d)'
      PROVE  /\ rpair'[calls'[d].id].status = "confirmed"
             /\ rconn'[calls'[d].id].status # "none"
             /\ rconn'[calls'[d].id].profile = calls'[d].profile
             /\ rconn'[calls'[d].id].channel = calls'[d].channel
             /\ calls'[d].row # NoRow =>
                  /\ rpair'[calls'[d].row.key].status = "confirmed"
                  /\ HasKey(calls[d].profile, calls[d].row.key)' =>
                       \A j \in Ids : j # calls'[d].id /\ Open(j)' => rpair'[j].profile # calls'[d].profile
  BY <1>1, <1>3, CallTypes DEF CallInv, Closing, HasKey
<1>4. ASSUME NEW d \in Callers, calls'[d].op = "revoke"
      PROVE  /\ rpair'[calls'[d].key].status = "confirmed"
             /\ HasKey(calls[d].profile, calls[d].key)' =>
                  \A j \in Ids : Open(j)' => rpair'[j].profile # calls'[d].profile
  <2>1. CASE d = c
    BY <2>1, RowTypes DEF RowInv, Closing
  <2>2. CASE d # c
    BY <1>4, <2>2, CallTypes DEF CallInv, Closing, HasKey, Others
  <2> QED BY <2>1, <2>2
<1>5. \A d, e \in Callers : d # e /\ Confirming(d)' /\ Confirming(e)' => calls'[d].id # calls'[e].id
  BY <1>1 DEF CallInv
<1>6. ASSUME NEW d \in Callers, NEW e \in Callers, Confirming(e)'
      PROVE  ~HoldsKey(d, calls[e].id)'
  <2>1. Confirming(e) /\ calls'[e].id = calls[e].id
    BY <1>1, <1>6
  <2>2. CASE d = c
    <3>1. hconn[p].key # calls[e].id
      BY <2>1 DEF RowInv
    <3> QED BY <2>1, <2>2, <3>1 DEF HoldsKey, Confirming
  <2>3. CASE d # c
    BY <2>1, <2>3 DEF CallInv, HoldsKey, Others, Confirming
  <2> QED BY <2>2, <2>3
<1>7. CallInv'
  BY <1>3, <1>4, <1>5, <1>6 DEF CallInv
<1> QED BY <1>2, <1>7

\* A confirmed connection stays known while no row is lost or renamed.
LEMMA KnownStays ==
  ASSUME TypeInv, KnownUntilRevoked, RelayInv, Closing,
         \A i \in Ids : hpair'[i].status = "confirmed" => hpair[i].status = "confirmed",
         \A i \in Ids : rconn'[i].status = "active" => rconn[i].status = "active",
         \A p \in Profiles : hconn[p] # NoRow =>
           hconn'[p] # NoRow /\ hconn'[p].id = hconn[p].id /\ hconn'[p].channel = hconn[p].channel
  PROVE  KnownUntilRevoked'
<1> SUFFICES ASSUME NEW i \in Ids, hpair'[i].status = "confirmed", Active(i)'
             PROVE  LET p == rconn'[i].profile IN
                    hconn'[p] # NoRow /\ hconn'[p].id = i /\ hconn'[p].channel = rconn'[i].channel
  BY DEF KnownUntilRevoked
<1>1. Active(i) /\ hpair[i].status = "confirmed"
  BY DEF Active
<1>2. rconn'[i].profile = rconn[i].profile /\ rconn'[i].channel = rconn[i].channel
      /\ rconn[i].profile \in Profiles
  BY <1>1 DEF Closing, Active, RelayInv
<1> QED BY <1>1, <1>2 DEF KnownUntilRevoked

\* Adding a message to a sequence.
LEMMA AppendTypes == ASSUME NEW S, NEW s \in Seq(S), NEW m \in S PROVE Append(s, m) \in Seq(S)
OBVIOUS

\* What is true to say after a step.
LEMMA TruthTypes ==
  ASSUME NEW i \in Ids
  PROVE  /\ rconn'[i].status = "revoked" => Revoked(i) \in Truths'
         /\ \A ch \in Channels : [type |-> "pairing_claimed", id |-> i, channel |-> ch] \in Truths'
         /\ \A conn \in Conns :
              /\ [type |-> "connection_activated", id |-> i, conn |-> conn] \in Truths'
              /\ [type |-> "connection_changed", id |-> i, conn |-> conn] \in Truths'
BY DEF Truths, HostMessages, Revoked

\* What the relay sends is added to what is on its way.
LEMMA Told ==
  ASSUME MessageInv, NEW m \in Truths', SendHost(m), Truths \subseteq Truths',
         replay' = replay, toRelay' \in Seq(RelayMessages)
  PROVE  MessageInv'
<1>1. toHost \in Seq(Truths')
  BY SeqMono DEF MessageInv
<1>2. replay \in Seq(Truths' \union {Connections, Tombstones})
  BY SeqMono DEF MessageInv
<1>3. (Truths \union {Connections, Tombstones})' = Truths' \union {Connections, Tombstones}
  BY DEF Connections, Tombstones
<1> QED BY <1>1, <1>2, <1>3 DEF MessageInv, SendHost

\* A step that leaves the relay's connections alone changes no truth.
LEMMA Carried ==
  ASSUME MessageInv, rconn' = rconn, toHost' \in Seq(Truths),
         replay' \in Seq(Truths \union {Connections, Tombstones}), toRelay' \in Seq(RelayMessages)
  PROVE  MessageInv'
<1>1. Truths' = Truths
  BY DEF Truths
<1>2. (Truths \union {Connections, Tombstones})' = Truths \union {Connections, Tombstones}
  BY <1>1 DEF Connections, Tombstones
<1> QED BY <1>1, <1>2 DEF MessageInv

\* Messages of the host name rows.
LEMMA BoundTypes ==
  ASSUME TypeInv, NEW p \in Profiles, hconn[p] # NoRow,
         NEW type \in {"unavailable", "disabled", "binding", "heartbeat"}
  PROVE  Bound(p, type) \in RelayMessages
BY RowTypes DEF Bound, RelayMessages

-----------------------------------------------------------------------------
\* Registering a pairing keeps the invariant.
LEMMA CreateKeeps ==
  ASSUME ConstantsOK, Inv, NEW c \in Callers, NEW p \in Profiles, Create(c, p)
  PROVE  Inv'
<1> USE DEF Inv, relay, host, socket, TypeInv
<1>1. rpair' \in [Ids -> Pairs] /\ hpair' \in [Ids -> Pairs]
  <2>1. PICK i \in Ids : rpair' = [j \in Ids |->
            IF j = i THEN [status |-> "pending", profile |-> p, channel |-> NoChannel]
            ELSE IF rpair[j].profile = p /\ rpair[j].status = "pending"
                 THEN [rpair[j] EXCEPT !.status = "replaced"] ELSE rpair[j]]
    BY DEF Create, Registers
  <2>2. \A j \in Ids : [rpair[j] EXCEPT !.status = "replaced"] \in Pairs
    BY PairTypes DEF PairStates
  <2>3. [status |-> "pending", profile |-> p, channel |-> NoChannel] \in Pairs
    BY DEF Pairs
  <2> QED BY <2>1, <2>2, <2>3 DEF Create, Registers
<1>2. rconn' \in [Ids -> Conns]
  BY DEF Create, Registers, Answered, ProfilePaired
<1>3. hconn' \in [Profiles -> RowShape \union {NoRow}]
  BY DEF Create, Registers, Answered, ProfilePaired
<1>4. calls' \in [Callers -> Calls]
  BY DEF Create, Registers, Answered, ProfilePaired, Calls, Idle, Pairs, RowShape
<1>5. profiles' \subseteq Profiles /\ late' \subseteq Ids /\ updates' \in 0 .. MaxUpdates
       /\ faults' \in 0 .. MaxFaults /\ hostEnd' \in BOOLEAN /\ relayEnd' \in BOOLEAN
  BY DEF Create, Registers, Answered, ProfilePaired, ConstantsOK, Fault, NoFault
<1>6. TypeInv'
  BY <1>1, <1>2, <1>3, <1>4, <1>5
<1>7. MessageInv'
  BY DEF Create, Registers, Answered, ProfilePaired, MessageInv, Truths
<1>8. RelayInv'
  BY DEF Create, Registers, Answered, ProfilePaired, RelayInv, Open, Active
<1>9. RowInv' /\ CallInv'
  <2>1. PICK i \in Ids :
          /\ rpair[i].status = "none"
          /\ rpair' = [j \in Ids |->
               IF j = i THEN [status |-> "pending", profile |-> p, channel |-> NoChannel]
               ELSE IF rpair[j].profile = p /\ rpair[j].status = "pending"
                    THEN [rpair[j] EXCEPT !.status = "replaced"] ELSE rpair[j]]
    BY DEF Create, Registers
  <2>2. rconn' = rconn /\ hconn' = hconn /\ hconn[p] = NoRow
    BY DEF Create, Registers
  <2>3. \A j \in Ids : j # i =>
          /\ rpair'[j].profile = rpair[j].profile
          /\ rpair[j].status = "confirmed" => rpair'[j].status = "confirmed"
          /\ Open(j)' => Open(j)
    BY <2>1, <2>2 DEF Pairs, Open, Active
  <2>4. rpair'[i].profile = p
    BY <2>1
  <2>5. \A d \in Callers : /\ Confirming(d)' => Confirming(d) /\ calls'[d] = calls[d]
                           /\ calls'[d].op = "revoke" => calls[d].op = "revoke" /\ calls'[d] = calls[d]
    BY DEF Create, Registers, Answered, Confirming
  <2>6. \A j \in Ids : rpair[j].status = "confirmed" => rpair'[j].status = "confirmed"
    BY <2>1, <2>3
  <2>7. RowInv'
    BY <2>2, <2>5, <2>6, RowTypes DEF RowInv
  <2>8. ASSUME NEW d \in Callers, Confirming(d)', calls'[d].row # NoRow,
               HasKey(calls[d].profile, calls[d].row.key)',
               NEW j \in Ids, j # calls'[d].id, Open(j)'
        PROVE  rpair'[j].profile # calls'[d].profile
    BY <2>2, <2>3, <2>4, <2>5, <2>8 DEF CallInv, HasKey
  <2>9. ASSUME NEW d \in Callers, calls'[d].op = "revoke",
               HasKey(calls[d].profile, calls[d].key)', NEW j \in Ids, Open(j)'
        PROVE  rpair'[j].profile # calls'[d].profile
    BY <2>2, <2>3, <2>4, <2>5, <2>9 DEF CallInv, HasKey
  <2>10. \A d \in Callers : Confirming(d)' =>
           /\ rpair'[calls'[d].id].status = "confirmed"
           /\ rconn'[calls'[d].id].status # "none"
           /\ rconn'[calls'[d].id].profile = calls'[d].profile
           /\ rconn'[calls'[d].id].channel = calls'[d].channel
           /\ calls'[d].row # NoRow => rpair'[calls'[d].row.key].status = "confirmed"
    BY <2>2, <2>5, <2>6, CallTypes DEF CallInv
  <2>11. \A d \in Callers : calls'[d].op = "revoke" => rpair'[calls'[d].key].status = "confirmed"
    BY <2>5, <2>6, CallTypes DEF CallInv
  <2>12. \A d, e \in Callers : d # e /\ Confirming(d)' /\ Confirming(e)' => calls'[d].id # calls'[e].id
    BY <2>5 DEF CallInv
  <2>13. \A d, e \in Callers : Confirming(e)' => ~HoldsKey(d, calls[e].id)'
    BY <2>5 DEF CallInv, HoldsKey
  <2>14. \A d \in Callers : Confirming(d)' /\ calls'[d].row # NoRow =>
           (HasKey(calls[d].profile, calls[d].row.key)' =>
              \A j \in Ids : j # calls'[d].id /\ Open(j)' => rpair'[j].profile # calls'[d].profile)
    BY <2>8
  <2>15. \A d \in Callers : calls'[d].op = "revoke" =>
           (HasKey(calls[d].profile, calls[d].key)' =>
              \A j \in Ids : Open(j)' => rpair'[j].profile # calls'[d].profile)
    BY <2>9
  <2>16. CallInv'
    BY <2>5, <2>10, <2>11, <2>12, <2>13, <2>14, <2>15 DEF CallInv
  <2> QED BY <2>7, <2>16
<1>10. KnownUntilRevoked'
  BY DEF Create, Registers, Answered, ProfilePaired, RelayInv, RowInv, CallInv, KnownUntilRevoked, HasKey, Confirming, Open, Active, Calls, RowShape, ConstantsOK
<1> QED BY <1>6, <1>7, <1>8, <1>9, <1>10

\* Recording the registered pairing keeps the invariant.
LEMMA CreateCommitKeeps ==
  ASSUME ConstantsOK, Inv, NEW c \in Callers, CreateCommit(c)
  PROVE  Inv'
<1> USE DEF Inv, relay, host, socket, TypeInv
<1>1. rpair' \in [Ids -> Pairs] /\ hpair' \in [Ids -> Pairs]
  <2>1. calls[c].profile \in Profiles
    BY DEF CreateCommit, Calls, Idle
  <2>2. \A j \in Ids : [hpair[j] EXCEPT !.status = "replaced"] \in Pairs
    BY PairTypes DEF PairStates
  <2>3. [status |-> "pending", profile |-> calls[c].profile, channel |-> NoChannel] \in Pairs
    BY <2>1 DEF Pairs
  <2> QED BY <2>2, <2>3 DEF CreateCommit
<1>2. rconn' \in [Ids -> Conns]
  BY DEF CreateCommit
<1>3. hconn' \in [Profiles -> RowShape \union {NoRow}]
  BY DEF CreateCommit
<1>4. calls' \in [Callers -> Calls]
  BY DEF CreateCommit, Calls, Idle, Pairs, RowShape
<1>5. profiles' \subseteq Profiles /\ late' \subseteq Ids /\ updates' \in 0 .. MaxUpdates
       /\ faults' \in 0 .. MaxFaults /\ hostEnd' \in BOOLEAN /\ relayEnd' \in BOOLEAN
  BY DEF CreateCommit, ConstantsOK, Fault, NoFault
<1>6. TypeInv'
  BY <1>1, <1>2, <1>3, <1>4, <1>5
<1>7. MessageInv'
  BY DEF CreateCommit, MessageInv, Truths
<1>8. RelayInv'
  BY DEF CreateCommit, RelayInv, Open, Active
<1>9. RowInv' /\ CallInv'
  <2>1. Closing
    BY DEF Closing, Open, Active, CreateCommit
  <2>2. RowsFade
    BY DEF RowsFade, CreateCommit
  <2>3. CallsFade
    BY DEF CallsFade, Idle, CreateCommit
  <2> QED BY <2>1, <2>2, <2>3, FadingKeeps
<1>10. KnownUntilRevoked'
  BY DEF CreateCommit, RelayInv, RowInv, CallInv, KnownUntilRevoked, HasKey, Confirming, Open, Active, Calls, RowShape, ConstantsOK
<1> QED BY <1>6, <1>7, <1>8, <1>9, <1>10

\* Confirming too late keeps the invariant.
LEMMA ConfirmLateKeeps ==
  ASSUME ConstantsOK, Inv, NEW i \in Ids, ConfirmLate(i)
  PROVE  Inv'
<1> USE DEF Inv, relay, host, socket, TypeInv
<1>1. rpair' \in [Ids -> Pairs] /\ hpair' \in [Ids -> Pairs]
  BY DEF ConfirmLate, Pairs
<1>2. rconn' \in [Ids -> Conns]
  BY DEF ConfirmLate
<1>3. hconn' \in [Profiles -> RowShape \union {NoRow}]
  BY DEF ConfirmLate
<1>4. calls' \in [Callers -> Calls]
  BY DEF ConfirmLate
<1>5. profiles' \subseteq Profiles /\ late' \subseteq Ids /\ updates' \in 0 .. MaxUpdates
       /\ faults' \in 0 .. MaxFaults /\ hostEnd' \in BOOLEAN /\ relayEnd' \in BOOLEAN
  BY DEF ConfirmLate, ConstantsOK, Fault, NoFault
<1>6. TypeInv'
  BY <1>1, <1>2, <1>3, <1>4, <1>5
<1>7. MessageInv'
  BY DEF ConfirmLate, MessageInv, Truths
<1>8. RelayInv'
  BY DEF ConfirmLate, RelayInv, Open, Active
<1>9. RowInv' /\ CallInv'
  <2>1. Closing
    BY DEF Closing, Open, Active, ConfirmLate
  <2>2. RowsFade
    BY DEF RowsFade, ConfirmLate
  <2>3. CallsFade
    BY DEF CallsFade, Idle, ConfirmLate
  <2> QED BY <2>1, <2>2, <2>3, FadingKeeps
<1>10. KnownUntilRevoked'
  BY DEF ConfirmLate, RelayInv, RowInv, CallInv, KnownUntilRevoked, HasKey, Confirming, Open, Active, Calls, RowShape, ConstantsOK
<1> QED BY <1>6, <1>7, <1>8, <1>9, <1>10

\* Confirming a claimed pairing keeps the invariant.
LEMMA ConfirmKeeps ==
  ASSUME ConstantsOK, Inv, NEW c \in Callers, NEW i \in Ids, Confirm(c, i)
  PROVE  Inv'
<1> USE DEF Inv, relay, host, socket, TypeInv
<1> DEFINE p == hpair[i].profile
           ch == hpair[i].channel
           conn == [status |-> "active", profile |-> rpair[i].profile,
                    channel |-> rpair[i].channel, enabled |-> TRUE]
           call == [op |-> "confirm", id |-> i, profile |-> p, channel |-> ch, row |-> hconn[p]]
<1>a. /\ p \in Profiles /\ ch \in Channels
      /\ rpair[i].profile \in Profiles /\ rpair[i].channel \in Channels
  BY DEF Confirm, Confirms, RelayInv, Pairs
<1>b. rconn[i].status = "none" /\ rpair[i].status = "pending" /\ hpair[i].status = "pending"
  BY DEF Confirm, Confirms, RelayInv
<1>c. /\ rpair' = [rpair EXCEPT ![i] = [@ EXCEPT !.status = "confirmed"]]
      /\ rconn' = [rconn EXCEPT ![i] = conn]
      /\ hconn' = hconn /\ hpair' = hpair /\ replay' = replay /\ toRelay' = toRelay
      /\ SendHost([type |-> "connection_activated", id |-> i, conn |-> conn])
  BY DEF Confirm, Confirms
<1>d. \/ calls' = calls
      \/ /\ calls' = [calls EXCEPT ![c] = call]
         /\ rpair[i].profile = p /\ rpair[i].channel = ch
  BY DEF Confirm, Confirms, Answered
<1>e. conn \in Conns
  BY <1>a DEF Conns
<1>f. /\ rpair'[i].status = "confirmed" /\ rpair'[i].profile = rpair[i].profile
      /\ rpair'[i].channel = rpair[i].channel
      /\ rconn'[i] = conn
      /\ \A j \in Ids : j # i => rpair'[j] = rpair[j] /\ rconn'[j] = rconn[j]
  BY <1>c DEF Pairs
<1>g. /\ conn.status = "active" /\ conn.profile = rpair[i].profile /\ conn.channel = rpair[i].channel
      /\ call.op = "confirm" /\ call.id = i /\ call.profile = p /\ call.channel = ch
      /\ call.row = hconn[p]
  OBVIOUS
<1>h. call \in Calls
  <2>1. hconn[p] \in RowShape \union {NoRow}
    BY <1>a
  <2> QED BY <1>a, <2>1 DEF Calls
<1> HIDE DEF conn, call, p, ch
<1>1. rpair' \in [Ids -> Pairs] /\ hpair' \in [Ids -> Pairs]
  BY <1>c, PairTypes DEF PairStates
<1>2. rconn' \in [Ids -> Conns]
  BY <1>c, <1>e
<1>3. hconn' \in [Profiles -> RowShape \union {NoRow}]
  BY DEF Confirm, Confirms, Answered, ChannelTaken, ProfilePaired, SendHost
<1>4. calls' \in [Callers -> Calls]
  BY <1>d, <1>h
<1>5. profiles' \subseteq Profiles /\ late' \subseteq Ids /\ updates' \in 0 .. MaxUpdates
       /\ faults' \in 0 .. MaxFaults /\ hostEnd' \in BOOLEAN /\ relayEnd' \in BOOLEAN
  BY DEF Confirm, Confirms, Answered, ChannelTaken, ProfilePaired, SendHost, ConstantsOK, Fault, NoFault
<1>6. TypeInv'
  BY <1>1, <1>2, <1>3, <1>4, <1>5
<1>7. MessageInv'
  <2>1. Truths \subseteq Truths'
    BY <1>b, <1>f, TruthsLast
  <2>2. [type |-> "connection_activated", id |-> i, conn |-> conn] \in Truths'
    BY <1>e, TruthTypes
  <2> QED BY <1>c, <2>1, <2>2, Told DEF MessageInv
<1>8. RelayInv'
  <2>1. \A j \in Ids : Open(j)' => Open(j)
    BY <1>b, <1>f DEF Open, Active
  <2>2. \A j \in Ids : rpair'[j].profile = rpair[j].profile
    BY <1>f
  <2> QED BY <1>a, <1>b, <1>f, <1>g, <2>1, <2>2 DEF RelayInv
<1>9. RowInv' /\ CallInv'
  <2>1. Closing
    BY <1>b, <1>f, <1>g DEF Closing, Open, Active
  <2>2. RowsFade
    BY <1>c DEF RowsFade
  <2>3. CASE calls' = calls
    BY <2>1, <2>2, <2>3, FadingKeeps DEF CallsFade
  <2>4. CASE calls' = [calls EXCEPT ![c] = call] /\ rpair[i].profile = p /\ rpair[i].channel = ch
    <3>1. \A d \in Callers : d # c => calls'[d] = calls[d]
      BY <2>4
    <3>2. calls'[c] = call
      BY <2>4
    <3>3. \A q \in Profiles : hconn[q] # NoRow => hconn[q].key # i
      BY <1>b DEF RowInv
    <3>4. /\ rpair'[i].status = "confirmed" /\ rconn'[i].status # "none"
          /\ rconn'[i].profile = p /\ rconn'[i].channel = ch
      BY <1>f, <1>g, <2>4
    <3>5. \A j \in Ids : j # i /\ Open(j)' => rpair'[j].profile # p
      BY <1>b, <2>1, <2>4 DEF Closing, RelayInv, Open
    <3>6. /\ \A d \in Callers : Confirming(d) => calls[d].id # i
          /\ \A d \in Callers : ~HoldsKey(d, i)
      BY <1>b DEF CallInv, HoldsKey, Confirming
    <3>7. hconn[p] # NoRow =>
            /\ rpair'[hconn[p].key].status = "confirmed"
            /\ \A d \in Callers : Confirming(d) => calls[d].id # hconn[p].key
      <4> SUFFICES ASSUME hconn[p] # NoRow
                   PROVE  /\ rpair'[hconn[p].key].status = "confirmed"
                          /\ \A d \in Callers : Confirming(d) => calls[d].id # hconn[p].key
        OBVIOUS
      <4>1. hconn[p].key \in Ids
        BY <1>a, RowTypes
      <4>2. rpair[hconn[p].key].status = "confirmed"
            /\ \A d \in Callers : Confirming(d) => calls[d].id # hconn[p].key
        BY <1>a DEF RowInv
      <4> QED BY <2>1, <4>1, <4>2 DEF Closing
    <3>8. Others(c)
      BY <3>1 DEF Others
    <3>9. /\ TypeInv /\ RowInv /\ CallInv /\ hconn' = hconn /\ p \in Profiles
          /\ call.op = "confirm" /\ call.id = i /\ call.profile = p /\ call.row = hconn[p]
          /\ rconn'[i].channel = call.channel
          /\ \A d \in Callers : (Confirming(d) => calls[d].id # i) /\ ~HoldsKey(d, i)
      BY <1>a, <1>c, <1>g, <3>4, <3>6
    <3> HIDE DEF Inv, TypeInv
    <3> QED BY <2>1, <3>2, <3>3, <3>4, <3>5, <3>8, <3>9, JoinKeeps
  <2> QED BY <1>d, <2>3, <2>4
<1>10. KnownUntilRevoked'
  BY <1>b, <1>c, <1>f DEF KnownUntilRevoked, Active
<1> QED BY <1>6, <1>7, <1>8, <1>9, <1>10

\* Inserting or changing the row keeps the invariant.
LEMMA ConfirmCommitKeeps ==
  ASSUME ConstantsOK, Inv, NEW c \in Callers, ConfirmCommit(c)
  PROVE  Inv'
<1> USE DEF Inv, relay, host, socket, TypeInv
<1> DEFINE i == calls[c].id
           p == calls[c].profile
           row == calls[c].row
<1>a. /\ Confirming(c) /\ i \in Ids /\ p \in Profiles /\ calls[c].channel \in Channels
      /\ row \in RowShape \union {NoRow}
  BY CallTypes DEF ConfirmCommit, Confirming
<1>b. \/ hconn' = hconn /\ hpair' = hpair
      \/ /\ row = NoRow /\ hconn[p] = NoRow
         /\ hconn' = [hconn EXCEPT ![p] = [key |-> i, id |-> i, channel |-> calls[c].channel, enabled |-> TRUE]]
         /\ hpair' = [hpair EXCEPT ![i] = [@ EXCEPT !.status = "confirmed"]]
      \/ /\ row # NoRow /\ HasKey(p, row.key)
         /\ hconn' = [hconn EXCEPT ![p] = [key |-> row.key, id |-> i, channel |-> calls[c].channel, enabled |-> TRUE]]
         /\ hpair' = [hpair EXCEPT ![i] = [@ EXCEPT !.status = "confirmed"]]
  BY DEF ConfirmCommit, HasKey
<1>c. rpair' = rpair /\ rconn' = rconn /\ calls' = [calls EXCEPT ![c] = Idle]
  BY DEF ConfirmCommit
<1>d. \A d \in Callers : /\ Confirming(d)' => d # c /\ Confirming(d) /\ calls'[d] = calls[d]
                         /\ calls'[d].op = "revoke" => calls[d].op = "revoke" /\ calls'[d] = calls[d]
  BY <1>c DEF Confirming, Idle
<1> HIDE DEF i, p, row
<1>1. rpair' \in [Ids -> Pairs] /\ hpair' \in [Ids -> Pairs]
  <2>1. \A j \in Ids : [hpair[j] EXCEPT !.status = "confirmed"] \in Pairs
    BY PairTypes DEF PairStates
  <2> QED BY <1>a, <1>b, <1>c, <2>1
<1>2. rconn' \in [Ids -> Conns]
  BY DEF ConfirmCommit
<1>3. hconn' \in [Profiles -> RowShape \union {NoRow}]
  <2>1. row # NoRow => row.key \in Ids
    BY <1>a DEF RowShape
  <2>2. \A k \in Ids : [key |-> k, id |-> i, channel |-> calls[c].channel, enabled |-> TRUE] \in RowShape
    BY <1>a DEF RowShape
  <2> QED BY <1>a, <1>b, <2>1, <2>2
<1>4. calls' \in [Callers -> Calls]
  BY DEF ConfirmCommit, Calls, Idle, Pairs, RowShape
<1>5. profiles' \subseteq Profiles /\ late' \subseteq Ids /\ updates' \in 0 .. MaxUpdates
       /\ faults' \in 0 .. MaxFaults /\ hostEnd' \in BOOLEAN /\ relayEnd' \in BOOLEAN
  BY DEF ConfirmCommit, ConstantsOK, Fault, NoFault
<1>6. TypeInv'
  BY <1>1, <1>2, <1>3, <1>4, <1>5
<1>7. MessageInv'
  BY DEF ConfirmCommit, MessageInv, Truths
<1>8. RelayInv'
  BY DEF ConfirmCommit, RelayInv, Open, Active
<1>9. RowInv' /\ CallInv'
  <2>1. \A q \in Profiles : q # p => hconn'[q] = hconn[q]
    BY <1>b
  <2>2. rpair[i].status = "confirmed" /\ rconn[i].status # "none" /\ rconn[i].profile = p
        /\ (row # NoRow => rpair[row.key].status = "confirmed")
    BY <1>a DEF CallInv, i, p, row
  <2>3. ASSUME NEW d \in Callers, Confirming(d)'
        PROVE  calls[d].id # i /\ (row # NoRow => calls[d].id # row.key)
    BY <1>a, <1>d, <2>3 DEF CallInv, HoldsKey, i, row
  <2>4. \/ hconn' = hconn
        \/ /\ hconn'[p].id = i
           /\ \/ row = NoRow /\ hconn[p] = NoRow /\ hconn'[p].key = i
              \/ row # NoRow /\ HasKey(p, row.key) /\ hconn'[p].key = row.key
    BY <1>a, <1>b
  <2>5. RowInv'
    BY <1>c, <1>d, <2>1, <2>2, <2>3, <2>4 DEF RowInv
  <2>6. \A q \in Profiles, k \in Ids : HasKey(q, k)' => HasKey(q, k) \/ k = i
    BY <2>1, <2>4 DEF HasKey
  <2>7. \A d \in Callers : ~HoldsKey(d, i)
    BY <1>a DEF CallInv, i
  <2>8. ASSUME NEW d \in Callers, Confirming(d)', calls'[d].row # NoRow,
               HasKey(calls[d].profile, calls[d].row.key)',
               NEW j \in Ids, j # calls'[d].id, Open(j)'
        PROVE  rpair'[j].profile # calls'[d].profile
    <3>1. calls[d].row.key # i
      BY <1>d, <2>7, <2>8 DEF HoldsKey
    <3>2. HasKey(calls[d].profile, calls[d].row.key)
      BY <1>d, <2>6, <2>8, <3>1, CallTypes
    <3> QED BY <1>c, <1>d, <2>8, <3>2 DEF CallInv, Open, Active
  <2>9. ASSUME NEW d \in Callers, calls'[d].op = "revoke",
               HasKey(calls[d].profile, calls[d].key)', NEW j \in Ids, Open(j)'
        PROVE  rpair'[j].profile # calls'[d].profile
    <3>1. calls[d].key # i
      BY <1>d, <2>7, <2>9 DEF HoldsKey
    <3>2. HasKey(calls[d].profile, calls[d].key)
      BY <1>d, <2>6, <2>9, <3>1, CallTypes
    <3> QED BY <1>c, <1>d, <2>9, <3>2 DEF CallInv, Open, Active
  <2>10. \A d \in Callers : Confirming(d)' =>
           /\ rpair'[calls'[d].id].status = "confirmed"
           /\ rconn'[calls'[d].id].status # "none"
           /\ rconn'[calls'[d].id].profile = calls'[d].profile
           /\ rconn'[calls'[d].id].channel = calls'[d].channel
           /\ calls'[d].row # NoRow => rpair'[calls'[d].row.key].status = "confirmed"
    BY <1>c, <1>d DEF CallInv
  <2>11. \A d \in Callers : calls'[d].op = "revoke" => rpair'[calls'[d].key].status = "confirmed"
    BY <1>c, <1>d DEF CallInv
  <2>12. \A d, e \in Callers : d # e /\ Confirming(d)' /\ Confirming(e)' => calls'[d].id # calls'[e].id
    BY <1>d DEF CallInv
  <2>13. \A d, e \in Callers : Confirming(e)' => ~HoldsKey(d, calls[e].id)'
    BY <1>d DEF CallInv, HoldsKey
  <2>14. \A d \in Callers : Confirming(d)' /\ calls'[d].row # NoRow =>
           (HasKey(calls[d].profile, calls[d].row.key)' =>
              \A j \in Ids : j # calls'[d].id /\ Open(j)' => rpair'[j].profile # calls'[d].profile)
    BY <2>8
  <2>15. \A d \in Callers : calls'[d].op = "revoke" =>
           (HasKey(calls[d].profile, calls[d].key)' =>
              \A j \in Ids : Open(j)' => rpair'[j].profile # calls'[d].profile)
    BY <2>9
  <2>16. CallInv'
    BY <1>d, <2>10, <2>11, <2>12, <2>13, <2>14, <2>15 DEF CallInv
  <2> QED BY <2>5, <2>16
<1>10. KnownUntilRevoked'
  <2> SUFFICES ASSUME NEW j \in Ids, hpair'[j].status = "confirmed", Active(j)',
                      NEW q, q = rconn[j].profile
               PROVE  hconn'[q] # NoRow /\ hconn'[q].id = j /\ hconn'[q].channel = rconn[j].channel
    BY <1>c DEF KnownUntilRevoked
  <2>1. Active(j) /\ q \in Profiles /\ rpair[j].profile = q
    BY <1>c DEF RelayInv, Active
  <2>2. CASE j = i
    <3>1. q = p /\ rconn[j].channel = calls[c].channel
      BY <1>a, <2>2 DEF CallInv, i, p
    <3>2. CASE hconn' = hconn /\ hpair' = hpair
      BY <1>c, <2>1, <3>2 DEF KnownUntilRevoked
    <3>3. CASE \E k \in Ids : hconn' = [hconn EXCEPT ![p] = [key |-> k, id |-> i, channel |-> calls[c].channel, enabled |-> TRUE]]
      <4>1. PICK k \in Ids : hconn' = [hconn EXCEPT ![p] = [key |-> k, id |-> i, channel |-> calls[c].channel, enabled |-> TRUE]]
        BY <3>3
      <4>2. [key |-> k, id |-> i, channel |-> calls[c].channel, enabled |-> TRUE] \in RowShape
        BY <1>a DEF RowShape
      <4>3. NoRow \notin RowShape
        BY DEF ConstantsOK
      <4> QED BY <1>a, <2>2, <3>1, <4>1, <4>2, <4>3
    <3>4. row # NoRow => row.key \in Ids
      BY <1>a DEF RowShape
    <3> QED BY <1>a, <1>b, <3>2, <3>3, <3>4
  <2>3. CASE j # i
    <3>1. hpair[j].status = "confirmed"
      BY <1>a, <1>b, <2>3
    <3>2. hconn[q] # NoRow /\ hconn[q].id = j /\ hconn[q].channel = rconn[j].channel
      BY <2>1, <3>1 DEF KnownUntilRevoked
    <3>3. CASE q # p \/ hconn' = hconn
      <4>1. hconn'[q] = hconn[q]
        BY <1>b, <2>1, <3>3
      <4> QED BY <3>2, <4>1
    <3>4. CASE q = p /\ hconn' # hconn
      <4>1. row # NoRow /\ HasKey(p, row.key)
        BY <1>b, <3>2, <3>4
      <4>2. Open(j) /\ rpair[j].profile = p
        BY <2>1, <3>4 DEF Open
      <4> QED BY <1>a, <2>3, <4>1, <4>2 DEF CallInv, i, p, row
    <3> QED BY <3>3, <3>4
  <2> QED BY <2>2, <2>3
<1> QED BY <1>6, <1>7, <1>8, <1>9, <1>10

\* Switching a connection keeps the invariant.
LEMMA UpdateKeeps ==
  ASSUME ConstantsOK, Inv, NEW c \in Callers, NEW p \in Profiles, NEW b \in BOOLEAN, Update(c, p, b)
  PROVE  Inv'
<1> USE DEF Inv, relay, host, socket, TypeInv
<1> DEFINE i == hconn[p].id
           conn == [rconn[i] EXCEPT !.enabled = b]
<1>a. i \in Ids /\ Active(i) /\ rconn[i] \in Conns
  BY RowTypes DEF Update, Changes
<1>b. conn \in Conns /\ conn.status = rconn[i].status /\ conn.profile = rconn[i].profile
      /\ conn.channel = rconn[i].channel
  BY <1>a, ConnTypes DEF Conns
<1>c. /\ rconn' = [rconn EXCEPT ![i] = conn]
      /\ SendHost([type |-> "connection_changed", id |-> i, conn |-> conn])
      /\ rpair' = rpair /\ hconn' = hconn /\ hpair' = hpair
      /\ replay' = replay /\ toRelay' = toRelay
      /\ \A d \in Callers : calls'[d] = calls[d] \/ calls'[d].op = "update"
  BY DEF Update, Changes, Answered
<1>d. \A j \in Ids : /\ rconn'[j].status = rconn[j].status
                     /\ rconn'[j].profile = rconn[j].profile
                     /\ rconn'[j].channel = rconn[j].channel
  BY <1>a, <1>b, <1>c
<1> HIDE DEF i, conn
<1>1. rpair' \in [Ids -> Pairs] /\ hpair' \in [Ids -> Pairs]
  BY DEF Update, Changes, Answered, SendHost
<1>2. rconn' \in [Ids -> Conns]
  BY <1>a, <1>b, <1>c
<1>3. hconn' \in [Profiles -> RowShape \union {NoRow}]
  BY DEF Update, Changes, Answered, SendHost
<1>4. calls' \in [Callers -> Calls]
  BY DEF Update, Changes, Answered, SendHost, Calls, Idle, Pairs, RowShape
<1>5. profiles' \subseteq Profiles /\ late' \subseteq Ids /\ updates' \in 0 .. MaxUpdates
       /\ faults' \in 0 .. MaxFaults /\ hostEnd' \in BOOLEAN /\ relayEnd' \in BOOLEAN
  BY DEF Update, Changes, Answered, SendHost, ConstantsOK, Fault, NoFault
<1>6. TypeInv'
  BY <1>1, <1>2, <1>3, <1>4, <1>5
<1>7. MessageInv'
  <2>1. Truths \subseteq Truths'
    BY <1>d, TruthsLast
  <2>2. [type |-> "connection_changed", id |-> i, conn |-> conn] \in Truths'
    BY <1>a, <1>b, TruthTypes
  <2> QED BY <1>c, <2>1, <2>2, Told DEF MessageInv
<1>8. RelayInv'
  BY <1>c, <1>d DEF RelayInv, Open, Active
<1>9. RowInv' /\ CallInv'
  <2>1. Closing
    BY <1>c, <1>d DEF Closing, Open, Active
  <2>2. RowsFade /\ CallsFade
    BY <1>c DEF RowsFade, CallsFade
  <2> QED BY <2>1, <2>2, FadingKeeps
<1>10. KnownUntilRevoked'
  BY <1>c, <1>d DEF KnownUntilRevoked, Active, RelayInv
<1> QED BY <1>6, <1>7, <1>8, <1>9, <1>10

\* Recording the switch keeps the invariant.
LEMMA UpdateCommitKeeps ==
  ASSUME ConstantsOK, Inv, NEW c \in Callers, UpdateCommit(c)
  PROVE  Inv'
<1> USE DEF Inv, relay, host, socket, TypeInv
<1>a. \A q \in Profiles : hconn[q] # NoRow =>
        /\ hconn'[q] \in RowShape /\ hconn'[q].key = hconn[q].key
        /\ hconn'[q].id = hconn[q].id /\ hconn'[q].channel = hconn[q].channel
  BY RowTypes DEF UpdateCommit, RowShape, Calls, Idle
<1>1. rpair' \in [Ids -> Pairs] /\ hpair' \in [Ids -> Pairs]
  BY DEF UpdateCommit
<1>2. rconn' \in [Ids -> Conns]
  BY DEF UpdateCommit
<1>3. hconn' \in [Profiles -> RowShape \union {NoRow}]
  BY DEF UpdateCommit, RowShape, Calls, Idle, Conns
<1>4. calls' \in [Callers -> Calls]
  BY DEF UpdateCommit, Calls, Idle, Pairs, RowShape
<1>5. profiles' \subseteq Profiles /\ late' \subseteq Ids /\ updates' \in 0 .. MaxUpdates
       /\ faults' \in 0 .. MaxFaults /\ hostEnd' \in BOOLEAN /\ relayEnd' \in BOOLEAN
  BY DEF UpdateCommit, ConstantsOK, Fault, NoFault
<1>6. TypeInv'
  BY <1>1, <1>2, <1>3, <1>4, <1>5
<1>7. MessageInv'
  BY DEF UpdateCommit, MessageInv, Truths
<1>8. RelayInv'
  BY DEF UpdateCommit, RelayInv, Open, Active
<1>9. RowInv' /\ CallInv'
  BY SMTT(30) DEF UpdateCommit, RelayInv, RowInv, CallInv, HasKey, Confirming, HoldsKey, Open, Active, Calls, Idle, RowShape
<1>10. KnownUntilRevoked'
  <2>1. Closing
    BY DEF UpdateCommit, Closing, Open, Active
  <2> QED BY <1>a, <2>1, KnownStays DEF UpdateCommit, ConstantsOK
<1> QED BY <1>6, <1>7, <1>8, <1>9, <1>10

\* Revoking at the relay keeps the invariant.
LEMMA RevokeKeeps ==
  ASSUME ConstantsOK, Inv, NEW c \in Callers, NEW p \in Profiles, Revoke(c, p)
  PROVE  Inv'
<1> USE DEF Inv, relay, host, socket, TypeInv
<1> DEFINE i == hconn[p].id
           call == [op |-> "revoke", profile |-> p, key |-> hconn[p].key]
<1>a. hconn[p] # NoRow /\ i \in Ids /\ hconn[p].key \in Ids /\ Active(i)
  BY RowTypes DEF Revoke
<1>b. /\ TerminalRevoke(i) /\ SendHost(Revoked(i))
      /\ rpair' = rpair /\ hconn' = hconn /\ hpair' = hpair
      /\ replay' = replay /\ toRelay' = toRelay
  BY DEF Revoke
<1>c. calls' = calls \/ calls' = [calls EXCEPT ![c] = call]
  BY DEF Revoke, Answered
<1>d. call \in Calls /\ call.op = "revoke" /\ call.profile = p /\ call.key = hconn[p].key
  BY <1>a DEF Calls
<1>e. /\ rconn' \in [Ids -> Conns] /\ rconn'[i].status = "revoked"
      /\ \A j \in Ids : /\ rconn'[j].profile = rconn[j].profile
                        /\ rconn'[j].channel = rconn[j].channel
                        /\ j # i => rconn'[j] = rconn[j]
  BY <1>a, <1>b, RevokeTypes
<1> HIDE DEF i, call
<1>1. rpair' \in [Ids -> Pairs] /\ hpair' \in [Ids -> Pairs]
  BY DEF Revoke, Answered, TerminalRevoke, SendHost, Revoked
<1>2. rconn' \in [Ids -> Conns]
  BY <1>e
<1>3. hconn' \in [Profiles -> RowShape \union {NoRow}]
  BY DEF Revoke, Answered, TerminalRevoke, SendHost, Revoked
<1>4. calls' \in [Callers -> Calls]
  BY <1>c, <1>d
<1>5. profiles' \subseteq Profiles /\ late' \subseteq Ids /\ updates' \in 0 .. MaxUpdates
       /\ faults' \in 0 .. MaxFaults /\ hostEnd' \in BOOLEAN /\ relayEnd' \in BOOLEAN
  BY DEF Revoke, Answered, TerminalRevoke, SendHost, Revoked, ConstantsOK, Fault, NoFault
<1>6. TypeInv'
  BY <1>1, <1>2, <1>3, <1>4, <1>5
<1>7. MessageInv'
  <2>1. Truths \subseteq Truths'
    BY <1>e, TruthsLast
  <2>2. Revoked(i) \in Truths'
    BY <1>a, <1>e, TruthTypes
  <2> QED BY <1>b, <2>1, <2>2, Told DEF MessageInv
<1>8. RelayInv'
  BY <1>a, <1>b, RevokeKeepsRelay
<1>9. RowInv' /\ CallInv'
  <2>1. Closing
    BY <1>a, <1>b, RevokeCloses
  <2>2. RowsFade
    BY <1>b DEF RowsFade
  <2>3. CASE calls' = calls
    BY <2>1, <2>2, <2>3, FadingKeeps DEF CallsFade
  <2>4. CASE calls' = [calls EXCEPT ![c] = call]
    <3>1. \A d \in Callers : d # c => calls'[d] = calls[d]
      BY <2>4
    <3>2. calls'[c] = call
      BY <2>4
    <3>3. rpair'[hconn[p].key].status = "confirmed"
          /\ \A d \in Callers : Confirming(d) => calls[d].id # hconn[p].key
      BY <1>a, <1>b DEF RowInv
    <3>4. rpair[i].status = "confirmed" /\ rpair[i].profile = p
      BY <1>a DEF RowInv, RelayInv, i
    <3>5. \A j \in Ids : Open(j)' => rpair'[j].profile # p
      <4>1. \A j \in Ids : j # i /\ Open(j) => rpair[j].profile # p
        BY <1>a, <3>4 DEF RelayInv, Open
      <4>2. rpair'[i].status # "pending" /\ rconn'[i].status # "active"
        BY <1>b, <1>e, <3>4
      <4>3. \A j \in Ids : Open(j)' => j # i /\ Open(j) /\ rpair'[j].profile = rpair[j].profile
        BY <2>1, <4>2 DEF Closing, Open, Active
      <4> QED BY <4>1, <4>3
    <3>6. Others(c)
      BY <3>1 DEF Others
    <3>7. TypeInv /\ RowInv /\ CallInv /\ hconn' = hconn /\ hconn[p] # NoRow
          /\ call.op = "revoke" /\ call.profile = p /\ call.key = hconn[p].key
      BY <1>a, <1>b, <1>d
    <3> HIDE DEF Inv, TypeInv
    <3> QED BY <2>1, <3>2, <3>5, <3>6, <3>7, RevokerKeeps
  <2> QED BY <1>c, <2>3, <2>4
<1>10. KnownUntilRevoked'
  <2>1. Closing
    BY <1>a, <1>b, RevokeCloses
  <2>2. \A j \in Ids : rconn'[j].status = "active" => rconn[j].status = "active"
    BY <1>e
  <2> QED BY <1>b, <2>1, <2>2, KnownStays
<1> QED BY <1>6, <1>7, <1>8, <1>9, <1>10

\* Dropping the row keeps the invariant.
LEMMA RevokeCommitKeeps ==
  ASSUME ConstantsOK, Inv, NEW c \in Callers, RevokeCommit(c)
  PROVE  Inv'
<1> USE DEF Inv, relay, host, socket, TypeInv
<1>1. rpair' \in [Ids -> Pairs] /\ hpair' \in [Ids -> Pairs]
  BY DEF RevokeCommit
<1>2. rconn' \in [Ids -> Conns]
  BY DEF RevokeCommit
<1>3. hconn' \in [Profiles -> RowShape \union {NoRow}]
  BY DEF RevokeCommit, RowShape, Calls, Idle, Conns
<1>4. calls' \in [Callers -> Calls]
  BY DEF RevokeCommit, Calls, Idle, Pairs, RowShape
<1>5. profiles' \subseteq Profiles /\ late' \subseteq Ids /\ updates' \in 0 .. MaxUpdates
       /\ faults' \in 0 .. MaxFaults /\ hostEnd' \in BOOLEAN /\ relayEnd' \in BOOLEAN
  BY DEF RevokeCommit, ConstantsOK, Fault, NoFault
<1>6. TypeInv'
  BY <1>1, <1>2, <1>3, <1>4, <1>5
<1>7. MessageInv'
  BY DEF RevokeCommit, MessageInv, Truths
<1>8. RelayInv'
  BY DEF RevokeCommit, RelayInv, Open, Active
<1>9. RowInv' /\ CallInv'
  BY SMTT(30) DEF RevokeCommit, RelayInv, RowInv, CallInv, HasKey, Confirming, HoldsKey, Open, Active, Calls, Idle, RowShape
<1>10. KnownUntilRevoked'
  BY DEF RevokeCommit, RelayInv, RowInv, CallInv, KnownUntilRevoked, HasKey, Confirming, Open, Active, Calls, RowShape, ConstantsOK
<1> QED BY <1>6, <1>7, <1>8, <1>9, <1>10

\* Deleting a profile keeps the invariant.
LEMMA DeleteProfileKeeps ==
  ASSUME ConstantsOK, Inv, NEW p \in Profiles, DeleteProfile(p)
  PROVE  Inv'
<1> USE DEF Inv, relay, host, socket, TypeInv
<1>a. rpair' = rpair /\ hconn' = hconn /\ hpair' = hpair /\ calls' = calls /\ replay' = replay
  BY DEF DeleteProfile
<1>b. \/ rconn' = rconn /\ toHost' = toHost
      \/ /\ hconn[p] # NoRow /\ Active(hconn[p].id) /\ TerminalRevoke(hconn[p].id)
         /\ SendHost(Revoked(hconn[p].id))
  BY DEF DeleteProfile
<1>c. hconn[p] # NoRow => hconn[p].id \in Ids
  BY RowTypes
<1>d. toRelay' = toRelay \/ (hconn[p] # NoRow /\ toRelay' = Append(toRelay, Bound(p, "unavailable")))
  BY DEF DeleteProfile
<1>e. Closing /\ \A j \in Ids : rconn'[j].status = "active" => rconn[j].status = "active"
  <2>1. CASE rconn' = rconn
    BY <1>a, <2>1 DEF Closing, Open, Active
  <2>2. CASE hconn[p] # NoRow /\ TerminalRevoke(hconn[p].id)
    BY <1>a, <1>c, <2>2, RevokeCloses, RevokeTypes
  <2> QED BY <1>b, <2>1, <2>2
<1>1. rpair' \in [Ids -> Pairs] /\ hpair' \in [Ids -> Pairs]
  BY DEF DeleteProfile, TerminalRevoke, SendHost, Revoked, Bound
<1>2. rconn' \in [Ids -> Conns]
  BY <1>b, <1>c, RevokeTypes
<1>3. hconn' \in [Profiles -> RowShape \union {NoRow}]
  BY DEF DeleteProfile, TerminalRevoke, SendHost, Revoked, Bound
<1>4. calls' \in [Callers -> Calls]
  BY DEF DeleteProfile, TerminalRevoke, SendHost, Revoked, Bound
<1>5. profiles' \subseteq Profiles /\ late' \subseteq Ids /\ updates' \in 0 .. MaxUpdates
       /\ faults' \in 0 .. MaxFaults /\ hostEnd' \in BOOLEAN /\ relayEnd' \in BOOLEAN
  BY DEF DeleteProfile, TerminalRevoke, SendHost, Revoked, Bound, ConstantsOK, Fault, NoFault
<1>6. TypeInv'
  BY <1>1, <1>2, <1>3, <1>4, <1>5
<1>7. MessageInv'
  <2>1. toRelay' \in Seq(RelayMessages)
    <3>1. hconn[p] # NoRow => Bound(p, "unavailable") \in RelayMessages
      BY BoundTypes
    <3> QED BY <1>d, <3>1, AppendTypes DEF MessageInv
  <2>2. CASE rconn' = rconn /\ toHost' = toHost
    BY <1>a, <2>1, <2>2, Carried DEF MessageInv
  <2>3. CASE /\ hconn[p] # NoRow /\ TerminalRevoke(hconn[p].id)
             /\ SendHost(Revoked(hconn[p].id))
    <3>1. rconn'[hconn[p].id].status = "revoked"
      BY <1>c, <2>3, RevokeTypes
    <3>2. Truths \subseteq Truths'
      BY <1>c, <2>3, RevokeTypes, TruthsLast
    <3>3. Revoked(hconn[p].id) \in Truths'
      BY <1>c, <2>3, <3>1, TruthTypes
    <3> QED BY <1>a, <2>1, <2>3, <3>2, <3>3, Told
  <2> QED BY <1>b, <2>2, <2>3
<1>8. RelayInv'
  <2>1. CASE rconn' = rconn
    BY <1>a, <2>1 DEF RelayInv, Open, Active
  <2>2. CASE hconn[p] # NoRow /\ Active(hconn[p].id) /\ TerminalRevoke(hconn[p].id)
    BY <1>a, <1>c, <2>2, RevokeKeepsRelay
  <2> QED BY <1>b, <2>1, <2>2
<1>9. RowInv' /\ CallInv'
  <2>1. RowsFade /\ CallsFade
    BY <1>a DEF RowsFade, CallsFade
  <2> QED BY <1>e, <2>1, FadingKeeps
<1>10. KnownUntilRevoked'
  BY <1>a, <1>e, KnownStays
<1> QED BY <1>6, <1>7, <1>8, <1>9, <1>10

\* Claiming a pairing in a channel keeps the invariant.
LEMMA ClaimKeeps ==
  ASSUME ConstantsOK, Inv, NEW i \in Ids, NEW ch \in Channels, Claim(i, ch)
  PROVE  Inv'
<1> USE DEF Inv, relay, host, socket, TypeInv
<1>1. rpair' \in [Ids -> Pairs] /\ hpair' \in [Ids -> Pairs]
  BY DEF Claim, SendHost, Pairs
<1>2. rconn' \in [Ids -> Conns]
  BY DEF Claim, SendHost
<1>3. hconn' \in [Profiles -> RowShape \union {NoRow}]
  BY DEF Claim, SendHost
<1>4. calls' \in [Callers -> Calls]
  BY DEF Claim, SendHost
<1>5. profiles' \subseteq Profiles /\ late' \subseteq Ids /\ updates' \in 0 .. MaxUpdates
       /\ faults' \in 0 .. MaxFaults /\ hostEnd' \in BOOLEAN /\ relayEnd' \in BOOLEAN
  BY DEF Claim, SendHost, ConstantsOK, Fault, NoFault
<1>6. TypeInv'
  BY <1>1, <1>2, <1>3, <1>4, <1>5
<1>7. MessageInv'
  <2>1. Truths \subseteq Truths'
    BY TruthsLast DEF Claim
  <2>2. [type |-> "pairing_claimed", id |-> i, channel |-> ch] \in Truths'
    BY TruthTypes
  <2> QED BY <2>1, <2>2, Told DEF Claim, MessageInv
<1>8. RelayInv'
  BY DEF Claim, SendHost, RelayInv, Open, Active
<1>9. RowInv' /\ CallInv'
  BY DEF Claim, SendHost, RelayInv, RowInv, CallInv, HasKey, Confirming, HoldsKey, Open, Active, Calls, Idle, RowShape
<1>10. KnownUntilRevoked'
  BY DEF Claim, SendHost, RelayInv, RowInv, CallInv, KnownUntilRevoked, HasKey, Confirming, Open, Active, Calls, RowShape, ConstantsOK
<1> QED BY <1>6, <1>7, <1>8, <1>9, <1>10

\* Unpairing in Discord keeps the invariant.
LEMMA UnpairKeeps ==
  ASSUME ConstantsOK, Inv, NEW i \in Ids, Unpair(i)
  PROVE  Inv'
<1> USE DEF Inv, relay, host, socket, TypeInv
<1>a. Active(i) /\ TerminalRevoke(i) /\ SendHost(Revoked(i)) /\ rpair' = rpair /\ hconn' = hconn
      /\ hpair' = hpair /\ calls' = calls /\ replay' = replay /\ toRelay' = toRelay
  BY DEF Unpair
<1>b. Closing /\ \A j \in Ids : rconn'[j].status = "active" => rconn[j].status = "active"
  BY <1>a, RevokeCloses, RevokeTypes
<1>1. rpair' \in [Ids -> Pairs] /\ hpair' \in [Ids -> Pairs]
  BY DEF Unpair, TerminalRevoke, SendHost, Revoked
<1>2. rconn' \in [Ids -> Conns]
  BY <1>a, RevokeTypes
<1>3. hconn' \in [Profiles -> RowShape \union {NoRow}]
  BY DEF Unpair, TerminalRevoke, SendHost, Revoked
<1>4. calls' \in [Callers -> Calls]
  BY DEF Unpair, TerminalRevoke, SendHost, Revoked
<1>5. profiles' \subseteq Profiles /\ late' \subseteq Ids /\ updates' \in 0 .. MaxUpdates
       /\ faults' \in 0 .. MaxFaults /\ hostEnd' \in BOOLEAN /\ relayEnd' \in BOOLEAN
  BY DEF Unpair, TerminalRevoke, SendHost, Revoked, ConstantsOK, Fault, NoFault
<1>6. TypeInv'
  BY <1>1, <1>2, <1>3, <1>4, <1>5
<1>7. MessageInv'
  <2>1. Truths \subseteq Truths'
    BY <1>a, RevokeTypes, TruthsLast
  <2>2. Revoked(i) \in Truths'
    BY <1>a, RevokeTypes, TruthTypes
  <2> QED BY <1>a, <2>1, <2>2, Told DEF MessageInv
<1>8. RelayInv'
  BY <1>a, RevokeKeepsRelay
<1>9. RowInv' /\ CallInv'
  <2>1. RowsFade /\ CallsFade
    BY <1>a DEF RowsFade, CallsFade
  <2> QED BY <1>b, <2>1, FadingKeeps
<1>10. KnownUntilRevoked'
  BY <1>a, <1>b, KnownStays
<1> QED BY <1>6, <1>7, <1>8, <1>9, <1>10

\* The end of ten minutes keeps the invariant.
LEMMA PairingLapsesKeeps ==
  ASSUME ConstantsOK, Inv, NEW i \in Ids, PairingLapses(i)
  PROVE  Inv'
<1> USE DEF Inv, relay, host, socket, TypeInv
<1>1. rpair' \in [Ids -> Pairs] /\ hpair' \in [Ids -> Pairs]
  BY DEF PairingLapses
<1>2. rconn' \in [Ids -> Conns]
  BY DEF PairingLapses
<1>3. hconn' \in [Profiles -> RowShape \union {NoRow}]
  BY DEF PairingLapses
<1>4. calls' \in [Callers -> Calls]
  BY DEF PairingLapses
<1>5. profiles' \subseteq Profiles /\ late' \subseteq Ids /\ updates' \in 0 .. MaxUpdates
       /\ faults' \in 0 .. MaxFaults /\ hostEnd' \in BOOLEAN /\ relayEnd' \in BOOLEAN
  BY DEF PairingLapses, ConstantsOK, Fault, NoFault
<1>6. TypeInv'
  BY <1>1, <1>2, <1>3, <1>4, <1>5
<1>7. MessageInv'
  BY DEF PairingLapses, MessageInv, Truths
<1>8. RelayInv'
  BY DEF PairingLapses, RelayInv, Open, Active
<1>9. RowInv' /\ CallInv'
  BY DEF PairingLapses, RelayInv, RowInv, CallInv, HasKey, Confirming, HoldsKey, Open, Active, Calls, Idle, RowShape
<1>10. KnownUntilRevoked'
  BY DEF PairingLapses, RelayInv, RowInv, CallInv, KnownUntilRevoked, HasKey, Confirming, Open, Active, Calls, RowShape, ConstantsOK
<1> QED BY <1>6, <1>7, <1>8, <1>9, <1>10

\* Reconnecting keeps the invariant.
LEMMA ConnectKeeps ==
  ASSUME ConstantsOK, Inv, Connect
  PROVE  Inv'
<1> USE DEF Inv, relay, host, socket, TypeInv
<1>a. rconn' = rconn /\ hconn' = hconn /\ hpair' = hpair /\ calls' = calls /\ toHost' = toHost
  BY DEF Connect
<1>b. rpair' = [j \in Ids |-> IF rpair[j].status = "pending" /\ j \in late
                              THEN [rpair[j] EXCEPT !.status = "expired"] ELSE rpair[j]]
  BY DEF Connect
<1>c. \A j \in Ids : rpair'[j] = rpair[j]
        \/ (/\ rpair[j].status = "pending" /\ rpair'[j].status = "expired"
            /\ rpair'[j].profile = rpair[j].profile /\ rpair'[j] \in Pairs)
  <2>1. \A r \in Pairs : LET e == [r EXCEPT !.status = "expired"] IN
          e.status = "expired" /\ e.profile = r.profile /\ e \in Pairs
    BY DEF Pairs
  <2>2. \A j \in Ids : rpair[j] \in Pairs
    OBVIOUS
  <2> QED BY <1>b, <2>1, <2>2
<1>d. Closing
  BY <1>a, <1>c DEF Closing, Open, Active
<1>1. rpair' \in [Ids -> Pairs] /\ hpair' \in [Ids -> Pairs]
  BY <1>a, <1>b, <1>c
<1>2. rconn' \in [Ids -> Conns]
  BY DEF Connect, Bound, Claimed
<1>3. hconn' \in [Profiles -> RowShape \union {NoRow}]
  BY DEF Connect, Bound, Claimed
<1>4. calls' \in [Callers -> Calls]
  BY DEF Connect, Bound, Claimed
<1>5. profiles' \subseteq Profiles /\ late' \subseteq Ids /\ updates' \in 0 .. MaxUpdates
       /\ faults' \in 0 .. MaxFaults /\ hostEnd' \in BOOLEAN /\ relayEnd' \in BOOLEAN
  BY DEF Connect, Bound, Claimed, ConstantsOK, Fault, NoFault
<1>6. TypeInv'
  BY <1>1, <1>2, <1>3, <1>4, <1>5
<1>7. MessageInv'
  <2> DEFINE rows == {j \in Ids : \E q \in Profiles : hconn[q] # NoRow /\ hconn[q].id = j}
             owner(j) == CHOOSE q \in Profiles : hconn[q] # NoRow /\ hconn[q].id = j
             report(j) == IF owner(j) \notin profiles THEN Bound(owner(j), "unavailable")
                          ELSE IF hconn[owner(j)].enabled THEN Bound(owner(j), "binding")
                          ELSE Bound(owner(j), "disabled")
             claims == {Claimed(j) : j \in {k \in Ids : /\ rpair[k].status = "pending" /\ k \notin late
                                                       /\ rpair[k].channel # NoChannel}}
             reports == {report(j) : j \in rows}
  <2>1. PICK first \in Orders(claims) : replay' = first \o <<Connections, Tombstones>>
    BY DEF Connect
  <2>2. toRelay' \in Orders(reports)
    BY DEF Connect
  <2>3. claims \subseteq Truths
    BY DEF Claimed, Truths, HostMessages, Pairs
  <2>4. reports \subseteq RelayMessages
    <3>1. \A j \in rows : owner(j) \in Profiles /\ hconn[owner(j)] # NoRow
      OBVIOUS
    <3>2. \A j \in rows : report(j) \in RelayMessages
      BY <3>1, BoundTypes
    <3> QED BY <3>2
  <2> HIDE DEF claims, reports
  <2>5. first \in Seq(Truths \union {Connections, Tombstones})
    BY <2>1, <2>3, OrdersAreSequences, SeqMono
  <2>6. toRelay' \in Seq(RelayMessages)
    BY <2>2, <2>4, OrdersAreSequences, SeqMono
  <2>7. replay' \in Seq(Truths \union {Connections, Tombstones})
    BY <2>1, <2>5
  <2> QED BY <1>a, <2>6, <2>7, Carried DEF MessageInv
<1>8. RelayInv'
  BY <1>a, <1>c DEF RelayInv, Open, Active
<1>9. RowInv' /\ CallInv'
  <2>1. RowsFade /\ CallsFade
    BY <1>a DEF RowsFade, CallsFade
  <2> QED BY <1>d, <2>1, FadingKeeps
<1>10. KnownUntilRevoked'
  BY <1>a, <1>d, KnownStays
<1> QED BY <1>6, <1>7, <1>8, <1>9, <1>10

\* Repeating what was missed keeps the invariant.
LEMMA ReplayKeeps ==
  ASSUME ConstantsOK, Inv, Replay
  PROVE  Inv'
<1> USE DEF Inv, relay, host, socket, TypeInv
<1>1. rpair' \in [Ids -> Pairs] /\ hpair' \in [Ids -> Pairs]
  BY DEF Replay, ReplayList, Activated, Revoked
<1>2. rconn' \in [Ids -> Conns]
  BY DEF Replay, ReplayList, Activated, Revoked
<1>3. hconn' \in [Profiles -> RowShape \union {NoRow}]
  BY DEF Replay, ReplayList, Activated, Revoked
<1>4. calls' \in [Callers -> Calls]
  BY DEF Replay, ReplayList, Activated, Revoked
<1>5. profiles' \subseteq Profiles /\ late' \subseteq Ids /\ updates' \in 0 .. MaxUpdates
       /\ faults' \in 0 .. MaxFaults /\ hostEnd' \in BOOLEAN /\ relayEnd' \in BOOLEAN
  BY DEF Replay, ReplayList, Activated, Revoked, ConstantsOK, Fault, NoFault
<1>6. TypeInv'
  BY <1>1, <1>2, <1>3, <1>4, <1>5
<1>7. MessageInv'
  <2> DEFINE All == Truths \union {Connections, Tombstones}
  <2>1. Head(replay) \in All /\ Tail(replay) \in Seq(All)
    BY HeadTail DEF Replay, MessageInv
  <2>2. \A marker : ReplayList(marker) \subseteq Truths
    BY DEF ReplayList, Activated, Revoked, Truths, HostMessages
  <2>3. toHost' \in Seq(Truths) /\ replay' \in Seq(All)
    <3>1. CASE /\ Head(replay) \notin {Connections, Tombstones}
               /\ toHost' = Append(toHost, Head(replay)) /\ replay' = Tail(replay)
      BY <2>1, <3>1, AppendTypes DEF MessageInv
    <3>2. CASE toHost' = toHost /\ replay' = Tail(replay)
      BY <2>1, <3>2 DEF MessageInv
    <3>3. CASE \E list \in Orders(ReplayList(Head(replay))) :
                 /\ list # <<>>
                 /\ toHost' = Append(toHost, Head(list)) /\ replay' = Tail(list) \o Tail(replay)
      <4>1. PICK list \in Orders(ReplayList(Head(replay))) :
                 /\ list # <<>>
                 /\ toHost' = Append(toHost, Head(list)) /\ replay' = Tail(list) \o Tail(replay)
        BY <3>3
      <4>2. list \in Seq(Truths)
        BY <2>2, <4>1, OrdersAreSequences, SeqMono
      <4>3. Head(list) \in Truths /\ Tail(list) \in Seq(Truths)
        BY <4>1, <4>2, HeadTail
      <4>4. Tail(list) \in Seq(All)
        BY <4>3, SeqMono
      <4>5. replay' \in Seq(All)
        BY <2>1, <4>1, <4>4
      <4>6. toHost' \in Seq(Truths)
        BY <4>1, <4>3, AppendTypes DEF MessageInv
      <4> QED BY <4>5, <4>6
    <3> QED BY <3>1, <3>2, <3>3 DEF Replay
  <2> QED BY <2>3, Carried DEF Replay, MessageInv
<1>8. RelayInv'
  BY DEF Replay, ReplayList, Activated, Revoked, RelayInv, Open, Active
<1>9. RowInv' /\ CallInv'
  BY DEF Replay, ReplayList, Activated, Revoked, RelayInv, RowInv, CallInv, HasKey, Confirming, HoldsKey, Open, Active, Calls, Idle, RowShape
<1>10. KnownUntilRevoked'
  BY DEF Replay, ReplayList, Activated, Revoked, RelayInv, RowInv, CallInv, KnownUntilRevoked, HasKey, Confirming, Open, Active, Calls, RowShape, ConstantsOK
<1> QED BY <1>6, <1>7, <1>8, <1>9, <1>10

\* The closing of the socket keeps the invariant.
LEMMA HostSeesCloseKeeps ==
  ASSUME ConstantsOK, Inv, HostSeesClose
  PROVE  Inv'
<1> USE DEF Inv, relay, host, socket, TypeInv
<1>1. rpair' \in [Ids -> Pairs] /\ hpair' \in [Ids -> Pairs]
  BY DEF HostSeesClose
<1>2. rconn' \in [Ids -> Conns]
  BY DEF HostSeesClose
<1>3. hconn' \in [Profiles -> RowShape \union {NoRow}]
  BY DEF HostSeesClose
<1>4. calls' \in [Callers -> Calls]
  BY DEF HostSeesClose
<1>5. profiles' \subseteq Profiles /\ late' \subseteq Ids /\ updates' \in 0 .. MaxUpdates
       /\ faults' \in 0 .. MaxFaults /\ hostEnd' \in BOOLEAN /\ relayEnd' \in BOOLEAN
  BY DEF HostSeesClose, ConstantsOK, Fault, NoFault
<1>6. TypeInv'
  BY <1>1, <1>2, <1>3, <1>4, <1>5
<1>7. MessageInv'
  BY DEF HostSeesClose, MessageInv, Truths
<1>8. RelayInv'
  BY DEF HostSeesClose, RelayInv, Open, Active
<1>9. RowInv' /\ CallInv'
  BY DEF HostSeesClose, RelayInv, RowInv, CallInv, HasKey, Confirming, HoldsKey, Open, Active, Calls, Idle, RowShape
<1>10. KnownUntilRevoked'
  BY DEF HostSeesClose, RelayInv, RowInv, CallInv, KnownUntilRevoked, HasKey, Confirming, Open, Active, Calls, RowShape, ConstantsOK
<1> QED BY <1>6, <1>7, <1>8, <1>9, <1>10

\* Losing the socket keeps the invariant.
LEMMA SocketLostKeeps ==
  ASSUME ConstantsOK, Inv, SocketLost
  PROVE  Inv'
<1> USE DEF Inv, relay, host, socket, TypeInv
<1>1. rpair' \in [Ids -> Pairs] /\ hpair' \in [Ids -> Pairs]
  BY DEF SocketLost, CloseBoth
<1>2. rconn' \in [Ids -> Conns]
  BY DEF SocketLost, CloseBoth
<1>3. hconn' \in [Profiles -> RowShape \union {NoRow}]
  BY DEF SocketLost, CloseBoth
<1>4. calls' \in [Callers -> Calls]
  BY DEF SocketLost, CloseBoth
<1>5. profiles' \subseteq Profiles /\ late' \subseteq Ids /\ updates' \in 0 .. MaxUpdates
       /\ faults' \in 0 .. MaxFaults /\ hostEnd' \in BOOLEAN /\ relayEnd' \in BOOLEAN
  <2>1. faults' \in 0 .. MaxFaults
    BY DEF SocketLost, ConstantsOK, Fault
  <2>2. /\ profiles' = profiles /\ late' = late /\ updates' = updates
        /\ hostEnd' = FALSE /\ relayEnd' = FALSE
    BY DEF SocketLost, CloseBoth
  <2> QED BY <2>1, <2>2
<1>6. TypeInv'
  BY <1>1, <1>2, <1>3, <1>4, <1>5
<1>7. MessageInv'
  BY DEF SocketLost, CloseBoth, MessageInv, Truths, HostMessages, RelayMessages, Conns, Active
<1>8. RelayInv'
  BY DEF SocketLost, CloseBoth, RelayInv, Open, Active
<1>9. RowInv' /\ CallInv'
  BY DEF SocketLost, CloseBoth, RelayInv, RowInv, CallInv, HasKey, Confirming, HoldsKey, Open, Active, Calls, Idle, RowShape
<1>10. KnownUntilRevoked'
  BY DEF SocketLost, CloseBoth, RelayInv, RowInv, CallInv, KnownUntilRevoked, HasKey, Confirming, Open, Active, Calls, RowShape, ConstantsOK
<1> QED BY <1>6, <1>7, <1>8, <1>9, <1>10

\* A restart of the host keeps the invariant.
LEMMA HostRestartsKeeps ==
  ASSUME ConstantsOK, Inv, HostRestarts
  PROVE  Inv'
<1> USE DEF Inv, relay, host, socket, TypeInv
<1>1. rpair' \in [Ids -> Pairs] /\ hpair' \in [Ids -> Pairs]
  BY DEF HostRestarts, CloseBoth
<1>2. rconn' \in [Ids -> Conns]
  BY DEF HostRestarts, CloseBoth
<1>3. hconn' \in [Profiles -> RowShape \union {NoRow}]
  BY DEF HostRestarts, CloseBoth
<1>4. calls' \in [Callers -> Calls]
  BY DEF HostRestarts, CloseBoth, Calls, Idle, Pairs, RowShape
<1>5. profiles' \subseteq Profiles /\ late' \subseteq Ids /\ updates' \in 0 .. MaxUpdates
       /\ faults' \in 0 .. MaxFaults /\ hostEnd' \in BOOLEAN /\ relayEnd' \in BOOLEAN
  <2>1. faults' \in 0 .. MaxFaults
    BY DEF HostRestarts, ConstantsOK, Fault
  <2>2. /\ profiles' = profiles /\ late' = late /\ updates' = updates
        /\ hostEnd' = FALSE /\ relayEnd' = FALSE
    BY DEF HostRestarts, CloseBoth
  <2> QED BY <2>1, <2>2
<1>6. TypeInv'
  BY <1>1, <1>2, <1>3, <1>4, <1>5
<1>7. MessageInv'
  BY DEF HostRestarts, CloseBoth, MessageInv, Truths, HostMessages, RelayMessages, Conns, Active
<1>8. RelayInv'
  BY DEF HostRestarts, CloseBoth, RelayInv, Open, Active
<1>9. RowInv' /\ CallInv'
  BY DEF HostRestarts, CloseBoth, RelayInv, RowInv, CallInv, HasKey, Confirming, HoldsKey, Open, Active, Calls, Idle, RowShape
<1>10. KnownUntilRevoked'
  BY DEF HostRestarts, CloseBoth, RelayInv, RowInv, CallInv, KnownUntilRevoked, HasKey, Confirming, Open, Active, Calls, RowShape, ConstantsOK
<1> QED BY <1>6, <1>7, <1>8, <1>9, <1>10

\* A heartbeat keeps the invariant.
LEMMA HeartbeatKeeps ==
  ASSUME ConstantsOK, Inv, NEW p \in Profiles, Heartbeat(p)
  PROVE  Inv'
<1> USE DEF Inv, relay, host, socket, TypeInv
<1>1. rpair' \in [Ids -> Pairs] /\ hpair' \in [Ids -> Pairs]
  BY DEF Heartbeat, Send, Bound
<1>2. rconn' \in [Ids -> Conns]
  BY DEF Heartbeat, Send, Bound
<1>3. hconn' \in [Profiles -> RowShape \union {NoRow}]
  BY DEF Heartbeat, Send, Bound
<1>4. calls' \in [Callers -> Calls]
  BY DEF Heartbeat, Send, Bound
<1>5. profiles' \subseteq Profiles /\ late' \subseteq Ids /\ updates' \in 0 .. MaxUpdates
       /\ faults' \in 0 .. MaxFaults /\ hostEnd' \in BOOLEAN /\ relayEnd' \in BOOLEAN
  BY DEF Heartbeat, Send, Bound, ConstantsOK, Fault, NoFault
<1>6. TypeInv'
  BY <1>1, <1>2, <1>3, <1>4, <1>5
<1>7. MessageInv'
  <2>1. Bound(p, "heartbeat") \in RelayMessages
    BY BoundTypes DEF Heartbeat
  <2>2. toRelay' \in Seq(RelayMessages)
    BY <2>1, AppendTypes DEF Heartbeat, Send, MessageInv
  <2> QED BY <2>2, Carried DEF Heartbeat, MessageInv
<1>8. RelayInv'
  BY DEF Heartbeat, Send, Bound, RelayInv, Open, Active
<1>9. RowInv' /\ CallInv'
  BY DEF Heartbeat, Send, Bound, RelayInv, RowInv, CallInv, HasKey, Confirming, HoldsKey, Open, Active, Calls, Idle, RowShape
<1>10. KnownUntilRevoked'
  BY DEF Heartbeat, Send, Bound, RelayInv, RowInv, CallInv, KnownUntilRevoked, HasKey, Confirming, Open, Active, Calls, RowShape, ConstantsOK
<1> QED BY <1>6, <1>7, <1>8, <1>9, <1>10

\* A message read by the relay keeps the invariant.
LEMMA RelayReceivesKeeps ==
  ASSUME ConstantsOK, Inv, RelayReceives
  PROVE  Inv'
<1> USE DEF Inv, relay, host, socket, TypeInv
<1> DEFINE i == Head(toRelay).id
<1>a. rpair' = rpair /\ hconn' = hconn /\ hpair' = hpair /\ calls' = calls
  BY DEF RelayReceives
<1>b. Head(toRelay) \in RelayMessages /\ Tail(toRelay) \in Seq(RelayMessages)
  BY HeadTail DEF RelayReceives, MessageInv
<1>c. i \in Ids
  BY <1>b DEF RelayMessages
<1>d. \/ rconn' = rconn /\ toHost' = toHost
      \/ Active(i) /\ TerminalRevoke(i) /\ SendHost(Revoked(i)) /\ replay' = replay
  BY DEF RelayReceives, Unknown
<1>e. /\ toRelay' = Tail(toRelay) \/ toRelay' = <<>>
      /\ replay' = replay \/ replay' = <<>>
  BY DEF RelayReceives, Hangup
<1> HIDE DEF i
<1>f. Closing /\ \A j \in Ids : rconn'[j].status = "active" => rconn[j].status = "active"
  <2>1. CASE rconn' = rconn
    BY <1>a, <2>1 DEF Closing, Open, Active
  <2>2. CASE TerminalRevoke(i)
    BY <1>a, <1>c, <2>2, RevokeCloses, RevokeTypes
  <2> QED BY <1>d, <2>1, <2>2
<1>1. rpair' \in [Ids -> Pairs] /\ hpair' \in [Ids -> Pairs]
  BY DEF RelayReceives, Hangup, Unknown, TerminalRevoke, SendHost, Revoked
<1>2. rconn' \in [Ids -> Conns]
  BY <1>c, <1>d, RevokeTypes
<1>3. hconn' \in [Profiles -> RowShape \union {NoRow}]
  BY DEF RelayReceives, Hangup, Unknown, TerminalRevoke, SendHost, Revoked
<1>4. calls' \in [Callers -> Calls]
  BY DEF RelayReceives, Hangup, Unknown, TerminalRevoke, SendHost, Revoked
<1>5. profiles' \subseteq Profiles /\ late' \subseteq Ids /\ updates' \in 0 .. MaxUpdates
       /\ faults' \in 0 .. MaxFaults /\ hostEnd' \in BOOLEAN /\ relayEnd' \in BOOLEAN
  BY DEF RelayReceives, Hangup, Unknown, TerminalRevoke, SendHost, Revoked, ConstantsOK, Fault, NoFault
<1>6. TypeInv'
  BY <1>1, <1>2, <1>3, <1>4, <1>5
<1>7. MessageInv'
  <2>1. toRelay' \in Seq(RelayMessages)
    BY <1>b, <1>e, EmptySeq
  <2>2. CASE rconn' = rconn /\ toHost' = toHost
    <3>1. replay' \in Seq(Truths \union {Connections, Tombstones})
      BY <1>e, EmptySeq DEF MessageInv
    <3> QED BY <2>1, <2>2, <3>1, Carried DEF MessageInv
  <2>3. CASE TerminalRevoke(i) /\ SendHost(Revoked(i)) /\ replay' = replay
    <3>1. Truths \subseteq Truths'
      BY <1>c, <2>3, RevokeTypes, TruthsLast
    <3>2. Revoked(i) \in Truths'
      BY <1>c, <2>3, RevokeTypes, TruthTypes
    <3> QED BY <2>1, <2>3, <3>1, <3>2, Told
  <2> QED BY <1>d, <2>2, <2>3
<1>8. RelayInv'
  <2>1. CASE rconn' = rconn
    BY <1>a, <2>1 DEF RelayInv, Open, Active
  <2>2. CASE Active(i) /\ TerminalRevoke(i)
    BY <1>a, <1>c, <2>2, RevokeKeepsRelay
  <2> QED BY <1>d, <2>1, <2>2
<1>9. RowInv' /\ CallInv'
  <2>1. RowsFade /\ CallsFade
    BY <1>a DEF RowsFade, CallsFade
  <2> QED BY <1>f, <2>1, FadingKeeps
<1>10. KnownUntilRevoked'
  BY <1>a, <1>f, KnownStays
<1> QED BY <1>6, <1>7, <1>8, <1>9, <1>10

\* A message read by the host keeps the invariant.
LEMMA HostReceivesKeeps ==
  ASSUME ConstantsOK, Inv, HostReceives
  PROVE  Inv'
<1> USE DEF Inv, relay, host, socket, TypeInv
<1>a. Head(toHost) \in Truths /\ Tail(toHost) \in Seq(Truths)
  BY HeadTail DEF HostReceives, Hears, HearsClaim, HearsConnection, HearsStranger, HearsRevocation, MessageInv
<1>b. rpair' = rpair /\ rconn' = rconn /\ calls' = calls
  BY DEF HostReceives, Hears, HearsClaim, HearsConnection, HearsStranger, HearsRevocation
<1>c. \A q \in Profiles : \/ hconn'[q] = hconn[q]
                          \/ \E b \in BOOLEAN : hconn[q] # NoRow /\ hconn'[q] = [hconn[q] EXCEPT !.enabled = b]
                          \/ /\ hconn'[q] = NoRow /\ hconn[q] # NoRow
                             /\ rconn[hconn[q].id].status = "revoked"
  BY <1>a DEF HostReceives, Hears, HearsClaim, HearsConnection, HearsStranger, HearsRevocation, Row, Truths, HostMessages, Conns
<1>d. \A q \in Profiles : hconn[q] # NoRow =>
        \/ hconn'[q] = NoRow /\ rconn[hconn[q].id].status = "revoked"
        \/ /\ hconn'[q] \in RowShape /\ hconn'[q].key = hconn[q].key
           /\ hconn'[q].id = hconn[q].id /\ hconn'[q].channel = hconn[q].channel
  BY <1>c, RowTypes DEF RowShape
<1>e. DOMAIN hconn' = Profiles /\ hconn' = [q \in Profiles |-> hconn'[q]]
  BY DEF HostReceives, Hears, HearsClaim, HearsConnection, HearsStranger, HearsRevocation
<1>1. rpair' \in [Ids -> Pairs] /\ hpair' \in [Ids -> Pairs]
  <2>2. \/ hpair' = hpair
        \/ /\ Head(toHost).type = "pairing_claimed"
           /\ hpair' = [hpair EXCEPT ![Head(toHost).id] = [@ EXCEPT !.channel = Head(toHost).channel]]
    BY DEF HostReceives, Hears, HearsClaim, HearsConnection, HearsStranger, HearsRevocation
  <2>3. Head(toHost).type = "pairing_claimed" => Head(toHost).channel \in Channels
    BY <1>a DEF Truths, HostMessages
  <2>4. \A j \in Ids, ch \in Channels : [hpair[j] EXCEPT !.channel = ch] \in Pairs
    BY PairTypes
  <2> QED BY <1>b, <2>2, <2>3, <2>4
<1>2. rconn' \in [Ids -> Conns]
  BY DEF HostReceives, Hears, HearsClaim, HearsConnection, HearsStranger, HearsRevocation, Row, Refused, InFlight, Send
<1>3. hconn' \in [Profiles -> RowShape \union {NoRow}]
  <2>1. \A q \in Profiles : hconn'[q] \in RowShape \union {NoRow}
    BY <1>c, <1>d
  <2> QED BY <1>e, <2>1
<1>4. calls' \in [Callers -> Calls]
  BY DEF HostReceives, Hears, HearsClaim, HearsConnection, HearsStranger, HearsRevocation, Row, Refused, InFlight, Send
<1>5. profiles' \subseteq Profiles /\ late' \subseteq Ids /\ updates' \in 0 .. MaxUpdates
       /\ faults' \in 0 .. MaxFaults /\ hostEnd' \in BOOLEAN /\ relayEnd' \in BOOLEAN
  BY DEF HostReceives, Hears, HearsClaim, HearsConnection, HearsStranger, HearsRevocation, Row, Refused, InFlight, Send, ConstantsOK, Fault, NoFault
<1>6. TypeInv'
  BY <1>1, <1>2, <1>3, <1>4, <1>5
<1>7. MessageInv'
  <2>1. Truths' = Truths
    BY <1>b DEF Truths
  <2>2. toHost' \in Seq(Truths') /\ replay' = replay
    BY <1>a, <2>1 DEF HostReceives, Hears, HearsClaim, HearsConnection, HearsStranger, HearsRevocation
  <2>3. toRelay' \in Seq(RelayMessages)
    <3>1. \/ toRelay' = toRelay
          \/ /\ Head(toHost).type = "connection_activated"
             /\ toRelay' = Append(toRelay, [type |-> "unavailable", id |-> Head(toHost).id,
                  profile |-> Head(toHost).conn.profile, channel |-> Head(toHost).conn.channel])
      BY DEF HostReceives, Hears, HearsClaim, HearsConnection, HearsStranger, HearsRevocation, Refused, Send
    <3>2. Head(toHost).type = "connection_activated" =>
            [type |-> "unavailable", id |-> Head(toHost).id,
             profile |-> Head(toHost).conn.profile, channel |-> Head(toHost).conn.channel] \in RelayMessages
      BY <1>a DEF Truths, HostMessages, RelayMessages, Conns
    <3>3. toRelay \in Seq(RelayMessages)
      BY DEF MessageInv
    <3>4. \A m \in RelayMessages : Append(toRelay, m) \in Seq(RelayMessages)
      BY <3>3
    <3> QED BY <3>1, <3>2, <3>3, <3>4
  <2>4. replay' \in Seq(Truths' \union {Connections, Tombstones})
    BY <2>1, <2>2 DEF MessageInv
  <2> QED BY <2>2, <2>3, <2>4 DEF MessageInv, Connections, Tombstones
<1>8. RelayInv'
  BY DEF HostReceives, Hears, HearsClaim, HearsConnection, HearsStranger, HearsRevocation, Row, Refused, InFlight, Send, RelayInv, Open, Active
<1>9. RowInv' /\ CallInv'
  <2>1. Closing
    BY <1>b DEF Closing, Open, Active
  <2>2. RowsFade
    BY <1>c, <1>d DEF RowsFade
  <2>3. CallsFade
    BY <1>b DEF CallsFade
  <2> QED BY <2>1, <2>2, <2>3, FadingKeeps
<1>10. KnownUntilRevoked'
  <2>1. \A j \in Ids : hpair'[j].status = hpair[j].status
    BY DEF HostReceives, Hears, HearsClaim, HearsConnection, HearsStranger, HearsRevocation, Pairs
  <2> SUFFICES ASSUME NEW j \in Ids, hpair'[j].status = "confirmed", Active(j)',
                      NEW q, q = rconn[j].profile
               PROVE  hconn'[q] # NoRow /\ hconn'[q].id = j /\ hconn'[q].channel = rconn[j].channel
    BY <1>b DEF KnownUntilRevoked
  <2>2. Active(j) /\ q \in Profiles
    BY <1>b DEF RelayInv, Active
  <2>3. hconn[q] # NoRow /\ hconn[q].id = j /\ hconn[q].channel = rconn[j].channel
    BY <2>1, <2>2 DEF KnownUntilRevoked
  <2> QED BY <1>d, <2>2, <2>3 DEF Active, ConstantsOK
<1> QED BY <1>6, <1>7, <1>8, <1>9, <1>10

\* Nothing happens.
LEMMA StutterKeeps == ASSUME Inv, UNCHANGED vars PROVE Inv'
BY DEF vars, relay, host, socket, Inv, TypeInv, MessageInv, Truths, Connections, Tombstones, RelayInv,
       Open, Active, RowInv, CallInv, HasKey, Confirming, HoldsKey, KnownUntilRevoked

-----------------------------------------------------------------------------
\* Every step keeps the invariant.
LEMMA StepKeeps == ASSUME ConstantsOK, Inv, [Next]_vars PROVE Inv'
<1>1. CASE UNCHANGED vars
  BY <1>1, StutterKeeps
<1>2. CASE Owner
  BY <1>2, CreateKeeps, RevokeKeeps, UpdateKeeps, ConfirmKeeps, ConfirmLateKeeps, DeleteProfileKeeps
     DEF Owner
<1>3. CASE \E c \in Callers : Commit(c)
  BY <1>3, CreateCommitKeeps, ConfirmCommitKeeps, UpdateCommitKeeps, RevokeCommitKeeps DEF Commit
<1>4. CASE Discord
  BY <1>4, UnpairKeeps, PairingLapsesKeeps, ClaimKeeps DEF Discord
<1>5. CASE Socket
  BY <1>5, ConnectKeeps, ReplayKeeps, HostSeesCloseKeeps, SocketLostKeeps, HostRestartsKeeps,
     RelayReceivesKeeps, HostReceivesKeeps, HeartbeatKeeps DEF Socket
<1> QED BY <1>1, <1>2, <1>3, <1>4, <1>5 DEF Next

\* The inductive invariant of pairing, confirming and revoking connections.
THEOREM Invariance == ASSUME ConstantsOK PROVE Spec => []Inv
BY InitInv, StepKeeps, PTL DEF Spec

\* The type of the state.
THEOREM TypeCorrect == ASSUME ConstantsOK PROVE Spec => []TypeOK
<1>1. Inv => TypeOK
  BY DEF Inv, TypeInv, TypeOK, Pairs, Conns
<1> QED BY <1>1, Invariance, PTL

\* A connection the host has confirmed keeps its row until the relay revoked
\* it, whichever answers, sockets and restarts are lost (confirm_discord_pairing()
\* commits after the relay, revoke_discord_connection() and relay_event() drop the
\* row only after it).
THEOREM ConfirmedIsKnown == ASSUME ConstantsOK PROVE Spec => []KnownUntilRevoked
<1>1. Inv => KnownUntilRevoked
  BY DEF Inv
<1> QED BY <1>1, Invariance, PTL

=============================================================================
