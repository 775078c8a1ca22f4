------------------------------ MODULE BuzzRelay ------------------------------
(* The relay transport of one hosted community: BuzzRelay of                 *)
(* buzz/transport.py.  run() reconnects for ever; on each connection a reader *)
(* dispatches what the relay sends and a membership task follows the roster;  *)
(* callers query and publish one at a time under one lock, each against a     *)
(* deadline.  Event and subscription ids are all a message is known by.       *)
EXTENDS Naturals, Sequences, FiniteSets

CONSTANTS
    Client,         \* callers of query() and publish_event()
    Member,         \* the membership task, a caller too
    Nobody,
    Event,          \* events a caller may publish
    Sub,            \* subscription ids; one is reused when nothing can name it
    Channel,
    MaxLive,        \* MAX_LIVE_CHANNELS
    MaxFaults, MaxChanges   \* bounds of the instance

ASSUME RelayAssumption ==
    /\ Member \notin Client /\ Nobody \notin Client \cup {Member} \cup Sub \cup Event
    /\ Sub \cap Event = {}
    /\ MaxLive \in Nat /\ MaxFaults \in Nat /\ MaxChanges \in Nat

Caller == Client \cup {Member}

VARIABLES
    link,       \* "down", "up", or "dying": torn down, flags not yet reset
    closed,     \* _closed
    ready,      \* _ready, set and cleared together with connected
    live,       \* _live_channels
    liveReady,  \* _live_ready
    changed,    \* _channels_changed
    lock,       \* the caller inside _operation
    step,       \* the await a caller's operation is suspended at
    kind,       \* what a caller is doing
    topic,      \* the id it waits for: _query.subscription or _ack[0]
    future,     \* _query.done or _ack[1]
    rows,       \* _query.events
    member,     \* the await of _refresh_channels
    found,      \* the channels it is about to subscribe to
    roster,     \* at the relay: the channels of the community
    requests,   \* on this connection: requests the relay has yet to answer
    replays,    \* on this connection: live REQs without their EOSE
    replayed,   \* the channels of the last live EOSE
    notice,     \* a membership notice is on its way
    stored,     \* events the relay has accepted
    snapshot,   \* what the relay read for the subscription waited for
    faults, changes

conn == <<link, closed>>
flags == <<ready, live, liveReady, replays, replayed>>
wait == <<topic, future, rows, snapshot>>
op == <<lock, step, kind, wait>>
watch == <<member, found, changed>>
relay == <<roster, requests, notice, stored>>
bounds == <<faults, changes>>
vars == <<conn, flags, op, watch, relay, bounds>>

Step == {"idle", "lock", "socket", "http", "answer", "closing", "failing"}

Init ==
    /\ link = "down" /\ closed = FALSE
    /\ ready = FALSE /\ live = {} /\ liveReady = FALSE
    /\ replays = <<>> /\ replayed = {}
    /\ lock = Nobody /\ step = [c \in Caller |-> "idle"]
    /\ kind = [c \in Caller |-> "query"]
    /\ topic = Nobody /\ future = "none" /\ rows = {} /\ snapshot = {}
    /\ member = "off" /\ found = {} /\ changed = FALSE
    /\ roster \in SUBSET Channel /\ requests = {} /\ notice = FALSE /\ stored = {}
    /\ faults = 0 /\ changes = 0

-----------------------------------------------------------------------------
(* Connections.                                                              *)

(* run(): discovery, handshake and authentication have succeeded; reader and *)
(* membership task start, the latter with its first roster query.            *)
Connect ==
    /\ link = "down" /\ ~closed
    /\ link' = "up" /\ changed' = FALSE /\ member' = "asking"
    /\ step' = [step EXCEPT ![Member] = "lock"]
    /\ UNCHANGED <<closed, flags, lock, kind, wait, found, relay, bounds>>

Fault == faults < MaxFaults /\ faults' = faults + 1

(* The reader fails: the socket is gone, or the relay sent a new challenge,   *)
(* a malformed or unrelated message, too many rows or a CLOSED, or the        *)
(* callback failed.                                                          *)
Drop ==
    /\ link = "up" /\ Fault /\ link' = "dying"
    /\ UNCHANGED <<closed, flags, op, watch, relay, changes>>

(* aclose() cancels run(); what waits for a socket runs into its deadline.    *)
Close ==
    /\ ~closed /\ closed' = TRUE
    /\ link' = IF link = "down" THEN "down" ELSE "dying"
    /\ UNCHANGED <<flags, op, watch, relay, bounds>>

(* _disconnected(), once both tasks have ended.                              *)
TearDown ==
    /\ link = "dying" /\ member = "off"
    /\ link' = "down"
    /\ ready' = FALSE /\ liveReady' = FALSE /\ live' = {}
    /\ replays' = <<>> /\ replayed' = {} /\ requests' = {} /\ notice' = FALSE
    /\ future' = IF future = "pending" THEN "failed" ELSE future
    /\ UNCHANGED <<closed, lock, step, kind, topic, rows, snapshot, watch, roster, stored,
                   bounds>>

-----------------------------------------------------------------------------
(* Operations.                                                               *)

Call(c, k) ==
    /\ step[c] = "idle"
    /\ kind' = [kind EXCEPT ![c] = k] /\ step' = [step EXCEPT ![c] = "lock"]
    /\ UNCHANGED <<conn, flags, lock, wait, watch, relay, bounds>>

(* Caller c leaves its operation; the membership task ends when its query     *)
(* failed, and its connection with it.                                       *)
Leave(c, failed) ==
    /\ step' = [step EXCEPT ![c] = "idle"] /\ kind' = [kind EXCEPT ![c] = "query"]
    /\ IF lock = c
       THEN lock' = Nobody /\ topic' = Nobody /\ future' = "none" /\ rows' = {} /\ snapshot' = {}
       ELSE UNCHANGED <<lock, wait>>
    /\ IF c = Member /\ failed
       THEN member' = "off" /\ link' = "dying"
       ELSE UNCHANGED <<member, link>>

(* A profile goes over HTTP.  Anything else needs the socket, and fails at    *)
(* once when the relay is closed.                                            *)
Acquire(c) ==
    /\ step[c] = "lock" /\ lock = Nobody
    /\ IF kind[c] # "profile" /\ closed
       THEN Leave(c, TRUE)
       ELSE /\ lock' = c
            /\ step' = [step EXCEPT ![c] = IF kind[c] = "profile" THEN "http" ELSE "socket"]
            /\ UNCHANGED <<link, kind, wait, member>>
    /\ UNCHANGED <<closed, flags, found, changed, relay, bounds>>

Fresh(s) == \A r \in requests : r.id # s

(* _io_ready is set: the future is made and the request sent.                *)
Request(c, id) ==
    /\ step[c] = "socket" /\ link # "down"
    /\ \/ kind[c] = "query" /\ id \in Sub /\ Fresh(id)
       \/ kind[c] = "event" /\ id \in Event
    /\ step' = [step EXCEPT ![c] = "answer"]
    /\ topic' = id /\ future' = "pending"
    /\ requests' = requests \cup {[id |-> id, taken |-> FALSE, ok |-> FALSE, left |-> {}]}
    /\ UNCHANGED <<conn, flags, lock, kind, rows, snapshot, watch, roster, notice, stored, bounds>>

(* The future is resolved.  publish_event returns or raises; a query sends    *)
(* its CLOSE first.                                                          *)
Answered(c) ==
    /\ step[c] = "answer" /\ future # "pending"
    /\ IF kind[c] = "event"
       THEN Leave(c, TRUE)
       ELSE /\ topic' = Nobody /\ future' = "none" /\ snapshot' = {}
            /\ rows' = IF future = "done" THEN rows ELSE {}
            /\ step' = [step EXCEPT ![c] = IF future = "done" THEN "closing" ELSE "failing"]
            /\ UNCHANGED <<link, lock, kind, member>>
    /\ UNCHANGED <<closed, flags, found, changed, relay, bounds>>

(* The HTTP publication ends, with a receipt for this event or without one.   *)
(* CLOSE is sent, or not within a second, and the query raises; or it returns *)
(* its rows, with which the membership task goes on in Refreshed.            *)
Finish(c) ==
    /\ step[c] \in {"http", "failing"} \/ (step[c] = "closing" /\ c \in Client)
    /\ Leave(c, TRUE)
    /\ UNCHANGED <<closed, flags, found, changed, relay, bounds>>

(* A defect: a publication that runs out of time keeps the lock.             *)
BugAbort(c) ==
    /\ step[c] \notin {"idle", "failing"}
    /\ step' = [step EXCEPT ![c] = "idle"]
    /\ IF c = Member THEN member' = "off" /\ link' = "dying" ELSE UNCHANGED <<member, link>>
    /\ UNCHANGED <<closed, flags, lock, kind, wait, found, changed, relay>>

(* A cancellation reaches the operation: a query that has sent its request    *)
(* closes it first.  The result of a resolved future is lost.                *)
Abort(c) ==
    /\ step[c] \notin {"idle", "failing"}
    /\ IF step[c] = "answer" /\ kind[c] = "query"
       THEN /\ step' = [step EXCEPT ![c] = "failing"]
            /\ topic' = Nobody /\ future' = "none" /\ rows' = {} /\ snapshot' = {}
            /\ UNCHANGED <<link, lock, kind, member>>
       ELSE Leave(c, TRUE)
    /\ UNCHANGED <<closed, flags, found, changed, relay>>

(* The deadline of a query (10 s) or publication (15 s), wherever it waits.   *)
Expire(c) == Fault /\ Abort(c) /\ UNCHANGED changes

-----------------------------------------------------------------------------
(* The membership task: _refresh_channels().  It is cancelled with its        *)
(* connection, at its next await.                                            *)

Subscribed(S) ==
    /\ live' = S
    /\ IF S = {}
       THEN ready' = TRUE /\ member' = "sleep" /\ UNCHANGED replays
       ELSE ready' = FALSE /\ member' = "replay" /\ replays' = Append(replays, S)

(* A defect: a change of channels keeps the old completion event.            *)
BugRefreshed ==
    /\ step[Member] = "closing" /\ Cardinality(rows) <= MaxLive /\ rows # live
    /\ step' = [step EXCEPT ![Member] = "idle"] /\ lock' = Nobody /\ rows' = {}
    /\ IF live = {}
       THEN Subscribed(rows) /\ UNCHANGED found
       ELSE ready' = FALSE /\ member' = "unsubscribe" /\ found' = rows /\ UNCHANGED <<live, replays>>
    /\ UNCHANGED <<conn, liveReady, replayed, kind, topic, future, snapshot, changed, relay, bounds>>

(* Its query has a complete result.  Too many channels end the connection;    *)
(* unchanged ones need nothing; others start over.                           *)
Refreshed ==
    /\ step[Member] = "closing"
    /\ step' = [step EXCEPT ![Member] = "idle"] /\ lock' = Nobody /\ rows' = {}
    /\ \/ /\ Cardinality(rows) > MaxLive
          /\ link' = "dying" /\ member' = "off"
          /\ UNCHANGED <<ready, live, liveReady, replays, found>>
       \/ /\ Cardinality(rows) <= MaxLive /\ rows = live
          /\ ready' = TRUE /\ member' = "sleep"
          /\ UNCHANGED <<link, live, liveReady, replays, found>>
       \/ /\ Cardinality(rows) <= MaxLive /\ rows # live /\ live = {}
          /\ liveReady' = FALSE /\ Subscribed(rows) /\ UNCHANGED <<link, found>>
       \/ /\ Cardinality(rows) <= MaxLive /\ rows # live /\ live # {}
          /\ liveReady' = FALSE /\ ready' = FALSE /\ member' = "unsubscribe" /\ found' = rows
          /\ UNCHANGED <<link, live, replays>>
    /\ UNCHANGED <<closed, replayed, kind, topic, future, snapshot, changed, relay, bounds>>

(* CLOSE is sent for the old channels, REQ for the new ones.                 *)
Resubscribe ==
    /\ member = "unsubscribe" /\ Subscribed(found) /\ found' = {}
    /\ UNCHANGED <<conn, liveReady, replayed, op, changed, relay, bounds>>

Replayed ==
    /\ member = "replay" /\ liveReady
    /\ ready' = TRUE /\ member' = "sleep"
    /\ UNCHANGED <<conn, live, liveReady, replays, replayed, op, found, changed, relay, bounds>>

(* A notice, or MEMBERSHIP_REFRESH_SECONDS.                                  *)
Refresh ==
    /\ member = "sleep"
    /\ changed' = FALSE /\ member' = "asking"
    /\ step' = [step EXCEPT ![Member] = "lock"]
    /\ UNCHANGED <<conn, flags, lock, kind, wait, found, relay, bounds>>

(* The deadline of the replay.                                               *)
ReplayExpires ==
    /\ member = "replay" /\ Fault
    /\ member' = "off" /\ link' = "dying"
    /\ UNCHANGED <<closed, flags, op, found, changed, relay, changes>>

CancelMember ==
    /\ link = "dying"
    /\ \/ member = "asking" /\ Abort(Member) /\ UNCHANGED bounds
       \/ /\ member \in {"unsubscribe", "replay", "sleep"} /\ member' = "off" /\ found' = {}
          /\ UNCHANGED <<conn, flags, op, changed, relay, bounds>>

-----------------------------------------------------------------------------
(* The relay, and the reader that dispatches what it sends.                  *)

Change(S) ==
    /\ changes < MaxChanges /\ S # roster
    /\ roster' = S /\ changes' = changes + 1 /\ notice' = (link = "up")
    /\ UNCHANGED <<conn, flags, op, watch, requests, stored, faults>>

(* The relay reads a request: a subscription's rows, or an event it accepts  *)
(* or refuses.                                                               *)
Take(r, ok) ==
    /\ r \in requests /\ ~r.taken /\ (r.id \in Sub => ok)
    /\ requests' = (requests \ {r}) \cup
           {[r EXCEPT !.taken = TRUE, !.ok = ok, !.left = IF r.id \in Sub THEN roster ELSE {}]}
    /\ snapshot' = IF r.id \in Sub /\ topic = r.id THEN roster ELSE snapshot
    /\ stored' = IF ok THEN stored \cup ({r.id} \cap Event) ELSE stored
    /\ UNCHANGED <<conn, flags, lock, step, kind, topic, future, rows, watch, roster, notice,
                   bounds>>

(* A defect: the reader does not compare the id with what is awaited.        *)
BugAwaited(r) == future = "pending"

Awaited(r) == topic = r.id /\ future = "pending"

(* EVENT of a query's subscription.                                          *)
Row(r, x) ==
    /\ r \in requests /\ x \in r.left /\ link = "up"
    /\ requests' = (requests \ {r}) \cup {[r EXCEPT !.left = @ \ {x}]}
    /\ rows' = IF Awaited(r) THEN rows \cup {x} ELSE rows
    /\ UNCHANGED <<conn, flags, lock, step, kind, topic, future, snapshot, watch, roster, notice,
                   stored, bounds>>

(* EOSE of a query's subscription; OK for an event.                          *)
Answer(r) ==
    /\ r \in requests /\ r.taken /\ r.left = {} /\ link = "up"
    /\ requests' = requests \ {r}
    /\ future' = IF ~Awaited(r) THEN future ELSE IF r.ok THEN "done" ELSE "refused"
    /\ UNCHANGED <<conn, flags, lock, step, kind, topic, rows, snapshot, watch, roster, notice,
                   stored, bounds>>

LiveEose ==
    /\ replays # <<>> /\ link = "up"
    /\ liveReady' = TRUE /\ replays' = Tail(replays) /\ replayed' = Head(replays)
    /\ UNCHANGED <<conn, ready, live, op, watch, relay, bounds>>

Notice ==
    /\ notice /\ link = "up"
    /\ notice' = FALSE /\ changed' = TRUE
    /\ UNCHANGED <<conn, flags, op, member, found, roster, requests, stored, bounds>>

-----------------------------------------------------------------------------
Operation(c) ==
    Acquire(c) \/ (\E id \in Sub \cup Event : Request(c, id)) \/ Answered(c) \/ Finish(c)
Membership == Refreshed \/ Resubscribe \/ Replayed
Respond ==
    \E r \in requests :
        (\E ok \in BOOLEAN : Take(r, ok)) \/ Answer(r) \/ (\E x \in Channel : Row(r, x))

Next ==
    \/ Connect \/ Drop \/ Close \/ TearDown
    \/ \E c \in Client, k \in {"query", "event", "profile"} : Call(c, k)
    \/ \E c \in Caller : Operation(c) \/ Expire(c)
    \/ Membership \/ Refresh \/ ReplayExpires \/ CancelMember
    \/ \E S \in SUBSET Channel : Change(S)
    \/ Respond \/ LiveEose \/ Notice

Spec == Init /\ [][Next]_vars

(* Tasks go on, an asyncio lock is granted first come first served, and the   *)
(* relay answers; nothing is asked of the periodic refresh.                  *)
Fairness ==
    /\ WF_vars(Connect) /\ WF_vars(TearDown) /\ WF_vars(CancelMember)
    /\ \A c \in Caller : WF_vars(Operation(c)) /\ SF_vars(Acquire(c))
    /\ WF_vars(Respond) /\ WF_vars(LiveEose) /\ WF_vars(Notice)
    /\ WF_vars(Membership) /\ WF_vars(changed /\ Refresh)

FairSpec == Spec /\ Fairness

-----------------------------------------------------------------------------
(* publish_event() returns for an event that the relay has accepted, though   *)
(* the answer to an earlier publication may come while it waits.             *)
ConfirmedIsStored == topic \in Event /\ future = "done" => topic \in stored

(* A query's result is what the relay read for this subscription, complete:   *)
(* late rows of an earlier query are not in it, nor does its end end it.     *)
ResultComplete == topic \in Sub /\ future = "done" => rows = snapshot

(* The relay is ready only while a connection has a subscription to the live  *)
(* channels whose replay is complete; a change of channels starts over.      *)
ReadyIsLive == ready => link # "down" /\ (live # {} => replayed = live)

(* Once failures end, the subscription comes to follow the roster: no notice  *)
(* is lost between the query and the sleep of the membership task, and no     *)
(* operation that failed or ran out of time keeps the lock from it.          *)
Follows == <>[](closed \/ Cardinality(roster) > MaxLive \/ (ready /\ live = roster))

-----------------------------------------------------------------------------
(* The inductive invariant *)

RequestSet == [id : Sub \cup Event, taken : BOOLEAN, ok : BOOLEAN, left : SUBSET Channel]

(* Every variable holds a value the code can store or hold in it. *)
TypeOK ==
    /\ link \in {"down", "up", "dying"} /\ closed \in BOOLEAN
    /\ ready \in BOOLEAN /\ live \subseteq Channel /\ liveReady \in BOOLEAN
    /\ replays \in Seq(SUBSET Channel) /\ replayed \subseteq Channel
    /\ lock \in Caller \cup {Nobody} /\ step \in [Caller -> Step]
    /\ kind \in [Caller -> {"query", "event", "profile"}]
    /\ topic \in Sub \cup Event \cup {Nobody}
    /\ future \in {"none", "pending", "done", "refused", "failed"}
    /\ rows \subseteq Channel /\ snapshot \subseteq Channel
    /\ member \in {"off", "asking", "unsubscribe", "replay", "sleep"}
    /\ found \subseteq Channel /\ changed \in BOOLEAN
    /\ roster \subseteq Channel /\ requests \subseteq RequestSet /\ notice \in BOOLEAN
    /\ stored \subseteq Event
    /\ faults \in 0..MaxFaults /\ changes \in 0..MaxChanges

(* The caller inside _operation holds the lock, and what is waited for is    *)
(* only its business: nobody finds the rows or the future of another.        *)
OperationInv ==
    /\ \A c \in Caller : lock = c <=> step[c] \notin {"idle", "lock"}
    /\ kind[Member] = "query"
    /\ lock = Nobody \/ step[lock] # "answer" => topic = Nobody /\ future = "none"
    /\ lock = Nobody \/ step[lock] \in {"socket", "http", "failing"} => rows = {}

(* An accepted event is stored; the rows of the query waited for and those   *)
(* the relay has yet to send are what it read, and its end is the last.      *)
RequestInv ==
    /\ \A r \in requests : IF r.taken THEN r.id \in Event /\ r.ok => r.id \in stored
                                      ELSE r.left = {}
    /\ \A r, q \in requests : r.id = q.id /\ r.id \in Sub => r = q
    /\ \A r \in requests : r.id = topic /\ r.id \in Sub =>
          /\ future # "done"
          /\ future = "pending" => IF r.taken THEN rows \cup r.left = snapshot ELSE rows = {}

(* The membership task runs while there is a connection; it waits for the    *)
(* one replay that is not complete, and goes on when that one is.            *)
MemberInv ==
    /\ member = "asking" <=> step[Member] # "idle"
    /\ link = "down" => member = "off" /\ ~ready /\ live = {} /\ replays = <<>>
    /\ link = "up" => member # "off"
    /\ member \in {"asking", "sleep"} => replays = <<>> /\ (live # {} => replayed = live)
    /\ member = "unsubscribe" => replays = <<>> /\ ~ready /\ ~liveReady
    /\ member = "replay" => /\ ~ready
                            /\ IF liveReady THEN replays = <<>> /\ replayed = live
                                            ELSE replays = <<live>>

IInv ==
    /\ TypeOK /\ OperationInv /\ RequestInv /\ MemberInv
    /\ ConfirmedIsStored /\ ResultComplete /\ ReadyIsLive
=============================================================================
