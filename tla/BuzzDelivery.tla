---------------------------- MODULE BuzzDelivery ----------------------------
(* One hosted Buzz community at work: the serial lane of bot/buzz/runner.py  *)
(* over the durable store, the relay that feeds and acknowledges it, and the *)
(* process that may stop between any two transactions and start again.       *)
(*                                                                           *)
(* A reply is <<e, k>>: the k-th signed event ever stored for message e.     *)
EXTENDS BuzzStore

CONSTANTS
    NoEvent,            \* the lane holds no row
    Slack,              \* 300 seconds of replay before the watermark
    MaxStops,           \* bound: closes and crashes of the process
    MaxDrops,           \* bound: lost connections and renewed subscriptions
    MaxRemovals,        \* bound: removals of the community
    MaxAdmissions       \* bound: times one event enters the inbox

ASSUME DeliveryAssumption ==
    /\ NoEvent \notin Event
    /\ Slack \in Nat
    /\ MaxStops \in Nat
    /\ MaxDrops \in Nat
    /\ MaxRemovals \in Nat
    /\ MaxAdmissions \in Nat

VARIABLES
    phase,      \* where work() and the process() it awaits are suspended
    cur,        \* the row next_event returned
    snapshot,   \* its outgoing column, then the reply the turn holds
    wake,       \* the asyncio.Event of that name
    link,       \* "down", "io" (socket authenticated), "ready" (EOSE seen)
    subscribed, \* the since the live subscription was started with
    sent,       \* replies ever written to the socket
    sentHere,   \* those written by this runner
    stored,     \* replies the relay has accepted
    signed,     \* history: replies stored for each event
    admitted,   \* history: times the event entered the inbox
    torn,       \* history: stored replies an abandon cut short has erased
    stops, drops, removals

runVars == <<phase, cur, snapshot>>
linkVars == <<link, subscribed>>
wireVars == <<sent, sentHere, stored>>
ghostVars == <<signed, admitted, torn>>
boundVars == <<stops, drops, removals>>
vars == <<storeVars, runVars, wake, linkVars, wireVars, ghostVars, boundVars>>

Phase == {"off", "scan", "waiting", "ready", "roster", "score", "generate",
          "publish", "ack", "acked", "failed"}
Turning == {"roster", "score", "generate", "publish", "ack", "acked", "failed"}
Publishing == {"publish", "ack", "acked", "failed"}

Reply == Event \X (Nat \ {0})

DeliveryInit ==
    /\ StoreInit
    /\ phase = "off" /\ cur = NoEvent /\ snapshot = Null
    /\ wake = FALSE
    /\ link = "down" /\ subscribed = 0
    /\ sent = {} /\ sentHere = {} /\ stored = {}
    /\ signed = [e \in Event |-> 0]
    /\ admitted = [e \in Event |-> 0]
    /\ torn = [e \in Event |-> 0]
    /\ stops = 0 /\ drops = 0 /\ removals = 0

-----------------------------------------------------------------------------
(* Starting and stopping *)

(* BuzzRunner.start: for a stored active community when the service starts,  *)
(* and for an inactive one while activate waits for its relay.               *)
Start ==
    /\ phase = "off"
    /\ phase' = "scan"
    /\ wake' = TRUE
    /\ subscribed' = MaxOf(0, since - Slack)
    /\ UNCHANGED <<storeVars, cur, snapshot, link, wireVars, ghostVars, boundVars>>

(* The last step of a first activation. *)
Activate ==
    /\ phase # "off" /\ ~active
    /\ SetActive
    /\ UNCHANGED <<runVars, wake, linkVars, wireVars, ghostVars, boundVars>>

(* What neither close() nor a crash keeps. *)
LoseProcess ==
    /\ stops < MaxStops
    /\ stops' = stops + 1
    /\ phase' = "off" /\ cur' = NoEvent /\ snapshot' = Null
    /\ wake' = FALSE
    /\ link' = "down"
    /\ sentHere' = {}
    /\ UNCHANGED <<subscribed, sent, stored, signed, admitted, drops, removals>>

(* close(), with stopping set, and a crash between two transactions alike    *)
(* leave every row as it is.                                                 *)
Halt ==
    /\ phase # "off"
    /\ LoseProcess
    /\ UNCHANGED <<storeVars, torn>>

(* HostedBuzz.call("remove") once the runner is drained. *)
Remove ==
    /\ phase = "off" /\ active
    /\ removals < MaxRemovals
    /\ removals' = removals + 1
    /\ Deactivate
    /\ UNCHANGED <<runVars, wake, linkVars, wireVars, ghostVars, stops, drops>>

-----------------------------------------------------------------------------
(* The relay connection *)

Connect ==
    /\ phase # "off" /\ link = "down"
    /\ link' = "io"
    /\ UNCHANGED <<storeVars, runVars, wake, subscribed, wireVars, ghostVars, boundVars>>

Subscribe ==
    /\ link = "io"
    /\ link' = "ready"
    /\ UNCHANGED <<storeVars, runVars, wake, subscribed, wireVars, ghostVars, boundVars>>

(* _refresh_channels found other channels: not ready until the next EOSE. *)
Resubscribe ==
    /\ link = "ready"
    /\ drops < MaxDrops
    /\ drops' = drops + 1
    /\ link' = "io"
    /\ UNCHANGED <<storeVars, runVars, wake, subscribed, wireVars, ghostVars, stops, removals>>

(* _disconnected: a publication still waiting for its OK is interrupted. *)
Disconnect ==
    /\ link # "down"
    /\ drops < MaxDrops
    /\ drops' = drops + 1
    /\ link' = "down"
    /\ phase' = IF phase = "ack" THEN "failed" ELSE phase
    /\ UNCHANGED <<storeVars, cur, snapshot, wake, subscribed, wireVars, ghostVars,
                   stops, removals>>

(* A plausible slip for TLC: on_event enqueues without waking the lane. *)
BugDeliver(e) ==
    /\ phase # "off" /\ link # "down"
    /\ CreatedAt[e] >= subscribed
    /\ active
    /\ admitted[e] < MaxAdmissions
    /\ Enqueue(e)
    /\ admitted' = IF Inserts(e) THEN [admitted EXCEPT ![e] = @ + 1] ELSE admitted
    /\ UNCHANGED <<runVars, wake, linkVars, wireVars, signed, torn, boundVars>>

(* on_event, for a live message or any of the replays of it. *)
Deliver(e) ==
    /\ phase # "off" /\ link # "down"
    /\ CreatedAt[e] >= subscribed
    /\ active
    /\ admitted[e] < MaxAdmissions
    /\ Enqueue(e)
    /\ wake' = (wake \/ Inserts(e))
    /\ admitted' = IF Inserts(e) THEN [admitted EXCEPT ![e] = @ + 1] ELSE admitted
    /\ UNCHANGED <<runVars, linkVars, wireVars, signed, torn, boundVars>>

(* The relay keeps an event it was sent, at once or long after. *)
RelayStore(r) ==
    /\ r \in sent \ stored
    /\ stored' = stored \cup {r}
    /\ UNCHANGED <<storeVars, runVars, wake, linkVars, sent, sentHere, ghostVars, boundVars>>

-----------------------------------------------------------------------------
(* The lane *)

Scan ==
    /\ phase = "scan"
    /\ \/ \E e \in Event :
            /\ IsNext(e)
            /\ phase' = "ready" /\ cur' = e /\ snapshot' = outgoing[e]
            /\ UNCHANGED wake
       \/ /\ Live = {}
          /\ phase' = "waiting"
          /\ wake' = FALSE
          /\ UNCHANGED <<cur, snapshot>>
    /\ UNCHANGED <<storeVars, linkVars, wireVars, ghostVars, boundVars>>

Woken ==
    /\ phase = "waiting" /\ wake
    /\ phase' = "scan"
    /\ UNCHANGED <<storeVars, cur, snapshot, wake, linkVars, wireVars, ghostVars, boundVars>>

Leave == phase' = "scan" /\ cur' = NoEvent /\ snapshot' = Null

(* wait_ready gave up: the row is read again after five seconds. *)
NotReady ==
    /\ phase = "ready" /\ link # "ready"
    /\ Leave
    /\ UNCHANGED <<storeVars, wake, linkVars, wireVars, ghostVars, boundVars>>

(* process decides by the columns next_event returned, not by the row now. *)
Ready ==
    /\ phase = "ready" /\ link = "ready"
    /\ \/ snapshot > Null /\ phase' = "publish" /\ UNCHANGED <<storeVars, cur, snapshot>>
       \/ snapshot = EmptyObject /\ Finish(cur) /\ Leave
       \/ snapshot = Null /\ phase' = "roster" /\ UNCHANGED <<storeVars, cur, snapshot>>
    /\ UNCHANGED <<wake, linkVars, wireVars, ghostVars, boundVars>>

(* Not a member, not addressed, or a score below the threshold: the message  *)
(* is finished without a conversation, so without history.                   *)
Ignore ==
    /\ phase \in {"roster", "score"}
    /\ Finish(cur)
    /\ Leave
    /\ UNCHANGED <<wake, linkVars, wireVars, ghostVars, boundVars>>

Admit ==
    /\ \/ phase = "roster" /\ phase' = "score"
       \/ phase = "score" /\ phase' = "generate"
    /\ UNCHANGED <<storeVars, cur, snapshot, wake, linkVars, wireVars, ghostVars, boundVars>>

(* A plausible slip for TLC: published straight from the signed event. *)
BugStoreReply ==
    /\ phase = "generate"
    /\ snapshot' = signed[cur] + 1
    /\ signed' = [signed EXCEPT ![cur] = @ + 1]
    /\ phase' = "publish"
    /\ UNCHANGED <<storeVars, cur, wake, linkVars, wireVars, admitted, torn, boundVars>>

(* sign and outbox, with no await between them. *)
StoreReply ==
    /\ phase = "generate"
    /\ LET k == signed[cur] + 1
       IN /\ Outbox(cur, k)
          /\ snapshot' = k
          /\ signed' = [signed EXCEPT ![cur] = k]
    /\ phase' = "publish"
    /\ UNCHANGED <<cur, wake, linkVars, wireVars, admitted, torn, boundVars>>

(* NO_REPLY: outbox with the empty object and finish, two transactions whose *)
(* sum is to close the row and record the user turn.                         *)
NoReply ==
    /\ phase = "generate"
    /\ Settle(cur)
    /\ Record(cur, EmptyObject)
    /\ Leave
    /\ UNCHANGED <<active, since, wake, linkVars, wireVars, ghostVars, boundVars>>

(* publish_event up to the await of the acknowledgement. *)
Transmit ==
    /\ phase = "publish" /\ link # "down"
    /\ phase' = "ack"
    /\ sent' = sent \cup {<<cur, snapshot>>}
    /\ sentHere' = sentHere \cup {<<cur, snapshot>>}
    /\ UNCHANGED <<storeVars, cur, snapshot, wake, linkVars, stored, ghostVars, boundVars>>

(* _dispatch resolves the future: true for an event the relay keeps. *)
RelayOk ==
    /\ phase = "ack"
    /\ \/ <<cur, snapshot>> \in stored /\ phase' = "acked"
       \/ phase' = "failed"
    /\ UNCHANGED <<storeVars, cur, snapshot, wake, linkVars, wireVars, ghostVars, boundVars>>

Confirm ==
    /\ phase = "acked"
    /\ Finish(cur)
    /\ Leave
    /\ UNCHANGED <<wake, linkVars, wireVars, ghostVars, boundVars>>

(* Plausible slips for TLC: a failed turn is finished like a good one, or    *)
(* its row is left for the next scan.                                        *)
BugFailTurnFinishes ==
    /\ phase \in {"roster", "score", "generate", "publish", "ack", "failed"}
    /\ Finish(cur)
    /\ Leave
    /\ UNCHANGED <<wake, linkVars, wireVars, ghostVars, boundVars>>
BugFailTurnRetries ==
    /\ phase \in {"roster", "score", "generate", "publish", "ack", "failed"}
    /\ Leave
    /\ UNCHANGED <<storeVars, wake, linkVars, wireVars, ghostVars, boundVars>>

(* An exception or a deadline of process: the row is never retried. *)
FailTurn ==
    /\ phase \in {"roster", "score", "generate", "publish", "ack", "failed"}
    /\ Abandon(cur)
    /\ Leave
    /\ UNCHANGED <<wake, linkVars, wireVars, ghostVars, boundVars>>

(* interrupt: process is cancelled at its await, also when the               *)
(* acknowledgement it waits for has just arrived.                            *)
Interrupt ==
    /\ phase \in Turning \ {"roster"}
    /\ Abandon(cur)
    /\ Leave
    /\ UNCHANGED <<wake, linkVars, wireVars, ghostVars, boundVars>>

-----------------------------------------------------------------------------
(* Crashes between the two transactions of one step *)

TornNoReply ==
    /\ phase = "generate"
    /\ Outbox(cur, EmptyObject)
    /\ LoseProcess
    /\ UNCHANGED torn

TornAbandon ==
    /\ phase \in Turning
    /\ ClearReply(cur)
    /\ torn' = IF outgoing[cur] > Null THEN [torn EXCEPT ![cur] = @ + 1] ELSE torn
    /\ LoseProcess

-----------------------------------------------------------------------------
TurnStep ==
    \/ Ignore \/ Admit \/ StoreReply \/ NoReply \/ Transmit \/ RelayOk \/ Confirm
    \/ FailTurn

LaneStep == Scan \/ Woken \/ NotReady \/ Ready

DeliveryNext ==
    \/ Start \/ Activate \/ Halt \/ Remove
    \/ Connect \/ Subscribe \/ Resubscribe \/ Disconnect
    \/ \E e \in Event : Deliver(e)
    \/ \E r \in sent : RelayStore(r)
    \/ LaneStep
    \/ TurnStep \/ Interrupt
    \/ TornNoReply \/ TornAbandon

DeliverySpec == DeliveryInit /\ [][DeliveryNext]_vars

(* The event loop runs whatever can run, every await of process has a        *)
(* deadline, run() reconnects for ever and the service is started again.     *)
Fairness ==
    /\ WF_vars(active /\ Start)
    /\ WF_vars(Connect) /\ WF_vars(Subscribe)
    /\ WF_vars(Scan) /\ WF_vars(Woken) /\ WF_vars(Ready)
    /\ WF_vars(TurnStep)

FairDelivery == DeliverySpec /\ Fairness

-----------------------------------------------------------------------------
(* Properties *)

(* Every variable holds a value the code can store or hold in it. *)
TypeOK ==
    /\ StoreTypeOK
    /\ phase \in Phase
    /\ cur \in Event \cup {NoEvent}
    /\ snapshot \in Nat \cup {EmptyObject}
    /\ wake \in BOOLEAN
    /\ link \in {"down", "io", "ready"}
    /\ subscribed \in Nat
    /\ sent \subseteq Reply /\ sentHere \subseteq Reply /\ stored \subseteq Reply
    /\ signed \in [Event -> Nat]
    /\ admitted \in [Event -> Nat]
    /\ torn \in [Event -> Nat]
    /\ stops \in Nat /\ drops \in Nat /\ removals \in Nat

(* A message that is in the inbox once is answered by one signed event, over *)
(* every restart, retry of wait_ready, interrupt and failed publication: one *)
(* more needs the message admitted again, or an abandon cut in half.         *)
OneReplyPerAdmission == \A e \in Event : signed[e] <= admitted[e] + torn[e]

(* The runner says of a crash that it may resend a stored signed event but   *)
(* never regenerate its identity (runner.py:86).                             *)
CrashNeverRegenerates == \A e \in Event : signed[e] <= admitted[e]

(* What the lane is about to publish, waits for or failed to publish is the  *)
(* reply its row holds: the outbox is written first and nothing else, not    *)
(* even a delivery or a removal, touches the row of a turn in flight.        *)
WriteAhead ==
    /\ phase \in Turning \cup {"ready"} => cur \in Live /\ snapshot = outgoing[cur]
    /\ phase \in Publishing => snapshot > Null /\ state[cur] = "outbox"

(* History holds no reply the relay did not accept. *)
HistoryConfirmed ==
    \A c \in Conversation : \A i \in 1..Len(history[c]) :
        history[c][i].role = "assistant"
            => <<history[c][i].event, history[c][i].reply>> \in stored

(* No message is recorded in history more often than it entered the inbox,   *)
(* although a crash may repeat its turn.                                     *)
RecordedOnce ==
    \A e \in Event :
        Cardinality({i \in 1..Len(history[ConversationOf[e]]) :
                        history[ConversationOf[e]][i] = UserTurn(e)}) <= admitted[e]

(* Turns of a conversation stand in the order their messages arrived, as far *)
(* as the deduplication record still tells it.                               *)
HistoryOrdered ==
    \A c \in Conversation : \A i, j \in 1..Len(history[c]) :
        LET e == history[c][i].event
            f == history[c][j].event
        IN i < j /\ {e, f} \subseteq Done /\ admitted[e] = 1 /\ admitted[f] = 1
               => f \notin older[e]

(* README: at most 128 pending events, 2048 finished records, history for    *)
(* 128 conversations.                                                        *)
Bounded ==
    /\ Cardinality(Live) <= PendingLimit
    /\ Cardinality(Done) <= DedupLimit
    /\ Cardinality({c \in Conversation : history[c] # <<>>}) <= ConversationLimit

(* The lane never sleeps over an unfinished row: whoever inserts one while   *)
(* work() sits in wake.wait() has set the event.                             *)
NoLostWakeup == phase = "waiting" /\ Live # {} => wake

(* Rows leave the inbox one at a time and oldest first, by a removal all.    *)
SerialLane ==
    [][\A e \in Event : e \in Live /\ e \notin Live' /\ active'
           => /\ Live \cap older[e] = {}
              /\ \A f \in Live \ {e} : state'[f] = state[f] /\ outgoing'[f] = outgoing[f]]_vars

(* A runner writes a reply to the relay at most once: whatever became of an  *)
(* uncertain publication, only a later runner may resend it.                 *)
NoRepublish ==
    [][phase = "publish" /\ phase' = "ack" => <<cur, snapshot>> \notin sentHere]_vars

(* Whatever is admitted is answered, ignored or abandoned in the end, or the *)
(* community is removed.                                                     *)
EventuallySettled ==
    \A e \in Event : e \in Live ~> (e \notin Live)

(* To a member the whole machinery is a promise: the rows are the open       *)
(* messages, the outbox holds the reply and the socket is where it is told.  *)
Promise == INSTANCE ReplyPromise WITH
    Message <- Event,
    open <- Live,
    made <- signed,
    held <- [e \in Event |-> MaxOf(Null, outgoing[e])],
    told <- sent

ImplementsPromise == Promise!Spec

-----------------------------------------------------------------------------
(* The inductive invariant *)

(* The lane works on the oldest unfinished row; a turn that still decides    *)
(* holds no reply, one whose OK arrived holds an accepted one.               *)
LaneInv ==
    /\ phase \in Turning \cup {"ready"} => IsNext(cur)
    /\ phase \in {"roster", "score", "generate"} => snapshot = Null
    /\ phase = "acked" => <<cur, snapshot>> \in stored

(* Arrival order names existing rows only, and only outbox rows hold a        *)
(* reply, which was signed before.                                           *)
RowsInv ==
    /\ \A e \in Event : older[e] \subseteq Rows
    /\ \A e \in Event : outgoing[e] # Null => state[e] = "outbox"
    /\ \A e \in Event : outgoing[e] <= signed[e]

(* An unfinished row without a reply still has the right to one.             *)
CountInv ==
    \A e \in Event :
        /\ signed[e] <= admitted[e] + torn[e]
        /\ e \in Live /\ outgoing[e] = Null => signed[e] + 1 <= admitted[e] + torn[e]

(* The reply of an unfinished row is unsent, unless its turn is past sending.*)
WireInv ==
    /\ \A r \in sentHere : r[2] <= signed[r[1]]
    /\ \A e \in Live : outgoing[e] > Null /\ ~(cur = e /\ phase \in {"ack", "acked", "failed"})
            => <<e, outgoing[e]>> \notin sentHere

(* Turns history may hold. *)
Confirmed == {t \in Turn : t.role = "assistant" => <<t.event, t.reply>> \in stored}

HistoryInv == history \in [Conversation -> Seq(Confirmed)]

IInv ==
    /\ TypeOK /\ WriteAhead /\ NoLostWakeup
    /\ LaneInv /\ RowsInv /\ CountInv /\ WireInv /\ HistoryInv

-----------------------------------------------------------------------------
(* What the store remembers, as an invariant on top of IInv                  *)

(* Before is the arrival order of these rows: total, without cycles.         *)
Arrived(rows, before) ==
    /\ \A x \in rows : x \notin before[x]
    /\ \A x, y \in rows : x = y \/ x \in before[y] \/ y \in before[x]
    /\ \A x, y, z \in rows : x \in before[y] /\ y \in before[z] => x \in before[z]

Remembered == {c \in Conversation : history[c] # <<>>}

(* Both tables are ordered and within their limits; what is finished arrived *)
(* before what is not.                                                       *)
TableInv ==
    /\ Arrived(Rows, older) /\ Arrived(Remembered, staler)
    /\ IsFiniteSet(Live) /\ IsFiniteSet(Done) /\ IsFiniteSet(Remembered)
    /\ Bounded
    /\ \A e \in Done : older[e] \cap Live = {}

(* The places where history records that e came in.                          *)
Recorded(e) ==
    {i \in 1..Len(history[ConversationOf[e]]) : history[ConversationOf[e]][i] = UserTurn(e)}

(* An admission is spent on one entry of the history or is still due.        *)
LedgerInv ==
    \A e \in Event :
        /\ Cardinality(Recorded(e)) + (IF e \in Live THEN 1 ELSE 0) <= admitted[e]
        /\ \A c \in Conversation : \A i \in 1..Len(history[c]) :
              history[c][i].event = e => admitted[e] >= IF e \in Live THEN 2 ELSE 1

MemoryInv == TableInv /\ LedgerInv /\ HistoryOrdered
=============================================================================
