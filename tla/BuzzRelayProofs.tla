--------------------------- MODULE BuzzRelayProofs ---------------------------
(* Proofs about BuzzRelay, for any callers, ids and channels: what an         *)
(* operation returns is the answer to its own request, and the relay is ready *)
(* only when its subscription is.                                            *)
EXTENDS BuzzRelay, TLAPS

-----------------------------------------------------------------------------
(* Frames                                                                    *)

Answers == ConfirmedIsStored /\ ResultComplete

LEMMA OperationFrame ==
    ASSUME OperationInv, UNCHANGED op
    PROVE  OperationInv'
BY DEF OperationInv, op, wait

LEMMA RequestFrame ==
    ASSUME RequestInv, Answers, UNCHANGED <<requests, topic, future, rows, snapshot, stored>>
    PROVE  RequestInv' /\ Answers'
BY DEF RequestInv, Answers, ConfirmedIsStored, ResultComplete

LEMMA MemberFrame ==
    ASSUME MemberInv, ReadyIsLive, UNCHANGED <<link, flags, member>>,
           (step'[Member] = "idle") = (step[Member] = "idle")
    PROVE  MemberInv' /\ ReadyIsLive'
BY DEF MemberInv, ReadyIsLive, flags

LEMMA Parts ==
    ASSUME IInv
    PROVE  TypeOK /\ OperationInv /\ RequestInv /\ Answers /\ MemberInv /\ ReadyIsLive
BY DEF IInv, Answers

LEMMA WholeNext ==
    ASSUME TypeOK', OperationInv', RequestInv', Answers', MemberInv', ReadyIsLive'
    PROVE  IInv'
BY DEF IInv, Answers

LEMMA CallerFacts ==
    /\ Member \in Caller /\ Client \subseteq Caller /\ Nobody \notin Caller
    /\ Member \notin Client
    /\ Nobody \notin Sub /\ Nobody \notin Event /\ \A id \in Sub : id \notin Event
BY RelayAssumption DEF Caller

LEMMA NoReplay == <<>> \in Seq(SUBSET Channel)
OBVIOUS

LEMMA OneReplay ==
    ASSUME NEW S \in SUBSET Channel
    PROVE  /\ Append(<<>>, S) = <<S>> /\ <<S>> \in Seq(SUBSET Channel)
           /\ Head(<<S>>) = S /\ Tail(<<S>>) = <<>> /\ <<S>> # <<>>
OBVIOUS

LEMMA InitInv == Init => IInv
<1> SUFFICES ASSUME Init PROVE IInv
  OBVIOUS
<1> USE DEF Init
<1>1. TypeOK
  <2>1. faults \in 0 .. MaxFaults /\ changes \in 0 .. MaxChanges
    BY RelayAssumption
  <2>2. step \in [Caller -> Step] /\ kind \in [Caller -> {"query", "event", "profile"}]
    BY DEF Step
  <2>3. replays \in Seq(SUBSET Channel)
    BY NoReplay
  <2> QED BY <2>1, <2>2, <2>3 DEF TypeOK
<1>2. OperationInv
  BY CallerFacts DEF OperationInv
<1>3. RequestInv /\ ConfirmedIsStored /\ ResultComplete
  BY DEF RequestInv, ConfirmedIsStored, ResultComplete
<1>4. MemberInv /\ ReadyIsLive
  BY CallerFacts DEF MemberInv, ReadyIsLive
<1> QED BY <1>1, <1>2, <1>3, <1>4 DEF IInv

-----------------------------------------------------------------------------
(* Connections                                                               *)

LEMMA ConnectKeeps ==
    ASSUME IInv, Connect
    PROVE  IInv'
<1> USE DEF Connect, flags, wait, relay, bounds
<1>1. TypeOK /\ OperationInv /\ RequestInv /\ Answers /\ MemberInv /\ ReadyIsLive
  BY Parts
<1>2. /\ step[Member] = "idle" /\ lock # Member
      /\ step'[Member] = "lock" /\ \A c \in Caller \ {Member} : step'[c] = step[c]
      /\ step' \in [Caller -> Step]
  BY <1>1, CallerFacts DEF MemberInv, OperationInv, TypeOK, Step
<1>3. TypeOK'
  BY <1>1, <1>2 DEF TypeOK
<1>4. OperationInv'
  BY <1>1, <1>2 DEF OperationInv, TypeOK
<1>5. RequestInv' /\ Answers'
  BY <1>1, RequestFrame
<1>6. MemberInv' /\ ReadyIsLive'
  BY <1>1, <1>2 DEF MemberInv, ReadyIsLive
<1> QED BY <1>3, <1>4, <1>5, <1>6, WholeNext

LEMMA BreakKeeps ==
    ASSUME IInv, Drop \/ Close
    PROVE  IInv'
<1> USE DEF Drop, Close, Fault, flags, watch, relay, bounds
<1>1. TypeOK /\ OperationInv /\ RequestInv /\ Answers /\ MemberInv /\ ReadyIsLive
  BY Parts
<1>2. UNCHANGED <<flags, op, watch, relay>>
  OBVIOUS
<1>3. link' \in {"down", "dying"} /\ (link' = "down" => link = "down") /\ closed' \in BOOLEAN
  BY <1>1 DEF TypeOK
<1>4. faults' \in 0 .. MaxFaults /\ changes' = changes
  <2>1. faults \in Nat /\ faults <= MaxFaults /\ MaxFaults \in Nat
    BY <1>1, RelayAssumption DEF TypeOK
  <2>2. CASE Drop
    BY <2>1, <2>2
  <2>3. CASE Close
    BY <2>1, <2>3
  <2> QED BY <2>2, <2>3
<1>5. TypeOK'
  BY <1>1, <1>2, <1>3, <1>4 DEF TypeOK, op, wait
<1>6. OperationInv'
  BY <1>1, <1>2, OperationFrame
<1>7. RequestInv' /\ Answers'
  BY <1>1, <1>2, RequestFrame DEF op, wait
<1>8. MemberInv' /\ ReadyIsLive'
  BY <1>1, <1>2, <1>3 DEF MemberInv, ReadyIsLive, op
<1> QED BY <1>5, <1>6, <1>7, <1>8, WholeNext

LEMMA TearDownKeeps ==
    ASSUME IInv, TearDown
    PROVE  IInv'
<1> USE DEF TearDown, watch, bounds
<1>1. TypeOK /\ OperationInv /\ RequestInv /\ Answers /\ MemberInv /\ ReadyIsLive
  BY Parts
<1>2. TypeOK'
  BY <1>1, NoReplay DEF TypeOK
<1>3. OperationInv'
  BY <1>1 DEF OperationInv
<1>4. RequestInv' /\ Answers'
  BY <1>1 DEF RequestInv, Answers, ConfirmedIsStored, ResultComplete
<1>5. MemberInv' /\ ReadyIsLive'
  BY <1>1 DEF MemberInv, ReadyIsLive
<1> QED BY <1>2, <1>3, <1>4, <1>5, WholeNext

-----------------------------------------------------------------------------
(* Operations                                                                *)

LEMMA CallKeeps ==
    ASSUME IInv, NEW c \in Client, NEW k \in {"query", "event", "profile"}, Call(c, k)
    PROVE  IInv'
<1> USE DEF Call, conn, flags, wait, watch, relay, bounds
<1>1. TypeOK /\ OperationInv /\ RequestInv /\ Answers /\ MemberInv /\ ReadyIsLive
  BY Parts
<1>2. /\ c \in Caller /\ c # Member
      /\ step'[c] = "lock" /\ \A d \in Caller \ {c} : step'[d] = step[d]
      /\ kind'[Member] = kind[Member]
      /\ step' \in [Caller -> Step] /\ kind' \in [Caller -> {"query", "event", "profile"}]
  BY <1>1, CallerFacts DEF TypeOK, Step
<1>3. TypeOK'
  BY <1>1, <1>2 DEF TypeOK
<1>4. OperationInv'
  BY <1>1, <1>2 DEF OperationInv, TypeOK
<1>5. RequestInv' /\ Answers'
  BY <1>1, RequestFrame
<1>6. MemberInv' /\ ReadyIsLive'
  BY <1>1, <1>2, CallerFacts, MemberFrame
<1> QED BY <1>3, <1>4, <1>5, <1>6, WholeNext

(* A caller leaves with the lock and all it waited for, or never had it; the *)
(* membership task takes the connection with it.                             *)
LEMMA LeaveKeeps ==
    ASSUME IInv, NEW c \in Caller, step[c] # "idle", Leave(c, TRUE),
           UNCHANGED <<closed, flags, found, changed, relay>>,
           faults' \in 0 .. MaxFaults, changes' \in 0 .. MaxChanges
    PROVE  IInv'
<1> USE DEF Leave, flags, wait, relay
<1>1. TypeOK /\ OperationInv /\ RequestInv /\ Answers /\ MemberInv /\ ReadyIsLive
  BY Parts
<1>2. /\ step'[c] = "idle" /\ \A d \in Caller \ {c} : step'[d] = step[d]
      /\ kind'[Member] = "query"
      /\ step' \in [Caller -> Step] /\ kind' \in [Caller -> {"query", "event", "profile"}]
  BY <1>1, CallerFacts DEF TypeOK, Step, OperationInv
<1>3. \/ /\ lock = c /\ lock' = Nobody /\ topic' = Nobody /\ future' = "none"
         /\ rows' = {} /\ snapshot' = {}
      \/ lock # c /\ UNCHANGED <<lock, topic, future, rows, snapshot>>
  OBVIOUS
<1>4. \/ c = Member /\ member' = "off" /\ link' = "dying"
      \/ c # Member /\ UNCHANGED <<member, link>>
  OBVIOUS
<1> HIDE DEF Leave
<1>5. TypeOK'
  BY <1>1, <1>2, <1>3, <1>4 DEF TypeOK
<1>6. OperationInv'
  BY <1>1, <1>2, <1>3, CallerFacts DEF OperationInv, TypeOK
<1>7. RequestInv' /\ Answers'
  <2>1. CASE lock = c
    BY <2>1, <1>1, <1>3, CallerFacts DEF RequestInv, Answers, ConfirmedIsStored, ResultComplete
  <2>2. CASE lock # c
    BY <2>2, <1>1, <1>3, RequestFrame
  <2> QED BY <2>1, <2>2
<1>8. MemberInv' /\ ReadyIsLive'
  <2>1. CASE c = Member
    <3>1. member' = "off" /\ link' = "dying" /\ step'[Member] = "idle"
      BY <2>1, <1>2, <1>4
    <3> QED BY <3>1, <1>1 DEF MemberInv, ReadyIsLive
  <2>2. CASE c # Member
    BY <2>2, <1>1, <1>2, <1>4, CallerFacts, MemberFrame
  <2> QED BY <2>1, <2>2
<1> QED BY <1>5, <1>6, <1>7, <1>8, WholeNext

LEMMA AcquireKeeps ==
    ASSUME IInv, NEW c \in Caller, Acquire(c)
    PROVE  IInv'
<1> USE DEF Acquire, flags, wait, relay, bounds
<1>1. TypeOK /\ OperationInv /\ RequestInv /\ Answers /\ MemberInv /\ ReadyIsLive
  BY Parts
<1>2. CASE kind[c] # "profile" /\ closed
  <2>1. faults' \in 0 .. MaxFaults /\ changes' \in 0 .. MaxChanges
    BY <1>1 DEF TypeOK
  <2> QED BY <1>2, <2>1, LeaveKeeps
<1>3. CASE ~(kind[c] # "profile" /\ closed)
  <2>1. /\ lock = Nobody /\ lock' = c
        /\ step[c] = "lock" /\ step'[c] \in {"http", "socket"}
        /\ \A d \in Caller \ {c} : step'[d] = step[d]
        /\ step' \in [Caller -> Step]
        /\ UNCHANGED <<link, kind, wait, member>>
    BY <1>1, <1>3 DEF TypeOK, Step
  <2> HIDE DEF Acquire
  <2>2. UNCHANGED <<closed, flags, found, changed, relay, bounds>>
    BY DEF Acquire
  <2>3. TypeOK'
    BY <1>1, <2>1, <2>2 DEF TypeOK
  <2>4. OperationInv'
    BY <1>1, <2>1, <2>2, CallerFacts DEF OperationInv, TypeOK
  <2>5. RequestInv' /\ Answers'
    BY <1>1, <2>1, <2>2, RequestFrame
  <2>6. MemberInv' /\ ReadyIsLive'
    <3>1. (step'[Member] = "idle") = (step[Member] = "idle")
      BY <2>1, CallerFacts
    <3> QED BY <1>1, <2>1, <2>2, <3>1, MemberFrame
  <2> QED BY <2>3, <2>4, <2>5, <2>6, WholeNext
<1> QED BY <1>2, <1>3

LEMMA RequestKeeps ==
    ASSUME IInv, NEW c \in Caller, NEW id \in Sub \cup Event, Request(c, id)
    PROVE  IInv'
<1> USE DEF Request, conn, flags, watch, bounds
<1> DEFINE new == [id |-> id, taken |-> FALSE, ok |-> FALSE, left |-> {}]
<1>1. TypeOK /\ OperationInv /\ RequestInv /\ Answers /\ MemberInv /\ ReadyIsLive
  BY Parts
<1>2. /\ step[c] = "socket" /\ step'[c] = "answer" /\ lock = c /\ rows = {}
      /\ \A d \in Caller \ {c} : step'[d] = step[d]
      /\ step' \in [Caller -> Step]
  BY <1>1, CallerFacts DEF TypeOK, Step, OperationInv
<1>3. new \in RequestSet /\ new.id = id /\ ~new.taken /\ new.left = {}
  BY DEF RequestSet
<1>4. id \in Sub => \A r \in requests : r.id # id
  BY CallerFacts DEF Fresh
<1>5. requests' = requests \cup {new} /\ topic' = id /\ future' = "pending"
  OBVIOUS
<1>6. UNCHANGED <<conn, flags, lock, kind, rows, snapshot, watch, roster, notice, stored, bounds>>
  OBVIOUS
<1> HIDE DEF new, Request
<1>7. TypeOK'
  BY <1>1, <1>2, <1>3, <1>5, <1>6 DEF TypeOK
<1>8. OperationInv'
  BY <1>1, <1>2, <1>6, CallerFacts DEF OperationInv, TypeOK
<1>9. RequestInv'
  BY <1>1, <1>2, <1>3, <1>4, <1>5, <1>6 DEF RequestInv
<1>10. Answers'
  BY <1>5 DEF Answers, ConfirmedIsStored, ResultComplete
<1>11. MemberInv' /\ ReadyIsLive'
  <2>1. (step'[Member] = "idle") = (step[Member] = "idle")
    BY <1>2, CallerFacts
  <2> QED BY <1>1, <1>6, <2>1, MemberFrame
<1> QED BY <1>7, <1>8, <1>9, <1>10, <1>11, WholeNext

(* A query stops waiting: with its rows, or with none.                       *)
LEMMA StopsWaiting ==
    ASSUME IInv, NEW c \in Caller, NEW next \in {"closing", "failing"},
           step[c] = "answer", step' = [step EXCEPT ![c] = next],
           topic' = Nobody, future' = "none", snapshot' = {},
           rows' \in {rows, {}}, next = "failing" => rows' = {},
           UNCHANGED <<link, lock, kind, member, closed, flags, found, changed, relay>>,
           faults' \in 0 .. MaxFaults, changes' \in 0 .. MaxChanges
    PROVE  IInv'
<1> USE DEF flags, relay
<1>1. TypeOK /\ OperationInv /\ RequestInv /\ Answers /\ MemberInv /\ ReadyIsLive
  BY Parts
<1>2. /\ step'[c] = next /\ lock = c
      /\ \A d \in Caller \ {c} : step'[d] = step[d]
      /\ step' \in [Caller -> Step]
  BY <1>1 DEF TypeOK, Step, OperationInv
<1>3. TypeOK'
  BY <1>1, <1>2 DEF TypeOK
<1>4. OperationInv'
  BY <1>1, <1>2, CallerFacts DEF OperationInv, TypeOK
<1>5. RequestInv' /\ Answers'
  BY <1>1, CallerFacts DEF RequestInv, Answers, ConfirmedIsStored, ResultComplete
<1>6. MemberInv' /\ ReadyIsLive'
  <2>1. (step'[Member] = "idle") = (step[Member] = "idle")
    BY <1>2, CallerFacts
  <2> QED BY <1>1, <2>1, MemberFrame
<1> QED BY <1>3, <1>4, <1>5, <1>6, WholeNext

LEMMA AnsweredKeeps ==
    ASSUME IInv, NEW c \in Caller, Answered(c)
    PROVE  IInv'
<1> USE DEF Answered
<1>1. faults' \in 0 .. MaxFaults /\ changes' \in 0 .. MaxChanges
  BY Parts DEF TypeOK, bounds
<1>2. CASE kind[c] = "event"
  BY <1>1, <1>2, LeaveKeeps
<1>3. CASE kind[c] # "event"
  <2> DEFINE next == IF future = "done" THEN "closing" ELSE "failing"
  <2>1. next \in {"closing", "failing"} /\ step' = [step EXCEPT ![c] = next]
    BY <1>3
  <2>2. rows' \in {rows, {}} /\ (next = "failing" => rows' = {})
    BY <1>3
  <2>3. /\ step[c] = "answer" /\ topic' = Nobody /\ future' = "none" /\ snapshot' = {}
        /\ UNCHANGED <<link, lock, kind, member, closed, flags, found, changed, relay>>
    BY <1>3
  <2> HIDE DEF next, Answered
  <2> QED BY <1>1, <2>1, <2>2, <2>3, StopsWaiting
<1> QED BY <1>2, <1>3

LEMMA FinishKeeps ==
    ASSUME IInv, NEW c \in Caller, Finish(c)
    PROVE  IInv'
<1>1. faults' \in 0 .. MaxFaults /\ changes' \in 0 .. MaxChanges
  BY Parts DEF Finish, TypeOK, bounds
<1> QED BY <1>1, LeaveKeeps DEF Finish

LEMMA AbortKeeps ==
    ASSUME IInv, NEW c \in Caller, Abort(c),
           faults' \in 0 .. MaxFaults, changes' \in 0 .. MaxChanges
    PROVE  IInv'
<1>1. CASE step[c] = "answer" /\ kind[c] = "query"
  <2>1. /\ step' = [step EXCEPT ![c] = "failing"]
        /\ topic' = Nobody /\ future' = "none" /\ snapshot' = {} /\ rows' = {}
        /\ UNCHANGED <<link, lock, kind, member, closed, flags, found, changed, relay>>
    BY <1>1 DEF Abort
  <2> QED BY <1>1, <2>1, StopsWaiting
<1>2. CASE ~(step[c] = "answer" /\ kind[c] = "query")
  BY <1>2, LeaveKeeps DEF Abort
<1> QED BY <1>1, <1>2

LEMMA FaultCounts ==
    ASSUME IInv, Fault
    PROVE  faults' \in 0 .. MaxFaults
<1>1. faults \in 0 .. MaxFaults /\ MaxFaults \in Nat
  BY Parts, RelayAssumption DEF TypeOK
<1> QED BY <1>1 DEF Fault

LEMMA ExpireKeeps ==
    ASSUME IInv, NEW c \in Caller, Expire(c)
    PROVE  IInv'
<1>1. changes' \in 0 .. MaxChanges
  BY Parts DEF Expire, TypeOK
<1> QED BY <1>1, FaultCounts, AbortKeeps DEF Expire

-----------------------------------------------------------------------------
(* The membership task                                                       *)

(* The REQ for a new set of channels: ready at once if it is empty, else     *)
(* when the one replay there is has ended.                                   *)
LEMMA SubscribedFacts ==
    ASSUME TypeOK, MemberInv, replays = <<>>, ~liveReady', link # "down",
           NEW S \in SUBSET Channel, Subscribed(S),
           UNCHANGED <<link, replayed>>, step'[Member] = "idle"
    PROVE  /\ MemberInv' /\ ReadyIsLive'
           /\ ready' \in BOOLEAN /\ live' \subseteq Channel /\ replays' \in Seq(SUBSET Channel)
           /\ member' \in {"off", "asking", "unsubscribe", "replay", "sleep"}
<1> USE DEF Subscribed
<1>1. CASE S = {}
  BY <1>1, NoReplay DEF MemberInv, ReadyIsLive
<1>2. CASE S # {}
  <2>1. /\ ready' = FALSE /\ member' = "replay" /\ live' = S /\ replays' = <<S>>
        /\ <<S>> \in Seq(SUBSET Channel)
    BY <1>2, OneReplay
  <2> QED BY <2>1 DEF MemberInv, ReadyIsLive
<1> QED BY <1>1, <1>2

LEMMA RefreshedKeeps ==
    ASSUME IInv, Refreshed
    PROVE  IInv'
<1> USE DEF relay, bounds
<1>1. TypeOK /\ OperationInv /\ RequestInv /\ Answers /\ MemberInv /\ ReadyIsLive
  BY Parts
<1>2. /\ step[Member] = "closing" /\ step' = [step EXCEPT ![Member] = "idle"]
      /\ lock' = Nobody /\ rows' = {}
      /\ UNCHANGED <<closed, replayed, kind, topic, future, snapshot, changed, relay, bounds>>
  BY DEF Refreshed
<1>3. /\ step'[Member] = "idle" /\ \A d \in Caller \ {Member} : step'[d] = step[d]
      /\ step' \in [Caller -> Step]
      /\ lock = Member /\ topic = Nobody /\ future = "none" /\ rows \in SUBSET Channel
  BY <1>1, <1>2, CallerFacts DEF TypeOK, Step, OperationInv
<1>4. /\ member = "asking" /\ link # "down" /\ replays = <<>>
      /\ live # {} => replayed = live
  BY <1>1, <1>2 DEF MemberInv
<1>5. /\ MemberInv' /\ ReadyIsLive'
      /\ link' \in {"up", "dying"} /\ ready' \in BOOLEAN /\ liveReady' \in BOOLEAN
      /\ live' \subseteq Channel /\ replays' \in Seq(SUBSET Channel) /\ found' \subseteq Channel
      /\ member' \in {"off", "asking", "unsubscribe", "replay", "sleep"}
  <2>1. CASE /\ link' = "dying" /\ member' = "off"
             /\ UNCHANGED <<ready, live, liveReady, replays, found>>
    BY <2>1, <1>1, <1>2, <1>3 DEF MemberInv, ReadyIsLive, TypeOK
  <2>2. CASE /\ rows = live /\ ready' = TRUE /\ member' = "sleep"
             /\ UNCHANGED <<link, live, liveReady, replays, found>>
    BY <2>2, <1>1, <1>2, <1>3, <1>4 DEF MemberInv, ReadyIsLive, TypeOK
  <2>3. CASE liveReady' = FALSE /\ Subscribed(rows) /\ UNCHANGED <<link, found>>
    <3>1. /\ MemberInv' /\ ReadyIsLive'
          /\ ready' \in BOOLEAN /\ live' \subseteq Channel /\ replays' \in Seq(SUBSET Channel)
          /\ member' \in {"off", "asking", "unsubscribe", "replay", "sleep"}
      BY <2>3, <1>1, <1>2, <1>3, <1>4, SubscribedFacts
    <3> QED BY <2>3, <3>1, <1>1, <1>4 DEF TypeOK
  <2>4. CASE /\ liveReady' = FALSE /\ ready' = FALSE /\ member' = "unsubscribe" /\ found' = rows
             /\ UNCHANGED <<link, live, replays>>
    BY <2>4, <1>1, <1>2, <1>3, <1>4 DEF MemberInv, ReadyIsLive, TypeOK
  <2> QED BY <2>1, <2>2, <2>3, <2>4 DEF Refreshed
<1>6. TypeOK'
  BY <1>1, <1>2, <1>3, <1>5 DEF TypeOK
<1>7. OperationInv'
  BY <1>1, <1>2, <1>3, CallerFacts DEF OperationInv, TypeOK
<1>8. RequestInv' /\ Answers'
  BY <1>1, <1>2, <1>3, CallerFacts DEF RequestInv, Answers, ConfirmedIsStored, ResultComplete
<1> QED BY <1>5, <1>6, <1>7, <1>8, WholeNext

LEMMA ResubscribeKeeps ==
    ASSUME IInv, Resubscribe
    PROVE  IInv'
<1> USE DEF Resubscribe, conn, relay, bounds
<1>1. TypeOK /\ OperationInv /\ RequestInv /\ Answers /\ MemberInv /\ ReadyIsLive
  BY Parts
<1>2. /\ step[Member] = "idle" /\ ~liveReady /\ replays = <<>> /\ link # "down"
      /\ found \in SUBSET Channel /\ step'[Member] = "idle"
  BY <1>1 DEF MemberInv, TypeOK, op
<1>3. /\ MemberInv' /\ ReadyIsLive'
      /\ ready' \in BOOLEAN /\ live' \subseteq Channel /\ replays' \in Seq(SUBSET Channel)
      /\ member' \in {"off", "asking", "unsubscribe", "replay", "sleep"}
  BY <1>1, <1>2, SubscribedFacts
<1>4. TypeOK'
  BY <1>1, <1>3 DEF TypeOK, op, wait
<1>5. OperationInv'
  BY <1>1, OperationFrame
<1>6. RequestInv' /\ Answers'
  BY <1>1, RequestFrame DEF op, wait
<1> QED BY <1>3, <1>4, <1>5, <1>6, WholeNext

LEMMA WatchKeeps ==
    ASSUME IInv, Replayed \/ ReplayExpires
    PROVE  IInv'
<1> USE DEF Replayed, ReplayExpires, conn, relay, bounds
<1>1. TypeOK /\ OperationInv /\ RequestInv /\ Answers /\ MemberInv /\ ReadyIsLive
  BY Parts
<1>2. UNCHANGED <<op, requests, stored>>
  OBVIOUS
<1>3. MemberInv' /\ ReadyIsLive'
  BY <1>1, <1>2 DEF MemberInv, ReadyIsLive, op, flags
<1>4. faults' \in 0 .. MaxFaults
  BY <1>1, FaultCounts DEF TypeOK
<1>5. TypeOK'
  <2>1. CASE Replayed
    BY <2>1, <1>1 DEF TypeOK, op, wait
  <2>2. CASE ReplayExpires
    BY <2>2, <1>1, <1>4 DEF TypeOK, op, wait, flags
  <2> QED BY <2>1, <2>2
<1>6. OperationInv'
  BY <1>1, <1>2, OperationFrame
<1>7. RequestInv' /\ Answers'
  BY <1>1, <1>2, RequestFrame DEF op, wait
<1> QED BY <1>3, <1>5, <1>6, <1>7, WholeNext

LEMMA RefreshKeeps ==
    ASSUME IInv, Refresh
    PROVE  IInv'
<1> USE DEF Refresh, conn, flags, wait, relay, bounds
<1>1. TypeOK /\ OperationInv /\ RequestInv /\ Answers /\ MemberInv /\ ReadyIsLive
  BY Parts
<1>2. /\ step[Member] = "idle" /\ lock # Member
      /\ step'[Member] = "lock" /\ \A c \in Caller \ {Member} : step'[c] = step[c]
      /\ step' \in [Caller -> Step]
  BY <1>1, CallerFacts DEF MemberInv, OperationInv, TypeOK, Step
<1>3. TypeOK'
  BY <1>1, <1>2 DEF TypeOK
<1>4. OperationInv'
  BY <1>1, <1>2 DEF OperationInv, TypeOK
<1>5. RequestInv' /\ Answers'
  BY <1>1, RequestFrame
<1>6. MemberInv' /\ ReadyIsLive'
  BY <1>1, <1>2 DEF MemberInv, ReadyIsLive
<1> QED BY <1>3, <1>4, <1>5, <1>6, WholeNext

LEMMA CancelMemberKeeps ==
    ASSUME IInv, CancelMember
    PROVE  IInv'
<1>1. TypeOK /\ OperationInv /\ RequestInv /\ Answers /\ MemberInv /\ ReadyIsLive
  BY Parts
<1>2. CASE Abort(Member) /\ UNCHANGED bounds
  <2>1. faults' \in 0 .. MaxFaults /\ changes' \in 0 .. MaxChanges
    BY <1>1, <1>2 DEF TypeOK, bounds
  <2> QED BY <1>2, <2>1, AbortKeeps, CallerFacts
<1>3. CASE /\ link = "dying" /\ member \in {"unsubscribe", "replay", "sleep"} /\ member' = "off"
           /\ found' = {} /\ UNCHANGED <<conn, flags, op, changed, relay, bounds>>
  <2> USE DEF conn, flags, relay, bounds
  <2>1. TypeOK'
    BY <1>1, <1>3 DEF TypeOK, op, wait
  <2>2. OperationInv'
    BY <1>1, <1>3, OperationFrame
  <2>3. RequestInv' /\ Answers'
    BY <1>1, <1>3, RequestFrame DEF op, wait
  <2>4. MemberInv' /\ ReadyIsLive'
    BY <1>1, <1>3 DEF MemberInv, ReadyIsLive, op
  <2> QED BY <2>1, <2>2, <2>3, <2>4, WholeNext
<1> QED BY <1>2, <1>3 DEF CancelMember

-----------------------------------------------------------------------------
(* The relay and the reader                                                  *)

LEMMA ChangeKeeps ==
    ASSUME IInv, NEW S \in SUBSET Channel, Change(S)
    PROVE  IInv'
<1> USE DEF Change, conn, flags, watch
<1>1. TypeOK /\ OperationInv /\ RequestInv /\ Answers /\ MemberInv /\ ReadyIsLive
  BY Parts
<1>2. changes' \in 0 .. MaxChanges
  BY <1>1, RelayAssumption DEF TypeOK
<1>3. TypeOK'
  BY <1>1, <1>2 DEF TypeOK, op, wait
<1>4. OperationInv'
  BY <1>1, OperationFrame
<1>5. RequestInv' /\ Answers'
  BY <1>1, RequestFrame DEF op, wait
<1>6. MemberInv' /\ ReadyIsLive'
  BY <1>1, MemberFrame DEF op
<1> QED BY <1>3, <1>4, <1>5, <1>6, WholeNext

LEMMA TakeKeeps ==
    ASSUME IInv, NEW r \in requests, NEW ok \in BOOLEAN, Take(r, ok)
    PROVE  IInv'
<1> USE DEF conn, flags, watch, bounds
<1> DEFINE new == [r EXCEPT !.taken = TRUE, !.ok = ok, !.left = IF r.id \in Sub THEN roster ELSE {}]
<1>1. TypeOK /\ OperationInv /\ RequestInv /\ Answers /\ MemberInv /\ ReadyIsLive
  BY Parts
<1>2. r \in RequestSet
  BY <1>1 DEF TypeOK
<1>3. /\ new \in RequestSet /\ new.id = r.id /\ new.taken = TRUE /\ new.ok = ok
      /\ r.id \in Sub => new.left = roster
  BY <1>1, <1>2 DEF RequestSet, TypeOK
<1>4. /\ ~r.taken /\ requests' = (requests \ {r}) \cup {new}
      /\ snapshot' = (IF r.id \in Sub /\ topic = r.id THEN roster ELSE snapshot)
      /\ stored' = (IF ok THEN stored \cup ({r.id} \cap Event) ELSE stored)
      /\ UNCHANGED <<conn, flags, lock, step, kind, topic, future, rows, watch, roster, notice,
                     bounds>>
  BY DEF Take
<1> HIDE DEF new
<1>5. TypeOK'
  BY <1>1, <1>3, <1>4 DEF TypeOK
<1>6. OperationInv'
  BY <1>1, <1>4 DEF OperationInv
<1>7. RequestInv'
  <2>1. \A q \in requests' : IF q.taken THEN q.id \in Event /\ q.ok => q.id \in stored'
                                        ELSE q.left = {}
    BY <1>1, <1>3, <1>4 DEF RequestInv
  <2>2. \A p, q \in requests' : p.id = q.id /\ p.id \in Sub => p = q
    BY <1>1, <1>3, <1>4 DEF RequestInv
  <2>3. ASSUME NEW q \in requests', q.id = topic', q.id \in Sub
        PROVE  /\ future' # "done"
               /\ future' = "pending" => IF q.taken THEN rows' \cup q.left = snapshot'
                                                    ELSE rows' = {}
    <3>1. CASE q = new
      BY <2>3, <3>1, <1>1, <1>3, <1>4 DEF RequestInv
    <3>2. CASE q # new
      <4>1. q \in requests /\ q # r
        BY <3>2, <1>4
      <4>2. r.id # topic
        BY <4>1, <2>3, <1>1, <1>4 DEF RequestInv
      <4> QED BY <4>1, <4>2, <2>3, <1>1, <1>4 DEF RequestInv
    <3> QED BY <3>1, <3>2
  <2> QED BY <2>1, <2>2, <2>3 DEF RequestInv
<1>8. Answers'
  BY <1>1, <1>4 DEF Answers, ConfirmedIsStored, ResultComplete, RequestInv
<1>9. MemberInv' /\ ReadyIsLive'
  BY <1>1, <1>4, MemberFrame
<1> QED BY <1>5, <1>6, <1>7, <1>8, <1>9, WholeNext

LEMMA RowKeeps ==
    ASSUME IInv, NEW r \in requests, NEW x \in Channel, Row(r, x)
    PROVE  IInv'
<1> USE DEF conn, flags, watch, bounds
<1> DEFINE new == [r EXCEPT !.left = @ \ {x}]
<1>1. TypeOK /\ OperationInv /\ RequestInv /\ Answers /\ MemberInv /\ ReadyIsLive
  BY Parts
<1>2. r \in RequestSet
  BY <1>1 DEF TypeOK
<1>3. /\ new \in RequestSet /\ new.id = r.id /\ new.taken = r.taken /\ new.ok = r.ok
      /\ new.left = r.left \ {x}
  BY <1>2 DEF RequestSet
<1>4. /\ x \in r.left /\ requests' = (requests \ {r}) \cup {new}
      /\ rows' = (IF topic = r.id /\ future = "pending" THEN rows \cup {x} ELSE rows)
      /\ UNCHANGED <<conn, flags, lock, step, kind, topic, future, snapshot, watch, roster, notice,
                     stored, bounds>>
  BY DEF Row, Awaited
<1> HIDE DEF new
<1>5. TypeOK'
  BY <1>1, <1>3, <1>4 DEF TypeOK
<1>6. OperationInv'
  BY <1>1, <1>4 DEF OperationInv
<1>7. RequestInv'
  <2>1. \A q \in requests' : IF q.taken THEN q.id \in Event /\ q.ok => q.id \in stored'
                                        ELSE q.left = {}
    BY <1>1, <1>3, <1>4 DEF RequestInv
  <2>2. \A p, q \in requests' : p.id = q.id /\ p.id \in Sub => p = q
    BY <1>1, <1>3, <1>4 DEF RequestInv
  <2>3. ASSUME NEW q \in requests', q.id = topic', q.id \in Sub
        PROVE  /\ future' # "done"
               /\ future' = "pending" => IF q.taken THEN rows' \cup q.left = snapshot'
                                                    ELSE rows' = {}
    <3>1. CASE q = new
      BY <2>3, <3>1, <1>1, <1>3, <1>4 DEF RequestInv
    <3>2. CASE q # new
      <4>1. q \in requests /\ q # r
        BY <3>2, <1>4
      <4>2. r.id # topic
        BY <4>1, <2>3, <1>1, <1>4 DEF RequestInv
      <4> QED BY <4>1, <4>2, <2>3, <1>1, <1>4 DEF RequestInv
    <3> QED BY <3>1, <3>2
  <2> QED BY <2>1, <2>2, <2>3 DEF RequestInv
<1>8. Answers'
  BY <1>1, <1>4 DEF Answers, ConfirmedIsStored, ResultComplete
<1>9. MemberInv' /\ ReadyIsLive'
  BY <1>1, <1>4, MemberFrame
<1> QED BY <1>5, <1>6, <1>7, <1>8, <1>9, WholeNext

(* The end of a request is handed to its own caller only, who then has the   *)
(* whole result.                                                             *)
LEMMA AnswerKeeps ==
    ASSUME IInv, NEW r \in requests, Answer(r)
    PROVE  IInv'
<1> USE DEF conn, flags, watch, bounds
<1>1. TypeOK /\ OperationInv /\ RequestInv /\ Answers /\ MemberInv /\ ReadyIsLive
  BY Parts
<1>2. /\ r.taken /\ r.left = {} /\ requests' = requests \ {r}
      /\ \/ ~(topic = r.id /\ future = "pending") /\ future' = future
         \/ topic = r.id /\ future = "pending" /\ r.ok /\ future' = "done"
         \/ topic = r.id /\ future = "pending" /\ ~r.ok /\ future' = "refused"
      /\ UNCHANGED <<conn, flags, lock, step, kind, topic, rows, snapshot, watch, roster, notice,
                     stored, bounds>>
  BY DEF Answer, Awaited
<1>3. TypeOK'
  BY <1>1, <1>2 DEF TypeOK
<1>4. OperationInv'
  BY <1>1, <1>2 DEF OperationInv
<1>5. RequestInv'
  BY <1>1, <1>2 DEF RequestInv
<1>6. Answers'
  BY <1>1, <1>2 DEF Answers, ConfirmedIsStored, ResultComplete, RequestInv
<1>7. MemberInv' /\ ReadyIsLive'
  BY <1>1, <1>2, MemberFrame
<1> QED BY <1>3, <1>4, <1>5, <1>6, <1>7, WholeNext

LEMMA LiveEoseKeeps ==
    ASSUME IInv, LiveEose
    PROVE  IInv'
<1> USE DEF conn, watch, relay, bounds
<1>1. TypeOK /\ OperationInv /\ RequestInv /\ Answers /\ MemberInv /\ ReadyIsLive
  BY Parts
<1>2. /\ replays # <<>> /\ liveReady' = TRUE /\ replays' = Tail(replays) /\ replayed' = Head(replays)
      /\ UNCHANGED <<conn, ready, live, op, watch, relay, bounds>> /\ link = "up"
  BY DEF LiveEose
<1>3. member = "replay" /\ ~ready /\ replays = <<live>> /\ live \in SUBSET Channel
  BY <1>1, <1>2 DEF MemberInv, TypeOK
<1>4. replays' = <<>> /\ replayed' = live
  BY <1>2, <1>3, OneReplay
<1>5. TypeOK'
  BY <1>1, <1>2, <1>3, <1>4, NoReplay DEF TypeOK, op, wait
<1>6. OperationInv'
  BY <1>1, <1>2, OperationFrame
<1>7. RequestInv' /\ Answers'
  BY <1>1, <1>2, RequestFrame DEF op, wait
<1>8. MemberInv' /\ ReadyIsLive'
  BY <1>1, <1>2, <1>3, <1>4 DEF MemberInv, ReadyIsLive, op
<1> QED BY <1>5, <1>6, <1>7, <1>8, WholeNext

LEMMA NoticeKeeps ==
    ASSUME IInv, Notice \/ UNCHANGED vars
    PROVE  IInv'
<1> USE DEF Notice, vars, conn, bounds
<1>1. TypeOK /\ OperationInv /\ RequestInv /\ Answers /\ MemberInv /\ ReadyIsLive
  BY Parts
<1>2. /\ UNCHANGED <<conn, flags, op, member, found, roster, requests, stored, bounds>>
      /\ notice' \in BOOLEAN /\ changed' \in BOOLEAN
  BY <1>1 DEF watch, relay, TypeOK
<1>3. TypeOK'
  BY <1>1, <1>2 DEF TypeOK, op, wait, flags
<1>4. OperationInv'
  BY <1>1, <1>2, OperationFrame
<1>5. RequestInv' /\ Answers'
  BY <1>1, <1>2, RequestFrame DEF op, wait
<1>6. MemberInv' /\ ReadyIsLive'
  BY <1>1, <1>2, MemberFrame DEF op
<1> QED BY <1>3, <1>4, <1>5, <1>6, WholeNext

-----------------------------------------------------------------------------
(* The inductive invariant of the transport.                                 *)
THEOREM RelayInvariance == Spec => []IInv
<1>1. Init => IInv
  BY InitInv
<1>2. IInv /\ [Next]_vars => IInv'
  <2> SUFFICES ASSUME IInv, [Next]_vars PROVE IInv'
    OBVIOUS
  <2>1. CASE Connect \/ Drop \/ Close \/ TearDown
    BY <2>1, ConnectKeeps, BreakKeeps, TearDownKeeps
  <2>2. ASSUME NEW c \in Client, NEW k \in {"query", "event", "profile"}, Call(c, k)
        PROVE  IInv'
    BY <2>2, CallKeeps
  <2>3. ASSUME NEW c \in Caller, Operation(c) \/ Expire(c) PROVE IInv'
    BY <2>3, AcquireKeeps, RequestKeeps, AnsweredKeeps, FinishKeeps, ExpireKeeps DEF Operation
  <2>4. CASE Membership \/ Refresh \/ ReplayExpires \/ CancelMember
    BY <2>4, RefreshedKeeps, ResubscribeKeeps, WatchKeeps, RefreshKeeps, CancelMemberKeeps
       DEF Membership
  <2>5. ASSUME NEW S \in SUBSET Channel, Change(S) PROVE IInv'
    BY <2>5, ChangeKeeps
  <2>6. CASE Respond \/ LiveEose
    BY <2>6, TakeKeeps, AnswerKeeps, RowKeeps, LiveEoseKeeps DEF Respond
  <2>7. CASE Notice \/ UNCHANGED vars
    BY <2>7, NoticeKeeps
  <2> QED BY <2>1, <2>2, <2>3, <2>4, <2>5, <2>6, <2>7 DEF Next
<1> QED BY <1>1, <1>2, PTL DEF Spec

(* publish_event() returns for an event that the relay has accepted.         *)
THEOREM ReturnsIfStored == Spec => []ConfirmedIsStored
BY RelayInvariance, PTL DEF IInv

(* A query's result is what the relay read for its subscription, complete.   *)
THEOREM QueriesComplete == Spec => []ResultComplete
BY RelayInvariance, PTL DEF IInv

(* The relay is ready only while its live subscription is replayed.          *)
THEOREM ReadyWhenReplayed == Spec => []ReadyIsLive
BY RelayInvariance, PTL DEF IInv
=============================================================================
