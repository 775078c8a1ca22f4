------------------------- MODULE BuzzDeliveryProofs -------------------------
(* IInv and MemoryInv are inductive, for every set of messages, every limit  *)
(* and every bound, and the safety properties of BuzzDelivery follow from    *)
(* them.                                                                     *)
EXTENDS BuzzDelivery, SequenceTheorems, FiniteSetTheorems, TLAPS

-----------------------------------------------------------------------------
(* What each transaction of the store does to its tables, for every limit    *)
(* and every set of events and conversations                                 *)

(* turns[-n:] holds turns of the list it is taken from.                      *)
LEMMA LastTurnsType ==
    ASSUME NEW S, NEW turns \in Seq(S), NEW n \in Nat
    PROVE  LastTurns(turns, n) \in Seq(S)
<1>1. CASE Len(turns) <= n
  BY <1>1 DEF LastTurns
<1>2. CASE ~(Len(turns) <= n)
  <2>1. Len(turns) \in Nat
    BY LenProperties
  <2> DEFINE first == Len(turns) - n + 1
  <2>2. first \in Int /\ first >= 1
    BY <2>1, <1>2
  <2>3. \A i \in first..Len(turns) : turns[i] \in S
    BY <2>1, <2>2, ElementOfSeq
  <2>4. SubSeq(turns, first, Len(turns)) \in Seq(S)
    <3> HIDE DEF first
    <3>1. QED BY <2>1, <2>2, <2>3, SubSeqProperties
  <2>5. QED
    BY <1>2, <2>4 DEF LastTurns
<1>3. QED
  BY <1>1, <1>2

(* A list of turns stays one when more turns become acceptable.              *)
LEMMA SeqGrows ==
    ASSUME NEW S, NEW T, S \subseteq T, NEW s \in Seq(S)
    PROVE  s \in Seq(T)
<1>1. Len(s) \in Nat /\ s \in [1..Len(s) -> S]
  BY LenProperties
<1>2. s \in [1..Len(s) -> T]
  BY <1>1
<1>3. QED
  BY <1>1, <1>2, IsASeq

(* The part of finish that records an exchange adds to the history only the  *)
(* user turn and, for a signed reply, the assistant turn: if both are in S   *)
(* and all turns were, all turns are.                                        *)
LEMMA RecordType ==
    ASSUME StoreAssumption,
           NEW S, NEW e \in Event, NEW r \in Nat \cup {EmptyObject},
           history \in [Conversation -> Seq(S)],
           staler \in [Conversation -> SUBSET Conversation],
           UserTurn(e) \in S,
           r > Null => ReplyTurn(e, r) \in S,
           Record(e, r)
    PROVE  /\ history' \in [Conversation -> Seq(S)]
           /\ staler' \in [Conversation -> SUBSET Conversation]
<1> DEFINE c == ConversationOf[e]
           reply == IF r > Null THEN <<ReplyTurn(e, r)>> ELSE <<>>
           turns == history[c] \o <<UserTurn(e)>> \o reply
           kept == {d \in Conversation : history[d] # <<>>} \cup {c}
           touched == [d \in Conversation |-> IF d = c THEN kept \ {c}
                                              ELSE staler[d] \ {c}]
           newest == Newest(kept, touched, ConversationLimit)
<1>1. c \in Conversation /\ 2 * HistoryTurns \in Nat
  BY DEF StoreAssumption
<1>2. reply \in Seq(S)
  BY DEF Null
<1>3. history[c] \in Seq(S) /\ <<UserTurn(e)>> \in Seq(S)
  BY <1>1
<1>4. turns \in Seq(S)
  <2> HIDE DEF reply
  <2>1. history[c] \o <<UserTurn(e)>> \in Seq(S)
    BY <1>3, ConcatProperties
  <2>2. QED
    BY <2>1, <1>2, ConcatProperties
<1>5. LastTurns(turns, 2 * HistoryTurns) \in Seq(S)
  <2> HIDE DEF turns
  <2>1. QED BY <1>1, <1>4, LastTurnsType
<1>6. history' = [d \in Conversation |->
                    IF d \notin newest THEN <<>>
                    ELSE IF d = c THEN LastTurns(turns, 2 * HistoryTurns)
                    ELSE history[d]]
  BY DEF Record
<1>7. history' \in [Conversation -> Seq(S)]
  <2> HIDE DEF turns, newest, c
  <2>1. QED BY <1>5, <1>6
<1>8. touched \in [Conversation -> SUBSET Conversation]
  BY <1>1
<1>9. staler' = [d \in Conversation |->
                   IF d \in newest THEN touched[d] \cap newest ELSE {}]
  BY DEF Record
<1>10. staler' \in [Conversation -> SUBSET Conversation]
  <2> HIDE DEF touched, newest
  <2>1. QED BY <1>8, <1>9
<1>11. QED
  BY <1>7, <1>10

(* finish settles its own row, prunes only finished rows and leaves every    *)
(* other unfinished row as it was.                                           *)
LEMMA SettleEffect ==
    ASSUME NEW e \in Live,
           state \in [Event -> RowState],
           older \in [Event -> SUBSET Event],
           outgoing \in [Event -> Nat \cup {EmptyObject}],
           Settle(e)
    PROVE  /\ state' \in [Event -> RowState]
           /\ older' \in [Event -> SUBSET Event]
           /\ outgoing' \in [Event -> Nat \cup {EmptyObject}]
           /\ Live' = Live \ {e}
           /\ \A f \in Live \ {e} : state'[f] = state[f]
           /\ \A f \in Event : older'[f] \subseteq older[f]
           /\ (\A f \in Event : older[f] \subseteq Rows)
                => \A f \in Event : older'[f] \subseteq Rows'
           /\ outgoing' = [outgoing EXCEPT ![e] = Null]
<1> DEFINE finished == Done \cup {e}
           pruned == finished \ Newest(finished, older, DedupLimit)
<1>1. e \in Event /\ state[e] \in {"pending", "outbox"}
  BY DEF Live
<1>2. pruned \subseteq finished
  OBVIOUS
<1>3. finished \subseteq Event /\ \A f \in finished : f = e \/ state[f] = "done"
  BY <1>1 DEF Done
<1>4. state' = [f \in Event |-> IF f \in pruned THEN "absent"
                                ELSE IF f = e THEN "done" ELSE state[f]]
  BY DEF Settle
<1>5. older' = [f \in Event |-> IF f \in pruned THEN {} ELSE older[f] \ pruned]
  BY DEF Settle
<1>6. outgoing' = [outgoing EXCEPT ![e] = Null]
  BY DEF Settle
<1> HIDE DEF finished, pruned
<1>7. state' \in [Event -> RowState]
  BY <1>4 DEF RowState
<1>8. older' \in [Event -> SUBSET Event] /\ \A f \in Event : older'[f] \subseteq older[f]
  BY <1>5
<1>9. Live' = Live \ {e}
  BY <1>2, <1>3, <1>4 DEF Live
<1>10. \A f \in Live \ {e} : state'[f] = state[f]
  BY <1>2, <1>3, <1>4 DEF Live
<1>11. ASSUME \A f \in Event : older[f] \subseteq Rows
       PROVE  \A f \in Event : older'[f] \subseteq Rows'
  <2>1. Rows' = Rows \ pruned
    BY <1>1, <1>2, <1>3, <1>4 DEF Rows, RowState
  <2>2. QED BY <1>5, <1>11, <2>1
<1>12. QED
  BY <1>6, <1>7, <1>8, <1>9, <1>10, <1>11 DEF Null

(* enqueue adds one pending row behind all others, or changes no row.        *)
LEMMA EnqueueEffect ==
    ASSUME StoreAssumption, StoreTypeOK, NEW e \in Event, Enqueue(e)
    PROVE  /\ StoreTypeOK'
           /\ Inserts(e) => /\ Live' = Live \cup {e} /\ e \notin Live
                            /\ state' = [state EXCEPT ![e] = "pending"]
                            /\ older' = [older EXCEPT ![e] = Rows]
                            /\ Rows' = Rows \cup {e} /\ e \notin Rows
           /\ ~Inserts(e) => UNCHANGED <<state, older>>
<1> USE DEF StoreTypeOK, StoreAssumption
<1>1. since' \in Nat
  BY DEF Enqueue, MaxOf
<1>2. active' = active /\ outgoing' = outgoing /\ history' = history /\ staler' = staler
  BY DEF Enqueue
<1>3. CASE Inserts(e)
  <2>1. /\ state' = [state EXCEPT ![e] = "pending"]
        /\ older' = [older EXCEPT ![e] = Rows]
    BY <1>3 DEF Enqueue
  <2>2. e \notin Rows
    BY <1>3 DEF Inserts
  <2>3. Live' = Live \cup {e} /\ e \notin Live /\ Rows' = Rows \cup {e}
    BY <2>1, <2>2 DEF Live, Rows
  <2>4. state' \in [Event -> RowState] /\ older' \in [Event -> SUBSET Event]
    BY <2>1 DEF RowState, Rows
  <2>5. QED BY <1>1, <1>2, <1>3, <2>1, <2>2, <2>3, <2>4
<1>4. CASE ~Inserts(e)
  <2>1. state' = state /\ older' = older
    BY <1>4 DEF Enqueue
  <2>2. QED BY <1>1, <1>2, <1>4, <2>1
<1>5. QED
  BY <1>3, <1>4

(* The table types hold in the empty database.                               *)
LEMMA StoreInitType ==
    ASSUME StoreInit
    PROVE  StoreTypeOK
<1>1. history \in [Conversation -> Seq(Turn)]
  <2>1. <<>> \in Seq(Turn)
    OBVIOUS
  <2>2. QED BY <2>1 DEF StoreInit
<1>2. state \in [Event -> RowState] /\ outgoing \in [Event -> Nat \cup {EmptyObject}]
  BY DEF StoreInit, RowState, Null
<1>3. active \in BOOLEAN /\ since \in Nat
  BY StoreAssumption DEF StoreInit
<1>4. older \in [Event -> SUBSET Event] /\ staler \in [Conversation -> SUBSET Conversation]
  BY DEF StoreInit
<1>5. QED
  BY <1>1, <1>2, <1>3, <1>4 DEF StoreTypeOK

(* Removing a community leaves no row and no history.                        *)
LEMMA DeactivateEffect ==
    ASSUME StoreTypeOK, Deactivate
    PROVE  StoreTypeOK' /\ Live' = {} /\ Rows' = {}
<1>1. history' \in [Conversation -> Seq(Turn)]
  <2>1. <<>> \in Seq(Turn)
    OBVIOUS
  <2>2. QED BY <2>1 DEF Deactivate
<1>2. state' \in [Event -> RowState] /\ outgoing' \in [Event -> Nat \cup {EmptyObject}]
  BY DEF Deactivate, RowState, Null
<1>3. active' \in BOOLEAN /\ since' \in Nat
  BY DEF Deactivate, StoreTypeOK
<1>4. older' \in [Event -> SUBSET Event] /\ staler' \in [Conversation -> SUBSET Conversation]
  BY DEF Deactivate
<1>5. Live' = {} /\ Rows' = {}
  BY DEF Deactivate, Live, Rows
<1>6. QED
  BY <1>1, <1>2, <1>3, <1>4, <1>5 DEF StoreTypeOK

-----------------------------------------------------------------------------
(* The lane and its promise                                                  *)

(* Steps that leave the tables, the counters and the relay's events alone    *)
(* keep what the invariant says about these.                                 *)
LEMMA StoreFrame ==
    ASSUME IInv, UNCHANGED <<storeVars, signed, admitted, torn, stored>>
    PROVE  /\ StoreTypeOK' /\ RowsInv' /\ CountInv' /\ HistoryInv'
           /\ Live' = Live /\ Rows' = Rows
           /\ \A e \in Event : IsNext(e)' = IsNext(e)
<1>1. /\ active' = active /\ since' = since /\ state' = state /\ older' = older
      /\ outgoing' = outgoing /\ history' = history /\ staler' = staler
      /\ signed' = signed /\ admitted' = admitted /\ torn' = torn /\ stored' = stored
  BY DEF storeVars
<1>2. StoreTypeOK'
  BY <1>1 DEF IInv, TypeOK, StoreTypeOK
<1>3. Live' = Live /\ Rows' = Rows
  BY <1>1 DEF Live, Rows
<1>4. RowsInv' /\ CountInv'
  BY <1>1, <1>3 DEF IInv, RowsInv, CountInv
<1>5. HistoryInv'
  BY <1>1 DEF IInv, HistoryInv, Confirmed
<1>6. \A e \in Event : IsNext(e)' = IsNext(e)
  BY <1>1, <1>3 DEF IsNext
<1>7. QED
  BY <1>2, <1>3, <1>4, <1>5, <1>6

(* Turns stay acceptable while the relay keeps what it has accepted.         *)
LEMMA ConfirmedGrows ==
    ASSUME stored \subseteq stored'
    PROVE  Confirmed \subseteq Confirmed'
  BY DEF Confirmed

(* History of acceptable turns stays one when more turns are acceptable; all *)
(* acceptable turns are turns of the history table.                          *)
LEMMA HistoryGrows ==
    ASSUME NEW S, NEW T, S \subseteq T, NEW h \in [Conversation -> Seq(S)]
    PROVE  h \in [Conversation -> Seq(T)]
<1>1. \A c \in Conversation : h[c] \in Seq(T)
  <2> TAKE c \in Conversation
  <2>1. h[c] \in Seq(S)
    OBVIOUS
  <2>2. QED BY <2>1, SeqGrows
<1>2. QED
  BY <1>1

(* The user turn is acceptable, the assistant turn once the relay has it.    *)
LEMMA RecordConfirmed ==
    ASSUME StoreAssumption, IInv, NEW e \in Event, NEW r \in Nat \cup {EmptyObject},
           r > Null => <<e, r>> \in stored,
           UNCHANGED stored,
           Record(e, r)
    PROVE  HistoryInv' /\ staler' \in [Conversation -> SUBSET Conversation]
<1>1. UserTurn(e) \in Confirmed
  BY DEF Confirmed, Turn, UserTurn, Null
<1>2. r > Null => ReplyTurn(e, r) \in Confirmed
  BY DEF Confirmed, Turn, ReplyTurn, Null, EmptyObject
<1>3. history \in [Conversation -> Seq(Confirmed)]
  BY DEF IInv, HistoryInv
<1>4. staler \in [Conversation -> SUBSET Conversation]
  BY DEF IInv, TypeOK, StoreTypeOK
<1>5. /\ history' \in [Conversation -> Seq(Confirmed)]
      /\ staler' \in [Conversation -> SUBSET Conversation]
  <2> HIDE DEF Confirmed
  <2>1. QED BY <1>1, <1>2, <1>3, <1>4, RecordType
<1>6. Confirmed' = Confirmed
  BY DEF Confirmed
<1>7. QED
  BY <1>5, <1>6 DEF HistoryInv

(* Every way a turn ends but a crash: the row in flight is settled, history  *)
(* gains at most acceptable turns and the lane scans again.                  *)
LEMMA CloseRow ==
    ASSUME StoreAssumption, DeliveryAssumption, IInv,
           phase \in Turning \cup {"ready"},
           Settle(cur), Leave,
           HistoryInv', staler' \in [Conversation -> SUBSET Conversation],
           UNCHANGED <<active, since, wake, linkVars, wireVars, ghostVars, boundVars>>
    PROVE  IInv'
<1>1. /\ active' = active /\ since' = since /\ wake' = wake /\ link' = link
      /\ subscribed' = subscribed /\ sent' = sent /\ sentHere' = sentHere
      /\ stored' = stored /\ signed' = signed /\ admitted' = admitted /\ torn' = torn
      /\ stops' = stops /\ drops' = drops /\ removals' = removals
      /\ phase' = "scan" /\ cur' = NoEvent /\ snapshot' = Null
  BY DEF Leave, linkVars, wireVars, ghostVars, boundVars
<1>2. cur \in Live /\ cur \in Event
  BY DEF IInv, WriteAhead, Live
<1>3. /\ state' \in [Event -> RowState]
      /\ older' \in [Event -> SUBSET Event]
      /\ outgoing' \in [Event -> Nat \cup {EmptyObject}]
      /\ Live' = Live \ {cur} /\ \A f \in Live \ {cur} : state'[f] = state[f]
      /\ \A f \in Event : older'[f] \subseteq Rows'
      /\ outgoing' = [outgoing EXCEPT ![cur] = Null]
  BY <1>2, SettleEffect DEF IInv, TypeOK, StoreTypeOK, RowsInv
<1>4. StoreTypeOK'
  <2>1. history' \in [Conversation -> Seq(Turn)]
    <3>1. Confirmed' \subseteq Turn
      BY DEF Confirmed
    <3>2. history' \in [Conversation -> Seq(Confirmed')]
      BY DEF HistoryInv
    <3>3. QED BY <3>1, <3>2, HistoryGrows
  <2>2. active' \in BOOLEAN /\ since' \in Nat
    BY <1>1 DEF IInv, TypeOK, StoreTypeOK
  <2>3. QED BY <1>3, <2>1, <2>2 DEF StoreTypeOK
<1>5. TypeOK'
  BY <1>1, <1>4 DEF IInv, TypeOK, Phase, Null
<1>6. WriteAhead' /\ NoLostWakeup' /\ LaneInv'
  BY <1>1 DEF WriteAhead, NoLostWakeup, LaneInv, Turning, Publishing
<1>7. RowsInv'
  <2>1. \A e \in Event : outgoing'[e] # Null => state'[e] = "outbox"
    BY <1>3 DEF IInv, RowsInv, TypeOK, StoreTypeOK, Live
  <2>2. \A e \in Event : outgoing'[e] <= signed'[e]
    BY <1>1, <1>3 DEF IInv, RowsInv, TypeOK, StoreTypeOK, Null
  <2>3. QED BY <1>3, <2>1, <2>2 DEF RowsInv
<1>8. CountInv'
  BY <1>1, <1>3 DEF IInv, CountInv, TypeOK, StoreTypeOK
<1>9. WireInv'
  BY <1>1, <1>3 DEF IInv, WireInv, TypeOK, StoreTypeOK, Live
<1>10. QED
  BY <1>5, <1>6, <1>7, <1>8, <1>9 DEF IInv

(* finish of a row that a turn has in flight keeps the invariant.            *)
LEMMA FinishStep ==
    ASSUME StoreAssumption, DeliveryAssumption, IInv,
           phase \in Turning \cup {"ready"},
           snapshot > Null => <<cur, snapshot>> \in stored,
           Finish(cur), Leave,
           UNCHANGED <<wake, linkVars, wireVars, ghostVars, boundVars>>
    PROVE  IInv'
<1>1. cur \in Live /\ cur \in Event /\ snapshot = outgoing[cur]
  BY DEF IInv, WriteAhead, Live
<1>2. Settle(cur) /\ UNCHANGED <<active, since>>
  BY <1>1 DEF Finish
<1>3. stored' = stored
  BY DEF wireVars
<1>4. HistoryInv' /\ staler' \in [Conversation -> SUBSET Conversation]
  <2>1. CASE outgoing[cur] # Null
    <3>1. Record(cur, outgoing[cur])
      BY <1>1, <2>1 DEF Finish
    <3>2. outgoing[cur] \in Nat \cup {EmptyObject}
      BY <1>1 DEF IInv, TypeOK, StoreTypeOK
    <3>3. QED BY <1>1, <1>3, <3>1, <3>2, RecordConfirmed
  <2>2. CASE outgoing[cur] = Null
    <3>1. history' = history /\ staler' = staler
      BY <1>1, <2>2 DEF Finish, historyVars
    <3>2. QED
      BY <1>3, <3>1 DEF IInv, HistoryInv, Confirmed, TypeOK, StoreTypeOK
  <2>3. QED BY <2>1, <2>2
<1>5. QED
  BY <1>2, <1>4, CloseRow

(* So does abandon, which records nothing.                                   *)
LEMMA AbandonStep ==
    ASSUME StoreAssumption, DeliveryAssumption, IInv,
           phase \in Turning,
           Abandon(cur), Leave,
           UNCHANGED <<wake, linkVars, wireVars, ghostVars, boundVars>>
    PROVE  IInv'
<1>1. Settle(cur) /\ UNCHANGED <<active, since>> /\ history' = history /\ staler' = staler
  BY DEF Abandon
<1>2. stored' = stored
  BY DEF wireVars
<1>3. HistoryInv' /\ staler' \in [Conversation -> SUBSET Conversation]
  BY <1>1, <1>2 DEF IInv, HistoryInv, Confirmed, TypeOK, StoreTypeOK
<1>4. QED
  BY <1>1, <1>3, CloseRow

(* A stopped process forgets its turn and its wire; the rows it leaves are   *)
(* those it had, or the one in flight without its reply.                     *)
LEMMA LoseStep ==
    ASSUME StoreAssumption, DeliveryAssumption, IInv,
           LoseProcess,
           StoreTypeOK', RowsInv', CountInv',
           torn' \in [Event -> Nat],
           UNCHANGED history
    PROVE  IInv'
<1>1. /\ phase' = "off" /\ cur' = NoEvent /\ snapshot' = Null /\ wake' = FALSE
      /\ link' = "down" /\ sentHere' = {} /\ stops' = stops + 1
      /\ subscribed' = subscribed /\ sent' = sent /\ stored' = stored
      /\ signed' = signed /\ admitted' = admitted
      /\ drops' = drops /\ removals' = removals
  BY DEF LoseProcess
<1>2. TypeOK'
  <2>1. phase' \in Phase /\ snapshot' \in Nat \cup {EmptyObject} /\ stops' \in Nat
    BY <1>1 DEF IInv, TypeOK, Phase, Null
  <2>2. QED BY <1>1, <2>1 DEF IInv, TypeOK
<1>3. WriteAhead' /\ NoLostWakeup' /\ LaneInv'
  BY <1>1 DEF WriteAhead, NoLostWakeup, LaneInv, Turning, Publishing
<1>4. WireInv'
  BY <1>1 DEF WireInv
<1>5. HistoryInv'
  BY <1>1 DEF IInv, HistoryInv, Confirmed
<1>6. QED
  BY <1>2, <1>3, <1>4, <1>5 DEF IInv

(* The invariant holds when the service is first started.                    *)
LEMMA InitIInv ==
    ASSUME StoreAssumption, DeliveryAssumption, DeliveryInit
    PROVE  IInv
<1> USE DEF DeliveryInit
<1>1. StoreTypeOK
  BY StoreInitType
<1>2. TypeOK
  BY <1>1 DEF TypeOK, Phase, Null
<1>3. Live = {}
  BY DEF StoreInit, Live
<1>4. RowsInv /\ CountInv
  BY <1>3 DEF RowsInv, CountInv, StoreInit, Null
<1>5. WriteAhead /\ NoLostWakeup /\ LaneInv /\ WireInv
  BY <1>3 DEF WriteAhead, NoLostWakeup, LaneInv, WireInv, Turning, Publishing
<1>6. HistoryInv
  <2>1. <<>> \in Seq(Confirmed)
    OBVIOUS
  <2>2. QED BY <2>1 DEF StoreInit, HistoryInv
<1>7. QED
  BY <1>2, <1>4, <1>5, <1>6 DEF IInv

(* A delivery adds a pending row the lane does not hold.                     *)
LEMMA DeliverStep ==
    ASSUME StoreAssumption, DeliveryAssumption, IInv, NEW e \in Event, Deliver(e)
    PROVE  IInv'
<1> USE DEF IInv, TypeOK
<1>1. /\ phase' = phase /\ cur' = cur /\ snapshot' = snapshot
      /\ link' = link /\ subscribed' = subscribed /\ sent' = sent
      /\ sentHere' = sentHere /\ stored' = stored /\ signed' = signed /\ torn' = torn
      /\ stops' = stops /\ drops' = drops /\ removals' = removals
  BY DEF Deliver, runVars, linkVars, wireVars, boundVars
<1>2. Enqueue(e) /\ wake' = (wake \/ Inserts(e))
  BY DEF Deliver
<1>3. StoreTypeOK'
  BY <1>2, EnqueueEffect
<1>4. outgoing' = outgoing /\ history' = history
  BY <1>2 DEF Enqueue
<1>5. HistoryInv'
  BY <1>1, <1>4 DEF HistoryInv, Confirmed
<1>6. CASE Inserts(e)
  <2>1. /\ Live' = Live \cup {e} /\ e \notin Live
        /\ state' = [state EXCEPT ![e] = "pending"]
        /\ older' = [older EXCEPT ![e] = Rows]
        /\ Rows' = Rows \cup {e} /\ e \notin Rows
    BY <1>2, <1>6, EnqueueEffect
  <2>2. admitted' = [admitted EXCEPT ![e] = @ + 1] /\ wake' = TRUE
    BY <1>2, <1>6 DEF Deliver
  <2>3. TypeOK'
    BY <1>1, <1>3, <2>2
  <2>4. WriteAhead'
    <3>1. phase \in Turning \cup {"ready"}
            => cur \in Live' /\ snapshot = outgoing[cur] /\ state'[cur] = state[cur]
      BY <2>1 DEF WriteAhead, StoreTypeOK, Live
    <3>2. Publishing \subseteq Turning
      BY DEF Publishing, Turning
    <3>3. QED BY <1>1, <1>4, <3>1, <3>2 DEF WriteAhead
  <2>5. NoLostWakeup'
    BY <2>2 DEF NoLostWakeup
  <2>6. LaneInv'
    <3>1. phase \in Turning \cup {"ready"} => IsNext(cur)'
      <4> SUFFICES ASSUME phase \in Turning \cup {"ready"}
                   PROVE  IsNext(cur)'
        OBVIOUS
      <4>1. IsNext(cur) /\ cur \in Live /\ cur \in Event /\ cur # e
        BY <2>1 DEF LaneInv, IsNext, Live
      <4>2. older'[cur] = older[cur] /\ e \notin older[cur]
        BY <4>1, <2>1 DEF RowsInv, StoreTypeOK
      <4>3. QED BY <1>1, <2>1, <4>1, <4>2 DEF IsNext
    <3>2. QED BY <1>1, <3>1 DEF LaneInv
  <2>7. RowsInv'
    <3>1. outgoing[e] = Null
      BY <2>1 DEF RowsInv, Rows
    <3>2. \A f \in Event : outgoing'[f] # Null => state'[f] = "outbox"
      BY <1>4, <2>1, <3>1 DEF RowsInv, StoreTypeOK
    <3>3. \A f \in Event : older'[f] \subseteq Rows'
      BY <2>1 DEF RowsInv, StoreTypeOK
    <3>4. QED BY <1>1, <1>4, <3>2, <3>3 DEF RowsInv
  <2>8. CountInv'
    BY <1>1, <1>4, <2>1, <2>2 DEF CountInv, StoreTypeOK
  <2>9. WireInv'
    <3>1. outgoing[e] = Null
      BY <2>1 DEF RowsInv, Rows
    <3>2. QED BY <1>1, <1>4, <2>1, <3>1 DEF WireInv, Null
  <2>10. QED
    BY <1>5, <2>3, <2>4, <2>5, <2>6, <2>7, <2>8, <2>9
<1>7. CASE ~Inserts(e)
  <2>1. state' = state /\ older' = older
    BY <1>2, <1>7, EnqueueEffect
  <2>2. admitted' = admitted /\ wake' = wake
    BY <1>2, <1>7 DEF Deliver
  <2>3. Live' = Live /\ Rows' = Rows
    BY <2>1 DEF Live, Rows
  <2>4. TypeOK'
    BY <1>1, <1>3, <2>2
  <2>5. WriteAhead' /\ NoLostWakeup'
    BY <1>1, <1>4, <2>1, <2>2, <2>3 DEF WriteAhead, NoLostWakeup
  <2>6. LaneInv' /\ RowsInv'
    BY <1>1, <1>4, <2>1, <2>3 DEF LaneInv, RowsInv, IsNext
  <2>7. CountInv' /\ WireInv'
    BY <1>1, <1>4, <2>2, <2>3 DEF CountInv, WireInv
  <2>8. QED
    BY <1>5, <2>4, <2>5, <2>6, <2>7
<1>8. QED
  BY <1>6, <1>7

(* Every step of the service, the relay and the environment keeps IInv.      *)
LEMMA NextIInv ==
    ASSUME StoreAssumption, DeliveryAssumption, IInv, [DeliveryNext]_vars
    PROVE  IInv'
<1> USE DEF linkVars, wireVars, ghostVars, boundVars, runVars
<1>1. CASE Start
  <2>1. StoreTypeOK' /\ RowsInv' /\ CountInv' /\ HistoryInv'
    BY <1>1, StoreFrame DEF Start
  <2>2. TypeOK'
    <3>1. subscribed' \in Nat
      BY <1>1 DEF Start, MaxOf, IInv, TypeOK, StoreTypeOK, DeliveryAssumption
    <3>2. QED BY <1>1, <2>1, <3>1 DEF Start, IInv, TypeOK, Phase
  <2>3. WriteAhead' /\ NoLostWakeup' /\ LaneInv'
    BY <1>1 DEF Start, WriteAhead, NoLostWakeup, LaneInv, Turning, Publishing
  <2>4. WireInv'
    <3>1. Live' = Live
      BY <1>1, StoreFrame DEF Start
    <3>2. QED BY <1>1, <3>1 DEF Start, IInv, WireInv, storeVars
  <2>5. QED BY <2>1, <2>2, <2>3, <2>4 DEF IInv
<1>2. CASE Activate
  <2>1. /\ UNCHANGED <<since, inboxVars, historyVars>> /\ active' = TRUE
        /\ UNCHANGED <<runVars, wake, linkVars, wireVars, ghostVars, boundVars>>
    BY <1>2 DEF Activate, SetActive
  <2>2. Live' = Live /\ Rows' = Rows
    BY <2>1 DEF Live, Rows, inboxVars
  <2>3. TypeOK'
    BY <2>1 DEF IInv, TypeOK, StoreTypeOK, inboxVars, historyVars
  <2>4. WriteAhead' /\ NoLostWakeup' /\ LaneInv' /\ RowsInv'
    BY <2>1, <2>2 DEF IInv, WriteAhead, NoLostWakeup, LaneInv, RowsInv, IsNext, inboxVars
  <2>5. CountInv' /\ WireInv' /\ HistoryInv'
    BY <2>1, <2>2 DEF IInv, CountInv, WireInv, HistoryInv, Confirmed, inboxVars, historyVars
  <2>6. QED BY <2>3, <2>4, <2>5 DEF IInv
<1>3. CASE Halt
  <2>1. UNCHANGED <<storeVars, signed, admitted, torn, stored>> /\ LoseProcess
    BY <1>3 DEF Halt, LoseProcess
  <2>2. StoreTypeOK' /\ RowsInv' /\ CountInv'
    BY <2>1, StoreFrame
  <2>3. QED
    BY <2>1, <2>2, LoseStep DEF storeVars, IInv, TypeOK
<1>4. CASE Remove
  <2>1. /\ phase = "off" /\ Deactivate /\ removals' = removals + 1
        /\ UNCHANGED <<runVars, wake, linkVars, wireVars, ghostVars, stops, drops>>
    BY <1>4 DEF Remove
  <2>2. StoreTypeOK' /\ Live' = {} /\ Rows' = {}
    BY <2>1, DeactivateEffect DEF IInv, TypeOK
  <2>3. TypeOK'
    BY <2>1, <2>2 DEF IInv, TypeOK
  <2>4. WriteAhead' /\ NoLostWakeup' /\ LaneInv'
    BY <2>1 DEF WriteAhead, NoLostWakeup, LaneInv, Turning, Publishing
  <2>5. RowsInv'
    <3>1. /\ outgoing' = [e \in Event |-> Null] /\ older' = [e \in Event |-> {}]
          /\ signed' = signed /\ signed \in [Event -> Nat]
      BY <2>1 DEF Deactivate, IInv, TypeOK
    <3>2. QED BY <2>2, <3>1 DEF RowsInv, Null
  <2>6. CountInv' /\ WireInv'
    BY <2>1, <2>2 DEF IInv, CountInv, WireInv
  <2>7. HistoryInv'
    <3>1. <<>> \in Seq(Confirmed)'
      OBVIOUS
    <3>2. QED BY <2>1, <3>1 DEF Deactivate, HistoryInv
  <2>8. QED BY <2>3, <2>4, <2>5, <2>6, <2>7 DEF IInv
<1>5. CASE Connect \/ Subscribe \/ Resubscribe
  <2>1. /\ UNCHANGED <<storeVars, runVars, wake, subscribed, wireVars, ghostVars, stops, removals>>
        /\ link' \in {"io", "ready"} /\ drops' \in Nat
    BY <1>5 DEF Connect, Subscribe, Resubscribe, IInv, TypeOK
  <2>2. /\ StoreTypeOK' /\ RowsInv' /\ CountInv' /\ HistoryInv' /\ Live' = Live
        /\ \A e \in Event : IsNext(e)' = IsNext(e)
    BY <2>1, StoreFrame
  <2>3. TypeOK'
    BY <2>1, <2>2 DEF IInv, TypeOK
  <2>4. WriteAhead' /\ NoLostWakeup' /\ WireInv'
    BY <2>1, <2>2 DEF IInv, WriteAhead, NoLostWakeup, WireInv, storeVars
  <2>5. LaneInv'
    BY <2>1, <2>2 DEF IInv, LaneInv, IsNext, storeVars
  <2>6. QED BY <2>2, <2>3, <2>4, <2>5 DEF IInv
<1>6. CASE Disconnect
  <2>1. /\ UNCHANGED <<storeVars, cur, snapshot, wake, subscribed, wireVars, ghostVars,
                       stops, removals>>
        /\ link' = "down" /\ drops' = drops + 1
        /\ phase' = IF phase = "ack" THEN "failed" ELSE phase
    BY <1>6 DEF Disconnect
  <2>2. /\ StoreTypeOK' /\ RowsInv' /\ CountInv' /\ HistoryInv' /\ Live' = Live
        /\ \A e \in Event : IsNext(e)' = IsNext(e)
    BY <2>1, StoreFrame
  <2>3. TypeOK'
    <3>1. phase' \in Phase /\ link' \in {"down", "io", "ready"} /\ drops' \in Nat
      BY <2>1 DEF IInv, TypeOK, Phase
    <3>2. QED BY <2>1, <2>2, <3>1 DEF IInv, TypeOK
  <2>4. WriteAhead' /\ NoLostWakeup'
    BY <2>1, <2>2 DEF IInv, WriteAhead, NoLostWakeup, storeVars, Turning, Publishing
  <2>5. LaneInv'
    BY <2>1, <2>2 DEF IInv, LaneInv, IsNext, storeVars, Turning
  <2>6. WireInv'
    BY <2>1, <2>2 DEF IInv, WireInv, storeVars
  <2>7. QED BY <2>2, <2>3, <2>4, <2>5, <2>6 DEF IInv
<1>7. CASE \E e \in Event : Deliver(e)
  BY <1>7, DeliverStep
<1>8. CASE \E r \in sent : RelayStore(r)
  <2>1. PICK r \in sent : RelayStore(r)
    BY <1>8
  <2>2. /\ UNCHANGED <<storeVars, runVars, wake, linkVars, sent, sentHere, ghostVars, boundVars>>
        /\ stored' = stored \cup {r} /\ r \in Reply
    BY <2>1 DEF RelayStore, IInv, TypeOK
  <2>3. Live' = Live /\ Rows' = Rows
    BY <2>2 DEF storeVars, Live, Rows
  <2>4. TypeOK'
    BY <2>2 DEF IInv, TypeOK, StoreTypeOK, storeVars
  <2>5. WriteAhead' /\ NoLostWakeup' /\ LaneInv' /\ RowsInv'
    BY <2>2, <2>3 DEF IInv, WriteAhead, NoLostWakeup, LaneInv, RowsInv, IsNext, storeVars
  <2>6. CountInv' /\ WireInv'
    BY <2>2, <2>3 DEF IInv, CountInv, WireInv, storeVars
  <2>7. HistoryInv'
    <3>1. Confirmed \subseteq Confirmed'
      BY <2>2, ConfirmedGrows
    <3>2. history' = history /\ history \in [Conversation -> Seq(Confirmed)]
      BY <2>2 DEF storeVars, IInv, HistoryInv
    <3>3. history \in [Conversation -> Seq(Confirmed')]
      BY <3>1, <3>2, HistoryGrows
    <3>4. QED BY <3>2, <3>3 DEF HistoryInv
  <2>8. QED BY <2>4, <2>5, <2>6, <2>7 DEF IInv
<1>9. CASE Scan
  <2>1. UNCHANGED <<storeVars, linkVars, wireVars, ghostVars, boundVars>>
    BY <1>9 DEF Scan
  <2>2. /\ StoreTypeOK' /\ RowsInv' /\ CountInv' /\ HistoryInv' /\ Live' = Live
        /\ \A e \in Event : IsNext(e)' = IsNext(e)
    BY <2>1, StoreFrame
  <2>3. CASE \E e \in Event : /\ IsNext(e)
                              /\ phase' = "ready" /\ cur' = e /\ snapshot' = outgoing[e]
                              /\ UNCHANGED wake
    <3>1. PICK e \in Event : /\ IsNext(e)
                             /\ phase' = "ready" /\ cur' = e /\ snapshot' = outgoing[e]
                             /\ UNCHANGED wake
      BY <2>3
    <3>2. e \in Live
      BY <3>1 DEF IsNext
    <3>3. TypeOK'
      BY <2>1, <2>2, <3>1 DEF IInv, TypeOK, StoreTypeOK, Phase
    <3>4. WriteAhead' /\ NoLostWakeup' /\ WireInv'
      BY <1>9, <2>1, <2>2, <3>1, <3>2
         DEF Scan, IInv, WriteAhead, NoLostWakeup, WireInv, storeVars, Turning, Publishing
    <3>5. LaneInv'
      <4>1. (IsNext(cur))'
        BY <2>1, <2>2, <3>1 DEF IsNext, storeVars
      <4>2. QED BY <3>1, <4>1 DEF LaneInv, Turning
    <3>6. QED BY <2>2, <3>3, <3>4, <3>5 DEF IInv
  <2>4. CASE /\ Live = {} /\ phase' = "waiting" /\ wake' = FALSE
             /\ UNCHANGED <<cur, snapshot>>
    <3>1. TypeOK'
      BY <2>1, <2>2, <2>4 DEF IInv, TypeOK, Phase
    <3>2. WriteAhead' /\ NoLostWakeup' /\ LaneInv' /\ WireInv'
      BY <2>1, <2>2, <2>4
         DEF IInv, WriteAhead, NoLostWakeup, LaneInv, WireInv, Turning, Publishing
    <3>3. QED BY <2>2, <3>1, <3>2 DEF IInv
  <2>5. QED BY <1>9, <2>3, <2>4 DEF Scan
<1>10. CASE Woken \/ NotReady
  <2>1. /\ UNCHANGED <<storeVars, wake, linkVars, wireVars, ghostVars, boundVars>>
        /\ phase' = "scan" /\ phase \in {"waiting", "ready"}
        /\ cur' \in {cur, NoEvent} /\ snapshot' \in {snapshot, Null}
    BY <1>10 DEF Woken, NotReady, Leave
  <2>2. StoreTypeOK' /\ RowsInv' /\ CountInv' /\ HistoryInv' /\ Live' = Live
    BY <2>1, StoreFrame
  <2>3. TypeOK'
    <3>1. phase' \in Phase /\ cur' \in Event \cup {NoEvent} /\ snapshot' \in Nat \cup {EmptyObject}
      BY <2>1 DEF IInv, TypeOK, Phase, Null
    <3>2. QED BY <2>1, <2>2, <3>1 DEF IInv, TypeOK
  <2>4. WriteAhead' /\ NoLostWakeup' /\ LaneInv'
    BY <2>1 DEF WriteAhead, NoLostWakeup, LaneInv, Turning, Publishing
  <2>5. WireInv'
    BY <2>1, <2>2 DEF IInv, WireInv, storeVars
  <2>6. QED BY <2>2, <2>3, <2>4, <2>5 DEF IInv
<1>11. CASE Ready
  <2>1. CASE snapshot = EmptyObject /\ Finish(cur) /\ Leave
    <3>1. phase \in Turning \cup {"ready"} /\ ~(snapshot > Null)
      BY <1>11, <2>1 DEF Ready, Null, EmptyObject
    <3>2. QED BY <1>11, <2>1, <3>1, FinishStep DEF Ready
  <2>2. CASE /\ UNCHANGED <<storeVars, cur, snapshot>>
             /\ \/ snapshot > Null /\ phase' = "publish"
                \/ snapshot = Null /\ phase' = "roster"
    <3>1. UNCHANGED <<storeVars, wake, linkVars, wireVars, ghostVars, boundVars>> /\ phase = "ready"
      BY <1>11, <2>2 DEF Ready
    <3>2. /\ StoreTypeOK' /\ RowsInv' /\ CountInv' /\ HistoryInv' /\ Live' = Live
          /\ \A e \in Event : IsNext(e)' = IsNext(e)
      BY <3>1, StoreFrame
    <3>3. TypeOK'
      <4>1. phase' \in Phase
        BY <2>2 DEF Phase
      <4>2. QED BY <2>2, <3>1, <3>2, <4>1 DEF IInv, TypeOK
    <3>4. cur \in Live /\ snapshot = outgoing[cur] /\ IsNext(cur) /\ cur \in Event
      BY <3>1 DEF IInv, WriteAhead, LaneInv, Live
    <3>5. snapshot > Null => state[cur] = "outbox"
      BY <3>1, <3>4 DEF IInv, RowsInv, Null
    <3>6. WriteAhead' /\ NoLostWakeup'
      BY <2>2, <3>1, <3>2, <3>4, <3>5
         DEF IInv, WriteAhead, NoLostWakeup, storeVars, Turning, Publishing, Null
    <3>7. LaneInv'
      BY <2>2, <3>1, <3>2, <3>4 DEF LaneInv, IsNext, storeVars, Turning
    <3>8. WireInv'
      BY <2>2, <3>1, <3>2 DEF IInv, WireInv, storeVars
    <3>9. QED BY <3>2, <3>3, <3>6, <3>7, <3>8 DEF IInv
  <2>3. QED BY <1>11, <2>1, <2>2 DEF Ready
<1>12. CASE Ignore
  <2>1. phase \in Turning \cup {"ready"} /\ ~(snapshot > Null)
    BY <1>12 DEF Ignore, Turning, IInv, LaneInv, Null
  <2>2. QED BY <1>12, <2>1, FinishStep DEF Ignore
<1>13. CASE Admit
  <2>1. /\ UNCHANGED <<storeVars, cur, snapshot, wake, linkVars, wireVars, ghostVars, boundVars>>
        /\ phase \in {"roster", "score"} /\ phase' \in {"score", "generate"}
    BY <1>13 DEF Admit
  <2>2. /\ StoreTypeOK' /\ RowsInv' /\ CountInv' /\ HistoryInv' /\ Live' = Live
        /\ \A e \in Event : IsNext(e)' = IsNext(e)
    BY <2>1, StoreFrame
  <2>3. TypeOK'
    <3>1. phase' \in Phase
      BY <2>1 DEF Phase
    <3>2. QED BY <2>1, <2>2, <3>1 DEF IInv, TypeOK
  <2>4. WriteAhead' /\ NoLostWakeup' /\ WireInv'
    BY <2>1, <2>2 DEF IInv, WriteAhead, NoLostWakeup, WireInv, storeVars, Turning, Publishing
  <2>5. LaneInv'
    BY <2>1, <2>2 DEF IInv, LaneInv, IsNext, storeVars, Turning
  <2>6. QED BY <2>2, <2>3, <2>4, <2>5 DEF IInv
<1>14. CASE StoreReply
  <2> DEFINE k == signed[cur] + 1
  <2>1. cur \in Live /\ cur \in Event /\ outgoing[cur] = Null /\ IsNext(cur)
    BY <1>14 DEF StoreReply, IInv, WriteAhead, LaneInv, Live, Turning
  <2>2. /\ state' = [state EXCEPT ![cur] = "outbox"]
        /\ outgoing' = [outgoing EXCEPT ![cur] = k]
        /\ UNCHANGED <<active, since, older, history, staler>>
        /\ snapshot' = k /\ signed' = [signed EXCEPT ![cur] = k] /\ phase' = "publish"
        /\ UNCHANGED <<cur, wake, linkVars, wireVars, admitted, torn, boundVars>>
    BY <1>14 DEF StoreReply, Outbox
  <2>3. k \in Nat /\ k > Null
    BY <2>1 DEF IInv, TypeOK, Null
  <2> HIDE DEF k
  <2>4. Live' = Live /\ Rows' = Rows
    BY <2>1, <2>2 DEF Live, Rows, IInv, TypeOK, StoreTypeOK
  <2>5. StoreTypeOK'
    BY <2>2, <2>3 DEF IInv, TypeOK, StoreTypeOK, RowState
  <2>6. TypeOK'
    BY <2>2, <2>3, <2>5 DEF IInv, TypeOK, Phase
  <2>7. WriteAhead' /\ NoLostWakeup'
    BY <2>1, <2>2, <2>3, <2>4 DEF WriteAhead, NoLostWakeup, Publishing, IInv, TypeOK, StoreTypeOK
  <2>8. LaneInv'
    BY <2>1, <2>2, <2>4 DEF LaneInv, IsNext
  <2>9. RowsInv'
    BY <2>1, <2>2, <2>3, <2>4 DEF RowsInv, IInv, TypeOK, StoreTypeOK
  <2>10. CountInv'
    <3>1. signed[cur] + 1 <= admitted[cur] + torn[cur]
      BY <2>1 DEF IInv, CountInv
    <3>2. QED BY <2>1, <2>2, <2>3, <2>4, <3>1 DEF CountInv, IInv, TypeOK, StoreTypeOK, k
  <2>11. WireInv'
    <3>1. \A r \in sentHere : r[1] \in Event /\ r[2] \in Nat
      BY DEF IInv, TypeOK, Reply
    <3>2. \A r \in sentHere' : r[2] <= signed'[r[1]]
      BY <2>1, <2>2, <3>1 DEF IInv, TypeOK, WireInv, k
    <3>3. <<cur, k>> \notin sentHere
      BY <2>1 DEF IInv, WireInv, TypeOK, k
    <3>4. \A e \in Live : e # cur /\ outgoing[e] > Null => <<e, outgoing[e]>> \notin sentHere
      BY <1>14 DEF StoreReply, IInv, WireInv
    <3>5. QED
      BY <2>1, <2>2, <2>4, <3>2, <3>3, <3>4 DEF WireInv, IInv, TypeOK, StoreTypeOK, Live
  <2>12. HistoryInv'
    BY <2>2 DEF IInv, HistoryInv, Confirmed
  <2>13. QED
    BY <2>6, <2>7, <2>8, <2>9, <2>10, <2>11, <2>12 DEF IInv
<1>15. CASE NoReply
  <2>1. phase \in Turning /\ cur \in Event
    BY <1>15 DEF NoReply, Turning, IInv, WriteAhead, Live
  <2>2. /\ Settle(cur) /\ Record(cur, EmptyObject) /\ Leave
        /\ UNCHANGED <<active, since, wake, linkVars, wireVars, ghostVars, boundVars>>
    BY <1>15 DEF NoReply
  <2>3. EmptyObject \in Nat \cup {EmptyObject} /\ ~(EmptyObject > Null) /\ stored' = stored
    BY <2>2 DEF EmptyObject, Null
  <2>4. HistoryInv' /\ staler' \in [Conversation -> SUBSET Conversation]
    BY <2>1, <2>2, <2>3, RecordConfirmed
  <2>5. QED BY <2>1, <2>2, <2>4, CloseRow
<1>16. CASE Transmit
  <2>1. /\ phase = "publish" /\ phase' = "ack"
        /\ sent' = sent \cup {<<cur, snapshot>>} /\ sentHere' = sentHere \cup {<<cur, snapshot>>}
        /\ UNCHANGED <<storeVars, cur, snapshot, wake, linkVars, stored, ghostVars, boundVars>>
    BY <1>16 DEF Transmit
  <2>2. /\ StoreTypeOK' /\ RowsInv' /\ CountInv' /\ HistoryInv' /\ Live' = Live
        /\ \A e \in Event : IsNext(e)' = IsNext(e)
    BY <2>1, StoreFrame
  <2>3. /\ cur \in Live /\ cur \in Event /\ snapshot = outgoing[cur] /\ IsNext(cur)
        /\ snapshot > Null /\ state[cur] = "outbox"
    BY <2>1 DEF IInv, WriteAhead, LaneInv, Live, Turning, Publishing
  <2>4. <<cur, snapshot>> \in Reply
    BY <2>3 DEF IInv, TypeOK, Reply, Null, EmptyObject
  <2>5. TypeOK'
    BY <2>1, <2>2, <2>4 DEF IInv, TypeOK, Phase
  <2>6. WriteAhead' /\ NoLostWakeup'
    BY <2>1, <2>2, <2>3 DEF WriteAhead, NoLostWakeup, storeVars
  <2>7. LaneInv'
    BY <2>1, <2>2, <2>3 DEF LaneInv, IsNext, storeVars
  <2>8. WireInv'
    <3>1. outgoing[cur] <= signed[cur]
      BY <2>3 DEF IInv, RowsInv
    <3>2. \A r \in sentHere' : r[2] <= signed'[r[1]]
      BY <2>1, <2>3, <3>1 DEF IInv, WireInv
    <3>3. \A e \in Live : e # cur /\ outgoing[e] > Null => <<e, outgoing[e]>> \notin sentHere'
      BY <2>1, <2>3 DEF IInv, WireInv
    <3>4. QED BY <2>1, <2>2, <3>2, <3>3 DEF WireInv, storeVars
  <2>9. QED BY <2>2, <2>5, <2>6, <2>7, <2>8 DEF IInv
<1>17. CASE RelayOk
  <2>1. /\ UNCHANGED <<storeVars, cur, snapshot, wake, linkVars, wireVars, ghostVars, boundVars>>
        /\ phase = "ack"
        /\ \/ <<cur, snapshot>> \in stored /\ phase' = "acked"
           \/ phase' = "failed"
    BY <1>17 DEF RelayOk
  <2>2. /\ StoreTypeOK' /\ RowsInv' /\ CountInv' /\ HistoryInv' /\ Live' = Live
        /\ \A e \in Event : IsNext(e)' = IsNext(e)
    BY <2>1, StoreFrame
  <2>3. TypeOK'
    <3>1. phase' \in Phase
      BY <2>1 DEF Phase
    <3>2. QED BY <2>1, <2>2, <3>1 DEF IInv, TypeOK
  <2>4. WriteAhead' /\ NoLostWakeup' /\ WireInv'
    BY <2>1, <2>2 DEF IInv, WriteAhead, NoLostWakeup, WireInv, storeVars, Turning, Publishing
  <2>5. LaneInv'
    BY <2>1, <2>2 DEF IInv, LaneInv, IsNext, storeVars, Turning
  <2>6. QED BY <2>2, <2>3, <2>4, <2>5 DEF IInv
<1>18. CASE Confirm
  <2>1. phase \in Turning /\ <<cur, snapshot>> \in stored
    BY <1>18 DEF Confirm, Turning, IInv, LaneInv
  <2>2. QED BY <1>18, <2>1, FinishStep DEF Confirm
<1>19. CASE FailTurn
  BY <1>19, AbandonStep DEF FailTurn, Turning
<1>20. CASE Interrupt
  BY <1>20, AbandonStep DEF Interrupt, Turning
<1>21. CASE TornNoReply
  <2>1. /\ cur \in Live /\ cur \in Event /\ outgoing[cur] = Null
    BY <1>21 DEF TornNoReply, IInv, WriteAhead, LaneInv, Live, Turning
  <2>2. /\ state' = [state EXCEPT ![cur] = "outbox"]
        /\ outgoing' = [outgoing EXCEPT ![cur] = EmptyObject]
        /\ UNCHANGED <<active, since, older, history, staler>>
        /\ LoseProcess /\ torn' = torn /\ signed' = signed /\ admitted' = admitted
    BY <1>21 DEF TornNoReply, Outbox, LoseProcess
  <2>3. Live' = Live /\ Rows' = Rows
    BY <2>1, <2>2 DEF Live, Rows, IInv, TypeOK, StoreTypeOK
  <2>4. StoreTypeOK'
    BY <2>2 DEF IInv, TypeOK, StoreTypeOK, RowState
  <2>5. RowsInv' /\ CountInv'
    BY <2>1, <2>2, <2>3 DEF RowsInv, CountInv, IInv, TypeOK, StoreTypeOK, EmptyObject, Null
  <2>6. QED
    BY <2>2, <2>4, <2>5, LoseStep DEF IInv, TypeOK
<1>22. CASE TornAbandon
  <2>1. /\ cur \in Live /\ cur \in Event
    BY <1>22 DEF TornAbandon, IInv, WriteAhead, Live
  <2>2. /\ outgoing' = [outgoing EXCEPT ![cur] = Null]
        /\ UNCHANGED <<active, since, state, older, history, staler>>
        /\ torn' = IF outgoing[cur] > Null THEN [torn EXCEPT ![cur] = @ + 1] ELSE torn
        /\ LoseProcess /\ signed' = signed /\ admitted' = admitted
    BY <1>22 DEF TornAbandon, ClearReply, LoseProcess
  <2>3. outgoing[cur] > Null \/ outgoing[cur] = Null
    BY <1>22, <2>1 DEF TornAbandon, IInv, WriteAhead, LaneInv, Turning, Publishing, Null
  <2>4. Live' = Live /\ Rows' = Rows
    BY <2>2 DEF Live, Rows
  <2>5. StoreTypeOK' /\ torn' \in [Event -> Nat]
    BY <2>1, <2>2 DEF IInv, TypeOK, StoreTypeOK, Null
  <2>6. RowsInv'
    BY <2>1, <2>2, <2>4 DEF RowsInv, IInv, TypeOK, StoreTypeOK, Null
  <2>7. CountInv'
    <3>1. /\ \A e \in Event : signed[e] \in Nat /\ admitted[e] \in Nat /\ torn[e] \in Nat
          /\ \A e \in Event : signed[e] <= admitted[e] + torn[e]
          /\ \A e \in Live : outgoing[e] = Null => signed[e] + 1 <= admitted[e] + torn[e]
      BY DEF IInv, TypeOK, CountInv, Live
    <3>2. \A e \in Event : e # cur => outgoing'[e] = outgoing[e] /\ torn'[e] = torn[e]
      <4>1. outgoing \in [Event -> Nat \cup {EmptyObject}] /\ torn \in [Event -> Nat]
        BY DEF IInv, TypeOK, StoreTypeOK
      <4>2. torn' = torn \/ torn' = [torn EXCEPT ![cur] = @ + 1]
        BY <2>2
      <4>3. QED BY <2>2, <4>1, <4>2
    <3>3. signed[cur] + 1 <= admitted[cur] + torn'[cur] /\ torn'[cur] \in Nat
      <4>1. CASE outgoing[cur] > Null
        <5>1. torn'[cur] = torn[cur] + 1
          BY <2>1, <2>2, <4>1 DEF IInv, TypeOK
        <5>2. QED BY <2>1, <3>1, <5>1
      <4>2. CASE ~(outgoing[cur] > Null)
        <5>1. torn'[cur] = torn[cur] /\ outgoing[cur] = Null
          BY <2>2, <2>3, <4>2
        <5>2. QED BY <2>1, <3>1, <5>1
      <4>3. QED BY <4>1, <4>2
    <3>4. \A e \in Event : signed[e] <= admitted[e] + torn'[e]
      BY <2>1, <3>1, <3>2, <3>3
    <3>5. \A e \in Live : outgoing'[e] = Null => signed[e] + 1 <= admitted[e] + torn'[e]
      BY <3>1, <3>2, <3>3 DEF Live
    <3>6. QED
      BY <2>2, <2>4, <3>4, <3>5 DEF CountInv, Null
  <2>8. QED
    BY <2>2, <2>5, <2>6, <2>7, LoseStep
<1>23. CASE UNCHANGED vars
  <2>1. /\ UNCHANGED <<storeVars, runVars, wake, linkVars, wireVars, ghostVars, boundVars>>
    BY <1>23 DEF vars
  <2>2. /\ StoreTypeOK' /\ RowsInv' /\ CountInv' /\ HistoryInv' /\ Live' = Live
        /\ \A e \in Event : IsNext(e)' = IsNext(e)
    BY <2>1, StoreFrame
  <2>3. TypeOK'
    BY <2>1, <2>2 DEF IInv, TypeOK
  <2>4. WriteAhead' /\ NoLostWakeup' /\ WireInv' /\ LaneInv'
    BY <2>1, <2>2 DEF IInv, WriteAhead, NoLostWakeup, WireInv, LaneInv, IsNext, storeVars
  <2>5. QED BY <2>2, <2>3, <2>4 DEF IInv
<1>24. QED
  BY <1>1, <1>2, <1>3, <1>4, <1>5, <1>6, <1>7, <1>8, <1>9, <1>10, <1>11, <1>12, <1>13,
     <1>14, <1>15, <1>16, <1>17, <1>18, <1>19, <1>20, <1>21, <1>22, <1>23
     DEF DeliveryNext, LaneStep, TurnStep

(* IInv holds in every reachable state: the invariant behind all results     *)
(* below about the runner, the store and the relay.                          *)
THEOREM Invariance == DeliverySpec => []IInv
<1>1. DeliveryInit => IInv
  BY InitIInv, StoreAssumption, DeliveryAssumption
<1>2. IInv /\ [DeliveryNext]_vars => IInv'
  BY NextIInv, StoreAssumption, DeliveryAssumption
<1>3. QED
  BY <1>1, <1>2, PTL DEF DeliverySpec

(* The tables and the lane hold values of their types in every reachable     *)
(* state (store.py, runner.py).                                              *)
THEOREM TypeCorrect == DeliverySpec => []TypeOK
<1>1. IInv => TypeOK
  BY DEF IInv
<1>2. QED
  BY <1>1, Invariance, PTL

(* Over any number of crashes, restarts, interrupts, failed publications and *)
(* replays, a message is answered by at most one signed event for each time  *)
(* it entered the inbox and each abandon a crash cut in half.                *)
THEOREM OneReply == DeliverySpec => []OneReplyPerAdmission
<1>1. IInv => OneReplyPerAdmission
  BY DEF IInv, CountInv, OneReplyPerAdmission
<1>2. QED
  BY <1>1, Invariance, PTL

(* What is published is what the outbox holds, from process() to finish().   *)
THEOREM OutboxFirst == DeliverySpec => []WriteAhead
<1>1. IInv => WriteAhead
  BY DEF IInv
<1>2. QED
  BY <1>1, Invariance, PTL

(* work() never sleeps over an unfinished row.                               *)
THEOREM LaneAwake == DeliverySpec => []NoLostWakeup
<1>1. IInv => NoLostWakeup
  BY DEF IInv
<1>2. QED
  BY <1>1, Invariance, PTL

(* The model sees a reply as delivered only when the relay has it.           *)
THEOREM OnlyDeliveredRemembered == DeliverySpec => []HistoryConfirmed
<1>1. ASSUME IInv
      PROVE  HistoryConfirmed
  <2>1. SUFFICES ASSUME NEW c \in Conversation, NEW i \in 1..Len(history[c]),
                        history[c][i].role = "assistant"
                 PROVE  <<history[c][i].event, history[c][i].reply>> \in stored
    BY DEF HistoryConfirmed
  <2>2. history[c] \in Seq(Confirmed)
    BY <1>1 DEF IInv, HistoryInv
  <2>3. history[c][i] \in Confirmed
    <3> HIDE DEF Confirmed
    <3>1. QED BY <2>2, ElementOfSeq
  <2>4. QED
    BY <2>1, <2>3 DEF Confirmed
<1>2. QED
  BY <1>1, Invariance, PTL

(* Rows leave the inbox oldest first, and a row that leaves disturbs no      *)
(* other unfinished one.                                                     *)
THEOREM OldestFirst == DeliverySpec => SerialLane
<1>1. ASSUME IInv, [DeliveryNext]_vars
      PROVE  [\A e \in Event : e \in Live /\ e \notin Live' /\ active'
                => /\ Live \cap older[e] = {}
                   /\ \A f \in Live \ {e} :
                         state'[f] = state[f] /\ outgoing'[f] = outgoing[f]]_vars
  <2>1. SUFFICES ASSUME NEW e \in Event, e \in Live, e \notin Live', active'
                 PROVE  /\ Live \cap older[e] = {}
                        /\ \A f \in Live \ {e} :
                              state'[f] = state[f] /\ outgoing'[f] = outgoing[f]
    OBVIOUS
  <2>2. CASE Settle(cur) /\ phase \in Turning \cup {"ready"}
    <3>1. cur \in Live /\ IsNext(cur)
      BY <1>1, <2>2 DEF IInv, WriteAhead, LaneInv
    <3>2. /\ Live' = Live \ {cur} /\ \A f \in Live \ {cur} : state'[f] = state[f]
          /\ outgoing' = [outgoing EXCEPT ![cur] = Null]
      BY <1>1, <2>2, <3>1, SettleEffect DEF IInv, TypeOK, StoreTypeOK
    <3>3. e = cur
      BY <2>1, <3>2
    <3>4. \A f \in Live \ {cur} : outgoing'[f] = outgoing[f]
      BY <1>1, <3>2 DEF IInv, TypeOK, StoreTypeOK, Live
    <3>5. QED BY <3>1, <3>2, <3>3, <3>4 DEF IsNext
  <2>3. CASE Live \subseteq Live'
    BY <2>1, <2>3
  <2>4. CASE Remove
    BY <2>1, <2>4 DEF Remove, Deactivate
  <2>5. (Settle(cur) /\ phase \in Turning \cup {"ready"}) \/ Live \subseteq Live' \/ Remove
    <3>1. CASE Ready \/ Ignore \/ Confirm
      <4>1. phase \in Turning \cup {"ready"}
        BY <3>1 DEF Ready, Ignore, Confirm, Turning
      <4>2. cur \in Live
        BY <1>1, <4>1 DEF IInv, WriteAhead
      <4>3. CASE Finish(cur)
        BY <4>1, <4>2, <4>3 DEF Finish
      <4>4. CASE ~Finish(cur)
        BY <3>1, <4>4 DEF Ready, Ignore, Confirm, storeVars, Live
      <4>5. QED BY <4>3, <4>4
    <3>2. CASE NoReply \/ FailTurn \/ Interrupt
      BY <3>2 DEF NoReply, FailTurn, Interrupt, Abandon, Turning
    <3>3. CASE \E f \in Event : Deliver(f)
      <4>1. PICK f \in Event : Enqueue(f)
        BY <3>3 DEF Deliver
      <4>2. QED
        BY <1>1, <4>1, EnqueueEffect, StoreAssumption DEF IInv, TypeOK, Live
    <3>4. CASE StoreReply \/ TornNoReply
      <4>1. PICK r : Outbox(cur, r)
        BY <3>4 DEF StoreReply, TornNoReply
      <4>2. QED
        BY <1>1, <4>1 DEF Outbox, IInv, TypeOK, StoreTypeOK, Live
    <3>5. CASE TornAbandon \/ Activate
      BY <3>5 DEF TornAbandon, ClearReply, Activate, SetActive, inboxVars, Live
    <3>6. CASE Remove
      BY <3>6
    <3>7. CASE UNCHANGED storeVars
      BY <3>7 DEF storeVars, Live
    <3>8. QED
      BY <1>1, <3>1, <3>2, <3>3, <3>4, <3>5, <3>6, <3>7
         DEF DeliveryNext, LaneStep, TurnStep, Start, Halt, Connect, Subscribe, Resubscribe,
             Disconnect, RelayStore, Scan, Woken, NotReady, Admit, Transmit, RelayOk, vars
  <2>6. QED BY <2>2, <2>3, <2>4, <2>5
<1>2. QED
  BY <1>1, Invariance, PTL DEF DeliverySpec, SerialLane

(* No runner writes the same signed reply to the relay twice.                *)
THEOREM SentOnce == DeliverySpec => NoRepublish
<1>1. ASSUME IInv, [DeliveryNext]_vars
      PROVE  [phase = "publish" /\ phase' = "ack" => <<cur, snapshot>> \notin sentHere]_vars
  <2>1. SUFFICES ASSUME phase = "publish"
                 PROVE  <<cur, snapshot>> \notin sentHere
    OBVIOUS
  <2>2. cur \in Live /\ snapshot = outgoing[cur] /\ snapshot > Null
    BY <1>1, <2>1 DEF IInv, WriteAhead, Turning, Publishing
  <2>3. QED
    BY <1>1, <2>1, <2>2 DEF IInv, WireInv
<1>2. QED
  BY <1>1, Invariance, PTL DEF DeliverySpec, NoRepublish

-----------------------------------------------------------------------------
(* The refinement of ReplyPromise *)

Held == [e \in Event |-> MaxOf(Null, outgoing[e])]

(* Rows, replies, signatures and transmissions unchanged: a stutter.         *)
LEMMA PromiseStutters ==
    ASSUME Live' = Live, outgoing' = outgoing, signed' = signed, sent' = sent
    PROVE  UNCHANGED Promise!promiseVars
  BY DEF Promise!promiseVars, MaxOf

(* A turn that ends is the abstract Close, however it ends.                  *)
LEMMA PromiseCloses ==
    ASSUME IInv, cur \in Live, Settle(cur), UNCHANGED <<signed, sent>>
    PROVE  Promise!Close(cur)
<1>1. Live' = Live \ {cur} /\ outgoing' = [outgoing EXCEPT ![cur] = Null]
  BY SettleEffect DEF IInv, TypeOK, StoreTypeOK
<1>2. cur \in Event /\ outgoing \in [Event -> Nat \cup {EmptyObject}]
  BY DEF Live, IInv, TypeOK, StoreTypeOK
<1>3. Held' = [Held EXCEPT ![cur] = 0]
  BY <1>1, <1>2 DEF Held, MaxOf, Null, EmptyObject
<1>4. QED
  BY <1>1, <1>3 DEF Promise!Close, Held

(* A step of the whole system is a step of the promise or a stutter.         *)
LEMMA PromiseStep ==
    ASSUME StoreAssumption, DeliveryAssumption, IInv, [DeliveryNext]_vars
    PROVE  [Promise!Next]_Promise!promiseVars
<1> USE DEF IInv, TypeOK, StoreTypeOK
<1>1. CASE Settle(cur) /\ phase \in Turning \cup {"ready"} /\ UNCHANGED <<signed, sent>>
  <2>1. cur \in Live /\ cur \in Event
    BY <1>1 DEF WriteAhead, Live
  <2>2. QED BY <1>1, <2>1, PromiseCloses DEF Promise!Next
<1>2. CASE \E e \in Event : Deliver(e)
  <2>1. PICK e \in Event : Deliver(e)
    BY <1>2
  <2>2. Enqueue(e) /\ outgoing' = outgoing /\ signed' = signed /\ sent' = sent
    BY <2>1 DEF Deliver, Enqueue, wireVars
  <2>3. CASE Inserts(e)
    <3>1. Live' = Live \cup {e} /\ e \notin Live
      BY <2>2, <2>3, EnqueueEffect
    <3>2. Promise!Ask(e)
      BY <2>2, <3>1 DEF Promise!Ask, MaxOf
    <3>3. QED BY <3>2 DEF Promise!Next
  <2>4. CASE ~Inserts(e)
    <3>1. Live' = Live
      BY <2>2, <2>4, EnqueueEffect DEF Live
    <3>2. QED BY <2>2, <3>1, PromiseStutters
  <2>5. QED BY <2>3, <2>4
<1>3. CASE StoreReply
  <2>1. cur \in Live /\ cur \in Event /\ outgoing[cur] = Null
    BY <1>3 DEF StoreReply, WriteAhead, LaneInv, Live, Turning
  <2>2. /\ state' = [state EXCEPT ![cur] = "outbox"]
        /\ outgoing' = [outgoing EXCEPT ![cur] = signed[cur] + 1]
        /\ signed' = [signed EXCEPT ![cur] = signed[cur] + 1] /\ sent' = sent
    BY <1>3 DEF StoreReply, Outbox, wireVars
  <2>3. Live' = Live
    BY <2>1, <2>2 DEF Live
  <2>4. Held' = [Held EXCEPT ![cur] = signed[cur] + 1] /\ Held[cur] = 0
    <3> DEFINE k == signed[cur] + 1
    <3>1. k \in Nat /\ k >= Null
      BY <2>1 DEF Null
    <3>2. MaxOf(Null, k) = k /\ MaxOf(Null, Null) = 0
      BY <3>1 DEF MaxOf, Null
    <3>3. outgoing' = [outgoing EXCEPT ![cur] = k]
      BY <2>2
    <3> HIDE DEF k
    <3>4. Held' = [Held EXCEPT ![cur] = k] /\ Held[cur] = 0
      BY <2>1, <3>2, <3>3 DEF Held
    <3>5. QED BY <3>4 DEF k
  <2>5. Promise!Promise(cur)
    BY <2>1, <2>2, <2>3, <2>4 DEF Promise!Promise, Held
  <2>6. QED BY <2>1, <2>5 DEF Promise!Next
<1>4. CASE Transmit
  <2>1. cur \in Live /\ cur \in Event /\ snapshot = outgoing[cur] /\ snapshot > Null
    BY <1>4 DEF Transmit, WriteAhead, Live, Turning, Publishing
  <2>2. /\ Live' = Live /\ outgoing' = outgoing /\ signed' = signed
        /\ sent' = sent \cup {<<cur, snapshot>>}
    BY <1>4 DEF Transmit, storeVars, ghostVars, Live
  <2>3. Held[cur] = snapshot /\ Held[cur] # 0 /\ Held' = Held
    BY <2>1, <2>2 DEF Held, MaxOf, Null
  <2>4. Promise!Tell(cur)
    BY <2>1, <2>2, <2>3 DEF Promise!Tell, Held
  <2>5. QED BY <2>1, <2>4 DEF Promise!Next
<1>5. CASE TornAbandon
  <2>1. cur \in Live /\ cur \in Event
    BY <1>5 DEF TornAbandon, WriteAhead, Live
  <2>2. /\ outgoing' = [outgoing EXCEPT ![cur] = Null] /\ state' = state
        /\ signed' = signed /\ sent' = sent
    BY <1>5 DEF TornAbandon, ClearReply, LoseProcess
  <2>3. Live' = Live
    BY <2>2 DEF Live
  <2>4. Held' = [Held EXCEPT ![cur] = 0]
    BY <2>1, <2>2 DEF Held, MaxOf, Null, EmptyObject
  <2>5. CASE Held[cur] # 0
    <3>1. Promise!Drop(cur)
      BY <2>1, <2>2, <2>3, <2>4, <2>5 DEF Promise!Drop, Held
    <3>2. QED BY <2>1, <3>1 DEF Promise!Next
  <2>6. CASE Held[cur] = 0
    <3>1. Held' = Held
      BY <2>1, <2>4, <2>6 DEF Held
    <3>2. QED
      BY <2>2, <2>3, <3>1 DEF Promise!promiseVars, Held
  <2>7. QED BY <2>5, <2>6
<1>6. CASE TornNoReply
  <2>1. cur \in Live /\ cur \in Event /\ outgoing[cur] = Null
    BY <1>6 DEF TornNoReply, WriteAhead, LaneInv, Live, Turning
  <2>2. /\ outgoing' = [outgoing EXCEPT ![cur] = EmptyObject]
        /\ state' = [state EXCEPT ![cur] = "outbox"]
        /\ signed' = signed /\ sent' = sent
    BY <1>6 DEF TornNoReply, Outbox, LoseProcess
  <2>3. Live' = Live
    BY <2>1, <2>2 DEF Live
  <2>4. Held' = Held
    BY <2>1, <2>2 DEF Held, MaxOf, Null, EmptyObject
  <2>5. QED
    BY <2>2, <2>3, <2>4 DEF Promise!promiseVars, Held
<1>7. CASE Remove
  <2>1. Live' = {} /\ outgoing' = [e \in Event |-> Null] /\ signed' = signed /\ sent' = sent
    BY <1>7, DeactivateEffect DEF Remove, Deactivate, ghostVars, wireVars
  <2>2. Promise!CloseAll
    BY <2>1 DEF Promise!CloseAll, MaxOf, Null
  <2>3. QED BY <2>2 DEF Promise!Next
<1>8. CASE UNCHANGED <<state, outgoing, signed, sent>>
  BY <1>8, PromiseStutters DEF Live
<1>9. CASE Ready \/ Ignore \/ Confirm
  <2>1. phase \in Turning \cup {"ready"} /\ UNCHANGED <<signed, sent>>
    BY <1>9 DEF Ready, Ignore, Confirm, Turning, ghostVars, wireVars
  <2>2. cur \in Live
    BY <2>1 DEF WriteAhead
  <2>3. CASE Finish(cur)
    BY <1>1, <2>1, <2>2, <2>3 DEF Finish
  <2>4. CASE ~Finish(cur)
    BY <1>8, <1>9, <2>1, <2>4 DEF Ready, Ignore, Confirm, storeVars
  <2>5. QED BY <2>3, <2>4
<1>10. CASE NoReply \/ FailTurn \/ Interrupt
  BY <1>1, <1>10 DEF NoReply, FailTurn, Interrupt, Abandon, Turning, ghostVars, wireVars
<1>11. CASE \/ Start \/ Activate \/ Halt \/ Connect \/ Subscribe \/ Resubscribe \/ Disconnect
            \/ (\E r \in sent : RelayStore(r)) \/ Scan \/ Woken \/ NotReady \/ Admit \/ RelayOk
            \/ UNCHANGED vars
  BY <1>8, <1>11 DEF Start, Activate, SetActive, Halt, LoseProcess, Connect, Subscribe,
     Resubscribe, Disconnect, RelayStore, Scan, Woken, NotReady, Admit, RelayOk, vars,
     storeVars, inboxVars, wireVars, ghostVars
<1>12. QED
  BY <1>2, <1>3, <1>4, <1>5, <1>6, <1>7, <1>9, <1>10, <1>11
     DEF DeliveryNext, LaneStep, TurnStep

(* Store, lane, relay and restarts together implement the promise that the   *)
(* community makes its members (runner.py, store.py).                        *)
THEOREM KeepsPromise == DeliverySpec => ImplementsPromise
<1>1. DeliveryInit => Promise!Init
  BY DEF DeliveryInit, StoreInit, Live, Promise!Init, MaxOf, Null
<1>2. IInv /\ [DeliveryNext]_vars => [Promise!Next]_Promise!promiseVars
  BY PromiseStep, StoreAssumption, DeliveryAssumption
<1>3. QED
  BY <1>1, <1>2, Invariance, PTL DEF DeliverySpec, ImplementsPromise, Promise!Spec

-----------------------------------------------------------------------------
(* What the store remembers                                                  *)

(* ORDER BY ... DESC LIMIT n keeps at most n rows: the number of newer rows  *)
(* tells the rows it keeps apart and is less than n.                         *)
LEMMA NewestBounded ==
    ASSUME NEW rows, IsFiniteSet(rows), NEW before, Arrived(rows, before),
           NEW n \in Nat
    PROVE  /\ IsFiniteSet(Newest(rows, before, n))
           /\ Cardinality(Newest(rows, before, n)) <= n
<1> DEFINE newer(x) == {y \in rows : x \in before[y]}
           kept == Newest(rows, before, n)
           rank == [x \in kept |-> Cardinality(newer(x))]
<1>1. \A x \in rows : IsFiniteSet(newer(x)) /\ Cardinality(newer(x)) \in Nat
  <2> TAKE x \in rows
  <2>1. newer(x) \in SUBSET rows
    OBVIOUS
  <2>2. IsFiniteSet(newer(x))
    BY <2>1, FS_Subset
  <2>3. QED BY <2>2, FS_CardinalityType
<1>2. \A x \in kept : x \in rows /\ Cardinality(newer(x)) < n
  BY DEF Newest
<1>3. rank \in [kept -> 0 .. n - 1]
  <2>1. \A x \in kept : Cardinality(newer(x)) \in 0 .. n - 1
    <3> TAKE x \in kept
    <3> HIDE DEF newer, kept
    <3>1. QED BY <1>1, <1>2
  <2>2. QED BY <2>1
<1>4. ASSUME NEW x \in kept, NEW y \in kept, x \in before[y] PROVE rank[x] # rank[y]
  <2>1. x \in rows /\ y \in rows
    BY <1>2
  <2>2. newer(y) \in SUBSET newer(x)
    BY <2>1, <1>4 DEF Arrived
  <2>3. y \in newer(x) /\ y \notin newer(y)
    BY <2>1, <1>4 DEF Arrived
  <2>4. Cardinality(newer(y)) # Cardinality(newer(x))
    <3> HIDE DEF newer
    <3>1. QED BY <2>1, <2>2, <2>3, <1>1, FS_Subset
  <2>5. QED BY <2>4
<1>5. \A x, y \in kept : rank[x] = rank[y] => x = y
  BY <1>2, <1>4 DEF Arrived
<1>6. rank \in Injection(kept, 0 .. n - 1)
  <2> HIDE DEF rank, kept
  <2>1. QED BY <1>3, <1>5 DEF Injection, IsInjective
<1>7. IsFiniteSet(0 .. n - 1) /\ Cardinality(0 .. n - 1) = n
  BY FS_Interval
<1>8. QED
  <2> HIDE DEF rank
  <2>1. QED BY <1>6, <1>7, FS_Injection

(* An order of rows is one of fewer rows, also when those that went are      *)
(* taken out of it.                                                          *)
LEMMA FewerArrived ==
    ASSUME NEW rows, NEW before, Arrived(rows, before), NEW fewer \in SUBSET rows,
           NEW after,
           \A x \in fewer : \A y \in fewer : y \in after[x] <=> y \in before[x]
    PROVE  Arrived(fewer, after)
BY DEF Arrived

(* A row put behind all others.                                              *)
LEMMA OneMoreArrived ==
    ASSUME NEW rows, NEW before, Arrived(rows, before), NEW e, e \notin rows,
           NEW after, \A y \in rows : y \in after[e], e \notin after[e],
           \A x \in rows : e \notin after[x],
           \A x \in rows : \A y \in rows : y \in after[x] <=> y \in before[x]
    PROVE  Arrived(rows \cup {e}, after)
BY DEF Arrived

(* What a step of the model does to the tables and to the admissions: one of *)
(* the store's transactions or nothing.                                      *)
NoRowMoves ==
    Live' = Live /\ Done' = Done /\ Rows' = Rows
    /\ UNCHANGED <<older, history, staler, admitted>>
RowComes(e) ==
    /\ Enqueue(e) /\ Inserts(e)
    /\ admitted' = [admitted EXCEPT ![e] = @ + 1]
RowSettles ==
    /\ cur \in Live /\ IsNext(cur) /\ Settle(cur) /\ UNCHANGED admitted
    /\ UNCHANGED historyVars \/ \E r \in Nat \cup {EmptyObject} : Record(cur, r)

LEMMA TableSteps ==
    ASSUME IInv, [DeliveryNext]_vars
    PROVE  \/ NoRowMoves
           \/ \E e \in Event : RowComes(e)
           \/ RowSettles
           \/ Deactivate /\ UNCHANGED admitted
<1>1. CASE Ready \/ Ignore \/ Confirm
  <2>1. phase \in Turning \cup {"ready"} /\ admitted' = admitted
    BY <1>1 DEF Ready, Ignore, Confirm, Turning, ghostVars
  <2>2. cur \in Live /\ IsNext(cur) /\ outgoing[cur] \in Nat \cup {EmptyObject}
    BY <2>1 DEF IInv, WriteAhead, LaneInv, TypeOK, StoreTypeOK, Live
  <2>3. CASE Finish(cur)
    BY <2>1, <2>2, <2>3 DEF Finish, RowSettles
  <2>4. CASE ~Finish(cur)
    <3>1. UNCHANGED storeVars
      BY <1>1, <2>4 DEF Ready, Ignore, Confirm
    <3>2. QED BY <2>1, <3>1 DEF storeVars, NoRowMoves, Live, Done, Rows
  <2>5. QED BY <2>3, <2>4
<1>2. CASE NoReply
  <2>1. phase \in Turning /\ admitted' = admitted /\ Settle(cur) /\ Record(cur, EmptyObject)
    BY <1>2 DEF NoReply, Turning, ghostVars
  <2>2. cur \in Live /\ IsNext(cur)
    BY <2>1 DEF IInv, WriteAhead, LaneInv
  <2>3. QED BY <2>1, <2>2 DEF RowSettles
<1>3. CASE FailTurn \/ Interrupt
  <2>1. phase \in Turning /\ admitted' = admitted /\ Settle(cur) /\ UNCHANGED historyVars
    BY <1>3 DEF FailTurn, Interrupt, Abandon, Turning, ghostVars, historyVars
  <2>2. cur \in Live /\ IsNext(cur)
    BY <2>1 DEF IInv, WriteAhead, LaneInv
  <2>3. QED BY <2>1, <2>2 DEF RowSettles
<1>4. ASSUME NEW e \in Event, Deliver(e)
      PROVE  NoRowMoves \/ RowComes(e)
  <2>1. CASE Inserts(e)
    BY <1>4, <2>1 DEF Deliver, RowComes
  <2>2. CASE ~Inserts(e)
    BY <1>4, <2>2 DEF Deliver, Enqueue, NoRowMoves, Live, Done, Rows
  <2>3. QED BY <2>1, <2>2
<1>5. CASE StoreReply \/ TornNoReply
  <2>1. PICK r : Outbox(cur, r)
    BY <1>5 DEF StoreReply, TornNoReply
  <2>2. admitted' = admitted /\ phase = "generate"
    BY <1>5 DEF StoreReply, TornNoReply, LoseProcess
  <2>3. cur \in Live /\ state \in [Event -> RowState]
    BY <2>2 DEF IInv, WriteAhead, Turning, TypeOK, StoreTypeOK
  <2>4. Live' = Live /\ Done' = Done /\ Rows' = Rows
    BY <2>1, <2>3 DEF Outbox, Live, Done, Rows
  <2>5. QED BY <2>1, <2>2, <2>4 DEF Outbox, NoRowMoves
<1>6. CASE TornAbandon \/ Activate
  BY <1>6 DEF TornAbandon, ClearReply, LoseProcess, Activate, SetActive, inboxVars, historyVars,
              ghostVars, NoRowMoves, Live, Done, Rows
<1>7. CASE Remove
  BY <1>7 DEF Remove, ghostVars
<1>8. CASE UNCHANGED <<storeVars, admitted>>
  BY <1>8 DEF storeVars, NoRowMoves, Live, Done, Rows
<1>9. QED
  BY <1>1, <1>2, <1>3, <1>4, <1>5, <1>6, <1>7, <1>8
     DEF DeliveryNext, LaneStep, TurnStep, Start, Halt, LoseProcess, Connect, Subscribe,
         Resubscribe, Disconnect, RelayStore, Scan, Woken, NotReady, Admit, Transmit, RelayOk,
         vars, ghostVars

-----------------------------------------------------------------------------
(* The tables                                                                *)

(* turns[-n:] is an end of turns.                                            *)
LEMMA LastTurnsEnd ==
    ASSUME NEW S, NEW turns \in Seq(S), NEW n \in Nat
    PROVE  \E off \in Nat : /\ off + Len(LastTurns(turns, n)) = Len(turns)
                            /\ \A i \in 1 .. Len(LastTurns(turns, n)) :
                                  LastTurns(turns, n)[i] = turns[off + i]
<1>1. Len(turns) \in Nat
  BY LenProperties
<1>2. CASE Len(turns) <= n
  <2>1. LastTurns(turns, n) = turns
    BY <1>2 DEF LastTurns
  <2>2. /\ 0 \in Nat /\ 0 + Len(LastTurns(turns, n)) = Len(turns)
        /\ \A i \in 1 .. Len(LastTurns(turns, n)) : LastTurns(turns, n)[i] = turns[0 + i]
    BY <1>1, <2>1
  <2>3. QED BY <2>2
<1>3. CASE ~(Len(turns) <= n)
  <2> DEFINE off == Len(turns) - n
             len == Len(turns)
  <2>1. off \in Nat /\ LastTurns(turns, n) = SubSeq(turns, off + 1, len)
    BY <1>1, <1>3 DEF LastTurns
  <2>2. off + 1 \in 1 .. len + 1 /\ len - (off + 1) + 1 = n /\ off + n = len
    BY <1>1, <1>3
  <2>3. \A i \in off + 1 .. len : turns[i] \in S
    BY <1>1, <2>1, ElementOfSeq
  <2>4. len \in Nat
    BY <1>1
  <2> HIDE DEF off, len
  <2>5. /\ Len(SubSeq(turns, off + 1, len)) = n
        /\ \A i \in 1 .. n : SubSeq(turns, off + 1, len)[i] = turns[off + 1 + i - 1]
    BY <2>1, <2>2, <2>3, <2>4, SubSeqProperties
  <2>6. \A i \in 1 .. n : off + 1 + i - 1 = off + i
    BY <2>1
  <2>7. /\ off + Len(LastTurns(turns, n)) = Len(turns)
        /\ \A i \in 1 .. Len(LastTurns(turns, n)) : LastTurns(turns, n)[i] = turns[off + i]
    BY <2>1, <2>2, <2>5, <2>6 DEF len
  <2>8. QED BY <2>1, <2>7
<1>4. QED
  BY <1>2, <1>3

(* finish leaves a conversation's history as it is, prunes it, or appends    *)
(* the exchange and forgets the oldest turns.                                *)
LEMMA RecordHistory ==
    ASSUME StoreTypeOK, NEW e \in Event, NEW r \in Nat \cup {EmptyObject}, Record(e, r)
    PROVE  LET c == ConversationOf[e]
               L == Len(history[c])
           IN  /\ \A d \in Conversation \ {c} : history'[d] = history[d] \/ history'[d] = <<>>
               /\ Len(history'[c]) \in Nat /\ L \in Nat
               /\ \E off \in Nat : \A i \in 1 .. Len(history'[c]) :
                     /\ off + i \in 1 .. L + 2
                     /\ off + i <= L => history'[c][i] = history[c][off + i]
                     /\ off + i = L + 1 => history'[c][i] = UserTurn(e)
                     /\ off + i = L + 2 => history'[c][i] = ReplyTurn(e, r)
<1> DEFINE c == ConversationOf[e]
           L == Len(history[c])
           turns == history[c]
           one == UserTurn(e)
           more == IF r > Null THEN <<ReplyTurn(e, r)>> ELSE <<>>
           m == Len(more)
           n == 2 * HistoryTurns
           last == LastTurns(turns \o <<one>> \o more, n)
           front == turns \o <<one>>
           all == front \o more
           kept == {d \in Conversation : history[d] # <<>>} \cup {c}
           touched == [d \in Conversation |-> IF d = c THEN kept \ {c}
                                              ELSE staler[d] \ {c}]
           newest == Newest(kept, touched, ConversationLimit)
           S == Turn
<1>0. c \in Conversation
  BY StoreAssumption
<1>1. one \in S
  BY DEF Turn, UserTurn, Null
<1>2. turns \in Seq(S) /\ n \in Nat
  BY <1>0, StoreAssumption DEF StoreTypeOK
<1>3. more \in Seq(S) /\ m \in {0, 1} /\ (m = 1 => more[1] = ReplyTurn(e, r))
  <2>1. CASE r > Null
    <3>1. ReplyTurn(e, r) \in Turn
      BY <2>1 DEF Turn, ReplyTurn, Null, EmptyObject
    <3>2. more = <<ReplyTurn(e, r)>>
      BY <2>1
    <3>3. QED BY <3>1, <3>2
  <2>2. CASE ~(r > Null)
    <3>1. more = <<>>
      BY <2>2
    <3>2. QED BY <3>1
  <2>3. QED BY <2>1, <2>2
<1>4. history' = [d \in Conversation |-> IF d \notin newest THEN <<>>
                                         ELSE IF d = c THEN last ELSE history[d]]
  BY DEF Record
<1> HIDE DEF c
<1>5. /\ Len(last) \in Nat /\ L \in Nat
      /\ \E off \in Nat : \A i \in 1 .. Len(last) :
            /\ off + i <= L + 1 + m
            /\ off + i <= L => last[i] = turns[off + i]
            /\ off + i = L + 1 => last[i] = one
            /\ off + i = L + 2 => last[i] = more[1]
  <2>0. L = Len(turns) /\ m = Len(more) /\ m \in {0, 1}
    BY <1>3
  <2> HIDE DEF L, turns, one, more, m, n, last, S, newest
  <2>1. L \in Nat /\ m \in Nat
    BY <1>2, <2>0, LenProperties
  <2>2. /\ front \in Seq(S) /\ Len(front) = L + 1
        /\ \A k \in 1 .. L + 1 : front[k] = IF k <= L THEN turns[k] ELSE one
    <3> DEFINE single == <<one>>
    <3>1. single \in Seq(S) /\ Len(single) = 1 /\ single[1] = one
      BY <1>1
    <3>2. front = turns \o single
      OBVIOUS
    <3> HIDE DEF single, front
    <3>3. /\ front \in Seq(S) /\ Len(front) = Len(turns) + Len(single)
          /\ \A k \in 1 .. Len(turns) + Len(single) :
                front[k] = IF k <= Len(turns) THEN turns[k] ELSE single[k - Len(turns)]
      BY <1>2, <3>1, <3>2, ConcatProperties
    <3>4. /\ front \in Seq(S) /\ Len(front) = L + 1
          /\ \A k \in 1 .. L + 1 : front[k] = IF k <= L THEN turns[k] ELSE single[k - L]
      BY <2>0, <3>1, <3>3
    <3>5. \A k \in 1 .. L + 1 : ~(k <= L) => k - L = 1
      BY <2>1
    <3>6. QED BY <3>1, <3>4, <3>5
  <2> HIDE DEF front
  <2>3. /\ \A k \in 1 .. L + 1 : k <= L => front[k] = turns[k]
        /\ front[L + 1] = one
    <3>1. L + 1 \in 1 .. L + 1 /\ ~(L + 1 <= L)
      BY <2>1
    <3>2. QED BY <2>2, <3>1
  <2>4. /\ all \in Seq(S) /\ Len(all) = L + 1 + m
        /\ \A k \in 1 .. L + 1 + m : all[k] = IF k <= L + 1 THEN front[k] ELSE more[k - (L + 1)]
    <3>1. all = front \o more
      OBVIOUS
    <3> HIDE DEF all
    <3>2. /\ all \in Seq(S) /\ Len(all) = Len(front) + Len(more)
          /\ \A k \in 1 .. Len(front) + Len(more) :
                all[k] = IF k <= Len(front) THEN front[k] ELSE more[k - Len(front)]
      BY <1>3, <2>2, <3>1, ConcatProperties
    <3>3. Len(front) = L + 1 /\ Len(more) = m
      BY <2>0, <2>2
    <3>4. QED BY <3>2, <3>3
  <2> HIDE DEF all
  <2>5. ASSUME NEW k \in 1 .. L + 1 + m
        PROVE  /\ k <= L => all[k] = turns[k]
               /\ k = L + 1 => all[k] = one
               /\ k = L + 2 => all[k] = more[1]
    <3>1. CASE k <= L + 1
      <4>1. k \in 1 .. L + 1 /\ k # L + 2 /\ all[k] = front[k]
        BY <2>1, <2>4, <3>1
      <4>2. QED BY <4>1, <2>3
    <3>2. CASE ~(k <= L + 1)
      <4>1. k - (L + 1) = 1 /\ k # L + 1 /\ ~(k <= L)
        <5>1. k \in Int /\ k <= L + 1 + m
          BY <2>1
        <5>2. m <= 1
          <6>1. CASE m = 0
            BY <6>1
          <6>2. CASE m = 1
            BY <6>2
          <6>3. QED BY <2>0, <6>1, <6>2
        <5>3. QED BY <2>1, <3>2, <5>1, <5>2
      <4>2. all[k] = more[1]
        BY <2>4, <3>2, <4>1
      <4>3. QED BY <4>1, <4>2
    <3>3. QED BY <3>1, <3>2
  <2>6. last = LastTurns(all, n)
    BY DEF all, front, last
  <2>7. last \in Seq(S)
    BY <1>2, <2>4, <2>6, LastTurnsType
  <2>8. Len(last) \in Nat
    BY <2>7, LenProperties
  <2>9. PICK off \in Nat : /\ off + Len(last) = L + 1 + m
                           /\ \A i \in 1 .. Len(last) : last[i] = all[off + i]
    <3>1. all \in Seq(S) /\ Len(all) = L + 1 + m
      BY <2>4
    <3>2. \E off \in Nat : /\ off + Len(LastTurns(all, n)) = Len(all)
                            /\ \A i \in 1 .. Len(LastTurns(all, n)) :
                                  LastTurns(all, n)[i] = all[off + i]
      BY <1>2, <3>1, LastTurnsEnd
    <3>3. QED BY <3>1, <3>2, <2>6
  <2>10. ASSUME NEW i \in 1 .. Len(last)
         PROVE  off + i \in 1 .. L + 1 + m
    <3> DEFINE len == Len(last)
    <3>1. len \in Nat /\ off + len = L + 1 + m /\ i \in 1 .. len
      BY <2>8, <2>9
    <3> HIDE DEF len
    <3>2. QED BY <3>1, <2>1
  <2>11. \A i \in 1 .. Len(last) :
            /\ off + i <= L + 1 + m
            /\ off + i <= L => last[i] = turns[off + i]
            /\ off + i = L + 1 => last[i] = one
            /\ off + i = L + 2 => last[i] = more[1]
    <3> TAKE i \in 1 .. Len(last)
    <3> DEFINE k == off + i
    <3>1. k \in 1 .. L + 1 + m /\ last[i] = all[k]
      BY <2>9, <2>10
    <3>2. k <= L + 1 + m
      BY <3>1, <2>1
    <3> HIDE DEF k
    <3>3. /\ k <= L => last[i] = turns[k]
          /\ k = L + 1 => last[i] = one
          /\ k = L + 2 => last[i] = more[1]
      BY <3>1, <2>5
    <3>4. QED BY <3>2, <3>3 DEF k
  <2>12. QED
    BY <2>1, <2>8, <2>11
<1> HIDE DEF last, newest, more, m, L
<1>6. \A d \in Conversation \ {c} : history'[d] = history[d] \/ history'[d] = <<>>
  BY <1>4
<1>7. CASE c \notin newest
  <2>1. history'[c] = <<>>
    BY <1>0, <1>4, <1>7
  <2>2. Len(history'[c]) = 0
    BY <2>1
  <2>3. \A i \in 1 .. Len(history'[c]) : FALSE
    BY <2>2
  <2>4. 0 \in Nat
    OBVIOUS
  <2>5. QED BY <1>5, <1>6, <2>2, <2>3, <2>4 DEF c, L
<1>8. CASE c \in newest
  <2>1. history'[c] = last
    BY <1>0, <1>4, <1>8
  <2>2. PICK off \in Nat : \A i \in 1 .. Len(last) :
                  /\ off + i <= L + 1 + m
                  /\ off + i <= L => last[i] = history[c][off + i]
                  /\ off + i = L + 1 => last[i] = UserTurn(e)
                  /\ off + i = L + 2 => last[i] = more[1]
    BY <1>5
  <2>3. \A i \in 1 .. Len(last) :
           /\ off + i \in 1 .. L + 2
           /\ off + i <= L => last[i] = history[c][off + i]
           /\ off + i = L + 1 => last[i] = UserTurn(e)
           /\ off + i = L + 2 => last[i] = ReplyTurn(e, r)
    <3> TAKE i \in 1 .. Len(last)
    <3>1. i \in Nat /\ i >= 1 /\ off + i <= L + 1 + m
      BY <1>5, <2>2
    <3>2. m \in Int /\ m <= 1 /\ L \in Nat
      BY <1>3, <1>5
    <3>3. off + i \in 1 .. L + 2
      BY <3>1, <3>2
    <3>4. off + i = L + 2 => m = 1
      BY <3>1, <3>2
    <3>5. QED BY <3>3, <3>4, <1>3, <2>2
  <2>4. QED BY <1>5, <1>6, <2>1, <2>3 DEF c, L
<1>9. QED
  BY <1>7, <1>8 DEF c, L

(* The histories that are kept stay in the order they were touched, within   *)
(* their limit.                                                              *)
LEMMA RecordTables ==
    ASSUME StoreTypeOK, NEW e \in Event, NEW r \in Nat \cup {EmptyObject}, Record(e, r),
           Arrived(Remembered, staler), IsFiniteSet(Remembered)
    PROVE  /\ Arrived(Remembered', staler') /\ IsFiniteSet(Remembered')
           /\ Cardinality(Remembered') <= ConversationLimit
<1> DEFINE c == ConversationOf[e]
           turns == history[c] \o <<UserTurn(e)>>
                      \o (IF r > Null THEN <<ReplyTurn(e, r)>> ELSE <<>>)
           last == LastTurns(turns, 2 * HistoryTurns)
           others == Remembered \ {c}
           kept == {d \in Conversation : history[d] # <<>>} \cup {c}
           touched == [d \in Conversation |-> IF d = c THEN kept \ {c}
                                              ELSE staler[d] \ {c}]
           newest == Newest(kept, touched, ConversationLimit)
<1>1. c \in Conversation /\ ConversationLimit \in Nat /\ kept = others \cup {c}
  BY StoreAssumption DEF Remembered
<1>2. /\ history' = [d \in Conversation |-> IF d \notin newest THEN <<>>
                                         ELSE IF d = c THEN last ELSE history[d]]
      /\ staler' = [d \in Conversation |-> IF d \in newest THEN touched[d] \cap newest ELSE {}]
  BY DEF Record
<1>3. /\ touched[c] = others /\ c \notin others /\ others \subseteq Conversation
      /\ \A d \in others : touched[d] = staler[d] \ {c}
  BY <1>1 DEF Remembered
<1> HIDE DEF c, touched, last
<1>4. Arrived(others, staler)
  BY FewerArrived
<1>5. Arrived(kept, touched)
  <2> HIDE DEF others, kept
  <2>1. \A x \in others : \A y \in others : y \in touched[x] <=> y \in staler[x]
    BY <1>3
  <2>2. /\ c \notin others /\ \A y \in others : y \in touched[c] /\ c \notin touched[c]
        /\ \A x \in others : c \notin touched[x]
    BY <1>3
  <2>3. c \notin touched[c]
    BY <1>3
  <2>4. Arrived(others \cup {c}, touched)
    BY <1>4, <2>1, <2>2, <2>3, OneMoreArrived
  <2>5. QED BY <1>1, <2>4
<1>6. IsFiniteSet(kept)
  <2>1. IsFiniteSet(others)
    BY FS_RemoveElement
  <2>2. QED BY <1>1, <2>1, FS_AddElement
<1> HIDE DEF kept, others
<1>7. /\ IsFiniteSet(newest) /\ Cardinality(newest) <= ConversationLimit
  BY <1>1, <1>5, <1>6, NewestBounded
<1>8. newest \subseteq kept
  BY DEF Newest
<1> HIDE DEF newest
<1>9. Remembered' \in SUBSET newest /\ Remembered' \subseteq Conversation
  BY <1>2 DEF Remembered
<1>10. \A x \in Remembered' : staler'[x] = touched[x] \cap newest
  BY <1>2, <1>9
<1>11. Arrived(Remembered', staler')
  <2>1. Remembered' \in SUBSET kept
    BY <1>8, <1>9
  <2>2. \A x \in Remembered' : \A y \in Remembered' : y \in staler'[x] <=> y \in touched[x]
    BY <1>9, <1>10
  <2>3. QED BY <1>5, <2>1, <2>2, FewerArrived
<1>12. IsFiniteSet(Remembered') /\ Cardinality(Remembered') <= Cardinality(newest)
  BY <1>7, <1>9, FS_Subset
<1>13. QED
  <2>1. Cardinality(Remembered') \in Nat /\ Cardinality(newest) \in Nat
    BY <1>7, <1>12, FS_CardinalityType
  <2>2. QED BY <1>1, <1>7, <1>11, <1>12, <2>1

(* A settled row is finished; finished rows are forgotten oldest first, and  *)
(* nothing else moves in the inbox.                                          *)
LEMMA SettleTables ==
    ASSUME IInv, TableInv, RowSettles
    PROVE  /\ Live' = Live \ {cur} /\ cur \in Live
           /\ Done' \subseteq Done \cup {cur}
           /\ \A f \in Event : older'[f] \subseteq older[f]
           /\ Arrived(Rows', older')
           /\ IsFiniteSet(Live') /\ Cardinality(Live') <= PendingLimit
           /\ IsFiniteSet(Done') /\ Cardinality(Done') <= DedupLimit
           /\ \A e \in Done' : older'[e] \cap Live' = {}
<1> DEFINE finished == Done \cup {cur}
           newest == Newest(finished, older, DedupLimit)
           pruned == finished \ newest
<1>1. /\ cur \in Live /\ cur \in Event /\ Live \cap older[cur] = {} /\ Settle(cur)
      /\ state \in [Event -> RowState] /\ older \in [Event -> SUBSET Event]
      /\ outgoing \in [Event -> Nat \cup {EmptyObject}]
      /\ \A f \in Event : older[f] \subseteq Rows
  BY DEF RowSettles, IsNext, IInv, TypeOK, StoreTypeOK, RowsInv, Live
<1>2. /\ Live' = Live \ {cur}
      /\ \A f \in Event : older'[f] \subseteq older[f]
  BY <1>1, SettleEffect
<1>3. /\ state' = [f \in Event |-> IF f \in pruned THEN "absent"
                                   ELSE IF f = cur THEN "done" ELSE state[f]]
      /\ older' = [f \in Event |-> IF f \in pruned THEN {} ELSE older[f] \ pruned]
  BY <1>1 DEF Settle
<1>4. newest \subseteq finished /\ finished \subseteq Rows
  BY <1>1 DEF Newest, Done, Rows, Live
<1>5. Arrived(finished, older)
  BY <1>4, FewerArrived DEF TableInv
<1>6. IsFiniteSet(finished) /\ DedupLimit \in Nat
  BY FS_AddElement, StoreAssumption DEF TableInv
<1>7. IsFiniteSet(newest) /\ Cardinality(newest) <= DedupLimit
  <2> HIDE DEF finished
  <2>1. QED BY <1>5, <1>6, NewestBounded
<1>8. \A f \in finished : f \in Event /\ (f = cur \/ state[f] = "done")
  BY <1>1 DEF Done
<1>9. finished = Done \cup {cur} /\ pruned = finished \ newest
  OBVIOUS
<1> HIDE DEF finished, newest, pruned
<1>10. Done' = newest
  BY <1>3, <1>4, <1>8, <1>9 DEF Done
<1>11. Rows' = Rows \ pruned
  BY <1>1, <1>3, <1>8, <1>9 DEF Rows, Live
<1>12. Arrived(Rows', older')
  <2>1. Rows' \in SUBSET Rows
    BY <1>11
  <2>2. \A x \in Rows' : \A y \in Rows' : y \in older'[x] <=> y \in older[x]
    BY <1>3, <1>11 DEF Rows
  <2>3. Arrived(Rows, older)
    BY DEF TableInv
  <2>4. QED BY <2>1, <2>2, <2>3, FewerArrived
<1>13. IsFiniteSet(Live') /\ Cardinality(Live') <= PendingLimit
  <2>1. IsFiniteSet(Live) /\ Cardinality(Live) <= PendingLimit
    BY DEF TableInv, Bounded
  <2>2. /\ IsFiniteSet(Live \ {cur})
        /\ Cardinality(Live \ {cur}) = Cardinality(Live) - 1
    BY <1>1, <2>1, FS_RemoveElement
  <2>3. Cardinality(Live) \in Nat /\ PendingLimit \in Nat
    BY <2>1, FS_CardinalityType, StoreAssumption
  <2>4. QED BY <1>2, <2>1, <2>2, <2>3
<1>14. ASSUME NEW e \in Done' PROVE older'[e] \cap Live' = {}
  <2>1. e \in Event /\ older[e] \cap Live = {}
    BY <1>1, <1>4, <1>8, <1>9, <1>10 DEF TableInv
  <2>2. QED BY <1>2, <2>1
<1>15. QED
  BY <1>1, <1>2, <1>4, <1>7, <1>9, <1>10, <1>12, <1>13, <1>14

(* Whatever settles a row, each history keeps an end of what it was and may  *)
(* gain the user turn of that row and then the answer.                       *)
LEMMA HistoryFlow ==
    ASSUME IInv, RowSettles, NEW d \in Conversation
    PROVE  /\ Len(history[d]) \in Nat /\ Len(history'[d]) \in Nat
           /\ \E off \in Nat : \A i \in 1 .. Len(history'[d]) :
                 /\ off + i <= Len(history[d]) => history'[d][i] = history[d][off + i]
                 /\ ~(off + i <= Len(history[d]))
                       => /\ history'[d][i].event = cur
                          /\ history'[d][i].role = "user" => off + i = Len(history[d]) + 1
<1>1. StoreTypeOK /\ cur \in Event
  BY DEF IInv, TypeOK, RowSettles, Live
<1>2. history[d] \in Seq(Turn)
  BY <1>1 DEF StoreTypeOK
<1>3. Len(history[d]) \in Nat
  BY <1>2, LenProperties
<1>4. CASE history'[d] = history[d]
  <2>1. \A i \in 1 .. Len(history[d]) : 0 + i <= Len(history[d]) /\ 0 + i = i
    BY <1>3
  <2>2. QED BY <1>3, <1>4, <2>1
<1>5. CASE history'[d] = <<>>
  <2>1. Len(history'[d]) = 0
    BY <1>5
  <2>2. \A i \in 1 .. Len(history'[d]) : FALSE
    BY <2>1
  <2>3. 0 \in Nat
    OBVIOUS
  <2>4. QED BY <1>3, <2>1, <2>2, <2>3
<1>6. ASSUME NEW r \in Nat \cup {EmptyObject}, Record(cur, r)
      PROVE  \/ history'[d] = history[d] \/ history'[d] = <<>>
             \/ /\ Len(history'[d]) \in Nat
                /\ \E off \in Nat : \A i \in 1 .. Len(history'[d]) :
                      /\ off + i <= Len(history[d]) => history'[d][i] = history[d][off + i]
                      /\ ~(off + i <= Len(history[d]))
                           => /\ history'[d][i].event = cur
                              /\ history'[d][i].role = "user" => off + i = Len(history[d]) + 1
  <2> DEFINE c == ConversationOf[cur]
             L == Len(history[c])
  <2>1. c \in Conversation /\ L = Len(history[c]) /\ c = ConversationOf[cur]
    BY <1>1, StoreAssumption
  <2> HIDE DEF c, L
  <2>2. /\ \A b \in Conversation \ {c} : history'[b] = history[b] \/ history'[b] = <<>>
        /\ Len(history'[c]) \in Nat /\ L \in Nat
        /\ \E off \in Nat : \A i \in 1 .. Len(history'[c]) :
              /\ off + i \in 1 .. L + 2
              /\ off + i <= L => history'[c][i] = history[c][off + i]
              /\ off + i = L + 1 => history'[c][i] = UserTurn(cur)
              /\ off + i = L + 2 => history'[c][i] = ReplyTurn(cur, r)
    BY <1>1, <1>6, RecordHistory DEF c, L
  <2>3. CASE d # c
    BY <2>2, <2>3
  <2>4. CASE d = c
    <3>1. PICK off \in Nat : \A i \in 1 .. Len(history'[c]) :
              /\ off + i \in 1 .. L + 2
              /\ off + i <= L => history'[c][i] = history[c][off + i]
              /\ off + i = L + 1 => history'[c][i] = UserTurn(cur)
              /\ off + i = L + 2 => history'[c][i] = ReplyTurn(cur, r)
      BY <2>2
    <3>2. ASSUME NEW i \in 1 .. Len(history'[c]), ~(off + i <= L)
          PROVE  /\ history'[c][i].event = cur
                 /\ history'[c][i].role = "user" => off + i = L + 1
      <4>1. off + i = L + 1 \/ off + i = L + 2
        BY <2>2, <3>1, <3>2
      <4>2. CASE off + i = L + 1
        BY <3>1, <4>2 DEF UserTurn
      <4>3. CASE off + i = L + 2
        BY <3>1, <4>3 DEF ReplyTurn
      <4>4. QED BY <4>1, <4>2, <4>3
    <3>3. \A i \in 1 .. Len(history'[c]) :
              /\ off + i <= L => history'[c][i] = history[c][off + i]
              /\ ~(off + i <= L)
                    => /\ history'[c][i].event = cur
                       /\ history'[c][i].role = "user" => off + i = L + 1
      BY <3>1, <3>2
    <3>4. QED BY <2>1, <2>2, <2>4, <3>3
  <2>5. QED BY <2>3, <2>4
<1>7. CASE UNCHANGED historyVars
  BY <1>4, <1>7 DEF historyVars
<1>8. QED
  BY <1>4, <1>5, <1>6, <1>7, <1>3 DEF RowSettles

-----------------------------------------------------------------------------
(* The invariant of what is remembered is inductive                          *)

(* The entries of one message are finitely many places of its history.       *)
LEMMA RecordedFinite ==
    ASSUME StoreTypeOK, NEW e \in Event
    PROVE  IsFiniteSet(Recorded(e)) /\ Cardinality(Recorded(e)) \in Nat
<1> DEFINE len == Len(history[ConversationOf[e]])
<1>1. history[ConversationOf[e]] \in Seq(Turn)
  BY StoreAssumption DEF StoreTypeOK
<1>2. len \in Nat
  BY <1>1, LenProperties
<1>3. Recorded(e) \in SUBSET (1 .. len)
  BY DEF Recorded
<1> HIDE DEF len
<1>4. IsFiniteSet(1 .. len)
  BY <1>2, FS_Interval
<1>5. IsFiniteSet(Recorded(e))
  BY <1>3, <1>4, FS_Subset
<1>6. QED
  BY <1>5, FS_CardinalityType

LEMMA RecordedFinitePrime ==
    ASSUME StoreTypeOK', NEW e \in Event
    PROVE  IsFiniteSet(Recorded(e)') /\ Cardinality(Recorded(e)') \in Nat
<1> DEFINE len == Len(history'[ConversationOf[e]])
<1>1. history'[ConversationOf[e]] \in Seq(Turn)
  BY StoreAssumption DEF StoreTypeOK
<1>2. len \in Nat
  BY <1>1, LenProperties
<1>3. Recorded(e)' \in SUBSET (1 .. len)
  BY DEF Recorded
<1> HIDE DEF len
<1>4. IsFiniteSet(1 .. len)
  BY <1>2, FS_Interval
<1>5. IsFiniteSet(Recorded(e)')
  BY <1>3, <1>4, FS_Subset
<1>6. QED
  BY <1>5, FS_CardinalityType

(* Settling a row records it at most once more and no other message.         *)
LEMMA RecordedSettles ==
    ASSUME IInv, IInv', RowSettles, NEW e \in Event
    PROVE  Cardinality(Recorded(e)')
              <= Cardinality(Recorded(e)) + IF e = cur THEN 1 ELSE 0
<1> DEFINE d == ConversationOf[e]
           L == Len(history[d])
           extra == IF e = cur THEN {L + 1} ELSE {}
           before == Recorded(e)
           after == Recorded(e)'
<1>1. d \in Conversation
  BY StoreAssumption
<1>2. IsFiniteSet(before) /\ Cardinality(before) \in Nat
  BY RecordedFinite DEF IInv, TypeOK
<1>3. /\ before = {i \in 1 .. L : history[d][i] = UserTurn(e)}
      /\ after = {i \in 1 .. Len(history'[d]) : history'[d][i] = UserTurn(e)}
  BY DEF Recorded
<1>4. /\ L \in Nat /\ Len(history'[d]) \in Nat
      /\ \E off \in Nat : \A i \in 1 .. Len(history'[d]) :
            /\ off + i <= L => history'[d][i] = history[d][off + i]
            /\ ~(off + i <= L)
                  => /\ history'[d][i].event = cur
                     /\ history'[d][i].role = "user" => off + i = L + 1
  BY <1>1, HistoryFlow
<1>5. PICK off \in Nat : \A i \in 1 .. Len(history'[d]) :
            /\ off + i <= L => history'[d][i] = history[d][off + i]
            /\ ~(off + i <= L)
                  => /\ history'[d][i].event = cur
                     /\ history'[d][i].role = "user" => off + i = L + 1
  BY <1>4
<1>6. extra = (IF e = cur THEN {L + 1} ELSE {})
  OBVIOUS
<1> HIDE DEF d, L, extra, before, after
<1>7. ASSUME NEW i \in after
      PROVE  i \in Nat /\ off + i \in before \cup extra
  <2>1. i \in 1 .. Len(history'[d]) /\ history'[d][i] = UserTurn(e)
    BY <1>3
  <2>2. i \in Nat /\ i >= 1
    BY <2>1, <1>4
  <2>3. CASE off + i <= L
    <3>1. off + i \in 1 .. L
      BY <2>2, <2>3, <1>4
    <3>2. QED BY <2>1, <2>2, <2>3, <3>1, <1>3, <1>5
  <2>4. CASE ~(off + i <= L)
    <3>1. UserTurn(e).event = e /\ UserTurn(e).role = "user"
      BY DEF UserTurn
    <3>2. e = cur /\ off + i = L + 1
      BY <2>1, <2>4, <3>1, <1>5
    <3>3. QED BY <2>2, <3>2, <1>6
  <2>5. QED BY <2>3, <2>4
<1> DEFINE shift == [i \in after |-> off + i]
<1>8. shift \in Injection(after, before \cup extra)
  <2>1. shift \in [after -> before \cup extra]
    BY <1>7
  <2>2. \A i, j \in after : shift[i] = shift[j] => i = j
    BY <1>7
  <2> HIDE DEF shift
  <2>3. QED BY <2>1, <2>2 DEF Injection, IsInjective
<1>9. /\ IsFiniteSet(before \cup extra)
      /\ Cardinality(before \cup extra) <= Cardinality(before) + IF e = cur THEN 1 ELSE 0
  <2>1. CASE e = cur
    <3>1. extra = {L + 1}
      BY <1>6, <2>1
    <3>2. /\ IsFiniteSet(before \cup {L + 1})
          /\ Cardinality(before \cup {L + 1}) \in {Cardinality(before), Cardinality(before) + 1}
      BY <1>2, FS_AddElement
    <3>3. (IF e = cur THEN 1 ELSE 0) = 1
      BY <2>1
    <3>4. Cardinality(before \cup extra) <= Cardinality(before) + 1
      BY <1>2, <3>1, <3>2
    <3>5. QED BY <3>1, <3>2, <3>3, <3>4
  <2>2. CASE e # cur
    <3>1. before \cup extra = before
      BY <1>6, <2>2
    <3>2. (IF e = cur THEN 1 ELSE 0) = 0 /\ Cardinality(before) <= Cardinality(before) + 0
      BY <1>2, <2>2
    <3>3. QED BY <1>2, <3>1, <3>2
  <2>3. QED BY <2>1, <2>2
<1> HIDE DEF shift
<1>10. Cardinality(after) <= Cardinality(before \cup extra) /\ IsFiniteSet(after)
  BY <1>8, <1>9, FS_Injection
<1>11. Cardinality(after) \in Nat /\ Cardinality(before \cup extra) \in Nat
  BY <1>9, <1>10, FS_CardinalityType
<1>12. Cardinality(after) <= Cardinality(before) + IF e = cur THEN 1 ELSE 0
  BY <1>2, <1>9, <1>10, <1>11
<1>13. QED
  BY <1>12 DEF before, after

(* Nothing is remembered when the database is new.                           *)
LEMMA InitMemory ==
    ASSUME DeliveryInit
    PROVE  MemoryInv
<1>1. Live = {} /\ Done = {} /\ Rows = {} /\ Remembered = {}
  BY DEF DeliveryInit, StoreInit, Live, Done, Rows, Remembered
<1>2. IsFiniteSet({}) /\ Cardinality({}) = 0
  BY FS_EmptySet
<1>3. TableInv
  <2>1. Arrived(Rows, older) /\ Arrived(Remembered, staler)
    BY <1>1 DEF Arrived
  <2>2. Bounded
    <3>1. {c \in Conversation : history[c] # <<>>} = {}
      BY <1>1 DEF Remembered
    <3>2. 0 <= PendingLimit /\ 0 <= DedupLimit /\ 0 <= ConversationLimit
      BY StoreAssumption
    <3>3. QED BY <1>1, <1>2, <3>1, <3>2 DEF Bounded
  <2>3. QED BY <1>1, <1>2, <2>1, <2>2 DEF TableInv
<1>4. \A c \in Conversation : \A i \in 1 .. Len(history[c]) : FALSE
  <2> TAKE c \in Conversation
  <2>1. history[c] = <<>>
    BY DEF DeliveryInit, StoreInit
  <2>2. QED BY <2>1
<1>5. LedgerInv
  <2>1. \A e \in Event : Recorded(e) = {}
    BY <1>4, StoreAssumption DEF Recorded
  <2>2. \A e \in Event : admitted[e] = 0
    BY DEF DeliveryInit
  <2>3. \A e \in Event :
           Cardinality(Recorded(e)) + (IF e \in Live THEN 1 ELSE 0) <= admitted[e]
    BY <1>1, <1>2, <2>1, <2>2
  <2>4. QED BY <1>4, <2>3 DEF LedgerInv
<1>6. HistoryOrdered
  BY <1>4 DEF HistoryOrdered
<1>7. QED
  BY <1>3, <1>5, <1>6 DEF MemoryInv

(* A message that comes in is the youngest row and owes at most one entry.   *)
LEMMA RowComesMemory ==
    ASSUME IInv, MemoryInv, NEW e \in Event, RowComes(e)
    PROVE  MemoryInv'
<1>1. /\ Live' = Live \cup {e} /\ e \notin Live
      /\ state' = [state EXCEPT ![e] = "pending"]
      /\ older' = [older EXCEPT ![e] = Rows]
      /\ Rows' = Rows \cup {e} /\ e \notin Rows
      /\ ~Full
  BY StoreAssumption, EnqueueEffect DEF RowComes, IInv, TypeOK, Inserts
<1>2. /\ history' = history /\ staler' = staler
      /\ admitted' = [admitted EXCEPT ![e] = @ + 1]
  BY DEF RowComes, Enqueue
<1>3. /\ older \in [Event -> SUBSET Event] /\ state \in [Event -> RowState]
      /\ admitted \in [Event -> Nat] /\ \A f \in Event : older[f] \subseteq Rows
  BY DEF IInv, TypeOK, StoreTypeOK, RowsInv
<1>4. Done' = Done /\ e \notin Done
  BY <1>1, <1>3 DEF Done, Rows
<1>5. \A f \in Event \ {e} : older'[f] = older[f] /\ admitted'[f] = admitted[f]
  BY <1>1, <1>2, <1>3
<1>6. older'[e] = Rows /\ admitted'[e] = admitted[e] + 1
  BY <1>1, <1>2, <1>3
<1>7. TableInv'
  <2>1. Arrived(Rows', older')
    <3>1. Arrived(Rows, older) /\ Rows \subseteq Event
      BY DEF MemoryInv, TableInv, Rows
    <3>2. /\ \A y \in Rows : y \in older'[e]
          /\ e \notin older'[e]
          /\ \A x \in Rows : e \notin older'[x]
          /\ \A x \in Rows : \A y \in Rows : y \in older'[x] <=> y \in older[x]
      BY <1>1, <1>3, <1>5, <1>6, <3>1
    <3>3. Arrived(Rows \cup {e}, older')
      BY <1>1, <3>1, <3>2, OneMoreArrived
    <3>4. QED BY <1>1, <3>3
  <2>2. Remembered' = Remembered
    BY <1>2 DEF Remembered
  <2>3. IsFiniteSet(Live') /\ Cardinality(Live') <= PendingLimit
    <3>1. IsFiniteSet(Live) /\ Cardinality(Live) \in Nat
      BY FS_CardinalityType DEF MemoryInv, TableInv
    <3>2. IsFiniteSet(Live \cup {e}) /\ Cardinality(Live \cup {e}) = Cardinality(Live) + 1
      BY <1>1, <3>1, FS_AddElement
    <3>3. QED BY <1>1, <3>1, <3>2, StoreAssumption DEF Full
  <2>4. \A f \in Done : older'[f] \cap Live' = {}
    BY <1>1, <1>3, <1>4, <1>5 DEF MemoryInv, TableInv, Done
  <2>5. Bounded'
    BY <2>3, <2>2, <1>4 DEF MemoryInv, TableInv, Bounded, Remembered
  <2>6. QED BY <1>2, <1>4, <2>1, <2>2, <2>3, <2>4, <2>5 DEF MemoryInv, TableInv
<1>8. LedgerInv'
  <2>1. ASSUME NEW f \in Event
        PROVE  /\ Cardinality(Recorded(f)') + (IF f \in Live' THEN 1 ELSE 0) <= admitted'[f]
               /\ \A c \in Conversation : \A i \in 1 .. Len(history'[c]) :
                     history'[c][i].event = f => admitted'[f] >= IF f \in Live' THEN 2 ELSE 1
    <3>1. Recorded(f)' = Recorded(f)
      BY <1>2 DEF Recorded
    <3>2. Cardinality(Recorded(f)) \in Nat /\ admitted[f] \in Nat
      BY <1>3, RecordedFinite DEF IInv, TypeOK
    <3>3. /\ Cardinality(Recorded(f)) + (IF f \in Live THEN 1 ELSE 0) <= admitted[f]
          /\ \A c \in Conversation : \A i \in 1 .. Len(history[c]) :
                history[c][i].event = f => admitted[f] >= IF f \in Live THEN 2 ELSE 1
      BY DEF MemoryInv, LedgerInv
    <3>4. CASE f = e
      <4>1. f \notin Live /\ f \in Live' /\ admitted'[f] = admitted[f] + 1
        BY <1>1, <1>6, <3>4
      <4>2. QED BY <1>2, <3>1, <3>2, <3>3, <4>1
    <3>5. CASE f # e
      <4>1. (f \in Live' <=> f \in Live) /\ admitted'[f] = admitted[f]
        BY <1>1, <1>5, <3>5
      <4>2. QED BY <1>2, <3>1, <3>2, <3>3, <4>1
    <3>6. QED BY <3>4, <3>5
  <2>2. QED BY <2>1 DEF LedgerInv
<1>9. HistoryOrdered'
  <2>1. Done \subseteq Event \ {e}
    BY <1>4 DEF Done
  <2>2. QED BY <1>2, <1>4, <1>5, <2>1 DEF MemoryInv, HistoryOrdered
<1>10. QED
  BY <1>7, <1>8, <1>9 DEF MemoryInv

(* A message that is settled turns what it was owed into its entry, behind   *)
(* those of every message that arrived before it.                            *)
LEMMA SettlesMemory ==
    ASSUME IInv, IInv', MemoryInv, RowSettles
    PROVE  MemoryInv'
<1>1. /\ Live' = Live \ {cur} /\ cur \in Live
      /\ Done' \subseteq Done \cup {cur}
      /\ \A f \in Event : older'[f] \subseteq older[f]
      /\ Arrived(Rows', older')
      /\ IsFiniteSet(Live') /\ Cardinality(Live') <= PendingLimit
      /\ IsFiniteSet(Done') /\ Cardinality(Done') <= DedupLimit
      /\ \A e \in Done' : older'[e] \cap Live' = {}
  BY SettleTables DEF MemoryInv
<1>2. admitted' = admitted /\ admitted \in [Event -> Nat]
  BY DEF RowSettles, IInv, TypeOK
<1>3. cur \in Event
  BY <1>1 DEF Live
<1>4. /\ Arrived(Remembered', staler') /\ IsFiniteSet(Remembered')
      /\ Cardinality(Remembered') <= ConversationLimit
  <2>1. CASE UNCHANGED historyVars
    <3>1. Remembered' = Remembered /\ staler' = staler
      BY <2>1 DEF historyVars, Remembered
    <3>2. /\ Arrived(Remembered, staler) /\ IsFiniteSet(Remembered)
          /\ Cardinality(Remembered) <= ConversationLimit
      BY DEF MemoryInv, TableInv, Bounded, Remembered
    <3>3. QED BY <3>1, <3>2
  <2>2. ASSUME NEW r \in Nat \cup {EmptyObject}, Record(cur, r)
        PROVE  /\ Arrived(Remembered', staler') /\ IsFiniteSet(Remembered')
               /\ Cardinality(Remembered') <= ConversationLimit
    BY <1>3, <2>2, RecordTables DEF MemoryInv, TableInv, IInv, TypeOK
  <2>3. QED BY <2>1, <2>2 DEF RowSettles
<1>5. TableInv'
  <2>1. Bounded'
    BY <1>1, <1>4 DEF Bounded, Remembered
  <2>2. QED BY <1>1, <1>4, <2>1 DEF TableInv
<1>6. ASSUME NEW e \in Event
      PROVE  /\ Cardinality(Recorded(e)) \in Nat
             /\ Cardinality(Recorded(e)) + (IF e \in Live THEN 1 ELSE 0) <= admitted[e]
             /\ \A c \in Conversation : \A i \in 1 .. Len(history[c]) :
                   history[c][i].event = e => admitted[e] >= IF e \in Live THEN 2 ELSE 1
  BY RecordedFinite DEF MemoryInv, LedgerInv, IInv, TypeOK
<1>7. ASSUME NEW e \in Event
      PROVE  Cardinality(Recorded(e)') + (IF e \in Live' THEN 1 ELSE 0) <= admitted'[e]
  <2>1. /\ Cardinality(Recorded(e)') <= Cardinality(Recorded(e)) + IF e = cur THEN 1 ELSE 0
        /\ Cardinality(Recorded(e)') \in Nat
    <3>1. IsFiniteSet(Recorded(e)') /\ Cardinality(Recorded(e)') \in Nat
      BY RecordedFinitePrime DEF IInv, TypeOK
    <3>2. QED BY <3>1, RecordedSettles
  <2>2. CASE e = cur
    <3>1. e \in Live /\ e \notin Live' /\ admitted'[e] = admitted[e] /\ admitted[e] \in Nat
      BY <1>1, <1>2, <2>2
    <3>2. Cardinality(Recorded(e)) + 1 <= admitted[e] /\ Cardinality(Recorded(e)) \in Nat
      BY <1>6, <3>1
    <3>3. Cardinality(Recorded(e)') <= Cardinality(Recorded(e)) + 1
      BY <2>1, <2>2
    <3>4. QED BY <2>1, <3>1, <3>2, <3>3
  <2>3. CASE e # cur
    <3>1. (e \in Live <=> e \in Live') /\ admitted'[e] = admitted[e] /\ admitted[e] \in Nat
      BY <1>1, <1>2, <2>3
    <3>2. Cardinality(Recorded(e)') <= Cardinality(Recorded(e)) + 0
      BY <2>1, <2>3
    <3>3. CASE e \in Live
      BY <1>6, <2>1, <3>1, <3>2, <3>3
    <3>4. CASE e \notin Live
      BY <1>6, <2>1, <3>1, <3>2, <3>4
    <3>5. QED BY <3>3, <3>4
  <2>4. QED BY <2>2, <2>3
<1>8. ASSUME NEW c \in Conversation, NEW i \in 1 .. Len(history'[c]), NEW e \in Event,
             history'[c][i].event = e
      PROVE  admitted'[e] >= IF e \in Live' THEN 2 ELSE 1
  <2>1. /\ Len(history[c]) \in Nat /\ Len(history'[c]) \in Nat
        /\ \E off \in Nat : \A k \in 1 .. Len(history'[c]) :
              /\ off + k <= Len(history[c]) => history'[c][k] = history[c][off + k]
              /\ ~(off + k <= Len(history[c])) => history'[c][k].event = cur
    BY HistoryFlow
  <2>2. PICK off \in Nat :
           /\ off + i <= Len(history[c]) => history'[c][i] = history[c][off + i]
           /\ ~(off + i <= Len(history[c])) => history'[c][i].event = cur
    BY <2>1
  <2>3. CASE off + i <= Len(history[c])
    <3>1. off + i \in 1 .. Len(history[c])
      BY <2>1, <2>3
    <3>2. admitted[e] >= IF e \in Live THEN 2 ELSE 1
      BY <1>6, <1>8, <2>2, <2>3, <3>1
    <3>3. (e \in Live' => e \in Live) /\ admitted'[e] = admitted[e] /\ admitted[e] \in Nat
      BY <1>1, <1>2
    <3>4. QED BY <3>2, <3>3
  <2>4. CASE ~(off + i <= Len(history[c]))
    <3>1. e = cur /\ e \in Live /\ e \notin Live' /\ admitted'[e] = admitted[e]
      BY <1>1, <1>2, <1>8, <2>2, <2>4
    <3>2. Cardinality(Recorded(e)) + 1 <= admitted[e] /\ Cardinality(Recorded(e)) \in Nat
      BY <1>6, <3>1
    <3>3. admitted[e] >= 1 /\ admitted[e] \in Nat
      BY <1>2, <3>2
    <3>4. QED BY <3>1, <3>3
  <2>5. QED BY <2>3, <2>4
<1>9. LedgerInv'
  BY <1>7, <1>8 DEF LedgerInv
<1>10. ASSUME NEW c \in Conversation,
              NEW i \in 1 .. Len(history'[c]), NEW j \in 1 .. Len(history'[c]),
              NEW e, e = history'[c][i].event, NEW f, f = history'[c][j].event,
              i < j, e \in Done', f \in Done', admitted'[e] = 1, admitted'[f] = 1
       PROVE  f \notin older'[e]
  <2>1. e \in Event /\ f \in Event /\ older'[e] \subseteq older[e]
    BY <1>1, <1>10 DEF Done
  <2>2. PICK off \in Nat : \A k \in 1 .. Len(history'[c]) :
           /\ off + k <= Len(history[c]) => history'[c][k] = history[c][off + k]
           /\ ~(off + k <= Len(history[c])) => history'[c][k].event = cur
    BY HistoryFlow
  <2>3. Len(history[c]) \in Nat /\ Len(history'[c]) \in Nat
    BY HistoryFlow
  <2>4. CASE e = f
    <3>1. e \in Rows'
      BY <1>10, <2>1 DEF Done, Rows
    <3>2. QED BY <1>1, <2>4, <3>1 DEF Arrived
  <2>5. CASE e # f /\ ~(off + j <= Len(history[c]))
    <3>1. f = cur
      BY <1>10, <2>2, <2>5
    <3>2. e \in Done
      BY <1>1, <1>10, <2>5, <3>1
    <3>3. older[e] \cap Live = {}
      BY <3>2 DEF MemoryInv, TableInv
    <3>4. QED BY <1>1, <2>1, <3>1, <3>3
  <2>6. CASE e # f /\ off + j <= Len(history[c])
    <3>1. /\ off + i \in 1 .. Len(history[c]) /\ off + j \in 1 .. Len(history[c])
          /\ off + i < off + j
      BY <1>10, <2>3, <2>6
    <3>2. e = history[c][off + i].event /\ f = history[c][off + j].event
      BY <1>10, <2>2, <3>1, <2>3
    <3>3. ASSUME NEW g \in {e, f} PROVE g # cur
      <4>1. SUFFICES ASSUME g = cur PROVE FALSE
        OBVIOUS
      <4>2. admitted[g] >= 2
        BY <1>1, <1>6, <2>1, <3>1, <3>2, <4>1
      <4>3. QED BY <1>2, <1>10, <2>1, <4>2
    <3>4. e \in Done /\ f \in Done
      BY <1>1, <1>10, <3>3
    <3>5. f \notin older[e]
      BY <1>2, <1>10, <3>1, <3>2, <3>4 DEF MemoryInv, HistoryOrdered
    <3>6. QED BY <2>1, <3>5
  <2>7. QED BY <2>4, <2>5, <2>6
<1>11. HistoryOrdered'
  BY <1>10 DEF HistoryOrdered
<1>12. QED
  BY <1>5, <1>9, <1>11 DEF MemoryInv

(* A removed community leaves nothing to remember.                           *)
LEMMA RemovedMemory ==
    ASSUME IInv, IInv', MemoryInv, Deactivate, UNCHANGED admitted
    PROVE  MemoryInv'
<1>1. Live' = {} /\ Done' = {} /\ Rows' = {} /\ Remembered' = {}
  BY DEF Deactivate, Live, Done, Rows, Remembered
<1>2. IsFiniteSet({}) /\ Cardinality({}) = 0
  BY FS_EmptySet
<1>3. TableInv'
  <2>1. Arrived(Rows', older') /\ Arrived(Remembered', staler')
    BY <1>1 DEF Arrived
  <2>2. Bounded'
    <3>1. {c \in Conversation : history'[c] # <<>>} = {}
      BY <1>1 DEF Remembered
    <3>2. 0 <= PendingLimit /\ 0 <= DedupLimit /\ 0 <= ConversationLimit
      BY StoreAssumption
    <3>3. QED BY <1>1, <1>2, <3>1, <3>2 DEF Bounded
  <2>3. QED BY <1>1, <1>2, <2>1, <2>2 DEF TableInv
<1>4. \A c \in Conversation : \A i \in 1 .. Len(history'[c]) : FALSE
  <2> TAKE c \in Conversation
  <2>1. history'[c] = <<>>
    BY DEF Deactivate
  <2>2. QED BY <2>1
<1>5. LedgerInv'
  <2>1. \A e \in Event : Recorded(e)' = {}
    BY <1>4, StoreAssumption DEF Recorded
  <2>2. \A e \in Event : admitted'[e] \in Nat
    BY DEF IInv, TypeOK
  <2>3. \A e \in Event :
           Cardinality(Recorded(e)') + (IF e \in Live' THEN 1 ELSE 0) <= admitted'[e]
    BY <1>1, <1>2, <2>1, <2>2
  <2>4. QED BY <1>4, <2>3 DEF LedgerInv
<1>6. HistoryOrdered'
  BY <1>4 DEF HistoryOrdered
<1>7. QED
  BY <1>3, <1>5, <1>6 DEF MemoryInv

(* Every step keeps the invariant.                                           *)
LEMMA NextMemory ==
    ASSUME IInv, IInv', MemoryInv, [DeliveryNext]_vars
    PROVE  MemoryInv'
<1>1. CASE NoRowMoves
  <2>1. /\ Live' = Live /\ Done' = Done /\ Rows' = Rows
        /\ older' = older /\ history' = history /\ staler' = staler /\ admitted' = admitted
    BY <1>1 DEF NoRowMoves
  <2>2. Remembered' = Remembered
    BY <2>1 DEF Remembered
  <2>3. TableInv'
    BY <2>1, <2>2 DEF MemoryInv, TableInv, Bounded, Remembered
  <2>4. LedgerInv'
    BY <2>1 DEF MemoryInv, LedgerInv, Recorded
  <2>5. HistoryOrdered'
    BY <2>1 DEF MemoryInv, HistoryOrdered
  <2>6. QED BY <2>3, <2>4, <2>5 DEF MemoryInv
<1>2. ASSUME NEW e \in Event, RowComes(e) PROVE MemoryInv'
  BY <1>2, RowComesMemory
<1>3. CASE RowSettles
  BY <1>3, SettlesMemory
<1>4. CASE Deactivate /\ UNCHANGED admitted
  BY <1>4, RemovedMemory
<1>5. QED
  BY <1>1, <1>2, <1>3, <1>4, TableSteps

(* The whole account of what the store remembers holds of every reachable    *)
(* state: the inbox and the histories are ordered and limited, and each      *)
(* admission is either still due or spent on one entry.                      *)
THEOREM MemoryInvariance == DeliverySpec => []MemoryInv
<1>1. DeliveryInit => MemoryInv
  BY InitMemory
<1>2. IInv /\ IInv' /\ MemoryInv /\ [DeliveryNext]_vars => MemoryInv'
  BY NextMemory
<1>3. QED
  BY <1>1, <1>2, Invariance, PTL DEF DeliverySpec

(* RecordedOnce: however often a crash repeats the turn of a message, the    *)
(* history finish writes (store.py) holds it once per admission.             *)
THEOREM TurnsRecordedOnce == DeliverySpec => []RecordedOnce
<1>1. IInv /\ MemoryInv => RecordedOnce
  <2> SUFFICES ASSUME IInv, MemoryInv, NEW e \in Event
               PROVE  Cardinality({i \in 1..Len(history[ConversationOf[e]]) :
                                history[ConversationOf[e]][i] = UserTurn(e)}) <= admitted[e]
    BY DEF RecordedOnce
  <2>1. /\ Cardinality(Recorded(e)) \in Nat /\ admitted[e] \in Nat
        /\ Cardinality(Recorded(e)) + (IF e \in Live THEN 1 ELSE 0) <= admitted[e]
    BY RecordedFinite DEF IInv, TypeOK, MemoryInv, LedgerInv
  <2>2. Cardinality(Recorded(e)) <= admitted[e]
    BY <2>1
  <2>3. QED BY <2>2 DEF Recorded
<1>2. QED
  BY <1>1, Invariance, MemoryInvariance, PTL

(* HistoryOrdered: the lane that next_event keeps serial writes turns in the *)
(* order in which their messages arrived.                                    *)
THEOREM HistoryInOrder == DeliverySpec => []HistoryOrdered
<1>1. MemoryInv => HistoryOrdered
  BY DEF MemoryInv
<1>2. QED
  BY <1>1, MemoryInvariance, PTL

(* Bounded: enqueue refuses beyond the pending limit and finish prunes the   *)
(* finished rows and the histories to theirs.                                *)
THEOREM StoreBounded == DeliverySpec => []Bounded
<1>1. MemoryInv => Bounded
  BY DEF MemoryInv, TableInv
<1>2. QED
  BY <1>1, MemoryInvariance, PTL
=============================================================================
