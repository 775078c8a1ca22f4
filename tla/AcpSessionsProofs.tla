-------------------------- MODULE AcpSessionsProofs --------------------------
(* Proofs about AcpSessions, for any sessions, prompts, connections, number  *)
(* of slots and length of a history: who was cancelled says so, a turn sees  *)
(* the whole conversation, slots are kept and nothing is left behind.        *)
EXTENDS AcpSessions, SequenceTheorems, FiniteSetTheorems, TLAPS

Holders == {p \in Prompt : pc[p] \in Holding}

-----------------------------------------------------------------------------
(* The inductive invariant in parts                                          *)

PromptInv(p) ==
    /\ pc[p] = "unsent" => ~doomed[p] /\ ~asked[p]
    /\ asked[p] => doomed[p] /\ pc[p] \in AtWork \cup {"done"}
    /\ answer[p] # "none" <=> pc[p] = "done"
    /\ pc[p] \in AtWork => (asked[p] <=> cancelled[of[p]])
    /\ pc[p] \in AtWork \cup {"unsent"} \/ asked[p] => Unrecorded(p)
    /\ answer[p] = "cancelled" => asked[p]
    /\ asked[p] => answer[p] \in {"none", "cancelled"}
    /\ pc[p] = "run" => seen[p] = history[of[p]]

SessionInv(s) ==
    /\ home[s] = NoConn <=> s \notin open \cup closed /\ awaited[s] = NoPrompt
    /\ s \notin open \cap closed
    /\ s \notin open /\ task[s] # NoPrompt => awaited[s] = task[s] /\ doomed[task[s]]
    /\ awaited[s] # NoPrompt => s \notin open \cup closed /\ of[awaited[s]] = s
    /\ home[s] \in Conn /\ link[home[s]] = "down" => s \in closed

SlotInv == IsFiniteSet(Holders) /\ free + Cardinality(Holders) = MaxSessions

LEMMA Parts ==
    ASSUME IInv
    PROVE  /\ TypeOK /\ TaskInv /\ SlotInv
           /\ \A p \in Prompt : PromptInv(p)
           /\ \A s \in Session : SessionInv(s)
<1>1. TypeOK /\ TaskInv /\ SlotInv
  BY DEF IInv, SlotInv, SlotsKept, Holders
<1>2. ASSUME NEW p \in Prompt PROVE PromptInv(p)
  BY DEF IInv, CancelInv, CancelTold, CancelHolds, SawWholeConversation, PromptInv
<1>3. ASSUME NEW s \in Session PROVE SessionInv(s)
  BY DEF IInv, CloseInv, SessionInv
<1> QED BY <1>1, <1>2, <1>3

LEMMA Whole ==
    ASSUME TypeOK, TaskInv, SlotInv, \A p \in Prompt : PromptInv(p),
           \A s \in Session : SessionInv(s)
    PROVE  IInv
<1>1. SlotsKept /\ IsFiniteSet({p \in Prompt : pc[p] \in Holding})
  BY DEF SlotInv, SlotsKept, Holders
<1>2. CancelInv
  BY DEF PromptInv, CancelInv
<1>3. CancelTold /\ SawWholeConversation
  BY DEF PromptInv, CancelTold, SawWholeConversation
<1>4. CancelHolds
  BY DEF PromptInv, CancelHolds
<1>5. CloseInv
  BY DEF SessionInv, CloseInv
<1> QED BY <1>1, <1>2, <1>3, <1>4, <1>5 DEF IInv

LEMMA WholeNext ==
    ASSUME TypeOK', TaskInv', SlotInv', \A p \in Prompt : PromptInv(p)',
           \A s \in Session : SessionInv(s)'
    PROVE  IInv'
<1>1. (SlotsKept /\ IsFiniteSet({p \in Prompt : pc[p] \in Holding}))'
  BY DEF SlotInv, SlotsKept, Holders
<1>2. CancelInv'
  BY DEF PromptInv, CancelInv
<1>3. (CancelTold /\ SawWholeConversation)'
  BY DEF PromptInv, CancelTold, SawWholeConversation
<1>4. CancelHolds'
  BY DEF PromptInv, CancelHolds
<1>5. CloseInv'
  BY DEF SessionInv, CloseInv
<1> QED BY <1>1, <1>2, <1>3, <1>4, <1>5 DEF IInv

(* A prompt that a step leaves where it is keeps its part, if the flag of a  *)
(* session at work stays and turns added to a history are not the prompt's.  *)
LEMMA PromptKept ==
    ASSUME NEW p \in Prompt, PromptInv(p),
           /\ pc'[p] = pc[p] /\ of'[p] = of[p] /\ seen'[p] = seen[p]
           /\ doomed'[p] = doomed[p] /\ asked'[p] = asked[p] /\ answer'[p] = answer[p],
           pc[p] \in AtWork => cancelled'[of[p]] = cancelled[of[p]],
           Unrecorded(p) => Unrecorded(p)',
           pc[p] = "run" => history'[of[p]] = history[of[p]]
    PROVE  PromptInv(p)'
BY DEF PromptInv

LEMMA UnrecordedStays ==
    ASSUME NEW p \in Prompt, history' = history
    PROVE  Unrecorded(p)' = Unrecorded(p)
BY DEF Unrecorded

LEMMA SessionKept ==
    ASSUME NEW s \in Session, SessionInv(s),
           /\ home'[s] = home[s] /\ (s \in open') = (s \in open) /\ task'[s] = task[s]
           /\ awaited'[s] = awaited[s] /\ (s \in closed') = (s \in closed),
           link' = link,
           task[s] # NoPrompt /\ doomed[task[s]] => doomed'[task[s]],
           awaited[s] # NoPrompt => of'[awaited[s]] = of[awaited[s]]
    PROVE  SessionInv(s)'
BY DEF SessionInv

(* A session has its one prompt at work.                                     *)
LEMMA OneAtWork ==
    ASSUME TypeOK, TaskInv, NEW p \in Prompt, NEW q \in Prompt,
           pc[p] \in AtWork, pc[q] \in AtWork, of[p] = of[q]
    PROVE  p = q
<1>1. of[p] \in Session
  BY DEF TaskInv, AtWork
<1>2. task[of[p]] = p /\ task[of[p]] = q
  BY <1>1 DEF TaskInv
<1> QED BY <1>2

-----------------------------------------------------------------------------
(* Slots                                                                     *)

LEMMA SlotTaken ==
    ASSUME TypeOK, SlotInv, NEW p \in Prompt, pc[p] \notin Holding, free > 0,
           free' = free - 1, pc' = [pc EXCEPT ![p] = "score"]
    PROVE  SlotInv'
<1>1. Holders' = Holders \cup {p} /\ p \notin Holders
  BY DEF Holders, Holding, TypeOK
<1>2. IsFiniteSet(Holders') /\ Cardinality(Holders') = Cardinality(Holders) + 1
  BY <1>1, FS_AddElement DEF SlotInv
<1>3. free \in Nat /\ Cardinality(Holders) \in Nat
  BY FS_CardinalityType DEF SlotInv, TypeOK
<1> QED BY <1>2, <1>3 DEF SlotInv

LEMMA SlotGiven ==
    ASSUME TypeOK, SlotInv, NEW p \in Prompt, pc[p] \in Holding,
           free' = free + 1, NEW next \in Await \ Holding, pc' = [pc EXCEPT ![p] = next]
    PROVE  SlotInv'
<1>1. Holders' = Holders \ {p} /\ p \in Holders
  BY DEF Holders, Holding, TypeOK
<1>2. IsFiniteSet(Holders') /\ Cardinality(Holders') = Cardinality(Holders) - 1
  BY <1>1, FS_RemoveElement DEF SlotInv
<1>3. free \in Nat /\ Cardinality(Holders) \in Nat
  BY FS_CardinalityType DEF SlotInv, TypeOK
<1> QED BY <1>2, <1>3 DEF SlotInv

LEMMA SlotsUntouched ==
    ASSUME SlotInv, free' = free,
           \A p \in Prompt : (pc'[p] \in Holding) = (pc[p] \in Holding)
    PROVE  SlotInv'
<1>1. Holders' = Holders
  BY DEF Holders
<1> QED BY <1>1 DEF SlotInv

-----------------------------------------------------------------------------
(* Histories                                                                 *)

(* The deque keeps turns of the old history and of those that are added, at  *)
(* most as many as it has places.                                            *)
LEMMA LastTurnsFacts ==
    ASSUME NEW h \in Seq(Turn)
    PROVE  /\ LastTurns(h) \in Seq(Turn) /\ Len(LastTurns(h)) <= 2 * HistoryTurns
           /\ \A i \in 1 .. Len(LastTurns(h)) : \E j \in 1 .. Len(h) : LastTurns(h)[i] = h[j]
<1> DEFINE n == Len(h)  max == 2 * HistoryTurns
<1>1. n \in Nat /\ max \in Nat
  BY AcpAssumption
<1>2. CASE n > max
  <2> DEFINE first == n - max + 1
  <2>1. LastTurns(h) = SubSeq(h, first, n)
    BY <1>2 DEF LastTurns
  <2>2. first \in 1 .. n + 1 /\ n - first + 1 = max
    BY <1>1, <1>2
  <2>3. /\ SubSeq(h, first, n) \in Seq(Turn) /\ Len(SubSeq(h, first, n)) = max
        /\ \A i \in 1 .. max : SubSeq(h, first, n)[i] = h[first + i - 1]
    <3> HIDE DEF first, max
    <3>1. \A i \in first .. n : h[i] \in Turn
      BY <1>1, <2>2, ElementOfSeq
    <3> QED BY <1>1, <2>2, <3>1, SubSeqProperties
  <2>4. \A i \in 1 .. max : first + i - 1 \in 1 .. n
    BY <1>1, <2>2
  <2> HIDE DEF first, n, max
  <2>5. max <= max
    BY <1>1
  <2>6. \A i \in 1 .. max : \E j \in 1 .. n : LastTurns(h)[i] = h[j]
    BY <2>1, <2>3, <2>4
  <2> QED BY <2>1, <2>3, <2>5, <2>6 DEF n, max
<1>3. CASE ~(n > max)
  <2>1. LastTurns(h) = h
    BY <1>3 DEF LastTurns
  <2> QED BY <2>1, <1>1, <1>3
<1> QED BY <1>2, <1>3

(* AcpSession.record adds turns of one prompt only to one history.           *)
LEMMA RecordFacts ==
    ASSUME TypeOK, NEW p \in Prompt, NEW s \in Session, NEW turns \in Seq(Turn),
           \A i \in 1 .. Len(turns) : turns[i][1] = p, Record(s, turns)
    PROVE  /\ history' \in [Session -> Seq(Turn)]
           /\ \A t \in Session : Len(history'[t]) <= 2 * HistoryTurns
           /\ \A t \in Session \ {s} : history'[t] = history[t]
           /\ \A q \in Prompt \ {p} : Unrecorded(q) => Unrecorded(q)'
<1> DEFINE h == history[s] \o turns  k == LastTurns(h)
<1>1. history[s] \in Seq(Turn) /\ history' = [history EXCEPT ![s] = k]
  BY DEF TypeOK, Record
<1>2. /\ h \in Seq(Turn) /\ Len(h) = Len(history[s]) + Len(turns)
      /\ \A i \in 1 .. Len(h) : h[i] = IF i <= Len(history[s]) THEN history[s][i]
                                                              ELSE turns[i - Len(history[s])]
  BY <1>1, ConcatProperties
<1>3. /\ k \in Seq(Turn) /\ Len(k) <= 2 * HistoryTurns
      /\ \A i \in 1 .. Len(k) : \E j \in 1 .. Len(h) : k[i] = h[j]
  BY <1>2, LastTurnsFacts
<1>4. \A j \in 1 .. Len(h) : h[j][1] = p \/ \E i \in 1 .. Len(history[s]) : h[j] = history[s][i]
  <2> TAKE j \in 1 .. Len(h)
  <2>1. Len(history[s]) \in Nat /\ Len(turns) \in Nat
    BY <1>1, LenProperties
  <2>2. CASE j <= Len(history[s])
    BY <2>1, <2>2, <1>2
  <2>3. CASE ~(j <= Len(history[s]))
    <3>1. j - Len(history[s]) \in 1 .. Len(turns)
      BY <2>1, <2>3, <1>2
    <3> QED BY <3>1, <2>3, <1>2
  <2> QED BY <2>2, <2>3
<1> HIDE DEF k, h
<1>5. history'[s] = k /\ \A t \in Session \ {s} : history'[t] = history[t]
  BY <1>1 DEF TypeOK
<1>6. history' \in [Session -> Seq(Turn)]
  BY <1>1, <1>3 DEF TypeOK
<1>7. \A t \in Session : Len(history'[t]) <= 2 * HistoryTurns
  BY <1>3, <1>5 DEF TypeOK
<1>8. ASSUME NEW q \in Prompt \ {p}, Unrecorded(q) PROVE Unrecorded(q)'
  <2>1. ASSUME NEW t \in Session, NEW i \in 1 .. Len(history'[t])
        PROVE  history'[t][i][1] # q
    <3>1. CASE t # s
      BY <3>1, <2>1, <1>5, <1>8 DEF Unrecorded
    <3>2. CASE t = s
      <4>1. history'[t] = k /\ i \in 1 .. Len(k)
        BY <3>2, <1>5, <2>1
      <4>2. PICK j \in 1 .. Len(h) : k[i] = h[j]
        BY <4>1, <1>3
      <4>3. h[j][1] # q
        BY <1>4, <1>8 DEF Unrecorded
      <4> QED BY <4>1, <4>2, <4>3
    <3> QED BY <3>1, <3>2
  <2> QED BY <2>1 DEF Unrecorded
<1> QED BY <1>5, <1>6, <1>7, <1>8

-----------------------------------------------------------------------------
LEMMA InitInv == Init => IInv
<1> SUFFICES ASSUME Init PROVE IInv
  OBVIOUS
<1>1. TypeOK
  <2>1. \A s \in Session : history[s] = <<>> /\ Len(history[s]) <= 2 * HistoryTurns
    BY AcpAssumption DEF Init
  <2> QED BY <2>1, AcpAssumption DEF Init, TypeOK, Await
<1>2. TaskInv
  BY AcpAssumption DEF Init, TaskInv, AtWork
<1>3. SlotInv
  <2>1. Holders = {}
    BY DEF Init, Holders, Holding
  <2> QED BY <2>1, FS_EmptySet, AcpAssumption DEF Init, SlotInv
<1>4. ASSUME NEW p \in Prompt PROVE PromptInv(p)
  BY <1>4 DEF Init, PromptInv, Unrecorded, AtWork
<1>5. ASSUME NEW s \in Session PROVE SessionInv(s)
  BY <1>5, AcpAssumption DEF Init, SessionInv
<1> QED BY <1>1, <1>2, <1>3, <1>4, <1>5, Whole

-----------------------------------------------------------------------------
(* Sessions                                                                  *)

LEMMA NewSessionKeeps ==
    ASSUME IInv, NEW c \in Conn, NEW s \in Session, NewSession(c, s)
    PROVE  IInv'
<1> USE DEF NewSession, sessionVars, promptVars
<1>1. /\ TypeOK /\ TaskInv /\ SlotInv
      /\ \A p \in Prompt : PromptInv(p)
      /\ \A t \in Session : SessionInv(t)
  BY Parts
<1>2. /\ home'[s] = c /\ \A t \in Session \ {s} : home'[t] = home[t]
      /\ home[s] = NoConn /\ NoConn \notin Conn /\ open' = open \cup {s}
  BY <1>1, AcpAssumption DEF TypeOK
<1>3. TypeOK'
  BY <1>1, <1>2 DEF TypeOK
<1>4. TaskInv'
  BY <1>1, <1>2 DEF TaskInv
<1>5. SlotInv'
  BY <1>1, SlotsUntouched
<1>6. ASSUME NEW p \in Prompt PROVE PromptInv(p)'
  BY <1>1, PromptKept, UnrecordedStays
<1>7. ASSUME NEW t \in Session PROVE SessionInv(t)'
  <2>1. SessionInv(t)
    BY <1>1
  <2>2. CASE t # s
    BY <2>1, <2>2, <1>2, SessionKept
  <2>3. CASE t = s
    BY <2>1, <2>3, <1>2 DEF SessionInv
  <2> QED BY <2>2, <2>3
<1> QED BY <1>3, <1>4, <1>5, <1>6, <1>7, WholeNext

(* Interrupting a session asks its one prompt at work, and nobody else.       *)
LEMMA InterruptFacts ==
    ASSUME IInv, NEW s \in Session, Interrupt(s),
           UNCHANGED <<history, pc, of, seen, answer>>
    PROVE  /\ cancelled' \in [Session -> BOOLEAN]
           /\ doomed' \in [Prompt -> BOOLEAN] /\ asked' \in [Prompt -> BOOLEAN]
           /\ \A p \in Prompt : PromptInv(p)'
           /\ \A p \in Prompt : doomed[p] => doomed'[p]
           /\ task[s] # NoPrompt => doomed'[task[s]]
<1> USE DEF Interrupt
<1>1. TypeOK /\ TaskInv /\ \A p \in Prompt : PromptInv(p)
  BY Parts
<1>2. CASE task[s] = NoPrompt
  <2>1. UNCHANGED <<cancelled, doomed, asked>>
    BY <1>2
  <2>2. ASSUME NEW p \in Prompt PROVE PromptInv(p)'
    BY <1>1, <2>1, PromptKept, UnrecordedStays
  <2> QED BY <1>1, <1>2, <2>1, <2>2 DEF TypeOK
<1>3. CASE task[s] # NoPrompt
  <2> DEFINE q == task[s]
  <2>1. q \in Prompt /\ pc[q] \in AtWork /\ of[q] = s
    BY <1>1, <1>3 DEF TypeOK, TaskInv
  <2>2. /\ doomed'[q] = TRUE /\ asked'[q] = TRUE /\ cancelled'[s] = TRUE
        /\ \A p \in Prompt \ {q} : doomed'[p] = doomed[p] /\ asked'[p] = asked[p]
        /\ \A t \in Session \ {s} : cancelled'[t] = cancelled[t]
        /\ cancelled' \in [Session -> BOOLEAN]
        /\ doomed' \in [Prompt -> BOOLEAN] /\ asked' \in [Prompt -> BOOLEAN]
    BY <1>1, <1>3, <2>1 DEF TypeOK
  <2>3. ASSUME NEW p \in Prompt PROVE PromptInv(p)'
    <3>1. CASE p = q
      BY <3>1, <1>1, <2>1, <2>2, UnrecordedStays DEF PromptInv, AtWork
    <3>2. CASE p # q
      <4>1. pc[p] \in AtWork => of[p] \in Session \ {s}
        BY <3>2, <1>1, <2>1, OneAtWork DEF TaskInv, AtWork
      <4> QED BY <3>2, <4>1, <1>1, <2>2, PromptKept, UnrecordedStays
    <3> QED BY <3>1, <3>2
  <2> HIDE DEF q
  <2>4. \A p \in Prompt : doomed[p] => doomed'[p]
    BY <2>2
  <2> QED BY <2>2, <2>3, <2>4 DEF q
<1> QED BY <1>2, <1>3

LEMMA CancelKeeps ==
    ASSUME IInv, NEW s \in Session, Cancel(s)
    PROVE  IInv'
<1> USE DEF Cancel
<1>1. /\ TypeOK /\ TaskInv /\ SlotInv
      /\ \A p \in Prompt : PromptInv(p)
      /\ \A t \in Session : SessionInv(t)
  BY Parts
<1>2. /\ cancelled' \in [Session -> BOOLEAN]
      /\ doomed' \in [Prompt -> BOOLEAN] /\ asked' \in [Prompt -> BOOLEAN]
      /\ \A p \in Prompt : PromptInv(p)' /\ (doomed[p] => doomed'[p])
  <2>1. CASE task[s] = NoPrompt
    <3>1. /\ cancelled' = [cancelled EXCEPT ![s] = TRUE] /\ UNCHANGED <<doomed, asked>>
      BY <2>1
    <3>2. ASSUME NEW p \in Prompt PROVE PromptInv(p)'
      <4>1. pc[p] \in AtWork => of[p] \in Session \ {s}
        BY <2>1, <1>1, AcpAssumption DEF TaskInv, AtWork
      <4>2. pc[p] \in AtWork => cancelled'[of[p]] = cancelled[of[p]]
        BY <4>1, <3>1, <1>1 DEF TypeOK
      <4> QED BY <4>2, <3>1, <1>1, PromptKept, UnrecordedStays
    <3> QED BY <3>1, <3>2, <1>1 DEF TypeOK
  <2>2. CASE task[s] # NoPrompt
    BY <2>2, InterruptFacts
  <2> QED BY <2>1, <2>2
<1>3. TypeOK'
  BY <1>1, <1>2 DEF TypeOK
<1>4. TaskInv'
  BY <1>1 DEF TaskInv
<1>5. SlotInv'
  BY <1>1, SlotsUntouched
<1>6. ASSUME NEW t \in Session PROVE SessionInv(t)'
  <2>1. task[t] # NoPrompt => task[t] \in Prompt
    BY <1>1 DEF TypeOK
  <2>2. SessionInv(t)
    BY <1>1
  <2> QED BY <2>1, <2>2, <1>2, SessionKept
<1> QED BY <1>2, <1>3, <1>4, <1>5, <1>6, WholeNext

(* A session leaves the registry with its prompt told and awaited.           *)
LEMMA RemoveKeeps ==
    ASSUME IInv, NEW s \in Session, s \in open, link[home[s]] # "down", Remove(s),
           UNCHANGED link
    PROVE  IInv'
<1> USE DEF Remove
<1>1. /\ TypeOK /\ TaskInv /\ SlotInv
      /\ \A p \in Prompt : PromptInv(p)
      /\ \A t \in Session : SessionInv(t)
  BY Parts
<1>2. /\ cancelled' \in [Session -> BOOLEAN]
      /\ doomed' \in [Prompt -> BOOLEAN] /\ asked' \in [Prompt -> BOOLEAN]
      /\ \A p \in Prompt : PromptInv(p)' /\ (doomed[p] => doomed'[p])
      /\ task[s] # NoPrompt => doomed'[task[s]]
  BY InterruptFacts
<1>3. /\ awaited'[s] = task[s] /\ \A t \in Session \ {s} : awaited'[t] = awaited[t]
      /\ \A t \in Session \ {s} : (t \in closed') = (t \in closed)
      /\ s \in closed' <=> task[s] = NoPrompt \/ s \in closed
      /\ awaited' \in [Session -> Prompt \cup {NoPrompt}] /\ closed' \subseteq Session
  BY <1>1 DEF TypeOK
<1>4. TypeOK'
  BY <1>1, <1>2, <1>3 DEF TypeOK
<1>5. TaskInv'
  BY <1>1 DEF TaskInv
<1>6. SlotInv'
  BY <1>1, SlotsUntouched
<1>7. ASSUME NEW t \in Session PROVE SessionInv(t)'
  <2>1. task[t] # NoPrompt => task[t] \in Prompt /\ of[task[t]] = t
    BY <1>1 DEF TypeOK, TaskInv
  <2>2. SessionInv(t)
    BY <1>1
  <2>3. CASE t # s
    BY <2>1, <2>2, <2>3, <1>2, <1>3, SessionKept
  <2>4. CASE t = s
    BY <2>1, <2>2, <2>4, <1>2, <1>3 DEF SessionInv
  <2> QED BY <2>3, <2>4
<1> QED BY <1>2, <1>4, <1>5, <1>6, <1>7, WholeNext

LEMMA ClosedKeeps ==
    ASSUME IInv, NEW s \in Session, Closed(s)
    PROVE  IInv'
<1> USE DEF Closed, promptVars
<1>1. /\ TypeOK /\ TaskInv /\ SlotInv
      /\ \A p \in Prompt : PromptInv(p)
      /\ \A t \in Session : SessionInv(t)
  BY Parts
<1>2. /\ awaited'[s] = NoPrompt /\ \A t \in Session \ {s} : awaited'[t] = awaited[t]
      /\ \A t \in Session \ {s} : (t \in closed') = (t \in closed)
      /\ s \in closed'
      /\ awaited' \in [Session -> Prompt \cup {NoPrompt}] /\ closed' \subseteq Session
  BY <1>1 DEF TypeOK
<1>3. TypeOK'
  BY <1>1, <1>2 DEF TypeOK
<1>4. TaskInv'
  BY <1>1 DEF TaskInv
<1>5. SlotInv'
  BY <1>1, SlotsUntouched
<1>6. ASSUME NEW p \in Prompt PROVE PromptInv(p)'
  BY <1>1, PromptKept, UnrecordedStays
<1>7. ASSUME NEW t \in Session PROVE SessionInv(t)'
  <2>1. task[t] # NoPrompt => task[t] \in Prompt /\ pc[task[t]] \in AtWork
    BY <1>1 DEF TypeOK, TaskInv
  <2>2. SessionInv(t)
    BY <1>1
  <2>3. CASE t # s
    BY <2>1, <2>2, <2>3, <1>2, SessionKept
  <2>4. CASE t = s
    <3>1. task[s] = NoPrompt
      BY <2>1, <2>2, <2>4 DEF SessionInv, AtWork
    <3> QED BY <3>1, <2>2, <2>4, <1>2 DEF SessionInv
  <2> QED BY <2>3, <2>4
<1> QED BY <1>3, <1>4, <1>5, <1>6, <1>7, WholeNext

-----------------------------------------------------------------------------
(* Prompts                                                                   *)

LEMMA BeginKeeps ==
    ASSUME IInv, NEW p \in Prompt, NEW s \in Session, Begin(p, s)
    PROVE  IInv'
<1> USE DEF Begin, Claim
<1>1. /\ TypeOK /\ TaskInv /\ SlotInv
      /\ \A q \in Prompt : PromptInv(q)
      /\ \A t \in Session : SessionInv(t)
  BY Parts
<1>2. /\ task'[s] = p /\ of'[p] = s /\ cancelled'[s] = FALSE /\ task[s] = NoPrompt
      /\ \A t \in Session \ {s} : task'[t] = task[t] /\ cancelled'[t] = cancelled[t]
      /\ \A q \in Prompt \ {p} : of'[q] = of[q] /\ pc'[q] = pc[q]
      /\ pc[p] = "unsent" /\ pc'[p] \in {"slot", "score"}
      /\ home[s] # NoConn
  BY <1>1 DEF TypeOK, SessionInv
<1>3. SlotInv' /\ pc' \in [Prompt -> Await] /\ free' \in Nat
  <2>1. CASE free > 0 /\ \A q \in Prompt : pc[q] # "slot"
    <3>1. free' = free - 1 /\ pc' = [pc EXCEPT ![p] = "score"]
      BY <2>1
    <3>2. SlotInv'
      BY <2>1, <3>1, <1>1, <1>2, SlotTaken DEF Holding
    <3> QED BY <2>1, <3>1, <3>2, <1>1 DEF TypeOK, Await
  <2>2. CASE ~(free > 0 /\ \A q \in Prompt : pc[q] # "slot")
    <3>1. free' = free /\ pc' = [pc EXCEPT ![p] = "slot"]
      BY <2>2
    <3>2. SlotInv'
      BY <3>1, <1>1, <1>2, SlotsUntouched DEF Holding, TypeOK
    <3> QED BY <3>1, <3>2, <1>1 DEF TypeOK, Await
  <2> QED BY <2>1, <2>2
<1>4. TypeOK'
  BY <1>1, <1>3 DEF TypeOK
<1>5. TaskInv'
  <2>1. ASSUME NEW q \in Prompt, NEW t \in Session
        PROVE  task'[t] = q <=> pc'[q] \in AtWork /\ of'[q] = t
    <3>1. task[t] = q <=> pc[q] \in AtWork /\ of[q] = t
      BY <1>1 DEF TaskInv
    <3>2. CASE q = p
      BY <3>1, <3>2, <1>2 DEF AtWork
    <3>3. CASE q # p
      BY <3>1, <3>3, <1>2, AcpAssumption
    <3> QED BY <3>2, <3>3
  <2>2. ASSUME NEW q \in Prompt
        PROVE  IF pc'[q] = "unsent" THEN of'[q] = NoSession
                                   ELSE of'[q] \in Session /\ home'[of'[q]] \in Conn
    <3>1. CASE q = p
      BY <3>1, <1>1, <1>2 DEF TypeOK
    <3>2. CASE q # p
      BY <3>2, <1>1, <1>2 DEF TaskInv
    <3> QED BY <3>1, <3>2
  <2> QED BY <2>1, <2>2 DEF TaskInv
<1>6. ASSUME NEW q \in Prompt PROVE PromptInv(q)'
  <2>1. CASE q = p
    BY <2>1, <1>1, <1>2, UnrecordedStays DEF PromptInv, AtWork
  <2>2. CASE q # p
    <3>1. pc[q] \in AtWork => of[q] \in Session \ {s}
      BY <1>1, <1>2, AcpAssumption DEF TaskInv, AtWork
    <3> QED BY <2>2, <3>1, <1>1, <1>2, PromptKept, UnrecordedStays
  <2> QED BY <2>1, <2>2
<1>7. ASSUME NEW t \in Session PROVE SessionInv(t)'
  <2>1. SessionInv(t)
    BY <1>1
  <2>2. awaited[t] # NoPrompt => awaited[t] \in Prompt \ {p}
    BY <2>1, <1>1, <1>2, AcpAssumption DEF SessionInv, TypeOK, TaskInv
  <2>3. CASE t # s
    BY <2>1, <2>2, <2>3, <1>2, SessionKept
  <2>4. CASE t = s
    BY <2>1, <2>2, <2>4, <1>2 DEF SessionInv
  <2> QED BY <2>3, <2>4
<1> QED BY <1>3, <1>4, <1>5, <1>6, <1>7, WholeNext

LEMMA GetSlotKeeps ==
    ASSUME IInv, NEW p \in Prompt, GetSlot(p)
    PROVE  IInv'
<1> USE DEF GetSlot, sessionVars
<1>1. /\ TypeOK /\ TaskInv /\ SlotInv
      /\ \A q \in Prompt : PromptInv(q)
      /\ \A t \in Session : SessionInv(t)
  BY Parts
<1>2. /\ pc'[p] = "score" /\ \A q \in Prompt \ {p} : pc'[q] = pc[q]
      /\ pc' \in [Prompt -> Await] /\ free' \in Nat
  BY <1>1 DEF TypeOK, Await
<1>3. TypeOK'
  BY <1>1, <1>2 DEF TypeOK
<1>4. TaskInv'
  BY <1>1, <1>2 DEF TaskInv, AtWork
<1>5. SlotInv'
  BY <1>1, SlotTaken DEF Holding
<1>6. ASSUME NEW q \in Prompt PROVE PromptInv(q)'
  <2>1. CASE q = p
    BY <2>1, <1>1, <1>2, UnrecordedStays DEF PromptInv, AtWork
  <2>2. CASE q # p
    BY <2>2, <1>1, <1>2, PromptKept, UnrecordedStays
  <2> QED BY <2>1, <2>2
<1>7. ASSUME NEW t \in Session PROVE SessionInv(t)'
  BY <1>1, SessionKept
<1> QED BY <1>3, <1>4, <1>5, <1>6, <1>7, WholeNext

LEMMA RunKeeps ==
    ASSUME IInv, NEW p \in Prompt, Run(p)
    PROVE  IInv'
<1> USE DEF Run, sessionVars
<1>1. /\ TypeOK /\ TaskInv /\ SlotInv
      /\ \A q \in Prompt : PromptInv(q)
      /\ \A t \in Session : SessionInv(t)
  BY Parts
<1>2. of[p] \in Session /\ history[of[p]] \in Seq(Turn)
  BY <1>1 DEF TypeOK, TaskInv
<1>3. /\ pc'[p] = "run" /\ seen'[p] = history[of[p]]
      /\ \A q \in Prompt \ {p} : pc'[q] = pc[q] /\ seen'[q] = seen[q]
      /\ pc' \in [Prompt -> Await] /\ seen' \in [Prompt -> Seq(Turn)]
  BY <1>1, <1>2 DEF TypeOK, Await
<1>4. TypeOK'
  BY <1>1, <1>3 DEF TypeOK
<1>5. TaskInv'
  BY <1>1, <1>3 DEF TaskInv, AtWork
<1>6. SlotInv'
  BY <1>1, <1>3, SlotsUntouched DEF Holding
<1>7. ASSUME NEW q \in Prompt PROVE PromptInv(q)'
  <2>1. CASE q = p
    BY <2>1, <1>1, <1>3, UnrecordedStays DEF PromptInv, AtWork
  <2>2. CASE q # p
    BY <2>2, <1>1, <1>3, PromptKept, UnrecordedStays
  <2> QED BY <2>1, <2>2
<1>8. ASSUME NEW t \in Session PROVE SessionInv(t)'
  BY <1>1, SessionKept
<1> QED BY <1>4, <1>5, <1>6, <1>7, <1>8, WholeNext

(* A prompt that leaves the try block gives up its session and its slot, and *)
(* at most its own session's history has changed, by turns of its own: the   *)
(* others keep their parts.                                                  *)
LEMMA LeaveKeeps ==
    ASSUME IInv, NEW p \in Prompt, NEW next \in {"push", "done"}, pc[p] \in InFlight,
           Leave(p, next),
           UNCHANGED <<link, home, open, cancelled, awaited, closed, of, seen, doomed, asked>>,
           answer' \in [Prompt -> {"none", "end_turn", "refusal", "cancelled", "error"}],
           \A q \in Prompt \ {p} : answer'[q] = answer[q],
           history' \in [Session -> Seq(Turn)],
           \A t \in Session : Len(history'[t]) <= 2 * HistoryTurns,
           \A t \in Session \ {of[p]} : history'[t] = history[t],
           \A q \in Prompt \ {p} : Unrecorded(q) => Unrecorded(q)',
           pc[p] = "push" => history' = history,
           PromptInv(p)'
    PROVE  IInv'
<1> USE DEF Leave
<1>1. /\ TypeOK /\ TaskInv /\ SlotInv
      /\ \A q \in Prompt : PromptInv(q)
      /\ \A t \in Session : SessionInv(t)
  BY Parts
<1>2. /\ of[p] \in Session /\ pc[p] # "unsent"
      /\ pc'[p] = next /\ \A q \in Prompt \ {p} : pc'[q] = pc[q]
      /\ task'[of[p]] = IF task[of[p]] = p THEN NoPrompt ELSE task[of[p]]
      /\ \A t \in Session \ {of[p]} : task'[t] = task[t]
      /\ pc' \in [Prompt -> Await] /\ task' \in [Session -> Prompt \cup {NoPrompt}]
      /\ free' \in Nat
  BY <1>1 DEF TypeOK, TaskInv, InFlight, AtWork, Await
<1>3. TypeOK'
  BY <1>1, <1>2 DEF TypeOK
<1>4. TaskInv'
  <2>1. ASSUME NEW q \in Prompt, NEW t \in Session
        PROVE  task'[t] = q <=> pc'[q] \in AtWork /\ of'[q] = t
    <3>1. task[t] = q <=> pc[q] \in AtWork /\ of[q] = t
      BY <1>1 DEF TaskInv
    <3>2. CASE q = p
      BY <3>1, <3>2, <1>2, AcpAssumption DEF AtWork
    <3>3. CASE q # p
      BY <3>1, <3>3, <1>2, AcpAssumption
    <3> QED BY <3>2, <3>3
  <2>2. \A q \in Prompt : IF pc'[q] = "unsent" THEN of'[q] = NoSession
                          ELSE of'[q] \in Session /\ home'[of'[q]] \in Conn
    BY <1>1, <1>2 DEF TaskInv
  <2> QED BY <2>1, <2>2 DEF TaskInv
<1>5. SlotInv'
  <2>1. CASE pc[p] \in Holding
    <3>1. next \in Await \ Holding
      BY DEF Await, Holding
    <3> QED BY <2>1, <3>1, <1>1, SlotGiven
  <2>2. CASE pc[p] \notin Holding
    <3>1. \A q \in Prompt : (pc'[q] \in Holding) = (pc[q] \in Holding)
      BY <2>2, <1>2 DEF Holding
    <3> QED BY <2>2, <3>1, <1>1, SlotsUntouched
  <2> QED BY <2>1, <2>2
<1>6. ASSUME NEW q \in Prompt \ {p} PROVE PromptInv(q)'
  <2>1. pc[q] = "run" => history'[of[q]] = history[of[q]]
    <3> SUFFICES ASSUME pc[q] = "run" PROVE history'[of[q]] = history[of[q]]
      OBVIOUS
    <3>1. of[q] \in Session
      BY <1>1 DEF TaskInv
    <3>2. CASE pc[p] = "push"
      BY <3>2
    <3>3. CASE pc[p] # "push"
      <4>1. of[q] # of[p]
        BY <3>3, <1>1, OneAtWork DEF AtWork, InFlight
      <4> QED BY <3>1, <4>1
    <3> QED BY <3>2, <3>3
  <2> QED BY <2>1, <1>1, <1>2, PromptKept
<1>7. ASSUME NEW t \in Session PROVE SessionInv(t)'
  <2>1. SessionInv(t) /\ (task'[t] = NoPrompt \/ task'[t] = task[t])
    BY <1>1, <1>2
  <2> QED BY <2>1 DEF SessionInv
<1> QED BY <1>3, <1>4, <1>5, <1>6, <1>7, WholeNext

(* A prompt that answers says "cancelled" exactly if it was asked.           *)
LEMMA AnswerKeeps ==
    ASSUME IInv, NEW p \in Prompt, NEW a \in {"end_turn", "refusal", "cancelled", "error"},
           pc[p] \in InFlight, Answer(p, a),
           a = "cancelled" <=> asked[p],
           history' = history \/
             \E turns \in Seq(Turn) : /\ \A i \in 1 .. Len(turns) : turns[i][1] = p
                                      /\ pc[p] = "run" /\ ~asked[p] /\ Record(of[p], turns)
    PROVE  IInv'
<1> USE DEF Answer
<1>1. TypeOK /\ TaskInv /\ PromptInv(p)
  BY Parts
<1>2. of[p] \in Session
  BY <1>1 DEF TaskInv, InFlight, AtWork
<1>3. /\ history' \in [Session -> Seq(Turn)]
      /\ \A t \in Session : Len(history'[t]) <= 2 * HistoryTurns
      /\ \A t \in Session \ {of[p]} : history'[t] = history[t]
      /\ \A q \in Prompt \ {p} : Unrecorded(q) => Unrecorded(q)'
      /\ pc[p] = "push" \/ asked[p] => history' = history
  <2>1. CASE history' = history
    BY <2>1, <1>1, UnrecordedStays DEF TypeOK
  <2>2. ASSUME NEW turns \in Seq(Turn), \A i \in 1 .. Len(turns) : turns[i][1] = p,
               pc[p] = "run", ~asked[p], Record(of[p], turns)
        PROVE  <1>3!1 /\ <1>3!2 /\ <1>3!3 /\ <1>3!4 /\ <1>3!5
    BY <2>2, <1>1, <1>2, RecordFacts
  <2> QED BY <2>1, <2>2
<1>4. /\ answer' \in [Prompt -> {"none", "end_turn", "refusal", "cancelled", "error"}]
      /\ answer'[p] = a /\ \A q \in Prompt \ {p} : answer'[q] = answer[q]
  BY <1>1 DEF TypeOK
<1>5. PromptInv(p)'
  <2>1. pc'[p] = "done"
    BY <1>1 DEF TypeOK, Leave
  <2>2. asked[p] => Unrecorded(p)'
    BY <1>1, <1>3, UnrecordedStays DEF PromptInv
  <2> QED BY <2>1, <2>2, <1>1, <1>4 DEF PromptInv, AtWork
<1> QED BY <1>3, <1>4, <1>5, LeaveKeeps

LEMMA TurnsOf ==
    ASSUME NEW p \in Prompt
    PROVE  /\ << <<p, "user">> >> \in Seq(Turn)
           /\ \A i \in 1 .. Len(<< <<p, "user">> >>) : << <<p, "user">> >>[i][1] = p
           /\ << <<p, "user">>, <<p, "assistant">> >> \in Seq(Turn)
           /\ \A i \in 1 .. Len(<< <<p, "user">>, <<p, "assistant">> >>) :
                 << <<p, "user">>, <<p, "assistant">> >>[i][1] = p
BY DEF Turn

(* A prompt that was not told was not asked.                                 *)
LEMMA UntoldUnasked ==
    ASSUME IInv, NEW p \in Prompt, ~doomed[p]
    PROVE  ~asked[p]
BY Parts DEF PromptInv

LEMMA EndsKeep ==
    ASSUME IInv, NEW p \in Prompt, Refuse(p) \/ Raise(p) \/ Pushed(p)
    PROVE  IInv'
<1>1. ~doomed[p] /\ pc[p] \in InFlight /\ history' = history
  BY DEF Refuse, Raise, Pushed, InFlight, AtWork, Holding
<1>2. PICK a \in {"end_turn", "refusal", "error"} : Answer(p, a)
  BY DEF Refuse, Raise, Pushed
<1> QED BY <1>1, <1>2, UntoldUnasked, AnswerKeeps

LEMMA NoReplyKeeps ==
    ASSUME IInv, NEW p \in Prompt, NoReply(p)
    PROVE  IInv'
<1>1. ~doomed[p] /\ pc[p] = "run" /\ pc[p] \in InFlight /\ Answer(p, "end_turn")
  BY DEF NoReply, InFlight, AtWork
<1>2. \E turns \in Seq(Turn) : /\ \A i \in 1 .. Len(turns) : turns[i][1] = p
                              /\ pc[p] = "run" /\ ~asked[p] /\ Record(of[p], turns)
  BY <1>1, UntoldUnasked, TurnsOf DEF NoReply
<1> QED BY <1>1, <1>2, UntoldUnasked, AnswerKeeps

LEMMA ReplyKeeps ==
    ASSUME IInv, NEW p \in Prompt, Reply(p)
    PROVE  IInv'
<1> USE DEF Reply
<1>1. TypeOK /\ TaskInv /\ PromptInv(p) /\ ~asked[p]
  BY Parts, UntoldUnasked
<1>2. of[p] \in Session /\ pc[p] \in InFlight
  BY <1>1 DEF TaskInv, InFlight, AtWork
<1>3. /\ history' \in [Session -> Seq(Turn)]
      /\ \A t \in Session : Len(history'[t]) <= 2 * HistoryTurns
      /\ \A t \in Session \ {of[p]} : history'[t] = history[t]
      /\ \A q \in Prompt \ {p} : Unrecorded(q) => Unrecorded(q)'
  BY <1>1, <1>2, TurnsOf, RecordFacts
<1>4. PromptInv(p)'
  <2>1. pc'[p] = "push"
    BY <1>1 DEF TypeOK, Leave
  <2> QED BY <2>1, <1>1 DEF PromptInv, AtWork
<1>5. answer' \in [Prompt -> {"none", "end_turn", "refusal", "cancelled", "error"}]
  BY <1>1 DEF TypeOK
<1> QED BY <1>2, <1>3, <1>4, <1>5, LeaveKeeps

(* The cancellation meets the prompt where the flag of its session tells     *)
(* whether it was asked, or where it can no longer be.                       *)
LEMMA CancelledKeeps ==
    ASSUME IInv, NEW p \in Prompt, Cancelled(p)
    PROVE  IInv'
<1> USE DEF Cancelled
<1>1. PromptInv(p)
  BY Parts
<1>2. (pc[p] # "push" /\ cancelled[of[p]]) <=> asked[p]
  BY <1>1 DEF PromptInv, InFlight, AtWork
<1> DEFINE a == IF pc[p] # "push" /\ cancelled[of[p]] THEN "cancelled" ELSE "error"
<1>3. a \in {"end_turn", "refusal", "cancelled", "error"} /\ (a = "cancelled" <=> asked[p])
  BY <1>2
<1>4. Answer(p, a) /\ pc[p] \in InFlight /\ history' = history
  OBVIOUS
<1> HIDE DEF a
<1> QED BY <1>3, <1>4, AnswerKeeps

-----------------------------------------------------------------------------
(* Connections                                                               *)

LEMMA DisconnectKeeps ==
    ASSUME IInv, NEW c \in Conn, Disconnect(c)
    PROVE  IInv'
<1> USE DEF Disconnect, sessionVars
<1>1. /\ TypeOK /\ TaskInv /\ SlotInv
      /\ \A p \in Prompt : PromptInv(p)
      /\ \A s \in Session : SessionInv(s)
  BY Parts
<1>2. /\ doomed' \in [Prompt -> BOOLEAN]
      /\ \A p \in Prompt : doomed[p] => doomed'[p]
      /\ \A p \in Prompt : pc[p] = "unsent" => (doomed'[p] <=> doomed[p])
  BY DEF InFlight, AtWork
<1>3. link' \in [Conn -> {"up", "closing", "down"}]
      /\ \A d \in Conn : link'[d] = "down" => link[d] = "down"
  BY <1>1 DEF TypeOK
<1>4. TypeOK'
  BY <1>1, <1>2, <1>3 DEF TypeOK
<1>5. TaskInv'
  BY <1>1 DEF TaskInv
<1>6. SlotInv'
  BY <1>1, SlotsUntouched
<1>7. ASSUME NEW p \in Prompt PROVE PromptInv(p)'
  BY <1>1, <1>2, UnrecordedStays DEF PromptInv
<1>8. ASSUME NEW s \in Session PROVE SessionInv(s)'
  <2>1. SessionInv(s) /\ (task[s] # NoPrompt => task[s] \in Prompt)
    BY <1>1 DEF TypeOK
  <2> QED BY <2>1, <1>2, <1>3 DEF SessionInv
<1> QED BY <1>4, <1>5, <1>6, <1>7, <1>8, WholeNext

LEMMA DownKeeps ==
    ASSUME IInv, NEW c \in Conn, Down(c)
    PROVE  IInv'
<1> USE DEF Down, sessionVars, promptVars
<1>1. /\ TypeOK /\ TaskInv /\ SlotInv
      /\ \A p \in Prompt : PromptInv(p)
      /\ \A s \in Session : SessionInv(s)
  BY Parts
<1>2. /\ link' \in [Conn -> {"up", "closing", "down"}]
      /\ \A d \in Conn \ {c} : link'[d] = link[d]
  BY <1>1 DEF TypeOK
<1>3. TypeOK'
  BY <1>1, <1>2 DEF TypeOK
<1>4. TaskInv'
  BY <1>1 DEF TaskInv
<1>5. SlotInv'
  BY <1>1, SlotsUntouched
<1>6. ASSUME NEW p \in Prompt PROVE PromptInv(p)'
  BY <1>1, PromptKept, UnrecordedStays
<1>7. ASSUME NEW s \in Session PROVE SessionInv(s)'
  <2>1. SessionInv(s)
    BY <1>1
  <2>2. CASE home[s] = c
    BY <2>1, <2>2, AcpAssumption DEF SessionInv
  <2>3. CASE home[s] # c
    BY <2>1, <2>3, <1>2 DEF SessionInv
  <2> QED BY <2>2, <2>3
<1> QED BY <1>3, <1>4, <1>5, <1>6, <1>7, WholeNext

-----------------------------------------------------------------------------
LEMMA StutterKeeps ==
    ASSUME IInv, UNCHANGED vars
    PROVE  IInv'
<1> USE DEF vars, sessionVars, promptVars
<1>1. /\ TypeOK /\ TaskInv /\ SlotInv
      /\ \A p \in Prompt : PromptInv(p)
      /\ \A s \in Session : SessionInv(s)
  BY Parts
<1>2. TypeOK' /\ TaskInv'
  BY <1>1 DEF TypeOK, TaskInv
<1>3. SlotInv'
  BY <1>1, SlotsUntouched
<1>4. ASSUME NEW p \in Prompt PROVE PromptInv(p)'
  BY <1>1, PromptKept, UnrecordedStays
<1>5. ASSUME NEW s \in Session PROVE SessionInv(s)'
  BY <1>1, SessionKept
<1> QED BY <1>2, <1>3, <1>4, <1>5, WholeNext

(* The inductive invariant of sessions, prompts and connections.             *)
THEOREM SessionsInvariance == Spec => []IInv
<1>1. Init => IInv
  BY InitInv
<1>2. IInv /\ [Next]_vars => IInv'
  <2> SUFFICES ASSUME IInv, [Next]_vars PROVE IInv'
    OBVIOUS
  <2>1. ASSUME NEW c \in Conn, Disconnect(c) PROVE IInv'
    BY <2>1, DisconnectKeeps
  <2>2. ASSUME NEW c \in Conn, Down(c) PROVE IInv'
    BY <2>2, DownKeeps
  <2>3. ASSUME NEW c \in Conn, NEW s \in Session, NewSession(c, s) PROVE IInv'
    BY <2>3, NewSessionKeeps
  <2>4. ASSUME NEW s \in Session, Cancel(s) PROVE IInv'
    BY <2>4, CancelKeeps
  <2>5. ASSUME NEW s \in Session, Close(s) PROVE IInv'
    BY <2>5, RemoveKeeps DEF Close
  <2>6. ASSUME NEW s \in Session, Closed(s) PROVE IInv'
    BY <2>6, ClosedKeeps
  <2>7. ASSUME NEW s \in Session, Sweep(s) PROVE IInv'
    BY <2>7, RemoveKeeps DEF Sweep
  <2>8. ASSUME NEW p \in Prompt, Step(p) PROVE IInv'
    BY <2>8, GetSlotKeeps, EndsKeep, RunKeeps, NoReplyKeeps, ReplyKeeps, CancelledKeeps DEF Step
  <2>9. ASSUME NEW p \in Prompt, NEW s \in Session, Begin(p, s) PROVE IInv'
    BY <2>9, BeginKeeps
  <2>10. CASE UNCHANGED vars
    BY <2>10, StutterKeeps
  <2> QED BY <2>1, <2>2, <2>3, <2>4, <2>5, <2>6, <2>7, <2>8, <2>9, <2>10 DEF Next
<1> QED BY <1>1, <1>2, PTL DEF Spec

(* The history a turn of the agent is generated from is the history its      *)
(* exchange is added to.                                                     *)
THEOREM SeesWholeConversation == Spec => []SawWholeConversation
BY SessionsInvariance, PTL DEF IInv

(* A prompt answers "cancelled" only if it was asked to while in flight.     *)
THEOREM CancelledWasAsked == Spec => []CancelTold
BY SessionsInvariance, PTL DEF IInv

(* A prompt that was asked to cancel answers so and leaves no turn behind.   *)
THEOREM AskedIsCancelled == Spec => []CancelHolds
BY SessionsInvariance, PTL DEF IInv

(* Every slot of the semaphore is free or held, whatever way prompts end.    *)
THEOREM NoSlotLost == Spec => []SlotsKept
BY SessionsInvariance, PTL DEF IInv

(* When close_session has returned, no prompt of the session is at work.     *)
THEOREM QuietAfterClose == Spec => []ClosedQuiet
<1>1. IInv => ClosedQuiet
  <2> SUFFICES ASSUME IInv, NEW p \in Prompt, pc[p] \in AtWork PROVE of[p] \notin closed
    BY DEF ClosedQuiet
  <2>1. of[p] \in Session /\ task[of[p]] = p /\ p # NoPrompt
    BY Parts, AcpAssumption DEF TaskInv, AtWork
  <2>2. SessionInv(of[p])
    BY <2>1, Parts
  <2> QED BY <2>1, <2>2 DEF SessionInv
<1> QED BY <1>1, SessionsInvariance, PTL

(* A connection that has gone leaves no session and no prompt at work.       *)
THEOREM GoneLeavesNothing == Spec => []NothingLeftBehind
<1>1. IInv => NothingLeftBehind
  <2> SUFFICES ASSUME IInv PROVE NothingLeftBehind
    OBVIOUS
  <2>1. ASSUME NEW s \in open PROVE link[home[s]] # "down"
    <3>1. s \in Session /\ home[s] \in Conn \cup {NoConn}
      BY Parts DEF TypeOK
    <3>2. SessionInv(s)
      BY <3>1, Parts
    <3> QED BY <3>1, <3>2 DEF SessionInv
  <2>2. ASSUME NEW p \in Prompt, pc[p] \in AtWork PROVE link[home[of[p]]] # "down"
    <3>1. of[p] \in Session /\ home[of[p]] \in Conn /\ task[of[p]] = p /\ p # NoPrompt
      BY <2>2, Parts, AcpAssumption DEF TaskInv, AtWork
    <3>2. SessionInv(of[p])
      BY <3>1, Parts
    <3> QED BY <3>1, <3>2 DEF SessionInv
  <2> QED BY <2>1, <2>2 DEF NothingLeftBehind
<1> QED BY <1>1, SessionsInvariance, PTL
=============================================================================
