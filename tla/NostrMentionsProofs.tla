------------------------- MODULE NostrMentionsProofs -------------------------
(* Proofs about NostrMentions: a mention gets one reply, and it joins a      *)
(* shared conversation only if everything above it was seen and agrees.      *)
EXTENDS NostrMentions, TLAPS

-----------------------------------------------------------------------------
(* Sequences of events, and the line above an event *)

SetOf(s) == {s[i] : i \in 1..Len(s)}

(* Appending adds one element to the set of those in a sequence.             *)
LEMMA AppendAdds ==
    ASSUME NEW S, NEW s \in Seq(S), NEW x \in S
    PROVE  SetOf(Append(s, x)) = SetOf(s) \cup {x}
<1> DEFINE t == Append(s, x)
<1>1. Len(t) = Len(s) + 1 /\ Len(s) \in Nat
  OBVIOUS
<1>2. \A i \in 1..Len(s) : t[i] = s[i]
  OBVIOUS
<1>3. t[Len(s) + 1] = x
  OBVIOUS
<1> HIDE DEF t
<1>4. 1..Len(t) = 1..Len(s) \cup {Len(s) + 1}
  BY <1>1
<1>5. SetOf(t) = {t[i] : i \in 1..Len(s)} \cup {t[Len(s) + 1]}
  BY <1>4, Zenon DEF SetOf
<1>6. {t[i] : i \in 1..Len(s)} = SetOf(s)
  BY <1>2, Zenon DEF SetOf
<1> QED
  BY <1>3, <1>5, <1>6 DEF t

(* The record after a handler ended: the new element and what is left.       *)
LEMMA TailKeeps ==
    ASSUME NEW S, NEW s \in Seq(S), s # <<>>
    PROVE  /\ Head(s) \in S /\ Tail(s) \in Seq(S) /\ Len(Tail(s)) = Len(s) - 1
           /\ Head(s) \in SetOf(s)
           /\ SetOf(s) \subseteq SetOf(Tail(s)) \cup {Head(s)}
           /\ SetOf(Tail(s)) \subseteq SetOf(s)
<1>1. /\ Head(s) = s[1] /\ Len(s) \in Nat \ {0}
      /\ Head(s) \in S /\ Tail(s) \in Seq(S) /\ Len(Tail(s)) = Len(s) - 1
      /\ \A i \in 1..(Len(s) - 1) : Tail(s)[i] = s[i + 1]
  OBVIOUS
<1>2. SetOf(Tail(s)) \subseteq SetOf(s)
  BY <1>1 DEF SetOf
<1>3. ASSUME NEW i \in 1..Len(s) PROVE s[i] \in SetOf(Tail(s)) \cup {Head(s)}
  <2>1. CASE i = 1
    BY <2>1, <1>1
  <2>2. CASE i # 1
    <3>1. i - 1 \in 1..Len(Tail(s)) /\ Tail(s)[i - 1] = s[i]
      BY <2>2, <1>1
    <3> QED BY <3>1 DEF SetOf
  <2> QED BY <2>1, <2>2
<1> QED
  BY <1>1, <1>2, <1>3 DEF SetOf

LEMMA LineageFacts ==
    ASSUME post \in [Event -> Post], NEW e \in Event
    PROVE  /\ e \in Lineage(e)
           /\ \A x \in Lineage(e) :
                 post[x].parent # NoEvent => post[x].parent \in Lineage(e)
           /\ \A S \in SUBSET Event : e \in S /\ HoldsParents(S) => Lineage(e) \subseteq S
<1>1. e \in Lineage(e)
  BY DEF Lineage
<1>2. ASSUME NEW x \in Lineage(e), post[x].parent # NoEvent
      PROVE  post[x].parent \in Lineage(e)
  <2>1. x \in Event /\ post[x].parent \in Event
    BY <1>2 DEF Lineage, Post
  <2>2. ASSUME NEW S \in SUBSET Event, e \in S, HoldsParents(S)
        PROVE  post[x].parent \in S
    <3>1. x \in S
      BY <2>2 DEF Lineage
    <3> QED BY <3>1, <2>2, <1>2 DEF HoldsParents
  <2> QED BY <2>1, <2>2 DEF Lineage
<1>3. \A S \in SUBSET Event : e \in S /\ HoldsParents(S) => Lineage(e) \subseteq S
  BY DEF Lineage
<1> QED BY <1>1, <1>2, <1>3

-----------------------------------------------------------------------------
(* What a step of one handler leaves alone *)

Frame(h) ==
    /\ world' = world /\ up' = up /\ starts' = starts
    /\ \A g \in Handler \ {h} :
          /\ pc'[g] = pc[g] /\ job'[g] = job[g]
          /\ history'[g] = history[g] /\ topic'[g] = topic[g]

LEMMA HandlerFrame ==
    ASSUME TypeOK, NEW h \in Handler, Handle(h) \/ \E e \in Mention : Deliver(h, e)
    PROVE  Frame(h)
BY DEF TypeOK, Frame, Handle, Deliver, Skip, Climb, AtTop, CutShort, Decide, VerifyScope,
       RefuseScope, NoReply, Sign, Transmit, Published, Leave, world, threadVars,
       recordVars, boundVars

(* A handler that ends is remembered, and at most one event is forgotten.    *)
LEMMA LeaveRecords ==
    ASSUME TypeOK, MentionsAssumption, NEW h \in Handler, job[h] \in Mention, Leave(h)
    PROVE  /\ recent' \in Seq(Mention) /\ Len(recent') <= RecentLimit
           /\ forgotten' \in [Mention -> Nat]
           /\ Remembered' \subseteq Remembered \cup {job[h]}
           /\ job[h] \in Remembered'
           /\ \A e \in Mention :
                 \/ forgotten'[e] = forgotten[e] /\ (e \in Remembered => e \in Remembered')
                 \/ forgotten'[e] = forgotten[e] + 1
<1>1. recent \in Seq(Mention) /\ Len(recent) <= RecentLimit
  BY DEF TypeOK
<1>2. forgotten \in [Mention -> Nat]
  BY DEF TypeOK
<1>3. RecentLimit \in Nat \ {0}
  BY DEF MentionsAssumption
<1>4. CASE Len(recent) < RecentLimit
  <2>1. recent' = Append(recent, job[h]) /\ forgotten' = forgotten
    BY <1>4 DEF Leave
  <2>2. recent' \in Seq(Mention) /\ Len(recent') <= RecentLimit
    BY <2>1, <1>1, <1>3, <1>4
  <2>3. SetOf(recent') = SetOf(recent) \cup {job[h]}
    BY <2>1, <1>1, AppendAdds
  <2> QED BY <2>1, <2>2, <2>3, <1>2 DEF SetOf, Remembered
<1>5. CASE ~(Len(recent) < RecentLimit)
  <2>1. /\ recent' = Append(Tail(recent), job[h])
        /\ forgotten' = [forgotten EXCEPT ![Head(recent)] = @ + 1]
    BY <1>5 DEF Leave
  <2>2. recent # <<>> /\ Len(recent) = RecentLimit
    BY <1>1, <1>3, <1>5
  <2>3. /\ Head(recent) \in Mention /\ Tail(recent) \in Seq(Mention)
        /\ Len(Tail(recent)) = Len(recent) - 1
        /\ SetOf(recent) \subseteq SetOf(Tail(recent)) \cup {Head(recent)}
        /\ SetOf(Tail(recent)) \subseteq SetOf(recent)
    BY <2>2, <1>1, TailKeeps
  <2>4. recent' \in Seq(Mention) /\ Len(recent') <= RecentLimit
    BY <2>1, <2>2, <2>3, <1>3
  <2>5. SetOf(recent') = SetOf(Tail(recent)) \cup {job[h]}
    <3>1. \A s \in Seq(Mention), x \in Mention : SetOf(Append(s, x)) = SetOf(s) \cup {x}
      BY AppendAdds
    <3> QED BY <3>1, <2>1, <2>3, Zenon
  <2>6. /\ forgotten' \in [Mention -> Nat]
        /\ \A e \in Mention : forgotten'[e] = IF e = Head(recent) THEN forgotten[e] + 1
                                              ELSE forgotten[e]
    BY <2>1, <2>3, <1>2
  <2> QED BY <2>3, <2>4, <2>5, <2>6 DEF SetOf, Remembered
<1> QED BY <1>4, <1>5

-----------------------------------------------------------------------------
(* Types *)

(* What a handler at work has in its slot.                                   *)
LEMMA SlotFacts ==
    ASSUME TypeOK, HandInv, MentionsAssumption, NEW h \in Handler, pc[h] # "free"
    PROVE  /\ post \in [Event -> Post]
           /\ job[h] \in Mention /\ job[h] \in Event
           /\ history[h] \in Seq(Event) /\ Len(history[h]) \in Nat
           /\ Fetched(h) \subseteq Event /\ Chain(h) \subseteq Event
           /\ Current(h) \in Chain(h)
<1>1. post \in [Event -> Post]
  BY DEF TypeOK, MentionsAssumption
<1>2. job[h] \in Mention /\ job[h] \in Event
  BY DEF HandInv, MentionsAssumption
<1>3. history[h] \in Seq(Event) /\ Len(history[h]) \in Nat
  BY DEF TypeOK
<1>4. \A i \in 1..Len(history[h]) : history[h][i] \in Event
  BY <1>3
<1>5. Fetched(h) \subseteq Event
  BY <1>4 DEF Fetched
<1>6. Current(h) \in Chain(h)
  <2>1. CASE history[h] = <<>>
    BY <2>1 DEF Current, Chain
  <2>2. CASE history[h] # <<>>
    <3>1. Len(history[h]) \in 1..Len(history[h])
      BY <2>2, <1>3
    <3> QED BY <3>1, <2>2 DEF Current, Chain, Fetched
  <2> QED BY <2>1, <2>2
<1> QED BY <1>1, <1>2, <1>3, <1>5, <1>6 DEF Chain

LEMMA TypeStep == TypeOK /\ HandInv /\ [Next]_vars => TypeOK'
<1> SUFFICES ASSUME TypeOK, HandInv, [Next]_vars PROVE TypeOK'
  OBVIOUS
<1> USE MentionsAssumption
<1>1. CASE Stop
  <2>1. /\ pc' \in [Handler -> Await] /\ job' \in [Handler -> Mention \cup {NoEvent}]
        /\ history' \in [Handler -> Seq(Event)]
        /\ topic' \in [Handler -> Event \cup {NoEvent}]
    BY <1>1 DEF Stop, Await
  <2>2. recent' = <<>> /\ up' \in BOOLEAN
    BY <1>1 DEF Stop
  <2>3. recent' \in Seq(Mention) /\ Len(recent') <= RecentLimit
    <3>1. <<>> \in Seq(Mention) /\ Len(<<>>) = 0
      OBVIOUS
    <3>2. RecentLimit \in Nat
      BY DEF MentionsAssumption
    <3> QED BY <2>2, <3>1, <3>2
  <2> QED BY <2>3, <1>1, <2>1, <2>2 DEF TypeOK, Stop, world, boundVars
<1>2. CASE Start
  BY <1>2 DEF TypeOK, Start, world, threadVars, recordVars
<1>3. ASSUME NEW h \in Handler, NEW e \in Mention, Deliver(h, e) PROVE TypeOK'
  <2>1. pc' \in [Handler -> Await] /\ job' \in [Handler -> Mention \cup {NoEvent}]
    BY <1>3 DEF TypeOK, Deliver, Await
  <2>2. deliveries' \in Nat
    BY <1>3 DEF TypeOK, Deliver
  <2> QED BY <1>3, <2>1, <2>2 DEF TypeOK, Deliver, world, recordVars
<1>4. ASSUME NEW h \in Handler, pc[h] # "free", Leave(h),
             UNCHANGED <<world, up, reached, boundVars>>
      PROVE  TypeOK'
  <2>1. /\ recent' \in Seq(Mention) /\ Len(recent') <= RecentLimit
        /\ forgotten' \in [Mention -> Nat]
    BY <1>4, SlotFacts, LeaveRecords
  <2>2. /\ pc' \in [Handler -> Await] /\ job' \in [Handler -> Mention \cup {NoEvent}]
        /\ history' \in [Handler -> Seq(Event)]
        /\ topic' \in [Handler -> Event \cup {NoEvent}]
    BY <1>4 DEF TypeOK, Leave, Await
  <2> QED BY <1>4, <2>1, <2>2 DEF TypeOK, world, boundVars
<1>5. ASSUME NEW h \in Handler, Handle(h) PROVE TypeOK'
  <2>1. pc[h] # "free"
    BY <1>5 DEF Handle, Skip, Climb, AtTop, CutShort, VerifyScope, RefuseScope, NoReply,
                Sign, Transmit, Published
  <2>2. CASE Skip(h) \/ RefuseScope(h) \/ NoReply(h) \/ Published(h)
    BY <2>1, <2>2, <1>4 DEF Skip, RefuseScope, NoReply, Published
  <2>3. CASE Climb(h)
    <3>1. post[Current(h)].parent \in Event
      BY <2>1, <2>3, SlotFacts DEF Climb, MayClimb, Post
    <3>2. history' \in [Handler -> Seq(Event)]
      BY <2>3, <3>1 DEF Climb, TypeOK
    <3> QED BY <2>3, <3>2 DEF Climb, TypeOK, world, recordVars, boundVars
  <2>4. ASSUME NEW e \in Chain(h), Decide(h, e) PROVE TypeOK'
    <3>1. e \in Event
      BY <2>1, <2>4, SlotFacts
    <3> QED BY <2>4, <3>1 DEF Decide, TypeOK, Await, world, recordVars, boundVars
  <2>5. CASE AtTop(h) \/ CutShort(h)
    <3>1. job[h] \in Chain(h) /\ Current(h) \in Chain(h)
      BY <2>1, SlotFacts DEF Chain
    <3> QED BY <3>1, <2>4, <2>5 DEF AtTop, CutShort
  <2>6. CASE VerifyScope(h) \/ Sign(h)
    BY <2>6 DEF VerifyScope, Sign, TypeOK, Await, world, threadVars, recordVars, boundVars
  <2>7. CASE Transmit(h)
    BY <2>7, <2>1, SlotFacts DEF Transmit, TypeOK, Await, world, threadVars, recordVars,
                                 boundVars
  <2> QED BY <1>5, <2>2, <2>3, <2>5, <2>6, <2>7 DEF Handle
<1>6. CASE UNCHANGED vars
  BY <1>6 DEF TypeOK, vars, world, threadVars, recordVars, boundVars
<1> QED BY <1>1, <1>2, <1>3, <1>5, <1>6 DEF Next

-----------------------------------------------------------------------------
(* Who has an event in hand *)

LEMMA HandStep == TypeOK /\ HandInv /\ [Next]_vars => HandInv'
<1> SUFFICES ASSUME TypeOK, HandInv, [Next]_vars PROVE HandInv'
  OBVIOUS
<1> USE MentionsAssumption
<1>1. CASE Stop
  BY <1>1 DEF HandInv, Stop
<1>2. CASE Start
  BY <1>2 DEF HandInv, Start
<1>3. ASSUME NEW h \in Handler, NEW e \in Mention, Deliver(h, e) PROVE HandInv'
  <2>1. /\ pc' = [pc EXCEPT ![h] = "climb"] /\ job' = [job EXCEPT ![h] = e]
        /\ UNCHANGED <<post, fresh, up, recent, starts>>
    BY <1>3 DEF Deliver, world, recordVars
  <2>2. /\ up /\ fresh[e] >= starts /\ e \notin Remembered
        /\ post[e].kind = "comment" => post[e].valid
        /\ \A g \in Handler : pc[g] # "free" => job[g] # e
    BY <1>3 DEF Deliver, Pending
  <2>3. pc \in [Handler -> Await] /\ job \in [Handler -> Mention \cup {NoEvent}]
    BY DEF TypeOK
  <2>4. Remembered' = Remembered
    BY <2>1 DEF Remembered
  <2> QED BY <2>1, <2>2, <2>3, <2>4 DEF HandInv
<1>4. ASSUME NEW h \in Handler, pc[h] # "free", Leave(h), UNCHANGED <<world, up, boundVars>>
      PROVE  HandInv'
  <2>1. Remembered' \subseteq Remembered \cup {job[h]}
    BY <1>4, SlotFacts, LeaveRecords
  <2>2. /\ pc' = [pc EXCEPT ![h] = "free"] /\ job' = [job EXCEPT ![h] = NoEvent]
        /\ UNCHANGED <<post, fresh, up, starts>>
    BY <1>4 DEF Leave, world, boundVars
  <2>3. pc \in [Handler -> Await] /\ job \in [Handler -> Mention \cup {NoEvent}]
    BY DEF TypeOK
  <2>4. ASSUME NEW g \in Handler, pc'[g] # "free"
        PROVE  /\ g # h /\ pc[g] # "free" /\ job'[g] = job[g] /\ job[g] # job[h]
               /\ \A f \in Handler : pc'[f] # "free" =>
                     f # h /\ pc[f] # "free" /\ job'[f] = job[f]
    BY <2>2, <2>3, <2>4, <1>4 DEF HandInv
  <2> QED BY <2>1, <2>2, <2>4 DEF HandInv
<1>5. ASSUME NEW h \in Handler, pc[h] # "free", job' = job, recent' = recent,
             UNCHANGED <<world, up, starts>>,
             pc' = pc \/ \E a \in Await : pc' = [pc EXCEPT ![h] = a]
      PROVE  HandInv'
  <2>1. \A g \in Handler : pc'[g] # "free" => pc[g] # "free"
    BY <1>5 DEF TypeOK
  <2>2. Remembered' = Remembered
    BY <1>5 DEF Remembered
  <2> QED BY <1>5, <2>1, <2>2 DEF HandInv, world
<1>6. ASSUME NEW h \in Handler, Handle(h) PROVE HandInv'
  <2>1. pc[h] # "free"
    BY <1>6 DEF Handle, Skip, Climb, AtTop, CutShort, VerifyScope, RefuseScope, NoReply,
                Sign, Transmit, Published
  <2>2. CASE Skip(h) \/ RefuseScope(h) \/ NoReply(h) \/ Published(h)
    BY <2>1, <2>2, <1>4 DEF Skip, RefuseScope, NoReply, Published
  <2>3. CASE Climb(h)
    BY <2>1, <2>3, <1>5 DEF Climb, recordVars, boundVars
  <2>4. CASE AtTop(h) \/ CutShort(h)
    BY <2>1, <2>4, <1>5 DEF AtTop, CutShort, Decide, Await, recordVars, boundVars
  <2>5. CASE VerifyScope(h) \/ Sign(h) \/ Transmit(h)
    BY <2>1, <2>5, <1>5 DEF VerifyScope, Sign, Transmit, Await, threadVars, recordVars,
                            boundVars
  <2> QED BY <1>6, <2>2, <2>3, <2>4, <2>5 DEF Handle
<1>7. CASE UNCHANGED vars
  BY <1>7 DEF HandInv, Remembered, vars, world, threadVars, recordVars, boundVars
<1> QED BY <1>1, <1>2, <1>3, <1>6, <1>7 DEF Next

-----------------------------------------------------------------------------
(* One reply *)

LEMMA CountStep == TypeOK /\ HandInv /\ CountInv /\ [Next]_vars => CountInv'
<1> SUFFICES ASSUME TypeOK, HandInv, CountInv, [Next]_vars PROVE CountInv'
  OBVIOUS
<1> USE MentionsAssumption
<1>0. /\ fresh \in [Mention -> Nat] /\ starts \in Nat
      /\ reached \in [Mention -> Nat] /\ forgotten \in [Mention -> Nat]
      /\ \A e \in Mention : Lives(e) \in Nat
  BY DEF TypeOK, Lives
<1>1. CASE Stop
  <2>1. \A e \in Mention : Answered(e)' /\ Lives(e)' = Lives(e)
    BY <1>1 DEF Stop, Answered, Lives, world, boundVars
  <2>2. reached' = reached /\ forgotten' = forgotten
    BY <1>1 DEF Stop
  <2> QED BY <2>1, <2>2, <1>0 DEF CountInv
<1>2. CASE Start
  <2>1. reached' = reached /\ forgotten' = forgotten /\ fresh' = fresh
        /\ starts' = starts + 1
    BY <1>2 DEF Start, world, recordVars
  <2>2. ASSUME NEW e \in Mention
        PROVE  reached'[e] <= forgotten'[e] + Lives(e)' + (IF Answered(e)' THEN 1 ELSE 0)
    <3>1. reached[e] <= forgotten[e] + Lives(e) + 1
      BY <1>0 DEF CountInv
    <3>2. CASE fresh[e] < starts + 1
      <4>1. Answered(e)'
        BY <3>2, <2>1 DEF Answered
      <4>2. Lives(e)' = fresh[e]
        BY <3>2, <2>1 DEF Lives
      <4>3. Lives(e) = fresh[e]
        BY <3>2, <1>0 DEF Lives
      <4> QED BY <4>1, <4>2, <4>3, <3>1, <2>1
    <3>3. CASE ~(fresh[e] < starts + 1)
      <4>1. Lives(e)' = starts + 1 /\ Lives(e) = starts
        BY <3>3, <2>1, <1>0 DEF Lives
      <4> QED BY <4>1, <3>1, <2>1, <1>0
    <3> QED BY <3>2, <3>3
  <2> QED BY <2>2 DEF CountInv
<1>3. ASSUME UNCHANGED <<world, up, starts, recordVars, reached>>,
             \A h \in Handler : pc[h] = "sent" => pc'[h] = "sent" /\ job'[h] = job[h]
      PROVE  CountInv'
  <2>1. \A e \in Mention : Lives(e)' = Lives(e) /\ (Answered(e) => Answered(e)')
    BY <1>3 DEF Lives, Answered, Remembered, world, recordVars
  <2> QED BY <1>0, <1>3, <2>1 DEF CountInv, recordVars
<1>4. ASSUME NEW h \in Handler, pc[h] # "free", Leave(h),
             UNCHANGED <<world, up, reached, boundVars>>
      PROVE  CountInv'
  <2>1. /\ forgotten' \in [Mention -> Nat] /\ job[h] \in Remembered'
        /\ \A e \in Mention :
              \/ forgotten'[e] = forgotten[e] /\ (e \in Remembered => e \in Remembered')
              \/ forgotten'[e] = forgotten[e] + 1
    BY <1>4, SlotFacts, LeaveRecords
  <2>2. \A g \in Handler : pc[g] = "sent" => g = h \/ (pc'[g] = "sent" /\ job'[g] = job[g])
    BY <1>4 DEF Leave, TypeOK
  <2>3. ASSUME NEW e \in Mention
        PROVE  reached'[e] <= forgotten'[e] + Lives(e)' + (IF Answered(e)' THEN 1 ELSE 0)
    <3>1. Lives(e)' = Lives(e) /\ reached' = reached
      BY <1>4 DEF Lives, world, boundVars
    <3>2. reached[e] <= forgotten[e] + Lives(e) + (IF Answered(e) THEN 1 ELSE 0)
      BY DEF CountInv
    <3>3. CASE forgotten'[e] = forgotten[e] /\ (e \in Remembered => e \in Remembered')
      <4>1. Answered(e) => Answered(e)'
        BY <3>3, <2>1, <2>2, <1>4 DEF Answered, world, boundVars
      <4> QED BY <3>1, <3>2, <3>3, <4>1, <1>0
    <3>4. CASE forgotten'[e] = forgotten[e] + 1
      BY <3>1, <3>2, <3>4, <1>0
    <3> QED BY <2>1, <3>3, <3>4
  <2> QED BY <2>3 DEF CountInv
<1>5. ASSUME NEW h \in Handler, Transmit(h) PROVE CountInv'
  <2>1. /\ pc[h] = "publish" /\ pc' = [pc EXCEPT ![h] = "sent"] /\ job' = job
        /\ reached' = [reached EXCEPT ![job[h]] = @ + 1]
        /\ UNCHANGED <<world, up, recent, forgotten, starts>>
    BY <1>5 DEF Transmit, threadVars, recordVars, boundVars
  <2>2. job[h] \in Mention /\ ~Answered(job[h])
    BY <2>1, <1>0 DEF HandInv, Answered
  <2>3. \A e \in Mention : Lives(e)' = Lives(e) /\ (Answered(e) => Answered(e)')
    BY <2>1 DEF Lives, Answered, Remembered, world, TypeOK
  <2>4. Answered(job[h])'
    BY <2>1 DEF Answered, TypeOK
  <2> QED BY <2>1, <2>2, <2>3, <2>4, <1>0 DEF CountInv
<1>6. ASSUME NEW h \in Handler, Handle(h) PROVE CountInv'
  <2>1. pc[h] # "free"
    BY <1>6 DEF Handle, Skip, Climb, AtTop, CutShort, VerifyScope, RefuseScope, NoReply,
                Sign, Transmit, Published
  <2>2. CASE Skip(h) \/ RefuseScope(h) \/ NoReply(h) \/ Published(h)
    BY <2>1, <2>2, <1>4 DEF Skip, RefuseScope, NoReply, Published
  <2>3. CASE Climb(h)
    BY <2>3, <1>3 DEF Climb, boundVars
  <2>4. CASE AtTop(h) \/ CutShort(h)
    BY <2>4, <1>3 DEF AtTop, CutShort, Decide, boundVars, TypeOK
  <2>5. CASE VerifyScope(h) \/ Sign(h)
    BY <2>5, <1>3 DEF VerifyScope, Sign, threadVars, boundVars, TypeOK
  <2> QED BY <1>6, <2>2, <2>3, <2>4, <2>5, <1>5 DEF Handle
<1>7. ASSUME NEW h \in Handler, NEW e \in Mention, Deliver(h, e) PROVE CountInv'
  BY <1>7, <1>3 DEF Deliver, TypeOK
<1>8. CASE UNCHANGED vars
  BY <1>8, <1>3 DEF vars, threadVars, boundVars
<1> QED BY <1>1, <1>2, <1>6, <1>7, <1>8 DEF Next

-----------------------------------------------------------------------------
(* The walk *)

(* Nothing changes for a handler whose slot a step leaves alone.             *)
LEMMA Untouched ==
    ASSUME world' = world, NEW g \in Handler,
           job'[g] = job[g], history'[g] = history[g], topic'[g] = topic[g]
    PROVE  /\ Chain(g)' = Chain(g) /\ Current(g)' = Current(g) /\ Fetched(g)' = Fetched(g)
           /\ Lineage(job[g])' = Lineage(job[g])
           /\ WellJoined(g)' <=> WellJoined(g)
           /\ InScope(g)' <=> InScope(g)
<1>1. post' = post
  BY DEF world
<1>2. Fetched(g)' = Fetched(g)
  BY DEF Fetched
<1>3. Chain(g)' = Chain(g) /\ Current(g)' = Current(g)
  BY <1>2 DEF Chain, Current
<1>4. \A e : Lineage(e)' = Lineage(e)
  BY <1>1 DEF Lineage, HoldsParents
<1>5. \A S : OneRoot(S)' <=> OneRoot(S)
  BY <1>1 DEF OneRoot, Comments, ScopeFits
<1>6. WellJoined(g)' <=> WellJoined(g)
  BY <1>1, <1>3, <1>4, <1>5 DEF WellJoined
<1>7. InScope(g)' <=> InScope(g)
  BY <1>1, <1>2 DEF InScope, Shown, Comments, ScopeFits
<1> QED BY <1>2, <1>3, <1>4, <1>6, <1>7

(* One more ancestor.                                                        *)
LEMMA ClimbWalk ==
    ASSUME TypeOK, HandInv, WalkInv, MentionsAssumption, NEW h \in Handler, Climb(h)
    PROVE  /\ Chain(h)' \subseteq Lineage(job[h])'
           /\ Len(history[h])' <= MaxContext
           /\ job'[h] \notin Fetched(h)'
           /\ \A x \in Chain(h)' \ {Current(h)'} :
                 post'[x].valid /\ post'[x].parent \in Chain(h)'
           /\ post'[job'[h]].parent \in Fetched(h)'
<1> DEFINE p == post[Current(h)].parent
<1>1. /\ pc[h] = "climb" /\ post[Current(h)].valid /\ p # NoEvent
      /\ Len(history[h]) < MaxContext /\ p \notin Chain(h)
      /\ history' = [history EXCEPT ![h] = Append(@, p)]
      /\ post' = post /\ job' = job
  BY DEF Climb, MayClimb, world
<1>2. /\ post \in [Event -> Post] /\ job[h] \in Event
      /\ history[h] \in Seq(Event) /\ Len(history[h]) \in Nat
      /\ Chain(h) \subseteq Event /\ Current(h) \in Chain(h)
  BY <1>1, SlotFacts
<1>3. p \in Event
  BY <1>1, <1>2 DEF Post
<1>4. history'[h] = Append(history[h], p)
  BY <1>1 DEF TypeOK
<1>5. Fetched(h)' = Fetched(h) \cup {p}
  <2>1. SetOf(Append(history[h], p)) = SetOf(history[h]) \cup {p}
    BY <1>2, <1>3, AppendAdds
  <2> QED BY <2>1, <1>4 DEF SetOf, Fetched
<1>6. Chain(h)' = Chain(h) \cup {p}
  BY <1>5, <1>1 DEF Chain
<1>7. Current(h)' = p /\ Len(history[h])' = Len(history[h]) + 1
  <2> HIDE DEF p
  <2>1. /\ Append(history[h], p) # <<>>
        /\ Len(Append(history[h], p)) = Len(history[h]) + 1
        /\ Append(history[h], p)[Len(history[h]) + 1] = p
    BY <1>2, <1>3
  <2> QED BY <2>1, <1>4 DEF Current
<1> HIDE DEF p
<1>8. /\ Chain(h) \subseteq Lineage(job[h]) /\ job[h] \notin Fetched(h)
      /\ \A x \in Chain(h) \ {Current(h)} : post[x].valid /\ post[x].parent \in Chain(h)
      /\ history[h] # <<>> => post[job[h]].parent \in Fetched(h)
  BY <1>1 DEF WalkInv
<1>9. p \in Lineage(job[h])
  BY <1>1, <1>2, <1>8, LineageFacts DEF p
<1>10. Lineage(job[h])' = Lineage(job[h])
  BY <1>1 DEF Lineage, HoldsParents
<1>11. Len(history[h])' <= MaxContext
  BY <1>1, <1>2, <1>7 DEF MentionsAssumption
<1>12. job'[h] \notin Fetched(h)'
  BY <1>1, <1>5, <1>8 DEF Chain
<1>13. \A x \in Chain(h)' \ {Current(h)'} :
          post'[x].valid /\ post'[x].parent \in Chain(h)'
  BY <1>1, <1>6, <1>7, <1>8 DEF p
<1>14. post'[job'[h]].parent \in Fetched(h)'
  <2>1. CASE history[h] = <<>>
    <3>1. Current(h) = job[h]
      BY <2>1 DEF Current
    <3> QED BY <3>1, <1>1, <1>5 DEF p
  <2>2. CASE history[h] # <<>>
    BY <2>2, <1>1, <1>5, <1>8
  <2> QED BY <2>1, <2>2
<1> QED BY <1>6, <1>8, <1>9, <1>10, <1>11, <1>12, <1>13, <1>14, <1>1

(* Only the event the walk is at may have nothing above it.                  *)
LEMMA OnlyTop ==
    ASSUME TypeOK, HandInv, WalkInv, MentionsAssumption, NEW h \in Handler, pc[h] # "free",
           NEW x \in Chain(h), post[x].parent = NoEvent
    PROVE  x = Current(h)
<1>1. NoEvent \notin Chain(h)
  BY SlotFacts DEF MentionsAssumption
<1> QED BY <1>1 DEF WalkInv

(* The walk is somewhere else than at the mention once it has fetched.       *)
LEMMA AtMention ==
    ASSUME TypeOK, HandInv, WalkInv, MentionsAssumption, NEW h \in Handler, pc[h] # "free"
    PROVE  Current(h) = job[h] <=> history[h] = <<>>
<1>1. CASE history[h] = <<>>
  BY <1>1 DEF Current
<1>2. CASE history[h] # <<>>
  <2>1. Len(history[h]) \in 1..Len(history[h])
    BY <1>2, SlotFacts
  <2>2. Current(h) \in Fetched(h)
    BY <1>2, <2>1 DEF Current, Fetched
  <2> QED BY <1>2, <2>2 DEF WalkInv
<1> QED BY <1>1, <1>2

(* What Decide leaves of a slot.                                             *)
LEMMA Decided ==
    ASSUME TypeOK, NEW h \in Handler, NEW e, Decide(h, e)
    PROVE  /\ post' = post /\ job' = job /\ history' = history /\ topic'[h] = e
           /\ Chain(h)' = Chain(h) /\ Lineage(job[h])' = Lineage(job[h])
           /\ OneRoot(Lineage(job[h]))' <=> OneRoot(Lineage(job[h]))
<1>1. post' = post /\ job' = job /\ history' = history /\ topic'[h] = e
  BY DEF Decide, TypeOK, world
<1> QED BY <1>1 DEF Chain, Fetched, Lineage, HoldsParents, OneRoot, Comments, ScopeFits

LEMMA AtTopJoins ==
    ASSUME TypeOK, HandInv, WalkInv, MentionsAssumption, NEW h \in Handler, AtTop(h)
    PROVE  WellJoined(h)'
<1> DEFINE top == Current(h)
           e == IF Agreed(h, top) THEN top ELSE job[h]
           line == Lineage(job[h])
<1>1. pc[h] # "free" /\ post[top].valid /\ post[top].parent = NoEvent /\ Decide(h, e)
  BY DEF AtTop
<1>2. /\ post \in [Event -> Post] /\ job[h] \in Event /\ job[h] \in Chain(h)
      /\ Chain(h) \subseteq Event /\ top \in Chain(h)
  BY <1>1, SlotFacts DEF Chain
<1>3. /\ Chain(h) \subseteq line /\ Len(history[h]) <= MaxContext
      /\ \A x \in Chain(h) \ {top} : post[x].valid /\ post[x].parent \in Chain(h)
  BY <1>1 DEF WalkInv
<1>4. Chain(h) = line
  <2>1. HoldsParents(Chain(h))
    BY <1>1, <1>3 DEF HoldsParents
  <2> QED BY <2>1, <1>2, <1>3, LineageFacts
<1>5. OneRoot(line) <=> Agreed(h, top)
  <2>1. \A x \in line : post[x].valid
    BY <1>1, <1>3, <1>4
  <2>2. \A x \in line : post[x].parent = NoEvent => x = top
    BY <1>1, <1>4, OnlyTop
  <2> QED BY <2>1, <2>2, <1>1, <1>2, <1>4 DEF OneRoot, Agreed
<1>6. top # job[h] <=> history[h] # <<>>
  BY <1>1, AtMention
<1>7. e # job[h] <=> (Chain(h) = line /\ history[h] # <<>> /\ OneRoot(line))
  BY <1>4, <1>5, <1>6
<1>8. e # job[h] => e \in line /\ post[e].parent = NoEvent
  BY <1>1, <1>2, <1>4
<1> HIDE DEF e, top, line
<1>9. /\ post' = post /\ job' = job /\ history' = history /\ topic'[h] = e
      /\ Chain(h)' = Chain(h) /\ Lineage(job[h])' = line
      /\ OneRoot(Lineage(job[h]))' <=> OneRoot(line)
  BY <1>1, Decided DEF line
<1> QED BY <1>3, <1>7, <1>8, <1>9 DEF WellJoined

LEMMA CutShortJoins ==
    ASSUME TypeOK, HandInv, WalkInv, MentionsAssumption, NEW h \in Handler, CutShort(h)
    PROVE  WellJoined(h)'
<1> DEFINE line == Lineage(job[h])
<1>1. /\ pc[h] # "free" /\ Decide(h, job[h])
      /\ post[Current(h)].valid => post[Current(h)].parent # NoEvent
  BY DEF CutShort
<1>2. Current(h) \in Chain(h)
  BY <1>1, SlotFacts
<1>3. Chain(h) \subseteq line /\ Len(history[h]) <= MaxContext
  BY <1>1 DEF WalkInv
<1>4. ASSUME Chain(h) = line, OneRoot(line) PROVE FALSE
  <2>1. PICK x \in Chain(h) : post[x].parent = NoEvent
    BY <1>4 DEF OneRoot
  <2>2. x = Current(h)
    BY <2>1, <1>1, OnlyTop
  <2> QED BY <2>1, <2>2, <1>1, <1>2, <1>4 DEF OneRoot
<1> HIDE DEF line
<1>5. /\ post' = post /\ job' = job /\ history' = history /\ topic'[h] = job[h]
      /\ Chain(h)' = Chain(h) /\ Lineage(job[h])' = line
      /\ OneRoot(Lineage(job[h]))' <=> OneRoot(line)
  BY <1>1, Decided DEF line
<1> QED BY <1>3, <1>4, <1>5 DEF WellJoined

-----------------------------------------------------------------------------
(* The walk, the topic and the scope are kept by every step *)

PathInv == WalkInv /\ TopicInv /\ ScopeInv

(* Every slot but one that a step may have touched.                          *)
SlotInv(h) ==
    /\ pc[h] = "free" => history[h] = <<>>
    /\ pc[h] # "free" =>
          /\ Chain(h) \subseteq Lineage(job[h]) /\ Len(history[h]) <= MaxContext
          /\ job[h] \notin Fetched(h)
          /\ \A x \in Chain(h) \ {Current(h)} :
                post[x].valid /\ post[x].parent \in Chain(h)
          /\ history[h] # <<>> => post[job[h]].parent \in Fetched(h)
    /\ pc[h] \in Answering \cup {"scope"} => WellJoined(h)
    /\ pc[h] \in Answering /\ post[job[h]].kind = "comment" => InScope(h)

LEMMA BySlot == PathInv <=> \A h \in Handler : SlotInv(h)
BY DEF PathInv, WalkInv, TopicInv, ScopeInv, SlotInv

LEMMA SlotKept ==
    ASSUME world' = world, NEW g \in Handler, SlotInv(g),
           pc'[g] = pc[g], job'[g] = job[g], history'[g] = history[g], topic'[g] = topic[g]
    PROVE  SlotInv(g)'
<1>1. /\ Chain(g)' = Chain(g) /\ Current(g)' = Current(g) /\ Fetched(g)' = Fetched(g)
      /\ Lineage(job[g])' = Lineage(job[g])
      /\ WellJoined(g)' <=> WellJoined(g)
      /\ InScope(g)' <=> InScope(g)
  BY Untouched
<1> QED BY <1>1 DEF SlotInv, world

(* A slot that only moves on from one await to the next.                     *)
LEMMA SlotMoves ==
    ASSUME TypeOK, world' = world, UNCHANGED threadVars, NEW h \in Handler, SlotInv(h),
           pc[h] # "free", pc'[h] # "free",
           pc[h] \in Answering \cup {"scope"},
           pc[h] \in Answering \/ InScope(h)
    PROVE  SlotInv(h)'
<1>1. /\ Chain(h)' = Chain(h) /\ Current(h)' = Current(h) /\ Fetched(h)' = Fetched(h)
      /\ Lineage(job[h])' = Lineage(job[h])
      /\ WellJoined(h)' <=> WellJoined(h)
      /\ InScope(h)' <=> InScope(h)
  BY Untouched DEF threadVars
<1> QED BY <1>1 DEF SlotInv, world, threadVars

LEMMA SlotHandled ==
    ASSUME TypeOK, HandInv, PathInv, MentionsAssumption, NEW h \in Handler, Handle(h)
    PROVE  SlotInv(h)'
<1>0. WalkInv /\ SlotInv(h)
  BY BySlot DEF PathInv
<1>1. CASE Skip(h) \/ RefuseScope(h) \/ NoReply(h) \/ Published(h)
  <2>1. pc'[h] = "free" /\ history'[h] = <<>>
    BY <1>1 DEF Skip, RefuseScope, NoReply, Published, Leave, TypeOK
  <2> QED BY <2>1 DEF SlotInv, Answering
<1>2. CASE Climb(h)
  <2>1. pc'[h] = "climb" /\ history'[h] \in Seq(Event)
    BY <1>2, TypeStep DEF Climb, TypeOK, Next
  <2>2. /\ Chain(h)' \subseteq Lineage(job[h])'
        /\ Len(history[h])' <= MaxContext
        /\ job'[h] \notin Fetched(h)'
        /\ \A x \in Chain(h)' \ {Current(h)'} :
              post'[x].valid /\ post'[x].parent \in Chain(h)'
        /\ post'[job'[h]].parent \in Fetched(h)'
    BY <1>0, <1>2, ClimbWalk
  <2> QED BY <2>1, <2>2 DEF SlotInv, Answering
<1>3. CASE AtTop(h) \/ CutShort(h)
  <2>1. WellJoined(h)'
    BY <1>0, <1>3, AtTopJoins, CutShortJoins
  <2>2. PICK e : Decide(h, e) /\ pc[h] = "climb"
    BY <1>3 DEF AtTop, CutShort
  <2>3. /\ world' = world /\ job' = job /\ history' = history /\ pc'[h] # "free"
        /\ pc'[h] = "run" => post[job[h]].kind # "comment"
        /\ pc'[h] \in {"run", "scope"}
    BY <2>2 DEF Decide, TypeOK
  <2>4. /\ Chain(h)' = Chain(h) /\ Current(h)' = Current(h) /\ Fetched(h)' = Fetched(h)
        /\ Lineage(job[h])' = Lineage(job[h])
    BY <2>3 DEF Chain, Current, Fetched, Lineage, HoldsParents, world
  <2> QED BY <1>0, <2>1, <2>2, <2>3, <2>4 DEF SlotInv, Answering, world
<1>4. CASE VerifyScope(h) \/ Sign(h) \/ Transmit(h)
  <2>1. /\ world' = world /\ UNCHANGED threadVars /\ pc[h] # "free" /\ pc'[h] # "free"
        /\ pc[h] \in Answering \cup {"scope"}
        /\ pc[h] \in Answering \/ InScope(h)
    BY <1>4 DEF VerifyScope, Sign, Transmit, TypeOK, Answering
  <2> QED BY <1>0, <2>1, SlotMoves
<1> QED BY <1>1, <1>2, <1>3, <1>4 DEF Handle

LEMMA PathStep == TypeOK /\ HandInv /\ PathInv /\ [Next]_vars => PathInv'
<1> SUFFICES ASSUME TypeOK, HandInv, PathInv, [Next]_vars
             PROVE  \A g \in Handler : SlotInv(g)'
  BY DEF PathInv, WalkInv, TopicInv, ScopeInv, SlotInv
<1> USE MentionsAssumption
<1>0. \A g \in Handler : SlotInv(g)
  BY BySlot
<1>1. CASE Stop
  <2>1. \A g \in Handler : pc'[g] = "free" /\ history'[g] = <<>>
    BY <1>1 DEF Stop
  <2> QED BY <2>1 DEF SlotInv, Answering
<1>2. ASSUME NEW h \in Handler, Handle(h) PROVE \A g \in Handler : SlotInv(g)'
  <2>1. Frame(h)
    BY <1>2, HandlerFrame
  <2>2. \A g \in Handler \ {h} : SlotInv(g)'
    BY <1>0, <2>1, SlotKept DEF Frame
  <2>3. SlotInv(h)'
    BY <1>2, SlotHandled
  <2> QED BY <2>2, <2>3
<1>3. ASSUME NEW h \in Handler, NEW e \in Mention, Deliver(h, e)
      PROVE  \A g \in Handler : SlotInv(g)'
  <2>1. Frame(h)
    BY <1>3, HandlerFrame
  <2>2. \A g \in Handler \ {h} : SlotInv(g)'
    BY <1>0, <2>1, SlotKept DEF Frame
  <2>3. /\ pc'[h] = "climb" /\ job'[h] = e /\ history'[h] = <<>> /\ post' = post
    BY <1>0, <1>3 DEF Deliver, TypeOK, SlotInv, world
  <2>4. Fetched(h)' = {} /\ Chain(h)' = {e} /\ Current(h)' = e
    <3>1. 1..Len(<<>>) = {}
      OBVIOUS
    <3> QED BY <2>3, <3>1 DEF Fetched, Chain, Current
  <2>5. e \in Lineage(e)'
    BY DEF Lineage, MentionsAssumption
  <2>6. Len(history[h])' <= MaxContext
    BY <2>3 DEF MentionsAssumption
  <2>7. SlotInv(h)'
    BY <2>3, <2>4, <2>5, <2>6 DEF SlotInv, Answering
  <2> QED BY <2>2, <2>7
<1>4. CASE Start \/ UNCHANGED vars
  <2>1. /\ world' = world
        /\ \A g \in Handler : /\ pc'[g] = pc[g] /\ job'[g] = job[g]
                              /\ history'[g] = history[g] /\ topic'[g] = topic[g]
    BY <1>4 DEF Start, vars, threadVars
  <2> QED BY <1>0, <2>1, SlotKept
<1> QED BY <1>1, <1>2, <1>3, <1>4 DEF Next

-----------------------------------------------------------------------------
(* Theorems *)

(* The inductive invariant of the handlers of nostr.py holds in every state. *)
THEOREM MentionsInvariance == Spec => []IInv
<1> USE MentionsAssumption
<1>1. Init => IInv
  <2> SUFFICES ASSUME Init PROVE IInv
    OBVIOUS
  <2>1. TypeOK
    <3>1. <<>> \in Seq(Mention) /\ <<>> \in Seq(Event) /\ Len(<<>>) = 0
      OBVIOUS
    <3>2. fresh \in [Mention -> Nat]
      BY DEF Init, MentionsAssumption
    <3>3. recent \in Seq(Mention) /\ Len(recent) <= RecentLimit
      BY <3>1 DEF Init, MentionsAssumption
    <3>4. /\ pc \in [Handler -> Await] /\ job \in [Handler -> Mention \cup {NoEvent}]
          /\ history \in [Handler -> Seq(Event)]
          /\ topic \in [Handler -> Event \cup {NoEvent}]
      BY <3>1 DEF Init, Await
    <3> QED BY <3>2, <3>3, <3>4 DEF Init, TypeOK
  <2>2. HandInv /\ WalkInv /\ TopicInv /\ ScopeInv
    BY DEF Init, HandInv, WalkInv, TopicInv, ScopeInv, Answering
  <2>3. CountInv
    BY <2>1 DEF Init, CountInv, Lives, TypeOK
  <2> QED BY <2>1, <2>2, <2>3 DEF IInv
<1>2. IInv /\ [Next]_vars => IInv'
  BY TypeStep, HandStep, CountStep, PathStep DEF IInv, PathInv
<1> QED BY <1>1, <1>2, PTL DEF Spec

(* nostr.py:256: a mention gets one reply, another only after the record     *)
(* forgot it, and one more for each restart that it is not too old for.      *)
THEOREM RepliesOnce == Spec => []OneReply
<1> USE MentionsAssumption
<1>1. IInv => OneReply
  <2> SUFFICES ASSUME IInv, NEW e \in Mention
               PROVE  reached[e] <= 1 + forgotten[e] + Lives(e)
    BY DEF OneReply
  <2>1. reached[e] \in Nat /\ forgotten[e] \in Nat /\ Lives(e) \in Nat
    BY DEF IInv, TypeOK, Lives
  <2>2. reached[e] <= forgotten[e] + Lives(e) + (IF Answered(e) THEN 1 ELSE 0)
    BY DEF IInv, CountInv
  <2> QED BY <2>1, <2>2
<1> QED BY <1>1, MentionsInvariance, PTL

(* nostr.py:313: a mention joins the conversation at the top of its thread   *)
(* exactly if the walk saw all of the thread above it and all of it agrees.  *)
THEOREM SharesOnlyComplete == Spec => []SharedOnlyIfComplete
<1>1. IInv => SharedOnlyIfComplete
  BY DEF IInv, TopicInv, SharedOnlyIfComplete
<1> QED BY <1>1, MentionsInvariance, PTL

(* A comment is answered under the root it names, which no comment shown to  *)
(* the agent contradicts, and shares at most the conversation of that root.  *)
THEOREM AnswersInScope == Spec => []AnsweredInScope
<1> USE MentionsAssumption
<1>1. IInv => AnsweredInScope
  <2> SUFFICES ASSUME IInv, NEW h \in Handler, pc[h] \in Answering,
                      post[job[h]].kind = "comment"
               PROVE  LET root == post[job[h]].root IN
                      /\ post[root].kind # "comment"
                      /\ \A a \in Comments({post[job[h]].parent} \cup Fetched(h)) :
                            post[a].root = root
                      /\ topic[h] \in {job[h], root}
    BY DEF AnsweredInScope
  <2> DEFINE root == post[job[h]].root
  <2>0. TypeOK /\ HandInv /\ WalkInv /\ pc[h] # "free"
    BY DEF IInv, Answering
  <2>1. InScope(h) /\ WellJoined(h)
    BY DEF IInv, ScopeInv, TopicInv
  <2>2. post[root].kind # "comment"
    BY <2>1 DEF InScope, ScopeFits
  <2>3. {post[job[h]].parent} \cup Fetched(h) \subseteq Shown(h)
    <3>1. CASE history[h] = <<>>
      <4>1. Fetched(h) = {}
        BY <3>1 DEF Fetched
      <4> QED BY <3>1, <4>1 DEF Shown
    <3>2. CASE history[h] # <<>>
      BY <2>0, <3>2 DEF WalkInv, Shown
    <3> QED BY <3>1, <3>2
  <2>4. \A a \in Comments({post[job[h]].parent} \cup Fetched(h)) : post[a].root = root
    BY <2>1, <2>3 DEF InScope, Comments
  <2>5. ASSUME topic[h] # job[h] PROVE topic[h] = root
    <3>1. /\ Chain(h) = Lineage(job[h]) /\ OneRoot(Lineage(job[h]))
          /\ topic[h] \in Chain(h) /\ post[topic[h]].parent = NoEvent
      BY <2>1, <2>5 DEF WellJoined
    <3>2. PICK top \in Chain(h) :
             post[top].parent = NoEvent /\ \A e \in Chain(h) : post[e].root \in {NoEvent, top}
      BY <3>1 DEF OneRoot
    <3>3. top = topic[h]
      BY <2>0, <3>1, <3>2, OnlyTop
    <3>4. job[h] \in Chain(h) /\ job[h] \in Event /\ post[job[h]].valid
      BY <2>0, SlotFacts DEF Chain, HandInv
    <3>5. root # NoEvent
      BY <2>0, <3>4 DEF TypeOK, MentionsAssumption
    <3> QED BY <3>2, <3>3, <3>4, <3>5
  <2> QED BY <2>2, <2>4, <2>5
<1> QED BY <1>1, MentionsInvariance, PTL
=============================================================================
