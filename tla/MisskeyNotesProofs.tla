------------------------- MODULE MisskeyNotesProofs -------------------------
(* Proofs about MisskeyNotes, for any notes, any number of handlers, any     *)
(* size of the record and any interval and jitter.                           *)
EXTENDS MisskeyNotes, TLAPS

(* One if the note is remembered. *)
Kept(n) == IF n \in Remembered THEN 1 ELSE 0

-----------------------------------------------------------------------------
(* The record of recent notes *)

(* A note that is remembered stays so or is counted as forgotten, and only   *)
(* the new one comes in.                                                     *)
LEMMA RememberNote ==
    ASSUME NEW n \in Note, recent \in Seq(Note), Len(recent) <= RecentLimit,
           forgotten \in [Note -> Nat], Remember(n)
    PROVE  /\ recent' \in Seq(Note) /\ Len(recent') <= RecentLimit
           /\ forgotten' \in [Note -> Nat]
           /\ n \in Remembered'
           /\ \A m \in Remembered' : m = n \/ m \in Remembered
           /\ \A m \in Note : forgotten[m] + Kept(m) <= forgotten'[m] + Kept(m)'
           /\ \A m \in Note : forgotten[m] <= forgotten'[m]
<1> USE NotesAssumption
<1>1. CASE n \in Remembered
  <2>1. recent' = recent /\ forgotten' = forgotten
    BY <1>1 DEF Remember
  <2>2. Remembered' = Remembered
    BY <2>1 DEF Remembered
  <2>3. \A m \in Note : Kept(m)' = Kept(m) /\ Kept(m) \in {0, 1} /\ forgotten[m] \in Nat
    BY <2>2 DEF Kept
  <2>4. QED BY <1>1, <2>1, <2>2, <2>3
<1>2. CASE n \notin Remembered /\ Len(recent) < RecentLimit
  <2>1. recent' = Append(recent, n) /\ forgotten' = forgotten
    BY <1>2 DEF Remember
  <2>2. /\ recent' \in Seq(Note) /\ Len(recent') = Len(recent) + 1
        /\ recent'[Len(recent) + 1] = n
        /\ \A i \in 1..Len(recent) : recent'[i] = recent[i]
    BY <2>1
  <2>3. \A m \in Remembered : m \in Remembered'
    BY <2>2 DEF Remembered
  <2>4. n \in Remembered' /\ \A m \in Remembered' : m = n \/ m \in Remembered
    <3>1. Len(recent) + 1 \in 1..Len(recent')
      BY <2>2
    <3>2. n \in Remembered'
      BY <2>2, <3>1 DEF Remembered
    <3>3. \A i \in 1..Len(recent') : i = Len(recent) + 1 \/ i \in 1..Len(recent)
      BY <2>2
    <3>4. \A m \in Remembered' : m = n \/ m \in Remembered
      BY <2>2, <3>3 DEF Remembered
    <3>5. QED BY <3>2, <3>4
  <2>5. ASSUME NEW m \in Note
        PROVE  forgotten[m] + Kept(m) <= forgotten'[m] + Kept(m)'
    <3>1. forgotten'[m] = forgotten[m] /\ forgotten[m] \in Nat
      BY <2>1
    <3>2. Kept(m) \in {0, 1} /\ Kept(m)' \in {0, 1} /\ Kept(m) <= Kept(m)'
      BY <2>3 DEF Kept
    <3>3. QED BY <3>1, <3>2
  <2>6. Len(recent') <= RecentLimit
    BY <1>2, <2>2
  <2>7. QED BY <2>1, <2>2, <2>4, <2>5, <2>6
<1>3. CASE n \notin Remembered /\ ~(Len(recent) < RecentLimit)
  <2>1. recent' = Append(Tail(recent), n) /\ Len(recent) > 0
        /\ forgotten' = [forgotten EXCEPT ![Head(recent)] = @ + 1]
    BY <1>3 DEF Remember
  <2>2. Tail(recent) \in Seq(Note) /\ Len(Tail(recent)) = Len(recent) - 1
        /\ \A i \in 1..(Len(recent) - 1) : Tail(recent)[i] = recent[i + 1]
    BY <2>1
  <2>3. /\ recent' \in Seq(Note) /\ Len(recent') = Len(recent)
        /\ recent'[Len(recent)] = n
        /\ \A i \in 1..(Len(recent) - 1) : recent'[i] = recent[i + 1]
    BY <2>1, <2>2
  <2>4. Head(recent) = recent[1] /\ recent[1] \in Note
    BY <2>1
  <2>5. \A m \in Remembered : m = Head(recent) \/ m \in Remembered'
    <3>1. ASSUME NEW i \in 1..Len(recent), i # 1
          PROVE  recent[i] \in Remembered'
      <4>1. i - 1 \in 1..(Len(recent) - 1) /\ (i - 1) + 1 = i
        BY <2>1, <3>1
      <4>2. recent'[i - 1] = recent[i]
        BY <2>3, <4>1
      <4>3. i - 1 \in 1..Len(recent')
        BY <2>3, <4>1
      <4>4. QED BY <4>2, <4>3 DEF Remembered
    <3>2. QED BY <2>4, <3>1 DEF Remembered
  <2>6. n \in Remembered' /\ \A m \in Remembered' : m = n \/ m \in Remembered
    <3>1. n \in Remembered'
      <4>1. Len(recent) \in 1..Len(recent')
        BY <2>1, <2>3
      <4>2. QED BY <2>3, <4>1 DEF Remembered
    <3>2. ASSUME NEW i \in 1..Len(recent')
          PROVE  recent'[i] = n \/ recent'[i] \in Remembered
      <4>1. CASE i = Len(recent)
        BY <2>3, <4>1
      <4>2. CASE i # Len(recent)
        <5>1. i + 1 \in 1..Len(recent) /\ recent'[i] = recent[i + 1]
          BY <2>3, <3>2, <4>2
        <5>2. QED BY <5>1 DEF Remembered
      <4>3. QED BY <4>1, <4>2
    <3>3. QED BY <3>1, <3>2 DEF Remembered
  <2>7. ASSUME NEW m \in Note
        PROVE  forgotten[m] + Kept(m) <= forgotten'[m] + Kept(m)'
    <3>1. CASE m = Head(recent)
      <4>1. forgotten'[m] = forgotten[m] + 1
        BY <2>1, <3>1
      <4>2. QED BY <4>1 DEF Kept
    <3>2. CASE m # Head(recent)
      <4>1. forgotten'[m] = forgotten[m]
        BY <2>1, <3>2
      <4>2. QED BY <2>5, <3>2, <4>1 DEF Kept
    <3>3. QED BY <3>1, <3>2
  <2>8. QED BY <1>3, <2>1, <2>3, <2>4, <2>6, <2>7
<1>4. QED BY <1>1, <1>2, <1>3

-----------------------------------------------------------------------------
(* Tasks *)

TaskType ==
    /\ pc \in [Handler -> Await] /\ job \in [Handler -> Note \cup {NoNote}]
    /\ channel \in [Handler -> {"main", "timeline"}]
    /\ verdict \in [Handler -> {"pending", "handled", "failed"}]
    /\ owner \in [Note -> Handler \cup {NoHandler}]

TaskInv == TaskType /\ OwnerInv /\ WaitInv

(* A task that gives up or is relieved had no note in hand.                  *)
LEMMA GiveUpTask ==
    ASSUME TaskInv, NEW h \in Handler, pc[h] \in {"spawned", "wait"}, GiveUp(h),
           UNCHANGED handled
    PROVE  TaskInv' /\ (\A g \in Handler : pc'[g] \in Working => pc'[g] = pc[g] /\ job'[g] = job[g])
<1> USE NotesAssumption DEF TaskInv, GiveUp, Leave
<1>1. TaskType'
  BY DEF TaskType, Await
<1>2. OwnerInv'
  BY DEF TaskType, OwnerInv, Working
<1>3. WaitInv'
  BY DEF TaskType, WaitInv
<1>4. QED BY <1>1, <1>2, <1>3 DEF TaskType, Working

(* A task that takes a free note is alone with it.                           *)
LEMMA TakeTask ==
    ASSUME TaskInv, NEW h \in Handler, Unclaimed(h), NEW await \in {"save", "run"},
           TakeNote(h, await), UNCHANGED handled
    PROVE  TaskInv' /\ job' = job /\ pc' = [pc EXCEPT ![h] = await]
<1> USE NotesAssumption DEF TaskInv, TakeNote
<1>1. job[h] \in Note /\ owner[job[h]] = NoHandler /\ pc[h] \in {"spawned", "wait"}
  BY DEF Unclaimed, Competes, WaitInv
<1>2. TaskType'
  BY <1>1 DEF TaskType, Await
<1>3. OwnerInv'
  BY <1>1 DEF TaskType, OwnerInv, Working
<1>4. WaitInv'
  BY <1>1 DEF TaskType, WaitInv
<1>5. QED BY <1>2, <1>3, <1>4

(* A task that releases its note resolves every future that waits for it.    *)
LEMMA ReleaseTask ==
    ASSUME TaskInv, NEW h \in Handler, pc[h] \in Working,
           NEW result \in {"handled", "failed"}, Tell(h, result), Release(h),
           handled \in [Note -> Nat], handled' \in [Note -> Nat],
           \A n \in Note : handled[n] <= handled'[n],
           result = "handled" => handled'[job[h]] > 0
    PROVE  /\ TaskInv'
           /\ \A g \in Handler \ {h} : pc'[g] = pc[g] /\ job'[g] = job[g]
           /\ pc'[h] = "free"
<1> USE NotesAssumption DEF TaskInv, Tell, Release, Leave
<1>1. job[h] \in Note /\ owner[job[h]] = h
  BY DEF OwnerInv, WaitInv, Working
<1>2. TaskType'
  BY <1>1 DEF TaskType, Await
<1>3. \A g \in Handler \ {h} : pc'[g] = pc[g] /\ job'[g] = job[g]
  BY DEF TaskType
<1>4. pc'[h] = "free" /\ job'[h] = NoNote
  BY DEF TaskType
<1>5. OwnerInv'
  BY <1>1, <1>3, <1>4 DEF TaskType, OwnerInv, Working
<1>6. WaitInv'
  <2> SUFFICES ASSUME NEW g \in Handler
               PROVE  WaitInv!(g)'
    BY DEF WaitInv
  <2>1. CASE g = h
    BY <1>4, <2>1
  <2>2. CASE g # h
    <3>1. pc'[g] = pc[g] /\ job'[g] = job[g]
      BY <1>3, <2>2
    <3>2. CASE pc[g] = "wait" /\ job[g] = job[h] /\ verdict[g] = "pending"
      BY <1>1, <3>1, <3>2 DEF WaitInv
    <3>3. CASE ~(pc[g] = "wait" /\ job[g] = job[h] /\ verdict[g] = "pending")
      <4>1. verdict'[g] = verdict[g]
        BY <3>3
      <4>2. pc[g] = "wait" /\ verdict[g] = "pending" =>
               owner[job[g]] # NoHandler /\ job[g] \in Note /\ job[g] # job[h]
        BY <3>3 DEF WaitInv
      <4>3. \A n \in Note \ {job[h]} : owner'[n] = owner[n]
        BY <1>1 DEF TaskType
      <4>4. pc[g] = "wait" /\ verdict[g] = "handled" => handled'[job[g]] > 0
        BY DEF WaitInv
      <4>5. pc[g] # "free" => job[g] \in Note
        BY DEF WaitInv
      <4>6. QED BY <3>1, <4>1, <4>2, <4>3, <4>4, <4>5
    <3>4. QED BY <3>2, <3>3
  <2>3. QED BY <2>1, <2>2
<1>7. QED BY <1>2, <1>3, <1>4, <1>5, <1>6
-----------------------------------------------------------------------------
(* Records and clocks *)

RecordType ==
    /\ recent \in Seq(Note) /\ Len(recent) <= RecentLimit
    /\ posted \in [Note -> Nat] /\ handled \in [Note -> Nat]
    /\ unsure \in [Note -> Nat] /\ forgotten \in [Note -> Nat]

RecordInv == RecordType /\ CountInv

ClockType ==
    /\ last \in Nat /\ delay \in Int /\ saved \in Nat
    /\ claimed \in [Handler -> Nat]
    /\ now \in Nat /\ spoke \in Nat
    /\ deliveries \in Nat /\ stops \in Nat

TimeInv == ClockType /\ ClockInv

(* The invariant falls into three parts that few actions change together.    *)
LEMMA Parts == IInv <=> TaskInv /\ RecordInv /\ TimeInv
  BY DEF IInv, TypeOK, TaskInv, TaskType, RecordInv, RecordType, TimeInv, ClockType

(* Where the record stands still, only a newly taken note matters to it.     *)
LEMMA KeepRecord ==
    ASSUME RecordInv, UNCHANGED <<recent, countVars>>,
           \A g \in Handler : pc'[g] \in Working => job'[g] \notin Remembered
    PROVE  RecordInv'
  BY DEF RecordInv, RecordType, CountInv, Remembered, countVars

(* Where the clocks stand still, only a new claim would matter to them.      *)
LEMMA KeepTime ==
    ASSUME TimeInv, UNCHANGED clockVars, now' \in Nat, now <= now',
           deliveries' \in Nat, stops' \in Nat,
           \A g \in Handler : pc'[g] = "save" => pc[g] = "save"
    PROVE  TimeInv'
<1> USE NotesAssumption
<1>1. ClockType'
  BY DEF TimeInv, ClockType, clockVars
<1>2. last' <= now' /\ saved' <= now'
  BY DEF TimeInv, ClockType, ClockInv, clockVars
<1>3. ClockInv'
  BY <1>2 DEF TimeInv, ClockInv, clockVars
<1>4. QED BY <1>1, <1>3 DEF TimeInv

(* A handler that succeeds is counted, and its note comes into the record.   *)
LEMMA SucceedAll ==
    ASSUME TaskInv, RecordInv, NEW h \in Handler, pc[h] \in Working, Succeed(h),
           unsure' = unsure, posted' \in [Note -> Nat],
           \A n \in Note : posted'[n] <= posted[n] + (IF n = job[h] THEN 1 ELSE 0)
    PROVE  /\ TaskInv' /\ RecordInv'
           /\ \A g \in Handler : pc'[g] = "save" => pc[g] = "save"
<1> USE NotesAssumption
<1>1. job[h] \in Note /\ owner[job[h]] = h
  BY DEF TaskInv, OwnerInv, WaitInv, Working
<1>2. handled' = [handled EXCEPT ![job[h]] = @ + 1]
  BY DEF Succeed
<1>3. /\ handled' \in [Note -> Nat] /\ handled'[job[h]] = handled[job[h]] + 1
      /\ \A n \in Note \ {job[h]} : handled'[n] = handled[n]
      /\ \A n \in Note : handled[n] \in Nat
      /\ \A n \in Note : handled[n] <= handled'[n]
  <2>1. handled \in [Note -> Nat]
    BY DEF RecordInv, RecordType
  <2>2. /\ handled' \in [Note -> Nat] /\ handled'[job[h]] = handled[job[h]] + 1
        /\ \A n \in Note \ {job[h]} : handled'[n] = handled[n]
        /\ \A n \in Note : handled[n] \in Nat
    BY <1>1, <1>2, <2>1
  <2>3. ASSUME NEW n \in Note
        PROVE  handled[n] <= handled'[n]
    <3>1. CASE n = job[h]
      BY <2>2, <3>1
    <3>2. CASE n # job[h]
      BY <2>2, <3>2
    <3>3. QED BY <3>1, <3>2
  <2>4. QED BY <2>2, <2>3
<1>4. /\ TaskInv'
      /\ \A g \in Handler \ {h} : pc'[g] = pc[g] /\ job'[g] = job[g]
      /\ pc'[h] = "free"
  <2>1. handled \in [Note -> Nat] /\ handled[job[h]] \in Nat
    BY <1>1 DEF RecordInv, RecordType
  <2>2. handled'[job[h]] > 0
    BY <1>3, <2>1
  <2>3. Tell(h, "handled") /\ Release(h)
    BY DEF Succeed
  <2>4. QED BY <1>3, <2>1, <2>2, <2>3, ReleaseTask
<1>5. /\ recent' \in Seq(Note) /\ Len(recent') <= RecentLimit
      /\ forgotten' \in [Note -> Nat]
      /\ job[h] \in Remembered'
      /\ \A m \in Remembered' : m = job[h] \/ m \in Remembered
      /\ \A m \in Note : forgotten[m] + Kept(m) <= forgotten'[m] + Kept(m)'
  BY <1>1, RememberNote DEF Succeed, RecordInv, RecordType
<1>6. RecordType'
  BY <1>3, <1>5 DEF RecordInv, RecordType
<1>7. ASSUME NEW g \in Handler, pc'[g] \in Working
      PROVE  job'[g] \notin Remembered'
  <2>1. g # h /\ pc[g] \in Working /\ job'[g] = job[g]
    BY <1>4, <1>7 DEF Working
  <2>2. job[g] # job[h] /\ job[g] \notin Remembered
    BY <1>1, <2>1 DEF TaskInv, OwnerInv, WaitInv, Working, RecordInv, CountInv
  <2>3. QED BY <1>5, <2>1, <2>2
<1>8. ASSUME NEW n \in Note
      PROVE  handled'[n] <= forgotten'[n] + Kept(n)'
  <2>1. handled[n] <= forgotten[n] + Kept(n)
    BY DEF RecordInv, CountInv, Kept
  <2>2. /\ forgotten[n] \in Nat /\ forgotten'[n] \in Nat
        /\ Kept(n) \in {0, 1} /\ Kept(n)' \in {0, 1}
    BY <1>5 DEF RecordInv, RecordType, Kept
  <2>3. CASE n = job[h]
    <3>1. job[h] \notin Remembered
      BY DEF RecordInv, CountInv
    <3>2. Kept(n) = 0 /\ Kept(n)' = 1
      BY <1>5, <2>3, <3>1 DEF Kept
    <3>3. forgotten[n] <= forgotten'[n]
      BY <1>1, RememberNote, <2>3 DEF Succeed, RecordInv, RecordType
    <3>4. QED BY <1>3, <2>1, <2>2, <2>3, <3>2, <3>3
  <2>4. CASE n # job[h]
    <3>1. forgotten[n] + Kept(n) <= forgotten'[n] + Kept(n)'
      BY <1>5
    <3>2. QED BY <1>3, <2>1, <2>2, <2>4, <3>1
  <2>5. QED BY <2>3, <2>4
<1>9. ASSUME NEW n \in Remembered'
      PROVE  handled'[n] > 0
  <2>1. n \in Note
    BY <1>5 DEF Remembered
  <2>2. CASE n = job[h]
    BY <1>1, <1>3, <2>2
  <2>3. CASE n # job[h]
    BY <1>3, <1>5, <2>1, <2>3 DEF RecordInv, CountInv
  <2>4. QED BY <2>2, <2>3
<1>10. ASSUME NEW n \in Note
       PROVE  posted'[n] <= handled'[n] + unsure'[n]
  <2>1. posted[n] <= handled[n] + unsure[n]
    BY DEF RecordInv, CountInv
  <2>2. posted[n] \in Nat /\ unsure[n] \in Nat /\ unsure'[n] = unsure[n]
        /\ posted'[n] \in Nat
    BY DEF RecordInv, RecordType
  <2>3. QED BY <1>1, <1>3, <2>1, <2>2
<1>11. CountInv'
  BY <1>7, <1>8, <1>9, <1>10 DEF CountInv, Kept
<1>12. \A g \in Handler : pc'[g] = "save" => pc[g] = "save"
  BY <1>4
<1>13. QED BY <1>4, <1>6, <1>11, <1>12 DEF RecordInv

(* A handler that fails leaves the record alone; a reply it may have posted  *)
(* all the same is counted as unsure.                                        *)
LEMMA FailAll ==
    ASSUME TaskInv, RecordInv, NEW h \in Handler, pc[h] \in Working, Fail(h),
           unsure' \in [Note -> Nat], posted' \in [Note -> Nat],
           \A n \in Note : posted'[n] - posted[n] <= unsure'[n] - unsure[n]
    PROVE  /\ TaskInv' /\ RecordInv'
           /\ \A g \in Handler : pc'[g] = "save" => pc[g] = "save" /\ g # h
<1> USE NotesAssumption
<1>1. UNCHANGED <<recent, handled, forgotten>> /\ Tell(h, "failed") /\ Release(h)
  BY DEF Fail
<1>2. handled \in [Note -> Nat] /\ \A n \in Note : handled[n] <= handled'[n]
  BY <1>1 DEF RecordInv, RecordType
<1>3. /\ TaskInv'
      /\ \A g \in Handler \ {h} : pc'[g] = pc[g] /\ job'[g] = job[g]
      /\ pc'[h] = "free"
  BY <1>1, <1>2, ReleaseTask
<1>4. \A g \in Handler : pc'[g] \in Working => job'[g] \notin Remembered
  BY <1>3 DEF RecordInv, CountInv, Working
<1>5. RecordType'
  BY <1>1 DEF RecordInv, RecordType
<1>6. ASSUME NEW n \in Note
      PROVE  posted'[n] <= handled'[n] + unsure'[n]
  <2>1. /\ posted[n] \in Nat /\ unsure[n] \in Nat /\ handled[n] \in Nat
        /\ posted'[n] \in Nat /\ unsure'[n] \in Nat
        /\ posted[n] <= handled[n] + unsure[n] /\ handled'[n] = handled[n]
    BY <1>1 DEF RecordInv, RecordType, CountInv
  <2>2. posted'[n] - posted[n] <= unsure'[n] - unsure[n]
    OBVIOUS
  <2>3. QED BY <2>1, <2>2
<1>7. CountInv'
  BY <1>1, <1>4, <1>6 DEF RecordInv, CountInv, Remembered
<1>8. QED BY <1>3, <1>5, <1>7 DEF RecordInv
-----------------------------------------------------------------------------
(* The initial state satisfies the inductive invariant. *)
LEMMA InitInv ==
    ASSUME Init
    PROVE  IInv
<1> USE NotesAssumption
<1>1. TaskType
  BY DEF Init, TaskType, Await
<1>2. OwnerInv /\ WaitInv
  BY DEF Init, OwnerInv, WaitInv, Working
<1>3. recent \in Seq(Note) /\ Len(recent) = 0 /\ Remembered = {}
  BY DEF Init, Remembered
<1>4. RecordType
  BY <1>3 DEF Init, RecordType
<1>5. CountInv
  BY <1>3 DEF Init, CountInv, Working
<1>6. ClockType
  BY DEF Init, ClockType, Delay
<1>7. ClockInv
  BY DEF Init, ClockInv
<1>8. QED
  BY <1>1, <1>2, <1>4, <1>5, <1>6, <1>7, Parts DEF TaskInv, RecordInv, TimeInv

(* A task that gives up its turn at the top of the loop disturbs nothing.    *)
LEMMA GiveUpAll ==
    ASSUME TaskInv, RecordInv, TimeInv, NEW h \in Handler, pc[h] \in {"spawned", "wait"},
           GiveUp(h), UNCHANGED <<recent, clockVars, now, countVars, deliveries, stops>>
    PROVE  TaskInv' /\ RecordInv' /\ TimeInv'
<1>1. UNCHANGED handled
  BY DEF countVars
<1>2. TaskInv' /\ (\A g \in Handler : pc'[g] \in Working => pc'[g] = pc[g] /\ job'[g] = job[g])
  BY <1>1, GiveUpTask
<1>3. RecordInv'
  BY <1>2, KeepRecord DEF RecordInv, CountInv
<1>4. \A g \in Handler : pc'[g] = "save" => pc[g] = "save"
  BY <1>2 DEF Working
<1>5. TimeInv'
  BY <1>4, KeepTime DEF TimeInv, ClockType
<1>6. QED BY <1>2, <1>3, <1>5

(* A handler that leaves its note to succeed or fail leaves the clocks too.  *)
LEMMA EndTime ==
    ASSUME TimeInv, UNCHANGED <<clockVars, now, deliveries, stops>>,
           \A g \in Handler : pc'[g] = "save" => pc[g] = "save"
    PROVE  TimeInv'
  BY KeepTime DEF TimeInv, ClockType

(* A claim takes the time once the delay since the last one has gone by.     *)
LEMMA ClaimInv ==
    ASSUME TaskInv, RecordInv, TimeInv, NEW h \in Handler, Claim(h)
    PROVE  TaskInv' /\ RecordInv' /\ TimeInv'
<1> USE NotesAssumption
<1>1. Unclaimed(h) /\ now - last >= delay /\ last' = now /\ delay' \in Delay
      /\ UNCHANGED <<saved, now, countVars, deliveries, stops>>
  BY DEF Claim
<1>2. \E await \in {"save", "run"} : TakeNote(h, await)
  BY DEF Claim
<1>3. TaskInv' /\ job' = job
  BY <1>1, <1>2, TakeTask DEF countVars
<1>4. recent' = recent /\ \A g \in Handler \ {h} : pc'[g] = pc[g]
  BY <1>2 DEF TakeNote, TaskInv, TaskType
<1>5. RecordInv'
  BY <1>1, <1>3, <1>4, KeepRecord DEF RecordInv, CountInv, Unclaimed
<1>6. /\ last \in Nat /\ now \in Nat /\ spoke \in Nat /\ saved \in Nat
      /\ claimed \in [Handler -> Nat] /\ delay \in Int
      /\ spoke <= last /\ last <= now /\ saved <= now
      /\ (Persistent => spoke <= saved)
  BY DEF TimeInv, ClockType, ClockInv
<1>7. now - last >= Interval - Jitter
  BY <1>1, <1>6 DEF TimeInv, ClockInv, Delay
<1>8. CASE Persistent
  <2>1. TakeNote(h, "save") /\ claimed' = [claimed EXCEPT ![h] = now] /\ spoke' = spoke
    BY <1>8 DEF Claim
  <2>2. pc'[h] = "save" /\ claimed'[h] = now
        /\ \A g \in Handler \ {h} : claimed'[g] = claimed[g]
    BY <1>6, <2>1 DEF TakeNote, TaskInv, TaskType
  <2>3. ClockType'
    BY <1>1, <1>6, <2>1 DEF TimeInv, ClockType, Delay
  <2>4. ASSUME NEW g \in Handler \ {h}, pc'[g] = "save"
        PROVE  /\ pc[g] = "save" /\ claimed'[g] = claimed[g] /\ claimed[g] \in Nat
               /\ claimed[g] <= last /\ spoke <= claimed[g]
               /\ claimed[g] - spoke >= Interval - Jitter
               /\ now - claimed[g] >= Interval - Jitter
    <3>1. pc[g] = "save" /\ claimed'[g] = claimed[g] /\ claimed[g] \in Nat
      BY <1>4, <1>6, <2>2, <2>4
    <3>2. /\ claimed[g] <= last /\ spoke <= claimed[g]
          /\ claimed[g] - spoke >= Interval - Jitter
      BY <3>1 DEF TimeInv, ClockInv
    <3>3. QED BY <1>6, <1>7, <3>1, <3>2
  <2>5. ASSUME NEW g \in Handler, pc'[g] = "save"
        PROVE  /\ spoke' <= claimed'[g] /\ claimed'[g] <= last'
               /\ claimed'[g] - spoke' >= Interval - Jitter
    <3>1. CASE g = h
      BY <1>1, <1>6, <1>7, <2>1, <2>2, <3>1
    <3>2. CASE g # h
      BY <1>1, <1>6, <2>1, <2>4, <2>5, <3>2
    <3>3. QED BY <3>1, <3>2
  <2>6. ASSUME NEW g \in Handler, NEW k \in Handler \ {g}, pc'[g] = "save", pc'[k] = "save"
        PROVE  \/ claimed'[k] - claimed'[g] >= Interval - Jitter
               \/ claimed'[g] - claimed'[k] >= Interval - Jitter
    <3>1. CASE g = h
      BY <2>2, <2>4, <2>6, <3>1
    <3>2. CASE k = h
      BY <2>2, <2>4, <2>6, <3>2
    <3>3. CASE g # h /\ k # h
      <4>1. pc[g] = "save" /\ pc[k] = "save"
            /\ claimed'[g] = claimed[g] /\ claimed'[k] = claimed[k]
        BY <2>4, <2>6, <3>3
      <4>2. QED BY <4>1 DEF TimeInv, ClockInv
    <3>4. QED BY <3>1, <3>2, <3>3
  <2>7. delay' \in Delay' /\ spoke' <= last' /\ last' <= now' /\ (Persistent => spoke' <= saved') /\ saved' <= now'
    BY <1>1, <1>6, <2>1 DEF Delay
  <2>8. ClockInv'
    BY <1>8, <2>5, <2>6, <2>7 DEF ClockInv
  <2>9. QED BY <1>3, <1>5, <2>3, <2>8 DEF TimeInv
<1>9. CASE ~Persistent
  <2>1. TakeNote(h, "run") /\ spoke' = now /\ claimed' = claimed
    BY <1>9 DEF Claim
  <2>2. \A g \in Handler : pc'[g] # "save"
    BY <1>9, <1>4, <2>1 DEF TakeNote, TaskInv, TaskType, TimeInv, ClockInv
  <2>3. ClockType'
    BY <1>1, <1>6, <2>1 DEF TimeInv, ClockType, Delay
  <2>4. ClockInv'
    BY <1>1, <1>6, <1>9, <2>1, <2>2 DEF ClockInv, Delay
  <2>5. QED BY <1>3, <1>5, <2>3, <2>4 DEF TimeInv
<1>10. QED BY <1>8, <1>9

(* Redis settles the oldest claim first, and the others stay clear of it.    *)
LEMMA SettleClaim ==
    ASSUME TimeInv, NEW h \in Handler, InTurn(h),
           UNCHANGED <<last, delay, now, deliveries, stops>>,
           claimed' = [claimed EXCEPT ![h] = 0],
           \A g \in Handler : pc'[g] = "save" => pc[g] = "save" /\ g # h,
           \/ saved' = claimed[h] /\ spoke' = claimed[h]
           \/ saved' \in {saved, claimed[h]} /\ spoke' = spoke
    PROVE  TimeInv' /\ (spoke' # spoke => spoke' - spoke >= Interval - Jitter)
<1> USE NotesAssumption
<1>1. /\ last \in Nat /\ now \in Nat /\ spoke \in Nat /\ saved \in Nat
      /\ claimed \in [Handler -> Nat] /\ delay \in Int
      /\ spoke <= last /\ last <= now /\ saved <= now
      /\ (Persistent => spoke <= saved) /\ delay \in Delay
  BY DEF TimeInv, ClockType, ClockInv
<1>2. /\ pc[h] = "save" /\ Persistent /\ claimed[h] \in Nat
      /\ spoke <= claimed[h] /\ claimed[h] <= last
      /\ claimed[h] - spoke >= Interval - Jitter
  BY <1>1 DEF InTurn, TimeInv, ClockInv
<1>3. ClockType'
  BY <1>1, <1>2 DEF TimeInv, ClockType
<1>4. spoke' <= last' /\ last' <= now' /\ spoke' <= saved' /\ saved' <= now'
  BY <1>1, <1>2
<1>5. ASSUME NEW g \in Handler, pc'[g] = "save"
      PROVE  /\ pc[g] = "save" /\ claimed'[g] = claimed[g]
             /\ spoke' <= claimed[g] /\ claimed[g] <= last
             /\ claimed[g] - spoke' >= Interval - Jitter
  <2>1. pc[g] = "save" /\ g # h /\ claimed'[g] = claimed[g] /\ claimed[g] \in Nat
    BY <1>1, <1>5
  <2>2. claimed[h] <= claimed[g]
    BY <2>1 DEF InTurn
  <2>3. /\ spoke <= claimed[g] /\ claimed[g] <= last /\ claimed[g] - spoke >= Interval - Jitter
        /\ \/ claimed[h] - claimed[g] >= Interval - Jitter
           \/ claimed[g] - claimed[h] >= Interval - Jitter
    BY <1>2, <2>1 DEF TimeInv, ClockInv
  <2>4. CASE spoke' = spoke
    BY <2>1, <2>3, <2>4
  <2>5. CASE spoke' = claimed[h]
    BY <1>2, <2>1, <2>2, <2>3, <2>5
  <2>6. QED BY <2>4, <2>5
<1>6. ASSUME NEW g \in Handler, NEW k \in Handler \ {g}, pc'[g] = "save", pc'[k] = "save"
      PROVE  \/ claimed'[k] - claimed'[g] >= Interval - Jitter
             \/ claimed'[g] - claimed'[k] >= Interval - Jitter
  <2>1. pc[g] = "save" /\ pc[k] = "save"
        /\ claimed'[g] = claimed[g] /\ claimed'[k] = claimed[k]
    BY <1>5, <1>6
  <2>2. QED BY <2>1 DEF TimeInv, ClockInv
<1>7. delay' \in Delay'
  BY <1>1 DEF Delay
<1>8. ClockInv'
  BY <1>2, <1>4, <1>5, <1>6, <1>7 DEF ClockInv
<1>9. QED BY <1>2, <1>3, <1>8 DEF TimeInv
-----------------------------------------------------------------------------
(* The process comes back with the last time that Redis holds, which is no   *)
(* earlier than the last automatic reply that began.                         *)
LEMMA RestartInv ==
    ASSUME TaskInv, RecordInv, TimeInv, Restart
    PROVE  TaskInv' /\ RecordInv' /\ TimeInv'
<1> USE NotesAssumption
<1>1. /\ pc' = [h \in Handler |-> "free"] /\ job' = [h \in Handler |-> NoNote]
      /\ channel' = [h \in Handler |-> "main"]
      /\ verdict' = [h \in Handler |-> "pending"]
      /\ owner' = [n \in Note |-> NoHandler]
      /\ recent' = <<>> /\ claimed' = [h \in Handler |-> 0]
      /\ saved' = last' /\ delay' \in Delay /\ stops' = stops + 1
      /\ UNCHANGED <<now, handled, spoke, deliveries>>
  BY DEF Restart
<1>2. TaskType'
  BY <1>1 DEF TaskType, Await
<1>3. OwnerInv' /\ WaitInv'
  BY <1>1 DEF OwnerInv, WaitInv, Working
<1>4. recent' \in Seq(Note) /\ Len(recent') = 0 /\ Remembered' = {}
  BY <1>1 DEF Remembered
<1>5. ASSUME NEW n \in Note
      PROVE  /\ posted[n] \in Nat /\ unsure[n] \in Nat /\ forgotten[n] \in Nat
             /\ handled[n] \in Nat
             /\ posted[n] <= handled[n] + unsure[n]
             /\ handled[n] <= forgotten[n] + Kept(n)
  BY DEF RecordInv, RecordType, CountInv, Kept
<1>6. PICK arrived \in SUBSET {h \in Handler : pc[h] = "post"} :
          posted' = [n \in Note |-> IF \E h \in arrived : job[h] = n
                                    THEN posted[n] + 1 ELSE posted[n]]
  BY DEF Restart
<1>7. unsure' = [n \in Note |-> IF \E h \in Handler : pc[h] = "post" /\ job[h] = n
                                THEN unsure[n] + 1 ELSE unsure[n]]
  BY DEF Restart
<1>8. forgotten' = [n \in Note |-> IF n \in Remembered THEN forgotten[n] + 1
                                   ELSE forgotten[n]]
  BY DEF Restart
<1>9. RecordType'
  <2>1. posted' \in [Note -> Nat]
    BY <1>5, <1>6
  <2>2. unsure' \in [Note -> Nat]
    BY <1>5, <1>7
  <2>3. forgotten' \in [Note -> Nat]
    BY <1>5, <1>8
  <2>4. QED BY <1>1, <1>4, <2>1, <2>2, <2>3 DEF RecordInv, RecordType
<1>10. ASSUME NEW n \in Note
       PROVE  posted'[n] <= handled'[n] + unsure'[n]
  <2>1. CASE \E h \in arrived : job[h] = n
    <3>1. posted'[n] = posted[n] + 1 /\ unsure'[n] = unsure[n] + 1 /\ handled'[n] = handled[n]
      BY <1>1, <1>6, <1>7, <2>1
    <3>2. QED BY <1>5, <3>1
  <2>2. CASE ~\E h \in arrived : job[h] = n
    <3>1. posted'[n] = posted[n] /\ handled'[n] = handled[n]
          /\ unsure'[n] \in {unsure[n], unsure[n] + 1}
      BY <1>1, <1>6, <1>7, <2>2
    <3>2. QED BY <1>5, <3>1
  <2>3. QED BY <2>1, <2>2
<1>11. ASSUME NEW n \in Note
       PROVE  handled'[n] <= forgotten'[n]
  <2>1. forgotten'[n] = forgotten[n] + Kept(n) /\ handled'[n] = handled[n]
    BY <1>1, <1>5, <1>8 DEF Kept
  <2>2. QED BY <1>5, <2>1
<1>12. CountInv'
  BY <1>1, <1>4, <1>9, <1>10, <1>11 DEF CountInv, Working, RecordType
<1>13. last' \in Nat /\ spoke <= last' /\ last' <= now
  <2>1. /\ last \in Nat /\ now \in Nat /\ spoke \in Nat /\ saved \in Nat
        /\ claimed \in [Handler -> Nat]
        /\ spoke <= last /\ last <= now /\ (Persistent => spoke <= saved) /\ saved <= now
    BY DEF TimeInv, ClockType, ClockInv
  <2>2. PICK t \in {saved} \cup {claimed[h] : h \in {g \in Handler : pc[g] = "save"}} :
            last' = IF Persistent THEN t ELSE now
    BY DEF Restart
  <2>3. CASE ~Persistent
    BY <2>1, <2>2, <2>3
  <2>4. CASE Persistent /\ t = saved
    BY <2>1, <2>2, <2>4
  <2>5. CASE Persistent /\ t # saved
    <3>1. PICK h \in Handler : pc[h] = "save" /\ t = claimed[h]
      BY <2>5
    <3>2. spoke <= claimed[h] /\ claimed[h] <= last /\ claimed[h] \in Nat
      BY <2>1, <3>1 DEF TimeInv, ClockInv
    <3>3. QED BY <2>1, <2>2, <2>5, <3>1, <3>2
  <2>6. QED BY <2>3, <2>4, <2>5
<1>14. ClockType'
  BY <1>1, <1>13 DEF TimeInv, ClockType, Delay
<1>15. \A h \in Handler : pc'[h] # "save"
  BY <1>1
<1>16. ClockInv'
  BY <1>1, <1>13, <1>15 DEF ClockInv, Delay
<1>17. QED
  BY <1>2, <1>3, <1>9, <1>12, <1>14, <1>16 DEF TaskInv, RecordInv, TimeInv

(* Every step keeps the inductive invariant. *)
LEMMA NextInv ==
    ASSUME IInv, [Next]_vars
    PROVE  IInv'
<1> USE NotesAssumption
<1> SUFFICES TaskInv' /\ RecordInv' /\ TimeInv'
  BY DEF IInv, TypeOK, TaskInv, TaskType, RecordInv, RecordType, TimeInv, ClockType
<1>0. TaskInv /\ RecordInv /\ TimeInv
  BY Parts
<1>1. CASE Tick
  <2>1. TaskInv'
    BY <1>0, <1>1 DEF Tick, taskVars, countVars, TaskInv, TaskType, OwnerInv, WaitInv
  <2>2. RecordInv'
    BY <1>0, <1>1, KeepRecord DEF Tick, taskVars, RecordInv, CountInv
  <2>3. TimeInv'
    <3>1. now \in Nat /\ deliveries \in Nat /\ stops \in Nat
      BY <1>0 DEF TimeInv, ClockType
    <3>2. now' = now + 1 /\ UNCHANGED <<taskVars, clockVars, deliveries, stops>>
      BY <1>1 DEF Tick
    <3>3. QED BY <1>0, <3>1, <3>2, KeepTime DEF taskVars
  <2>4. QED BY <2>1, <2>2, <2>3
<1>2. CASE Restart
  BY <1>0, <1>2, RestartInv
<1>3. ASSUME NEW h \in Handler, NEW n \in Note, NEW ch \in {"main", "timeline"}, Deliver(h, n, ch)
      PROVE  TaskInv' /\ RecordInv' /\ TimeInv'
  <2>1. /\ pc[h] = "free" /\ deliveries' = deliveries + 1
        /\ pc' = [pc EXCEPT ![h] = "spawned"]
        /\ job' = [job EXCEPT ![h] = n] /\ channel' = [channel EXCEPT ![h] = ch]
        /\ UNCHANGED <<verdict, owner, recent, clockVars, now, countVars, stops>>
    BY <1>3 DEF Deliver
  <2>2. \A g \in Handler : g # h => pc'[g] = pc[g] /\ job'[g] = job[g]
    BY <1>0, <2>1 DEF TaskInv, TaskType
  <2>3. pc'[h] = "spawned" /\ job'[h] = n
    BY <1>0, <2>1 DEF TaskInv, TaskType
  <2>4. TaskType'
    BY <1>0, <2>1 DEF TaskInv, TaskType, Await
  <2>5. OwnerInv'
    BY <1>0, <2>1, <2>2, <2>3 DEF TaskInv, OwnerInv, Working
  <2>6. WaitInv'
    BY <1>0, <2>1, <2>2, <2>3 DEF TaskInv, WaitInv, countVars
  <2>7. RecordInv'
    BY <1>0, <2>1, <2>2, <2>3, KeepRecord DEF RecordInv, CountInv, Working
  <2>8. TimeInv'
    BY <1>0, <2>1, <2>2, <2>3, KeepTime DEF TimeInv, ClockType
  <2>9. QED BY <2>4, <2>5, <2>6, <2>7, <2>8 DEF TaskInv
<1>4. ASSUME NEW h \in Handler, Duplicate(h) \/ NotDue(h) \/ Relieved(h)
      PROVE  TaskInv' /\ RecordInv' /\ TimeInv'
  <2>1. /\ pc[h] \in {"spawned", "wait"} /\ GiveUp(h)
        /\ UNCHANGED <<recent, clockVars, now, countVars, deliveries, stops>>
    BY <1>4 DEF Duplicate, NotDue, Relieved, Unclaimed, Competes
  <2>2. QED BY <1>0, <2>1, GiveUpAll
<1>5. ASSUME NEW h \in Handler, Join(h)
      PROVE  TaskInv' /\ RecordInv' /\ TimeInv'
  <2>1. /\ pc[h] \in {"spawned", "wait"} /\ owner[job[h]] # NoHandler
        /\ pc' = [pc EXCEPT ![h] = "wait"] /\ verdict' = [verdict EXCEPT ![h] = "pending"]
        /\ UNCHANGED <<job, channel, owner, recent, clockVars, now, countVars, deliveries, stops>>
    BY <1>5 DEF Join, Competes
  <2>2. TaskType'
    BY <1>0, <2>1 DEF TaskInv, TaskType, Await
  <2>3. OwnerInv'
    BY <1>0, <2>1 DEF TaskInv, TaskType, OwnerInv, Working
  <2>4. WaitInv'
    BY <1>0, <2>1 DEF TaskInv, TaskType, WaitInv, countVars
  <2>5. \A g \in Handler : pc'[g] \in Working => pc'[g] = pc[g]
    BY <1>0, <2>1 DEF TaskInv, TaskType, Working
  <2>6. RecordInv'
    BY <1>0, <2>1, <2>5, KeepRecord DEF RecordInv, CountInv
  <2>7. TimeInv'
    BY <1>0, <2>1, <2>5, EndTime DEF Working
  <2>8. QED BY <2>2, <2>3, <2>4, <2>6, <2>7 DEF TaskInv
<1>6. ASSUME NEW h \in Handler, Mention(h)
      PROVE  TaskInv' /\ RecordInv' /\ TimeInv'
  <2>1. Unclaimed(h) /\ TakeNote(h, "run")
        /\ UNCHANGED <<clockVars, now, countVars, deliveries, stops>>
    BY <1>6 DEF Mention
  <2>2. TaskInv' /\ job' = job /\ pc' = [pc EXCEPT ![h] = "run"]
    BY <1>0, <2>1, TakeTask DEF countVars
  <2>3. RecordInv'
    BY <1>0, <2>1, <2>2, KeepRecord DEF RecordInv, CountInv, Unclaimed, TakeNote, TaskInv, TaskType
  <2>4. \A g \in Handler : pc'[g] = "save" => pc[g] = "save"
    BY <1>0, <2>2 DEF TaskInv, TaskType
  <2>5. QED BY <1>0, <2>1, <2>2, <2>3, <2>4, EndTime
<1>7. ASSUME NEW h \in Handler, Claim(h)
      PROVE  TaskInv' /\ RecordInv' /\ TimeInv'
  BY <1>0, <1>7, ClaimInv
<1>8. ASSUME NEW h \in Handler, Saved(h)
      PROVE  TaskInv' /\ RecordInv' /\ TimeInv'
  <2>1. /\ InTurn(h) /\ pc[h] = "save" /\ pc' = [pc EXCEPT ![h] = "run"]
        /\ saved' = claimed[h] /\ spoke' = claimed[h]
        /\ claimed' = [claimed EXCEPT ![h] = 0]
        /\ UNCHANGED <<job, channel, verdict, owner, recent, last, delay, now, countVars,
                       deliveries, stops>>
    BY <1>8 DEF Saved, InTurn
  <2>2. TaskType'
    BY <1>0, <2>1 DEF TaskInv, TaskType, Await
  <2>3. /\ pc'[h] = "run"
        /\ \A g \in Handler \ {h} : pc'[g] = pc[g]
    BY <1>0, <2>1 DEF TaskInv, TaskType
  <2>4. \A g \in Handler : (pc'[g] \in Working <=> pc[g] \in Working)
                          /\ (pc'[g] = "wait" <=> pc[g] = "wait")
                          /\ (pc'[g] = "free" <=> pc[g] = "free")
    BY <2>1, <2>3 DEF Working
  <2>5. OwnerInv' /\ WaitInv'
    BY <1>0, <2>1, <2>4 DEF TaskInv, OwnerInv, WaitInv, countVars
  <2>6. RecordInv'
    BY <1>0, <2>1, <2>4, KeepRecord DEF RecordInv, CountInv
  <2>7. \A g \in Handler : pc'[g] = "save" => pc[g] = "save" /\ g # h
    BY <2>3
  <2>8. TimeInv'
    BY <1>0, <2>1, <2>7, SettleClaim
  <2>9. QED BY <2>2, <2>5, <2>6, <2>8 DEF TaskInv
<1>9. ASSUME NEW h \in Handler, SaveFails(h)
      PROVE  TaskInv' /\ RecordInv' /\ TimeInv'
  <2>1. /\ InTurn(h) /\ pc[h] \in Working /\ Fail(h)
        /\ saved' \in {saved, claimed[h]} /\ claimed' = [claimed EXCEPT ![h] = 0]
        /\ UNCHANGED <<last, delay, spoke, now, posted, unsure, deliveries, stops>>
    BY <1>9 DEF SaveFails, InTurn, Working
  <2>2. posted' \in [Note -> Nat] /\ unsure' \in [Note -> Nat]
        /\ \A n \in Note : posted'[n] - posted[n] <= unsure'[n] - unsure[n]
    BY <1>0, <2>1 DEF RecordInv, RecordType
  <2>3. TaskInv' /\ RecordInv' /\ \A g \in Handler : pc'[g] = "save" => pc[g] = "save" /\ g # h
    BY <1>0, <2>1, <2>2, FailAll
  <2>4. TimeInv'
    BY <1>0, <2>1, <2>3, SettleClaim
  <2>5. QED BY <2>3, <2>4
<1>10. ASSUME NEW h \in Handler, Send(h)
       PROVE  TaskInv' /\ RecordInv' /\ TimeInv'
  <2>1. /\ pc[h] = "run" /\ pc' = [pc EXCEPT ![h] = "post"]
        /\ UNCHANGED <<job, channel, verdict, owner, recent, clockVars, now, countVars,
                       deliveries, stops>>
    BY <1>10 DEF Send
  <2>2. TaskType'
    BY <1>0, <2>1 DEF TaskInv, TaskType, Await
  <2>3. /\ pc'[h] = "post"
        /\ \A g \in Handler \ {h} : pc'[g] = pc[g]
    BY <1>0, <2>1 DEF TaskInv, TaskType
  <2>4. \A g \in Handler : (pc'[g] \in Working <=> pc[g] \in Working)
                          /\ (pc'[g] = "wait" <=> pc[g] = "wait")
                          /\ (pc'[g] = "free" <=> pc[g] = "free")
                          /\ (pc'[g] = "save" => pc[g] = "save")
    BY <2>1, <2>3 DEF Working
  <2>5. OwnerInv' /\ WaitInv'
    BY <1>0, <2>1, <2>4 DEF TaskInv, OwnerInv, WaitInv, countVars
  <2>6. RecordInv'
    BY <1>0, <2>1, <2>4, KeepRecord DEF RecordInv, CountInv
  <2>7. TimeInv'
    BY <1>0, <2>1, <2>4, EndTime
  <2>8. QED BY <2>2, <2>5, <2>6, <2>7 DEF TaskInv
<1>11. ASSUME NEW h \in Handler, Ignore(h) \/ Posted(h)
       PROVE  TaskInv' /\ RecordInv' /\ TimeInv'
  <2>1. /\ pc[h] \in Working /\ Succeed(h) /\ unsure' = unsure
        /\ UNCHANGED <<clockVars, now, deliveries, stops>>
    BY <1>11 DEF Ignore, Posted, Working
  <2>2. job[h] \in Note /\ posted \in [Note -> Nat]
    BY <1>0, <2>1 DEF TaskInv, WaitInv, Working, RecordInv, RecordType
  <2>3. posted' = posted \/ posted' = [posted EXCEPT ![job[h]] = @ + 1]
    BY <1>11 DEF Ignore, Posted
  <2>4. posted' \in [Note -> Nat]
    BY <2>2, <2>3
  <2>5. \A n \in Note : posted'[n] <= posted[n] + (IF n = job[h] THEN 1 ELSE 0)
    BY <2>2, <2>3
  <2>6. TaskInv' /\ RecordInv' /\ \A g \in Handler : pc'[g] = "save" => pc[g] = "save"
    BY <1>0, <2>1, <2>4, <2>5, SucceedAll
  <2>7. QED BY <1>0, <2>1, <2>6, EndTime
<1>12. ASSUME NEW h \in Handler, RunFails(h) \/ Refused(h) \/ Lost(h)
       PROVE  TaskInv' /\ RecordInv' /\ TimeInv'
  <2>1. /\ pc[h] \in Working /\ Fail(h)
        /\ UNCHANGED <<clockVars, now, deliveries, stops>>
    BY <1>12 DEF RunFails, Refused, Lost, Working
  <2>2. /\ job[h] \in Note /\ posted \in [Note -> Nat] /\ unsure \in [Note -> Nat]
    BY <1>0, <2>1 DEF TaskInv, WaitInv, Working, RecordInv, RecordType
  <2>3. posted' \in [Note -> Nat] /\ unsure' \in [Note -> Nat]
        /\ \A n \in Note : posted'[n] - posted[n] <= unsure'[n] - unsure[n]
    <3>1. CASE posted' = posted /\ unsure' = unsure
      BY <2>2, <3>1
    <3>2. CASE Lost(h)
      <4>1. PICK k \in {0, 1} : posted' = [posted EXCEPT ![job[h]] = @ + k]
        BY <3>2 DEF Lost
      <4>2. unsure' = [unsure EXCEPT ![job[h]] = @ + 1]
        BY <3>2 DEF Lost
      <4>3. posted' \in [Note -> Nat]
        BY <2>2, <4>1
      <4>4. unsure' \in [Note -> Nat]
        BY <2>2, <4>2
      <4>5. \A n \in Note : posted'[n] - posted[n] <= unsure'[n] - unsure[n]
        BY <2>2, <4>1, <4>2
      <4>6. QED BY <4>3, <4>4, <4>5
    <3>3. QED BY <1>12, <3>1, <3>2 DEF RunFails, Refused
  <2>4. TaskInv' /\ RecordInv' /\ \A g \in Handler : pc'[g] = "save" => pc[g] = "save"
    BY <1>0, <2>1, <2>3, FailAll
  <2>5. QED BY <1>0, <2>1, <2>4, EndTime
<1>13. CASE UNCHANGED vars
  <2>1. UNCHANGED <<pc, job, channel, verdict, owner, recent, clockVars, now, countVars,
                   deliveries, stops>>
    BY <1>13 DEF vars, taskVars
  <2>2. TaskInv'
    BY <1>0, <2>1 DEF countVars, TaskInv, TaskType, OwnerInv, WaitInv
  <2>3. RecordInv'
    BY <1>0, <2>1, KeepRecord DEF RecordInv, CountInv
  <2>4. TimeInv'
    BY <1>0, <2>1, EndTime
  <2>5. QED BY <2>2, <2>3, <2>4
<1>14. QED
  BY <1>1, <1>2, <1>3, <1>4, <1>5, <1>6, <1>7, <1>8, <1>9, <1>10, <1>11, <1>12, <1>13
     DEF Next, Compete, Work

-----------------------------------------------------------------------------
(* The inductive invariant holds in every reachable state. *)
THEOREM NotesInvariance == Spec => []IInv
<1>1. Init => IInv
  BY InitInv
<1>2. IInv /\ [Next]_vars => IInv'
  BY NextInv
<1>3. QED BY <1>1, <1>2, PTL DEF Spec

(* Two tasks never have one note in hand: each is the one the table of notes *)
(* being processed names.                                                    *)
THEOREM OneHandler == Spec => []SoleHandler
<1>1. ASSUME IInv, NEW g \in Handler, NEW h \in Handler,
             pc[g] \in Working, pc[h] \in Working, job[g] = job[h]
      PROVE  g = h
  <2>1. job[g] \in Note
    BY <1>1 DEF IInv, WaitInv, Working
  <2>2. owner[job[g]] = g /\ owner[job[g]] = h
    BY <1>1, <2>1 DEF IInv, OwnerInv
  <2>3. QED BY <2>2
<1>2. IInv => SoleHandler
  BY <1>1 DEF SoleHandler
<1>3. QED BY <1>2, NotesInvariance, PTL

(* A success beyond the first needs a lapse of the record.                   *)
LEMMA SuccessBound ==
    ASSUME IInv, NEW n \in Note
    PROVE  handled[n] <= 1 + forgotten[n]
<1>1. handled[n] \in Nat /\ forgotten[n] \in Nat /\ Kept(n) \in {0, 1}
  BY DEF IInv, TypeOK, Kept
<1>2. handled[n] <= forgotten[n] + Kept(n)
  BY DEF IInv, CountInv, Kept
<1>3. QED BY <1>1, <1>2

(* As long as the bounded record remembers a note, one handler succeeds.     *)
THEOREM SuccessOnce == Spec => []OneSuccess
<1>1. ASSUME IInv, NEW n \in Note
      PROVE  handled[n] <= 1 + forgotten[n]
  BY <1>1, SuccessBound
<1>2. IInv => OneSuccess
  BY <1>1 DEF OneSuccess
<1>3. QED BY <1>2, NotesInvariance, PTL

(* One reply to a note, but for those Misskey never answered for and notes   *)
(* the record forgot.                                                        *)
THEOREM ReplyOnce == Spec => []OneReply
<1>1. ASSUME IInv, NEW n \in Note
      PROVE  posted[n] <= 1 + unsure[n] + forgotten[n]
  <2>1. /\ posted[n] \in Nat /\ handled[n] \in Nat
        /\ unsure[n] \in Nat /\ forgotten[n] \in Nat
    BY <1>1 DEF IInv, TypeOK
  <2>2. posted[n] <= handled[n] + unsure[n]
    BY <1>1 DEF IInv, CountInv
  <2>3. QED BY <1>1, <2>1, <2>2, SuccessBound
<1>2. IInv => OneReply
  BY <1>1 DEF OneReply
<1>3. QED BY <1>2, NotesInvariance, PTL

(* A waiting task always has a task at work that will resolve its future.    *)
THEOREM NoWaiterStranded == Spec => []NobodyStranded
<1>1. ASSUME IInv, NEW h \in Handler, pc[h] = "wait", verdict[h] = "pending"
      PROVE  owner[job[h]] # NoHandler /\ pc[owner[job[h]]] \in Working
  BY <1>1 DEF IInv, TypeOK, OwnerInv, WaitInv
<1>2. IInv => NobodyStranded
  BY <1>1 DEF NobodyStranded
<1>3. QED BY <1>2, NotesInvariance, PTL

(* Automatic replies are the shortest delay apart, also across restarts and  *)
(* also when Redis fails.                                                    *)
THEOREM Spaced == Spec => AutoRepliesSpaced
<1>1. ASSUME IInv, [Next]_vars, spoke' # spoke
      PROVE  spoke' - spoke >= Interval - Jitter
  <2>1. TaskInv /\ RecordInv /\ TimeInv
    BY <1>1, Parts
  <2>2. ASSUME NEW h \in Handler, Saved(h)
        PROVE  spoke' - spoke >= Interval - Jitter
    BY <2>1, <2>2 DEF Saved, InTurn, TimeInv, ClockInv
  <2>3. ASSUME NEW h \in Handler, Claim(h)
        PROVE  spoke' - spoke >= Interval - Jitter
    <3>1. spoke' = now /\ now - last >= delay
      BY <1>1, <2>3 DEF Claim
    <3>2. spoke <= last /\ delay >= Interval - Jitter
          /\ spoke \in Nat /\ last \in Nat /\ now \in Nat /\ delay \in Int
      BY <2>1, NotesAssumption DEF TimeInv, ClockType, ClockInv, Delay
    <3>3. QED BY <3>1, <3>2, NotesAssumption
  <2>4. QED
    BY <1>1, <2>2, <2>3 DEF Next, vars, clockVars, Tick, Restart, Deliver, Compete, Duplicate,
       Join, Mention, NotDue, Relieved, Work, SaveFails, Ignore, RunFails, Send, Posted,
       Refused, Lost
<1>2. IInv /\ [Next]_vars => [spoke' # spoke => spoke' - spoke >= Interval - Jitter]_vars
  BY <1>1
<1>3. QED BY <1>2, NotesInvariance, PTL DEF Spec, AutoRepliesSpaced

(* A mention never gives way to a timeline note that was not due: its task   *)
(* gives up only if a handler of the note has succeeded.                     *)
THEOREM MentionsProceed == Spec => MentionProceeds
<1> DEFINE Answered == \A h \in Handler :
                          /\ stops' = stops /\ channel[h] = "main"
                          /\ pc[h] \in {"spawned", "wait"} /\ pc'[h] = "free"
                          => handled[job[h]] > 0
<1>1. ASSUME IInv, [Next]_vars, NEW h \in Handler, stops' = stops, channel[h] = "main",
             pc[h] \in {"spawned", "wait"}, pc'[h] = "free"
      PROVE  handled[job[h]] > 0
  <2>1. TaskInv /\ RecordInv /\ TimeInv
    BY <1>1, Parts
  <2>2. ASSUME NEW g \in Handler, Duplicate(g)
        PROVE  handled[job[h]] > 0
    <3>1. pc' = [pc EXCEPT ![g] = "free"] /\ job[g] \in Remembered
      BY <2>2 DEF Duplicate, GiveUp, Leave
    <3>2. g = h
      BY <1>1, <2>1, <3>1 DEF TaskInv, TaskType
    <3>3. QED BY <2>1, <3>1, <3>2 DEF RecordInv, CountInv
  <2>3. ASSUME NEW g \in Handler, Relieved(g)
        PROVE  handled[job[h]] > 0
    <3>1. pc' = [pc EXCEPT ![g] = "free"] /\ pc[g] = "wait" /\ verdict[g] = "handled"
      BY <2>3 DEF Relieved, GiveUp, Leave
    <3>2. g = h
      BY <1>1, <2>1, <3>1 DEF TaskInv, TaskType
    <3>3. QED BY <2>1, <3>1, <3>2 DEF TaskInv, WaitInv
  <2>4. ASSUME NEW g \in Handler, NotDue(g)
        PROVE  FALSE
    <3>1. pc' = [pc EXCEPT ![g] = "free"] /\ channel[g] = "timeline"
      BY <2>4 DEF NotDue, GiveUp, Leave
    <3>2. QED BY <1>1, <2>1, <3>1 DEF TaskInv, TaskType
  <2>5. ASSUME NEW g \in Handler, pc[g] \in Working, Release(g)
        PROVE  FALSE
    <3>1. pc' = [pc EXCEPT ![g] = "free"]
      BY <2>5 DEF Release, Leave
    <3>2. QED BY <1>1, <2>1, <2>5, <3>1 DEF TaskInv, TaskType, Working
  <2>6. ASSUME NEW g \in Handler, Work(g)
        PROVE  FALSE
    <3>1. CASE Saved(g) \/ Send(g)
      BY <1>1, <2>1, <3>1 DEF Saved, Send, InTurn, TaskInv, TaskType
    <3>2. CASE SaveFails(g) \/ Ignore(g) \/ RunFails(g) \/ Posted(g) \/ Refused(g) \/ Lost(g)
      BY <2>5, <3>2 DEF SaveFails, InTurn, Ignore, RunFails, Posted, Refused, Lost,
         Succeed, Fail, Working
    <3>3. QED BY <2>6, <3>1, <3>2 DEF Work
  <2>7. ASSUME NEW g \in Handler, Join(g)
        PROVE  FALSE
    BY <1>1, <2>1, <2>7 DEF Join, TaskInv, TaskType
  <2>8. ASSUME NEW g \in Handler, Mention(g) \/ Claim(g)
        PROVE  FALSE
    <3>1. \E await \in {"save", "run"} : pc' = [pc EXCEPT ![g] = await]
      BY <2>8 DEF Mention, Claim, TakeNote
    <3>2. QED BY <1>1, <2>1, <3>1 DEF TaskInv, TaskType
  <2>9. ASSUME NEW g \in Handler, NEW n \in Note, NEW ch \in {"main", "timeline"},
               Deliver(g, n, ch)
        PROVE  FALSE
    BY <1>1, <2>1, <2>9 DEF Deliver, TaskInv, TaskType
  <2>10. ~Restart
    BY <1>1, <2>1 DEF Restart, TimeInv, ClockType
  <2>11. ~Tick /\ ~UNCHANGED vars
    BY <1>1 DEF Tick, vars, taskVars
  <2>12. QED
    BY <1>1, <2>2, <2>3, <2>4, <2>6, <2>7, <2>8, <2>9, <2>10, <2>11 DEF Next, Compete
<1>2. IInv /\ [Next]_vars => [Answered]_vars
  BY <1>1
<1>3. QED BY <1>2, NotesInvariance, PTL DEF Spec, MentionProceeds
=============================================================================
