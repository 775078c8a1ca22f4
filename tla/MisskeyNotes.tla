---------------------------- MODULE MisskeyNotes ----------------------------
(* The Misskey bot's handlers of incoming notes (bot/bot.py).  A note may    *)
(* arrive on the main channel, as a mention, and on the global timeline,     *)
(* where it is answered if an automatic reply is due; every arrival has a    *)
(* background task of its own, and the tasks of one note compete for it.     *)
(*                                                                           *)
(* _note_processing_lock is never held at an await, so what it guards is one *)
(* step here and the lock is left out.  What a note says and what is         *)
(* answered is left out too.                                                 *)
EXTENDS Integers, FiniteSets, Sequences

CONSTANTS
    Note,
    Blank,          \* notes without text or image
    NoNote,
    Handler,        \* slots for background tasks, max_concurrent_handlers many
    NoHandler,
    RecentLimit,    \* 1024 remembered note ids
    Interval,       \* auto_reply_interval
    Jitter,         \* auto_reply_jitter
    Persistent,     \* a Redis client is configured
    MaxDeliveries,  \* bound: messages of the stream that find a free slot
    MaxTime,        \* bound: the clock
    MaxStops        \* bound: stops of the process

ASSUME NotesAssumption ==
    /\ Blank \subseteq Note
    /\ NoNote \notin Note /\ NoHandler \notin Handler
    /\ RecentLimit \in Nat \ {0}
    /\ Interval \in Nat \ {0} /\ Jitter \in Nat
    /\ Persistent \in BOOLEAN
    /\ MaxDeliveries \in Nat /\ MaxTime \in Nat /\ MaxStops \in Nat

VARIABLES
    pc,         \* where each task is suspended, "free" if the slot has none
    job,        \* its note
    channel,    \* the channel the note came on
    verdict,    \* the future a waiting task awaits
    owner,      \* _note_processing: the task that has each note in hand
    recent,     \* _recent_note_ids
    last,       \* _last_auto_reply_time
    delay,      \* _next_auto_reply_delay
    saved,      \* the time Redis holds
    claimed,    \* the time each automatic reply claimed
    now,
    posted,     \* history: replies to each note that Misskey has created
    handled,    \* history: handlers of each note that succeeded
    unsure,     \* history: replies whose request ended without an answer
    forgotten,  \* history: times a remembered note was forgotten
    spoke,      \* history: the claim of the last automatic reply that began
    deliveries, stops

taskVars == <<pc, job, channel, verdict, owner>>
clockVars == <<last, delay, saved, claimed, spoke>>
countVars == <<posted, handled, unsure, forgotten>>
vars == <<taskVars, recent, clockVars, now, countVars, deliveries, stops>>

Await == {"free", "spawned", "wait", "save", "run", "post"}
Working == {"save", "run", "post"}

Delay == (Interval - Jitter) .. (Interval + Jitter)

Remembered == {recent[i] : i \in 1..Len(recent)}

Init ==
    /\ pc = [h \in Handler |-> "free"]
    /\ job = [h \in Handler |-> NoNote]
    /\ channel = [h \in Handler |-> "main"]
    /\ verdict = [h \in Handler |-> "pending"]
    /\ owner = [n \in Note |-> NoHandler]
    /\ recent = <<>>
    /\ last = 0 /\ delay \in Delay /\ saved = 0
    /\ claimed = [h \in Handler |-> 0]
    /\ now = 0 /\ spoke = 0
    /\ posted = [n \in Note |-> 0] /\ handled = [n \in Note |-> 0]
    /\ unsure = [n \in Note |-> 0] /\ forgotten = [n \in Note |-> 0]
    /\ deliveries = 0 /\ stops = 0

-----------------------------------------------------------------------------
(* Arrival *)

Tick ==
    /\ now < MaxTime
    /\ now' = now + 1
    /\ UNCHANGED <<taskVars, recent, clockVars, countVars, deliveries, stops>>

(* _spawn_background_task; a note that finds no free slot is dropped.        *)
Deliver(h, n, ch) ==
    /\ pc[h] = "free" /\ deliveries < MaxDeliveries
    /\ deliveries' = deliveries + 1
    /\ pc' = [pc EXCEPT ![h] = "spawned"]
    /\ job' = [job EXCEPT ![h] = n]
    /\ channel' = [channel EXCEPT ![h] = ch]
    /\ UNCHANGED <<verdict, owner, recent, clockVars, now, countVars, stops>>

-----------------------------------------------------------------------------
(* The loop of _process_note_event *)

(* At the top of the loop, for the first time or after the owner failed.     *)
Competes(h) == pc[h] = "spawned" \/ (pc[h] = "wait" /\ verdict[h] = "failed")

Unclaimed(h) == Competes(h) /\ job[h] \notin Remembered /\ owner[job[h]] = NoHandler

(* What a slot held is of no use to the next task in it.                     *)
Leave(h) ==
    /\ pc' = [pc EXCEPT ![h] = "free"]
    /\ job' = [job EXCEPT ![h] = NoNote]
    /\ channel' = [channel EXCEPT ![h] = "main"]

GiveUp(h) == Leave(h) /\ verdict' = [verdict EXCEPT ![h] = "pending"] /\ UNCHANGED owner

Duplicate(h) ==
    /\ Competes(h) /\ job[h] \in Remembered
    /\ GiveUp(h)
    /\ UNCHANGED <<recent, clockVars, now, countVars, deliveries, stops>>

(* await asyncio.shield(pending) *)
Join(h) ==
    /\ Competes(h) /\ job[h] \notin Remembered /\ owner[job[h]] # NoHandler
    /\ pc' = [pc EXCEPT ![h] = "wait"]
    /\ verdict' = [verdict EXCEPT ![h] = "pending"]
    /\ UNCHANGED <<job, channel, owner, recent, clockVars, now, countVars, deliveries, stops>>

Relieved(h) ==
    /\ pc[h] = "wait" /\ verdict[h] = "handled"
    /\ GiveUp(h)
    /\ UNCHANGED <<recent, clockVars, now, countVars, deliveries, stops>>

TakeNote(h, await) ==
    /\ owner' = [owner EXCEPT ![job[h]] = h]
    /\ pc' = [pc EXCEPT ![h] = await]
    /\ verdict' = [verdict EXCEPT ![h] = "pending"]
    /\ UNCHANGED <<job, channel, recent>>

Mention(h) ==
    /\ Unclaimed(h) /\ channel[h] = "main"
    /\ TakeNote(h, "run")
    /\ UNCHANGED <<clockVars, now, countVars, deliveries, stops>>

(* Plausible slip for TLC: a note that is not due counts as handled.         *)
BugNotDue(h) ==
    /\ Unclaimed(h) /\ channel[h] = "timeline"
    /\ job[h] \in Blank \/ now - last < delay
    /\ recent' = Append(IF Len(recent) >= RecentLimit THEN Tail(recent) ELSE recent, job[h])
    /\ GiveUp(h)
    /\ UNCHANGED <<clockVars, now, countVars, deliveries, stops>>

(* on_auto_reply up to its return False: there is no await in it, so no      *)
(* other task ever sees the note in this one's hand.                         *)
NotDue(h) ==
    /\ Unclaimed(h) /\ channel[h] = "timeline"
    /\ job[h] \in Blank \/ now - last < delay
    /\ GiveUp(h)
    /\ UNCHANGED <<recent, clockVars, now, countVars, deliveries, stops>>

(* Plausible slip for TLC: the time goes to Redis only, not to the field that *)
(* the next check reads.                                                     *)
BugClaim(h) ==
    /\ Unclaimed(h) /\ channel[h] = "timeline"
    /\ job[h] \notin Blank /\ now - last >= delay
    /\ claimed' = [claimed EXCEPT ![h] = now]
    /\ delay' \in Delay
    /\ TakeNote(h, "save")
    /\ UNCHANGED <<last, spoke, saved, now, countVars, deliveries, stops>>

(* on_auto_reply: the time is claimed before anything is awaited.            *)
Claim(h) ==
    /\ Unclaimed(h) /\ channel[h] = "timeline"
    /\ job[h] \notin Blank /\ now - last >= delay
    /\ last' = now
    /\ delay' \in Delay
    /\ \/ Persistent /\ TakeNote(h, "save")
          /\ claimed' = [claimed EXCEPT ![h] = now] /\ UNCHANGED spoke
       \/ ~Persistent /\ TakeNote(h, "run")
          /\ spoke' = now /\ UNCHANGED claimed
    /\ UNCHANGED <<saved, now, countVars, deliveries, stops>>

-----------------------------------------------------------------------------
(* The end of a handler *)

(* _remember_note_id *)
Remember(n) ==
    IF n \in Remembered THEN UNCHANGED <<recent, forgotten>>
    ELSE IF Len(recent) < RecentLimit
    THEN recent' = Append(recent, n) /\ UNCHANGED forgotten
    ELSE /\ recent' = Append(Tail(recent), n)
         /\ forgotten' = [forgotten EXCEPT ![Head(recent)] = @ + 1]

(* Plausible slip for TLC: the future is resolved on success only.           *)
BugTell(h, result) ==
    verdict' = [g \in Handler |->
                   IF /\ result = "handled"
                      /\ pc[g] = "wait" /\ job[g] = job[h] /\ verdict[g] = "pending"
                   THEN result ELSE verdict[g]]

(* pending.set_result *)
Tell(h, result) ==
    verdict' = [g \in Handler |->
                   IF pc[g] = "wait" /\ job[g] = job[h] /\ verdict[g] = "pending"
                   THEN result ELSE verdict[g]]

Release(h) ==
    /\ owner' = [owner EXCEPT ![job[h]] = NoHandler]
    /\ Leave(h)

Succeed(h) ==
    /\ Remember(job[h])
    /\ Tell(h, "handled")
    /\ Release(h)
    /\ handled' = [handled EXCEPT ![job[h]] = @ + 1]

Fail(h) ==
    /\ Tell(h, "failed")
    /\ Release(h)
    /\ UNCHANGED <<recent, handled, forgotten>>

-----------------------------------------------------------------------------
(* on_auto_reply and on_mention *)

(* Assumed of Redis: no write is overtaken by one issued a whole delay       *)
(* later, although each may have a connection of its own.                    *)
InTurn(h) ==
    /\ pc[h] = "save"
    /\ \A g \in Handler : pc[g] = "save" => claimed[h] <= claimed[g]

Saved(h) ==
    /\ InTurn(h)
    /\ saved' = claimed[h] /\ spoke' = claimed[h]
    /\ claimed' = [claimed EXCEPT ![h] = 0]
    /\ pc' = [pc EXCEPT ![h] = "run"]
    /\ UNCHANGED <<job, channel, verdict, owner, recent, last, delay, now,
                   countVars, deliveries, stops>>

(* Redis raised, with or without having stored the time: the slot is spent.  *)
SaveFails(h) ==
    /\ InTurn(h)
    /\ saved' \in {saved, claimed[h]}
    /\ claimed' = [claimed EXCEPT ![h] = 0]
    /\ Fail(h)
    /\ UNCHANGED <<last, delay, spoke, now, posted, unsure, deliveries, stops>>

(* on_mention returned without a reply: its own note, a direct message, a    *)
(* bot, a low score, nothing to answer, or NO_REPLY.                         *)
Ignore(h) ==
    /\ pc[h] = "run"
    /\ Succeed(h)
    /\ UNCHANGED <<clockVars, now, posted, unsure, deliveries, stops>>

(* The agent raised, or its reply was too long.                              *)
RunFails(h) ==
    /\ pc[h] = "run" /\ job[h] \notin Blank
    /\ Fail(h)
    /\ UNCHANGED <<clockVars, now, posted, unsure, deliveries, stops>>

Send(h) ==
    /\ pc[h] = "run" /\ job[h] \notin Blank
    /\ pc' = [pc EXCEPT ![h] = "post"]
    /\ UNCHANGED <<job, channel, verdict, owner, recent, clockVars, now, countVars,
                   deliveries, stops>>

(* Plausible slip for TLC: handled is set before the note is sent only.      *)
BugPosted(h) ==
    /\ pc[h] = "post"
    /\ posted' = [posted EXCEPT ![job[h]] = @ + 1]
    /\ Fail(h)
    /\ UNCHANGED <<clockVars, now, unsure, deliveries, stops>>

Posted(h) ==
    /\ pc[h] = "post"
    /\ posted' = [posted EXCEPT ![job[h]] = @ + 1]
    /\ Succeed(h)
    /\ UNCHANGED <<clockVars, now, unsure, deliveries, stops>>

Refused(h) ==
    /\ pc[h] = "post"
    /\ Fail(h)
    /\ UNCHANGED <<clockVars, now, posted, unsure, deliveries, stops>>

(* A timeout, a lost connection, a server error or an unreadable answer:     *)
(* Misskey may have created the note.                                        *)
Lost(h) ==
    /\ pc[h] = "post"
    /\ \E k \in {0, 1} : posted' = [posted EXCEPT ![job[h]] = @ + k]
    /\ unsure' = [unsure EXCEPT ![job[h]] = @ + 1]
    /\ Fail(h)
    /\ UNCHANGED <<clockVars, now, deliveries, stops>>

-----------------------------------------------------------------------------
(* The process stops, cancelling every task or crashing, and starts again:   *)
(* requests under way may or may not arrive.                                 *)
Restart ==
    /\ stops < MaxStops
    /\ stops' = stops + 1
    /\ \E arrived \in SUBSET {h \in Handler : pc[h] = "post"} :
           posted' = [n \in Note |-> IF \E h \in arrived : job[h] = n
                                     THEN posted[n] + 1 ELSE posted[n]]
    /\ unsure' = [n \in Note |-> IF \E h \in Handler : pc[h] = "post" /\ job[h] = n
                                 THEN unsure[n] + 1 ELSE unsure[n]]
    /\ forgotten' = [n \in Note |-> IF n \in Remembered THEN forgotten[n] + 1
                                    ELSE forgotten[n]]
    /\ recent' = <<>>
    /\ pc' = [h \in Handler |-> "free"]
    /\ job' = [h \in Handler |-> NoNote]
    /\ channel' = [h \in Handler |-> "main"]
    /\ verdict' = [h \in Handler |-> "pending"]
    /\ claimed' = [h \in Handler |-> 0]
    /\ owner' = [n \in Note |-> NoHandler]
    /\ \E t \in {saved} \cup {claimed[h] : h \in {g \in Handler : pc[g] = "save"}} :
           last' = IF Persistent THEN t ELSE now
    /\ saved' = last'
    /\ delay' \in Delay
    /\ UNCHANGED <<now, handled, spoke, deliveries>>

-----------------------------------------------------------------------------
Compete(h) == Duplicate(h) \/ Join(h) \/ Mention(h) \/ NotDue(h) \/ Claim(h)

Work(h) ==
    \/ Saved(h) \/ SaveFails(h)
    \/ Ignore(h) \/ RunFails(h) \/ Send(h)
    \/ Posted(h) \/ Refused(h) \/ Lost(h)

Next ==
    \/ Tick \/ Restart
    \/ \E h \in Handler :
         \/ \E n \in Note, ch \in {"main", "timeline"} : Deliver(h, n, ch)
         \/ Compete(h) \/ Relieved(h) \/ Work(h)

Spec == Init /\ [][Next]_vars

(* The event loop runs every task that can run; the agent and Misskey answer *)
(* or fail within a timeout, and Redis is assumed to answer or fail.         *)
Fairness == \A h \in Handler : WF_vars(Compete(h) \/ Relieved(h) \/ Work(h))

FairSpec == Spec /\ Fairness

-----------------------------------------------------------------------------
(* Properties *)

(* Every variable holds a value the code can store or hold in it. *)
TypeOK ==
    /\ pc \in [Handler -> Await] /\ job \in [Handler -> Note \cup {NoNote}]
    /\ channel \in [Handler -> {"main", "timeline"}]
    /\ verdict \in [Handler -> {"pending", "handled", "failed"}]
    /\ owner \in [Note -> Handler \cup {NoHandler}]
    /\ recent \in Seq(Note) /\ Len(recent) <= RecentLimit
    /\ last \in Nat /\ delay \in Int /\ saved \in Nat
    /\ claimed \in [Handler -> Nat]
    /\ now \in Nat /\ spoke \in Nat
    /\ posted \in [Note -> Nat] /\ handled \in [Note -> Nat]
    /\ unsure \in [Note -> Nat] /\ forgotten \in [Note -> Nat]
    /\ deliveries \in Nat /\ stops \in Nat

(* Two tasks never have one note in hand, whatever channels it came on.      *)
SoleHandler ==
    \A g, h \in Handler :
        pc[g] \in Working /\ pc[h] \in Working /\ job[g] = job[h] => g = h

(* bot.py:141: only one successful handler of a note runs, as long as the    *)
(* bounded record remembers it.                                              *)
OneSuccess == \A n \in Note : handled[n] <= 1 + forgotten[n]

(* A note gets one reply, and another only after a request that was never    *)
(* answered or after the record forgot the note.                             *)
OneReply == \A n \in Note : posted[n] <= 1 + unsure[n] + forgotten[n]

(* A task that waits for another one's result waits for one that still has   *)
(* the note in hand and will resolve the future.                             *)
NobodyStranded ==
    \A h \in Handler :
        pc[h] = "wait" /\ verdict[h] = "pending" =>
            owner[job[h]] # NoHandler /\ pc[owner[job[h]]] \in Working

(* bot.py:142: a timeline note that is not due does not count as handled; a  *)
(* mention that got a task gives up only if a handler of its note succeeded. *)
MentionProceeds ==
    [][\A h \in Handler :
         /\ stops' = stops /\ channel[h] = "main"
         /\ pc[h] \in {"spawned", "wait"} /\ pc'[h] = "free"
         => handled[job[h]] > 0]_vars

(* Automatic replies are the shortest delay apart, across restarts too if    *)
(* there is a Redis, and from the start of the process if there is none.     *)
AutoRepliesSpaced == [][spoke' # spoke => spoke' - spoke >= Interval - Jitter]_vars

(* models.py:314 says of auto_reply_interval: minimum seconds between        *)
(* automatic replies.                                                        *)
MinimumSeconds == [][spoke' # spoke => spoke' - spoke >= Interval]_vars

(* Every task ends, also one that waits for the task of another channel.     *)
TasksEnd == \A h \in Handler : pc[h] # "free" ~> pc[h] = "free"

-----------------------------------------------------------------------------
(* The inductive invariant *)

(* The task that has a note in hand is the one registered for it.            *)
OwnerInv ==
    \A h \in Handler, n \in Note :
        owner[n] = h <=> pc[h] \in Working /\ job[h] = n

(* A task has a note, and one that waits has an owner to wait for or a       *)
(* result to act on.                                                         *)
WaitInv ==
    \A h \in Handler :
        /\ pc[h] # "free" => job[h] \in Note
        /\ pc[h] = "wait" /\ verdict[h] = "pending" => owner[job[h]] # NoHandler
        /\ pc[h] = "wait" /\ verdict[h] = "handled" => handled[job[h]] > 0

(* A note in hand is not remembered; what succeeded is remembered or was     *)
(* forgotten, and what is remembered succeeded.                              *)
CountInv ==
    /\ \A h \in Handler : pc[h] \in Working => job[h] \notin Remembered
    /\ \A n \in Note : handled[n] <= forgotten[n] + (IF n \in Remembered THEN 1 ELSE 0)
    /\ \A n \in Remembered : handled[n] > 0
    /\ \A n \in Note : posted[n] <= handled[n] + unsure[n]

(* Claims follow each other at the shortest delay, and the time of none that *)
(* was spoken is ever lost.                                                  *)
ClockInv ==
    /\ delay \in Delay
    /\ spoke <= last /\ last <= now /\ (Persistent => spoke <= saved) /\ saved <= now
    /\ \A h \in Handler : pc[h] = "save" =>
          /\ Persistent
          /\ spoke <= claimed[h] /\ claimed[h] <= last
          /\ claimed[h] - spoke >= Interval - Jitter
          /\ \A g \in Handler \ {h} : pc[g] = "save" =>
                \/ claimed[g] - claimed[h] >= Interval - Jitter
                \/ claimed[h] - claimed[g] >= Interval - Jitter

IInv == TypeOK /\ OwnerInv /\ WaitInv /\ CountInv /\ ClockInv
=============================================================================
