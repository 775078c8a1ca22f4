------------------------------ MODULE ChatTurns ------------------------------
(* Conversational turns of one author: ChatAgent.run() of ai.py, the message  *)
(* scorer it starts beside the model, the tools with which the model adjusts  *)
(* social credit, and recall and retention of memory.  Turns run concurrently *)
(* (Misskey, Nostr, Buzz and ACP share Redis) and can be cancelled at every   *)
(* await.  An entry is one change of the score: a turn's automatic one, or a  *)
(* tool call's.                                                              *)
EXTENDS Integers, FiniteSets

CONSTANTS
    Turn,           \* concurrent turns of the author
    Privileged,     \* those whose author may adjust scores by hand
    Call,           \* tool calls of one model run, scheduled together
    Delta,          \* what a category other than the neutral ones is worth
    Amount,         \* what a tool call asks for
    MaxFaults       \* bound of the instance: Redis failures and cancellations

ASSUME TurnsAssumption ==
    /\ Privileged \subseteq Turn /\ "auto" \notin Call
    /\ Delta \in Int \ {0} /\ Amount \in Int /\ MaxFaults \in Nat

VARIABLES
    phase,      \* the await run() is suspended at
    scoring,    \* the command the scoring task is about to send
    cancelled,  \* turns whose scoring task was told to stop
    adjusted,   \* turns with the author in adjusted_credit_users
    credit,     \* of an entry: the command apply_social_credit is about to send
    fresh,      \* what its INCRBY returned, until it is recorded
    cooldown,   \* Redis: score_cooldown:<author> exists
    score,      \* Redis: score:<author>
    history,    \* Redis: history:<author>, as the entries in it
    expired,    \* entries that were in it when it expired
    board,      \* Redis: the author's member of global:leaderboard
    applied,    \* entries whose INCRBY took effect
    windows,    \* cooldown windows opened so far
    answered,   \* turns whose model run succeeded
    retained,   \* Hindsight: turns whose exchange was retained
    faults

run == <<phase, scoring, cancelled, answered>>
tools == <<adjusted, credit, fresh>>
redis == <<cooldown, score, history, expired, board, applied, windows>>
turnVars == <<run, tools, redis, retained, faults>>

Entry == Turn \X (Call \cup {"auto"})
Automatic(t) == <<t, "auto">>
Worth(e) == IF e[2] = "auto" THEN Delta ELSE Amount
Total(S) == Delta * Cardinality({e \in S : e[2] = "auto"})
            + Amount * Cardinality({e \in S : e[2] # "auto"})
Recorded == history \cup expired     \* entries that were ever pushed
Busy(e) == credit[e] \in {"apply", "record"}
Scored(t) == scoring[t] \in {"off", "ended"}

TurnsInit ==
    /\ phase = [t \in Turn |-> "new"] /\ scoring = [t \in Turn |-> "off"]
    /\ cancelled = {} /\ answered = {} /\ retained = {} /\ adjusted = {}
    /\ credit = [e \in Entry |-> "none"] /\ fresh = [e \in Entry |-> 0]
    /\ cooldown = FALSE /\ score = 0 /\ history = {} /\ expired = {} /\ board = 0
    /\ applied = {} /\ windows = 0 /\ faults = 0

Fault == faults < MaxFaults /\ faults' = faults + 1
GoTo(t, p) == phase' = [phase EXCEPT ![t] = p]
Score(t, s) == scoring' = [scoring EXCEPT ![t] = s]

-----------------------------------------------------------------------------
(* apply_social_credit(): one INCRBY, then history and leaderboard in one     *)
(* transaction.  A call is assumed to take effect at most once: the client is *)
(* made without a retry policy of its own, and one that sends a command again *)
(* after a lost answer would apply it twice.                                 *)

IncrBy(e) ==
    /\ credit[e] = "apply" /\ e[1] \notin cancelled
    /\ score' = score + Worth(e) /\ applied' = applied \cup {e}
    /\ fresh' = [fresh EXCEPT ![e] = score'] /\ credit' = [credit EXCEPT ![e] = "record"]
    /\ UNCHANGED <<run, adjusted, cooldown, history, expired, board, windows, retained, faults>>

(* A defect: the pipeline also stores the score that INCRBY returned.         *)
BugRecord(e) ==
    /\ credit[e] = "record" /\ e[1] \notin cancelled
    /\ history' = history \cup {e} /\ board' = fresh[e] /\ score' = fresh[e]
    /\ credit' = [credit EXCEPT ![e] = "recorded"] /\ fresh' = [fresh EXCEPT ![e] = 0]
    /\ IF e[2] = "auto" THEN Score(e[1], "ended") ELSE UNCHANGED scoring
    /\ UNCHANGED <<phase, cancelled, answered, adjusted, cooldown, expired, applied,
                   windows, retained, faults>>

(* LPUSH, EXPIRE and ZADD.  EXPIRE lets the whole list live for another 30    *)
(* days.                                                                     *)
Record(e) ==
    /\ credit[e] = "record" /\ e[1] \notin cancelled
    /\ history' = history \cup {e} /\ board' = fresh[e]
    /\ credit' = [credit EXCEPT ![e] = "recorded"] /\ fresh' = [fresh EXCEPT ![e] = 0]
    /\ IF e[2] = "auto" THEN Score(e[1], "ended") ELSE UNCHANGED scoring
    /\ UNCHANGED <<phase, cancelled, answered, adjusted, cooldown, score, expired, applied,
                   windows, retained, faults>>

(* The author's score has not changed for 30 days: the list goes, score and   *)
(* leaderboard stay.                                                         *)
HistoryEnds ==
    /\ history # {} /\ history' = {} /\ expired' = Recorded
    /\ UNCHANGED <<run, tools, cooldown, score, board, applied, windows, retained, faults>>

(* Redis fails: the scorer logs it and ends, the tool answers with an error.  *)
(* A command that failed on its way back counts as done, before the next.    *)
CreditFails(e) ==
    /\ Busy(e) /\ e[1] \notin cancelled /\ Fault
    /\ credit' = [credit EXCEPT ![e] = "lost"]
    /\ IF e[2] = "auto" THEN Score(e[1], "ended") ELSE UNCHANGED scoring
    /\ UNCHANGED <<phase, cancelled, answered, adjusted, fresh, redis, retained>>

-----------------------------------------------------------------------------
(* The scoring task: _maybe_score_message().                                 *)

Exists(t) ==
    /\ scoring[t] = "exists" /\ t \notin cancelled
    /\ Score(t, IF cooldown THEN "ended" ELSE "classify")
    /\ UNCHANGED <<phase, cancelled, answered, tools, redis, retained, faults>>

(* The classifier fails, or names a category that is worth nothing, or not.   *)
Classify(t) ==
    /\ scoring[t] = "classify" /\ t \notin cancelled
    /\ \E s \in {"ended", "claim"} : Score(t, s)
    /\ UNCHANGED <<phase, cancelled, answered, tools, redis, retained, faults>>

(* A defect: the claim overwrites the key of a run that has won already.      *)
BugClaim(t) ==
    /\ scoring[t] = "claim" /\ t \notin cancelled
    /\ Score(t, "credit") /\ credit' = [credit EXCEPT ![Automatic(t)] = "apply"]
    /\ cooldown' = TRUE /\ windows' = IF cooldown THEN windows ELSE windows + 1
    /\ UNCHANGED <<phase, cancelled, answered, adjusted, fresh, score, history, expired, board,
                   applied, retained, faults>>

(* SET NX EX on the cooldown key.                                            *)
Claim(t) ==
    /\ scoring[t] = "claim" /\ t \notin cancelled
    /\ IF cooldown
       THEN Score(t, "ended") /\ UNCHANGED <<credit, cooldown, windows>>
       ELSE /\ Score(t, "credit") /\ credit' = [credit EXCEPT ![Automatic(t)] = "apply"]
            /\ cooldown' = TRUE /\ windows' = windows + 1
    /\ UNCHANGED <<phase, cancelled, answered, adjusted, fresh, score, history, expired, board,
                   applied, retained, faults>>

CooldownEnds ==
    /\ cooldown /\ cooldown' = FALSE
    /\ UNCHANGED <<run, tools, score, history, expired, board, applied, windows, retained, faults>>

ScoringFails(t) ==
    /\ scoring[t] \in {"exists", "claim"} /\ t \notin cancelled /\ Fault
    /\ Score(t, "ended")
    /\ UNCHANGED <<phase, cancelled, answered, tools, redis, retained>>

(* The cancelled task stops.  A command it had sent takes effect before.     *)
Unwind(t) ==
    /\ t \in cancelled /\ ~Scored(t)
    /\ Score(t, "ended")
    /\ credit' = IF Busy(Automatic(t)) THEN [credit EXCEPT ![Automatic(t)] = "lost"] ELSE credit
    /\ UNCHANGED <<phase, cancelled, answered, adjusted, fresh, redis, retained, faults>>

-----------------------------------------------------------------------------
(* A tool call of the model: adjust_social_credit().  One of an author who is *)
(* not privileged, or adjusted before in this turn, is refused: it changes    *)
(* nothing.                                                                  *)

Adjust(t, c) ==
    /\ phase[t] = "model" /\ credit[<<t, c>>] = "none"
    /\ t \in Privileged \ adjusted
    /\ credit' = [credit EXCEPT ![<<t, c>>] = "apply"] /\ adjusted' = adjusted \cup {t}
    /\ UNCHANGED <<run, fresh, redis, retained, faults>>

-----------------------------------------------------------------------------
(* The turn: run().                                                          *)

(* The score is read and memory recalled; neither failure matters.           *)
Begin(t) ==
    /\ phase[t] = "new" /\ GoTo(t, "recall")
    /\ UNCHANGED <<scoring, cancelled, answered, tools, redis, retained, faults>>

Recall(t) ==
    /\ phase[t] = "recall" /\ GoTo(t, "model") /\ Score(t, "exists")
    /\ UNCHANGED <<cancelled, answered, tools, redis, retained, faults>>

(* The model run ends when its tool calls have.                              *)
Answers(t) ==
    /\ phase[t] = "model" /\ \A c \in Call : ~Busy(<<t, c>>)
    /\ GoTo(t, "settle") /\ answered' = answered \cup {t}
    /\ UNCHANGED <<scoring, cancelled, tools, redis, retained, faults>>

Stop(t) == cancelled' = IF Scored(t) THEN cancelled ELSE cancelled \cup {t}
Forget(t) ==
    credit' = [e \in Entry |-> IF e[1] = t /\ e[2] \in Call /\ Busy(e) THEN "lost" ELSE credit[e]]

(* The model run fails or is cancelled, and its tool calls with it: scoring   *)
(* is told to stop.                                                          *)
Fails(t) ==
    /\ phase[t] = "model" /\ Fault
    /\ GoTo(t, "stopping") /\ Stop(t) /\ Forget(t)
    /\ UNCHANGED <<scoring, answered, adjusted, fresh, redis, retained>>

(* A defect: the failed turn waits until its scoring task has stopped.        *)
BugStopped(t) ==
    /\ phase[t] = "stopping" /\ Scored(t) /\ GoTo(t, "failed")
    /\ UNCHANGED <<scoring, cancelled, answered, tools, redis, retained, faults>>

(* The scoring task has stopped, or 0.1 s have passed.                       *)
Stopped(t) ==
    /\ phase[t] = "stopping" /\ GoTo(t, "failed")
    /\ UNCHANGED <<scoring, cancelled, answered, tools, redis, retained, faults>>

(* A defect: a reply does not wait for its scoring.                          *)
BugSettled(t) ==
    /\ phase[t] = "settle" /\ GoTo(t, "retain")
    /\ UNCHANGED <<scoring, cancelled, answered, tools, redis, retained, faults>>

(* The scoring task has ended; a cancellation that went through it surfaces.  *)
Settled(t) ==
    /\ phase[t] = "settle" /\ Scored(t)
    /\ GoTo(t, IF t \in cancelled THEN "failed" ELSE "retain")
    /\ UNCHANGED <<scoring, cancelled, answered, tools, redis, retained, faults>>

(* _retain_memory_exchange(): Hindsight's answer, whatever it is, ends it.    *)
Retain(t) ==
    /\ phase[t] = "retain" /\ GoTo(t, "replied")
    /\ retained' \in {retained, retained \cup {t}}
    /\ UNCHANGED <<scoring, cancelled, answered, tools, redis, faults>>

(* The turn is cancelled outside the model run.  While it awaits the scoring  *)
(* task the cancellation goes there; an exchange already sent is retained.   *)
Cancel(t) ==
    /\ Fault
    /\ \/ phase[t] = "recall" /\ GoTo(t, "failed") /\ UNCHANGED <<cancelled, retained>>
       \/ /\ phase[t] = "settle" /\ ~Scored(t) /\ t \notin cancelled
          /\ Stop(t) /\ UNCHANGED <<phase, retained>>
       \/ /\ phase[t] = "settle" /\ Scored(t)
          /\ GoTo(t, "failed") /\ UNCHANGED <<cancelled, retained>>
       \/ /\ phase[t] = "retain" /\ GoTo(t, "failed")
          /\ retained' \in {retained, retained \cup {t}} /\ UNCHANGED cancelled
    /\ UNCHANGED <<scoring, answered, tools, redis>>

-----------------------------------------------------------------------------
Scorer(t) == Exists(t) \/ Classify(t) \/ Claim(t) \/ IncrBy(Automatic(t)) \/ Record(Automatic(t))
Manual(e) == IncrBy(e) \/ Record(e)
Turns(t) == Recall(t) \/ Answers(t) \/ Stopped(t) \/ Settled(t) \/ Retain(t)

TurnsNext ==
    \/ CooldownEnds \/ HistoryEnds
    \/ \E e \in Entry : CreditFails(e)
    \/ \E t \in Turn :
          \/ Begin(t) \/ Turns(t) \/ Fails(t) \/ Cancel(t)
          \/ Scorer(t) \/ ScoringFails(t) \/ Unwind(t)
          \/ \E c \in Call : Adjust(t, c) \/ Manual(<<t, c>>)

TurnsSpec == TurnsInit /\ [][TurnsNext]_turnVars

(* Model, classifier and Hindsight calls have timeouts, and Redis is assumed  *)
(* to answer.  Nothing says how fast a cancelled task stops, or that the      *)
(* author is silent for long enough for a key to expire.                     *)
FairTurns ==
    /\ TurnsSpec
    /\ \A t \in Turn : WF_turnVars(Turns(t)) /\ WF_turnVars(Scorer(t))
    /\ \A e \in Entry : WF_turnVars(Manual(e))

-----------------------------------------------------------------------------
(* Messages are scored at most once in a cooldown window, though all runs of  *)
(* an author may have passed the check before the first one claims it.       *)
ScoredOncePerWindow == Cardinality({t \in Turn : Automatic(t) \in applied}) <= windows

(* No change of the score is lost.  Each one is in the history, was in it     *)
(* when the list expired, is still being recorded, or its recording failed;   *)
(* and the history says nothing that did not happen, or that it said before.  *)
ScoreAccounted ==
    /\ score = Total(applied) /\ Recorded \subseteq applied
    /\ history \cap expired = {}
    /\ \A e \in applied \ Recorded : credit[e] \in {"record", "lost"}

(* Only turns with an answer are retained, and neither a retained exchange    *)
(* nor a reply leaves scoring or tools of the turn running.                  *)
Settlement ==
    \A t \in Turn :
        /\ t \in retained => t \in answered
        /\ t \in retained \/ phase[t] = "replied" =>
               Scored(t) /\ \A x \in Call \cup {"auto"} : ~Busy(<<t, x>>)

(* A turn ends, however slowly its scoring task reacts to a cancellation,     *)
(* unless the cancellation came when the turn was waiting for that task.     *)
TurnEnds ==
    \A t \in Turn :
        phase[t] = "recall" ~>
            phase[t] \in {"replied", "failed"} \/ (phase[t] = "settle" /\ t \in cancelled)

(* "Get the top users by social credit score": with every change recorded,    *)
(* the leaderboard shows the author's score.                                 *)
BoardIsScore == Recorded = applied => board = score
-----------------------------------------------------------------------------
(* The inductive invariant                                                    *)

(* Every variable holds a value the code or Redis can store in it.            *)
TurnsTypeOK ==
    /\ phase \in [Turn -> {"new", "recall", "model", "stopping", "settle", "retain",
                            "replied", "failed"}]
    /\ scoring \in [Turn -> {"off", "exists", "classify", "claim", "credit", "ended"}]
    /\ credit \in [Entry -> {"none", "apply", "record", "recorded", "lost"}]
    /\ fresh \in [Entry -> Int] /\ score \in Int /\ board \in Int /\ cooldown \in BOOLEAN
    /\ cancelled \subseteq Turn /\ answered \subseteq Turn /\ retained \subseteq Turn
    /\ adjusted \subseteq Turn /\ history \subseteq Entry /\ expired \subseteq Entry
    /\ applied \subseteq Entry
    /\ windows \in Nat /\ faults \in Nat

(* How far a change has come in Redis; the score is what has been applied.    *)
EntryInv ==
    /\ IsFiniteSet(applied) /\ score = Total(applied)
    /\ Recorded \subseteq applied /\ history \cap expired = {}
    /\ \A e \in Entry :
          /\ e \in applied => credit[e] \in {"record", "recorded", "lost"}
          /\ credit[e] = "record" => e \in applied
          /\ credit[e] = "recorded" <=> e \in Recorded

(* The scoring task starts after recall and has no change in hand but while   *)
(* it applies one.                                                           *)
ScorerInv ==
    \A t \in Turn :
        /\ phase[t] \in {"new", "recall"} => scoring[t] = "off"
        /\ scoring[t] \in {"off", "exists", "classify", "claim"} => credit[Automatic(t)] = "none"
        /\ Busy(Automatic(t)) => scoring[t] = "credit"

(* Each turn that began to score did so by opening a window.                  *)
Claimants == {t \in Turn : credit[Automatic(t)] # "none"}
ClaimInv == IsFiniteSet(Claimants) /\ Cardinality(Claimants) <= windows

(* Tool calls run inside the model run; what follows a reply has waited for   *)
(* the scoring task.                                                         *)
TurnInv ==
    \A t \in Turn :
        /\ phase[t] # "model" => \A c \in Call : ~Busy(<<t, c>>)
        /\ phase[t] \in {"settle", "retain", "replied"} => t \in answered
        /\ phase[t] \in {"retain", "replied"} => Scored(t)
        /\ t \in retained => t \in answered /\ Scored(t) /\ phase[t] \in {"replied", "failed"}

TurnsIInv == TurnsTypeOK /\ EntryInv /\ ScorerInv /\ ClaimInv /\ TurnInv
=============================================================================
