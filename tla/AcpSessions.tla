----------------------------- MODULE AcpSessions -----------------------------
(* The sessions of the ACP front end (acp/agent.py, acp/session.py), served  *)
(* over WebSocket connections that share one registry and one semaphore.     *)
(* Prompts, cancels and closes are tasks of one event loop.                  *)
(*                                                                           *)
(* Requests the agent rejects (an unknown session, no text or too much, a    *)
(* prompt in flight, no capacity) change nothing and are left out.           *)
EXTENDS Naturals, Sequences, FiniteSets

CONSTANTS
    Session,        \* session ids, each created once
    Prompt,         \* prompts of clients
    Conn,           \* WebSocket connections, each with an adapter
    NoPrompt, NoConn, NoSession,
    MaxSessions,    \* acp_max_sessions: sessions, and slots for prompts
    HistoryTurns    \* acp_max_history_turns

ASSUME AcpAssumption ==
    /\ NoPrompt \notin Prompt /\ NoConn \notin Conn /\ NoSession \notin Session
    /\ MaxSessions \in Nat \ {0} /\ HistoryTurns \in Nat \ {0}

VARIABLES
    link,       \* each connection: up, closing, or down
    home,       \* the connection that created each session
    open,       \* the registry; each adapter's _session_ids are its part of it
    task,       \* AcpSession.task
    cancelled,  \* AcpSession.cancelled
    history,    \* AcpSession.history
    awaited,    \* the prompt that the close_session of a session awaits
    closed,     \* history: sessions whose close_session has returned
    pc,         \* where each prompt is suspended
    of,         \* its session
    seen,       \* the history in its AgentTurn
    doomed,     \* its task was told to cancel
    asked,      \* history: a cancel or close asked for it while in flight
    answer,     \* its response
    free        \* slots left in the semaphore

sessionVars == <<home, open, task, cancelled, history, awaited, closed>>
promptVars == <<pc, of, seen, doomed, asked, answer>>
vars == <<link, sessionVars, promptVars, free>>

Await == {"unsent", "slot", "score", "run", "push", "done"}
Holding == {"score", "run"}
AtWork == {"slot", "score", "run"}
InFlight == AtWork \cup {"push"}

Turn == Prompt \X {"user", "assistant"}

Init ==
    /\ link = [c \in Conn |-> "up"]
    /\ home = [s \in Session |-> NoConn] /\ open = {}
    /\ task = [s \in Session |-> NoPrompt]
    /\ cancelled = [s \in Session |-> FALSE]
    /\ history = [s \in Session |-> <<>>]
    /\ awaited = [s \in Session |-> NoPrompt] /\ closed = {}
    /\ pc = [p \in Prompt |-> "unsent"] /\ of = [p \in Prompt |-> NoSession]
    /\ seen = [p \in Prompt |-> <<>>] /\ doomed = [p \in Prompt |-> FALSE]
    /\ asked = [p \in Prompt |-> FALSE] /\ answer = [p \in Prompt |-> "none"]
    /\ free = MaxSessions

-----------------------------------------------------------------------------
(* Sessions *)

NewSession(c, s) ==
    /\ link[c] = "up" /\ home[s] = NoConn
    /\ Cardinality(open) < MaxSessions
    /\ home' = [home EXCEPT ![s] = c]
    /\ open' = open \cup {s}
    /\ UNCHANGED <<link, task, cancelled, history, awaited, closed, promptVars, free>>

(* Plausible slip for TLC: the prompt is cancelled without being told why.   *)
BugInterrupt(s) ==
    IF task[s] = NoPrompt
    THEN UNCHANGED <<cancelled, doomed, asked>>
    ELSE /\ doomed' = [doomed EXCEPT ![task[s]] = TRUE]
         /\ asked' = [asked EXCEPT ![task[s]] = TRUE]
         /\ UNCHANGED cancelled

(* session.task.cancel(), with the reason left in session.cancelled.         *)
Interrupt(s) ==
    IF task[s] = NoPrompt
    THEN UNCHANGED <<cancelled, doomed, asked>>
    ELSE /\ doomed' = [doomed EXCEPT ![task[s]] = TRUE]
         /\ asked' = [asked EXCEPT ![task[s]] = TRUE]
         /\ cancelled' = [cancelled EXCEPT ![s] = TRUE]

(* The registry is shared, so cancel reaches sessions of any connection, and *)
(* its flag is set with no prompt in flight too.                             *)
Cancel(s) ==
    /\ s \in open /\ \E c \in Conn : link[c] = "up"
    /\ IF task[s] = NoPrompt
       THEN cancelled' = [cancelled EXCEPT ![s] = TRUE] /\ UNCHANGED <<doomed, asked>>
       ELSE Interrupt(s)
    /\ UNCHANGED <<link, home, open, task, history, awaited, closed, pc, of, seen, answer, free>>

(* close_session up to its await of the prompt's task, if there is one.      *)
Remove(s) ==
    /\ open' = open \ {s}
    /\ Interrupt(s)
    /\ awaited' = [awaited EXCEPT ![s] = task[s]]
    /\ closed' = IF task[s] = NoPrompt THEN closed \cup {s} ELSE closed
    /\ UNCHANGED <<home, task, history, pc, of, seen, answer, free>>

Close(s) ==
    /\ s \in open /\ link[home[s]] = "up"
    /\ Remove(s)
    /\ UNCHANGED link

Closed(s) ==
    /\ awaited[s] # NoPrompt /\ pc[awaited[s]] = "done"
    /\ awaited' = [awaited EXCEPT ![s] = NoPrompt]
    /\ closed' = closed \cup {s}
    /\ UNCHANGED <<link, home, open, task, cancelled, history, promptVars, free>>

-----------------------------------------------------------------------------
(* Prompts *)

(* Plausible slip for TLC: the flag of an earlier cancel is not reset.       *)
BugClaim(p, s) ==
    /\ task[s] = NoPrompt
    /\ task' = [task EXCEPT ![s] = p]
    /\ UNCHANGED cancelled

(* One prompt in flight per session, and a fresh flag for it.                *)
Claim(p, s) ==
    /\ task[s] = NoPrompt
    /\ task' = [task EXCEPT ![s] = p]
    /\ cancelled' = [cancelled EXCEPT ![s] = FALSE]

Begin(p, s) ==
    /\ pc[p] = "unsent"
    /\ s \in open /\ link[home[s]] = "up"
    /\ Claim(p, s)
    /\ of' = [of EXCEPT ![p] = s]
    /\ IF free > 0 /\ \A q \in Prompt : pc[q] # "slot"
       THEN free' = free - 1 /\ pc' = [pc EXCEPT ![p] = "score"]
       ELSE pc' = [pc EXCEPT ![p] = "slot"] /\ UNCHANGED free
    /\ UNCHANGED <<link, home, open, history, awaited, closed, seen, doomed, asked, answer>>

(* The semaphore wakes the waiters first come, first served; any order here. *)
GetSlot(p) ==
    /\ pc[p] = "slot" /\ ~doomed[p] /\ free > 0
    /\ free' = free - 1
    /\ pc' = [pc EXCEPT ![p] = "score"]
    /\ UNCHANGED <<link, sessionVars, of, seen, doomed, asked, answer>>

(* Plausible slip for TLC: the slot is given back whether it was taken.      *)
BugLeave(p, next) ==
    /\ free' = free + 1
    /\ task' = [task EXCEPT ![of[p]] = NoPrompt]
    /\ pc' = [pc EXCEPT ![p] = next]

(* The end of the try block and of the semaphore's, by whatever way.         *)
Leave(p, next) ==
    /\ free' = IF pc[p] \in Holding THEN free + 1 ELSE free
    /\ task' = [task EXCEPT ![of[p]] = IF @ = p THEN NoPrompt ELSE @]
    /\ pc' = [pc EXCEPT ![p] = next]

Answer(p, a) ==
    /\ answer' = [answer EXCEPT ![p] = a]
    /\ Leave(p, "done")
    /\ UNCHANGED <<link, home, open, cancelled, awaited, closed, of, seen, doomed, asked>>

Refuse(p) ==
    /\ pc[p] = "score" /\ ~doomed[p]
    /\ Answer(p, "refusal")
    /\ UNCHANGED history

Raise(p) ==
    /\ pc[p] \in Holding /\ ~doomed[p]
    /\ Answer(p, "error")
    /\ UNCHANGED history

(* history=list(session.history), and agent.run.                             *)
Run(p) ==
    /\ pc[p] = "score" /\ ~doomed[p]
    /\ seen' = [seen EXCEPT ![p] = history[of[p]]]
    /\ pc' = [pc EXCEPT ![p] = "run"]
    /\ UNCHANGED <<link, sessionVars, of, doomed, asked, answer, free>>

(* The newest turns that a deque(maxlen=max_history_turns * 2) keeps.        *)
LastTurns(h) ==
    IF Len(h) > 2 * HistoryTurns
    THEN SubSeq(h, Len(h) - 2 * HistoryTurns + 1, Len(h)) ELSE h

(* AcpSession.record *)
Record(s, turns) == history' = [history EXCEPT ![s] = LastTurns(@ \o turns)]

NoReply(p) ==
    /\ pc[p] = "run" /\ ~doomed[p]
    /\ Record(of[p], << <<p, "user">> >>)
    /\ Answer(p, "end_turn")

(* The session is free for its next prompt while the update is written.      *)
Reply(p) ==
    /\ pc[p] = "run" /\ ~doomed[p]
    /\ Record(of[p], << <<p, "user">>, <<p, "assistant">> >>)
    /\ Leave(p, "push")
    /\ UNCHANGED <<link, home, open, cancelled, awaited, closed, of, seen, doomed, asked, answer>>

(* Plausible slip for TLC: the answer is added to the history once more when *)
(* it has been pushed.                                                       *)
BugPushed(p) ==
    /\ pc[p] = "push" /\ ~doomed[p]
    /\ Record(of[p], << <<p, "assistant">> >>)
    /\ \E a \in {"end_turn", "error"} : Answer(p, a)

Pushed(p) ==
    /\ pc[p] = "push" /\ ~doomed[p]
    /\ \E a \in {"end_turn", "error"} : Answer(p, a)
    /\ UNCHANGED history

(* Plausible slip for TLC: a cancelled prompt keeps its slot.                *)
BugCancelled(p) ==
    /\ pc[p] \in InFlight /\ doomed[p]
    /\ answer' = [answer EXCEPT ![p] = "cancelled"]
    /\ task' = [task EXCEPT ![of[p]] = IF @ = p THEN NoPrompt ELSE @]
    /\ pc' = [pc EXCEPT ![p] = "done"]
    /\ UNCHANGED <<link, home, open, cancelled, awaited, closed, of, seen, doomed, asked,
                   history, free>>

(* CancelledError arrives at the await where the prompt is suspended.        *)
Cancelled(p) ==
    /\ pc[p] \in InFlight /\ doomed[p]
    /\ Answer(p, IF pc[p] # "push" /\ cancelled[of[p]] THEN "cancelled" ELSE "error")
    /\ UNCHANGED history

-----------------------------------------------------------------------------
(* Connections *)

(* The SDK's connection.close() cancels the requests it has not answered.    *)
Disconnect(c) ==
    /\ link[c] = "up"
    /\ link' = [link EXCEPT ![c] = "closing"]
    /\ doomed' = [p \in Prompt |->
                     doomed[p] \/ (pc[p] \in InFlight /\ home[of[p]] = c)]
    /\ UNCHANGED <<sessionVars, pc, of, seen, asked, answer, free>>

(* MissbotAgent.aclose                                                       *)
Sweep(s) ==
    /\ s \in open /\ link[home[s]] = "closing"
    /\ Remove(s)
    /\ UNCHANGED link

(* Plausible slip for TLC: the adapter is left without aclose.               *)
BugDown(c) ==
    /\ link[c] = "closing"
    /\ link' = [link EXCEPT ![c] = "down"]
    /\ UNCHANGED <<sessionVars, promptVars, free>>

Down(c) ==
    /\ link[c] = "closing"
    /\ \A s \in Session : home[s] = c => s \notin open /\ awaited[s] = NoPrompt
    /\ link' = [link EXCEPT ![c] = "down"]
    /\ UNCHANGED <<sessionVars, promptVars, free>>

-----------------------------------------------------------------------------
Step(p) ==
    \/ GetSlot(p) \/ Refuse(p) \/ Raise(p) \/ Run(p)
    \/ NoReply(p) \/ Reply(p) \/ Pushed(p) \/ Cancelled(p)

Next ==
    \/ \E c \in Conn : Disconnect(c) \/ Down(c) \/ \E s \in Session : NewSession(c, s)
    \/ \E s \in Session : Cancel(s) \/ Close(s) \/ Closed(s) \/ Sweep(s)
    \/ \E p \in Prompt : Step(p) \/ \E s \in Session : Begin(p, s)

Spec == Init /\ [][Next]_vars

(* The event loop runs what can run; a score, a turn of the agent and a      *)
(* write to the client end, with a result or an exception.                   *)
Fairness ==
    /\ \A p \in Prompt : WF_vars(Step(p))
    /\ \A s \in Session : WF_vars(Closed(s)) /\ WF_vars(Sweep(s))
    /\ \A c \in Conn : WF_vars(Down(c))

FairSpec == Spec /\ Fairness

-----------------------------------------------------------------------------
(* Properties *)

(* Every variable holds a value the code can store or hold in it. *)
TypeOK ==
    /\ link \in [Conn -> {"up", "closing", "down"}]
    /\ home \in [Session -> Conn \cup {NoConn}] /\ open \subseteq Session
    /\ task \in [Session -> Prompt \cup {NoPrompt}]
    /\ cancelled \in [Session -> BOOLEAN]
    /\ history \in [Session -> Seq(Turn)]
    /\ \A s \in Session : Len(history[s]) <= 2 * HistoryTurns
    /\ awaited \in [Session -> Prompt \cup {NoPrompt}] /\ closed \subseteq Session
    /\ pc \in [Prompt -> Await] /\ of \in [Prompt -> Session \cup {NoSession}]
    /\ seen \in [Prompt -> Seq(Turn)]
    /\ doomed \in [Prompt -> BOOLEAN] /\ asked \in [Prompt -> BOOLEAN]
    /\ answer \in [Prompt -> {"none", "end_turn", "refusal", "cancelled", "error"}]
    /\ free \in Nat

(* The history a turn is generated from is the history its exchange is added *)
(* to: no other prompt of the session comes in between.                      *)
SawWholeConversation ==
    \A p \in Prompt : pc[p] = "run" => seen[p] = history[of[p]]

(* A prompt answers "cancelled" only if a cancel or close of its session     *)
(* arrived while it was in flight, not because an earlier one did.           *)
CancelTold == \A p \in Prompt : answer[p] = "cancelled" => asked[p]

(* No turn of a session's history is the prompt's.                           *)
Unrecorded(p) == \A s \in Session : \A i \in 1..Len(history[s]) : history[s][i][1] # p

(* A prompt at work when a cancel or close arrives answers "cancelled"       *)
(* rather than raising, and leaves nothing in the session's history.         *)
CancelHolds ==
    \A p \in Prompt : asked[p] =>
        /\ answer[p] \in {"none", "cancelled"}
        /\ Unrecorded(p)

(* When close_session returns, no prompt of the session is at work.          *)
ClosedQuiet ==
    \A p \in Prompt : pc[p] \in AtWork => of[p] \notin closed

(* A connection that has gone leaves no session and no prompt at work.       *)
NothingLeftBehind ==
    /\ \A s \in open : link[home[s]] # "down"
    /\ \A p \in Prompt : pc[p] \in AtWork => link[home[of[p]]] # "down"

(* Every slot is free or held by one prompt, however prompts end.            *)
SlotsKept == free + Cardinality({p \in Prompt : pc[p] \in Holding}) = MaxSessions

(* Every prompt is answered, also one that waits for a slot.                 *)
Answered == \A p \in Prompt : pc[p] \in InFlight ~> pc[p] = "done"

-----------------------------------------------------------------------------
(* The inductive invariant *)

(* A session's task is its one prompt at work.                               *)
TaskInv ==
    /\ \A p \in Prompt, s \in Session : task[s] = p <=> pc[p] \in AtWork /\ of[p] = s
    /\ \A p \in Prompt :
          IF pc[p] = "unsent" THEN of[p] = NoSession
                             ELSE of[p] \in Session /\ home[of[p]] \in Conn

(* A prompt that was asked to cancel will be told, and the flag of its       *)
(* session says that it was asked.                                           *)
CancelInv ==
    \A p \in Prompt :
        /\ pc[p] = "unsent" => ~doomed[p] /\ ~asked[p]
        /\ asked[p] => doomed[p] /\ pc[p] \in AtWork \cup {"done"}
        /\ answer[p] # "none" <=> pc[p] = "done"
        /\ pc[p] \in AtWork => (asked[p] <=> cancelled[of[p]])
        /\ pc[p] \in AtWork \cup {"unsent"} \/ asked[p] => Unrecorded(p)

(* A session that is no longer open is closed unless its prompt is awaited.  *)
CloseInv ==
    \A s \in Session :
        /\ home[s] = NoConn <=> s \notin open \cup closed /\ awaited[s] = NoPrompt
        /\ s \notin open \cap closed
        /\ s \notin open /\ task[s] # NoPrompt => awaited[s] = task[s] /\ doomed[task[s]]
        /\ awaited[s] # NoPrompt => s \notin open \cup closed /\ of[awaited[s]] = s
        /\ home[s] \in Conn /\ link[home[s]] = "down" => s \in closed

IInv ==
    /\ TypeOK /\ TaskInv /\ CancelInv /\ CloseInv
    /\ SawWholeConversation /\ SlotsKept /\ IsFiniteSet({p \in Prompt : pc[p] \in Holding})
    /\ CancelTold /\ CancelHolds
=============================================================================
