------------------------------ MODULE AcpWriter ------------------------------
(* The WebSocket bridge of acp/ws.py: the handler of a connection with its    *)
(* slot and its authentication, and _FrameWriterTransport, through which the  *)
(* SDK writes: write() queues a frame, a sender task sends it, drain() waits  *)
(* for room, and close() ends the sender with a sentinel in a reserved slot.  *)
(* The SDK is external: its tasks write whole messages and drain as they like. *)
EXTENDS Naturals, Sequences, SequencesExt, FiniteSets, FiniteSetsExt

CONSTANTS
    Conn,           \* connections
    Task,           \* the SDK's tasks that write
    MaxConnections, \* of _ConnectionLimiter
    MaxQueue,       \* DEFAULT_OUTPUT_MAX_QUEUE
    MaxWrites       \* bound of the instance: messages of a connection

ASSUME WriterAssumption ==
    MaxConnections \in Nat \ {0} /\ MaxQueue \in Nat \ {0} /\ MaxWrites \in Nat

Sentinel == 0

VARIABLES
    active,     \* slots taken
    phase,      \* the await of a connection's handler
    open,       \* connections whose WebSocket is open
    written,    \* messages write() has accepted
    pending,    \* _pending
    sender,     \* the await of _sender_loop, or its end
    sending,    \* the frame it sends
    sent,       \* frames sent
    writable,   \* connections with _writable set
    closed,     \* connections with _closed
    failed,     \* connections with _error
    closing,    \* connections whose _websocket_close task runs
    drain       \* tasks in drain(): "waiting", or "woken" by _writable

queue == <<pending, writable, drain>>
out == <<written, sender, sending, sent>>
state == <<closed, failed, closing>>
vars == <<active, phase, open, queue, out, state>>

Init ==
    /\ active = 0 /\ phase = [c \in Conn |-> "new"] /\ open = Conn
    /\ written = [c \in Conn |-> 0] /\ pending = [c \in Conn |-> <<>>]
    /\ sender = [c \in Conn |-> "none"] /\ sending = [c \in Conn |-> Sentinel]
    /\ sent = [c \in Conn |-> <<>>]
    /\ writable = Conn /\ closed = {} /\ failed = {} /\ closing = {}
    /\ drain = [c \in Conn |-> [w \in Task |-> "idle"]]

To(c, p) == phase' = [phase EXCEPT ![c] = p]
Bridged(c) == phase[c] \in {"serving", "closing", "aclose", "wsclose"}

(* _writable.set(): whoever waits goes on, even if it is cleared before.      *)
Wake(c) ==
    /\ writable' = writable \cup {c}
    /\ drain' = [drain EXCEPT ![c] = [w \in Task |-> IF @[w] = "waiting" THEN "woken" ELSE @[w]]]

-----------------------------------------------------------------------------
(* The transport.                                                            *)

(* A defect: closing leaves those in drain() waiting.                        *)
BugCloses(c) ==
    /\ closed' = closed \cup {c}
    /\ pending' = [pending EXCEPT ![c] = Append(@, Sentinel)]
    /\ UNCHANGED <<writable, drain>>

(* A defect: closing drops the backlog.                                      *)
BugDropped(c) ==
    /\ closed' = closed \cup {c}
    /\ pending' = [pending EXCEPT ![c] = <<Sentinel>>]
    /\ Wake(c)

(* close(), of a transport that is not closed.                               *)
Closes(c) ==
    /\ closed' = closed \cup {c}
    /\ pending' = [pending EXCEPT ![c] = Append(@, Sentinel)]
    /\ Wake(c)

(* A defect: a failure does not close the WebSocket.                         *)
BugFailure(c) ==
    /\ failed' = failed \cup {c} /\ Closes(c)
    /\ UNCHANGED <<closing, written>>

(* _fail().                                                                  *)
Failure(c) ==
    /\ failed' = failed \cup {c} /\ Closes(c)
    /\ closing' = closing \cup {c} /\ UNCHANGED written

(* A defect: the check of the backlog is off by one.                         *)
BugFull(c) == Len(pending[c]) > MaxQueue
Full(c) == Len(pending[c]) >= MaxQueue

(* write() of a message, which may be too long.                              *)
Write(c, w, long) ==
    /\ Bridged(c) /\ c \notin closed /\ drain[c][w] = "idle" /\ written[c] < MaxWrites
    /\ IF long \/ Full(c)
       THEN Failure(c)
       ELSE /\ written' = [written EXCEPT ![c] = @ + 1]
            /\ pending' = [pending EXCEPT ![c] = Append(@, written'[c])]
            /\ writable' = IF Len(pending'[c]) >= MaxQueue THEN writable \ {c} ELSE writable
            /\ UNCHANGED <<drain, closed, failed, closing>>
    /\ UNCHANGED <<active, phase, open, sender, sending, sent>>

(* wait_writable(): it returns, or raises when the transport is closed.       *)
Drain(c, w) ==
    /\ Bridged(c) /\ c \notin writable /\ drain[c][w] = "idle"
    /\ drain' = [drain EXCEPT ![c][w] = "waiting"]
    /\ UNCHANGED <<active, phase, open, pending, writable, out, state>>

Drained(c, w) ==
    /\ drain[c][w] = "woken" /\ drain' = [drain EXCEPT ![c][w] = "idle"]
    /\ UNCHANGED <<active, phase, open, pending, writable, out, state>>

(* abort(), which nobody calls on a transport that is closed.                *)
Abort(c) ==
    /\ Bridged(c) /\ c \notin closed /\ Failure(c)
    /\ UNCHANGED <<active, phase, open, sender, sending, sent>>

-----------------------------------------------------------------------------
(* _sender_loop().                                                           *)

Take(c) ==
    /\ sender[c] = "get" /\ pending[c] # <<>>
    /\ pending' = [pending EXCEPT ![c] = Tail(@)]
    /\ IF Len(pending'[c]) < MaxQueue THEN Wake(c) ELSE UNCHANGED <<writable, drain>>
    /\ sending' = [sending EXCEPT ![c] = Head(pending[c])]
    /\ sender' = [sender EXCEPT ![c] = IF Head(pending[c]) = Sentinel THEN "finished" ELSE "send"]
    /\ UNCHANGED <<active, phase, open, written, sent, state>>

(* The frame is out, or the WebSocket is closed.                             *)
Send(c) ==
    /\ sender[c] = "send"
    /\ \/ /\ c \in open
          /\ sent' = [sent EXCEPT ![c] = Append(@, sending[c])]
          /\ sender' = [sender EXCEPT ![c] = "get"]
       \/ /\ c \notin open /\ sender' = [sender EXCEPT ![c] = "lost"] /\ UNCHANGED sent
    /\ UNCHANGED <<active, phase, open, queue, written, sending, state>>

(* The peer, the keepalive, or websocket.close(1013) closes the connection.   *)
PeerCloses(c) ==
    /\ c \in open /\ Bridged(c) /\ open' = open \ {c}
    /\ UNCHANGED <<active, phase, queue, out, state>>

ClosesWebSocket(c) ==
    /\ c \in closing /\ closing' = closing \ {c} /\ open' = open \ {c}
    /\ UNCHANGED <<active, phase, queue, out, closed, failed>>

-----------------------------------------------------------------------------
(* The handler.                                                              *)

Admit(c) ==
    /\ phase[c] = "new"
    /\ IF active >= MaxConnections
       THEN To(c, "rejected") /\ UNCHANGED active
       ELSE To(c, "auth") /\ active' = active + 1
    /\ UNCHANGED <<open, queue, out, state>>

(* The browser's first frame, or nothing to wait for; then the bridge.        *)
Authenticated(c) ==
    /\ phase[c] = "auth" /\ To(c, "serving")
    /\ sender' = [sender EXCEPT ![c] = "get"]
    /\ UNCHANGED <<active, open, queue, written, sending, sent, state>>

Release(c) == To(c, "gone") /\ active' = active - 1

(* The transport of a handler that has ended is forgotten.                   *)
Forget(c) ==
    /\ written' = [written EXCEPT ![c] = 0] /\ pending' = [pending EXCEPT ![c] = <<>>]
    /\ sender' = [sender EXCEPT ![c] = "none"] /\ sending' = [sending EXCEPT ![c] = Sentinel]
    /\ sent' = [sent EXCEPT ![c] = <<>>] /\ open' = open \ {c}
    /\ writable' = writable \cup {c} /\ closed' = closed \ {c} /\ failed' = failed \ {c}

(* A wrong token, none in time, or a cancellation.                           *)
Unauthenticated(c) ==
    /\ phase[c] = "auth" /\ Release(c)
    /\ UNCHANGED <<open, queue, out, state>>

(* listen() ends with the connection, at a binary frame, or by cancellation.  *)
Listened(c) ==
    /\ phase[c] = "serving" /\ To(c, "closing")
    /\ UNCHANGED <<active, open, queue, out, state>>

(* connection.close() is over; aclose() closes the transport, and waits for   *)
(* the sender at most five seconds.                                          *)
Aclose(c) ==
    /\ phase[c] = "closing" /\ To(c, "aclose")
    /\ IF c \in closed THEN UNCHANGED <<closed, queue>> ELSE Closes(c)
    /\ UNCHANGED <<active, open, out, failed, closing>>

Flushed(c) ==
    /\ phase[c] = "aclose" /\ To(c, "wsclose")
    /\ sender' = [sender EXCEPT ![c] = IF @ \in {"finished", "lost"} THEN @ ELSE "cut"]
    /\ UNCHANGED <<active, open, queue, written, sending, sent, state>>

Leave(c) ==
    /\ phase[c] = "wsclose" /\ c \notin closing /\ Release(c) /\ Forget(c)
    /\ UNCHANGED <<drain, closing>>

(* The handler is cancelled in aclose(), and so is what it awaits.           *)
Cancelled(c) ==
    /\ phase[c] \in {"aclose", "wsclose"} /\ Release(c) /\ Forget(c)
    /\ closing' = closing \ {c} /\ UNCHANGED drain

-----------------------------------------------------------------------------
Handler(c) == Aclose(c) \/ Flushed(c) \/ Leave(c) \/ (c \notin open /\ Listened(c))

Next ==
    \E c \in Conn :
        \/ Admit(c) \/ Authenticated(c) \/ Unauthenticated(c) \/ Listened(c) \/ Cancelled(c)
        \/ Handler(c) \/ Abort(c) \/ Take(c) \/ Send(c) \/ PeerCloses(c) \/ ClosesWebSocket(c)
        \/ \E w \in Task : Drain(c, w) \/ Drained(c, w) \/ \E long \in BOOLEAN : Write(c, w, long)

Spec == Init /\ [][Next]_vars

(* Tasks go on; a peer that no longer reads is dropped by the keepalive; the  *)
(* SDK ends with its connection.  Nothing makes a peer close.                *)
FairSpec ==
    /\ Spec
    /\ \A c \in Conn :
          WF_vars(Handler(c)) /\ WF_vars(Take(c)) /\ WF_vars(Send(c)) /\ WF_vars(ClosesWebSocket(c))

-----------------------------------------------------------------------------
(* The queue has room for whatever is put in it: the close sentinel finds its *)
(* reserved slot behind a full backlog.                                      *)
SentinelFits == \A c \in Conn : Len(pending[c]) <= MaxQueue + 1

(* A sender that finished has sent every frame that write() accepted, in      *)
(* order, whatever closed or failed meanwhile.                               *)
NothingDropped ==
    \A c \in Conn :
        /\ sent[c] = [i \in 1 .. Len(sent[c]) |-> i]
        /\ sender[c] = "finished" => Len(sent[c]) = written[c]

(* A task in drain() goes on: room, a failure or the end of the connection    *)
(* wakes it.                                                                 *)
DrainReturns == \A c \in Conn, w \in Task : drain[c][w] = "waiting" ~> drain[c][w] # "waiting"

(* A connection whose output failed does not linger: its handler ends.        *)
FailureEnds == \A c \in Conn : c \in failed ~> phase[c] = "gone"

-----------------------------------------------------------------------------
(* What makes them hold: the inductive invariant.                            *)

TypeOK ==
    /\ phase \in [Conn -> {"new", "rejected", "auth", "serving", "closing", "aclose", "wsclose",
                           "gone"}]
    /\ closed \subseteq Conn /\ written \in [Conn -> Nat]
    /\ pending \in [Conn -> Seq(Nat)] /\ sent \in [Conn -> Seq(Nat)]
    /\ sender \in [Conn -> {"none", "get", "send", "finished", "lost", "cut"}]
    /\ sending \in [Conn -> Nat]

(* A closed transport's queue may hold its sentinel besides.                  *)
Room(c) == IF c \in closed THEN MaxQueue + 1 ELSE MaxQueue
BoundInv == \A c \in Conn : Len(pending[c]) <= Room(c)

(* A transport exists, with its sender, as long as the handler's bridge.      *)
BridgeInv ==
    \A c \in Conn :
        /\ sender[c] = "none" <=> ~Bridged(c)
        /\ ~Bridged(c) =>
               pending[c] = <<>> /\ sent[c] = <<>> /\ written[c] = 0 /\ c \notin closed

(* Frames handed to the WebSocket so far.                                    *)
Ahead(c) == IF sender[c] = "send" THEN Len(sent[c]) + 1 ELSE Len(sent[c])

(* While the sender is at work, sent frames, the one being sent and the queue *)
(* are the written ones in order, with the sentinel last after a close.       *)
OrderInv ==
    \A c \in Conn :
        /\ \A i \in 1 .. Len(sent[c]) : sent[c][i] = i
        /\ sender[c] = "send" => sending[c] = Len(sent[c]) + 1
        /\ sender[c] = "finished" => c \in closed /\ Len(sent[c]) = written[c]
        /\ sender[c] \in {"none", "get", "send"} =>
              /\ Ahead(c) + Len(pending[c]) = IF c \in closed THEN written[c] + 1 ELSE written[c]
              /\ c \in closed => Len(pending[c]) > 0
              /\ \A i \in 1 .. Len(pending[c]) :
                    pending[c][i] = IF c \in closed /\ i = Len(pending[c])
                                    THEN Sentinel ELSE Ahead(c) + i

IInv == TypeOK /\ BoundInv /\ BridgeInv /\ OrderInv
==============================================================================
