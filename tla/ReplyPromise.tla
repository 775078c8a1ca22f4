---------------------------- MODULE ReplyPromise ----------------------------
(* What a hosted community promises its members, without lane, relay or      *)
(* process: an open message gets at most one signed reply, only that reply   *)
(* is ever told to the relay, only while the message is open, and an         *)
(* interrupted promise is told no more.                                      *)
EXTENDS Naturals

CONSTANT Message

VARIABLES
    open,       \* messages waiting for an outcome
    made,       \* number of replies ever promised for each message
    held,       \* the reply promised for an open message, 0 for none
    told        \* replies <<m, k>> the relay was ever told

promiseVars == <<open, made, held, told>>

Init ==
    /\ open = {}
    /\ made = [m \in Message |-> 0]
    /\ held = [m \in Message |-> 0]
    /\ told = {}

Ask(m) ==
    /\ m \notin open
    /\ open' = open \cup {m}
    /\ UNCHANGED <<made, held, told>>

Promise(m) ==
    /\ m \in open /\ held[m] = 0
    /\ made' = [made EXCEPT ![m] = @ + 1]
    /\ held' = [held EXCEPT ![m] = made[m] + 1]
    /\ UNCHANGED <<open, told>>

Tell(m) ==
    /\ m \in open /\ held[m] # 0
    /\ told' = told \cup {<<m, held[m]>>}
    /\ UNCHANGED <<open, made, held>>

(* Confirmed, given up or needing no reply: no one can tell the difference.  *)
Close(m) ==
    /\ m \in open
    /\ open' = open \ {m}
    /\ held' = [held EXCEPT ![m] = 0]
    /\ UNCHANGED <<made, told>>

(* The one weakness: a promise may be dropped with its message left open.    *)
Drop(m) ==
    /\ m \in open /\ held[m] # 0
    /\ held' = [held EXCEPT ![m] = 0]
    /\ UNCHANGED <<open, made, told>>

CloseAll ==
    /\ open' = {}
    /\ held' = [m \in Message |-> 0]
    /\ UNCHANGED <<made, told>>

Next ==
    \/ \E m \in Message : Ask(m) \/ Promise(m) \/ Tell(m) \/ Close(m) \/ Drop(m)
    \/ CloseAll

Spec == Init /\ [][Next]_promiseVars
=============================================================================
