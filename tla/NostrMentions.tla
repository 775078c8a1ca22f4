---------------------------- MODULE NostrMentions ----------------------------
(* The Nostr bot's handlers of mentions (bot/nostr.py over                   *)
(* bot/nostr_transport.py).  A handler climbs from the mention to the root   *)
(* of its thread, one fetch from the relays at a time, and decides which     *)
(* conversation the mention belongs to before it asks the agent; a comment   *)
(* (NIP-22) is answered only in the scope it names.                          *)
(*                                                                           *)
(* Events are immutable, and their ids are hashes, so that one can only      *)
(* refer to events that were there before it.  What they say is left out,    *)
(* and a claim about another event's kind or author is right or wrong.       *)
EXTENDS Naturals, FiniteSets, Sequences

CONSTANTS
    Event,
    NoEvent,
    Mention,        \* events that tag the bot and are not its own
    Worlds,         \* what the events may say: functions from Event to Post
    Handler,        \* slots for handlers, max_concurrent_handlers many
    MaxContext,     \* max_context
    RecentLimit,    \* 1024 remembered event ids
    MaxDeliveries,  \* bound: notifications that find a free slot
    MaxStops        \* bound: stops of the process

(* parentRight: the k tag, the author in the e tag, if any, and a p tag fit  *)
(* the event the e tag names; scopeRight: the P tag and, if that is no       *)
(* comment, the K tag fit the one the E tag names.  An event that is not     *)
(* valid has ambiguous or malformed tags.                                    *)
Post == [kind : {"note", "comment", "poll"}, valid : BOOLEAN,
         parent : Event \cup {NoEvent}, root : Event \cup {NoEvent},
         parentRight : BOOLEAN, scopeRight : BOOLEAN]

ASSUME MentionsAssumption ==
    /\ NoEvent \notin Event /\ Mention \subseteq Event
    /\ \A w \in Worlds :
          /\ w \in [Event -> Post]
          /\ \A e \in Event : w[e].kind = "comment" /\ w[e].valid =>
                NoEvent \notin {w[e].parent, w[e].root}
    /\ MaxContext \in Nat /\ RecentLimit \in Nat \ {0}
    /\ MaxDeliveries \in Nat /\ MaxStops \in Nat

VARIABLES
    post,       \* the events, as the relays hold them
    fresh,      \* the last start of the process an event is not too old for
    up,         \* the transport runs
    pc,         \* where each handler is suspended, "free" if the slot has none
    job,        \* its event
    history,    \* the ancestors it has fetched, nearest first
    topic,      \* the event that names the conversation of its turn
    recent,     \* _recent_order, and as a set _recent
    reached,    \* history: replies to each event that a relay has
    forgotten,  \* history: times a remembered event was forgotten
    deliveries, starts

threadVars == <<job, history, topic>>
boundVars == <<deliveries, starts>>
world == <<post, fresh>>
recordVars == <<recent, forgotten>>
vars == <<world, up, pc, threadVars, recordVars, reached, boundVars>>

Await == {"free", "climb", "scope", "run", "publish", "sent"}
Answering == {"run", "publish", "sent"}

Remembered == {recent[i] : i \in 1..Len(recent)}
Pending == {job[h] : h \in {g \in Handler : pc[g] # "free"}}
Fetched(h) == {history[h][i] : i \in 1..Len(history[h])}

Init ==
    /\ post \in Worlds
    /\ fresh \in [Mention -> 0..MaxStops]
    /\ up = TRUE
    /\ pc = [h \in Handler |-> "free"]
    /\ job = [h \in Handler |-> NoEvent]
    /\ history = [h \in Handler |-> <<>>]
    /\ topic = [h \in Handler |-> NoEvent]
    /\ recent = <<>>
    /\ reached = [e \in Mention |-> 0] /\ forgotten = [e \in Mention |-> 0]
    /\ deliveries = 0 /\ starts = 0

-----------------------------------------------------------------------------
(* Arrival *)

(* on_event, called by the transport for an event created since it started:  *)
(* several relays, or one that reconnects, may send the same event again.    *)
(* One that finds no free slot is dropped.                                   *)
Deliver(h, e) ==
    /\ up /\ pc[h] = "free" /\ deliveries < MaxDeliveries
    /\ fresh[e] >= starts
    /\ post[e].kind \in {"note", "comment"}
    /\ post[e].kind = "comment" => post[e].valid
    /\ e \notin Pending \cup Remembered
    /\ deliveries' = deliveries + 1
    /\ pc' = [pc EXCEPT ![h] = "climb"]
    /\ job' = [job EXCEPT ![h] = e]
    /\ UNCHANGED <<world, up, history, topic, recordVars, reached, starts>>

(* Plausible slip for TLC: an event is no longer in hand, but not remembered.*)
BugLeave(h) ==
    /\ pc' = [pc EXCEPT ![h] = "free"]
    /\ job' = [job EXCEPT ![h] = NoEvent]
    /\ history' = [history EXCEPT ![h] = <<>>]
    /\ topic' = [topic EXCEPT ![h] = NoEvent]
    /\ UNCHANGED <<recent, forgotten>>

(* The finally of _handle_event, whatever came before.                       *)
Leave(h) ==
    /\ pc' = [pc EXCEPT ![h] = "free"]
    /\ job' = [job EXCEPT ![h] = NoEvent]
    /\ history' = [history EXCEPT ![h] = <<>>]
    /\ topic' = [topic EXCEPT ![h] = NoEvent]
    /\ IF Len(recent) < RecentLimit
       THEN recent' = Append(recent, job[h]) /\ UNCHANGED forgotten
       ELSE /\ recent' = Append(Tail(recent), job[h])
            /\ forgotten' = [forgotten EXCEPT ![Head(recent)] = @ + 1]

(* A score below the threshold, or an image that could not be fetched and no *)
(* text.                                                                     *)
Skip(h) ==
    /\ pc[h] = "climb" /\ history[h] = <<>>
    /\ Leave(h)
    /\ UNCHANGED <<world, up, reached, boundVars>>

-----------------------------------------------------------------------------
(* _context *)

Current(h) == IF history[h] = <<>> THEN job[h] ELSE history[h][Len(history[h])]

Chain(h) == {job[h]} \cup Fetched(h)

Comments(S) == {e \in S : post[e].kind = "comment"}

(* K is 1 or 1068: the root of a comment is a note or a poll.                *)
ScopeFits(e) == post[e].scopeRight /\ post[post[e].root].kind # "comment"

(* Plausible slip for TLC: only the mention's own claim is compared.         *)
BugAgreed(h, top) ==
    /\ post[job[h]].root \in {NoEvent, top}
    /\ \A e \in Comments({job[h]}) : ScopeFits(e)

(* claimed_roots and claimed_scopes name no event but the top.               *)
Agreed(h, top) ==
    /\ \A e \in Chain(h) : post[e].root \in {NoEvent, top}
    /\ \A e \in Comments(Chain(h)) : ScopeFits(e)

(* A comment says what its parent is; the parent of a note must be a note.   *)
Fits(e) ==
    CASE post[e].kind = "comment" -> post[e].parentRight
      [] OTHER -> post[post[e].parent].kind = "note"

MayClimb(h) ==
    /\ post[Current(h)].valid /\ post[Current(h)].parent # NoEvent
    /\ Len(history[h]) < MaxContext
    /\ post[Current(h)].parent \notin Chain(h)

(* fetch_event found the parent, and it is what the child says it is.        *)
Climb(h) ==
    /\ pc[h] = "climb" /\ MayClimb(h) /\ Fits(Current(h))
    /\ history' = [history EXCEPT ![h] = Append(@, post[Current(h)].parent)]
    /\ UNCHANGED <<world, up, pc, job, topic, recordVars, reached, boundVars>>

Decide(h, e) ==
    /\ topic' = [topic EXCEPT ![h] = e]
    /\ pc' = [pc EXCEPT ![h] =
                 IF post[job[h]].kind = "comment" THEN "scope" ELSE "run"]
    /\ UNCHANGED <<world, up, job, history, recordVars, reached, boundVars>>

(* Nothing above the current event: it is the root if all claims agree.      *)
AtTop(h) ==
    LET top == Current(h) IN
    /\ pc[h] = "climb" /\ post[top].valid /\ post[top].parent = NoEvent
    /\ Decide(h, IF Agreed(h, top) THEN top ELSE job[h])

(* Ambiguous tags, a thread that is too deep, a fetch without a result, or a *)
(* parent that is too long or not what the child says: the mention is a      *)
(* conversation of its own.                                                  *)
CutShort(h) ==
    /\ pc[h] = "climb"
    /\ post[Current(h)].valid => post[Current(h)].parent # NoEvent
    /\ Decide(h, job[h])

-----------------------------------------------------------------------------
(* The scope of a comment *)

(* Plausible slip for TLC: only what the walk fetched is compared.           *)
BugShown(h) == Fetched(h)

(* history or [parent]: what the walk fetched, and the parent if it fetched  *)
(* nothing.                                                                  *)
Shown(h) == IF history[h] = <<>> THEN {post[job[h]].parent} ELSE Fetched(h)

(* The root and the parent the comment names are what it says they are, and  *)
(* no comment above it names another root.                                   *)
InScope(h) ==
    LET e == job[h] IN
    /\ ScopeFits(e) /\ post[e].parentRight
    /\ \A a \in Comments(Shown(h)) :
          post[a].valid /\ post[a].root = post[e].root /\ post[a].scopeRight

VerifyScope(h) ==
    /\ pc[h] = "scope" /\ InScope(h)
    /\ pc' = [pc EXCEPT ![h] = "run"]
    /\ UNCHANGED <<world, up, threadVars, recordVars, reached, boundVars>>

(* The root was the walk's result, or is fetched once more; so is the parent *)
(* if the walk fetched nothing and it is not the root.                       *)
NeedsFetch(h) ==
    \/ topic[h] # post[job[h]].root
    \/ history[h] = <<>> /\ post[job[h]].parent # post[job[h]].root

RefuseScope(h) ==
    /\ pc[h] = "scope"
    /\ ~InScope(h) \/ NeedsFetch(h)
    /\ Leave(h)
    /\ UNCHANGED <<world, up, reached, boundVars>>

-----------------------------------------------------------------------------
(* The turn and the reply *)

(* NO_REPLY, a reply that is too long, or an exception.                      *)
NoReply(h) ==
    /\ pc[h] = "run"
    /\ Leave(h)
    /\ UNCHANGED <<world, up, reached, boundVars>>

Sign(h) ==
    /\ pc[h] = "run"
    /\ pc' = [pc EXCEPT ![h] = "publish"]
    /\ UNCHANGED <<world, up, threadVars, recordVars, reached, boundVars>>

(* The first relay has the reply.                                            *)
Transmit(h) ==
    /\ pc[h] = "publish"
    /\ pc' = [pc EXCEPT ![h] = "sent"]
    /\ reached' = [reached EXCEPT ![job[h]] = @ + 1]
    /\ UNCHANGED <<world, up, threadVars, recordVars, boundVars>>

(* A relay accepted the reply, all refused it, or the deadline passed, with  *)
(* or without a relay having it.                                             *)
Published(h) ==
    /\ pc[h] \in {"publish", "sent"}
    /\ Leave(h)
    /\ UNCHANGED <<world, up, reached, boundVars>>

-----------------------------------------------------------------------------
(* run ends and cancels every handler; the records go with the process.     *)
Stop ==
    /\ up /\ up' = FALSE
    /\ pc' = [h \in Handler |-> "free"]
    /\ job' = [h \in Handler |-> NoEvent]
    /\ history' = [h \in Handler |-> <<>>]
    /\ topic' = [h \in Handler |-> NoEvent]
    /\ recent' = <<>>
    /\ UNCHANGED <<world, reached, forgotten, boundVars>>

(* started_at: what was created before is not answered any more.             *)
Start ==
    /\ ~up /\ starts < MaxStops
    /\ up' = TRUE
    /\ starts' = starts + 1
    /\ UNCHANGED <<world, pc, threadVars, recordVars, reached, deliveries>>

-----------------------------------------------------------------------------
Handle(h) ==
    \/ Skip(h) \/ Climb(h) \/ AtTop(h) \/ CutShort(h)
    \/ VerifyScope(h) \/ RefuseScope(h)
    \/ NoReply(h) \/ Sign(h) \/ Transmit(h) \/ Published(h)

Next ==
    \/ Stop \/ Start
    \/ \E h \in Handler : Handle(h) \/ \E e \in Mention : Deliver(h, e)

Spec == Init /\ [][Next]_vars

-----------------------------------------------------------------------------
(* Properties *)

TypeOK ==
    /\ post \in Worlds
    /\ fresh \in [Mention -> Nat] /\ up \in BOOLEAN
    /\ pc \in [Handler -> Await]
    /\ job \in [Handler -> Mention \cup {NoEvent}]
    /\ history \in [Handler -> Seq(Event)]
    /\ topic \in [Handler -> Event \cup {NoEvent}]
    /\ recent \in Seq(Mention) /\ Len(recent) <= RecentLimit
    /\ reached \in [Mention -> Nat] /\ forgotten \in [Mention -> Nat]
    /\ deliveries \in Nat /\ starts \in Nat

(* An event and everything above it, whatever has been fetched: the least    *)
(* set that holds the event and the parents of its members.                  *)
HoldsParents(S) == \A y \in S : post[y].parent \in S \cup {NoEvent}

Lineage(e) ==
    {x \in Event : \A S \in SUBSET Event : e \in S /\ HoldsParents(S) => x \in S}

(* Nothing in the line is ambiguous, and nothing names a root but its top.   *)
OneRoot(line) ==
    /\ \A e \in line : post[e].valid
    /\ \E top \in line :
          /\ post[top].parent = NoEvent
          /\ \A e \in line : post[e].root \in {NoEvent, top}
    /\ \A e \in Comments(line) : ScopeFits(e)

WellJoined(h) ==
    LET line == Lineage(job[h]) IN
    /\ Chain(h) \subseteq line /\ Len(history[h]) <= MaxContext
    /\ topic[h] # job[h] <=>
          (Chain(h) = line /\ history[h] # <<>> /\ OneRoot(line))
    /\ topic[h] # job[h] => topic[h] \in line /\ post[topic[h]].parent = NoEvent

(* nostr.py:313: only a complete verified ancestry establishes a shared      *)
(* conversation root.  A mention joins the conversation of the event at the  *)
(* top of its thread exactly if the walk saw everything above the mention    *)
(* and nothing on the way names another root.                                *)
SharedOnlyIfComplete == \A h \in Handler : pc[h] \in Answering => WellJoined(h)

(* A comment is answered under the root that it and every comment the agent  *)
(* is shown with it names, also where the walk failed and the parent had to  *)
(* be fetched again; and if it shares a conversation, that is the root's.    *)
AnsweredInScope ==
    \A h \in Handler : pc[h] \in Answering /\ post[job[h]].kind = "comment" =>
        LET root == post[job[h]].root IN
        /\ post[root].kind # "comment"
        /\ \A a \in Comments({post[job[h]].parent} \cup Fetched(h)) :
              post[a].root = root
        /\ topic[h] \in {job[h], root}

(* Restarts of the process that the event was not too old for.               *)
Lives(e) == IF fresh[e] < starts THEN fresh[e] ELSE starts

(* nostr.py:256: also remember failures, ambiguous publication must not      *)
(* generate a second reply.  A mention gets one reply, another only after    *)
(* the record forgot it, and one more for each later start of the process    *)
(* that it is not too old for.                                               *)
OneReply == \A e \in Mention : reached[e] <= 1 + forgotten[e] + Lives(e)

-----------------------------------------------------------------------------
(* The inductive invariant *)

(* A handler has an event that no other has and that is not remembered.      *)
HandInv ==
    \A h \in Handler : pc[h] # "free" =>
        /\ up
        /\ job[h] \in Mention \ Remembered
        /\ fresh[job[h]] >= starts
        /\ post[job[h]].kind = "comment" => post[job[h]].valid
        /\ \A g \in Handler \ {h} : pc[g] # "free" => job[g] # job[h]

(* What may have been answered is remembered, or will not be asked again.    *)
Answered(e) ==
    \/ e \in Remembered \/ ~up \/ fresh[e] < starts
    \/ \E h \in Handler : pc[h] = "sent" /\ job[h] = e

CountInv ==
    \A e \in Mention :
        reached[e] <= forgotten[e] + Lives(e) + (IF Answered(e) THEN 1 ELSE 0)

(* The walk has the parents of all it has seen but the current event.        *)
WalkInv ==
    \A h \in Handler :
      /\ pc[h] = "free" => history[h] = <<>>
      /\ pc[h] # "free" =>
        /\ Chain(h) \subseteq Lineage(job[h]) /\ Len(history[h]) <= MaxContext
        /\ job[h] \notin Fetched(h)
        /\ \A x \in Chain(h) \ {Current(h)} :
              post[x].valid /\ post[x].parent \in Chain(h)
        /\ history[h] # <<>> => post[job[h]].parent \in Fetched(h)

TopicInv == \A h \in Handler : pc[h] \in Answering \cup {"scope"} => WellJoined(h)

ScopeInv ==
    \A h \in Handler :
        pc[h] \in Answering /\ post[job[h]].kind = "comment" => InScope(h)

IInv == TypeOK /\ HandInv /\ CountInv /\ WalkInv /\ TopicInv /\ ScopeInv
=============================================================================
