------------------------------ MODULE BuzzStore ------------------------------
(* The durable state of one hosted Buzz community (bot/buzz/store.py): the   *)
(* row of table communities, the bounded inbox that is also the signed       *)
(* outbox and the deduplication record, and the private history.  Every      *)
(* operator with primes is one SQLite transaction or, where it says so, the  *)
(* transactions one method commits back to back.                             *)
(*                                                                           *)
(* Rows are ordered by (received, rowid) in the code.  Here older[e] is the  *)
(* set of rows that arrived before e; staler[c] orders the history rows by   *)
(* (touched, rowid) in the same way.  The order needs no ever-growing        *)
(* number and survives deletions exactly as the SQL ORDER BY does, provided  *)
(* that time.time() does not run backwards.                                  *)
EXTENDS Integers, FiniteSets, Sequences

CONSTANTS
    Event,              \* qualifying relay events (kind 9, one h tag, not ours)
    Conversation,       \* json.dumps([channel, root]) values
    ConversationOf,     \* the conversation each event belongs to
    CreatedAt,          \* the created_at each event was signed with
    Provisioned,        \* when provision wrote the communities row
    PendingLimit,       \* 128 unfinished rows
    DedupLimit,         \* 2048 finished rows kept for deduplication
    ConversationLimit,  \* 128 history rows
    HistoryTurns        \* acp_max_history_turns

ASSUME StoreAssumption ==
    /\ ConversationOf \in [Event -> Conversation]
    /\ CreatedAt \in [Event -> Nat]
    /\ Provisioned \in Nat
    /\ PendingLimit \in Nat \ {0}
    /\ DedupLimit \in Nat \ {0}
    /\ ConversationLimit \in Nat \ {0}
    /\ HistoryTurns \in Nat \ {0}

(* Column outgoing: NULL, the object {} stored for NO_REPLY, or the number   *)
(* k > 0 of the k-th reply ever signed for the event.  Columns conversation, *)
(* author, reply and outgoing of an unfinished row are written together and  *)
(* cleared together (author, which only names the sender, apart), so one     *)
(* variable stands for the four.                                             *)
Null == 0
EmptyObject == -1

VARIABLES
    active,     \* communities.active
    since,      \* communities.since
    state,      \* inbox.state of each event, "absent" when it has no row
    older,      \* events whose rows arrived before
    outgoing,   \* inbox.outgoing and the columns that go with it
    history,    \* turns of each conversation, <<>> when it has no row
    staler      \* conversations whose history rows were touched before

storeVars == <<active, since, state, older, outgoing, history, staler>>
inboxVars == <<state, older, outgoing>>
historyVars == <<history, staler>>

RowState == {"absent", "pending", "outbox", "done"}
Turn == [role : {"user", "assistant"}, event : Event, reply : Nat]

UserTurn(e) == [role |-> "user", event |-> e, reply |-> Null]
ReplyTurn(e, r) == [role |-> "assistant", event |-> e, reply |-> r]

StoreTypeOK ==
    /\ active \in BOOLEAN
    /\ since \in Nat
    /\ state \in [Event -> RowState]
    /\ older \in [Event -> SUBSET Event]
    /\ outgoing \in [Event -> Nat \cup {EmptyObject}]
    /\ history \in [Conversation -> Seq(Turn)]
    /\ staler \in [Conversation -> SUBSET Conversation]

-----------------------------------------------------------------------------
(* Queries *)

Rows == {e \in Event : state[e] # "absent"}
Live == {e \in Event : state[e] \in {"pending", "outbox"}}
Done == {e \in Event : state[e] = "done"}

(* A plausible slip for TLC: newest first. *)
BugIsNextNewest(e) == e \in Live /\ \A f \in Live : e \notin older[f]

(* next_event: the oldest unfinished row. *)
IsNext(e) == e \in Live /\ Live \cap older[e] = {}

(* rowid IN (SELECT ... ORDER BY ... DESC LIMIT n): rows with fewer than n   *)
(* newer ones.                                                               *)
Newest(rows, before, n) ==
    {x \in rows : Cardinality({y \in rows : x \in before[y]}) < n}

(* turns[-n:] *)
LastTurns(turns, n) ==
    IF Len(turns) <= n THEN turns
    ELSE SubSeq(turns, Len(turns) - n + 1, Len(turns))

MaxOf(a, b) == IF a >= b THEN a ELSE b

-----------------------------------------------------------------------------
(* Transactions *)

StoreInit ==
    /\ active = FALSE
    /\ since = Provisioned
    /\ state = [e \in Event |-> "absent"]
    /\ older = [e \in Event |-> {}]
    /\ outgoing = [e \in Event |-> Null]
    /\ history = [c \in Conversation |-> <<>>]
    /\ staler = [c \in Conversation |-> {}]

(* A plausible slip for TLC: one row too many. *)
BugFull == Cardinality(Live) > PendingLimit

Full == Cardinality(Live) >= PendingLimit

(* enqueue returned True: room was left and the id had no row. *)
Inserts(e) == ~Full /\ e \notin Rows

(* The watermark moves for a duplicate too, but not when the inbox is full. *)
Enqueue(e) ==
    /\ since' = IF Full THEN since ELSE MaxOf(since, CreatedAt[e])
    /\ IF Inserts(e)
       THEN /\ state' = [state EXCEPT ![e] = "pending"]
            /\ older' = [older EXCEPT ![e] = Rows]
       ELSE UNCHANGED <<state, older>>
    /\ UNCHANGED <<active, outgoing, history, staler>>

Outbox(e, r) ==
    /\ state' = [state EXCEPT ![e] = "outbox"]
    /\ outgoing' = [outgoing EXCEPT ![e] = r]
    /\ UNCHANGED <<active, since, older, history, staler>>

(* A plausible slip for TLC: the row is not marked done. *)
BugSettleKeepsRow(e) ==
    /\ outgoing' = [outgoing EXCEPT ![e] = Null]
    /\ UNCHANGED <<state, older>>

(* The part of finish that closes the row and prunes the finished ones. *)
Settle(e) ==
    LET finished == Done \cup {e}
        pruned == finished \ Newest(finished, older, DedupLimit)
    IN /\ state' = [f \in Event |-> IF f \in pruned THEN "absent"
                                    ELSE IF f = e THEN "done" ELSE state[f]]
       /\ older' = [f \in Event |-> IF f \in pruned THEN {} ELSE older[f] \ pruned]
       /\ outgoing' = [outgoing EXCEPT ![e] = Null]

(* The part of finish that appends the exchange and prunes conversations. *)
Record(e, r) ==
    LET c == ConversationOf[e]
        turns == history[c] \o <<UserTurn(e)>>
                   \o (IF r > Null THEN <<ReplyTurn(e, r)>> ELSE <<>>)
        kept == {d \in Conversation : history[d] # <<>>} \cup {c}
        touched == [d \in Conversation |-> IF d = c THEN kept \ {c}
                                           ELSE staler[d] \ {c}]
        newest == Newest(kept, touched, ConversationLimit)
    IN /\ history' = [d \in Conversation |->
                        IF d \notin newest THEN <<>>
                        ELSE IF d = c THEN LastTurns(turns, 2 * HistoryTurns)
                        ELSE history[d]]
       /\ staler' = [d \in Conversation |->
                        IF d \in newest THEN touched[d] \cap newest ELSE {}]

(* finish: one transaction; a row that is gone or done already stays so. *)
Finish(e) ==
    /\ IF e \in Live
       THEN /\ Settle(e)
            /\ IF outgoing[e] # Null THEN Record(e, outgoing[e])
               ELSE UNCHANGED historyVars
       ELSE UNCHANGED <<inboxVars, historyVars>>
    /\ UNCHANGED <<active, since>>

(* abandon, first transaction: the state column is not touched. *)
ClearReply(e) ==
    /\ outgoing' = [outgoing EXCEPT ![e] = Null]
    /\ UNCHANGED <<active, since, state, older, history, staler>>

(* abandon: ClearReply and then a finish that finds no conversation. *)
Abandon(e) ==
    /\ Settle(e)
    /\ UNCHANGED <<active, since, history, staler>>

(* activate(active=True) on a row that holds the owner already. *)
SetActive ==
    /\ active' = TRUE
    /\ UNCHANGED <<since, inboxVars, historyVars>>

(* deactivate: the watermark stays with the communities row. *)
Deactivate ==
    /\ active' = FALSE
    /\ state' = [e \in Event |-> "absent"]
    /\ older' = [e \in Event |-> {}]
    /\ outgoing' = [e \in Event |-> Null]
    /\ history' = [c \in Conversation |-> <<>>]
    /\ staler' = [c \in Conversation |-> {}]
    /\ UNCHANGED since
=============================================================================
