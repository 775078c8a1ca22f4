--------------------------- MODULE MCNostrMentions ---------------------------
(* Every thread of four events, of which the last is delivered, and every     *)
(* delivery of one thread of three mentions.                                 *)
EXTENDS NostrMentions, TLC

CONSTANTS e1, e2, e3, e4, h1, h2

Plain(kind, valid, parent, root) ==
    [kind |-> kind, valid |-> valid, parent |-> parent, root |-> root,
     parentRight |-> FALSE, scopeRight |-> FALSE]

(* NIP-10: a root without a reply is the parent too.                         *)
Notes(S) ==
    {Plain("note", v, NoEvent, NoEvent) : v \in BOOLEAN}
    \cup {Plain("note", TRUE, p, r) : p \in S, r \in S \cup {NoEvent}}

Polls == {Plain("poll", TRUE, NoEvent, NoEvent)}

CommentsOn(S) ==
    {Plain("comment", FALSE, NoEvent, NoEvent) : x \in S}
    \cup [kind : {"comment"}, valid : {TRUE}, parent : S, root : S,
          parentRight : BOOLEAN, scopeRight : BOOLEAN]

Posts(S) == Notes(S) \cup Polls \cup CommentsOn(S)

Threads ==
    {(e1 :> a) @@ (e2 :> b) @@ (e3 :> c) @@ (e4 :> d) :
        a \in Posts({}), b \in Posts({e1}), c \in Posts({e1, e2}),
        d \in Posts({e1, e2, e3}) \ Polls}

(* A note, a reply to it and a comment on the reply, two of them mentions    *)
(* beside a note of its own.                                                 *)
OneThread ==
    (e1 :> Plain("note", TRUE, NoEvent, NoEvent))
    @@ (e2 :> Plain("note", TRUE, e1, e1))
    @@ (e3 :> [kind |-> "comment", valid |-> TRUE, parent |-> e2, root |-> e1,
               parentRight |-> TRUE, scopeRight |-> TRUE])
    @@ (e4 :> Plain("note", TRUE, NoEvent, NoEvent))

MCWorlds == Threads \cup {OneThread}

(* The last event of a thread, delivered once to the last process there is.  *)
LateInit ==
    /\ post \in Threads
    /\ fresh = [e \in Mention |-> IF e = e4 THEN MaxStops ELSE 0]
    /\ up = TRUE
    /\ pc = [h \in Handler |-> "free"]
    /\ job = [h \in Handler |-> NoEvent]
    /\ history = [h \in Handler |-> <<>>]
    /\ topic = [h \in Handler |-> NoEvent]
    /\ recent = <<>>
    /\ reached = [e \in Mention |-> 0] /\ forgotten = [e \in Mention |-> 0]
    /\ deliveries = MaxDeliveries - 1 /\ starts = MaxStops

MCInit == (post = OneThread /\ Init) \/ LateInit

MCSpec == MCInit /\ [][Next]_vars

Slots == Permutations(Handler)
=============================================================================
