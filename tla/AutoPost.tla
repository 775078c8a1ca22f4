------------------------------- MODULE AutoPost -------------------------------
(* Autonomous posts: the post loops of Misskey (bot.py) and Nostr (nostr.py)  *)
(* over one ChatAgent, its run_auto() with the attachment tools of the model, *)
(* the image provider, the upload and the publication.  A draft is known by   *)
(* what the code tells apart.                                                *)
EXTENDS Naturals, Sequences, SequencesExt

CONSTANTS
    Loop,           \* the auto-post loops
    NostrLoop,      \* those of the Nostr frontend
    MaxHistory      \* maxlen of _auto_history

ASSUME PostAssumption ==
    NostrLoop \subseteq Loop /\ MaxHistory \in Nat \ {0}

(* "described": an image description and a caption; "bare": one without;       *)
(* "declined": NO_REPLY; "long": over auto_max_chars; "wide": within it, but   *)
(* over max_note_length.                                                      *)
Draft == {"text", "blank", "marker", "markup", "described", "bare", "declined", "wide", "long"}

VARIABLES
    stage,      \* the await of a loop
    image,      \* runs with deps.image
    poll,       \* runs with deps.poll
    attempted,  \* runs with deps.image_attempted
    lock,       \* runs with a tool call inside deps.lock, at the provider
    text,       \* the text of the run's post
    paid,       \* requests to the image provider in this run
    file,       \* runs with an uploaded file
    posts,      \* notes this run made
    auto        \* _auto_history

deps == <<image, poll, attempted, lock>>
out == <<text, file, posts>>
vars == <<stage, deps, out, paid, auto>>

Init ==
    /\ stage = [l \in Loop |-> "wait"]
    /\ image = {} /\ poll = {} /\ attempted = {} /\ lock = {}
    /\ text = [l \in Loop |-> "blank"] /\ paid = [l \in Loop |-> 0]
    /\ file = {} /\ posts = [l \in Loop |-> <<>>]
    /\ auto = <<>>

To(l, s) == stage' = [stage EXCEPT ![l] = s]

(* The interval is over: a run begins with fresh dependencies.               *)
Start(l) ==
    /\ stage[l] = "wait" /\ To(l, "model")
    /\ image' = image \ {l} /\ poll' = poll \ {l} /\ attempted' = attempted \ {l}
    /\ text' = [text EXCEPT ![l] = "blank"] /\ paid' = [paid EXCEPT ![l] = 0]
    /\ file' = file \ {l} /\ posts' = [posts EXCEPT ![l] = <<>>]
    /\ UNCHANGED <<lock, auto>>

-----------------------------------------------------------------------------
(* Tools.  The calls of one model turn run concurrently, under deps.lock.     *)

Called(l) == stage[l] = "model" /\ l \notin lock

(* create_poll(): unfit choices are refused, and a second poll.              *)
CreatePoll(l) ==
    /\ Called(l) /\ poll' = poll \cup {l}
    /\ UNCHANGED <<stage, image, attempted, lock, out, paid, auto>>

(* A defect: a call neither waits for the one under way nor marks an attempt. *)
BugGenerateImage(l) ==
    /\ stage[l] = "model" /\ l \notin image \cup attempted
    /\ lock' = lock \cup {l} /\ paid' = [paid EXCEPT ![l] = @ + 1]
    /\ UNCHANGED <<stage, image, poll, attempted, out, auto>>

(* generate_image(): refused after an image or an attempt, and when prompt or *)
(* alt text is too long; else the provider is asked, once.                   *)
GenerateImage(l) ==
    /\ Called(l) /\ l \notin image \cup attempted
    /\ attempted' = attempted \cup {l} /\ lock' = lock \cup {l}
    /\ paid' = [paid EXCEPT ![l] = @ + 1]
    /\ UNCHANGED <<stage, image, poll, out, auto>>

(* generate(): a usable image, or none for a failed request, an oversized     *)
(* body, one that is no JSON, base64 or image, or holds too large an image.  *)
Generated(l) ==
    /\ stage[l] = "model" /\ l \in lock
    /\ lock' = lock \ {l} /\ image' \in {image, image \cup {l}}
    /\ UNCHANGED <<stage, poll, attempted, out, paid, auto>>

-----------------------------------------------------------------------------
(* run_auto().                                                               *)

(* The validators of the model's output, which send a draft back.            *)
Retried(l, d) ==
    \/ d \in {"long", "markup"}
    \/ d \in {"marker", "blank"} /\ (l \in poll \/ l \notin image)

Plain(d) == IF d = "marker" THEN "blank" ELSE d
Caption(d) == IF d = "bare" THEN "blank" ELSE "text"
Describes(d) == d \in {"described", "bare"}

Remember(l, d, pic) ==
    LET all == Append(auto, [text |-> d, poll |-> l \in poll, image |-> pic])
    IN  auto' = IF Len(all) > MaxHistory THEN Tail(all) ELSE all

(* What a loop does with the post of its run: Nostr leaves out a declined     *)
(* one, Misskey refuses one over its limit.                                  *)
Dropped(l, d) == d = IF l \in NostrLoop THEN "declined" ELSE "wide"
Publish(l, d, pic) ==
    To(l, IF Dropped(l, d) THEN "wait" ELSE IF pic THEN "upload" ELSE "create")

(* A defect: the validators are trusted after a description became an image.  *)
BugFinish(l, d, pic) ==
    /\ text' = [text EXCEPT ![l] = d] /\ Remember(l, d, pic) /\ Publish(l, d, pic)

(* The last checks; a post that passes is remembered and goes to its loop,    *)
(* which publishes it.  A failed run is logged.                              *)
Finish(l, d, pic) ==
    /\ text' = [text EXCEPT ![l] = d]
    /\ IF d = "blank" /\ (l \in poll \/ ~pic)
       THEN To(l, "wait") /\ UNCHANGED auto
       ELSE Remember(l, d, pic) /\ Publish(l, d, pic)

(* A description the model wrote instead of calling its tool is turned into   *)
(* an image, when nothing has been asked of the provider.                    *)
Recovers(l, d) == Describes(d) /\ l \notin image \cup attempted

(* The model's final output.  A retried draft leaves the run going on.       *)
Output(l, d) ==
    /\ Called(l) /\ ~Retried(l, d)
    /\ \/ /\ Recovers(l, d) /\ To(l, "recover") /\ text' = [text EXCEPT ![l] = d]
          /\ attempted' = attempted \cup {l} /\ paid' = [paid EXCEPT ![l] = @ + 1]
          /\ UNCHANGED auto
       \/ /\ Finish(l, IF Describes(d) /\ l \in image THEN Caption(d) ELSE Plain(d), l \in image)
          /\ UNCHANGED <<attempted, paid>>
    /\ UNCHANGED <<image, poll, lock, file, posts>>

(* The provider's answer to the recovery: an image and its caption, or the    *)
(* text as it is.                                                            *)
Recovered(l, pic) ==
    /\ stage[l] = "recover"
    /\ image' = (IF pic THEN image \cup {l} ELSE image)
    /\ Finish(l, IF pic THEN Caption(text[l]) ELSE text[l], pic)
    /\ UNCHANGED <<poll, attempted, lock, file, posts, paid>>

(* The model fails, or its drafts have been sent back too often.             *)
RunFails(l) ==
    /\ stage[l] = "model" /\ To(l, "wait") /\ lock' = lock \ {l}
    /\ UNCHANGED <<image, poll, attempted, out, paid, auto>>

-----------------------------------------------------------------------------
(* Publication.                                                              *)

(* The drive answers with a file, or not: a text goes out without the image.  *)
Upload(l, ok) ==
    /\ stage[l] = "upload" /\ l \notin NostrLoop
    /\ file' = (IF ok THEN file \cup {l} ELSE file)
    /\ To(l, IF ok \/ text[l] # "blank" THEN "create" ELSE "wait")
    /\ UNCHANGED <<deps, text, posts, paid, auto>>

(* Nostr needs the file and its URL, or gives the post up.                   *)
UploadForNostr(l, ok) ==
    /\ stage[l] = "upload" /\ l \in NostrLoop
    /\ file' = (IF ok THEN file \cup {l} ELSE file)
    /\ To(l, IF ok THEN "create" ELSE "wait")
    /\ UNCHANGED <<deps, text, posts, paid, auto>>

Made(l) ==
    posts' = [posts EXCEPT ![l] =
        Append(@, [text |-> text[l], poll |-> l \in poll, file |-> l \in file])]

(* A defect: every request is replayed.                                      *)
BugReplayed(method) == TRUE

(* RetryTransport, through which Misskey's requests pass.                    *)
Replayed(method) == method \in {"GET", "HEAD", "OPTIONS"}

(* notes/create reaches the server and is answered, or not; or it does not.   *)
CreateNote(l, reached, answered) ==
    /\ stage[l] = "create" /\ l \notin NostrLoop /\ (answered => reached)
    /\ IF reached THEN Made(l) ELSE UNCHANGED posts
    /\ IF ~answered /\ Replayed("POST") THEN UNCHANGED stage ELSE To(l, "wait")
    /\ UNCHANGED <<deps, text, file, paid, auto>>

(* The event is published, whether or not a relay's OK comes in time.         *)
PublishEvent(l, reached) ==
    /\ stage[l] = "create" /\ l \in NostrLoop
    /\ IF reached THEN Made(l) ELSE UNCHANGED posts
    /\ To(l, "wait") /\ UNCHANGED <<deps, text, file, paid, auto>>

(* Shutdown: the loop is cancelled wherever it is.                           *)
Close(l) ==
    /\ stage[l] # "closed" /\ To(l, "closed") /\ lock' = lock \ {l}
    /\ UNCHANGED <<image, poll, attempted, out, paid, auto>>

-----------------------------------------------------------------------------
Progress(l) ==
    \/ Generated(l) \/ RunFails(l) \/ \E d \in Draft : Output(l, d)
    \/ \E ok \in BOOLEAN :
          Recovered(l, ok) \/ Upload(l, ok) \/ UploadForNostr(l, ok) \/ PublishEvent(l, ok)
    \/ \E reached, answered \in BOOLEAN : CreateNote(l, reached, answered)

Next ==
    \E l \in Loop :
        Start(l) \/ CreatePoll(l) \/ GenerateImage(l) \/ Progress(l) \/ Close(l)

Spec == Init /\ [][Next]_vars

-----------------------------------------------------------------------------
(* A run pays for at most one image, whatever its tool calls and the recovery *)
(* of a description do.                                                      *)
OneImagePaid == \A l \in Loop : paid[l] <= 1

Worded == {"text", "described", "bare", "declined", "wide"}

(* What is published and what is remembered has content: a text or a file, a  *)
(* question for its poll, never the marker alone, tool markup or an overlong  *)
(* text.  (A marker amid other words is text to the code, as it is here.)     *)
(* Nostr publishes no declined post, Misskey none over its limit.            *)
Presentable ==
    /\ \A l \in Loop : \A p \in ToSet(posts[l]) :
           /\ p.text \in Worded \/ (p.text = "blank" /\ p.file)
           /\ p.poll => p.text # "blank"
           /\ ~Dropped(l, p.text)
    /\ \A p \in ToSet(auto) : p.text \in Worded \/ (p.text = "blank" /\ p.image /\ ~p.poll)

(* A run makes at most one note, though the answer to its POST may be lost.   *)
NotePostedOnce == \A l \in Loop : Len(posts[l]) <= 1

-----------------------------------------------------------------------------
(* What makes them hold: the inductive invariant.                            *)

Content == Worded \cup {"blank"}
Note(l) ==
    {p \in [text : Content, poll : BOOLEAN, file : BOOLEAN] :
        ~Dropped(l, p.text) /\ (p.text = "blank" => p.file /\ ~p.poll)}
Kept ==
    {e \in [text : Content, poll : BOOLEAN, image : BOOLEAN] :
        e.text = "blank" => e.image /\ ~e.poll}

TypeOK ==
    /\ stage \in [Loop -> {"wait", "model", "recover", "upload", "create", "closed"}]
    /\ image \subseteq Loop /\ poll \subseteq Loop /\ attempted \subseteq Loop
    /\ lock \subseteq Loop /\ file \subseteq Loop
    /\ text \in [Loop -> Draft] /\ paid \in [Loop -> Nat]
    /\ posts \in [Loop -> Seq([text : Draft, poll : BOOLEAN, file : BOOLEAN])]
    /\ auto \in Seq(Kept)

(* A run that has paid has made its attempt.                                 *)
PaidInv == \A l \in Loop : paid[l] <= 1 /\ (paid[l] = 1 => l \in attempted)

(* A run has made no note before its publication.                            *)
PostInv ==
    \A l \in Loop :
        /\ posts[l] \in Seq(Note(l)) /\ Len(posts[l]) <= 1
        /\ stage[l] \in {"model", "recover", "upload", "create"} => posts[l] = <<>>

(* What the text of a run is between the model's output and publication.      *)
DraftInv ==
    \A l \in Loop :
        /\ stage[l] = "recover" => Describes(text[l])
        /\ stage[l] \in {"upload", "create"} =>
              /\ text[l] \in Content /\ ~Dropped(l, text[l])
              /\ text[l] = "blank" => l \notin poll /\ (stage[l] = "create" => l \in file)

IInv == TypeOK /\ PaidInv /\ PostInv /\ DraftInv
==============================================================================
