---------------------------- MODULE ChatAgentProofs ----------------------------
(* Proofs about the two ways to run the chat agent, ai.py.  AutoPost: one     *)
(* image is paid for, what is published has content, and a run makes one      *)
(* note, for any loops and length of history.  ChatTurns: one automatic score *)
(* in a window, every change accounted for, and nothing left running by a     *)
(* reply, for any turns and tool calls.                                      *)
EXTENDS AutoPost, ChatTurns, FiniteSetTheorems, TLAPS

-----------------------------------------------------------------------------
(* What the checks at the end of run_auto() let through.                      *)

(* Remembering a post that passed keeps the history one of presentable posts. *)
LEMMA RememberKeeps ==
    ASSUME auto \in Seq(Kept), NEW l \in Loop, NEW d \in Content, NEW pic \in BOOLEAN,
           d = "blank" => pic /\ l \notin poll, Remember(l, d, pic)
    PROVE  auto' \in Seq(Kept)
<1> DEFINE e == [text |-> d, poll |-> l \in poll, image |-> pic]
           all == Append(auto, e)
<1>1. e \in Kept
  <2> DEFINE b == l \in poll
  <2>1. b \in BOOLEAN
    OBVIOUS
  <2> HIDE DEF b
  <2>2. [text |-> d, poll |-> b, image |-> pic] \in [text : Content, poll : BOOLEAN, image : BOOLEAN]
    BY <2>1
  <2>3. d = "blank" => pic /\ ~b
    BY DEF b
  <2>4. [text |-> d, poll |-> b, image |-> pic] \in Kept
    BY <2>2, <2>3 DEF Kept
  <2> QED BY <2>4 DEF b
<1>2. all \in Seq(Kept) /\ Len(all) = Len(auto) + 1 /\ Len(auto) \in Nat
  BY <1>1
<1>3. all # <<>>
  BY <1>2
<1>4. Tail(all) \in Seq(Kept)
  BY <1>2, <1>3
<1>5. auto' \in {all, Tail(all)}
  BY Zenon DEF Remember
<1> QED BY <1>2, <1>4, <1>5, Zenon

(* A post that passed the last checks has content, and goes where its loop    *)
(* publishes it, unless that loop drops it.                                   *)
LEMMA FinishFacts ==
    ASSUME TypeOK, NEW l \in Loop, NEW d \in Content, NEW pic \in BOOLEAN,
           stage[l] \in {"model", "recover"}, Finish(l, d, pic)
    PROVE  /\ text' = [text EXCEPT ![l] = d] /\ text' \in [Loop -> Draft] /\ text'[l] = d
           /\ auto' \in Seq(Kept)
           /\ \E s \in {"wait", "upload", "create"} :
                 /\ stage' = [stage EXCEPT ![l] = s] /\ stage'[l] = s
                 /\ s \in {"upload", "create"} => ~Dropped(l, d) /\ (d = "blank" => l \notin poll)
                 /\ s = "create" => d # "blank"
<1>1. d \in Draft
  BY DEF Content, Worded, Draft
<1>2. text' = [text EXCEPT ![l] = d] /\ text' \in [Loop -> Draft] /\ text'[l] = d
  BY <1>1 DEF Finish, TypeOK
<1>3. CASE d = "blank" /\ (l \in poll \/ ~pic)
  <2>1. stage' = [stage EXCEPT ![l] = "wait"] /\ auto' = auto
    BY <1>3 DEF Finish, To
  <2> QED BY <2>1, <1>2 DEF TypeOK
<1>4. CASE ~(d = "blank" /\ (l \in poll \/ ~pic))
  <2>1. Remember(l, d, pic) /\ Publish(l, d, pic)
    BY <1>4 DEF Finish
  <2>2. auto' \in Seq(Kept)
    BY <2>1, <1>4, RememberKeeps DEF TypeOK
  <2> DEFINE s == IF Dropped(l, d) THEN "wait" ELSE IF pic THEN "upload" ELSE "create"
  <2>3. stage' = [stage EXCEPT ![l] = s] /\ stage'[l] = s
    BY <2>1 DEF Publish, To, TypeOK
  <2>4. s \in {"wait", "upload", "create"} /\ (s # "wait" => ~Dropped(l, d))
        /\ (s = "create" => ~pic)
    OBVIOUS
  <2> QED BY <1>2, <1>4, <2>2, <2>3, <2>4
<1> QED BY <1>3, <1>4

-----------------------------------------------------------------------------
(* The inductive invariant *)

LEMMA InitInv == Init => IInv
<1> SUFFICES ASSUME Init PROVE IInv
  OBVIOUS
<1>1. TypeOK
  BY DEF Init, TypeOK, Draft
<1>2. PaidInv
  BY DEF Init, PaidInv
<1>3. PostInv
  BY DEF Init, PostInv
<1>4. DraftInv
  BY DEF Init, DraftInv
<1> QED BY <1>1, <1>2, <1>3, <1>4 DEF IInv

LEMMA StartKeeps == ASSUME IInv, NEW l \in Loop, Start(l) PROVE IInv'
<1>1. TypeOK'
  BY DEF IInv, TypeOK, Start, To, Draft
<1>2. PaidInv'
  BY DEF IInv, TypeOK, PaidInv, Start
<1>3. PostInv'
  BY DEF IInv, TypeOK, PostInv, Start, To, Note
<1>4. DraftInv'
  BY DEF IInv, TypeOK, DraftInv, Start, To
<1> QED BY <1>1, <1>2, <1>3, <1>4 DEF IInv

LEMMA CreatePollKeeps ==
    ASSUME IInv, NEW l \in Loop, CreatePoll(l) PROVE IInv'
<1>1. TypeOK'
  BY DEF IInv, TypeOK, CreatePoll, Called, out
<1>2. PaidInv'
  BY DEF IInv, TypeOK, PaidInv, CreatePoll, Called, out
<1>3. PostInv'
  BY DEF IInv, TypeOK, PostInv, CreatePoll, Called, out
<1>4. DraftInv'
  BY DEF IInv, TypeOK, DraftInv, CreatePoll, Called, out
<1> QED BY <1>1, <1>2, <1>3, <1>4 DEF IInv

LEMMA GenerateImageKeeps ==
    ASSUME IInv, NEW l \in Loop, GenerateImage(l) PROVE IInv'
<1>0. paid' \in [Loop -> Nat]
  <2>1. paid' = [paid EXCEPT ![l] = @ + 1] /\ paid \in [Loop -> Nat]
    BY DEF GenerateImage, IInv, TypeOK
  <2> QED BY <2>1
<1>1. TypeOK'
  BY <1>0 DEF IInv, TypeOK, GenerateImage, Called, out
<1>2. PaidInv'
  BY DEF IInv, TypeOK, PaidInv, GenerateImage, Called, out
<1>3. PostInv'
  BY DEF IInv, TypeOK, PostInv, GenerateImage, Called, out
<1>4. DraftInv'
  BY DEF IInv, TypeOK, DraftInv, GenerateImage, Called, out
<1> QED BY <1>1, <1>2, <1>3, <1>4 DEF IInv

LEMMA GeneratedKeeps ==
    ASSUME IInv, NEW l \in Loop, Generated(l) PROVE IInv'
<1>1. TypeOK'
  BY DEF IInv, TypeOK, Generated, out
<1>2. PaidInv'
  BY DEF IInv, TypeOK, PaidInv, Generated, out
<1>3. PostInv'
  BY DEF IInv, TypeOK, PostInv, Generated, out
<1>4. DraftInv'
  BY DEF IInv, TypeOK, DraftInv, Generated, out
<1> QED BY <1>1, <1>2, <1>3, <1>4 DEF IInv

LEMMA RunFailsKeeps ==
    ASSUME IInv, NEW l \in Loop, RunFails(l) PROVE IInv'
<1>1. TypeOK'
  BY DEF IInv, TypeOK, RunFails, To, out
<1>2. PaidInv'
  BY DEF IInv, TypeOK, PaidInv, RunFails, To, out
<1>3. PostInv'
  BY DEF IInv, TypeOK, PostInv, RunFails, To, out
<1>4. DraftInv'
  BY DEF IInv, TypeOK, DraftInv, RunFails, To, out
<1> QED BY <1>1, <1>2, <1>3, <1>4 DEF IInv

LEMMA CloseKeeps ==
    ASSUME IInv, NEW l \in Loop, Close(l) PROVE IInv'
<1>1. TypeOK'
  BY DEF IInv, TypeOK, Close, To, deps, out
<1>2. PaidInv'
  BY DEF IInv, TypeOK, PaidInv, Close, To, deps, out
<1>3. PostInv'
  BY DEF IInv, TypeOK, PostInv, Close, To, deps, out
<1>4. DraftInv'
  BY DEF IInv, TypeOK, DraftInv, Close, To, deps, out
<1> QED BY <1>1, <1>2, <1>3, <1>4 DEF IInv

LEMMA UploadKeeps ==
    ASSUME IInv, NEW l \in Loop, NEW ok \in BOOLEAN, Upload(l, ok) PROVE IInv'
<1>1. TypeOK'
  BY DEF IInv, TypeOK, Upload, To, deps
<1>2. PaidInv'
  BY DEF IInv, TypeOK, PaidInv, Upload, To, deps
<1>3. PostInv'
  BY DEF IInv, TypeOK, PostInv, Upload, To, deps
<1>4. DraftInv'
  BY DEF IInv, TypeOK, DraftInv, Upload, To, deps
<1> QED BY <1>1, <1>2, <1>3, <1>4 DEF IInv

LEMMA UploadForNostrKeeps ==
    ASSUME IInv, NEW l \in Loop, NEW ok \in BOOLEAN, UploadForNostr(l, ok) PROVE IInv'
<1>1. TypeOK'
  BY DEF IInv, TypeOK, UploadForNostr, To, deps
<1>2. PaidInv'
  BY DEF IInv, TypeOK, PaidInv, UploadForNostr, To, deps
<1>3. PostInv'
  BY DEF IInv, TypeOK, PostInv, UploadForNostr, To, deps
<1>4. DraftInv'
  BY DEF IInv, TypeOK, DraftInv, UploadForNostr, To, deps
<1> QED BY <1>1, <1>2, <1>3, <1>4 DEF IInv

(* A note made of what the checks let through is presentable, and the first.  *)
LEMMA MadeFacts ==
    ASSUME IInv, NEW l \in Loop, stage[l] = "create", Made(l)
    PROVE  /\ posts' \in [Loop -> Seq([text : Draft, poll : BOOLEAN, file : BOOLEAN])]
           /\ posts'[l] \in Seq(Note(l)) /\ Len(posts'[l]) <= 1
           /\ \A k \in Loop \ {l} : posts'[k] = posts[k]
<1> DEFINE p == l \in poll
           f == l \in file
           n == [text |-> text[l], poll |-> p, file |-> f]
<1>1. /\ text[l] \in Content /\ text[l] \in Draft /\ ~Dropped(l, text[l]) /\ posts[l] = <<>>
      /\ (text[l] = "blank" => f /\ ~p)
  BY DEF IInv, TypeOK, DraftInv, PostInv
<1>2. p \in BOOLEAN /\ f \in BOOLEAN
  OBVIOUS
<1>3. posts' = [posts EXCEPT ![l] = Append(@, n)]
  BY DEF Made
<1> HIDE DEF p, f
<1>4. n \in [text : Draft, poll : BOOLEAN, file : BOOLEAN]
  BY <1>1, <1>2
<1>5. n \in Note(l)
  BY <1>1, <1>2 DEF Note
<1> HIDE DEF n
<1>6. Append(<<>>, n) = <<n>>
  OBVIOUS
<1>7. /\ <<n>> \in Seq([text : Draft, poll : BOOLEAN, file : BOOLEAN])
      /\ <<n>> \in Seq(Note(l)) /\ Len(<<n>>) = 1
  BY <1>4, <1>5
<1>8. posts \in [Loop -> Seq([text : Draft, poll : BOOLEAN, file : BOOLEAN])]
  BY DEF IInv, TypeOK
<1>9. posts'[l] = <<n>> /\ \A k \in Loop \ {l} : posts'[k] = posts[k]
  BY <1>1, <1>3, <1>6, <1>8, Zenon
<1>10. posts' \in [Loop -> Seq([text : Draft, poll : BOOLEAN, file : BOOLEAN])]
  BY <1>1, <1>3, <1>6, <1>7, <1>8, Zenon
<1>11. posts'[l] \in Seq(Note(l)) /\ Len(posts'[l]) = 1
  BY <1>7, <1>9, Zenon
<1>12. Len(posts'[l]) <= 1
  BY <1>11
<1> QED BY <1>9, <1>10, <1>11, <1>12, Zenon

(* Either way of publishing leaves the loop waiting for its next interval.    *)
LEMMA PublicationKeeps ==
    ASSUME IInv, NEW l \in Loop, stage[l] = "create", To(l, "wait"),
           Made(l) \/ UNCHANGED posts, UNCHANGED <<deps, text, file, paid, auto>>
    PROVE  IInv'
<1>1. /\ posts' \in [Loop -> Seq([text : Draft, poll : BOOLEAN, file : BOOLEAN])]
      /\ posts'[l] \in Seq(Note(l)) /\ Len(posts'[l]) <= 1
      /\ \A k \in Loop \ {l} : posts'[k] = posts[k]
  <2>1. CASE Made(l)
    BY <2>1, MadeFacts
  <2>2. CASE UNCHANGED posts
    BY <2>2 DEF IInv, TypeOK, PostInv
  <2> QED BY <2>1, <2>2
<1>2. TypeOK'
  BY <1>1 DEF IInv, TypeOK, To, deps
<1>3. PaidInv'
  BY DEF IInv, PaidInv, deps
<1>4. stage'[l] = "wait" /\ \A k \in Loop \ {l} : stage'[k] = stage[k]
  BY DEF IInv, TypeOK, To
<1>5. PostInv'
  BY <1>1, <1>4 DEF IInv, PostInv, Note, Dropped
<1>6. DraftInv'
  BY <1>4 DEF IInv, DraftInv, deps, Dropped, Describes
<1> QED BY <1>2, <1>3, <1>5, <1>6 DEF IInv

LEMMA CreateNoteKeeps ==
    ASSUME IInv, NEW l \in Loop, NEW reached \in BOOLEAN, NEW acked \in BOOLEAN,
           CreateNote(l, reached, acked)
    PROVE  IInv'
<1>1. ~Replayed("POST")
  BY DEF Replayed
<1>2. stage[l] = "create" /\ To(l, "wait") /\ (Made(l) \/ UNCHANGED posts)
      /\ UNCHANGED <<deps, text, file, paid, auto>>
  BY <1>1 DEF CreateNote
<1> QED BY <1>2, PublicationKeeps

LEMMA PublishEventKeeps ==
    ASSUME IInv, NEW l \in Loop, NEW reached \in BOOLEAN, PublishEvent(l, reached)
    PROVE  IInv'
<1>1. stage[l] = "create" /\ To(l, "wait") /\ (Made(l) \/ UNCHANGED posts)
      /\ UNCHANGED <<deps, text, file, paid, auto>>
  BY DEF PublishEvent
<1> QED BY <1>1, PublicationKeeps

(* The end of a run keeps the invariant, whether the model's text or a        *)
(* caption is what is left of it.                                            *)
LEMMA FinishKeeps ==
    ASSUME IInv, NEW l \in Loop, NEW d \in Content, NEW pic \in BOOLEAN,
           stage[l] \in {"model", "recover"}, Finish(l, d, pic),
           image' \in SUBSET Loop, UNCHANGED <<poll, attempted, lock, file, posts, paid>>
    PROVE  IInv'
<1>1. PICK s \in {"wait", "upload", "create"} :
         /\ stage' = [stage EXCEPT ![l] = s] /\ stage'[l] = s
         /\ s \in {"upload", "create"} => ~Dropped(l, d) /\ (d = "blank" => l \notin poll)
         /\ s = "create" => d # "blank"
  BY FinishFacts DEF IInv
<1>2. text' = [text EXCEPT ![l] = d] /\ text' \in [Loop -> Draft] /\ text'[l] = d
      /\ auto' \in Seq(Kept)
  BY FinishFacts DEF IInv
<1>3. \A k \in Loop \ {l} : stage'[k] = stage[k] /\ text'[k] = text[k]
  BY <1>1, <1>2 DEF IInv, TypeOK
<1>4. TypeOK'
  BY <1>1, <1>2 DEF IInv, TypeOK
<1>5. PaidInv'
  BY DEF IInv, PaidInv
<1>6. PostInv'
  BY <1>1, <1>3 DEF IInv, PostInv
<1>7. DraftInv'
  BY <1>1, <1>2, <1>3 DEF IInv, DraftInv
<1> QED BY <1>4, <1>5, <1>6, <1>7 DEF IInv

LEMMA OutputKeeps == ASSUME IInv, NEW l \in Loop, NEW d \in Draft, Output(l, d) PROVE IInv'
<1>1. stage[l] = "model" /\ ~Retried(l, d)
  BY DEF Output, Called
<1>2. CASE /\ Recovers(l, d) /\ To(l, "recover") /\ text' = [text EXCEPT ![l] = d]
           /\ attempted' = attempted \cup {l} /\ paid' = [paid EXCEPT ![l] = @ + 1]
           /\ UNCHANGED auto
  <2>1. UNCHANGED <<image, poll, lock, file, posts>>
    BY DEF Output
  <2>2. TypeOK'
    <3>1. paid' \in [Loop -> Nat]
      BY <1>2 DEF IInv, TypeOK
    <3>2. stage' \in [Loop -> {"wait", "model", "recover", "upload", "create", "closed"}]
      BY <1>2 DEF IInv, TypeOK, To
    <3>3. text' \in [Loop -> Draft] /\ attempted' \subseteq Loop
      BY <1>2 DEF IInv, TypeOK
    <3> QED BY <1>2, <2>1, <3>1, <3>2, <3>3 DEF IInv, TypeOK
  <2>3. PaidInv'
    BY <1>2 DEF IInv, TypeOK, PaidInv, Recovers
  <2>4. PostInv'
    BY <1>1, <1>2, <2>1 DEF IInv, TypeOK, PostInv, To
  <2>5. DraftInv'
    BY <1>2, <2>1 DEF IInv, TypeOK, DraftInv, To, Recovers
  <2> QED BY <2>2, <2>3, <2>4, <2>5 DEF IInv
<1>3. CASE /\ Finish(l, IF Describes(d) /\ l \in image THEN Caption(d) ELSE Plain(d), l \in image)
           /\ UNCHANGED <<attempted, paid>>
  <2> DEFINE x == IF Describes(d) /\ l \in image THEN Caption(d) ELSE Plain(d)
             pic == l \in image
  <2>1. x \in Content
    BY <1>1 DEF Retried, Caption, Plain, Content, Worded, Draft
  <2>2. pic \in BOOLEAN
    OBVIOUS
  <2>3. image' \in SUBSET Loop /\ UNCHANGED <<poll, attempted, lock, file, posts, paid>>
    BY <1>3 DEF Output, IInv, TypeOK
  <2>4. Finish(l, x, pic)
    BY <1>3
  <2> HIDE DEF x, pic
  <2> QED BY <1>1, <2>1, <2>2, <2>3, <2>4, FinishKeeps
<1> QED BY <1>2, <1>3 DEF Output

LEMMA RecoveredKeeps ==
    ASSUME IInv, NEW l \in Loop, NEW pic \in BOOLEAN, Recovered(l, pic) PROVE IInv'
<1> DEFINE x == IF pic THEN Caption(text[l]) ELSE text[l]
<1>1. stage[l] = "recover" /\ Finish(l, x, pic)
      /\ UNCHANGED <<poll, attempted, lock, file, posts, paid>>
  BY DEF Recovered
<1>2. x \in Content
  BY <1>1 DEF IInv, DraftInv, Describes, Caption, Content, Worded
<1>3. image' \in SUBSET Loop
  BY DEF Recovered, IInv, TypeOK
<1> HIDE DEF x
<1> QED BY <1>1, <1>2, <1>3, FinishKeeps

LEMMA NextInv == IInv /\ [Next]_vars => IInv'
<1> SUFFICES ASSUME IInv, [Next]_vars PROVE IInv'
  OBVIOUS
<1>1. CASE UNCHANGED vars
  <2>1. TypeOK'
    BY <1>1 DEF IInv, TypeOK, vars, deps, out
  <2>2. PaidInv' /\ PostInv' /\ DraftInv'
    BY <1>1 DEF IInv, PaidInv, PostInv, DraftInv, vars, deps, out
  <2> QED BY <2>1, <2>2 DEF IInv
<1>2. ASSUME NEW l \in Loop, Start(l) \/ CreatePoll(l) \/ GenerateImage(l) \/ Close(l)
      PROVE  IInv'
  BY <1>2, StartKeeps, CreatePollKeeps, GenerateImageKeeps, CloseKeeps
<1>3. ASSUME NEW l \in Loop, Progress(l) PROVE IInv'
  <2>1. CASE Generated(l) \/ RunFails(l)
    BY <2>1, GeneratedKeeps, RunFailsKeeps
  <2>2. CASE \E d \in Draft : Output(l, d)
    BY <2>2, OutputKeeps
  <2>3. CASE \E ok \in BOOLEAN :
                Recovered(l, ok) \/ Upload(l, ok) \/ UploadForNostr(l, ok) \/ PublishEvent(l, ok)
    BY <2>3, RecoveredKeeps, UploadKeeps, UploadForNostrKeeps, PublishEventKeeps
  <2>4. CASE \E reached, acked \in BOOLEAN : CreateNote(l, reached, acked)
    BY <2>4, CreateNoteKeeps
  <2> QED BY <1>3, <2>1, <2>2, <2>3, <2>4 DEF Progress
<1> QED BY <1>1, <1>2, <1>3 DEF Next

(* The inductive invariant of the post loops: run_auto() and its tools with   *)
(* both loops' publication keep it at every step.                            *)
THEOREM PostsInvariance == Spec => []IInv
BY InitInv, NextInv, PTL DEF Spec

-----------------------------------------------------------------------------
(* The properties *)

(* A run of run_auto() pays for at most one image.                           *)
THEOREM PaysOnce == Spec => []OneImagePaid
<1>1. IInv => OneImagePaid
  BY DEF IInv, PaidInv, OneImagePaid
<1> QED BY <1>1, PostsInvariance, PTL

(* What post_autonomous() publishes and run_auto() remembers has content.     *)
THEOREM PostsPresentable == Spec => []Presentable
<1>1. ASSUME IInv PROVE Presentable
  <2>1. ASSUME NEW l \in Loop, NEW p \in ToSet(posts[l])
        PROVE  /\ p.text \in Worded \/ (p.text = "blank" /\ p.file)
               /\ p.poll => p.text # "blank"
               /\ ~Dropped(l, p.text)
    <3>1. posts[l] \in Seq(Note(l))
      BY <1>1 DEF IInv, PostInv
    <3>2. p \in Note(l)
      BY <2>1, <3>1 DEF ToSet
    <3> QED BY <3>2 DEF Note, Content
  <2>2. ASSUME NEW p \in ToSet(auto)
        PROVE  p.text \in Worded \/ (p.text = "blank" /\ p.image /\ ~p.poll)
    <3>1. auto \in Seq(Kept)
      BY <1>1 DEF IInv, TypeOK
    <3>2. p \in Kept
      BY <2>2, <3>1 DEF ToSet
    <3> QED BY <3>2 DEF Kept, Content
  <2> QED BY <2>1, <2>2 DEF Presentable
<1> QED BY <1>1, PostsInvariance, PTL

(* A run makes at most one note, also when the answer to its POST is lost.    *)
THEOREM PostsOnce == Spec => []NotePostedOnce
<1>1. IInv => NotePostedOnce
  BY DEF IInv, PostInv, NotePostedOnce
<1> QED BY <1>1, PostsInvariance, PTL

-----------------------------------------------------------------------------
(* Conversational turns: entries                                              *)

(* An entry is a turn's automatic score or a tool call's, and never both.     *)
LEMMA EntryFacts ==
    /\ \A t \in Turn : Automatic(t) \in Entry /\ Automatic(t)[1] = t /\ Automatic(t)[2] = "auto"
    /\ \A t \in Turn : \A c \in Call : /\ <<t, c>> \in Entry /\ <<t, c>>[1] = t
                                     /\ <<t, c>>[2] = c /\ c # "auto"
    /\ \A e \in Entry : /\ e[1] \in Turn
                        /\ e[2] = "auto" => e = Automatic(e[1])
                        /\ e[2] # "auto" => e[2] \in Call /\ e = <<e[1], e[2]>>
    /\ \A t, u \in Turn : Automatic(t) = Automatic(u) => t = u
    /\ \A t, u \in Turn : \A c \in Call : Automatic(t) # <<u, c>>
BY TurnsAssumption DEF Entry, Automatic

(* One more entry adds what it is worth.                                      *)
LEMMA TotalAdds ==
    ASSUME NEW S, IsFiniteSet(S), NEW e, e \notin S
    PROVE  Total(S \cup {e}) = Total(S) + Worth(e)
<1> DEFINE T == S \cup {e}
           a == {x \in S : x[2] = "auto"}
           b == {x \in S : x[2] # "auto"}
           at == {x \in T : x[2] = "auto"}
           bt == {x \in T : x[2] # "auto"}
<1>1. /\ IsFiniteSet(a) /\ IsFiniteSet(b)
      /\ Cardinality(a) \in Nat /\ Cardinality(b) \in Nat
  <2>1. a \in SUBSET S /\ b \in SUBSET S
    OBVIOUS
  <2>2. IsFiniteSet(a) /\ IsFiniteSet(b)
    BY <2>1, FS_Subset
  <2>3. QED BY <2>2, FS_CardinalityType
<1>2. /\ Total(S) = Delta * Cardinality(a) + Amount * Cardinality(b)
      /\ Total(T) = Delta * Cardinality(at) + Amount * Cardinality(bt)
  BY DEF Total
<1>3. e \notin a /\ e \notin b
  OBVIOUS
<1>4. \A d \in Int : \A n \in Nat : d * (n + 1) = d * n + d /\ d * n \in Int
  OBVIOUS
<1>5. CASE e[2] = "auto"
  <2>1. at = a \cup {e} /\ bt = b
    BY <1>5
  <2> HIDE DEF a, b, at, bt
  <2>2. Cardinality(at) = Cardinality(a) + 1
    BY <1>1, <1>3, <2>1, FS_AddElement
  <2>3. Delta * Cardinality(at) = Delta * Cardinality(a) + Delta
    BY <1>1, <1>4, <2>2, TurnsAssumption
  <2>4. Delta * Cardinality(a) \in Int /\ Amount * Cardinality(b) \in Int /\ Delta \in Int
    BY <1>1, <1>4, TurnsAssumption
  <2>5. Worth(e) = Delta
    BY <1>5 DEF Worth
  <2>6. QED BY <1>2, <2>1, <2>3, <2>4, <2>5
<1>6. CASE e[2] # "auto"
  <2>1. at = a /\ bt = b \cup {e}
    BY <1>6
  <2> HIDE DEF a, b, at, bt
  <2>2. Cardinality(bt) = Cardinality(b) + 1
    BY <1>1, <1>3, <2>1, FS_AddElement
  <2>3. Amount * Cardinality(bt) = Amount * Cardinality(b) + Amount
    BY <1>1, <1>4, <2>2, TurnsAssumption
  <2>4. Delta * Cardinality(a) \in Int /\ Amount * Cardinality(b) \in Int /\ Amount \in Int
    BY <1>1, <1>4, TurnsAssumption
  <2>5. Worth(e) = Amount
    BY <1>6 DEF Worth
  <2>6. QED BY <1>2, <2>1, <2>3, <2>4, <2>5
<1>7. QED
  BY <1>5, <1>6

(* No window is opened and no turn begins to change the score automatically.  *)
LEMMA ClaimFrame ==
    ASSUME ClaimInv, windows' = windows,
           \A t \in Turn : credit'[Automatic(t)] # "none" <=> credit[Automatic(t)] # "none"
    PROVE  ClaimInv'
<1>1. Claimants' = Claimants
  BY DEF Claimants
<1>2. QED
  BY <1>1 DEF ClaimInv

(* Neither the changes in Redis nor what is under way there.                  *)
LEMMA EntryFrame ==
    ASSUME EntryInv, UNCHANGED <<applied, score, history, expired, credit>>
    PROVE  EntryInv'
BY DEF EntryInv, Total, Recorded

-----------------------------------------------------------------------------
(* Conversational turns: the invariant is inductive                           *)

LEMMA InitTurns == TurnsInit => TurnsIInv
<1> SUFFICES ASSUME TurnsInit PROVE TurnsIInv
  OBVIOUS
<1> USE DEF TurnsInit
<1>1. TurnsTypeOK
  <2>1. phase \in [Turn -> {"new", "recall", "model", "stopping", "settle", "retain",
                           "replied", "failed"}]
    OBVIOUS
  <2>2. scoring \in [Turn -> {"off", "exists", "classify", "claim", "credit", "ended"}]
    OBVIOUS
  <2>3. credit \in [Entry -> {"none", "apply", "record", "recorded", "lost"}]
    OBVIOUS
  <2>4. fresh \in [Entry -> Int] /\ score \in Int /\ board \in Int
    OBVIOUS
  <2>5. windows \in Nat /\ faults \in Nat
    OBVIOUS
  <2>6. cooldown \in BOOLEAN
    BY Zenon
  <2>7. QED BY <2>1, <2>2, <2>3, <2>4, <2>5, <2>6 DEF TurnsTypeOK
<1>2. IsFiniteSet({}) /\ Cardinality({}) = 0
  BY FS_EmptySet
<1>3. EntryInv
  <2>1. Total({}) = 0
    <3>1. {e \in {} : e[2] = "auto"} = {} /\ {e \in {} : e[2] # "auto"} = {}
      OBVIOUS
    <3>2. Delta * 0 = 0 /\ Amount * 0 = 0
      BY TurnsAssumption
    <3>3. QED BY <1>2, <3>1, <3>2 DEF Total
  <2>2. QED BY <1>2, <2>1 DEF EntryInv, Recorded
<1>4. ScorerInv
  BY EntryFacts DEF ScorerInv, Busy
<1>5. ClaimInv
  <2>1. Claimants = {}
    BY EntryFacts DEF Claimants
  <2>2. QED BY <1>2, <2>1 DEF ClaimInv
<1>6. TurnInv
  BY EntryFacts DEF TurnInv, Busy
<1>7. QED
  BY <1>1, <1>3, <1>4, <1>5, <1>6 DEF TurnsIInv

(* The key of the cooldown expires.                                           *)
LEMMA CooldownKeeps ==
    ASSUME TurnsIInv, CooldownEnds
    PROVE  TurnsIInv'
<1> USE DEF CooldownEnds, run, tools, redis, GoTo, Score, Fault, TurnsIInv
<1>1. TurnsTypeOK'
  BY EntryFacts DEF TurnsTypeOK
<1>2. EntryInv'
  BY EntryFrame DEF redis, tools
<1>3. ScorerInv'
  BY EntryFacts DEF TurnsTypeOK, ScorerInv, Busy, run, tools
<1>4. ClaimInv'
  BY EntryFacts, ClaimFrame DEF TurnsTypeOK, redis, tools
<1>5. TurnInv'
  BY EntryFacts DEF TurnsTypeOK, TurnInv, Busy, Scored, run, tools
<1>6. QED
  BY <1>1, <1>2, <1>3, <1>4, <1>5

(* The list of the history expires.                                           *)
LEMMA HistoryKeeps ==
    ASSUME TurnsIInv, HistoryEnds
    PROVE  TurnsIInv'
<1> USE DEF HistoryEnds, run, tools, redis, TurnsIInv
<1>1. TurnsTypeOK'
  BY DEF TurnsTypeOK, Recorded
<1>2. EntryInv'
  BY DEF EntryInv, Total, Recorded
<1>3. ScorerInv'
  BY EntryFacts DEF TurnsTypeOK, ScorerInv, Busy
<1>4. ClaimInv'
  BY EntryFacts, ClaimFrame DEF TurnsTypeOK
<1>5. TurnInv'
  BY EntryFacts DEF TurnsTypeOK, TurnInv, Busy, Scored
<1>6. QED
  BY <1>1, <1>2, <1>3, <1>4, <1>5

(* A turn begins.                                                             *)
LEMMA BeginKeeps ==
    ASSUME TurnsIInv, NEW t \in Turn, Begin(t)
    PROVE  TurnsIInv'
<1> USE DEF Begin, run, tools, redis, GoTo, Score, Fault, TurnsIInv
<1>1. TurnsTypeOK'
  BY EntryFacts DEF TurnsTypeOK
<1>2. EntryInv'
  BY EntryFrame DEF redis, tools
<1>3. ScorerInv'
  BY EntryFacts DEF TurnsTypeOK, ScorerInv, Busy, run, tools
<1>4. ClaimInv'
  BY EntryFacts, ClaimFrame DEF TurnsTypeOK, redis, tools
<1>5. TurnInv'
  BY EntryFacts DEF TurnsTypeOK, TurnInv, Busy, Scored, run, tools
<1>6. QED
  BY <1>1, <1>2, <1>3, <1>4, <1>5

(* It has recalled and starts its scoring task.                               *)
LEMMA RecallKeeps ==
    ASSUME TurnsIInv, NEW t \in Turn, Recall(t)
    PROVE  TurnsIInv'
<1> USE DEF Recall, run, tools, redis, GoTo, Score, Fault, TurnsIInv
<1>1. TurnsTypeOK'
  BY EntryFacts DEF TurnsTypeOK
<1>2. EntryInv'
  BY EntryFrame DEF redis, tools
<1>3. ScorerInv'
  BY EntryFacts DEF TurnsTypeOK, ScorerInv, Busy, run, tools
<1>4. ClaimInv'
  BY EntryFacts, ClaimFrame DEF TurnsTypeOK, redis, tools
<1>5. TurnInv'
  BY EntryFacts DEF TurnsTypeOK, TurnInv, Busy, Scored, run, tools
<1>6. QED
  BY <1>1, <1>2, <1>3, <1>4, <1>5

(* The model run succeeds.                                                    *)
LEMMA AnswersKeeps ==
    ASSUME TurnsIInv, NEW t \in Turn, Answers(t)
    PROVE  TurnsIInv'
<1> USE DEF Answers, run, tools, redis, GoTo, Score, Fault, TurnsIInv
<1>1. TurnsTypeOK'
  BY EntryFacts DEF TurnsTypeOK
<1>2. EntryInv'
  BY EntryFrame DEF redis, tools
<1>3. ScorerInv'
  BY EntryFacts DEF TurnsTypeOK, ScorerInv, Busy, run, tools
<1>4. ClaimInv'
  BY EntryFacts, ClaimFrame DEF TurnsTypeOK, redis, tools
<1>5. TurnInv'
  BY EntryFacts DEF TurnsTypeOK, TurnInv, Busy, Scored, run, tools
<1>6. QED
  BY <1>1, <1>2, <1>3, <1>4, <1>5

(* The model run fails.                                                       *)
LEMMA FailsKeeps ==
    ASSUME TurnsIInv, NEW t \in Turn, Fails(t)
    PROVE  TurnsIInv'
<1> USE DEF Fails, Stop, Forget, run, tools, redis, GoTo, Score, Fault, TurnsIInv
<1>1. TurnsTypeOK'
  BY EntryFacts DEF TurnsTypeOK
<1>2. EntryInv'
  BY EntryFacts DEF TurnsTypeOK, EntryInv, Total, Recorded, Busy
<1>3. ScorerInv'
  BY EntryFacts DEF TurnsTypeOK, ScorerInv, Busy, run, tools
<1>4. ClaimInv'
  <2>1. \A u \in Turn : credit'[Automatic(u)] = credit[Automatic(u)]
    BY EntryFacts, TurnsAssumption
  <2>2. QED BY <2>1, ClaimFrame
<1>5. TurnInv'
  BY EntryFacts DEF TurnsTypeOK, TurnInv, Busy, Scored, run, tools
<1>6. QED
  BY <1>1, <1>2, <1>3, <1>4, <1>5

(* The failed turn ends.                                                      *)
LEMMA StoppedKeeps ==
    ASSUME TurnsIInv, NEW t \in Turn, Stopped(t)
    PROVE  TurnsIInv'
<1> USE DEF Stopped, run, tools, redis, GoTo, Score, Fault, TurnsIInv
<1>1. TurnsTypeOK'
  BY EntryFacts DEF TurnsTypeOK
<1>2. EntryInv'
  BY EntryFrame DEF redis, tools
<1>3. ScorerInv'
  BY EntryFacts DEF TurnsTypeOK, ScorerInv, Busy, run, tools
<1>4. ClaimInv'
  BY EntryFacts, ClaimFrame DEF TurnsTypeOK, redis, tools
<1>5. TurnInv'
  BY EntryFacts DEF TurnsTypeOK, TurnInv, Busy, Scored, run, tools
<1>6. QED
  BY <1>1, <1>2, <1>3, <1>4, <1>5

(* The scoring task has ended.                                                *)
LEMMA SettledKeeps ==
    ASSUME TurnsIInv, NEW t \in Turn, Settled(t)
    PROVE  TurnsIInv'
<1> USE DEF Settled, run, tools, redis, GoTo, Score, Fault, TurnsIInv
<1>1. TurnsTypeOK'
  BY EntryFacts DEF TurnsTypeOK
<1>2. EntryInv'
  BY EntryFrame DEF redis, tools
<1>3. ScorerInv'
  BY EntryFacts DEF TurnsTypeOK, ScorerInv, Busy, run, tools
<1>4. ClaimInv'
  BY EntryFacts, ClaimFrame DEF TurnsTypeOK, redis, tools
<1>5. TurnInv'
  BY EntryFacts DEF TurnsTypeOK, TurnInv, Busy, Scored, run, tools
<1>6. QED
  BY <1>1, <1>2, <1>3, <1>4, <1>5

(* The exchange is retained, or not.                                          *)
LEMMA RetainKeeps ==
    ASSUME TurnsIInv, NEW t \in Turn, Retain(t)
    PROVE  TurnsIInv'
<1> USE DEF Retain, run, tools, redis, GoTo, Score, Fault, TurnsIInv
<1>1. TurnsTypeOK'
  BY EntryFacts DEF TurnsTypeOK
<1>2. EntryInv'
  BY EntryFrame DEF redis, tools
<1>3. ScorerInv'
  BY EntryFacts DEF TurnsTypeOK, ScorerInv, Busy, run, tools
<1>4. ClaimInv'
  BY EntryFacts, ClaimFrame DEF TurnsTypeOK, redis, tools
<1>5. TurnInv'
  BY EntryFacts DEF TurnsTypeOK, TurnInv, Busy, Scored, run, tools
<1>6. QED
  BY <1>1, <1>2, <1>3, <1>4, <1>5

(* The turn is cancelled.                                                     *)
LEMMA CancelKeeps ==
    ASSUME TurnsIInv, NEW t \in Turn, Cancel(t)
    PROVE  TurnsIInv'
<1> USE DEF Cancel, Stop, run, tools, redis, GoTo, Score, Fault, TurnsIInv
<1>1. TurnsTypeOK'
  BY EntryFacts DEF TurnsTypeOK
<1>2. EntryInv'
  BY EntryFrame DEF redis, tools
<1>3. ScorerInv'
  BY EntryFacts DEF TurnsTypeOK, ScorerInv, Busy, run, tools
<1>4. ClaimInv'
  BY EntryFacts, ClaimFrame DEF TurnsTypeOK, redis, tools
<1>5. TurnInv'
  BY EntryFacts DEF TurnsTypeOK, TurnInv, Busy, Scored, run, tools
<1>6. QED
  BY <1>1, <1>2, <1>3, <1>4, <1>5

(* The scoring task reads the key of the cooldown.                            *)
LEMMA ExistsKeeps ==
    ASSUME TurnsIInv, NEW t \in Turn, Exists(t)
    PROVE  TurnsIInv'
<1> USE DEF Exists, run, tools, redis, GoTo, Score, Fault, TurnsIInv
<1>1. TurnsTypeOK'
  BY EntryFacts DEF TurnsTypeOK
<1>2. EntryInv'
  BY EntryFrame DEF redis, tools
<1>3. ScorerInv'
  BY EntryFacts DEF TurnsTypeOK, ScorerInv, Busy, run, tools
<1>4. ClaimInv'
  BY EntryFacts, ClaimFrame DEF TurnsTypeOK, redis, tools
<1>5. TurnInv'
  BY EntryFacts DEF TurnsTypeOK, TurnInv, Busy, Scored, run, tools
<1>6. QED
  BY <1>1, <1>2, <1>3, <1>4, <1>5

(* It classifies the message.                                                 *)
LEMMA ClassifyKeeps ==
    ASSUME TurnsIInv, NEW t \in Turn, Classify(t)
    PROVE  TurnsIInv'
<1> USE DEF Classify, run, tools, redis, GoTo, Score, Fault, TurnsIInv
<1>1. TurnsTypeOK'
  BY EntryFacts DEF TurnsTypeOK
<1>2. EntryInv'
  BY EntryFrame DEF redis, tools
<1>3. ScorerInv'
  BY EntryFacts DEF TurnsTypeOK, ScorerInv, Busy, run, tools
<1>4. ClaimInv'
  BY EntryFacts, ClaimFrame DEF TurnsTypeOK, redis, tools
<1>5. TurnInv'
  BY EntryFacts DEF TurnsTypeOK, TurnInv, Busy, Scored, run, tools
<1>6. QED
  BY <1>1, <1>2, <1>3, <1>4, <1>5

(* Redis fails it.                                                            *)
LEMMA ScoringFailsKeeps ==
    ASSUME TurnsIInv, NEW t \in Turn, ScoringFails(t)
    PROVE  TurnsIInv'
<1> USE DEF ScoringFails, run, tools, redis, GoTo, Score, Fault, TurnsIInv
<1>1. TurnsTypeOK'
  BY EntryFacts DEF TurnsTypeOK
<1>2. EntryInv'
  BY EntryFrame DEF redis, tools
<1>3. ScorerInv'
  BY EntryFacts DEF TurnsTypeOK, ScorerInv, Busy, run, tools
<1>4. ClaimInv'
  BY EntryFacts, ClaimFrame DEF TurnsTypeOK, redis, tools
<1>5. TurnInv'
  BY EntryFacts DEF TurnsTypeOK, TurnInv, Busy, Scored, run, tools
<1>6. QED
  BY <1>1, <1>2, <1>3, <1>4, <1>5

(* It opens a window, or finds one open.                                      *)
LEMMA ClaimKeeps ==
    ASSUME TurnsIInv, NEW t \in Turn, Claim(t)
    PROVE  TurnsIInv'
<1> USE DEF Claim, run, tools, redis, GoTo, Score, Fault, TurnsIInv
<1>1. TurnsTypeOK'
  <2>1. CASE cooldown
    BY <2>1, EntryFacts DEF TurnsTypeOK
  <2>2. CASE ~cooldown
    BY <2>2, EntryFacts DEF TurnsTypeOK
  <2>3. QED BY <2>1, <2>2
<1>2. EntryInv'
  <2>1. CASE cooldown
    BY <2>1, EntryFacts DEF TurnsTypeOK, EntryInv, Total, Recorded, Busy, ScorerInv
  <2>2. CASE ~cooldown
    BY <2>2, EntryFacts DEF TurnsTypeOK, EntryInv, Total, Recorded, Busy, ScorerInv
  <2>3. QED BY <2>1, <2>2
<1>3. ScorerInv'
  BY EntryFacts DEF TurnsTypeOK, ScorerInv, Busy, run, tools
<1>4. ClaimInv'
  <2>1. CASE cooldown
    BY <2>1, EntryFacts, ClaimFrame
  <2>2. CASE ~cooldown
    <3>1. Claimants' = Claimants \cup {t} /\ t \notin Claimants
      BY <2>2, EntryFacts DEF TurnsTypeOK, ScorerInv, Claimants
    <3>2. IsFiniteSet(Claimants) /\ Cardinality(Claimants) <= windows /\ windows \in Nat
      BY DEF ClaimInv, TurnsTypeOK
    <3>3. Cardinality(Claimants) \in Nat
      BY <3>2, FS_CardinalityType
    <3>4. IsFiniteSet(Claimants') /\ Cardinality(Claimants') = Cardinality(Claimants) + 1
      BY <3>1, <3>2, FS_AddElement
    <3>5. windows' = windows + 1
      BY <2>2
    <3>6. QED BY <3>2, <3>3, <3>4, <3>5 DEF ClaimInv
  <2>3. QED BY <2>1, <2>2
<1>5. TurnInv'
  BY EntryFacts DEF TurnsTypeOK, TurnInv, Busy, Scored, run, tools
<1>6. QED
  BY <1>1, <1>2, <1>3, <1>4, <1>5

(* The cancelled task stops.                                                  *)
LEMMA UnwindKeeps ==
    ASSUME TurnsIInv, NEW t \in Turn, Unwind(t)
    PROVE  TurnsIInv'
<1> USE DEF Unwind, run, tools, redis, GoTo, Score, Fault, TurnsIInv
<1>1. TurnsTypeOK'
  BY EntryFacts DEF TurnsTypeOK
<1>2. EntryInv'
  BY EntryFacts DEF TurnsTypeOK, EntryInv, Total, Recorded, Busy
<1>3. ScorerInv'
  <2>1. scoring' = [scoring EXCEPT ![t] = "ended"] /\ phase' = phase
    OBVIOUS
  <2>2. ~Busy(Automatic(t))'
    BY EntryFacts DEF TurnsTypeOK, Busy
  <2>3. \A u \in Turn \ {t} : credit'[Automatic(u)] = credit[Automatic(u)]
    BY EntryFacts DEF TurnsTypeOK
  <2>4. phase[t] \notin {"new", "recall"}
    BY DEF ScorerInv, Scored
  <2>5. ASSUME NEW u \in Turn
        PROVE  /\ phase'[u] \in {"new", "recall"} => scoring'[u] = "off"
               /\ scoring'[u] \in {"off", "exists", "classify", "claim"}
                     => credit'[Automatic(u)] = "none"
               /\ Busy(Automatic(u))' => scoring'[u] = "credit"
    <3>1. CASE u = t
      BY <2>1, <2>2, <2>4, <3>1 DEF TurnsTypeOK
    <3>2. CASE u # t
      BY <2>1, <2>3, <3>2 DEF TurnsTypeOK, ScorerInv, Busy
    <3>3. QED BY <3>1, <3>2
  <2>6. QED BY <2>5 DEF ScorerInv
<1>4. ClaimInv'
  <2>1. \A u \in Turn : credit'[Automatic(u)] # "none" <=> credit[Automatic(u)] # "none"
    <3>1. CASE Busy(Automatic(t))
      BY <3>1, EntryFacts DEF TurnsTypeOK, Busy
    <3>2. CASE ~Busy(Automatic(t))
      BY <3>2
    <3>3. QED BY <3>1, <3>2
  <2>2. QED BY <2>1, ClaimFrame DEF redis
<1>5. TurnInv'
  BY EntryFacts DEF TurnsTypeOK, TurnInv, Busy, Scored, run, tools
<1>6. QED
  BY <1>1, <1>2, <1>3, <1>4, <1>5

(* The model calls the tool.                                                  *)
LEMMA AdjustKeeps ==
    ASSUME TurnsIInv, NEW t \in Turn, NEW c \in Call, Adjust(t, c)
    PROVE  TurnsIInv'
<1> USE DEF Adjust, run, tools, redis, GoTo, Score, Fault, TurnsIInv
<1>1. TurnsTypeOK'
  BY EntryFacts DEF TurnsTypeOK
<1>2. EntryInv'
  BY EntryFacts DEF TurnsTypeOK, EntryInv, Total, Recorded, Busy
<1>3. ScorerInv'
  BY EntryFacts DEF TurnsTypeOK, ScorerInv, Busy, run, tools
<1>4. ClaimInv'
  BY EntryFacts, ClaimFrame DEF TurnsTypeOK, redis, tools
<1>5. TurnInv'
  BY EntryFacts DEF TurnsTypeOK, TurnInv, Busy, Scored, run, tools
<1>6. QED
  BY <1>1, <1>2, <1>3, <1>4, <1>5

(* The score changes.                                                         *)
LEMMA IncrByKeeps ==
    ASSUME TurnsIInv, NEW e \in Entry, IncrBy(e)
    PROVE  TurnsIInv'
<1> USE DEF IncrBy, run, tools, redis, GoTo, Score, Fault, TurnsIInv
<1>1. TurnsTypeOK'
  <2>1. Worth(e) \in Int
    BY TurnsAssumption DEF Worth
  <2>2. QED BY <2>1 DEF TurnsTypeOK
<1>2. EntryInv'
  <2>1. e \notin applied /\ IsFiniteSet(applied)
    BY DEF EntryInv
  <2>2. Total(applied') = Total(applied) + Worth(e)
    BY <2>1, TotalAdds
  <2>3. IsFiniteSet(applied')
    BY <2>1, FS_AddElement
  <2>4. score' = Total(applied)'
    BY <2>2 DEF EntryInv, Total, Recorded
  <2>5. QED BY <2>3, <2>4 DEF TurnsTypeOK, EntryInv, Recorded
<1>3. ScorerInv'
  BY EntryFacts DEF TurnsTypeOK, ScorerInv, Busy, run, tools
<1>4. ClaimInv'
  BY EntryFacts, ClaimFrame DEF TurnsTypeOK, redis, tools
<1>5. TurnInv'
  BY EntryFacts DEF TurnsTypeOK, TurnInv, Busy, Scored, run, tools
<1>6. QED
  BY <1>1, <1>2, <1>3, <1>4, <1>5

(* History and leaderboard follow.                                            *)
LEMMA RecordKeeps ==
    ASSUME TurnsIInv, NEW e \in Entry, Record(e)
    PROVE  TurnsIInv'
<1> USE DEF Record, run, tools, redis, GoTo, Score, Fault, TurnsIInv
<1>1. TurnsTypeOK'
  BY EntryFacts DEF TurnsTypeOK
<1>2. EntryInv'
  BY EntryFacts DEF TurnsTypeOK, EntryInv, Total, Recorded, Busy
<1>3. ScorerInv'
  BY EntryFacts DEF TurnsTypeOK, ScorerInv, Busy, run, tools
<1>4. ClaimInv'
  BY EntryFacts, ClaimFrame DEF TurnsTypeOK, redis, tools
<1>5. TurnInv'
  BY EntryFacts DEF TurnsTypeOK, TurnInv, Busy, Scored, run, tools
<1>6. QED
  BY <1>1, <1>2, <1>3, <1>4, <1>5

(* Redis fails in between.                                                    *)
LEMMA CreditFailsKeeps ==
    ASSUME TurnsIInv, NEW e \in Entry, CreditFails(e)
    PROVE  TurnsIInv'
<1> USE DEF CreditFails, Busy, run, tools, redis, GoTo, Score, Fault, TurnsIInv
<1>1. TurnsTypeOK'
  BY EntryFacts DEF TurnsTypeOK
<1>2. EntryInv'
  BY EntryFacts DEF TurnsTypeOK, EntryInv, Total, Recorded, Busy
<1>3. ScorerInv'
  BY EntryFacts DEF TurnsTypeOK, ScorerInv, Busy, run, tools
<1>4. ClaimInv'
  BY EntryFacts, ClaimFrame DEF TurnsTypeOK, redis, tools
<1>5. TurnInv'
  BY EntryFacts DEF TurnsTypeOK, TurnInv, Busy, Scored, run, tools
<1>6. QED
  BY <1>1, <1>2, <1>3, <1>4, <1>5

(* Every step keeps the invariant.                                            *)
LEMMA NextTurns == TurnsIInv /\ [TurnsNext]_turnVars => TurnsIInv'
<1> SUFFICES ASSUME TurnsIInv, [TurnsNext]_turnVars PROVE TurnsIInv'
  OBVIOUS
<1>1. CASE UNCHANGED turnVars
  BY <1>1 DEF turnVars, run, tools, redis, TurnsIInv, TurnsTypeOK, EntryInv, Total, Recorded, ScorerInv,
              ClaimInv, Claimants, TurnInv, Busy, Scored
<1>2. CASE CooldownEnds \/ HistoryEnds
  BY <1>2, CooldownKeeps, HistoryKeeps
<1>3. ASSUME NEW e \in Entry, CreditFails(e) \/ IncrBy(e) \/ Record(e) PROVE TurnsIInv'
  BY <1>3, CreditFailsKeeps, IncrByKeeps, RecordKeeps
<1>4. ASSUME NEW t \in Turn, Begin(t) \/ Turns(t) \/ Fails(t) \/ Cancel(t) PROVE TurnsIInv'
  BY <1>4, BeginKeeps, RecallKeeps, AnswersKeeps, StoppedKeeps, SettledKeeps, RetainKeeps,
     FailsKeeps, CancelKeeps DEF Turns
<1>5. ASSUME NEW t \in Turn, Scorer(t) \/ ScoringFails(t) \/ Unwind(t) PROVE TurnsIInv'
  BY <1>3, <1>5, EntryFacts, ExistsKeeps, ClassifyKeeps, ClaimKeeps, ScoringFailsKeeps, UnwindKeeps
     DEF Scorer
<1>6. ASSUME NEW t \in Turn, NEW c \in Call, Adjust(t, c) \/ Manual(<<t, c>>) PROVE TurnsIInv'
  BY <1>3, <1>6, EntryFacts, AdjustKeeps DEF Manual
<1>7. QED
  BY <1>1, <1>2, <1>3, <1>4, <1>5, <1>6 DEF TurnsNext

(* The inductive invariant of run() and of what it starts holds, for any      *)
(* turns, tool calls and amounts.                                            *)
THEOREM TurnsInvariance == TurnsSpec => []TurnsIInv
<1>1. QED
  BY InitTurns, NextTurns, PTL DEF TurnsSpec

(* ScoredOncePerWindow: SET NX lets one of the runs that passed the check of  *)
(* _maybe_score_message() score in each window.                              *)
THEOREM ScoresOnce == TurnsSpec => []ScoredOncePerWindow
<1>1. TurnsIInv => ScoredOncePerWindow
  <2> SUFFICES ASSUME TurnsIInv PROVE ScoredOncePerWindow
    OBVIOUS
  <2> DEFINE scorers == {t \in Turn : Automatic(t) \in applied}
  <2>1. scorers \in SUBSET Claimants
    BY EntryFacts DEF TurnsIInv, EntryInv, Claimants
  <2>2. IsFiniteSet(Claimants) /\ Cardinality(Claimants) <= windows /\ windows \in Nat
    BY DEF TurnsIInv, ClaimInv, TurnsTypeOK
  <2> HIDE DEF scorers
  <2>3. IsFiniteSet(scorers) /\ Cardinality(scorers) <= Cardinality(Claimants)
    BY <2>1, <2>2, FS_Subset
  <2>4. Cardinality(scorers) \in Nat /\ Cardinality(Claimants) \in Nat
    BY <2>2, <2>3, FS_CardinalityType
  <2>5. Cardinality(scorers) <= windows
    BY <2>2, <2>3, <2>4
  <2>6. QED BY <2>5 DEF scorers, ScoredOncePerWindow
<1>2. QED
  BY <1>1, TurnsInvariance, PTL

(* ScoreAccounted: the score is the sum of what apply_social_credit() has     *)
(* applied; what the history does not show has expired with an earlier list,  *)
(* is under way or failed.                                                   *)
THEOREM AllAccounted == TurnsSpec => []ScoreAccounted
<1>1. TurnsIInv => ScoreAccounted
  BY DEF TurnsIInv, TurnsTypeOK, EntryInv, Recorded, ScoreAccounted
<1>2. QED
  BY <1>1, TurnsInvariance, PTL

(* Settlement: a reply of run() has waited for its scoring, its tools have    *)
(* ended, and only answers are retained.                                     *)
THEOREM SettlesAll == TurnsSpec => []Settlement
<1>1. TurnsIInv => Settlement
  <2> SUFFICES ASSUME TurnsIInv, NEW t \in Turn
               PROVE  /\ t \in retained => t \in answered
                      /\ t \in retained \/ phase[t] = "replied" =>
                           Scored(t) /\ \A x \in Call \cup {"auto"} : ~Busy(<<t, x>>)
    BY DEF Settlement
  <2>1. Scored(t) => ~Busy(<<t, "auto">>)
    BY DEF TurnsIInv, ScorerInv, Scored, Automatic
  <2>2. QED BY <2>1 DEF TurnsIInv, TurnInv
<1>2. QED
  BY <1>1, TurnsInvariance, PTL
=============================================================================
