---------------------------- MODULE AcpWriterProofs ----------------------------
(* Proofs about AcpWriter: the sentinel fits, and a sender that finished sent *)
(* every frame in order, for any connections, tasks and size of the queue.    *)
EXTENDS AcpWriter, TLAPS

-----------------------------------------------------------------------------
(* Queues *)

LEMMA AppendFacts ==
    ASSUME NEW s \in Seq(Nat), NEW x \in Nat
    PROVE  /\ Append(s, x) \in Seq(Nat) /\ Len(Append(s, x)) = Len(s) + 1 /\ Len(s) \in Nat
           /\ \A i \in 1 .. Len(s) : Append(s, x)[i] = s[i]
           /\ Append(s, x)[Len(s) + 1] = x
OBVIOUS

LEMMA TailFacts ==
    ASSUME NEW s \in Seq(Nat), s # <<>>
    PROVE  /\ Tail(s) \in Seq(Nat) /\ Len(Tail(s)) = Len(s) - 1 /\ Len(s) \in Nat \ {0}
           /\ Head(s) = s[1] /\ Head(s) \in Nat
           /\ \A i \in 1 .. Len(Tail(s)) : Tail(s)[i] = s[i + 1]
OBVIOUS

LEMMA EmptyFacts == <<>> \in Seq(Nat) /\ Len(<<>>) = 0
OBVIOUS

-----------------------------------------------------------------------------
(* The inductive invariant.  That of one connection:                         *)

Bound(c) == Len(pending[c]) <= Room(c)
Bridge(c) ==
    /\ sender[c] = "none" <=> ~Bridged(c)
    /\ ~Bridged(c) => pending[c] = <<>> /\ sent[c] = <<>> /\ written[c] = 0 /\ c \notin closed
Order(c) ==
    /\ \A i \in 1 .. Len(sent[c]) : sent[c][i] = i
    /\ sender[c] = "send" => sending[c] = Len(sent[c]) + 1
    /\ sender[c] = "finished" => c \in closed /\ Len(sent[c]) = written[c]
    /\ sender[c] \in {"none", "get", "send"} =>
          /\ Ahead(c) + Len(pending[c]) = IF c \in closed THEN written[c] + 1 ELSE written[c]
          /\ c \in closed => Len(pending[c]) > 0
          /\ \A i \in 1 .. Len(pending[c]) :
                pending[c][i] = IF c \in closed /\ i = Len(pending[c])
                                THEN Sentinel ELSE Ahead(c) + i

LEMMA PerConnection ==
    IInv <=> TypeOK /\ \A c \in Conn : Bound(c) /\ Bridge(c) /\ Order(c)
BY DEF IInv, BoundInv, BridgeInv, OrderInv, Bound, Bridge, Order

LEMMA PerConnectionNext ==
    ASSUME TypeOK', \A c \in Conn : (Bound(c) /\ Bridge(c) /\ Order(c))'
    PROVE  IInv'
BY DEF IInv, BoundInv, BridgeInv, OrderInv, Bound, Bridge, Order

(* A connection whose transport does not change keeps its part.               *)
LEMMA Untouched ==
    ASSUME IInv, NEW k \in Conn, Bridged(k)' = Bridged(k),
           /\ pending'[k] = pending[k] /\ sent'[k] = sent[k] /\ written'[k] = written[k]
           /\ sender'[k] = sender[k] /\ sending'[k] = sending[k] /\ (k \in closed') = (k \in closed)
    PROVE  (Bound(k) /\ Bridge(k) /\ Order(k))'
<1>1. Bound(k) /\ Bridge(k) /\ Order(k)
  BY PerConnection
<1>2. Bound(k)'
  BY <1>1 DEF Bound, Room
<1>3. Bridge(k)'
  BY <1>1 DEF Bridge
<1>4. Ahead(k)' = Ahead(k)
  BY DEF Ahead
<1>5. Order(k)'
  BY <1>1, <1>4 DEF Order
<1> QED BY <1>2, <1>3, <1>5

(* Steps of drain(), of the peer and of the handler leave the transport alone. *)
LEMMA FrameKeeps ==
    ASSUME IInv, TypeOK',
           UNCHANGED <<closed, pending, sent, written, sender, sending>>,
           \A k \in Conn : Bridged(k)' = Bridged(k)
    PROVE  IInv'
<1>1. \A k \in Conn : (Bound(k) /\ Bridge(k) /\ Order(k))'
  BY Untouched
<1> QED BY <1>1, PerConnectionNext

LEMMA InitInv == Init => IInv
<1> SUFFICES ASSUME Init PROVE IInv
  OBVIOUS
<1>1. TypeOK
  BY EmptyFacts DEF Init, TypeOK, Sentinel
<1>2. ASSUME NEW c \in Conn PROVE Bound(c) /\ Bridge(c) /\ Order(c)
  <2>1. /\ pending[c] = <<>> /\ sent[c] = <<>> /\ written[c] = 0 /\ c \notin closed
        /\ sender[c] = "none" /\ phase[c] = "new"
    BY DEF Init
  <2>2. Bound(c)
    BY <2>1, EmptyFacts, WriterAssumption DEF Bound, Room
  <2>3. Bridge(c)
    BY <2>1 DEF Bridge, Bridged
  <2>4. Order(c)
    BY <2>1, EmptyFacts DEF Order, Ahead
  <2> QED BY <2>2, <2>3, <2>4
<1> QED BY <1>1, <1>2, PerConnection

-----------------------------------------------------------------------------
(* The transport *)

(* close() puts the sentinel behind a backlog that had left its slot free.    *)
LEMMA ClosingKeeps ==
    ASSUME IInv, NEW c \in Conn, Bridged(c), c \notin closed, Closes(c),
           UNCHANGED <<written, sender, sending, sent>>,
           phase' \in [Conn -> {"new", "rejected", "auth", "serving", "closing", "aclose",
                                "wsclose", "gone"}],
           \A k \in Conn : Bridged(k)' = Bridged(k)
    PROVE  IInv'
<1>1. TypeOK /\ Bound(c) /\ Bridge(c) /\ Order(c)
  BY PerConnection
<1>2. /\ closed' = closed \cup {c} /\ pending' = [pending EXCEPT ![c] = Append(@, Sentinel)]
      /\ Sentinel \in Nat
  BY DEF Closes, Sentinel
<1>3. /\ pending[c] \in Seq(Nat) /\ pending'[c] = Append(pending[c], Sentinel)
      /\ \A k \in Conn \ {c} : pending'[k] = pending[k]
  BY <1>1, <1>2 DEF TypeOK
<1>4. /\ pending'[c] \in Seq(Nat) /\ Len(pending'[c]) = Len(pending[c]) + 1
      /\ Len(pending[c]) \in Nat
      /\ \A i \in 1 .. Len(pending[c]) : pending'[c][i] = pending[c][i]
      /\ pending'[c][Len(pending[c]) + 1] = Sentinel
  BY <1>2, <1>3, AppendFacts
<1>5. TypeOK'
  BY <1>1, <1>2, <1>4 DEF TypeOK
<1>6. Bound(c)'
  BY <1>1, <1>2, <1>4, WriterAssumption DEF Bound, Room
<1>7. Bridge(c)'
  BY <1>1 DEF Bridge
<1>8. Ahead(c)' = Ahead(c) /\ Ahead(c) \in Nat
  BY <1>1, AppendFacts DEF Ahead, TypeOK
<1>9. Order(c)'
  <2>1. sender[c] # "finished"
    BY <1>1 DEF Order
  <2>2. ASSUME sender[c] \in {"none", "get", "send"}, NEW i \in 1 .. Len(pending'[c])
        PROVE  pending'[c][i] = IF i = Len(pending'[c]) THEN Sentinel ELSE Ahead(c) + i
    <3>1. CASE i = Len(pending'[c])
      BY <3>1, <1>4
    <3>2. CASE i # Len(pending'[c])
      <4>1. i \in 1 .. Len(pending[c])
        BY <3>2, <1>4
      <4>2. pending[c][i] = Ahead(c) + i
        BY <4>1, <2>2, <1>1 DEF Order
      <4> QED BY <3>2, <4>1, <4>2, <1>4
    <3> QED BY <3>1, <3>2
  <2>3. sender[c] \in {"none", "get", "send"} => Ahead(c) + Len(pending'[c]) = written[c] + 1
    <3>1. written[c] \in Nat
      BY <1>1 DEF TypeOK
    <3> QED BY <3>1, <1>1, <1>4, <1>8 DEF Order
  <2>4. c \in closed' /\ Len(pending'[c]) > 0
    BY <1>2, <1>4
  <2>5. \A i \in 1 .. Len(sent[c]) : sent[c][i] = i
    BY <1>1 DEF Order
  <2>6. sender[c] = "send" => sending[c] = Len(sent[c]) + 1
    BY <1>1 DEF Order
  <2> QED BY <1>8, <2>1, <2>2, <2>3, <2>4, <2>5, <2>6 DEF Order
<1>10. \A k \in Conn \ {c} : (Bound(k) /\ Bridge(k) /\ Order(k))'
  BY <1>2, <1>3, Untouched
<1> QED BY <1>5, <1>6, <1>7, <1>9, <1>10, PerConnectionNext

LEMMA AbortKeeps == ASSUME IInv, NEW c \in Conn, Abort(c) PROVE IInv'
<1>1. Bridged(c) /\ c \notin closed /\ Closes(c) /\ UNCHANGED <<phase, written, sender, sending, sent>>
  BY DEF Abort, Failure
<1>2. /\ phase' \in [Conn -> {"new", "rejected", "auth", "serving", "closing", "aclose",
                              "wsclose", "gone"}]
      /\ \A k \in Conn : Bridged(k)' = Bridged(k)
  BY <1>1 DEF IInv, TypeOK, Bridged
<1> QED BY <1>1, <1>2, ClosingKeeps

LEMMA WriteKeeps ==
    ASSUME IInv, NEW c \in Conn, NEW w \in Task, NEW long \in BOOLEAN, Write(c, w, long)
    PROVE  IInv'
<1>1. TypeOK /\ Bound(c) /\ Bridge(c) /\ Order(c)
  BY PerConnection
<1>2. Bridged(c) /\ c \notin closed /\ UNCHANGED <<phase, sender, sending, sent>>
  BY DEF Write
<1>3. /\ phase' \in [Conn -> {"new", "rejected", "auth", "serving", "closing", "aclose",
                              "wsclose", "gone"}]
      /\ \A k \in Conn : Bridged(k)' = Bridged(k)
  BY <1>1, <1>2 DEF TypeOK, Bridged
<1>4. CASE long \/ Full(c)
  <2>1. Closes(c) /\ UNCHANGED written
    BY <1>4 DEF Write, Failure
  <2> QED BY <1>2, <1>3, <2>1, ClosingKeeps
<1>5. CASE ~(long \/ Full(c))
  <2> DEFINE n == written[c] + 1
  <2>1. /\ written' = [written EXCEPT ![c] = @ + 1] /\ closed' = closed
        /\ pending' = [pending EXCEPT ![c] = Append(@, written'[c])]
    BY <1>5 DEF Write
  <2>2. /\ written[c] \in Nat /\ written'[c] = n /\ n \in Nat
        /\ pending[c] \in Seq(Nat) /\ pending'[c] = Append(pending[c], n)
        /\ \A k \in Conn \ {c} : pending'[k] = pending[k] /\ written'[k] = written[k]
    BY <1>1, <2>1 DEF TypeOK
  <2>3. /\ pending'[c] \in Seq(Nat) /\ Len(pending'[c]) = Len(pending[c]) + 1
        /\ Len(pending[c]) \in Nat
        /\ \A i \in 1 .. Len(pending[c]) : pending'[c][i] = pending[c][i]
        /\ pending'[c][Len(pending[c]) + 1] = n
    BY <2>2, AppendFacts
  <2>4. TypeOK'
    <3>1. written' \in [Conn -> Nat]
      BY <1>1, <2>1, <2>2 DEF TypeOK
    <3>2. pending' \in [Conn -> Seq(Nat)]
      BY <1>1, <2>1, <2>2, <2>3 DEF TypeOK
    <3> QED BY <1>1, <1>2, <2>1, <3>1, <3>2 DEF TypeOK
  <2>5. Bound(c)'
    <3>1. Len(pending[c]) < MaxQueue
      BY <1>5, <2>3, WriterAssumption DEF Full
    <3> QED BY <1>2, <2>1, <2>3, <3>1, WriterAssumption DEF Bound, Room
  <2>6. Bridge(c)'
    BY <1>1, <1>2, <1>3 DEF Bridge
  <2>7. Ahead(c)' = Ahead(c) /\ Ahead(c) \in Nat
    BY <1>1, <1>2, AppendFacts DEF Ahead, TypeOK
  <2>8. ASSUME sender[c] \in {"none", "get", "send"}
        PROVE  /\ Ahead(c) + Len(pending'[c]) = n
               /\ \A i \in 1 .. Len(pending'[c]) : pending'[c][i] = Ahead(c) + i
    <3>1. /\ Ahead(c) + Len(pending[c]) = written[c]
          /\ \A i \in 1 .. Len(pending[c]) : pending[c][i] = Ahead(c) + i
      BY <2>8, <1>1, <1>2 DEF Order
    <3>2. Ahead(c) + Len(pending'[c]) = n
      BY <3>1, <2>2, <2>3, <2>7
    <3>3. ASSUME NEW i \in 1 .. Len(pending'[c]) PROVE pending'[c][i] = Ahead(c) + i
      <4>1. CASE i = Len(pending'[c])
        BY <4>1, <2>3, <3>2
      <4>2. CASE i # Len(pending'[c])
        BY <4>2, <2>3, <3>1
      <4> QED BY <4>1, <4>2
    <3> QED BY <3>2, <3>3
  <2>9. Order(c)'
    BY <1>1, <1>2, <2>1, <2>2, <2>7, <2>8 DEF Order
  <2>10. \A k \in Conn \ {c} : (Bound(k) /\ Bridge(k) /\ Order(k))'
    BY <1>2, <1>3, <2>1, <2>2, Untouched
  <2> QED BY <2>4, <2>5, <2>6, <2>9, <2>10, PerConnectionNext
<1> QED BY <1>4, <1>5

LEMMA TakeKeeps == ASSUME IInv, NEW c \in Conn, Take(c) PROVE IInv'
<1>1. TypeOK /\ Bound(c) /\ Bridge(c) /\ Order(c)
  BY PerConnection
<1> DEFINE h == Head(pending[c])
           s == IF h = Sentinel THEN "finished" ELSE "send"
<1>2. /\ sender[c] = "get" /\ pending[c] # <<>>
      /\ pending' = [pending EXCEPT ![c] = Tail(@)] /\ sending' = [sending EXCEPT ![c] = h]
      /\ sender' = [sender EXCEPT ![c] = s]
      /\ UNCHANGED <<phase, written, sent, closed>>
  BY DEF Take, state
<1>3. /\ pending[c] \in Seq(Nat) /\ pending'[c] = Tail(pending[c])
      /\ sender'[c] = s /\ sending'[c] = h
      /\ \A k \in Conn \ {c} : /\ pending'[k] = pending[k] /\ sender'[k] = sender[k]
                               /\ sending'[k] = sending[k]
  BY <1>1, <1>2 DEF TypeOK
<1>4. /\ pending'[c] \in Seq(Nat) /\ Len(pending'[c]) = Len(pending[c]) - 1
      /\ Len(pending[c]) \in Nat \ {0} /\ h = pending[c][1] /\ h \in Nat
      /\ \A i \in 1 .. Len(pending'[c]) : pending'[c][i] = pending[c][i + 1]
  BY <1>2, <1>3, TailFacts
<1>5. s \in {"finished", "send"}
  OBVIOUS
<1>6. TypeOK'
  <2>1. pending' \in [Conn -> Seq(Nat)]
    BY <1>1, <1>2, <1>3, <1>4 DEF TypeOK
  <2>2. sender' \in [Conn -> {"none", "get", "send", "finished", "lost", "cut"}]
    BY <1>1, <1>2, <1>5 DEF TypeOK
  <2>3. sending' \in [Conn -> Nat]
    BY <1>1, <1>2, <1>4 DEF TypeOK
  <2> QED BY <1>1, <1>2, <2>1, <2>2, <2>3 DEF TypeOK
<1>7. Bound(c)'
  <2>1. Room(c)' = Room(c) /\ Room(c) \in Nat
    BY <1>2, WriterAssumption DEF Room
  <2> QED BY <1>1, <1>4, <2>1 DEF Bound
<1>8. \A k \in Conn : Bridged(k)' = Bridged(k)
  BY <1>2 DEF Bridged
<1>9. Bridge(c)'
  BY <1>1, <1>2, <1>3, <1>5, <1>8 DEF Bridge
<1>10. /\ Ahead(c) = Len(sent[c]) /\ Len(sent[c]) \in Nat /\ written[c] \in Nat
       /\ Ahead(c) + Len(pending[c]) = IF c \in closed THEN written[c] + 1 ELSE written[c]
       /\ \A i \in 1 .. Len(pending[c]) :
             pending[c][i] = IF c \in closed /\ i = Len(pending[c]) THEN Sentinel ELSE Ahead(c) + i
  BY <1>1, <1>2, AppendFacts DEF Ahead, Order, TypeOK
<1>11. \A k \in Conn \ {c} : (Bound(k) /\ Bridge(k) /\ Order(k))'
  BY <1>2, <1>3, <1>8, Untouched
<1>12. Ahead(c) \in Nat /\ 1 \in 1 .. Len(pending[c])
  BY <1>4, <1>10
<1>13. CASE h = Sentinel
  <2>1. c \in closed /\ Len(pending[c]) = 1
    <3>1. CASE c \in closed
      <4>1. Ahead(c) + 1 # 0
        BY <1>12
      <4>2. pending[c][1] = IF 1 = Len(pending[c]) THEN Sentinel ELSE Ahead(c) + 1
        BY <1>10, <1>12, <3>1
      <4> QED BY <1>4, <1>13, <3>1, <4>1, <4>2 DEF Sentinel
    <3>2. CASE c \notin closed
      BY <1>4, <1>10, <1>12, <1>13, <3>2 DEF Sentinel
    <3> QED BY <3>1, <3>2
  <2>2. Len(sent[c]) = written[c]
    BY <1>10, <2>1
  <2>3. sender'[c] = "finished"
    BY <1>3, <1>13
  <2>4. Order(c)'
    BY <1>1, <1>2, <2>1, <2>2, <2>3 DEF Order
  <2> QED BY <1>6, <1>7, <1>9, <1>11, <2>4, PerConnectionNext
<1>14. CASE h # Sentinel
  <2>1. ~(c \in closed /\ Len(pending[c]) = 1) /\ h = Ahead(c) + 1
    <3>1. CASE c \in closed
      <4>1. Len(pending[c]) # 1
        BY <1>4, <1>10, <1>12, <1>14, <3>1
      <4> QED BY <1>4, <1>10, <1>12, <3>1, <4>1
    <3>2. CASE c \notin closed
      BY <1>4, <1>10, <1>12, <3>2
    <3> QED BY <3>1, <3>2
  <2>2. sender'[c] = "send" /\ sending'[c] = Ahead(c) + 1 /\ Ahead(c)' = Ahead(c) + 1
    BY <1>2, <1>3, <1>10, <1>14, <2>1 DEF Ahead
  <2>3. c \in closed => Len(pending'[c]) > 0
    <3>1. ASSUME c \in closed PROVE Len(pending[c]) # 1
      BY <2>1, <3>1
    <3> DEFINE n == Len(pending[c])
               r == Len(pending'[c])
    <3>2. n \in Nat \ {0} /\ r = n - 1
      BY <1>4
    <3> HIDE DEF n, r
    <3>3. n # 1 => r > 0
      BY <3>2
    <3> QED BY <3>1, <3>3 DEF n, r
  <2> DEFINE m == IF c \in closed THEN written[c] + 1 ELSE written[c]
  <2>4. Ahead(c)' + Len(pending'[c]) = m
    <3>1. Ahead(c) + Len(pending[c]) = m
      BY <1>10
    <3>2. m \in Nat
      BY <1>10
    <3> HIDE DEF m
    <3> QED BY <1>4, <1>12, <2>2, <3>1, <3>2
  <2>5. ASSUME NEW i \in 1 .. Len(pending'[c])
        PROVE  pending'[c][i] = IF c \in closed /\ i = Len(pending'[c])
                                THEN Sentinel ELSE Ahead(c)' + i
    <3>1. i + 1 \in 1 .. Len(pending[c]) /\ pending'[c][i] = pending[c][i + 1]
      BY <1>4
    <3>2. i = Len(pending'[c]) <=> i + 1 = Len(pending[c])
      BY <1>4
    <3>3. Ahead(c)' + i = Ahead(c) + (i + 1)
      BY <1>4, <1>12, <2>2
    <3>4. pending[c][i + 1] = IF c \in closed /\ i + 1 = Len(pending[c])
                              THEN Sentinel ELSE Ahead(c) + (i + 1)
      BY <1>10, <3>1
    <3> QED BY <3>1, <3>2, <3>3, <3>4
  <2>6. Order(c)'
    <3>1. \A i \in 1 .. Len(sent'[c]) : sent'[c][i] = i
      BY <1>1, <1>2 DEF Order
    <3>2. sending'[c] = Len(sent'[c]) + 1
      BY <1>2, <1>10, <2>2
    <3> QED BY <1>2, <2>2, <2>3, <2>4, <2>5, <3>1, <3>2 DEF Order
  <2> QED BY <1>6, <1>7, <1>9, <1>11, <2>6, PerConnectionNext
<1> QED BY <1>13, <1>14

(* A frame sent is the next one; a lost sender drops out of the order.        *)
LEMMA SendKeeps == ASSUME IInv, NEW c \in Conn, Send(c) PROVE IInv'
<1>1. TypeOK /\ Bound(c) /\ Bridge(c) /\ Order(c)
  BY PerConnection
<1>2. sender[c] = "send" /\ UNCHANGED <<phase, pending, written, sending, closed>>
  BY DEF Send, queue, state
<1>3. \A k \in Conn : Bridged(k)' = Bridged(k)
  BY <1>2 DEF Bridged
<1>4. /\ sending[c] = Len(sent[c]) + 1 /\ Len(sent[c]) \in Nat /\ sent[c] \in Seq(Nat)
      /\ Ahead(c) = Len(sent[c]) + 1 /\ sending[c] \in Nat
  BY <1>1, <1>2, AppendFacts DEF Order, Ahead, TypeOK
<1>5. Bound(c)'
  BY <1>1, <1>2 DEF Bound, Room
<1>6. CASE /\ sent' = [sent EXCEPT ![c] = Append(@, sending[c])]
           /\ sender' = [sender EXCEPT ![c] = "get"]
  <2>1. /\ sent'[c] = Append(sent[c], sending[c]) /\ sender'[c] = "get"
        /\ \A k \in Conn \ {c} : sent'[k] = sent[k] /\ sender'[k] = sender[k]
    BY <1>1, <1>6 DEF TypeOK
  <2>2. /\ sent'[c] \in Seq(Nat) /\ Len(sent'[c]) = Len(sent[c]) + 1
        /\ \A i \in 1 .. Len(sent[c]) : sent'[c][i] = sent[c][i]
        /\ sent'[c][Len(sent[c]) + 1] = Len(sent[c]) + 1
    BY <1>4, <2>1, AppendFacts
  <2>3. TypeOK'
    <3>1. sent' \in [Conn -> Seq(Nat)]
      BY <1>1, <1>6, <2>1, <2>2 DEF TypeOK
    <3>2. sender' \in [Conn -> {"none", "get", "send", "finished", "lost", "cut"}]
      BY <1>1, <1>6 DEF TypeOK
    <3> QED BY <1>1, <1>2, <3>1, <3>2 DEF TypeOK
  <2>4. Bridge(c)'
    BY <1>1, <1>2, <1>3, <2>1 DEF Bridge
  <2>5. Ahead(c)' = Ahead(c)
    BY <1>4, <2>1, <2>2 DEF Ahead
  <2>6. ASSUME NEW i \in 1 .. Len(sent'[c]) PROVE sent'[c][i] = i
    <3>1. CASE i = Len(sent[c]) + 1
      BY <3>1, <2>2
    <3>2. CASE i # Len(sent[c]) + 1
      <4>1. i \in 1 .. Len(sent[c])
        BY <1>4, <2>2, <3>2
      <4> QED BY <1>1, <2>2, <4>1 DEF Order
    <3> QED BY <3>1, <3>2
  <2>7. Order(c)'
    BY <1>1, <1>2, <2>1, <2>5, <2>6 DEF Order
  <2>8. \A k \in Conn \ {c} : (Bound(k) /\ Bridge(k) /\ Order(k))'
    BY <1>2, <1>3, <2>1, Untouched
  <2> QED BY <1>5, <2>3, <2>4, <2>7, <2>8, PerConnectionNext
<1>7. CASE sender' = [sender EXCEPT ![c] = "lost"] /\ UNCHANGED sent
  <2>1. sender'[c] = "lost" /\ \A k \in Conn \ {c} : sender'[k] = sender[k]
    BY <1>1, <1>7 DEF TypeOK
  <2>2. TypeOK'
    BY <1>1, <1>2, <1>7 DEF TypeOK
  <2>3. Bridge(c)'
    BY <1>1, <1>2, <1>3, <1>7, <2>1 DEF Bridge
  <2>4. Order(c)'
    BY <1>1, <1>2, <1>7, <2>1 DEF Order
  <2>5. \A k \in Conn \ {c} : (Bound(k) /\ Bridge(k) /\ Order(k))'
    BY <1>2, <1>3, <1>7, <2>1, Untouched
  <2> QED BY <1>5, <2>2, <2>3, <2>4, <2>5, PerConnectionNext
<1> QED BY <1>6, <1>7 DEF Send

-----------------------------------------------------------------------------
(* The handler *)

(* The bridge starts with an empty queue and a sender that waits for it.      *)
LEMMA AuthenticatedKeeps == ASSUME IInv, NEW c \in Conn, Authenticated(c) PROVE IInv'
<1>1. TypeOK /\ Bound(c) /\ Bridge(c) /\ Order(c)
  BY PerConnection
<1>2. /\ phase[c] = "auth" /\ phase' = [phase EXCEPT ![c] = "serving"]
      /\ sender' = [sender EXCEPT ![c] = "get"]
      /\ UNCHANGED <<pending, written, sending, sent, closed>>
  BY DEF Authenticated, To, queue, state
<1>3. /\ phase'[c] = "serving" /\ sender'[c] = "get" /\ Bridged(c)' /\ ~Bridged(c)
      /\ \A k \in Conn \ {c} : sender'[k] = sender[k] /\ Bridged(k)' = Bridged(k)
  BY <1>1, <1>2 DEF TypeOK, Bridged
<1>4. TypeOK'
  BY <1>1, <1>2 DEF TypeOK
<1>5. sender[c] = "none"
  BY <1>1, <1>3 DEF Bridge
<1>6. Bound(c)' /\ Bridge(c)'
  BY <1>1, <1>2, <1>3 DEF Bound, Room, Bridge
<1>7. Ahead(c)' = Ahead(c)
  BY <1>2, <1>3, <1>5 DEF Ahead
<1>8. Order(c)'
  BY <1>1, <1>2, <1>3, <1>5, <1>7 DEF Order
<1>9. \A k \in Conn \ {c} : (Bound(k) /\ Bridge(k) /\ Order(k))'
  BY <1>2, <1>3, Untouched
<1> QED BY <1>4, <1>6, <1>8, <1>9, PerConnectionNext

(* A sender that is cut has no order to keep any more.                       *)
LEMMA FlushedKeeps == ASSUME IInv, NEW c \in Conn, Flushed(c) PROVE IInv'
<1>1. TypeOK /\ Bound(c) /\ Bridge(c) /\ Order(c)
  BY PerConnection
<1> DEFINE s == IF sender[c] \in {"finished", "lost"} THEN sender[c] ELSE "cut"
<1>2. /\ phase[c] = "aclose" /\ phase' = [phase EXCEPT ![c] = "wsclose"]
      /\ sender' = [sender EXCEPT ![c] = s]
      /\ UNCHANGED <<pending, written, sending, sent, closed>>
  BY DEF Flushed, To, queue, state
<1>3. /\ sender'[c] = s /\ \A k \in Conn \ {c} : sender'[k] = sender[k]
      /\ Bridged(c) /\ \A k \in Conn : Bridged(k)' = Bridged(k)
  BY <1>1, <1>2 DEF TypeOK, Bridged
<1>4. s \in {"finished", "lost", "cut"} /\ (s = "finished" => sender[c] = "finished")
  OBVIOUS
<1>5. TypeOK'
  <2>1. sender' \in [Conn -> {"none", "get", "send", "finished", "lost", "cut"}]
    BY <1>1, <1>2, <1>4 DEF TypeOK
  <2> QED BY <1>1, <1>2, <2>1 DEF TypeOK
<1>6. Bound(c)' /\ Bridge(c)'
  BY <1>1, <1>2, <1>3, <1>4 DEF Bound, Room, Bridge
<1>7. Order(c)'
  BY <1>1, <1>2, <1>3, <1>4 DEF Order
<1>8. \A k \in Conn \ {c} : (Bound(k) /\ Bridge(k) /\ Order(k))'
  BY <1>2, <1>3, Untouched
<1> QED BY <1>5, <1>6, <1>7, <1>8, PerConnectionNext

LEMMA AcloseKeeps == ASSUME IInv, NEW c \in Conn, Aclose(c) PROVE IInv'
<1>1. TypeOK
  BY DEF IInv
<1>2. /\ phase[c] = "closing" /\ phase' = [phase EXCEPT ![c] = "aclose"]
      /\ UNCHANGED <<written, sender, sending, sent>>
  BY DEF Aclose, To, out
<1>3. /\ Bridged(c) /\ \A k \in Conn : Bridged(k)' = Bridged(k)
      /\ phase' \in [Conn -> {"new", "rejected", "auth", "serving", "closing", "aclose",
                              "wsclose", "gone"}]
  BY <1>1, <1>2 DEF TypeOK, Bridged
<1>4. CASE c \in closed
  <2>1. UNCHANGED <<closed, pending>>
    BY <1>4 DEF Aclose, queue
  <2>2. TypeOK'
    BY <1>1, <1>2, <1>3, <2>1 DEF TypeOK
  <2> QED BY <1>2, <1>3, <2>1, <2>2, FrameKeeps
<1>5. CASE c \notin closed
  <2>1. Closes(c)
    BY <1>5 DEF Aclose
  <2> QED BY <1>2, <1>3, <1>5, <2>1, ClosingKeeps
<1> QED BY <1>4, <1>5

(* A handler that ends takes its transport with it.                          *)
LEMMA ForgetKeeps ==
    ASSUME IInv, NEW c \in Conn, phase' = [phase EXCEPT ![c] = "gone"], Forget(c)
    PROVE  IInv'
<1>1. TypeOK
  BY DEF IInv
<1>2. /\ written' = [written EXCEPT ![c] = 0] /\ pending' = [pending EXCEPT ![c] = <<>>]
      /\ sender' = [sender EXCEPT ![c] = "none"] /\ sending' = [sending EXCEPT ![c] = 0]
      /\ sent' = [sent EXCEPT ![c] = <<>>] /\ closed' = closed \ {c}
  BY DEF Forget, Sentinel
<1>3. TypeOK'
  <2>1. written' \in [Conn -> Nat] /\ sending' \in [Conn -> Nat]
    BY <1>1, <1>2 DEF TypeOK
  <2>2. pending' \in [Conn -> Seq(Nat)] /\ sent' \in [Conn -> Seq(Nat)]
    BY <1>1, <1>2, EmptyFacts DEF TypeOK
  <2>3. /\ sender' \in [Conn -> {"none", "get", "send", "finished", "lost", "cut"}]
        /\ closed' \subseteq Conn
        /\ phase' \in [Conn -> {"new", "rejected", "auth", "serving", "closing", "aclose",
                                "wsclose", "gone"}]
    BY <1>1, <1>2 DEF TypeOK
  <2> QED BY <2>1, <2>2, <2>3 DEF TypeOK
<1>4. /\ pending'[c] = <<>> /\ sent'[c] = <<>> /\ written'[c] = 0 /\ c \notin closed'
      /\ sender'[c] = "none" /\ phase'[c] = "gone"
  BY <1>1, <1>2 DEF TypeOK
<1>5. Bound(c)'
  BY <1>4, EmptyFacts, WriterAssumption DEF Bound, Room
<1>6. Bridge(c)'
  BY <1>4 DEF Bridge, Bridged
<1>7. Order(c)'
  BY <1>4, EmptyFacts DEF Order, Ahead
<1>8. \A k \in Conn \ {c} : (Bound(k) /\ Bridge(k) /\ Order(k))'
  <2>1. \A k \in Conn \ {c} :
           /\ pending'[k] = pending[k] /\ sent'[k] = sent[k] /\ written'[k] = written[k]
           /\ sender'[k] = sender[k] /\ sending'[k] = sending[k] /\ phase'[k] = phase[k]
           /\ (k \in closed') = (k \in closed)
    BY <1>1, <1>2 DEF TypeOK
  <2>2. \A k \in Conn \ {c} : Bridged(k)' = Bridged(k)
    BY <2>1 DEF Bridged
  <2> QED BY <2>1, <2>2, Untouched
<1> QED BY <1>3, <1>5, <1>6, <1>7, <1>8, PerConnectionNext

(* Steps that only move the handler, tasks or the WebSocket.                  *)
LEMMA OutsideKeeps ==
    ASSUME IInv, UNCHANGED <<closed, pending, sent, written, sender, sending>>,
           NEW c \in Conn, NEW p, phase' = [phase EXCEPT ![c] = p],
           \/ /\ phase[c] \in {"new", "auth"} /\ p \in {"auth", "rejected", "gone"}
           \/ /\ phase[c] = "serving" /\ p = "closing"
    PROVE  IInv'
<1>1. TypeOK
  BY DEF IInv
<1>2. \A k \in Conn : Bridged(k)' = Bridged(k)
  BY <1>1 DEF TypeOK, Bridged
<1>3. p \in {"auth", "rejected", "gone", "closing"}
  OBVIOUS
<1>4. TypeOK'
  <2>1. phase' \in [Conn -> {"new", "rejected", "auth", "serving", "closing", "aclose",
                             "wsclose", "gone"}]
    BY <1>1, <1>3 DEF TypeOK
  <2> QED BY <1>1, <2>1 DEF TypeOK
<1> QED BY <1>2, <1>4, FrameKeeps

LEMMA StillKeeps ==
    ASSUME IInv, UNCHANGED <<phase, closed, pending, sent, written, sender, sending>>
    PROVE  IInv'
<1>1. TypeOK'
  BY DEF IInv, TypeOK
<1>2. \A k \in Conn : Bridged(k)' = Bridged(k)
  BY DEF Bridged
<1> QED BY <1>1, <1>2, FrameKeeps

LEMMA NextInv == IInv /\ [Next]_vars => IInv'
<1> SUFFICES ASSUME IInv, [Next]_vars PROVE IInv'
  OBVIOUS
<1>1. CASE UNCHANGED vars
  BY <1>1, StillKeeps DEF vars, queue, out, state
<1>2. CASE Next
  <2>1. PICK c \in Conn :
           \/ Admit(c) \/ Authenticated(c) \/ Unauthenticated(c) \/ Listened(c) \/ Cancelled(c)
           \/ Handler(c) \/ Abort(c) \/ Take(c) \/ Send(c) \/ PeerCloses(c) \/ ClosesWebSocket(c)
           \/ \E w \in Task : Drain(c, w) \/ Drained(c, w) \/ \E long \in BOOLEAN : Write(c, w, long)
    BY <1>2 DEF Next
  <2>2. CASE Admit(c)
    <3>1. UNCHANGED <<closed, pending, sent, written, sender, sending>> /\ phase[c] = "new"
      BY <2>2 DEF Admit, queue, out, state
    <3>2. CASE phase' = [phase EXCEPT ![c] = "rejected"]
      BY <3>1, <3>2, OutsideKeeps
    <3>3. CASE phase' = [phase EXCEPT ![c] = "auth"]
      BY <3>1, <3>3, OutsideKeeps
    <3> QED BY <2>2, <3>2, <3>3 DEF Admit, To
  <2>3. CASE Authenticated(c)
    BY <2>3, AuthenticatedKeeps
  <2>4. CASE Unauthenticated(c)
    <3>1. /\ UNCHANGED <<closed, pending, sent, written, sender, sending>>
          /\ phase[c] = "auth" /\ phase' = [phase EXCEPT ![c] = "gone"]
      BY <2>4 DEF Unauthenticated, Release, To, queue, out, state
    <3> QED BY <3>1, OutsideKeeps
  <2>5. CASE Listened(c)
    <3>1. /\ UNCHANGED <<closed, pending, sent, written, sender, sending>>
          /\ phase[c] = "serving" /\ phase' = [phase EXCEPT ![c] = "closing"]
      BY <2>5 DEF Listened, To, queue, out, state
    <3> QED BY <3>1, OutsideKeeps
  <2>6. CASE Cancelled(c) \/ Leave(c)
    BY <2>6, ForgetKeeps DEF Cancelled, Leave, Release, To
  <2>7. CASE Handler(c)
    BY <2>5, <2>6, <2>7, AcloseKeeps, FlushedKeeps DEF Handler
  <2>8. CASE Abort(c)
    BY <2>8, AbortKeeps
  <2>9. CASE Take(c)
    BY <2>9, TakeKeeps
  <2>10. CASE Send(c)
    BY <2>10, SendKeeps
  <2>11. CASE PeerCloses(c) \/ ClosesWebSocket(c)
    BY <2>11, StillKeeps DEF PeerCloses, ClosesWebSocket, queue, out, state
  <2>12. ASSUME NEW w \in Task, Drain(c, w) \/ Drained(c, w) \/ \E long \in BOOLEAN : Write(c, w, long)
         PROVE  IInv'
    <3>1. CASE Drain(c, w) \/ Drained(c, w)
      BY <3>1, StillKeeps DEF Drain, Drained, out, state
    <3>2. CASE \E long \in BOOLEAN : Write(c, w, long)
      BY <3>2, WriteKeeps
    <3> QED BY <2>12, <3>1, <3>2
  <2> QED BY <2>1, <2>2, <2>3, <2>4, <2>5, <2>6, <2>7, <2>8, <2>9, <2>10, <2>11, <2>12
<1> QED BY <1>1, <1>2

-----------------------------------------------------------------------------
(* The theorems *)

(* The inductive invariant: the backlog has room for the sentinel, and what   *)
(* was sent, is being sent and is queued are the written frames in order.     *)
THEOREM WriterInvariance == Spec => []IInv
<1> QED BY InitInv, NextInv, PTL DEF Spec

LEMMA RoomEnough == IInv => SentinelFits
<1> SUFFICES ASSUME IInv, NEW c \in Conn PROVE Len(pending[c]) <= MaxQueue + 1
  BY DEF SentinelFits
<1>1. Bound(c) /\ pending[c] \in Seq(Nat)
  BY PerConnection DEF TypeOK
<1>2. Len(pending[c]) \in Nat
  BY <1>1
<1> QED BY <1>1, <1>2, WriterAssumption DEF Bound, Room

(* _pending's reserved slot always takes the close sentinel of close() and    *)
(* _fail(), however full the backlog is: _enqueue never meets a full queue.   *)
THEOREM ReservedSlot == Spec => []SentinelFits
<1> QED BY WriterInvariance, RoomEnough, PTL

LEMMA InOrderSent == IInv => NothingDropped
<1> SUFFICES ASSUME IInv, NEW c \in Conn
             PROVE  /\ sent[c] = [i \in 1 .. Len(sent[c]) |-> i]
                    /\ sender[c] = "finished" => Len(sent[c]) = written[c]
  BY DEF NothingDropped
<1>1. Order(c) /\ sent[c] \in Seq(Nat)
  BY PerConnection DEF TypeOK
<1>2. sent[c] = [i \in 1 .. Len(sent[c]) |-> i]
  BY <1>1 DEF Order
<1> QED BY <1>1, <1>2 DEF Order

(* A sender that _sender_loop let finish has sent every frame write() took,   *)
(* in order, whatever failed or closed while it worked.                      *)
THEOREM BacklogFlushed == Spec => []NothingDropped
<1> QED BY WriterInvariance, InOrderSent, PTL
==============================================================================
