---------------------------- MODULE UploadProofs ----------------------------
(***************************************************************************)
(* What the server reads of an XHTTP upload is what was written, in order  *)
(* (InOrder), for any number of buffers, sessions and retries and any size *)
(* of the channel.                                                         *)
(*                                                                         *)
(* UploadInv is the inductive invariant.  A function cut tells at which    *)
(* buffer each POST begins: the loop of DialContext extends it by one with *)
(* every POST, and everything else refers to it.  What the pipe and the    *)
(* POSTs hold lies between the cuts (Sent); what Read has returned ends at *)
(* the cut of nextSeq, or inside of that POST if it was read in parts      *)
(* (Delivers).  For the latter the rest of the packet must be the only one *)
(* with its number, so the invariant also says where each copy of a POST   *)
(* is: in one place (OnePlace).                                            *)
(***************************************************************************)
EXTENDS XHTTPUpload, SequenceTheorems, TLAPS
-----------------------------------------------------------------------------
(* The packets of an upload: each is in one place.                         *)

(* No session is numbered like the absence of one.                         *)
LEMMA SessionsAreSome == None \notin Queues
  BY Zenon, UploadAssumption DEF None

(* Whatever is under way, queued or in a heap is a packet.                 *)
LEMMA PacketsOnly == UploadTypes => Unread \cup Heaped \subseteq Packets
<1> SUFFICES ASSUME UploadTypes PROVE Unread \cup Heaped \subseteq Packets
  BY Zenon
<1>1. flight \subseteq Packets /\ Handled \subseteq Packets
  BY DEF UploadTypes, Handled
<1>2. \A q \in Queues : \A i \in 1..Len(pushed[q]) : pushed[q][i] \in Packets
  BY DEF UploadTypes
<1>3. Queued \subseteq Packets
  BY <1>2 DEF Queued
<1>4. Heaped \subseteq Packets
  BY DEF UploadTypes, Heaped
<1> QED BY Zenon, <1>1, <1>3, <1>4 DEF Unread

(* What is lost, refused, dropped by Close or old leaves the rest where it *)
(* is (PostPacket, Push, Close and Read).                                  *)
LEMMA OnePlaceLess ==
  ASSUME OnePlace, flight' \subseteq flight, serving' \subseteq serving,
         \A q \in Queues : pushed'[q] = pushed[q] \/ pushed'[q] = <<>>,
         Heaped' \subseteq Heaped
  PROVE  OnePlace' /\ Unread' \subseteq Unread
<1>1. Handled' \subseteq Handled
  BY Zenon DEF Handled
<1>2. \A q \in Queues : \A i \in 1..Len(pushed'[q]) :
         i \in 1..Len(pushed[q]) /\ pushed'[q][i] = pushed[q][i]
  OBVIOUS
<1>3. Queued' \subseteq Queued
  BY <1>2 DEF Queued
<1>4. Unread' \subseteq Unread
  BY Zenon, <1>1, <1>3 DEF Unread
<1>5. Distinct(flight)' /\ Distinct(Handled)' /\ Distinct(Heaped)'
  BY Zenon, <1>1 DEF OnePlace, Distinct
<1>6. HandledOnce'
  BY Zenon DEF OnePlace, HandledOnce
<1>7. QueuedOnce'
  <2> SUFFICES ASSUME NEW q \in Queues, NEW o \in Queues, NEW i \in 1..Len(pushed'[q]),
                      NEW j \in 1..Len(pushed'[o]), Same(pushed'[q][i], pushed'[o][j])
               PROVE  q = o /\ i = j
    BY Zenon DEF QueuedOnce, Same
  <2>1. i \in 1..Len(pushed[q]) /\ j \in 1..Len(pushed[o]) /\ Same(pushed[q][i], pushed[o][j])
    BY Zenon, <1>2
  <2>2. QueuedOnce
    BY Zenon DEF OnePlace
  <2> QED BY <2>1, <2>2 DEF QueuedOnce
<1>8. Apart(flight, Handled)' /\ Apart(flight, Queued)' /\ Apart(Handled, Queued)'
  BY Zenon, <1>1, <1>3 DEF OnePlace, Apart
<1>9. Apart(Unread, Heaped)'
  BY Zenon, <1>4 DEF OnePlace, Apart
<1> QED BY Zenon, <1>4, <1>5, <1>6, <1>7, <1>8, <1>9 DEF OnePlace

(* A packet that is sent while none like it is anywhere is in one place    *)
(* (the loop of DialContext, and a POST that is sent again).               *)
LEMMA OnePlaceMore ==
  ASSUME OnePlace, NEW packet, flight' = flight \cup {packet},
         UNCHANGED <<serving, pushed, heap>>,
         \A p \in Unread \cup Heaped : ~Same(p, packet)
  PROVE  OnePlace' /\ Unread' = Unread \cup {packet} /\ Heaped' = Heaped
<1>1. Handled' = Handled /\ Queued' = Queued /\ Heaped' = Heaped
  BY DEF Handled, Queued, Heaped
<1>2. Unread' = Unread \cup {packet}
  BY Zenon, <1>1 DEF Unread
<1>3. \A p \in Unread \cup Heaped : ~Same(packet, p)
  BY Zenon DEF Same
<1>4. Distinct(flight)'
  BY Zenon, <1>3 DEF OnePlace, Distinct, Unread
<1>5. Apart(flight, Handled)' /\ Apart(flight, Queued)'
  BY Zenon, <1>1, <1>3 DEF OnePlace, Apart, Unread
<1>6. Apart(Unread, Heaped)'
  BY Zenon, <1>1, <1>2, <1>3 DEF OnePlace, Apart
<1>7. Distinct(Handled)' /\ Distinct(Heaped)' /\ Apart(Handled, Queued)'
  BY Zenon, <1>1 DEF OnePlace
<1> QED BY Zenon, <1>1, <1>2, <1>4, <1>5, <1>6, <1>7 DEF OnePlace, HandledOnce, QueuedOnce

(* A POST that arrives goes to its handler (ServeHTTP).                    *)
LEMMA OnePlaceServe ==
  ASSUME OnePlace, NEW packet \in flight, NEW s, flight' = flight \ {packet},
         serving' = serving \cup {[packet |-> packet, session |-> s]},
         UNCHANGED <<pushed, heap>>
  PROVE  OnePlace' /\ Unread' = Unread /\ Heaped' = Heaped
<1> DEFINE new == [packet |-> packet, session |-> s]
<1>0. new.packet = packet /\ new \in serving'
  OBVIOUS
<1>1. Queued' = Queued /\ Heaped' = Heaped
  BY DEF Queued, Heaped
<1> HIDE DEF new
<1>2. Handled' = Handled \cup {packet}
  BY Zenon, <1>0 DEF Handled, new
<1>3. Unread' = Unread
  BY Zenon, <1>1, <1>2 DEF Unread
<1>4. packet \in Unread /\ \A p \in Handled \cup Queued : ~Same(packet, p) /\ ~Same(p, packet)
  BY Zenon DEF OnePlace, Apart, Unread, Same
<1>5. Distinct(flight)' /\ Distinct(Handled)'
  BY <1>2, <1>4 DEF OnePlace, Distinct
<1>6. HandledOnce'
  <2>1. \A r \in serving : r.packet # packet
    BY Zenon, <1>4 DEF Handled, Same
  <2> QED BY Zenon, <2>1, <1>0 DEF OnePlace, HandledOnce, new
<1>7. \A p \in flight' : p \in flight /\ ~Same(p, packet)
  BY Zenon DEF OnePlace, Distinct
<1>8. Apart(flight, Handled)' /\ Apart(flight, Queued)' /\ Apart(Handled, Queued)'
  BY Zenon, <1>1, <1>2, <1>4, <1>7 DEF OnePlace, Apart
<1>9. Distinct(Heaped)' /\ Apart(Unread, Heaped)'
  BY Zenon, <1>1, <1>3 DEF OnePlace
<1>10. QueuedOnce'
  BY Zenon DEF OnePlace, QueuedOnce
<1> QED BY Zenon, <1>1, <1>3, <1>5, <1>6, <1>8, <1>9, <1>10 DEF OnePlace

(* The handler's packet goes into the channel (Push).                      *)
LEMMA OnePlacePush ==
  ASSUME UploadTypes, OnePlace, NEW r \in serving, NEW q \in Queues,
         pushed' = [pushed EXCEPT ![q] = Append(@, r.packet)],
         serving' = serving \ {r}, UNCHANGED <<flight, heap>>
  PROVE  OnePlace' /\ Unread' \subseteq Unread /\ Heaped' = Heaped
<1> DEFINE n == Len(pushed[q]) + 1
<1>1. Heaped' = Heaped
  BY Zenon DEF Heaped
<1>2. pushed[q] \in Seq(Packets) /\ r.packet \in Packets /\ DOMAIN pushed = Queues
  BY Zenon DEF UploadTypes
<1>3. n \in Nat /\ Len(pushed'[q]) = n /\ pushed'[q][n] = r.packet
  BY <1>2
<1>4. \A i \in 1..n : i # n => i \in 1..Len(pushed[q]) /\ pushed'[q][i] = pushed[q][i]
  BY <1>2
<1>5. \A o \in Queues : o # q => pushed'[o] = pushed[o]
  BY Zenon, <1>2
<1> HIDE DEF n
<1>6. \A o \in Queues : \A i \in 1..Len(pushed'[o]) :
         \/ o = q /\ i = n /\ pushed'[o][i] = r.packet
         \/ ~(o = q /\ i = n) /\ i \in 1..Len(pushed[o]) /\ pushed'[o][i] = pushed[o][i]
  BY Zenon, <1>3, <1>4, <1>5
<1>7. Queued' \subseteq Queued \cup {r.packet}
  BY <1>6 DEF Queued
<1>8. Handled' \subseteq Handled /\ \A p \in Handled' : ~Same(p, r.packet)
  <2>1. \A t \in serving' : t \in serving /\ t.packet # r.packet
    BY Zenon DEF OnePlace, HandledOnce
  <2> QED BY Zenon, <2>1 DEF OnePlace, Distinct, Handled
<1>9. r.packet \in Handled
  BY Zenon DEF Handled
<1>10. Unread' \subseteq Unread
  BY Zenon, <1>7, <1>8, <1>9 DEF Unread
<1>11. QueuedOnce'
  <2>1. \A o \in Queues : \A i \in 1..Len(pushed[o]) : pushed[o][i] \in Queued
    BY DEF Queued
  <2>2. \A o \in Queues : \A i \in 1..Len(pushed[o]) :
          ~Same(pushed[o][i], r.packet) /\ ~Same(r.packet, pushed[o][i])
    BY Zenon, <1>9, <2>1 DEF OnePlace, Apart, Same
  <2> SUFFICES ASSUME NEW o \in Queues, NEW w \in Queues, NEW i \in 1..Len(pushed'[o]),
                      NEW j \in 1..Len(pushed'[w]), Same(pushed'[o][i], pushed'[w][j])
               PROVE  o = w /\ i = j
    BY Zenon DEF QueuedOnce, Same
  <2>3. CASE o = q /\ i = n
    BY Zenon, <2>2, <2>3, <1>6
  <2>4. CASE ~(o = q /\ i = n)
    <3>1. i \in 1..Len(pushed[o]) /\ pushed'[o][i] = pushed[o][i]
      BY Zenon, <2>4, <1>6
    <3>2. j \in 1..Len(pushed[w]) /\ pushed'[w][j] = pushed[w][j]
      <4>1. pushed'[w][j] # r.packet
        BY Zenon, <3>1, <2>2
      <4> QED BY Zenon, <4>1, <1>6
    <3>3. Same(pushed[o][i], pushed[w][j])
      BY Zenon, <3>1, <3>2
    <3>4. QueuedOnce
      BY Zenon DEF OnePlace
    <3> QED BY <3>1, <3>2, <3>3, <3>4 DEF QueuedOnce
  <2> QED BY Zenon, <2>3, <2>4
<1>12. Distinct(Handled)' /\ Apart(flight, Handled)' /\ Apart(flight, Queued)' /\ Apart(Handled, Queued)'
  BY Zenon, <1>7, <1>8, <1>9 DEF OnePlace, Apart, Distinct
<1>13. HandledOnce'
  BY Zenon DEF OnePlace, HandledOnce
<1>14. Distinct(flight)' /\ Distinct(Heaped)' /\ Apart(Unread, Heaped)'
  BY Zenon, <1>1, <1>10 DEF OnePlace, Apart
<1> QED BY Zenon, <1>1, <1>10, <1>11, <1>12, <1>13, <1>14 DEF OnePlace

(* Read takes the next packet out of the channel (Read).                   *)
LEMMA OnePlaceReceive ==
  ASSUME UploadTypes, OnePlace, NEW q \in Queues, pushed[q] # <<>>,
         heap' = [heap EXCEPT ![q] = @ \cup {Head(pushed[q])}],
         pushed' = [pushed EXCEPT ![q] = Tail(@)], UNCHANGED <<flight, serving>>
  PROVE  /\ OnePlace' /\ Unread' \subseteq Unread /\ Head(pushed[q]) \in Unread
         /\ Heaped' = Heaped \cup {Head(pushed[q])}
<1> DEFINE h == Head(pushed[q])
<1>1. pushed[q] \in Seq(Packets) /\ DOMAIN pushed = Queues /\ DOMAIN heap = Queues
  BY Zenon DEF UploadTypes
<1>2. Len(pushed[q]) \in Nat /\ 1 \in 1..Len(pushed[q]) /\ h = pushed[q][1]
  BY <1>1
<1>3. h \in Queued
  BY <1>2 DEF Queued
<1>4. \A o \in Queues : o # q => pushed'[o] = pushed[o] /\ heap'[o] = heap[o]
  BY Zenon, <1>1
<1>5. heap'[q] = heap[q] \cup {h}
  BY Zenon, <1>1
<1>6. Heaped' = Heaped \cup {h}
  BY Zenon, <1>4, <1>5 DEF Heaped
<1>7. \A i \in 1..Len(pushed'[q]) :
         /\ i + 1 \in 1..Len(pushed[q]) /\ i + 1 # 1
         /\ pushed'[q][i] = pushed[q][i + 1]
  BY <1>1
<1> HIDE DEF h
<1>8. Handled' = Handled
  BY Zenon DEF Handled
<1>9. \A p \in Queued' : p \in Queued /\ ~Same(p, h)
  <2>0. \A p \in Queued' : \E o \in Queues : \E i \in 1..Len(pushed'[o]) : p = pushed'[o][i]
    BY DEF Queued
  <2> SUFFICES ASSUME NEW p \in Queued'
               PROVE  p \in Queued /\ ~Same(p, h)
    BY Zenon
  <2> PICK o \in Queues : \E i \in 1..Len(pushed'[o]) : p = pushed'[o][i]
    BY Zenon, <2>0
  <2> PICK i \in 1..Len(pushed'[o]) : p = pushed'[o][i]
    BY Zenon
  <2>1. CASE o = q
    <3>1. /\ i + 1 \in 1..Len(pushed[q]) /\ i + 1 # 1
          /\ pushed'[o][i] = pushed[q][i + 1]
      BY Zenon, <2>1, <1>7
    <3>2. ~Same(pushed[q][i + 1], pushed[q][1])
      BY Zenon, <3>1, <1>2 DEF OnePlace, QueuedOnce
    <3> QED BY <3>1, <3>2, <1>2 DEF Queued
  <2>2. CASE o # q
    <3>1. i \in 1..Len(pushed[o]) /\ pushed'[o][i] = pushed[o][i]
      BY Zenon, <2>2, <1>4
    <3>2. ~Same(pushed[o][i], pushed[q][1])
      BY Zenon, <3>1, <2>2, <1>2 DEF OnePlace, QueuedOnce
    <3> QED BY <3>1, <3>2, <1>2 DEF Queued
  <2> QED BY Zenon, <2>1, <2>2
<1>10. Unread' \subseteq Unread /\ h \in Unread
  BY Zenon, <1>3, <1>8, <1>9 DEF Unread
<1>11. \A p \in Heaped : ~Same(h, p) /\ ~Same(p, h)
  BY Zenon, <1>10 DEF OnePlace, Apart, Same
<1>12. Distinct(Heaped)'
  BY Zenon, <1>6, <1>11 DEF OnePlace, Distinct
<1>13. \A p \in Unread' : ~Same(p, h)
  BY Zenon, <1>3, <1>8, <1>9 DEF OnePlace, Apart, Unread
<1>14. Apart(Unread, Heaped)'
  BY Zenon, <1>6, <1>10, <1>13 DEF OnePlace, Apart
<1>15. QueuedOnce'
  <2> SUFFICES ASSUME NEW o \in Queues, NEW w \in Queues, NEW i \in 1..Len(pushed'[o]),
                      NEW j \in 1..Len(pushed'[w]), Same(pushed'[o][i], pushed'[w][j])
               PROVE  o = w /\ i = j
    BY Zenon DEF QueuedOnce, Same
  <2> DEFINE S(x, k) == IF x = q THEN k + 1 ELSE k
  <2>1. /\ S(o, i) \in 1..Len(pushed[o]) /\ pushed'[o][i] = pushed[o][S(o, i)]
        /\ S(w, j) \in 1..Len(pushed[w]) /\ pushed'[w][j] = pushed[w][S(w, j)]
    BY Zenon, <1>4, <1>7
  <2> HIDE DEF S
  <2>2. Same(pushed[o][S(o, i)], pushed[w][S(w, j)])
    BY Zenon, <2>1
  <2>3. o = w /\ S(o, i) = S(w, j)
    BY Zenon, <2>1, <2>2 DEF OnePlace, QueuedOnce
  <2> QED BY <2>3 DEF S
<1>16. Apart(flight, Handled)' /\ Apart(flight, Queued)' /\ Apart(Handled, Queued)'
  BY Zenon, <1>8, <1>9 DEF OnePlace, Apart
<1>17. Distinct(flight)' /\ Distinct(Handled)' /\ HandledOnce'
  BY Zenon, <1>8 DEF OnePlace, HandledOnce
<1> QED
  BY Zenon, <1>6, <1>10, <1>12, <1>14, <1>15, <1>16, <1>17 DEF OnePlace, h

(* What Read leaves of a packet takes its place in the heap (Read).        *)
LEMMA OnePlaceRead ==
  ASSUME OnePlace, NEW packet \in Heaped, NEW left, Same(left, packet),
         Heaped' \subseteq (Heaped \ {packet}) \cup {left},
         UNCHANGED <<flight, serving, pushed>>
  PROVE  /\ OnePlace' /\ Unread' = Unread
         /\ \A p \in Heaped' : \E r \in Heaped : Same(p, r)
<1>1. Handled' = Handled /\ Queued' = Queued
  BY DEF Handled, Queued
<1>2. Unread' = Unread
  BY Zenon, <1>1 DEF Unread
<1>3. \A p \in Heaped' : p = left \/ (p \in Heaped /\ ~Same(p, packet))
  BY Zenon DEF OnePlace, Distinct
<1>4. Distinct(Heaped)'
  BY Zenon, <1>3 DEF OnePlace, Distinct, Same
<1>5. \A p \in Heaped' : \E r \in Heaped : Same(p, r)
  BY Zenon, <1>3 DEF Same
<1>6. Apart(Unread, Heaped)'
  <2> SUFFICES ASSUME NEW p \in Unread, NEW r \in Heaped', Same(p, r) PROVE FALSE
    BY Zenon, <1>2 DEF Apart, Same
  <2>1. PICK t \in Heaped : Same(r, t)
    BY Zenon, <1>5
  <2> QED BY Zenon, <2>1 DEF OnePlace, Apart, Same
<1> QED
  BY Zenon, <1>1, <1>2, <1>4, <1>5, <1>6 DEF OnePlace, HandledOnce, QueuedOnce

(* Packets keep their numbers wherever they go.                            *)
LEMMA NumberedSame ==
  ASSUME Numbered, UNCHANGED seq, resent \subseteq resent',
         \A p \in (Unread \cup Heaped)' : \E r \in Unread \cup Heaped : Same(p, r)
  PROVE  Numbered'
  BY Zenon DEF Numbered, Same
-----------------------------------------------------------------------------
(* The buffers that a packet carries.                                      *)

(* One buffer more.                                                        *)
LEMMA SpansAppend ==
  ASSUME NEW buffers \in Seq(Nat), NEW from \in Nat, NEW to \in Nat,
         Spans(buffers, from, to)
  PROVE  Spans(Append(buffers, to + 1), from, to + 1)
  BY DEF Spans

(* The first n buffers, and what is left.                                  *)
LEMMA SpansSplit ==
  ASSUME NEW buffers \in Seq(Nat), NEW from \in Nat, NEW to \in Nat,
         Spans(buffers, from, to), NEW n \in 1..Len(buffers)
  PROVE  /\ SubSeq(buffers, 1, n) \in Seq(Nat)
         /\ SubSeq(buffers, n + 1, Len(buffers)) \in Seq(Nat)
         /\ Spans(SubSeq(buffers, 1, n), from, from + n)
         /\ Spans(SubSeq(buffers, n + 1, Len(buffers)), from + n, to)
<1> DEFINE m == Len(buffers)
<1>1. m \in Nat /\ m = to - from /\ n \in 1..m /\ \A i \in 1..m : buffers[i] \in Nat /\ buffers[i] = from + i
  BY DEF Spans
<1> HIDE DEF m
<1>2. /\ SubSeq(buffers, 1, n) \in Seq(Nat) /\ Len(SubSeq(buffers, 1, n)) = n
      /\ \A i \in 1..n : SubSeq(buffers, 1, n)[i] = buffers[i]
  BY <1>1, SubSeqProperties
<1>3. /\ SubSeq(buffers, n + 1, m) \in Seq(Nat) /\ Len(SubSeq(buffers, n + 1, m)) = m - n
      /\ \A i \in 1..(m - n) : SubSeq(buffers, n + 1, m)[i] = buffers[n + i]
  BY <1>1, SubSeqProperties
<1>4. Spans(SubSeq(buffers, 1, n), from, from + n)
  BY <1>1, <1>2 DEF Spans
<1>5. Spans(SubSeq(buffers, n + 1, m), from + n, to)
  BY <1>1, <1>3 DEF Spans
<1> QED BY Zenon, <1>2, <1>3, <1>4, <1>5 DEF m
(* What was returned, and the buffers after it.                            *)
LEMMA SpansConcat ==
  ASSUME NEW s \in Seq(Nat), NEW t \in Seq(Nat), NEW m \in Nat, Spans(t, Len(s), Len(s) + m),
         \A i \in 1..Len(s) : s[i] = i
  PROVE  Len(s \o t) = Len(s) + m /\ \A i \in 1..Len(s \o t) : (s \o t)[i] = i
<1> DEFINE n == Len(s)
<1>1. n \in Nat /\ Len(t) = (n + m) - n /\ \A i \in 1..Len(t) : t[i] = n + i
  BY DEF Spans
<1>2. Len(s \o t) = n + Len(t)
  BY ConcatProperties
<1>3. \A i \in 1..(n + Len(t)) : (s \o t)[i] = IF i <= n THEN s[i] ELSE t[i - n]
  BY ConcatProperties
<1>4. Len(t) = m
  BY <1>1
<1> HIDE DEF n
<1>5. ASSUME NEW i \in 1..(n + m) PROVE (s \o t)[i] = i
  <2>1. CASE i <= n
    <3>1. i \in 1..n
      BY <2>1, <1>1
    <3> QED BY Zenon, <3>1, <2>1, <1>3, <1>4 DEF n
  <2>2. CASE ~(i <= n)
    <3>1. i - n \in 1..m /\ n + (i - n) = i
      BY <2>2, <1>1
    <3> QED BY Zenon, <3>1, <2>2, <1>1, <1>3, <1>4
  <2> QED BY Zenon, <2>1, <2>2
<1> QED BY Zenon, <1>2, <1>4, <1>5 DEF n
-----------------------------------------------------------------------------
(* What was written is in the POSTs and in the pipe.                       *)

(* Moving a packet, or sending it again, changes nothing about that.       *)
LEMMA SentSame ==
  ASSUME NEW cut, Sent(cut), UNCHANGED <<pipeVars, seq>>,
         \A p \in Unread' : \E r \in Unread : r.seq = p.seq /\ r.payload = p.payload
  PROVE  Sent(cut)'
<1>1. \A p \in Unread' : Spans(p.payload, cut[p.seq], cut[p.seq + 1])
  <2> SUFFICES ASSUME NEW p \in Unread' PROVE Spans(p.payload, cut[p.seq], cut[p.seq + 1])
    BY Zenon
  <2>1. PICK r \in Unread : r.seq = p.seq /\ r.payload = p.payload
    BY Zenon
  <2>2. Spans(r.payload, cut[r.seq], cut[r.seq + 1])
    BY Zenon DEF Sent
  <2> QED BY Zenon, <2>1, <2>2
<1> QED BY Zenon, <1>1 DEF Sent, pipeVars

(* Nor does what the application and the pipe do (PipeWrite, PipeClose and *)
(* PipeInterrupt).                                                         *)
LEMMA SentPipe ==
  ASSUME NEW cut \in Cuts, UploadTypes, Sent(cut), UNCHANGED seq,
         PipeWrite \/ PipeClose \/ PipeInterrupt, Unread' \subseteq Unread
  PROVE  Sent(cut)'
<1>t. /\ seq \in 0..MaxWrites /\ cut[seq] \in Nat /\ written \in Nat /\ data \in Seq(Nat)
      /\ MaxWrites \in Nat
  BY PipeAssumption DEF UploadTypes, Sent, Cuts
<1>1. \A p \in Unread' : Spans(p.payload, cut[p.seq], cut[p.seq + 1])
  BY Zenon DEF Sent
<1>2. CASE PipeWrite
  <2>1. Spans(data, cut[seq], written) /\ cut[seq] + Len(data) = written
    BY Zenon, <1>2 DEF PipeWrite, Sent
  <2>2. Spans(data', cut[seq], written') /\ written' <= MaxWrites
    BY <2>1, <1>2, <1>t, SpansAppend DEF PipeWrite
  <2>3. cut[seq] + Len(data') = written'
    <3>1. Len(data') = written' - cut[seq] /\ written' = written + 1
      BY Zenon, <2>2, <1>2 DEF Spans, PipeWrite
    <3> QED BY <3>1, <1>t
  <2> QED BY <1>1, <2>2, <2>3, <1>t DEF Sent
<1>3. CASE PipeClose
  BY Zenon, <1>1, <1>3 DEF PipeClose, Sent
<1>4. CASE PipeInterrupt
  <2>1. data' = <<>> /\ state' # "open" /\ written' = written
    BY Zenon, <1>4 DEF PipeInterrupt
  <2>2. Spans(data', cut[seq], cut[seq] + Len(data')) /\ Len(data') = 0
    BY <2>1, <1>t DEF Spans
  <2>3. cut[seq] + Len(data') <= written'
    BY <2>1, <2>2, <1>t DEF Sent
  <2> QED BY Zenon, <1>1, <2>1, <2>2, <2>3 DEF Sent
<1> QED BY Zenon, <1>2, <1>3, <1>4

(* The loop reads all of the pipe into a POST (DialContext).               *)
LEMMA SentPost ==
  ASSUME NEW cut \in Cuts, UploadTypes, Sent(cut), Numbered, PostPacket,
         Unread' = Unread \cup {[seq |-> seq, copy |-> 0, payload |-> data]}
  PROVE  \E new \in Cuts : Sent(new)' /\ \A i \in 0..seq : new[i] = cut[i]
<1> DEFINE c == cut[seq]
           l == Len(data)
           longer == [cut EXCEPT ![seq + 1] = c + l]
<1>t. cut \in [0..MaxWrites -> 0..MaxWrites] /\ MaxWrites \in Nat /\ data \in Seq(Nat) /\ seq \in Nat
  BY Zenon, PipeAssumption DEF UploadTypes, Cuts
<1>s. seq <= MaxWrites /\ seq <= c /\ c + l <= written /\ written <= MaxWrites /\ written \in Nat
  BY Zenon DEF Sent, UploadTypes
<1>n. seq \in 0..MaxWrites /\ c \in 0..MaxWrites /\ l \in Nat
  BY <1>t, <1>s
<1>1. data' = <<>> /\ data # <<>> /\ seq' = seq + 1 /\ UNCHANGED <<state, written>>
  BY Zenon DEF PostPacket, PipeRead
<1>l. l > 0
  BY <1>1, <1>t
<1>2. /\ state = "open" => c + l = written
      /\ Spans(data, c, c + l) /\ cut[0] = 0
  BY Zenon DEF Sent
<1>m. \A i, j \in 0..seq : i <= j => cut[i] <= cut[j]
  BY Zenon DEF Sent
<1> HIDE DEF l
<1>3. seq + 1 \in 0..MaxWrites /\ c + l \in 0..MaxWrites
  <2> HIDE DEF c
  <2> QED BY <1>n, <1>s, <1>l, <1>t
<1>4. PICK new \in [0..MaxWrites -> 0..MaxWrites] :
        /\ new[seq + 1] = c + l
        /\ \A i \in 0..MaxWrites : i # seq + 1 => new[i] = cut[i]
  <2> HIDE DEF c
  <2>1. /\ longer \in [0..MaxWrites -> 0..MaxWrites] /\ longer[seq + 1] = c + l
        /\ \A i \in 0..MaxWrites : i # seq + 1 => longer[i] = cut[i]
    BY Zenon, <1>t, <1>3
  <2> HIDE DEF longer
  <2> QED BY Zenon, <2>1
<1>i. \A i \in 0..seq : i \in 0..MaxWrites /\ i # seq + 1 /\ i <= seq /\ seq \in 0..seq
  BY <1>t, <1>s
<1>5. /\ new \in Cuts /\ new[0] = 0 /\ seq' <= MaxWrites /\ seq' <= new[seq']
      /\ written' <= MaxWrites /\ \A i \in 0..seq : new[i] = cut[i]
  <2>1. new \in Cuts /\ \A i \in 0..seq : new[i] = cut[i]
    BY Zenon, <1>4, <1>i DEF Cuts
  <2>2. new[0] = 0
    BY <2>1, <1>2, <1>n
  <2>3. seq' <= MaxWrites /\ seq' <= new[seq'] /\ written' <= MaxWrites
    <3> HIDE DEF c
    <3> QED BY <1>1, <1>3, <1>4, <1>s, <1>l, <1>n
  <2> QED BY Zenon, <2>1, <2>2, <2>3
<1>6. \A i, j \in 0..seq' : i <= j => new[i] <= new[j]
  <2> SUFFICES ASSUME NEW i \in 0..seq', NEW j \in 0..seq', i <= j PROVE new[i] <= new[j]
    BY Zenon
  <2>1. CASE j \in 0..seq
    <3>1. i \in 0..seq
      BY <2>1, <1>1, <1>n
    <3> QED BY Zenon, <3>1, <2>1, <1>m, <1>5
  <2>2. CASE j = seq + 1 /\ i \in 0..seq
    <3>1. cut[i] <= c /\ i \in 0..MaxWrites
      BY Zenon, <2>2, <1>m, <1>i
    <3>2. cut[i] \in 0..MaxWrites /\ new[i] = cut[i] /\ new[j] = c + l
      BY Zenon, <3>1, <2>2, <1>t, <1>4, <1>5
    <3> HIDE DEF c
    <3> QED BY <3>1, <3>2, <1>n
  <2>3. CASE j = seq + 1 /\ i = seq + 1
    BY <2>3, <1>3, <1>4
  <2> QED BY <2>1, <2>2, <2>3, <1>1, <1>n
<1>7. /\ Spans(data', new[seq'], new[seq'] + Len(data')) /\ new[seq'] + Len(data') <= written'
      /\ (state' = "open" => new[seq'] + Len(data') = written')
  <2> HIDE DEF c
  <2>1. Len(data') = 0 /\ new[seq'] = c + l /\ c + l \in Nat
    BY <1>1, <1>3, <1>4
  <2> QED BY <2>1, <1>1, <1>2, <1>s DEF Spans
<1>8. \A p \in Unread' : Spans(p.payload, new[p.seq], new[p.seq + 1])
  <2> SUFFICES ASSUME NEW p \in Unread' PROVE Spans(p.payload, new[p.seq], new[p.seq + 1])
    BY Zenon
  <2>1. CASE p \in Unread
    <3>1. p \in Packets
      BY Zenon, <2>1, PacketsOnly
    <3>2. p.seq \in Nat /\ p.seq < seq
      BY Zenon, <3>1, <2>1 DEF Numbered, Packets
    <3>3. p.seq \in 0..seq /\ p.seq + 1 \in 0..seq
      BY <3>2, <1>n
    <3> QED BY Zenon, <3>3, <2>1, <1>5 DEF Sent
  <2>2. CASE p = [seq |-> seq, copy |-> 0, payload |-> data]
    <3>1. p.seq = seq /\ p.payload = data /\ seq \in 0..seq
      BY <2>2, <1>n
    <3> QED BY Zenon, <3>1, <1>2, <1>4, <1>5
  <2> QED BY Zenon, <2>1, <2>2
<1>9. Sent(new)'
  BY Zenon, <1>5, <1>6, <1>7, <1>8 DEF Sent
<1> QED BY Zenon, <1>5, <1>9
-----------------------------------------------------------------------------
(* What Read has returned.                                                 *)

(* Packets that move on the way to the channel, and old ones that Read     *)
(* drops, do not matter to it.                                             *)
LEMMA DeliversSame ==
  ASSUME NEW cut, Delivers(cut), UNCHANGED <<seq, nextSeq, getSession, delivered, torn>>,
         resent \subseteq resent', heap'[getSession] \subseteq heap[getSession],
         \A p \in Unread' : \E r \in Unread : r.seq = p.seq
  PROVE  Delivers(cut)'
<1>1. resent' \cap torn' = {} => resent \cap torn = {}
  BY Zenon
<1> SUFFICES ASSUME resent \cap torn = {}, getSession # None
             PROVE  Resumes(getSession, nextSeq[getSession], Len(delivered), cut)'
  BY Zenon, <1>1 DEF Delivers
<1>2. Resumes(getSession, nextSeq[getSession], Len(delivered), cut)
  BY Zenon DEF Delivers
<1>3. \A p \in heap'[getSession] : p \in heap[getSession]
  BY Zenon
<1> QED BY Zenon, <1>2, <1>3 DEF Resumes

(* A new POST comes after all that it has returned.                        *)
LEMMA DeliversPost ==
  ASSUME NEW cut \in Cuts, NEW new, UploadTypes, Sent(cut), Numbered, Delivers(cut), PostPacket,
         Unread' = Unread \cup {[seq |-> seq, copy |-> 0, payload |-> data]},
         \A i \in 0..seq : new[i] = cut[i]
  PROVE  Delivers(new)'
<1> DEFINE q == getSession
           k == nextSeq[q]
           n == Len(delivered)
<1>1. seq' = seq + 1 /\ UNCHANGED <<heap, nextSeq, getSession, delivered, torn, resent>>
  BY Zenon DEF PostPacket, queueVars, getVars
<1> SUFFICES ASSUME resent \cap torn = {}, q # None PROVE Resumes(q, k, n, new)'
  BY Zenon, <1>1 DEF Delivers
<1>2. Resumes(q, k, n, cut)
  BY Zenon DEF Delivers
<1>3. q \in Queues /\ k \in Nat /\ n \in Nat /\ seq \in Nat /\ heap[q] \subseteq Packets
  BY DEF UploadTypes, Sessions
<1>4. k \in 0..seq /\ k <= seq /\ new[k] = cut[k] /\ k <= seq' /\ new[k] <= n
  BY <1>1, <1>2, <1>3 DEF Resumes
<1>5. \A p \in heap[q] : p.seq \in 0..seq /\ p.seq + 1 \in 0..seq
  <2> SUFFICES ASSUME NEW p \in heap[q] PROVE p.seq \in 0..seq /\ p.seq + 1 \in 0..seq
    BY Zenon
  <2>1. p \in Heaped
    BY Zenon, <1>3 DEF Heaped
  <2>2. p.seq \in Nat /\ p.seq < seq
    BY Zenon, <1>3, <2>1 DEF Numbered, Packets
  <2> QED BY <1>3, <2>2
<1>6. ASSUME n # new[k]
      PROVE  k < seq' /\ k \in torn /\ n < new[k + 1] /\ \A p \in Unread' : p.seq # k
  <2>1. k < seq /\ k \in torn /\ n < cut[k + 1] /\ \A p \in Unread : p.seq # k
    BY Zenon, <1>2, <1>4, <1>6 DEF Resumes
  <2>2. k + 1 \in 0..seq /\ k < seq' /\ k # seq
    BY <1>1, <1>3, <2>1
  <2>3. \A p \in Unread' : p.seq # k
    BY <2>1, <2>2
  <2> QED BY Zenon, <2>1, <2>2, <2>3
<1>7. ASSUME NEW p \in heap[q]
      PROVE  /\ p.seq = k => Spans(p.payload, n, new[k + 1])
             /\ p.seq > k => Spans(p.payload, new[p.seq], new[p.seq + 1])
  <2>1. new[p.seq] = cut[p.seq] /\ new[p.seq + 1] = cut[p.seq + 1]
    BY Zenon, <1>5
  <2> QED BY Zenon, <2>1, <1>2 DEF Resumes
<1>8. \A i \in 1..n : delivered[i] = i
  BY Zenon, <1>2 DEF Resumes
<1> HIDE DEF k, n
<1> QED BY Zenon, <1>1, <1>4, <1>6, <1>7, <1>8 DEF Resumes, k, n

(* The packet that comes out of the channel fits to what was returned:     *)
(* none does while another one is read in parts.                           *)
LEMMA DeliversReceive ==
  ASSUME NEW cut \in Cuts, Sent(cut), Delivers(cut), NEW packet \in Unread,
         heap'[getSession] = heap[getSession] \cup {packet}, Unread' \subseteq Unread,
         UNCHANGED <<seq, resent, nextSeq, getSession, delivered, torn>>
  PROVE  Delivers(cut)'
<1> DEFINE q == getSession
           k == nextSeq[q]
           n == Len(delivered)
<1> SUFFICES ASSUME resent \cap torn = {}, q # None PROVE Resumes(q, k, n, cut)'
  BY Zenon DEF Delivers
<1>1. Resumes(q, k, n, cut)
  BY Zenon DEF Delivers
<1>2. packet.seq = k => n = cut[k]
  BY Zenon, <1>1 DEF Resumes
<1>3. Spans(packet.payload, cut[packet.seq], cut[packet.seq + 1])
  BY Zenon DEF Sent
<1>4. ASSUME NEW p \in heap'[q]
      PROVE  /\ p.seq = k => Spans(p.payload, n, cut[k + 1])
             /\ p.seq > k => Spans(p.payload, cut[p.seq], cut[p.seq + 1])
  <2>1. CASE p \in heap[q]
    BY Zenon, <2>1, <1>1 DEF Resumes
  <2>2. CASE p = packet
    BY Zenon, <2>2, <1>2, <1>3
  <2> QED BY Zenon, <2>1, <2>2
<1> HIDE DEF k, n
<1> QED BY Zenon, <1>1, <1>4 DEF Resumes, k, n

(* Read returns the first m buffers of the next packet: all of it, and     *)
(* goes on to the one after, or a part.  Then a packet that was not sent   *)
(* twice is nowhere else, and only what is left of it goes on.             *)
LEMMA DeliversRead ==
  ASSUME NEW cut \in Cuts, UploadTypes, Sent(cut), OnePlace, Numbered, Delivers(cut),
         getSession \in Queues, NEW packet \in heap[getSession],
         NEW m \in 1..Len(packet.payload), ReadPacket(getSession, packet, m),
         delivered' = delivered \o SubSeq(packet.payload, 1, m),
         torn' = IF m < Len(packet.payload) THEN torn \cup {packet.seq} ELSE torn,
         Unread' = Unread, UNCHANGED <<seq, resent, getSession>>
  PROVE  Delivers(cut)'
<1> DEFINE q == getSession
           k == nextSeq[q]
           n == Len(delivered)
           w == Len(packet.payload)
           rest == SubSeq(packet.payload, m + 1, w)
           others == Current(q, heap[q]) \ {packet}
           left == [packet EXCEPT !.payload = rest]
<1> SUFFICES ASSUME resent \cap torn' = {}, q # None
             PROVE  Resumes(q, nextSeq[q], Len(delivered), cut)'
  BY Zenon DEF Delivers
<1>1. Resumes(q, k, n, cut)
  <2>1. resent \cap torn = {}
    BY Zenon
  <2> QED BY Zenon, <2>1 DEF Delivers
<1>t. /\ heap[q] \subseteq Packets /\ packet \in Packets /\ delivered \in Seq(Nat)
      /\ heap \in [Queues -> SUBSET Packets] /\ nextSeq \in [Queues -> Nat]
      /\ cut \in [0..MaxWrites -> 0..MaxWrites]
  BY Zenon DEF UploadTypes, Sessions, Cuts
<1>a. k \in Nat /\ seq \in Nat /\ MaxWrites \in Nat /\ seq <= MaxWrites
  BY Zenon, PipeAssumption, <1>t DEF UploadTypes, Sent
<1>n. n \in Nat
  BY <1>t
<1>2. packet.payload \in Seq(Nat) /\ packet.seq = k /\ packet.seq \in Nat /\ w \in Nat
  BY <1>t DEF Packets, ReadPacket
<1>3. packet \in Heaped /\ \A p \in others : p \in Heaped /\ p # packet
  BY Zenon DEF Heaped, Current
<1>4. k < seq /\ (packet.copy = 1 => k \in resent)
  BY Zenon, <1>2, <1>3 DEF Numbered
<1>5. cut[k] \in Nat /\ cut[k + 1] \in Nat /\ k + 1 <= seq
  <2>1. k \in 0..MaxWrites /\ k + 1 \in 0..MaxWrites
    <3> HIDE DEF k
    <3> QED BY <1>4, <1>a
  <2>2. cut[k] \in 0..MaxWrites /\ cut[k + 1] \in 0..MaxWrites
    BY Zenon, <2>1, <1>t
  <2> HIDE DEF k
  <2> QED BY <2>2, <1>a, <1>4
<1>6. Spans(packet.payload, n, cut[k + 1]) /\ cut[k] <= n /\ w = cut[k + 1] - n
  BY Zenon, <1>1, <1>2 DEF Resumes, Spans
<1>7. /\ SubSeq(packet.payload, 1, m) \in Seq(Nat) /\ rest \in Seq(Nat)
      /\ Spans(SubSeq(packet.payload, 1, m), n, n + m) /\ Spans(rest, n + m, cut[k + 1])
  BY Zenon, <1>2, <1>5, <1>6, <1>n, SpansSplit
<1>8. Len(delivered') = n + m /\ \A i \in 1..Len(delivered') : delivered'[i] = i
  <2>1. m \in Nat /\ \A i \in 1..n : delivered[i] = i
    BY <1>1, <1>2 DEF Resumes
  <2> QED BY Zenon, <2>1, <1>7, <1>n, <1>t, SpansConcat
<1>9. \A p \in others : p \in heap[q] /\ p.seq >= k
  BY Zenon DEF Current
<1>10. CASE m = w
  <2>1. rest = <<>>
    BY <1>2, <1>10, SubSeqEmpty
  <2>2. heap'[q] = others /\ nextSeq'[q] = k + 1
    BY Zenon, <2>1, <1>t, <1>2 DEF ReadPacket
  <2>3. Len(delivered') = cut[k + 1]
    <3> HIDE DEF n, k, w
    <3>1. Len(delivered') = n + w /\ w = cut[k + 1] - n
      BY Zenon, <1>6, <1>8, <1>10
    <3> QED BY <3>1, <1>5, <1>n
  <2>4. ASSUME NEW p \in others, p.seq >= k + 1
        PROVE  Spans(p.payload, cut[p.seq], cut[p.seq + 1])
    <3>0. p.seq \in Nat
      BY Zenon, <1>9, <1>t DEF Packets
    <3>1. p.seq > k
      BY <2>4, <3>0, <1>a
    <3> QED BY Zenon, <3>1, <1>1, <1>9 DEF Resumes
  <2>5. ASSUME NEW p \in others
        PROVE  /\ p.seq = k + 1 => Spans(p.payload, cut[k + 1], cut[(k + 1) + 1])
               /\ p.seq > k + 1 => Spans(p.payload, cut[p.seq], cut[p.seq + 1])
    <3>1. p.seq \in Nat /\ (p.seq = k + 1 \/ p.seq > k + 1 => p.seq >= k + 1)
      <4>1. p.seq \in Nat
        BY Zenon, <1>9, <1>t DEF Packets
      <4> QED BY <4>1, <1>a
    <3> QED BY Zenon, <3>1, <2>4
  <2>6. k + 1 <= seq' /\ cut[k + 1] <= Len(delivered')
    BY <2>3, <1>5
  <2> HIDE DEF others
  <2> QED BY Zenon, <2>2, <2>3, <2>5, <2>6, <1>8 DEF Resumes
<1>11. CASE m < w
  <2>1. rest # <<>>
    <3>1. Len(rest) = cut[k + 1] - (n + m)
      BY Zenon, <1>7 DEF Spans
    <3> HIDE DEF n, k, w, rest
    <3>2. Len(rest) # 0
      BY <3>1, <1>2, <1>5, <1>6, <1>11, <1>n
    <3> QED BY <3>2
  <2>2. heap'[q] = others \cup {left} /\ nextSeq'[q] = k
    BY Zenon, <2>1, <1>t DEF ReadPacket
  <2>3. torn' = torn \cup {k} /\ k \notin resent
    BY Zenon, <1>2, <1>11
  <2>4. ASSUME NEW p \in Unread \cup Heaped, p.seq = k PROVE Same(p, packet)
    <3>1. p \in Packets
      BY Zenon, <2>4, PacketsOnly
    <3>2. p.copy \in {0, 1} /\ packet.copy \in {0, 1}
      BY Zenon, <3>1, <1>t DEF Packets
    <3>3. p.copy # 1 /\ packet.copy # 1
      BY Zenon, <2>3, <2>4, <1>4 DEF Numbered
    <3> QED BY Zenon, <3>2, <3>3, <2>4, <1>2 DEF Same
  <2>5. \A p \in Unread : p.seq # k
    BY Zenon, <2>4, <1>3 DEF OnePlace, Apart
  <2>6. \A p \in others : p.seq # k
    BY Zenon, <2>4, <1>3 DEF OnePlace, Distinct
  <2>7. left.seq = k /\ left.payload = rest
    BY Zenon, <1>2, <1>t DEF Packets
  <2>8. Len(delivered') < cut[k + 1] /\ cut[k] <= Len(delivered') /\ k <= seq' /\ k < seq'
    <3> HIDE DEF n, k, w
    <3>1. Len(delivered') = n + m /\ w = cut[k + 1] - n /\ cut[k] <= n /\ seq' = seq
      BY Zenon, <1>6, <1>8
    <3>2. m \in Nat /\ w \in Nat
      BY <1>2, <1>11
    <3> DEFINE a == cut[k]
               b == cut[k + 1]
    <3>3. a \in Nat /\ b \in Nat /\ w = b - n /\ a <= n
      BY Zenon, <3>1, <1>5
    <3> HIDE DEF a, b
    <3>4. n + m < b /\ a <= n + m /\ k <= seq
      BY <3>2, <3>3, <1>4, <1>11, <1>n, <1>a
    <3> QED BY Zenon, <3>1, <3>4, <1>4 DEF a, b
  <2>9. ASSUME NEW p \in heap'[q]
        PROVE  /\ p.seq = k => Spans(p.payload, Len(delivered'), cut[k + 1])
               /\ p.seq > k => Spans(p.payload, cut[p.seq], cut[p.seq + 1])
    <3>1. CASE p \in others
      BY Zenon, <3>1, <2>6, <1>1, <1>9 DEF Resumes
    <3>2. CASE p = left
      <4>1. ~(k > k)
        BY <1>a
      <4> QED BY Zenon, <4>1, <3>2, <2>7, <1>7, <1>8
    <3> QED BY Zenon, <3>1, <3>2, <2>2
  <2> HIDE DEF others, left
  <2> QED BY Zenon, <2>2, <2>3, <2>5, <2>8, <2>9, <1>8 DEF Resumes
<1>12. m = w \/ m < w
  BY <1>2
<1> QED BY Zenon, <1>10, <1>11, <1>12

(* The handler of the GET begins with an empty queue (ServeHTTP).          *)
LEMMA DeliversStart ==
  ASSUME NEW cut, UploadTypes, Sent(cut), getSession = None, getSession' \in Queues,
         UNCHANGED <<seq, heap, nextSeq, delivered>>
  PROVE  Delivers(cut)'
<1> DEFINE s == getSession'
<1>1. s # None
  BY Zenon, SessionsAreSome
<1>2. delivered' = <<>> /\ heap'[s] = {} /\ nextSeq'[s] = 0
  BY Zenon, <1>1 DEF UploadTypes
<1>3. Len(delivered') = 0 /\ 0 <= seq' /\ cut[0] <= 0 /\ 1..0 = {} /\ cut[0] = 0
  BY <1>2 DEF UploadTypes, Sent
<1>4. \A i \in 1..Len(delivered') : delivered'[i] = i
  BY Zenon, <1>3
<1> QED BY Zenon, <1>2, <1>3, <1>4 DEF Delivers, Resumes
-----------------------------------------------------------------------------
(* The steps.                                                              *)

(* Every step keeps the types, and only the queue of the GET is read.      *)
LEMMA UploadTypesStep == ASSUME UploadTypes, [Next]_vars PROVE UploadTypes'
<1> USE DEF UploadTypes, Sessions, pipeVars, queueVars, clientVars, postVars, sessionVars, getVars
<1>1. CASE AppStep
  <2>1. data' \in Seq(Nat) /\ written' \in Nat
    <3>1. data \in Seq(Nat) /\ written \in Nat
      BY Zenon
    <3>2. \/ data' = Append(data, written + 1) /\ written' = written + 1
          \/ UNCHANGED <<data, written>>
      BY Zenon, <1>1 DEF AppStep, PipeWrite, PipeClose
    <3> HIDE DEF UploadTypes
    <3>3. written + 1 \in Nat
      BY <3>1
    <3>4. Append(data, written + 1) \in Seq(Nat)
      BY <3>1, <3>3
    <3> QED BY Zenon, <3>1, <3>2, <3>3, <3>4
  <2> QED BY Zenon, <1>1, <2>1 DEF AppStep
<1>2. CASE PostPacket
  <2>1. [seq |-> seq, copy |-> 0, payload |-> data] \in Packets
    BY Zenon DEF Packets
  <2> QED BY <1>2, <2>1 DEF PostPacket, PipeRead
<1>3. CASE PostFail
  BY <1>3 DEF PostFail, PipeInterrupt
<1>4. ASSUME NEW packet \in flight, PostRetry(packet) PROVE UploadTypes'
  <2>1. [packet EXCEPT !.copy = 1] \in Packets
    BY Zenon DEF Packets
  <2> QED BY Zenon, <1>4, <2>1 DEF PostRetry
<1>5. ASSUME NEW packet \in flight, ServePost(packet) PROVE UploadTypes'
  <2>1. PICK s \in Sessions : serving' = serving \cup {[packet |-> packet, session |-> s]}
    BY Zenon, <1>5 DEF ServePost
  <2>2. [packet |-> packet, session |-> s] \in [packet : Packets, session : Sessions]
    OBVIOUS
  <2> QED BY Zenon, <1>5, <2>1, <2>2 DEF ServePost
<1>l. ASSUME NEW packet \in flight, PostLost(packet) \/ ServeDrop(packet) PROVE UploadTypes'
  BY Zenon, <1>l DEF PostLost, ServeDrop, Lose
<1>6. ASSUME NEW p \in serving, ServePush(p) PROVE UploadTypes'
  <2>1. serving' \subseteq serving
    BY Zenon, <1>6 DEF ServePush
  <2>2. pushed' \in [Queues -> Seq(Packets)]
    <3>1. p.packet \in Packets
      OBVIOUS
    <3>2. UNCHANGED pushed \/ pushed' = [pushed EXCEPT ![p.session] = Append(@, p.packet)]
      BY Zenon, <1>6 DEF ServePush, PushLock, PushRefused, PushSend
    <3> DEFINE longer == Append(pushed[p.session], p.packet)
    <3>3. p.session \in Queues /\ longer \in Seq(Packets)
      BY <3>1
    <3> HIDE DEF longer
    <3>4. CASE pushed' = [pushed EXCEPT ![p.session] = longer]
      BY Zenon, <3>3, <3>4
    <3> QED BY Zenon, <3>2, <3>4 DEF longer
  <2>3. UNCHANGED <<heap, nextSeq>>
    BY Zenon, <1>6 DEF ServePush, PushLock, PushRefused, PushSend
  <2> QED BY Zenon, <1>6, <2>1, <2>2, <2>3 DEF ServePush
<1>7. ASSUME NEW s \in Sessions, ReapTimeout(s) \/ ReapOff(s) PROVE UploadTypes'
  BY Zenon, <1>7 DEF ReapTimeout, ReapOff
<1>8. ASSUME NEW s \in Sessions, ReapClose(s) PROVE UploadTypes'
  BY <1>8 DEF ReapClose, QueueClose
<1>9. CASE ServeGet
  <2>1. getSession' \in Queues /\ get' = "serving" /\ getSession = None
    BY Zenon, <1>9 DEF ServeGet
  <2>2. getSession' # None
    BY Zenon, <2>1, SessionsAreSome
  <2>3. \A q \in Queues : heap[q] = {} /\ nextSeq[q] = 0
    BY Zenon, <2>1, SessionsAreSome
  <2> QED BY Zenon, <1>9, <2>1, <2>2, <2>3 DEF ServeGet
<1>10. CASE GetFail \/ GetEnd \/ GetDelete
  BY Zenon, <1>10 DEF GetFail, GetEnd, GetDelete
<1>11. CASE GetClose
  <2>1. pushed' \in [Queues -> Seq(Packets)]
    <3>1. <<>> \in Seq(Packets)
      OBVIOUS
    <3> QED BY Zenon, <3>1, <1>11 DEF GetClose, QueueClose
  <2> QED BY Zenon, <1>11, <2>1 DEF GetClose, QueueClose
<1>12. CASE GetRead
  <2>g. /\ get = "serving" /\ getSession \in Queues
        /\ UNCHANGED <<data, written, seq, flight, serving, get, getSession>>
    BY Zenon, <1>12 DEF GetRead, GetOnly
  <2> DEFINE q == getSession
  <2> SUFFICES /\ pushed' \in [Queues -> Seq(Packets)] /\ heap' \in [Queues -> SUBSET Packets]
               /\ nextSeq' \in [Queues -> Nat] /\ delivered' \in Seq(Nat)
               /\ \A o \in Queues : o # q => heap'[o] = heap[o] /\ nextSeq'[o] = nextSeq[o]
    BY Zenon, <2>g
  <2>1. CASE (QueueRead(q) \/ ReadEOF(q)) /\ UNCHANGED delivered
    BY Zenon, <2>1 DEF QueueRead, ReadEOF
  <2>2. CASE ReadReceive(q) /\ UNCHANGED delivered
    <3>1. /\ pushed[q] \in Seq(Packets) /\ pushed[q] # <<>>
          /\ heap' = [heap EXCEPT ![q] = @ \cup {Head(pushed[q])}]
          /\ pushed' = [pushed EXCEPT ![q] = Tail(@)] /\ UNCHANGED nextSeq
      BY Zenon, <2>2, <2>g DEF ReadReceive
    <3> QED BY <3>1, <2>2, <2>g
  <2>3. CASE (ReadNothing(q) \/ ReadMore(q) \/ ReadTooLarge(q)) /\ UNCHANGED delivered
    <3>1. \E h \in SUBSET heap[q] : heap' = [heap EXCEPT ![q] = h]
      BY Zenon, <2>3, <2>g DEF ReadNothing, ReadMore, ReadTooLarge, Current
    <3>2. UNCHANGED <<pushed, nextSeq>>
      BY Zenon, <2>3 DEF ReadNothing, ReadMore, ReadTooLarge
    <3> QED BY Zenon, <3>1, <3>2, <2>3, <2>g
  <2>4. ASSUME NEW pk \in heap[q], NEW n \in 1..Len(pk.payload), ReadPacket(q, pk, n),
               delivered' = delivered \o SubSeq(pk.payload, 1, n)
        PROVE  /\ pushed' \in [Queues -> Seq(Packets)] /\ heap' \in [Queues -> SUBSET Packets]
               /\ nextSeq' \in [Queues -> Nat] /\ delivered' \in Seq(Nat)
               /\ \A o \in Queues : o # q => heap'[o] = heap[o] /\ nextSeq'[o] = nextSeq[o]
    <3> DEFINE rest == SubSeq(pk.payload, n + 1, Len(pk.payload))
               left == [pk EXCEPT !.payload = rest]
    <3>1. pk \in Packets /\ pk.payload \in Seq(Nat) /\ pk.seq + 1 \in Nat
      BY <2>g DEF Packets
    <3>2. SubSeq(pk.payload, 1, n) \in Seq(Nat) /\ rest \in Seq(Nat)
      <4> HIDE DEF UploadTypes
      <4>1. /\ \A i \in 1..n : pk.payload[i] \in Nat
            /\ \A i \in (n + 1)..Len(pk.payload) : pk.payload[i] \in Nat
        BY <3>1
      <4>2. n \in Int /\ n + 1 \in Int /\ Len(pk.payload) \in Int /\ 1 \in Int
        BY <3>1
      <4> QED BY Zenon, <4>1, <4>2, SubSeqProperties
    <3>3. delivered' \in Seq(Nat)
      BY <3>2, <2>4
    <3> HIDE DEF rest
    <3>4. left \in Packets
      BY Zenon, <3>1, <3>2 DEF Packets
    <3> HIDE DEF left
    <3>5. Current(q, heap[q]) \ {pk} \subseteq Packets /\ UNCHANGED pushed
      BY Zenon, <2>4, <2>g DEF ReadPacket, Current
    <3>6. \/ /\ heap' = [heap EXCEPT ![q] = Current(q, heap[q]) \ {pk}]
             /\ nextSeq' = [nextSeq EXCEPT ![q] = pk.seq + 1]
          \/ /\ heap' = [heap EXCEPT ![q] = (Current(q, heap[q]) \ {pk}) \cup {left}]
             /\ UNCHANGED nextSeq
      BY Zenon, <2>4 DEF ReadPacket, rest, left
    <3> DEFINE others == Current(q, heap[q]) \ {pk}
    <3>7. others \in SUBSET Packets /\ others \cup {left} \in SUBSET Packets
      BY Zenon, <3>4, <3>5
    <3> HIDE DEF others
    <3>8. CASE heap' = [heap EXCEPT ![q] = others] /\ nextSeq' = [nextSeq EXCEPT ![q] = pk.seq + 1]
      BY Zenon, <3>1, <3>3, <3>5, <3>7, <3>8, <2>g
    <3>9. CASE heap' = [heap EXCEPT ![q] = others \cup {left}] /\ UNCHANGED nextSeq
      BY Zenon, <3>3, <3>5, <3>7, <3>9, <2>g
    <3> QED BY Zenon, <3>6, <3>8, <3>9 DEF others
  <2> QED BY Zenon, <1>12, <2>1, <2>2, <2>3, <2>4 DEF GetRead
<1>13. CASE UNCHANGED vars
  BY Zenon, <1>13 DEF vars
<1> HIDE DEF UploadTypes
<1> QED
  BY Zenon, <1>1, <1>2, <1>3, <1>4, <1>5, <1>6, <1>7, <1>8, <1>9, <1>10, <1>11, <1>12, <1>13, <1>l DEF Next

(* A new connection has written, sent and read nothing.                    *)
LEMMA UploadInit == Init => UploadInv
<1> SUFFICES ASSUME Init PROVE UploadInv
  OBVIOUS
<1> DEFINE cut == [i \in 0..MaxWrites |-> 0]
<1>1. UploadTypes
  BY DEF Init, PipeInit, QueueInit, UploadTypes, Sessions
<1>2. flight = {} /\ Handled = {} /\ Queued = {} /\ Heaped = {} /\ serving = {}
  BY DEF Init, QueueInit, Handled, Queued, Heaped
<1>3. Unread = {}
  BY Zenon, <1>2 DEF Unread
<1>4. OnePlace /\ Numbered
  <2>1. QueuedOnce
    BY DEF QueuedOnce, Init, QueueInit
  <2> QED BY Zenon, <1>2, <1>3, <2>1 DEF OnePlace, Numbered, HandledOnce, Distinct, Apart
<1>5. cut \in Cuts /\ cut[0] = 0
  BY PipeAssumption DEF Cuts
<1>6. seq = 0 /\ written = 0 /\ data = <<>> /\ MaxWrites \in Nat /\ getSession = None
  BY Zenon, PipeAssumption DEF Init, PipeInit
<1> HIDE DEF cut
<1>7. Sent(cut)
  BY <1>3, <1>5, <1>6 DEF Sent, Spans
<1>8. Delivers(cut)
  BY Zenon, <1>6 DEF Delivers
<1> QED BY Zenon, <1>1, <1>4, <1>5, <1>7, <1>8 DEF UploadInv

(* Whatever leaves the pipe and what was read alone, and only moves, drops *)
(* or repeats packets.                                                     *)
LEMMA UploadSame ==
  ASSUME UploadInv, [Next]_vars, OnePlace',
         UNCHANGED <<pipeVars, seq, nextSeq, getSession, delivered, torn>>,
         \A q \in Queues : heap'[q] \subseteq heap[q], resent \subseteq resent',
         \A p \in Unread' : \E r \in Unread : r.seq = p.seq /\ r.payload = p.payload,
         Numbered'
  PROVE  UploadInv'
<1>1. PICK cut \in Cuts : Sent(cut) /\ Delivers(cut)
  BY Zenon DEF UploadInv
<1>2. Sent(cut)'
  BY Zenon, <1>1, SentSame
<1>3. Delivers(cut)'
  <2>1. CASE getSession \in Queues
    BY Zenon, <2>1, <1>1, DeliversSame
  <2>2. CASE getSession = None
    BY Zenon, <2>2 DEF Delivers
  <2> QED BY Zenon, <2>1, <2>2 DEF UploadInv, UploadTypes, Sessions
<1>4. UploadTypes'
  BY Zenon, UploadTypesStep DEF UploadInv
<1> QED BY Zenon, <1>1, <1>2, <1>3, <1>4 DEF UploadInv

(* Every step of the client, of the requests and of the server preserves   *)
(* the invariant.                                                          *)
LEMMA UploadStep == ASSUME UploadInv, [Next]_vars PROVE UploadInv'
<1>i. UploadTypes /\ OnePlace /\ Numbered
  BY Zenon DEF UploadInv
<1>c. PICK cut \in Cuts : Sent(cut) /\ Delivers(cut)
  BY Zenon DEF UploadInv
<1>t. UploadTypes'
  BY Zenon, <1>i, UploadTypesStep
<1>s. \A p, r : Same(p, p) /\ (Same(p, r) => p.seq = r.seq)
  BY Zenon DEF Same
(* What only drops packets. *)
<1>d. ASSUME flight' \subseteq flight, serving' \subseteq serving,
             \A q \in Queues : pushed'[q] = pushed[q] \/ pushed'[q] = <<>>,
             \A q \in Queues : heap'[q] \subseteq heap[q],
             UNCHANGED <<pipeVars, clientVars, nextSeq, getSession, delivered, torn>>
      PROVE  UploadInv'
  <2>1. Heaped' \subseteq Heaped
    BY Zenon, <1>d DEF Heaped
  <2>2. OnePlace' /\ Unread' \subseteq Unread
    BY Zenon, <2>1, <1>d, <1>i, OnePlaceLess
  <2>3. Numbered'
    BY Zenon, <2>1, <2>2, <1>d, <1>i, <1>s, NumberedSame DEF clientVars
  <2> QED BY Zenon, <2>2, <2>3, <1>d, UploadSame DEF clientVars
<1>1. CASE AppStep
  <2>1. /\ UNCHANGED <<flight, serving, pushed, heap, seq, resent, nextSeq, getSession, delivered, torn>>
        /\ PipeWrite \/ PipeClose
    BY Zenon, <1>1 DEF AppStep, queueVars, clientVars, postVars, getVars
  <2>2. Handled' = Handled /\ Queued' = Queued /\ Heaped' = Heaped
    BY <2>1 DEF Handled, Queued, Heaped
  <2>3. Unread' = Unread
    BY Zenon, <2>1, <2>2 DEF Unread
  <2>4. OnePlace' /\ Numbered'
    BY Zenon, <2>1, <2>2, <2>3, <1>i DEF OnePlace, Numbered, HandledOnce, QueuedOnce
  <2>5. Sent(cut)'
    BY Zenon, <2>1, <2>3, <1>c, <1>i, SentPipe
  <2>6. Delivers(cut)'
    BY Zenon, <2>1, <2>3, <1>c, DeliversSame
  <2> QED BY Zenon, <2>4, <2>5, <2>6, <1>t DEF UploadInv
<1>2. CASE PostPacket
  <2> DEFINE packet == [seq |-> seq, copy |-> 0, payload |-> data]
  <2>1. /\ UNCHANGED <<serving, pushed, heap, resent>> /\ flight' = flight \cup {packet}
        /\ seq' = seq + 1
    BY Zenon, <1>2 DEF PostPacket, queueVars
  <2>2. \A p \in Unread \cup Heaped : p.seq \in Nat /\ p.seq < seq
    <3>1. Unread \cup Heaped \subseteq Packets
      BY Zenon, <1>i, PacketsOnly
    <3> QED BY Zenon, <3>1, <1>i DEF Numbered, Packets
  <2>3. seq \in Nat
    BY Zenon, <1>i DEF UploadTypes
  <2>4. packet.seq = seq /\ packet.copy = 0
    OBVIOUS
  <2>5. \A p \in Unread \cup Heaped : ~Same(p, packet)
    BY <2>2, <2>3, <2>4 DEF Same
  <2> HIDE DEF packet
  <2>6. OnePlace' /\ Unread' = Unread \cup {packet} /\ Heaped' = Heaped
    BY Zenon, <2>1, <2>5, <1>i, OnePlaceMore
  <2>7. Numbered'
    <3>1. \A p \in Unread \cup Heaped : p.seq < seq'
      BY <2>1, <2>2, <2>3
    <3>2. packet.seq < seq' /\ packet.copy # 1
      BY <2>1, <2>3, <2>4
    <3> QED BY Zenon, <3>1, <3>2, <2>1, <2>6, <1>i DEF Numbered
  <2>8. PICK new \in Cuts : Sent(new)' /\ \A i \in 0..seq : new[i] = cut[i]
    BY Zenon, <2>6, <1>2, <1>i, <1>c, SentPost DEF packet
  <2>9. Delivers(new)'
    BY Zenon, <2>6, <2>8, <1>2, <1>i, <1>c, DeliversPost DEF packet
  <2> QED BY Zenon, <2>6, <2>7, <2>8, <2>9, <1>t DEF UploadInv
<1>3. CASE PostFail
  <2>1. /\ UNCHANGED <<serving, pushed, heap, seq, resent, nextSeq, getSession, delivered, torn>>
        /\ flight' \subseteq flight /\ PipeInterrupt
    BY Zenon, <1>3 DEF PostFail, queueVars, clientVars, getVars
  <2>2. Heaped' = Heaped
    BY Zenon, <2>1 DEF Heaped
  <2>3. OnePlace' /\ Unread' \subseteq Unread
    BY Zenon, <2>1, <2>2, <1>i, OnePlaceLess
  <2>4. Numbered'
    BY Zenon, <2>1, <2>2, <2>3, <1>i, <1>s, NumberedSame
  <2>5. Sent(cut)'
    BY Zenon, <2>1, <2>3, <1>c, <1>i, SentPipe
  <2>6. Delivers(cut)'
    BY Zenon, <2>1, <2>3, <1>c, DeliversSame
  <2> QED BY Zenon, <2>3, <2>4, <2>5, <2>6, <1>t DEF UploadInv
<1>4. ASSUME NEW packet \in flight, PostRetry(packet) PROVE UploadInv'
  <2> DEFINE new == [packet EXCEPT !.copy = 1]
  <2>1. /\ UNCHANGED <<pipeVars, serving, pushed, heap, seq, nextSeq, getSession, delivered, torn>>
        /\ packet.seq \notin resent /\ resent' = resent \cup {packet.seq}
        /\ flight' = flight \cup {new}
    BY Zenon, <1>4 DEF PostRetry, queueVars, getVars
  <2>2. packet \in Packets /\ packet \in Unread
    BY Zenon, <1>i DEF UploadTypes, Unread
  <2>3. new.seq = packet.seq /\ new.copy = 1 /\ new.payload = packet.payload
    BY Zenon, <2>2 DEF Packets
  <2> HIDE DEF new
  <2>4. \A p \in Unread \cup Heaped : ~Same(p, new)
    BY Zenon, <2>1, <2>3, <1>i DEF Numbered, Same
  <2>5. OnePlace' /\ Unread' = Unread \cup {new} /\ Heaped' = Heaped
    BY Zenon, <2>1, <2>4, <1>i, OnePlaceMore
  <2>6. Numbered'
    BY Zenon, <2>1, <2>2, <2>3, <2>5, <1>i DEF Numbered
  <2>7. \A p \in Unread' : \E r \in Unread : r.seq = p.seq /\ r.payload = p.payload
    BY Zenon, <2>2, <2>3, <2>5
  <2> QED BY Zenon, <2>1, <2>5, <2>6, <2>7, UploadSame
<1>5. ASSUME NEW packet \in flight, ServePost(packet) PROVE UploadInv'
  <2>1. /\ UNCHANGED <<pipeVars, pushed, heap, seq, resent, nextSeq, getSession, delivered, torn>>
        /\ flight' = flight \ {packet}
    BY Zenon, <1>5 DEF ServePost, queueVars, clientVars, getVars
  <2>2. PICK s \in Sessions : serving' = serving \cup {[packet |-> packet, session |-> s]}
    BY Zenon, <1>5 DEF ServePost
  <2>3. OnePlace' /\ Unread' = Unread /\ Heaped' = Heaped
    BY Zenon, <2>1, <2>2, <1>i, OnePlaceServe
  <2>4. Numbered'
    BY Zenon, <2>1, <2>3, <1>i, <1>s, NumberedSame
  <2> QED BY Zenon, <2>1, <2>3, <2>4, UploadSame
<1>l. ASSUME NEW packet \in flight, PostLost(packet) \/ ServeDrop(packet) PROVE UploadInv'
  <2>1. /\ UNCHANGED <<pipeVars, clientVars, serving, pushed, heap, nextSeq>>
        /\ UNCHANGED <<getSession, delivered, torn>>
    BY Zenon, <1>l DEF PostLost, ServeDrop, queueVars, getVars
  <2>2. flight' \subseteq flight
    BY Zenon, <1>l DEF PostLost, ServeDrop, Lose
  <2> QED BY Zenon, <2>1, <2>2, <1>d
<1>6. ASSUME NEW p \in serving, ServePush(p) PROVE UploadInv'
  <2>1. UNCHANGED <<pipeVars, clientVars, flight, heap, nextSeq, getSession, delivered, torn>>
    BY Zenon, <1>6 DEF ServePush, PushLock, PushRefused, PushSend, queueVars, getVars
  <2>2. CASE UNCHANGED pushed
    <3>1. serving' \subseteq serving
      BY Zenon, <1>6 DEF ServePush
    <3> QED BY Zenon, <3>1, <2>1, <2>2, <1>d
  <2>3. CASE PushSend(p.session, p.packet) /\ serving' = serving \ {p}
    <3>1. p.session \in Queues
      BY Zenon, <1>i DEF UploadTypes, Sessions
    <3>2. OnePlace' /\ Unread' \subseteq Unread /\ Heaped' = Heaped
      BY Zenon, <3>1, <2>1, <2>3, <1>i, OnePlacePush DEF PushSend
    <3>3. Numbered'
      BY Zenon, <3>2, <2>1, <1>i, <1>s, NumberedSame DEF clientVars
    <3> QED BY Zenon, <3>2, <3>3, <2>1, UploadSame DEF clientVars
  <2> QED
    BY Zenon, <1>6, <2>2, <2>3 DEF ServePush, PushLock, PushRefused, queueVars
<1>7. ASSUME NEW s \in Sessions, ReapTimeout(s) \/ ReapOff(s) PROVE UploadInv'
  BY Zenon, <1>7, <1>d DEF ReapTimeout, ReapOff, queueVars, postVars, getVars
<1>8. ASSUME NEW q, QueueClose(q), UNCHANGED <<pipeVars, clientVars, postVars>>,
             UNCHANGED <<getSession, delivered, torn>>
      PROVE  UploadInv'
  <2>1. UNCHANGED <<heap, nextSeq>> /\ pushed' = [pushed EXCEPT ![q] = <<>>]
    BY Zenon, <1>8 DEF QueueClose
  <2>2. \A o \in Queues : pushed'[o] = pushed[o] \/ pushed'[o] = <<>>
    BY Zenon, <2>1, <1>i DEF UploadTypes
  <2> QED BY Zenon, <2>1, <2>2, <1>8, <1>d DEF postVars
<1>9. ASSUME NEW s \in Sessions, ReapClose(s) PROVE UploadInv'
  BY Zenon, <1>8, <1>9 DEF ReapClose, getVars
<1>10. CASE GetClose
  BY Zenon, <1>8, <1>10 DEF GetClose
<1>11. CASE GetFail \/ GetEnd \/ GetDelete
  BY Zenon, <1>11, <1>d DEF GetFail, GetEnd, GetDelete, queueVars, postVars
<1>12. CASE ServeGet
  <2>1. /\ UNCHANGED <<pipeVars, flight, serving, pushed, heap, seq, resent, nextSeq, delivered>>
        /\ getSession = None /\ getSession' \in Queues
    BY Zenon, <1>12, <1>i DEF ServeGet, queueVars, clientVars, postVars, Sessions, UploadTypes
  <2>2. Handled' = Handled /\ Queued' = Queued /\ Heaped' = Heaped
    BY <2>1 DEF Handled, Queued, Heaped
  <2>3. Unread' = Unread
    BY Zenon, <2>1, <2>2 DEF Unread
  <2>4. OnePlace' /\ Numbered'
    BY Zenon, <2>1, <2>2, <2>3, <1>i DEF OnePlace, Numbered, HandledOnce, QueuedOnce
  <2>5. Sent(cut)'
    BY Zenon, <2>1, <2>3, <1>c, SentSame
  <2>6. Delivers(cut)'
    BY Zenon, <2>1, <1>i, <1>c, DeliversStart
  <2> QED BY Zenon, <2>4, <2>5, <2>6, <1>t, <1>c DEF UploadInv
<1>13. CASE GetRead
  <2> DEFINE q == getSession
  <2>g. /\ q \in Queues
        /\ UNCHANGED <<pipeVars, clientVars, flight, serving, getSession>>
    BY Zenon, <1>13, <1>i DEF GetRead, GetOnly, postVars, UploadTypes, Sessions
  <2>1. CASE (QueueRead(q) \/ ReadEOF(q)) /\ UNCHANGED <<delivered, torn>>
    BY Zenon, <2>1, <2>g, <1>d DEF QueueRead, ReadEOF
  <2>2. CASE ReadReceive(q) /\ UNCHANGED <<delivered, torn>>
    <3> DEFINE h == Head(pushed[q])
    <3>1. /\ pushed[q] # <<>> /\ heap' = [heap EXCEPT ![q] = @ \cup {h}]
          /\ pushed' = [pushed EXCEPT ![q] = Tail(@)] /\ UNCHANGED <<nextSeq, flight, serving>>
      BY Zenon, <2>2, <2>g DEF ReadReceive
    <3>2. OnePlace' /\ Unread' \subseteq Unread /\ h \in Unread /\ Heaped' = Heaped \cup {h}
      BY Zenon, <3>1, <2>g, <1>i, OnePlaceReceive
    <3>3. heap'[q] = heap[q] \cup {h}
      BY Zenon, <3>1, <2>g, <1>i DEF UploadTypes
    <3> HIDE DEF h
    <3>4. Numbered'
      BY Zenon, <3>2, <2>g, <1>i, <1>s, NumberedSame DEF clientVars
    <3>5. Sent(cut)'
      BY Zenon, <3>2, <2>g, <1>c, SentSame DEF clientVars
    <3>6. Delivers(cut)'
      BY Zenon, <3>1, <3>2, <3>3, <2>2, <2>g, <1>c, DeliversReceive DEF clientVars
    <3> QED BY Zenon, <3>2, <3>4, <3>5, <3>6, <1>t, <1>c DEF UploadInv
  <2>3. CASE (ReadNothing(q) \/ ReadMore(q) \/ ReadTooLarge(q)) /\ UNCHANGED <<delivered, torn>>
    <3>1. \E h \in SUBSET heap[q] : heap' = [heap EXCEPT ![q] = h]
      BY Zenon, <2>3, <2>g, <1>i DEF UploadTypes, ReadNothing, ReadMore, ReadTooLarge, Current
    <3>2. \A o \in Queues : heap'[o] \subseteq heap[o]
      BY Zenon, <3>1, <1>i DEF UploadTypes
    <3>3. UNCHANGED <<pushed, nextSeq>>
      BY Zenon, <2>3 DEF ReadNothing, ReadMore, ReadTooLarge
    <3> QED BY Zenon, <3>2, <3>3, <2>3, <2>g, <1>d
  <2>4. ASSUME NEW packet \in heap[q], NEW m \in 1..Len(packet.payload), ReadPacket(q, packet, m),
               delivered' = delivered \o SubSeq(packet.payload, 1, m),
               torn' = IF m < Len(packet.payload) THEN torn \cup {packet.seq} ELSE torn
        PROVE  UploadInv'
    <3> DEFINE left == [packet EXCEPT !.payload = SubSeq(packet.payload, m + 1, Len(packet.payload))]
    <3>1. packet \in Packets /\ packet \in Heaped
      BY Zenon, <2>g, <1>i DEF UploadTypes, Heaped
    <3>2. Same(left, packet)
      BY Zenon, <3>1 DEF Same, Packets
    <3>3. \/ heap' = [heap EXCEPT ![q] = Current(q, heap[q]) \ {packet}]
          \/ heap' = [heap EXCEPT ![q] = (Current(q, heap[q]) \ {packet}) \cup {left}]
      BY Zenon, <2>4 DEF ReadPacket
    <3> HIDE DEF left
    <3>4. heap'[q] \subseteq (heap[q] \ {packet}) \cup {left} /\ \A o \in Queues : o # q => heap'[o] = {}
      BY <3>3, <2>g, <1>i DEF UploadTypes, Current
    <3>5. Heaped' \subseteq (Heaped \ {packet}) \cup {left}
      BY Zenon, <3>4, <2>g DEF Heaped
    <3>6. UNCHANGED pushed
      BY Zenon, <2>4 DEF ReadPacket
    <3>7. OnePlace' /\ Unread' = Unread /\ \A p \in Heaped' : \E r \in Heaped : Same(p, r)
      BY Zenon, <3>1, <3>2, <3>5, <3>6, <2>g, <1>i, OnePlaceRead
    <3>8. Numbered'
      BY Zenon, <3>7, <2>g, <1>i, <1>s, NumberedSame DEF clientVars
    <3>9. Sent(cut)'
      BY Zenon, <3>7, <2>g, <1>c, SentSame DEF clientVars
    <3>10. Delivers(cut)'
      BY Zenon, <3>7, <2>4, <2>g, <1>i, <1>c, DeliversRead DEF clientVars
    <3> QED BY Zenon, <3>7, <3>8, <3>9, <3>10, <1>t, <1>c DEF UploadInv
  <2> QED BY Zenon, <1>13, <2>1, <2>2, <2>3, <2>4 DEF GetRead
<1>14. CASE UNCHANGED vars
  BY Zenon, <1>14, <1>d DEF vars, queueVars, postVars, getVars
<1> QED
  BY Zenon, <1>1, <1>2, <1>3, <1>4, <1>5, <1>6, <1>7, <1>9, <1>10, <1>11, <1>12, <1>13, <1>14, <1>l DEF Next

(* However POSTs overtake one another, fail or are sent again, and for any *)
(* number and size of the buffers, sessions and retries: what the server   *)
(* reads is a prefix of what was written, unless a POST that is sent twice *)
(* is read in parts as well (uploadQueue.Read).                            *)
THEOREM UploadInOrder == Spec => []InOrder
<1>1. UploadInv => InOrder
  <2> SUFFICES ASSUME UploadInv, resent \cap torn = {}
               PROVE  Len(delivered) <= written /\ \A i \in 1..Len(delivered) : delivered[i] = i
    BY Zenon DEF InOrder
  <2>1. PICK cut \in Cuts : Sent(cut) /\ Delivers(cut)
    BY Zenon DEF UploadInv
  <2>2. CASE getSession = None
    BY <2>2 DEF UploadInv, UploadTypes
  <2>3. CASE getSession # None
    <3> DEFINE k == nextSeq[getSession]
               n == Len(delivered)
    <3>1. Resumes(getSession, k, n, cut)
      BY Zenon, <2>1, <2>3 DEF Delivers
    <3>2. \A i \in 1..n : delivered[i] = i
      BY Zenon, <3>1 DEF Resumes
    <3>s. delivered \in Seq(Nat) /\ data \in Seq(Nat)
      BY Zenon DEF UploadInv, UploadTypes
    <3>l. n \in Nat /\ Len(data) \in Nat
      BY <3>s
    <3>t. /\ k \in Nat /\ seq \in Nat /\ MaxWrites \in Nat /\ written \in Nat
          /\ cut \in [0..MaxWrites -> 0..MaxWrites]
      BY Zenon, <2>3, PipeAssumption DEF UploadInv, UploadTypes, Sessions, Cuts
    <3>3. k <= seq /\ seq <= MaxWrites /\ cut[seq] + Len(data) <= written
      BY Zenon, <3>1, <2>1 DEF Resumes, Sent
    <3>4. n = cut[k] \/ (k + 1 <= seq /\ n < cut[k + 1])
      <4>1. n # cut[k] => k < seq /\ n < cut[k + 1]
        BY Zenon, <3>1 DEF Resumes
      <4> HIDE DEF k, n
      <4> QED BY <4>1, <3>t, <3>l
    <3>5. \A i \in 0..seq : cut[i] \in Nat /\ cut[i] <= cut[seq]
      <4>1. \A i \in 0..seq : i <= seq /\ seq \in 0..seq /\ i \in 0..MaxWrites
        BY <3>t, <3>3
      <4>2. \A i \in 0..seq : cut[i] \in 0..MaxWrites /\ cut[i] <= cut[seq]
        BY Zenon, <4>1, <3>t, <2>1 DEF Sent
      <4>3. \A x \in 0..MaxWrites : x \in Nat
        BY <3>t
      <4> QED BY Zenon, <4>2, <4>3
    <3> HIDE DEF k, n
    <3>6. n <= cut[seq] /\ cut[seq] \in Nat
      <4>1. k \in 0..seq /\ seq \in 0..seq /\ (k + 1 <= seq => k + 1 \in 0..seq)
        BY <3>3, <3>t
      <4>2. cut[seq] \in Nat
        BY Zenon, <4>1, <3>5
      <4>3. CASE n = cut[k]
        BY Zenon, <4>1, <4>2, <4>3, <3>5
      <4>4. CASE k + 1 <= seq /\ n < cut[k + 1]
        <5>1. cut[k + 1] \in Nat /\ cut[k + 1] <= cut[seq] /\ n < cut[k + 1]
          BY Zenon, <4>1, <4>4, <3>5
        <5> QED BY <5>1, <4>2, <3>l
      <4> QED BY Zenon, <4>3, <4>4, <3>4
    <3>7. n <= written
      BY <3>3, <3>6, <3>t, <3>l
    <3> QED BY Zenon, <3>2, <3>7 DEF n
  <2> QED BY Zenon, <2>2, <2>3
<1>2. UploadInv /\ [Next]_vars => UploadInv'
  BY Zenon, UploadStep
<1> QED BY <1>1, <1>2, UploadInit, PTL DEF Spec
=============================================================================
